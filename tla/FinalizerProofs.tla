--------------------------- MODULE FinalizerProofs --------------------------
(***************************************************************************)
(* A Shim is let go only when its uninstall Jobs are on their way, for     *)
(* every set of nodes and shims, every lag of the cache, every fault and   *)
(* restart, in clusters where no node joins under an old name.             *)
(***************************************************************************)
EXTENDS UpdateProofs

\* Nodes that are gone stay away: nothing follows the version "not found".
GoneForGood ==
  \A n \in Nodes : \A i, k \in 1..Len(nodeV[n]) :
    i <= k /\ nodeV[n][i] = NoObj => nodeV[n][k] = NoObj

Releasing ==
  \/ srPc = "unfinalize"
  \/ srPc \in {"deploy", "label", "patch", "markfailed"} /\ srOp = "uninstall"

\* The loop of handleDeleteShim leaves a node behind only with its Job accepted
\* or with the node gone, and is over when the finalizer is taken off.
LoopServes ==
  /\ srPc = "unfinalize" => srTodo = {}
  /\ Releasing => \A n \in UninstallTargets :
                    n \in srTodo \/ n \in srApplied \/ Live(nodeV[n]) = NoObj

FinalizerInv == TypeOK /\ CopiesAgreeWithLive /\ GoneForGood /\ LoopServes

------------------------------------------------------------------------------
(* What a step does to the versions of a node.                              *)

\* A Node Update adds a version to a node that is there, or none.
LEMMA UpdateNodeVersions ==
  ASSUME TypeOK, NodeCopies, NEW c \in Clients, NEW n \in Nodes, NEW o \in NodeObj,
         NEW keep \in BOOLEAN, UpdateNode(c, n, o, keep), NEW m \in Nodes
  PROVE  \/ nodeV'[m] = nodeV[m]
         \/ Live(nodeV[m]) # NoObj /\ nodeV'[m] = Append(nodeV[m], o)
<1>1. nodeV \in [Nodes -> Versions(NodeObj)]
  BY DEF TypeOK, KubeTypeOK
<1>2. CASE <<c, n>> \in nodeCurrent /\ Live(nodeV[n]) # o
  <2>1. nodeV' = [nodeV EXCEPT ![n] = Append(@, o)]
    BY <1>2 DEF UpdateNode
  <2>2. Live(nodeV[n]) # NoObj
    BY <1>2 DEF NodeCopies, SameNode, Clients
  <2> QED
    BY <1>1, <2>1, <2>2
<1>3. CASE ~(<<c, n>> \in nodeCurrent /\ Live(nodeV[n]) # o)
  BY <1>3 DEF UpdateNode
<1> QED
  BY <1>2, <1>3

\* The versions of a node are delivered, collapsed by a restart, or followed by
\* another one.  Only AddNode follows "not found", only RemoveNode writes it.
LEMMA NodeVersions ==
  ASSUME TypeOK, NodeCopies, [Next]_vars, NEW m \in Nodes
  PROVE  \/ nodeV'[m] = nodeV[m]
         \/ Len(nodeV[m]) > 1 /\ nodeV'[m] = Tail(nodeV[m])
         \/ nodeV'[m] = <<Live(nodeV[m])>>
         \/ \E o \in NodeObj \cup {NoObj} :
              /\ nodeV'[m] = Append(nodeV[m], o)
              /\ Live(nodeV[m]) # NoObj \/ "nodeAdd" \in EnvOps
              /\ o # NoObj \/ "nodeGone" \in EnvOps
<1> USE NoObjAssumption
<1>0. nodeV \in [Nodes -> Versions(NodeObj)]
  BY DEF TypeOK, KubeTypeOK
<1>1. CASE SRStep
  <2>1. CASE updateNodeLabels
    <3>1. srCur \in Nodes /\ srCopy \in NodeObj
      BY <2>1 DEF updateNodeLabels, TypeOK, SRTypeOK
    <3> QED
      BY <2>1, <3>1, UpdateNodeVersions, FailedNodeUpdate DEF updateNodeLabels, Clients
  <2>2. CASE markNodeFailed
    <3>1. srCur \in Nodes /\ srCopy \in NodeObj
      BY <2>2 DEF markNodeFailed, TypeOK, SRTypeOK
    <3> QED
      BY <2>2, <3>1, UpdateNodeVersions, FailedNodeUpdate DEF markNodeFailed, Clients
  <2>3. CASE UNCHANGED nodeV
    BY <2>3
  <2> QED
    BY <1>1, <2>1, <2>2, <2>3 DEF SRStep, SRNext, SRNotFound, SRStart,
         updateStatus, SRRefetchNotFound, SRRefetch, handleDeployRuntimeClass,
         handleInstallShim, kubeVars, deployJobNodeNotFound, deployJobNoArtifact,
         deployJobOnNode, patchJob, patchJobRefused, removeFinalizerFromShim,
         ensureFinalizerForShim
<1>2. CASE JRStep
  <2>1. CASE JRWrite
    <3>1. jrJob[1] \in Nodes /\ jrCopy \in NodeObj
      BY <2>1 DEF JRWrite, TypeOK, JRTypeOK, JobIds
    <3> QED
      BY <2>1, <3>1, UpdateNodeVersions, FailedNodeUpdate DEF JRWrite, Clients
  <2>2. CASE UNCHANGED nodeV
    BY <2>2
  <2> QED
    BY <1>2, <2>1, <2>2 DEF JRStep, JRNext, JRNothing, JRStart, JRPanic, JRRecover
<1>3. CASE Deliver
  BY <1>0, <1>3 DEF Deliver, DeliverNode, DeliverShim, DeliverJob, DeliverRuntimeClass
<1>4. CASE Users
  <2>1. ASSUME NEW n \in Nodes, NEW o \in NodeObj \cup {NoObj}, WriteNode(n, o)
        PROVE  \/ nodeV'[m] = nodeV[m]
               \/ m = n /\ nodeV'[m] = Append(nodeV[m], o)
    BY <1>0, <2>1 DEF WriteNode
  <2>2. ASSUME NEW n \in Nodes, Live(nodeV[n]) # NoObj
        PROVE  /\ Live(nodeV[n]) \in NodeObj
               /\ [Live(nodeV[n]) EXCEPT !.sel = ~@] \in NodeObj
    BY <2>2, ReadTypes DEF NodeObj
  <2>3. [sel |-> TRUE, labels |-> [s \in Shims |-> "none"]] \in NodeObj
    BY DEF NodeObj, Labels
  <2>4. ASSUME NEW n \in Nodes, LabelNode(n) \/ TouchNode(n)
        PROVE  \/ nodeV'[m] = nodeV[m]
               \/ /\ Live(nodeV[m]) # NoObj
                  /\ \E o \in NodeObj : nodeV'[m] = Append(nodeV[m], o)
    BY <2>1, <2>2, <2>4 DEF LabelNode, TouchNode
  <2>5. ASSUME NEW n \in Nodes, RemoveNode(n)
        PROVE  \/ nodeV'[m] = nodeV[m]
               \/ /\ Live(nodeV[m]) # NoObj /\ "nodeGone" \in EnvOps
                  /\ nodeV'[m] = Append(nodeV[m], NoObj)
    BY <2>1, <2>5 DEF RemoveNode, Spend
  <2>6. ASSUME NEW n \in Nodes, AddNode(n)
        PROVE  \/ nodeV'[m] = nodeV[m]
               \/ /\ "nodeAdd" \in EnvOps
                  /\ \E o \in NodeObj : nodeV'[m] = Append(nodeV[m], o)
    BY <2>1, <2>3, <2>6 DEF AddNode, Spend
  <2>7. ASSUME NEW s \in Shims, CreateShim(s) \/ EditShim(s) \/ DeleteShim(s)
        PROVE  nodeV'[m] = nodeV[m]
    BY <2>7 DEF CreateShim, EditShim, DeleteShim, WriteShim
  <2> QED
    BY <1>4, <2>4, <2>5, <2>6, <2>7 DEF Users
<1>5. CASE Restart
  BY <1>5 DEF Restart
<1>6. CASE Cluster \/ ResyncStep \/ UNCHANGED vars
  BY <1>6 DEF Cluster, JobCompletes, JobFails, JobExpires, CollectJob,
       CollectRuntimeClass, ResyncStep, Resync, vars, kubeVars
<1> QED
  BY <1>1, <1>2, <1>3, <1>4, <1>5, <1>6 DEF Next, NextNoResync

\* The same for one sequence of versions.
LEMMA GoneVersions ==
  ASSUME NEW S, NEW q \in Versions(S), NEW r,
         \A i, k \in 1..Len(q) : i <= k /\ q[i] = NoObj => q[k] = NoObj,
         \/ r = q
         \/ Len(q) > 1 /\ r = Tail(q)
         \/ r = <<Live(q)>>
         \/ \E o \in S \cup {NoObj} : r = Append(q, o) /\ Live(q) # NoObj
  PROVE  /\ \A i, k \in 1..Len(r) : i <= k /\ r[i] = NoObj => r[k] = NoObj
         /\ Cached(q) = NoObj => Live(q) = NoObj
         /\ Live(q) = NoObj => Live(r) = NoObj
<1>1. q \in Seq(S \cup {NoObj}) /\ Len(q) \in Nat \ {0}
  BY DEF Versions
<1>2. Cached(q) = NoObj => Live(q) = NoObj
  BY <1>1 DEF Cached, Live
<1>3. CASE r = q
  BY <1>2, <1>3
<1>4. CASE Len(q) > 1 /\ r = Tail(q)
  BY <1>1, <1>2, <1>4 DEF Live
<1>5. CASE r = <<Live(q)>>
  BY <1>2, <1>5 DEF Live
<1>6. ASSUME NEW o \in S \cup {NoObj}, r = Append(q, o), Live(q) # NoObj
      PROVE  \A i, k \in 1..Len(r) : i <= k /\ r[i] = NoObj => r[k] = NoObj
  <2>1. /\ Len(r) = Len(q) + 1 /\ r[Len(q) + 1] = o
        /\ \A i \in 1..Len(q) : r[i] = q[i]
    BY <1>1, <1>6
  <2>2. \A i \in 1..Len(q) : q[i] # NoObj
    BY <1>1, <1>6 DEF Live
  <2> QED
    BY <1>1, <2>1, <2>2
<1> QED
  BY <1>2, <1>3, <1>4, <1>5, <1>6

\* Without AddNode, a node that is gone stays gone.
LEMMA GoneStep ==
  ASSUME TypeOK, NodeCopies, GoneForGood, [Next]_vars, "nodeAdd" \notin EnvOps
  PROVE  /\ GoneForGood'
         /\ \A n \in Nodes : /\ Cached(nodeV[n]) = NoObj => Live(nodeV[n]) = NoObj
                             /\ Live(nodeV[n]) = NoObj => Live(nodeV'[n]) = NoObj
<1> SUFFICES ASSUME NEW n \in Nodes
             PROVE  /\ \A i, k \in 1..Len(nodeV'[n]) :
                         i <= k /\ nodeV'[n][i] = NoObj => nodeV'[n][k] = NoObj
                    /\ Cached(nodeV[n]) = NoObj => Live(nodeV[n]) = NoObj
                    /\ Live(nodeV[n]) = NoObj => Live(nodeV'[n]) = NoObj
  BY DEF GoneForGood
<1>1. /\ nodeV[n] \in Versions(NodeObj)
      /\ \A i, k \in 1..Len(nodeV[n]) :
           i <= k /\ nodeV[n][i] = NoObj => nodeV[n][k] = NoObj
  BY DEF TypeOK, KubeTypeOK, GoneForGood
<1>2. \/ nodeV'[n] = nodeV[n]
      \/ Len(nodeV[n]) > 1 /\ nodeV'[n] = Tail(nodeV[n])
      \/ nodeV'[n] = <<Live(nodeV[n])>>
      \/ \E o \in NodeObj \cup {NoObj} :
           nodeV'[n] = Append(nodeV[n], o) /\ Live(nodeV[n]) # NoObj
  BY NodeVersions
<1> QED
  BY <1>1, <1>2, GoneVersions

------------------------------------------------------------------------------
(* The loop over the nodes.                                                 *)

\* Steps that leave the shim controller alone.
LEMMA LoopFrame ==
  ASSUME LoopServes, UNCHANGED srVars,
         \A n \in Nodes : Live(nodeV[n]) = NoObj => Live(nodeV'[n]) = NoObj
  PROVE  LoopServes'
BY DEF LoopServes, Releasing, UninstallTargets, Listed, srVars

\* The shim controller's steps.
LEMMA LoopSR ==
  ASSUME TypeOK, LoopServes, SRStep,
         \A n \in Nodes : /\ Cached(nodeV[n]) = NoObj => Live(nodeV[n]) = NoObj
                          /\ Live(nodeV[n]) = NoObj => Live(nodeV'[n]) = NoObj
  PROVE  LoopServes'
<1> USE DEF LoopServes, Releasing, UninstallTargets, Listed
<1>1. ASSUME NEW s \in Shims, SRNotFound(s) \/ SRStart(s) PROVE LoopServes'
  BY <1>1 DEF SRNotFound, SRStart, srVars
<1>2. CASE updateStatus \/ SRRefetchNotFound \/ handleDeployRuntimeClass
           \/ handleInstallShim \/ removeFinalizerFromShim
  BY <1>2 DEF updateStatus, SRRefetchNotFound, handleDeployRuntimeClass,
              handleInstallShim, removeFinalizerFromShim
<1>3. CASE SRRefetch
  BY <1>3 DEF SRRefetch
<1>4. ASSUME NEW n \in Nodes, deployJobNodeNotFound(n) PROVE LoopServes'
  BY <1>4 DEF deployJobNodeNotFound, NextNode
<1>5. ASSUME NEW n \in Nodes, deployJobNoArtifact(n) PROVE LoopServes'
  BY <1>5 DEF deployJobNoArtifact, NodeError, NextNode
<1>6. ASSUME NEW n \in Nodes, deployJobOnNode(n) PROVE LoopServes'
  BY <1>6 DEF deployJobOnNode
<1>7. CASE updateNodeLabels \/ patchJobRefused
  BY <1>7 DEF updateNodeLabels, patchJobRefused
<1>8. CASE patchJob
  BY <1>8 DEF patchJob, NextNode
<1>9. CASE markNodeFailed
  BY <1>9 DEF markNodeFailed, NodeError, NextNode, TypeOK, SRTypeOK, Ops
<1>10. CASE ensureFinalizerForShim
  BY <1>10 DEF ensureFinalizerForShim, SRReset
<1> QED
  BY <1>1, <1>2, <1>3, <1>4, <1>5, <1>6, <1>7, <1>8, <1>9, <1>10 DEF SRStep, SRNext

\* Every step keeps the invariant.
LEMMA FinalizerStep ==
  ASSUME FinalizerInv, [Next]_vars, "nodeAdd" \notin EnvOps
  PROVE  FinalizerInv'
<1>1. TypeOK' /\ CopiesAgreeWithLive'
  BY TypeStep, NodeCopiesStep, ShimCopyStep DEF FinalizerInv, CopiesAgreeWithLive
<1>2. /\ GoneForGood'
      /\ \A n \in Nodes : /\ Cached(nodeV[n]) = NoObj => Live(nodeV[n]) = NoObj
                          /\ Live(nodeV[n]) = NoObj => Live(nodeV'[n]) = NoObj
  BY GoneStep DEF FinalizerInv, CopiesAgreeWithLive
<1>3. LoopServes'
  <2>1. CASE SRStep
    BY <1>2, <2>1, LoopSR DEF FinalizerInv
  <2>2. CASE UNCHANGED srVars
    BY <1>2, <2>2, LoopFrame DEF FinalizerInv
  <2>3. CASE Restart
    BY <2>3 DEF Restart, SRReset, LoopServes, Releasing
  <2> QED
    BY <2>1, <2>2, <2>3 DEF Next, NextNoResync, JRStep, Deliver, Cluster, Users,
                            ResyncStep, vars
<1> QED
  BY <1>1, <1>2, <1>3 DEF FinalizerInv

------------------------------------------------------------------------------
(* Who lets a Shim go.                                                      *)

\* Of all steps, only removeFinalizerFromShim takes a Shim that is marked as
\* deleted from the API server.
LEMMA OnlyUnfinalizeReleases ==
  ASSUME TypeOK, CopiesAgreeWithLive, [Next]_vars, NEW s \in Shims,
         Live(shimV[s]) # NoObj, Live(shimV[s]).del, Live(shimV'[s]) = NoObj
  PROVE  srPc = "unfinalize"
<1> USE NoObjAssumption
<1>1. Live(shimV'[s]) # Live(shimV[s])
  OBVIOUS
<1>2. CASE SRStep
  <2>1. CASE updateStatus
    <3>1. srShim \in Shims /\ srObj \in ShimObj /\ srPc = "status"
      BY <2>1 DEF updateStatus, TypeOK, SRTypeOK
    <3>2. /\ s = srShim /\ srShim \in shimCurrent
          /\ Live(shimV'[s]) = IF srObj.del /\ ~srObj.fin THEN NoObj ELSE srObj
      BY <1>1, <2>1, <3>1, UpdateShimFacts, FailedShimUpdate DEF updateStatus
    <3>3. Live(shimV[s]) \in StoredShim /\ srObj.fin = Live(shimV[s]).fin
      BY <3>1, <3>2, ReadTypes DEF CopiesAgreeWithLive, ShimCopy
    <3> QED
      BY <3>1, <3>2, <3>3 DEF StoredShim
  <2>2. CASE ensureFinalizerForShim
    <3> DEFINE o == [srObj EXCEPT !.fin = TRUE]
    <3>1. srShim \in Shims /\ srObj \in ShimObj
      BY <2>2 DEF ensureFinalizerForShim, TypeOK, SRTypeOK
    <3>2. o \in ShimObj /\ o.fin
      BY <3>1 DEF ShimObj
    <3>3. UpdateShim(srShim, o)
      BY <1>1, <2>2, FailedShimUpdate DEF ensureFinalizerForShim
    <3>4. Live(shimV'[s]) = o
      BY <1>1, <3>1, <3>2, <3>3, UpdateShimFacts
    <3> QED
      BY <3>2, <3>4
  <2>3. CASE removeFinalizerFromShim
    BY <2>3 DEF removeFinalizerFromShim
  <2>4. CASE UNCHANGED shimV
    BY <1>1, <2>4
  <2> QED
    BY <1>2, <2>1, <2>2, <2>3, <2>4 DEF SRStep, SRNext, SRNotFound, SRStart,
         SRRefetchNotFound, SRRefetch, handleDeployRuntimeClass, handleInstallShim,
         kubeVars, deployJobNodeNotFound, deployJobNoArtifact, deployJobOnNode,
         updateNodeLabels, patchJob, patchJobRefused, markNodeFailed
<1>3. CASE Users
  <2>1. ASSUME NEW t \in Shims, NEW o \in StoredShim \cup {NoObj}, WriteShim(t, o)
        PROVE  s = t /\ o = NoObj
    BY <1>1, <2>1, WriteShimFacts
  <2>2. ASSUME NEW t \in Shims, CreateShim(t) PROVE FALSE
    <3>1. PICK sp \in ShimSpecs :
            WriteShim(t, [uid |-> uids[t] + 1, spec |-> sp, del |-> FALSE,
                          fin |-> FALSE, nodes |-> 0, ready |-> 0])
      BY <2>2 DEF CreateShim
    <3>2. [uid |-> uids[t] + 1, spec |-> sp, del |-> FALSE, fin |-> FALSE,
           nodes |-> 0, ready |-> 0] \in StoredShim
      BY DEF StoredShim, ShimObj, TypeOK, KubeTypeOK
    <3> QED
      BY <2>1, <3>1, <3>2 DEF StoredShim
  <2>3. ASSUME NEW t \in Shims, EditShim(t) PROVE FALSE
    <3>1. PICK sp \in ShimSpecs : WriteShim(t, [Live(shimV[t]) EXCEPT !.spec = sp])
      BY <2>3 DEF EditShim
    <3>2. [Live(shimV[t]) EXCEPT !.spec = sp] \in StoredShim
      BY <2>3, ReadTypes DEF EditShim, StoredShim, ShimObj
    <3> QED
      BY <2>1, <3>1, <3>2 DEF StoredShim
  <2>4. ASSUME NEW t \in Shims, DeleteShim(t) PROVE FALSE
    <3> DEFINE o == IF Live(shimV[t]).fin
                    THEN [Live(shimV[t]) EXCEPT !.del = TRUE] ELSE NoObj
    <3>1. o \in StoredShim \cup {NoObj}
      BY <2>4, ReadTypes DEF DeleteShim, StoredShim, ShimObj
    <3> QED
      BY <2>1, <2>4, <3>1 DEF DeleteShim
  <2>5. CASE UNCHANGED shimV
    BY <1>1, <2>5
  <2> QED
    BY <1>3, <2>2, <2>3, <2>4, <2>5 DEF Users, LabelNode, TouchNode, RemoveNode,
                                        AddNode, WriteNode
<1>4. CASE Deliver
  <2>1. ASSUME NEW t \in Shims, DeliverShim(t) PROVE Live(shimV'[s]) = Live(shimV[s])
    BY <2>1, VersionsTail DEF DeliverShim, TypeOK, KubeTypeOK
  <2>2. CASE UNCHANGED shimV
    BY <1>1, <2>2
  <2> QED
    BY <1>1, <1>4, <2>1, <2>2 DEF Deliver, DeliverNode, DeliverJob, DeliverRuntimeClass
<1>5. CASE Restart
  BY <1>1, <1>5 DEF Restart, Live
<1>6. CASE JRStep \/ Cluster \/ ResyncStep \/ UNCHANGED vars
  BY <1>1, <1>6 DEF vars, kubeVars, JRStep, JRNext, JRNothing, JRStart, JRPanic,
       JRWrite, JRRecover, Cluster, JobCompletes, JobFails, JobExpires,
       CollectJob, CollectRuntimeClass, ResyncStep, Resync
<1> QED
  BY <1>2, <1>3, <1>4, <1>5, <1>6 DEF Next, NextNoResync

\* The step that lets a Shim go finds the loop over.
LEMMA ReleaseServed ==
  ASSUME FinalizerInv, [Next]_vars, NEW s \in Shims,
         Live(shimV[s]) # NoObj, Live(shimV[s]).del, Live(shimV'[s]) = NoObj
  PROVE  \A n \in UninstallTargets : n \in srApplied \/ Live(nodeV[n]) = NoObj
BY OnlyUnfinalizeReleases DEF FinalizerInv, LoopServes, Releasing

------------------------------------------------------------------------------
(* Where the manager starts.                                                *)

\* An empty cluster.
LEMMA FinalizerInit == Init => FinalizerInv
<1> SUFFICES ASSUME Init PROVE FinalizerInv
  OBVIOUS
<1>1. TypeOK
  BY TypeInit
<1>2. CopiesAgreeWithLive
  BY DEF Init, SRInit, CopiesAgreeWithLive, NodeCopies, ShimCopy, ReleasesOnlyDeleted
<1>3. GoneForGood
  BY DEF Init, GoneForGood
<1>4. LoopServes
  BY DEF Init, SRInit, LoopServes, Releasing
<1> QED
  BY <1>1, <1>2, <1>3, <1>4 DEF FinalizerInv

\* A cluster with everything installed.
LEMMA TypeInstalled == InitInstalled => TypeOK
<1> USE NoObjAssumption
<1> SUFFICES ASSUME InitInstalled PROVE TypeOK
  OBVIOUS
<1>1. PICK sp \in ShimSpecs :
    /\ nodeV = [n \in Nodes |-> <<[sel |-> TRUE,
                                  labels |-> [s \in Shims |-> "provisioned"]]>>]
    /\ shimV = [s \in Shims |->
                  <<[uid |-> 1, spec |-> sp, del |-> FALSE, fin |-> TRUE,
                     nodes |-> Cardinality(Nodes), ready |-> Cardinality(Nodes)]>>]
    /\ jobV = [j \in JobIds |->
                 IF j[3] = "install"
                 THEN <<[st |-> "complete", owner |-> 1,
                         tmpl |-> createJobManifest(sp, j[1], "install")]>>
                 ELSE <<NoObj>>]
    /\ rcV \in [RuntimeClasses ->
                  {<<[handler |-> sp.handler, nodeSelector |-> sp.nodeSelector,
                      owner |-> <<s, 1>>]>> : s \in Shims}]
  BY DEF InitInstalled
<1>2. nodeV \in [Nodes -> Versions(NodeObj)]
  <2>1. [sel |-> TRUE, labels |-> [s \in Shims |-> "provisioned"]] \in NodeObj
    BY DEF NodeObj, Labels
  <2> QED
    BY <1>1, <2>1, VersionsSingle
<1>3. shimV \in [Shims -> Versions(StoredShim)]
  <2>1. Cardinality(Nodes) \in Nat
    BY NodesAssumption, FS_CardinalityType
  <2>2. [uid |-> 1, spec |-> sp, del |-> FALSE, fin |-> TRUE,
         nodes |-> Cardinality(Nodes), ready |-> Cardinality(Nodes)] \in StoredShim
    BY <2>1 DEF StoredShim, ShimObj
  <2> QED
    BY <1>1, <2>2, VersionsSingle
<1>4. jobV \in [JobIds -> Versions(JobObj)]
  <2>1. ASSUME NEW j \in JobIds
        PROVE  [st |-> "complete", owner |-> 1,
                tmpl |-> createJobManifest(sp, j[1], "install")] \in JobObj
    <3>1. createJobManifest(sp, j[1], "install") \in Templates
      BY DEF Templates, JobIds, Ops
    <3> QED
      BY <3>1 DEF JobObj
  <2> QED
    BY <1>1, <2>1, VersionsSingle
<1>5. rcV \in [RuntimeClasses -> Versions(RuntimeClassObj)]
  <2>1. ASSUME NEW s \in Shims
        PROVE  [handler |-> sp.handler, nodeSelector |-> sp.nodeSelector,
                owner |-> <<s, 1>>] \in RuntimeClassObj
    BY SpecsAssumption DEF RuntimeClassObj, Handlers
  <2> QED
    BY <1>1, <2>1, VersionsSingle
<1>6. /\ nodeCurrent = {} /\ shimCurrent = {} /\ shimQ = {} /\ jobQ = {}
      /\ host = [k \in Nodes \X Shims |-> TRUE] /\ uids = [s \in Shims |-> 1]
      /\ budget = MaxBudget /\ SRInit /\ JRInit
  BY DEF InitInstalled
<1>7. KubeTypeOK
  BY <1>2, <1>3, <1>4, <1>5, <1>6, MaxBudgetAssumption DEF KubeTypeOK
<1> QED
  BY <1>6, <1>7 DEF TypeOK, SRTypeOK, JRTypeOK, SRInit, JRInit, SRPcs, JRPcs,
                    Labels, Ops

\* The invariant holds there as well.
LEMMA FinalizerInstalled == InitInstalled => FinalizerInv
<1> SUFFICES ASSUME InitInstalled PROVE FinalizerInv
  OBVIOUS
<1>1. /\ nodeV = [n \in Nodes |-> <<[sel |-> TRUE,
                                    labels |-> [s \in Shims |-> "provisioned"]]>>]
      /\ nodeCurrent = {} /\ shimCurrent = {} /\ SRInit
  BY DEF InitInstalled
<1>2. CopiesAgreeWithLive
  BY <1>1 DEF SRInit, CopiesAgreeWithLive, NodeCopies, ShimCopy, ReleasesOnlyDeleted
<1>3. GoneForGood
  BY <1>1 DEF GoneForGood
<1>4. LoopServes
  BY <1>1 DEF SRInit, LoopServes, Releasing
<1> QED
  BY <1>2, <1>3, <1>4, TypeInstalled DEF FinalizerInv

\* A Shim marked as deleted leaves the API server only when, for every node on
\* which the call of handleDeleteShim listed a label of it, that call's
\* uninstall Job was accepted or the node is gone: however stale the list and
\* the cache, whatever fails or restarts in between, from an empty cluster and
\* from one with everything installed.  Nodes do not join under an old name.
THEOREM FinalizerHeld ==
  ASSUME "nodeAdd" \notin EnvOps
  PROVE  /\ Spec => FinalizerHeldUntilUninstallDispatched
         /\ FairSpecInstalled => FinalizerHeldUntilUninstallDispatched
<1>1. FinalizerInv /\ [Next]_vars => FinalizerInv'
  BY FinalizerStep
<1>2. FinalizerInv /\ [Next]_vars =>
        [\A s \in Shims :
           /\ Live(shimV[s]) # NoObj /\ Live(shimV[s]).del
           /\ Live(shimV'[s]) = NoObj
           => \A n \in UninstallTargets :
                n \in srApplied \/ Live(nodeV[n]) = NoObj]_vars
  BY ReleaseServed
<1>3. [NextNoResync \/ QuietResync]_vars => [Next]_vars
  BY DEF Next, QuietResync
<1> QED
  BY <1>1, <1>2, <1>3, FinalizerInit, FinalizerInstalled, PTL
     DEF Spec, FairSpecInstalled, FinalizerHeldUntilUninstallDispatched
=============================================================================
