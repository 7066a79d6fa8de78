---------------------------- MODULE UpdateProofs ----------------------------
(***************************************************************************)
(* Both controllers send whole objects back to the API server from copies  *)
(* taken out of a cache that lags behind.  The theorems here say that      *)
(* these Updates undo nobody else's work, for every set of nodes and       *)
(* shims, every lag and every number of environment steps.                 *)
(***************************************************************************)
EXTENDS TypeProofs

------------------------------------------------------------------------------
(* What the client's calls do to live objects and to the copies.            *)

\* A Node Update changes the live node only from a current copy, and then
\* every other copy of it is stale.
LEMMA UpdateNodeFacts ==
  ASSUME TypeOK, NEW c \in Clients, NEW n \in Nodes, NEW o \in NodeObj,
         NEW keep \in BOOLEAN, UpdateNode(c, n, o, keep)
  PROVE  /\ nodeCurrent' \subseteq nodeCurrent
         /\ ~keep => <<c, n>> \notin nodeCurrent'
         /\ \A m \in Nodes :
              \/ /\ Live(nodeV'[m]) = Live(nodeV[m])
                 /\ Len(nodeV'[m]) = Len(nodeV[m])
              \/ /\ m = n /\ <<c, n>> \in nodeCurrent
                 /\ Live(nodeV'[m]) = o
                 /\ \A d \in Clients : <<d, n>> \in nodeCurrent' => d = c
<1>1. nodeV \in [Nodes -> Versions(NodeObj)]
  BY DEF TypeOK, KubeTypeOK
<1>2. CASE <<c, n>> \in nodeCurrent /\ Live(nodeV[n]) # o
  <2>1. /\ nodeV' = [nodeV EXCEPT ![n] = Append(@, o)]
        /\ nodeCurrent' = (nodeCurrent \ (Clients \X {n}))
                            \cup {d \in {<<c, n>>} : keep}
    BY <1>2 DEF UpdateNode
  <2>2. Live(nodeV'[n]) = o
    BY <1>1, <2>1, VersionsAppend
  <2>3. \A m \in Nodes : m # n => nodeV'[m] = nodeV[m]
    BY <1>1, <2>1
  <2> QED
    BY <1>2, <2>1, <2>2, <2>3
<1>3. CASE ~(<<c, n>> \in nodeCurrent /\ Live(nodeV[n]) # o)
  <2>1. /\ nodeV' = nodeV
        /\ nodeCurrent' = {d \in nodeCurrent : keep \/ d # <<c, n>>}
    BY <1>3 DEF UpdateNode
  <2> QED
    BY <2>1
<1> QED
  BY <1>2, <1>3

\* A Shim Update changes the live Shim only from a current copy, and is the
\* last use of that copy.
LEMMA UpdateShimFacts ==
  ASSUME TypeOK, NEW s \in Shims, NEW o \in ShimObj, UpdateShim(s, o)
  PROVE  /\ shimCurrent' = shimCurrent \ {s}
         /\ \A t \in Shims :
              Live(shimV'[t]) =
                IF t = s /\ s \in shimCurrent /\ Live(shimV[s]) # o
                THEN IF o.del /\ ~o.fin THEN NoObj ELSE o
                ELSE Live(shimV[t])
<1> DEFINE e == IF o.del /\ ~o.fin THEN NoObj ELSE o
<1>1. shimV \in [Shims -> Versions(StoredShim)] /\ shimCurrent' = shimCurrent \ {s}
  BY DEF TypeOK, KubeTypeOK, UpdateShim
<1>2. e \in StoredShim \cup {NoObj}
  BY DEF StoredShim, ShimObj
<1>3. CASE s \in shimCurrent /\ Live(shimV[s]) # o
  <2>1. shimV' = [shimV EXCEPT ![s] = Append(@, e)]
    BY <1>3 DEF UpdateShim
  <2>2. Live(shimV'[s]) = e
    BY <1>1, <1>2, <2>1, VersionsAppend
  <2>3. \A t \in Shims : t # s => shimV'[t] = shimV[t]
    BY <1>1, <2>1
  <2> QED
    BY <1>1, <1>3, <2>2, <2>3
<1>4. CASE ~(s \in shimCurrent /\ Live(shimV[s]) # o)
  <2>1. shimV' = shimV
    BY <1>4 DEF UpdateShim
  <2> QED
    BY <1>1, <1>4, <2>1
<1> QED
  BY <1>3, <1>4

\* A Node Update that fails writes nothing; the copy is treated as after a
\* refusal.
LEMMA FailedNodeUpdate ==
  ASSUME NEW c, NEW n, NEW keep \in BOOLEAN, UpdateNodeFails(c, n, keep)
  PROVE  /\ nodeV' = nodeV /\ nodeCurrent' \subseteq nodeCurrent
         /\ ~keep => <<c, n>> \notin nodeCurrent'
BY DEF UpdateNodeFails

\* The same for a Shim Update.
LEMMA FailedShimUpdate ==
  ASSUME NEW s, UpdateShimFails(s)
  PROVE  shimV' = shimV /\ shimCurrent' = shimCurrent \ {s}
BY DEF UpdateShimFails

\* A user's write replaces the live object and makes every copy stale.
LEMMA WriteNodeFacts ==
  ASSUME TypeOK, NEW n \in Nodes, NEW o, WriteNode(n, o)
  PROVE  /\ nodeCurrent' = nodeCurrent \ (Clients \X {n})
         /\ \A m \in Nodes : m # n => nodeV'[m] = nodeV[m]
         /\ UNCHANGED <<shimV, shimCurrent, uids>>
BY DEF WriteNode, TypeOK, KubeTypeOK

\* The same for a Shim.
LEMMA WriteShimFacts ==
  ASSUME TypeOK, NEW s \in Shims, NEW o \in StoredShim \cup {NoObj},
         WriteShim(s, o)
  PROVE  /\ shimCurrent' = shimCurrent \ {s}
         /\ Live(shimV'[s]) = o
         /\ \A t \in Shims : t # s => shimV'[t] = shimV[t]
         /\ UNCHANGED <<nodeV, nodeCurrent>>
BY VersionsAppend DEF WriteShim, TypeOK, KubeTypeOK

------------------------------------------------------------------------------
(* Copies of nodes.                                                         *)

\* A step keeps the node copies in order if it changes no live node for which
\* a copy stays current, and leaves the copies alone.
LEMMA NodeCopiesFrame ==
  ASSUME NodeCopies, nodeCurrent' \subseteq nodeCurrent,
         \A n \in Nodes : Live(nodeV'[n]) = Live(nodeV[n])
                          \/ nodeCurrent' \cap (Clients \X {n}) = {},
         UNCHANGED <<srCur, srCopy, srShim, jrVars>>
  PROVE  NodeCopies'
<1> SUFFICES ASSUME NEW n \in Nodes
             PROVE  /\ <<"sr", n>> \in nodeCurrent' =>
                         n = srCur' /\ SameNode(srCopy, n, srShim)'
                    /\ <<"jr", n>> \in nodeCurrent' =>
                         /\ jrPc' = "write" /\ n = jrJob'[1]
                         /\ SameNode(jrCopy, n, jrJob[2])'
  BY DEF NodeCopies
<1>1. CASE Live(nodeV'[n]) = Live(nodeV[n])
  BY <1>1 DEF NodeCopies, SameNode, jrVars
<1>2. CASE nodeCurrent' \cap (Clients \X {n}) = {}
  <2>1. <<"sr", n>> \notin nodeCurrent' /\ <<"jr", n>> \notin nodeCurrent'
    BY <1>2 DEF Clients
  <2> QED
    BY <2>1
<1> QED
  BY <1>1, <1>2

\* The shim controller's steps.
LEMMA NodeCopiesSR ==
  ASSUME TypeOK, NodeCopies, SRStep PROVE NodeCopies'
<1> USE NoObjAssumption
<1>0. UNCHANGED jrVars
  BY DEF SRStep
<1>a. ASSUME NEW s \in Shims, SRNotFound(s) \/ SRStart(s) PROVE NodeCopies'
  <2>1. CASE SRNotFound(s)
    BY <1>0, <2>1, NodeCopiesFrame DEF SRNotFound, srVars
  <2>2. CASE SRStart(s)
    <3>1. \A n \in Nodes : <<"sr", n>> \notin nodeCurrent
      BY <2>2 DEF SRStart, NodeCopies, TypeOK, SRTypeOK
    <3> QED
      BY <1>0, <2>2, <3>1 DEF SRStart, NodeCopies, SameNode, jrVars
  <2> QED
    BY <1>a, <2>1, <2>2
<1>b. ASSUME \/ updateStatus \/ SRRefetchNotFound \/ SRRefetch
             \/ handleDeployRuntimeClass \/ handleInstallShim
             \/ removeFinalizerFromShim
      PROVE  NodeCopies'
  <2>1. UNCHANGED <<nodeV, nodeCurrent, srCur, srCopy, srShim>>
    BY <1>b DEF updateStatus, SRRefetchNotFound, SRRefetch, kubeVars,
         handleDeployRuntimeClass, handleInstallShim, removeFinalizerFromShim
  <2> QED
    BY <1>0, <2>1, NodeCopiesFrame
<1>c. ASSUME NEW n \in Nodes, deployJobNodeNotFound(n) \/ deployJobNoArtifact(n)
      PROVE  NodeCopies'
  <2>1. \A m \in Nodes : <<"sr", m>> \notin nodeCurrent
    BY <1>c DEF deployJobNodeNotFound, deployJobNoArtifact, NodeCopies, TypeOK, SRTypeOK
  <2>2. UNCHANGED <<nodeV, nodeCurrent>>
    BY <1>c DEF deployJobNodeNotFound, deployJobNoArtifact, kubeVars
  <2> QED
    BY <1>0, <2>1, <2>2 DEF NodeCopies, SameNode, jrVars
<1>d. ASSUME NEW n \in Nodes, deployJobOnNode(n) PROVE NodeCopies'
  <2>1. \A m \in Nodes : <<"sr", m>> \notin nodeCurrent
    BY <1>d DEF deployJobOnNode, NodeCopies, TypeOK, SRTypeOK
  <2>2. /\ \A m \in Nodes : <<"jr", m>> \in nodeCurrent' <=> <<"jr", m>> \in nodeCurrent
        /\ \A m \in Nodes : <<"sr", m>> \in nodeCurrent' => m = n /\ Len(nodeV[n]) = 1
    BY <1>d, <2>1 DEF deployJobOnNode, GetNode
  <2>3. Len(nodeV[n]) = 1 => Cached(nodeV[n]) = Live(nodeV[n])
    BY DEF Cached, Live
  <2>4. Cached(nodeV[n]) \in NodeObj /\ srShim \in Shims
    BY <1>d, ReadTypes DEF deployJobOnNode, TypeOK, SRTypeOK
  <2>5. Len(nodeV[n]) = 1 => SameNode(srCopy', n, srShim)
    BY <1>d, <2>3, <2>4 DEF deployJobOnNode, SameNode, NodeObj
  <2>6. UNCHANGED <<nodeV, srShim>> /\ srCur' = n
    BY <1>d DEF deployJobOnNode
  <2>7. \A m \in Nodes : <<"sr", m>> \in nodeCurrent' =>
           m = srCur' /\ SameNode(srCopy, m, srShim)'
    BY <2>2, <2>5, <2>6 DEF SameNode
  <2> QED
    BY <1>0, <2>2, <2>6, <2>7 DEF NodeCopies, SameNode, jrVars
<1>e. ASSUME updateNodeLabels PROVE NodeCopies'
  <2>1. srCur \in Nodes /\ srCopy \in NodeObj
    BY <1>e DEF updateNodeLabels, TypeOK, SRTypeOK
  <2>2. /\ nodeCurrent' \subseteq nodeCurrent
        /\ \A m \in Nodes :
             \/ Live(nodeV'[m]) = Live(nodeV[m])
             \/ /\ m = srCur /\ Live(nodeV'[m]) = srCopy
                /\ <<"jr", m>> \notin nodeCurrent'
    BY <1>e, <2>1, UpdateNodeFacts, FailedNodeUpdate DEF updateNodeLabels, Clients
  <2>3. UNCHANGED <<srCur, srCopy, srShim>>
    BY <1>e DEF updateNodeLabels
  <2>4. ASSUME NEW m \in Nodes, <<"sr", m>> \in nodeCurrent'
        PROVE  m = srCur' /\ SameNode(srCopy, m, srShim)'
    BY <2>1, <2>2, <2>3, <2>4 DEF NodeCopies, SameNode
  <2>5. ASSUME NEW m \in Nodes, <<"jr", m>> \in nodeCurrent'
        PROVE  /\ jrPc' = "write" /\ m = jrJob'[1]
               /\ SameNode(jrCopy, m, jrJob[2])'
    BY <1>0, <2>2, <2>5 DEF NodeCopies, SameNode, jrVars
  <2> QED
    BY <2>4, <2>5 DEF NodeCopies
<1>f. ASSUME patchJob PROVE NodeCopies'
  <2>1. \A m \in Nodes : <<"sr", m>> \notin nodeCurrent'
    BY <1>f DEF patchJob, NodeCopies
  <2>2. nodeCurrent' \subseteq nodeCurrent /\ UNCHANGED nodeV
    BY <1>f DEF patchJob
  <2> QED
    BY <1>0, <2>1, <2>2 DEF NodeCopies, SameNode, jrVars
<1>g. ASSUME patchJobRefused PROVE NodeCopies'
  <2>1. srCopy \in NodeObj /\ srCopy' = [srCopy EXCEPT !.labels[srShim] = "failed"]
    BY <1>g DEF patchJobRefused, TypeOK, SRTypeOK
  <2>2. /\ srCopy'.sel = srCopy.sel
        /\ \A s \in Shims \ {srShim} : srCopy'.labels[s] = srCopy.labels[s]
    BY <2>1 DEF NodeObj
  <2>3. UNCHANGED <<nodeV, nodeCurrent, srCur, srShim>>
    BY <1>g DEF patchJobRefused
  <2> QED
    BY <1>0, <2>2, <2>3 DEF NodeCopies, SameNode, jrVars
<1>h. ASSUME markNodeFailed PROVE NodeCopies'
  <2>1. srCur \in Nodes /\ srCopy \in NodeObj
    BY <1>h DEF markNodeFailed, TypeOK, SRTypeOK
  <2>2. /\ nodeCurrent' \subseteq nodeCurrent
        /\ <<"sr", srCur>> \notin nodeCurrent'
        /\ \A m \in Nodes :
             \/ Live(nodeV'[m]) = Live(nodeV[m])
             \/ <<"jr", m>> \notin nodeCurrent'
    BY <1>h, <2>1, UpdateNodeFacts, FailedNodeUpdate DEF markNodeFailed, Clients
  <2>3. \A m \in Nodes : <<"sr", m>> \notin nodeCurrent'
    BY <2>2 DEF NodeCopies
  <2>4. ASSUME NEW m \in Nodes, <<"jr", m>> \in nodeCurrent'
        PROVE  /\ jrPc' = "write" /\ m = jrJob'[1]
               /\ SameNode(jrCopy, m, jrJob[2])'
    BY <1>0, <2>2, <2>4 DEF NodeCopies, SameNode, jrVars
  <2> QED
    BY <2>3, <2>4 DEF NodeCopies
<1>i. ASSUME ensureFinalizerForShim PROVE NodeCopies'
  <2>1. \A m \in Nodes : <<"sr", m>> \notin nodeCurrent
    BY <1>i DEF ensureFinalizerForShim, NodeCopies, TypeOK, SRTypeOK
  <2>2. UNCHANGED <<nodeV, nodeCurrent>>
    BY <1>i DEF ensureFinalizerForShim
  <2> QED
    BY <1>0, <2>1, <2>2 DEF NodeCopies, SameNode, jrVars
<1> QED
  BY <1>a, <1>b, <1>c, <1>d, <1>e, <1>f, <1>g, <1>h, <1>i DEF SRStep, SRNext

\* The job controller's steps.
LEMMA NodeCopiesJR ==
  ASSUME TypeOK, NodeCopies, JRStep PROVE NodeCopies'
<1> USE NoObjAssumption
<1>0. UNCHANGED <<srCur, srCopy, srShim>>
  BY DEF JRStep, srVars
<1>1. ASSUME NEW j \in JobIds, JRNothing(j) PROVE NodeCopies'
  BY <1>0, <1>1, NodeCopiesFrame DEF JRNothing
<1>2. ASSUME NEW j \in JobIds, JRPanic(j) PROVE NodeCopies'
  <2>1. \A m \in Nodes : <<"jr", m>> \notin nodeCurrent
    BY <1>2 DEF JRPanic, NodeCopies
  <2> QED
    BY <1>0, <1>2, <2>1 DEF JRPanic, NodeCopies, SameNode
<1>3. ASSUME NEW j \in JobIds, JRStart(j) PROVE NodeCopies'
  <2> DEFINE n == j[1]
  <2>1. n \in Nodes /\ j[2] \in Shims
    BY DEF JobIds
  <2>2. \A m \in Nodes : <<"jr", m>> \notin nodeCurrent
    BY <1>3 DEF JRStart, NodeCopies
  <2>3. /\ \A m \in Nodes : <<"sr", m>> \in nodeCurrent' <=> <<"sr", m>> \in nodeCurrent
        /\ \A m \in Nodes : <<"jr", m>> \in nodeCurrent' => m = n /\ Len(nodeV[n]) = 1
    BY <1>3, <2>1, <2>2 DEF JRStart, GetNode
  <2>4. Len(nodeV[n]) = 1 => Cached(nodeV[n]) = Live(nodeV[n])
    BY DEF Cached, Live
  <2>5. Cached(nodeV[n]) \in NodeObj
    BY <1>3, <2>1, ReadTypes DEF JRStart
  <2>6. Len(nodeV[n]) = 1 => SameNode(jrCopy', n, j[2])
    BY <1>3, <2>1, <2>4, <2>5 DEF JRStart, SameNode, NodeObj
  <2>7. UNCHANGED nodeV /\ jrJob' = j /\ jrPc' = "write"
    BY <1>3 DEF JRStart
  <2>8. \A m \in Nodes : <<"jr", m>> \in nodeCurrent' =>
           m = jrJob'[1] /\ SameNode(jrCopy, m, jrJob[2])'
    BY <2>3, <2>6, <2>7 DEF SameNode
  <2> QED
    BY <1>0, <2>3, <2>7, <2>8 DEF NodeCopies, SameNode
<1>4. ASSUME JRWrite PROVE NodeCopies'
  <2>1. jrJob[1] \in Nodes /\ jrCopy \in NodeObj
    BY <1>4 DEF JRWrite, TypeOK, JRTypeOK, JobIds
  <2>2. /\ nodeCurrent' \subseteq nodeCurrent
        /\ <<"jr", jrJob[1]>> \notin nodeCurrent'
        /\ \A m \in Nodes :
             \/ Live(nodeV'[m]) = Live(nodeV[m])
             \/ <<"sr", m>> \notin nodeCurrent'
    BY <1>4, <2>1, UpdateNodeFacts, FailedNodeUpdate DEF JRWrite, Clients
  <2>3. \A m \in Nodes : <<"jr", m>> \notin nodeCurrent'
    BY <2>2 DEF NodeCopies
  <2>4. ASSUME NEW m \in Nodes, <<"sr", m>> \in nodeCurrent'
        PROVE  m = srCur' /\ SameNode(srCopy, m, srShim)'
    BY <1>0, <2>2, <2>4 DEF NodeCopies, SameNode
  <2> QED
    BY <2>3, <2>4 DEF NodeCopies
<1>5. ASSUME JRRecover PROVE NodeCopies'
  <2>1. \A m \in Nodes : <<"jr", m>> \notin nodeCurrent
    BY <1>5 DEF JRRecover, NodeCopies
  <2> QED
    BY <1>0, <1>5, <2>1 DEF JRRecover, NodeCopies, SameNode
<1> QED
  BY <1>1, <1>2, <1>3, <1>4, <1>5 DEF JRStep, JRNext

\* Every step leaves the node copies in order.
LEMMA NodeCopiesStep ==
  ASSUME TypeOK, NodeCopies, [Next]_vars PROVE NodeCopies'
<1>1. CASE UNCHANGED vars
  BY <1>1, NodeCopiesFrame DEF vars, kubeVars, srVars
<1>2. CASE Deliver
  <2>1. UNCHANGED <<srCur, srCopy, srShim, jrVars, nodeCurrent>>
    BY <1>2 DEF Deliver, DeliverNode, DeliverShim, DeliverJob,
                DeliverRuntimeClass, srVars
  <2>2. \A m \in Nodes : Live(nodeV'[m]) = Live(nodeV[m])
    <3>1. ASSUME NEW n \in Nodes, DeliverNode(n), NEW m \in Nodes
          PROVE  Live(nodeV'[m]) = Live(nodeV[m])
      BY <3>1, VersionsTail DEF DeliverNode, TypeOK, KubeTypeOK
    <3>2. CASE UNCHANGED nodeV
      BY <3>2
    <3> QED
      BY <1>2, <3>1, <3>2 DEF Deliver, DeliverShim, DeliverJob, DeliverRuntimeClass
  <2> QED
    BY <2>1, <2>2, NodeCopiesFrame
<1>3. CASE Cluster \/ ResyncStep
  <2>1. UNCHANGED <<srCur, srCopy, srShim, jrVars, nodeCurrent, nodeV>>
    BY <1>3 DEF Cluster, JobCompletes, JobFails, JobExpires, CollectJob,
                CollectRuntimeClass, ResyncStep, Resync, srVars
  <2> QED
    BY <2>1, NodeCopiesFrame
<1>4. CASE Users
  <2>1. UNCHANGED <<srCur, srCopy, srShim, jrVars>>
    BY <1>4 DEF Users, srVars
  <2>2. ASSUME NEW n \in Nodes, NEW o, WriteNode(n, o) PROVE NodeCopies'
    <3>1. /\ nodeCurrent' = nodeCurrent \ (Clients \X {n})
          /\ \A m \in Nodes : m # n => nodeV'[m] = nodeV[m]
      BY <2>2, WriteNodeFacts
    <3>2. nodeCurrent' \cap (Clients \X {n}) = {}
      BY <3>1
    <3>3. \A m \in Nodes : \/ Live(nodeV'[m]) = Live(nodeV[m])
                           \/ nodeCurrent' \cap (Clients \X {m}) = {}
      BY <3>1, <3>2
    <3> QED
      BY <2>1, <3>1, <3>3, NodeCopiesFrame
  <2>3. ASSUME NEW s \in Shims, NEW o, WriteShim(s, o) PROVE NodeCopies'
    BY <2>1, <2>3, NodeCopiesFrame DEF WriteShim
  <2> QED
    BY <1>4, <2>2, <2>3 DEF Users, LabelNode, TouchNode, RemoveNode, AddNode,
                            CreateShim, EditShim, DeleteShim
<1>5. CASE Restart
  BY <1>5 DEF Restart, NodeCopies
<1> QED
  BY <1>1, <1>2, <1>3, <1>4, <1>5, NodeCopiesSR, NodeCopiesJR
     DEF Next, NextNoResync

\* A step of the shim controller keeps foreign labels.
LEMMA KeepsForeignSR ==
  ASSUME TypeOK, NodeCopies, SRStep PROVE KeepsForeignLabels
<1> USE NoObjAssumption
<1>1. UNCHANGED jrVars
  BY DEF SRStep
<1>2. ASSUME UNCHANGED nodeV PROVE KeepsForeignLabels
  BY <1>2 DEF KeepsForeignLabels, ControllerWrites, TypeOK, KubeTypeOK, Versions
<1>3. ASSUME \A m \in Nodes :
               \/ Len(nodeV'[m]) = Len(nodeV[m])
               \/ /\ m = srCur /\ <<"sr", srCur>> \in nodeCurrent
                  /\ Live(nodeV'[m]) = srCopy
      PROVE  KeepsForeignLabels
  <2>3. \A m \in Nodes : Len(nodeV[m]) \in Nat
    BY ReadTypes
  <2> SUFFICES ASSUME NEW n \in Nodes, ControllerWrites(n)
               PROVE  /\ Live(nodeV[n]) # NoObj
                      /\ Live(nodeV'[n]).sel = Live(nodeV[n]).sel
                      /\ \A s \in Shims \ {srShim} :
                           Live(nodeV'[n]).labels[s] = Live(nodeV[n]).labels[s]
    BY <1>1 DEF KeepsForeignLabels, ControllerWrites
  <2>4. Len(nodeV'[n]) # Len(nodeV[n])
    BY <2>3 DEF ControllerWrites
  <2>5. /\ n = srCur /\ <<"sr", n>> \in nodeCurrent
        /\ Live(nodeV'[n]) = srCopy
    BY <1>3, <2>4
  <2> QED
    BY <2>5 DEF NodeCopies, SameNode
<1>4. CASE updateNodeLabels
  <2>1. srCur \in Nodes /\ srCopy \in NodeObj
    BY <1>4 DEF updateNodeLabels, TypeOK, SRTypeOK
  <2>2. \A m \in Nodes :
          \/ Len(nodeV'[m]) = Len(nodeV[m])
          \/ /\ m = srCur /\ <<"sr", srCur>> \in nodeCurrent
             /\ Live(nodeV'[m]) = srCopy
    BY <1>4, <2>1, UpdateNodeFacts, FailedNodeUpdate DEF updateNodeLabels, Clients
  <2> QED
    BY <1>3, <2>2
<1>5. CASE markNodeFailed
  <2>1. srCur \in Nodes /\ srCopy \in NodeObj
    BY <1>5 DEF markNodeFailed, TypeOK, SRTypeOK
  <2>2. \A m \in Nodes :
          \/ Len(nodeV'[m]) = Len(nodeV[m])
          \/ /\ m = srCur /\ <<"sr", srCur>> \in nodeCurrent
             /\ Live(nodeV'[m]) = srCopy
    BY <1>5, <2>1, UpdateNodeFacts, FailedNodeUpdate DEF markNodeFailed, Clients
  <2> QED
    BY <1>3, <2>2
<1>6. CASE \/ \E s \in Shims : SRNotFound(s) \/ SRStart(s)
           \/ updateStatus \/ SRRefetchNotFound \/ SRRefetch
           \/ handleDeployRuntimeClass \/ handleInstallShim
           \/ removeFinalizerFromShim \/ ensureFinalizerForShim
  BY <1>2, <1>6 DEF SRNotFound, SRStart, updateStatus, SRRefetchNotFound,
       SRRefetch, handleDeployRuntimeClass, handleInstallShim, kubeVars,
       removeFinalizerFromShim, ensureFinalizerForShim
<1>7. CASE \/ \E n \in Nodes : \/ deployJobNodeNotFound(n) \/ deployJobNoArtifact(n)
                               \/ deployJobOnNode(n)
           \/ patchJob \/ patchJobRefused
  BY <1>2, <1>7 DEF deployJobNodeNotFound, deployJobNoArtifact, kubeVars,
                    deployJobOnNode, patchJob, patchJobRefused
<1> QED
  BY <1>4, <1>5, <1>6, <1>7 DEF SRStep, SRNext

\* A step of the job controller does.
LEMMA KeepsForeignJR ==
  ASSUME TypeOK, NodeCopies, JRStep PROVE KeepsForeignLabels
<1> USE NoObjAssumption
<1>1. UNCHANGED srVars
  BY DEF JRStep
<1>2. ASSUME UNCHANGED nodeV PROVE KeepsForeignLabels
  BY <1>2 DEF KeepsForeignLabels, ControllerWrites, TypeOK, KubeTypeOK, Versions
<1>3. CASE JRWrite
  <2>1. jrJob[1] \in Nodes /\ jrCopy \in NodeObj
    BY <1>3 DEF JRWrite, TypeOK, JRTypeOK, JobIds
  <2>2. \A m \in Nodes :
          \/ Len(nodeV'[m]) = Len(nodeV[m])
          \/ /\ m = jrJob[1] /\ <<"jr", jrJob[1]>> \in nodeCurrent
             /\ Live(nodeV'[m]) = jrCopy
    BY <1>3, <2>1, UpdateNodeFacts, FailedNodeUpdate DEF JRWrite, Clients
  <2>3. \A m \in Nodes : Len(nodeV[m]) \in Nat
    BY ReadTypes
  <2> SUFFICES ASSUME NEW n \in Nodes, ControllerWrites(n)
               PROVE  /\ Live(nodeV[n]) # NoObj
                      /\ Live(nodeV'[n]).sel = Live(nodeV[n]).sel
                      /\ \A s \in Shims \ {jrJob[2]} :
                           Live(nodeV'[n]).labels[s] = Live(nodeV[n]).labels[s]
    BY <1>1 DEF KeepsForeignLabels
  <2>4. Len(nodeV'[n]) # Len(nodeV[n])
    BY <2>3 DEF ControllerWrites
  <2>5. /\ n = jrJob[1] /\ <<"jr", n>> \in nodeCurrent
        /\ Live(nodeV'[n]) = jrCopy
    BY <2>2, <2>4
  <2> QED
    BY <2>5 DEF NodeCopies, SameNode
<1>4. CASE JRRecover \/ \E j \in JobIds : JRNothing(j) \/ JRStart(j) \/ JRPanic(j)
  BY <1>2, <1>4 DEF JRRecover, JRNothing, JRStart, JRPanic
<1> QED
  BY <1>3, <1>4 DEF JRStep, JRNext

\* No other step counts as a controller's write.
LEMMA KeepsForeignStep ==
  ASSUME TypeOK, NodeCopies, [Next]_vars PROVE [KeepsForeignLabels]_vars
<1>1. CASE UNCHANGED vars
  BY <1>1
<1>2. CASE UNCHANGED <<srVars, jrVars>>
  BY <1>2 DEF KeepsForeignLabels, ControllerWrites
<1>3. CASE Restart
  <2>1. \A n \in Nodes : Len(nodeV'[n]) = 1 /\ Len(nodeV[n]) \in Nat \ {0}
    BY <1>3, ReadTypes DEF Restart
  <2>2. ASSUME NEW n \in Nodes PROVE ~(Len(nodeV'[n]) > Len(nodeV[n]))
    <3>1. ASSUME NEW k \in Nat \ {0} PROVE ~(1 > k)
      OBVIOUS
    <3> QED
      BY <2>1, <3>1
  <2> QED
    BY <2>2 DEF KeepsForeignLabels, ControllerWrites
<1>4. CASE Deliver \/ Cluster \/ Users \/ ResyncStep
  BY <1>2, <1>4 DEF Deliver, Cluster, Users, ResyncStep
<1> QED
  BY <1>1, <1>3, <1>4, KeepsForeignSR, KeepsForeignJR DEF Next, NextNoResync

\* The controllers' whole-object Node Updates change no label but the one of
\* the shim they work for, and revive no removed node, however far the cache
\* lags behind.
THEOREM ForeignLabelsKept == Spec => ControllersKeepForeignLabels
<1>1. Init => TypeOK /\ NodeCopies
  BY TypeInit DEF Init, NodeCopies
<1>2. TypeOK /\ NodeCopies /\ [Next]_vars => (TypeOK /\ NodeCopies)'
  BY TypeStep, NodeCopiesStep
<1>3. TypeOK /\ NodeCopies /\ [Next]_vars => [KeepsForeignLabels]_vars
  BY KeepsForeignStep
<1> QED
  BY <1>1, <1>2, <1>3, PTL DEF Spec, ControllersKeepForeignLabels

------------------------------------------------------------------------------
(* The copy of the Shim.                                                    *)

\* A step that leaves the shim controller's locals alone, changes no live Shim
\* of which the copy stays current, and makes no copy current.
LEMMA ShimCopyFrame ==
  ASSUME ShimCopy, shimCurrent' \subseteq shimCurrent,
         srShim \in shimCurrent' => Live(shimV'[srShim]) = Live(shimV[srShim]),
         UNCHANGED <<srShim, srObj>>,
         srPc = "ensure" => srPc' = "ensure"
  PROVE  ShimCopy'
BY DEF ShimCopy

\* The shim controller's steps.
LEMMA ShimCopySR ==
  ASSUME TypeOK, ShimCopy, ReleasesOnlyDeleted, SRStep PROVE ShimCopy'
<1> USE NoObjAssumption
<1>1. ASSUME NEW s \in Shims, SRNotFound(s) PROVE ShimCopy'
  BY <1>1, ShimCopyFrame DEF SRNotFound, srVars
<1>2. ASSUME NEW s \in Shims, SRStart(s) PROVE ShimCopy'
  <2>1. shimCurrent = {}
    BY <1>2 DEF SRStart, ShimCopy, TypeOK, KubeTypeOK, SRTypeOK
  <2>2. /\ shimCurrent' \subseteq {s} /\ srShim' = s /\ UNCHANGED shimV
        /\ s \in shimCurrent' => Len(shimV[s]) = 1
    BY <1>2, <2>1 DEF SRStart, GetShim
  <2>3. Len(shimV[s]) = 1 => Cached(shimV[s]) = Live(shimV[s])
    BY DEF Cached, Live
  <2>4. Cached(shimV[s]) \in ShimObj
    BY <1>2, ReadTypes DEF SRStart, StoredShim
  <2>5. /\ srObj'.uid = Cached(shimV[s]).uid /\ srObj'.spec = Cached(shimV[s]).spec
        /\ srObj'.del = Cached(shimV[s]).del /\ srObj'.fin = Cached(shimV[s]).fin
    BY <1>2, <2>4 DEF SRStart, ShimObj
  <2> QED
    BY <2>2, <2>3, <2>4, <2>5 DEF ShimCopy
<1>3. CASE updateStatus
  <2>1. srShim \in Shims /\ srObj \in ShimObj
    BY <1>3 DEF updateStatus, TypeOK, SRTypeOK
  <2>2. shimCurrent' = {}
    BY <1>3, <2>1, UpdateShimFacts, FailedShimUpdate DEF updateStatus, ShimCopy
  <2> QED
    BY <2>2 DEF ShimCopy
<1>4. CASE SRRefetchNotFound
  BY <1>4, ShimCopyFrame DEF SRRefetchNotFound, kubeVars
<1>5. CASE SRRefetch
  <2>1. srShim \in Shims
    BY <1>5 DEF SRRefetch, TypeOK, SRTypeOK
  <2>2. /\ shimCurrent' \subseteq {srShim} /\ srShim' = srShim /\ UNCHANGED shimV
        /\ srShim \in shimCurrent' => Len(shimV[srShim]) = 1
        /\ srObj' = Cached(shimV[srShim]) /\ Cached(shimV[srShim]) # NoObj
    BY <1>5 DEF SRRefetch, GetShim, ShimCopy
  <2>3. Len(shimV[srShim]) = 1 => Cached(shimV[srShim]) = Live(shimV[srShim])
    BY DEF Cached, Live
  <2> QED
    BY <2>2, <2>3 DEF ShimCopy
<1>6. CASE handleDeployRuntimeClass \/ handleInstallShim
  BY <1>6, ShimCopyFrame DEF handleDeployRuntimeClass, handleInstallShim, kubeVars
<1>7. ASSUME NEW n \in Nodes, deployJobNodeNotFound(n) \/ deployJobNoArtifact(n)
                              \/ deployJobOnNode(n)
      PROVE  ShimCopy'
  BY <1>7, ShimCopyFrame DEF deployJobNodeNotFound, deployJobNoArtifact,
                             deployJobOnNode, kubeVars
<1>8. CASE updateNodeLabels \/ patchJob \/ patchJobRefused \/ markNodeFailed
  BY <1>8, ShimCopyFrame DEF updateNodeLabels, patchJob, patchJobRefused,
                             markNodeFailed
<1>9. CASE removeFinalizerFromShim
  <2>1. srShim \in Shims /\ srObj \in ShimObj /\ srObj' = [srObj EXCEPT !.fin = FALSE]
    BY <1>9 DEF removeFinalizerFromShim, TypeOK, SRTypeOK
  <2>2. /\ srObj' \in ShimObj /\ srObj'.uid = srObj.uid /\ srObj'.spec = srObj.spec
        /\ srObj'.del = srObj.del /\ srObj'.fin = FALSE
    BY <2>1 DEF ShimObj
  <2>3. srObj.del /\ srObj.fin /\ srPc' = "ensure" /\ srShim' = srShim
    BY <1>9 DEF removeFinalizerFromShim, ReleasesOnlyDeleted
  <2>4. CASE UpdateShim(srShim, srObj')
    <3>1. shimCurrent' = {}
      BY <2>1, <2>2, <2>4, UpdateShimFacts DEF ShimCopy
    <3> QED
      BY <3>1 DEF ShimCopy
  <2>5. CASE UNCHANGED <<shimV, shimCurrent>>
    <3>1. srShim \in shimCurrent => Live(shimV[srShim]).fin = srObj.fin
      BY <1>9 DEF ShimCopy, removeFinalizerFromShim
    <3> QED
      BY <2>2, <2>3, <2>5, <3>1 DEF ShimCopy
  <2> QED
    BY <1>9, <2>4, <2>5 DEF removeFinalizerFromShim
<1>10. CASE ensureFinalizerForShim
  <2>1. shimCurrent' = {}
    BY <1>10, FailedShimUpdate DEF ensureFinalizerForShim, UpdateShim, ShimCopy
  <2> QED
    BY <2>1 DEF ShimCopy
<1> QED
  BY <1>1, <1>2, <1>3, <1>4, <1>5, <1>6, <1>7, <1>8, <1>9, <1>10 DEF SRStep, SRNext

\* Only a call that saw the Shim deleted goes to removeFinalizerFromShim.
LEMMA ReleasesSR ==
  ASSUME TypeOK, ReleasesOnlyDeleted, SRStep PROVE ReleasesOnlyDeleted'
<1>1. ASSUME NEW s \in Shims, SRNotFound(s) \/ SRStart(s) PROVE ReleasesOnlyDeleted'
  BY <1>1 DEF SRNotFound, SRStart, srVars, ReleasesOnlyDeleted
<1>2. CASE updateStatus \/ SRRefetchNotFound \/ handleDeployRuntimeClass
           \/ removeFinalizerFromShim
  BY <1>2 DEF updateStatus, SRRefetchNotFound, handleDeployRuntimeClass,
              removeFinalizerFromShim, ReleasesOnlyDeleted
<1>3. CASE SRRefetch
  BY <1>3 DEF SRRefetch, ReleasesOnlyDeleted
<1>4. CASE handleInstallShim
  BY <1>4 DEF handleInstallShim, ReleasesOnlyDeleted
<1>5. ASSUME NEW n \in Nodes, deployJobNodeNotFound(n) \/ deployJobNoArtifact(n)
                              \/ deployJobOnNode(n)
      PROVE  ReleasesOnlyDeleted'
  BY <1>5 DEF deployJobNodeNotFound, deployJobNoArtifact, deployJobOnNode,
              NodeError, NextNode, ReleasesOnlyDeleted
<1>6. CASE updateNodeLabels \/ patchJobRefused
  BY <1>6 DEF updateNodeLabels, patchJobRefused, ReleasesOnlyDeleted
<1>7. CASE patchJob \/ markNodeFailed
  BY <1>7 DEF patchJob, markNodeFailed, NodeError, NextNode, ReleasesOnlyDeleted
<1>8. CASE ensureFinalizerForShim
  BY <1>8 DEF ensureFinalizerForShim, SRReset, ReleasesOnlyDeleted
<1> QED
  BY <1>1, <1>2, <1>3, <1>4, <1>5, <1>6, <1>7, <1>8 DEF SRStep, SRNext

\* Every step leaves the copy of the Shim in order.
LEMMA ShimCopyStep ==
  ASSUME TypeOK, ShimCopy, ReleasesOnlyDeleted, [Next]_vars
  PROVE  ShimCopy' /\ ReleasesOnlyDeleted'
<1>1. ASSUME UNCHANGED srVars PROVE ReleasesOnlyDeleted'
  BY <1>1 DEF srVars, ReleasesOnlyDeleted
<1>2. ASSUME UNCHANGED srVars, shimCurrent' \subseteq shimCurrent,
             srShim \in shimCurrent' => Live(shimV'[srShim]) = Live(shimV[srShim])
      PROVE  ShimCopy'
  BY <1>2, ShimCopyFrame DEF srVars
<1>3. CASE UNCHANGED vars
  BY <1>1, <1>2, <1>3 DEF vars, kubeVars
<1>4. CASE JRStep \/ Cluster \/ ResyncStep
  <2>1. UNCHANGED <<srVars, shimV, shimCurrent>>
    BY <1>4 DEF JRStep, JRNext, JRNothing, JRStart, JRPanic, JRWrite, JRRecover,
                Cluster, JobCompletes, JobFails, JobExpires, CollectJob,
                CollectRuntimeClass, ResyncStep, Resync
  <2> QED
    BY <1>1, <1>2, <2>1
<1>5. CASE Deliver
  <2>1. UNCHANGED <<srVars, shimCurrent>>
    BY <1>5 DEF Deliver, DeliverNode, DeliverShim, DeliverJob, DeliverRuntimeClass
  <2>2. srShim \in shimCurrent' => Live(shimV'[srShim]) = Live(shimV[srShim])
    <3>1. ASSUME NEW s \in Shims, DeliverShim(s), NEW t \in Shims
          PROVE  Live(shimV'[t]) = Live(shimV[t])
      BY <3>1, VersionsTail DEF DeliverShim, TypeOK, KubeTypeOK
    <3>2. CASE UNCHANGED shimV
      BY <3>2
    <3>3. srShim \in shimCurrent' => srShim \in Shims
      BY <2>1 DEF TypeOK, KubeTypeOK
    <3> QED
      BY <1>5, <3>1, <3>2, <3>3 DEF Deliver, DeliverNode, DeliverJob, DeliverRuntimeClass
  <2> QED
    BY <1>1, <1>2, <2>1, <2>2
<1>6. CASE Users
  <2>1. UNCHANGED srVars
    BY <1>6 DEF Users
  <2>2. ASSUME NEW n \in Nodes, NEW o, WriteNode(n, o) PROVE ShimCopy'
    BY <1>2, <2>1, <2>2 DEF WriteNode
  <2>3. ASSUME NEW s \in Shims, NEW o, WriteShim(s, o) PROVE ShimCopy'
    <3>1. shimCurrent' = shimCurrent \ {s}
          /\ \A t \in Shims : t # s => shimV'[t] = shimV[t]
      BY <2>3 DEF WriteShim, TypeOK, KubeTypeOK
    <3>2. shimCurrent \subseteq Shims
      BY DEF TypeOK, KubeTypeOK
    <3> QED
      BY <1>2, <2>1, <3>1, <3>2
  <2> QED
    BY <1>1, <1>6, <2>1, <2>2, <2>3 DEF Users, LabelNode, TouchNode, RemoveNode,
         AddNode, CreateShim, EditShim, DeleteShim
<1>7. CASE Restart
  BY <1>7 DEF Restart, SRReset, ShimCopy, ReleasesOnlyDeleted
<1> QED
  BY <1>3, <1>4, <1>5, <1>6, <1>7, ShimCopySR, ReleasesSR DEF Next, NextNoResync

\* Copies that carry the live resourceVersion agree with the live objects but
\* for what their controller is about to write: the inductive invariant behind
\* the two theorems about whole-object Updates.
THEOREM CopiesCorrect == Spec => [](TypeOK /\ CopiesAgreeWithLive)
<1>1. Init => TypeOK /\ CopiesAgreeWithLive
  <2>1. Init => NodeCopies /\ ShimCopy /\ ReleasesOnlyDeleted
    BY DEF Init, SRInit, NodeCopies, ShimCopy, ReleasesOnlyDeleted
  <2> QED
    BY <2>1, TypeInit DEF CopiesAgreeWithLive
<1>2. TypeOK /\ CopiesAgreeWithLive /\ [Next]_vars => (TypeOK /\ CopiesAgreeWithLive)'
  BY TypeStep, NodeCopiesStep, ShimCopyStep DEF CopiesAgreeWithLive
<1> QED
  BY <1>1, <1>2, PTL DEF Spec
=============================================================================
