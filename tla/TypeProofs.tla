----------------------------- MODULE TypeProofs -----------------------------
(***************************************************************************)
(* Theorems about RuntimeClassManager, for every set of nodes and shims,   *)
(* every set of specs and every bound.                                     *)
(***************************************************************************)
EXTENDS RuntimeClassManager, FiniteSetTheorems, TLAPS

------------------------------------------------------------------------------
(* Sequences of versions.                                                   *)

\* What is cached and what is live are versions.
LEMMA VersionsRead ==
  ASSUME NEW S, NEW q \in Versions(S)
  PROVE  /\ Len(q) \in Nat \ {0}
         /\ Cached(q) \in S \cup {NoObj}
         /\ Live(q) \in S \cup {NoObj}
         /\ Len(q) = 1 => Cached(q) = Live(q)
BY DEF Versions, Cached, Live

\* A write makes the new object the live one.
LEMMA VersionsAppend ==
  ASSUME NEW S, NEW q \in Versions(S), NEW e \in S \cup {NoObj}
  PROVE  /\ Append(q, e) \in Versions(S)
         /\ Live(Append(q, e)) = e
         /\ Len(Append(q, e)) = Len(q) + 1
BY DEF Versions, Live

\* A delivery changes the cache only.
LEMMA VersionsTail ==
  ASSUME NEW S, NEW q \in Versions(S), Len(q) > 1
  PROVE  /\ Tail(q) \in Versions(S)
         /\ Live(Tail(q)) = Live(q)
         /\ Len(Tail(q)) = Len(q) - 1
BY DEF Versions, Live

\* A cache that was filled from the API server.
LEMMA VersionsSingle ==
  ASSUME NEW S, NEW e \in S \cup {NoObj}
  PROVE  <<e>> \in Versions(S) /\ Live(<<e>>) = e /\ Len(<<e>>) = 1
BY DEF Versions, Live

------------------------------------------------------------------------------
(* Type correctness.                                                        *)

\* What Get returns and what the API server holds have their types.
LEMMA ReadTypes ==
  ASSUME TypeOK
  PROVE  /\ \A n \in Nodes : /\ Cached(nodeV[n]) \in NodeObj \cup {NoObj}
                             /\ Live(nodeV[n]) \in NodeObj \cup {NoObj}
                             /\ Len(nodeV[n]) \in Nat \ {0}
         /\ \A s \in Shims : /\ Cached(shimV[s]) \in StoredShim \cup {NoObj}
                             /\ Live(shimV[s]) \in StoredShim \cup {NoObj}
                             /\ Len(shimV[s]) \in Nat \ {0}
         /\ \A j \in JobIds : /\ Cached(jobV[j]) \in JobObj \cup {NoObj}
                              /\ Live(jobV[j]) \in JobObj \cup {NoObj}
                              /\ Len(jobV[j]) \in Nat \ {0}
         /\ \A r \in RuntimeClasses :
              /\ Cached(rcV[r]) \in RuntimeClassObj \cup {NoObj}
              /\ Live(rcV[r]) \in RuntimeClassObj \cup {NoObj}
              /\ Len(rcV[r]) \in Nat \ {0}
BY VersionsRead DEF TypeOK, KubeTypeOK

\* One more version of one object keeps the type of all of them.
LEMMA AppendTypes ==
  ASSUME NEW D, NEW S, NEW f \in [D -> Versions(S)], NEW d \in D,
         NEW e \in S \cup {NoObj}
  PROVE  [f EXCEPT ![d] = Append(f[d], e)] \in [D -> Versions(S)]
BY VersionsAppend

\* So does one delivered event.
LEMMA TailTypes ==
  ASSUME NEW D, NEW S, NEW f \in [D -> Versions(S)], NEW d \in D, Len(f[d]) > 1
  PROVE  [f EXCEPT ![d] = Tail(f[d])] \in [D -> Versions(S)]
BY VersionsTail

\* The client's calls keep the types.
LEMMA UpdateNodeType ==
  ASSUME TypeOK, NEW c \in Clients, NEW n \in Nodes, NEW o \in NodeObj,
         NEW keep \in BOOLEAN, UpdateNode(c, n, o, keep)
  PROVE  /\ nodeV' \in [Nodes -> Versions(NodeObj)]
         /\ nodeCurrent' \subseteq Clients \X Nodes
<1>1. nodeV \in [Nodes -> Versions(NodeObj)] /\ nodeCurrent \subseteq Clients \X Nodes
  BY DEF TypeOK, KubeTypeOK
<1>2. [nodeV EXCEPT ![n] = Append(nodeV[n], o)] \in [Nodes -> Versions(NodeObj)]
  BY <1>1, AppendTypes
<1> QED
  BY <1>1, <1>2 DEF UpdateNode

\* The same for a Shim: an Update of a released Shim removes it.
LEMMA UpdateShimType ==
  ASSUME TypeOK, NEW s \in Shims, NEW o \in ShimObj, UpdateShim(s, o)
  PROVE  /\ shimV' \in [Shims -> Versions(StoredShim)]
         /\ shimCurrent' \subseteq Shims
<1> DEFINE e == IF o.del /\ ~o.fin THEN NoObj ELSE o
<1>1. shimV \in [Shims -> Versions(StoredShim)] /\ shimCurrent \subseteq Shims
  BY DEF TypeOK, KubeTypeOK
<1>2. e \in StoredShim \cup {NoObj}
  BY DEF StoredShim, ShimObj
<1>3. [shimV EXCEPT ![s] = Append(shimV[s], e)] \in [Shims -> Versions(StoredShim)]
  BY <1>1, <1>2, AppendTypes
<1> QED
  BY <1>1, <1>3 DEF UpdateShim

\* Updates that fail write nothing.
LEMMA FailedUpdateType ==
  ASSUME TypeOK
  PROVE  /\ \A c, n, keep : UpdateNodeFails(c, n, keep) =>
              /\ nodeV' \in [Nodes -> Versions(NodeObj)]
              /\ nodeCurrent' \subseteq Clients \X Nodes
         /\ \A s : UpdateShimFails(s) =>
              /\ shimV' \in [Shims -> Versions(StoredShim)]
              /\ shimCurrent' \subseteq Shims
BY DEF UpdateNodeFails, UpdateShimFails, TypeOK, KubeTypeOK

\* A call that may fail keeps to the budget.
LEMMA BudgetType ==
  ASSUME TypeOK, UNCHANGED budget \/ Spend("fault") PROVE budget' \in 0..MaxBudget
BY MaxBudgetAssumption DEF Spend, TypeOK, KubeTypeOK

\* Applying a Job makes, keeps or refuses it.
LEMMA ApplyJobType ==
  ASSUME TypeOK, NEW j \in JobIds, NEW tmpl \in Templates, NEW owner \in Nat,
         ApplyJob(j, tmpl, owner)
  PROVE  jobV' \in [JobIds -> Versions(JobObj)]
<1> DEFINE new == IF Live(jobV[j]) = NoObj
                  THEN [st |-> "active", tmpl |-> tmpl, owner |-> owner]
                  ELSE [Live(jobV[j]) EXCEPT !.owner = owner]
<1>1. jobV \in [JobIds -> Versions(JobObj)]
  BY DEF TypeOK, KubeTypeOK
<1>2. new \in JobObj
  BY ReadTypes DEF JobObj
<1>3. [jobV EXCEPT ![j] = Append(jobV[j], new)] \in [JobIds -> Versions(JobObj)]
  BY <1>1, <1>2, AppendTypes
<1> QED
  BY <1>1, <1>3 DEF ApplyJob

\* Writes by users, the Job controller and the collectors keep the types.
LEMMA WriteNodeType ==
  ASSUME TypeOK, NEW n \in Nodes, NEW o \in NodeObj \cup {NoObj}, WriteNode(n, o)
  PROVE  /\ nodeV' \in [Nodes -> Versions(NodeObj)]
         /\ nodeCurrent' \subseteq Clients \X Nodes
<1>1. nodeV \in [Nodes -> Versions(NodeObj)] /\ nodeCurrent \subseteq Clients \X Nodes
  BY DEF TypeOK, KubeTypeOK
<1>2. [nodeV EXCEPT ![n] = Append(nodeV[n], o)] \in [Nodes -> Versions(NodeObj)]
  BY <1>1, AppendTypes
<1> QED
  BY <1>1, <1>2 DEF WriteNode

\* The same for a Shim.
LEMMA WriteShimType ==
  ASSUME TypeOK, NEW s \in Shims, NEW o \in StoredShim \cup {NoObj}, WriteShim(s, o)
  PROVE  /\ shimV' \in [Shims -> Versions(StoredShim)]
         /\ shimCurrent' \subseteq Shims
<1>1. shimV \in [Shims -> Versions(StoredShim)] /\ shimCurrent \subseteq Shims
  BY DEF TypeOK, KubeTypeOK
<1>2. [shimV EXCEPT ![s] = Append(shimV[s], o)] \in [Shims -> Versions(StoredShim)]
  BY <1>1, AppendTypes
<1> QED
  BY <1>1, <1>2 DEF WriteShim

\* The same for a Job.
LEMMA PutJobType ==
  ASSUME TypeOK, NEW j \in JobIds, NEW o \in JobObj \cup {NoObj}, PutJob(j, o)
  PROVE  jobV' \in [JobIds -> Versions(JobObj)]
<1>1. jobV \in [JobIds -> Versions(JobObj)]
  BY DEF TypeOK, KubeTypeOK
<1>2. [jobV EXCEPT ![j] = Append(jobV[j], o)] \in [JobIds -> Versions(JobObj)]
  BY <1>1, AppendTypes
<1> QED
  BY <1>1, <1>2 DEF PutJob

\* The empty cluster and the idle controllers have their types.
LEMMA TypeInit ==
  ASSUME Init PROVE TypeOK
<1>1. nodeV \in [Nodes -> Versions(NodeObj)]
  <2>1. \A b \in BOOLEAN :
          <<[sel |-> b, labels |-> [s \in Shims |-> "none"]]>> \in Versions(NodeObj)
    BY VersionsSingle DEF NodeObj, Labels
  <2> QED
    BY <2>1 DEF Init
<1>2. <<NoObj>> \in Versions(StoredShim) /\ <<NoObj>> \in Versions(JobObj)
      /\ <<NoObj>> \in Versions(RuntimeClassObj)
  BY VersionsSingle
<1>3. KubeTypeOK
  BY <1>1, <1>2, MaxBudgetAssumption DEF Init, KubeTypeOK
<1>4. SRTypeOK
  BY DEF Init, SRInit, SRTypeOK, SRPcs, Ops
<1>5. JRTypeOK
  BY DEF Init, JRInit, JRTypeOK, JRPcs
<1> QED
  BY <1>3, <1>4, <1>5 DEF TypeOK

\* The shim controller keeps the types: first up to the rollout ...
LEMMA TypeSRFirst ==
  ASSUME TypeOK, UNCHANGED jrVars,
         \/ \E s \in Shims : SRNotFound(s) \/ SRStart(s)
         \/ updateStatus \/ SRRefetchNotFound \/ SRRefetch
         \/ handleDeployRuntimeClass \/ handleInstallShim
  PROVE  TypeOK'
<1> USE NoObjAssumption
<1>0. JRTypeOK'
  BY DEF TypeOK, JRTypeOK, jrVars
<1>1. ASSUME NEW s \in Shims, SRNotFound(s) PROVE TypeOK'
  BY <1>0, <1>1 DEF SRNotFound, srVars, TypeOK, KubeTypeOK, SRTypeOK
<1>2. ASSUME NEW s \in Shims, SRStart(s) PROVE TypeOK'
  <2> DEFINE obj == Cached(shimV[s])
             nodes == getNodeListFromShimsNodeSelector(obj.spec)
             ready == {n \in nodes : Cached(nodeV[n]).labels[s] = "provisioned"}
  <2>1. obj \in StoredShim
    BY <1>2, ReadTypes DEF SRStart
  <2>2. IsFiniteSet(nodes) /\ IsFiniteSet(ready)
    BY NodesAssumption, FS_Subset DEF getNodeListFromShimsNodeSelector
  <2>3. Cardinality(nodes) \in Nat /\ Cardinality(ready) \in Nat
    BY <2>2, FS_CardinalityType
  <2>4. srObj' \in ShimObj
    BY <1>2, <2>1, <2>3 DEF SRStart, StoredShim, ShimObj
  <2>5. srList' \in [Nodes -> Labels \cup {"unlisted"}]
    BY <1>2, ReadTypes DEF SRStart, NodeObj, getNodeListFromShimsNodeSelector
  <2>6. KubeTypeOK'
    BY <1>2 DEF SRStart, GetShim, TypeOK, KubeTypeOK
  <2>7. SRTypeOK'
    BY <1>2, <2>4, <2>5 DEF SRStart, TypeOK, SRTypeOK, SRPcs
  <2> QED
    BY <1>0, <2>6, <2>7 DEF TypeOK
<1>3. ASSUME updateStatus PROVE TypeOK'
  <2>1. srShim \in Shims /\ srObj \in ShimObj
    BY <1>3 DEF updateStatus, TypeOK, SRTypeOK
  <2>2. shimV' \in [Shims -> Versions(StoredShim)] /\ shimCurrent' \subseteq Shims
    BY <1>3, <2>1, UpdateShimType, FailedUpdateType DEF updateStatus
  <2>5. budget' \in 0..MaxBudget
    BY <1>3, BudgetType DEF updateStatus, UpdateShimFails
  <2>3. KubeTypeOK'
    BY <1>3, <2>2, <2>5 DEF updateStatus, TypeOK, KubeTypeOK
  <2>4. SRTypeOK'
    BY <1>3 DEF updateStatus, TypeOK, SRTypeOK, SRPcs
  <2> QED
    BY <1>0, <2>3, <2>4 DEF TypeOK
<1>4. ASSUME SRRefetchNotFound PROVE TypeOK'
  <2>1. KubeTypeOK'
    BY <1>4 DEF SRRefetchNotFound, kubeVars, TypeOK, KubeTypeOK
  <2>2. SRTypeOK'
    BY <1>4 DEF SRRefetchNotFound, TypeOK, SRTypeOK, SRPcs
  <2> QED
    BY <1>0, <2>1, <2>2 DEF TypeOK
<1>5. ASSUME SRRefetch PROVE TypeOK'
  <2>1. srShim \in Shims
    BY <1>5 DEF SRRefetch, TypeOK, SRTypeOK
  <2>2. srObj' \in ShimObj
    BY <1>5, <2>1, ReadTypes DEF SRRefetch, StoredShim
  <2>3. KubeTypeOK'
    BY <1>5, <2>1 DEF SRRefetch, GetShim, TypeOK, KubeTypeOK
  <2>4. SRTypeOK'
    BY <1>5, <2>2 DEF SRRefetch, UninstallTargets, Listed, TypeOK, SRTypeOK, SRPcs, Ops
  <2> QED
    BY <1>0, <2>3, <2>4 DEF TypeOK
<1>6. ASSUME handleDeployRuntimeClass PROVE TypeOK'
  <2> DEFINE r == srObj.spec.runtimeClass
             obj == createRuntimeClassManifest(srShim, srObj)
  <2>1. srShim \in Shims /\ srObj \in ShimObj
    BY <1>6 DEF handleDeployRuntimeClass, TypeOK, SRTypeOK
  <2>2. obj \in RuntimeClassObj
    BY <2>1, SpecsAssumption DEF createRuntimeClassManifest, RuntimeClassObj,
                                 Handlers, ShimObj
  <2>3. rcV' \in [RuntimeClasses -> Versions(RuntimeClassObj)]
    <3>1. rcV \in [RuntimeClasses -> Versions(RuntimeClassObj)]
      BY DEF TypeOK, KubeTypeOK
    <3>2. r \in RuntimeClasses =>
            [rcV EXCEPT ![r] = Append(rcV[r], obj)] \in
              [RuntimeClasses -> Versions(RuntimeClassObj)]
      BY <2>2, <3>1, AppendTypes
    <3> QED
      BY <1>6, <3>1, <3>2 DEF handleDeployRuntimeClass, RuntimeClassAccepts,
                              ApplyRuntimeClass
  <2>4. budget' \in 0..MaxBudget
    BY <1>6, MaxBudgetAssumption DEF handleDeployRuntimeClass, Spend, TypeOK, KubeTypeOK
  <2>5. KubeTypeOK'
    BY <1>6, <2>3, <2>4 DEF handleDeployRuntimeClass, TypeOK, KubeTypeOK
  <2>6. SRTypeOK'
    BY <1>6 DEF handleDeployRuntimeClass, TypeOK, SRTypeOK, SRPcs
  <2> QED
    BY <1>0, <2>5, <2>6 DEF TypeOK
<1>7. ASSUME handleInstallShim PROVE TypeOK'
  <2>1. KubeTypeOK'
    BY <1>7 DEF handleInstallShim, kubeVars, TypeOK, KubeTypeOK
  <2>2. SRTypeOK'
    BY <1>7 DEF handleInstallShim, InstallTargets, Listed, TypeOK, SRTypeOK, SRPcs, Ops
  <2> QED
    BY <1>0, <2>1, <2>2 DEF TypeOK
<1> QED
  BY <1>1, <1>2, <1>3, <1>4, <1>5, <1>6, <1>7

\* ... then the loop over the nodes and the finalizer.
LEMMA TypeSRLoop ==
  ASSUME TypeOK, UNCHANGED jrVars,
         \/ \E n \in Nodes : \/ deployJobNodeNotFound(n) \/ deployJobNoArtifact(n)
                             \/ deployJobOnNode(n)
         \/ updateNodeLabels \/ patchJob \/ patchJobRefused \/ markNodeFailed
         \/ removeFinalizerFromShim \/ ensureFinalizerForShim
  PROVE  TypeOK'
<1> USE NoObjAssumption
<1>0. JRTypeOK'
  BY DEF TypeOK, JRTypeOK, jrVars
<1>1. ASSUME NEW n \in Nodes, deployJobNodeNotFound(n) PROVE TypeOK'
  <2>1. KubeTypeOK'
    BY <1>1 DEF deployJobNodeNotFound, kubeVars, TypeOK, KubeTypeOK
  <2>2. SRTypeOK'
    BY <1>1 DEF deployJobNodeNotFound, NextNode, TypeOK, SRTypeOK, SRPcs
  <2> QED
    BY <1>0, <2>1, <2>2 DEF TypeOK
<1>2. ASSUME NEW n \in Nodes, deployJobNoArtifact(n) PROVE TypeOK'
  <2>1. KubeTypeOK'
    BY <1>2 DEF deployJobNoArtifact, kubeVars, TypeOK, KubeTypeOK
  <2>2. SRTypeOK'
    BY <1>2 DEF deployJobNoArtifact, NodeError, NextNode, TypeOK, SRTypeOK, SRPcs
  <2> QED
    BY <1>0, <2>1, <2>2 DEF TypeOK
<1>3. ASSUME NEW n \in Nodes, deployJobOnNode(n) PROVE TypeOK'
  <2>1. srShim \in Shims
    BY <1>3 DEF deployJobOnNode, TypeOK, SRTypeOK
  <2>2. srCopy' \in NodeObj
    BY <1>3, <2>1, ReadTypes DEF deployJobOnNode, NodeObj, Labels
  <2>3. KubeTypeOK'
    BY <1>3 DEF deployJobOnNode, GetNode, Clients, TypeOK, KubeTypeOK
  <2>4. SRTypeOK'
    BY <1>3, <2>2 DEF deployJobOnNode, TypeOK, SRTypeOK, SRPcs
  <2> QED
    BY <1>0, <2>3, <2>4 DEF TypeOK
<1>4. ASSUME updateNodeLabels PROVE TypeOK'
  <2>1. srCur \in Nodes /\ srCopy \in NodeObj
    BY <1>4 DEF updateNodeLabels, TypeOK, SRTypeOK
  <2>2. /\ nodeV' \in [Nodes -> Versions(NodeObj)]
        /\ nodeCurrent' \subseteq Clients \X Nodes
    BY <1>4, <2>1, UpdateNodeType, FailedUpdateType DEF updateNodeLabels, Clients
  <2>5. budget' \in 0..MaxBudget
    BY <1>4, BudgetType DEF updateNodeLabels, UpdateNodeFails
  <2>3. KubeTypeOK'
    BY <1>4, <2>2, <2>5 DEF updateNodeLabels, TypeOK, KubeTypeOK
  <2>4. SRTypeOK'
    BY <1>4 DEF updateNodeLabels, TypeOK, SRTypeOK, SRPcs
  <2> QED
    BY <1>0, <2>3, <2>4 DEF TypeOK
<1>5. ASSUME patchJob PROVE TypeOK'
  <2>1. /\ srCur \in Nodes /\ srShim \in Shims /\ srOp \in Ops
        /\ srObj \in ShimObj
    BY <1>5 DEF patchJob, TypeOK, SRTypeOK
  <2>2. PatchedJob \in JobIds
    BY <2>1 DEF PatchedJob, JobIds
  <2>3. Manifest \in Templates
    BY <2>1 DEF Manifest, Templates, ShimObj
  <2>4. JobOwner(srObj, srOp) \in Nat
    BY <2>1 DEF JobOwner, ShimObj
  <2>5. jobV' \in [JobIds -> Versions(JobObj)]
    BY <1>5, <2>2, <2>3, <2>4, ApplyJobType DEF patchJob
  <2>6. KubeTypeOK'
    BY <1>5, <2>5 DEF patchJob, TypeOK, KubeTypeOK
  <2>7. SRTypeOK'
    BY <1>5, <2>1 DEF patchJob, NextNode, TypeOK, SRTypeOK, SRPcs
  <2> QED
    BY <1>0, <2>6, <2>7 DEF TypeOK
<1>6. ASSUME patchJobRefused PROVE TypeOK'
  <2>1. srCopy' \in NodeObj
    BY <1>6 DEF patchJobRefused, TypeOK, SRTypeOK, NodeObj, Labels
  <2>2. KubeTypeOK'
    BY <1>6, MaxBudgetAssumption DEF patchJobRefused, Spend, TypeOK, KubeTypeOK
  <2>3. SRTypeOK'
    BY <1>6, <2>1 DEF patchJobRefused, TypeOK, SRTypeOK, SRPcs
  <2> QED
    BY <1>0, <2>2, <2>3 DEF TypeOK
<1>7. ASSUME markNodeFailed PROVE TypeOK'
  <2>1. srCur \in Nodes /\ srCopy \in NodeObj
    BY <1>7 DEF markNodeFailed, TypeOK, SRTypeOK
  <2>2. /\ nodeV' \in [Nodes -> Versions(NodeObj)]
        /\ nodeCurrent' \subseteq Clients \X Nodes
    BY <1>7, <2>1, UpdateNodeType, FailedUpdateType DEF markNodeFailed, Clients
  <2>5. budget' \in 0..MaxBudget
    BY <1>7, BudgetType DEF markNodeFailed, UpdateNodeFails
  <2>3. KubeTypeOK'
    BY <1>7, <2>2, <2>5 DEF markNodeFailed, TypeOK, KubeTypeOK
  <2>4. SRTypeOK'
    BY <1>7, <2>1 DEF markNodeFailed, NodeError, NextNode, TypeOK, SRTypeOK, SRPcs
  <2> QED
    BY <1>0, <2>3, <2>4 DEF TypeOK
<1>8. ASSUME removeFinalizerFromShim PROVE TypeOK'
  <2>1. srShim \in Shims /\ srObj' \in ShimObj
    BY <1>8 DEF removeFinalizerFromShim, TypeOK, SRTypeOK, ShimObj
  <2>2. shimV' \in [Shims -> Versions(StoredShim)] /\ shimCurrent' \subseteq Shims
    <3>1. CASE UpdateShim(srShim, srObj')
      BY <2>1, <3>1, UpdateShimType
    <3>2. CASE UNCHANGED <<shimV, shimCurrent>>
      BY <3>2 DEF TypeOK, KubeTypeOK
    <3> QED
      BY <1>8, <3>1, <3>2 DEF removeFinalizerFromShim
  <2>3. budget' \in 0..MaxBudget
    BY <1>8, MaxBudgetAssumption DEF removeFinalizerFromShim, Spend, TypeOK, KubeTypeOK
  <2>4. KubeTypeOK'
    BY <1>8, <2>2, <2>3 DEF removeFinalizerFromShim, TypeOK, KubeTypeOK
  <2>5. SRTypeOK'
    BY <1>8, <2>1 DEF removeFinalizerFromShim, TypeOK, SRTypeOK, SRPcs
  <2> QED
    BY <1>0, <2>4, <2>5 DEF TypeOK
<1>9. ASSUME ensureFinalizerForShim PROVE TypeOK'
  <2> DEFINE o == [srObj EXCEPT !.fin = TRUE]
  <2>1. srShim \in Shims /\ o \in ShimObj
    BY <1>9 DEF ensureFinalizerForShim, TypeOK, SRTypeOK, ShimObj
  <2>2. shimV' \in [Shims -> Versions(StoredShim)] /\ shimCurrent' \subseteq Shims
    <3>1. CASE srObj.fin
      BY <1>9, <3>1 DEF ensureFinalizerForShim, TypeOK, KubeTypeOK
    <3>2. CASE ~srObj.fin
      <4>1. UpdateShim(srShim, o) \/ UpdateShimFails(srShim)
        BY <1>9, <3>2 DEF ensureFinalizerForShim
      <4> QED
        BY <2>1, <4>1, UpdateShimType, FailedUpdateType
    <3> QED
      BY <3>1, <3>2
  <2>5. budget' \in 0..MaxBudget
    BY <1>9, BudgetType DEF ensureFinalizerForShim, UpdateShimFails
  <2>3. KubeTypeOK'
    BY <1>9, <2>1, <2>2, <2>5 DEF ensureFinalizerForShim, TypeOK, KubeTypeOK
  <2>4. SRTypeOK'
    BY <1>9 DEF ensureFinalizerForShim, SRReset, TypeOK, SRTypeOK, SRPcs, Ops
  <2> QED
    BY <1>0, <2>3, <2>4 DEF TypeOK
<1> QED
  BY <1>1, <1>2, <1>3, <1>4, <1>5, <1>6, <1>7, <1>8, <1>9

\* Every step of the shim controller keeps the types.
LEMMA TypeSR ==
  ASSUME TypeOK, SRStep PROVE TypeOK'
<1>1. UNCHANGED jrVars /\ SRNext
  BY DEF SRStep
<1>2. CASE \/ \E s \in Shims : SRNotFound(s) \/ SRStart(s)
           \/ updateStatus \/ SRRefetchNotFound \/ SRRefetch
           \/ handleDeployRuntimeClass \/ handleInstallShim
  BY <1>1, <1>2, TypeSRFirst
<1>3. CASE \/ \E n \in Nodes : \/ deployJobNodeNotFound(n) \/ deployJobNoArtifact(n)
                               \/ deployJobOnNode(n)
           \/ updateNodeLabels \/ patchJob \/ patchJobRefused \/ markNodeFailed
           \/ removeFinalizerFromShim \/ ensureFinalizerForShim
  BY <1>1, <1>3, TypeSRLoop
<1> QED
  BY <1>1, <1>2, <1>3 DEF SRNext

\* The job controller keeps the types.
LEMMA TypeJR ==
  ASSUME TypeOK, JRStep PROVE TypeOK'
<1> USE NoObjAssumption
<1>0. SRTypeOK'
  BY DEF JRStep, TypeOK, SRTypeOK, srVars
<1>1. ASSUME NEW j \in JobIds, JRNothing(j) PROVE TypeOK'
  BY <1>0, <1>1 DEF JRNothing, jrVars, TypeOK, KubeTypeOK, JRTypeOK
<1>2. ASSUME NEW j \in JobIds, JRStart(j) PROVE TypeOK'
  <2>1. j[1] \in Nodes /\ j[2] \in Shims
    BY DEF JobIds
  <2>2. jrCopy' \in NodeObj
    BY <1>2, <2>1, ReadTypes DEF JRStart, LabelFor, NodeObj, Labels
  <2>3. KubeTypeOK'
    BY <1>2, <2>1 DEF JRStart, GetNode, Clients, TypeOK, KubeTypeOK
  <2>4. JRTypeOK'
    BY <1>2, <2>2 DEF JRStart, TypeOK, JRTypeOK, JRPcs
  <2> QED
    BY <1>0, <2>3, <2>4 DEF TypeOK
<1>3. ASSUME NEW j \in JobIds, JRPanic(j) PROVE TypeOK'
  <2>1. KubeTypeOK'
    BY <1>3 DEF JRPanic, TypeOK, KubeTypeOK
  <2>2. JRTypeOK'
    BY <1>3 DEF JRPanic, TypeOK, JRTypeOK, JRPcs
  <2> QED
    BY <1>0, <2>1, <2>2 DEF TypeOK
<1>4. ASSUME JRWrite PROVE TypeOK'
  <2>1. jrJob[1] \in Nodes /\ jrCopy \in NodeObj
    BY <1>4 DEF JRWrite, TypeOK, JRTypeOK, JobIds
  <2>2. /\ nodeV' \in [Nodes -> Versions(NodeObj)]
        /\ nodeCurrent' \subseteq Clients \X Nodes
    BY <1>4, <2>1, UpdateNodeType, FailedUpdateType DEF JRWrite, Clients
  <2>5. budget' \in 0..MaxBudget
    BY <1>4, BudgetType DEF JRWrite, UpdateNodeFails
  <2>3. KubeTypeOK'
    BY <1>4, <2>2, <2>5 DEF JRWrite, TypeOK, KubeTypeOK
  <2>4. JRTypeOK'
    BY <1>4 DEF JRWrite, JRReset, JRTypeOK, JRPcs
  <2> QED
    BY <1>0, <2>3, <2>4 DEF TypeOK
<1>5. ASSUME JRRecover PROVE TypeOK'
  <2>1. KubeTypeOK'
    BY <1>5 DEF JRRecover, TypeOK, KubeTypeOK, JRTypeOK
  <2>2. JRTypeOK'
    BY <1>5 DEF JRRecover, JRReset, JRTypeOK, JRPcs
  <2> QED
    BY <1>0, <2>1, <2>2 DEF TypeOK
<1> QED
  BY <1>1, <1>2, <1>3, <1>4, <1>5 DEF JRStep, JRNext

\* Watch events keep the types.
LEMMA TypeDeliver ==
  ASSUME TypeOK, Deliver PROVE TypeOK'
<1>0. SRTypeOK' /\ JRTypeOK'
  BY DEF Deliver, TypeOK, SRTypeOK, JRTypeOK, srVars, jrVars
<1>1. ASSUME NEW n \in Nodes, DeliverNode(n) PROVE KubeTypeOK'
  <2>1. nodeV' \in [Nodes -> Versions(NodeObj)]
    BY <1>1, TailTypes DEF DeliverNode, TypeOK, KubeTypeOK
  <2> QED
    BY <1>1, <2>1 DEF DeliverNode, findShimsToReconcile, TypeOK, KubeTypeOK
<1>2. ASSUME NEW s \in Shims, DeliverShim(s) PROVE KubeTypeOK'
  <2>1. shimV' \in [Shims -> Versions(StoredShim)]
    BY <1>2, TailTypes DEF DeliverShim, TypeOK, KubeTypeOK
  <2> QED
    BY <1>2, <2>1 DEF DeliverShim, TypeOK, KubeTypeOK
<1>3. ASSUME NEW j \in JobIds, DeliverJob(j) PROVE KubeTypeOK'
  <2>1. jobV' \in [JobIds -> Versions(JobObj)]
    BY <1>3, TailTypes DEF DeliverJob, TypeOK, KubeTypeOK
  <2>2. j[2] \in Shims
    BY DEF JobIds
  <2>3. shimQ' \subseteq Shims /\ jobQ' \subseteq JobIds
    BY <1>3, <2>2 DEF DeliverJob, TypeOK, KubeTypeOK
  <2> QED
    BY <1>3, <2>1, <2>3 DEF DeliverJob, TypeOK, KubeTypeOK
<1>4. ASSUME NEW r \in RuntimeClasses, DeliverRuntimeClass(r) PROVE KubeTypeOK'
  <2>1. rcV' \in [RuntimeClasses -> Versions(RuntimeClassObj)]
    BY <1>4, TailTypes DEF DeliverRuntimeClass, TypeOK, KubeTypeOK
  <2> QED
    BY <1>4, <2>1 DEF DeliverRuntimeClass, TypeOK, KubeTypeOK
<1> QED
  BY <1>0, <1>1, <1>2, <1>3, <1>4 DEF Deliver, TypeOK

\* Jobs that run, expire or are collected keep the types.
LEMMA TypeCluster ==
  ASSUME TypeOK, Cluster PROVE TypeOK'
<1> USE NoObjAssumption
<1>0. SRTypeOK' /\ JRTypeOK'
  BY DEF Cluster, TypeOK, SRTypeOK, JRTypeOK, srVars, jrVars
<1>1. ASSUME NEW j \in JobIds PROVE <<j[1], j[2]>> \in Nodes \X Shims
  BY DEF JobIds
<1>2. ASSUME NEW j \in JobIds, Active(j),
             NEW st \in {"active", "complete", "failed"}
      PROVE  [Live(jobV[j]) EXCEPT !.st = st] \in JobObj
  BY <1>2, ReadTypes DEF Active, JobObj
<1>3. ASSUME NEW b \in BOOLEAN, NEW k \in Nodes \X Shims
      PROVE  [host EXCEPT ![k] = b] \in [Nodes \X Shims -> BOOLEAN]
  BY DEF TypeOK, KubeTypeOK
<1>4. ASSUME NEW j \in JobIds, JobCompletes(j) PROVE KubeTypeOK'
  <2>1. jobV' \in [JobIds -> Versions(JobObj)]
    BY <1>2, <1>4, PutJobType DEF JobCompletes
  <2>2. host' \in [Nodes \X Shims -> BOOLEAN]
    BY <1>1, <1>3, <1>4 DEF JobCompletes
  <2> QED
    BY <1>4, <2>1, <2>2 DEF JobCompletes, TypeOK, KubeTypeOK
<1>5. ASSUME NEW j \in JobIds, JobFails(j) PROVE KubeTypeOK'
  <2>1. jobV' \in [JobIds -> Versions(JobObj)]
    BY <1>2, <1>5, PutJobType DEF JobFails
  <2>2. host' \in [Nodes \X Shims -> BOOLEAN]
    <3>1. CASE UNCHANGED host
      BY <3>1 DEF TypeOK, KubeTypeOK
    <3>2. CASE \E b \in BOOLEAN : host' = [host EXCEPT ![<<j[1], j[2]>>] = b]
      <4>1. PICK b \in BOOLEAN : host' = [host EXCEPT ![<<j[1], j[2]>>] = b]
        BY <3>2
      <4> QED
        BY <1>1, <1>3, <4>1
    <3> QED
      BY <1>5, <3>1, <3>2 DEF JobFails
  <2>3. budget' \in 0..MaxBudget
    BY <1>5, MaxBudgetAssumption DEF JobFails, Spend, TypeOK, KubeTypeOK
  <2> QED
    BY <1>5, <2>1, <2>2, <2>3 DEF JobFails, TypeOK, KubeTypeOK
<1>6. ASSUME NEW j \in JobIds, JobExpires(j) PROVE KubeTypeOK'
  <2>1. jobV' \in [JobIds -> Versions(JobObj)]
    BY <1>6, PutJobType DEF JobExpires
  <2>2. budget' \in 0..MaxBudget
    BY <1>6, MaxBudgetAssumption DEF JobExpires, Spend, TypeOK, KubeTypeOK
  <2> QED
    BY <1>6, <2>1, <2>2 DEF JobExpires, TypeOK, KubeTypeOK
<1>7. ASSUME NEW j \in JobIds, CollectJob(j) PROVE KubeTypeOK'
  <2>1. jobV' \in [JobIds -> Versions(JobObj)]
    BY <1>7, PutJobType DEF CollectJob
  <2>2. host' \in [Nodes \X Shims -> BOOLEAN]
    <3>1. CASE UNCHANGED host
      BY <3>1 DEF TypeOK, KubeTypeOK
    <3>2. CASE host' = [host EXCEPT ![<<j[1], j[2]>>] = TRUE]
      BY <1>1, <1>3, <3>2
    <3> QED
      BY <1>7, <3>1, <3>2 DEF CollectJob
  <2> QED
    BY <1>7, <2>1, <2>2 DEF CollectJob, TypeOK, KubeTypeOK
<1>8. ASSUME NEW r \in RuntimeClasses, CollectRuntimeClass(r) PROVE KubeTypeOK'
  <2>1. rcV' \in [RuntimeClasses -> Versions(RuntimeClassObj)]
    BY <1>8, AppendTypes DEF CollectRuntimeClass, TypeOK, KubeTypeOK
  <2> QED
    BY <1>8, <2>1 DEF CollectRuntimeClass, TypeOK, KubeTypeOK
<1> QED
  BY <1>0, <1>4, <1>5, <1>6, <1>7, <1>8 DEF Cluster, TypeOK

\* What users and administrators do keeps the types.
LEMMA TypeUsers ==
  ASSUME TypeOK, Users PROVE TypeOK'
<1> USE NoObjAssumption
<1>0. SRTypeOK' /\ JRTypeOK'
  BY DEF Users, TypeOK, SRTypeOK, JRTypeOK, srVars, jrVars
<1>1. ASSUME NEW n \in Nodes, LabelNode(n) PROVE KubeTypeOK'
  <2>1. [Live(nodeV[n]) EXCEPT !.sel = ~@] \in NodeObj
    BY <1>1, ReadTypes DEF LabelNode, NodeObj
  <2>2. /\ nodeV' \in [Nodes -> Versions(NodeObj)]
        /\ nodeCurrent' \subseteq Clients \X Nodes
    BY <1>1, <2>1, WriteNodeType DEF LabelNode
  <2> QED
    BY <1>1, <2>2, MaxBudgetAssumption
       DEF LabelNode, WriteNode, Spend, TypeOK, KubeTypeOK
<1>2. ASSUME NEW n \in Nodes, TouchNode(n) PROVE KubeTypeOK'
  <2>1. Live(nodeV[n]) \in NodeObj
    BY <1>2, ReadTypes DEF TouchNode
  <2>2. /\ nodeV' \in [Nodes -> Versions(NodeObj)]
        /\ nodeCurrent' \subseteq Clients \X Nodes
    BY <1>2, <2>1, WriteNodeType DEF TouchNode
  <2> QED
    BY <1>2, <2>2, MaxBudgetAssumption
       DEF TouchNode, WriteNode, Spend, TypeOK, KubeTypeOK
<1>3. ASSUME NEW n \in Nodes, RemoveNode(n) PROVE KubeTypeOK'
  <2>1. /\ nodeV' \in [Nodes -> Versions(NodeObj)]
        /\ nodeCurrent' \subseteq Clients \X Nodes
    BY <1>3, WriteNodeType DEF RemoveNode
  <2> QED
    BY <1>3, <2>1, MaxBudgetAssumption
       DEF RemoveNode, WriteNode, Spend, TypeOK, KubeTypeOK
<1>4. ASSUME NEW n \in Nodes, AddNode(n) PROVE KubeTypeOK'
  <2>1. [sel |-> TRUE, labels |-> [s \in Shims |-> "none"]] \in NodeObj
    BY DEF NodeObj, Labels
  <2>2. /\ nodeV' \in [Nodes -> Versions(NodeObj)]
        /\ nodeCurrent' \subseteq Clients \X Nodes
    BY <1>4, <2>1, WriteNodeType DEF AddNode
  <2>3. host' \in [Nodes \X Shims -> BOOLEAN]
    BY <1>4 DEF AddNode, TypeOK, KubeTypeOK
  <2> QED
    BY <1>4, <2>2, <2>3, MaxBudgetAssumption
       DEF AddNode, WriteNode, Spend, TypeOK, KubeTypeOK
<1>5. ASSUME NEW s \in Shims, CreateShim(s) PROVE KubeTypeOK'
  <2>1. uids' \in [Shims -> Nat] /\ uids[s] + 1 \in Nat \ {0}
    BY <1>5 DEF CreateShim, TypeOK, KubeTypeOK
  <2>2. ASSUME NEW sp \in ShimSpecs
        PROVE  [uid |-> uids[s] + 1, spec |-> sp, del |-> FALSE, fin |-> FALSE,
                nodes |-> 0, ready |-> 0] \in StoredShim
    BY <2>1 DEF StoredShim, ShimObj
  <2>3. /\ shimV' \in [Shims -> Versions(StoredShim)]
        /\ shimCurrent' \subseteq Shims
    BY <1>5, <2>2, WriteShimType DEF CreateShim
  <2> QED
    BY <1>5, <2>1, <2>3, MaxBudgetAssumption
       DEF CreateShim, WriteShim, Spend, TypeOK, KubeTypeOK
<1>6. ASSUME NEW s \in Shims, EditShim(s) PROVE KubeTypeOK'
  <2>1. ASSUME NEW sp \in ShimSpecs
        PROVE  [Live(shimV[s]) EXCEPT !.spec = sp] \in StoredShim
    BY <1>6, ReadTypes DEF EditShim, StoredShim, ShimObj
  <2>2. /\ shimV' \in [Shims -> Versions(StoredShim)]
        /\ shimCurrent' \subseteq Shims
    BY <1>6, <2>1, WriteShimType DEF EditShim
  <2> QED
    BY <1>6, <2>2, MaxBudgetAssumption
       DEF EditShim, WriteShim, Spend, TypeOK, KubeTypeOK
<1>7. ASSUME NEW s \in Shims, DeleteShim(s) PROVE KubeTypeOK'
  <2> DEFINE o == IF Live(shimV[s]).fin
                  THEN [Live(shimV[s]) EXCEPT !.del = TRUE] ELSE NoObj
  <2>1. o \in StoredShim \cup {NoObj}
    BY <1>7, ReadTypes DEF DeleteShim, StoredShim, ShimObj
  <2>2. /\ shimV' \in [Shims -> Versions(StoredShim)]
        /\ shimCurrent' \subseteq Shims
    BY <1>7, <2>1, WriteShimType DEF DeleteShim
  <2> QED
    BY <1>7, <2>2, MaxBudgetAssumption
       DEF DeleteShim, WriteShim, Spend, TypeOK, KubeTypeOK
<1> QED
  BY <1>0, <1>1, <1>2, <1>3, <1>4, <1>5, <1>6, <1>7 DEF Users, TypeOK

\* A restart keeps the types.
LEMMA TypeRestart ==
  ASSUME TypeOK, Restart PROVE TypeOK'
<1>1. nodeV' \in [Nodes -> Versions(NodeObj)]
  BY ReadTypes, VersionsSingle DEF Restart
<1>2. shimV' \in [Shims -> Versions(StoredShim)]
  BY ReadTypes, VersionsSingle DEF Restart
<1>3. jobV' \in [JobIds -> Versions(JobObj)]
  BY ReadTypes, VersionsSingle DEF Restart
<1>4. rcV' \in [RuntimeClasses -> Versions(RuntimeClassObj)]
  BY ReadTypes, VersionsSingle DEF Restart
<1>5. KubeTypeOK'
  BY <1>1, <1>2, <1>3, <1>4, MaxBudgetAssumption
     DEF Restart, Spend, TypeOK, KubeTypeOK
<1>6. SRTypeOK' /\ JRTypeOK'
  BY DEF Restart, SRReset, JRReset, SRTypeOK, JRTypeOK, SRPcs, JRPcs, Ops
<1> QED
  BY <1>5, <1>6 DEF TypeOK

\* Every step of the manager and of the cluster keeps the types.
LEMMA TypeStep ==
  ASSUME TypeOK, [Next]_vars PROVE TypeOK'
<1>1. CASE UNCHANGED vars
  BY <1>1 DEF vars, kubeVars, srVars, jrVars, TypeOK, KubeTypeOK, SRTypeOK, JRTypeOK
<1>2. CASE ResyncStep
  BY <1>2 DEF ResyncStep, Resync, findShimsToReconcile, srVars, jrVars,
              TypeOK, KubeTypeOK, SRTypeOK, JRTypeOK
<1> QED
  BY <1>1, <1>2, TypeSR, TypeJR, TypeDeliver, TypeCluster, TypeUsers, TypeRestart
     DEF Next, NextNoResync

\* Type correctness: the objects, caches, queues and the locals of both
\* reconcilers always have their types, and a local is set exactly at the
\* program points that use it.
THEOREM TypeCorrect == Spec => []TypeOK
<1>1. Init => TypeOK
  BY TypeInit
<1>2. TypeOK /\ [Next]_vars => TypeOK'
  BY TypeStep
<1> QED
  BY <1>1, <1>2, PTL DEF Spec
=============================================================================
