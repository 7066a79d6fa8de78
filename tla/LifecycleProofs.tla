-------------------------- MODULE LifecycleProofs ---------------------------
(***************************************************************************)
(* RuntimeClassManager implements ShimLifecycle: every step of the manager *)
(* and of the cluster is, for the users of a Shim, one of the steps that   *)
(* specification allows, or nothing.                                       *)
(***************************************************************************)
EXTENDS UpdateProofs

View == [s \in Shims |-> UserView(Live(shimV[s]))]

\* Steps that change no live Shim are invisible, or the controllers' own work.
LEMMA Invisible ==
  ASSUME \A s \in Shims : UserView(Live(shimV'[s])) = UserView(Live(shimV[s])),
         UNCHANGED uids
  PROVE  [Lifecycle!Next]_(Lifecycle!lifecycleVars)
<1>1. CASE UNCHANGED <<srVars, jrVars>>
  BY <1>1 DEF Lifecycle!lifecycleVars
<1>2. CASE <<srVars, jrVars>>' # <<srVars, jrVars>>
  <2>1. Lifecycle!Work
    BY <1>2 DEF Lifecycle!Work
  <2> QED
    BY <2>1 DEF Lifecycle!Next
<1> QED
  BY <1>1, <1>2

\* The users' view of a stored Shim.
LEMMA ViewOfShim ==
  ASSUME NEW o \in ShimObj
  PROVE  /\ UserView(o) = [uid |-> o.uid, spec |-> o.spec, del |-> o.del, fin |-> o.fin]
         /\ UserView(o) \in UserShim
         /\ UserView(o) # NoObj
BY NoObjAssumption DEF UserView, ShimObj, UserShim

\* Views with equal fields are equal.
LEMMA ViewsEqual ==
  ASSUME NEW v \in UserShim, NEW w \in UserShim, v.uid = w.uid,
         v.spec = w.spec, v.del = w.del, v.fin = w.fin
  PROVE  v = w
BY DEF UserShim

\* What users do is what the life cycle lets them do.
LEMMA UsersRefine ==
  ASSUME TypeOK, Users PROVE [Lifecycle!Next]_(Lifecycle!lifecycleVars)
<1> USE NoObjAssumption
<1>0. UNCHANGED <<srVars, jrVars>>
  BY DEF Users
<1>1. ASSUME NEW n \in Nodes, LabelNode(n) \/ TouchNode(n) \/ RemoveNode(n)
                              \/ AddNode(n)
      PROVE  [Lifecycle!Next]_(Lifecycle!lifecycleVars)
  BY <1>1, Invisible DEF LabelNode, TouchNode, RemoveNode, AddNode, WriteNode
<1>2. ASSUME NEW s \in Shims, NEW o \in StoredShim \cup {NoObj}, WriteShim(s, o)
      PROVE  View' = [View EXCEPT ![s] = UserView(o)]
  <2>1. /\ Live(shimV'[s]) = o
        /\ \A t \in Shims : t # s => shimV'[t] = shimV[t]
    BY <1>2, WriteShimFacts
  <2> QED
    BY <2>1 DEF View
<1>3. ASSUME NEW s \in Shims, CreateShim(s) PROVE Lifecycle!Create(s)
  <2>1. PICK sp \in ShimSpecs :
          WriteShim(s, [uid |-> uids[s] + 1, spec |-> sp, del |-> FALSE,
                        fin |-> FALSE, nodes |-> 0, ready |-> 0])
    BY <1>3 DEF CreateShim
  <2> DEFINE o == [uid |-> uids[s] + 1, spec |-> sp, del |-> FALSE,
                   fin |-> FALSE, nodes |-> 0, ready |-> 0]
  <2>2. o \in StoredShim
    BY DEF StoredShim, ShimObj, TypeOK, KubeTypeOK
  <2>3. UserView(o) = [uid |-> uids[s] + 1, spec |-> sp, del |-> FALSE, fin |-> FALSE]
    BY <2>2 DEF UserView, StoredShim
  <2>4. View' = [View EXCEPT ![s] = UserView(o)]
    BY <1>2, <2>1, <2>2
  <2>5. View[s] = NoObj
    BY <1>3 DEF CreateShim, View, UserView
  <2> QED
    BY <1>0, <1>3, <2>3, <2>4, <2>5 DEF Lifecycle!Create, CreateShim, View
<1>4. ASSUME NEW s \in Shims, EditShim(s) PROVE Lifecycle!Edit(s)
  <2> DEFINE live == Live(shimV[s])
  <2>1. PICK sp \in ShimSpecs : WriteShim(s, [live EXCEPT !.spec = sp])
    BY <1>4 DEF EditShim
  <2>2. live \in StoredShim
    BY <1>4, ReadTypes DEF EditShim
  <2>3. [live EXCEPT !.spec = sp] \in StoredShim
    BY <2>2 DEF StoredShim, ShimObj
  <2>4. View' = [View EXCEPT ![s] = UserView([live EXCEPT !.spec = sp])]
    BY <1>2, <2>1, <2>3
  <2>5. View[s] = UserView(live) /\ View[s] # NoObj
    BY <2>2, ViewOfShim DEF View, StoredShim
  <2>6. UserView([live EXCEPT !.spec = sp]) = [UserView(live) EXCEPT !.spec = sp]
    BY <2>2, <2>3 DEF UserView, StoredShim, ShimObj
  <2>7. View' = [View EXCEPT ![s].spec = sp]
    BY <2>4, <2>5, <2>6
  <2> QED
    BY <1>0, <1>4, <2>5, <2>7 DEF Lifecycle!Edit, EditShim, View
<1>5. ASSUME NEW s \in Shims, DeleteShim(s) PROVE Lifecycle!Delete(s)
  <2> DEFINE live == Live(shimV[s])
             o == IF live.fin THEN [live EXCEPT !.del = TRUE] ELSE NoObj
  <2>1. live \in StoredShim /\ ~live.del
    BY <1>5, ReadTypes DEF DeleteShim
  <2>2. o \in StoredShim \cup {NoObj}
    BY <2>1 DEF StoredShim, ShimObj
  <2>3. View' = [View EXCEPT ![s] = UserView(o)]
    BY <1>2, <1>5, <2>2 DEF DeleteShim
  <2>4. /\ View[s] = [uid |-> live.uid, spec |-> live.spec, del |-> live.del,
                      fin |-> live.fin]
        /\ View[s] # NoObj
    BY <2>1, ViewOfShim DEF View, StoredShim
  <2>5. SUFFICES View' = [View EXCEPT ![s] = IF View[s].fin
                                              THEN [View[s] EXCEPT !.del = TRUE]
                                              ELSE NoObj]
    <3>1. View[s].del = live.del
      BY <2>4
    <3>2. ~View[s].del /\ UNCHANGED uids
      BY <1>5, <2>1, <3>1 DEF DeleteShim
    <3> QED
      BY <1>0, <2>4, <2>5, <3>2 DEF Lifecycle!Delete, View
  <2>6. View[s].fin = live.fin
    BY <2>4
  <2>7. CASE live.fin
    <3>1. [live EXCEPT !.del = TRUE] \in ShimObj
      BY <2>1 DEF StoredShim, ShimObj
    <3>2. View[s] \in UserShim /\ UserView([live EXCEPT !.del = TRUE]) \in UserShim
      BY <2>1, <3>1, ViewOfShim DEF View, StoredShim
    <3>3. UserView([live EXCEPT !.del = TRUE]) = [View[s] EXCEPT !.del = TRUE]
      <4> DEFINE v == UserView([live EXCEPT !.del = TRUE])
                 w == [View[s] EXCEPT !.del = TRUE]
      <4>1. v.uid = live.uid /\ v.spec = live.spec /\ v.del = TRUE /\ v.fin = live.fin
        BY <2>1, <3>1, ViewOfShim DEF StoredShim, ShimObj
      <4>2. /\ w \in UserShim /\ w.uid = View[s].uid /\ w.spec = View[s].spec
            /\ w.del = TRUE /\ w.fin = View[s].fin
        BY <3>2 DEF UserShim
      <4>3. View[s].uid = live.uid /\ View[s].spec = live.spec /\ View[s].fin = live.fin
        BY <2>4
      <4> HIDE DEF v, w
      <4> QED
        BY <3>2, <4>1, <4>2, <4>3, ViewsEqual DEF v, w
    <3>4. View' = [View EXCEPT ![s] = [View[s] EXCEPT !.del = TRUE]]
      <4>1. o = [live EXCEPT !.del = TRUE]
        BY <2>7
      <4> QED
        BY <2>3, <3>3, <4>1, Zenon
    <3> HIDE DEF live
    <3> QED
      BY <2>6, <2>7, <3>4
  <2>8. CASE ~live.fin
    <3>1. View' = [View EXCEPT ![s] = NoObj]
      BY <2>3, <2>8 DEF UserView
    <3> QED
      BY <2>6, <2>8, <3>1
  <2> QED
    BY <2>7, <2>8
<1> QED
  BY <1>1, <1>3, <1>4, <1>5 DEF Users, Lifecycle!Next

\* The shim controller protects Shims that are not being deleted, releases
\* those that are, and changes nothing else a user can see.
LEMMA ControllerRefines ==
  ASSUME TypeOK, ShimCopy, ReleasesOnlyDeleted, SRStep
  PROVE  [Lifecycle!Next]_(Lifecycle!lifecycleVars)
<1> USE NoObjAssumption
<1>1. UNCHANGED uids
  BY DEF SRStep, SRNext, SRNotFound, SRStart, updateStatus, SRRefetchNotFound,
         SRRefetch, handleDeployRuntimeClass, handleInstallShim, kubeVars,
         deployJobNodeNotFound, deployJobNoArtifact, deployJobOnNode,
         updateNodeLabels, patchJob, patchJobRefused, markNodeFailed,
         removeFinalizerFromShim, ensureFinalizerForShim
<1>2. ASSUME UNCHANGED shimV PROVE [Lifecycle!Next]_(Lifecycle!lifecycleVars)
  BY <1>1, <1>2, Invisible
<1>3. CASE updateStatus
  <2>1. srShim \in Shims /\ srObj \in ShimObj /\ srPc = "status"
    BY <1>3 DEF updateStatus, TypeOK, SRTypeOK
  <2>2. \A t \in Shims :
          \/ Live(shimV'[t]) = Live(shimV[t])
          \/ /\ t = srShim /\ srShim \in shimCurrent
             /\ Live(shimV'[t]) = IF srObj.del /\ ~srObj.fin THEN NoObj ELSE srObj
    BY <1>3, <2>1, UpdateShimFacts, FailedShimUpdate DEF updateStatus
  <2>3. ASSUME srShim \in shimCurrent
        PROVE  /\ UserView(srObj) = UserView(Live(shimV[srShim]))
               /\ ~(srObj.del /\ ~srObj.fin)
    <3>1. /\ Live(shimV[srShim]) \in StoredShim
          /\ srObj.uid = Live(shimV[srShim]).uid
          /\ srObj.spec = Live(shimV[srShim]).spec
          /\ srObj.del = Live(shimV[srShim]).del
          /\ srObj.fin = Live(shimV[srShim]).fin
      BY <2>1, <2>3, ReadTypes DEF ShimCopy
    <3> QED
      BY <2>1, <3>1, ViewOfShim DEF StoredShim
  <2>4. \A t \in Shims : UserView(Live(shimV'[t])) = UserView(Live(shimV[t]))
    BY <2>2, <2>3
  <2> QED
    BY <1>1, <2>4, Invisible
<1>4. CASE removeFinalizerFromShim
  <2> DEFINE o == [srObj EXCEPT !.fin = FALSE]
             live == Live(shimV[srShim])
  <2>1. srShim \in Shims /\ srObj \in ShimObj /\ srObj.fin
    BY <1>4 DEF removeFinalizerFromShim, TypeOK, SRTypeOK
  <2>2. srObj.del
    BY <1>4 DEF removeFinalizerFromShim, ReleasesOnlyDeleted
  <2>3. o \in ShimObj /\ o.del /\ ~o.fin
    BY <2>1, <2>2 DEF ShimObj
  <2>4. CASE UNCHANGED shimV
    BY <1>2, <2>4
  <2>5. CASE UpdateShim(srShim, o)
    <3>1. \A t \in Shims :
            Live(shimV'[t]) = IF t = srShim /\ srShim \in shimCurrent /\ live # o
                              THEN NoObj ELSE Live(shimV[t])
      BY <2>1, <2>3, <2>5, UpdateShimFacts
    <3>2. CASE srShim \in shimCurrent
      <4>1. live \in StoredShim /\ live.del = srObj.del /\ live.fin = srObj.fin
        BY <1>4, <2>1, <3>2, ReadTypes DEF ShimCopy, removeFinalizerFromShim
      <4>2. live # o
        BY <2>1, <2>3, <4>1
      <4>3. View' = [View EXCEPT ![srShim] = NoObj]
        BY <3>1, <3>2, <4>2 DEF View, UserView
      <4>4. View[srShim] # NoObj /\ View[srShim].del /\ View[srShim].fin
        <5>1. /\ View[srShim] = [uid |-> live.uid, spec |-> live.spec,
                                 del |-> live.del, fin |-> live.fin]
              /\ View[srShim] # NoObj
          BY <2>1, <4>1, ViewOfShim DEF View, StoredShim
        <5> QED
          BY <2>1, <2>2, <4>1, <5>1
      <4>5. <<srVars, jrVars>>' # <<srVars, jrVars>>
        BY <1>4 DEF removeFinalizerFromShim, srVars
      <4>6. Lifecycle!Release(srShim)
        BY <1>1, <4>3, <4>4, <4>5 DEF Lifecycle!Release, View
      <4> QED
        BY <2>1, <4>6 DEF Lifecycle!Next
    <3>3. CASE srShim \notin shimCurrent
      BY <1>1, <3>1, <3>3, Invisible
    <3> QED
      BY <3>2, <3>3
  <2> QED
    BY <1>4, <2>4, <2>5 DEF removeFinalizerFromShim
<1>5. CASE ensureFinalizerForShim
  <2> DEFINE o == [srObj EXCEPT !.fin = TRUE]
             live == Live(shimV[srShim])
  <2>1. srShim \in Shims /\ srObj \in ShimObj
    BY <1>5 DEF ensureFinalizerForShim, TypeOK, SRTypeOK
  <2>2. o \in ShimObj /\ o.fin /\ o.uid = srObj.uid /\ o.spec = srObj.spec
        /\ o.del = srObj.del
    BY <2>1 DEF ShimObj
  <2>3. CASE UNCHANGED shimV
    BY <1>2, <2>3
  <2>4. CASE UpdateShim(srShim, o) /\ ~srObj.fin /\ srShim \notin shimCurrent
    <3>1. \A t \in Shims : Live(shimV'[t]) = Live(shimV[t])
      BY <2>1, <2>2, <2>4, UpdateShimFacts
    <3> QED
      BY <1>1, <3>1, Invisible
  <2>5. CASE UpdateShim(srShim, o) /\ ~srObj.fin /\ srShim \in shimCurrent
    <3>1. \A t \in Shims :
            Live(shimV'[t]) = IF t = srShim THEN o ELSE Live(shimV[t])
      BY <2>1, <2>2, <2>5, UpdateShimFacts
    <3>2. /\ live \in StoredShim /\ srObj.uid = live.uid
          /\ srObj.spec = live.spec /\ srObj.del = live.del
          /\ srObj.fin # live.fin => live.del /\ live.fin
      BY <2>1, <2>5, ReadTypes DEF ShimCopy
    <3>3. live \in ShimObj /\ live.del \in BOOLEAN /\ live.fin \in BOOLEAN
      BY <3>2 DEF StoredShim, ShimObj
    <3>4. UserView(o) = [uid |-> live.uid, spec |-> live.spec, del |-> live.del,
                         fin |-> TRUE]
      BY <2>2, <3>2, ViewOfShim
    <3>5. /\ View[srShim] = [uid |-> live.uid, spec |-> live.spec,
                             del |-> live.del, fin |-> live.fin]
          /\ View[srShim] \in UserShim /\ View[srShim] # NoObj
      BY <2>1, <3>3, ViewOfShim DEF View
    <3>6. View' = [View EXCEPT ![srShim] = UserView(o)]
      BY <3>1 DEF View
    <3>7. CASE live.fin
      <4>1. UserView(o) = UserView(live)
        BY <3>3, <3>4, <3>7, ViewOfShim
      <4>2. \A t \in Shims : UserView(Live(shimV'[t])) = UserView(Live(shimV[t]))
        BY <3>1, <4>1
      <4> QED
        BY <1>1, <4>2, Invisible
    <3>8. CASE ~live.fin
      <4>1. ~live.del
        BY <3>2, <3>8 DEF StoredShim
      <4>2. UserView(o) = [View[srShim] EXCEPT !.fin = TRUE]
        <5> DEFINE v == UserView(o)
                   w == [View[srShim] EXCEPT !.fin = TRUE]
        <5>1. /\ v \in UserShim
              /\ v.uid = live.uid /\ v.spec = live.spec /\ v.del = live.del
              /\ v.fin = TRUE
          BY <2>2, <3>4, ViewOfShim
        <5>2. /\ w \in UserShim /\ w.uid = View[srShim].uid
              /\ w.spec = View[srShim].spec /\ w.del = View[srShim].del
              /\ w.fin = TRUE
          BY <3>5 DEF UserShim
        <5>3. /\ View[srShim].uid = live.uid /\ View[srShim].spec = live.spec
              /\ View[srShim].del = live.del
          BY <3>5
        <5> HIDE DEF v, w
        <5> QED
          BY <5>1, <5>2, <5>3, ViewsEqual DEF v, w
      <4>3. View' = [View EXCEPT ![srShim].fin = TRUE]
        BY <3>6, <4>2
      <4>4. ~View[srShim].del
        <5>1. View[srShim].del = live.del
          BY <3>5
        <5> QED
          BY <4>1, <5>1
      <4>5. <<srVars, jrVars>>' # <<srVars, jrVars>>
        BY <1>5 DEF ensureFinalizerForShim, SRReset, srVars
      <4>6. Lifecycle!Protect(srShim)
        BY <1>1, <3>5, <4>3, <4>4, <4>5 DEF Lifecycle!Protect, View
      <4> QED
        BY <2>1, <4>6 DEF Lifecycle!Next
    <3> QED
      BY <3>7, <3>8
  <2> QED
    BY <1>5, <2>3, <2>4, <2>5, FailedShimUpdate DEF ensureFinalizerForShim
<1>6. CASE \/ \E s \in Shims : SRNotFound(s) \/ SRStart(s)
           \/ SRRefetchNotFound \/ SRRefetch
           \/ handleDeployRuntimeClass \/ handleInstallShim
           \/ \E n \in Nodes : \/ deployJobNodeNotFound(n) \/ deployJobNoArtifact(n)
                               \/ deployJobOnNode(n)
           \/ updateNodeLabels \/ patchJob \/ patchJobRefused \/ markNodeFailed
  <2>1. UNCHANGED shimV
    BY <1>6 DEF SRNotFound, SRStart, SRRefetchNotFound, SRRefetch, kubeVars,
         handleDeployRuntimeClass, handleInstallShim, deployJobNodeNotFound,
         deployJobNoArtifact, deployJobOnNode, updateNodeLabels, patchJob,
         patchJobRefused, markNodeFailed
  <2> QED
    BY <1>2, <2>1
<1> QED
  BY <1>3, <1>4, <1>5, <1>6 DEF SRStep, SRNext

\* Every other step changes nothing a user sees.
LEMMA StepRefines ==
  ASSUME TypeOK, CopiesAgreeWithLive, [Next]_vars
  PROVE  [Lifecycle!Next]_(Lifecycle!lifecycleVars)
<1>1. CASE UNCHANGED vars \/ JRStep \/ Cluster \/ ResyncStep
  <2>1. UNCHANGED <<shimV, uids>>
    BY <1>1 DEF vars, kubeVars, JRStep, JRNext, JRNothing, JRStart, JRPanic,
         JRWrite, JRRecover, Cluster, JobCompletes, JobFails, JobExpires,
         CollectJob, CollectRuntimeClass, ResyncStep, Resync
  <2> QED
    BY <2>1, Invisible
<1>2. CASE Deliver
  <2>1. UNCHANGED uids
    BY <1>2 DEF Deliver, DeliverNode, DeliverShim, DeliverJob, DeliverRuntimeClass
  <2>2. \A t \in Shims : Live(shimV'[t]) = Live(shimV[t])
    <3>1. ASSUME NEW s \in Shims, DeliverShim(s), NEW t \in Shims
          PROVE  Live(shimV'[t]) = Live(shimV[t])
      BY <3>1, VersionsTail DEF DeliverShim, TypeOK, KubeTypeOK
    <3>2. CASE UNCHANGED shimV
      BY <3>2
    <3> QED
      BY <1>2, <3>1, <3>2 DEF Deliver, DeliverNode, DeliverJob, DeliverRuntimeClass
  <2> QED
    BY <2>1, <2>2, Invisible
<1>3. CASE Restart
  <2>1. UNCHANGED uids /\ \A t \in Shims : shimV'[t] = <<Live(shimV[t])>>
    BY <1>3 DEF Restart
  <2>2. \A t \in Shims : Live(shimV'[t]) = Live(shimV[t])
    BY <2>1 DEF Live
  <2> QED
    BY <2>1, <2>2, Invisible
<1> QED
  BY <1>1, <1>2, <1>3, ControllerRefines, UsersRefine
     DEF CopiesAgreeWithLive, Next, NextNoResync

\* The manager implements the life cycle users rely on: only a user's step
\* changes a spec, so that no edit is reverted by an Update made from a stale
\* copy; no deletion is undone and no removed Shim revived; the finalizer is
\* set only on Shims that are not being deleted and taken only from those that
\* are.
THEOREM LifecycleImplemented == Spec => LifecycleSpec
<1>1. Init => Lifecycle!Init
  BY DEF Init, Lifecycle!Init, UserView, Live
<1>2. TypeOK /\ CopiesAgreeWithLive /\ [Next]_vars
        => [Lifecycle!Next]_(Lifecycle!lifecycleVars)
  BY StepRefines
<1> QED
  BY <1>1, <1>2, CopiesCorrect, PTL DEF Spec, LifecycleSpec, Lifecycle!Spec
=============================================================================
