-------------------------- MODULE ProvisionedProofs -------------------------
(***************************************************************************)
(* The label "provisioned" is never ahead of the node, for every set of    *)
(* nodes and shims, every lag of the cache, edits, failing Jobs, refused   *)
(* calls and restarts, in clusters where no Shim is deleted, no node       *)
(* removed and no finished Job expires.                                    *)
(***************************************************************************)
EXTENDS FinalizerProofs

Lasting == EnvOps \cap {"delete", "nodeGone", "expire"} = {}

\* The first Shim under its name, which nobody deletes.
FirstShim == {o \in StoredShim : o.uid = 1 /\ ~o.del}

\* Shims that were created stay, and the shim controller only ever installs.
ShimsStay ==
  /\ shimV \in [Shims -> Versions(FirstShim)]
  /\ \A s \in Shims : Live(shimV[s]) = NoObj =>
                        uids[s] = 0 /\ shimV[s] \in Versions({})
  /\ srObj # NoObj =>
       srObj.uid = 1 /\ ~srObj.del /\ Live(shimV[srShim]) # NoObj
  /\ srOp = "install" /\ srPc # "unfinalize"

OwnedJob == {o \in JobObj : o.owner = 1}
UnfinishedJob == {o \in JobObj : o.st # "complete"}

CompleteJob(j) == Live(jobV[j]) # NoObj /\ Live(jobV[j]).st = "complete"

\* There are install Jobs only, each with its Shim; a completed one stays
\* completed, also in the cache, and has left the shim on the host.
JobStays(j) ==
  /\ j[3] = "uninstall" => jobV[j] \in Versions({})
  /\ jobV[j] \in Versions(OwnedJob)
  /\ Live(jobV[j]) # NoObj => Live(shimV[j[2]]) # NoObj
  /\ ~CompleteJob(j) => jobV[j] \in Versions(UnfinishedJob)
  /\ CompleteJob(j) => host[<<j[1], j[2]>>]

JobsStay == \A j \in JobIds : JobStays(j)

Done(n, s) == CompleteJob(<<n, s, "install">>)

\* No label "provisioned" without a completed install Job, neither on a live
\* node nor in a copy that is about to be written.
LabelsTrue ==
  /\ \A n \in Nodes : /\ Live(nodeV[n]) # NoObj
                      /\ \A s \in Shims :
                           Live(nodeV[n]).labels[s] = "provisioned" => Done(n, s)
  /\ srPc \in {"label", "patch", "markfailed"} =>
       srCopy.labels[srShim] # "provisioned"
  /\ jrPc = "write" /\ jrCopy.labels[jrJob[2]] = "provisioned" =>
       Done(jrJob[1], jrJob[2])

ProvisionedInv ==
  TypeOK /\ CopiesAgreeWithLive /\ ShimsStay /\ JobsStay /\ LabelsTrue

------------------------------------------------------------------------------
(* Shims.                                                                   *)

\* An Update of a Shim that nobody deletes keeps it.
LEMMA UpdateKeepsShim ==
  ASSUME TypeOK, ShimsStay, NEW s \in Shims, NEW o \in ShimObj,
         o.uid = 1, ~o.del, Live(shimV[s]) # NoObj, UpdateShim(s, o)
  PROVE  /\ shimV' \in [Shims -> Versions(FirstShim)]
         /\ \A t \in Shims : Live(shimV'[t]) = NoObj => shimV'[t] = shimV[t]
         /\ \A t \in Shims : Live(shimV[t]) # NoObj => Live(shimV'[t]) # NoObj
<1> USE NoObjAssumption
<1>1. shimV \in [Shims -> Versions(FirstShim)] /\ o \in FirstShim /\ o # NoObj
  BY DEF ShimsStay, FirstShim, StoredShim
<1>2. CASE shimV' = [shimV EXCEPT ![s] = Append(shimV[s], o)]
  <2>1. shimV' \in [Shims -> Versions(FirstShim)]
    BY <1>1, <1>2, AppendTypes
  <2>2. Live(shimV'[s]) = o /\ \A t \in Shims : t # s => shimV'[t] = shimV[t]
    BY <1>1, <1>2, VersionsAppend
  <2> QED
    BY <1>1, <2>1, <2>2
<1>3. CASE UNCHANGED shimV
  BY <1>1, <1>3
<1> QED
  BY <1>2, <1>3 DEF UpdateShim

\* The shim controller's steps.
LEMMA ShimsStaySR ==
  ASSUME TypeOK, ShimsStay, SRStep
  PROVE  ShimsStay' /\ \A t \in Shims : Live(shimV[t]) # NoObj => Live(shimV'[t]) # NoObj
<1> USE NoObjAssumption
<1>0. UNCHANGED uids
  BY DEF SRStep, SRNext, SRNotFound, SRStart, updateStatus, SRRefetchNotFound,
         SRRefetch, handleDeployRuntimeClass, handleInstallShim, kubeVars,
         deployJobNodeNotFound, deployJobNoArtifact, deployJobOnNode,
         updateNodeLabels, patchJob, patchJobRefused, markNodeFailed,
         removeFinalizerFromShim, ensureFinalizerForShim
<1>1. ASSUME NEW s \in Shims, Cached(shimV[s]) # NoObj
      PROVE  /\ Cached(shimV[s]) \in FirstShim
             /\ Cached(shimV[s]).uid = 1 /\ ~Cached(shimV[s]).del
             /\ Live(shimV[s]) # NoObj
  <2>1. shimV[s] \in Versions(FirstShim)
    BY DEF ShimsStay
  <2>2. shimV[s] \notin Versions({})
    BY <1>1, VersionsRead
  <2> QED
    BY <1>1, <2>1, <2>2, VersionsRead DEF ShimsStay, FirstShim
<1>2. CASE \E s \in Shims : SRNotFound(s)
  BY <1>0, <1>2 DEF SRNotFound, srVars, ShimsStay
<1>3. ASSUME NEW s \in Shims, SRStart(s)
      PROVE  ShimsStay' /\ UNCHANGED shimV
  <2>1. srObj'.uid = Cached(shimV[s]).uid /\ srObj'.del = Cached(shimV[s]).del
    BY <1>1, <1>3 DEF SRStart, FirstShim, StoredShim, ShimObj
  <2> QED
    BY <1>0, <1>1, <1>3, <2>1 DEF SRStart, ShimsStay
<1>4. CASE updateStatus
  <2>1. srShim \in Shims /\ srObj \in ShimObj
    BY <1>4 DEF updateStatus, TypeOK, SRTypeOK
  <2> QED
    BY <1>0, <1>4, <2>1, UpdateKeepsShim, FailedShimUpdate DEF updateStatus, ShimsStay
<1>5. CASE SRRefetchNotFound \/ handleDeployRuntimeClass \/ handleInstallShim
  BY <1>0, <1>5 DEF SRRefetchNotFound, handleDeployRuntimeClass, handleInstallShim,
                    kubeVars, ShimsStay
<1>6. CASE SRRefetch
  <2>1. srShim \in Shims
    BY <1>6 DEF SRRefetch, TypeOK, SRTypeOK
  <2>2. srObj'.uid = 1 /\ ~srObj'.del /\ Live(shimV[srShim]) # NoObj
    BY <1>1, <1>6, <2>1 DEF SRRefetch
  <2> QED
    BY <1>0, <1>6, <2>2 DEF SRRefetch, ShimsStay
<1>7. ASSUME NEW n \in Nodes, deployJobNodeNotFound(n) \/ deployJobNoArtifact(n)
                              \/ deployJobOnNode(n)
      PROVE  ShimsStay' /\ UNCHANGED shimV
  BY <1>0, <1>7 DEF deployJobNodeNotFound, deployJobNoArtifact, deployJobOnNode,
                    kubeVars, NodeError, NextNode, ShimsStay
<1>8. CASE updateNodeLabels \/ patchJob \/ patchJobRefused \/ markNodeFailed
  BY <1>0, <1>8 DEF updateNodeLabels, patchJob, patchJobRefused, markNodeFailed,
                    NodeError, NextNode, ShimsStay
<1>9. CASE removeFinalizerFromShim
  BY <1>9 DEF removeFinalizerFromShim, ShimsStay
<1>10. CASE ensureFinalizerForShim
  <2> DEFINE o == [srObj EXCEPT !.fin = TRUE]
  <2>1. srShim \in Shims /\ srObj \in ShimObj
    BY <1>10 DEF ensureFinalizerForShim, TypeOK, SRTypeOK
  <2>2. srObj.uid = 1 /\ ~srObj.del /\ Live(shimV[srShim]) # NoObj
    BY <2>1 DEF ShimsStay
  <2>3. o \in ShimObj /\ o.uid = 1 /\ ~o.del
    BY <2>1, <2>2 DEF ShimObj
  <2>4. /\ shimV' \in [Shims -> Versions(FirstShim)]
        /\ \A t \in Shims : Live(shimV'[t]) = NoObj => shimV'[t] = shimV[t]
        /\ \A t \in Shims : Live(shimV[t]) # NoObj => Live(shimV'[t]) # NoObj
    <3>1. CASE UNCHANGED shimV
      BY <3>1 DEF ShimsStay
    <3>2. CASE UpdateShim(srShim, o)
      BY <2>1, <2>2, <2>3, <3>2, UpdateKeepsShim
    <3> QED
      BY <1>10, <3>1, <3>2, FailedShimUpdate DEF ensureFinalizerForShim
  <2> QED
    BY <1>0, <1>10, <2>4 DEF ensureFinalizerForShim, SRReset, ShimsStay
<1> QED
  BY <1>2, <1>3, <1>4, <1>5, <1>6, <1>7, <1>8, <1>9, <1>10
     DEF SRStep, SRNext, SRNotFound, SRRefetchNotFound, SRRefetch, kubeVars,
         handleDeployRuntimeClass, handleInstallShim, updateNodeLabels, patchJob,
         patchJobRefused, markNodeFailed, updateStatus

\* Every step.
LEMMA ShimsStayStep ==
  ASSUME TypeOK, ShimsStay, [Next]_vars, Lasting
  PROVE  ShimsStay' /\ \A t \in Shims : Live(shimV[t]) # NoObj => Live(shimV'[t]) # NoObj
<1> USE NoObjAssumption
<1>0. shimV \in [Shims -> Versions(FirstShim)]
  BY DEF ShimsStay
<1>1. ASSUME UNCHANGED <<srVars, shimV, uids>> PROVE ShimsStay'
  BY <1>1 DEF ShimsStay, srVars
<1>2. CASE JRStep \/ Cluster \/ ResyncStep \/ UNCHANGED vars
  <2>1. UNCHANGED <<srVars, shimV, uids>>
    BY <1>2 DEF vars, kubeVars, JRStep, JRNext, JRNothing, JRStart, JRPanic,
         JRWrite, JRRecover, Cluster, JobCompletes, JobFails, JobExpires,
         CollectJob, CollectRuntimeClass, ResyncStep, Resync
  <2> QED
    BY <1>1, <2>1
<1>3. CASE Deliver
  <2>1. UNCHANGED <<srVars, uids>>
    BY <1>3 DEF Deliver, DeliverNode, DeliverShim, DeliverJob, DeliverRuntimeClass
  <2>2. ASSUME NEW s \in Shims, DeliverShim(s)
        PROVE  ShimsStay' /\ \A t \in Shims : Live(shimV'[t]) = Live(shimV[t])
    <3>1. Len(shimV[s]) > 1 /\ shimV' = [shimV EXCEPT ![s] = Tail(shimV[s])]
      BY <2>2 DEF DeliverShim
    <3>2. shimV' \in [Shims -> Versions(FirstShim)]
      BY <1>0, <3>1, TailTypes
    <3>3. \A t \in Shims : Live(shimV'[t]) = Live(shimV[t])
      BY <1>0, <3>1, VersionsTail
    <3>4. \A t \in Shims : shimV[t] \in Versions({}) => shimV'[t] \in Versions({})
      BY <1>0, <3>1, VersionsTail
    <3>5. srObj # NoObj => srShim \in Shims
      BY DEF TypeOK, SRTypeOK
    <3> QED
      BY <2>1, <3>2, <3>3, <3>4, <3>5 DEF ShimsStay, srVars
  <2>3. CASE UNCHANGED shimV
    BY <1>1, <2>1, <2>3
  <2> QED
    BY <1>3, <2>2, <2>3 DEF Deliver, DeliverNode, DeliverJob, DeliverRuntimeClass
<1>4. CASE Users
  <2>1. UNCHANGED srVars
    BY <1>4 DEF Users
  <2>2. ASSUME NEW s \in Shims, NEW o \in FirstShim, WriteShim(s, o),
               \A t \in Shims \ {s} : uids'[t] = uids[t]
        PROVE  ShimsStay' /\ \A t \in Shims : Live(shimV[t]) # NoObj => Live(shimV'[t]) # NoObj
    <3>1. shimV' = [shimV EXCEPT ![s] = Append(shimV[s], o)]
      BY <2>2 DEF WriteShim
    <3>2. shimV' \in [Shims -> Versions(FirstShim)]
      BY <1>0, <3>1, AppendTypes
    <3>3. Live(shimV'[s]) = o /\ \A t \in Shims : t # s => shimV'[t] = shimV[t]
      BY <1>0, <3>1, VersionsAppend
    <3>4. o # NoObj
      BY DEF FirstShim, StoredShim
    <3>5. \A t \in Shims : Live(shimV[t]) # NoObj => Live(shimV'[t]) # NoObj
      BY <3>3, <3>4
    <3>6. \A t \in Shims : Live(shimV'[t]) = NoObj =>
                             uids'[t] = 0 /\ shimV'[t] \in Versions({})
      BY <2>2, <3>3, <3>4 DEF ShimsStay
    <3>7. srObj # NoObj => srShim \in Shims
      BY DEF TypeOK, SRTypeOK
    <3> QED
      BY <2>1, <3>2, <3>5, <3>6, <3>7 DEF ShimsStay, srVars
  <2>3. ASSUME NEW s \in Shims, CreateShim(s)
        PROVE  \E o \in FirstShim : WriteShim(s, o)
    <3>1. uids[s] = 0
      BY <2>3 DEF CreateShim, ShimsStay
    <3>2. \A sp \in ShimSpecs :
            [uid |-> uids[s] + 1, spec |-> sp, del |-> FALSE, fin |-> FALSE,
             nodes |-> 0, ready |-> 0] \in FirstShim
      BY <3>1 DEF FirstShim, StoredShim, ShimObj
    <3> QED
      BY <2>3, <3>2 DEF CreateShim
  <2>4. ASSUME NEW s \in Shims, EditShim(s)
        PROVE  \E o \in FirstShim : WriteShim(s, o)
    <3>1. Live(shimV[s]) \in FirstShim
      BY <1>0, <2>4, VersionsRead DEF EditShim
    <3>2. \A sp \in ShimSpecs : [Live(shimV[s]) EXCEPT !.spec = sp] \in FirstShim
      BY <3>1 DEF FirstShim, StoredShim, ShimObj
    <3> QED
      BY <2>4, <3>2 DEF EditShim
  <2>5. ASSUME NEW s \in Shims, CreateShim(s) \/ EditShim(s)
        PROVE  \A t \in Shims \ {s} : uids'[t] = uids[t]
    BY <2>5 DEF CreateShim, EditShim, TypeOK, KubeTypeOK
  <2>6. ASSUME NEW s \in Shims, DeleteShim(s) PROVE FALSE
    BY <2>6 DEF DeleteShim, Spend, Lasting
  <2>7. ASSUME NEW n \in Nodes, LabelNode(n) \/ TouchNode(n) \/ RemoveNode(n)
                                \/ AddNode(n)
        PROVE  UNCHANGED <<shimV, uids>>
    BY <2>7 DEF LabelNode, TouchNode, RemoveNode, AddNode, WriteNode
  <2> QED
    BY <1>1, <1>4, <2>1, <2>2, <2>3, <2>4, <2>5, <2>6, <2>7 DEF Users
<1>5. CASE Restart
  <2>1. \A t \in Shims : shimV'[t] = <<Live(shimV[t])>>
    BY <1>5 DEF Restart
  <2>2. \A t \in Shims : /\ Live(shimV[t]) \in FirstShim \cup {NoObj}
                         /\ Live(shimV'[t]) = Live(shimV[t])
                         /\ shimV'[t] \in Versions(FirstShim)
                         /\ Live(shimV[t]) = NoObj => shimV'[t] \in Versions({})
    <3> SUFFICES ASSUME NEW t \in Shims
                 PROVE  /\ Live(shimV[t]) \in FirstShim \cup {NoObj}
                        /\ Live(shimV'[t]) = Live(shimV[t])
                        /\ shimV'[t] \in Versions(FirstShim)
                        /\ Live(shimV[t]) = NoObj => shimV'[t] \in Versions({})
      OBVIOUS
    <3>1. shimV[t] \in Versions(FirstShim)
      BY <1>0
    <3>2. Live(shimV[t]) \in FirstShim \cup {NoObj}
      BY <3>1, VersionsRead
    <3>3. /\ <<Live(shimV[t])>> \in Versions(FirstShim)
          /\ Live(<<Live(shimV[t])>>) = Live(shimV[t])
      BY <3>2, VersionsSingle
    <3>4. <<NoObj>> \in Versions({})
      BY VersionsSingle
    <3> QED
      BY <2>1, <3>2, <3>3, <3>4
  <2>3. shimV' \in [Shims -> Versions(FirstShim)]
    BY <1>5, <2>2 DEF Restart
  <2> QED
    BY <1>5, <2>2, <2>3 DEF Restart, SRReset, ShimsStay
<1> QED
  BY <1>2, <1>3, <1>4, <1>5, ShimsStaySR DEF Next, NextNoResync

------------------------------------------------------------------------------
(* Jobs.                                                                    *)

\* Jobs that a step leaves alone, delivers or reads again after a restart.
LEMMA JobKept ==
  ASSUME NEW j \in JobIds, JobStays(j),
         \/ jobV'[j] = jobV[j]
         \/ Len(jobV[j]) > 1 /\ jobV'[j] = Tail(jobV[j])
         \/ jobV'[j] = <<Live(jobV[j])>>,
         Live(shimV[j[2]]) # NoObj => Live(shimV'[j[2]]) # NoObj,
         CompleteJob(j) => host'[<<j[1], j[2]>>] = host[<<j[1], j[2]>>]
  PROVE  JobStays(j)' /\ (CompleteJob(j) => CompleteJob(j)')
<1>1. jobV[j] \in Versions(OwnedJob) /\ Live(jobV[j]) \in OwnedJob \cup {NoObj}
  BY VersionsRead DEF JobStays
<1>2. Live(jobV'[j]) = Live(jobV[j])
  BY <1>1, VersionsTail, VersionsSingle
<1>3. CompleteJob(j)' <=> CompleteJob(j)
  BY <1>2 DEF CompleteJob
<1>4. ASSUME NEW S, jobV[j] \in Versions(S) PROVE jobV'[j] \in Versions(S)
  <2>1. Live(jobV[j]) \in S \cup {NoObj}
    BY <1>4, VersionsRead
  <2>2. <<Live(jobV[j])>> \in Versions(S)
    BY <2>1, VersionsSingle
  <2>3. Len(jobV[j]) > 1 => Tail(jobV[j]) \in Versions(S)
    BY <1>4, VersionsTail
  <2> QED
    BY <1>4, <2>2, <2>3
<1> QED
  BY <1>2, <1>3, <1>4 DEF JobStays

\* A new version of an install Job that is not completed.
LEMMA JobWritten ==
  ASSUME NEW j \in JobIds, JobStays(j), j[3] = "install", ~CompleteJob(j),
         NEW o \in OwnedJob, jobV' = [jobV EXCEPT ![j] = Append(jobV[j], o)],
         TypeOK, Live(shimV'[j[2]]) # NoObj,
         o.st = "complete" => host'[<<j[1], j[2]>>]
  PROVE  JobStays(j)'
<1> USE NoObjAssumption
<1>1. /\ jobV[j] \in Versions(OwnedJob) /\ jobV[j] \in Versions(UnfinishedJob)
      /\ jobV'[j] = Append(jobV[j], o)
  BY DEF JobStays, TypeOK, KubeTypeOK
<1>2. jobV'[j] \in Versions(OwnedJob) /\ Live(jobV'[j]) = o
  BY <1>1, VersionsAppend
<1>3. o # NoObj
  BY DEF OwnedJob
<1>4. CompleteJob(j)' <=> o.st = "complete"
  BY <1>2, <1>3 DEF CompleteJob
<1>5. ~CompleteJob(j)' => jobV'[j] \in Versions(UnfinishedJob)
  BY <1>1, <1>4, VersionsAppend DEF UnfinishedJob, OwnedJob
<1> QED
  BY <1>2, <1>4, <1>5 DEF JobStays

\* Every step keeps the Jobs as they should be, and completed ones completed.
LEMMA JobsStayStep ==
  ASSUME TypeOK, ShimsStay, JobsStay, \A n \in Nodes : Live(nodeV[n]) # NoObj,
         [Next]_vars, Lasting,
         \A t \in Shims : Live(shimV[t]) # NoObj => Live(shimV'[t]) # NoObj
  PROVE  JobsStay' /\ \A j \in JobIds : CompleteJob(j) => CompleteJob(j)'
<1> USE NoObjAssumption
<1> SUFFICES ASSUME NEW j \in JobIds
             PROVE  JobStays(j)' /\ (CompleteJob(j) => CompleteJob(j)')
  BY DEF JobsStay, JobStays
<1>0. /\ JobStays(j) /\ j \in Nodes \X Shims \X Ops /\ j[2] \in Shims
      /\ jobV \in [JobIds -> Versions(JobObj)]
      /\ host \in [Nodes \X Shims -> BOOLEAN]
      /\ Live(shimV[j[2]]) # NoObj => Live(shimV'[j[2]]) # NoObj
      /\ j = <<j[1], j[2], j[3]>> /\ j[3] \in Ops
  BY DEF JobsStay, JobStays, JobIds, TypeOK, KubeTypeOK
<1>1. ASSUME jobV'[j] = jobV[j], CompleteJob(j) => host'[<<j[1], j[2]>>] = host[<<j[1], j[2]>>]
      PROVE  JobStays(j)' /\ (CompleteJob(j) => CompleteJob(j)')
  BY <1>0, <1>1, JobKept
<1>2. ASSUME NEW k \in JobIds, Active(k)
      PROVE  /\ k[3] = "install" /\ ~CompleteJob(k) /\ JobStays(k)
             /\ Live(jobV[k]) \in OwnedJob /\ Live(shimV[k[2]]) # NoObj
             /\ j # k /\ CompleteJob(j) => <<j[1], j[2]>> # <<k[1], k[2]>>
  <2>1. JobStays(k) /\ k = <<k[1], k[2], k[3]>> /\ k[3] \in Ops
    BY DEF JobsStay, JobStays, JobIds
  <2>2. \A i \in JobIds : Live(jobV[i]) # NoObj => i[3] = "install"
    <3> SUFFICES ASSUME NEW i \in JobIds, Live(jobV[i]) # NoObj
                 PROVE  i[3] = "install"
      OBVIOUS
    <3>1. i[3] \in {"install", "uninstall"}
      BY DEF JobIds, Ops
    <3>2. jobV[i] \notin Versions({})
      BY VersionsRead
    <3> QED
      BY <3>1, <3>2 DEF JobsStay, JobStays
  <2>3. Live(jobV[k]) # NoObj /\ Live(jobV[k]).st = "active"
    BY <1>2 DEF Active
  <2>4. Live(jobV[k]) \in OwnedJob
    BY <2>1, <2>3, VersionsRead DEF JobStays
  <2>5. CompleteJob(j) => j[3] = "install"
    BY <2>2 DEF CompleteJob
  <2> QED
    BY <1>0, <2>1, <2>2, <2>3, <2>4, <2>5 DEF CompleteJob, JobStays
<1>3. ASSUME NEW k \in JobIds, JobCompletes(k) \/ JobFails(k)
      PROVE  JobStays(j)' /\ (CompleteJob(j) => CompleteJob(j)')
  <2>1. PICK st \in {"complete", "failed"} :
          /\ jobV' = [jobV EXCEPT ![k] = Append(jobV[k], [Live(jobV[k]) EXCEPT !.st = st])]
          /\ Active(k) /\ UNCHANGED shimV
          /\ \E b \in BOOLEAN : /\ host' = [host EXCEPT ![<<k[1], k[2]>>] = b]
                                /\ st = "complete" => b = (k[3] = "install")
    <3>1. CASE JobCompletes(k)
      BY <3>1 DEF JobCompletes, PutJob
    <3>2. CASE JobFails(k)
      <4>1. Live(nodeV[k[1]]) # NoObj
        BY DEF JobIds
      <4> QED
        BY <3>2, <4>1 DEF JobFails, PutJob
    <3> QED
      BY <1>3, <3>1, <3>2
  <2>2. CASE j = k
    <3>1. [Live(jobV[j]) EXCEPT !.st = st] \in OwnedJob
      BY <1>2, <2>1, <2>2 DEF OwnedJob, JobObj
    <3>2. [Live(jobV[j]) EXCEPT !.st = st].st = st
      BY <1>2, <2>1, <2>2 DEF OwnedJob, JobObj
    <3>3. st = "complete" => host'[<<j[1], j[2]>>]
      BY <1>0, <1>2, <2>1, <2>2
    <3> QED
      BY <1>0, <1>2, <2>1, <2>2, <3>1, <3>2, <3>3, JobWritten
  <2>3. CASE j # k
    <3>1. jobV'[j] = jobV[j]
      BY <1>0, <2>1, <2>3
    <3>2. CompleteJob(j) => host'[<<j[1], j[2]>>] = host[<<j[1], j[2]>>]
      BY <1>0, <1>2, <2>1, <2>3
    <3> QED
      BY <1>1, <3>1, <3>2
  <2> QED
    BY <2>2, <2>3
<1>4. ASSUME NEW k \in JobIds, JobExpires(k) \/ CollectJob(k) PROVE FALSE
  <2>1. ~JobExpires(k)
    BY DEF JobExpires, Spend, Lasting
  <2>2. CASE Orphan(k)
    <3>1. /\ Live(jobV[k]) \in OwnedJob /\ Live(shimV[k[2]]) # NoObj /\ k[2] \in Shims
      BY <2>2, VersionsRead DEF Orphan, JobsStay, JobStays, JobIds
    <3>2. Live(shimV[k[2]]).uid = 1
      <4>1. shimV[k[2]] \in Versions(FirstShim)
        BY <3>1 DEF ShimsStay
      <4>2. Live(shimV[k[2]]) \in FirstShim
        BY <3>1, <4>1, VersionsRead
      <4> QED
        BY <4>2 DEF FirstShim
    <3> QED
      BY <2>2, <3>1, <3>2 DEF Orphan, OwnerGone, OwnedJob
  <2> QED
    BY <1>4, <2>1, <2>2 DEF CollectJob
<1>5. CASE patchJob
  <2> DEFINE k == PatchedJob
             owner == JobOwner(srObj, srOp)
             new == IF Live(jobV[k]) = NoObj
                    THEN [st |-> "active", tmpl |-> Manifest, owner |-> owner]
                    ELSE [Live(jobV[k]) EXCEPT !.owner = owner]
  <2>1. /\ srCur \in Nodes /\ srShim \in Shims /\ srOp = "install" /\ srObj \in ShimObj
        /\ srObj.uid = 1 /\ Live(shimV[srShim]) # NoObj /\ srObj.spec \in ShimSpecs
    BY <1>5 DEF patchJob, TypeOK, SRTypeOK, ShimsStay, ShimObj
  <2>2. /\ k \in JobIds /\ k[2] = srShim /\ k[3] = "install" /\ owner = 1
        /\ Manifest \in Templates
    BY <2>1 DEF PatchedJob, JobIds, Ops, JobOwner, Manifest, Templates
  <2>3. UNCHANGED <<shimV, host>> /\ ApplyJob(k, Manifest, owner)
    BY <1>5 DEF patchJob
  <2>4. UNCHANGED jobV \/ /\ Live(jobV[k]) # new
                          /\ jobV' = [jobV EXCEPT ![k] = Append(jobV[k], new)]
    BY <2>3 DEF ApplyJob
  <2>5. Live(jobV[k]) # NoObj => Live(jobV[k]) = new
    <3>1. ASSUME NEW o \in OwnedJob PROVE [o EXCEPT !.owner = 1] = o
      BY <3>1 DEF OwnedJob, JobObj
    <3>2. jobV[k] \in Versions(OwnedJob)
      BY <2>2 DEF JobsStay, JobStays
    <3>3. Live(jobV[k]) # NoObj => Live(jobV[k]) \in OwnedJob
      BY <3>2, VersionsRead
    <3> QED
      BY <2>2, <3>1, <3>3
  <2>6. CASE UNCHANGED jobV
    BY <1>1, <2>3, <2>6
  <2>7. CASE /\ Live(jobV[k]) = NoObj
             /\ jobV' = [jobV EXCEPT ![k] = Append(jobV[k], new)]
    <3>1. new = [st |-> "active", tmpl |-> Manifest, owner |-> 1]
      BY <2>2, <2>7
    <3>2. new \in OwnedJob /\ new.st # "complete"
      BY <2>2, <3>1 DEF OwnedJob, JobObj
    <3> HIDE DEF new, k
    <3>3. CASE j = k
      BY <1>0, <2>1, <2>2, <2>3, <2>7, <3>2, <3>3, JobWritten DEF CompleteJob
    <3>4. CASE j # k
      BY <1>0, <1>1, <2>3, <2>7, <3>4
    <3> QED
      BY <3>3, <3>4
  <2> QED
    BY <2>4, <2>5, <2>6, <2>7
<1>6. CASE \E k \in JobIds : DeliverJob(k)
  <2>1. PICK k \in JobIds : DeliverJob(k)
    BY <1>6
  <2>2. /\ UNCHANGED <<shimV, host>> /\ Len(jobV[k]) > 1
        /\ jobV' = [jobV EXCEPT ![k] = Tail(jobV[k])]
    BY <2>1 DEF DeliverJob
  <2>3. \/ jobV'[j] = jobV[j]
        \/ Len(jobV[j]) > 1 /\ jobV'[j] = Tail(jobV[j])
    BY <1>0, <2>2
  <2> QED
    BY <1>0, <2>2, <2>3, JobKept
<1>7. CASE Restart
  <2>1. UNCHANGED host /\ jobV'[j] = <<Live(jobV[j])>>
    BY <1>7 DEF Restart
  <2> QED
    BY <1>0, <2>1, JobKept
<1>8. CASE Users
  <2>1. ASSUME NEW n \in Nodes, AddNode(n) PROVE FALSE
    BY <2>1 DEF AddNode
  <2>2. UNCHANGED <<jobV, host>>
    BY <1>8, <2>1 DEF Users, LabelNode, TouchNode, RemoveNode, WriteNode,
                      CreateShim, EditShim, DeleteShim, WriteShim
  <2> QED
    BY <1>1, <2>2
<1>9. CASE UNCHANGED <<jobV, host>>
  BY <1>1, <1>9
<1>10. CASE SRStep
  BY <1>5, <1>9, <1>10 DEF SRStep, SRNext, SRNotFound, SRStart, updateStatus,
       SRRefetchNotFound, SRRefetch, handleDeployRuntimeClass, handleInstallShim,
       kubeVars, deployJobNodeNotFound, deployJobNoArtifact, deployJobOnNode,
       updateNodeLabels, patchJobRefused, markNodeFailed,
       removeFinalizerFromShim, ensureFinalizerForShim
<1>11. CASE JRStep \/ ResyncStep \/ UNCHANGED vars
  BY <1>9, <1>11 DEF JRStep, JRNext, JRNothing, JRStart, JRPanic, JRWrite, JRRecover,
       ResyncStep, Resync, vars, kubeVars
<1>12. CASE Deliver
  BY <1>6, <1>9, <1>12 DEF Deliver, DeliverNode, DeliverShim, DeliverRuntimeClass
<1>13. CASE Cluster
  BY <1>3, <1>4, <1>9, <1>13 DEF Cluster, CollectRuntimeClass
<1> QED
  BY <1>7, <1>8, <1>10, <1>11, <1>12, <1>13 DEF Next, NextNoResync
------------------------------------------------------------------------------
(* Labels.                                                                  *)

\* A step leaves a live label as it was, or writes one that is true.
LEMMA LabelWritten ==
  ASSUME TypeOK, NodeCopies, LabelsTrue, [Next]_vars, Lasting,
         NEW n \in Nodes, NEW s \in Shims,
         Live(nodeV'[n]).labels[s] = "provisioned"
  PROVE  Live(nodeV[n]).labels[s] = "provisioned" \/ Done(n, s)
<1> USE NoObjAssumption
<1>0. /\ nodeV \in [Nodes -> Versions(NodeObj)] /\ nodeV[n] \in Versions(NodeObj)
      /\ Live(nodeV[n]) \in NodeObj
  BY ReadTypes DEF TypeOK, KubeTypeOK, LabelsTrue
<1>1. ASSUME Live(nodeV'[n]) = Live(nodeV[n])
      PROVE  Live(nodeV[n]).labels[s] = "provisioned"
  BY <1>1
<1>2. CASE updateNodeLabels \/ markNodeFailed
  <2>1. srCur \in Nodes /\ srCopy \in NodeObj /\ srShim \in Shims
    BY <1>2 DEF updateNodeLabels, markNodeFailed, TypeOK, SRTypeOK
  <2>2. \/ Live(nodeV'[n]) = Live(nodeV[n])
        \/ <<"sr", n>> \in nodeCurrent /\ Live(nodeV'[n]) = srCopy
    BY <1>2, <2>1, UpdateNodeFacts, FailedNodeUpdate DEF updateNodeLabels, markNodeFailed, Clients
  <2>3. ASSUME <<"sr", n>> \in nodeCurrent, Live(nodeV'[n]) = srCopy
        PROVE  Live(nodeV[n]).labels[s] = "provisioned"
    <3>1. srCopy.labels[srShim] # "provisioned"
      BY <1>2 DEF updateNodeLabels, markNodeFailed, LabelsTrue
    <3>2. s # srShim
      BY <2>3, <3>1
    <3> QED
      BY <2>3, <3>2 DEF NodeCopies, SameNode
  <2> QED
    BY <1>1, <2>2, <2>3
<1>3. CASE JRWrite
  <2>1. jrJob[1] \in Nodes /\ jrCopy \in NodeObj /\ jrJob[2] \in Shims
    BY <1>3 DEF JRWrite, TypeOK, JRTypeOK, JobIds
  <2>2. \/ Live(nodeV'[n]) = Live(nodeV[n])
        \/ <<"jr", n>> \in nodeCurrent /\ Live(nodeV'[n]) = jrCopy
    BY <1>3, <2>1, UpdateNodeFacts, FailedNodeUpdate DEF JRWrite, Clients
  <2>3. ASSUME <<"jr", n>> \in nodeCurrent, Live(nodeV'[n]) = jrCopy
        PROVE  Live(nodeV[n]).labels[s] = "provisioned" \/ Done(n, s)
    <3>1. n = jrJob[1] /\ SameNode(jrCopy, n, jrJob[2])
      BY <2>3 DEF NodeCopies
    <3>2. CASE s = jrJob[2]
      BY <1>3, <2>3, <3>1, <3>2 DEF LabelsTrue, JRWrite
    <3>3. CASE s # jrJob[2]
      BY <2>3, <3>1, <3>3 DEF SameNode
    <3> QED
      BY <3>2, <3>3
  <2> QED
    BY <1>1, <2>2, <2>3
<1>4. CASE UNCHANGED nodeV
  BY <1>1, <1>4
<1>5. CASE SRStep
  BY <1>2, <1>4, <1>5 DEF SRStep, SRNext, SRNotFound, SRStart, updateStatus,
       SRRefetchNotFound, SRRefetch, handleDeployRuntimeClass, handleInstallShim,
       kubeVars, deployJobNodeNotFound, deployJobNoArtifact, deployJobOnNode,
       patchJob, patchJobRefused, removeFinalizerFromShim, ensureFinalizerForShim
<1>6. CASE JRStep
  BY <1>3, <1>4, <1>6 DEF JRStep, JRNext, JRNothing, JRStart, JRPanic, JRRecover
<1>7. CASE Deliver
  <2>1. ASSUME NEW m \in Nodes, DeliverNode(m)
        PROVE  Live(nodeV'[n]) = Live(nodeV[n])
    BY <1>0, <2>1, VersionsTail DEF DeliverNode
  <2> QED
    BY <1>1, <1>4, <1>7, <2>1 DEF Deliver, DeliverShim, DeliverJob, DeliverRuntimeClass
<1>8. CASE Users
  <2>1. ASSUME NEW m \in Nodes, NEW o \in NodeObj, WriteNode(m, o),
               o.labels = Live(nodeV[m]).labels
        PROVE  Live(nodeV[n]).labels[s] = "provisioned"
    <3>1. nodeV' = [nodeV EXCEPT ![m] = Append(nodeV[m], o)]
      BY <2>1 DEF WriteNode
    <3>2. CASE n = m
      BY <1>0, <2>1, <3>1, <3>2, VersionsAppend
    <3>3. CASE n # m
      BY <1>0, <1>1, <3>1, <3>3
    <3> QED
      BY <3>2, <3>3
  <2>2. ASSUME NEW m \in Nodes, LabelNode(m) \/ TouchNode(m)
        PROVE  Live(nodeV[n]).labels[s] = "provisioned"
    <3>1. Live(nodeV[m]) \in NodeObj
      BY ReadTypes DEF LabelsTrue
    <3>2. [Live(nodeV[m]) EXCEPT !.sel = ~@] \in NodeObj
          /\ [Live(nodeV[m]) EXCEPT !.sel = ~@].labels = Live(nodeV[m]).labels
      BY <3>1 DEF NodeObj
    <3> QED
      BY <2>1, <2>2, <3>1, <3>2 DEF LabelNode, TouchNode
  <2>3. ASSUME NEW m \in Nodes, RemoveNode(m) \/ AddNode(m) PROVE FALSE
    BY <2>3 DEF RemoveNode, AddNode, Spend, Lasting, LabelsTrue
  <2>4. ASSUME NEW t \in Shims, CreateShim(t) \/ EditShim(t) \/ DeleteShim(t)
        PROVE  UNCHANGED nodeV
    BY <2>4 DEF CreateShim, EditShim, DeleteShim, WriteShim
  <2> QED
    BY <1>4, <1>8, <2>2, <2>3, <2>4 DEF Users
<1>9. CASE Restart
  <2>1. nodeV'[n] = <<Live(nodeV[n])>>
    BY <1>9 DEF Restart
  <2>2. Live(<<Live(nodeV[n])>>) = Live(nodeV[n])
    BY <1>0, VersionsSingle
  <2> QED
    BY <1>1, <2>1, <2>2
<1>10. CASE Cluster \/ ResyncStep \/ UNCHANGED vars
  BY <1>4, <1>10 DEF Cluster, JobCompletes, JobFails, JobExpires, CollectJob,
       CollectRuntimeClass, ResyncStep, Resync, vars, kubeVars
<1> QED
  BY <1>5, <1>6, <1>7, <1>8, <1>9, <1>10 DEF Next, NextNoResync

\* No node goes away.
LEMMA NodesStay ==
  ASSUME TypeOK, NodeCopies, [Next]_vars, Lasting,
         NEW n \in Nodes, Live(nodeV[n]) # NoObj
  PROVE  Live(nodeV'[n]) # NoObj
<1>1. nodeV[n] \in Versions(NodeObj)
  BY DEF TypeOK, KubeTypeOK
<1>2. \/ nodeV'[n] = nodeV[n]
      \/ Len(nodeV[n]) > 1 /\ nodeV'[n] = Tail(nodeV[n])
      \/ nodeV'[n] = <<Live(nodeV[n])>>
      \/ \E o \in NodeObj \cup {NoObj} :
           nodeV'[n] = Append(nodeV[n], o) /\ o # NoObj
  BY NodeVersions DEF Lasting
<1>3. CASE Len(nodeV[n]) > 1 /\ nodeV'[n] = Tail(nodeV[n])
  BY <1>1, <1>3, VersionsTail
<1>4. CASE nodeV'[n] = <<Live(nodeV[n])>>
  <2>1. Live(nodeV[n]) \in NodeObj \cup {NoObj}
    BY <1>1, VersionsRead
  <2> QED
    BY <1>4, <2>1, VersionsSingle
<1>5. ASSUME NEW o \in NodeObj \cup {NoObj}, nodeV'[n] = Append(nodeV[n], o), o # NoObj
      PROVE  Live(nodeV'[n]) # NoObj
  BY <1>1, <1>5, VersionsAppend
<1> QED
  BY <1>2, <1>3, <1>4, <1>5

\* The copy that the shim controller is about to write.
LEMMA CopySR ==
  ASSUME TypeOK, LabelsTrue, [Next]_vars,
         srPc' \in {"label", "patch", "markfailed"}
  PROVE  srCopy'.labels[srShim'] # "provisioned"
<1> USE NoObjAssumption
<1>1. CASE UNCHANGED srVars
  BY <1>1 DEF srVars, LabelsTrue
<1>2. CASE SRStep
  <2>1. ASSUME NEW n \in Nodes, deployJobOnNode(n)
        PROVE  srCopy'.labels[srShim'] # "provisioned"
    <3>1. Cached(nodeV[n]) \in NodeObj /\ srShim \in Shims /\ srShim' = srShim
      BY <2>1, ReadTypes DEF deployJobOnNode, TypeOK, SRTypeOK
    <3>2. srCopy' = [Cached(nodeV[n]) EXCEPT !.labels[srShim] =
                       IF srOp = "install" THEN "pending" ELSE "uninstall"]
      BY <2>1 DEF deployJobOnNode
    <3> QED
      BY <3>1, <3>2 DEF NodeObj
  <2>2. CASE updateNodeLabels
    BY <2>2 DEF updateNodeLabels, LabelsTrue
  <2>3. CASE patchJobRefused
    <3>1. srCopy \in NodeObj /\ srShim \in Shims /\ srShim' = srShim
      BY <2>3 DEF patchJobRefused, TypeOK, SRTypeOK
    <3>2. srCopy' = [srCopy EXCEPT !.labels[srShim] = "failed"]
      BY <2>3 DEF patchJobRefused
    <3> QED
      BY <3>1, <3>2 DEF NodeObj
  <2>4. CASE \E s \in Shims : SRNotFound(s) \/ SRStart(s)
    BY <1>1, <2>4 DEF SRNotFound, SRStart
  <2> QED
    BY <1>2, <2>1, <2>2, <2>3, <2>4 DEF SRStep, SRNext, updateStatus,
       SRRefetchNotFound, SRRefetch, handleDeployRuntimeClass, handleInstallShim,
       deployJobNodeNotFound, deployJobNoArtifact, patchJob, markNodeFailed,
       NodeError, NextNode, removeFinalizerFromShim, ensureFinalizerForShim, SRReset
<1>3. CASE JRStep \/ Deliver \/ Cluster \/ Users \/ ResyncStep \/ UNCHANGED vars
  BY <1>1, <1>3 DEF JRStep, Deliver, Cluster, Users, ResyncStep, vars
<1>4. CASE Restart
  BY <1>4 DEF Restart, SRReset
<1> QED
  BY <1>2, <1>3, <1>4 DEF Next, NextNoResync

\* The job controller decides from a cached Job, which is no newer than the
\* live one.
LEMMA CopyJR ==
  ASSUME TypeOK, JobsStay, LabelsTrue, [Next]_vars,
         jrPc' = "write", jrCopy'.labels[jrJob'[2]] = "provisioned"
  PROVE  Done(jrJob'[1], jrJob'[2])
<1> USE NoObjAssumption
<1>1. CASE UNCHANGED jrVars
  BY <1>1 DEF jrVars, LabelsTrue
<1>2. ASSUME NEW j \in JobIds, JRStart(j) PROVE Done(jrJob'[1], jrJob'[2])
  <2>1. /\ j[1] \in Nodes /\ j[2] \in Shims /\ jrJob' = j
        /\ j = <<j[1], j[2], j[3]>>
    BY <1>2 DEF JobIds, JRStart
  <2>2. Cached(nodeV[j[1]]) \in NodeObj
    BY <1>2, <2>1, ReadTypes DEF JRStart
  <2>3. jrCopy' = [Cached(nodeV[j[1]]) EXCEPT
                     !.labels[j[2]] = LabelFor(Cached(jobV[j]), j[3])]
    BY <1>2 DEF JRStart
  <2>4. jrCopy'.labels[j[2]] = LabelFor(Cached(jobV[j]), j[3])
    BY <2>1, <2>2, <2>3 DEF NodeObj
  <2>5. /\ Cached(jobV[j]) # NoObj /\ Cached(jobV[j]).st = "complete"
        /\ j[3] = "install"
    BY <1>2, <2>1, <2>4 DEF JRStart, isJobFinished, LabelFor
  <2>6. jobV[j] \notin Versions(UnfinishedJob)
    <3> SUFFICES ASSUME jobV[j] \in Versions(UnfinishedJob) PROVE FALSE
      OBVIOUS
    <3>1. Cached(jobV[j]) \in UnfinishedJob
      BY <2>5, VersionsRead
    <3> QED
      BY <2>5, <3>1 DEF UnfinishedJob
  <2>7. CompleteJob(j)
    BY <2>6 DEF JobsStay, JobStays
  <2> QED
    BY <2>1, <2>5, <2>7 DEF Done
<1>3. CASE JRStep
  BY <1>1, <1>2, <1>3 DEF JRStep, JRNext, JRNothing, JRPanic, JRWrite, JRRecover, JRReset
<1>4. CASE SRStep \/ Deliver \/ Cluster \/ Users \/ ResyncStep \/ UNCHANGED vars
  BY <1>1, <1>4 DEF SRStep, Deliver, Cluster, Users, ResyncStep, vars
<1>5. CASE Restart
  BY <1>5 DEF Restart, JRReset
<1> QED
  BY <1>3, <1>4, <1>5 DEF Next, NextNoResync

------------------------------------------------------------------------------
(* The theorem.                                                             *)

\* The invariant holds at the start,
LEMMA ProvisionedInit == Init => ProvisionedInv
<1> SUFFICES ASSUME Init PROVE ProvisionedInv
  OBVIOUS
<1> USE NoObjAssumption
<1>1. TypeOK
  BY TypeInit
<1>2. CopiesAgreeWithLive
  BY DEF Init, SRInit, CopiesAgreeWithLive, NodeCopies, ShimCopy, ReleasesOnlyDeleted
<1>3. \A S : <<NoObj>> \in Versions(S) /\ Live(<<NoObj>>) = NoObj
  BY VersionsSingle
<1>4. ShimsStay
  BY <1>3 DEF Init, SRInit, ShimsStay
<1>5. JobsStay
  BY <1>3 DEF Init, JobsStay, JobStays, CompleteJob
<1>6. LabelsTrue
  <2>1. ASSUME NEW n \in Nodes
        PROVE  /\ Live(nodeV[n]) # NoObj
               /\ \A s \in Shims : Live(nodeV[n]).labels[s] = "none"
    <3>1. PICK b \in BOOLEAN :
            nodeV[n] = <<[sel |-> b, labels |-> [s \in Shims |-> "none"]]>>
      BY DEF Init
    <3>2. [sel |-> b, labels |-> [s \in Shims |-> "none"]] \in NodeObj
      BY DEF NodeObj, Labels
    <3>3. Live(nodeV[n]) = [sel |-> b, labels |-> [s \in Shims |-> "none"]]
      BY <3>1 DEF Live
    <3> QED
      BY <3>2, <3>3
  <2> QED
    BY <2>1 DEF LabelsTrue, Init, SRInit, JRInit
<1> QED
  BY <1>1, <1>2, <1>4, <1>5, <1>6 DEF ProvisionedInv

\* and every step keeps it.
LEMMA ProvisionedStep ==
  ASSUME ProvisionedInv, [Next]_vars, Lasting PROVE ProvisionedInv'
<1>1. TypeOK /\ CopiesAgreeWithLive /\ ShimsStay /\ JobsStay /\ LabelsTrue
  BY DEF ProvisionedInv
<1>2. TypeOK' /\ CopiesAgreeWithLive'
  BY <1>1, TypeStep, NodeCopiesStep, ShimCopyStep DEF CopiesAgreeWithLive
<1>3. ShimsStay' /\ \A t \in Shims : Live(shimV[t]) # NoObj => Live(shimV'[t]) # NoObj
  BY <1>1, ShimsStayStep
<1>4. JobsStay' /\ \A j \in JobIds : CompleteJob(j) => CompleteJob(j)'
  BY <1>1, <1>3, JobsStayStep DEF LabelsTrue
<1>5. \A n \in Nodes, s \in Shims : Done(n, s) => Done(n, s)'
  BY <1>4 DEF Done, JobIds, Ops
<1>6. LabelsTrue'
  <2>1. ASSUME NEW n \in Nodes PROVE Live(nodeV'[n]) # NoObj
    BY <1>1, NodesStay DEF LabelsTrue, CopiesAgreeWithLive
  <2>2. ASSUME NEW n \in Nodes, NEW s \in Shims,
               Live(nodeV'[n]).labels[s] = "provisioned"
        PROVE  Done(n, s)'
    <3>1. Live(nodeV[n]).labels[s] = "provisioned" \/ Done(n, s)
      BY <1>1, <2>2, LabelWritten DEF CopiesAgreeWithLive
    <3> QED
      BY <1>1, <1>5, <3>1 DEF LabelsTrue
  <2>3. srPc' \in {"label", "patch", "markfailed"} =>
          srCopy'.labels[srShim'] # "provisioned"
    BY <1>1, CopySR
  <2>4. ASSUME jrPc' = "write", jrCopy'.labels[jrJob'[2]] = "provisioned"
        PROVE  Done(jrJob[1], jrJob[2])'
    <3>1. jrJob'[1] \in Nodes /\ jrJob'[2] \in Shims
      BY <1>2, <2>4 DEF TypeOK, JRTypeOK, JobIds
    <3>2. Done(jrJob'[1], jrJob'[2])
      BY <1>1, <2>4, CopyJR
    <3> QED
      BY <1>5, <3>1, <3>2 DEF Done, CompleteJob
  <2> QED
    BY <2>1, <2>2, <2>3, <2>4 DEF LabelsTrue
<1> QED
  BY <1>2, <1>3, <1>4, <1>6 DEF ProvisionedInv

\* Where the API server shows the label "provisioned", an install Job of the
\* Shim has completed and has left the shim on the host: the job controller
\* reads no outcome from its cache that the Job does not have, and the shim
\* controller's Update from an older copy does not bring the label back.
THEOREM ProvisionedCorrect ==
  ASSUME Lasting
  PROVE  /\ Spec => []ProvisionedMeansInstalled
         /\ FairSpecQuiet => []ProvisionedMeansInstalled
<1>1. ProvisionedInv => ProvisionedMeansInstalled
  <2> SUFFICES ASSUME ProvisionedInv, NEW n \in Nodes, NEW s \in Shims,
                      Live(nodeV[n]).labels[s] = "provisioned"
               PROVE  host[<<n, s>>]
    BY DEF ProvisionedMeansInstalled
  <2>1. Done(n, s)
    BY DEF ProvisionedInv, LabelsTrue
  <2>2. <<n, s, "install">> \in JobIds
    BY DEF JobIds, Ops
  <2> QED
    BY <2>1, <2>2 DEF ProvisionedInv, JobsStay, JobStays, Done
<1>2. ProvisionedInv /\ [Next]_vars => ProvisionedInv'
  BY ProvisionedStep
<1>3. [NextNoResync \/ QuietResync]_vars => [Next]_vars
  BY DEF Next, QuietResync
<1> QED
  BY <1>1, <1>2, <1>3, ProvisionedInit, PTL DEF Spec, FairSpecQuiet
=============================================================================
