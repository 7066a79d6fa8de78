--------------------------- MODULE JobReconciler ----------------------------
(***************************************************************************)
(* The job controller: JobReconciler.Reconcile of                          *)
(* internal/controller/job_controller.go.  It turns the outcome of an      *)
(* installer Job into the node's provisioning label.                       *)
(*                                                                         *)
(*   "idle"   no call in progress                                          *)
(*   "write"  at the Update of the node                                    *)
(*   "panic"  the write to the nil label map of a node that was not found; *)
(*            controller-runtime recovers and retries the key              *)
(*                                                                         *)
(* isJobFinished only ever reports Complete and Failed, so the cases for   *)
(* FailureTarget and Suspended are never taken and have no action.         *)
(***************************************************************************)
EXTENDS KubeApi

VARIABLES jrPc, jrJob,
          jrCopy  \* the copy of the node, with its new label

jrVars == <<jrPc, jrJob, jrCopy>>

JRPcs == {"idle", "write", "panic"}

JRReset == jrPc' = "idle" /\ jrJob' = NoObj /\ jrCopy' = NoObj
JRInit  == jrPc = "idle" /\ jrJob = NoObj /\ jrCopy = NoObj

\* Both finished states; "" (ongoing) is everything else.
isJobFinished(job) == job.st \in {"complete", "failed"}

\* A controller that takes any finished Job for a success.
LabelForFinished(job, op) == IF op = "install" THEN "provisioned" ELSE "none"

\* The label a finished Job leads to; deleteNodeLabel is "none".
LabelFor(job, op) ==
  IF job.st = "failed" THEN "failed"
  ELSE IF op = "install" THEN "provisioned" ELSE "none"

\* Job not found, still running, or the node of a completed uninstall Job is
\* gone: the Update of an empty Node fails and that is only logged.
JRNothing(j) ==
  LET job == Cached(jobV[j]) IN
  /\ jrPc = "idle" /\ j \in jobQ
  /\ \/ job = NoObj
     \/ job # NoObj /\ ~isJobFinished(job)
     \/ /\ job # NoObj /\ job.st = "complete" /\ j[3] = "uninstall"
        /\ Cached(nodeV[j[1]]) = NoObj
  /\ jobQ' = jobQ \ {j}
  /\ UNCHANGED <<nodeV, shimV, jobV, rcV, nodeCurrent, shimCurrent, shimQ,
                 host, uids, budget, jrVars>>

\* A call that sends the node back with a fresh label map, which holds nothing
\* but its own label.
JRStartFreshLabels(j) ==
  LET job == Cached(jobV[j]) IN
  /\ jrPc = "idle" /\ j \in jobQ
  /\ job # NoObj /\ isJobFinished(job)
  /\ Cached(nodeV[j[1]]) # NoObj
  /\ jobQ' = jobQ \ {j}
  /\ jrJob' = j /\ jrPc' = "write"
  /\ jrCopy' = [sel    |-> FALSE,
                labels |-> [s \in Shims |-> IF s = j[2] THEN LabelFor(job, j[3])
                                            ELSE "none"]]
  /\ GetNode("jr", j[1])
  /\ UNCHANGED <<nodeV, shimV, jobV, rcV, shimCurrent, shimQ, host, uids,
                 budget>>

JRStart(j) ==
  LET job == Cached(jobV[j]) IN
  /\ jrPc = "idle" /\ j \in jobQ
  /\ job # NoObj /\ isJobFinished(job)
  /\ Cached(nodeV[j[1]]) # NoObj
  /\ jobQ' = jobQ \ {j}
  /\ jrJob' = j /\ jrPc' = "write"
  /\ jrCopy' = [Cached(nodeV[j[1]]) EXCEPT !.labels[j[2]] = LabelFor(job, j[3])]
  /\ GetNode("jr", j[1])
  /\ UNCHANGED <<nodeV, shimV, jobV, rcV, shimCurrent, shimQ, host, uids,
                 budget>>

\* An Update that is refused or fails is logged and the call returns nil:
\* nothing is retried.
JRWrite ==
  /\ jrPc = "write"
  /\ \/ UpdateNode("jr", jrJob[1], jrCopy, FALSE) /\ UNCHANGED budget
     \/ UpdateNodeFails("jr", jrJob[1], FALSE)
  /\ JRReset
  /\ UNCHANGED <<shimV, jobV, rcV, shimCurrent, shimQ, jobQ, host, uids>>

JRPanic(j) ==
  LET job == Cached(jobV[j]) IN
  /\ jrPc = "idle" /\ j \in jobQ
  /\ job # NoObj /\ isJobFinished(job)
  /\ ~(job.st = "complete" /\ j[3] = "uninstall")
  /\ Cached(nodeV[j[1]]) = NoObj
  /\ jobQ' = jobQ \ {j}
  /\ jrPc' = "panic" /\ jrJob' = j
  /\ UNCHANGED <<nodeV, shimV, jobV, rcV, nodeCurrent, shimCurrent, shimQ,
                 host, uids, budget, jrCopy>>

JRRecover ==
  /\ jrPc = "panic"
  /\ jobQ' = jobQ \cup {jrJob}
  /\ JRReset
  /\ UNCHANGED <<nodeV, shimV, jobV, rcV, nodeCurrent, shimCurrent, shimQ,
                 host, uids, budget>>

JRNext ==
  \/ \E j \in JobIds : JRNothing(j) \/ JRStart(j) \/ JRPanic(j)
  \/ JRWrite \/ JRRecover
=============================================================================
