------------------------------ MODULE KubeApi -------------------------------
(***************************************************************************)
(* The Kubernetes side of the runtime-class-manager, as the code under     *)
(* internal/controller uses it through controller-runtime's client:        *)
(*                                                                         *)
(*  - every object is a non-empty sequence of versions.  The last one is   *)
(*    what the API server holds, the first one is what the manager's       *)
(*    informer cache holds; the versions in between are watch events that  *)
(*    are still on their way.  NoObj is "not found".                       *)
(*  - Get and List read the first version.  Update compares the            *)
(*    resourceVersion of the copy with the live one: instead of a counter, *)
(*    nodeCurrent and shimCurrent record which copies still carry the live *)
(*    resourceVersion.  A successful Update writes the answer back into    *)
(*    the copy, so that copy stays current; a write by anybody else makes  *)
(*    it stale for good.                                                   *)
(*  - delivering a watch event moves the cache to the next version and     *)
(*    fills the work queues of the two controllers.  A queue holds a key   *)
(*    at most once.                                                        *)
(*  - Jobs are run by the Job controller and the kubelet, finished Jobs    *)
(*    may be removed by their TTL, and the garbage collector removes       *)
(*    objects whose owner is gone.                                         *)
(*                                                                         *)
(* Everything here is external to the repository except the wiring of      *)
(* watches to queues (SetupWithManager, findShimsToReconcile).             *)
(* Bounds: MaxLag (undelivered events per object), budget (environment     *)
(* operations and faults).                                                 *)
(***************************************************************************)
EXTENDS Naturals, Sequences

CONSTANTS
  Nodes, Shims,    \* names
  RuntimeClasses,  \* names a Shim may ask for
  ShimSpecs,       \* the specs users write
  NoObj,           \* "not found"
  MaxLag,          \* bound: undelivered watch events per object
  MaxBudget,       \* bound: environment operations and faults
  EnvOps           \* which of them may happen

ASSUME MaxLagAssumption == MaxLag \in Nat \ {0}
ASSUME MaxBudgetAssumption == MaxBudget \in Nat
ASSUME EnvOpsAssumption == EnvOps \subseteq
  {"create", "delete", "edit", "label", "touch", "restart",
   "nodeGone", "nodeAdd", "fail", "fault", "expire"}

VARIABLES
  nodeV, shimV, jobV, rcV, \* versions of every object
  nodeCurrent,             \* <<client, node>>: the copy is at the live version
  shimCurrent,             \* shims whose copy in the shim controller is
  shimQ, jobQ,             \* work queues
  host,                    \* <<node, shim>>: containerd can run the shim
  uids,                    \* shims created so far, by name
  budget

kubeVars == <<nodeV, shimV, jobV, rcV, nodeCurrent, shimCurrent,
              shimQ, jobQ, host, uids, budget>>

Clients == {"sr", "jr"}
Ops     == {"install", "uninstall"}
JobIds  == Nodes \X Shims \X Ops
Labels  == {"none", "pending", "provisioned", "failed", "uninstall"}

Cached(q) == q[1]
Live(q)   == q[Len(q)]
Room(q)   == Len(q) <= MaxLag

\* The environment spends one operation, or one failed API call.
Spend(op) == op \in EnvOps /\ budget > 0 /\ budget' = budget - 1

------------------------------------------------------------------------------
(* Client calls.                                                            *)

\* Get: the copy is current when no event is outstanding.
GetNode(c, n) ==
  nodeCurrent' = IF Len(nodeV[n]) = 1 THEN nodeCurrent \cup {<<c, n>>}
                                      ELSE nodeCurrent \ {<<c, n>>}

GetShim(s) ==
  shimCurrent' = IF Len(shimV[s]) = 1 THEN shimCurrent \cup {s}
                                      ELSE shimCurrent \ {s}

\* Update of a Node by client c.  A stale copy is refused; writing what is
\* already there makes no new version.  With keep, the client goes on using
\* its copy, otherwise this is the copy's last use.
UpdateNode(c, n, obj, keep) ==
  IF <<c, n>> \in nodeCurrent /\ Live(nodeV[n]) # obj
  THEN /\ Room(nodeV[n])
       /\ nodeV' = [nodeV EXCEPT ![n] = Append(@, obj)]
       /\ nodeCurrent' = (nodeCurrent \ (Clients \X {n}))
                           \cup {d \in {<<c, n>>} : keep}
  ELSE /\ nodeCurrent' = {d \in nodeCurrent : keep \/ d # <<c, n>>}
       /\ UNCHANGED nodeV

\* Update of a Shim, which only the shim controller makes and after which it
\* never uses the copy again.  status is not a subresource, so the whole object
\* is written; a deleted object that loses its last finalizer is removed.
UpdateShim(s, obj) ==
  /\ shimCurrent' = shimCurrent \ {s}
  /\ IF s \in shimCurrent /\ Live(shimV[s]) # obj
     THEN /\ Room(shimV[s])
          /\ shimV' = [shimV EXCEPT ![s] =
                         Append(@, IF obj.del /\ ~obj.fin THEN NoObj ELSE obj)]
     ELSE UNCHANGED shimV

\* An Update that fails for another reason than a conflict (a timeout, an
\* error of the server): nothing is written, and no event will follow.
UpdateNodeFails(c, n, keep) ==
  /\ Spend("fault")
  /\ nodeCurrent' = {d \in nodeCurrent : keep \/ d # <<c, n>>}
  /\ UNCHANGED nodeV

UpdateShimFails(s) ==
  /\ Spend("fault")
  /\ shimCurrent' = shimCurrent \ {s}
  /\ UNCHANGED shimV

\* Server-side apply.  A Job's template and a RuntimeClass's handler are
\* immutable: an apply that differs there is refused.  Otherwise the object is
\* created, or its remaining fields and its owner are set.
JobAccepts(j, tmpl) ==
  Live(jobV[j]) # NoObj => Live(jobV[j]).tmpl = tmpl

ApplyJob(j, tmpl, owner) ==
  LET live == Live(jobV[j])
      new  == IF live = NoObj
              THEN [st |-> "active", tmpl |-> tmpl, owner |-> owner]
              ELSE [live EXCEPT !.owner = owner]
  IN  IF live = new THEN UNCHANGED jobV
      ELSE /\ Room(jobV[j])
           /\ jobV' = [jobV EXCEPT ![j] = Append(@, new)]

RuntimeClassAccepts(r, obj) ==
  /\ r \in RuntimeClasses
  /\ Live(rcV[r]) # NoObj => Live(rcV[r]).handler = obj.handler

ApplyRuntimeClass(r, obj) ==
  IF Live(rcV[r]) = obj THEN UNCHANGED rcV
  ELSE /\ Room(rcV[r])
       /\ rcV' = [rcV EXCEPT ![r] = Append(@, obj)]

------------------------------------------------------------------------------
(* Watch events.                                                            *)

\* All shims of the cache, whatever the node.
findShimsToReconcile == {s \in Shims : Cached(shimV[s]) # NoObj}

\* LabelChangedPredicate: node updates count when a label differs; creations
\* and deletions always do.
DeliverNode(n) ==
  /\ Len(nodeV[n]) > 1
  /\ nodeV' = [nodeV EXCEPT ![n] = Tail(@)]
  /\ shimQ' = IF nodeV[n][1] # nodeV[n][2]
              THEN shimQ \cup findShimsToReconcile ELSE shimQ
  /\ UNCHANGED <<shimV, jobV, rcV, nodeCurrent, shimCurrent, jobQ, host,
                 uids, budget>>

DeliverShim(s) ==
  /\ Len(shimV[s]) > 1
  /\ shimV' = [shimV EXCEPT ![s] = Tail(@)]
  /\ shimQ' = shimQ \cup {s}
  /\ UNCHANGED <<nodeV, jobV, rcV, nodeCurrent, shimCurrent, jobQ, host,
                 uids, budget>>

\* Both controllers watch Jobs: one For(), one through the owner reference.
DeliverJob(j) ==
  /\ Len(jobV[j]) > 1
  /\ jobV' = [jobV EXCEPT ![j] = Tail(@)]
  /\ jobQ' = jobQ \cup {j}
  /\ shimQ' = IF \E i \in 1..2 : jobV[j][i] # NoObj /\ jobV[j][i].owner # 0
              THEN shimQ \cup {j[2]} ELSE shimQ
  /\ UNCHANGED <<nodeV, shimV, rcV, nodeCurrent, shimCurrent, host, uids,
                 budget>>

\* RuntimeClasses are cached because they are read, nothing watches them.
DeliverRuntimeClass(r) ==
  /\ Len(rcV[r]) > 1
  /\ rcV' = [rcV EXCEPT ![r] = Tail(@)]
  /\ UNCHANGED <<nodeV, shimV, jobV, nodeCurrent, shimCurrent, shimQ, jobQ,
                 host, uids, budget>>

\* A watch on Shims with a predicate that drops updates which change nothing.
ResyncJobsOnly ==
  /\ jobQ' = jobQ \cup {j \in JobIds : Cached(jobV[j]) # NoObj}
  /\ UNCHANGED <<nodeV, shimV, jobV, rcV, nodeCurrent, shimCurrent, shimQ,
                 host, uids, budget>>

\* The informers' periodic resync: every cached Shim and Job is queued again;
\* the Node updates it makes have equal labels and are filtered out.
Resync ==
  /\ shimQ' = shimQ \cup findShimsToReconcile
  /\ jobQ' = jobQ \cup {j \in JobIds : Cached(jobV[j]) # NoObj}
  /\ UNCHANGED <<nodeV, shimV, jobV, rcV, nodeCurrent, shimCurrent, host,
                 uids, budget>>

------------------------------------------------------------------------------
(* Job controller, kubelet, TTL and garbage collector.                      *)

PutJob(j, obj) ==
  /\ Room(jobV[j])
  /\ jobV' = [jobV EXCEPT ![j] = Append(@, obj)]

Active(j) == Live(jobV[j]) # NoObj /\ Live(jobV[j]).st = "active"

\* The installer's Pod ran to its end on the node.
JobCompletes(j) ==
  /\ Active(j) /\ Live(nodeV[j[1]]) # NoObj
  /\ PutJob(j, [Live(jobV[j]) EXCEPT !.st = "complete"])
  /\ host' = [host EXCEPT ![<<j[1], j[2]>>] = (j[3] = "install")]
  /\ UNCHANGED <<nodeV, shimV, rcV, nodeCurrent, shimCurrent, shimQ, jobQ,
                 uids, budget>>

\* The Pods failed until the backoff limit.  What they left on the host is
\* open: an install may fail after its last write, or may have truncated an
\* older binary.  A Job whose node is gone can only fail.
JobFails(j) ==
  /\ Active(j)
  /\ PutJob(j, [Live(jobV[j]) EXCEPT !.st = "failed"])
  /\ \/ /\ Live(nodeV[j[1]]) = NoObj
        /\ UNCHANGED <<host, budget>>
     \/ /\ Live(nodeV[j[1]]) # NoObj
        /\ Spend("fail")
        /\ \E b \in BOOLEAN : host' = [host EXCEPT ![<<j[1], j[2]>>] = b]
  /\ UNCHANGED <<nodeV, shimV, rcV, nodeCurrent, shimCurrent, shimQ, jobQ,
                 uids>>

\* A finished Job's time is over, where SHIM_NODE_INSTALLER_JOB_TTL is set.
JobExpires(j) ==
  /\ Live(jobV[j]) # NoObj /\ ~Active(j) /\ Spend("expire")
  /\ PutJob(j, NoObj)
  /\ UNCHANGED <<nodeV, shimV, rcV, nodeCurrent, shimCurrent, shimQ, jobQ,
                 host, uids>>

OwnerGone(s, uid) == Live(shimV[s]) # NoObj => Live(shimV[s]).uid # uid

Orphan(j) == /\ Live(jobV[j]) # NoObj /\ Live(jobV[j]).owner # 0
             /\ OwnerGone(j[2], Live(jobV[j]).owner)

\* A Pod that is still running when its Job is collected may already have
\* done its work on the host.
CollectJob(j) ==
  /\ Orphan(j)
  /\ PutJob(j, NoObj)
  /\ \/ UNCHANGED host
     \/ /\ Active(j) /\ Live(nodeV[j[1]]) # NoObj
        /\ host' = [host EXCEPT ![<<j[1], j[2]>>] = TRUE]
  /\ UNCHANGED <<nodeV, shimV, rcV, nodeCurrent, shimCurrent, shimQ, jobQ,
                 uids, budget>>

CollectRuntimeClass(r) ==
  /\ Live(rcV[r]) # NoObj
  /\ OwnerGone(Live(rcV[r]).owner[1], Live(rcV[r]).owner[2])
  /\ Room(rcV[r])
  /\ rcV' = [rcV EXCEPT ![r] = Append(@, NoObj)]
  /\ UNCHANGED <<nodeV, shimV, jobV, nodeCurrent, shimCurrent, shimQ, jobQ,
                 host, uids, budget>>

------------------------------------------------------------------------------
(* Users, kubelets and the cluster's administrator.                         *)

\* A write to a Node by somebody else: every copy held here becomes stale.
WriteNode(n, obj) ==
  /\ Room(nodeV[n])
  /\ nodeV' = [nodeV EXCEPT ![n] = Append(@, obj)]
  /\ nodeCurrent' = nodeCurrent \ (Clients \X {n})
  /\ UNCHANGED <<shimV, jobV, rcV, shimCurrent, shimQ, jobQ, uids>>

\* Somebody sets or removes the label the shims' nodeSelectors ask for.
LabelNode(n) ==
  /\ Live(nodeV[n]) # NoObj /\ Spend("label")
  /\ WriteNode(n, [Live(nodeV[n]) EXCEPT !.sel = ~@])
  /\ UNCHANGED host

\* A write that changes no label, such as a kubelet's status update.
TouchNode(n) ==
  /\ Live(nodeV[n]) # NoObj /\ Spend("touch")
  /\ WriteNode(n, Live(nodeV[n]))
  /\ UNCHANGED host

RemoveNode(n) ==
  /\ Live(nodeV[n]) # NoObj /\ Spend("nodeGone")
  /\ WriteNode(n, NoObj)
  /\ UNCHANGED host

\* A fresh machine under the old name.
AddNode(n) ==
  /\ Live(nodeV[n]) = NoObj /\ Spend("nodeAdd")
  /\ WriteNode(n, [sel |-> TRUE, labels |-> [s \in Shims |-> "none"]])
  /\ host' = [k \in Nodes \X Shims |-> host[k] /\ k[1] # n]

\* A write to a Shim by a user.
WriteShim(s, obj) ==
  /\ Room(shimV[s])
  /\ shimV' = [shimV EXCEPT ![s] = Append(@, obj)]
  /\ shimCurrent' = shimCurrent \ {s}
  /\ UNCHANGED <<nodeV, jobV, rcV, nodeCurrent, shimQ, jobQ, host>>

CreateShim(s) ==
  /\ Live(shimV[s]) = NoObj /\ Spend("create")
  /\ uids' = [uids EXCEPT ![s] = @ + 1]
  /\ \E sp \in ShimSpecs :
       WriteShim(s, [uid |-> uids[s] + 1, spec |-> sp, del |-> FALSE,
                     fin |-> FALSE, nodes |-> 0, ready |-> 0])

EditShim(s) ==
  /\ Live(shimV[s]) # NoObj /\ Spend("edit")
  /\ \E sp \in ShimSpecs :
       /\ sp # Live(shimV[s]).spec
       /\ WriteShim(s, [Live(shimV[s]) EXCEPT !.spec = sp])
  /\ UNCHANGED uids

\* Deleting a Shim that has the finalizer only marks it.
DeleteShim(s) ==
  /\ Live(shimV[s]) # NoObj /\ ~Live(shimV[s]).del /\ Spend("delete")
  /\ WriteShim(s, IF Live(shimV[s]).fin
                  THEN [Live(shimV[s]) EXCEPT !.del = TRUE] ELSE NoObj)
  /\ UNCHANGED uids
=============================================================================
