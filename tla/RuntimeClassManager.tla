------------------------ MODULE RuntimeClassManager -------------------------
(***************************************************************************)
(* The manager process (cmd/rcm/main.go): the shim controller and the job  *)
(* controller over one cache, the cluster around them, and the process's   *)
(* restart.                                                                *)
(***************************************************************************)
EXTENDS ShimReconciler, JobReconciler

vars == <<kubeVars, srVars, jrVars>>

\* Nodes may or may not carry the nodeSelector's label; no shim exists yet.
Init ==
  /\ nodeV \in [Nodes -> {<<[sel |-> b, labels |-> [s \in Shims |-> "none"]]>> :
                          b \in BOOLEAN}]
  /\ shimV = [s \in Shims |-> <<NoObj>>]
  /\ jobV = [j \in JobIds |-> <<NoObj>>]
  /\ rcV = [r \in RuntimeClasses |-> <<NoObj>>]
  /\ nodeCurrent = {} /\ shimCurrent = {}
  /\ shimQ = {} /\ jobQ = {}
  /\ host = [k \in Nodes \X Shims |-> FALSE]
  /\ uids = [s \in Shims |-> 0]
  /\ budget = MaxBudget
  /\ SRInit /\ JRInit

\* A later state the manager reaches when nothing disturbs it: every shim is
\* installed on every node, all events are delivered, both queues are empty.
\* Runs about deletion start here, which saves them the way up to it.
InitInstalled ==
  \E sp \in ShimSpecs :
    /\ nodeV = [n \in Nodes |-> <<[sel |-> TRUE,
                                  labels |-> [s \in Shims |-> "provisioned"]]>>]
    /\ shimV = [s \in Shims |->
                  <<[uid |-> 1, spec |-> sp, del |-> FALSE, fin |-> TRUE,
                     nodes |-> Cardinality(Nodes), ready |-> Cardinality(Nodes)]>>]
    /\ jobV = [j \in JobIds |->
                 IF j[3] = "install"
                 THEN <<[st |-> "complete", owner |-> 1,
                         tmpl |-> createJobManifest(sp, j[1], "install")]>>
                 ELSE <<NoObj>>]
    /\ rcV \in [RuntimeClasses ->
                  {<<[handler |-> sp.handler, nodeSelector |-> sp.nodeSelector,
                      owner |-> <<s, 1>>]>> : s \in Shims}]
    /\ nodeCurrent = {} /\ shimCurrent = {}
    /\ shimQ = {} /\ jobQ = {}
    /\ host = [k \in Nodes \X Shims |-> TRUE]
    /\ uids = [s \in Shims |-> 1]
    /\ budget = MaxBudget
    /\ SRInit /\ JRInit

\* The process dies at any point and starts again: its locals and queues are
\* lost, the caches are filled from the API server, and the initial list
\* queues every Shim and every Job.
Restart ==
  /\ Spend("restart")
  /\ nodeV' = [n \in Nodes |-> <<Live(nodeV[n])>>]
  /\ shimV' = [s \in Shims |-> <<Live(shimV[s])>>]
  /\ jobV' = [j \in JobIds |-> <<Live(jobV[j])>>]
  /\ rcV' = [r \in RuntimeClasses |-> <<Live(rcV[r])>>]
  /\ nodeCurrent' = {} /\ shimCurrent' = {}
  /\ shimQ' = {s \in Shims : Live(shimV[s]) # NoObj}
  /\ jobQ' = {j \in JobIds : Live(jobV[j]) # NoObj}
  /\ SRReset /\ JRReset
  /\ UNCHANGED <<host, uids>>

SRStep == SRNext /\ UNCHANGED jrVars
JRStep == JRNext /\ UNCHANGED srVars

Deliver ==
  /\ \/ \E n \in Nodes : DeliverNode(n)
     \/ \E s \in Shims : DeliverShim(s)
     \/ \E j \in JobIds : DeliverJob(j)
     \/ \E r \in RuntimeClasses : DeliverRuntimeClass(r)
  /\ UNCHANGED <<srVars, jrVars>>

Cluster ==
  /\ \/ \E j \in JobIds : JobCompletes(j) \/ JobFails(j) \/ JobExpires(j)
                          \/ CollectJob(j)
     \/ \E r \in RuntimeClasses : CollectRuntimeClass(r)
  /\ UNCHANGED <<srVars, jrVars>>

Users ==
  /\ \/ \E n \in Nodes : LabelNode(n) \/ TouchNode(n) \/ RemoveNode(n)
                         \/ AddNode(n)
     \/ \E s \in Shims : CreateShim(s) \/ EditShim(s) \/ DeleteShim(s)
  /\ UNCHANGED <<srVars, jrVars>>

ResyncStep == Resync /\ UNCHANGED <<srVars, jrVars>>

\* Everything but the periodic resync, which is ten hours away.
NextNoResync == SRStep \/ JRStep \/ Deliver \/ Cluster \/ Users \/ Restart

Next == NextNoResync \/ ResyncStep

Spec == Init /\ [][Next]_vars

\* Fairness.  A work queue hands out every key it holds (SF, because a worker
\* is busy in between), a Reconcile that has begun goes on, watch events
\* arrive, Jobs run, and the collectors and the resync do their rounds.
\* Users and faults are under no obligation.
SRTake(s) == (SRNotFound(s) \/ SRStart(s)) /\ UNCHANGED jrVars
JRTake(j) == (JRNothing(j) \/ JRStart(j) \/ JRPanic(j)) /\ UNCHANGED srVars

ControllersFair ==
  /\ \A s \in Shims : SF_vars(SRTake(s))
  /\ \A j \in JobIds : SF_vars(JRTake(j))
  /\ WF_vars(srPc # "idle" /\ SRStep)
  /\ WF_vars(jrPc # "idle" /\ JRStep)

ClusterFair ==
  /\ \A n \in Nodes : WF_vars(DeliverNode(n) /\ UNCHANGED <<srVars, jrVars>>)
  /\ \A s \in Shims : WF_vars(DeliverShim(s) /\ UNCHANGED <<srVars, jrVars>>)
  /\ \A j \in JobIds : WF_vars(DeliverJob(j) /\ UNCHANGED <<srVars, jrVars>>)
  /\ \A r \in RuntimeClasses :
       WF_vars(DeliverRuntimeClass(r) /\ UNCHANGED <<srVars, jrVars>>)
  /\ \A j \in JobIds : /\ WF_vars((JobCompletes(j) \/ JobFails(j))
                                   /\ UNCHANGED <<srVars, jrVars>>)
                        /\ WF_vars(CollectJob(j) /\ UNCHANGED <<srVars, jrVars>>)
  /\ \A r \in RuntimeClasses :
       WF_vars(CollectRuntimeClass(r) /\ UNCHANGED <<srVars, jrVars>>)

FairSpec == Spec /\ ControllersFair /\ ClusterFair /\ WF_vars(ResyncStep)

\* The resync as it is in practice: ten hours are long enough for everything
\* else to come to rest.
Quiet ==
  /\ srPc = "idle" /\ jrPc = "idle" /\ shimQ = {} /\ jobQ = {}
  /\ \A n \in Nodes : Len(nodeV[n]) = 1
  /\ \A s \in Shims : Len(shimV[s]) = 1
  /\ \A j \in JobIds : Len(jobV[j]) = 1 /\ ~Active(j)
QuietResync == Quiet /\ ResyncStep

FairSpecQuiet ==
  /\ Init /\ [][NextNoResync \/ QuietResync]_vars
  /\ ControllersFair /\ ClusterFair /\ WF_vars(QuietResync)

SpecInstalled == InitInstalled /\ [][NextNoResync]_vars
FairSpecInstalled ==
  /\ InitInstalled /\ [][NextNoResync \/ QuietResync]_vars
  /\ ControllersFair /\ ClusterFair /\ WF_vars(QuietResync)
------------------------------------------------------------------------------
(* Types.                                                                   *)

NodeObj == [sel : BOOLEAN, labels : [Shims -> Labels]]
ShimObj == [uid : Nat \ {0}, spec : ShimSpecs, del : BOOLEAN, fin : BOOLEAN,
            nodes : Nat, ready : Nat]
\* What the API server stores: a deleted Shim without finalizer is no more.
StoredShim == {o \in ShimObj : o.del => o.fin}
\* A Shim as its users see it: without status.
UserShim == [uid : Nat \ {0}, spec : ShimSpecs, del : BOOLEAN, fin : BOOLEAN]
Templates == {createJobManifest(sp, n, op) : sp \in ShimSpecs, n \in Nodes,
                                             op \in Ops}
JobObj == [st : {"active", "complete", "failed"}, tmpl : Templates, owner : Nat]
Handlers == {sp.handler : sp \in ShimSpecs}
RuntimeClassObj == [handler : Handlers, nodeSelector : BOOLEAN,
                    owner : Shims \X Nat]

Versions(S) == Seq(S \cup {NoObj}) \ {<<>>}

ASSUME NodesAssumption == IsFiniteSet(Nodes)
ASSUME SpecsAssumption == \A sp \in ShimSpecs : sp.nodeSelector \in BOOLEAN
ASSUME NoObjAssumption ==
  /\ NoObj \notin Nodes /\ NoObj \notin Shims /\ NoObj \notin JobIds
  /\ NoObj \notin NodeObj /\ NoObj \notin ShimObj /\ NoObj \notin UserShim
  /\ NoObj \notin JobObj /\ NoObj \notin RuntimeClassObj

KubeTypeOK ==
  /\ nodeV \in [Nodes -> Versions(NodeObj)]
  /\ shimV \in [Shims -> Versions(StoredShim)]
  /\ jobV \in [JobIds -> Versions(JobObj)]
  /\ rcV \in [RuntimeClasses -> Versions(RuntimeClassObj)]
  /\ nodeCurrent \subseteq Clients \X Nodes
  /\ shimCurrent \subseteq Shims
  /\ shimQ \subseteq Shims
  /\ jobQ \subseteq JobIds
  /\ host \in [Nodes \X Shims -> BOOLEAN]
  /\ uids \in [Shims -> Nat]
  /\ budget \in 0..MaxBudget

SRTypeOK ==
  /\ srPc \in SRPcs
  /\ srShim \in Shims \cup {NoObj} /\ (srShim = NoObj <=> srPc = "idle")
  /\ srObj \in ShimObj \cup {NoObj} /\ (srObj = NoObj <=> srPc = "idle")
  /\ srList \in [Nodes -> Labels \cup {"unlisted"}]
  /\ srOp \in Ops
  /\ srTodo \subseteq Nodes
  /\ srCur \in Nodes \cup {NoObj}
  /\ srCopy \in NodeObj \cup {NoObj}
  /\ srPc \in {"label", "patch", "markfailed"} <=> srCur # NoObj
  /\ srPc \in {"label", "patch", "markfailed"} <=> srCopy # NoObj
  /\ srErr \in BOOLEAN
  /\ srApplied \subseteq Nodes

JRTypeOK ==
  /\ jrPc \in JRPcs
  /\ jrJob \in JobIds \cup {NoObj} /\ (jrJob = NoObj <=> jrPc = "idle")
  /\ jrCopy \in NodeObj \cup {NoObj} /\ (jrCopy # NoObj <=> jrPc = "write")

\* Every variable has its type; the locals of a reconciler are set exactly
\* while the program point needs them.
TypeOK == KubeTypeOK /\ SRTypeOK /\ JRTypeOK

------------------------------------------------------------------------------
(* Safety.                                                                  *)

\* A step of a controller (the only steps that change a reconciler's locals,
\* but for the restart, which writes nothing) that writes node n.
ControllerWrites(n) ==
  /\ Len(nodeV'[n]) > Len(nodeV[n])
  /\ srVars # srVars' \/ jrVars # jrVars'

KeepsForeignLabels ==
  \A n \in Nodes : ControllerWrites(n) =>
    LET old == Live(nodeV[n])
        new == Live(nodeV'[n])
        own == IF srVars # srVars' THEN srShim ELSE jrJob[2]
    IN  /\ old # NoObj
        /\ new.sel = old.sel
        /\ \A s \in Shims \ {own} : new.labels[s] = old.labels[s]

\* Both controllers send the whole Node back to the API server, from a cached
\* copy.  Still, a write by a controller touches no label but the one of the
\* shim it works for: it neither reverts a label that users or the other
\* controller set meanwhile nor brings back a node that was removed.
ControllersKeepForeignLabels == [][KeepsForeignLabels]_vars

\* The copy agrees with the live node but for the label of shim own.
SameNode(copy, n, own) ==
  /\ Live(nodeV[n]) # NoObj
  /\ copy.sel = Live(nodeV[n]).sel
  /\ \A s \in Shims \ {own} : copy.labels[s] = Live(nodeV[n]).labels[s]

NodeCopies ==
  \A n \in Nodes :
    /\ <<"sr", n>> \in nodeCurrent => n = srCur /\ SameNode(srCopy, n, srShim)
    /\ <<"jr", n>> \in nodeCurrent => /\ jrPc = "write" /\ n = jrJob[1]
                                     /\ SameNode(jrCopy, n, jrJob[2])

ShimCopy ==
  /\ shimCurrent \subseteq {srShim}
  /\ srShim \in shimCurrent =>
       LET live == Live(shimV[srShim]) IN
       /\ live # NoObj
       /\ srObj.uid = live.uid /\ srObj.spec = live.spec /\ srObj.del = live.del
       /\ srObj.fin # live.fin => srPc = "ensure" /\ live.del /\ live.fin

ReleasesOnlyDeleted ==
  \/ srPc = "unfinalize"
  \/ srPc \in {"deploy", "label", "patch", "markfailed"} /\ srOp = "uninstall"
  => srObj.del

\* Why whole-object Updates from cached copies are safe: a copy that still
\* carries the live resourceVersion differs from the live object in nothing
\* but what its own controller is about to write, and only the call that saw
\* the Shim deleted is on its way to take the finalizer off.
CopiesAgreeWithLive == NodeCopies /\ ShimCopy /\ ReleasesOnlyDeleted

UserView(obj) ==
  IF obj = NoObj THEN NoObj
  ELSE [uid |-> obj.uid, spec |-> obj.spec, del |-> obj.del, fin |-> obj.fin]

Lifecycle == INSTANCE ShimLifecycle WITH
  Absent <- NoObj, created <- uids, controller <- <<srVars, jrVars>>,
  shim <- [s \in Shims |-> UserView(Live(shimV[s]))]

\* The controller's whole-object Updates of the Shim, made from stale cached
\* copies, implement the life cycle users rely on: only a user's step changes
\* a spec, so that no edit is reverted; no deletion is undone, no removed Shim
\* revived, and the finalizer is only set on a Shim that is not being deleted
\* and only taken from one that is.
LifecycleSpec == Lifecycle!Spec

\* removeFinalizerFromShim lets a Shim go only when, for every node on which
\* the call listed a label of it, the API server has accepted this call's
\* uninstall Job, or the node is gone.  A node that comes back (AddNode) under
\* its old name is outside this property.
FinalizerHeldUntilUninstallDispatched ==
  [][\A s \in Shims :
       /\ Live(shimV[s]) # NoObj /\ Live(shimV[s]).del
       /\ Live(shimV'[s]) = NoObj
       => \A n \in UninstallTargets : n \in srApplied \/ Live(nodeV[n]) = NoObj]_vars

\* The label "provisioned" is never ahead of the node: where the API server
\* shows it, an install Job has left a working shim on the host.  For
\* clusters in which no Shim is deleted, no node removed and no finished Job
\* expires.
ProvisionedMeansInstalled ==
  \A n \in Nodes, s \in Shims :
    Live(nodeV[n]) # NoObj /\ Live(nodeV[n]).labels[s] = "provisioned"
    => host[<<n, s>>]

------------------------------------------------------------------------------
(* Liveness.                                                                *)

Wanted(s) == Live(shimV[s]) # NoObj /\ ~Live(shimV[s]).del
Matching(s) == {n \in Nodes : /\ Live(nodeV[n]) # NoObj
                              /\ Live(shimV[s]).spec.nodeSelector
                                 => Live(nodeV[n]).sel}
Provisioned(s) == {n \in Matching(s) : Live(nodeV[n]).labels[s] = "provisioned"}

\* Once users leave the cluster alone, the counts that updateStatus writes
\* become, and stay, the counts of the matching and of the provisioned nodes,
\* although a status Update that is refused or fails is only logged.  After a
\* conflict the event of the write that won brings the Shim back; after any
\* other failure only the resync does, so the property rests on it.
StatusConverges ==
  <>[](\A s \in Shims : Wanted(s) =>
         /\ Live(shimV[s]).nodes = Cardinality(Matching(s))
         /\ Live(shimV[s]).ready = Cardinality(Provisioned(s)))

\* A Shim that is being deleted is eventually released, although every step
\* on the way (label, Job, finalizer) may be refused and a refusal is
\* answered by an early return.
DeletionCompletes ==
  \A s \in Shims : (Live(shimV[s]) # NoObj /\ Live(shimV[s]).del)
                   ~> (Live(shimV[s]) = NoObj)

Servable(s) == {n \in Matching(s) : resolveArtifactForNode(
                  Live(shimV[s]).spec.fetch, Platform[n]) # NoArtifact}

\* Every node that matches a Shim and has an artifact for its platform
\* becomes, and stays, provisioned: a label Update of the job controller that
\* is refused or fails and is not retried is made good by the resync; nodes without
\* an artifact, which fail every call, do not hold up the others.
EventuallyProvisioned ==
  <>[](\A s \in Shims : Wanted(s) => Servable(s) \subseteq Provisioned(s))

\* Once a deleted Shim is gone, its binaries and its labels go from every
\* node of the cluster and stay away.
DeletedShimLeavesNoTrace ==
  <>[](\A s \in Shims : Live(shimV[s]) = NoObj =>
         \A n \in Nodes : Live(nodeV[n]) # NoObj =>
           ~host[<<n, s>>] /\ Live(nodeV[n]).labels[s] = "none")

\* Every Shim ends up with its RuntimeClass, although nothing watches
\* RuntimeClasses and the garbage collector may remove the one a re-created
\* Shim found in the cache.
RuntimeClassRestored ==
  <>[](\A s \in Shims : Wanted(s) =>
         Live(rcV[Live(shimV[s]).spec.runtimeClass]) # NoObj)

------------------------------------------------------------------------------
(* What comments and docs say, and the code does not do.                    *)

\* docs/shim.md:5, "Whenever a Shim is ... deleted, Runtime-Class-Manager will
\* perform the necessary actions, e.g. ... removing shim binaries": the
\* binaries of a deleted Shim go from every node.
DeletedShimUninstalled ==
  <>[](\A s \in Shims : Live(shimV[s]) = NoObj => \A n \in Nodes : ~host[<<n, s>>])

\* docs/shim.md:5, "Whenever a Shim is created ..., Runtime-Class-Manager will
\* perform the necessary actions, e.g. ... installing ... shim binaries on any
\* Nodes labeled", for a Shim created again under its old name.
\* Looked at once everything has come to rest: nothing but another resync is
\* left to happen, and a resync starts no Job anew.
RecreatedShimInstalled ==
  /\ Quiet
  /\ \A j \in JobIds : ~Orphan(j)
  => \A s \in Shims : Wanted(s) => \A n \in Servable(s) : host[<<n, s>>]
=============================================================================
