--------------------------- MODULE ShimReconciler ---------------------------
(***************************************************************************)
(* The shim controller: ShimReconciler.Reconcile of                        *)
(* internal/controller/shim_controller.go and all it calls.                *)
(*                                                                         *)
(* controller-runtime runs one Reconcile at a time, so the locals of one   *)
(* call are the variables below and srPc is the point the call has         *)
(* reached.  Every write to the API server is an action of its own; cache  *)
(* reads are made by the action that follows them, which is sound because  *)
(* the events that would separate them come from independent informers.    *)
(*                                                                         *)
(*   "idle"         no call in progress                                    *)
(*   "status"       updateStatus, at its Update                            *)
(*   "refetch"      updateStatus, at its second Get                        *)
(*   "runtimeclass" handleDeployRuntimeClass, at its Patch                 *)
(*   "rollout"      handleInstallShim                                      *)
(*   "deploy"       the loop over the nodes, before deployJobOnNode        *)
(*   "label"        deployJobOnNode, at the Update of the node's label     *)
(*   "patch"        deployJobOnNode, at the Patch of the Job               *)
(*   "markfailed"   deployJobOnNode, at the Update to "failed"             *)
(*   "unfinalize"   removeFinalizerFromShim                                *)
(*   "ensure"       the deferred ensureFinalizerForShim, and the return    *)
(***************************************************************************)
EXTENDS KubeApi, ArtifactResolution, FiniteSets

CONSTANT Platform  \* node -> os and arch of its status

VARIABLES
  srPc, srShim,
  srObj,     \* shimResource
  srList,    \* node -> label of this shim in the listed copy, or "unlisted"
  srOp,      \* jobType of the loop
  srTodo,    \* nodes the loop has still to deploy to
  srCur,     \* node of the deployJobOnNode in progress
  srCopy,    \* its copy of that node
  srErr,     \* the call will return an error
  srApplied  \* history: nodes whose Job Patch this call had accepted

srVars == <<srPc, srShim, srObj, srList, srOp, srTodo, srCur, srCopy, srErr,
            srApplied>>

SRPcs == {"idle", "status", "refetch", "runtimeclass", "rollout", "deploy",
          "label", "patch", "markfailed", "unfinalize", "ensure"}

SRReset ==
  /\ srPc' = "idle" /\ srShim' = NoObj /\ srObj' = NoObj
  /\ srList' = [n \in Nodes |-> "unlisted"]
  /\ srOp' = "install" /\ srTodo' = {} /\ srCur' = NoObj /\ srCopy' = NoObj
  /\ srErr' = FALSE /\ srApplied' = {}

SRInit ==
  /\ srPc = "idle" /\ srShim = NoObj /\ srObj = NoObj
  /\ srList = [n \in Nodes |-> "unlisted"]
  /\ srOp = "install" /\ srTodo = {} /\ srCur = NoObj /\ srCopy = NoObj
  /\ srErr = FALSE /\ srApplied = {}

------------------------------------------------------------------------------
(* Manifests.                                                               *)

\* The immutable part of the Job: download location, digest and options.
createJobManifest(spec, n, op) ==
  [artifact |-> IF op = "install"
                THEN resolveArtifactForNode(spec.fetch, Platform[n])
                ELSE NoArtifact,
   options  |-> spec.options]

\* Only install Jobs get a controller reference.
JobOwner(obj, op) == IF op = "install" THEN obj.uid ELSE 0

createRuntimeClassManifest(s, obj) ==
  [handler |-> obj.spec.handler, nodeSelector |-> obj.spec.nodeSelector,
   owner |-> <<s, obj.uid>>]

------------------------------------------------------------------------------
(* Reads.                                                                   *)

getNodeListFromShimsNodeSelector(spec) ==
  {n \in Nodes : /\ Cached(nodeV[n]) # NoObj
                 /\ spec.nodeSelector => Cached(nodeV[n]).sel}

\* A check of the name only.
runtimeClassNamed(spec) == spec.runtimeClass \in RuntimeClasses

runtimeClassExists(spec) ==
  /\ spec.runtimeClass \in RuntimeClasses
  /\ Cached(rcV[spec.runtimeClass]) # NoObj

Listed == {n \in Nodes : srList[n] # "unlisted"}

\* A deletion that passes by nodes with a Job on its way.
UninstallProvisioned == {n \in Listed : srList[n] = "provisioned"}

\* recreateStrategyRollout deploys where the listed label is neither
\* "provisioned" nor "pending"; handleDeleteShim where there is a label.
InstallTargets   == {n \in Listed : srList[n] \notin {"provisioned", "pending"}}
UninstallTargets == {n \in Listed : srList[n] # "none"}

------------------------------------------------------------------------------
(* Reconcile, up to the refetched Shim.                                     *)

SRNotFound(s) ==
  /\ srPc = "idle" /\ s \in shimQ
  /\ Cached(shimV[s]) = NoObj
  /\ shimQ' = shimQ \ {s}
  /\ UNCHANGED <<nodeV, shimV, jobV, rcV, nodeCurrent, shimCurrent, jobQ,
                 host, uids, budget, srVars>>

SRStart(s) ==
  /\ srPc = "idle" /\ s \in shimQ
  /\ Cached(shimV[s]) # NoObj
  /\ shimQ' = shimQ \ {s}
  /\ LET obj   == Cached(shimV[s])
         nodes == getNodeListFromShimsNodeSelector(obj.spec)
     IN  /\ srList' = [n \in Nodes |-> IF n \in nodes
                                       THEN Cached(nodeV[n]).labels[s]
                                       ELSE "unlisted"]
         /\ srObj' = [obj EXCEPT
              !.nodes = Cardinality(nodes),
              !.ready = Cardinality({n \in nodes :
                          Cached(nodeV[n]).labels[s] = "provisioned"})]
  /\ srShim' = s /\ srPc' = "status"
  /\ GetShim(s)
  /\ UNCHANGED <<nodeV, shimV, jobV, rcV, nodeCurrent, jobQ, host, uids,
                 budget, srOp, srTodo, srCur, srCopy, srErr, srApplied>>

\* A status write without a resourceVersion, which the API server never
\* refuses.
updateStatusForced ==
  /\ srPc = "status"
  /\ Live(shimV[srShim]) # NoObj /\ Room(shimV[srShim])
  /\ shimV' = [shimV EXCEPT ![srShim] = Append(@, srObj)]
  /\ shimCurrent' = shimCurrent \ {srShim}
  /\ srPc' = "refetch"
  /\ UNCHANGED <<nodeV, jobV, rcV, nodeCurrent, shimQ, jobQ, host, uids,
                 budget, srShim, srObj, srList, srOp, srTodo, srCur, srCopy,
                 srErr, srApplied>>

\* Whatever the error of the Update, it is only logged.
updateStatus ==
  /\ srPc = "status"
  /\ \/ UpdateShim(srShim, srObj) /\ UNCHANGED budget
     \/ UpdateShimFails(srShim)
  /\ srPc' = "refetch"
  /\ UNCHANGED <<nodeV, jobV, rcV, nodeCurrent, shimQ, jobQ, host, uids,
                 srShim, srObj, srList, srOp, srTodo, srCur, srCopy, srErr,
                 srApplied>>

SRRefetchNotFound ==
  /\ srPc = "refetch" /\ Cached(shimV[srShim]) = NoObj
  /\ srErr' = TRUE /\ srPc' = "ensure"
  /\ UNCHANGED <<kubeVars, srShim, srObj, srList, srOp, srTodo, srCur,
                 srCopy, srApplied>>

\* A handleDeleteShim that returns early when no node has a label.
SRRefetchEarlyReturn ==
  /\ srPc = "refetch" /\ Cached(shimV[srShim]) # NoObj
  /\ srObj' = Cached(shimV[srShim])
  /\ GetShim(srShim)
  /\ IF srObj'.del
     THEN /\ srOp' = "uninstall"
          /\ srTodo' = UninstallTargets
          /\ srPc' = IF UninstallTargets = {} THEN "ensure" ELSE "deploy"
     ELSE /\ srPc' = IF runtimeClassExists(srObj'.spec)
                     THEN "rollout" ELSE "runtimeclass"
          /\ UNCHANGED <<srOp, srTodo>>
  /\ UNCHANGED <<nodeV, shimV, jobV, rcV, nodeCurrent, shimQ, jobQ, host,
                 uids, budget, srShim, srList, srCur, srCopy, srErr,
                 srApplied>>

SRRefetch ==
  /\ srPc = "refetch" /\ Cached(shimV[srShim]) # NoObj
  /\ srObj' = Cached(shimV[srShim])
  /\ GetShim(srShim)
  /\ IF srObj'.del
     THEN /\ srOp' = "uninstall"
          /\ srTodo' = UninstallTargets
          /\ srPc' = IF UninstallTargets = {} THEN "unfinalize" ELSE "deploy"
     ELSE /\ srPc' = IF runtimeClassExists(srObj'.spec)
                     THEN "rollout" ELSE "runtimeclass"
          /\ UNCHANGED <<srOp, srTodo>>
  /\ UNCHANGED <<nodeV, shimV, jobV, rcV, nodeCurrent, shimQ, jobQ, host,
                 uids, budget, srShim, srList, srCur, srCopy, srErr,
                 srApplied>>

------------------------------------------------------------------------------
(* RuntimeClass and rollout strategy.                                       *)

handleDeployRuntimeClass ==
  LET r   == srObj.spec.runtimeClass
      obj == createRuntimeClassManifest(srShim, srObj)
  IN
  /\ srPc = "runtimeclass"
  /\ \/ /\ RuntimeClassAccepts(r, obj)
        /\ ApplyRuntimeClass(r, obj)
        /\ srPc' = "rollout"
        /\ UNCHANGED <<srErr, budget>>
     \/ /\ ~RuntimeClassAccepts(r, obj)
        /\ srErr' = TRUE /\ srPc' = "ensure"
        /\ UNCHANGED <<rcV, budget>>
     \/ /\ Spend("fault")
        /\ srErr' = TRUE /\ srPc' = "ensure"
        /\ UNCHANGED rcV
  /\ UNCHANGED <<nodeV, shimV, jobV, nodeCurrent, shimCurrent, shimQ, jobQ,
                 host, uids, srShim, srObj, srList, srOp, srTodo, srCur,
                 srCopy, srApplied>>

handleInstallShim ==
  /\ srPc = "rollout"
  /\ \/ /\ Listed # {} /\ srObj.spec.rollout = "rolling"
        /\ srErr' = TRUE /\ srPc' = "ensure"
        /\ UNCHANGED <<srOp, srTodo>>
     \/ /\ Listed = {} \/ srObj.spec.rollout # "rolling"
        /\ srOp' = "install"
        /\ srTodo' = InstallTargets
        /\ srPc' = IF InstallTargets = {} THEN "ensure" ELSE "deploy"
        /\ UNCHANGED srErr
  /\ UNCHANGED <<kubeVars, srShim, srObj, srList, srCur, srCopy, srApplied>>

------------------------------------------------------------------------------
(* The loop over the nodes and deployJobOnNode.                             *)

\* A loop that keeps the last node's copy,
NextNodeKeepsCopy(n) ==
  /\ srTodo' = srTodo \ {n}
  /\ UNCHANGED <<srCur, srCopy>>
  /\ srPc' = IF srTodo \ {n} # {} THEN "deploy"
             ELSE IF srOp = "uninstall" THEN "unfinalize" ELSE "ensure"

\* and one that is followed by removeFinalizerFromShim for either operation.
NextNodeReleases(n) ==
  /\ srTodo' = srTodo \ {n}
  /\ srCur' = NoObj /\ srCopy' = NoObj
  /\ srPc' = IF srTodo \ {n} # {} THEN "deploy" ELSE "unfinalize"

\* Leave the loop body for node n: the next node, or what follows the loop.
NextNode(n) ==
  /\ srTodo' = srTodo \ {n}
  /\ srCur' = NoObj /\ srCopy' = NoObj
  /\ srPc' = IF srTodo \ {n} # {} THEN "deploy"
             ELSE IF srOp = "uninstall" THEN "unfinalize" ELSE "ensure"

\* A loop that gives up at the first node it cannot serve.
NodeErrorStops(n) ==
  /\ srErr' = TRUE
  /\ srPc' = "ensure" /\ srTodo' = {}
  /\ srCur' = NoObj /\ srCopy' = NoObj

\* A loop that goes on, and reports nothing.
NodeErrorIgnored(n) == NextNode(n) /\ UNCHANGED srErr

\* return err out of deployJobOnNode: recreateStrategyRollout collects it,
\* handleDeleteShim returns it at once.
NodeError(n) ==
  /\ srErr' = TRUE
  /\ IF srOp = "install" THEN NextNode(n)
     ELSE /\ srPc' = "ensure" /\ srTodo' = {}
          /\ srCur' = NoObj /\ srCopy' = NoObj

\* The node is gone from the cache; handleDeleteShim ignores NotFound.
deployJobNodeNotFound(n) ==
  /\ srPc = "deploy" /\ n \in srTodo
  /\ Cached(nodeV[n]) = NoObj
  /\ NextNode(n)
  /\ srErr' = (srErr \/ srOp = "install")
  /\ UNCHANGED <<kubeVars, srShim, srObj, srList, srOp, srApplied>>

Resolves(n) == resolveArtifactForNode(srObj.spec.fetch, Platform[n]) # NoArtifact

deployJobNoArtifact(n) ==
  /\ srPc = "deploy" /\ n \in srTodo
  /\ Cached(nodeV[n]) # NoObj
  /\ srOp = "install" /\ ~Resolves(n)
  /\ NodeError(n)
  /\ UNCHANGED <<kubeVars, srShim, srObj, srList, srOp, srApplied>>

\* Refetch the node; the label decided on is not looked at again.
deployJobOnNode(n) ==
  /\ srPc = "deploy" /\ n \in srTodo
  /\ Cached(nodeV[n]) # NoObj
  /\ srOp = "install" => Resolves(n)
  /\ srCur' = n
  /\ srCopy' = [Cached(nodeV[n]) EXCEPT !.labels[srShim] =
                  IF srOp = "install" THEN "pending" ELSE "uninstall"]
  /\ GetNode("sr", n)
  /\ srPc' = "label"
  /\ UNCHANGED <<nodeV, shimV, jobV, rcV, shimCurrent, shimQ, jobQ, host,
                 uids, budget, srShim, srObj, srList, srOp, srTodo, srErr,
                 srApplied>>

\* Whatever the error of the Update, it is only logged.
updateNodeLabels ==
  /\ srPc = "label"
  /\ \/ UpdateNode("sr", srCur, srCopy, TRUE) /\ UNCHANGED budget
     \/ UpdateNodeFails("sr", srCur, TRUE)
  /\ srPc' = "patch"
  /\ UNCHANGED <<shimV, jobV, rcV, shimCurrent, shimQ, jobQ, host, uids,
                 srShim, srObj, srList, srOp, srTodo, srCur, srCopy, srErr,
                 srApplied>>

PatchedJob == <<srCur, srShim, srOp>>
Manifest   == createJobManifest(srObj.spec, srCur, srOp)

patchJob ==
  /\ srPc = "patch"
  /\ JobAccepts(PatchedJob, Manifest)
  /\ ApplyJob(PatchedJob, Manifest, JobOwner(srObj, srOp))
  /\ NextNode(srCur)
  /\ srApplied' = srApplied \cup {srCur}
  /\ nodeCurrent' = nodeCurrent \ {<<"sr", srCur>>}
  /\ UNCHANGED <<nodeV, shimV, rcV, shimCurrent, shimQ, jobQ, host, uids,
                 budget, srShim, srObj, srList, srOp, srErr>>

patchJobRefused ==
  /\ srPc = "patch"
  /\ \/ ~JobAccepts(PatchedJob, Manifest) /\ UNCHANGED budget
     \/ Spend("fault")
  /\ srCopy' = [srCopy EXCEPT !.labels[srShim] = "failed"]
  /\ srPc' = "markfailed"
  /\ UNCHANGED <<nodeV, shimV, jobV, rcV, nodeCurrent, shimCurrent, shimQ,
                 jobQ, host, uids, srShim, srObj, srList, srOp, srTodo, srCur,
                 srErr, srApplied>>

\* updateNodeLabels(..., "failed"), then return the Patch's error.
markNodeFailed ==
  /\ srPc = "markfailed"
  /\ \/ UpdateNode("sr", srCur, srCopy, FALSE) /\ UNCHANGED budget
     \/ UpdateNodeFails("sr", srCur, FALSE)
  /\ NodeError(srCur)
  /\ UNCHANGED <<shimV, jobV, rcV, shimCurrent, shimQ, jobQ, host, uids,
                 srShim, srObj, srList, srOp, srApplied>>

------------------------------------------------------------------------------
(* Finalizer.                                                               *)

\* The copy loses the finalizer whether or not the Update succeeds; NotFound
\* is no error.  ContainsFinalizer always holds here: this is the only
\* finalizer modelled, and without one a deleted Shim would be gone.
removeFinalizerFromShim ==
  /\ srPc = "unfinalize"
  /\ srObj' = [srObj EXCEPT !.fin = FALSE]
  /\ srPc' = "ensure"
  /\ srObj.fin
  /\ \/ /\ UpdateShim(srShim, srObj')
        /\ srErr' = (srShim \notin shimCurrent /\ Live(shimV[srShim]) # NoObj)
        /\ UNCHANGED budget
     \/ /\ Spend("fault")
        /\ srErr' = TRUE
        /\ UNCHANGED <<shimV, shimCurrent>>
  /\ UNCHANGED <<nodeV, jobV, rcV, nodeCurrent, shimQ, jobQ, host, uids,
                 srShim, srList, srOp, srTodo, srCur, srCopy, srApplied>>

\* The deferred call, whose error is only logged, and the return: an error
\* puts the key back into the queue.
ensureFinalizerForShim ==
  /\ srPc = "ensure"
  /\ \/ /\ srObj.fin
        /\ shimCurrent' = shimCurrent \ {srShim}
        /\ UNCHANGED <<shimV, budget>>
     \/ /\ ~srObj.fin
        /\ UpdateShim(srShim, [srObj EXCEPT !.fin = TRUE])
        /\ UNCHANGED budget
     \/ ~srObj.fin /\ UpdateShimFails(srShim)
  /\ shimQ' = IF srErr THEN shimQ \cup {srShim} ELSE shimQ
  /\ SRReset
  /\ UNCHANGED <<nodeV, jobV, rcV, nodeCurrent, jobQ, host, uids>>

SRNext ==
  \/ \E s \in Shims : SRNotFound(s) \/ SRStart(s)
  \/ updateStatus \/ SRRefetchNotFound \/ SRRefetch
  \/ handleDeployRuntimeClass \/ handleInstallShim
  \/ \E n \in Nodes : \/ deployJobNodeNotFound(n) \/ deployJobNoArtifact(n)
                      \/ deployJobOnNode(n)
  \/ updateNodeLabels \/ patchJob \/ patchJobRefused \/ markNodeFailed
  \/ removeFinalizerFromShim \/ ensureFinalizerForShim
=============================================================================
