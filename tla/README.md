# runtime-class-manager in TLA+

The runtime-class-manager installs containerd shims on the nodes of a Kubernetes
cluster. This directory holds TLA+ models of its controllers and of its node
installer, the TLC configurations that check them on small instances, and
proofs, checked by TLAPS, of what matters most for every size of cluster.
`PROJECT.json` maps every definition to the source lines it stands for.

    tlc -workers 4 -config Safety.cfg MCSafety
    tlapm UpdateProofs.tla

## 1. The system

| Part | State it keeps | Operations | Interacts with |
|---|---|---|---|
| Shim controller (`internal/controller/shim_controller.go`) | none but the locals of a call; everything else is in API objects | `Reconcile`: list nodes, write status, refetch, apply RuntimeClass, roll out Jobs, delete, finalizer | reads the cache; writes Shims, Nodes, Jobs, RuntimeClasses |
| Job controller (`job_controller.go`) | locals of a call | `Reconcile`: the outcome of a Job becomes a label of its node | reads the cache; writes Nodes |
| Artifact resolution (`resolveArtifactForNode` and helpers) | none | pick the download for a node's platform | called by the rollout |
| Manager (`cmd/rcm`) | cache and two work queues | start, die, start again | hosts both controllers |
| Shim resource (`api/v1alpha1`) | spec, status, finalizer, deletion mark | created, edited, deleted by users | |
| Job and RuntimeClass manifests (`createJobManifest`, `createRuntimeClassManifest`) | none | name, operation, artifact, options, owner | called by rollout and deletion |
| Downloader (`images/downloader`) | the archive of its Pod | download with retries, unpack, test the digest | init container of an install Pod |
| Node installer (`cmd/node-installer`, `internal/{shim,state,containerd}`) | files on the node: the binary, `rcm-lock.json`, `config.toml` | `RunInstall`, `RunUninstall` | run in the Pods of the controller's Jobs; several at a time on one node |
| Distribution (`detect.go`, `root.go`, `internal/preset`, Restarters, D-Bus) | none of its own | find the configuration file, prepare it, restart what reads it | called by the installer's commands |
| Charts, RBAC, generated code | none | | |

The controllers do not call each other. They meet in API objects: the shim
controller writes the label `pending` (or `uninstall`) on a node and applies a
Job; the Job's Pods work on the node's files; the job controller turns the
Job's outcome into `provisioned`, `failed` or no label; the label change brings
every Shim back into the shim controller's queue.

What is hard here:

* every read comes from a cache that lags behind the API server, also behind
  the controller's own writes;
* Nodes and Shims are written back whole, so that only the resourceVersion
  stands between a stale copy and a lost update, and a refused Update is mostly
  logged and forgotten;
* a call makes several writes and may fail, or the process die, between any two;
* Jobs keep their names when a Shim is deleted and created again, their
  templates are immutable, and install and uninstall Jobs of one node overlap;
* installers share files without a lock, are killed anywhere and are retried, and
  every distribution has its own file and its own containerd to restart.

What makes each part correct:

* shim controller: no write undoes somebody else's; a Shim is let go only after
  its uninstall Jobs are on their way; every node that can be served gets the
  shim; the status counts and the RuntimeClass become right;
* job controller: `provisioned` is never shown for a host without the shim;
* artifact resolution: a node gets the first artifact made for it, or none;
* manifests: a Job's name belongs to one node, shim and operation;
* installer: a completed install leaves a usable shim that no other Job takes
  away; a completed uninstall leaves nothing; both can be interrupted and repeated;
* downloader and distribution: what is installed has the digest asked for, and the
  containerd that is restarted is the one that reads the file that was changed.

The hazards behind these, each at its line, are listed in `PROJECT.json`.

## 2. Modules

    JobNames  ArtifactResolution     KubeApi              ShimLifecycle
        \       /       \          /       \                   :
       MCManifests     ShimReconciler   JobReconciler          :
            |                   \       /                      :
     ManifestProofs        RuntimeClassManager ... implements .:
                            /            \
              MCRuntimeClassManager   TypeProofs
                       |                  |
                   MCSafety          UpdateProofs
                                      /        \
                          LifecycleProofs   FinalizerProofs <- ProvisionedProofs

    Distribution   ContainerdConfig      HostContract
              \      /                      :
             NodeInstaller ... implements ..:
              /         \
    MCNodeInstaller   InstallerTypeProofs <- InstallerProofs

* **KubeApi** is the part of Kubernetes and controller-runtime that the code
  uses. An object is a non-empty sequence of versions: the last one is live, the
  first one is cached, those in between are undelivered watch events. Instead of
  resourceVersion counters, `nodeCurrent` and `shimCurrent` hold the copies whose
  resourceVersion is still the live one; an Update from any other copy is
  refused. An Update may also fail for another reason (`UpdateNodeFails`,
  `UpdateShimFails`): nothing is written then and no event follows. An Update that
  succeeds although its answer is lost is not modelled. Server-side apply creates,
  changes nothing, re-owns, or is refused for an immutable field. It also has the Job controller, TTL, garbage collector,
  resync and users. External except for the wiring of watches to queues.
* **ShimReconciler** and **JobReconciler** are the two `Reconcile` functions.
  The locals of the call in progress are variables, `srPc` and `jrPc` say how far
  it has come, and every API write is an action of its own. Cache reads belong to
  the action that follows them; where a copy is read long before it is used
  (`srList`, `srObj`, `srCopy`, `jrCopy`), it is a variable. Actions have the
  names of the functions they translate.
* **RuntimeClassManager** composes them with restarts, states the fairness and
  all properties of the manager.
* **ShimLifecycle** is the abstract specification of a Shim object. `shim` is mapped
  to the live version of each Shim without status, `controller` to the locals of the
  two reconcilers. The latter tells whose step it is: users' steps leave it alone,
  and every write of a controller moves its call on. So a spec may change in a
  user's step only, and an Update that reverted an edit would be no step at all.
* **ArtifactResolution** is the three pure functions. A word is a pair of its
  lower-case form and its spelling, because `EqualFold` ignores the spelling and
  the `switch` of `normalizeArch` does not. **JobNames** makes names, sequences of
  characters, and cuts them. **MCManifests** has the reference definitions
  (`FirstFittingEntry`, `JobNameIdentifies`).
* **Distribution** says what the installer does differently on MicroK8s, RKE2, K3s,
  K0s and plain hosts, as functions of a host (its files, units, processes, package
  managers and the path given to the command). Results that depend on the order of
  a Go map are sets.
* **ContainerdConfig** is the text of the configuration file: `generateConfig`, the
  search for a name in all of it (`Mentions` says in which other names, options and
  lines of the distribution a shim's name occurs), and `ReplaceAll` with what it
  leaves of a longer text.
* **NodeInstaller** is a Pod from its download to its restart, on the files of one
  node, one action per call that others can observe. Files are written by
  truncating and then filling them, as `afero.WriteFile` does. Pods are killed,
  calls fail, and Jobs make new Pods until a limit. A *scene* is a node with the
  work it is given.
* **HostContract** is the abstract specification of a node: shims that are usable
  or not, and Jobs that change that, each for its own shim. There is one exception:
  the step in which the Pod of an uninstaller ends (its Job gets another Pod, or
  fails) while the file is truncated and not yet written (`UninstallerDies`). The
  variables `pods` and `writing` are there to tell that step from those of a Pod that
  goes on. The contract is what KubeApi assumes of Jobs (a completed
  Job sets `host`, a failed one leaves it open), so that the run Installers carries
  the manager's `ProvisionedMeansInstalled` down to files. A shim is mapped to
  usable when its binary is whole and its runtime is in the file that the kubelet's
  containerd reads.
* The modules called **...Proofs** hold the theorems of section 4.

Operators next to a definition that say "a loop that ...", "a check that ..." are
variants of it with a plausible mistake. No specification uses them; they
serve to show that each property would notice the mistake.

Abstractions. A Node is whether it matches the nodeSelector plus one
provisioning label per shim. A Job template is its artifact and options, a
RuntimeClass its handler, selector flag and owner. `host` says whether a node
can run a shim; in KubeApi a completed Job sets it in one step, a failed one
leaves it open, and a Job collected while active may have done its work. What a
completed installer really leaves is the subject of NodeInstaller, which shows
where this is optimistic (V_Restart) or where an uninstall Job can only fail
(after one that was killed half-way, for a shim that was never installed, V_Lock).
The manager's modules take Job names to be unique; Manifests shows when they are.
Reads of the cache do not fail. On the node, an archive stands for the binary in it
and for its digest; a text of the configuration file is a sequence of lines, and
the order of texts in the file is left out; so is K3s's and RKE2's rendering of
their template: containerd runs with the template as it was at the restart. A
service is restarted or not, and D-Bus is there or not.

## 3. Runs

Bounds: `MaxLag` (undelivered events per object), `MaxBudget` (operations of
users, nodes and faults, of the kinds in `EnvOps`), `MaxPods`, `NumRetry` and a
scene's `jobs` and `faults` (installer), `MaxPlatforms`, `MaxNameLength` and a
`K8sNameMaxLength` that short names reach. One undelivered event is enough to make
a copy or a list stale; a second one makes it no staler. One node and one shim
are enough for what concerns a single (node, shim) pair, which is all that a
label or a Job is about: a foreign label is then the one of the nodeSelector, and
the theorems cover any number of shims. Runs about interference have two of
either. Two or three budgeted operations are what the known conflicts take
(create, then delete or disturb, then fail). Runs about deletion start from
`InitInstalled`, a state the manager reaches undisturbed. On a node, three Jobs are
enough for an install, an uninstall and another install, or for two shims that
meet and a third Job that finds what they left; two faults are enough to kill a Pod
and the one that retries it. The run Installers is symmetric in its two shims,
Safety in its two specs. `CHECK_DEADLOCK` is off where a cluster may come to
rest.

| Run | Instance | Shows |
|---|---|---|
| Safety | 1 node, 1 shim, 2 specs, budget 2 of create, delete, edit, relabel, restart, node gone and back, fault, expiring Job | `TypeOK`, `CopiesAgreeWithLive`, `ControllersKeepForeignLabels`, refinement `LifecycleSpec` |
| Labels | 3 specs (rolling, without RuntimeClass, other handler), budget 3 of create, edit, relabel, failing Job, fault, restart; resync at rest | `ProvisionedMeansInstalled`, `StatusConverges` (also after a status Update that failed, which only the resync makes good) |
| Provisioning | 2 nodes, one without artifact; create and a foreign node write or a fault | `EventuallyProvisioned`: the resync repairs the swallowed conflict or failure, and one node's error does not stop the loop |
| Deletion | from installed; delete and fault, foreign write or restart | `FinalizerHeldUntilUninstallDispatched`, `DeletionCompletes`, `DeletedShimLeavesNoTrace` |
| Classes | 2 shims, no nodes, one RuntimeClass; from installed | `RuntimeClassRestored` |
| Manifests | all strategies of up to 3 entries on Go-style nodes; all names of up to 3 characters, limit 7 | `FirstFittingEntry`, `AnonHTTPOnlyWithoutPlatforms`, `JobNameIdentifies`, `UninstallJobIsAnother` |
| Installers | 2 shims, 15 scenes of 3 Jobs and up to 2 faults: installers side by side on a plain host and on a K3s host with its template; Jobs in turn on hosts without systemd (one containerd, two), MicroK8s, K3s (with edits of the Shim), K3d, a K3s agent, RKE2 without D-Bus, K0s, hosts with a path given (right, missing, K3s's), an unknown host, one that cannot install D-Bus | `TypeOK`, refinement `InstallerContract`, `UninstallLeavesNothing`, `KubeletRuntimeReloaded`, `DigestEnforced` |

Limits that the properties state themselves: `ProvisionedMeansInstalled` is
for clusters without deletion, node removal and TTL (a Job that expired can be
applied again by a call that saw an old label, and fail on a provisioned node);
`UninstallLeavesNothing` names the text with the Job's own options (an edit of the
options leaves the old text behind). What the scenes of Installers leave out, because
the code has no protection there (each time TLC shows the property violated as soon
as a scene allows it): an uninstall next to another shim's Job writes back a file
without the other's runtime, and installers side by side may lose a runtime while
one of them still copies the template (`InstallerContract`); a shim whose name is
part of another's, or occurs elsewhere in the file, is taken for configured
(`InstallerContract`); two options are
removed only if the Go map comes in the order it came when they were written
(`UninstallLeavesNothing`); an edit that drops all options leaves an options table
behind, which a later install takes for its runtime (`InstallerContract`); files of
two distributions on one host leave the choice to the Go map
(`InstallerContract`). Jobs of one shim do not overlap in any scene. The
liveness runs leave the expiry of Jobs out: a Job that expires before its outcome
was written leaves its label wrong for good. Provisioning has one disturbance after
the creation: a Patch that fails together with the Update to `failed` that follows it
leaves the node pending for good, as a restart does (V_Crash). Deletion has one spec:
an uninstall Job that an earlier deletion left behind refuses a template with other
options until it expires, and its Shim stays in deletion as long.

Runs that end in a violation, each of something the repository says:

| Run | Says | What happens |
|---|---|---|
| V_Uninstall | `docs/shim.md:5` "removing shim binaries" | deletion before the late finalizer releases the Shim at once |
| V_Crash | `shim_controller.go:95` "make sure that the shim is deployed" | restart between `pending` and the Job: pending for ever |
| V_Recreate | `docs/shim.md:5` "installing ... shim binaries" | a re-created Shim meets the old Job or label |
| V_Restart | `install.go:115` "nothing changed, nothing more to do" | the retry after a failed restart skips the restart |
| V_Lock | `uninstall.go:18` "shim %s not installed" | two installers have read the lock file before either wrote: one entry is lost, and the uninstall of a shim in use fails |

Met while modelling, and plain from the code without a run: the refetch of
`shim_controller.go:228` reads the cache and may return the copy from before the
Update; an existing RuntimeClass is never updated, against `docs/shim.md:5`; the
RuntimeClass admits nodes before they have the shim, against
`docs/runtimeclass.md:13`; `matchesPlatform` normalises the node's lower-case
name only, against line 234 of the multi-platform proposal; an uninstall killed
after the lock file was written fails on every retry; a kill between Create and
Copy of a preset's Setup leaves an empty template; an uninstaller killed between
truncating and writing `config.toml` leaves an empty one; `systemctl restart k3s`
fails on K3s agents, whose unit is `k3s-agent`, so that every first Pod fails there
and the retry completes without a restart; a RuntimeClass with a name of more than 63
characters is created under another name than the one looked up; the digest of an
artifact is compared with that of the archive, not of the binary, and with one space
between digest and file name, which GNU `sha256sum -c` accepts (the model takes the
comparison to work; the image is an Alpine one, whose `sha256sum` is another);
the chart passes `leader-elect` without dashes (`deployment.yaml:41`).

Fairness. Work queues hand out every key (strong fairness per key: a key is
available again and again while the one worker serves others); a `Reconcile` that
has begun goes on; watch events arrive; Jobs finish; collectors do their rounds
(weak). controller-runtime and Kubernetes give these. The informers'
resync (every ten hours by default, and the manager leaves it at that) is weakly
fair in `FairSpec`. In `FairSpecInstalled` and `FairSpecQuiet` it only happens when
everything else has come to rest (`QuietResync`): a resync that interrupts each
attempt again could keep a deletion from completing, which a period of ten hours
rules out. `StatusConverges` and `EventuallyProvisioned` rest on the resync: a status
or label Update that fails is logged, returns nil and leaves no event behind. Users, faults, failing Jobs and restarts are
bounded and under no obligation.

## 4. Proofs

Every safety property that a run checks is also a theorem, for every value of the
constants (TLC also found the installer's inductive invariants `ContractInv` and
`UninstallInv` to hold on the instance of the run Installers).

### The manager

For arbitrary `Nodes` (finite), `Shims`, `RuntimeClasses`, `ShimSpecs` and
bounds, from `Spec` (with resync, faults, restarts). Assumptions: `Nodes` is
finite, a spec's `nodeSelector` is Boolean, `NoObj` is no name and no object, and
the bounds' types.

* `TypeCorrect` (TypeProofs): `Spec => []TypeOK`. `TypeOK` also ties a
  reconciler's locals to its program points, which the other proofs need; it
  is inductive. Version sequences are handled by a few lemmas on `Append`, `Tail`
  and one-element sequences.
* `CopiesCorrect` (UpdateProofs): `Spec => [](TypeOK /\ CopiesAgreeWithLive)`.
  Neither "no foreign label is lost" nor the refinement is inductive: they
  speak about the moment of a write, and need to know what the copy written then
  is. `CopiesAgreeWithLive` supplies it: a copy that still has the live
  resourceVersion (`NodeCopies`, `ShimCopy`) equals the live object but for what
  its controller is about to write, and only a call that saw the deletion mark is
  on the way to the finalizer (`ReleasesOnlyDeleted`). It is preserved because
  every write by anybody else removes the copy from `nodeCurrent` or
  `shimCurrent`.
* `ForeignLabelsKept` (UpdateProofs): `Spec => ControllersKeepForeignLabels`,
  from `NodeCopies`, action by action.
* `LifecycleImplemented` (LifecycleProofs): `Spec => LifecycleSpec`. Users' steps
  map to Create, Edit and Delete, which leave the reconcilers' locals alone; an
  accepted finalizer Update maps to Protect or Release, by `ShimCopy` and
  `ReleasesOnlyDeleted`; an accepted status Update changes nothing that users see,
  by `ShimCopy` again, and is Work, like every other step of a controller; the rest
  is a stutter.
* `FinalizerHeld` (FinalizerProofs): `FinalizerHeldUntilUninstallDispatched`, from
  an empty and from an installed cluster. The invariant is that of the loop of
  `handleDeleteShim` (`LoopServes`): each node it listed is still to do, has its
  Job, or is gone; and that what is gone stays so (`GoneForGood`), because the loop
  skips a node that the *cache* does not have. Hypothesis: no node joins under an
  old name (`"nodeAdd" \notin EnvOps`), without which the property is false.
* `ProvisionedCorrect` (ProvisionedProofs): `ProvisionedMeansInstalled`. The
  invariant follows the outcome from the host to the label: a completed Job stays
  completed in every version of it and has left the shim (`JobsStay`), Shims stay
  and only installs are rolled out (`ShimsStay`), and neither a live label nor a
  copy about to be written says `provisioned` without such a Job (`LabelsTrue`).
  Hypothesis (`Lasting`): no Shim is deleted, no node removed, no Job expires, the
  limits that the property states itself.

### The installer

For arbitrary `Shims`, `Contents`, scenes and bounds, so for any hosts, number of
Jobs, Pods and faults. `None`, which stands for a file that is not there, is no
file's content (`None \notin Files`). `MarkersAssumption` and `ScenesAssumption` say
that markers differ and that scenes are well typed.

* `InstallerTypes` (InstallerTypeProofs): `Spec => []TypeOK`. It is not inductive:
  what a Setup copies and an append extends must be there, and files that are there
  stay (`Located`, `FilesStay`).
* `DigestIsEnforced` (InstallerTypeProofs): `DigestEnforced`. From the download on a
  Pod has an archive that passed, and from the copy on the binary on the host is
  that archive's, or a partial one that the Pod will fail on (`Digest`); nobody
  else touches it, because Jobs of one shim do not overlap (`Alone`).

The other three hold on nodes that *fit*. `Fit` is the list of limits of section 3 as
a formula on scenes: the file found is the one containerd reads, or it never comes
to be (`FitNode`); only installers overlap, and none has to create the file
(`FitOverlap`); options are not dropped altogether (`FitOptions`); no name is part
of another, of an option or of the distribution's text (`FitNames`). Every scene of the run Installers fits, which TLC evaluates
(`ScenesFit` in MCNodeInstaller).

* `ContractKept` (InstallerProofs): `Spec => InstallerContract`, the refinement of
  HostContract. Its invariant `ContractInv` says that other files are left alone,
  that a runtime's table comes first in its text (`Shaped`, so that finding a name
  means that its runtime is there and removing one runtime keeps the others), and
  what a Pod knows at each call (`Knows`): before it writes, what it is about to
  write agrees with the file on all other shims. Starting a Job maps to Start, its
  end to Complete, a Pod that fails to PodFails, one that is killed between
  truncating and writing to UninstallerDies, everything else to Work. In between what
  the uninstaller is about to write counts as written (`Current`), so its two calls
  take no shim away unless they are torn apart.
* `RuntimeReloaded` (InstallerProofs): `KubeletRuntimeReloaded`, from the same
  invariant and `FitService`: the node runs one distribution, by a unit if it has
  systemd. Case by case over the presets, the Restarter that goes with the file
  restarts what runs that distribution's containerd, or nothing.
* `NothingLeft` (InstallerProofs): `UninstallLeavesNothing`, where Shims have at most
  one option (`OneOption`). Then every runtime's text has one length
  (`Whole`), so that `ReplaceAll` removes it as a whole, and the file has no rests
  of texts; and the lock file has lost the entry before the text is removed
  (`Leaves`).

### The manifests

`NodeGetsFirstFittingEntry`, `NoFallbackToAnonHTTP`, `JobNamesIdentify` and
`UninstallJobHasItsName` (ManifestProofs) are MCManifests' four properties for lists,
names and limits of any length. There is no state to speak of; the work is in the
lemmas: that `Min` of the matching entries is the first of them (a least element
exists because inclusion of the intervals `1..i` is well founded), and when two
cut names are equal.

### Only model-checked

Every liveness property: `StatusConverges`, `EventuallyProvisioned`,
`DeletionCompletes`, `DeletedShimLeavesNoTrace`, `RuntimeClassRestored`; fairness and
ENABLED are beyond the prover. The violations of section 3, by their nature.

## 5. Not modelled

Two managers without leader election; asset directories with several files, which
the downloader never makes; flags of the installer that the manager never sets; the
encodings of the lock file; how a distribution renders its template; images, volumes
and security context of the manifests; charts, RBAC and generated code. A Windows
restarter is a stub in the source.

## 6. Plan

Done, in this order: KubeApi, ArtifactResolution, ShimReconciler, JobReconciler,
their composition, ShimLifecycle, the manager's runs, the first four theorems,
NodeInstaller; then Distribution, ContainerdConfig, the downloader, HostContract as
NodeInstaller's abstract specification, JobNames; then the theorems about
finalizer and labels, the installer and the manifests.

Next:

1. KubeApi's Jobs on one node as an implementation of HostContract, so that the link
   between `ContractKept` and `ProvisionedCorrect` is a theorem too. A Job that is
   collected while it runs needs a step of its own in the contract.
2. The safety half of the liveness properties: that a call which ends leaves nothing
   undone that no event will bring back.
3. Weaker hypotheses: `ProvisionedCorrect` with deletion of other Shims,
   `NothingLeft` with several options for texts that were written in the order in
   which they are removed.
