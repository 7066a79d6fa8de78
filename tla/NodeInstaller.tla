--------------------------- MODULE NodeInstaller ----------------------------
(***************************************************************************)
(* The Pods of the manager's Jobs on one node: the downloader              *)
(* (images/downloader) and the node installer (cmd/node-installer with     *)
(* internal/shim, internal/state, internal/containerd, internal/preset),   *)
(* next to each other, killed at any point and retried.                    *)
(*                                                                         *)
(* A Job is named by its shim and its operation and has one Pod at a time. *)
(* Every call that others can observe is an action; pc is where the Pod    *)
(* is:                                                                     *)
(*                                                                         *)
(*   install    "download", "detect", "setup", "create" and "setupcopy"    *)
(*              (the preset's Setup), "open" (O_TRUNC), "get" (lock file), *)
(*              "copy", "lock" and "lockdata" (state.Write: truncate, then *)
(*              write), "add" (AddRuntime reads), "append", "dbus",        *)
(*              "restart"                                                  *)
(*   uninstall  "detect", "get", "remove", "lock", "lockdata", "drop"      *)
(*              (RemoveRuntime reads), "conf" and "confdata" (truncate,    *)
(*              then write), "restart"                                     *)
(*                                                                         *)
(* A scene is a node and the work it is given, a record with               *)
(*   host       see Distribution                                           *)
(*   dbus       whether D-Bus is there at first                            *)
(*   kubelet    what has to be restarted for the kubelet's containerd      *)
(*   reads      the configuration file that containerd reads               *)
(*   overlap    operations whose Jobs may run while a Job of another shim  *)
(*              does; Jobs of one shim never overlap                       *)
(*   artifacts  what Jobs download, options what Shims ask for             *)
(*   jobs, faults   bounds: Jobs started, kills and failing calls          *)
(* Other bounds: MaxPods (Pods per Job, its backoff limit), NumRetry.      *)
(***************************************************************************)
EXTENDS Naturals, FiniteSets, Distribution, ContainerdConfig

CONSTANTS
  Shims,
  Contents,  \* archives a download may bring, each with its binary
  Scenes,
  Empty, Partial, ErrorPage, NoDigest, None,
  MaxPods, NumRetry

ASSUME BoundsAssumption == MaxPods \in Nat \ {0} /\ NumRetry \in Nat

VARIABLES
  scene,
  dbus,    \* D-Bus runs
  bin,     \* shim -> content of its binary under /opt/rcm/bin
  lock,    \* rcm-lock.json: shim -> recorded content; Empty when truncated
  conf,    \* path -> the configuration file there, None when there is none
  loaded,  \* the file the kubelet's containerd runs with
  job,     \* job -> "none", "running", "complete" or "failed"
  pod,     \* job -> locals of its Pod
  started, \* Jobs started so far
  faults   \* faults left

files == <<bin, lock, conf>>
hostVars == <<files, loaded, dbus>>
bounds == <<scene, started, faults>>
vars == <<hostVars, job, pod, bounds>>

Jobs == Shims \X {"install", "uninstall"}
NoLock == [s \in Shims |-> None]

\* artifact, options: what the Job was made with.  tries: downloads that failed,
\* file: what the last one brought.  st, data: what the Pod has read.
NoPod == [pc |-> "done", artifact |-> None, options |-> {}, tries |-> 0,
          file |-> None, settings |-> None, changed |-> FALSE,
          st |-> NoLock, data |-> {}, pods |-> 0]

\* The configuration files that Pods may look at.
Paths == (UNION {sc.host.files \cup {sc.reads} : sc \in Scenes})
         \cup {st.ConfigPath : st \in UNION {DetectDistro(sc.host) : sc \in Scenes}}
         \cup {CutTmpl[p] : p \in DOMAIN CutTmpl}

Init ==
  /\ scene \in Scenes
  /\ dbus = scene.dbus
  /\ bin = NoLock /\ lock = NoLock
  /\ conf = [p \in Paths |-> IF p \in scene.host.files
                             THEN {<<VersionLine(scene.host.version)>>} ELSE None]
  /\ loaded = {}
  /\ job = [j \in Jobs |-> "none"]
  /\ pod = [j \in Jobs |-> NoPod]
  /\ started = 0 /\ faults = scene.faults

------------------------------------------------------------------------------
(* Jobs and Pods.                                                           *)

FirstCall(op) == IF op = "install" THEN "download" ELSE "detect"

\* The manager applies a Job, or applies it again after the old one is gone.
StartJob(j) ==
  /\ job[j] # "running" /\ started < scene.jobs
  /\ \A k \in Jobs : job[k] = "running" =>
       k[1] # j[1] /\ {k[2], j[2]} \subseteq scene.overlap
  /\ \E artifact \in IF j[2] = "install" THEN scene.artifacts ELSE {None},
        options \in scene.options :
       pod' = [pod EXCEPT ![j] = [NoPod EXCEPT !.pc = FirstCall(j[2]),
                 !.artifact = artifact, !.options = options, !.pods = 1]]
  /\ job' = [job EXCEPT ![j] = "running"]
  /\ started' = started + 1
  /\ UNCHANGED <<hostVars, scene, faults>>

At(j, pc) == job[j] = "running" /\ pod[j].pc = pc

Goto(j, pc) == /\ pod' = [pod EXCEPT ![j].pc = pc]
               /\ UNCHANGED job

\* A Pod that is left at its last call.
SucceedInPlace(j) == job' = [job EXCEPT ![j] = "complete"] /\ UNCHANGED pod

\* The Pod exits 0; 1 or is killed: then the Job makes a new one, up to a limit.
Succeed(j) == /\ job' = [job EXCEPT ![j] = "complete"]
              /\ pod' = [pod EXCEPT ![j] = NoPod]
Fail(j) ==
  IF pod[j].pods < MaxPods
  THEN /\ pod' = [pod EXCEPT ![j] = [NoPod EXCEPT !.pc = FirstCall(j[2]),
                    !.artifact = pod[j].artifact, !.options = pod[j].options,
                    !.pods = pod[j].pods + 1]]
       /\ UNCHANGED job
  ELSE /\ job' = [job EXCEPT ![j] = "failed"]
       /\ pod' = [pod EXCEPT ![j] = NoPod]

Fault == faults > 0 /\ faults' = faults - 1 /\ UNCHANGED <<scene, started>>
NoFault == UNCHANGED bounds

Killed(j) ==
  /\ job[j] = "running" /\ Fault
  /\ Fail(j)
  /\ UNCHANGED hostVars

------------------------------------------------------------------------------
(* images/downloader, the init container of an install Pod.                 *)

\* A digest that is only looked at for presence.
sha256sumPresent(digest, file) == file # ErrorPage

\* Without a digest everything passes.
sha256sum(digest, file) == digest = NoDigest \/ digest = file

\* curl saves what the server answers, an error page too, which tar refuses.
Download(j) ==
  /\ At(j, "download")
  /\ \/ \E file \in Contents \cup {ErrorPage} :
          /\ IF file = pod[j].artifact.content THEN NoFault ELSE Fault
          /\ IF file # ErrorPage /\ sha256sum(pod[j].artifact.sha256, file)
             THEN /\ pod' = [pod EXCEPT ![j].pc = "detect", ![j].file = file]
                  /\ UNCHANGED job
             ELSE Fail(j)
     \/ /\ Fault
        /\ IF pod[j].tries = NumRetry THEN Fail(j)
           ELSE pod' = [pod EXCEPT ![j].tries = @ + 1] /\ UNCHANGED job
  /\ UNCHANGED hostVars

------------------------------------------------------------------------------
(* cmd/node-installer and internal/preset.  Only install runs Setup.        *)

Path(j) == pod[j].settings.ConfigPath

Detect(j) ==
  /\ At(j, "detect") /\ NoFault
  /\ \/ /\ DetectDistro(scene.host) = {} /\ Fail(j)
     \/ \E settings \in DetectDistro(scene.host) :
          /\ pod' = [pod EXCEPT ![j].settings = settings,
                       ![j].pc = IF j[2] = "uninstall" THEN "get"
                                 ELSE IF settings.Setup = "none" THEN "open"
                                 ELSE "setup"]
          /\ UNCHANGED job
  /\ UNCHANGED hostVars

\* Stat, and Open of the file to copy.
Setup(j) ==
  /\ At(j, "setup") /\ NoFault
  /\ IF conf[Path(j)] # None THEN Goto(j, "open")
     ELSE IF pod[j].settings.Setup = "copy" /\ conf[CutTmpl[Path(j)]] = None
     THEN Fail(j) ELSE Goto(j, "create")
  /\ UNCHANGED hostVars

\* Create makes an empty file, or empties it.
SetupCreates(j) ==
  /\ At(j, "create") /\ NoFault
  /\ conf' = [conf EXCEPT ![Path(j)] = {}]
  /\ Goto(j, IF pod[j].settings.Setup = "copy" THEN "setupcopy" ELSE "open")
  /\ UNCHANGED <<bin, lock, loaded, dbus>>

\* io.Copy of the base config.
SetupCopies(j) ==
  /\ At(j, "setupcopy") /\ NoFault
  /\ conf' = [conf EXCEPT ![Path(j)] = conf[CutTmpl[Path(j)]]]
  /\ Goto(j, "open")
  /\ UNCHANGED <<bin, lock, loaded, dbus>>

------------------------------------------------------------------------------
(* internal/shim and internal/state.                                        *)

\* Install opens the destination before it looks at the lock file.
Open(j) ==
  /\ At(j, "open") /\ NoFault
  /\ bin' = [bin EXCEPT ![j[1]] = Empty]
  /\ Goto(j, "get")
  /\ UNCHANGED <<lock, conf, loaded, dbus>>

\* A truncated lock file does not unmarshal.  Uninstall needs its entry.
Get(j) ==
  /\ At(j, "get") /\ NoFault
  /\ IF lock = Empty \/ (j[2] = "uninstall" /\ lock[j[1]] = None)
     THEN Fail(j)
     ELSE /\ pod' = [pod EXCEPT ![j].st = lock,
                       ![j].pc = IF j[2] = "install" THEN "copy" ELSE "remove"]
          /\ UNCHANGED job
  /\ UNCHANGED hostVars

ShimChanged(st, s, file) == st[s] # file

\* io.Copy.  Its error is kept, the digest of what was copied is recorded.
Copy(j, file) ==
  /\ At(j, "copy")
  /\ \/ file = pod[j].file /\ NoFault
     \/ file = Partial /\ Fault
  /\ bin' = [bin EXCEPT ![j[1]] = file]
  /\ LET changed == ShimChanged(pod[j].st, j[1], file) IN
     IF changed
     THEN /\ pod' = [pod EXCEPT ![j].pc = "lock", ![j].changed = TRUE,
                       ![j].st[j[1]] = file]
          /\ UNCHANGED job
     ELSE IF file = Partial THEN Fail(j) ELSE Goto(j, "add")
  /\ UNCHANGED <<lock, conf, loaded, dbus>>

\* A missing binary is no error.
Remove(j) ==
  /\ At(j, "remove") /\ NoFault
  /\ bin' = [bin EXCEPT ![j[1]] = None]
  /\ pod' = [pod EXCEPT ![j].pc = "lock", ![j].st[j[1]] = None]
  /\ UNCHANGED <<lock, conf, loaded, dbus, job>>

WriteTruncates(j) ==
  /\ At(j, "lock") /\ NoFault
  /\ lock' = Empty
  /\ Goto(j, "lockdata")
  /\ UNCHANGED <<bin, conf, loaded, dbus>>

Write(j) ==
  /\ At(j, "lockdata") /\ NoFault
  /\ lock' = pod[j].st
  /\ IF j[2] = "uninstall" THEN Goto(j, "drop")
     ELSE IF pod[j].st[j[1]] = Partial THEN Fail(j) ELSE Goto(j, "add")
  /\ UNCHANGED <<bin, conf, loaded, dbus>>

------------------------------------------------------------------------------
(* internal/containerd.                                                     *)

\* After the loop of RunInstall: restart only if a binary changed.
Finish(j) == IF pod[j].changed THEN Goto(j, "dbus") ELSE Succeed(j)

AddRuntime(j) ==
  /\ At(j, "add") /\ NoFault
  /\ IF conf[Path(j)] = None THEN Fail(j)
     ELSE IF ContainsName(conf[Path(j)], j[1]) THEN Finish(j)
     ELSE /\ pod' = [pod EXCEPT ![j].pc = "append", ![j].data = conf[Path(j)]]
          /\ UNCHANGED job
  /\ UNCHANGED hostVars

\* O_APPEND: whatever was written since the read stays.
AppendConfig(j) ==
  /\ At(j, "append") /\ NoFault
  /\ \E cfg \in generateConfig(j[1], pod[j].options, pod[j].data) :
       conf' = [conf EXCEPT ![Path(j)] = @ \cup {cfg}]
  /\ Finish(j)
  /\ UNCHANGED <<bin, lock, loaded, dbus>>

\* A removal that does not know the options.
RemoveRuntimePlain(j) ==
  /\ At(j, "drop") /\ NoFault
  /\ LET data == conf[Path(j)] IN
     IF data = None THEN Fail(j)
     ELSE IF ~ContainsName(data, j[1]) THEN Succeed(j)
     ELSE /\ \E cfg \in generateConfig(j[1], {}, data) :
               pod' = [pod EXCEPT ![j].pc = "conf",
                         ![j].data = WithoutConfig(data, cfg)]
          /\ UNCHANGED job
  /\ UNCHANGED hostVars

RemoveRuntime(j) ==
  /\ At(j, "drop") /\ NoFault
  /\ LET data == conf[Path(j)] IN
     IF data = None THEN Fail(j)
     ELSE IF ~ContainsName(data, j[1]) THEN Succeed(j)
     ELSE /\ \E cfg \in generateConfig(j[1], pod[j].options, data) :
               pod' = [pod EXCEPT ![j].pc = "conf",
                         ![j].data = WithoutConfig(data, cfg)]
          /\ UNCHANGED job
  /\ UNCHANGED hostVars

\* WriteFile: truncate, then write.
ConfigTruncates(j) ==
  /\ At(j, "conf") /\ NoFault
  /\ conf' = [conf EXCEPT ![Path(j)] = {}]
  /\ Goto(j, "confdata")
  /\ UNCHANGED <<bin, lock, loaded, dbus>>

\* A write whose error nobody looks at.
WriteConfigUnchecked(j) ==
  /\ At(j, "confdata")
  /\ \/ NoFault /\ conf' = [conf EXCEPT ![Path(j)] = pod[j].data]
     \/ Fault /\ UNCHANGED conf
  /\ Goto(j, "restart")
  /\ UNCHANGED <<bin, lock, loaded, dbus>>

WriteConfig(j) ==
  /\ At(j, "confdata") /\ NoFault
  /\ conf' = [conf EXCEPT ![Path(j)] = pod[j].data]
  /\ Goto(j, "restart")
  /\ UNCHANGED <<bin, lock, loaded, dbus>>

\* Only where systemd is, and only if D-Bus does not start.
InstallDbus(j) ==
  /\ At(j, "dbus")
  /\ IF ~scene.host.systemd \/ dbus
     THEN NoFault /\ UNCHANGED dbus /\ Goto(j, "restart")
     ELSE \/ DbusInstallable(scene.host) /\ NoFault /\ dbus' = TRUE /\ Goto(j, "restart")
          \/ DbusInstallable(scene.host) /\ Fault /\ dbus' \in BOOLEAN /\ Fail(j)
          \/ ~DbusInstallable(scene.host) /\ NoFault /\ UNCHANGED dbus /\ Fail(j)
  /\ UNCHANGED <<files, loaded>>

\* What containerd runs with once that service has been restarted.
LoadedBy(service) ==
  IF service # scene.kubelet THEN loaded
  ELSE IF conf[scene.reads] = None THEN {} ELSE conf[scene.reads]

\* The distribution's Restarter.  The Pod may also die with the containerd (on
\* K3d, with the node) it has just restarted.
RestartRuntime(j) ==
  LET service == Restart(scene.host, pod[j].settings.Restarter) IN
  /\ At(j, "restart")
  /\ \/ service # "" /\ NoFault /\ loaded' = LoadedBy(service) /\ Succeed(j)
     \/ service = "" /\ NoFault /\ UNCHANGED loaded /\ Fail(j)
     \/ service # "" /\ Fault /\ loaded' \in {loaded, LoadedBy(service)} /\ Fail(j)
  /\ UNCHANGED <<files, dbus>>

Next == \E j \in Jobs :
  \/ StartJob(j) \/ Killed(j) \/ Download(j) \/ Detect(j)
  \/ Setup(j) \/ SetupCreates(j) \/ SetupCopies(j)
  \/ Open(j) \/ Get(j) \/ Remove(j) \/ WriteTruncates(j) \/ Write(j)
  \/ \E file \in Contents \cup {Partial} : Copy(j, file)
  \/ AddRuntime(j) \/ AppendConfig(j)
  \/ RemoveRuntime(j) \/ ConfigTruncates(j) \/ WriteConfig(j)
  \/ InstallDbus(j) \/ RestartRuntime(j)

Spec == Init /\ [][Next]_vars

------------------------------------------------------------------------------
(* Properties.                                                              *)

PCs == {"download", "detect", "setup", "create", "setupcopy", "open", "get",
        "copy", "remove", "lock", "lockdata", "add", "append", "drop", "conf",
        "confdata", "dbus", "restart", "done"}

Artifacts == [content : Contents, sha256 : Contents \cup {NoDigest}]
LockFile == [Shims -> Contents \cup {Partial, None}]

Domains == {"io.containerd.cri.v1.runtime", "io.containerd.grpc.v1.cri"}
FileVersions == {2, 3}
Options == UNION UNION {sc.options : sc \in Scenes}
Lines == {VersionLine(v) : v \in FileVersions}
         \cup {OptionLine(o) : o \in Options}
         \cup {RuntimeLine(s, d) : s \in Shims, d \in Domains}
         \cup {OptionsLine(s, d) : s \in Shims, d \in Domains}
Files == SUBSET Seq(Lines)
Settings == UNION {DetectDistro(sc.host) : sc \in Scenes}

Pods == [pc : PCs, artifact : Artifacts \cup {None},
         options : (UNION {sc.options : sc \in Scenes}) \cup {{}},
         tries : 0..NumRetry, file : Contents \cup {None},
         settings : Settings \cup {None}, changed : BOOLEAN,
         st : LockFile, data : Files, pods : 0..MaxPods]

ASSUME ScenesAssumption ==
  \A sc \in Scenes :
    /\ sc.dbus \in BOOLEAN /\ sc.host.version \in {2, 3} /\ sc.host.units \in Seq(STRING)
    /\ sc.artifacts \subseteq Artifacts
    /\ \A options \in sc.options : IsFiniteSet(options)
    /\ sc.jobs \in Nat /\ sc.faults \in Nat
ASSUME MarkersAssumption ==
  /\ Contents \cap {Empty, Partial, ErrorPage, NoDigest, None} = {}
  /\ Partial # Empty /\ Partial # None /\ Empty # None
  /\ None \notin Settings /\ Empty \notin LockFile

HostTypeOK ==
  /\ scene \in Scenes /\ dbus \in BOOLEAN
  /\ bin \in [Shims -> Contents \cup {Empty, Partial, None}]
  /\ lock \in LockFile \cup {Empty}
  /\ conf \in [Paths -> Files \cup {None}] /\ loaded \in Files
  /\ started \in 0..scene.jobs /\ faults \in 0..scene.faults

JobTypeOK ==
  /\ job \in [Jobs -> {"none", "running", "complete", "failed"}]
  /\ pod \in [Jobs -> Pods]
  /\ \A j \in Jobs :
       /\ job[j] = "running" <=> pod[j].pc # "done"
       /\ pod[j].pc \notin {"download", "detect", "done"} => pod[j].settings # None

\* Every variable has its type; a Pod is at a call exactly while its Job runs,
\* and knows the distribution once it has left the first two.
TypeOK == HostTypeOK /\ JobTypeOK

\* What an uninstaller between truncating and writing is about to write counts
\* as written: to others the two calls are one, unless it is killed there.
Writing == {j \in Jobs : At(j, "confdata") /\ Path(j) = scene.reads}
Current == IF conf[scene.reads] = None THEN {}
           ELSE conf[scene.reads] \cup UNION {pod[j].data : j \in Writing}

\* containerd can be pointed at the shim: whole binary, runtime in the file.
Usable(s) == bin[s] \in Contents /\ Configured(Current, s)

Contract == INSTANCE HostContract WITH
  usable <- [s \in Shims |-> Usable(s)],
  pods <- [j \in Jobs |-> pod[j].pods], writing <- Writing

\* The installer keeps the contract that the manager's labels rest on: when Jobs
\* overlap, are killed anywhere and are retried, an install Job completes only
\* with a usable shim, and nobody else's Job ever takes that away, neither by
\* its work nor by failing.  The one step that may is that in which the Pod of
\* an uninstaller ends between truncating the file and writing it.
InstallerContract == Contract!Spec

\* However often installs and uninstalls of a shim were killed before, an
\* uninstall Job that completes leaves neither binary nor lock file entry nor
\* any rest of the text it was to remove from the file.
UninstallLeavesNothing ==
  [][\A s \in Shims :
       LET u == <<s, "uninstall">> IN
       job[u] = "running" /\ job'[u] = "complete" =>
         /\ bin'[s] = None /\ lock' # Empty /\ lock'[s] = None
         /\ \A cfg \in generateConfig(s, pod[u].options, conf'[Path(u)]) :
              \A i \in DOMAIN cfg :
                SubSeq(cfg, i, Len(cfg)) \notin conf'[Path(u)]]_vars

\* The Restarter fits the file that was written: a Job that completes with the
\* restart leaves the containerd that the kubelet uses with what it did to the
\* file, also on hosts that have the default file next to the distribution's.
KubeletRuntimeReloaded ==
  [][\A j \in Jobs :
       At(j, "restart") /\ job'[j] = "complete" =>
         /\ Configured(loaded', j[1]) = Configured(conf'[Path(j)], j[1])
         /\ j[2] = "install" => Configured(loaded', j[1])]_vars

\* Whatever servers answer and however often a Pod is retried, an install Job
\* with a digest completes only with the binary of that archive on the host.
DigestEnforced ==
  [][\A s \in Shims :
       LET i == <<s, "install">> IN
       job[i] = "running" /\ job'[i] = "complete"
         /\ pod[i].artifact.sha256 # NoDigest =>
         bin'[s] = pod[i].artifact.sha256]_vars

------------------------------------------------------------------------------
(* What these properties rest on: how a node is set up, and which Jobs it is *)
(* given.                                                                    *)

\* containerd reads the file that is found, or that file never comes to be.
FitNode(sc) ==
  \A st \in DetectDistro(sc.host) :
    \/ st.ConfigPath = sc.reads
    \/ /\ st.ConfigPath \notin sc.host.files
       /\ \/ st.Setup = "none"
          \/ /\ st.Setup = "copy"
             /\ CutTmpl[st.ConfigPath] \notin sc.host.files \cup {sc.reads}

\* Only installers overlap, and none of them has to create the file.
FitOverlap(sc) ==
  /\ sc.overlap \subseteq {"install"}
  /\ sc.overlap # {} => \A st \in DetectDistro(sc.host) :
       st.Setup = "none" \/ st.ConfigPath \in sc.host.files

\* Options are not dropped altogether when a Shim is edited, no shim is called
\* like a part of another, and no shim's name occurs in an option or in the
\* distribution's own lines.
FitOptions(sc) == {} \in sc.options => sc.options = {{}}
FitNames == /\ Mentions = {<<s, s>> : s \in Shims}
            /\ FileVersions \cap Shims = {} /\ Options \cap Shims = {}

Fit == FitNames /\ \A sc \in Scenes : FitNode(sc) /\ FitOverlap(sc) /\ FitOptions(sc)

\* The options of a Shim have one order.
OneOption == \A sc \in Scenes : \A options \in sc.options : \A a, b \in options : a = b

\* What runs a distribution's containerd.
Family(path) ==
  CASE path = MicroK8sPath -> {"snap.microk8s.daemon-containerd"}
    [] path = RKE2Tmpl     -> {"rke2-agent", "rke2-server"}
    [] path = K3sTmpl      -> {"k3s", "PID 1"}
    [] path = K0sDropIn    -> {"k0sworker", "k0scontroller"}
    [] OTHER               -> {"containerd", "containerd process"}

\* The node runs one distribution, by a unit if it has systemd, and its file is
\* not given by a path that the installer does not know.
FitService ==
  \A sc \in Scenes :
    /\ \A service \in Family(sc.reads) :
         (IF sc.host.systemd THEN \E i \in DOMAIN sc.host.units : sc.host.units[i] = service
          ELSE service \in {"PID 1", "containerd process"})
         => service = sc.kubelet
    /\ bindFlags(sc.host) \notin {RKE2Tmpl, K3sTmpl, K0sDropIn}

------------------------------------------------------------------------------
(* What messages and comments say, and the code does not do.                *)

\* install.go:115, "nothing changed, nothing more to do": a completed install
\* has nothing more to do, containerd runs with the shim.
CompletedInstallIsLoaded ==
  (\A s \in Shims : job[<<s, "uninstall">>] = "none") =>
    \A s \in Shims : job[<<s, "install">>] = "complete" => Configured(loaded, s)

\* uninstall.go:18, "shim %s not installed": an uninstaller that finds no entry
\* in the lock file finds no usable shim on the host either.
NoEntryMeansNotInstalled ==
  \A s \in Shims :
    At(<<s, "uninstall">>, "get") /\ lock # Empty /\ lock[s] = None => ~Usable(s)
=============================================================================
