------------------------- MODULE InstallerTypeProofs ------------------------
(***************************************************************************)
(* Theorems about NodeInstaller for every set of shims, archives, hosts    *)
(* and Jobs, and every number of faults: type correctness, and that a      *)
(* digest is enforced.  None stands for a file that is not there, so it is *)
(* no file's content: None \notin Files.                                   *)
(***************************************************************************)
EXTENDS NodeInstaller, FiniteSetTheorems, TLAPS

InstallPCs == {"download", "detect", "setup", "create", "setupcopy", "open",
               "get", "copy", "lock", "lockdata", "add", "append", "dbus",
               "restart", "done"}
UninstallPCs == {"detect", "get", "remove", "lock", "lockdata", "drop", "conf",
                 "confdata", "restart", "done"}

\* A Pod is at a call of its own command, and the files it is about to copy or
\* to write again are there.
Located(j) ==
  /\ pod[j].pc \in (IF j[2] = "install" THEN InstallPCs ELSE UninstallPCs)
  /\ pod[j].pc \in {"create", "setupcopy"} /\ pod[j].settings.Setup = "copy" =>
       conf[CutTmpl[Path(j)]] # None
  /\ pod[j].pc = "setupcopy" => pod[j].settings.Setup = "copy"
  /\ pod[j].pc \in {"append", "conf", "confdata"} => conf[Path(j)] # None

TypeInv == TypeOK /\ \A j \in Jobs : Located(j)

------------------------------------------------------------------------------
(* Settings and texts.                                                      *)

\* CutSuffix finds the suffix in every path that a Setup copies to.
LEMMA SettingsFacts ==
  ASSUME NEW st \in Settings
  PROVE  /\ st.ConfigPath \in Paths
         /\ st.Setup = "copy" => CutTmpl[st.ConfigPath] \in Paths
         /\ st.Setup = "copy" => CutTmpl[st.ConfigPath] # st.ConfigPath
<1>1. DOMAIN CutTmpl = {RKE2Tmpl, K3sTmpl} /\ CutTmpl[RKE2Tmpl] = RKE2Path
      /\ CutTmpl[K3sTmpl] = K3sPath /\ RKE2Path # RKE2Tmpl /\ K3sPath # K3sTmpl
  BY DEF CutTmpl, RKE2Tmpl, K3sTmpl, RKE2Path, K3sPath
<1>2. /\ Default.Setup = "none" /\ MicroK8s.Setup = "none" /\ K0s.Setup = "create"
      /\ RKE2.ConfigPath = RKE2Tmpl /\ K3s.ConfigPath = K3sTmpl
      /\ \A p : WithConfigPath(Default, p).Setup = "none"
  BY DEF Default, MicroK8s, RKE2, K3s, K0s, WithRestarter, WithConfigPath, WithSetup
<1>3. \A l \in DOMAIN containerdConfigLocations :
        containerdConfigLocations[l] \in {MicroK8s, RKE2, K3s, K0s}
  BY DEF containerdConfigLocations
<1>4. \A h : \A d \in DetectDistro(h) :
        d \in {Default, MicroK8s, RKE2, K3s, K0s} \/ \E p : d = WithConfigPath(Default, p)
  BY <1>3 DEF DetectDistro
<1>5. PICK sc \in Scenes : st \in DetectDistro(sc.host)
  BY DEF Settings
<1>6. st.Setup = "copy" => st.ConfigPath \in {RKE2Tmpl, K3sTmpl}
  BY <1>2, <1>4, <1>5
<1>7. st.ConfigPath \in {d.ConfigPath : d \in UNION {DetectDistro(c.host) : c \in Scenes}}
  BY DEF Settings
<1>8. st.ConfigPath \in Paths /\ \A p \in DOMAIN CutTmpl : CutTmpl[p] \in Paths
  BY <1>7 DEF Paths
<1> QED
  BY <1>1, <1>6, <1>8

\* The texts that are added are made of the lines of a file.
LEMMA GeneratedTexts ==
  ASSUME NEW s \in Shims, NEW options \in (UNION {sc.options : sc \in Scenes}) \cup {{}},
         NEW data, NEW cfg \in generateConfig(s, options, data)
  PROVE  cfg \in Seq(Lines)
<1> DEFINE head == RuntimeLine(s, Domain(data))
           table == OptionsLine(s, Domain(data))
<1>1. head \in Lines /\ table \in Lines
  BY DEF Lines, Domains, Domain
<1>2. CASE options = {}
  <2>1. cfg = <<head>>
    BY <1>2 DEF generateConfig
  <2> QED
    BY <1>1, <2>1
<1>3. CASE options # {}
  <2>1. PICK order \in Seqs!SetToSeqs(options) :
          cfg = <<head, table>> \o [i \in DOMAIN order |-> OptionLine(order[i])]
    BY <1>3 DEF generateConfig
  <2>2. IsFiniteSet(options) /\ \A o \in options : OptionLine(o) \in Lines
    BY <1>3, ScenesAssumption DEF Lines, Options
  <2>3. Cardinality(options) \in Nat
    BY <2>2, FS_CardinalityType
  <2>4. order \in [1..Cardinality(options) -> options]
    BY <2>1 DEF Seqs!SetToSeqs, Seqs!Cardinality, Cardinality
  <2>5. [i \in DOMAIN order |-> OptionLine(order[i])] \in Seq(Lines)
    BY <2>2, <2>3, <2>4
  <2>6. <<head, table>> \in Seq(Lines)
    BY <1>1
  <2> HIDE DEF head, table
  <2> QED
    BY <2>1, <2>5, <2>6
<1> QED
  BY <1>2, <1>3

\* So is what is left when one is removed.
LEMMA RemainingTexts ==
  ASSUME NEW data \in Files, NEW cfg \in Seq(Lines)
  PROVE  WithoutConfig(data, cfg) \in Files
<1>1. ASSUME NEW text \in data PROVE SubSeq(text, Len(cfg) + 1, Len(text)) \in Seq(Lines)
  BY DEF Files
<1> QED
  BY <1>1 DEF WithoutConfig, Files

------------------------------------------------------------------------------
(* Pods.                                                                    *)

\* Nothing else happens to other Jobs.
Others(j) == \A k \in Jobs \ {j} : pod'[k] = pod[k] /\ job'[k] = job[k]

\* Without a Pod the locals have their types.
LEMMA NoPodType == NoPod \in Pods
<1>1. 0 \in 0..NumRetry /\ 0 \in 0..MaxPods
  BY BoundsAssumption
<1>2. NoLock \in LockFile /\ {} \in Files
  BY DEF NoLock, LockFile, Files
<1>3. "done" \in PCs
  BY DEF PCs
<1> QED
  BY <1>1, <1>2, <1>3 DEF NoPod, Pods

\* A Pod goes on to its next call,
LEMMA GotoFacts ==
  ASSUME JobTypeOK, NEW j \in Jobs, NEW pc \in PCs \ {"done"}, job[j] = "running",
         pod[j].settings # None, Goto(j, pc)
  PROVE  /\ JobTypeOK' /\ Others(j)
         /\ UNCHANGED job /\ pod'[j] = [pod[j] EXCEPT !.pc = pc]
<1>1. /\ pod' = [pod EXCEPT ![j].pc = pc] /\ job' = job
      /\ pod \in [Jobs -> Pods] /\ pod[j] \in Pods
  BY DEF Goto, JobTypeOK
<1>2. pod'[j] = [pod[j] EXCEPT !.pc = pc] /\ \A k \in Jobs \ {j} : pod'[k] = pod[k]
  BY <1>1
<1>3. [pod[j] EXCEPT !.pc = pc] \in Pods
  BY <1>1 DEF Pods
<1>4. pod' \in [Jobs -> Pods]
  BY <1>1, <1>3
<1>5. pod'[j].pc = pc /\ pod'[j].settings = pod[j].settings
  BY <1>1, <1>2 DEF Pods
<1> QED
  BY <1>1, <1>2, <1>4, <1>5 DEF JobTypeOK, Others

\* exits with 0,
LEMMA SucceedFacts ==
  ASSUME JobTypeOK, NEW j \in Jobs, Succeed(j)
  PROVE  /\ JobTypeOK' /\ Others(j)
         /\ job'[j] = "complete" /\ pod'[j] = NoPod /\ NoPod \in Pods
<1>1. NoPod \in Pods /\ NoPod.pc = "done"
  BY NoPodType DEF NoPod
<1>2. job'[j] = "complete" /\ pod'[j] = NoPod /\ Others(j)
  BY DEF Succeed, JobTypeOK, Others
<1>3. /\ pod' \in [Jobs -> Pods]
      /\ job' \in [Jobs -> {"none", "running", "complete", "failed"}]
  BY <1>1 DEF Succeed, JobTypeOK
<1> QED
  BY <1>1, <1>2, <1>3 DEF JobTypeOK, Others

\* or fails, and then its Job makes another one or fails with it.
LEMMA FailFacts ==
  ASSUME JobTypeOK, NEW j \in Jobs, job[j] = "running", Fail(j)
  PROVE  /\ JobTypeOK' /\ Others(j)
         /\ \/ /\ UNCHANGED job /\ pod'[j].pc = FirstCall(j[2])
               /\ pod'[j].artifact = pod[j].artifact /\ pod'[j].settings = None
               /\ pod'[j].options = pod[j].options /\ pod'[j].pods = pod[j].pods + 1
            \/ job'[j] = "failed" /\ pod'[j] = NoPod
<1> DEFINE p == [NoPod EXCEPT !.pc = FirstCall(j[2]), !.artifact = pod[j].artifact,
                   !.options = pod[j].options, !.pods = pod[j].pods + 1]
<1>0. pod \in [Jobs -> Pods] /\ pod[j] \in Pods
  BY DEF JobTypeOK
<1>1. NoPod \in Pods /\ NoPod.pc = "done" /\ NoPod.settings = None
  BY NoPodType DEF NoPod
<1>2. CASE pod[j].pods < MaxPods
  <2>1. pod' = [pod EXCEPT ![j] = p] /\ job' = job
    BY <1>2 DEF Fail
  <2>2. /\ pod[j].pods + 1 \in 0..MaxPods /\ FirstCall(j[2]) \in {"download", "detect"}
        /\ pod[j].artifact \in Artifacts \cup {None}
        /\ pod[j].options \in (UNION {sc.options : sc \in Scenes}) \cup {{}}
    BY <1>0, <1>2, BoundsAssumption DEF Pods, FirstCall
  <2>3. p \in Pods
    <3>1. FirstCall(j[2]) \in PCs
      BY <2>2 DEF PCs
    <3> QED
      BY <1>1, <2>2, <3>1 DEF Pods
  <2>4. /\ p.pc = FirstCall(j[2]) /\ p.artifact = pod[j].artifact
        /\ p.settings = None /\ p.options = pod[j].options /\ p.pods = pod[j].pods + 1
    BY <1>1, <2>2 DEF Pods
  <2> HIDE DEF p
  <2>5. pod' \in [Jobs -> Pods] /\ pod'[j] = p /\ Others(j)
    BY <1>0, <2>1, <2>3 DEF Others
  <2> QED
    BY <2>1, <2>2, <2>4, <2>5 DEF JobTypeOK, Others
<1>3. CASE ~(pod[j].pods < MaxPods)
  <2>1. job'[j] = "failed" /\ pod'[j] = NoPod /\ Others(j)
    BY <1>3 DEF Fail, JobTypeOK, Others
  <2>2. /\ pod' \in [Jobs -> Pods]
        /\ job' \in [Jobs -> {"none", "running", "complete", "failed"}]
    BY <1>1, <1>3 DEF Fail, JobTypeOK
  <2> QED
    BY <1>1, <2>1, <2>2 DEF JobTypeOK, Others
<1> QED
  BY <1>2, <1>3

\* A call that reads something into the locals.
LEMMA ReadFacts ==
  ASSUME JobTypeOK, NEW j \in Jobs, job[j] = "running", NEW p \in Pods,
         p.pc # "done", p.pc \in {"download", "detect"} \/ p.settings # None,
         pod' = [pod EXCEPT ![j] = p], UNCHANGED job
  PROVE  JobTypeOK' /\ Others(j) /\ pod'[j] = p
<1>1. pod \in [Jobs -> Pods]
  BY DEF JobTypeOK
<1>2. pod' \in [Jobs -> Pods] /\ pod'[j] = p /\ \A k \in Jobs \ {j} : pod'[k] = pod[k]
  BY <1>1
<1> QED
  BY <1>2 DEF JobTypeOK, Others

\* A Job starts.
LEMMA StartFacts ==
  ASSUME TypeOK, NEW j \in Jobs, StartJob(j)
  PROVE  /\ JobTypeOK' /\ Others(j)
         /\ job'[j] = "running" /\ pod'[j].pc = FirstCall(j[2])
         /\ job[j] # "running" /\ pod'[j].options \in scene.options
         /\ pod'[j].pods = 1
<1>0. pod \in [Jobs -> Pods] /\ NoPod \in Pods /\ scene \in Scenes
  BY NoPodType DEF TypeOK, JobTypeOK, HostTypeOK
<1>1. PICK artifact \in (IF j[2] = "install" THEN scene.artifacts ELSE {None}),
           options \in scene.options :
        pod' = [pod EXCEPT ![j] = [NoPod EXCEPT !.pc = FirstCall(j[2]),
                  !.artifact = artifact, !.options = options, !.pods = 1]]
  BY DEF StartJob
<1> DEFINE p == [NoPod EXCEPT !.pc = FirstCall(j[2]),
                   !.artifact = artifact, !.options = options, !.pods = 1]
<1>2. /\ artifact \in Artifacts \cup {None}
      /\ options \in (UNION {sc.options : sc \in Scenes}) \cup {{}}
      /\ 1 \in 0..MaxPods
  BY <1>0, ScenesAssumption, BoundsAssumption
<1>3. FirstCall(j[2]) \in {"download", "detect"} /\ FirstCall(j[2]) \in PCs
  BY DEF FirstCall, PCs
<1>4. p \in Pods /\ p.pc = FirstCall(j[2]) /\ p.options = options /\ p.pods = 1
  BY <1>0, <1>2, <1>3 DEF Pods
<1> HIDE DEF p
<1>5. pod' \in [Jobs -> Pods] /\ pod'[j] = p /\ \A k \in Jobs \ {j} : pod'[k] = pod[k]
  BY <1>0, <1>1, <1>4 DEF p
<1>6. /\ job' \in [Jobs -> {"none", "running", "complete", "failed"}]
      /\ job'[j] = "running" /\ \A k \in Jobs \ {j} : job'[k] = job[k]
      /\ job[j] # "running"
  BY DEF StartJob, TypeOK, JobTypeOK
<1> QED
  BY <1>3, <1>4, <1>5, <1>6 DEF TypeOK, JobTypeOK, Others

------------------------------------------------------------------------------
(* Type correctness.                                                        *)

\* Files that are there stay.
FilesStay == \A p \in Paths : conf[p] # None => conf'[p] # None

\* What a Pod past the detection knows.
LEMMA PodFacts ==
  ASSUME TypeOK, NEW j \in Jobs, pod[j].pc \notin {"download", "detect", "done"}
  PROVE  /\ pod[j] \in Pods /\ pod[j].settings \in Settings /\ Path(j) \in Paths
         /\ pod[j].settings.Setup = "copy" => /\ CutTmpl[Path(j)] \in Paths
                                              /\ CutTmpl[Path(j)] # Path(j)
         /\ job[j] = "running"
<1>1. pod[j] \in Pods /\ pod[j].settings # None /\ job[j] = "running"
  BY DEF TypeOK, JobTypeOK
<1>2. pod[j].settings \in Settings
  BY <1>1 DEF Pods
<1> QED
  BY <1>1, <1>2, SettingsFacts DEF Path

\* Jobs that a step leaves alone stay where they are.
LEMMA LocatedOther ==
  ASSUME TypeInv, NEW k \in Jobs, pod'[k] = pod[k], FilesStay
  PROVE  Located(k)'
<1>1. Located(k) /\ Path(k)' = Path(k)
  BY DEF TypeInv, Path
<1>2. CASE pod[k].pc \in {"create", "setupcopy", "append", "conf", "confdata"}
  <2>1. Path(k) \in Paths /\ (pod[k].settings.Setup = "copy" => CutTmpl[Path(k)] \in Paths)
    BY <1>2, PodFacts DEF TypeInv
  <2> QED
    BY <1>1, <2>1 DEF Located, FilesStay
<1>3. CASE pod[k].pc \notin {"create", "setupcopy", "append", "conf", "confdata"}
  BY <1>1, <1>3 DEF Located
<1> QED
  BY <1>2, <1>3

\* What a step writes to the host.
LEMMA HostStep ==
  ASSUME TypeInv, None \notin Files, [Next]_vars
  PROVE  HostTypeOK' /\ FilesStay
<1> USE DEF TypeInv, TypeOK
<1>0. /\ conf \in [Paths -> Files \cup {None}] /\ bin \in [Shims -> Contents \cup {Empty, Partial, None}]
      /\ lock \in LockFile \cup {Empty} /\ dbus \in BOOLEAN /\ loaded \in Files
      /\ scene \in Scenes /\ started \in 0..scene.jobs /\ faults \in 0..scene.faults
      /\ scene.jobs \in Nat /\ scene.faults \in Nat
  BY ScenesAssumption DEF HostTypeOK
<1>1. scene' = scene /\ started' \in 0..scene.jobs /\ faults' \in 0..scene.faults
  <2>1. CASE NoFault \/ UNCHANGED vars
    BY <1>0, <2>1 DEF NoFault, bounds, vars
  <2>2. CASE Fault
    BY <1>0, <2>2 DEF Fault
  <2>3. ASSUME NEW j \in Jobs, StartJob(j)
        PROVE  scene' = scene /\ started' \in 0..scene.jobs /\ faults' \in 0..scene.faults
    BY <1>0, <2>3 DEF StartJob
  <2> QED
    BY <2>1, <2>2, <2>3 DEF Next, Killed, Download, Detect, Setup, SetupCreates,
       SetupCopies, Open, Get, Remove, WriteTruncates, Write, Copy, AddRuntime,
       AppendConfig, RemoveRuntime, ConfigTruncates, WriteConfig, InstallDbus,
       RestartRuntime
<1>2. ASSUME UNCHANGED conf PROVE FilesStay
  BY <1>2 DEF FilesStay
<1>3. CASE UNCHANGED hostVars
  BY <1>0, <1>1, <1>2, <1>3 DEF hostVars, files, HostTypeOK
<1>4. ASSUME NEW p \in Paths, NEW f \in Files, conf' = [conf EXCEPT ![p] = f],
             UNCHANGED <<bin, lock, loaded, dbus>>
      PROVE  HostTypeOK' /\ FilesStay
  <2>1. conf' \in [Paths -> Files \cup {None}] /\ FilesStay
    BY <1>0, <1>4 DEF FilesStay
  <2> QED
    BY <1>0, <1>1, <1>4, <2>1 DEF HostTypeOK
<1>5. ASSUME NEW j \in Jobs, Open(j) \/ Remove(j) \/ \E file \in Contents \cup {Partial} : Copy(j, file)
      PROVE  HostTypeOK' /\ FilesStay
  <2>1. j[1] \in Shims
    BY DEF Jobs
  <2>2. UNCHANGED <<lock, conf, loaded, dbus>>
    BY <1>5 DEF Open, Remove, Copy
  <2>3. \E f \in Contents \cup {Empty, Partial, None} : bin' = [bin EXCEPT ![j[1]] = f]
    BY <1>5 DEF Open, Remove, Copy
  <2>4. bin' \in [Shims -> Contents \cup {Empty, Partial, None}]
    BY <1>0, <2>1, <2>3
  <2> QED
    BY <1>0, <1>1, <1>2, <2>2, <2>4 DEF HostTypeOK
<1>6. ASSUME NEW j \in Jobs, WriteTruncates(j) \/ Write(j)
      PROVE  HostTypeOK' /\ FilesStay
  <2>1. UNCHANGED <<bin, conf, loaded, dbus>> /\ lock' \in {Empty, pod[j].st}
    BY <1>6 DEF WriteTruncates, Write
  <2>2. pod[j].st \in LockFile
    BY DEF JobTypeOK, Pods
  <2> QED
    BY <1>0, <1>1, <1>2, <2>1, <2>2 DEF HostTypeOK
<1>7. ASSUME NEW j \in Jobs, SetupCreates(j) \/ SetupCopies(j) \/ AppendConfig(j)
                             \/ ConfigTruncates(j) \/ WriteConfig(j)
      PROVE  HostTypeOK' /\ FilesStay
  <2>1. pod[j].pc \in {"create", "setupcopy", "append", "conf", "confdata"} /\ Located(j)
    BY <1>7 DEF SetupCreates, SetupCopies, AppendConfig, ConfigTruncates, WriteConfig, At
  <2>2. Path(j) \in Paths /\ pod[j] \in Pods
        /\ (pod[j].settings.Setup = "copy" => CutTmpl[Path(j)] \in Paths)
    BY <2>1, PodFacts
  <2>3. UNCHANGED <<bin, lock, loaded, dbus>>
    BY <1>7 DEF SetupCreates, SetupCopies, AppendConfig, ConfigTruncates, WriteConfig
  <2>4. {} \in Files /\ pod[j].data \in Files
    BY <2>2 DEF Files, Pods
  <2>5. CASE SetupCreates(j) \/ ConfigTruncates(j) \/ WriteConfig(j)
    BY <1>4, <2>2, <2>3, <2>4, <2>5 DEF SetupCreates, ConfigTruncates, WriteConfig
  <2>6. CASE SetupCopies(j)
    <3>1. conf[CutTmpl[Path(j)]] \in Files
      BY <1>0, <2>1, <2>2, <2>6 DEF SetupCopies, At, Located
    <3> QED
      BY <1>4, <2>2, <2>3, <2>6, <3>1 DEF SetupCopies
  <2>7. CASE AppendConfig(j)
    <3>1. PICK cfg \in generateConfig(j[1], pod[j].options, pod[j].data) :
            conf' = [conf EXCEPT ![Path(j)] = @ \cup {cfg}]
      BY <2>7 DEF AppendConfig
    <3>2. j[1] \in Shims /\ pod[j].options \in (UNION {sc.options : sc \in Scenes}) \cup {{}}
      BY <2>2 DEF Jobs, Pods
    <3>3. cfg \in Seq(Lines)
      BY <3>1, <3>2, GeneratedTexts
    <3>4. conf[Path(j)] \in Files
      BY <1>0, <2>1, <2>2, <2>7 DEF AppendConfig, At, Located
    <3>5. conf[Path(j)] \cup {cfg} \in Files
      BY <3>3, <3>4 DEF Files
    <3> QED
      BY <1>4, <2>2, <2>3, <3>1, <3>5
  <2> QED
    BY <1>7, <2>5, <2>6, <2>7
<1>8. ASSUME NEW j \in Jobs, InstallDbus(j) \/ RestartRuntime(j)
      PROVE  HostTypeOK' /\ FilesStay
  <2>1. UNCHANGED files /\ dbus' \in BOOLEAN /\ loaded' \in {loaded} \cup {LoadedBy(Restart(scene.host, pod[j].settings.Restarter))}
    BY <1>0, <1>8 DEF InstallDbus, RestartRuntime
  <2>2. scene.reads \in Paths
    BY <1>0 DEF Paths
  <2>3. \A service : LoadedBy(service) \in Files
    BY <1>0, <2>2 DEF LoadedBy, Files
  <2> QED
    BY <1>0, <1>1, <1>2, <2>1, <2>3 DEF HostTypeOK, files
<1> QED
  BY <1>3, <1>5, <1>6, <1>7, <1>8 DEF Next, StartJob, Killed, Download, Detect,
     Setup, Get, AddRuntime, RemoveRuntime, vars

\* A Job that starts, fails or completes is located.
LEMMA LocatedEnds ==
  ASSUME NEW j \in Jobs, pod'[j].pc \in {FirstCall(j[2]), "done"}
  PROVE  Located(j)'
<1>1. j[2] \in {"install", "uninstall"}
  BY DEF Jobs
<1> QED
  BY <1>1 DEF Located, FirstCall, InstallPCs, UninstallPCs

\* A step of the Job j.
StepOf(j) ==
  \/ StartJob(j) \/ Killed(j) \/ Download(j) \/ Detect(j)
  \/ Setup(j) \/ SetupCreates(j) \/ SetupCopies(j)
  \/ Open(j) \/ Get(j) \/ Remove(j) \/ WriteTruncates(j) \/ Write(j)
  \/ \E file \in Contents \cup {Partial} : Copy(j, file)
  \/ AddRuntime(j) \/ AppendConfig(j)
  \/ RemoveRuntime(j) \/ ConfigTruncates(j) \/ WriteConfig(j)
  \/ InstallDbus(j) \/ RestartRuntime(j)

\* Only the Job that makes a step changes, and it goes where its code goes.
LEMMA JobStep ==
  ASSUME TypeInv, FilesStay, NEW j \in Jobs, StepOf(j)
  PROVE  JobTypeOK' /\ Others(j) /\ Located(j)'
<1>0. /\ JobTypeOK /\ HostTypeOK /\ Located(j) /\ pod \in [Jobs -> Pods] /\ pod[j] \in Pods
      /\ j[1] \in Shims /\ j[2] \in {"install", "uninstall"}
      /\ conf \in [Paths -> Files \cup {None}] /\ scene \in Scenes
  BY DEF TypeInv, TypeOK, JobTypeOK, HostTypeOK, Jobs
<1>1. CASE StartJob(j)
  BY <1>1, StartFacts, LocatedEnds DEF TypeInv
<1>2. ASSUME job[j] = "running", Fail(j) PROVE JobTypeOK' /\ Others(j) /\ Located(j)'
  <2>1. NoPod.pc = "done"
    BY DEF NoPod
  <2> QED
    BY <1>0, <1>2, <2>1, FailFacts, LocatedEnds
<1>3. ASSUME Succeed(j) PROVE JobTypeOK' /\ Others(j) /\ Located(j)'
  <2>1. NoPod.pc = "done"
    BY DEF NoPod
  <2> QED
    BY <1>0, <1>3, <2>1, SucceedFacts, LocatedEnds
<1>4. ASSUME NEW p \in Pods, job[j] = "running", p.pc # "done",
             p.pc \in {"download", "detect"} \/ p.settings # None,
             pod' = [pod EXCEPT ![j] = p], UNCHANGED job,
             p.pc \in (IF j[2] = "install" THEN InstallPCs ELSE UninstallPCs),
             p.pc \notin {"create", "setupcopy", "append", "conf", "confdata"}
      PROVE  JobTypeOK' /\ Others(j) /\ Located(j)'
  <2>1. JobTypeOK' /\ Others(j) /\ pod'[j] = p
    BY <1>0, <1>4, ReadFacts
  <2> QED
    BY <1>4, <2>1 DEF Located
<1>5. ASSUME NEW pc \in PCs \ {"done"}, Goto(j, pc),
             pod[j].pc \notin {"download", "detect", "done"},
             pc \in (IF j[2] = "install" THEN InstallPCs ELSE UninstallPCs),
             pc \notin {"create", "setupcopy", "append", "conf", "confdata"}
      PROVE  JobTypeOK' /\ Others(j) /\ Located(j)'
  <2>1. pod[j].settings # None /\ job[j] = "running"
    BY <1>0, <1>5 DEF JobTypeOK
  <2>2. JobTypeOK' /\ Others(j) /\ pod'[j] = [pod[j] EXCEPT !.pc = pc]
    BY <1>0, <1>5, <2>1, GotoFacts
  <2>3. pod'[j].pc = pc
    BY <1>0, <2>2 DEF Pods
  <2> QED
    BY <1>5, <2>2, <2>3 DEF Located
<1>6. ASSUME Finish(j), pod[j].pc \in {"add", "append"}
      PROVE  JobTypeOK' /\ Others(j) /\ Located(j)'
  <2>1. j[2] = "install"
    BY <1>0, <1>6 DEF Located, UninstallPCs
  <2> QED
    BY <1>3, <1>5, <1>6, <2>1 DEF Finish, PCs, InstallPCs
<1>7. CASE Killed(j)
  BY <1>2, <1>7 DEF Killed
<1>8. CASE Download(j)
  <2>1. job[j] = "running" /\ pod[j].pc = "download" /\ j[2] = "install"
    BY <1>0, <1>8 DEF Download, At, Located, UninstallPCs
  <2>2. ASSUME NEW file \in Contents, UNCHANGED job,
               pod' = [pod EXCEPT ![j].pc = "detect", ![j].file = file]
        PROVE  JobTypeOK' /\ Others(j) /\ Located(j)'
    <3> DEFINE p == [pod[j] EXCEPT !.pc = "detect", !.file = file]
    <3>1. p \in Pods /\ p.pc = "detect"
      BY <1>0 DEF Pods, PCs
    <3>2. pod' = [pod EXCEPT ![j] = p]
      BY <1>0, <2>2
    <3> HIDE DEF p
    <3> QED
      BY <1>4, <2>1, <2>2, <3>1, <3>2 DEF InstallPCs
  <2>3. ASSUME pod[j].tries # NumRetry, pod' = [pod EXCEPT ![j].tries = @ + 1], UNCHANGED job
        PROVE  JobTypeOK' /\ Others(j) /\ Located(j)'
    <3> DEFINE p == [pod[j] EXCEPT !.tries = @ + 1]
    <3>0. pod[j].tries + 1 \in 0..NumRetry
      BY <1>0, <2>3, BoundsAssumption DEF Pods
    <3>1. p \in Pods /\ p.pc = "download"
      BY <1>0, <2>1, <3>0 DEF Pods, PCs
    <3>2. pod' = [pod EXCEPT ![j] = p]
      BY <1>0, <2>3
    <3> HIDE DEF p
    <3> QED
      BY <1>4, <2>1, <2>3, <3>1, <3>2 DEF InstallPCs
  <2> QED
    BY <1>2, <1>8, <2>1, <2>2, <2>3 DEF Download
<1>9. CASE Detect(j)
  <2>1. job[j] = "running"
    BY <1>9 DEF Detect, At
  <2>2. ASSUME NEW settings \in DetectDistro(scene.host), UNCHANGED job,
               pod' = [pod EXCEPT ![j].settings = settings,
                         ![j].pc = IF j[2] = "uninstall" THEN "get"
                                   ELSE IF settings.Setup = "none" THEN "open"
                                   ELSE "setup"]
        PROVE  JobTypeOK' /\ Others(j) /\ Located(j)'
    <3> DEFINE pc == IF j[2] = "uninstall" THEN "get"
                     ELSE IF settings.Setup = "none" THEN "open" ELSE "setup"
               p == [pod[j] EXCEPT !.settings = settings, !.pc = pc]
    <3>1. settings \in Settings /\ settings # None
      BY <1>0, MarkersAssumption DEF Settings
    <3>2. pc \in PCs /\ pc \in {"get", "open", "setup"}
          /\ pc \in (IF j[2] = "install" THEN InstallPCs ELSE UninstallPCs)
      BY <1>0 DEF PCs, InstallPCs, UninstallPCs
    <3> HIDE DEF pc
    <3>3. p \in Pods /\ p.pc = pc /\ p.settings = settings
      BY <1>0, <3>1, <3>2 DEF Pods
    <3>4. pod' = [pod EXCEPT ![j] = p]
      BY <1>0, <2>2 DEF pc
    <3> HIDE DEF p
    <3> QED
      BY <1>4, <2>1, <2>2, <3>1, <3>2, <3>3, <3>4
  <2> QED
    BY <1>2, <1>9, <2>1, <2>2 DEF Detect
<1>10. CASE Setup(j)
  <2>1. job[j] = "running" /\ pod[j].pc = "setup" /\ j[2] = "install"
    BY <1>0, <1>10 DEF Setup, At, Located, UninstallPCs
  <2>2. CASE Goto(j, "open")
    BY <1>5, <2>1, <2>2 DEF PCs, InstallPCs
  <2>3. CASE /\ Goto(j, "create") /\ UNCHANGED conf
             /\ pod[j].settings.Setup = "copy" => conf[CutTmpl[Path(j)]] # None
    <3>1. pod[j].settings # None
      BY <1>0, <2>1 DEF JobTypeOK
    <3>2. JobTypeOK' /\ Others(j) /\ pod'[j] = [pod[j] EXCEPT !.pc = "create"]
      BY <1>0, <2>1, <2>3, <3>1, GotoFacts DEF PCs
    <3>3. pod'[j].pc = "create" /\ pod'[j].settings = pod[j].settings
      BY <1>0, <3>2 DEF Pods
    <3> QED
      BY <2>1, <2>3, <3>2, <3>3 DEF Located, InstallPCs, Path
  <2> QED
    BY <1>2, <1>10, <2>1, <2>2, <2>3 DEF Setup, hostVars, files
<1>11. CASE SetupCreates(j)
  <2>1. job[j] = "running" /\ pod[j].pc = "create" /\ j[2] = "install"
    BY <1>0, <1>11 DEF SetupCreates, At, Located, UninstallPCs
  <2>2. CASE Goto(j, "open")
    BY <1>5, <2>1, <2>2 DEF PCs, InstallPCs
  <2>3. CASE Goto(j, "setupcopy") /\ pod[j].settings.Setup = "copy"
    <3>1. pod[j].settings # None
      BY <1>0, <2>1 DEF JobTypeOK
    <3>2. JobTypeOK' /\ Others(j) /\ pod'[j] = [pod[j] EXCEPT !.pc = "setupcopy"]
      BY <1>0, <2>1, <2>3, <3>1, GotoFacts DEF PCs
    <3>3. pod'[j].pc = "setupcopy" /\ pod'[j].settings = pod[j].settings
      BY <1>0, <3>2 DEF Pods
    <3>4. CutTmpl[Path(j)] \in Paths
      BY <2>1, <2>3, PodFacts DEF TypeInv
    <3>5. conf'[CutTmpl[Path(j)]] # None
      BY <1>0, <2>1, <2>3, <3>4 DEF Located, FilesStay
    <3> QED
      BY <2>1, <2>3, <3>2, <3>3, <3>5 DEF Located, InstallPCs, Path
  <2> QED
    BY <1>11, <2>2, <2>3 DEF SetupCreates
<1>12. CASE SetupCopies(j) \/ Open(j)
  <2>1. pod[j].pc \in {"setupcopy", "open"} /\ j[2] = "install"
    BY <1>0, <1>12 DEF SetupCopies, Open, At, Located, UninstallPCs
  <2> QED
    BY <1>5, <1>12, <2>1 DEF SetupCopies, Open, PCs, InstallPCs
<1>13. CASE Get(j)
  <2>1. job[j] = "running" /\ pod[j].pc = "get" /\ pod[j].settings # None
    BY <1>0, <1>13 DEF Get, At, JobTypeOK
  <2>2. CASE /\ lock \in LockFile /\ UNCHANGED job
             /\ pod' = [pod EXCEPT ![j].st = lock,
                          ![j].pc = IF j[2] = "install" THEN "copy" ELSE "remove"]
    <3> DEFINE pc == IF j[2] = "install" THEN "copy" ELSE "remove"
               p == [pod[j] EXCEPT !.st = lock, !.pc = pc]
    <3>1. pc \in PCs /\ pc \in {"copy", "remove"}
          /\ pc \in (IF j[2] = "install" THEN InstallPCs ELSE UninstallPCs)
      BY <1>0 DEF PCs, InstallPCs, UninstallPCs
    <3> HIDE DEF pc
    <3>2. p \in Pods /\ p.pc = pc /\ p.settings = pod[j].settings
      BY <1>0, <2>2, <3>1 DEF Pods
    <3>3. pod' = [pod EXCEPT ![j] = p]
      BY <1>0, <2>2 DEF pc
    <3> HIDE DEF p
    <3> QED
      BY <1>4, <2>1, <2>2, <3>1, <3>2, <3>3
  <2> QED
    BY <1>0, <1>2, <1>13, <2>1, <2>2 DEF Get, HostTypeOK
<1>14. CASE Remove(j)
  <2>1. /\ job[j] = "running" /\ pod[j].pc = "remove" /\ pod[j].settings # None
        /\ j[2] = "uninstall" /\ UNCHANGED job
        /\ pod' = [pod EXCEPT ![j].pc = "lock", ![j].st[j[1]] = None]
    BY <1>0, <1>14 DEF Remove, At, JobTypeOK, Located, InstallPCs
  <2> DEFINE st == [pod[j].st EXCEPT ![j[1]] = None]
             p == [pod[j] EXCEPT !.pc = "lock", !.st = st]
  <2>2. st \in LockFile
    BY <1>0 DEF Pods, LockFile
  <2>3. pod' = [pod EXCEPT ![j] = p]
    BY <1>0, <2>1
  <2> HIDE DEF st
  <2>4. p \in Pods /\ p.pc = "lock" /\ p.settings = pod[j].settings
    BY <1>0, <2>2 DEF Pods, PCs
  <2> HIDE DEF p
  <2> QED
    BY <1>4, <2>1, <2>3, <2>4 DEF UninstallPCs
<1>15. ASSUME NEW file \in Contents \cup {Partial}, Copy(j, file)
       PROVE  JobTypeOK' /\ Others(j) /\ Located(j)'
  <2>1. /\ job[j] = "running" /\ pod[j].pc = "copy" /\ pod[j].settings # None
        /\ j[2] = "install"
    BY <1>0, <1>15 DEF Copy, At, JobTypeOK, Located, UninstallPCs
  <2>2. CASE /\ UNCHANGED job
             /\ pod' = [pod EXCEPT ![j].pc = "lock", ![j].changed = TRUE, ![j].st[j[1]] = file]
    <3> DEFINE st == [pod[j].st EXCEPT ![j[1]] = file]
               p == [pod[j] EXCEPT !.pc = "lock", !.changed = TRUE, !.st = st]
    <3>1. st \in LockFile
      BY <1>0 DEF Pods, LockFile
    <3>2. pod' = [pod EXCEPT ![j] = p]
      BY <1>0, <2>2
    <3> HIDE DEF st
    <3>3. p \in Pods /\ p.pc = "lock" /\ p.settings = pod[j].settings
      BY <1>0, <3>1 DEF Pods, PCs
    <3> HIDE DEF p
    <3> QED
      BY <1>4, <2>1, <2>2, <3>2, <3>3 DEF InstallPCs
  <2>3. CASE Goto(j, "add")
    BY <1>5, <2>1, <2>3 DEF PCs, InstallPCs
  <2> QED
    BY <1>2, <1>15, <2>1, <2>2, <2>3 DEF Copy
<1>16. CASE WriteTruncates(j) \/ Write(j)
  <2>1. job[j] = "running" /\ pod[j].pc \in {"lock", "lockdata"}
    BY <1>16 DEF WriteTruncates, Write, At
  <2> QED
    BY <1>0, <1>2, <1>5, <1>16, <2>1 DEF WriteTruncates, Write, PCs, InstallPCs, UninstallPCs
<1>17. CASE AddRuntime(j)
  <2>1. /\ job[j] = "running" /\ pod[j].pc = "add" /\ pod[j].settings # None
        /\ j[2] = "install" /\ Path(j) \in Paths
    BY <1>0, <1>17, PodFacts DEF AddRuntime, At, JobTypeOK, Located, UninstallPCs, TypeInv
  <2>2. CASE /\ conf[Path(j)] # None /\ UNCHANGED <<job, conf>>
             /\ pod' = [pod EXCEPT ![j].pc = "append", ![j].data = conf[Path(j)]]
    <3> DEFINE p == [pod[j] EXCEPT !.pc = "append", !.data = conf[Path(j)]]
    <3>1. conf[Path(j)] \in Files
      BY <1>0, <2>1, <2>2
    <3>2. p \in Pods /\ p.pc = "append" /\ p.settings = pod[j].settings
      BY <1>0, <3>1 DEF Pods, PCs
    <3>3. pod' = [pod EXCEPT ![j] = p]
      BY <1>0, <2>2
    <3> HIDE DEF p
    <3>4. JobTypeOK' /\ Others(j) /\ pod'[j] = p
      BY <1>0, <2>1, <2>2, <3>2, <3>3, ReadFacts
    <3> QED
      BY <2>1, <2>2, <3>2, <3>4 DEF Located, InstallPCs, Path
  <2> QED
    BY <1>2, <1>6, <1>17, <2>1, <2>2 DEF AddRuntime, hostVars, files
<1>18. CASE AppendConfig(j)
  BY <1>6, <1>18 DEF AppendConfig, At
<1>19. CASE RemoveRuntime(j)
  <2>1. /\ job[j] = "running" /\ pod[j].pc = "drop" /\ pod[j].settings # None
        /\ j[2] = "uninstall" /\ Path(j) \in Paths
    BY <1>0, <1>19, PodFacts DEF RemoveRuntime, At, JobTypeOK, Located, InstallPCs, TypeInv
  <2>2. ASSUME conf[Path(j)] # None, UNCHANGED <<job, conf>>,
               NEW cfg \in generateConfig(j[1], pod[j].options, conf[Path(j)]),
               pod' = [pod EXCEPT ![j].pc = "conf",
                         ![j].data = WithoutConfig(conf[Path(j)], cfg)]
        PROVE  JobTypeOK' /\ Others(j) /\ Located(j)'
    <3> DEFINE data == WithoutConfig(conf[Path(j)], cfg)
               p == [pod[j] EXCEPT !.pc = "conf", !.data = data]
    <3>1. pod[j].options \in (UNION {sc.options : sc \in Scenes}) \cup {{}}
      BY <1>0 DEF Pods
    <3>2. cfg \in Seq(Lines) /\ conf[Path(j)] \in Files
      BY <1>0, <2>1, <2>2, <3>1, GeneratedTexts
    <3>3. data \in Files
      BY <3>2, RemainingTexts
    <3>4. pod' = [pod EXCEPT ![j] = p]
      BY <1>0, <2>2
    <3> HIDE DEF data
    <3>5. p \in Pods /\ p.pc = "conf" /\ p.settings = pod[j].settings
      BY <1>0, <3>3 DEF Pods, PCs
    <3> HIDE DEF p
    <3>6. JobTypeOK' /\ Others(j) /\ pod'[j] = p
      BY <1>0, <2>1, <2>2, <3>4, <3>5, ReadFacts
    <3> QED
      BY <2>1, <2>2, <3>5, <3>6 DEF Located, UninstallPCs, Path
  <2> QED
    BY <1>2, <1>3, <1>19, <2>1, <2>2 DEF RemoveRuntime, hostVars, files
<1>20. CASE ConfigTruncates(j)
  <2>1. /\ job[j] = "running" /\ pod[j].pc = "conf" /\ pod[j].settings # None
        /\ j[2] = "uninstall" /\ Path(j) \in Paths
    BY <1>0, <1>20, PodFacts DEF ConfigTruncates, At, JobTypeOK, Located, InstallPCs, TypeInv
  <2>2. JobTypeOK' /\ Others(j) /\ pod'[j] = [pod[j] EXCEPT !.pc = "confdata"]
    BY <1>0, <1>20, <2>1, GotoFacts DEF PCs, ConfigTruncates
  <2>3. pod'[j].pc = "confdata" /\ pod'[j].settings = pod[j].settings
    BY <1>0, <2>2 DEF Pods
  <2>4. conf'[Path(j)] # None
    BY <1>0, <2>1 DEF Located, FilesStay
  <2> QED
    BY <2>1, <2>2, <2>3, <2>4 DEF Located, UninstallPCs, Path
<1>21. CASE WriteConfig(j)
  <2>1. pod[j].pc = "confdata" /\ j[2] = "uninstall"
    BY <1>0, <1>21 DEF WriteConfig, At, Located, InstallPCs
  <2> QED
    BY <1>5, <1>21, <2>1 DEF WriteConfig, PCs, UninstallPCs
<1>22. CASE InstallDbus(j)
  <2>1. job[j] = "running" /\ pod[j].pc = "dbus" /\ j[2] = "install"
    BY <1>0, <1>22 DEF InstallDbus, At, Located, UninstallPCs
  <2> QED
    BY <1>2, <1>5, <1>22, <2>1 DEF InstallDbus, PCs, InstallPCs
<1>23. CASE RestartRuntime(j)
  BY <1>2, <1>3, <1>23 DEF RestartRuntime, At
<1> QED
  BY <1>1, <1>7, <1>8, <1>9, <1>10, <1>11, <1>12, <1>13, <1>14, <1>15, <1>16,
     <1>17, <1>18, <1>19, <1>20, <1>21, <1>22, <1>23 DEF StepOf

\* Every step keeps the invariant.
LEMMA TypeStep ==
  ASSUME TypeInv, None \notin Files, [Next]_vars PROVE TypeInv'
<1>1. HostTypeOK' /\ FilesStay
  BY HostStep
<1>2. CASE UNCHANGED vars
  <2>1. JobTypeOK'
    BY <1>2 DEF vars, TypeInv, TypeOK, JobTypeOK
  <2>2. \A k \in Jobs : Located(k)'
    BY <1>1, <1>2, LocatedOther DEF vars
  <2> QED
    BY <1>1, <2>1, <2>2 DEF TypeInv, TypeOK
<1>3. CASE Next
  <2>1. PICK j \in Jobs : JobTypeOK' /\ Others(j) /\ Located(j)'
    BY <1>1, <1>3, JobStep DEF Next, StepOf
  <2>2. ASSUME NEW k \in Jobs PROVE Located(k)'
    BY <1>1, <2>1, LocatedOther DEF Others
  <2> QED
    BY <1>1, <2>1, <2>2 DEF TypeInv, TypeOK
<1> QED
  BY <1>2, <1>3

\* The invariant holds at the start.
LEMMA TypeInit == Init => TypeInv
<1> SUFFICES ASSUME Init PROVE TypeInv
  OBVIOUS
<1>1. NoPod \in Pods /\ NoPod.pc = "done"
  BY NoPodType DEF NoPod
<1>2. NoLock \in LockFile /\ NoLock \in [Shims -> Contents \cup {Empty, Partial, None}]
  BY DEF NoLock, LockFile
<1>3. scene \in Scenes /\ scene.host.version \in {2, 3} /\ scene.dbus \in BOOLEAN
      /\ scene.jobs \in Nat /\ scene.faults \in Nat
  BY ScenesAssumption DEF Init
<1>4. {<<VersionLine(scene.host.version)>>} \in Files /\ {} \in Files
  <2>1. VersionLine(scene.host.version) \in Lines
    BY <1>3 DEF Lines, FileVersions
  <2> QED
    BY <2>1 DEF Files
<1>5. HostTypeOK
  BY <1>2, <1>3, <1>4 DEF Init, HostTypeOK
<1>6. JobTypeOK
  BY <1>1 DEF Init, JobTypeOK
<1>7. ASSUME NEW j \in Jobs PROVE Located(j)
  BY <1>1 DEF Init, Located, InstallPCs, UninstallPCs
<1> QED
  BY <1>5, <1>6, <1>7 DEF TypeInv, TypeOK

\* Every variable of the installer's model has its type, and a Pod has a
\* program point exactly while its Job runs.
THEOREM InstallerTypes ==
  ASSUME None \notin Files PROVE Spec => []TypeOK
<1>1. TypeInv /\ [Next]_vars => TypeInv'
  BY TypeStep
<1>2. TypeInv => TypeOK
  BY DEF TypeInv
<1> QED
  BY <1>1, <1>2, TypeInit, PTL DEF Spec
------------------------------------------------------------------------------
(* Digests.                                                                 *)

\* Two Jobs of one shim do not run at the same time.
Alone == \A j, k \in Jobs :
           j # k /\ job[j] = "running" /\ job[k] = "running" => j[1] # k[1]

\* From the download on, an install Pod has an archive that passed; what it has
\* copied, or only begun to copy, is the shim's binary until the Pod ends.
Digest(s) ==
  LET p == pod[<<s, "install">>] IN
  /\ p.pc \notin {"download", "done"} =>
       p.file \in Contents /\ sha256sum(p.artifact.sha256, p.file)
  /\ p.pc \in {"lock", "lockdata"} => bin[s] = p.st[s] /\ p.st[s] \in {p.file, Partial}
  /\ p.pc \in {"add", "append", "dbus", "restart"} => bin[s] = p.file

DigestInv == TypeInv /\ Alone /\ \A s \in Shims : Digest(s)

\* Every other step is one of a running Job.
LEMMA StepRuns ==
  ASSUME NEW j \in Jobs, StepOf(j), ~StartJob(j) PROVE job[j] = "running"
BY DEF StepOf, Killed, Download, Detect, Setup, SetupCreates, SetupCopies, Open, Get,
   Remove, WriteTruncates, Write, Copy, AddRuntime, AppendConfig, RemoveRuntime,
   ConfigTruncates, WriteConfig, InstallDbus, RestartRuntime, At

\* Jobs of one shim still do not overlap after a step.
LEMMA AloneStep ==
  ASSUME TypeInv, FilesStay, Alone, NEW j \in Jobs, StepOf(j) PROVE Alone'
<1>1. Others(j) /\ JobTypeOK /\ TypeOK
  BY JobStep DEF TypeInv, TypeOK
<1>2. CASE StartJob(j)
  BY <1>1, <1>2 DEF StartJob, Alone, Others
<1>3. CASE ~StartJob(j)
  BY <1>1, <1>3, StepRuns DEF Alone, Others
<1> QED
  BY <1>2, <1>3

\* A Job writes only the binary of its shim.
LEMMA OwnBinary ==
  ASSUME TypeInv, NEW j \in Jobs, StepOf(j), NEW s \in Shims, bin'[s] # bin[s]
  PROVE  s = j[1] /\ job[j] = "running"
<1>1. bin \in [Shims -> Contents \cup {Empty, Partial, None}]
  BY DEF TypeInv, TypeOK, HostTypeOK
<1>2. CASE UNCHANGED bin
  BY <1>2
<1>3. CASE Open(j) \/ Remove(j) \/ \E file \in Contents \cup {Partial} : Copy(j, file)
  BY <1>1, <1>3 DEF Open, Remove, Copy, At
<1> QED
  BY <1>2, <1>3 DEF StepOf, StartJob, Killed, Download, Detect, Setup, SetupCreates,
     SetupCopies, Get, WriteTruncates, Write, AddRuntime, AppendConfig, RemoveRuntime,
     ConfigTruncates, WriteConfig, InstallDbus, RestartRuntime, hostVars, files

\* A step of an install Job keeps what is said of it, and completes it only with
\* the binary that passed.
LEMMA DigestOwnStep ==
  ASSUME TypeInv, FilesStay, NEW s \in Shims, NEW i \in Jobs, i = <<s, "install">>,
         Digest(s), StepOf(i)
  PROVE  /\ Digest(s)'
         /\ job[i] = "running" /\ job'[i] = "complete" =>
              /\ bin'[s] = pod[i].file
              /\ sha256sum(pod[i].artifact.sha256, pod[i].file)
<1> DEFINE Goal == /\ Digest(s)'
                   /\ job[i] = "running" /\ job'[i] = "complete" =>
                        /\ bin'[s] = pod[i].file
                        /\ sha256sum(pod[i].artifact.sha256, pod[i].file)
<1>0. /\ JobTypeOK /\ pod \in [Jobs -> Pods] /\ pod[i] \in Pods /\ i[1] = s /\ i[2] = "install"
      /\ bin \in [Shims -> Contents \cup {Empty, Partial, None}] /\ Located(i) /\ TypeOK
      /\ job \in [Jobs -> {"none", "running", "complete", "failed"}]
  BY DEF TypeInv, TypeOK, JobTypeOK, HostTypeOK
<1>1. ASSUME pod'[i].pc \in {"download", "done"}, job'[i] # "complete" PROVE Goal
  BY <1>1 DEF Digest
<1>2. ASSUME job[i] = "running", Fail(i) PROVE Goal
  <2>1. FirstCall(i[2]) = "download" /\ NoPod.pc = "done"
    BY <1>0 DEF FirstCall, NoPod
  <2> QED
    BY <1>0, <1>1, <1>2, <2>1, FailFacts
<1>3. ASSUME Succeed(i), UNCHANGED bin, pod[i].pc \in {"add", "append", "restart"} PROVE Goal
  <2>1. pod'[i].pc = "done"
    BY <1>0, <1>3, SucceedFacts DEF NoPod
  <2> QED
    BY <1>0, <1>3, <2>1 DEF Digest
<1>4. ASSUME pod[i].pc \notin {"download", "done"}, UNCHANGED job,
             pod'[i].file = pod[i].file, pod'[i].artifact = pod[i].artifact,
             pod'[i].pc \in {"lock", "lockdata"} =>
               bin'[s] = pod'[i].st[s] /\ pod'[i].st[s] \in {pod[i].file, Partial},
             pod'[i].pc \in {"add", "append", "dbus", "restart"} => bin'[s] = pod[i].file
      PROVE  Goal
  BY <1>0, <1>4 DEF Digest
<1>5. ASSUME NEW pc \in PCs, Goto(i, pc), job[i] = "running"
      PROVE  /\ UNCHANGED job /\ pod'[i].pc = pc /\ pod'[i].st = pod[i].st
             /\ pod'[i].file = pod[i].file /\ pod'[i].artifact = pod[i].artifact
             /\ pod'[i].settings = pod[i].settings
  <2>1. pod'[i] = [pod[i] EXCEPT !.pc = pc] /\ UNCHANGED job
    BY <1>0, <1>5 DEF Goto
  <2> QED
    BY <1>0, <2>1 DEF Pods
<1>6. CASE StartJob(i)
  BY <1>0, <1>1, <1>6, StartFacts DEF FirstCall
<1>7. CASE Killed(i)
  BY <1>2, <1>7 DEF Killed
<1>8. CASE Download(i)
  <2>1. job[i] = "running"
    BY <1>8 DEF Download, At
  <2>2. ASSUME NEW file \in Contents, sha256sum(pod[i].artifact.sha256, file),
               pod' = [pod EXCEPT ![i].pc = "detect", ![i].file = file], UNCHANGED job
        PROVE  Goal
    <3>1. pod'[i].pc = "detect" /\ pod'[i].file = file /\ pod'[i].artifact = pod[i].artifact
      BY <1>0, <2>2 DEF Pods
    <3> QED
      BY <2>1, <2>2, <3>1 DEF Digest
  <2>3. ASSUME pod' = [pod EXCEPT ![i].tries = @ + 1], UNCHANGED job, pod[i].pc = "download"
        PROVE  Goal
    <3>1. pod'[i].pc = "download"
      BY <1>0, <2>3 DEF Pods
    <3> QED
      BY <1>1, <2>1, <2>3, <3>1
  <2> QED
    BY <1>2, <1>8, <2>1, <2>2, <2>3 DEF Download, At
<1>9. CASE Detect(i)
  <2>1. job[i] = "running" /\ pod[i].pc = "detect"
    BY <1>9 DEF Detect, At
  <2>2. ASSUME NEW settings, UNCHANGED job,
               pod' = [pod EXCEPT ![i].settings = settings,
                         ![i].pc = IF i[2] = "uninstall" THEN "get"
                                   ELSE IF settings.Setup = "none" THEN "open"
                                   ELSE "setup"]
        PROVE  Goal
    <3>1. pod'[i].pc \in {"open", "setup"} /\ pod'[i].file = pod[i].file
          /\ pod'[i].artifact = pod[i].artifact
      BY <1>0, <2>2 DEF Pods
    <3> QED
      BY <1>4, <2>1, <2>2, <3>1
  <2> QED
    BY <1>2, <1>9, <2>1, <2>2 DEF Detect
<1>10. CASE Setup(i) \/ SetupCreates(i) \/ SetupCopies(i) \/ Open(i)
  <2>1. job[i] = "running" /\ pod[i].pc \in {"setup", "create", "setupcopy", "open"}
    BY <1>10 DEF Setup, SetupCreates, SetupCopies, Open, At
  <2>2. Fail(i) \/ \E pc \in {"open", "create", "setupcopy", "get"} : Goto(i, pc)
    BY <1>10 DEF Setup, SetupCreates, SetupCopies, Open
  <2> QED
    BY <1>2, <1>4, <1>5, <2>1, <2>2 DEF PCs
<1>11. CASE Get(i)
  <2>1. job[i] = "running" /\ pod[i].pc = "get"
    BY <1>11 DEF Get, At
  <2>2. ASSUME UNCHANGED job, pod' = [pod EXCEPT ![i].st = lock,
                       ![i].pc = IF i[2] = "install" THEN "copy" ELSE "remove"]
        PROVE  Goal
    <3>1. pod'[i].pc = "copy" /\ pod'[i].file = pod[i].file
          /\ pod'[i].artifact = pod[i].artifact
      BY <1>0, <2>2 DEF Pods
    <3> QED
      BY <1>4, <2>1, <2>2, <3>1
  <2> QED
    BY <1>2, <1>11, <2>1, <2>2 DEF Get
<1>12. CASE \E file \in Contents \cup {Partial} : Copy(i, file)
  <2>1. PICK file \in Contents \cup {Partial} : Copy(i, file)
    BY <1>12
  <2>2. job[i] = "running" /\ pod[i].pc = "copy" /\ file \in {pod[i].file, Partial}
        /\ bin'[s] = file
    BY <1>0, <2>1 DEF Copy, At
  <2>3. CASE UNCHANGED job /\ pod' = [pod EXCEPT ![i].pc = "lock", ![i].changed = TRUE,
                       ![i].st[i[1]] = file]
    <3>1. pod'[i].pc = "lock" /\ pod'[i].file = pod[i].file
          /\ pod'[i].artifact = pod[i].artifact /\ pod'[i].st = [pod[i].st EXCEPT ![s] = file]
      BY <1>0, <2>3 DEF Pods
    <3>2. pod'[i].st[s] = file
      BY <1>0, <3>1 DEF Pods, LockFile
    <3> QED
      BY <1>4, <2>2, <2>3, <3>1, <3>2
  <2>4. CASE file # Partial /\ Goto(i, "add")
    BY <1>4, <1>5, <2>2, <2>4 DEF PCs
  <2> QED
    BY <1>2, <2>1, <2>2, <2>3, <2>4 DEF Copy
<1>13. CASE WriteTruncates(i) \/ Write(i)
  <2>1. /\ job[i] = "running" /\ pod[i].pc \in {"lock", "lockdata"} /\ UNCHANGED bin
        /\ bin[s] = pod[i].st[s] /\ pod[i].st[s] \in {pod[i].file, Partial}
    BY <1>13 DEF WriteTruncates, Write, At, Digest
  <2>2. \/ Fail(i) \/ Goto(i, "lockdata")
        \/ pod[i].st[s] # Partial /\ Goto(i, "add")
    BY <1>0, <1>13 DEF WriteTruncates, Write
  <2> QED
    BY <1>2, <1>4, <1>5, <2>1, <2>2 DEF PCs
<1>14. ASSUME Finish(i), UNCHANGED bin, pod[i].pc \in {"add", "append"}, job[i] = "running"
       PROVE  Goal
  <2>1. bin'[s] = pod[i].file
    BY <1>14 DEF Digest
  <2> QED
    BY <1>3, <1>4, <1>5, <1>14, <2>1 DEF Finish, PCs
<1>15. CASE AddRuntime(i)
  <2>1. job[i] = "running" /\ pod[i].pc = "add" /\ UNCHANGED bin
    BY <1>15 DEF AddRuntime, At, hostVars, files
  <2>2. ASSUME UNCHANGED job, pod' = [pod EXCEPT ![i].pc = "append", ![i].data = conf[Path(i)]]
        PROVE  Goal
    <3>1. pod'[i].pc = "append" /\ pod'[i].file = pod[i].file
          /\ pod'[i].artifact = pod[i].artifact
      BY <1>0, <2>2 DEF Pods
    <3>2. bin'[s] = pod[i].file
      BY <2>1 DEF Digest
    <3> QED
      BY <1>4, <2>1, <2>2, <3>1, <3>2
  <2> QED
    BY <1>2, <1>14, <1>15, <2>1, <2>2 DEF AddRuntime
<1>16. CASE AppendConfig(i)
  BY <1>14, <1>16 DEF AppendConfig, At
<1>17. CASE InstallDbus(i)
  <2>1. job[i] = "running" /\ pod[i].pc = "dbus" /\ UNCHANGED bin /\ bin[s] = pod[i].file
    BY <1>17 DEF InstallDbus, At, files, Digest
  <2>2. Fail(i) \/ Goto(i, "restart")
    BY <1>17 DEF InstallDbus
  <2> QED
    BY <1>2, <1>4, <1>5, <2>1, <2>2 DEF PCs
<1>18. CASE RestartRuntime(i)
  BY <1>2, <1>3, <1>18 DEF RestartRuntime, At, files
<1>19. CASE Remove(i) \/ RemoveRuntime(i) \/ ConfigTruncates(i) \/ WriteConfig(i)
  BY <1>0, <1>19 DEF Remove, RemoveRuntime, ConfigTruncates, WriteConfig, At, Located, InstallPCs
<1> QED
  BY <1>6, <1>7, <1>8, <1>9, <1>10, <1>11, <1>12, <1>13, <1>15, <1>16, <1>17,
     <1>18, <1>19 DEF StepOf

\* Every step keeps the invariant, and a Job completes only with its digest.
LEMMA DigestStep ==
  ASSUME DigestInv, None \notin Files, [Next]_vars
  PROVE  /\ DigestInv'
         /\ \A s \in Shims :
              LET i == <<s, "install">> IN
              job[i] = "running" /\ job'[i] = "complete" =>
                /\ bin'[s] = pod[i].file
                /\ sha256sum(pod[i].artifact.sha256, pod[i].file)
<1>1. TypeInv /\ TypeInv' /\ FilesStay
  BY TypeStep, HostStep DEF DigestInv
<1>2. CASE UNCHANGED vars
  BY <1>1, <1>2 DEF DigestInv, Alone, Digest, vars, hostVars, files
<1>3. ASSUME NEW j \in Jobs, StepOf(j)
      PROVE  /\ DigestInv'
             /\ \A s \in Shims :
                  LET i == <<s, "install">> IN
                  job[i] = "running" /\ job'[i] = "complete" =>
                    /\ bin'[s] = pod[i].file
                    /\ sha256sum(pod[i].artifact.sha256, pod[i].file)
  <2>1. Alone' /\ Others(j)
    BY <1>1, <1>3, AloneStep, JobStep DEF DigestInv
  <2>2. ASSUME NEW s \in Shims, NEW i \in Jobs, i = <<s, "install">>
        PROVE  /\ Digest(s)'
               /\ job[i] = "running" /\ job'[i] = "complete" =>
                    /\ bin'[s] = pod[i].file
                    /\ sha256sum(pod[i].artifact.sha256, pod[i].file)
    <3>1. CASE i = j
      BY <1>1, <1>3, <2>2, <3>1, DigestOwnStep DEF DigestInv
    <3>2. CASE i # j
      <4>1. pod'[i] = pod[i] /\ job'[i] = job[i]
        BY <2>1, <3>2 DEF Others
      <4>2. bin'[s] = bin[s] \/ job[i] # "running"
        BY <1>1, <1>3, <2>2, <3>2, OwnBinary DEF DigestInv, Alone
      <4>3. job[i] # "running" => pod[i].pc = "done"
        BY <1>1 DEF TypeInv, TypeOK, JobTypeOK
      <4> QED
        BY <2>2, <4>1, <4>2, <4>3 DEF DigestInv, Digest
    <3> QED
      BY <3>1, <3>2
  <2>3. \A s \in Shims : <<s, "install">> \in Jobs
    BY DEF Jobs
  <2> QED
    BY <1>1, <2>1, <2>2, <2>3 DEF DigestInv
<1> QED
  BY <1>2, <1>3 DEF Next, StepOf

\* The invariant holds at the start.
LEMMA DigestInit == Init => DigestInv
<1> SUFFICES ASSUME Init PROVE DigestInv
  OBVIOUS
<1>1. \A j \in Jobs : job[j] # "running" /\ pod[j].pc = "done"
  BY DEF Init, NoPod
<1>2. \A s \in Shims : <<s, "install">> \in Jobs
  BY DEF Jobs
<1> QED
  BY <1>1, <1>2, TypeInit DEF DigestInv, Alone, Digest

\* An install Job with a digest completes only with the binary of that archive
\* on the host, for any shims, archives and hosts, any number of Jobs, retries
\* and faults, and installers next to each other.
THEOREM DigestIsEnforced ==
  ASSUME None \notin Files PROVE Spec => DigestEnforced
<1>1. DigestInv /\ [Next]_vars => DigestInv'
  BY DigestStep
<1> DEFINE A == \A s \in Shims :
                  LET i == <<s, "install">> IN
                  job[i] = "running" /\ job'[i] = "complete"
                    /\ pod[i].artifact.sha256 # NoDigest =>
                    bin'[s] = pod[i].artifact.sha256
<1>2. DigestInv /\ [Next]_vars => [A]_vars
  <2> SUFFICES ASSUME DigestInv, [Next]_vars, NEW s \in Shims, NEW i, i = <<s, "install">>,
                      job[i] = "running", job'[i] = "complete",
                      pod[i].artifact.sha256 # NoDigest
               PROVE  bin'[s] = pod[i].artifact.sha256
    OBVIOUS
  <2> QED
    BY DigestStep DEF sha256sum
<1> HIDE DEF A
<1>3. Spec => [][A]_vars
  BY <1>1, <1>2, DigestInit, PTL DEF Spec
<1> QED
  BY <1>3 DEF DigestEnforced, A
=============================================================================
