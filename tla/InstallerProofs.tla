-------------------------- MODULE InstallerProofs ---------------------------
(***************************************************************************)
(* Theorems about NodeInstaller on nodes that fit (Fit): the installer     *)
(* keeps the contract with the manager (HostContract), an uninstall Job    *)
(* that completes leaves nothing, and a Job that completes with a restart  *)
(* leaves the kubelet's containerd with what it did.                       *)
(***************************************************************************)
EXTENDS InstallerTypeProofs, WellFoundedInduction

------------------------------------------------------------------------------
(* The invariant of the contract.                                           *)

InitialFile(p) == IF p \in scene.host.files
                  THEN {<<VersionLine(scene.host.version)>>} ELSE None

\* Files that containerd does not read are left alone.
OthersUntouched == \A p \in Paths \ {scene.reads} : conf[p] = InitialFile(p)

\* A runtime's table is the first line of a text and its options the second, so
\* no text keeps a shim's name once its runtime is removed.
Shaped(text) ==
  \A i \in DOMAIN text :
    /\ text[i][1] = "runtime" => i = 1
    /\ text[i][1] = "options" =>
         /\ i = 2 /\ {} \notin scene.options
         /\ text[1][1] = "runtime" /\ text[1][2] = text[2][2]
ShapedFile(data) == \A text \in data : Shaped(text)

\* Jobs that run next to each other may.
Overlapping == \A j, k \in Jobs :
  j # k /\ job[j] = "running" /\ job[k] = "running" =>
    j[1] # k[1] /\ {j[2], k[2]} \subseteq scene.overlap

\* What a Pod knows of the host.
Knows(j) ==
  LET p == pod[j] s == j[1] file == conf[scene.reads] IN
  /\ p.pc # "done" => p.options \in scene.options
  /\ p.pc \notin {"download", "detect", "done"} => p.settings \in DetectDistro(scene.host)
  /\ p.pc \in {"setup", "create", "setupcopy"} => p.settings.Setup # "none"
  /\ p.pc \in {"create", "setupcopy", "append", "conf", "confdata", "dbus", "restart"} =>
       Path(j) = scene.reads
  /\ p.pc = "create" => file = None /\ scene.overlap = {}
  /\ p.pc = "setupcopy" => file = {} /\ scene.overlap = {}
  /\ j[2] = "install" /\ p.pc \in {"dbus", "restart"} => file # None /\ Configured(file, s)
  /\ j[2] = "uninstall" /\ p.pc \in {"lock", "lockdata", "drop", "conf", "confdata", "restart"} =>
       bin[s] = None
  /\ p.pc \in {"conf", "confdata"} => ShapedFile(p.data)
  /\ p.pc = "conf" => \A t \in Shims \ {s} : Configured(p.data, t) <=> Configured(file, t)
  /\ p.pc = "confdata" => file = {}
  /\ p.pc = "restart" => file # None

ContractInv ==
  /\ DigestInv /\ Overlapping /\ OthersUntouched
  /\ scene.reads \in scene.host.files => conf[scene.reads] # None
  /\ conf[scene.reads] # None => ShapedFile(conf[scene.reads])
  /\ \A j \in Jobs : Knows(j)

------------------------------------------------------------------------------
(* Texts.                                                                   *)

\* The lines of a text.
MadeOf(cfg, s, options, domain) ==
  /\ Len(cfg) \in Nat /\ Len(cfg) >= 1 /\ DOMAIN cfg = 1..Len(cfg)
  /\ cfg[1] = RuntimeLine(s, domain)
  /\ options = {} => Len(cfg) = 1
  /\ options # {} => /\ Len(cfg) = 2 + Cardinality(options) /\ Len(cfg) >= 2
                     /\ cfg[2] = OptionsLine(s, domain)
  /\ \A i \in 3..Len(cfg) : cfg[i][1] = "option"

\* What a generated text is made of.
LEMMA GeneratedShape ==
  ASSUME NEW s, NEW options, IsFiniteSet(options), NEW data,
         NEW cfg \in generateConfig(s, options, data)
  PROVE  MadeOf(cfg, s, options, Domain(data))
<1> DEFINE head == RuntimeLine(s, Domain(data))
           table == OptionsLine(s, Domain(data))
<1>1. CASE options = {}
  <2>1. cfg = <<head>>
    BY <1>1 DEF generateConfig
  <2> HIDE DEF head
  <2>2. Len(cfg) = 1 /\ DOMAIN cfg = 1..1 /\ cfg[1] = head
    BY <2>1
  <2> QED
    BY <1>1, <2>2 DEF head, MadeOf
<1>2. CASE options # {}
  <2>1. PICK order \in Seqs!SetToSeqs(options) :
          cfg = <<head, table>> \o [i \in DOMAIN order |-> OptionLine(order[i])]
    BY <1>2 DEF generateConfig
  <2> DEFINE tail == [i \in DOMAIN order |-> OptionLine(order[i])]
             n == Cardinality(options)
             S == {head, table} \cup {OptionLine(o) : o \in options}
  <2>2. n \in Nat
    BY FS_CardinalityType
  <2>3. order \in [1..n -> options]
    BY <2>1 DEF Seqs!SetToSeqs, Seqs!Cardinality, Cardinality
  <2>4. tail \in Seq(S) /\ Len(tail) = n /\ \A i \in 1..n : tail[i][1] = "option"
    BY <2>2, <2>3 DEF OptionLine
  <2>5. <<head, table>> \in Seq(S) /\ Len(<<head, table>>) = 2
        /\ <<head, table>>[1] = head /\ <<head, table>>[2] = table
    OBVIOUS
  <2> DEFINE front == <<head, table>>
  <2>6. cfg = front \o tail
    BY <2>1
  <2> HIDE DEF head, table, tail, front, S, n
  <2>7. /\ Len(cfg) = 2 + n /\ DOMAIN cfg = 1..(2 + n)
        /\ \A i \in 1..(2 + n) : cfg[i] = IF i <= 2 THEN front[i] ELSE tail[i - 2]
    BY <2>2, <2>4, <2>5, <2>6 DEF front
  <2>8. cfg[1] = head /\ cfg[2] = table
    BY <2>2, <2>5, <2>7 DEF front
  <2>9. \A i \in 3..Len(cfg) : cfg[i][1] = "option"
    BY <2>2, <2>4, <2>7
  <2> QED
    BY <1>2, <2>2, <2>7, <2>8, <2>9 DEF head, table, n, MadeOf
<1> QED
  BY <1>1, <1>2

\* It has the shape of a text, and its runtime is its shim's.
LEMMA GeneratedIsShaped ==
  ASSUME NEW s \in Shims, NEW options \in scene.options, FitOptions(scene), IsFiniteSet(options),
         NEW data, NEW cfg \in generateConfig(s, options, data)
  PROVE  /\ Shaped(cfg) /\ 1 \in DOMAIN cfg
         /\ cfg[1][1] = "runtime" /\ cfg[1][2] = s
         /\ \A i \in DOMAIN cfg : cfg[i][1] = "runtime" => cfg[i][2] = s
<1>0. /\ Len(cfg) \in Nat /\ Len(cfg) >= 1 /\ DOMAIN cfg = 1..Len(cfg)
      /\ cfg[1] = RuntimeLine(s, Domain(data))
      /\ options = {} => Len(cfg) = 1
      /\ options # {} => Len(cfg) >= 2 /\ cfg[2] = OptionsLine(s, Domain(data))
      /\ \A i \in 3..Len(cfg) : cfg[i][1] = "option"
  <2>1. MadeOf(cfg, s, options, Domain(data))
    BY GeneratedShape
  <2> QED
    BY <2>1 DEF MadeOf
<1>1. cfg[1][1] = "runtime" /\ cfg[1][2] = s /\ 1 \in DOMAIN cfg
  BY <1>0 DEF RuntimeLine
<1>2. ASSUME NEW i \in DOMAIN cfg, i # 1, i # 2 PROVE cfg[i][1] = "option"
  <2>1. i \in 3..Len(cfg)
    BY <1>0, <1>2
  <2> QED
    BY <1>0, <2>1
<1>3. 2 \in DOMAIN cfg => options # {} /\ cfg[2][1] = "options" /\ cfg[2][2] = s
  <2>1. ASSUME 2 \in DOMAIN cfg PROVE options # {}
    BY <1>0, <2>1
  <2>2. \A d : OptionsLine(s, d)[1] = "options" /\ OptionsLine(s, d)[2] = s
    BY DEF OptionsLine
  <2> QED
    BY <1>0, <2>1, <2>2
<1>4. options # {} => {} \notin scene.options
  BY DEF FitOptions
<1> QED
  BY <1>1, <1>2, <1>3, <1>4 DEF Shaped

\* Removing a generated text from a file of shaped texts.
LEMMA RemovalFacts ==
  ASSUME NEW s \in Shims, NEW options \in scene.options, FitOptions(scene), IsFiniteSet(options),
         NEW d, NEW cfg \in generateConfig(s, options, d), cfg \in Seq(Lines),
         NEW data \in Files, ShapedFile(data)
  PROVE  /\ ShapedFile(WithoutConfig(data, cfg))
         /\ \A t \in Shims \ {s} : Configured(WithoutConfig(data, cfg), t) <=> Configured(data, t)
<1> DEFINE rest(text) == SubSeq(text, Len(cfg) + 1, Len(text))
           cut(text) == IF Seqs!IsPrefix(cfg, text) THEN rest(text) ELSE text
<1>1. /\ Len(cfg) \in Nat /\ Len(cfg) >= 1 /\ cfg[1][1] = "runtime" /\ cfg[1][2] = s
      /\ Len(cfg) = 1 => options = {}
  <2>1. MadeOf(cfg, s, options, Domain(d))
    BY GeneratedShape
  <2> QED
    BY <2>1 DEF MadeOf, RuntimeLine
<1>2. ASSUME NEW text \in data, Seqs!IsPrefix(cfg, text)
      PROVE  /\ Len(text) \in Nat /\ Len(cfg) <= Len(text) /\ text[1] = cfg[1]
             /\ DOMAIN text = 1..Len(text)
             /\ DOMAIN rest(text) = 1..(Len(text) - Len(cfg))
             /\ \A i \in DOMAIN rest(text) : rest(text)[i] = text[Len(cfg) + i]
  <2>1. text \in Seq(Lines) /\ Len(text) \in Nat
    BY DEF Files
  <2>2. Len(cfg) <= Len(text) /\ SubSeq(cfg, 1, Len(cfg)) = SubSeq(text, 1, Len(cfg))
    BY <1>2 DEF Seqs!IsPrefix
  <2>3. SubSeq(cfg, 1, Len(cfg))[1] = cfg[1] /\ SubSeq(text, 1, Len(cfg))[1] = text[1]
    BY <1>1, <2>1, <2>2
  <2> QED
    BY <1>1, <2>1, <2>2, <2>3
<1>3. ASSUME NEW text \in data, Seqs!IsPrefix(cfg, text), NEW i \in DOMAIN rest(text)
      PROVE  rest(text)[i][1] \notin {"runtime", "options"}
  <2>1. /\ Len(cfg) + i \in DOMAIN text /\ Len(cfg) + i >= 2 /\ i >= 1
        /\ rest(text)[i] = text[Len(cfg) + i] /\ i \in Nat
    BY <1>1, <1>2, <1>3
  <2>2. Shaped(text)
    BY DEF ShapedFile
  <2>3. text[Len(cfg) + i][1] # "runtime"
    BY <1>1, <2>1, <2>2 DEF Shaped
  <2>4. ASSUME text[Len(cfg) + i][1] = "options" PROVE FALSE
    <3>1. Len(cfg) + i = 2 /\ {} \notin scene.options
      BY <2>1, <2>2, <2>4 DEF Shaped
    <3>2. Len(cfg) = 1
      <4>1. \A m, n \in Nat : m >= 1 /\ n >= 1 /\ m + n = 2 => m = 1
        OBVIOUS
      <4> QED
        BY <1>1, <2>1, <3>1, <4>1, Zenon
    <3> QED
      BY <1>1, <3>1, <3>2
  <2> QED
    BY <2>1, <2>3, <2>4
<1> HIDE DEF rest
<1>4. \A text \in data : Shaped(cut(text))
  BY <1>3 DEF Shaped, ShapedFile
<1>5. WithoutConfig(data, cfg) = {cut(text) : text \in data} \ {<<>>}
  BY DEF WithoutConfig, rest
<1>6. ShapedFile(WithoutConfig(data, cfg))
  BY <1>4, <1>5 DEF ShapedFile
<1>7. ASSUME NEW t \in Shims \ {s}, Configured(WithoutConfig(data, cfg), t)
      PROVE  Configured(data, t)
  <2>1. PICK text \in data : \E i \in DOMAIN cut(text) :
          cut(text)[i][1] = "runtime" /\ cut(text)[i][2] = t
    BY <1>5, <1>7 DEF Configured
  <2>2. ~Seqs!IsPrefix(cfg, text)
    BY <1>3, <2>1
  <2> QED
    BY <2>1, <2>2 DEF Configured
<1>8. ASSUME NEW t \in Shims \ {s}, Configured(data, t)
      PROVE  Configured(WithoutConfig(data, cfg), t)
  <2>1. PICK text \in data : \E i \in DOMAIN text : text[i][1] = "runtime" /\ text[i][2] = t
    BY <1>8 DEF Configured
  <2>2. PICK i \in DOMAIN text : text[i][1] = "runtime" /\ text[i][2] = t
    BY <2>1
  <2>3. i = 1
    BY <2>2 DEF ShapedFile, Shaped
  <2>4. ~Seqs!IsPrefix(cfg, text)
    BY <1>1, <1>2, <2>2, <2>3
  <2>5. text # <<>>
    BY <2>2
  <2>6. text \in WithoutConfig(data, cfg)
    BY <1>5, <2>4, <2>5
  <2> QED
    BY <2>2, <2>6 DEF Configured
<1> QED
  BY <1>6, <1>7, <1>8

\* In a file of shaped texts a shim's name is where its runtime is.
LEMMA NameMeansConfigured ==
  ASSUME FitNames, NEW s \in Shims, NEW data \in Files, ShapedFile(data)
  PROVE  ContainsName(data, s) => Configured(data, s)
<1> SUFFICES ASSUME ContainsName(data, s) PROVE Configured(data, s)
  OBVIOUS
<1>1. PICK text \in data : \E i \in DOMAIN text : <<s, text[i][2]>> \in Mentions
  BY DEF ContainsName
<1>2. PICK i \in DOMAIN text : <<s, text[i][2]>> \in Mentions
  BY <1>1
<1>3. text[i][2] = s
  BY <1>2 DEF FitNames
<1>6. text[i][1] \in {"runtime", "options"}
  <2>1. text \in Seq(Lines) /\ text[i] \in Lines
    BY <1>2 DEF Files
  <2>2. text[i][2] \notin FileVersions /\ text[i][2] \notin Options
    BY <1>3 DEF FitNames
  <2> QED
    BY <2>1, <2>2 DEF Lines, VersionLine, OptionLine, RuntimeLine, OptionsLine
<1>4. Shaped(text)
  BY DEF ShapedFile
<1>5. CASE text[i][1] = "options"
  <2>1. i = 2 /\ text[1][1] = "runtime" /\ text[1][2] = s
    BY <1>3, <1>4, <1>5 DEF Shaped
  <2>2. 1 \in DOMAIN text
    <3>1. text \in Seq(Lines)
      BY DEF Files
    <3> QED
      BY <1>2, <2>1, <3>1
  <2> QED
    BY <2>1, <2>2 DEF Configured
<1> QED
  BY <1>2, <1>3, <1>5, <1>6 DEF Configured

------------------------------------------------------------------------------
(* Steps.                                                                   *)

\* What Fit says of the scene that is played.
LEMMA SceneFits ==
  ASSUME TypeOK, Fit
  PROVE  /\ FitNode(scene) /\ FitOverlap(scene) /\ FitOptions(scene) /\ FitNames
         /\ scene \in Scenes /\ scene.reads \in Paths
         /\ \A options \in scene.options : IsFiniteSet(options)
<1>1. scene \in Scenes
  BY DEF TypeOK, HostTypeOK
<1> QED
  BY <1>1, ScenesAssumption DEF Fit, Paths

\* The scene does not change.
LEMMA SceneStays == ASSUME NEW j \in Jobs, StepOf(j) PROVE scene' = scene
<1>1. CASE NoFault
  BY <1>1 DEF NoFault, bounds
<1>2. CASE Fault
  BY <1>2 DEF Fault
<1>3. CASE StartJob(j)
  BY <1>3 DEF StartJob
<1> QED
  BY <1>1, <1>2, <1>3 DEF StepOf, Killed, Download, Detect, Setup, SetupCreates,
     SetupCopies, Open, Get, Remove, WriteTruncates, Write, Copy, AddRuntime,
     AppendConfig, RemoveRuntime, ConfigTruncates, WriteConfig, InstallDbus,
     RestartRuntime

\* Only installers run next to a Job that makes a step.
LEMMA Exclusive ==
  ASSUME Overlapping, FitOverlap(scene), NEW j \in Jobs, StepOf(j),
         NEW k \in Jobs, k # j, job[k] = "running"
  PROVE  j[2] = "install" /\ k[2] = "install" /\ scene.overlap # {} /\ j[1] # k[1]
<1>1. j[1] # k[1] /\ {k[2], j[2]} \subseteq scene.overlap
  <2>1. CASE StartJob(j)
    BY <2>1 DEF StartJob
  <2>2. CASE ~StartJob(j)
    BY <2>2, StepRuns DEF Overlapping
  <2> QED
    BY <2>1, <2>2
<1> QED
  BY <1>1 DEF FitOverlap

\* Jobs still overlap only where they may.
LEMMA OverlappingStep ==
  ASSUME Overlapping, FitOverlap(scene), NEW j \in Jobs, StepOf(j), Others(j), scene' = scene
  PROVE  Overlapping'
<1>1. ASSUME NEW k \in Jobs, k # j, job[k] = "running"
      PROVE  j[1] # k[1] /\ {k[2], j[2]} \subseteq scene.overlap
  <2>1. CASE StartJob(j)
    BY <1>1, <2>1 DEF StartJob
  <2>2. CASE ~StartJob(j)
    BY <1>1, <2>2, StepRuns DEF Overlapping
  <2> QED
    BY <2>1, <2>2
<1> QED
  BY <1>1 DEF Overlapping, Others

\* A file that is there is the one that containerd reads.
LEMMA FileThere ==
  ASSUME ContractInv, Fit, NEW j \in Jobs, pod[j].pc \notin {"download", "detect", "done"},
         conf[Path(j)] # None
  PROVE  Path(j) = scene.reads
<1>1. TypeOK /\ pod[j].settings \in DetectDistro(scene.host) /\ OthersUntouched
  BY DEF ContractInv, DigestInv, TypeInv, Knows
<1>2. Path(j) \in Paths
  BY <1>1, PodFacts
<1>3. FitNode(scene)
  BY <1>1, SceneFits
<1> QED
  BY <1>1, <1>2, <1>3 DEF FitNode, OthersUntouched, InitialFile, Path

\* A step changes at most the file that containerd reads, and only like this.
LEMMA ConfStep ==
  ASSUME ContractInv, Fit, NEW j \in Jobs, StepOf(j)
  PROVE  LET file == conf[scene.reads] IN
         \/ UNCHANGED conf
         \/ /\ pod[j].pc = "create" \/ (pod[j].pc = "conf" /\ ConfigTruncates(j))
            /\ conf' = [conf EXCEPT ![scene.reads] = {}]
         \/ /\ pod[j].pc = "setupcopy"
            /\ conf' = [conf EXCEPT ![scene.reads] = {<<VersionLine(scene.host.version)>>}]
         \/ /\ pod[j].pc = "append" /\ file # None
            /\ \E cfg \in generateConfig(j[1], pod[j].options, pod[j].data) :
                 conf' = [conf EXCEPT ![scene.reads] = file \cup {cfg}]
         \/ /\ pod[j].pc = "confdata" /\ WriteConfig(j)
            /\ conf' = [conf EXCEPT ![scene.reads] = pod[j].data]
<1>0. TypeInv /\ TypeOK /\ Located(j) /\ Knows(j) /\ OthersUntouched
  BY DEF ContractInv, DigestInv, TypeInv
<1>1. ASSUME pod[j].pc \in {"create", "setupcopy", "append", "conf", "confdata"}
      PROVE  Path(j) = scene.reads
  BY <1>0, <1>1 DEF Knows
<1>2. CASE SetupCreates(j)
  BY <1>1, <1>2 DEF SetupCreates, At
<1>3. CASE SetupCopies(j)
  <2>1. pod[j].pc = "setupcopy" /\ conf' = [conf EXCEPT ![Path(j)] = conf[CutTmpl[Path(j)]]]
    BY <1>3 DEF SetupCopies, At
  <2>2. pod[j].settings.Setup = "copy" /\ conf[CutTmpl[Path(j)]] # None
    BY <1>0, <2>1 DEF Located
  <2>3. CutTmpl[Path(j)] \in Paths \ {Path(j)}
    BY <1>0, <2>1, <2>2, PodFacts
  <2>4. conf[CutTmpl[Path(j)]] = {<<VersionLine(scene.host.version)>>}
    BY <1>0, <1>1, <2>1, <2>2, <2>3 DEF OthersUntouched, InitialFile
  <2> QED
    BY <1>1, <2>1, <2>4
<1>4. CASE AppendConfig(j)
  <2>1. pod[j].pc = "append"
    BY <1>4 DEF AppendConfig, At
  <2>2. PICK cfg \in generateConfig(j[1], pod[j].options, pod[j].data) :
          conf' = [conf EXCEPT ![Path(j)] = @ \cup {cfg}]
    BY <1>4 DEF AppendConfig
  <2>3. Path(j) = scene.reads /\ conf[scene.reads] # None
    BY <1>0, <1>1, <2>1 DEF Located
  <2>4. scene.reads \in Paths /\ conf \in [Paths -> Files \cup {None}]
    BY <1>0, SceneFits DEF TypeOK, HostTypeOK
  <2>5. conf' = [conf EXCEPT ![scene.reads] = conf[scene.reads] \cup {cfg}]
    BY <2>2, <2>3, <2>4
  <2> QED
    BY <2>1, <2>3, <2>5
<1>5. CASE ConfigTruncates(j)
  BY <1>1, <1>5 DEF ConfigTruncates, At
<1>6. CASE WriteConfig(j)
  BY <1>1, <1>6 DEF WriteConfig, At
<1>7. CASE UNCHANGED conf
  BY <1>7
<1> QED
  BY <1>2, <1>3, <1>4, <1>5, <1>6, <1>7 DEF StepOf, StartJob, Killed, Download, Detect,
     Setup, Open, Get, Remove, Copy, WriteTruncates, Write, AddRuntime, RemoveRuntime,
     InstallDbus, RestartRuntime, hostVars, files

\* Next to others an installer only adds to the file.
LEMMA FileGrows ==
  ASSUME ContractInv, Fit, NEW j \in Jobs, StepOf(j), NEW k \in Jobs, k # j,
         job[k] = "running"
  PROVE  \/ UNCHANGED conf
         \/ /\ conf[scene.reads] # None
            /\ \E cfg : conf' = [conf EXCEPT ![scene.reads] = conf[scene.reads] \cup {cfg}]
<1>1. TypeOK /\ Located(j) /\ Knows(j) /\ Overlapping
  BY DEF ContractInv, DigestInv, TypeInv
<1>2. j[2] = "install" /\ scene.overlap # {}
  BY <1>1, SceneFits, Exclusive
<1>3. pod[j].pc \notin {"create", "setupcopy", "conf", "confdata"}
  BY <1>1, <1>2 DEF Knows, Located, InstallPCs
<1> QED
  BY <1>3, ConfStep

\* What the other Jobs know stays true.
LEMMA KnowsOther ==
  ASSUME ContractInv, Fit, FilesStay, NEW j \in Jobs, StepOf(j), Others(j),
         scene' = scene, NEW k \in Jobs, k # j
  PROVE  Knows(k)'
<1>1. /\ TypeOK /\ Located(k) /\ Knows(k) /\ Overlapping
      /\ conf \in [Paths -> Files \cup {None}] /\ scene.reads \in Paths
  BY SceneFits DEF ContractInv, DigestInv, TypeInv, TypeOK, HostTypeOK
<1>2. pod'[k] = pod[k] /\ Path(k)' = Path(k)
  BY DEF Others, Path
<1>3. CASE pod[k].pc = "done"
  BY <1>2, <1>3 DEF Knows
<1>4. CASE pod[k].pc # "done"
  <2>1. job[k] = "running"
    BY <1>1, <1>4 DEF TypeOK, JobTypeOK
  <2>2. k[2] = "install" /\ scene.overlap # {}
    BY <1>1, <2>1, SceneFits, Exclusive
  <2>3. pod[k].pc \notin {"create", "setupcopy", "conf", "confdata"}
    BY <1>1, <2>2 DEF Knows, Located, InstallPCs
  <2>4. conf[scene.reads] # None => /\ conf'[scene.reads] # None
                                    /\ conf[scene.reads] \subseteq conf'[scene.reads]
    <3>1. \/ UNCHANGED conf
          \/ \E cfg : conf' = [conf EXCEPT ![scene.reads] = conf[scene.reads] \cup {cfg}]
      BY <2>1, FileGrows
    <3> QED
      BY <1>1, <3>1 DEF FilesStay
  <2> QED
    BY <1>1, <1>2, <2>2, <2>3, <2>4 DEF Knows, Configured
<1> QED
  BY <1>3, <1>4

\* What a Job knows after its own step.
LEMMA KnowsOwn ==
  ASSUME ContractInv, Fit, None \notin Files, FilesStay, NEW j \in Jobs, StepOf(j),
         scene' = scene
  PROVE  Knows(j)'
<1>0. /\ TypeInv /\ TypeOK /\ JobTypeOK /\ Located(j) /\ Knows(j)
      /\ pod \in [Jobs -> Pods] /\ pod[j] \in Pods /\ j[1] \in Shims
      /\ j[2] \in {"install", "uninstall"} /\ conf \in [Paths -> Files \cup {None}]
      /\ bin \in [Shims -> Contents \cup {Empty, Partial, None}]
  BY DEF ContractInv, DigestInv, TypeInv, TypeOK, JobTypeOK, HostTypeOK, Jobs
<1>1. /\ FitNode(scene) /\ FitOverlap(scene) /\ FitOptions(scene) /\ FitNames
      /\ scene \in Scenes /\ scene.reads \in Paths
      /\ \A options \in scene.options : IsFiniteSet(options)
  BY <1>0, SceneFits
<1>2. ASSUME job[j] = "running", Fail(j) PROVE Knows(j)'
  <2>0. NoPod.pc = "done" /\ FirstCall(j[2]) \in {"download", "detect"}
    BY DEF NoPod, FirstCall
  <2>1. \/ pod'[j].pc = "done"
        \/ pod'[j].pc \in {"download", "detect"} /\ pod'[j].options = pod[j].options
    BY <1>0, <1>2, <2>0, FailFacts
  <2>2. pod[j].pc # "done"
    BY <1>0, <1>2 DEF JobTypeOK
  <2> QED
    BY <1>0, <2>1, <2>2 DEF Knows
<1>3. ASSUME Succeed(j) PROVE Knows(j)'
  <2>1. pod'[j].pc = "done"
    BY <1>0, <1>3, SucceedFacts DEF NoPod
  <2> QED
    BY <2>1 DEF Knows
<1>4. ASSUME pod[j].pc \notin {"download", "detect", "done"},
             pod'[j].options = pod[j].options, pod'[j].settings = pod[j].settings,
             pod'[j].pc \in {"open", "get", "copy", "remove", "lock", "lockdata", "add", "drop"},
             j[2] = "uninstall" /\ pod'[j].pc \in {"lock", "lockdata", "drop"} => bin'[j[1]] = None
      PROVE  Knows(j)'
  BY <1>0, <1>4 DEF Knows
<1>5. ASSUME NEW pc \in PCs, Goto(j, pc)
      PROVE  /\ pod'[j].pc = pc /\ pod'[j].options = pod[j].options
             /\ pod'[j].settings = pod[j].settings /\ pod'[j].data = pod[j].data
             /\ Path(j)' = Path(j)
  <2>1. pod'[j] = [pod[j] EXCEPT !.pc = pc]
    BY <1>0, <1>5 DEF Goto
  <2> QED
    BY <1>0, <2>1 DEF Pods, Path
<1>6. CASE StartJob(j)
  <2>1. pod'[j].pc \in {"download", "detect"} /\ pod'[j].options \in scene.options
    BY <1>0, <1>6, StartFacts DEF FirstCall
  <2> QED
    BY <2>1 DEF Knows
<1>7. CASE Killed(j)
  BY <1>2, <1>7 DEF Killed
<1>8. CASE Download(j)
  <2>1. job[j] = "running" /\ pod[j].pc = "download"
    BY <1>8 DEF Download, At
  <2>2. ASSUME NEW file, pod' = [pod EXCEPT ![j].pc = "detect", ![j].file = file]
        PROVE  Knows(j)'
    <3>1. pod'[j].pc = "detect" /\ pod'[j].options = pod[j].options
      BY <1>0, <2>2 DEF Pods
    <3> QED
      BY <1>0, <2>1, <3>1 DEF Knows
  <2>3. ASSUME pod' = [pod EXCEPT ![j].tries = @ + 1] PROVE Knows(j)'
    <3>1. pod'[j].pc = "download" /\ pod'[j].options = pod[j].options
      BY <1>0, <2>1, <2>3 DEF Pods
    <3> QED
      BY <1>0, <2>1, <3>1 DEF Knows
  <2> QED
    BY <1>2, <1>8, <2>1, <2>2, <2>3 DEF Download
<1>9. CASE Detect(j)
  <2>1. job[j] = "running" /\ pod[j].pc = "detect"
    BY <1>9 DEF Detect, At
  <2>2. ASSUME NEW settings \in DetectDistro(scene.host),
               pod' = [pod EXCEPT ![j].settings = settings,
                         ![j].pc = IF j[2] = "uninstall" THEN "get"
                                   ELSE IF settings.Setup = "none" THEN "open"
                                   ELSE "setup"]
        PROVE  Knows(j)'
    <3>1. /\ pod'[j].pc \in {"get", "open", "setup"} /\ pod'[j].settings = settings
          /\ pod'[j].pc = "setup" => settings.Setup # "none"
          /\ pod'[j].options = pod[j].options
      BY <1>0, <2>2 DEF Pods
    <3> QED
      BY <1>0, <2>1, <3>1 DEF Knows
  <2> QED
    BY <1>2, <1>9, <2>1, <2>2 DEF Detect
<1>10. CASE Setup(j)
  <2>1. job[j] = "running" /\ pod[j].pc = "setup" /\ UNCHANGED conf
    BY <1>10 DEF Setup, At, hostVars, files
  <2>2. CASE Goto(j, "open")
    BY <1>4, <1>5, <2>1, <2>2 DEF PCs
  <2>3. CASE /\ conf[Path(j)] = None /\ Goto(j, "create")
             /\ ~(pod[j].settings.Setup = "copy" /\ conf[CutTmpl[Path(j)]] = None)
    <3>1. pod[j].settings \in DetectDistro(scene.host) /\ pod[j].settings.Setup # "none"
      BY <1>0, <2>1 DEF Knows
    <3>2. pod[j].settings.Setup = "copy" => CutTmpl[Path(j)] \in Paths
      BY <1>0, <2>1, PodFacts
    <3>3. Path(j) = scene.reads
      <4> SUFFICES ASSUME Path(j) # scene.reads PROVE FALSE
        OBVIOUS
      <4>1. pod[j].settings.Setup = "copy"
            /\ CutTmpl[Path(j)] \notin scene.host.files \cup {scene.reads}
        BY <1>1, <3>1 DEF FitNode, Path
      <4>2. conf[CutTmpl[Path(j)]] = None
        BY <3>2, <4>1 DEF ContractInv, OthersUntouched, InitialFile
      <4> QED
        BY <2>3, <4>1, <4>2
    <3>4. scene.reads \notin scene.host.files
      BY <2>3, <3>3 DEF ContractInv
    <3>5. scene.overlap = {}
      BY <1>1, <3>1, <3>3, <3>4 DEF FitOverlap, Path
    <3> QED
      BY <1>0, <1>5, <2>1, <2>3, <3>1, <3>3, <3>5 DEF Knows, PCs
  <2> QED
    BY <1>2, <1>10, <2>1, <2>2, <2>3 DEF Setup
<1>11. CASE SetupCreates(j)
  <2>1. pod[j].pc = "create" /\ conf' = [conf EXCEPT ![Path(j)] = {}]
    BY <1>11 DEF SetupCreates, At
  <2>2. CASE Goto(j, "open")
    BY <1>4, <1>5, <2>1, <2>2 DEF PCs
  <2>3. CASE Goto(j, "setupcopy")
    <3>1. Path(j) = scene.reads /\ conf'[scene.reads] = {} /\ scene.overlap = {}
      BY <1>0, <1>1, <2>1 DEF Knows
    <3> QED
      BY <1>0, <1>5, <2>1, <2>3, <3>1 DEF Knows, PCs
  <2> QED
    BY <1>11, <2>2, <2>3 DEF SetupCreates
<1>12. CASE SetupCopies(j) \/ Open(j)
  <2>1. pod[j].pc \in {"setupcopy", "open"}
    BY <1>12 DEF SetupCopies, Open, At
  <2> QED
    BY <1>4, <1>5, <1>12, <2>1 DEF SetupCopies, Open, PCs
<1>13. CASE Get(j)
  <2>1. job[j] = "running" /\ pod[j].pc = "get"
    BY <1>13 DEF Get, At
  <2>2. ASSUME pod' = [pod EXCEPT ![j].st = lock,
                         ![j].pc = IF j[2] = "install" THEN "copy" ELSE "remove"]
        PROVE  Knows(j)'
    <3>1. /\ pod'[j].pc \in {"copy", "remove"} /\ pod'[j].options = pod[j].options
          /\ pod'[j].settings = pod[j].settings
      BY <1>0, <2>2 DEF Pods
    <3> QED
      BY <1>4, <2>1, <3>1
  <2> QED
    BY <1>2, <1>13, <2>1, <2>2 DEF Get
<1>14. CASE Remove(j)
  <2>1. /\ pod[j].pc = "remove" /\ bin' = [bin EXCEPT ![j[1]] = None]
        /\ pod' = [pod EXCEPT ![j].pc = "lock", ![j].st[j[1]] = None]
    BY <1>14 DEF Remove, At
  <2>2. pod'[j].pc = "lock" /\ pod'[j].options = pod[j].options
        /\ pod'[j].settings = pod[j].settings /\ bin'[j[1]] = None
    BY <1>0, <2>1 DEF Pods
  <2> QED
    BY <1>4, <2>1, <2>2
<1>15. CASE \E file \in Contents \cup {Partial} : Copy(j, file)
  <2>1. PICK file \in Contents \cup {Partial} : Copy(j, file)
    BY <1>15
  <2>2. job[j] = "running" /\ pod[j].pc = "copy" /\ j[2] = "install"
    BY <1>0, <2>1 DEF Copy, At, Located, UninstallPCs
  <2>3. CASE pod' = [pod EXCEPT ![j].pc = "lock", ![j].changed = TRUE, ![j].st[j[1]] = file]
    <3>1. pod'[j].pc = "lock" /\ pod'[j].options = pod[j].options
          /\ pod'[j].settings = pod[j].settings
      BY <1>0, <2>3 DEF Pods
    <3> QED
      BY <1>4, <2>2, <3>1
  <2>4. CASE Goto(j, "add")
    BY <1>4, <1>5, <2>2, <2>4 DEF PCs
  <2> QED
    BY <1>2, <2>1, <2>2, <2>3, <2>4 DEF Copy
<1>16. CASE WriteTruncates(j) \/ Write(j)
  <2>1. job[j] = "running" /\ pod[j].pc \in {"lock", "lockdata"} /\ UNCHANGED bin
    BY <1>16 DEF WriteTruncates, Write, At
  <2>2. j[2] = "uninstall" => bin'[j[1]] = None
    BY <1>0, <2>1 DEF Knows
  <2>3. Fail(j) \/ \E pc \in {"lockdata", "drop", "add"} : Goto(j, pc)
    BY <1>16 DEF WriteTruncates, Write
  <2> QED
    BY <1>2, <1>4, <1>5, <2>1, <2>2, <2>3 DEF PCs
<1>17. ASSUME Finish(j), pod[j].pc \in {"add", "append"}, Path(j) = scene.reads,
              conf'[scene.reads] # None, Configured(conf'[scene.reads], j[1])
       PROVE  Knows(j)'
  <2>1. j[2] = "install"
    BY <1>0, <1>17 DEF Located, UninstallPCs
  <2>2. CASE Goto(j, "dbus")
    BY <1>0, <1>5, <1>17, <2>1, <2>2 DEF Knows, PCs
  <2> QED
    BY <1>3, <1>17, <2>2 DEF Finish
<1>18. CASE AddRuntime(j)
  <2>1. job[j] = "running" /\ pod[j].pc = "add" /\ UNCHANGED conf
    BY <1>18 DEF AddRuntime, At, hostVars, files
  <2>2. conf[Path(j)] # None => Path(j) = scene.reads
    BY <2>1, FileThere
  <2>3. CASE /\ conf[Path(j)] # None /\ ContainsName(conf[Path(j)], j[1]) /\ Finish(j)
    <3>1. conf[scene.reads] \in Files /\ ShapedFile(conf[scene.reads])
      BY <1>0, <1>1, <2>2, <2>3 DEF ContractInv
    <3>2. Configured(conf[scene.reads], j[1])
      BY <1>0, <1>1, <2>2, <2>3, <3>1, NameMeansConfigured
    <3> QED
      BY <1>17, <2>1, <2>2, <2>3, <3>2
  <2>4. CASE conf[Path(j)] # None /\ pod' = [pod EXCEPT ![j].pc = "append", ![j].data = conf[Path(j)]]
    <3>1. pod'[j].pc = "append" /\ pod'[j].options = pod[j].options
          /\ pod'[j].settings = pod[j].settings
      BY <1>0, <2>4 DEF Pods
    <3>2. Path(j)' = scene.reads
      BY <2>2, <2>4, <3>1 DEF Path
    <3> QED
      BY <1>0, <2>1, <3>1, <3>2 DEF Knows
  <2> QED
    BY <1>2, <1>18, <2>1, <2>3, <2>4 DEF AddRuntime
<1>19. CASE AppendConfig(j)
  <2>1. pod[j].pc = "append" /\ Finish(j)
    BY <1>19 DEF AppendConfig, At
  <2>2. Path(j) = scene.reads /\ pod[j].options \in scene.options
    BY <1>0, <2>1 DEF Knows
  <2>3. PICK cfg \in generateConfig(j[1], pod[j].options, pod[j].data) :
          conf' = [conf EXCEPT ![Path(j)] = @ \cup {cfg}]
    BY <1>19 DEF AppendConfig
  <2>4. cfg \in conf'[scene.reads] /\ conf[scene.reads] # None
    BY <1>0, <1>1, <2>1, <2>2, <2>3 DEF Located
  <2>5. 1 \in DOMAIN cfg /\ cfg[1][1] = "runtime" /\ cfg[1][2] = j[1]
    BY <1>0, <1>1, <2>2, <2>3, GeneratedIsShaped
  <2>6. conf'[scene.reads] # None /\ Configured(conf'[scene.reads], j[1])
    BY <1>1, <2>4, <2>5 DEF FilesStay, Configured
  <2> QED
    BY <1>17, <2>1, <2>2, <2>6
<1>20. CASE RemoveRuntime(j)
  <2>1. job[j] = "running" /\ pod[j].pc = "drop" /\ UNCHANGED <<conf, bin>>
    BY <1>20 DEF RemoveRuntime, At, hostVars, files
  <2>2. j[2] = "uninstall" /\ bin'[j[1]] = None /\ pod[j].options \in scene.options
    BY <1>0, <2>1 DEF Located, InstallPCs, Knows
  <2>3. conf[Path(j)] # None => Path(j) = scene.reads
    BY <2>1, FileThere
  <2>4. ASSUME conf[Path(j)] # None,
               NEW cfg \in generateConfig(j[1], pod[j].options, conf[Path(j)]),
               pod' = [pod EXCEPT ![j].pc = "conf",
                         ![j].data = WithoutConfig(conf[Path(j)], cfg)]
        PROVE  Knows(j)'
    <3> DEFINE data == WithoutConfig(conf[Path(j)], cfg)
    <3>1. Path(j) = scene.reads /\ conf[scene.reads] \in Files /\ ShapedFile(conf[scene.reads])
      BY <1>0, <1>1, <2>3, <2>4 DEF ContractInv
    <3>2. cfg \in Seq(Lines)
      <4>1. pod[j].options \in (UNION {sc.options : sc \in Scenes}) \cup {{}}
        BY <1>0 DEF Pods
      <4> QED
        BY <1>0, <4>1, GeneratedTexts
    <3>3. /\ ShapedFile(data)
          /\ \A t \in Shims \ {j[1]} : Configured(data, t) <=> Configured(conf[scene.reads], t)
      BY <1>0, <1>1, <2>2, <3>1, <3>2, RemovalFacts
    <3> HIDE DEF data
    <3>4. /\ pod'[j].pc = "conf" /\ pod'[j].options = pod[j].options
          /\ pod'[j].settings = pod[j].settings /\ pod'[j].data = data
      BY <1>0, <2>4 DEF Pods, data
    <3>5. Path(j)' = scene.reads
      BY <3>1, <3>4 DEF Path
    <3>6. ShapedFile(pod[j].data)'
      BY <3>3, <3>4 DEF ShapedFile, Shaped
    <3> QED
      BY <1>0, <2>1, <2>2, <3>3, <3>4, <3>5, <3>6 DEF Knows
  <2> QED
    BY <1>2, <1>3, <1>20, <2>1, <2>4 DEF RemoveRuntime
<1>21. CASE ConfigTruncates(j)
  <2>1. pod[j].pc = "conf" /\ Goto(j, "confdata") /\ UNCHANGED bin
        /\ conf' = [conf EXCEPT ![Path(j)] = {}]
    BY <1>21 DEF ConfigTruncates, At
  <2>2. /\ pod'[j].pc = "confdata" /\ pod'[j].options = pod[j].options
        /\ pod'[j].settings = pod[j].settings /\ pod'[j].data = pod[j].data
        /\ Path(j)' = Path(j)
    BY <1>5, <2>1 DEF PCs
  <2>3. Path(j) = scene.reads /\ conf'[scene.reads] = {}
    BY <1>0, <1>1, <2>1 DEF Knows
  <2>4. ShapedFile(pod[j].data)'
    BY <1>0, <2>1, <2>2 DEF Knows, ShapedFile, Shaped
  <2> QED
    BY <1>0, <2>1, <2>2, <2>3, <2>4 DEF Knows
<1>22. CASE WriteConfig(j)
  <2>1. pod[j].pc = "confdata" /\ Goto(j, "restart") /\ UNCHANGED bin
        /\ conf' = [conf EXCEPT ![Path(j)] = pod[j].data]
    BY <1>22 DEF WriteConfig, At
  <2>2. /\ pod'[j].pc = "restart" /\ pod'[j].options = pod[j].options
        /\ pod'[j].settings = pod[j].settings /\ Path(j)' = Path(j)
    BY <1>5, <2>1 DEF PCs
  <2>3. Path(j) = scene.reads /\ conf'[scene.reads] = pod[j].data /\ pod[j].data # None
        /\ j[2] = "uninstall"
    BY <1>0, <1>1, <2>1 DEF Knows, Pods, Located, InstallPCs
  <2> QED
    BY <1>0, <2>1, <2>2, <2>3 DEF Knows
<1>23. CASE InstallDbus(j)
  <2>1. job[j] = "running" /\ pod[j].pc = "dbus" /\ UNCHANGED conf /\ j[2] = "install"
    BY <1>0, <1>23 DEF InstallDbus, At, files, Located, UninstallPCs
  <2>2. CASE Goto(j, "restart")
    BY <1>0, <1>5, <2>1, <2>2 DEF Knows, PCs
  <2> QED
    BY <1>2, <1>23, <2>1, <2>2 DEF InstallDbus
<1>24. CASE RestartRuntime(j)
  BY <1>2, <1>3, <1>24 DEF RestartRuntime, At
<1> QED
  BY <1>6, <1>7, <1>8, <1>9, <1>10, <1>11, <1>12, <1>13, <1>14, <1>15, <1>16, <1>18,
     <1>19, <1>20, <1>21, <1>22, <1>23, <1>24 DEF StepOf

\* The file that containerd reads keeps its shape.
LEMMA FileStep ==
  ASSUME ContractInv, Fit, NEW j \in Jobs, StepOf(j), scene' = scene,
         conf'[scene.reads] # None
  PROVE  ShapedFile(conf[scene.reads])'
<1>0. /\ TypeOK /\ Knows(j) /\ j[1] \in Shims
      /\ conf \in [Paths -> Files \cup {None}]
  BY DEF ContractInv, DigestInv, TypeInv, TypeOK, HostTypeOK, Jobs
<1>1. /\ FitOptions(scene) /\ scene.reads \in Paths
      /\ \A options \in scene.options : IsFiniteSet(options)
  BY <1>0, SceneFits
<1> SUFFICES ASSUME NEW text \in conf'[scene.reads] PROVE Shaped(text)
  BY DEF ShapedFile, Shaped
<1>2. CASE conf[scene.reads] # None /\ text \in conf[scene.reads]
  BY <1>2 DEF ContractInv, ShapedFile
<1>3. CASE pod[j].pc = "confdata" /\ text \in pod[j].data
  BY <1>0, <1>3 DEF Knows, ShapedFile
<1>4. CASE text = <<VersionLine(scene.host.version)>>
  BY <1>4 DEF Shaped, VersionLine
<1>5. CASE pod[j].pc = "append" /\ text \in generateConfig(j[1], pod[j].options, pod[j].data)
  <2>1. pod[j].options \in scene.options
    BY <1>0, <1>5 DEF Knows
  <2> QED
    BY <1>0, <1>1, <1>5, <2>1, GeneratedIsShaped
<1>6. CASE UNCHANGED conf
  BY <1>2, <1>6
<1>7. ASSUME NEW data, conf' = [conf EXCEPT ![scene.reads] = data] PROVE text \in data
  BY <1>0, <1>1, <1>7
<1> QED
  BY <1>2, <1>3, <1>4, <1>5, <1>6, <1>7, ConfStep

\* Every step keeps the invariant.
LEMMA ContractStep ==
  ASSUME ContractInv, Fit, None \notin Files, [Next]_vars
  PROVE  ContractInv'
<1>1. DigestInv /\ TypeInv /\ TypeOK /\ DigestInv' /\ FilesStay
  BY DigestStep, HostStep DEF ContractInv, DigestInv, TypeInv
<1>2. CASE UNCHANGED vars
  <2>1. UNCHANGED <<scene, conf, bin, job, pod>>
    BY <1>2 DEF vars, hostVars, files, bounds
  <2>2. Overlapping' /\ OthersUntouched'
    BY <2>1 DEF ContractInv, Overlapping, OthersUntouched, InitialFile
  <2>3. ASSUME NEW k \in Jobs PROVE Knows(k)'
    <3>1. Knows(k)
      BY DEF ContractInv
    <3>2. Knows(k)' = Knows(k)
      BY <2>1 DEF Knows, Path, ShapedFile, Shaped
    <3> QED
      BY <3>1, <3>2
  <2>4. conf'[scene'.reads] # None => ShapedFile(conf[scene.reads])'
    BY <2>1 DEF ContractInv, ShapedFile, Shaped
  <2>5. (scene.reads \in scene.host.files => conf[scene.reads] # None)'
    BY <2>1 DEF ContractInv
  <2> QED
    BY <1>1, <2>2, <2>3, <2>4, <2>5 DEF ContractInv
<1>3. ASSUME NEW j \in Jobs, StepOf(j) PROVE ContractInv'
  <2>1. scene' = scene /\ Others(j) /\ FitOverlap(scene) /\ scene.reads \in Paths
        /\ scene \in Scenes /\ conf \in [Paths -> Files \cup {None}]
    BY <1>1, <1>3, SceneStays, JobStep, SceneFits DEF TypeOK, HostTypeOK
  <2>2. Overlapping'
    BY <1>3, <2>1, OverlappingStep DEF ContractInv
  <2>3. \A p \in Paths \ {scene.reads} : conf'[p] = conf[p]
    <3>1. UNCHANGED conf \/ \E data : conf' = [conf EXCEPT ![scene.reads] = data]
      BY <1>3, ConfStep
    <3> QED
      BY <2>1, <3>1
  <2>4. OthersUntouched'
    BY <2>1, <2>3 DEF ContractInv, OthersUntouched, InitialFile
  <2>5. \A k \in Jobs : Knows(k)'
    BY <1>1, <1>3, <2>1, KnowsOther, KnowsOwn
  <2>6. conf'[scene.reads] # None => ShapedFile(conf[scene.reads])'
    BY <1>3, <2>1, FileStep
  <2>7. scene.reads \in scene.host.files => conf'[scene.reads] # None
    BY <1>1, <2>1 DEF ContractInv, FilesStay
  <2> QED
    BY <1>1, <2>1, <2>2, <2>4, <2>5, <2>6, <2>7 DEF ContractInv
<1> QED
  BY <1>2, <1>3 DEF Next, StepOf

\* The invariant holds at the start.
LEMMA ContractInit == ASSUME Fit, None \notin Files PROVE Init => ContractInv
<1> SUFFICES ASSUME Init PROVE ContractInv
  OBVIOUS
<1>1. DigestInv /\ TypeOK
  BY DigestInit DEF DigestInv, TypeInv
<1>2. scene.reads \in Paths
  BY <1>1, SceneFits
<1>3. \A j \in Jobs : job[j] # "running" /\ pod[j].pc = "done"
  BY DEF Init, NoPod
<1>4. Overlapping /\ \A j \in Jobs : Knows(j)
  BY <1>3 DEF Overlapping, Knows
<1>5. OthersUntouched /\ conf[scene.reads] = InitialFile(scene.reads)
  BY <1>2 DEF Init, OthersUntouched, InitialFile
<1>6. Shaped(<<VersionLine(scene.host.version)>>)
  BY DEF Shaped, VersionLine
<1>7. conf[scene.reads] # None => ShapedFile(conf[scene.reads])
  BY <1>5, <1>6 DEF InitialFile, ShapedFile
<1>8. scene.reads \in scene.host.files => conf[scene.reads] # None
  <2>1. VersionLine(scene.host.version) \in Lines
    BY <1>1, ScenesAssumption DEF TypeOK, HostTypeOK, Lines, FileVersions
  <2>2. {<<VersionLine(scene.host.version)>>} \in Files
    BY <2>1 DEF Files
  <2> QED
    BY <1>5, <2>2 DEF InitialFile
<1> QED
  BY <1>1, <1>4, <1>5, <1>7, <1>8 DEF ContractInv

------------------------------------------------------------------------------
(* The contract.                                                            *)

\* What a step does to the Job that makes it and to its Pod: the Pod goes on,
\* ends without success, or completes the Job.
LEMMA Moves ==
  ASSUME TypeInv, NEW j \in Jobs, StepOf(j), ~StartJob(j)
  PROVE  /\ \/ UNCHANGED job /\ pod'[j].pods = pod[j].pods
            \/ /\ UNCHANGED job /\ pod'[j].pods = pod[j].pods + 1
               /\ pod'[j].pc # "confdata"
            \/ /\ job' = [job EXCEPT ![j] = "failed"] /\ pod'[j].pods = 0
               /\ pod'[j].pc # "confdata"
            \/ /\ job' = [job EXCEPT ![j] = "complete"] /\ Succeed(j) /\ pod'[j].pods = 0
               /\ AddRuntime(j) \/ AppendConfig(j) \/ RemoveRuntime(j) \/ RestartRuntime(j)
         /\ pod'[j].pc = "confdata" => ConfigTruncates(j)
<1>0. job[j] = "running" /\ JobTypeOK /\ pod \in [Jobs -> Pods] /\ pod[j] \in Pods
  BY StepRuns DEF TypeInv, TypeOK, JobTypeOK
<1> DEFINE GoesOn == pod'[j].pc # "confdata" /\ pod'[j].pods = pod[j].pods
           Kept == UNCHANGED job /\ GoesOn
           Failed == /\ pod'[j].pc # "confdata"
                     /\ \/ UNCHANGED job /\ pod'[j].pods = pod[j].pods + 1
                        \/ job' = [job EXCEPT ![j] = "failed"] /\ pod'[j].pods = 0
           Ended == /\ job' = [job EXCEPT ![j] = "complete"]
                    /\ pod'[j].pc # "confdata" /\ pod'[j].pods = 0
<1>1. Fail(j) => Failed
  <2>1. NoPod.pc # "confdata" /\ FirstCall(j[2]) # "confdata" /\ NoPod.pods = 0
    BY DEF NoPod, FirstCall
  <2>2. CASE pod[j].pods < MaxPods
    <3>1. Fail(j) => UNCHANGED job
      BY <2>2 DEF Fail
    <3> QED
      BY <1>0, <2>1, <3>1, FailFacts
  <2>3. CASE ~(pod[j].pods < MaxPods)
    <3>1. Fail(j) => job' = [job EXCEPT ![j] = "failed"] /\ pod'[j] = NoPod
      BY <1>0, <2>3 DEF Fail
    <3> QED
      BY <2>1, <3>1
  <2> QED
    BY <2>2, <2>3
<1>2. Succeed(j) => Ended
  BY <1>0, SucceedFacts DEF Succeed, NoPod
<1>3. ASSUME NEW pc \in PCs \ {"confdata"}, Goto(j, pc) PROVE Kept
  BY <1>0, <1>3 DEF Goto, Pods
<1>4. Finish(j) => Kept \/ (Succeed(j) /\ Ended)
  BY <1>2, <1>3 DEF Finish, PCs
<1>5. CASE Killed(j)
  BY <1>1, <1>5 DEF Killed
<1>6. CASE Download(j)
  <2>1. ASSUME NEW file, pod' = [pod EXCEPT ![j].pc = "detect", ![j].file = file]
        PROVE  GoesOn
    BY <1>0, <2>1 DEF Pods
  <2>2. ASSUME pod' = [pod EXCEPT ![j].tries = @ + 1] PROVE GoesOn
    BY <1>0, <1>6, <2>2 DEF Pods, Download, At
  <2> QED
    BY <1>1, <1>6, <2>1, <2>2 DEF Download
<1>7. CASE Detect(j)
  <2>1. ASSUME NEW settings,
               pod' = [pod EXCEPT ![j].settings = settings,
                         ![j].pc = IF j[2] = "uninstall" THEN "get"
                                   ELSE IF settings.Setup = "none" THEN "open"
                                   ELSE "setup"]
        PROVE  GoesOn
    BY <1>0, <2>1 DEF Pods
  <2> QED
    BY <1>1, <1>7, <2>1 DEF Detect
<1>8. CASE \/ Setup(j) \/ SetupCreates(j) \/ SetupCopies(j) \/ Open(j)
           \/ WriteTruncates(j) \/ Write(j) \/ WriteConfig(j) \/ InstallDbus(j)
  <2>1. \/ Fail(j)
        \/ \E pc \in PCs \ {"confdata"} : Goto(j, pc)
    BY <1>8 DEF Setup, SetupCreates, SetupCopies, Open, WriteTruncates, Write, WriteConfig,
       InstallDbus, PCs
  <2> QED
    BY <1>1, <1>3, <2>1
<1>9. CASE Get(j)
  <2>1. ASSUME pod' = [pod EXCEPT ![j].st = lock,
                         ![j].pc = IF j[2] = "install" THEN "copy" ELSE "remove"]
        PROVE  GoesOn
    BY <1>0, <2>1 DEF Pods
  <2> QED
    BY <1>1, <1>9, <2>1 DEF Get
<1>10. CASE Remove(j)
  BY <1>0, <1>10 DEF Remove, Pods
<1>11. CASE \E file \in Contents \cup {Partial} : Copy(j, file)
  <2>1. PICK file \in Contents \cup {Partial} : Copy(j, file)
    BY <1>11
  <2>2. ASSUME pod' = [pod EXCEPT ![j].pc = "lock", ![j].changed = TRUE, ![j].st[j[1]] = file]
        PROVE  GoesOn
    BY <1>0, <2>2 DEF Pods
  <2> QED
    BY <1>1, <1>3, <2>1, <2>2 DEF Copy, PCs
<1>12. CASE AddRuntime(j)
  <2>1. ASSUME pod' = [pod EXCEPT ![j].pc = "append", ![j].data = conf[Path(j)]]
        PROVE  GoesOn
    BY <1>0, <2>1 DEF Pods
  <2>2. Fail(j) \/ Finish(j) \/ Kept
    BY <1>12, <2>1 DEF AddRuntime
  <2> QED
    BY <1>1, <1>4, <1>12, <2>2
<1>13. CASE AppendConfig(j)
  BY <1>4, <1>13 DEF AppendConfig
<1>14. CASE RemoveRuntime(j)
  <2>1. ASSUME NEW data, pod' = [pod EXCEPT ![j].pc = "conf", ![j].data = data]
        PROVE  GoesOn
    BY <1>0, <2>1 DEF Pods
  <2>2. Fail(j) \/ Succeed(j) \/ Kept
    BY <1>14, <2>1 DEF RemoveRuntime
  <2> QED
    BY <1>1, <1>2, <1>14, <2>2
<1>15. CASE ConfigTruncates(j)
  <2>1. UNCHANGED job /\ pod'[j].pods = pod[j].pods
    BY <1>0, <1>15 DEF ConfigTruncates, Goto, Pods
  <2> QED
    BY <1>15, <2>1
<1>16. CASE RestartRuntime(j)
  <2>1. Fail(j) \/ Succeed(j)
    BY <1>16 DEF RestartRuntime
  <2> QED
    BY <1>1, <1>2, <1>16, <2>1
<1> QED
  BY <1>5, <1>6, <1>7, <1>8, <1>9, <1>10, <1>11, <1>12, <1>13, <1>14, <1>15, <1>16 DEF StepOf

\* What is true when a Job completes.
LEMMA Completes ==
  ASSUME ContractInv, Fit, None \notin Files, FilesStay, NEW j \in Jobs, StepOf(j),
         ~StartJob(j), job'[j] = "complete"
  PROVE  /\ pod[j].pc \in {"add", "append", "drop", "restart"} /\ pod'[j].pc = "done"
         /\ j[2] = "install" => /\ conf'[scene.reads] # None
                                /\ Configured(conf'[scene.reads], j[1])
         /\ j[2] = "uninstall" => bin'[j[1]] = None
<1>0. /\ TypeInv /\ TypeOK /\ JobTypeOK /\ Located(j) /\ Knows(j) /\ j[1] \in Shims
      /\ conf \in [Paths -> Files \cup {None}] /\ job[j] = "running"
      /\ job \in [Jobs -> {"none", "running", "complete", "failed"}]
  BY StepRuns DEF ContractInv, DigestInv, TypeInv, TypeOK, JobTypeOK, HostTypeOK, Jobs
<1>1. /\ FitOptions(scene) /\ FitNames /\ scene.reads \in Paths
      /\ \A options \in scene.options : IsFiniteSet(options)
  BY <1>0, SceneFits
<1>2. Succeed(j) /\ (AddRuntime(j) \/ AppendConfig(j) \/ RemoveRuntime(j) \/ RestartRuntime(j))
  BY <1>0, Moves
<1>3. pod'[j].pc = "done"
  BY <1>0, <1>2, SucceedFacts DEF NoPod
<1>4. CASE AddRuntime(j)
  <2>1. pod[j].pc = "add" /\ UNCHANGED conf /\ job'[j] # "failed" /\ UNCHANGED bin
    BY <1>4 DEF AddRuntime, At, hostVars, files
  <2>2. ~Fail(j) /\ job' # job
    <3>1. Fail(j) => UNCHANGED job \/ job' = [job EXCEPT ![j] = "failed"]
      BY DEF Fail
    <3> QED
      BY <1>0, <3>1
  <2>3. conf[Path(j)] # None /\ ContainsName(conf[Path(j)], j[1])
    BY <1>4, <2>2 DEF AddRuntime
  <2>4. Path(j) = scene.reads
    BY <2>1, <2>3, FileThere
  <2>5. Configured(conf[scene.reads], j[1])
    BY <1>0, <1>1, <2>3, <2>4, NameMeansConfigured DEF ContractInv
  <2>6. j[2] = "install"
    BY <1>0, <2>1 DEF Located, UninstallPCs, Jobs
  <2> QED
    BY <1>3, <2>1, <2>3, <2>4, <2>5, <2>6
<1>5. CASE AppendConfig(j)
  <2>1. pod[j].pc = "append"
    BY <1>5 DEF AppendConfig, At
  <2>2. Path(j) = scene.reads /\ pod[j].options \in scene.options /\ conf[scene.reads] # None
    BY <1>0, <2>1 DEF Knows, Located
  <2>3. PICK cfg \in generateConfig(j[1], pod[j].options, pod[j].data) :
          conf' = [conf EXCEPT ![Path(j)] = @ \cup {cfg}]
    BY <1>5 DEF AppendConfig
  <2>4. cfg \in conf'[scene.reads]
    BY <1>0, <1>1, <2>2, <2>3
  <2>5. 1 \in DOMAIN cfg /\ cfg[1][1] = "runtime" /\ cfg[1][2] = j[1]
    BY <1>0, <1>1, <2>2, <2>3, GeneratedIsShaped
  <2>6. j[2] = "install"
    BY <1>0, <2>1 DEF Located, UninstallPCs, Jobs
  <2> QED
    BY <1>1, <1>3, <2>1, <2>2, <2>4, <2>5, <2>6 DEF FilesStay, Configured
<1>6. CASE RemoveRuntime(j)
  <2>1. pod[j].pc = "drop" /\ UNCHANGED bin /\ j[2] = "uninstall"
    BY <1>0, <1>6 DEF RemoveRuntime, At, hostVars, files, Located, InstallPCs, Jobs
  <2> QED
    BY <1>0, <1>3, <2>1 DEF Knows
<1>7. CASE RestartRuntime(j)
  <2>1. pod[j].pc = "restart" /\ UNCHANGED <<bin, conf>>
    BY <1>7 DEF RestartRuntime, At, files
  <2> QED
    BY <1>0, <1>3, <2>1 DEF Knows
<1> QED
  BY <1>2, <1>4, <1>5, <1>6, <1>7

\* The file with what j is about to write, if it is between truncating and writing.
FileOf(j) == IF conf[scene.reads] = None THEN {}
             ELSE IF pod[j].pc = "confdata" THEN pod[j].data ELSE conf[scene.reads]
WritingOf(j) == IF pod[j].pc = "confdata" THEN {j} ELSE {}

\* That is Current, and that is Writing, when nobody else is there.
OneWriter ==
  \A j \in Jobs :
    ContractInv /\ (\A k \in Jobs \ {j} : pod[k].pc # "confdata") =>
      Current = FileOf(j) /\ Writing = WritingOf(j)

\* At most the Job in question is in the set Writing.
LEMMA CurrentIs == OneWriter
<1> SUFFICES ASSUME NEW j \in Jobs, ContractInv, \A k \in Jobs \ {j} : pod[k].pc # "confdata"
             PROVE  Current = FileOf(j) /\ Writing = WritingOf(j)
  BY DEF OneWriter
<1>1. Knows(j) /\ TypeOK
  BY DEF ContractInv, DigestInv, TypeInv
<1>2. Writing = WritingOf(j)
  <2>1. pod[j].pc = "confdata" => Path(j) = scene.reads /\ job[j] = "running"
    BY <1>1 DEF Knows, TypeOK, JobTypeOK
  <2> QED
    BY <2>1 DEF Writing, WritingOf, At
<1>3. UNION {pod[k].data : k \in Writing} = IF pod[j].pc = "confdata" THEN pod[j].data ELSE {}
  BY <1>2 DEF WritingOf
<1>4. pod[j].pc = "confdata" => conf[scene.reads] = {}
  BY <1>1 DEF Knows
<1> QED
  BY <1>2, <1>3, <1>4 DEF Current, FileOf

\* Nobody else is there when a Job makes a step, nor after it.
LEMMA CurrentStep ==
  ASSUME ContractInv, ContractInv', Fit, NEW j \in Jobs, StepOf(j), Others(j)
  PROVE  /\ Current = FileOf(j) /\ Current' = FileOf(j)'
         /\ Writing = WritingOf(j) /\ Writing' = WritingOf(j)'
<1>1. ASSUME NEW k \in Jobs \ {j} PROVE pod[k].pc # "confdata" /\ pod'[k].pc # "confdata"
  <2>1. TypeOK /\ Located(k) /\ Overlapping
    BY DEF ContractInv, DigestInv, TypeInv
  <2>2. job[k] = "running" => k[2] = "install"
    BY <2>1, SceneFits, Exclusive
  <2>3. pod[k].pc # "confdata"
    BY <2>1, <2>2 DEF TypeOK, JobTypeOK, Located, InstallPCs
  <2> QED
    BY <2>3 DEF Others
<1>2. OneWriter'
  BY CurrentIs, PTL
<1> QED
  BY <1>1, <1>2, CurrentIs DEF OneWriter

\* A step leaves the runtimes of other shims, but for an uninstaller that is
\* killed between truncating and writing.
LEMMA OtherRuntimes ==
  ASSUME ContractInv, ContractInv', Fit, FilesStay, NEW j \in Jobs, StepOf(j), Others(j), scene' = scene
  PROVE  \/ /\ pod[j].pc # "confdata" \/ WriteConfig(j)
            /\ \A t \in Shims \ {j[1]} : Configured(FileOf(j)', t) <=> Configured(FileOf(j), t)
         \/ /\ pod[j].pc = "confdata" /\ Killed(j) /\ FileOf(j)' = {}
<1>0. /\ TypeInv /\ TypeOK /\ JobTypeOK /\ Located(j) /\ Knows(j) /\ j[1] \in Shims
      /\ conf \in [Paths -> Files \cup {None}] /\ scene.reads \in Paths
      /\ FitOptions(scene) /\ \A options \in scene.options : IsFiniteSet(options)
  BY SceneFits DEF ContractInv, DigestInv, TypeInv, TypeOK, HostTypeOK, Jobs
<1> DEFINE file == conf[scene.reads]
           new == conf'[scene.reads]
           Same == \A t \in Shims \ {j[1]} : Configured(FileOf(j)', t) <=> Configured(FileOf(j), t)
<1>1. CASE ConfigTruncates(j)
  <2>1. /\ pod[j].pc = "conf" /\ Goto(j, "confdata") /\ conf' = [conf EXCEPT ![Path(j)] = {}]
    BY <1>1 DEF ConfigTruncates, At
  <2>2. pod'[j].pc = "confdata" /\ pod'[j].data = pod[j].data
    BY <1>0, <2>1 DEF Goto, JobTypeOK, Pods
  <2>3. Path(j) = scene.reads /\ file # None
        /\ \A t \in Shims \ {j[1]} : Configured(pod[j].data, t) <=> Configured(file, t)
    BY <1>0, <2>1 DEF Knows, Located
  <2>4. FileOf(j) = file
    BY <2>1, <2>3 DEF FileOf
  <2>5. new # None
    BY <1>0, <2>3 DEF FilesStay
  <2>6. FileOf(j)' = pod[j].data
    BY <2>2, <2>5 DEF FileOf
  <2> QED
    BY <2>1, <2>3, <2>4, <2>6
<1>2. CASE WriteConfig(j)
  <2>1. /\ pod[j].pc = "confdata" /\ Goto(j, "restart")
        /\ conf' = [conf EXCEPT ![Path(j)] = pod[j].data]
    BY <1>2 DEF WriteConfig, At
  <2>2. pod'[j].pc = "restart"
    BY <1>0, <2>1 DEF Goto, JobTypeOK, Pods
  <2>3. Path(j) = scene.reads /\ file # None
    BY <1>0, <2>1 DEF Knows, Located
  <2>4. FileOf(j) = pod[j].data
    BY <2>1, <2>3 DEF FileOf
  <2>5. new = pod[j].data
    BY <1>0, <2>1, <2>3
  <2>6. FileOf(j)' = pod[j].data
    <3>1. Knows(j)'
      BY DEF ContractInv
    <3>2. new # None
      BY <2>2, <3>1 DEF Knows
    <3> QED
      BY <2>2, <2>5, <3>2 DEF FileOf
  <2> QED
    BY <1>2, <2>4, <2>6
<1>3. CASE pod[j].pc = "confdata" /\ ~WriteConfig(j)
  <2>1. job[j] = "running"
    BY <1>0, <1>3 DEF JobTypeOK
  <2>2. Killed(j)
    BY <1>3, <2>1 DEF StepOf, StartJob, Download, Detect, Setup, SetupCreates, SetupCopies,
       Open, Get, Remove, WriteTruncates, Write, Copy, AddRuntime, AppendConfig,
       RemoveRuntime, ConfigTruncates, InstallDbus, RestartRuntime, At
  <2>3. UNCHANGED conf /\ Fail(j)
    BY <2>2 DEF Killed, hostVars, files
  <2>4. pod'[j].pc # "confdata"
    <3>1. NoPod.pc # "confdata" /\ FirstCall(j[2]) # "confdata"
      BY DEF NoPod, FirstCall
    <3> QED
      BY <1>0, <2>1, <2>3, <3>1, FailFacts
  <2>5. FileOf(j)' = {}
    BY <1>0, <1>3, <2>3, <2>4 DEF Knows, FileOf
  <2> QED
    BY <1>3, <2>2, <2>5
<1>4. CASE ~ConfigTruncates(j) /\ pod[j].pc # "confdata"
  <2>1. pod'[j].pc # "confdata"
    <3>1. CASE StartJob(j)
      BY <1>0, <3>1, StartFacts DEF FirstCall
    <3>2. CASE ~StartJob(j)
      BY <1>0, <1>4, <3>2, Moves
    <3> QED
      BY <3>1, <3>2
  <2>2. /\ FileOf(j) = IF file = None THEN {} ELSE file
        /\ FileOf(j)' = IF new = None THEN {} ELSE new
    BY <1>4, <2>1 DEF FileOf
  <2> HIDE DEF file, new
  <2>3. CASE UNCHANGED conf
    BY <1>4, <2>2, <2>3 DEF file, new
  <2>4. CASE pod[j].pc = "create" /\ conf' = [conf EXCEPT ![scene.reads] = {}]
    <3>1. file = None /\ new = {}
      BY <1>0, <2>4 DEF Knows, file, new
    <3> QED
      BY <1>4, <2>2, <3>1
  <2>5. CASE /\ pod[j].pc = "setupcopy"
             /\ conf' = [conf EXCEPT ![scene.reads] = {<<VersionLine(scene.host.version)>>}]
    <3>1. file = {} /\ new = {<<VersionLine(scene.host.version)>>}
      BY <1>0, <2>5 DEF Knows, file, new
    <3>2. \A t : ~Configured({<<VersionLine(scene.host.version)>>}, t) /\ ~Configured({}, t)
      BY DEF Configured, VersionLine
    <3> QED
      BY <1>4, <2>2, <3>1, <3>2
  <2>6. ASSUME pod[j].pc = "append", file # None,
               NEW cfg \in generateConfig(j[1], pod[j].options, pod[j].data),
               conf' = [conf EXCEPT ![scene.reads] = file \cup {cfg}]
        PROVE  Same
    <3>1. new = file \cup {cfg}
      BY <1>0, <2>6 DEF new
    <3>2. new # None
      BY <1>0, <2>6 DEF FilesStay, file, new
    <3>3. \A i \in DOMAIN cfg : cfg[i][1] = "runtime" => cfg[i][2] = j[1]
      <4>1. pod[j].options \in scene.options
        BY <1>0, <2>6 DEF Knows
      <4> QED
        BY <1>0, <4>1, GeneratedIsShaped
    <3> QED
      BY <2>2, <2>6, <3>1, <3>2, <3>3 DEF Configured
  <2> QED
    BY <1>4, <2>3, <2>4, <2>5, <2>6, ConfStep DEF file
<1> QED
  BY <1>1, <1>2, <1>3, <1>4

\* Every step is one of the contract, or invisible to it.
LEMMA ContractRefines ==
  ASSUME ContractInv, Fit, None \notin Files, [Next]_vars
  PROVE  [Contract!Next]_(Contract!contractVars)
<1>0. ContractInv' /\ DigestInv /\ TypeInv /\ TypeOK /\ FilesStay
      /\ job \in [Jobs -> {"none", "running", "complete", "failed"}]
  BY ContractStep, HostStep DEF ContractInv, DigestInv, TypeInv, TypeOK, JobTypeOK
<1> DEFINE usable == [s \in Shims |-> Usable(s)]
           pods == [k \in Jobs |-> pod[k].pods]
<1>1. CASE UNCHANGED vars
  <2>1. UNCHANGED <<scene, conf, bin, job, pod>>
    BY <1>1 DEF vars, hostVars, files, bounds
  <2>2. (\A s \in Shims : Usable(s)' = Usable(s)) /\ Writing' = Writing
    BY <2>1 DEF Usable, Current, Writing, At, Path
  <2> QED
    BY <2>1, <2>2 DEF Contract!contractVars
<1>2. ASSUME NEW j \in Jobs, StepOf(j) PROVE Contract!Next
  <2>1. Others(j) /\ scene' = scene /\ j \in Contract!ContractJobs /\ j[1] \in Shims
        /\ j[2] \in {"install", "uninstall"}
    BY <1>0, <1>2, JobStep, SceneStays DEF Jobs, Contract!ContractJobs
  <2>2. Current = FileOf(j) /\ Current' = FileOf(j)'
    BY <1>0, <1>2, <2>1, CurrentStep
  <2>3. \A t \in Shims : t # j[1] \/ job[j] # "running" => bin'[t] = bin[t]
    BY <1>0, <1>2, OwnBinary
  <2>6. Writing = WritingOf(j) /\ Writing' = WritingOf(j)'
    BY <1>0, <1>2, <2>1, CurrentStep
  <2>7. pods' = [pods EXCEPT ![j] = pod'[j].pods]
    BY <2>1 DEF Others
  <2>4. CASE StartJob(j)
    <3>1. UNCHANGED <<conf, bin>> /\ job[j] # "running" /\ job' = [job EXCEPT ![j] = "running"]
      BY <2>4 DEF StartJob, hostVars, files
    <3>2. pod[j].pc # "confdata" /\ pod'[j].pc # "confdata" /\ pod'[j].pods = 1
      BY <1>0, <2>4, <3>1, StartFacts DEF TypeOK, JobTypeOK, FirstCall
    <3>3. Current' = Current /\ Writing' = Writing
      BY <2>1, <2>2, <2>6, <3>1, <3>2 DEF FileOf, WritingOf
    <3>4. \A s \in Shims : Usable(s)' = Usable(s)
      BY <3>1, <3>3 DEF Usable
    <3>5. Contract!Start(j)
      BY <2>7, <3>1, <3>2, <3>3, <3>4 DEF Contract!Start
    <3> QED
      BY <2>1, <3>5 DEF Contract!Next
  <2>5. CASE ~StartJob(j)
    <3>1. job[j] = "running" /\ pod[j] \in Pods /\ pod[j].pods \in Nat
      BY <1>0, <1>2, <2>5, StepRuns, BoundsAssumption DEF TypeOK, JobTypeOK, Pods
    <3> DEFINE GoesOn == UNCHANGED job /\ pod'[j].pods = pod[j].pods
               Ends == /\ pod'[j].pc # "confdata"
                       /\ \/ UNCHANGED job /\ pod'[j].pods = pod[j].pods + 1
                          \/ job' = [job EXCEPT ![j] = "failed"] /\ pod'[j].pods = 0
               Completed == job' = [job EXCEPT ![j] = "complete"] /\ pod'[j].pods = 0
    <3>2. GoesOn \/ Ends \/ Completed
      BY <1>0, <1>2, <2>5, Moves
    <3>5. Ends => Contract!PodEnds(j)
      BY <2>1, <2>7, <3>1 DEF Contract!PodEnds, Jobs
    <3>6. WriteConfig(j) => ~Ends /\ ~Completed
      <4>1. WriteConfig(j) => UNCHANGED job /\ pod'[j].pods = pod[j].pods
        BY <1>0, <3>1 DEF WriteConfig, Goto, TypeOK, JobTypeOK, Pods
      <4> QED
        BY <1>0, <3>1, <4>1
    <3>3. CASE /\ pod[j].pc # "confdata" \/ WriteConfig(j)
               /\ \A t \in Shims \ {j[1]} : Configured(FileOf(j)', t) <=> Configured(FileOf(j), t)
      <4>1. \A t \in Shims \ {j[1]} : Usable(t)' = Usable(t)
        BY <2>2, <2>3, <3>3 DEF Usable
      <4>2. usable' = [usable EXCEPT ![j[1]] = Usable(j[1])']
        BY <2>1, <4>1
      <4>3. Usable(j[1])' \in BOOLEAN
        BY DEF Usable
      <4>6. Contract!TouchesOwn(j)
        BY <4>2, <4>3 DEF Contract!TouchesOwn
      <4>4. CASE GoesOn
        <5>1. \/ Writing' = Writing
              \/ j[2] = "uninstall" /\ Writing' = Writing \cup {j}
              \/ j \in Writing /\ Writing' = Writing \ {j}
          <6>1. CASE pod'[j].pc = "confdata" /\ pod[j].pc # "confdata"
            <7>1. pod[j].pc = "conf" /\ Located(j)
              BY <1>0, <1>2, <2>5, <6>1, Moves DEF ConfigTruncates, At, TypeInv
            <7>2. j[2] = "uninstall"
              BY <2>1, <7>1 DEF Located, InstallPCs, Jobs
            <7> QED
              BY <2>6, <6>1, <7>2 DEF WritingOf
          <6> QED
            BY <2>6, <6>1 DEF WritingOf
        <5>2. pods' = pods
          BY <2>7, <4>4
        <5>3. Contract!Work(j)
          BY <3>1, <4>4, <4>6, <5>1, <5>2 DEF Contract!Work
        <5> QED
          BY <2>1, <5>3 DEF Contract!Next
      <4>7. CASE Ends
        <5>1. j \notin Writing /\ Writing' = Writing
          BY <2>6, <3>3, <3>6, <4>7 DEF WritingOf
        <5>2. Contract!PodFails(j)
          BY <3>5, <4>6, <4>7, <5>1 DEF Contract!PodFails
        <5> QED
          BY <2>1, <5>2 DEF Contract!Next
      <4>5. CASE Completed
        <5>1. job'[j] = "complete"
          BY <1>0, <4>5
        <5>2. /\ pod'[j].pc = "done"
              /\ j[2] = "install" => /\ conf'[scene.reads] # None
                                     /\ Configured(conf'[scene.reads], j[1])
              /\ j[2] = "uninstall" => bin'[j[1]] = None
          BY <1>0, <1>2, <2>5, <5>1, Completes
        <5>3. j[2] = "install" => bin'[j[1]] \in Contents
          <6> SUFFICES ASSUME j[2] = "install" PROVE bin'[j[1]] \in Contents
            OBVIOUS
          <6>1. j = <<j[1], "install">>
            BY DEF Jobs
          <6>2. bin'[j[1]] = pod[j].file
            BY <1>0, <2>1, <3>1, <5>1, <6>1, DigestStep
          <6>3. pod[j].pc \in {"add", "append", "drop", "restart"}
            BY <1>0, <1>2, <2>5, <5>1, Completes
          <6> QED
            BY <1>0, <2>1, <6>1, <6>2, <6>3 DEF DigestInv, Digest
        <5>4. j[2] = "install" => Configured(Current', j[1])
          BY <2>1, <2>2, <5>2 DEF FileOf
        <5>5. Usable(j[1])' <=> (j[2] = "install")
          BY <2>1, <5>2, <5>3, <5>4, MarkersAssumption DEF Usable
        <5>6. Usable(j[1])' = (j[2] = "install")
          BY <4>3, <5>5
        <5>8. j \notin Writing /\ Writing' = Writing
          BY <2>6, <3>3, <3>6, <4>5, <5>2 DEF WritingOf
        <5>7. Contract!Complete(j)
          BY <2>7, <3>1, <4>2, <4>5, <5>6, <5>8 DEF Contract!Complete
        <5> QED
          BY <2>1, <5>7 DEF Contract!Next
      <4> QED
        BY <3>2, <4>4, <4>5, <4>7
    <3>4. CASE pod[j].pc = "confdata" /\ Killed(j) /\ FileOf(j)' = {}
      <4>1. \A s \in Shims : Usable(s)' = FALSE
        BY <2>2, <3>4 DEF Usable, Configured
      <4>2. usable' = [s \in Shims |-> usable[s] /\ s \notin Shims]
        BY <4>1
      <4>3. Ends
        <5>1. ~GoesOn
          BY <1>0, <3>1, <3>4, FailFacts DEF Killed, TypeOK, NoPod
        <5>2. ~Completed
          BY <1>0, <3>1, <3>4, FailFacts DEF Killed, TypeOK
        <5> QED
          BY <3>2, <5>1, <5>2
      <4>4. j \in Writing /\ Writing' = Writing \ {j}
        BY <2>6, <3>4, <4>3 DEF WritingOf
      <4>5. Contract!UninstallerDies(j)
        BY <3>5, <4>2, <4>3, <4>4 DEF Contract!UninstallerDies
      <4> QED
        BY <2>1, <4>5 DEF Contract!Next
    <3> QED
      BY <1>0, <1>2, <2>1, <3>3, <3>4, OtherRuntimes
  <2> QED
    BY <2>4, <2>5
<1> QED
  BY <1>1, <1>2 DEF Next, StepOf

\* On nodes that fit the installer keeps the contract that the manager's labels
\* rest on: for any shims, archives, options and hosts, any number of Jobs,
\* retries and faults, an install Job completes only with a usable shim, an
\* uninstall Job without, and nobody else's Job takes a shim away, neither by its
\* work nor by failing, but for the step in which the Pod of an uninstaller ends
\* between truncating the file and writing it.
THEOREM ContractKept ==
  ASSUME Fit, None \notin Files PROVE Spec => InstallerContract
<1>1. Init => Contract!Init
  <2> SUFFICES ASSUME Init PROVE Contract!Init
    OBVIOUS
  <2>1. \A s \in Shims : Usable(s) = FALSE
    BY MarkersAssumption DEF Init, NoLock, Usable
  <2>2. Writing = {}
    BY DEF Init, Writing, At
  <2> QED
    BY <2>1, <2>2 DEF Init, Contract!Init, Jobs, Contract!ContractJobs, NoPod
<1>2. Init => ContractInv
  BY ContractInit
<1>3. ContractInv /\ [Next]_vars => ContractInv'
  BY ContractStep
<1>4. ContractInv /\ [Next]_vars => [Contract!Next]_(Contract!contractVars)
  BY ContractRefines
<1> QED
  BY <1>1, <1>2, <1>3, <1>4, PTL DEF Spec, InstallerContract, Contract!Spec

------------------------------------------------------------------------------
(* Restarting.                                                              *)

\* Min chooses an element: strict inclusion of the intervals 1..i is well founded.
LEMMA MinChooses ==
  ASSUME NEW n \in Nat, NEW S \in SUBSET (1..n), S # {} PROVE Min(S) \in S
<1> DEFINE R == StrictSubsetOrdering(1..n)
           T == {1..i : i \in S}
<1>1. IsWellFoundedOn(R, FiniteSubsetsOf(1..n))
  BY FS_StrictSubsetOrderingWellFounded
<1>2. T \subseteq FiniteSubsetsOf(1..n) /\ T # {}
  <2>1. ASSUME NEW i \in S PROVE 1..i \subseteq 1..n /\ IsFiniteSet(1..i)
    BY FS_Interval
  <2> QED
    BY <2>1 DEF FiniteSubsetsOf
<1> HIDE DEF R, T
<1>3. PICK X \in T : \A Y \in T : ~(<<Y, X>> \in R)
  BY <1>1, <1>2, WFMin, Zenon
<1>4. PICK x \in S : X = 1..x
  BY <1>3 DEF T
<1>5. ASSUME NEW y \in S, y < x PROVE FALSE
  <2>1. 1..y \in T /\ 1..y \subseteq 1..x /\ x \in 1..x /\ x \notin 1..y
    BY <1>5 DEF T
  <2>2. 1..y \in SUBSET (1..n) /\ 1..x \in SUBSET (1..n) /\ 1..y # 1..x
    BY <2>1
  <2>3. <<1..y, 1..x>> \in R
    BY <2>1, <2>2 DEF R, StrictSubsetOrdering
  <2> QED
    BY <1>3, <1>4, <2>1, <2>3
<1>6. \E z \in S : \A y \in S : z <= y
  <2>1. \A y \in S : x <= y
    BY <1>5
  <2> QED
    BY <2>1
<1> QED
  BY <1>6 DEF Min

\* A Restarter that finds something restarts one of these.
LEMMA RestarterFinds ==
  ASSUME NEW h, h.units \in Seq(STRING)
  PROVE  /\ \A unit : RestartUnit(h, unit) # "" =>
              /\ RestartUnit(h, unit) = unit /\ h.systemd
              /\ \E i \in DOMAIN h.units : h.units[i] = unit
         /\ \A names : FindString(h, names) # "" => FindString(h, names) \in names
<1>1. ASSUME NEW names, FindString(h, names) # "" PROVE FindString(h, names) \in names
  <2> DEFINE hits == {i \in DOMAIN h.units : h.units[i] \in names}
  <2>1. hits # {} /\ FindString(h, names) = h.units[Min(hits)]
    BY <1>1 DEF FindString
  <2>2. Len(h.units) \in Nat /\ hits \in SUBSET (1..Len(h.units))
    OBVIOUS
  <2> HIDE DEF hits
  <2>3. Min(hits) \in hits
    BY <2>1, <2>2, MinChooses
  <2> QED
    BY <2>1, <2>3 DEF hits
<1> QED
  BY <1>1 DEF RestartUnit

\* On nodes that fit, that is what runs the kubelet's containerd.
LEMMA RestarterFits ==
  ASSUME FitService, scene \in Scenes, NEW st \in DetectDistro(scene.host),
         st.ConfigPath = scene.reads, Restart(scene.host, st.Restarter) # ""
  PROVE  Restart(scene.host, st.Restarter) = scene.kubelet
<1> DEFINE h == scene.host
           service == Restart(h, st.Restarter)
<1>0. h.units \in Seq(STRING)
  BY ScenesAssumption
<1>1. /\ \A unit \in Family(scene.reads) :
           (IF h.systemd THEN \E i \in DOMAIN h.units : h.units[i] = unit
            ELSE unit \in {"PID 1", "containerd process"}) => unit = scene.kubelet
      /\ bindFlags(h) \notin {RKE2Tmpl, K3sTmpl, K0sDropIn}
  BY DEF FitService
<1>2. /\ \A unit : RestartUnit(h, unit) # "" =>
           /\ RestartUnit(h, unit) = unit /\ h.systemd
           /\ \E i \in DOMAIN h.units : h.units[i] = unit
      /\ \A names : FindString(h, names) # "" => FindString(h, names) \in names
  BY <1>0, RestarterFinds
<1>3. \/ st \in {MicroK8s, RKE2, K3s, K0s, Default}
      \/ st = WithConfigPath(Default, bindFlags(h)) /\ bindFlags(h) # MicroK8sPath
  BY DEF DetectDistro, containerdConfigLocations
<1>4. ASSUME service \in Family(scene.reads),
             IF h.systemd THEN \E i \in DOMAIN h.units : h.units[i] = service
             ELSE service \in {"PID 1", "containerd process"}
      PROVE  service = scene.kubelet
  BY <1>1, <1>4
<1>5. ASSUME NEW unit \in Family(scene.reads), service = RestartUnit(h, unit)
      PROVE  service = scene.kubelet
  BY <1>1, <1>2, <1>5
<1>6. CASE st = MicroK8s
  <2>1. st.Restarter = "microk8s" /\ scene.reads = MicroK8sPath
    BY <1>6 DEF MicroK8s, WithRestarter, WithConfigPath, Default
  <2>2. service = RestartUnit(h, "snap.microk8s.daemon-containerd")
    BY <2>1 DEF Restart, MicroK8sRestart
  <2>3. "snap.microk8s.daemon-containerd" \in Family(scene.reads)
    BY <2>1 DEF Family, RKE2Tmpl, MicroK8sPath, K3sTmpl, K0sDropIn
  <2> QED
    BY <1>5, <2>2, <2>3
<1>7. ASSUME NEW names \in SUBSET Family(scene.reads),
             service = RestartUnit(h, FindString(h, names))
      PROVE  service = scene.kubelet
  <2>1. FindString(h, names) # ""
    BY <1>2, <1>7
  <2> QED
    BY <1>2, <1>5, <1>7, <2>1
<1>8. CASE st = RKE2
  <2>1. st.Restarter = "rke2" /\ scene.reads = RKE2Tmpl
    BY <1>8 DEF RKE2, WithSetup, WithRestarter, WithConfigPath, Default
  <2>2. service = RestartUnit(h, FindString(h, {"rke2-agent", "rke2-server"}))
    BY <2>1 DEF Restart, RKE2Restart
  <2>3. {"rke2-agent", "rke2-server"} \in SUBSET Family(scene.reads)
    BY <2>1 DEF Family, RKE2Tmpl, MicroK8sPath, K3sTmpl, K0sDropIn
  <2> QED
    BY <1>7, <2>2, <2>3
<1>9. CASE st = K3s
  <2>1. st.Restarter = "k3s" /\ scene.reads = K3sTmpl
    BY <1>9 DEF K3s, RKE2, WithSetup, WithRestarter, WithConfigPath, Default
  <2>2. service = IF h.systemd THEN RestartUnit(h, "k3s") ELSE "PID 1"
    BY <2>1 DEF Restart, K3sRestart
  <2>3. {"k3s", "PID 1"} \subseteq Family(scene.reads)
    BY <2>1 DEF Family, RKE2Tmpl, MicroK8sPath, K3sTmpl, K0sDropIn
  <2> QED
    BY <1>4, <1>5, <2>2, <2>3
<1>10. CASE st = K0s
  <2>1. st.Restarter = "k0s" /\ scene.reads = K0sDropIn
    BY <1>10 DEF K0s, WithSetup, WithRestarter, WithConfigPath, Default
  <2>2. service = RestartUnit(h, FindString(h, {"k0sworker", "k0scontroller"}))
    BY <2>1 DEF Restart, K0sRestart
  <2>3. {"k0sworker", "k0scontroller"} \in SUBSET Family(scene.reads)
    BY <2>1 DEF Family, RKE2Tmpl, MicroK8sPath, K3sTmpl, K0sDropIn
  <2> QED
    BY <1>7, <2>2, <2>3
<1>11. CASE st = Default \/ (st = WithConfigPath(Default, bindFlags(h))
                             /\ bindFlags(h) # MicroK8sPath)
  <2>0. defaultContainerdConfigLocation \notin {MicroK8sPath, RKE2Tmpl, K3sTmpl, K0sDropIn}
    BY DEF defaultContainerdConfigLocation, MicroK8sPath, RKE2Tmpl, K3sTmpl, K0sDropIn
  <2>1. st.Restarter = "default"
        /\ scene.reads \notin {MicroK8sPath, RKE2Tmpl, K3sTmpl, K0sDropIn}
    <3>1. /\ Default.Restarter = "default" /\ Default.ConfigPath = defaultContainerdConfigLocation
          /\ \A path : /\ WithConfigPath(Default, path).Restarter = "default"
                       /\ WithConfigPath(Default, path).ConfigPath = path
      BY DEF Default, WithConfigPath
    <3> QED
      BY <1>1, <1>11, <2>0, <3>1
  <2>2. service \in {RestartUnit(h, "containerd"), "containerd process"}
        /\ (h.systemd => service = RestartUnit(h, "containerd"))
    BY <2>1 DEF Restart, DefaultRestart
  <2>3. {"containerd", "containerd process"} \subseteq Family(scene.reads)
    BY <2>1 DEF Family
  <2> QED
    BY <1>4, <1>5, <2>2, <2>3
<1> QED
  BY <1>3, <1>6, <1>8, <1>9, <1>10, <1>11

\* On nodes that fit the Restarter fits the file: for any shims, hosts, Jobs and
\* faults, a Job that completes with the restart leaves the containerd that the
\* kubelet uses with what it did to the file.
THEOREM RuntimeReloaded ==
  ASSUME Fit, FitService, None \notin Files PROVE Spec => KubeletRuntimeReloaded
<1> DEFINE A == \A j \in Jobs :
                  At(j, "restart") /\ job'[j] = "complete" =>
                    /\ Configured(loaded', j[1]) = Configured(conf'[Path(j)], j[1])
                    /\ j[2] = "install" => Configured(loaded', j[1])
<1>1. Init => ContractInv
  BY ContractInit
<1>2. ContractInv /\ [Next]_vars => ContractInv'
  BY ContractStep
<1>3. ContractInv /\ [Next]_vars => [A]_vars
  <2> SUFFICES ASSUME ContractInv, [Next]_vars, NEW j \in Jobs, At(j, "restart"),
                      job'[j] = "complete"
               PROVE  /\ Configured(loaded', j[1]) = Configured(conf'[Path(j)], j[1])
                      /\ j[2] = "install" => Configured(loaded', j[1])
    OBVIOUS
  <2>0. /\ TypeInv /\ TypeOK /\ Knows(j) /\ FilesStay /\ scene \in Scenes
        /\ job[j] = "running" /\ pod[j].pc = "restart"
        /\ job \in [Jobs -> {"none", "running", "complete", "failed"}]
    BY HostStep DEF ContractInv, DigestInv, TypeInv, TypeOK, HostTypeOK, JobTypeOK, At
  <2>1. PICK k \in Jobs : StepOf(k)
    BY <2>0 DEF Next, StepOf, vars
  <2>2. k = j
    BY <2>0, <2>1, JobStep DEF Others
  <2>3. ~StartJob(j)
    BY <2>0 DEF StartJob
  <2>4. RestartRuntime(j) /\ Succeed(j)
    BY <2>0, <2>1, <2>2, <2>3, Moves DEF AddRuntime, AppendConfig, RemoveRuntime, At
  <2> DEFINE service == Restart(scene.host, pod[j].settings.Restarter)
  <2>5. ~Fail(j)
    BY <2>0 DEF Fail
  <2>6. service # "" /\ loaded' = LoadedBy(service) /\ UNCHANGED conf
    BY <2>4, <2>5 DEF RestartRuntime, files
  <2>7. /\ Path(j) = scene.reads /\ pod[j].settings \in DetectDistro(scene.host)
        /\ conf[scene.reads] # None
        /\ j[2] = "install" => Configured(conf[scene.reads], j[1])
    BY <2>0 DEF Knows
  <2>8. service = scene.kubelet
    BY <2>0, <2>6, <2>7, RestarterFits DEF Path
  <2>9. loaded' = conf'[Path(j)]
    BY <2>6, <2>7, <2>8 DEF LoadedBy
  <2> QED
    BY <2>6, <2>7, <2>9
<1> HIDE DEF A
<1>4. Spec => [][A]_vars
  BY <1>1, <1>2, <1>3, PTL DEF Spec
<1> QED
  BY <1>4 DEF KubeletRuntimeReloaded, A

------------------------------------------------------------------------------
(* Uninstalling.  With one order of the options a shim's text is removed    *)
(* as a whole or not at all.                                                *)

Whole(text) ==
  /\ Len(text) >= 1
  /\ \/ text[1][1] = "version"
     \/ text[1][1] = "runtime" /\ Len(text) = IF {} \in scene.options THEN 1 ELSE 3
WholeFile(data) == \A text \in data : Whole(text)

Removed(s, options, data) == \A cfg \in generateConfig(s, options, data) : cfg \notin data

\* What an uninstaller knows.
Leaves(u) ==
  LET p == pod[u] s == u[1] IN
  /\ p.pc \in {"lock", "lockdata"} => p.st[s] = None
  /\ p.pc \in {"drop", "conf", "confdata", "restart"} => lock # Empty /\ lock[s] = None
  /\ p.pc \in {"conf", "confdata"} => WholeFile(p.data) /\ Removed(s, p.options, p.data)
  /\ p.pc = "restart" => Removed(s, p.options, conf[scene.reads])

UninstallInv ==
  /\ ContractInv
  /\ conf[scene.reads] # None => WholeFile(conf[scene.reads])
  /\ \A u \in Jobs : u[2] = "uninstall" => Leaves(u)

\* There is one text for a shim in a file, and it is whole.
LEMMA OneText ==
  ASSUME OneOption, scene \in Scenes, FitOptions(scene), NEW s \in Shims,
         NEW options \in scene.options, IsFiniteSet(options),
         NEW data, NEW cfg \in generateConfig(s, options, data)
  PROVE  /\ Whole(cfg) /\ Len(cfg) = IF {} \in scene.options THEN 1 ELSE 3
         /\ generateConfig(s, options, data) = {cfg}
<1> DEFINE head == RuntimeLine(s, Domain(data))
           table == OptionsLine(s, Domain(data))
<1>0. MadeOf(cfg, s, options, Domain(data))
  BY GeneratedShape
<1>1. Len(cfg) >= 1 /\ cfg[1][1] = "runtime"
  BY <1>0 DEF MadeOf, RuntimeLine
<1>2. CASE options = {}
  <2>1. generateConfig(s, options, data) = {<<head>>}
    BY <1>2 DEF generateConfig
  <2>2. cfg = <<head>> /\ Len(cfg) = 1 /\ {} \in scene.options
    BY <1>2, <2>1
  <2> QED
    BY <1>1, <2>1, <2>2 DEF Whole
<1>3. CASE options # {}
  <2>1. PICK a \in options : options = {a}
    BY <1>3 DEF OneOption
  <2>2. Cardinality(options) = 1
    BY <2>1, FS_Singleton
  <2> DEFINE only == [i \in 1..1 |-> a]
             tail == [i \in DOMAIN only |-> OptionLine(only[i])]
  <2>3. Seqs!SetToSeqs(options) \subseteq {only}
    <3>1. ASSUME NEW order \in Seqs!SetToSeqs(options) PROVE order = only
      <4>1. order \in [1..1 -> options]
        BY <2>2 DEF Seqs!SetToSeqs, Seqs!Cardinality, Cardinality
      <4> QED
        BY <2>1, <4>1
    <3> QED
      BY <3>1
  <2>4. PICK order \in Seqs!SetToSeqs(options) :
          cfg = <<head, table>> \o [i \in DOMAIN order |-> OptionLine(order[i])]
    BY <1>3 DEF generateConfig
  <2>5. order = only /\ Seqs!SetToSeqs(options) = {only}
    BY <2>3, <2>4
  <2>6. generateConfig(s, options, data) =
          {<<head, table>> \o [i \in DOMAIN o |-> OptionLine(o[i])] : o \in {only}}
    BY <1>3, <2>5 DEF generateConfig
  <2> HIDE DEF only
  <2>7. cfg = <<head, table>> \o tail /\ generateConfig(s, options, data) = {cfg}
    BY <2>4, <2>5, <2>6
  <2>8. Len(cfg) = 3
    BY <1>0, <1>3, <2>2 DEF MadeOf
  <2>9. {} \notin scene.options
    BY <1>3 DEF FitOptions
  <2> QED
    BY <1>1, <2>7, <2>8, <2>9 DEF Whole
<1> QED
  BY <1>2, <1>3

\* So it is removed from a file of whole texts, and nothing else is.
LEMMA WholeRemoval ==
  ASSUME OneOption, scene \in Scenes, FitOptions(scene), NEW s \in Shims,
         NEW options \in scene.options, IsFiniteSet(options),
         NEW data \in Files, WholeFile(data),
         NEW cfg \in generateConfig(s, options, data), cfg \in Seq(Lines)
  PROVE  /\ WholeFile(WithoutConfig(data, cfg))
         /\ Removed(s, options, WithoutConfig(data, cfg))
<1> DEFINE rest(text) == SubSeq(text, Len(cfg) + 1, Len(text))
           cut(text) == IF Seqs!IsPrefix(cfg, text) THEN rest(text) ELSE text
           left == WithoutConfig(data, cfg)
<1>1. /\ Len(cfg) = IF {} \in scene.options THEN 1 ELSE 3
      /\ generateConfig(s, options, data) = {cfg}
  BY OneText
<1>2. /\ Len(cfg) \in Nat /\ Len(cfg) >= 1 /\ DOMAIN cfg = 1..Len(cfg)
      /\ cfg[1][1] = "runtime"
      /\ \A i \in DOMAIN cfg : cfg[i] # VersionLine(3)
  <2>1. MadeOf(cfg, s, options, Domain(data))
    BY GeneratedShape
  <2>2. ASSUME NEW i \in 1..Len(cfg) PROVE cfg[i] # VersionLine(3)
    <3>1. i = 1 \/ i = 2 \/ i \in 3..Len(cfg)
      BY <2>1 DEF MadeOf
    <3>2. cfg[i][1] \in {"runtime", "options", "option"}
      <4>1. cfg[1][1] = "runtime"
        BY <2>1 DEF MadeOf, RuntimeLine
      <4>2. i = 2 => cfg[2][1] = "options"
        <5>1. i = 2 => options # {}
          BY <2>1, <2>2 DEF MadeOf
        <5> QED
          BY <2>1, <5>1 DEF MadeOf, OptionsLine
      <4>3. i \in 3..Len(cfg) => cfg[i][1] = "option"
        BY <2>1 DEF MadeOf
      <4> QED
        BY <3>1, <4>1, <4>2, <4>3
    <3> QED
      BY <3>2 DEF VersionLine
  <2> QED
    BY <2>1, <2>2 DEF MadeOf, RuntimeLine
<1>3. ASSUME NEW text \in data, Seqs!IsPrefix(cfg, text) PROVE text = cfg /\ rest(text) = <<>>
  <2>1. text \in Seq(Lines) /\ Len(text) \in Nat
    BY DEF Files
  <2>2. Len(cfg) <= Len(text) /\ SubSeq(cfg, 1, Len(cfg)) = SubSeq(text, 1, Len(cfg))
    BY <1>3 DEF Seqs!IsPrefix
  <2>3. SubSeq(cfg, 1, Len(cfg))[1] = cfg[1] /\ SubSeq(text, 1, Len(cfg))[1] = text[1]
    BY <1>2, <2>1, <2>2
  <2>4. text[1][1] = "runtime"
    BY <1>2, <2>2, <2>3
  <2>5. Len(text) = Len(cfg)
    BY <1>1, <2>4 DEF WholeFile, Whole
  <2>6. SubSeq(cfg, 1, Len(cfg)) = cfg /\ SubSeq(text, 1, Len(text)) = text
    BY <1>2, <2>1
  <2> QED
    BY <1>2, <2>1, <2>2, <2>5, <2>6
<1>4. Seqs!IsPrefix(cfg, cfg)
  BY <1>2 DEF Seqs!IsPrefix
<1>5. left = {cut(text) : text \in data} \ {<<>>}
  BY DEF WithoutConfig
<1> HIDE DEF rest, left
<1>6. <<>> \notin data
  BY DEF WholeFile, Whole
<1>7. left = data \ {cfg}
  BY <1>3, <1>4, <1>5, <1>6
<1>8. WholeFile(left)
  BY <1>7 DEF WholeFile
<1>9. Domain(left) = Domain(data)
  BY <1>2, <1>7 DEF Domain
<1>10. generateConfig(s, options, left) = {cfg}
  BY <1>1, <1>9 DEF generateConfig
<1> QED
  BY <1>7, <1>8, <1>10 DEF Removed, left

\* The file that containerd reads stays one of whole texts.
LEMMA WholeStep ==
  ASSUME UninstallInv, Fit, OneOption, NEW j \in Jobs, StepOf(j), scene' = scene,
         conf'[scene.reads] # None
  PROVE  WholeFile(conf[scene.reads])'
<1>0. /\ ContractInv /\ TypeOK /\ Knows(j) /\ Located(j) /\ j[1] \in Shims
      /\ conf \in [Paths -> Files \cup {None}] /\ j[2] \in {"install", "uninstall"}
  BY DEF UninstallInv, ContractInv, DigestInv, TypeInv, TypeOK, HostTypeOK, Jobs
<1>1. /\ FitOptions(scene) /\ scene.reads \in Paths /\ scene \in Scenes
      /\ \A options \in scene.options : IsFiniteSet(options)
  BY <1>0, SceneFits
<1> SUFFICES ASSUME NEW text \in conf'[scene.reads] PROVE Whole(text)
  BY DEF WholeFile, Whole
<1>2. CASE conf[scene.reads] # None /\ text \in conf[scene.reads]
  BY <1>2 DEF UninstallInv, WholeFile
<1>3. CASE pod[j].pc = "confdata" /\ text \in pod[j].data
  <2>1. j[2] = "uninstall"
    BY <1>0, <1>3 DEF Located, InstallPCs
  <2> QED
    BY <1>3, <2>1 DEF UninstallInv, Leaves, WholeFile
<1>4. CASE text = <<VersionLine(scene.host.version)>>
  BY <1>4 DEF Whole, VersionLine
<1>5. CASE pod[j].pc = "append" /\ text \in generateConfig(j[1], pod[j].options, pod[j].data)
  <2>1. pod[j].options \in scene.options
    BY <1>0, <1>5 DEF Knows
  <2> QED
    BY <1>0, <1>1, <1>5, <2>1, OneText
<1>6. CASE UNCHANGED conf
  BY <1>2, <1>6
<1>7. ASSUME NEW data, conf' = [conf EXCEPT ![scene.reads] = data] PROVE text \in data
  BY <1>0, <1>1, <1>7
<1> QED
  BY <1>0, <1>2, <1>3, <1>4, <1>5, <1>6, <1>7, ConfStep

\* What an uninstaller knows after its own step.
LEMMA LeavesOwn ==
  ASSUME UninstallInv, ContractInv', Fit, OneOption, NEW u \in Jobs, u[2] = "uninstall",
         StepOf(u), scene' = scene
  PROVE  Leaves(u)'
<1>0. /\ ContractInv /\ TypeOK /\ JobTypeOK /\ Knows(u) /\ Located(u) /\ Leaves(u)
      /\ u[1] \in Shims /\ pod \in [Jobs -> Pods] /\ pod[u] \in Pods
      /\ conf \in [Paths -> Files \cup {None}]
  BY DEF UninstallInv, ContractInv, DigestInv, TypeInv, TypeOK, HostTypeOK, JobTypeOK, Jobs
<1>1. /\ FitOptions(scene) /\ scene.reads \in Paths /\ scene \in Scenes
      /\ \A options \in scene.options : IsFiniteSet(options)
  BY <1>0, SceneFits
<1>2. ASSUME pod'[u].pc \in {"done", "detect", "get", "remove"} PROVE Leaves(u)'
  BY <1>2 DEF Leaves
<1>3. ASSUME job[u] = "running", Fail(u) PROVE Leaves(u)'
  <2>1. NoPod.pc = "done" /\ FirstCall(u[2]) = "detect"
    BY DEF NoPod, FirstCall
  <2> QED
    BY <1>0, <1>2, <1>3, <2>1, FailFacts
<1>4. ASSUME Succeed(u) PROVE Leaves(u)'
  BY <1>0, <1>2, <1>4, SucceedFacts DEF NoPod
<1>5. ASSUME NEW pc \in PCs, Goto(u, pc)
      PROVE  /\ pod'[u].pc = pc /\ pod'[u].options = pod[u].options
             /\ pod'[u].st = pod[u].st /\ pod'[u].data = pod[u].data
  <2>1. pod'[u] = [pod[u] EXCEPT !.pc = pc]
    BY <1>0, <1>5 DEF Goto
  <2> QED
    BY <1>0, <2>1 DEF Pods
<1>6. CASE StartJob(u)
  <2>1. pod'[u].pc = "detect"
    BY <1>0, <1>6, StartFacts DEF FirstCall
  <2> QED
    BY <1>2, <2>1
<1>7. CASE Killed(u)
  BY <1>3, <1>7 DEF Killed
<1>8. CASE \/ Download(u) \/ Setup(u) \/ SetupCreates(u) \/ SetupCopies(u) \/ Open(u)
           \/ (\E file \in Contents \cup {Partial} : Copy(u, file))
           \/ AddRuntime(u) \/ AppendConfig(u) \/ InstallDbus(u)
  <2>1. pod[u].pc \notin UninstallPCs
    BY <1>8 DEF Download, Setup, SetupCreates, SetupCopies, Open, Copy, AddRuntime,
       AppendConfig, InstallDbus, At, UninstallPCs
  <2> QED
    BY <1>0, <2>1 DEF Located
<1>9. CASE Detect(u)
  <2>1. ASSUME NEW settings,
               pod' = [pod EXCEPT ![u].settings = settings,
                         ![u].pc = IF u[2] = "uninstall" THEN "get"
                                   ELSE IF settings.Setup = "none" THEN "open"
                                   ELSE "setup"]
        PROVE  pod'[u].pc = "get"
    BY <1>0, <2>1 DEF Pods
  <2> QED
    BY <1>2, <1>3, <1>9, <2>1 DEF Detect, At
<1>10. CASE Get(u)
  <2>1. ASSUME pod' = [pod EXCEPT ![u].st = lock,
                         ![u].pc = IF u[2] = "install" THEN "copy" ELSE "remove"]
        PROVE  pod'[u].pc = "remove"
    BY <1>0, <2>1 DEF Pods
  <2> QED
    BY <1>2, <1>3, <1>10, <2>1 DEF Get, At
<1>11. CASE Remove(u)
  <2>1. pod' = [pod EXCEPT ![u].pc = "lock", ![u].st[u[1]] = None]
    BY <1>11 DEF Remove
  <2>2. pod'[u].pc = "lock" /\ pod'[u].st[u[1]] = None
    BY <1>0, <2>1 DEF Pods, LockFile
  <2> QED
    BY <2>2 DEF Leaves
<1>12. CASE WriteTruncates(u)
  <2>1. pod[u].pc = "lock" /\ Goto(u, "lockdata")
    BY <1>12 DEF WriteTruncates, At
  <2> QED
    BY <1>0, <1>5, <2>1 DEF Leaves, PCs
<1>13. CASE Write(u)
  <2>1. pod[u].pc = "lockdata" /\ Goto(u, "drop") /\ lock' = pod[u].st
    BY <1>13 DEF Write, At
  <2>2. pod[u].st \in LockFile /\ pod[u].st[u[1]] = None
    BY <1>0, <2>1 DEF Pods, Leaves
  <2>3. lock' # Empty /\ lock'[u[1]] = None
    BY <2>1, <2>2, MarkersAssumption
  <2> QED
    BY <1>5, <2>1, <2>3 DEF Leaves, PCs
<1>14. CASE RemoveRuntime(u)
  <2>1. job[u] = "running" /\ pod[u].pc = "drop" /\ UNCHANGED <<conf, lock>>
    BY <1>14 DEF RemoveRuntime, At, hostVars, files
  <2>2. conf[Path(u)] # None => Path(u) = scene.reads
    BY <1>0, <2>1, FileThere
  <2>3. ASSUME conf[Path(u)] # None,
               NEW cfg \in generateConfig(u[1], pod[u].options, conf[Path(u)]),
               pod' = [pod EXCEPT ![u].pc = "conf",
                         ![u].data = WithoutConfig(conf[Path(u)], cfg)]
        PROVE  Leaves(u)'
    <3> DEFINE data == WithoutConfig(conf[Path(u)], cfg)
    <3>1. conf[Path(u)] \in Files /\ WholeFile(conf[Path(u)])
      BY <1>0, <1>1, <2>2, <2>3 DEF UninstallInv
    <3>2. cfg \in Seq(Lines)
      <4>1. pod[u].options \in (UNION {sc.options : sc \in Scenes}) \cup {{}}
        BY <1>0 DEF Pods
      <4> QED
        BY <1>0, <4>1, GeneratedTexts
    <3>3. pod[u].options \in scene.options
      BY <1>0, <2>1 DEF Knows
    <3>4. WholeFile(data) /\ Removed(u[1], pod[u].options, data)
      BY <1>0, <1>1, <2>3, <3>1, <3>2, <3>3, WholeRemoval
    <3> HIDE DEF data
    <3>5. /\ pod'[u].pc = "conf" /\ pod'[u].options = pod[u].options
          /\ pod'[u].data = data
      BY <1>0, <2>3 DEF Pods, data
    <3>6. WholeFile(pod[u].data)'
      BY <3>4, <3>5 DEF WholeFile, Whole
    <3>7. lock' # Empty /\ lock'[u[1]] = None
      BY <1>0, <2>1 DEF Leaves
    <3>8. Removed(u[1], pod[u].options, pod[u].data)'
      BY <3>4, <3>5 DEF Removed
    <3> QED
      BY <3>5, <3>6, <3>7, <3>8 DEF Leaves
  <2> QED
    BY <1>3, <1>4, <1>14, <2>1, <2>3 DEF RemoveRuntime
<1>15. CASE ConfigTruncates(u)
  <2>1. pod[u].pc = "conf" /\ Goto(u, "confdata") /\ UNCHANGED lock
    BY <1>15 DEF ConfigTruncates, At
  <2>2. /\ pod'[u].pc = "confdata" /\ pod'[u].options = pod[u].options
        /\ pod'[u].data = pod[u].data
    BY <1>5, <2>1 DEF PCs
  <2>3. WholeFile(pod[u].data)' /\ Removed(u[1], pod[u].options, pod[u].data)'
    BY <1>0, <2>1, <2>2 DEF Leaves, WholeFile, Whole, Removed
  <2> QED
    BY <1>0, <2>1, <2>2, <2>3 DEF Leaves
<1>16. CASE WriteConfig(u)
  <2>1. pod[u].pc = "confdata" /\ Goto(u, "restart") /\ UNCHANGED lock
        /\ conf' = [conf EXCEPT ![Path(u)] = pod[u].data]
    BY <1>16 DEF WriteConfig, At
  <2>2. pod'[u].pc = "restart" /\ pod'[u].options = pod[u].options
    BY <1>5, <2>1 DEF PCs
  <2>3. conf'[scene.reads] = pod[u].data
    BY <1>0, <1>1, <2>1 DEF Knows
  <2>4. Removed(u[1], pod[u].options, conf[scene.reads])'
    BY <1>0, <2>1, <2>2, <2>3 DEF Leaves, Removed
  <2> QED
    BY <1>0, <2>1, <2>2, <2>4 DEF Leaves
<1>17. CASE RestartRuntime(u)
  BY <1>3, <1>4, <1>17 DEF RestartRuntime, At
<1> QED
  BY <1>6, <1>7, <1>8, <1>9, <1>10, <1>11, <1>12, <1>13, <1>14, <1>15, <1>16, <1>17
     DEF StepOf

\* Every step keeps the invariant: while an uninstaller runs, nobody else does.
LEMMA UninstallStep ==
  ASSUME UninstallInv, Fit, OneOption, None \notin Files, [Next]_vars
  PROVE  UninstallInv'
<1>0. /\ ContractInv /\ ContractInv' /\ TypeInv /\ TypeOK /\ FilesStay
      /\ FitOverlap(scene) /\ Overlapping
  BY ContractStep, HostStep, SceneFits DEF UninstallInv, ContractInv, DigestInv, TypeInv
<1>1. CASE UNCHANGED vars
  <2>1. UNCHANGED <<scene, conf, lock, pod>>
    BY <1>1 DEF vars, hostVars, files, bounds
  <2>2. ASSUME NEW u \in Jobs, u[2] = "uninstall" PROVE Leaves(u)'
    <3>1. Leaves(u)
      BY <2>2 DEF UninstallInv
    <3>2. Leaves(u)' = Leaves(u)
      BY <2>1 DEF Leaves, WholeFile, Whole, Removed
    <3> QED
      BY <3>1, <3>2
  <2>3. conf'[scene'.reads] # None => WholeFile(conf[scene.reads])'
    BY <2>1 DEF UninstallInv, WholeFile, Whole
  <2> QED
    BY <1>0, <2>2, <2>3 DEF UninstallInv
<1>2. ASSUME NEW j \in Jobs, StepOf(j) PROVE UninstallInv'
  <2>1. scene' = scene /\ Others(j)
    BY <1>0, <1>2, SceneStays, JobStep
  <2>2. ASSUME NEW u \in Jobs, u[2] = "uninstall" PROVE Leaves(u)'
    <3>1. CASE u = j
      BY <1>0, <1>2, <2>1, <2>2, <3>1, LeavesOwn
    <3>2. CASE u # j
      <4>1. job[u] # "running"
        BY <1>0, <1>2, <2>2, <3>2, Exclusive
      <4>2. pod'[u].pc = "done"
        BY <1>0, <2>1, <3>2, <4>1 DEF TypeOK, JobTypeOK, Others
      <4> QED
        BY <4>2 DEF Leaves
    <3> QED
      BY <3>1, <3>2
  <2>3. conf'[scene.reads] # None => WholeFile(conf[scene.reads])'
    BY <1>2, <2>1, WholeStep
  <2> QED
    BY <1>0, <2>1, <2>2, <2>3 DEF UninstallInv
<1> QED
  BY <1>1, <1>2 DEF Next, StepOf

\* A text that is not in a file of whole texts has no rest there either.
LEMMA NoRest ==
  ASSUME NEW s \in Shims, NEW options, IsFiniteSet(options), NEW d,
         NEW cfg \in generateConfig(s, options, d), cfg \in Seq(Lines),
         NEW data \in Files, WholeFile(data), cfg \notin data, NEW i \in DOMAIN cfg
  PROVE  SubSeq(cfg, i, Len(cfg)) \notin data
<1>1. MadeOf(cfg, s, options, Domain(d))
  BY GeneratedShape
<1>2. Len(cfg) \in Nat /\ DOMAIN cfg = 1..Len(cfg) /\ i \in 1..Len(cfg)
  OBVIOUS
<1>3. CASE i = 1
  <2>1. SubSeq(cfg, 1, Len(cfg)) = cfg
    OBVIOUS
  <2> QED
    BY <1>3, <2>1
<1>4. CASE i # 1
  <2>1. SubSeq(cfg, i, Len(cfg))[1] = cfg[i]
    BY <1>2
  <2>2. cfg[i][1] \in {"options", "option"}
    <3>1. CASE i = 2
      <4>1. options # {}
        BY <1>1, <1>2, <3>1 DEF MadeOf
      <4> QED
        BY <1>1, <3>1, <4>1 DEF MadeOf, OptionsLine
    <3>2. CASE i # 2
      <4>1. i \in 3..Len(cfg)
        BY <1>2, <1>4, <3>2
      <4> QED
        BY <1>1, <4>1 DEF MadeOf
    <3> QED
      BY <3>1, <3>2
  <2>3. \A text \in data : text[1][1] \in {"version", "runtime"}
    BY DEF WholeFile, Whole
  <2> QED
    BY <2>1, <2>2, <2>3
<1> QED
  BY <1>3, <1>4

\* On nodes that fit, and with one order of the options, an uninstall Job that
\* completes leaves nothing, for any shims, archives and hosts, any number of
\* Jobs, retries and faults: neither binary nor lock file entry nor any rest of
\* the text it was to remove.
THEOREM NothingLeft ==
  ASSUME Fit, OneOption, None \notin Files PROVE Spec => UninstallLeavesNothing
<1> DEFINE A == \A s \in Shims :
                  LET u == <<s, "uninstall">> IN
                  job[u] = "running" /\ job'[u] = "complete" =>
                    /\ bin'[s] = None /\ lock' # Empty /\ lock'[s] = None
                    /\ \A cfg \in generateConfig(s, pod[u].options, conf'[Path(u)]) :
                         \A i \in DOMAIN cfg :
                           SubSeq(cfg, i, Len(cfg)) \notin conf'[Path(u)]
<1>1. Init => UninstallInv
  <2> SUFFICES ASSUME Init PROVE UninstallInv
    OBVIOUS
  <2>1. ContractInv /\ scene.reads \in Paths
    BY ContractInit, SceneFits DEF ContractInv, DigestInv, TypeInv
  <2>2. \A j \in Jobs : Leaves(j)
    BY DEF Init, NoPod, Leaves
  <2>3. conf[scene.reads] = InitialFile(scene.reads)
    BY <2>1 DEF Init, InitialFile
  <2>4. Whole(<<VersionLine(scene.host.version)>>)
    BY DEF Whole, VersionLine
  <2> QED
    BY <2>1, <2>2, <2>3, <2>4 DEF UninstallInv, InitialFile, WholeFile
<1>2. UninstallInv /\ [Next]_vars => UninstallInv'
  BY UninstallStep
<1>3. UninstallInv /\ [Next]_vars => [A]_vars
  <2> SUFFICES ASSUME UninstallInv, [Next]_vars, NEW s \in Shims, NEW u, u = <<s, "uninstall">>,
                      job[u] = "running", job'[u] = "complete"
               PROVE  /\ bin'[s] = None /\ lock' # Empty /\ lock'[s] = None
                      /\ \A cfg \in generateConfig(s, pod[u].options, conf'[Path(u)]) :
                           \A i \in DOMAIN cfg :
                             SubSeq(cfg, i, Len(cfg)) \notin conf'[Path(u)]
    OBVIOUS
  <2>0. /\ ContractInv /\ TypeInv /\ TypeOK /\ FilesStay /\ u \in Jobs /\ u[1] = s
        /\ u[2] = "uninstall" /\ Knows(u) /\ Leaves(u) /\ Located(u)
        /\ job \in [Jobs -> {"none", "running", "complete", "failed"}]
        /\ conf \in [Paths -> Files \cup {None}] /\ pod[u] \in Pods
    BY HostStep DEF UninstallInv, ContractInv, DigestInv, TypeInv, TypeOK, HostTypeOK,
       JobTypeOK, Jobs
  <2>1. PICK k \in Jobs : StepOf(k)
    BY <2>0 DEF Next, StepOf, vars
  <2>2. k = u
    BY <2>0, <2>1, JobStep DEF Others
  <2>3. ~StartJob(u)
    BY <2>0 DEF StartJob
  <2>4. bin'[s] = None
    BY <2>0, <2>1, <2>2, <2>3, Completes
  <2>5. Succeed(u) /\ (RemoveRuntime(u) \/ RestartRuntime(u))
    BY <2>0, <2>1, <2>2, <2>3, Moves
       DEF AddRuntime, AppendConfig, At, Located, UninstallPCs
  <2>6. UNCHANGED <<conf, lock>> /\ pod[u].pc \in {"drop", "restart"}
    BY <2>5 DEF RemoveRuntime, RestartRuntime, At, hostVars, files
  <2>7. lock' # Empty /\ lock'[s] = None
    BY <2>0, <2>6 DEF Leaves
  <2>8. conf[Path(u)] # None /\ (pod[u].pc = "drop" => ~ContainsName(conf[Path(u)], s))
    <3>1. CASE RemoveRuntime(u)
      <4>1. ~Fail(u) /\ job' # job /\ pod[u].pc = "drop"
        BY <2>0, <3>1 DEF Fail, RemoveRuntime, At
      <4> QED
        BY <2>0, <3>1, <4>1 DEF RemoveRuntime
    <3>2. CASE RestartRuntime(u)
      BY <2>0, <3>2 DEF Knows, RestartRuntime, At
    <3> QED
      BY <2>5, <3>1, <3>2
  <2>9. Path(u) = scene.reads
    BY <2>0, <2>6, <2>8, FileThere
  <2>10. /\ pod[u].options \in scene.options /\ FitNames /\ scene.reads \in Paths
         /\ \A options \in scene.options : IsFiniteSet(options)
    BY <2>0, <2>6, SceneFits DEF Knows
  <2>11. conf[scene.reads] \in Files /\ WholeFile(conf[scene.reads])
    BY <2>0, <2>8, <2>9, <2>10 DEF UninstallInv
  <2>12. ASSUME NEW cfg \in generateConfig(s, pod[u].options, conf[scene.reads])
         PROVE  cfg \notin conf[scene.reads]
    <3>1. CASE pod[u].pc = "restart"
      BY <2>0, <2>12, <3>1 DEF Leaves, Removed
    <3>2. CASE pod[u].pc = "drop"
      <4>1. MadeOf(cfg, s, pod[u].options, Domain(conf[scene.reads]))
        BY <2>10, <2>12, GeneratedShape
      <4>2. 1 \in DOMAIN cfg /\ cfg[1][1] = "runtime" /\ cfg[1][2] = s
        BY <4>1 DEF MadeOf, RuntimeLine
      <4> QED
        BY <2>8, <2>9, <2>10, <3>2, <4>2 DEF ContainsName, FitNames
    <3> QED
      BY <2>6, <3>1, <3>2
  <2>13. ASSUME NEW cfg \in generateConfig(s, pod[u].options, conf[scene.reads]),
                NEW i \in DOMAIN cfg
         PROVE  SubSeq(cfg, i, Len(cfg)) \notin conf[scene.reads]
    <3>1. cfg \in Seq(Lines)
      <4>1. pod[u].options \in (UNION {sc.options : sc \in Scenes}) \cup {{}}
        BY <2>0 DEF Pods
      <4> QED
        BY <4>1, GeneratedTexts
    <3> QED
      BY <2>10, <2>11, <2>12, <3>1, NoRest
  <2> QED
    BY <2>4, <2>6, <2>7, <2>9, <2>13
<1> HIDE DEF A
<1>4. Spec => [][A]_vars
  BY <1>1, <1>2, <1>3, PTL DEF Spec
<1> QED
  BY <1>4 DEF UninstallLeavesNothing, A
=============================================================================
