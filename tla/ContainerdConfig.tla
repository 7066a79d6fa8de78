-------------------------- MODULE ContainerdConfig --------------------------
(***************************************************************************)
(* The text of containerd's configuration file, as internal/containerd     *)
(* (configure.go) makes, finds and removes its parts.                      *)
(*                                                                         *)
(* A file is a set of texts and a text is a sequence of lines: one that    *)
(* tells the version of the file, and for a runtime the line with its      *)
(* table and type, the line with its options table, and a line per option. *)
(* Which text comes first in the file does not matter to this code.        *)
(***************************************************************************)
EXTENDS Naturals, Sequences
Seqs == INSTANCE SequencesExt

CONSTANT Mentions  \* <<s, w>>: the name of shim s occurs in w, which is another
                   \* shim's name, an option, or a line of the distribution's

VersionLine(version) == <<"version", version>>
OptionLine(option) == <<"option", option>>

\* "version = 3" anywhere in the file.
Domain(data) ==
  IF \E text \in data : \E i \in DOMAIN text : text[i] = VersionLine(3)
  THEN "io.containerd.cri.v1.runtime" ELSE "io.containerd.grpc.v1.cri"

RuntimeLine(s, domain) == <<"runtime", s, domain>>
OptionsLine(s, domain) == <<"options", s, domain>>

\* The options come in the order of a Go map: any.
generateConfig(s, options, data) ==
  LET head == RuntimeLine(s, Domain(data))
      table == OptionsLine(s, Domain(data)) IN
  IF options = {} THEN {<<head>>}
  ELSE {<<head, table>> \o [i \in DOMAIN order |-> OptionLine(order[i])] :
          order \in Seqs!SetToSeqs(options)}

\* strings.Contains(data, name of s), wherever in the file that is.
ContainsName(data, s) ==
  \E text \in data : \E i \in DOMAIN text : <<s, text[i][2]>> \in Mentions

\* strings.ReplaceAll(data, cfg, ""): a text that goes on after cfg leaves its
\* other lines in the file.
WithoutConfig(data, cfg) ==
  {IF Seqs!IsPrefix(cfg, text) THEN SubSeq(text, Len(cfg) + 1, Len(text)) ELSE text :
     text \in data} \ {<<>>}

\* The file has the runtime's table.
Configured(data, s) ==
  \E text \in data : \E i \in DOMAIN text :
    text[i][1] = "runtime" /\ text[i][2] = s
=============================================================================
