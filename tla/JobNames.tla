------------------------------ MODULE JobNames ------------------------------
(***************************************************************************)
(* The names of the manager's Jobs and RuntimeClasses (createJobManifest   *)
(* and createRuntimeClassManifest of internal/controller/                  *)
(* shim_controller.go).  A name is a sequence of characters; "-" is the    *)
(* one that matters.                                                       *)
(***************************************************************************)
EXTENDS Naturals, Sequences

CONSTANTS K8sNameMaxLength,
          INSTALL, UNINSTALL  \* the operations as they appear in a name

ASSUME LengthAssumption == K8sNameMaxLength \in Nat
ASSUME OperationsAssumption ==
  /\ INSTALL \in Seq(STRING) /\ UNINSTALL \in Seq(STRING)
  /\ INSTALL # <<>> /\ UNINSTALL # <<>> /\ INSTALL[1] # UNINSTALL[1]
  /\ \A i \in 1..Len(INSTALL) : INSTALL[i] # "-"
  /\ \A i \in 1..Len(UNINSTALL) : UNINSTALL[i] # "-"

\* A limit that is off by one.
CutLong(name) ==
  SubSeq(name, 1, IF Len(name) < K8sNameMaxLength + 1 THEN Len(name)
                  ELSE K8sNameMaxLength + 1)

\* name[:nameMax]
Cut(name) ==
  SubSeq(name, 1, IF Len(name) < K8sNameMaxLength THEN Len(name)
                  ELSE K8sNameMaxLength)

\* A name with nothing between node and shim.
JobNameRunTogether(node, shim, operation) ==
  Cut(node \o shim \o <<"-">> \o operation)

JobName(node, shim, operation) ==
  Cut(node \o <<"-">> \o shim \o <<"-">> \o operation)
=============================================================================
