------------------------------ MODULE MCSafety ------------------------------
(* The instance of the run Safety: two specs that differ in what is         *)
(* immutable in a Job and in a RuntimeClass, and in nothing else, so that   *)
(* they can be exchanged for one another.                                   *)
EXTENDS MCRuntimeClassManager, TLC

CONSTANTS v1, v2

Versioned == {[Recreate EXCEPT !.handler = v, !.options = v] : v \in {v1, v2}}
Symmetric == Permutations({v1, v2})
=============================================================================
