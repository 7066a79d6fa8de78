----------------------- MODULE MCRuntimeClassManager ------------------------
(* Instances of RuntimeClassManager for TLC.                                *)
EXTENDS RuntimeClassManager

amd64 == [os |-> lower("linux"), arch |-> lower("amd64")]
arm64 == [os |-> lower("linux"), arch |-> lower("arm64")]

AnonHTTP  == [platforms |-> <<>>, anonHTTP |-> "url"]
OnlyAmd64 == [platforms |-> <<[os |-> lower("linux"), arch |-> lower("x86_64"),
                               location |-> "url64", sha256 |-> NoDigest]>>,
              anonHTTP |-> "url"]

Recreate == [nodeSelector |-> TRUE, fetch |-> AnonHTTP, runtimeClass |-> "rc",
             handler |-> "h1", rollout |-> "recreate", options |-> "o1"]

\* One spec; one for a cluster of mixed architectures; and specs of which the
\* controller refuses one, another names no RuntimeClass, and the last differs
\* from OneSpec in what is immutable in a Job and in a RuntimeClass.
OneSpec   == {Recreate}
MixedSpec == {[Recreate EXCEPT !.fetch = OnlyAmd64]}
OddSpecs  == {[Recreate EXCEPT !.rollout = "rolling", !.nodeSelector = FALSE],
              [Recreate EXCEPT !.runtimeClass = ""],
              [Recreate EXCEPT !.handler = "h2", !.options = "o2"]}

AllAmd64 == [n \in Nodes |-> amd64]
\* One node is amd64, the others are arm64.
Mixed == LET first == CHOOSE n \in Nodes : TRUE
         IN  [n \in Nodes |-> IF n = first THEN amd64 ELSE arm64]

ClassNames == {"rc"}
=============================================================================
