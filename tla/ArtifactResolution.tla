------------------------- MODULE ArtifactResolution -------------------------
(***************************************************************************)
(* How the shim controller picks the artifact a node downloads: the pure   *)
(* functions resolveArtifactForNode, matchesPlatform and normalizeArch of  *)
(* internal/controller/shim_controller.go.                                 *)
(*                                                                         *)
(* A fetch strategy has the fields "platforms" (a sequence of records with *)
(* os, arch, location and sha256) and "anonHTTP" (a location, or           *)
(* NoLocation when the pointer is nil).  A platform is a record with the   *)
(* os and arch that the node's status reports.                             *)
(*                                                                         *)
(* A word is a pair <<word in lower case, spelling>>.  strings.EqualFold   *)
(* compares the first component only; the switch of normalizeArch compares *)
(* the whole word, so it only recognises the lower-case spelling.          *)
(***************************************************************************)
EXTENDS Naturals, Sequences, FiniteSetsExt

CONSTANTS NoLocation, \* AnonHTTP == nil
          NoDigest,   \* SHA256 == ""
          NoArtifact  \* the error result of resolveArtifactForNode

lower(w) == <<w, "lower">>
upper(w) == <<w, "upper">>

EqualFold(a, b) == a[1] = b[1]

normalizeArch(goArch) ==
  CASE goArch = lower("amd64") -> lower("x86_64")
    [] goArch = lower("arm64") -> lower("aarch64")
    [] goArch = lower("arm")   -> lower("armv7l")
    [] OTHER                   -> goArch

\* The rule of the same function without its normalisation.
matchesPlatformExact(p, plat) ==
  EqualFold(p.os, plat.os) /\ EqualFold(p.arch, plat.arch)

matchesPlatform(p, plat) ==
  /\ EqualFold(p.os, plat.os)
  /\ \/ EqualFold(p.arch, plat.arch)
     \/ EqualFold(p.arch, normalizeArch(plat.arch))

MatchingEntries(fetch, plat) ==
  {i \in 1..Len(fetch.platforms) : matchesPlatform(fetch.platforms[i], plat)}

\* A resolution that falls back to anonHTTP when no entry matches.
resolveWithFallback(fetch, plat) ==
  IF MatchingEntries(fetch, plat) # {}
  THEN LET p == fetch.platforms[Min(MatchingEntries(fetch, plat))]
       IN  [location |-> p.location, sha256 |-> p.sha256]
  ELSE IF fetch.anonHTTP # NoLocation
       THEN [location |-> fetch.anonHTTP, sha256 |-> NoDigest]
       ELSE NoArtifact

resolveArtifactForNode(fetch, plat) ==
  IF Len(fetch.platforms) > 0
  THEN IF MatchingEntries(fetch, plat) = {}
       THEN NoArtifact
       ELSE LET p == fetch.platforms[Min(MatchingEntries(fetch, plat))]
            IN  [location |-> p.location, sha256 |-> p.sha256]
  ELSE IF fetch.anonHTTP # NoLocation
       THEN [location |-> fetch.anonHTTP, sha256 |-> NoDigest]
       ELSE NoArtifact
=============================================================================
