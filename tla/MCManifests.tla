---------------------------- MODULE MCManifests -----------------------------
(***************************************************************************)
(* What goes into a Job's manifest, as a function of the Shim, the node    *)
(* and the operation: the artifact (ArtifactResolution), for every small   *)
(* fetch strategy and every node platform, and the name (JobNames), for    *)
(* all small names.  A Shim is chosen once, then nodes are visited in any  *)
(* order, as recreateStrategyRollout and handleDeleteShim visit the nodes  *)
(* of their lists.                                                         *)
(***************************************************************************)
EXTENDS ArtifactResolution, JobNames, FiniteSets

CONSTANTS MaxPlatforms, \* bound: entries of a platforms list
          MaxNameLength \* bound: characters in the name of a node or a shim

ASSUME BoundsAssumption == MaxPlatforms \in Nat /\ MaxNameLength \in Nat

\* The values the CRD admits (shim_types.go:65-70).
EntryArchs == {lower("amd64"), lower("arm64"), lower("x86_64"), lower("aarch64")}

\* What a kubelet reports: Go's names, in lower case.
NodeArchs == {lower("amd64"), lower("arm64"), lower("arm"), lower("riscv64")}

VARIABLES shim, \* the Shim being rolled out: name, fetch
          node, \* the node being visited: name, os, arch
          op

Entry(i, a) == [os |-> lower("linux"), arch |-> a, location |-> <<i, a>>,
                sha256 |-> IF i = 1 THEN NoDigest ELSE "digest"]

\* Not the location of any entry.
AnonURL == <<0, lower("any")>>

Strategy(as, h) ==
  [platforms |-> [i \in 1..Len(as) |-> Entry(i, as[i])], anonHTTP |-> h]

Strategies ==
  {Strategy(as, h) :
     as \in UNION {[1..k -> EntryArchs] : k \in 0..MaxPlatforms},
     h \in {NoLocation, AnonURL}}

NodePlatforms == [os : {lower("linux"), upper("linux"), lower("windows")},
                  arch : NodeArchs]

\* install is the end of uninstall; names may look like either.
Install == <<"i", "n">>
Uninstall == <<"u", "n">> \o Install

\* Names neither begin nor end with a separator.
Names == {w \in UNION {[1..k -> {"i", "u", "-"}] : k \in 1..MaxNameLength} :
            w[1] # "-" /\ w[Len(w)] # "-"}

\* Strategies, platforms and names are not combined with each other.
AnyName == <<"i">>
AnyFetch == [platforms |-> <<>>, anonHTTP |-> AnonURL]
AnyPlatform == [os |-> lower("linux"), arch |-> lower("amd64")]

Named(name, platform) == [name |-> name, os |-> platform.os, arch |-> platform.arch]

ShimsToRollOut == {[name |-> AnyName, fetch |-> f] : f \in Strategies}
                  \cup {[name |-> w, fetch |-> AnyFetch] : w \in Names}
NodeList == {Named(AnyName, p) : p \in NodePlatforms}
            \cup {Named(w, AnyPlatform) : w \in Names}
Operations == {INSTALL, UNINSTALL}

Init == shim \in ShimsToRollOut /\ node \in NodeList /\ op \in Operations
VisitNode == node' \in NodeList /\ op' \in Operations /\ UNCHANGED shim
Spec == Init /\ [][VisitNode]_<<shim, node, op>>

------------------------------------------------------------------------------
\* The architecture a name stands for, whatever its style.
Arch(w) == CASE w[1] \in {"amd64", "x86_64"}  -> "64-bit x86"
             [] w[1] \in {"arm64", "aarch64"} -> "64-bit arm"
             [] w[1] \in {"arm", "armv7l"}    -> "32-bit arm"
             [] OTHER                         -> w[1]

Fits(p) == p.os[1] = node.os[1] /\ Arch(p.arch) = Arch(node.arch)

Result == resolveArtifactForNode(shim.fetch, node)

\* The artifact a node gets is the one of the first entry made for its
\* operating system and architecture, with that entry's digest; on a node
\* that no entry fits there is none.
FirstFittingEntry ==
  Len(shim.fetch.platforms) > 0 =>
    \/ /\ Result = NoArtifact
       /\ \A i \in DOMAIN shim.fetch.platforms : ~Fits(shim.fetch.platforms[i])
    \/ \E i \in DOMAIN shim.fetch.platforms :
         /\ Fits(shim.fetch.platforms[i])
         /\ \A k \in 1..(i - 1) : ~Fits(shim.fetch.platforms[k])
         /\ Result = [location |-> shim.fetch.platforms[i].location,
                      sha256 |-> shim.fetch.platforms[i].sha256]

\* The anonHTTP location, which is for one unknown architecture, is used only
\* when there is no platforms list at all, and then without a digest.
AnonHTTPOnlyWithoutPlatforms ==
  Result # NoArtifact /\ Result.location = AnonURL =>
    Len(shim.fetch.platforms) = 0 /\ Result.sha256 = NoDigest

\* At least one character of the operation is left.
RoomFor(n, s) == Len(n) + Len(s) + 3 <= K8sNameMaxLength

\* The name m is the name n and more, after a separator.
Extends(m, n) == Len(m) > Len(n) /\ SubSeq(m, 1, Len(n) + 1) = n \o <<"-">>

\* Jobs get each other's names only where they must: a name that has room for
\* one character of the operation belongs to one node, shim and operation,
\* among nodes none of which is called like another and a suffix, and it ends
\* with a letter, as the API server demands.
JobNameIdentifies ==
  RoomFor(node.name, shim.name) =>
    LET name == JobName(node.name, shim.name, op) IN
    /\ name[Len(name)] # "-"
    /\ \A n \in Names, s \in Names, o \in Operations :
         /\ JobName(n, s, o) = name
         /\ RoomFor(n, s) /\ ~Extends(n, node.name) /\ ~Extends(node.name, n)
         => n = node.name /\ s = shim.name /\ o = op

\* The boundary is exact: with one character less, the uninstall Job of a pair
\* is the install Job, which was completed long ago.
UninstallJobIsAnother ==
  RoomFor(node.name, shim.name) <=>
    JobName(node.name, shim.name, INSTALL) # JobName(node.name, shim.name, UNINSTALL)
=============================================================================
