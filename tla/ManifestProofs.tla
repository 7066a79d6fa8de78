--------------------------- MODULE ManifestProofs ---------------------------
(***************************************************************************)
(* Theorems about what goes into a Job's manifest: which entry of a        *)
(* platforms list a node gets, for lists of any length, and which Jobs     *)
(* share a name, for names and limits of any length.                       *)
(***************************************************************************)
EXTENDS MCManifests, FiniteSetTheorems, SequenceTheorems, TLAPS

\* The rollout is about a Shim, a node and an operation that there are.
Visiting == shim \in ShimsToRollOut /\ node \in NodeList /\ op \in Operations

LEMMA VisitingStays == Spec => []Visiting
<1>1. Init => Visiting
  BY DEF Init, Visiting
<1>2. Visiting /\ [VisitNode]_<<shim, node, op>> => Visiting'
  BY DEF Visiting, VisitNode
<1> QED
  BY <1>1, <1>2, PTL DEF Spec

------------------------------------------------------------------------------
(* Artifacts.                                                               *)

\* A function on 1..n is a sequence of that length.
LEMMA FunctionIsSeq ==
  ASSUME NEW S, NEW n \in Nat, NEW f \in [1..n -> S]
  PROVE  f \in Seq(S) /\ Len(f) = n
<1>1. f \in Seq(S)
  BY SeqDef, Zenon
<1>2. Len(f) \in Nat /\ DOMAIN f = 1..Len(f) /\ DOMAIN f = 1..n
  BY <1>1, LenProperties
<1>3. \A m \in Nat : m \in 1..Len(f) <=> m \in 1..n
  BY <1>2, Zenon
<1>4. Len(f) <= n /\ n <= Len(f)
  <2>1. CASE Len(f) > n
    BY <1>2, <1>3, <2>1
  <2>2. CASE n > Len(f)
    BY <1>2, <1>3, <2>2
  <2> QED
    BY <1>2, <2>1, <2>2
<1> QED
  BY <1>1, <1>2, <1>4

\* Min is a minimum: strict inclusion of the intervals 1..i is well founded.
LEMMA MinIsLeast ==
  ASSUME NEW n \in Nat, NEW S \in SUBSET (1..n), S # {}
  PROVE  Min(S) \in S /\ \A y \in S : Min(S) <= y
<1> DEFINE R == StrictSubsetOrdering(1..n)
           T == {1..i : i \in S}
<1>1. IsWellFoundedOn(R, FiniteSubsetsOf(1..n))
  BY FS_StrictSubsetOrderingWellFounded
<1>2. T \subseteq FiniteSubsetsOf(1..n) /\ T # {}
  <2>1. ASSUME NEW i \in S PROVE 1..i \subseteq 1..n /\ IsFiniteSet(1..i)
    BY FS_Interval
  <2> QED
    BY <2>1 DEF FiniteSubsetsOf
<1> HIDE DEF R, T
<1>3. PICK X \in T : \A Y \in T : ~(<<Y, X>> \in R)
  BY <1>1, <1>2, WFMin, Zenon
<1>4. PICK x \in S : X = 1..x
  BY <1>3 DEF T
<1>5. ASSUME NEW y \in S, y < x PROVE FALSE
  <2>1. 1..y \in T /\ 1..y \subseteq 1..x /\ x \in 1..x /\ x \notin 1..y
    BY <1>5 DEF T
  <2>2. 1..y \in SUBSET (1..n) /\ 1..x \in SUBSET (1..n) /\ 1..y # 1..x
    BY <2>1
  <2>3. <<1..y, 1..x>> \in R
    BY <2>1, <2>2 DEF R, StrictSubsetOrdering
  <2> QED
    BY <1>3, <1>4, <2>1, <2>3
<1>6. \E z \in S : \A y \in S : z <= y
  <2>1. \A y \in S : x <= y
    BY <1>5
  <2> QED
    BY <2>1
<1> QED
  BY <1>6 DEF Min

\* The strategy's entries.
LEMMA StrategyFacts ==
  ASSUME Visiting
  PROVE  LET ps == shim.fetch.platforms IN
         /\ Len(ps) \in Nat /\ DOMAIN ps = 1..Len(ps)
         /\ \A i \in 1..Len(ps) : /\ ps[i].os = lower("linux") /\ ps[i].arch \in EntryArchs
                                  /\ ps[i].location[1] = i
         /\ node.arch \in NodeArchs
<1> DEFINE ps == shim.fetch.platforms
<1>1. node.arch \in NodeArchs
  BY DEF Visiting, NodeList, Named, NodePlatforms, AnyPlatform, NodeArchs
<1>2. CASE shim.fetch \in Strategies
  <2>1. PICK as \in UNION {[1..k -> EntryArchs] : k \in 0..MaxPlatforms},
             h \in {NoLocation, AnonURL} :
          shim.fetch = Strategy(as, h)
    BY <1>2 DEF Strategies
  <2>2. PICK k \in 0..MaxPlatforms : as \in [1..k -> EntryArchs]
    BY <2>1
  <2>3. k \in Nat /\ as \in Seq(EntryArchs) /\ Len(as) = k
    <3>1. k \in Nat
      BY BoundsAssumption
    <3> QED
      BY <2>2, <3>1, FunctionIsSeq
  <2>4. ps = [i \in 1..k |-> Entry(i, as[i])]
    BY <2>1, <2>3 DEF Strategy
  <2>5. \A i \in 1..k : ps[i] = Entry(i, as[i]) /\ as[i] \in EntryArchs
    BY <2>2, <2>4
  <2>6. \A i \in 1..k : /\ ps[i].os = lower("linux") /\ ps[i].arch \in EntryArchs
                        /\ ps[i].location[1] = i
    <3> SUFFICES ASSUME NEW i \in 1..k
                 PROVE  /\ ps[i].os = lower("linux") /\ ps[i].arch \in EntryArchs
                        /\ ps[i].location[1] = i
      OBVIOUS
    <3>1. ps[i] = Entry(i, as[i]) /\ as[i] \in EntryArchs
      BY <2>5
    <3>2. /\ Entry(i, as[i]).os = lower("linux") /\ Entry(i, as[i]).arch = as[i]
          /\ Entry(i, as[i]).location = <<i, as[i]>>
      BY DEF Entry
    <3>3. <<i, as[i]>>[1] = i
      OBVIOUS
    <3> QED
      BY <3>1, <3>2, <3>3
  <2>7. DOMAIN ps = 1..k /\ Len(ps) = k
    BY <2>3, <2>4
  <2> HIDE DEF ps
  <2> QED
    BY <1>1, <2>3, <2>6, <2>7 DEF ps
<1>3. CASE shim.fetch.platforms = <<>>
  BY <1>1, <1>3
<1> QED
  BY <1>2, <1>3 DEF Visiting, ShimsToRollOut, AnyFetch

\* The normalisation recognises an architecture in both styles, and no other.
LEMMA MatchesIffFits ==
  ASSUME Visiting, NEW p, p.arch \in EntryArchs
  PROVE  matchesPlatform(p, node) <=> Fits(p)
<1> DEFINE a == p.arch[1]
           b == node.arch[1]
<1>1. a \in {"amd64", "arm64", "x86_64", "aarch64"}
  BY DEF EntryArchs, lower
<1>2. node.arch = lower(b) /\ b \in {"amd64", "arm64", "arm", "riscv64"}
  BY StrategyFacts DEF NodeArchs, lower
<1>3. \A v, w : lower(v) = lower(w) <=> v = w
  BY DEF lower
<1>4. normalizeArch(node.arch)[1] = (IF b = "amd64" THEN "x86_64" ELSE IF b = "arm64"
        THEN "aarch64" ELSE IF b = "arm" THEN "armv7l" ELSE b)
  BY <1>2, <1>3 DEF normalizeArch, lower
<1>5. /\ Arch(p.arch) = (IF a \in {"amd64", "x86_64"} THEN "64-bit x86" ELSE "64-bit arm")
      /\ Arch(node.arch) = (IF b = "amd64" THEN "64-bit x86" ELSE IF b = "arm64"
           THEN "64-bit arm" ELSE IF b = "arm" THEN "32-bit arm" ELSE b)
  BY <1>1, <1>2 DEF Arch
<1> HIDE DEF a, b
<1>6. a = b \/ a = normalizeArch(node.arch)[1] <=> Arch(p.arch) = Arch(node.arch)
  BY <1>1, <1>2, <1>4, <1>5
<1> QED
  BY <1>6 DEF matchesPlatform, Fits, EqualFold, a, b

\* The entry that fits first, and where none fits no artifact.
LEMMA ArtifactFits == Visiting => FirstFittingEntry
<1> SUFFICES ASSUME Visiting, Len(shim.fetch.platforms) > 0
             PROVE  \/ /\ Result = NoArtifact
                       /\ \A i \in DOMAIN shim.fetch.platforms : ~Fits(shim.fetch.platforms[i])
                    \/ \E i \in DOMAIN shim.fetch.platforms :
                         /\ Fits(shim.fetch.platforms[i])
                         /\ \A k \in 1..(i - 1) : ~Fits(shim.fetch.platforms[k])
                         /\ Result = [location |-> shim.fetch.platforms[i].location,
                                      sha256 |-> shim.fetch.platforms[i].sha256]
  BY DEF FirstFittingEntry
<1> DEFINE ps == shim.fetch.platforms
           n == Len(ps)
           hits == MatchingEntries(shim.fetch, node)
<1>1. /\ n \in Nat /\ DOMAIN ps = 1..n
      /\ \A i \in 1..n : ps[i].os = lower("linux") /\ ps[i].arch \in EntryArchs
  BY StrategyFacts
<1>2. \A i \in 1..n : i \in hits <=> Fits(ps[i])
  BY <1>1, MatchesIffFits DEF MatchingEntries
<1>3. hits \subseteq 1..n
  BY DEF MatchingEntries
<1>4. CASE hits = {}
  BY <1>1, <1>2, <1>4 DEF Result, resolveArtifactForNode
<1>5. CASE hits # {}
  <2>1. Min(hits) \in hits /\ \A y \in hits : Min(hits) <= y
    BY <1>1, <1>3, <1>5, MinIsLeast
  <2>2. Result = [location |-> ps[Min(hits)].location, sha256 |-> ps[Min(hits)].sha256]
    BY <1>5 DEF Result, resolveArtifactForNode
  <2> DEFINE i == Min(hits)
  <2>3. i \in 1..n /\ Fits(ps[i]) /\ \A k \in 1..(i - 1) : ~Fits(ps[k])
    <3>1. i \in 1..n /\ Fits(ps[i])
      BY <1>2, <1>3, <2>1
    <3>2. ASSUME NEW k \in 1..(i - 1) PROVE ~Fits(ps[k])
      BY <1>1, <1>2, <2>1, <3>1
    <3> QED
      BY <3>1, <3>2
  <2> QED
    BY <1>1, <2>2, <2>3
<1> QED
  BY <1>4, <1>5

\* The anonHTTP location only where there is no list.
LEMMA AnonHTTPOnly == Visiting => AnonHTTPOnlyWithoutPlatforms
<1> SUFFICES ASSUME Visiting, Result # NoArtifact, Result.location = AnonURL
             PROVE  Len(shim.fetch.platforms) = 0 /\ Result.sha256 = NoDigest
  BY DEF AnonHTTPOnlyWithoutPlatforms
<1>1. Len(shim.fetch.platforms) \in Nat /\ DOMAIN shim.fetch.platforms = 1..Len(shim.fetch.platforms)
  BY StrategyFacts
<1>2. CASE Len(shim.fetch.platforms) > 0
  <2>1. PICK i \in DOMAIN shim.fetch.platforms :
          Result = [location |-> shim.fetch.platforms[i].location,
                    sha256 |-> shim.fetch.platforms[i].sha256]
    BY <1>2, ArtifactFits DEF FirstFittingEntry
  <2>2. Result.location[1] = i /\ i \in 1..Len(shim.fetch.platforms)
    BY <1>1, <2>1, StrategyFacts
  <2>3. AnonURL[1] = 0
    BY DEF AnonURL
  <2> QED
    BY <2>2, <2>3
<1>3. CASE Len(shim.fetch.platforms) = 0
  BY <1>3 DEF Result, resolveArtifactForNode
<1> QED
  BY <1>1, <1>2, <1>3

\* A node of any platform gets the first entry of a platforms list that is made
\* for it, with that entry's digest, or no artifact, however long the list is.
THEOREM NodeGetsFirstFittingEntry == Spec => []FirstFittingEntry
  BY VisitingStays, ArtifactFits, PTL

\* The anonHTTP location is never a fallback for a list without a fitting entry.
THEOREM NoFallbackToAnonHTTP == Spec => []AnonHTTPOnlyWithoutPlatforms
  BY VisitingStays, AnonHTTPOnly, PTL

------------------------------------------------------------------------------
(* Job names.                                                               *)

\* The provers do not see that a string is in STRING.
Characters == STRING \cup {"i", "u", "-"}
Text == Seq(Characters)
Dash == <<"-">>

\* The character of n-s-o at position i.
CharAt(n, s, o, i) ==
  IF i <= Len(n) THEN n[i]
  ELSE IF i = Len(n) + 1 THEN "-"
  ELSE IF i <= Len(n) + 1 + Len(s) THEN s[i - Len(n) - 1]
  ELSE IF i = Len(n) + Len(s) + 2 THEN "-"
  ELSE o[i - Len(n) - Len(s) - 2]

\* A text of one character.
LEMMA OneCharacter ==
  ASSUME NEW S, NEW x \in S
  PROVE  <<x>> \in Seq(S) /\ Len(<<x>>) = 1 /\ <<x>>[1] = x
OBVIOUS

\* What a name is made of.
LEMMA NameCharacters ==
  ASSUME NEW n \in Text, NEW s \in Text, NEW o \in Text
  PROVE  LET w == JobName(n, s, o)
             full == Len(n) + Len(s) + 2 + Len(o) IN
         /\ w \in Text
         /\ Len(w) = IF full < K8sNameMaxLength THEN full ELSE K8sNameMaxLength
         /\ \A i \in 1..Len(w) : w[i] = CharAt(n, s, o, i)
<1> DEFINE a == n \o Dash
           b == a \o s
           c == b \o Dash
           d == c \o o
           full == Len(n) + Len(s) + 2 + Len(o)
<1>0. Dash \in Text /\ Len(Dash) = 1 /\ Dash[1] = "-"
  <2>1. "-" \in Characters
    BY DEF Characters
  <2> QED
    BY <2>1, OneCharacter, Zenon DEF Dash, Text
<1>1. ASSUME NEW x \in Text, NEW y \in Text
      PROVE  /\ x \o y \in Text /\ Len(x \o y) = Len(x) + Len(y)
             /\ \A i \in 1..Len(x) + Len(y) :
                  (x \o y)[i] = IF i <= Len(x) THEN x[i] ELSE y[i - Len(x)]
  BY <1>1, ConcatProperties, Zenon DEF Text
<1>2. /\ a \in Text /\ Len(a) = Len(n) + Len(Dash)
      /\ \A i \in 1..Len(n) + Len(Dash) : a[i] = IF i <= Len(n) THEN n[i] ELSE Dash[i - Len(n)]
  BY <1>0, <1>1, Zenon
<1> HIDE DEF a
<1>3. /\ b \in Text /\ Len(b) = Len(a) + Len(s)
      /\ \A i \in 1..Len(a) + Len(s) : b[i] = IF i <= Len(a) THEN a[i] ELSE s[i - Len(a)]
  BY <1>1, <1>2, Zenon
<1> HIDE DEF b
<1>4. /\ c \in Text /\ Len(c) = Len(b) + Len(Dash)
      /\ \A i \in 1..Len(b) + Len(Dash) : c[i] = IF i <= Len(b) THEN b[i] ELSE Dash[i - Len(b)]
  BY <1>0, <1>1, <1>3, Zenon
<1> HIDE DEF c
<1>5. /\ d \in Text /\ Len(d) = Len(c) + Len(o)
      /\ \A i \in 1..Len(c) + Len(o) : d[i] = IF i <= Len(c) THEN c[i] ELSE o[i - Len(c)]
  BY <1>1, <1>4, Zenon
<1> HIDE DEF d
<1>6. Len(n) \in Nat /\ Len(s) \in Nat /\ Len(o) \in Nat
  BY LenProperties, Zenon DEF Text
<1>7. /\ Len(a) = Len(n) + 1 /\ Len(b) = Len(n) + 1 + Len(s)
       /\ Len(c) = Len(n) + Len(s) + 2 /\ Len(d) = full
  BY <1>0, <1>2, <1>3, <1>4, <1>5, <1>6
<1>8. ASSUME NEW i \in 1..full PROVE d[i] = CharAt(n, s, o, i)
  <2>1. CASE i <= Len(n)
    BY <1>2, <1>3, <1>4, <1>5, <1>6, <1>7, <2>1, <1>0 DEF CharAt
  <2>2. CASE i = Len(n) + 1
    <3>1. a[i] = Dash[1]
      BY <1>0, <1>2, <1>6, <2>2
    <3> QED
      BY <1>0, <1>3, <1>4, <1>5, <1>6, <1>7, <2>2, <3>1 DEF CharAt
  <2>3. CASE i > Len(n) + 1 /\ i <= Len(n) + 1 + Len(s)
    <3>1. b[i] = s[i - Len(n) - 1]
      BY <1>3, <1>6, <1>7, <2>3
    <3> QED
      BY <1>0, <1>4, <1>5, <1>6, <1>7, <2>3, <3>1 DEF CharAt
  <2>4. CASE i = Len(n) + Len(s) + 2
    <3>1. c[i] = Dash[1]
      BY <1>0, <1>4, <1>6, <1>7, <2>4
    <3> QED
      BY <1>0, <1>5, <1>6, <1>7, <2>4, <3>1 DEF CharAt
  <2>5. CASE i > Len(n) + Len(s) + 2
    <3>1. d[i] = o[i - Len(n) - Len(s) - 2]
      BY <1>5, <1>6, <1>7, <2>5
    <3> QED
      BY <1>6, <2>5, <3>1 DEF CharAt
  <2> QED
    BY <1>6, <2>1, <2>2, <2>3, <2>4, <2>5
<1> DEFINE m == IF Len(d) < K8sNameMaxLength THEN Len(d) ELSE K8sNameMaxLength
<1>9. m \in 0..Len(d)
  BY <1>6, <1>7, LengthAssumption
<1>10. JobName(n, s, o) = SubSeq(d, 1, m)
  BY DEF JobName, Cut, a, b, c, d, Dash
<1> HIDE DEF m
<1>11. \A i \in 1..m : d[i] \in Characters
  BY <1>5, <1>6, <1>7, <1>9, ElementOfSeq DEF Text
<1>12. /\ SubSeq(d, 1, m) \in Text /\ Len(SubSeq(d, 1, m)) = m
       /\ \A i \in 1..m : SubSeq(d, 1, m)[i] = d[i]
  <2>1. /\ SubSeq(d, 1, m) \in Text
        /\ Len(SubSeq(d, 1, m)) = IF 1 <= m THEN m - 1 + 1 ELSE 0
        /\ \A i \in 1..m - 1 + 1 : SubSeq(d, 1, m)[i] = d[1 + i - 1]
    BY <1>5, <1>9, <1>11, SubSeqProperties DEF Text
  <2> QED
    BY <1>9, <2>1
<1> QED
  BY <1>6, <1>7, <1>8, <1>9, <1>10, <1>12 DEF m

\* The operations have room in a name for a character, which is no separator.
LEMMA OperationFacts ==
  ASSUME NEW o \in Operations
  PROVE  /\ o \in Text /\ Len(o) \in Nat /\ Len(o) >= 1
         /\ \A i \in 1..Len(o) : o[i] # "-"
         /\ \A p \in Operations : o[1] = p[1] => o = p
<1>1. o \in Text /\ o # <<>>
  <2>1. o \in Seq(STRING) /\ o # <<>> /\ STRING \subseteq Characters
    BY OperationsAssumption DEF Operations, Characters
  <2> QED
    BY <2>1, SeqMonotonic DEF Text
<1>2. Len(o) \in Nat \ {0}
  BY <1>1, EmptySeq DEF Text
<1> QED
  BY <1>1, <1>2, OperationsAssumption DEF Operations

\* With room for a character of the operation, a name ends in one.
LEMMA NamesEnd ==
  ASSUME NEW n \in Text, NEW s \in Text, NEW o \in Operations, RoomFor(n, s)
  PROVE  LET w == JobName(n, s, o) IN
         /\ Len(w) \in Nat /\ Len(w) >= Len(n) + Len(s) + 3
         /\ w[Len(w)] # "-"
         /\ \A i \in 1..Len(w) : w[i] = CharAt(n, s, o, i)
         /\ \A i \in Len(n) + Len(s) + 3..Len(w) : w[i] # "-"
         /\ w[Len(n) + Len(s) + 3] = o[1]
<1> DEFINE w == JobName(n, s, o)
<1>1. Len(n) \in Nat /\ Len(s) \in Nat /\ o \in Text /\ Len(o) \in Nat /\ Len(o) >= 1
      /\ K8sNameMaxLength \in Nat /\ Len(n) + Len(s) + 3 <= K8sNameMaxLength
  BY OperationFacts, LengthAssumption DEF Text, RoomFor
<1>2. /\ Len(w) = (IF Len(n) + Len(s) + 2 + Len(o) < K8sNameMaxLength
                   THEN Len(n) + Len(s) + 2 + Len(o) ELSE K8sNameMaxLength)
      /\ \A i \in 1..Len(w) : w[i] = CharAt(n, s, o, i)
  BY <1>1, NameCharacters
<1> HIDE DEF w
<1>3. Len(w) \in Nat /\ Len(w) >= Len(n) + Len(s) + 3 /\ Len(w) <= Len(n) + Len(s) + 2 + Len(o)
  BY <1>1, <1>2
<1>4. ASSUME NEW i \in Len(n) + Len(s) + 3..Len(w)
      PROVE  w[i] = o[i - Len(n) - Len(s) - 2] /\ i - Len(n) - Len(s) - 2 \in 1..Len(o)
  <2>1. CharAt(n, s, o, i) = o[i - Len(n) - Len(s) - 2] /\ i \in 1..Len(w)
    BY <1>1, <1>3 DEF CharAt
  <2>2. i - Len(n) - Len(s) - 2 \in 1..Len(o)
    BY <1>1, <1>3
  <2> QED
    BY <1>2, <2>1, <2>2
<1>5. \A i \in Len(n) + Len(s) + 3..Len(w) : w[i] # "-"
  BY <1>4, OperationFacts
<1>6. w[Len(n) + Len(s) + 3] = o[1]
  BY <1>1, <1>3, <1>4
<1> QED
  BY <1>1, <1>2, <1>3, <1>5, <1>6 DEF w

\* A name m that begins with n and a separator extends n.
LEMMA ExtendsFacts ==
  ASSUME NEW m \in Text, NEW n \in Text, Len(m) > Len(n),
         \A i \in 1..Len(n) : m[i] = n[i], m[Len(n) + 1] = "-"
  PROVE  Extends(m, n)
<1>1. Len(m) \in Nat /\ Len(n) \in Nat
  BY LenProperties, Zenon DEF Text
<1>2. Dash \in Text /\ Len(Dash) = 1 /\ Dash[1] = "-"
  <2>1. "-" \in Characters
    BY DEF Characters
  <2> QED
    BY <2>1, OneCharacter, Zenon DEF Dash, Text
<1> DEFINE x == SubSeq(m, 1, Len(n) + 1)
           y == n \o Dash
<1>3. \A i \in 1..Len(n) + 1 : m[i] \in Characters
  BY <1>1, ElementOfSeq DEF Text
<1>4. /\ x \in Text /\ Len(x) = Len(n) + 1
      /\ \A i \in 1..Len(n) + 1 : x[i] = m[i]
  <2> DEFINE k == Len(n) + 1
  <2>1. k \in Nat /\ k >= 1
    BY <1>1
  <2>2. \A i \in 1..k : m[i] \in Characters
    BY <1>3
  <2> HIDE DEF k
  <2>3. /\ SubSeq(m, 1, k) \in Text
        /\ Len(SubSeq(m, 1, k)) = IF 1 <= k THEN k - 1 + 1 ELSE 0
        /\ \A i \in 1..k - 1 + 1 : SubSeq(m, 1, k)[i] = m[1 + i - 1]
    BY <2>1, <2>2, SubSeqProperties DEF Text
  <2>4. Len(SubSeq(m, 1, k)) = k /\ \A i \in 1..k : SubSeq(m, 1, k)[i] = m[i]
    BY <2>1, <2>3
  <2> QED
    BY <2>3, <2>4 DEF k
<1>5. /\ y \in Text /\ Len(y) = Len(n) + Len(Dash)
      /\ \A i \in 1..Len(n) + Len(Dash) : y[i] = IF i <= Len(n) THEN n[i] ELSE Dash[i - Len(n)]
  BY <1>2, ConcatProperties, Zenon DEF Text
<1> HIDE DEF x, y
<1>6. ASSUME NEW i \in 1..Len(n) + 1 PROVE x[i] = y[i]
  <2>1. CASE i <= Len(n)
    BY <1>1, <1>2, <1>4, <1>5, <2>1
  <2>2. CASE i = Len(n) + 1
    BY <1>1, <1>2, <1>4, <1>5, <2>2
  <2> QED
    BY <1>1, <2>1, <2>2
<1>7. x = y
  BY <1>1, <1>2, <1>4, <1>5, <1>6, SeqEqual DEF Text
<1> QED
  BY <1>7 DEF Extends, x, y, Dash

\* Of two names that are equal, the one with the shorter node is that of a node
\* whose name the other extends,
LEMMA SameNode ==
  ASSUME NEW n \in Text, NEW s \in Text, NEW o \in Operations, RoomFor(n, s),
         NEW m \in Text, NEW t \in Text, NEW p \in Operations, RoomFor(m, t),
         JobName(n, s, o) = JobName(m, t, p), ~Extends(m, n)
  PROVE  Len(m) <= Len(n)
<1> DEFINE w == JobName(n, s, o)
<1>1. Len(n) \in Nat /\ Len(s) \in Nat /\ Len(m) \in Nat /\ Len(t) \in Nat
  BY LenProperties, Zenon DEF Text
<1>2. /\ Len(w) \in Nat /\ Len(w) >= Len(n) + Len(s) + 3 /\ Len(w) >= Len(m) + Len(t) + 3
      /\ \A i \in 1..Len(w) : w[i] = CharAt(n, s, o, i) /\ w[i] = CharAt(m, t, p, i)
  BY NamesEnd
<1> HIDE DEF w
<1> SUFFICES ASSUME Len(m) > Len(n) PROVE FALSE
  BY <1>1
<1>3. ASSUME NEW i \in 1..Len(n) PROVE m[i] = n[i]
  <2>1. i \in 1..Len(w) /\ CharAt(n, s, o, i) = n[i] /\ CharAt(m, t, p, i) = m[i]
    BY <1>1, <1>2 DEF CharAt
  <2> QED
    BY <1>2, <2>1
<1>4. m[Len(n) + 1] = "-"
  <2>1. /\ Len(n) + 1 \in 1..Len(w) /\ CharAt(n, s, o, Len(n) + 1) = "-"
        /\ CharAt(m, t, p, Len(n) + 1) = m[Len(n) + 1]
    BY <1>1, <1>2 DEF CharAt
  <2> QED
    BY <1>2, <2>1
<1> QED
  BY <1>3, <1>4, ExtendsFacts

\* and of one node, the longer shim would have a separator within the operation.
LEMMA SameShim ==
  ASSUME NEW n \in Text, NEW s \in Text, NEW o \in Operations, RoomFor(n, s),
         NEW t \in Text, NEW p \in Operations, RoomFor(n, t),
         JobName(n, s, o) = JobName(n, t, p)
  PROVE  Len(t) <= Len(s)
<1> DEFINE w == JobName(n, s, o)
<1>1. Len(n) \in Nat /\ Len(s) \in Nat /\ Len(t) \in Nat
  BY LenProperties, Zenon DEF Text
<1>2. /\ Len(w) \in Nat /\ Len(w) >= Len(n) + Len(t) + 3
      /\ \A i \in 1..Len(w) : w[i] = CharAt(n, t, p, i)
      /\ \A i \in Len(n) + Len(s) + 3..Len(w) : w[i] # "-"
  BY NamesEnd
<1> HIDE DEF w
<1> SUFFICES ASSUME Len(t) > Len(s) PROVE FALSE
  BY <1>1
<1>3. CharAt(n, t, p, Len(n) + Len(t) + 2) = "-"
  BY <1>1 DEF CharAt
<1>4. Len(n) + Len(t) + 2 \in 1..Len(w) /\ Len(n) + Len(t) + 2 \in Len(n) + Len(s) + 3..Len(w)
  BY <1>1, <1>2
<1> QED
  BY <1>2, <1>3, <1>4

\* A name is that of one node, shim and operation, for names over any alphabet.
LEMMA NamesIdentify ==
  ASSUME NEW n \in Text, NEW s \in Text, NEW o \in Operations, RoomFor(n, s),
         NEW m \in Text, NEW t \in Text, NEW p \in Operations, RoomFor(m, t),
         JobName(n, s, o) = JobName(m, t, p), ~Extends(m, n), ~Extends(n, m)
  PROVE  m = n /\ t = s /\ p = o
<1> DEFINE w == JobName(n, s, o)
<1>1. Len(n) \in Nat /\ Len(s) \in Nat /\ Len(m) \in Nat /\ Len(t) \in Nat
  BY LenProperties, Zenon DEF Text
<1>2. /\ Len(w) \in Nat /\ Len(w) >= Len(n) + Len(s) + 3
      /\ \A i \in 1..Len(w) : w[i] = CharAt(n, s, o, i) /\ w[i] = CharAt(m, t, p, i)
      /\ w[Len(n) + Len(s) + 3] = o[1] /\ w[Len(m) + Len(t) + 3] = p[1]
  BY NamesEnd
<1>3. Len(m) = Len(n)
  <2>1. Len(m) <= Len(n) /\ Len(n) <= Len(m)
    BY SameNode
  <2> QED
    BY <1>1, <2>1
<1>4. m = n
  <2>1. ASSUME NEW i \in 1..Len(n) PROVE m[i] = n[i]
    <3>1. i \in 1..Len(w) /\ CharAt(n, s, o, i) = n[i] /\ CharAt(m, t, p, i) = m[i]
      BY <1>1, <1>2, <1>3 DEF CharAt
    <3> QED
      BY <1>2, <3>1
  <2> QED
    BY <1>3, <2>1, SeqEqual DEF Text
<1>5. Len(t) = Len(s)
  <2>1. Len(t) <= Len(s) /\ Len(s) <= Len(t)
    BY <1>4, SameShim
  <2> QED
    BY <1>1, <2>1
<1> HIDE DEF w
<1>6. t = s
  <2>1. ASSUME NEW i \in 1..Len(s) PROVE t[i] = s[i]
    <3> DEFINE k == Len(n) + 1 + i
    <3>1. k \in 1..Len(w) /\ CharAt(n, s, o, k) = s[k - Len(n) - 1]
          /\ CharAt(n, t, p, k) = t[k - Len(n) - 1] /\ k - Len(n) - 1 = i
      BY <1>1, <1>2, <1>5 DEF CharAt
    <3> QED
      BY <1>2, <1>4, <3>1
  <2> QED
    BY <1>5, <2>1, SeqEqual DEF Text
<1>7. p = o
  BY <1>2, <1>4, <1>6, OperationFacts
<1> QED
  BY <1>4, <1>6, <1>7

\* Without room, the two operations of a pair are cut off.
LEMMA SharedName ==
  ASSUME NEW n \in Text, NEW s \in Text, ~RoomFor(n, s)
  PROVE  JobName(n, s, INSTALL) = JobName(n, s, UNINSTALL)
<1> DEFINE v == JobName(n, s, INSTALL)
           w == JobName(n, s, UNINSTALL)
<1>1. /\ Len(n) \in Nat /\ Len(s) \in Nat /\ K8sNameMaxLength \in Nat
      /\ INSTALL \in Text /\ Len(INSTALL) \in Nat /\ Len(INSTALL) >= 1
      /\ UNINSTALL \in Text /\ Len(UNINSTALL) \in Nat /\ Len(UNINSTALL) >= 1
  <2>1. Len(n) \in Nat /\ Len(s) \in Nat
    BY LenProperties, Zenon DEF Text
  <2>2. INSTALL \in Operations /\ UNINSTALL \in Operations
    BY DEF Operations
  <2> QED
    BY <2>1, <2>2, OperationFacts, LengthAssumption
<1>2. K8sNameMaxLength < Len(n) + Len(s) + 3
  BY <1>1 DEF RoomFor
<1>3. /\ v \in Text /\ Len(v) = (IF Len(n) + Len(s) + 2 + Len(INSTALL) < K8sNameMaxLength
                   THEN Len(n) + Len(s) + 2 + Len(INSTALL) ELSE K8sNameMaxLength)
      /\ \A i \in 1..Len(v) : v[i] = CharAt(n, s, INSTALL, i)
  BY <1>1, NameCharacters
<1>4. /\ w \in Text /\ Len(w) = (IF Len(n) + Len(s) + 2 + Len(UNINSTALL) < K8sNameMaxLength
                   THEN Len(n) + Len(s) + 2 + Len(UNINSTALL) ELSE K8sNameMaxLength)
      /\ \A i \in 1..Len(w) : w[i] = CharAt(n, s, UNINSTALL, i)
  BY <1>1, NameCharacters
<1> HIDE DEF v, w
<1>5. Len(v) = K8sNameMaxLength /\ Len(w) = K8sNameMaxLength
  BY <1>1, <1>2, <1>3, <1>4
<1>6. ASSUME NEW i \in 1..K8sNameMaxLength
      PROVE  CharAt(n, s, INSTALL, i) = CharAt(n, s, UNINSTALL, i)
  BY <1>1, <1>2 DEF CharAt
<1>7. \A i \in 1..Len(v) : v[i] = w[i]
  BY <1>3, <1>4, <1>5, <1>6
<1>8. v = w
  BY <1>3, <1>4, <1>5, <1>7, SeqEqual DEF Text
<1> QED
  BY <1>8 DEF v, w

\* The names of the instance are texts.
LEMMA NamesAreTexts == Names \subseteq Text
<1> SUFFICES ASSUME NEW w \in Names PROVE w \in Text
  OBVIOUS
<1>1. PICK k \in 1..MaxNameLength : w \in [1..k -> {"i", "u", "-"}]
  BY DEF Names
<1>2. k \in Nat
  BY BoundsAssumption
<1>3. w \in [1..k -> Characters]
  BY <1>1 DEF Characters
<1> QED
  BY <1>2, <1>3, FunctionIsSeq DEF Text

\* So are those of the Shim and of the node that are visited.
LEMMA VisitedNames == Visiting => shim.name \in Text /\ node.name \in Text
<1>1. AnyName \in Text
  <2>1. "i" \in Characters
    BY DEF Characters
  <2> QED
    BY <2>1, OneCharacter, Zenon DEF AnyName, Text
<1> QED
  BY <1>1, NamesAreTexts DEF Visiting, ShimsToRollOut, NodeList, Named

\* A name with room for one character of the operation belongs to one node, shim
\* and operation among nodes none of which is called like another and a suffix,
\* and ends with a letter, for names of any length and any limit.
THEOREM JobNamesIdentify == Spec => []JobNameIdentifies
<1>1. ASSUME Visiting PROVE JobNameIdentifies
  <2>1. shim.name \in Text /\ node.name \in Text /\ op \in Operations
    BY <1>1, VisitedNames DEF Visiting
  <2> SUFFICES ASSUME RoomFor(node.name, shim.name)
               PROVE  LET name == JobName(node.name, shim.name, op) IN
                      /\ name[Len(name)] # "-"
                      /\ \A n \in Names, s \in Names, o \in Operations :
                           /\ JobName(n, s, o) = name
                           /\ RoomFor(n, s) /\ ~Extends(n, node.name) /\ ~Extends(node.name, n)
                           => n = node.name /\ s = shim.name /\ o = op
    BY DEF JobNameIdentifies
  <2> DEFINE name == JobName(node.name, shim.name, op)
  <2>2. name[Len(name)] # "-"
    BY <2>1, NamesEnd
  <2>3. ASSUME NEW n \in Names, NEW s \in Names, NEW o \in Operations,
               JobName(n, s, o) = name, RoomFor(n, s),
               ~Extends(n, node.name), ~Extends(node.name, n)
        PROVE  n = node.name /\ s = shim.name /\ o = op
    <3>1. n \in Text /\ s \in Text
      BY NamesAreTexts
    <3> QED
      BY <2>1, <2>3, <3>1, NamesIdentify
  <2> QED
    BY <2>2, <2>3
<1> QED
  BY <1>1, VisitingStays, PTL

\* The uninstall Job of a shim and a node is another than its install Job
\* exactly while there is room for one character of the operation.
THEOREM UninstallJobHasItsName == Spec => []UninstallJobIsAnother
<1>1. ASSUME Visiting PROVE UninstallJobIsAnother
  <2>1. shim.name \in Text /\ node.name \in Text
    BY <1>1, VisitedNames
  <2>2. INSTALL \in Operations /\ UNINSTALL \in Operations /\ INSTALL[1] # UNINSTALL[1]
    BY OperationsAssumption DEF Operations
  <2>3. CASE RoomFor(node.name, shim.name)
    BY <2>1, <2>2, <2>3, NamesEnd DEF UninstallJobIsAnother
  <2>4. CASE ~RoomFor(node.name, shim.name)
    BY <2>1, <2>4, SharedName DEF UninstallJobIsAnother
  <2> QED
    BY <2>3, <2>4
<1> QED
  BY <1>1, VisitingStays, PTL
=============================================================================
