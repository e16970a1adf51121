--------------------------- MODULE WorkspaceProofs ---------------------------
(***************************************************************************)
(* Proofs about Workspace for every start, every sequence of commands,     *)
(* every bundle, profile and catalog, and deaths at every step: what a     *)
(* bundle directory that loads holds, what judged a report that is on      *)
(* disk, what its verdicts rest on, what the exit code says of it, what    *)
(* the coverage and the graph of a bundle say of its events, what a later  *)
(* ingest accepts of what the adapters wrote, how the renderings of a      *)
(* report bear one another out, what may be signed of it, what the         *)
(* commands that only read say beside it, and how literals are ordered.    *)
(*                                                                         *)
(* The loops over lines, events and entries are recursive functions; that  *)
(* each is what its definition says is proved here, by induction on its    *)
(* domain, over the least natural number of a set.                         *)
(***************************************************************************)
EXTENDS ReadCommands, LiteralsProofs, FiniteSetTheorems, SequenceTheorems, TLAPS

-----------------------------------------------------------------------------
(*                            The directory                                *)

FourFiles(d) == d = [manifest |-> d.manifest, stream |-> d.stream,
                     report |-> d.report, plan |-> d.plan]

\* A manifest no command but a finished ingest could have made load.
NeverLoads(m) ==
    \/ m \in {NoFile, Torn}
    \/ /\ DOMAIN m.files \subseteq Nat
       /\ \E k \in DOMAIN m.files : m.files[k].sha = NoDigest

OfStart(m) ==
    /\ m = start.manifest
    /\ DOMAIN m.files \subseteq Nat
    /\ LoadTrouble(start) = "none"

OfIngest(m, c) == c.kind = "ingest" /\ m = IngestManifest(IngestEvents(c))

ManifestKnown ==
    \/ NeverLoads(dir.manifest)
    \/ OfStart(dir.manifest)
    \/ \E c \in ran : OfIngest(dir.manifest, c)

\* An ingest that is under way writes what it adapted.
IngestUnderWay ==
    cmd.kind = "ingest" /\ phase # "idle" =>
        /\ cmd \in ran
        /\ phase \in {"stream", "manifest"} => pulled = IngestEvents(cmd)

DirInv ==
    /\ FourFiles(dir)
    /\ ManifestKnown
    /\ IngestUnderWay

-----------------------------------------------------------------------------
(*                              The reports                                *)

\* The commands are the scenario's.
Commanded ==
    /\ todo \in Seq(Commands)
    /\ cmd \in Commands \cup {NoCommand}

\* A run that got past its catalogs judges by what they resolve to.
ResolvedCatalogs ==
    Running("assess", phase) /\ phase \in {"resolved", "ingested", "judging"} =>
        /\ ResolveTrouble(cmd.ask, cmd.declared, Vendored) = "none"
        /\ catalogs = Resolve(cmd.ask, cmd.declared, Vendored)

\* The catalogs a run judges by, and their controls, are sequences.
Listing(used) == IsSequence(used) /\ \A c \in ToSet(used) : IsSequence(c.controls)

\* Catalogs and assertions are listed in their order.
Ordered ==
    /\ Listing(catalogs)
    /\ IsSequence(assertions)
    /\ \A r \in out.report : IsSequence(r.assertions)

RestsOn(as, events) ==
    \A a \in ToSet(as) : \A n \in a.evidence : \E e \in ToSet(events) :
        Node(e) = n /\ e.subject = a.subject

\* What was judged so far cites accepted events of its subject.
JudgedOnEvents == RestsOn(assertions, accepted)

\* Nothing is judged before the events are read.
NothingYet ==
    cmd.kind = "assess" /\ phase \in {"assess", "resolved", "ingested"} => assertions = <<>>

\* A run that has just reported left that report.
JustReported ==
    phase = "reported" => \E r \in out.report : r.run = cmd /\ r.assertions = assertions

ReportsInv ==
    /\ "report" \in DOMAIN out
    /\ Commanded
    /\ Ordered
    /\ ResolvedCatalogs
    /\ JudgedOnEvents
    /\ NothingYet
    /\ JustReported
    /\ OnlyVerifiedCatalogsJudge
    /\ BackedVerdicts
    /\ ExitTellsTheReport

-----------------------------------------------------------------------------
\* A non-empty set of indices of a sequence has a last one.
LEMMA LastExists ==
    ASSUME NEW n \in Nat, NEW S \in SUBSET (1 .. n), S # {}
    PROVE  \E m \in S : \A j \in S : j <= m
<1> DEFINE T == {n - k : k \in S}
<1>1. T \in SUBSET Nat /\ T # {}
  <2>1. \A k \in S : n - k \in Nat
    OBVIOUS
  <2>2. PICK k \in S : TRUE
    OBVIOUS
  <2> QED
    BY <2>1, <2>2
<1>2. PICK t \in T : \A u \in T : t <= u
  <2> HIDE DEF T
  <2> QED
    BY <1>1, LeastExists
<1>3. PICK m \in S : t = n - m
  OBVIOUS
<1>4. ASSUME NEW j \in S PROVE j <= m
  <2>1. n - j \in T
    OBVIOUS
  <2> QED
    BY <1>2, <1>3, <2>1
<1> QED
  BY <1>4

\* A finite set of integers has its Max among its elements: of the sets of
\* those above each, one is minimal.
LEMMA LargestExists ==
    ASSUME NEW S \in SUBSET Int, IsFiniteSet(S), S # {}
    PROVE  \E m \in S : \A j \in S : j <= m
<1> DEFINE Above(x) == {y \in S : y > x}
           T == {Above(x) : x \in S}
           R == StrictSubsetOrdering(S)
<1>1. \A x \in S : IsFiniteSet(Above(x))
  BY FS_Subset
<1>2. T \subseteq FiniteSubsetsOf(S) /\ T # {}
  BY <1>1 DEF FiniteSubsetsOf
<1>3. PICK A \in T : \A B \in T : ~(<<B, A>> \in R)
  <2>1. IsWellFoundedOn(R, FiniteSubsetsOf(S))
    BY FS_StrictSubsetOrderingWellFounded
  <2> HIDE DEF R, T
  <2> QED
    BY <1>2, <2>1, WFMin
<1>4. PICK m \in S : A = Above(m)
  OBVIOUS
<1>5. ASSUME NEW j \in S, j > m PROVE FALSE
  <2>1. Above(j) \subseteq A /\ j \in A /\ j \notin Above(j)
    <3>1. \A z \in S : z > j => z > m
      BY <1>5
    <3>2. A = {y \in S : y > m}
      BY <1>4
    <3>3. ~(j > j)
      OBVIOUS
    <3> HIDE DEF R, T
    <3> QED
      BY <1>5, <3>1, <3>2, <3>3
  <2>2. A \subseteq S /\ Above(j) \subseteq S /\ Above(j) \in T
    BY <1>4
  <2>3. <<Above(j), A>> \in R
    BY <2>1, <2>2 DEF StrictSubsetOrdering
  <2> QED
    BY <1>3, <2>2, <2>3
<1> QED
  BY <1>5

\* Induction, of a set: every natural is in it.
LEMMA Induction ==
    ASSUME NEW S \in SUBSET Nat, 0 \in S, \A n \in S : n + 1 \in S
    PROVE  S = Nat
<1> SUFFICES ASSUME Nat \ S # {} PROVE FALSE
  OBVIOUS
<1>1. PICK m \in Nat \ S : \A j \in Nat \ S : m <= j
  BY LeastExists
<1>2. m - 1 \in Nat /\ ~(m <= m - 1) /\ (m - 1) + 1 = m
  BY <1>1
<1> QED
  BY <1>1, <1>2

\* Every sequence is one of its elements.
LEMMA OfItsElements ==
    ASSUME NEW S, NEW s \in Seq(S)
    PROVE  IsSequence(s)
BY DEF IsSequence, ToSet

\* The elements of a sequence are of its set.
LEMMA ElementsAreOf ==
    ASSUME NEW S, NEW s \in Seq(S)
    PROVE  ToSet(s) \subseteq S
<1>1. \A k \in DOMAIN s : s[k] \in S
  OBVIOUS
<1> QED
  BY <1>1 DEF ToSet

\* The indices of a sequence, of which there are finitely many.
LEMMA FinitelyManyIndices ==
    ASSUME NEW s, IsSequence(s), NEW K, K \subseteq DOMAIN s
    PROVE  /\ DOMAIN s = 1 .. Len(s) /\ Len(s) \in Nat
           /\ IsFiniteSet(K) /\ Cardinality(K) \in Nat
<1>1. DOMAIN s = 1 .. Len(s) /\ Len(s) \in Nat
  BY DEF IsSequence
<1>2. IsFiniteSet(1 .. Len(s))
  BY <1>1, FS_Interval
<1>3. IsFiniteSet(K)
  BY <1>1, <1>2, FS_Subset
<1> QED
  BY <1>1, <1>3, FS_CardinalityType

-----------------------------------------------------------------------------
(*                 The elements of a sequence at some indices              *)

\* The loop over the elements: what is picked of n + 1 of them follows from
\* what is picked of n.
LEMMA PickingOneByOne ==
    ASSUME NEW s, Len(s) \in Nat, NEW K
    PROVE  /\ PickedTo(s, K)[0] = <<>>
           /\ \A n \in 1 .. Len(s) :
                 PickedTo(s, K)[n] = IF n \in K THEN Append(PickedTo(s, K)[n - 1], s[n])
                                                ELSE PickedTo(s, K)[n - 1]
<1> DEFINE first == <<>>
           Step(x, n) == IF n \in K THEN Append(x, s[n]) ELSE x
           Solves(h, n) ==
               h = [k \in 0 .. n |-> IF k = 0 THEN first ELSE Step(h[k - 1], k)]
           Solved == {n \in Nat : \E h : Solves(h, n)}
<1>1. PickedTo(s, K) = CHOOSE h : Solves(h, Len(s))
  BY DEF PickedTo
<1> HIDE DEF first, Step
<1>2. \E h : Solves(h, 0)
  <2>1. Solves([k \in 0 .. 0 |-> first], 0)
    OBVIOUS
  <2> QED
    BY <2>1
<1>3. ASSUME NEW n \in Nat, NEW h, Solves(h, n)
      PROVE  \E g : Solves(g, n + 1)
  <2> DEFINE g == [k \in 0 .. n + 1 |-> IF k <= n THEN h[k] ELSE Step(h[n], n + 1)]
  <2>1. /\ DOMAIN g = 0 .. n + 1 /\ g = [k \in DOMAIN g |-> g[k]]
        /\ \A k \in 0 .. n : g[k] = h[k]
        /\ g[n + 1] = Step(h[n], n + 1)
    OBVIOUS
  <2>2. \A k \in 0 .. n : h[k] = IF k = 0 THEN first ELSE Step(h[k - 1], k)
    BY <1>3
  <2> HIDE DEF g
  <2>3. ASSUME NEW k \in 0 .. n + 1
        PROVE  g[k] = IF k = 0 THEN first ELSE Step(g[k - 1], k)
    <3>1. CASE k = n + 1
      BY <2>1, <3>1
    <3>2. CASE k \in 0 .. n
      BY <2>1, <2>2, <3>2
    <3> QED
      BY <3>1, <3>2
  <2>4. Solves(g, n + 1)
    BY <2>1, <2>3
  <2> QED
    BY <2>4
<1>4. Solved = Nat
  <2> HIDE DEF Solves
  <2>1. 0 \in Solved /\ \A n \in Solved : n + 1 \in Solved
    BY <1>2, <1>3
  <2> HIDE DEF Solved
  <2> QED
    BY <2>1, Induction DEF Solved
<1>5. \E h : Solves(h, Len(s))
  BY <1>4
<1>6. Solves(PickedTo(s, K), Len(s))
  <2> HIDE DEF Solves
  <2> QED
    BY <1>1, <1>5
<1>7. \A k \in 0 .. Len(s) :
          PickedTo(s, K)[k] = IF k = 0 THEN first ELSE Step(PickedTo(s, K)[k - 1], k)
  BY <1>6
<1>8. /\ PickedTo(s, K)[0] = first
      /\ \A k \in 1 .. Len(s) : PickedTo(s, K)[k] = Step(PickedTo(s, K)[k - 1], k)
  BY <1>7
<1> QED
  BY <1>8 DEF first, Step

\* p holds what s holds at the indices in K, each once.
Matches(p, s, K) ==
    \E f \in Bijection(DOMAIN p, K) : \A i \in DOMAIN p : p[i] = s[f[i]]

\* One more element on either side.
LEMMA OneMoreMatches ==
    ASSUME NEW T, NEW p \in Seq(T), NEW s \in Seq(T), NEW K \in SUBSET DOMAIN s,
           Matches(p, s, K), NEW n \in DOMAIN s, n \notin K
    PROVE  Matches(Append(p, s[n]), s, K \cup {n})
<1> DEFINE q == Append(p, s[n])
           m == Len(p) + 1
<1>1. PICK f \in Bijection(DOMAIN p, K) : \A i \in DOMAIN p : p[i] = s[f[i]]
  BY DEF Matches
<1>2. /\ f \in [DOMAIN p -> K]
      /\ \A a, b \in DOMAIN p : f[a] = f[b] => a = b
      /\ \A k \in K : \E a \in DOMAIN p : f[a] = k
  BY <1>1 DEF Bijection, Injection, Surjection, IsInjective
<1>3. /\ DOMAIN p = 1 .. Len(p) /\ Len(p) \in Nat
      /\ DOMAIN q = DOMAIN p \cup {m} /\ m \notin DOMAIN p
      /\ \A i \in DOMAIN p : q[i] = p[i]
      /\ q[m] = s[n]
  <2>1. s[n] \in T
    OBVIOUS
  <2>2. /\ q \in Seq(T) /\ Len(q) = m
        /\ \A i \in 1 .. Len(p) : q[i] = p[i]
        /\ q[m] = s[n]
    BY <2>1, AppendProperties
  <2> QED
    BY <2>2
<1> DEFINE g == [i \in DOMAIN q |-> IF i = m THEN n ELSE f[i]]
<1> HIDE DEF q, m
<1>4. /\ g \in [DOMAIN q -> K \cup {n}] /\ g[m] = n
      /\ \A i \in DOMAIN p : g[i] = f[i]
  BY <1>2, <1>3
<1>5. \A a, b \in DOMAIN q : g[a] = g[b] => a = b
  <2> TAKE a, b \in DOMAIN q
  <2>1. CASE a = m /\ b = m
    BY <2>1
  <2>2. CASE a = m /\ b # m
    BY <1>2, <1>3, <1>4, <2>2
  <2>3. CASE a # m /\ b = m
    BY <1>2, <1>3, <1>4, <2>3
  <2>4. CASE a # m /\ b # m
    BY <1>2, <1>3, <1>4, <2>4
  <2> QED
    BY <2>1, <2>2, <2>3, <2>4
<1>6. \A k \in K \cup {n} : \E a \in DOMAIN q : g[a] = k
  BY <1>2, <1>3, <1>4
<1>7. g \in Bijection(DOMAIN q, K \cup {n})
  <2> HIDE DEF g
  <2> QED
    BY <1>4, <1>5, <1>6 DEF Bijection, Injection, Surjection, IsInjective
<1>8. \A i \in DOMAIN q : q[i] = s[g[i]]
  BY <1>1, <1>3, <1>4
<1>9. Matches(q, s, K \cup {n})
  BY <1>7, <1>8 DEF Matches
<1> QED
  BY <1>9 DEF q

\* What is picked is a sequence that matches the indices.
LEMMA PickedMatches ==
    ASSUME NEW T, NEW s \in Seq(T), NEW K \in SUBSET DOMAIN s
    PROVE  Picked(s, K) \in Seq(T) /\ Matches(Picked(s, K), s, K)
<1> DEFINE p == PickedTo(s, K)
           S == {n \in Nat : n <= Len(s) =>
                    p[n] \in Seq(T) /\ Matches(p[n], s, K \cap (1 .. n))}
<1>1. Len(s) \in Nat /\ DOMAIN s = 1 .. Len(s)
  OBVIOUS
<1>2. /\ p[0] = <<>>
      /\ \A n \in 1 .. Len(s) : p[n] = IF n \in K THEN Append(p[n - 1], s[n]) ELSE p[n - 1]
  BY <1>1, PickingOneByOne
<1> HIDE DEF p
<1>3. 0 \in S
  <2>1. <<>> \in Seq(T)
    OBVIOUS
  <2>2. DOMAIN p[0] = {} /\ K \cap (1 .. 0) = {}
    BY <1>2
  <2>3. [i \in {} |-> i] \in Bijection({}, {})
    BY DEF Bijection, Injection, Surjection, IsInjective
  <2>4. Matches(p[0], s, K \cap (1 .. 0))
    BY <2>2, <2>3 DEF Matches
  <2>5. p[0] \in Seq(T)
    BY <1>2, <2>1
  <2> QED
    BY <2>4, <2>5
<1>4. ASSUME NEW n \in S PROVE n + 1 \in S
  <2> SUFFICES ASSUME n + 1 <= Len(s)
               PROVE  p[n + 1] \in Seq(T) /\ Matches(p[n + 1], s, K \cap (1 .. n + 1))
    OBVIOUS
  <2>1. /\ n \in Nat /\ n <= Len(s) /\ n + 1 \in DOMAIN s /\ (n + 1) - 1 = n
        /\ n + 1 \notin 1 .. n /\ 1 .. n + 1 = (1 .. n) \cup {n + 1}
    BY <1>1
  <2>2. p[n] \in Seq(T) /\ Matches(p[n], s, K \cap (1 .. n))
    BY <2>1
  <2>3. p[n + 1] = IF n + 1 \in K THEN Append(p[n], s[n + 1]) ELSE p[n]
    BY <1>1, <1>2, <2>1
  <2>4. CASE n + 1 \in K
    <3>1. K \cap (1 .. n + 1) = (K \cap (1 .. n)) \cup {n + 1}
      BY <2>1, <2>4
    <3>2. s[n + 1] \in T
      BY <2>1
    <3>3. n + 1 \notin K \cap (1 .. n) /\ K \cap (1 .. n) \in SUBSET DOMAIN s
      BY <2>1
    <3>4. Matches(Append(p[n], s[n + 1]), s, (K \cap (1 .. n)) \cup {n + 1})
      <4> DEFINE J == K \cap (1 .. n)
      <4>1. J \in SUBSET DOMAIN s /\ Matches(p[n], s, J) /\ n + 1 \notin J
        BY <2>2, <3>3
      <4> HIDE DEF J, S
      <4>2. Matches(Append(p[n], s[n + 1]), s, J \cup {n + 1})
        BY <2>1, <2>2, <4>1, OneMoreMatches
      <4> QED
        BY <4>2 DEF J
    <3>5. Append(p[n], s[n + 1]) \in Seq(T)
      BY <2>2, <3>2
    <3> QED
      BY <2>3, <2>4, <3>1, <3>4, <3>5
  <2>5. CASE n + 1 \notin K
    <3>1. K \cap (1 .. n + 1) = K \cap (1 .. n)
      BY <2>1, <2>5
    <3> QED
      BY <2>2, <2>3, <2>5, <3>1
  <2> QED
    BY <2>4, <2>5
<1>5. S = Nat
  <2> HIDE DEF S
  <2>1. 0 \in S /\ \A n \in S : n + 1 \in S
    BY <1>3, <1>4
  <2>2. S \in SUBSET Nat
    BY DEF S
  <2> QED
    BY <2>1, <2>2, Induction
<1>6. p[Len(s)] \in Seq(T) /\ Matches(p[Len(s)], s, K \cap (1 .. Len(s)))
  <2>1. Len(s) \in S
    BY <1>1, <1>5
  <2>2. Len(s) <= Len(s)
    BY <1>1
  <2> QED
    BY <2>1, <2>2
<1>7. K \cap (1 .. Len(s)) = K
  BY <1>1
<1> QED
  BY <1>6, <1>7 DEF Picked, p

\* At how many of some indices the element is one of V.
Number(s, K, V) == Cardinality({k \in K : s[k] \in V})

\* p holds the elements of s at the indices in K, and as many of any kind.
HoldsThose(p, s, K) ==
    /\ ToSet(p) = {s[k] : k \in K}
    /\ p = <<>> <=> K = {}
    /\ Len(p) = Cardinality(K)
    /\ \A V : Number(p, DOMAIN p, V) = Number(s, K, V)

LEMMA PickedSays ==
    ASSUME NEW T, NEW s \in Seq(T), NEW K \in SUBSET DOMAIN s
    PROVE  Picked(s, K) \in Seq(T) /\ HoldsThose(Picked(s, K), s, K)
<1> DEFINE p == Picked(s, K)
<1>1. p \in Seq(T) /\ Matches(p, s, K)
  BY PickedMatches
<1> HIDE DEF p
<1>2. PICK f \in Bijection(DOMAIN p, K) : \A i \in DOMAIN p : p[i] = s[f[i]]
  BY <1>1 DEF Matches
<1>3. /\ f \in [DOMAIN p -> K]
      /\ \A a, b \in DOMAIN p : f[a] = f[b] => a = b
      /\ \A k \in K : \E a \in DOMAIN p : f[a] = k
  BY <1>2 DEF Bijection, Injection, Surjection, IsInjective
<1>4. DOMAIN p = 1 .. Len(p) /\ Len(p) \in Nat /\ IsFiniteSet(DOMAIN p)
  <2>1. DOMAIN p = 1 .. Len(p) /\ Len(p) \in Nat
    BY <1>1
  <2>2. IsFiniteSet(1 .. Len(p))
    BY <2>1, FS_Interval
  <2> QED
    BY <2>1, <2>2
<1>5. ToSet(p) = {s[k] : k \in K}
  BY <1>2, <1>3 DEF ToSet
<1>6. p = <<>> <=> K = {}
  <2>1. p = <<>> <=> DOMAIN p = {}
    <3>1. p = <<>> <=> Len(p) = 0
      BY <1>1, EmptySeq
    <3>2. Len(p) # 0 => 1 \in 1 .. Len(p)
      BY <1>4
    <3>3. Len(p) = 0 => 1 .. Len(p) = {}
      OBVIOUS
    <3> QED
      BY <1>4, <3>1, <3>2, <3>3
  <2> QED
    BY <1>3, <2>1
<1>7. ASSUME NEW V
      PROVE  Number(p, DOMAIN p, V) = Number(s, K, V)
  <2> DEFINE I == {i \in DOMAIN p : p[i] \in V}
             J == {k \in K : s[k] \in V}
             g == [i \in I |-> f[i]]
  <2>1. g \in [I -> J]
    BY <1>2, <1>3
  <2>2. \A a, b \in I : g[a] = g[b] => a = b
    BY <1>3
  <2>3. \A k \in J : \E a \in I : g[a] = k
    BY <1>2, <1>3
  <2>4. IsFiniteSet(I)
    BY <1>4, FS_Subset
  <2>5. g \in Bijection(I, J)
    <3> HIDE DEF g, I, J
    <3> QED
      BY <2>1, <2>2, <2>3 DEF Bijection, Injection, Surjection, IsInjective
  <2> HIDE DEF g, I, J
  <2>6. Cardinality(J) = Cardinality(I)
    BY <2>4, <2>5, FS_Bijection DEF ExistsBijection
  <2> QED
    BY <2>6 DEF I, J, Number
<1>8. Len(p) = Cardinality(K)
  <2>1. Cardinality(K) = Cardinality(DOMAIN p)
    BY <1>2, <1>4, FS_Bijection DEF ExistsBijection
  <2>2. Cardinality(1 .. Len(p)) = Len(p)
    <3>1. 1 \in Int /\ Len(p) \in Int
      BY <1>4
    <3>2. Cardinality(1 .. Len(p)) = IF 1 > Len(p) THEN 0 ELSE Len(p) - 1 + 1
      BY <3>1, FS_Interval
    <3> QED
      BY <1>4, <3>2
  <2> QED
    BY <1>4, <2>1, <2>2
<1> QED
  BY <1>1, <1>5, <1>6, <1>7, <1>8 DEF p, HoldsThose

-----------------------------------------------------------------------------
(*                            Concatenations                               *)

\* The elements of a concatenation.
LEMMA ElementsOfConcat ==
    ASSUME NEW s, IsSequence(s), NEW t, IsSequence(t)
    PROVE  ToSet(s \o t) = ToSet(s) \cup ToSet(t)
<1> DEFINE S == ToSet(s) \cup ToSet(t)
<1>1. s \in Seq(S) /\ t \in Seq(S)
  BY SeqMonotonic DEF IsSequence
<1>2. /\ Len(s \o t) = Len(s) + Len(t) /\ s \o t \in Seq(S)
      /\ \A i \in 1 .. Len(s) : (s \o t)[i] = s[i]
      /\ \A i \in 1 .. Len(t) : (s \o t)[Len(s) + i] = t[i]
  <2>1. \A i \in 1 .. Len(s) + Len(t) :
            (s \o t)[i] = IF i <= Len(s) THEN s[i] ELSE t[i - Len(s)]
    BY <1>1, ConcatProperties
  <2>2. Len(s) \in Nat /\ Len(t) \in Nat
    BY <1>1
  <2>3. ASSUME NEW i \in 1 .. Len(t) PROVE (s \o t)[Len(s) + i] = t[i]
    <3>1. /\ Len(s) + i \in 1 .. Len(s) + Len(t) /\ ~(Len(s) + i <= Len(s))
          /\ (Len(s) + i) - Len(s) = i
      BY <2>2
    <3> QED
      BY <2>1, <3>1
  <2>4. ASSUME NEW i \in 1 .. Len(s) PROVE (s \o t)[i] = s[i]
    BY <2>1, <2>2
  <2> QED
    BY <1>1, <2>3, <2>4, ConcatProperties
<1>3. /\ DOMAIN s = 1 .. Len(s) /\ DOMAIN t = 1 .. Len(t)
      /\ DOMAIN (s \o t) = 1 .. Len(s) + Len(t)
      /\ Len(s) \in Nat /\ Len(t) \in Nat
  BY <1>1, <1>2
<1>4. ToSet(s \o t) \subseteq ToSet(s) \cup ToSet(t)
  <2> SUFFICES ASSUME NEW i \in 1 .. Len(s) + Len(t)
               PROVE  (s \o t)[i] \in ToSet(s) \cup ToSet(t)
    BY <1>3 DEF ToSet
  <2>1. CASE i \in 1 .. Len(s)
    BY <1>2, <1>3, <2>1 DEF ToSet
  <2>2. CASE i \notin 1 .. Len(s)
    <3>1. i - Len(s) \in 1 .. Len(t) /\ Len(s) + (i - Len(s)) = i
      BY <1>3, <2>2
    <3> QED
      BY <1>2, <1>3, <3>1 DEF ToSet
  <2> QED
    BY <2>1, <2>2
<1>5. ToSet(s) \subseteq ToSet(s \o t) /\ ToSet(t) \subseteq ToSet(s \o t)
  <2>1. \A i \in 1 .. Len(s) : i \in DOMAIN (s \o t)
    BY <1>3
  <2>2. \A i \in 1 .. Len(t) : Len(s) + i \in DOMAIN (s \o t)
    BY <1>3
  <2> QED
    BY <1>2, <1>3, <2>1, <2>2 DEF ToSet
<1> QED
  BY <1>4, <1>5

LEMMA ConcatIsSequence ==
    ASSUME NEW s, IsSequence(s), NEW t, IsSequence(t)
    PROVE  IsSequence(s \o t)
<1> DEFINE S == ToSet(s) \cup ToSet(t)
<1>1. s \in Seq(S) /\ t \in Seq(S)
  BY SeqMonotonic DEF IsSequence
<1> HIDE DEF S
<1>2. s \o t \in Seq(S)
  BY <1>1
<1> QED
  BY <1>2, OfItsElements

\* The loop of FlattenSeq.
LEMMA FlatteningOneByOne ==
    ASSUME NEW s, Len(s) \in Nat \ {0}
    PROVE  \E f : /\ FlattenSeq(s) = f[Len(s)]
                  /\ f[1] = s[1]
                  /\ \A n \in 2 .. Len(s) : f[n] = f[n - 1] \o s[n]
<1> DEFINE Step(x, n) == x \o s[n]
           Solves(h, n) ==
               h = [k \in 1 .. n |-> IF k = 1 THEN s[k] ELSE Step(h[k - 1], k)]
           Solved == {n \in Nat : \E h : Solves(h, n)}
           f == CHOOSE h : Solves(h, Len(s))
<1>1. FlattenSeq(s) = f[Len(s)]
  BY DEF FlattenSeq
<1> HIDE DEF Step
<1>2. \E h : Solves(h, 0)
  <2>1. Solves([k \in 1 .. 0 |-> s[k]], 0)
    OBVIOUS
  <2> QED
    BY <2>1
<1>3. ASSUME NEW n \in Nat, NEW h, Solves(h, n)
      PROVE  \E g : Solves(g, n + 1)
  <2> DEFINE g == [k \in 1 .. n + 1 |-> IF k <= n THEN h[k] ELSE
                       IF k = 1 THEN s[k] ELSE Step(h[n], n + 1)]
  <2>1. /\ DOMAIN g = 1 .. n + 1 /\ g = [k \in DOMAIN g |-> g[k]]
        /\ \A k \in 1 .. n : g[k] = h[k]
        /\ g[n + 1] = IF n + 1 = 1 THEN s[n + 1] ELSE Step(h[n], n + 1)
    OBVIOUS
  <2>2. \A k \in 1 .. n : h[k] = IF k = 1 THEN s[k] ELSE Step(h[k - 1], k)
    BY <1>3
  <2> HIDE DEF g
  <2>3. ASSUME NEW k \in 1 .. n + 1
        PROVE  g[k] = IF k = 1 THEN s[k] ELSE Step(g[k - 1], k)
    <3>1. CASE k = n + 1
      BY <2>1, <3>1
    <3>2. CASE k \in 1 .. n
      BY <2>1, <2>2, <3>2
    <3> QED
      BY <3>1, <3>2
  <2>4. Solves(g, n + 1)
    BY <2>1, <2>3
  <2> QED
    BY <2>4
<1>4. Solved = Nat
  <2> HIDE DEF Solves
  <2>1. 0 \in Solved /\ \A n \in Solved : n + 1 \in Solved
    BY <1>2, <1>3
  <2> HIDE DEF Solved
  <2> QED
    BY <2>1, Induction DEF Solved
<1>5. \E h : Solves(h, Len(s))
  BY <1>4
<1>6. Solves(f, Len(s))
  <2> HIDE DEF Solves
  <2> QED
    BY <1>5
<1> HIDE DEF f
<1>7. \A k \in 1 .. Len(s) : f[k] = IF k = 1 THEN s[k] ELSE Step(f[k - 1], k)
  BY <1>6
<1>8. f[1] = s[1] /\ \A n \in 2 .. Len(s) : f[n] = f[n - 1] \o s[n]
  <2>1. 1 \in 1 .. Len(s) /\ \A n \in 2 .. Len(s) : n \in 1 .. Len(s) /\ n # 1
    OBVIOUS
  <2> QED
    BY <1>7, <2>1 DEF Step
<1> QED
  BY <1>1, <1>8

\* It concatenates them all.
LEMMA FlattenedSays ==
    ASSUME NEW T, NEW s \in Seq(Seq(T))
    PROVE  /\ FlattenSeq(s) \in Seq(T)
           /\ ToSet(FlattenSeq(s)) = UNION {ToSet(s[k]) : k \in DOMAIN s}
<1>1. Len(s) \in Nat /\ DOMAIN s = 1 .. Len(s) /\ \A k \in DOMAIN s : s[k] \in Seq(T)
  OBVIOUS
<1>2. CASE Len(s) = 0
  <2>1. s = <<>>
    BY <1>2, EmptySeq
  <2>2. FlattenSeq(s) = s
    BY <1>2 DEF FlattenSeq
  <2>3. <<>> \in Seq(T) /\ DOMAIN <<>> = {}
    OBVIOUS
  <2>4. FlattenSeq(s) \in Seq(T) /\ DOMAIN FlattenSeq(s) = {} /\ DOMAIN s = {}
    BY <2>1, <2>2, <2>3
  <2> QED
    BY <2>4 DEF ToSet
<1>3. CASE Len(s) # 0
  <2>1. PICK f : /\ FlattenSeq(s) = f[Len(s)]
                 /\ f[1] = s[1]
                 /\ \A n \in 2 .. Len(s) : f[n] = f[n - 1] \o s[n]
    BY <1>1, <1>3, FlatteningOneByOne
  <2> DEFINE Said(n) == /\ f[n + 1] \in Seq(T)
                        /\ ToSet(f[n + 1]) = UNION {ToSet(s[k]) : k \in 1 .. n + 1}
             S == {n \in Nat : n < Len(s) => Said(n)}
  <2>2. 0 \in S
    <3>1. 0 + 1 = 1 /\ 1 \in DOMAIN s /\ 1 .. 0 + 1 = {1}
      BY <1>1, <1>3
    <3> QED
      BY <1>1, <2>1, <3>1
  <2>3. ASSUME NEW n \in S PROVE n + 1 \in S
    <3> SUFFICES ASSUME n + 1 < Len(s) PROVE Said(n + 1)
      OBVIOUS
    <3>1. /\ n \in Nat /\ n < Len(s) /\ (n + 1) + 1 \in 2 .. Len(s)
          /\ ((n + 1) + 1) - 1 = n + 1 /\ (n + 1) + 1 \in DOMAIN s
          /\ 1 .. (n + 1) + 1 = (1 .. n + 1) \cup {(n + 1) + 1}
      BY <1>1
    <3>2. f[(n + 1) + 1] = f[n + 1] \o s[(n + 1) + 1]
      BY <2>1, <3>1
    <3>3. Said(n)
      BY <3>1
    <3> DEFINE p == f[n + 1]
               q == s[(n + 1) + 1]
    <3>4. p \in Seq(T) /\ q \in Seq(T)
      BY <1>1, <3>1, <3>3
    <3>5. ToSet(p) = UNION {ToSet(s[k]) : k \in 1 .. n + 1}
      BY <3>3
    <3>6. UNION {ToSet(s[k]) : k \in 1 .. (n + 1) + 1}
              = (UNION {ToSet(s[k]) : k \in 1 .. n + 1}) \cup ToSet(q)
      BY <3>1
    <3>7. p \o q \in Seq(T) /\ ToSet(p \o q) = ToSet(p) \cup ToSet(q)
      <4> HIDE DEF p, q
      <4>1. p \o q \in Seq(T)
        BY <3>4
      <4>2. IsSequence(p) /\ IsSequence(q)
        BY <3>4, OfItsElements
      <4> QED
        BY <4>1, <4>2, ElementsOfConcat
    <3> QED
      BY <3>2, <3>5, <3>6, <3>7
  <2>4. S = Nat
    <3> HIDE DEF S
    <3>1. 0 \in S /\ \A n \in S : n + 1 \in S
      BY <2>2, <2>3
    <3>2. S \in SUBSET Nat
      BY DEF S
    <3> QED
      BY <3>1, <3>2, Induction
  <2>5. Len(s) - 1 \in S /\ Len(s) - 1 < Len(s) /\ (Len(s) - 1) + 1 = Len(s)
    <3>1. Len(s) - 1 \in Nat /\ Len(s) - 1 < Len(s) /\ (Len(s) - 1) + 1 = Len(s)
      BY <1>1, <1>3
    <3> QED
      BY <2>4, <3>1
  <2>6. Said(Len(s) - 1)
    <3> HIDE DEF Said
    <3> QED
      BY <2>5
  <2> QED
    BY <1>1, <2>1, <2>5, <2>6
<1> QED
  BY <1>1, <1>2, <1>3

-----------------------------------------------------------------------------
(*                                  Sums                                   *)

\* The sizes of the classes of a finite set add up to its own.
LEMMA SumOfClasses ==
    ASSUME NEW S, IsFiniteSet(S), NEW D, IsFiniteSet(D), NEW c \in [D -> S],
           NEW h, DOMAIN h = S,
           \A x \in S : h[x] = Cardinality({k \in D : c[k] = x})
    PROVE  SumFunction(h) = Cardinality(D)
<1> DEFINE Rec(i) == i = [s \in SUBSET S |->
                        IF s = {} THEN 0
                        ELSE h[CHOOSE x \in s : TRUE] + i[s \ {CHOOSE x \in s : TRUE}]]
           f == CHOOSE i : Rec(i)
<1>1. SumFunction(h) = f[S]
  BY DEF SumFunction, SumFunctionOnSet, FoldFunctionOnSet, MapThenFoldSet
<1> DEFINE Pick(s) == CHOOSE x \in s : TRUE
           Of(s) == {k \in D : c[k] \in s}
<1>2. \A s : IsFiniteSet(Of(s)) /\ Cardinality(Of(s)) \in Nat
  BY FS_Subset, FS_CardinalityType
<1>3. ASSUME NEW s \in SUBSET S, s # {}
      PROVE  Cardinality(Of(s)) = h[Pick(s)] + Cardinality(Of(s \ {Pick(s)}))
  <2> DEFINE x == Pick(s)
  <2>1. x \in s
    BY <1>3
  <2> HIDE DEF x
  <2>2. Of(s) = Of({x}) \cup Of(s \ {x}) /\ Of({x}) \cap Of(s \ {x}) = {}
    BY <2>1
  <2>3. h[x] = Cardinality(Of({x}))
    <3>1. Of({x}) = {k \in D : c[k] = x}
      OBVIOUS
    <3> HIDE DEF Of
    <3> QED
      BY <2>1, <3>1
  <2>4. Cardinality(Of(s))
            = Cardinality(Of({x})) + Cardinality(Of(s \ {x}))
    <3> HIDE DEF Of
    <3>1. Cardinality(Of({x}) \cup Of(s \ {x}))
              = Cardinality(Of({x})) + Cardinality(Of(s \ {x}))
                - Cardinality(Of({x}) \cap Of(s \ {x}))
      BY <1>2, FS_Union
    <3>2. Cardinality(Of({x}) \cap Of(s \ {x})) = 0
      BY <2>2, FS_EmptySet
    <3>3. Cardinality(Of({x})) \in Nat /\ Cardinality(Of(s \ {x})) \in Nat
      BY <1>2
    <3>4. Cardinality(Of(s)) = Cardinality(Of({x}) \cup Of(s \ {x}))
      BY <2>2
    <3> QED
      BY <3>1, <3>2, <3>3, <3>4
  <2> HIDE DEF Of
  <2>5. Cardinality(Of(s)) = h[x] + Cardinality(Of(s \ {x}))
    BY <2>3, <2>4
  <2> QED
    BY <2>5 DEF x
<1>4. Cardinality(Of({})) = 0
  <2>1. Of({}) = {}
    OBVIOUS
  <2> QED
    BY <2>1, FS_EmptySet
<1>5. Of(S) = D
  OBVIOUS
<1> DEFINE G == [s \in SUBSET S |-> Cardinality(Of(s))]
<1> HIDE DEF Of
<1>6. Rec(G)
  <2>1. ASSUME NEW s \in SUBSET S
        PROVE  G[s] = IF s = {} THEN 0 ELSE h[Pick(s)] + G[s \ {Pick(s)}]
    <3>1. CASE s = {}
      BY <1>4, <3>1
    <3>2. CASE s # {}
      <4>1. s \ {Pick(s)} \in SUBSET S
        OBVIOUS
      <4> HIDE DEF Pick
      <4>2. G[s] = Cardinality(Of(s)) /\ G[s \ {Pick(s)}] = Cardinality(Of(s \ {Pick(s)}))
        BY <4>1
      <4> QED
        BY <1>3, <3>2, <4>2
    <3> QED
      BY <3>1, <3>2
  <2>2. G = [s \in SUBSET S |-> G[s]]
    OBVIOUS
  <2> HIDE DEF G
  <2> QED
    BY <2>1, <2>2
<1>7. Rec(f)
  <2> HIDE DEF Rec, G
  <2> QED
    BY <1>6
<1>8. \A s \in SUBSET S :
          f[s] = IF s = {} THEN 0 ELSE h[Pick(s)] + f[s \ {Pick(s)}]
  <2> HIDE DEF f, G
  <2> QED
    BY <1>7
<1>9. \A s \in SUBSET S : IsFiniteSet(s) /\ Cardinality(s) \in Nat
  BY FS_Subset, FS_CardinalityType
<1> DEFINE U == {n \in Nat : \A s \in SUBSET S : Cardinality(s) = n => f[s] = Cardinality(Of(s))}
<1> HIDE DEF f, G, Rec
<1>10. 0 \in U
  <2>1. ASSUME NEW s \in SUBSET S, Cardinality(s) = 0 PROVE f[s] = Cardinality(Of(s))
    <3>1. s = {}
      BY <1>9, <2>1, FS_EmptySet
    <3> QED
      BY <1>4, <1>8, <3>1
  <2> QED
    BY <2>1
<1>11. ASSUME NEW n \in U PROVE n + 1 \in U
  <2>1. ASSUME NEW s \in SUBSET S, Cardinality(s) = n + 1 PROVE f[s] = Cardinality(Of(s))
    <3>1. s # {}
      <4>1. Cardinality({}) = 0 /\ n + 1 # 0
        BY FS_EmptySet
      <4> QED
        BY <2>1, <4>1
    <3>2. Pick(s) \in s
      BY <3>1
    <3>3. /\ f[s] = h[Pick(s)] + f[s \ {Pick(s)}]
          /\ Cardinality(Of(s)) = h[Pick(s)] + Cardinality(Of(s \ {Pick(s)}))
      BY <1>3, <1>8, <3>1
    <3> HIDE DEF Pick
    <3>4. s \ {Pick(s)} \in SUBSET S /\ Cardinality(s \ {Pick(s)}) = (n + 1) - 1
      BY <1>9, <2>1, <3>2, FS_RemoveElement
    <3>5. n \in Nat /\ (n + 1) - 1 = n
      OBVIOUS
    <3>6. f[s \ {Pick(s)}] = Cardinality(Of(s \ {Pick(s)}))
      BY <3>4, <3>5
    <3> QED
      BY <3>3, <3>6
  <2> QED
    BY <2>1
<1>12. U = Nat
  <2> HIDE DEF U
  <2>1. 0 \in U /\ \A n \in U : n + 1 \in U
    BY <1>10, <1>11
  <2>2. U \in SUBSET Nat
    BY DEF U
  <2> QED
    BY <2>1, <2>2, Induction
<1>13. Cardinality(S) \in U
  BY <1>9, <1>12
<1>14. f[S] = Cardinality(Of(S))
  BY <1>13
<1> QED
  BY <1>1, <1>5, <1>14

-----------------------------------------------------------------------------
(*                        What the directory holds                         *)

\* A bundle loads only if every file its manifest lists has its digest.
LEMMA LoadsAsListed ==
    ASSUME NEW d, LoadTrouble(d) = "none"
    PROVE  /\ d.manifest \notin {NoFile, Torn}
           /\ DOMAIN d.manifest.files \subseteq Nat =>
                 \A k \in DOMAIN d.manifest.files :
                     /\ d.manifest.files[k].sha # NoDigest
                     /\ d[d.manifest.files[k].path] = d.manifest.files[k].sha
<1> DEFINE bad == {k \in DOMAIN d.manifest.files :
                      EntryTrouble(d, d.manifest.files[k]) # "none"}
<1>1. d.manifest \notin {NoFile, Torn}
  BY DEF LoadTrouble
<1>2. ASSUME DOMAIN d.manifest.files \subseteq Nat
      PROVE  bad = {}
  <2> SUFFICES ASSUME bad # {} PROVE FALSE
    OBVIOUS
  <2>1. \E k \in bad : \A j \in bad : k <= j
    <3>1. bad \in SUBSET Nat
      BY <1>2
    <3> HIDE DEF bad
    <3> QED
      BY <3>1, LeastExists
  <2>2. (CHOOSE k \in bad : \A j \in bad : k <= j) \in bad
    BY <2>1
  <2> QED
    BY <1>1, <2>2 DEF LoadTrouble
<1>3. ASSUME bad = {}, NEW k \in DOMAIN d.manifest.files
      PROVE  /\ d.manifest.files[k].sha # NoDigest
             /\ d[d.manifest.files[k].path] = d.manifest.files[k].sha
  <2>1. EntryTrouble(d, d.manifest.files[k]) = "none"
    BY <1>3
  <2> QED
    BY <2>1 DEF EntryTrouble
<1> QED
  BY <1>1, <1>2, <1>3

\* The manifest of an ingest lists the stream and nothing else.
LEMMA IngestLists ==
    ASSUME NEW events
    PROVE  /\ DOMAIN IngestManifest(events).files = {1}
           /\ IngestManifest(events).files[1].path = "stream"
           /\ IngestManifest(events).files[1].sha = events
<1>1. IngestManifest(events).files = <<[path |-> "stream", sha |-> events]>>
  BY DEF IngestManifest
<1> QED
  BY <1>1

-----------------------------------------------------------------------------
(*                     What a directory that loads holds                   *)

LEMMA DirInit == Init => DirInv
<1> SUFFICES ASSUME Init PROVE DirInv
  OBVIOUS
<1>1. PICK s \in Scenarios : start = s.start
  BY DEF Init
<1>2. FourFiles(start)
  BY <1>1, ScenariosAssumption DEF FourFiles
<1>3. NeverLoads(start.manifest) \/ OfStart(start.manifest)
  BY <1>1, ScenariosAssumption DEF NeverLoads, OfStart
<1>4. dir = start /\ phase = "idle"
  BY DEF Init
<1> QED
  BY <1>2, <1>3, <1>4 DEF DirInv, ManifestKnown, IngestUnderWay, FourFiles

\* A step that leaves the manifest alone leaves what is known of it.
LEMMA ManifestKept ==
    ASSUME ManifestKnown, UNCHANGED start, ran \subseteq ran',
           dir'.manifest = dir.manifest
    PROVE  ManifestKnown'
<1>1. CASE NeverLoads(dir.manifest)
  BY <1>1 DEF ManifestKnown, NeverLoads
<1>2. CASE OfStart(dir.manifest)
  BY <1>2 DEF ManifestKnown, OfStart
<1>3. CASE \E c \in ran : OfIngest(dir.manifest, c)
  BY <1>3 DEF ManifestKnown, OfIngest
<1> QED
  BY <1>1, <1>2, <1>3 DEF ManifestKnown

\* A file that is written is written beside the others.
LEMMA WritesOneFile ==
    ASSUME FourFiles(dir), NEW f \in {"manifest", "stream", "report", "plan"}, NEW x,
           dir' = [dir EXCEPT ![f] = x]
    PROVE  /\ FourFiles(dir)'
           /\ f = "manifest" => dir'.manifest = x
           /\ f # "manifest" => dir'.manifest = dir.manifest
BY DEF FourFiles

\* What collect writes as a manifest, whole or not, never loads.
LEMMA CollectNeverLoads ==
    /\ \A m : m = [sources |-> m.sources, files |-> <<[path |-> "plan", sha |-> NoDigest]>>]
              => NeverLoads(m)
    /\ \A ids : NeverLoads(CollectManifest(ids,
                    <<[path |-> "report", sha |-> NoDigest]>>
                    \o (IF pulled = <<>> THEN <<>>
                        ELSE <<[path |-> "stream", sha |-> pulled]>>)))
<1>1. ASSUME NEW m,
             m = [sources |-> m.sources, files |-> <<[path |-> "plan", sha |-> NoDigest]>>]
      PROVE  NeverLoads(m)
  <2>1. m.files = <<[path |-> "plan", sha |-> NoDigest]>>
    BY <1>1
  <2> QED
    BY <2>1 DEF NeverLoads
<1>2. ASSUME NEW ids
      PROVE  NeverLoads(CollectManifest(ids,
                    <<[path |-> "report", sha |-> NoDigest]>>
                    \o (IF pulled = <<>> THEN <<>>
                        ELSE <<[path |-> "stream", sha |-> pulled]>>)))
  <2> DEFINE report == <<[path |-> "report", sha |-> NoDigest]>>
             rest == IF pulled = <<>> THEN <<>> ELSE <<[path |-> "stream", sha |-> pulled]>>
             m == CollectManifest(ids, report \o rest)
  <2>1. PICK S : report \in Seq(S) /\ rest \in Seq(S)
    <3> DEFINE a == [path |-> "report", sha |-> NoDigest]
               b == [path |-> "stream", sha |-> pulled]
    <3>1. report = <<a>> /\ (rest = <<>> \/ rest = <<b>>)
      OBVIOUS
    <3> HIDE DEF a, b, report, rest
    <3>2. report \in Seq({a, b})
      BY <3>1
    <3>3. CASE rest = <<>>
      BY <3>2, <3>3
    <3>4. CASE rest = <<b>>
      <4>1. rest \in Seq({a, b})
        BY <3>4
      <4> QED
        BY <3>2, <4>1
    <3> QED
      BY <3>1, <3>3, <3>4
  <2>2. /\ DOMAIN (report \o rest) \subseteq Nat
        /\ 1 \in DOMAIN (report \o rest)
        /\ (report \o rest)[1] = report[1]
    <3>1. Len(report) = 1
      OBVIOUS
    <3> HIDE DEF report, rest
    <3> QED
      BY <2>1, <3>1, ConcatProperties, LenProperties
  <2>3. m.files = report \o rest
    BY DEF CollectManifest
  <2>4. report[1].sha = NoDigest
    OBVIOUS
  <2> HIDE DEF report, rest, m
  <2>5. NeverLoads(m)
    BY <2>2, <2>3, <2>4 DEF NeverLoads
  <2> QED
    BY <2>5 DEF m, report, rest
<1> QED
  BY <1>1, <1>2

LEMMA DirStart == ASSUME DirInv, StartNext PROVE DirInv'
<1>1. PICK c \in {Head(todo)} : \/ c.kind = "ingest" /\ BeginIngest(c)
                                \/ c.kind = "collect" /\ BeginCollect(c)
                                \/ c.kind = "assess" /\ BeginAssess(c)
  BY DEF StartNext
<1>2. /\ dir' = dir /\ start' = start /\ ran' = ran \cup {c}
      /\ cmd' = c /\ phase' \notin {"stream", "manifest"}
  BY <1>1 DEF StartNext, BeginIngest, BeginCollect, BeginAssess
<1>3. ManifestKnown'
  BY <1>2, ManifestKept DEF DirInv
<1> QED
  BY <1>2, <1>3 DEF DirInv, FourFiles, IngestUnderWay

\* Of the commands that write a bundle directory.
LEMMA DirCollect ==
    ASSUME DirInv, CollectStep, UNCHANGED <<start, ran>>
    PROVE  DirInv'
<1>1. cmd' = cmd
  BY DEF CollectStep, AdaptOne, RefuseExport, WriteIngestManifest, RefuseCollect, WritePlan,
         WritePlanManifest, PullSource, FinishPull, WriteStream, WriteCollectReport,
         WriteCollectManifest, Die
<1>2. CASE AdaptOne
  <2>1. dir' = dir /\ pulled' = IngestEvents(cmd) /\ phase # "idle"
    BY <1>2 DEF AdaptOne, Doing
  <2> QED
    BY <1>1, <2>1, ManifestKept DEF DirInv, FourFiles, IngestUnderWay
<1>3. CASE RefuseExport \/ RefuseCollect
  <2>1. dir' = dir /\ phase' = "idle"
    BY <1>3 DEF RefuseExport, RefuseCollect, End
  <2> QED
    BY <2>1, ManifestKept DEF DirInv, FourFiles, IngestUnderWay
<1>4. CASE PullSource \/ FinishPull
  <2>1. dir' = dir /\ cmd.kind = "collect"
    BY <1>4 DEF PullSource, FinishPull, Doing
  <2> QED
    BY <1>1, <2>1, ManifestKept DEF DirInv, FourFiles, IngestUnderWay
<1>5. CASE WriteIngestManifest
  <2>1. /\ cmd.kind = "ingest" /\ phase = "manifest" /\ phase' = "idle"
        /\ dir' = [dir EXCEPT !.manifest = IngestManifest(pulled)]
    BY <1>5 DEF WriteIngestManifest, Doing, End
  <2>2. FourFiles(dir)' /\ dir'.manifest = IngestManifest(pulled)
    BY <2>1, WritesOneFile DEF DirInv
  <2>3. cmd \in ran' /\ OfIngest(dir'.manifest, cmd)
    BY <2>1, <2>2 DEF DirInv, IngestUnderWay, OfIngest
  <2> QED
    BY <2>1, <2>2, <2>3 DEF DirInv, ManifestKnown, IngestUnderWay, OfIngest
<1>6. CASE WriteStream
  <2>1. /\ dir' = [dir EXCEPT !.stream = pulled] /\ pulled' = pulled
        /\ phase = "stream"
    BY <1>6 DEF WriteStream, collectVars
  <2>2. FourFiles(dir)' /\ ManifestKnown'
    BY <2>1, WritesOneFile, ManifestKept DEF DirInv
  <2> QED
    BY <1>1, <2>1, <2>2 DEF DirInv, IngestUnderWay
<1>7. CASE WriteCollectReport
  <2>1. /\ dir' = [dir EXCEPT !.report = outcomes] /\ cmd.kind = "collect"
    BY <1>7 DEF WriteCollectReport, Doing
  <2>2. FourFiles(dir)' /\ ManifestKnown'
    BY <2>1, WritesOneFile, ManifestKept DEF DirInv
  <2> QED
    BY <1>1, <2>1, <2>2 DEF DirInv, IngestUnderWay
<1>8. CASE WriteCollectManifest
  <2>1. PICK ids : dir' = [dir EXCEPT !.manifest =
                     CollectManifest(ids, <<[path |-> "report", sha |-> NoDigest]>>
                         \o (IF pulled = <<>> THEN <<>>
                             ELSE <<[path |-> "stream", sha |-> pulled]>>))]
    BY <1>8 DEF WriteCollectManifest
  <2>2. FourFiles(dir)' /\ NeverLoads(dir'.manifest)
    BY <2>1, WritesOneFile, CollectNeverLoads DEF DirInv
  <2>3. cmd.kind = "collect"
    BY <1>8 DEF WriteCollectManifest, Doing
  <2> QED
    BY <1>1, <2>2, <2>3 DEF DirInv, ManifestKnown, NeverLoads, IngestUnderWay
<1>9. CASE WritePlan
  <2>1. cmd.kind = "collect"
    BY <1>9 DEF WritePlan, Doing
  <2>2. CASE dir' = dir
    BY <1>1, <2>1, <2>2, ManifestKept DEF DirInv, FourFiles, IngestUnderWay
  <2>3. ASSUME NEW x, dir' = [dir EXCEPT !.plan = x]
        PROVE  DirInv'
    <3>1. FourFiles(dir)' /\ ManifestKnown'
      BY <2>3, WritesOneFile, ManifestKept DEF DirInv
    <3> QED
      BY <1>1, <2>1, <3>1 DEF DirInv, IngestUnderWay
  <2> QED
    BY <1>9, <2>2, <2>3 DEF WritePlan
<1>10. CASE WritePlanManifest
  <2>1. PICK m : /\ m = [sources |-> m.sources, files |-> <<[path |-> "plan", sha |-> NoDigest]>>]
                 /\ dir' = [dir EXCEPT !.manifest = m]
    BY <1>10 DEF WritePlanManifest
  <2>2. FourFiles(dir)' /\ NeverLoads(dir'.manifest)
    BY <2>1, WritesOneFile, CollectNeverLoads DEF DirInv
  <2>3. cmd.kind = "collect"
    BY <1>10 DEF WritePlanManifest, Doing
  <2> QED
    BY <1>1, <2>2, <2>3 DEF DirInv, ManifestKnown, NeverLoads, IngestUnderWay
<1>11. CASE Die
  <2>1. phase' = "idle"
    BY <1>11 DEF Die
  <2>2. CASE dir' = dir
    BY <2>1, <2>2, ManifestKept DEF DirInv, FourFiles, IngestUnderWay
  <2>3. ASSUME NEW f \in {"manifest", "stream", "report", "plan"},
               dir' = [dir EXCEPT ![f] = Torn]
        PROVE  DirInv'
    <3>1. FourFiles(dir)'
      BY <2>3, WritesOneFile DEF DirInv
    <3>2. CASE f = "manifest"
      <4>1. dir'.manifest = Torn
        BY <2>3, <3>2, WritesOneFile DEF DirInv
      <4> QED
        BY <2>1, <3>1, <4>1 DEF DirInv, ManifestKnown, NeverLoads, IngestUnderWay
    <3>3. CASE f # "manifest"
      <4>1. dir'.manifest = dir.manifest
        BY <2>3, <3>3, WritesOneFile DEF DirInv
      <4> QED
        BY <2>1, <3>1, <4>1, ManifestKept DEF DirInv, IngestUnderWay
    <3> QED
      BY <3>2, <3>3
  <2>4. dir' # dir => \E f \in {"manifest", "stream", "report", "plan"} :
                         dir' = [dir EXCEPT ![f] = Torn]
    BY <1>11 DEF Die, Writes
  <2> QED
    BY <2>2, <2>3, <2>4
<1> QED
  BY <1>2, <1>3, <1>4, <1>5, <1>6, <1>7, <1>8, <1>9, <1>10, <1>11 DEF CollectStep

\* An assessment only reads the bundle directory.
LEMMA AssessOnlyReads ==
    ASSUME AssessStep
    PROVE  dir' = dir /\ cmd' = cmd /\ cmd.kind = "assess"
BY DEF AssessStep, RefuseGate, ResolveCatalogs, RefuseCatalogs, RefuseBundle, IngestBundle,
       Describe, JudgeSubject, WriteReport, RefuseReport, Conclude, Running

LEMMA DirStep == DirInv /\ [Next]_vars => DirInv'
<1> SUFFICES ASSUME DirInv, [Next]_vars PROVE DirInv'
  OBVIOUS
<1>1. CASE StartNext
  BY <1>1, DirStart
<1>2. CASE CollectStep /\ UNCHANGED <<assessVars, start, todo, ran>>
  BY <1>2, DirCollect
<1>3. CASE AssessStep /\ UNCHANGED <<collectVars, start, todo, ran>>
  <2>1. dir' = dir /\ cmd' = cmd /\ cmd.kind = "assess"
    BY <1>3, AssessOnlyReads
  <2> QED
    BY <1>3, <2>1, ManifestKept DEF DirInv, FourFiles, IngestUnderWay
<1>4. CASE UNCHANGED vars
  BY <1>4, ManifestKept DEF vars, DirInv, FourFiles, IngestUnderWay, collectVars
<1> QED
  BY <1>1, <1>2, <1>3, <1>4 DEF Next

LEMMA DirImplies == DirInv => LoadsWhatOneCommandWrote
<1> SUFFICES ASSUME DirInv, LoadTrouble(dir) = "none"
             PROVE  \/ dir.manifest = start.manifest /\ Lines(dir) = Lines(start)
                    \/ \E c \in ran : /\ c.kind = "ingest"
                                      /\ Lines(dir) = IngestEvents(c)
                                      /\ dir.manifest = IngestManifest(IngestEvents(c))
  BY DEF LoadsWhatOneCommandWrote
<1>1. ~NeverLoads(dir.manifest)
  BY LoadsAsListed DEF NeverLoads
<1>2. CASE OfStart(dir.manifest)
  <2>1. ASSUME NEW k \in DOMAIN dir.manifest.files, dir.manifest.files[k].path = "stream"
        PROVE  dir.stream = start.stream
    <3>1. dir["stream"] = dir.manifest.files[k].sha
      BY <1>2, <2>1, LoadsAsListed DEF OfStart
    <3>2. start["stream"] = start.manifest.files[k].sha
      BY <1>2, <2>1, LoadsAsListed DEF OfStart
    <3> QED
      BY <1>2, <3>1, <3>2 DEF OfStart
  <2> QED
    BY <1>2, <2>1 DEF OfStart, Lines
<1>3. ASSUME NEW c \in ran, OfIngest(dir.manifest, c)
      PROVE  Lines(dir) = IngestEvents(c)
  <2> DEFINE files == dir.manifest.files
  <2>1. DOMAIN files = {1} /\ files[1].path = "stream" /\ files[1].sha = IngestEvents(c)
    BY <1>3, IngestLists DEF OfIngest
  <2>2. dir["stream"] = IngestEvents(c)
    BY <2>1, LoadsAsListed
  <2> QED
    BY <2>1, <2>2 DEF Lines
<1> QED
  BY <1>1, <1>2, <1>3 DEF DirInv, ManifestKnown, OfStart, OfIngest

\* Whatever the commands are and wherever they die, a bundle directory that
\* loads holds what was there at first or all that one ingest adapted
\* (bundle.load_bundle's digests against the separate writes of
\* _write_event_bundle and run_collect).
THEOREM LoadsWhatOneCommandWroteAlways == Spec => []LoadsWhatOneCommandWrote
<1>1. Spec => []DirInv
  BY DirInit, DirStep, PTL DEF Spec
<1> QED
  BY <1>1, DirImplies, PTL

-----------------------------------------------------------------------------
(*                     What the parts of a run give                        *)

\* A catalog that resolves has the label it was resolved for, and is shipped
\* or in one of the directories.
LEMMA CatalogForLabel ==
    ASSUME NEW S, NEW dirs \in Seq(S), NEW vendored, NEW l,
           l \in Labels(dirs) \cup {c.label : c \in vendored}
    PROVE  LET c == CatalogFor(dirs, vendored, l)
           IN  /\ c.label = l
               /\ c \in vendored \/ \E k \in DOMAIN dirs : dirs[k].catalog = c
<1> DEFINE ks == {k \in DOMAIN dirs : dirs[k].catalog.label = l}
<1>1. CASE ks # {}
  <2>1. \E k \in ks : \A j \in ks : j <= k
    <3>1. Len(dirs) \in Nat /\ ks \in SUBSET (1 .. Len(dirs))
      OBVIOUS
    <3> HIDE DEF ks
    <3> QED
      BY <1>1, <3>1, LastExists
  <2>2. PICK k \in ks : CatalogFor(dirs, vendored, l) = dirs[k].catalog
    BY <1>1, <2>1 DEF CatalogFor
  <2> QED
    BY <2>2
<1>2. CASE ks = {}
  <2>1. CatalogFor(dirs, vendored, l) = CHOOSE c \in vendored : c.label = l
    BY <1>2 DEF CatalogFor
  <2>2. \E c \in vendored : c.label = l
    BY <1>2 DEF Labels
  <2> QED
    BY <2>1, <2>2
<1> QED
  BY <1>1, <1>2

\* Nothing is lost where each is kept once.
LEMMA DistinctSays ==
    ASSUME NEW s, IsSequence(s)
    PROVE  IsSequence(Distinct(s)) /\ ToSet(Distinct(s)) = ToSet(s)
<1> DEFINE T == ToSet(s)
           K == {k \in DOMAIN s : \A j \in DOMAIN s : s[j] = s[k] => k <= j}
<1>1. s \in Seq(T) /\ K \in SUBSET DOMAIN s
  BY DEF IsSequence
<1>2. Distinct(s) \in Seq(T) /\ ToSet(Distinct(s)) = {s[k] : k \in K}
  <2> HIDE DEF T, K
  <2>1. Picked(s, K) \in Seq(T) /\ HoldsThose(Picked(s, K), s, K)
    BY <1>1, PickedSays
  <2> QED
    BY <2>1 DEF HoldsThose, Distinct, K
<1>3. ASSUME NEW k \in DOMAIN s PROVE \E j \in K : s[j] = s[k]
  <2> DEFINE J == {j \in DOMAIN s : s[j] = s[k]}
  <2>1. DOMAIN s = 1 .. Len(s)
    BY FinitelyManyIndices
  <2>2. J \in SUBSET Nat /\ J # {}
    BY <2>1
  <2>3. PICK j \in J : \A i \in J : j <= i
    <3> HIDE DEF J
    <3> QED
      BY <2>2, LeastExists
  <2>4. j \in K
    BY <2>3
  <2> QED
    BY <2>3, <2>4
<1>4. {s[k] : k \in K} = ToSet(s)
  <2> HIDE DEF K
  <2> QED
    BY <1>1, <1>3 DEF ToSet
<1> QED
  BY <1>2, <1>4, OfItsElements

\* The catalogs wanted and the directories', each once.
LEMMA WantedOnce ==
    ASSUME NEW ask, IsSequence(ask.dirs), IsSequence(ask.requested),
           NEW declared, IsSequence(declared)
    PROVE  /\ IsSequence(WantedLabels(ask, declared))
           /\ ToSet(WantedLabels(ask, declared))
                  = ToSet(Wanted(ask, declared)) \cup Labels(ask.dirs)
<1> DEFINE wanted == Wanted(ask, declared)
           theirs == [k \in DOMAIN ask.dirs |-> ask.dirs[k].catalog.label]
<1>1. IsSequence(wanted)
  <2>1. IsSequence(<<>>)
    <3>1. <<>> \in Seq({})
      OBVIOUS
    <3> QED
      BY <3>1, OfItsElements
  <2> QED
    BY <2>1 DEF Wanted
<1>2. IsSequence(theirs) /\ ToSet(theirs) = Labels(ask.dirs)
  <2>1. ToSet(theirs) = Labels(ask.dirs)
    BY DEF ToSet, Labels
  <2>2. DOMAIN ask.dirs = 1 .. Len(ask.dirs) /\ Len(ask.dirs) \in Nat
    BY FinitelyManyIndices
  <2>3. theirs \in [1 .. Len(ask.dirs) -> ToSet(theirs)]
    BY <2>2 DEF ToSet
  <2> DEFINE n == Len(ask.dirs)
             S == ToSet(theirs)
  <2> HIDE DEF theirs
  <2>4. n \in Nat /\ theirs \in [1 .. n -> S]
    BY <2>2, <2>3
  <2> HIDE DEF n, S
  <2>5. theirs \in Seq(S)
    BY <2>4, SeqDef
  <2>6. IsSequence(theirs)
    BY <2>5, OfItsElements
  <2> QED
    BY <2>1, <2>6
<1> HIDE DEF wanted, theirs
<1>3. IsSequence(wanted \o theirs)
  BY <1>1, <1>2, ConcatIsSequence
<1>4. ToSet(wanted \o theirs) = ToSet(wanted) \cup ToSet(theirs)
  BY <1>1, <1>2, ElementsOfConcat
<1>5. WantedLabels(ask, declared) = Distinct(wanted \o theirs)
  BY DEF WantedLabels, wanted, theirs
<1> QED
  BY <1>2, <1>3, <1>4, <1>5, DistinctSays DEF wanted

\* What resolves is a sequence of the catalogs for them.
LEMMA ResolvedOnce ==
    ASSUME NEW ask, IsSequence(ask.dirs), IsSequence(ask.requested),
           NEW declared, IsSequence(declared), NEW vendored
    PROVE  LET judged == Resolve(ask, declared, vendored)
           IN  /\ IsSequence(judged)
               /\ ToSet(judged) = {CatalogFor(ask.dirs, vendored, l) :
                      l \in ToSet(Wanted(ask, declared)) \cup Labels(ask.dirs)}
<1> DEFINE labels == WantedLabels(ask, declared)
           For(l) == CatalogFor(ask.dirs, vendored, l)
           judged == Resolve(ask, declared, vendored)
<1>1. IsSequence(labels)
      /\ ToSet(labels) = ToSet(Wanted(ask, declared)) \cup Labels(ask.dirs)
  BY WantedOnce
<1>2. judged = [k \in DOMAIN labels |-> For(labels[k])]
  BY DEF Resolve
<1> HIDE DEF labels, For, judged
<1>3. DOMAIN labels = 1 .. Len(labels) /\ Len(labels) \in Nat
  BY <1>1, FinitelyManyIndices
<1>4. ToSet(judged) = {For(l) : l \in ToSet(labels)}
  BY <1>2 DEF ToSet
<1>5. IsSequence(judged)
  <2> DEFINE n == Len(labels)
             S == ToSet(judged)
  <2>1. n \in Nat /\ judged \in [1 .. n -> S]
    BY <1>2, <1>3 DEF ToSet
  <2> HIDE DEF n, S
  <2>2. judged \in Seq(S)
    BY <2>1, SeqDef
  <2> QED
    BY <2>2, OfItsElements
<1> QED
  BY <1>1, <1>4, <1>5 DEF For, judged

\* Catalogs that resolve without trouble are what was asked for, and each is
\* shipped, signed for under a trusted key, or waived by name.
LEMMA ResolvedAreVouched ==
    ASSUME NEW ask, IsSequence(ask.dirs), IsSequence(ask.requested),
           NEW declared, IsSequence(declared), NEW vendored,
           ResolveTrouble(ask, declared, vendored) = "none"
    PROVE  LET judged == ToSet(Resolve(ask, declared, vendored))
           IN  /\ ask.requested # <<>> => {c.label : c \in judged} = ToSet(ask.requested)
               /\ \A c \in judged :
                      \/ c \in vendored
                      \/ \E k \in DOMAIN ask.dirs :
                             /\ ask.dirs[k].catalog = c
                             /\ \/ SignedFor(ask.dirs[k], ask.trust)
                                \/ ask.allow /\ c.label \in Limitations(ask)
<1> DEFINE ids == ToSet(Wanted(ask, declared))
           loaded == Labels(ask.dirs)
           judged == ToSet(Resolve(ask, declared, vendored))
<1>1. /\ ~ask.allow => Waived(ask.dirs, ask.trust) = {}
      /\ ids \subseteq loaded \cup {c.label : c \in vendored}
      /\ ids # {} => loaded \subseteq ids
  BY DEF ResolveTrouble
<1>2. judged = {CatalogFor(ask.dirs, vendored, l) : l \in ids \cup loaded}
  BY ResolvedOnce
<1>3. ASSUME NEW l \in ids \cup loaded
      PROVE  /\ CatalogFor(ask.dirs, vendored, l).label = l
             /\ \/ CatalogFor(ask.dirs, vendored, l) \in vendored
                \/ \E k \in DOMAIN ask.dirs :
                      ask.dirs[k].catalog = CatalogFor(ask.dirs, vendored, l)
  <2>1. l \in loaded \cup {c.label : c \in vendored}
    BY <1>1
  <2>2. ask.dirs \in Seq(ToSet(ask.dirs))
    BY DEF IsSequence
  <2> QED
    BY <2>1, <2>2, CatalogForLabel
<1>4. ASSUME ask.requested # <<>>
      PROVE  {c.label : c \in judged} = ToSet(ask.requested)
  <2>1. ids = ToSet(ask.requested) /\ ids # {}
    <3>1. ids = ToSet(ask.requested)
      BY <1>4 DEF Wanted
    <3>2. ask.requested[1] \in ToSet(ask.requested)
      BY <1>4 DEF ToSet, IsSequence
    <3> QED
      BY <3>1, <3>2
  <2>2. {c.label : c \in judged} = ids \cup loaded
    <3> HIDE DEF ids, loaded, judged
    <3> QED
      BY <1>2, <1>3
  <2> QED
    BY <1>1, <2>1, <2>2
<1>5. ASSUME NEW k \in DOMAIN ask.dirs
      PROVE  \/ SignedFor(ask.dirs[k], ask.trust)
             \/ ask.allow /\ ask.dirs[k].catalog.label \in Limitations(ask)
  <2>1. CASE SignatureTrouble(ask.dirs[k], ask.trust) = "none"
    BY <2>1 DEF SignatureTrouble, SignedFor
  <2>2. CASE SignatureTrouble(ask.dirs[k], ask.trust) # "none"
    BY <1>1, <2>2 DEF Waived, Limitations
  <2> QED
    BY <2>1, <2>2
<1>6. ASSUME NEW c \in judged, c \notin vendored
      PROVE  \E k \in DOMAIN ask.dirs :
                 /\ ask.dirs[k].catalog = c
                 /\ \/ SignedFor(ask.dirs[k], ask.trust)
                    \/ ask.allow /\ c.label \in Limitations(ask)
  <2>1. PICK k \in DOMAIN ask.dirs : ask.dirs[k].catalog = c
    <3> HIDE DEF ids, loaded, judged
    <3> QED
      BY <1>2, <1>3, <1>6
  <2> QED
    BY <1>5, <2>1
<1> QED
  BY <1>4, <1>6

\* What a command resolves is listed, and so are its controls.
LEMMA ResolvedListed ==
    ASSUME Commanded, cmd.kind = "assess",
           ResolveTrouble(cmd.ask, cmd.declared, Vendored) = "none"
    PROVE  Listing(Resolve(cmd.ask, cmd.declared, Vendored))
<1> DEFINE ask == cmd.ask
           declared == cmd.declared
           judged == Resolve(ask, declared, Vendored)
<1>1. /\ IsSequence(ask.dirs) /\ IsSequence(ask.requested) /\ IsSequence(declared)
      /\ \A d \in ToSet(ask.dirs) : IsSequence(d.catalog.controls)
      /\ ResolveTrouble(ask, declared, Vendored) = "none"
  BY ScenariosAssumption DEF Commanded, NoCommand
<1> HIDE DEF ask, declared
<1>2. IsSequence(judged)
  BY <1>1, ResolvedOnce
<1>3. \A c \in ToSet(judged) :
          c \in Vendored \/ \E k \in DOMAIN ask.dirs : ask.dirs[k].catalog = c
  BY <1>1, ResolvedAreVouched
<1>4. \A k \in DOMAIN ask.dirs : ask.dirs[k] \in ToSet(ask.dirs)
  BY DEF ToSet
<1> HIDE DEF judged
<1>5. Listing(judged)
  BY <1>1, <1>2, <1>3, <1>4, AssessAssumption DEF Listing
<1> QED
  BY <1>5 DEF judged, ask, declared

OfControls(as, E, used, subject) ==
    \A a \in ToSet(as) : \E g : \E c \in ToSet(used) : \E x \in ToSet(c.controls) :
        a = AssertControl(g, E, c, x, subject)

\* A verdict on a subject, judged on the subject's own events.
JudgedAs(a, events, used, subject, domain) ==
    \E c \in ToSet(used) : \E x \in ToSet(c.controls) :
        a = AssertControl(BuildGraph(EventsOf(events, subject.id), domain),
                          {e \in ToSet(events) : e.subject = subject.id}, c, x, subject)

\* Every control of every catalog is among what was judged.
ByAll(found, used) ==
    \A c \in ToSet(used) : \A x \in ToSet(c.controls) :
        \E a \in ToSet(found) : a.control = x.id

\* An assertion is of its control and its subject.
LEMMA AssertionIsOf ==
    ASSUME NEW g, NEW E, NEW c, NEW x, NEW subject
    PROVE  LET a == AssertControl(g, E, c, x, subject)
           IN  a.control = x.id /\ a.subject = subject.id
<1>1. ASSUME NEW outcome, NEW of, NEW cited
      PROVE  LET b == Assertion(c, x, subject, outcome, of, cited)
             IN  b.control = x.id /\ b.subject = subject.id
  BY DEF Assertion
<1>2. \E outcome, of, cited :
          AssertControl(g, E, c, x, subject) = Assertion(c, x, subject, outcome, of, cited)
  <2>1. ASSUME NEW f
        PROVE  \E outcome, of, cited :
                   AssertFound(E, c, x, subject, f) = Assertion(c, x, subject, outcome, of, cited)
    BY DEF AssertFound
  <2> QED
    BY <2>1 DEF AssertControl
<1> QED
  BY <1>1, <1>2

\* A subject's verdicts are listed, each of one control of one catalog, and of
\* each control there is one.
LEMMA JudgedInOrder ==
    ASSUME NEW subject, NEW events, NEW used, Listing(used), NEW domain
    PROVE  LET as == Judge(subject, events, used, domain)
           IN  /\ IsSequence(as)
               /\ OfControls(as, {e \in ToSet(events) : e.subject = subject.id}, used, subject)
               /\ \A a \in ToSet(as) : JudgedAs(a, events, used, subject, domain)
               /\ ByAll(as, used)
<1> DEFINE E == {e \in ToSet(events) : e.subject = subject.id}
           graph == BuildGraph(EventsOf(events, subject.id), domain)
           Of(c, x) == AssertControl(graph, E, c, x, subject)
           row == [j \in DOMAIN used |->
                      [k \in DOMAIN used[j].controls |-> Of(used[j], used[j].controls[k])]]
           T == UNION {{Of(c, x) : x \in ToSet(c.controls)} : c \in ToSet(used)}
<1>1. Judge(subject, events, used, domain) = FlattenSeq(row)
  BY DEF Judge
<1>2. \A c, x : Of(c, x).control = x.id
  BY AssertionIsOf
<1> HIDE DEF graph, E, Of
<1>3. DOMAIN used = 1 .. Len(used) /\ Len(used) \in Nat
  BY FinitelyManyIndices DEF Listing
<1>4. ASSUME NEW j \in DOMAIN used PROVE row[j] \in Seq(T)
  <2> DEFINE controls == used[j].controls
             n == Len(controls)
             p == row[j]
  <2>1. used[j] \in ToSet(used)
    BY DEF ToSet
  <2>2. IsSequence(controls)
    BY <2>1 DEF Listing
  <2>3. DOMAIN controls = 1 .. n /\ n \in Nat
    <3> HIDE DEF controls
    <3> QED
      BY <2>2, FinitelyManyIndices
  <2>4. p = [k \in DOMAIN controls |-> Of(used[j], controls[k])]
    OBVIOUS
  <2>5. \A k \in DOMAIN controls : Of(used[j], controls[k]) \in T
    BY <2>1 DEF ToSet
  <2> HIDE DEF T, p, n
  <2>6. p \in [1 .. n -> T]
    BY <2>3, <2>4, <2>5
  <2>7. p \in Seq(T)
    BY <2>3, <2>6, SeqDef
  <2> QED
    BY <2>7 DEF p
<1>5. row \in Seq(Seq(T))
  <2> DEFINE n == Len(used)
             S == Seq(T)
  <2>1. n \in Nat /\ row \in [1 .. n -> S]
    <3> DEFINE q == row
    <3>1. q = [j \in DOMAIN used |-> q[j]]
      OBVIOUS
    <3> HIDE DEF q, T
    <3> QED
      BY <1>3, <1>4, <3>1 DEF q
  <2> DEFINE q == row
  <2>2. n \in Nat /\ q \in [1 .. n -> S]
    BY <2>1
  <2> HIDE DEF n, S, q
  <2>3. q \in Seq(S)
    BY <2>2, SeqDef
  <2> QED
    BY <2>3 DEF q, S
<1>6. ASSUME NEW c \in ToSet(used), NEW x \in ToSet(c.controls)
       PROVE  \E j \in DOMAIN row : Of(c, x) \in ToSet(row[j])
  <2>1. PICK j \in DOMAIN used : c = used[j]
    BY DEF ToSet
  <2>2. PICK k \in DOMAIN c.controls : x = c.controls[k]
    BY DEF ToSet
  <2>3. j \in DOMAIN row /\ k \in DOMAIN row[j] /\ row[j][k] = Of(c, x)
    BY <2>1, <2>2
  <2> HIDE DEF row
  <2> QED
    BY <2>3 DEF ToSet
<1> DEFINE as == FlattenSeq(row)
<1>7. as \in Seq(T) /\ ToSet(as) = UNION {ToSet(row[j]) : j \in DOMAIN row}
  <2> HIDE DEF row, T
  <2> QED
    BY <1>5, FlattenedSays
<1>8. \A c \in ToSet(used) : \A x \in ToSet(c.controls) : Of(c, x) \in ToSet(as)
  <2> HIDE DEF as, row, T
  <2> QED
    BY <1>7, <1>6
<1> HIDE DEF as, row
<1>9. IsSequence(as)
  <2> HIDE DEF T
  <2> QED
    BY <1>7, OfItsElements
<1>10. \A a \in ToSet(as) : a \in T
  <2> HIDE DEF T
  <2> QED
    BY <1>7, ElementsAreOf
<1>11. \A a \in T : \E c \in ToSet(used) : \E x \in ToSet(c.controls) : a = Of(c, x)
  OBVIOUS
<1> HIDE DEF T
<1>12. \A a \in ToSet(as) : \E c \in ToSet(used) : \E x \in ToSet(c.controls) : a = Of(c, x)
  BY <1>10, <1>11
<1>13. OfControls(as, E, used, subject)
  BY <1>12 DEF Of, OfControls
<1>14. \A a \in ToSet(as) : JudgedAs(a, events, used, subject, domain)
  BY <1>12 DEF Of, E, graph, JudgedAs
<1>15. ByAll(as, used)
  BY <1>2, <1>8 DEF ByAll
<1> QED
  BY <1>1, <1>9, <1>13, <1>14, <1>15 DEF as, E

\* A subject's verdicts cite events of that subject.
LEMMA JudgedRestsOnEvents ==
    ASSUME NEW subject, NEW events, NEW used, Listing(used), NEW domain
    PROVE  RestsOn(Judge(subject, events, used, domain), events)
<1> DEFINE E == {e \in ToSet(events) : e.subject = subject.id}
<1>1. ASSUME NEW g, NEW catalog, NEW control
      PROVE  LET a == AssertControl(g, E, catalog, control, subject)
             IN  a.subject = subject.id /\ \A n \in a.evidence : \E e \in E : Node(e) = n
  <2> HIDE DEF E
  <2>1. ASSUME NEW outcome, NEW found, NEW evidence
        PROVE  /\ Assertion(catalog, control, subject, outcome, found, evidence).subject = subject.id
               /\ Assertion(catalog, control, subject, outcome, found, evidence).evidence = evidence
    BY DEF Assertion
  <2>2. PICK outcome, found, evidence :
            /\ AssertControl(g, E, catalog, control, subject)
                   = Assertion(catalog, control, subject, outcome, found, evidence)
            /\ evidence = {} \/ \E focus : evidence = Evidence(E, focus)
    <3>1. ASSUME NEW f
          PROVE  \E outcome, found, evidence :
                    /\ AssertFound(E, catalog, control, subject, f)
                           = Assertion(catalog, control, subject, outcome, found, evidence)
                    /\ evidence = {} \/ \E focus : evidence = Evidence(E, focus)
      BY DEF AssertFound
    <3> QED
      BY <3>1 DEF AssertControl
  <2>3. \A n \in evidence : \E e \in E : Node(e) = n
    BY <2>2 DEF Evidence
  <2> QED
    BY <2>1, <2>2, <2>3
<1>2. ASSUME NEW a \in ToSet(Judge(subject, events, used, domain))
      PROVE  \A n \in a.evidence : \E e \in ToSet(events) :
                 Node(e) = n /\ e.subject = a.subject
  <2>1. OfControls(Judge(subject, events, used, domain), E, used, subject)
    BY JudgedInOrder
  <2> HIDE DEF E
  <2>2. PICK g, catalog, control : a = AssertControl(g, E, catalog, control, subject)
    BY <2>1 DEF OfControls
  <2>3. a.subject = subject.id /\ \A n \in a.evidence : \E e \in E : Node(e) = n
    BY <1>1, <2>2
  <2> QED
    BY <2>3 DEF E
<1> HIDE DEF E
<1> QED
  BY <1>2 DEF RestsOn

-----------------------------------------------------------------------------
(*                       What a report on disk says                        *)

\* An empty list is one.
LEMMA NothingListed ==
    /\ Listing(<<>>) /\ IsSequence(<<>>)
    /\ \A events : RestsOn(<<>>, events)
<1>1. IsSequence(<<>>)
  <2>1. <<>> \in Seq({})
    OBVIOUS
  <2> QED
    BY <2>1, OfItsElements
<1>2. ToSet(<<>>) = {}
  BY DEF ToSet
<1> QED
  BY <1>1, <1>2 DEF Listing, RestsOn

LEMMA ReportsInit == Init => ReportsInv
<1> SUFFICES ASSUME Init PROVE ReportsInv
  OBVIOUS
<1>1. Commanded
  BY ScenariosAssumption DEF Init, Commanded
<1>2. ResolvedCatalogs /\ JudgedOnEvents /\ JustReported /\ NothingYet /\ Ordered
  <2>1. catalogs = <<>> /\ assertions = <<>> /\ out.report = {}
    BY DEF Init
  <2>2. JudgedOnEvents /\ Ordered
    BY <2>1, NothingListed DEF JudgedOnEvents, Ordered
  <2> QED
    BY <2>2 DEF Init, ResolvedCatalogs, JustReported, NothingYet, Running
<1>3. "report" \in DOMAIN out /\ out.report = {} /\ exit = NoExit
  BY DEF Init
<1> QED
  BY <1>1, <1>2, <1>3 DEF ReportsInv, OnlyVerifiedCatalogsJudge, BackedVerdicts,
                          ExitTellsTheReport

\* The next command starts from nothing and leaves the report of the last.
LEMMA ReportsStart == ASSUME ReportsInv, StartNext PROVE ReportsInv'
<1>1. PICK c \in {Head(todo)} : \/ c.kind = "ingest" /\ BeginIngest(c) /\ UNCHANGED assessVars
                                \/ c.kind = "collect" /\ BeginCollect(c) /\ UNCHANGED assessVars
                                \/ c.kind = "assess" /\ BeginAssess(c)
  BY DEF StartNext
<1>2. Commanded'
  <2>1. todo \in Seq(Commands) /\ todo # <<>> /\ todo' = Tail(todo)
    BY DEF ReportsInv, Commanded, StartNext
  <2>2. Head(todo) \in Commands /\ todo' \in Seq(Commands)
    BY <2>1
  <2>3. cmd' = Head(todo)
    BY <1>1 DEF BeginIngest, BeginCollect, BeginAssess
  <2> QED
    BY <2>2, <2>3 DEF Commanded
<1>3. /\ out' = out
      /\ phase' \in {"ingest", "plan", "pull", "assess"}
  BY <1>1 DEF BeginIngest, BeginCollect, BeginAssess, assessVars
<1>4. \/ assertions' = assertions /\ accepted' = accepted
      \/ assertions' = <<>>
  BY <1>1 DEF BeginAssess, assessVars
<1>5. JudgedOnEvents' /\ Ordered'
  <2>1. \/ UNCHANGED <<catalogs, assertions>>
        \/ catalogs' = <<>> /\ assertions' = <<>>
    BY <1>1 DEF BeginAssess, assessVars
  <2> QED
    BY <1>3, <1>4, <2>1, NothingListed DEF ReportsInv, JudgedOnEvents, Ordered
<1>6. ResolvedCatalogs' /\ JustReported' /\ ExitTellsTheReport'
  BY <1>3 DEF ResolvedCatalogs, JustReported, ExitTellsTheReport
<1>7. NothingYet'
  BY <1>1, <1>3 DEF NothingYet, BeginIngest, BeginCollect, BeginAssess
<1> QED
  BY <1>2, <1>3, <1>5, <1>6, <1>7 DEF ReportsInv, OnlyVerifiedCatalogsJudge, BackedVerdicts

\* A step of ingest or collect touches nothing of an assessment.
LEMMA ReportsCollect ==
    ASSUME ReportsInv, CollectStep, UNCHANGED <<assessVars, start, todo, ran>>
    PROVE  ReportsInv'
<1>1. /\ cmd' = cmd
      /\ phase' \notin {"assess", "resolved", "ingested", "judging", "reported"} \/ phase' = phase
      /\ phase' = "idle" => cmd.kind # "assess"
  BY DEF CollectStep, AdaptOne, RefuseExport, WriteIngestManifest, RefuseCollect, WritePlan,
         WritePlanManifest, PullSource, FinishPull, WriteStream, WriteCollectReport,
         WriteCollectManifest, Die, End, Doing
<1>2. UNCHANGED <<catalogs, accepted, assertions, out, todo>>
  BY DEF assessVars
<1>3. /\ Commanded' /\ ResolvedCatalogs' /\ JudgedOnEvents'
      /\ JustReported' /\ NothingYet' /\ Ordered'
  <2>1. Commanded' /\ ResolvedCatalogs'
    BY <1>1, <1>2 DEF ReportsInv, Commanded, ResolvedCatalogs, Running
  <2>2. JudgedOnEvents'
    BY <1>2 DEF ReportsInv, JudgedOnEvents
  <2>3. Ordered'
    BY <1>2 DEF ReportsInv, Ordered
  <2>4. JustReported' /\ NothingYet'
    BY <1>1, <1>2 DEF ReportsInv, JustReported, NothingYet
  <2> QED
    BY <2>1, <2>2, <2>3, <2>4
<1>4. ExitTellsTheReport'
  BY <1>1 DEF ExitTellsTheReport
<1> QED
  BY <1>2, <1>3, <1>4 DEF ReportsInv, OnlyVerifiedCatalogsJudge, BackedVerdicts

\* Of a run that stops without a report, or before one.
LEMMA ReportsRefused ==
    ASSUME ReportsInv, UNCHANGED <<cmd, assessVars, todo>>, phase' = "idle", exit' = 3
    PROVE  ReportsInv'
<1>1. UNCHANGED <<catalogs, accepted, assertions, out>>
  BY DEF assessVars
<1>2. /\ Commanded' /\ ResolvedCatalogs' /\ JudgedOnEvents' /\ JustReported' /\ NothingYet'
      /\ Ordered'
  <2>1. JudgedOnEvents' /\ Ordered'
    BY <1>1 DEF ReportsInv, JudgedOnEvents, Ordered
  <2> QED
    BY <1>1, <2>1 DEF ReportsInv, Commanded, ResolvedCatalogs, JustReported, NothingYet
<1>3. ExitTellsTheReport'
  BY DEF ExitTellsTheReport
<1> QED
  BY <1>1, <1>2, <1>3 DEF ReportsInv, OnlyVerifiedCatalogsJudge, BackedVerdicts

\* The steps of a run that have yet to judge.
LEMMA ReportsResolved ==
    ASSUME ReportsInv, UNCHANGED <<cmd, out>>,
           ResolveCatalogs \/ JudgeSubject, UNCHANGED todo
    PROVE  ReportsInv'
<1>1. Commanded'
  BY DEF ReportsInv, Commanded
<1>2. ResolvedCatalogs' /\ JustReported' /\ NothingYet'
  BY DEF ReportsInv, ResolvedCatalogs, JustReported, NothingYet, ResolveCatalogs, JudgeSubject, Running
<1>3. JudgedOnEvents' /\ Ordered'
  <2>1. CASE ResolveCatalogs
    <3>1. /\ UNCHANGED <<assertions, accepted, out>>
          /\ catalogs' = Resolve(cmd.ask, cmd.declared, Vendored)
          /\ ResolveTrouble(cmd.ask, cmd.declared, Vendored) = "none"
          /\ cmd.kind = "assess"
      BY <2>1 DEF ResolveCatalogs, Running
    <3>2. Listing(catalogs')
      BY <3>1, ResolvedListed DEF ReportsInv
    <3> QED
      BY <3>1, <3>2 DEF ReportsInv, JudgedOnEvents, Ordered
  <2>2. CASE JudgeSubject
    <3>1. PICK subject, domain :
              assertions' = assertions \o Judge(subject, accepted, catalogs, domain)
      BY <2>2 DEF JudgeSubject
    <3> DEFINE more == Judge(subject, accepted, catalogs, domain)
    <3>2. Listing(catalogs) /\ IsSequence(assertions) /\ RestsOn(assertions, accepted)
      BY DEF ReportsInv, Ordered, JudgedOnEvents
    <3>3. UNCHANGED <<accepted, catalogs, out>>
      BY <2>2 DEF JudgeSubject
    <3>4. IsSequence(more) /\ RestsOn(more, accepted)
      BY <3>2, JudgedRestsOnEvents, JudgedInOrder
    <3> HIDE DEF more
    <3>5. ToSet(assertions \o more) = ToSet(assertions) \cup ToSet(more)
      BY <3>2, <3>4, ElementsOfConcat
    <3>6. IsSequence(assertions \o more)
      BY <3>2, <3>4, ConcatIsSequence
    <3>7. RestsOn(assertions \o more, accepted)
      BY <3>2, <3>4, <3>5 DEF RestsOn
    <3> QED
      BY <3>1, <3>3, <3>6, <3>7 DEF ReportsInv, JudgedOnEvents, Ordered, more
  <2> QED
    BY <2>1, <2>2
<1>4. phase' # "idle"
  BY DEF ResolveCatalogs, JudgeSubject, Running
<1> QED
  BY <1>1, <1>2, <1>3, <1>4 DEF ReportsInv, OnlyVerifiedCatalogsJudge, BackedVerdicts,
                                ExitTellsTheReport

\* A report that is written has passed every check before it.
LEMMA ReportsWritten ==
    ASSUME ReportsInv, WriteReport, UNCHANGED todo
    PROVE  ReportsInv'
<1> DEFINE r == [run |-> cmd, accepted |-> accepted, assertions |-> assertions,
                 catalogs |-> catalogs, limitations |-> Limitations(cmd.ask)]
<1>1. /\ Running("assess", "judging") /\ Backed(assertions)
      /\ out' = [out EXCEPT !.report = {r}] /\ phase' = "reported"
      /\ UNCHANGED <<dir, cmd, exit, catalogs, accepted, turn, assertions>>
  BY DEF WriteReport
<1>2. "report" \in DOMAIN out' /\ out'.report = {r}
  BY <1>1 DEF ReportsInv
<1>3. OnlyVerifiedCatalogsJudge'
  <2>1. /\ ResolveTrouble(cmd.ask, cmd.declared, Vendored) = "none"
        /\ catalogs = Resolve(cmd.ask, cmd.declared, Vendored)
        /\ cmd.kind = "assess"
    BY <1>1 DEF ReportsInv, ResolvedCatalogs, Running
  <2>2. IsSequence(cmd.ask.dirs) /\ IsSequence(cmd.ask.requested) /\ IsSequence(cmd.declared)
    BY <2>1, ScenariosAssumption DEF ReportsInv, Commanded, NoCommand
  <2>3. /\ cmd.ask.requested # <<>> => {c.label : c \in ToSet(catalogs)} = ToSet(cmd.ask.requested)
        /\ \A c \in ToSet(catalogs) :
               \/ c \in Vendored
               \/ \E k \in DOMAIN cmd.ask.dirs :
                      /\ cmd.ask.dirs[k].catalog = c
                      /\ \/ SignedFor(cmd.ask.dirs[k], cmd.ask.trust)
                         \/ cmd.ask.allow /\ c.label \in Limitations(cmd.ask)
    <3> DEFINE ask == cmd.ask
               d == cmd.declared
    <3>1. /\ IsSequence(ask.dirs) /\ IsSequence(ask.requested) /\ IsSequence(d)
          /\ ResolveTrouble(ask, d, Vendored) = "none"
          /\ catalogs = Resolve(ask, d, Vendored)
      BY <2>1, <2>2
    <3> HIDE DEF ask, d
    <3>2. LET judged == ToSet(Resolve(ask, d, Vendored))
          IN  /\ ask.requested # <<>> => {c.label : c \in judged} = ToSet(ask.requested)
              /\ \A c \in judged :
                     \/ c \in Vendored
                     \/ \E k \in DOMAIN ask.dirs :
                            /\ ask.dirs[k].catalog = c
                            /\ \/ SignedFor(ask.dirs[k], ask.trust)
                               \/ ask.allow /\ c.label \in Limitations(ask)
      BY <3>1, ResolvedAreVouched
    <3> USE DEF ask
    <3> QED
      BY <3>1, <3>2
  <2> QED
    BY <1>2, <2>3 DEF OnlyVerifiedCatalogsJudge
<1>4. BackedVerdicts'
  <2>1. \A a \in ToSet(r.assertions) : a.outcome \in Supporting =>
            /\ a.evidence # {}
            /\ \A n \in a.evidence : \E e \in ToSet(r.accepted) :
                   Node(e) = n /\ e.subject = a.subject
    BY <1>1 DEF ReportsInv, JudgedOnEvents, RestsOn, Backed
  <2> QED
    BY <1>2, <2>1 DEF BackedVerdicts
<1>5. JustReported'
  BY <1>1, <1>2 DEF JustReported
<1>6. Ordered' /\ JudgedOnEvents'
  BY <1>1, <1>2 DEF ReportsInv, Ordered, JudgedOnEvents
<1> QED
  BY <1>1, <1>2, <1>3, <1>4, <1>5, <1>6 DEF ReportsInv, Commanded, ResolvedCatalogs,
                                            NothingYet, ExitTellsTheReport

\* Reading and describing the bundle writes files beside the report.
LEMMA ReportsDescribed ==
    ASSUME ReportsInv, IngestBundle \/ Describe, UNCHANGED todo
    PROVE  ReportsInv'
<1>1. /\ UNCHANGED <<cmd, catalogs, assertions>>
      /\ phase' \in {"ingested", "judging"} /\ Running("assess", phase)
      /\ phase \in {"resolved", "ingested"}
  BY DEF IngestBundle, Describe, Running
<1>2. "report" \in DOMAIN out' /\ out'.report = out.report
  BY DEF ReportsInv, IngestBundle, Describe
<1>3. assertions = <<>>
  BY <1>1 DEF ReportsInv, NothingYet, Running
<1>4. /\ Commanded' /\ ResolvedCatalogs' /\ JudgedOnEvents' /\ NothingYet'
      /\ JustReported' /\ ExitTellsTheReport' /\ Ordered'
  <2>1. JudgedOnEvents' /\ Ordered'
    BY <1>1, <1>2, <1>3, NothingListed DEF ReportsInv, JudgedOnEvents, Ordered
  <2> QED
    BY <1>1, <1>3, <2>1 DEF ReportsInv, Commanded, ResolvedCatalogs,
                            NothingYet, JustReported, ExitTellsTheReport, Running
<1> QED
  BY <1>2, <1>4 DEF ReportsInv, OnlyVerifiedCatalogsJudge, BackedVerdicts

\* The exit code of a run that reported is told from that report.
LEMMA ReportsConcluded ==
    ASSUME ReportsInv, Conclude, UNCHANGED todo
    PROVE  ReportsInv'
<1>1. /\ UNCHANGED <<cmd, catalogs, accepted, assertions, out>>
      /\ phase = "reported" /\ phase' = "idle" /\ exit' = ExitCode(assertions)
  BY DEF Conclude, assessVars, End, Running
<1>2. PICK r \in out.report : r.run = cmd /\ r.assertions = assertions
  BY <1>1 DEF ReportsInv, JustReported
<1>3. ExitTellsTheReport'
  <2>1. exit' = 0 => /\ Verdicts \cap Outcomes(r.assertions) # {}
                     /\ Gated(cmd) \cap Outcomes(r.assertions) = {}
    BY <1>1, <1>2 DEF ExitCode, Gated
  <2>2. exit' = 1 => Gated(cmd) \cap Outcomes(r.assertions) # {}
    BY <1>1, <1>2 DEF ExitCode, Gated
  <2> QED
    BY <1>1, <1>2, <2>1, <2>2 DEF ExitTellsTheReport
<1>4. JudgedOnEvents' /\ Ordered'
  BY <1>1 DEF ReportsInv, JudgedOnEvents, Ordered
<1> QED
  BY <1>1, <1>3, <1>4 DEF ReportsInv, Commanded, ResolvedCatalogs,
                          NothingYet, JustReported, OnlyVerifiedCatalogsJudge, BackedVerdicts

LEMMA ReportsStep == ReportsInv /\ [Next]_vars => ReportsInv'
<1> SUFFICES ASSUME ReportsInv, [Next]_vars PROVE ReportsInv'
  OBVIOUS
<1>1. CASE StartNext
  BY <1>1, ReportsStart
<1>2. CASE CollectStep /\ UNCHANGED <<assessVars, start, todo, ran>>
  BY <1>2, ReportsCollect
<1>3. CASE AssessStep /\ UNCHANGED <<collectVars, start, todo, ran>>
  <2>1. CASE RefuseGate \/ RefuseCatalogs \/ RefuseBundle \/ RefuseReport
    <3>1. UNCHANGED <<cmd, assessVars, todo>> /\ phase' = "idle" /\ exit' = 3
      BY <1>3, <2>1 DEF RefuseGate, RefuseCatalogs, RefuseBundle, RefuseReport, End
    <3> QED
      BY <3>1, ReportsRefused
  <2>2. CASE ResolveCatalogs \/ JudgeSubject
    <3>1. UNCHANGED <<cmd, out, todo>>
      BY <1>3, <2>2 DEF ResolveCatalogs, JudgeSubject
    <3> QED
      BY <2>2, <3>1, ReportsResolved
  <2>3. CASE IngestBundle \/ Describe
    BY <1>3, <2>3, ReportsDescribed
  <2>4. CASE WriteReport
    BY <1>3, <2>4, ReportsWritten
  <2>5. CASE Conclude
    BY <1>3, <2>5, ReportsConcluded
  <2> QED
    BY <1>3, <2>1, <2>2, <2>3, <2>4, <2>5 DEF AssessStep
<1>4. CASE UNCHANGED vars
  BY <1>4 DEF vars, assessVars, ReportsInv, Commanded, ResolvedCatalogs, JudgedOnEvents, Ordered,
              NothingYet, JustReported, OnlyVerifiedCatalogsJudge, BackedVerdicts,
              ExitTellsTheReport, Running
<1> QED
  BY <1>1, <1>2, <1>3, <1>4 DEF Next

LEMMA ReportsInvariant == Spec => []ReportsInv
BY ReportsInit, ReportsStep, PTL DEF Spec

\* Whatever a run asks for, whatever its directories hold and whoever signed
\* them: a report on disk was judged by the catalogs asked for, each shipped,
\* signed for that content under a trusted key, or named as a limitation
\* (_resolve_catalogs, _verify_catalog_dirs).
THEOREM OnlyVerifiedCatalogsJudgeAlways == Spec => []OnlyVerifiedCatalogsJudge
<1>1. ReportsInv => OnlyVerifiedCatalogsJudge
  BY DEF ReportsInv
<1> QED
  BY <1>1, ReportsInvariant, PTL

\* Whatever the events, shapes and catalogs are, every supporting verdict of a
\* report on disk cites accepted events of its own subject, and at least one
\* (assess._evidence, assertions.check_dc5).
THEOREM BackedVerdictsAlways == Spec => []BackedVerdicts
<1>1. ReportsInv => BackedVerdicts
  BY DEF ReportsInv
<1> QED
  BY <1>1, ReportsInvariant, PTL

\* Whatever a run gates on, 0 and 1 tell what the report it left says
\* (cmd_assess), however many commands ran before it.
THEOREM ExitTellsTheReportAlways == Spec => []ExitTellsTheReport
<1>1. ReportsInv => ExitTellsTheReport
  BY DEF ReportsInv
<1> QED
  BY <1>1, ReportsInvariant, PTL

-----------------------------------------------------------------------------
(*                       What a report's files say                         *)

\* The assertions with some value of a field.
LEMMA HavingSays ==
    ASSUME NEW as, IsSequence(as), NEW field, NEW values
    PROVE  LET p == Having(as, field, values)
           IN  /\ IsSequence(p) /\ ToSet(p) \subseteq ToSet(as)
               /\ HoldsThose(p, as, {k \in DOMAIN as : as[k][field] \in values})
<1> DEFINE p == Having(as, field, values)
           T == ToSet(as)
           K == {k \in DOMAIN as : as[k][field] \in values}
<1>1. as \in Seq(T) /\ K \in SUBSET DOMAIN as
  BY DEF IsSequence
<1>2. p = Picked(as, K)
  BY DEF Having
<1> HIDE DEF p, T, K
<1>3. p \in Seq(T) /\ HoldsThose(p, as, K)
  BY <1>1, <1>2, PickedSays
<1>4. IsSequence(p)
  BY <1>3, OfItsElements
<1>5. ToSet(p) \subseteq ToSet(as)
  BY <1>1, <1>3 DEF HoldsThose, ToSet
<1> QED
  BY <1>3, <1>4, <1>5 DEF p, K

\* Nothing of that value is left out.
LEMMA HavingKeeps ==
    ASSUME NEW as, IsSequence(as), NEW field, NEW v
    PROVE  \A k \in DOMAIN as : as[k][field] = v => as[k] \in ToSet(Having(as, field, {v}))
<1> DEFINE values == {v}
<1>1. HoldsThose(Having(as, field, values), as, {i \in DOMAIN as : as[i][field] \in values})
  <2> HIDE DEF values
  <2> QED
    BY HavingSays
<1> QED
  BY <1>1 DEF HoldsThose

\* The gaps of a pair, in SARIF and in its subject's package.
LEMMA GapsAgree ==
    ASSUME NEW as, IsSequence(as), NEW used, NEW E, NEW a \in ToSet(as)
    PROVE  AreGaps(CountOf(as, LAMBDA b : (b.control = a.control /\ b.subject = a.subject)
                                          /\ b.outcome \in GapOutcomes),
                   as, PackagesOf(as, used, E)[a.subject], a)
<1> DEFINE c == a.control
           s == a.subject
           Pair(O) == {k \in DOMAIN as : /\ as[k].control = c /\ as[k].subject = s
                                         /\ as[k].outcome \in O}
           package == PackagesOf(as, used, E)[s]
           mine == Having(as, "subject", {s})
           others == {"not_assessed"}
<1>1. \A O : IsFiniteSet(Pair(O)) /\ Cardinality(Pair(O)) \in Nat
  <2> TAKE O
  <2>1. Pair(O) \subseteq DOMAIN as
    OBVIOUS
  <2> HIDE DEF Pair
  <2> QED
    BY <2>1, FinitelyManyIndices
<1>2. Cardinality(Pair(GapOutcomes))
          = Cardinality({k \in DOMAIN Sarif(as) : Sarif(as)[k].rule = c /\ Sarif(as)[k].subject = s})
  <2> DEFINE shown == Having(as, "outcome", DOMAIN SarifLevel)
             V == {x \in ToSet(as) : x.control = c /\ x.subject = s}
  <2>1. DOMAIN SarifLevel = GapOutcomes
    BY DEF SarifLevel
  <2>2. /\ ToSet(shown) \subseteq ToSet(as)
        /\ \A X : Number(shown, DOMAIN shown, X)
                      = Number(as, {k \in DOMAIN as : as[k].outcome \in DOMAIN SarifLevel}, X)
    BY HavingSays DEF HoldsThose
  <2>3. Sarif(as) = [k \in DOMAIN shown |->
                        [rule |-> shown[k].control, subject |-> shown[k].subject,
                         level |-> SarifLevel[shown[k].outcome]]]
    BY DEF Sarif
  <2> HIDE DEF shown
  <2>4. {k \in DOMAIN Sarif(as) : Sarif(as)[k].rule = c /\ Sarif(as)[k].subject = s}
            = {i \in DOMAIN shown : shown[i] \in V}
    <3>1. \A i \in DOMAIN shown : shown[i] \in ToSet(as)
      BY <2>2 DEF ToSet
    <3>2. /\ DOMAIN Sarif(as) = DOMAIN shown
          /\ \A i \in DOMAIN shown : /\ Sarif(as)[i].rule = shown[i].control
                                    /\ Sarif(as)[i].subject = shown[i].subject
      BY <2>3
    <3> QED
      BY <3>1, <3>2
  <2>5. {k \in {j \in DOMAIN as : as[j].outcome \in DOMAIN SarifLevel} : as[k] \in V}
            = Pair(GapOutcomes)
    BY <2>1 DEF ToSet
  <2> HIDE DEF V, Pair
  <2> QED
    BY <2>2, <2>4, <2>5 DEF Number
<1>3. /\ IsSequence(mine) /\ ToSet(mine) \subseteq ToSet(as)
      /\ \A V : Number(mine, DOMAIN mine, V)
                    = Number(as, {k \in DOMAIN as : as[k].subject \in {s}}, V)
  BY HavingSays DEF HoldsThose
<1>4. ASSUME NEW O
      PROVE  LET p == Having(mine, "outcome", O)
             IN  Cardinality({i \in DOMAIN p : p[i].control = c}) = Cardinality(Pair(O))
  <2> DEFINE p == Having(mine, "outcome", O)
             V == {x \in ToSet(as) : x.control = c}
             W == {x \in V : x.outcome \in O}
  <2> HIDE DEF mine
  <2>1. /\ ToSet(p) \subseteq ToSet(mine)
        /\ \A X : Number(p, DOMAIN p, X)
                      = Number(mine, {k \in DOMAIN mine : mine[k].outcome \in O}, X)
    <3>1. IsSequence(mine)
      BY <1>3
    <3> QED
      BY <3>1, HavingSays DEF HoldsThose
  <2> HIDE DEF p
  <2>2. {i \in DOMAIN p : p[i].control = c} = {i \in DOMAIN p : p[i] \in V}
    <3>1. \A i \in DOMAIN p : p[i] \in ToSet(as)
      BY <1>3, <2>1 DEF ToSet
    <3> QED
      BY <3>1
  <2>3. {k \in {j \in DOMAIN mine : mine[j].outcome \in O} : mine[k] \in V}
            = {k \in DOMAIN mine : mine[k] \in W}
    OBVIOUS
  <2>4. Number(mine, DOMAIN mine, W)
            = Number(as, {k \in DOMAIN as : as[k].subject \in {s}}, W)
    <3> HIDE DEF W
    <3> QED
      BY <1>3
  <2>5. {k \in {j \in DOMAIN as : as[j].subject \in {s}} : as[k] \in W} = Pair(O)
    BY DEF ToSet
  <2> HIDE DEF V, W, Pair
  <2> QED
    BY <2>1, <2>2, <2>3, <2>4, <2>5 DEF p, Number
<1>5. package = Remediation(mine, used, E[s])
  <2>1. s \in Judged(as)
    BY DEF Judged, ToSet
  <2> HIDE DEF mine
  <2> QED
    BY <2>1 DEF PackagesOf, mine
<1> DEFINE findings == Having(mine, "outcome", FindingOutcomes)
           unassessed == Having(mine, "outcome", others)
<1>6. {i \in DOMAIN package.findings : package.findings[i].control = c}
          = {i \in DOMAIN findings : findings[i].control = c}
  <2> HIDE DEF mine, package
  <2>1. /\ DOMAIN package.findings = DOMAIN findings
        /\ \A i \in DOMAIN findings : package.findings[i].control = findings[i].control
    BY <1>5 DEF Remediation
  <2> HIDE DEF findings
  <2> QED
    BY <2>1
<1>7. {i \in DOMAIN package.not_assessed : package.not_assessed[i].control = c}
          = {i \in DOMAIN unassessed : unassessed[i].control = c}
  <2> HIDE DEF mine, package
  <2>1. /\ DOMAIN package.not_assessed = DOMAIN unassessed
        /\ \A i \in DOMAIN unassessed : package.not_assessed[i].control = unassessed[i].control
    BY <1>5 DEF Remediation
  <2> HIDE DEF unassessed
  <2> QED
    BY <2>1
<1>8. Cardinality(Pair(GapOutcomes))
          = Cardinality(Pair(FindingOutcomes)) + Cardinality(Pair(others))
  <2>1. /\ Pair(GapOutcomes) = Pair(FindingOutcomes) \cup Pair(others)
        /\ Pair(FindingOutcomes) \cap Pair(others) = {}
    BY DEF GapOutcomes, FindingOutcomes
  <2> HIDE DEF Pair, others
  <2>2. Cardinality(Pair(FindingOutcomes) \cup Pair(others))
            = Cardinality(Pair(FindingOutcomes)) + Cardinality(Pair(others))
              - Cardinality(Pair(FindingOutcomes) \cap Pair(others))
    BY <1>1, FS_Union
  <2>3. Cardinality(Pair(FindingOutcomes) \cap Pair(others)) = 0
    BY <2>1, FS_EmptySet
  <2>4. Cardinality(Pair(FindingOutcomes)) \in Nat /\ Cardinality(Pair(others)) \in Nat
    BY <1>1
  <2>5. Cardinality(Pair(GapOutcomes)) = Cardinality(Pair(FindingOutcomes) \cup Pair(others))
    BY <2>1
  <2> QED
    BY <2>2, <2>3, <2>4, <2>5
<1>9. Pair(GapOutcomes)
          = {k \in DOMAIN as : (as[k].control = a.control /\ as[k].subject = a.subject)
                               /\ as[k].outcome \in GapOutcomes}
  OBVIOUS
<1>10. /\ Cardinality({i \in DOMAIN package.findings : package.findings[i].control = c})
              = Cardinality(Pair(FindingOutcomes))
       /\ Cardinality({i \in DOMAIN package.not_assessed : package.not_assessed[i].control = c})
              = Cardinality(Pair(others))
  <2> HIDE DEF Pair, package, others, mine
  <2> QED
    BY <1>4, <1>6, <1>7
<1> HIDE DEF Pair, package, others, findings, unassessed
<1> QED
  BY <1>2, <1>8, <1>9, <1>10 DEF AreGaps, CountOf, package

\* The pairs that are not conformant, in JUnit and in OSCAL.
LEMMA FailuresAgree ==
    ASSUME NEW as, IsSequence(as), NEW a \in ToSet(as)
    PROVE  AreFailures(CountOf(as, LAMBDA b : (b.control = a.control /\ b.subject = a.subject)
                                              /\ b.outcome # "conformant"), as, a)
<1> DEFINE c == a.control
           s == a.subject
           Unmet == {k \in DOMAIN as : (as[k].control = c /\ as[k].subject = s)
                                        /\ as[k].outcome # "conformant"}
           rows == [k \in DOMAIN as |-> [test |-> as[k].control, class |-> as[k].subject,
                                         message |-> as[k].outcome]]
           K == {k \in DOMAIN as : as[k].outcome # "conformant"}
           V == {x \in ToSet(rows) : x.test = c /\ x.class = s}
           p == Junit(as).failures
           found == Oscal(as).findings
<1>1. DOMAIN as = 1 .. Len(as) /\ Len(as) \in Nat
  BY FinitelyManyIndices
<1>2. rows \in Seq(ToSet(rows)) /\ K \in SUBSET DOMAIN rows
  <2>1. DOMAIN rows = 1 .. Len(as)
    BY <1>1
  <2>2. rows = [k \in 1 .. Len(as) |-> rows[k]]
    BY <2>1
  <2>3. \A k \in 1 .. Len(as) : rows[k] \in ToSet(rows)
    BY <2>1 DEF ToSet
  <2>4. K \in SUBSET DOMAIN rows
    OBVIOUS
  <2> HIDE DEF rows, K
  <2>5. rows \in [1 .. Len(as) -> ToSet(rows)]
    BY <2>2, <2>3
  <2>6. rows \in Seq(ToSet(rows))
    <3> DEFINE n == Len(as)
               S == ToSet(rows)
    <3>1. n \in Nat /\ rows \in [1 .. n -> S]
      BY <1>1, <2>5
    <3> HIDE DEF n, S
    <3>2. rows \in Seq(S)
      BY <3>1, SeqDef
    <3> QED
      BY <3>2 DEF S
  <2> QED
    BY <2>4, <2>6
<1>3. p = Picked(rows, K)
  BY DEF Junit
<1>4. ToSet(p) \subseteq ToSet(rows) /\ Number(p, DOMAIN p, V) = Number(rows, K, V)
  <2> HIDE DEF p, K, V, rows
  <2>1. HoldsThose(p, rows, K)
    BY <1>2, <1>3, PickedSays
  <2> QED
    BY <1>2, <2>1 DEF HoldsThose, ToSet
<1>5. {k \in K : rows[k] \in V} = Unmet
  BY DEF ToSet
<1> HIDE DEF p
<1>6. {i \in DOMAIN p : p[i].test = c /\ p[i].class = s} = {i \in DOMAIN p : p[i] \in V}
  <2>1. \A i \in DOMAIN p : p[i] \in ToSet(rows)
    BY <1>4 DEF ToSet
  <2> HIDE DEF rows
  <2> QED
    BY <2>1
<1>7. Cardinality(Unmet) = Cardinality({i \in DOMAIN p : p[i].test = c /\ p[i].class = s})
  <2> HIDE DEF Unmet, K, V, rows
  <2> QED
    BY <1>4, <1>5, <1>6 DEF Number
<1>8. {k \in DOMAIN found : /\ found[k].target = c /\ found[k].subject = s
                            /\ found[k].state = "not-satisfied"} = Unmet
  <2>1. /\ DOMAIN found = DOMAIN as
        /\ \A k \in DOMAIN as :
              /\ found[k].target = as[k].control /\ found[k].subject = as[k].subject
              /\ found[k].state = IF as[k].outcome = "conformant" THEN "satisfied"
                                                                  ELSE "not-satisfied"
    BY DEF Oscal
  <2> HIDE DEF found
  <2> QED
    BY <2>1
<1> HIDE DEF found
<1> QED
  BY <1>7, <1>8 DEF AreFailures, CountOf, p, found

\* The evidence of a pair is in its subject's pack.
LEMMA EvidencePacked ==
    ASSUME NEW as, IsSequence(as), NEW a \in ToSet(as),
           NEW o \in ToSet(Oscal(as).observations), o.id = <<a.control, a.subject>>
    PROVE  o.evidence \subseteq PacksOf(as)[a.subject].evidence
<1> DEFINE s == a.subject
           mine == Having(as, "subject", {s})
<1>1. PICK k \in DOMAIN as : o.id = <<as[k].control, as[k].subject>>
                            /\ o.evidence = as[k].evidence
  <2>1. Oscal(as).observations = [k \in DOMAIN as |->
            [id |-> <<as[k].control, as[k].subject>>, evidence |-> as[k].evidence]]
    BY DEF Oscal
  <2>2. PICK k \in DOMAIN as :
            o = [id |-> <<as[k].control, as[k].subject>>, evidence |-> as[k].evidence]
    BY <2>1 DEF ToSet
  <2> QED
    BY <2>2
<1>2. as[k].subject = s
  <2>1. <<a.control, a.subject>> = <<as[k].control, as[k].subject>>
    BY <1>1
  <2> QED
    BY <2>1
<1>3. as[k]["subject"] = s => as[k] \in ToSet(mine)
  BY HavingKeeps
<1> HIDE DEF mine
<1>4. PICK i \in DOMAIN mine : mine[i] = as[k]
  <2>1. as[k] \in ToSet(mine)
    BY <1>2, <1>3
  <2> QED
    BY <2>1 DEF ToSet
<1>5. PacksOf(as)[s] = Pack(mine)
  <2>1. s \in Judged(as)
    BY DEF Judged, ToSet
  <2> QED
    BY <2>1 DEF PacksOf, mine
<1>6. Pack(mine).evidence = UNION {mine[j].evidence : j \in DOMAIN mine}
  BY DEF Pack
<1>7. mine[i].evidence \subseteq Pack(mine).evidence
  BY <1>6
<1> QED
  BY <1>1, <1>4, <1>5, <1>7

\* The counts of a summary.
LEMMA CountsSay ==
    ASSUME NEW as, IsSequence(as), NEW o \in AllOutcomes
    PROVE  /\ Aggregate(as)[o] = Cardinality({k \in DOMAIN as : as[k].outcome = o})
           /\ Aggregate(as)[o] \in Nat
           /\ Aggregate(as)[o] > 0 <=> \E k \in DOMAIN as : as[k].outcome = o
<1> DEFINE K == {k \in DOMAIN as : as[k].outcome = o}
<1>1. IsFiniteSet(K) /\ Cardinality(K) \in Nat
  BY FinitelyManyIndices
<1>2. Aggregate(as)[o] = Cardinality(K)
  BY DEF Aggregate, CountOf
<1>3. Cardinality(K) = 0 <=> K = {}
  <2> HIDE DEF K
  <2> QED
    BY <1>1, FS_EmptySet
<1>4. Aggregate(as)[o] > 0 <=> K # {}
  <2> HIDE DEF K
  <2> QED
    BY <1>1, <1>2, <1>3
<1> QED
  BY <1>1, <1>2, <1>4

\* The one word of the verdict, the gap lines and SARIF.
LEMMA VerdictOfAll ==
    ASSUME NEW as, IsSequence(as)
    PROVE  VerdictAgrees(Summarize(as), Sarif(as))
<1> DEFINE n == Aggregate(as)
           Found(o) == \E k \in DOMAIN as : as[k].outcome = o
           sarif == Sarif(as)
           shown == Having(as, "outcome", DOMAIN SarifLevel)
           summary == Summarize(as)
<1>1. \A o \in AllOutcomes : n[o] \in Nat /\ (n[o] > 0 <=> Found(o))
  BY CountsSay
<1>2. GapOutcomes \subseteq AllOutcomes
  BY DEF GapOutcomes, AllOutcomes
<1>3. summary.verdict = IF n["non-conformant"] > 0 THEN "non-conformant"
                        ELSE IF n["partial"] + n["insufficient_evidence"] + n["not_assessed"] > 0
                        THEN "incomplete" ELSE "conformant"
  BY DEF Summarize
<1>4. /\ summary.verdict = "conformant" <=> \A o \in GapOutcomes : ~Found(o)
      /\ summary.verdict = "non-conformant" <=> Found("non-conformant")
  <2>1. /\ n["non-conformant"] \in Nat /\ n["partial"] \in Nat
        /\ n["insufficient_evidence"] \in Nat /\ n["not_assessed"] \in Nat
        /\ n["non-conformant"] > 0 <=> Found("non-conformant")
        /\ n["partial"] > 0 <=> Found("partial")
        /\ n["insufficient_evidence"] > 0 <=> Found("insufficient_evidence")
        /\ n["not_assessed"] > 0 <=> Found("not_assessed")
    BY <1>1 DEF AllOutcomes
  <2> HIDE DEF n, Found, summary
  <2> QED
    BY <1>3, <2>1 DEF GapOutcomes
<1>5. /\ DOMAIN SarifLevel = GapOutcomes
      /\ \A o \in GapOutcomes : SarifLevel[o] = "error" <=> o = "non-conformant"
  BY DEF SarifLevel, GapOutcomes
<1>6. /\ IsSequence(shown)
      /\ ToSet(shown) = {as[k] : k \in {j \in DOMAIN as : as[j].outcome \in GapOutcomes}}
  <2>1. /\ IsSequence(shown)
        /\ HoldsThose(shown, as, {i \in DOMAIN as : as[i]["outcome"] \in DOMAIN SarifLevel})
    BY HavingSays
  <2> QED
    BY <1>5, <2>1 DEF HoldsThose
<1>7. sarif = [k \in DOMAIN shown |->
                  [rule |-> shown[k].control, subject |-> shown[k].subject,
                   level |-> SarifLevel[shown[k].outcome]]]
  BY DEF Sarif
<1> HIDE DEF shown, sarif
<1>8. \A k \in DOMAIN as : as[k].outcome \in GapOutcomes =>
          \E i \in DOMAIN shown : shown[i] = as[k]
  BY <1>6 DEF ToSet
<1>9. \A i \in DOMAIN shown : /\ shown[i].outcome \in GapOutcomes
                             /\ \E k \in DOMAIN as : shown[i] = as[k]
  BY <1>6 DEF ToSet
<1>10. sarif = <<>> <=> \A o \in GapOutcomes : ~Found(o)
  <2>1. DOMAIN shown = 1 .. Len(shown) /\ Len(shown) \in Nat
    BY <1>6 DEF IsSequence
  <2>2. DOMAIN sarif = DOMAIN shown
    BY <1>7
  <2>3. DOMAIN shown = {} <=> \A o \in GapOutcomes : ~Found(o)
    BY <1>8, <1>9
  <2>4. sarif = <<>> => DOMAIN sarif = {}
    OBVIOUS
  <2>5. DOMAIN sarif = {} => sarif = <<>>
    <3>1. sarif \in Seq({sarif[k] : k \in DOMAIN shown})
      BY <1>7, <2>1
    <3>2. DOMAIN sarif = {} => Len(sarif) = 0
      BY <2>1, <2>2, <3>1
    <3> QED
      BY <3>1, <3>2, EmptySeq
  <2> QED
    BY <2>2, <2>3, <2>4, <2>5
<1>11. (\E k \in DOMAIN sarif : sarif[k].level = "error") <=> Found("non-conformant")
  <2>1. DOMAIN sarif = DOMAIN shown
        /\ \A i \in DOMAIN shown : sarif[i].level = SarifLevel[shown[i].outcome]
    BY <1>7
  <2>2. "non-conformant" \in GapOutcomes
    BY DEF GapOutcomes
  <2>3. ASSUME Found("non-conformant")
        PROVE  \E k \in DOMAIN sarif : sarif[k].level = "error"
    <3>1. PICK j \in DOMAIN as : as[j].outcome = "non-conformant"
      BY <2>3
    <3>2. PICK i \in DOMAIN shown : shown[i] = as[j]
      BY <1>8, <2>2, <3>1
    <3> QED
      BY <1>5, <2>1, <2>2, <3>1, <3>2
  <2>4. ASSUME NEW i \in DOMAIN shown, SarifLevel[shown[i].outcome] = "error"
        PROVE  Found("non-conformant")
    <3>1. shown[i].outcome = "non-conformant"
      BY <1>5, <1>9, <2>4
    <3> QED
      BY <1>9, <3>1
  <2> HIDE DEF Found
  <2> QED
    BY <2>1, <2>3, <2>4
<1>12. \A o \in GapOutcomes :
           summary.counts[o] > 0 <=> \E gap \in summary.gaps : gap.outcome = o
  <2> TAKE o \in GapOutcomes
  <2> DEFINE Controls(x) == {as[k].control : k \in {j \in DOMAIN as : as[j].outcome = x}}
             listed == {x \in GapOutcomes : Controls(x) # {}}
             Gap(x) == [outcome |-> x,
                        listed |-> Min({Cardinality(Controls(x)), MaxListed}),
                        more |-> Max({0, Cardinality(Controls(x)) - MaxListed})]
  <2>1. summary.counts = n /\ summary.gaps = {Gap(x) : x \in listed}
    BY DEF Summarize
  <2>2. o \in listed <=> Found(o)
    OBVIOUS
  <2>3. \A x : Gap(x).outcome = x
    OBVIOUS
  <2> HIDE DEF listed, Gap, summary, n, Found
  <2>4. (\E gap \in summary.gaps : gap.outcome = o) <=> o \in listed
    BY <2>1, <2>3
  <2> QED
    BY <1>1, <1>2, <2>1, <2>2, <2>4
<1> HIDE DEF summary, Found
<1> QED
  BY <1>4, <1>10, <1>11, <1>12 DEF VerdictAgrees, summary, sarif

\* Every tally counts every assertion.
LEMMA TalliesOfAll ==
    ASSUME NEW as, IsSequence(as)
    PROVE  TalliesAgree(Aggregate(as), Csv(as), StatementTable(as))
<1> DEFINE table == StatementTable(as)
           S == {as[k].family : k \in DOMAIN as}
<1>1. IsFiniteSet(DOMAIN as)
  BY FinitelyManyIndices
<1>2. IsFiniteSet(S)
  <2> DEFINE g == [k \in DOMAIN as |-> as[k].family]
  <2>1. g \in Surjection(DOMAIN as, S)
    BY DEF Surjection
  <2> HIDE DEF g, S
  <2> QED
    BY <1>1, <2>1, FS_Surjection DEF ExistsSurjection
<1>3. ASSUME NEW o \in AllOutcomes
      PROVE  Aggregate(as)[o] = CountOf(Csv(as), LAMBDA row : row[3] = o)
  <2>1. /\ DOMAIN Csv(as) = DOMAIN as
        /\ \A k \in DOMAIN as : Csv(as)[k] = <<as[k].control, as[k].subject, as[k].outcome>>
    BY DEF Csv
  <2>2. ASSUME NEW k \in DOMAIN as PROVE Csv(as)[k][3] = as[k].outcome
    <3>1. \A x, y, z : <<x, y, z>>[3] = z
      OBVIOUS
    <3>2. Csv(as)[k][3] = <<as[k].control, as[k].subject, as[k].outcome>>[3]
      BY <2>1
    <3> QED
      BY <3>1, <3>2
  <2>3. {k \in DOMAIN Csv(as) : Csv(as)[k][3] = o} = {k \in DOMAIN as : as[k].outcome = o}
    BY <2>1, <2>2
  <2>4. Aggregate(as)[o] = Cardinality({k \in DOMAIN as : as[k].outcome = o})
    BY CountsSay
  <2> QED
    BY <2>3, <2>4 DEF CountOf
<1>4. ASSUME NEW o \in AllOutcomes
      PROVE  Aggregate(as)[o] = SumFunction([f \in DOMAIN table |-> table[f][o]])
  <2> DEFINE D == {k \in DOMAIN as : as[k].outcome = o}
             c == [k \in D |-> as[k].family]
             h == [f \in DOMAIN table |-> table[f][o]]
  <2>1. IsFiniteSet(D)
    BY FinitelyManyIndices
  <2>2. DOMAIN h = S
    BY DEF StatementTable
  <2>3. c \in [D -> S]
    OBVIOUS
  <2>4. ASSUME NEW f \in S PROVE h[f] = Cardinality({k \in D : c[k] = f})
    <3> DEFINE values == {f}
               p == Having(as, "family", values)
               V == {x \in ToSet(as) : x.outcome = o}
               K == {i \in DOMAIN as : as[i]["family"] \in values}
    <3>1. h[f] = Aggregate(p)[o]
      BY DEF StatementTable
    <3>2. IsSequence(p) /\ ToSet(p) \subseteq ToSet(as) /\ HoldsThose(p, as, K)
      <4>1. LET q == Having(as, "family", values)
            IN  /\ IsSequence(q) /\ ToSet(q) \subseteq ToSet(as)
                /\ HoldsThose(q, as, {k \in DOMAIN as : as[k]["family"] \in values})
        <5> HIDE DEF values, V, h, c, D, K, S, table, p
        <5> QED
          BY HavingSays
      <4> QED
        BY <4>1
    <3>3. {k \in K : as[k] \in V} = {k \in D : c[k] = f}
      BY DEF ToSet
    <3> HIDE DEF p, K, h, D, c
    <3>4. Aggregate(p)[o] = Cardinality({k \in DOMAIN p : p[k].outcome = o})
      BY <3>2, CountsSay
    <3>5. {k \in DOMAIN p : p[k].outcome = o} = {k \in DOMAIN p : p[k] \in V}
      <4>1. \A k \in DOMAIN p : p[k] \in ToSet(as)
        BY <3>2 DEF ToSet
      <4> QED
        BY <4>1
    <3>6. Number(p, DOMAIN p, V) = Number(as, K, V)
      <4> HIDE DEF V
      <4> QED
        BY <3>2 DEF HoldsThose
    <3> HIDE DEF V
    <3> QED
      BY <3>1, <3>3, <3>4, <3>5, <3>6 DEF Number
  <2>5. Aggregate(as)[o] = Cardinality(D)
    BY CountsSay
  <2>6. SumFunction(h) = Cardinality(D)
    <3> HIDE DEF h, D, c, S
    <3> QED
      BY <1>2, <2>1, <2>2, <2>3, <2>4, SumOfClasses
  <2> QED
    BY <2>5, <2>6
<1> HIDE DEF table
<1> QED
  BY <1>3, <1>4 DEF TalliesAgree, table

\* Every assertion has its place in one of the groups.
LEMMA GroupsOfAll ==
    ASSUME NEW as, IsSequence(as), NEW used
    PROVE  GroupsAgree(Len(as), BySeverity(as, used))
<1> DEFINE groups == BySeverity(as, used)
           S == ToSet(Levels)
           D == DOMAIN as
           c == [k \in D |-> LevelOf(used, as[k].control)]
           h == [l \in DOMAIN groups |-> Len(groups[l])]
<1>1. /\ S = {"high", "medium", "low", "unrated"}
      /\ IsFiniteSet(S)
  <2>1. S = {"high", "medium", "low", "unrated"}
    BY DEF ToSet, Levels
  <2>2. IsFiniteSet({"high", "medium", "low", "unrated"})
    <3>1. {"high", "medium", "low", "unrated"}
              = {"high"} \cup {"medium"} \cup {"low"} \cup {"unrated"}
      OBVIOUS
    <3>2. /\ IsFiniteSet({"high"}) /\ IsFiniteSet({"medium"})
          /\ IsFiniteSet({"low"}) /\ IsFiniteSet({"unrated"})
      BY FS_Singleton
    <3>3. IsFiniteSet({"high"} \cup {"medium"})
      BY <3>2, FS_Union
    <3>4. IsFiniteSet(({"high"} \cup {"medium"}) \cup {"low"})
      BY <3>2, <3>3, FS_Union
    <3>5. IsFiniteSet((({"high"} \cup {"medium"}) \cup {"low"}) \cup {"unrated"})
      BY <3>2, <3>4, FS_Union
    <3> QED
      BY <3>1, <3>5
  <2> QED
    BY <2>1, <2>2
<1>2. D = 1 .. Len(as) /\ Len(as) \in Nat /\ IsFiniteSet(D) /\ Cardinality(D) = Len(as)
  <2>1. D = 1 .. Len(as) /\ Len(as) \in Nat
    BY FinitelyManyIndices
  <2>2. IsFiniteSet(1 .. Len(as))
        /\ Cardinality(1 .. Len(as)) = IF 1 > Len(as) THEN 0 ELSE Len(as) - 1 + 1
    <3>1. 1 \in Int /\ Len(as) \in Int
      BY <2>1
    <3> QED
      BY <3>1, FS_Interval
  <2> HIDE DEF D
  <2>3. \A n \in Nat : (IF 1 > n THEN 0 ELSE n - 1 + 1) = n
    OBVIOUS
  <2> QED
    BY <2>1, <2>2, <2>3
<1>3. \A id : LevelOf(used, id) \in S
  BY <1>1 DEF LevelOf, Level, Rated
<1>4. c \in [D -> S] /\ \A k \in D : c[k] = LevelOf(used, as[k].control)
  BY <1>3
<1>5. DOMAIN groups = S /\ DOMAIN h = S
  BY DEF BySeverity
<1>6. ASSUME NEW l \in S PROVE h[l] = Cardinality({k \in D : c[k] = l})
  <2> DEFINE K == {k \in DOMAIN as : LevelOf(used, as[k].control) = l}
  <2>1. h[l] = Len(Picked(as, K))
    BY DEF BySeverity
  <2>2. K = {k \in D : c[k] = l}
    OBVIOUS
  <2> HIDE DEF h, c
  <2>3. as \in Seq(ToSet(as)) /\ K \in SUBSET DOMAIN as
    BY DEF IsSequence
  <2> HIDE DEF K, D
  <2>4. Len(Picked(as, K)) = Cardinality(K)
    BY <2>3, PickedSays DEF HoldsThose
  <2> QED
    BY <2>1, <2>2, <2>4
<1>7. SumFunction(h) = Cardinality(D)
  <2>1. IsFiniteSet(S) /\ IsFiniteSet(D) /\ c \in [D -> S] /\ DOMAIN h = S
    BY <1>1, <1>2, <1>4, <1>5
  <2> HIDE DEF h, D, c, S
  <2> QED
    BY <1>6, <2>1, SumOfClasses
<1> QED
  BY <1>2, <1>7 DEF GroupsAgree

\* Whatever the assertions are, their renderings agree.
LEMMA AllAgree ==
    ASSUME NEW as, IsSequence(as), NEW used, NEW E
    PROVE  Agree(as, used, PackagesOf(as, used, E), PacksOf(as))
<1>1. ASSUME NEW a \in ToSet(as)
      PROVE  AgreeOn(a, as, PackagesOf(as, used, E)[a.subject], PacksOf(as)[a.subject])
  <2> DEFINE package == PackagesOf(as, used, E)[a.subject]
             pack == PacksOf(as)[a.subject]
  <2>1. AreGaps(CountOf(as, LAMBDA b : (b.control = a.control /\ b.subject = a.subject)
                                       /\ b.outcome \in GapOutcomes), as, package, a)
    BY GapsAgree
  <2>2. AreFailures(CountOf(as, LAMBDA b : (b.control = a.control /\ b.subject = a.subject)
                                           /\ b.outcome # "conformant"), as, a)
    BY FailuresAgree
  <2>3. \A o \in ToSet(Oscal(as).observations) :
            o.id = <<a.control, a.subject>> => o.evidence \subseteq pack.evidence
    BY EvidencePacked
  <2> HIDE DEF package, pack
  <2>4. AgreeOn(a, as, package, pack)
    BY <2>1, <2>2, <2>3 DEF AgreeOn
  <2> QED
    BY <2>4 DEF package, pack
<1> QED
  BY <1>1, VerdictOfAll, TalliesOfAll, GroupsOfAll DEF Agree

\* Whatever was judged, by whichever catalogs and however often two of them
\* share a control: the gaps of assertions.json are SARIF's results and the
\* remediation packages' entries, its other-than-conformant pairs JUnit's
\* failures and OSCAL's findings, every tally adds up, and the verdict's one
\* word says what SARIF's levels do (summarize and the renderers).
THEOREM RenderingsAgreeAlways == Spec => []RenderingsAgree
<1>1. ReportsInv => RenderingsAgree
  <2> SUFFICES ASSUME ReportsInv, NEW r \in out.report
               PROVE  Agree(r.assertions, r.catalogs, Packages(r), PacksOf(r.assertions))
    BY DEF RenderingsAgree
  <2>1. IsSequence(r.assertions)
    BY DEF ReportsInv, Ordered
  <2>2. PICK E : Packages(r) = PackagesOf(r.assertions, r.catalogs, E)
    BY DEF Packages
  <2> QED
    BY <2>1, <2>2, AllAgree
<1> QED
  BY <1>1, ReportsInvariant, PTL

-----------------------------------------------------------------------------
(*                           Counting in sequences                           *)

\* What a concatenation holds, it holds as often as its two parts.
LEMMA NumberOfConcat ==
    ASSUME NEW s, IsSequence(s), NEW t, IsSequence(t), NEW V
    PROVE  Number(s \o t, DOMAIN (s \o t), V)
               = Number(s, DOMAIN s, V) + Number(t, DOMAIN t, V)
<1> DEFINE S == ToSet(s) \cup ToSet(t)
           u == s \o t
           m == Len(s)
           A == {k \in DOMAIN s : s[k] \in V}
           B == {k \in DOMAIN t : t[k] \in V}
           C == {k \in DOMAIN u : u[k] \in V}
           f == [k \in B |-> m + k]
           R == {f[k] : k \in B}
<1>1. s \in Seq(S) /\ t \in Seq(S)
  BY SeqMonotonic DEF IsSequence
<1>2. /\ DOMAIN s = 1 .. m /\ m \in Nat
      /\ DOMAIN t = 1 .. Len(t) /\ Len(t) \in Nat
      /\ DOMAIN u = 1 .. m + Len(t)
      /\ \A i \in 1 .. m + Len(t) : u[i] = IF i <= m THEN s[i] ELSE t[i - m]
  BY <1>1, ConcatProperties
<1>3. /\ IsFiniteSet(A) /\ Cardinality(A) \in Nat
      /\ IsFiniteSet(B) /\ Cardinality(B) \in Nat
  <2>1. A \subseteq DOMAIN s /\ B \subseteq DOMAIN t
    OBVIOUS
  <2> HIDE DEF A, B
  <2> QED
    BY <2>1, FinitelyManyIndices
<1> HIDE DEF S, u, m
<1>4. C = A \cup R
  <2>1. ASSUME NEW k \in C PROVE k \in A \cup R
    <3>1. CASE k <= m
      <4>1. k \in DOMAIN s /\ s[k] = u[k]
        BY <1>2, <3>1
      <4> QED
        BY <4>1
    <3>2. CASE ~(k <= m)
      <4>1. k - m \in DOMAIN t /\ t[k - m] = u[k] /\ m + (k - m) = k
        BY <1>2, <3>2
      <4>2. k - m \in B /\ f[k - m] = k
        BY <4>1
      <4> QED
        BY <4>2
    <3> QED
      BY <3>1, <3>2
  <2>2. ASSUME NEW k \in A PROVE k \in C
    BY <1>2
  <2>3. ASSUME NEW k \in B PROVE m + k \in C
    <3>1. m + k \in DOMAIN u /\ ~(m + k <= m) /\ (m + k) - m = k
      BY <1>2
    <3> QED
      BY <1>2, <3>1
  <2> HIDE DEF A, B, C
  <2> QED
    BY <2>1, <2>2, <2>3
<1>5. A \cap R = {}
  <2>1. ASSUME NEW k \in A, NEW j \in B PROVE k # f[j]
    <3>1. k <= m /\ k \in Nat /\ j \in Nat /\ j > 0 /\ f[j] = m + j
      BY <1>2
    <3> QED
      BY <1>2, <3>1
  <2> HIDE DEF A, B, f
  <2> QED
    BY <2>1
<1>6. f \in Surjection(B, R) /\ IsInjective(f)
  BY <1>2 DEF Surjection, IsInjective
<1> HIDE DEF A, B, C, f, R
<1>7. IsFiniteSet(R) /\ Cardinality(R) = Cardinality(B)
  <2>1. f \in Bijection(B, R)
    BY <1>6 DEF Bijection, Injection, Surjection
  <2> QED
    BY <1>3, <2>1, FS_Bijection DEF ExistsBijection
<1>8. Cardinality(C) = Cardinality(A) + Cardinality(B)
  <2>1. Cardinality(A \cup R) = Cardinality(A) + Cardinality(R) - Cardinality(A \cap R)
    BY <1>3, <1>7, FS_Union
  <2>2. Cardinality(A \cap R) = 0
    BY <1>5, FS_EmptySet
  <2> QED
    BY <1>3, <1>4, <1>7, <2>1, <2>2
<1> QED
  BY <1>8 DEF Number, A, B, C, u

\* Nothing twice in a concatenation of two sequences with nothing in common.
LEMMA InjectiveConcat ==
    ASSUME NEW s, IsSequence(s), IsInjective(s), NEW t, IsSequence(t), IsInjective(t),
           ToSet(s) \cap ToSet(t) = {}
    PROVE  IsInjective(s \o t)
<1> DEFINE S == ToSet(s) \cup ToSet(t)
           u == s \o t
           m == Len(s)
<1>1. s \in Seq(S) /\ t \in Seq(S)
  BY SeqMonotonic DEF IsSequence
<1>2. /\ DOMAIN s = 1 .. m /\ m \in Nat
      /\ DOMAIN t = 1 .. Len(t) /\ Len(t) \in Nat
      /\ DOMAIN u = 1 .. m + Len(t)
      /\ \A i \in 1 .. m + Len(t) : u[i] = IF i <= m THEN s[i] ELSE t[i - m]
  BY <1>1, ConcatProperties
<1> HIDE DEF S, u, m
<1>3. ASSUME NEW i \in DOMAIN u, NEW j \in DOMAIN u, u[i] = u[j] PROVE i = j
  <2>1. CASE i <= m /\ j <= m
    <3>1. i \in DOMAIN s /\ j \in DOMAIN s /\ s[i] = s[j]
      BY <1>2, <1>3, <2>1
    <3> QED
      BY <3>1 DEF IsInjective
  <2>2. CASE ~(i <= m) /\ ~(j <= m)
    <3>1. i - m \in DOMAIN t /\ j - m \in DOMAIN t /\ t[i - m] = t[j - m]
      BY <1>2, <1>3, <2>2
    <3>2. i - m = j - m
      BY <3>1 DEF IsInjective
    <3> QED
      BY <1>2, <3>2
  <2>3. ASSUME NEW x \in DOMAIN u, NEW y \in DOMAIN u, x <= m, ~(y <= m) PROVE u[x] # u[y]
    <3>1. x \in DOMAIN s /\ u[x] = s[x] /\ y - m \in DOMAIN t /\ u[y] = t[y - m]
      BY <1>2, <2>3
    <3>2. u[x] \in ToSet(s) /\ u[y] \in ToSet(t)
      BY <3>1 DEF ToSet
    <3> QED
      BY <3>2
  <2> QED
    BY <1>3, <2>1, <2>2, <2>3
<1> QED
  BY <1>3 DEF IsInjective, u

\* ... nor in one of many of which no two have anything in common.
LEMMA InjectiveFlattened ==
    ASSUME NEW T, NEW s \in Seq(Seq(T)),
           \A k \in DOMAIN s : IsInjective(s[k]),
           \A j, k \in DOMAIN s : j # k => ToSet(s[j]) \cap ToSet(s[k]) = {}
    PROVE  IsInjective(FlattenSeq(s))
<1>1. Len(s) \in Nat /\ DOMAIN s = 1 .. Len(s) /\ \A k \in DOMAIN s : s[k] \in Seq(T)
  OBVIOUS
<1>2. CASE Len(s) = 0
  <2>1. FlattenSeq(s) = s /\ DOMAIN s = {}
    BY <1>1, <1>2 DEF FlattenSeq
  <2> QED
    BY <2>1 DEF IsInjective
<1>3. CASE Len(s) # 0
  <2>1. PICK f : /\ FlattenSeq(s) = f[Len(s)]
                 /\ f[1] = s[1]
                 /\ \A n \in 2 .. Len(s) : f[n] = f[n - 1] \o s[n]
    BY <1>1, <1>3, FlatteningOneByOne
  <2> DEFINE Upto(n) == UNION {ToSet(s[k]) : k \in 1 .. n}
             Good(n) == IsInjective(f[n]) /\ IsSequence(f[n]) /\ ToSet(f[n]) \subseteq Upto(n)
             P == {n \in Nat : \A m \in 1 .. n : m <= Len(s) => Good(m)}
  <2>2. \A k \in DOMAIN s : IsSequence(s[k])
    BY <1>1, OfItsElements
  <2>3. Good(1)
    <3>1. 1 \in DOMAIN s
      BY <1>1, <1>3
    <3> QED
      BY <2>1, <2>2, <3>1
  <2>4. ASSUME NEW n \in Nat \ {0}, n + 1 <= Len(s), Good(n) PROVE Good(n + 1)
    <3>1. n + 1 \in DOMAIN s /\ n + 1 \in 2 .. Len(s) /\ (n + 1) - 1 = n
      BY <1>1, <2>4
    <3>2. f[n + 1] = f[n] \o s[n + 1]
      BY <2>1, <3>1
    <3>3. ToSet(f[n]) \cap ToSet(s[n + 1]) = {}
      <4>1. \A k \in 1 .. n : k \in DOMAIN s /\ k # n + 1
        BY <1>1, <2>4
      <4> QED
        BY <2>4, <3>1, <4>1
    <3>4. Upto(n) \subseteq Upto(n + 1) /\ ToSet(s[n + 1]) \subseteq Upto(n + 1)
      <4>1. (\A k \in 1 .. n : k \in 1 .. n + 1) /\ n + 1 \in 1 .. n + 1
        OBVIOUS
      <4>2. Upto(n) \subseteq Upto(n + 1)
        BY <4>1
      <4>3. ToSet(s[n + 1]) \subseteq Upto(n + 1)
        BY <4>1
      <4> QED
        BY <4>2, <4>3
    <3> DEFINE a == f[n]
               b == s[n + 1]
    <3>5. /\ IsInjective(a) /\ IsSequence(a) /\ IsInjective(b) /\ IsSequence(b)
          /\ ToSet(a) \cap ToSet(b) = {}
      BY <2>2, <2>4, <3>1, <3>3
    <3>6. ToSet(a) \subseteq Upto(n) /\ ToSet(b) \subseteq Upto(n + 1) /\ f[n + 1] = a \o b
      BY <2>4, <3>2, <3>4
    <3> HIDE DEF a, b, Upto
    <3>7. IsInjective(a \o b) /\ IsSequence(a \o b) /\ ToSet(a \o b) = ToSet(a) \cup ToSet(b)
      BY <3>5, InjectiveConcat, ConcatIsSequence, ElementsOfConcat
    <3>8. ToSet(a \o b) \subseteq Upto(n + 1)
      BY <3>4, <3>6, <3>7
    <3> QED
      BY <3>6, <3>7, <3>8
  <2> HIDE DEF Good
  <2>5. P = Nat
    <3>1. 0 \in P
      OBVIOUS
    <3>2. ASSUME NEW n \in P PROVE n + 1 \in P
      <4>1. ASSUME NEW m \in 1 .. n + 1, m <= Len(s) PROVE Good(m)
        <5>1. CASE m \in 1 .. n
          BY <4>1, <5>1
        <5>2. CASE m = 1
          BY <2>3, <5>2
        <5>3. CASE m \notin 1 .. n /\ m # 1
          <6>1. n \in Nat \ {0} /\ m = n + 1 /\ n \in 1 .. n /\ n <= Len(s)
            BY <1>1, <4>1, <5>3
          <6>2. Good(n)
            BY <6>1
          <6> QED
            BY <2>4, <4>1, <6>1, <6>2
        <5> QED
          BY <5>1, <5>2, <5>3
      <4> QED
        BY <4>1
    <3> HIDE DEF P
    <3> QED
      BY <3>1, <3>2, Induction DEF P
  <2>6. Good(Len(s))
    <3>1. Len(s) \in P /\ Len(s) \in 1 .. Len(s)
      BY <1>1, <1>3, <2>5
    <3> QED
      BY <1>1, <3>1
  <2> USE DEF Good
  <2> QED
    BY <2>1, <2>6
<1> QED
  BY <1>2, <1>3

\* Of a sequence with nothing twice, a set of its elements is met once each.
LEMMA NumberOfInjective ==
    ASSUME NEW s, IsSequence(s), IsInjective(s), NEW V, V \subseteq ToSet(s)
    PROVE  Number(s, DOMAIN s, V) = Cardinality(V)
<1> DEFINE K == {k \in DOMAIN s : s[k] \in V}
           f == [k \in K |-> s[k]]
<1>1. IsFiniteSet(K)
  BY FinitelyManyIndices
<1>2. f \in Bijection(K, V)
  BY DEF Bijection, Injection, Surjection, IsInjective, ToSet
<1> HIDE DEF K, f
<1>3. Cardinality(K) = Cardinality(V)
  BY <1>1, <1>2, FS_Bijection DEF ExistsBijection
<1> QED
  BY <1>3 DEF K, Number

\* SetToSeq lists every element of a finite set once.
LEMMA EachOnce ==
    ASSUME NEW S, IsFiniteSet(S)
    PROVE  /\ SetToSeq(S) \in Seq(S) /\ IsInjective(SetToSeq(S))
           /\ ToSet(SetToSeq(S)) = S
<1> DEFINE n == Cardinality(S)
           F == {f \in [1 .. n -> S] : IsInjective(f)}
           q == SetToSeq(S)
           R == ToSet(q)
<1>1. n \in Nat
  BY FS_CardinalityType
<1>2. \E f \in Bijection(1 .. n, S) : TRUE
  BY FS_CardinalityType DEF ExistsBijection
<1>3. F # {}
  BY <1>2 DEF Bijection, Injection
<1>4. q \in [1 .. n -> S] /\ IsInjective(q)
  <2>1. q = CHOOSE f \in [1 .. n -> S] : IsInjective(f)
    BY DEF SetToSeq
  <2> HIDE DEF q, n
  <2> QED
    BY <1>3, <2>1
<1> HIDE DEF n, q
<1>5. q \in Seq(S)
  BY <1>1, <1>4, SeqDef
<1>6. R \subseteq S /\ q \in Bijection(1 .. n, R)
  BY <1>4 DEF ToSet, Bijection, Injection, Surjection, IsInjective
<1>7. Cardinality(R) = n
  <2>1. IsFiniteSet(1 .. n) /\ Cardinality(1 .. n) = IF 1 > n THEN 0 ELSE n - 1 + 1
    BY <1>1, FS_Interval
  <2>2. Cardinality(1 .. n) = n
    BY <1>1, <2>1
  <2> HIDE DEF R
  <2> QED
    BY <1>6, <2>1, <2>2, FS_Bijection DEF ExistsBijection
<1>8. R = S
  <2> HIDE DEF R
  <2> QED
    BY <1>6, <1>7, FS_Subset DEF n
<1> QED
  BY <1>4, <1>5, <1>8 DEF q

-----------------------------------------------------------------------------
(*                   The rows of report.md and report.html                   *)

\* Indices counted apart add up.
LEMMA NumberOfTwo ==
    ASSUME NEW s, IsSequence(s), NEW J \in SUBSET DOMAIN s, NEW K \in SUBSET DOMAIN s,
           \A k \in J : k \notin K, NEW L, L = J \cup K, NEW V
    PROVE  Number(s, L, V) = Number(s, J, V) + Number(s, K, V)
<1> DEFINE A == {k \in J : s[k] \in V}
           B == {k \in K : s[k] \in V}
<1>1. /\ IsFiniteSet(A) /\ Cardinality(A) \in Nat
      /\ IsFiniteSet(B) /\ Cardinality(B) \in Nat
  <2>1. A \subseteq DOMAIN s /\ B \subseteq DOMAIN s
    OBVIOUS
  <2> HIDE DEF A, B
  <2> QED
    BY <2>1, FinitelyManyIndices
<1>2. A \cap B = {} /\ {k \in J \cup K : s[k] \in V} = A \cup B
  OBVIOUS
<1>5. /\ Number(s, L, V) = Cardinality(A \cup B)
      /\ Number(s, J, V) = Cardinality(A) /\ Number(s, K, V) = Cardinality(B)
  BY <1>2 DEF Number
<1> HIDE DEF A, B
<1>3. Cardinality(A \cup B) = Cardinality(A) + Cardinality(B) - Cardinality(A \cap B)
  BY <1>1, FS_Union
<1>4. Cardinality(A \cap B) = 0
  BY <1>2, FS_EmptySet
<1> QED
  BY <1>1, <1>3, <1>4, <1>5

\* A finding is listed for every assertion.
LEMMA FindingsSay ==
    ASSUME NEW p, IsSequence(p), NEW used
    PROVE  /\ IsSequence(Findings(p, used)) /\ Len(Findings(p, used)) = Len(p)
           /\ DOMAIN Findings(p, used) = DOMAIN p
           /\ \A k \in DOMAIN p : Findings(p, used)[k] = Finding(p[k], used)
<1> DEFINE listed == Findings(p, used)
           S == {Finding(a, used) : a \in ToSet(p)}
<1>1. DOMAIN p = 1 .. Len(p) /\ Len(p) \in Nat
  BY FinitelyManyIndices
<1>2. listed = [k \in DOMAIN p |-> Finding(p[k], used)]
  BY DEF Findings
<1>3. \A k \in DOMAIN p : Finding(p[k], used) \in S
  BY DEF ToSet
<1> HIDE DEF S, listed
<1>4. listed \in [1 .. Len(p) -> S]
  BY <1>1, <1>2, <1>3
<1>5. listed \in Seq(S) /\ Len(listed) = Len(p)
  BY <1>1, <1>4, SeqDef
<1>6. IsSequence(listed)
  BY <1>5, OfItsElements
<1> QED
  BY <1>2, <1>5, <1>6 DEF listed

\* The assertions whose finding is in V.
FoundIn(T, used, V) == {a \in T : Finding(a, used) \in V}

\* As many findings are in V as assertions have theirs in it.
LEMMA NumberOfFindings ==
    ASSUME NEW p, IsSequence(p), NEW used, NEW T, \A k \in DOMAIN p : p[k] \in T, NEW V
    PROVE  Number(Findings(p, used), DOMAIN Findings(p, used), V)
               = Number(p, DOMAIN p, FoundIn(T, used, V))
<1> DEFINE listed == Findings(p, used)
<1>1. DOMAIN listed = DOMAIN p /\ \A k \in DOMAIN p : listed[k] = Finding(p[k], used)
  BY FindingsSay
<1> HIDE DEF listed
<1>3. {k \in DOMAIN listed : listed[k] \in V}
          = {k \in DOMAIN p : p[k] \in FoundIn(T, used, V)}
  BY <1>1 DEF FoundIn
<1> QED
  BY <1>3 DEF Number, listed

\* report.html lists what there is to be listed, in whatever order.
LEMMA RowsSay ==
    ASSUME NEW found, IsSequence(found), NEW used, NEW run
    PROVE  LET rows == ReportHtml(found, used, run).rows
               listed == Findings(found, used)
           IN  /\ IsSequence(rows)
               /\ \A V : Number(rows, DOMAIN rows, V) = Number(listed, DOMAIN listed, V)
<1> DEFINE K(l) == {k \in DOMAIN found : LevelOf(used, found[k].control) = l}
           F(l) == Findings(Picked(found, K(l)), used)
           rows == ReportHtml(found, used, run).rows
           listed == Findings(found, used)
           s == [k \in 1 .. 4 |-> F(Levels[k])]
           S == {F(l) : l \in {"high", "medium", "low", "unrated"}}
<1>1. rows = FlattenSeq(s)
  <2>1. DOMAIN Levels = 1 .. 4 /\ \A k \in 1 .. 4 : Levels[k] \in ToSet(Levels)
    BY DEF Levels, ToSet
  <2>2. \A l \in ToSet(Levels) : BySeverity(found, used)[l] = Picked(found, K(l))
    BY DEF BySeverity
  <2>3. rows = FlattenSeq([k \in DOMAIN Levels |-> Findings(BySeverity(found, used)[Levels[k]], used)])
    BY DEF ReportHtml
  <2>4. [k \in DOMAIN Levels |-> Findings(BySeverity(found, used)[Levels[k]], used)] = s
    <3> HIDE DEF K
    <3> QED
      BY <2>1, <2>2
  <2> HIDE DEF s, rows
  <2> QED
    BY <2>3, <2>4
<1>2. ASSUME NEW l
      PROVE  /\ IsSequence(F(l))
             /\ \A V : Number(F(l), DOMAIN F(l), V)
                    = Number(found, K(l), FoundIn(ToSet(found), used, V))
  <2> DEFINE p == Picked(found, K(l))
             T == ToSet(found)
  <2>1. found \in Seq(T) /\ K(l) \in SUBSET DOMAIN found
    BY DEF IsSequence
  <2> HIDE DEF K, T
  <2>2. p \in Seq(T) /\ HoldsThose(p, found, K(l))
    BY <2>1, PickedSays
  <2> HIDE DEF p
  <2>3. IsSequence(p) /\ \A k \in DOMAIN p : p[k] \in T
    BY <2>2, OfItsElements
  <2>4. IsSequence(Findings(p, used))
    BY <2>3, FindingsSay
  <2>5. ASSUME NEW V
        PROVE  Number(Findings(p, used), DOMAIN Findings(p, used), V)
                    = Number(found, K(l), FoundIn(T, used, V))
    <3> DEFINE W == FoundIn(T, used, V)
    <3>1. Number(Findings(p, used), DOMAIN Findings(p, used), V) = Number(p, DOMAIN p, W)
      BY <2>3, NumberOfFindings
    <3> HIDE DEF W
    <3>2. Number(p, DOMAIN p, W) = Number(found, K(l), W)
      BY <2>2 DEF HoldsThose
    <3> QED
      BY <3>1, <3>2 DEF W
  <2> QED
    BY <2>4, <2>5 DEF p, T
<1>3. rows = ((F("high") \o F("medium")) \o F("low")) \o F("unrated")
  <2>1. /\ s[1] = F("high") /\ s[2] = F("medium") /\ s[3] = F("low") /\ s[4] = F("unrated")
        /\ Len(s) = 4
    <3>1. /\ Levels[1] = "high" /\ Levels[2] = "medium" /\ Levels[3] = "low"
          /\ Levels[4] = "unrated"
      BY DEF Levels
    <3>2. s \in [1 .. 4 -> S]
      <4> HIDE DEF F
      <4>1. \A k \in 1 .. 4 : Levels[k] \in {"high", "medium", "low", "unrated"}
        BY <3>1
      <4> QED
        BY <4>1
    <3>3. Len(s) = 4
      <4> HIDE DEF S, s
      <4>1. s \in Seq(S)
        BY <3>2, SeqDef
      <4> QED
        BY <3>2, <4>1
    <3> HIDE DEF F
    <3> QED
      BY <3>1, <3>3
  <2> HIDE DEF s, F, rows
  <2>6. Len(s) \in Nat \ {0}
    BY <2>1
  <2>2. PICK f : /\ FlattenSeq(s) = f[Len(s)]
                 /\ f[1] = s[1]
                 /\ \A n \in 2 .. Len(s) : f[n] = f[n - 1] \o s[n]
    BY <2>6, FlatteningOneByOne
  <2>7. \A n \in 2 .. 4 : f[n] = f[n - 1] \o s[n]
    BY <2>1, <2>2
  <2>3. f[2] = s[1] \o s[2]
    <3>1. 2 \in 2 .. 4 /\ 2 - 1 = 1
      OBVIOUS
    <3> QED
      BY <2>2, <2>7, <3>1
  <2>4. f[3] = f[2] \o s[3]
    BY <2>1, <2>2
  <2>5. f[4] = f[3] \o s[4]
    BY <2>1, <2>2
  <2> QED
    BY <1>1, <2>1, <2>2, <2>3, <2>4, <2>5
<1>4. /\ \A l : K(l) \subseteq DOMAIN found
      /\ K("high") \cap K("medium") = {}
      /\ (K("high") \cup K("medium")) \cap K("low") = {}
      /\ ((K("high") \cup K("medium")) \cup K("low")) \cap K("unrated") = {}
      /\ ((K("high") \cup K("medium")) \cup K("low")) \cup K("unrated") = DOMAIN found
  <2>1. \A id : LevelOf(used, id) \in {"high", "medium", "low", "unrated"}
    BY DEF LevelOf, Level, Rated
  <2> QED
    BY <2>1
<1>5. ASSUME NEW V
      PROVE  Number(rows, DOMAIN rows, V) = Number(listed, DOMAIN listed, V)
  <2> DEFINE W == FoundIn(ToSet(found), used, V)
  <2>1. Number(listed, DOMAIN listed, V) = Number(found, DOMAIN found, W)
    <3>1. \A k \in DOMAIN found : found[k] \in ToSet(found)
      BY DEF ToSet
    <3> QED
      BY <3>1, NumberOfFindings
  <2> HIDE DEF K, F, rows, listed, W
  <2>2. Number(rows, DOMAIN rows, V)
            = ((Number(found, K("high"), W) + Number(found, K("medium"), W))
               + Number(found, K("low"), W)) + Number(found, K("unrated"), W)
    <3> DEFINE h == F("high")
               m == F("medium")
               l == F("low")
               u == F("unrated")
               a == h \o m
               b == a \o l
    <3>1. /\ IsSequence(h) /\ Number(h, DOMAIN h, V) = Number(found, K("high"), W)
          /\ IsSequence(m) /\ Number(m, DOMAIN m, V) = Number(found, K("medium"), W)
          /\ IsSequence(l) /\ Number(l, DOMAIN l, V) = Number(found, K("low"), W)
          /\ IsSequence(u) /\ Number(u, DOMAIN u, V) = Number(found, K("unrated"), W)
      BY <1>2 DEF W
    <3>5. rows = b \o u
      BY <1>3
    <3> HIDE DEF h, m, l, u
    <3>2. IsSequence(a) /\ Number(a, DOMAIN a, V) = Number(h, DOMAIN h, V) + Number(m, DOMAIN m, V)
      BY <3>1, ConcatIsSequence, NumberOfConcat
    <3> HIDE DEF a
    <3>3. IsSequence(b) /\ Number(b, DOMAIN b, V) = Number(a, DOMAIN a, V) + Number(l, DOMAIN l, V)
      BY <3>1, <3>2, ConcatIsSequence, NumberOfConcat
    <3> HIDE DEF b
    <3>4. Number(b \o u, DOMAIN (b \o u), V) = Number(b, DOMAIN b, V) + Number(u, DOMAIN u, V)
      BY <3>1, <3>3, NumberOfConcat
    <3> QED
      BY <3>1, <3>2, <3>3, <3>4, <3>5
  <2>3. Number(found, DOMAIN found, W)
            = ((Number(found, K("high"), W) + Number(found, K("medium"), W))
               + Number(found, K("low"), W)) + Number(found, K("unrated"), W)
    <3> DEFINE h == K("high")
               m == K("medium")
               l == K("low")
               u == K("unrated")
               A == h \cup m
               B == A \cup l
               D == DOMAIN found
    <3>1. /\ h \in SUBSET D /\ m \in SUBSET D /\ \A k \in h : k \notin m
          /\ l \in SUBSET D /\ \A k \in A : k \notin l
          /\ u \in SUBSET D /\ \A k \in B : k \notin u
          /\ A = h \cup m /\ B = A \cup l /\ D = B \cup u
      BY <1>4
    <3>2. A \in SUBSET D /\ B \in SUBSET D /\ D = DOMAIN found
      BY <3>1
    <3> HIDE DEF h, m, l, u, A, B, D, s, S
    <3>6. ASSUME NEW I, NEW J \in SUBSET D, NEW L \in SUBSET D,
                 I = J \cup L, \A k \in J : k \notin L
          PROVE  Number(found, I, W) = Number(found, J, W) + Number(found, L, W)
      BY <3>2, <3>6, NumberOfTwo
    <3>3. Number(found, A, W) = Number(found, h, W) + Number(found, m, W)
      BY <3>1, <3>6
    <3>4. Number(found, B, W) = Number(found, A, W) + Number(found, l, W)
      BY <3>1, <3>2, <3>6
    <3>5. Number(found, D, W) = Number(found, B, W) + Number(found, u, W)
      BY <3>1, <3>2, <3>6
    <3> QED
      BY <3>2, <3>3, <3>4, <3>5 DEF h, m, l, u
  <2> QED
    BY <2>1, <2>2, <2>3
<1>6. IsSequence(rows)
  <2> HIDE DEF K, F, rows
  <2>1. IsSequence(F("high") \o F("medium"))
    BY <1>2, ConcatIsSequence
  <2>2. IsSequence((F("high") \o F("medium")) \o F("low"))
    BY <1>2, <2>1, ConcatIsSequence
  <2> QED
    BY <1>2, <1>3, <2>2, ConcatIsSequence
<1> HIDE DEF rows, listed
<1> QED
  BY <1>5, <1>6 DEF rows, listed

\* So every finding has its row, once for each assertion, and none other has.
LEMMA RowsListAll ==
    ASSUME NEW found, IsSequence(found), NEW used, NEW run
    PROVE  LET rows == ReportHtml(found, used, run).rows
           IN  /\ IsSequence(rows) /\ Len(rows) = Len(found)
               /\ ListsEach(rows, Findings(found, used))
               /\ ToSet(rows) = {Finding(a, used) : a \in ToSet(found)}
<1> DEFINE rows == ReportHtml(found, used, run).rows
           listed == Findings(found, used)
<1>1. IsSequence(rows) /\ \A V : Number(rows, DOMAIN rows, V) = Number(listed, DOMAIN listed, V)
  BY RowsSay
<1>2. /\ IsSequence(listed) /\ Len(listed) = Len(found) /\ DOMAIN listed = DOMAIN found
      /\ \A k \in DOMAIN found : listed[k] = Finding(found[k], used)
  BY FindingsSay
<1> HIDE DEF rows, listed
<1>3. ASSUME NEW s, IsSequence(s), NEW U, ToSet(s) \subseteq U
      PROVE  Number(s, DOMAIN s, U) = Len(s)
  <2>1. DOMAIN s = 1 .. Len(s) /\ Len(s) \in Nat
    BY <1>3, FinitelyManyIndices
  <2>2. {k \in DOMAIN s : s[k] \in U} = 1 .. Len(s)
    BY <1>3, <2>1 DEF ToSet
  <2>3. Cardinality(1 .. Len(s)) = IF 1 > Len(s) THEN 0 ELSE Len(s) - 1 + 1
    <3>1. 1 \in Int /\ Len(s) \in Int
      BY <2>1
    <3> QED
      BY <3>1, FS_Interval
  <2>4. (IF 1 > Len(s) THEN 0 ELSE Len(s) - 1 + 1) = Len(s)
    BY <2>1
  <2> QED
    BY <2>2, <2>3, <2>4 DEF Number
<1>4. Len(rows) = Len(found)
  <2> DEFINE U == ToSet(rows) \cup ToSet(listed)
  <2>1. Number(rows, DOMAIN rows, U) = Len(rows) /\ Number(listed, DOMAIN listed, U) = Len(listed)
    BY <1>1, <1>2, <1>3
  <2> HIDE DEF U
  <2> QED
    BY <1>1, <1>2, <2>1
<1>5. \A x : Cardinality({i \in DOMAIN rows : rows[i] = x})
                 = Cardinality({i \in DOMAIN listed : listed[i] = x})
  <2> TAKE x
  <2> DEFINE V == {x}
  <2>1. /\ {i \in DOMAIN rows : rows[i] = x} = {i \in DOMAIN rows : rows[i] \in V}
        /\ {i \in DOMAIN listed : listed[i] = x} = {i \in DOMAIN listed : listed[i] \in V}
    OBVIOUS
  <2> HIDE DEF V
  <2> QED
    BY <1>1, <2>1 DEF Number
<1>6. ListsEach(rows, listed)
  BY <1>5 DEF ListsEach, CountOf
<1>7. ASSUME NEW s, IsSequence(s), NEW x
      PROVE  x \in ToSet(s) <=> Cardinality({i \in DOMAIN s : s[i] = x}) # 0
  <2> DEFINE K == {i \in DOMAIN s : s[i] = x}
  <2>1. IsFiniteSet(K)
    BY <1>7, FinitelyManyIndices
  <2>2. K = {} <=> x \notin ToSet(s)
    BY DEF ToSet
  <2> HIDE DEF K
  <2>3. Cardinality(K) = 0 <=> K = {}
    BY <2>1, FS_EmptySet
  <2> QED
    BY <2>2, <2>3 DEF K
<1>8. ToSet(rows) = ToSet(listed)
  <2>1. ASSUME NEW x PROVE x \in ToSet(rows) <=> x \in ToSet(listed)
    <3> DEFINE m == Cardinality({i \in DOMAIN rows : rows[i] = x})
               n == Cardinality({i \in DOMAIN listed : listed[i] = x})
    <3>1. m = n
      BY <1>5
    <3>2. (x \in ToSet(rows) <=> m # 0) /\ (x \in ToSet(listed) <=> n # 0)
      BY <1>1, <1>2, <1>7
    <3> HIDE DEF m, n
    <3> QED
      BY <3>1, <3>2
  <2> QED
    BY <2>1
<1>9. ToSet(listed) = {Finding(a, used) : a \in ToSet(found)}
  BY <1>2 DEF ToSet
<1> QED
  BY <1>1, <1>4, <1>6, <1>8, <1>9 DEF rows, listed

-----------------------------------------------------------------------------
(*                         What the packages explain                         *)

\* A verdict is of a control of one of the catalogs, and lacks evidence where
\* the events of its subject lack some that this control asks for.
ExplainedBy(a, used, events) ==
    LET E == {e \in ToSet(events) : e.subject = a.subject}
    IN  /\ a.outcome # "partial"
        /\ \E c \in ToSet(used) : \E x \in ToSet(c.controls) :
               /\ x.id = a.control
               /\ a.outcome = "insufficient_evidence" => ~HasMinimumEvidence(E, x.minimum)
               /\ a.outcome = "non-conformant" => HasMinimumEvidence(E, x.minimum)

ExplainedInv ==
    /\ \A a \in ToSet(assertions) : ExplainedBy(a, catalogs, accepted)
    /\ \A r \in out.report :
        /\ Listing(r.catalogs)
        /\ \A a \in ToSet(r.assertions) : ExplainedBy(a, r.catalogs, r.accepted)

\* What Judge says of a subject is explained by its events.
LEMMA JudgedIsExplained ==
    ASSUME NEW subject, NEW events, NEW used, Listing(used), NEW domain
    PROVE  \A a \in ToSet(Judge(subject, events, used, domain)) : ExplainedBy(a, used, events)
<1> DEFINE E == {e \in ToSet(events) : e.subject = subject.id}
<1>1. OfControls(Judge(subject, events, used, domain), E, used, subject)
  BY JudgedInOrder
<1> SUFFICES ASSUME NEW a \in ToSet(Judge(subject, events, used, domain))
             PROVE  ExplainedBy(a, used, events)
  OBVIOUS
<1> HIDE DEF E
<1>2. PICK g : \E c \in ToSet(used) : \E x \in ToSet(c.controls) :
          a = AssertControl(g, E, c, x, subject)
  BY <1>1 DEF OfControls
<1>3. PICK c \in ToSet(used) : \E x \in ToSet(c.controls) : a = AssertControl(g, E, c, x, subject)
  BY <1>2
<1>4. PICK x \in ToSet(c.controls) : a = AssertControl(g, E, c, x, subject)
  BY <1>3
<1>5. ASSUME NEW outcome, NEW of, NEW cited
      PROVE  LET b == Assertion(c, x, subject, outcome, of, cited)
             IN  b.control = x.id /\ b.subject = subject.id /\ b.outcome = outcome
  BY DEF Assertion
<1>6. ASSUME NEW f
      PROVE  \E outcome, of, cited :
                /\ AssertFound(E, c, x, subject, f) = Assertion(c, x, subject, outcome, of, cited)
                /\ outcome \in {"not_applicable", "insufficient_evidence", "conformant",
                                "non-conformant"}
                /\ outcome = "insufficient_evidence" => ~HasMinimumEvidence(E, x.minimum)
                /\ outcome = "non-conformant" => HasMinimumEvidence(E, x.minimum)
  <2>1. CASE f.applicable = <<>>
    <3>1. AssertFound(E, c, x, subject, f)
              = Assertion(c, x, subject, "not_applicable", Nobody, {})
      BY <2>1 DEF AssertFound
    <3> QED
      BY <3>1
  <2>2. CASE f.applicable # <<>> /\ ~HasMinimumEvidence(E, x.minimum)
    <3>1. AssertFound(E, c, x, subject, f)
              = Assertion(c, x, subject, "insufficient_evidence", [f EXCEPT !.failing = <<>>], {})
      BY <2>2 DEF AssertFound
    <3> QED
      BY <2>2, <3>1
  <2>3. CASE f.applicable # <<>> /\ HasMinimumEvidence(E, x.minimum)
    <3>1. PICK outcome, cited :
              /\ outcome \in {"conformant", "non-conformant"}
              /\ AssertFound(E, c, x, subject, f) = Assertion(c, x, subject, outcome, f, cited)
      BY <2>3 DEF AssertFound
    <3> QED
      BY <2>3, <3>1
  <2> QED
    BY <2>1, <2>2, <2>3
<1>7. PICK outcome, of, cited :
          /\ a = Assertion(c, x, subject, outcome, of, cited)
          /\ outcome \in {"not_assessed", "not_applicable", "insufficient_evidence", "conformant",
                          "non-conformant"}
          /\ outcome = "insufficient_evidence" => ~HasMinimumEvidence(E, x.minimum)
          /\ outcome = "non-conformant" => HasMinimumEvidence(E, x.minimum)
  BY <1>4, <1>6 DEF AssertControl
<1>8. a.control = x.id /\ a.subject = subject.id /\ a.outcome = outcome
  BY <1>5, <1>7
<1>9. {e \in ToSet(events) : e.subject = a.subject} = E
  BY <1>8 DEF E
<1> QED
  BY <1>7, <1>8, <1>9 DEF ExplainedBy

\* Nothing is judged yet.
LEMMA ExplainedInit == Init => ExplainedInv
<1> SUFFICES ASSUME Init PROVE ExplainedInv
  OBVIOUS
<1>1. assertions = <<>> /\ out.report = {}
  BY DEF Init
<1> QED
  BY <1>1 DEF ExplainedInv, ToSet

\* What was judged stands by the catalogs and events it was judged by.
LEMMA ExplainedAssess ==
    ASSUME ReportsInv, ExplainedInv, AssessStep
    PROVE  ExplainedInv'
<1>1. CASE RefuseGate \/ RefuseCatalogs \/ RefuseBundle \/ RefuseReport \/ Conclude
  <2>1. UNCHANGED assessVars
    BY <1>1 DEF RefuseGate, RefuseCatalogs, RefuseBundle, RefuseReport, Conclude
  <2> QED
    BY <2>1 DEF assessVars, ExplainedInv
<1>2. CASE ResolveCatalogs \/ IngestBundle \/ Describe
  <2>1. assertions' = assertions /\ out'.report = out.report
    BY <1>2 DEF ReportsInv, ResolveCatalogs, IngestBundle, Describe
  <2>2. assertions = <<>>
    BY <1>2 DEF ReportsInv, NothingYet, ResolveCatalogs, IngestBundle, Describe, Running
  <2> QED
    BY <2>1, <2>2 DEF ExplainedInv, ToSet
<1>3. CASE JudgeSubject
  <2>1. PICK subject, domain :
            assertions' = assertions \o Judge(subject, accepted, catalogs, domain)
    BY <1>3 DEF JudgeSubject
  <2> DEFINE more == Judge(subject, accepted, catalogs, domain)
  <2>2. Listing(catalogs) /\ IsSequence(assertions)
    BY DEF ReportsInv, Ordered
  <2>3. UNCHANGED <<accepted, catalogs, out>>
    BY <1>3 DEF JudgeSubject
  <2>4. IsSequence(more) /\ \A a \in ToSet(more) : ExplainedBy(a, catalogs, accepted)
    BY <2>2, JudgedInOrder, JudgedIsExplained
  <2> HIDE DEF more
  <2>5. ToSet(assertions \o more) = ToSet(assertions) \cup ToSet(more)
    BY <2>2, <2>4, ElementsOfConcat
  <2>6. \A a \in ToSet(assertions') : ExplainedBy(a, catalogs, accepted)
    BY <2>1, <2>4, <2>5 DEF ExplainedInv, more
  <2> QED
    BY <2>3, <2>6 DEF ExplainedInv
<1>4. CASE WriteReport
  <2> DEFINE r == [run |-> cmd, accepted |-> accepted, assertions |-> assertions,
                   catalogs |-> catalogs, limitations |-> Limitations(cmd.ask)]
  <2>1. /\ out' = [out EXCEPT !.report = {r}]
        /\ UNCHANGED <<catalogs, accepted, assertions>>
    BY <1>4 DEF WriteReport
  <2>2. out'.report = {r} /\ Listing(r.catalogs)
    BY <2>1 DEF ReportsInv, Ordered
  <2>3. \A a \in ToSet(r.assertions) : ExplainedBy(a, r.catalogs, r.accepted)
    BY DEF ExplainedInv
  <2> HIDE DEF r
  <2> QED
    BY <2>1, <2>2, <2>3 DEF ExplainedInv
<1> QED
  BY <1>1, <1>2, <1>3, <1>4 DEF AssessStep

\* No other step judges.
LEMMA ExplainedStep == ReportsInv /\ ExplainedInv /\ [Next]_vars => ExplainedInv'
<1> SUFFICES ASSUME ReportsInv, ExplainedInv, [Next]_vars PROVE ExplainedInv'
  OBVIOUS
<1>1. CASE StartNext
  <2>1. PICK c \in {Head(todo)} : \/ UNCHANGED assessVars
                                  \/ BeginAssess(c)
    BY <1>1 DEF StartNext
  <2>2. CASE UNCHANGED assessVars
    BY <2>2 DEF assessVars, ExplainedInv
  <2>3. CASE BeginAssess(c)
    <3>1. assertions' = <<>> /\ out' = out
      BY <2>3 DEF BeginAssess
    <3> QED
      BY <3>1 DEF ExplainedInv, ToSet
  <2> QED
    BY <2>1, <2>2, <2>3
<1>2. CASE UNCHANGED assessVars
  BY <1>2 DEF assessVars, ExplainedInv
<1>3. CASE AssessStep
  BY <1>3, ExplainedAssess
<1>4. CASE UNCHANGED vars
  BY <1>2, <1>4 DEF vars
<1> QED
  BY <1>1, <1>2, <1>3, <1>4 DEF Next

\* ExplainedInv is an invariant.
LEMMA ExplainedInvariant == Spec => []ExplainedInv
BY ExplainedInit, ExplainedStep, ReportsInvariant, PTL DEF Spec

-----------------------------------------------------------------------------
\* A set of indices of a sequence has its Max among them, above the others.
LEMMA MaxOfIndices ==
    ASSUME NEW s, IsSequence(s), NEW K, K \subseteq DOMAIN s, K # {}
    PROVE  Max(K) \in K /\ \A j \in K : j <= Max(K)
<1>1. DOMAIN s = 1 .. Len(s) /\ Len(s) \in Nat
  BY FinitelyManyIndices
<1>2. K \in SUBSET (1 .. Len(s))
  BY <1>1
<1>3. PICK m \in K : \A j \in K : j <= m
  BY <1>1, <1>2, LastExists
<1>4. \A x, y \in K : x >= y <=> y <= x
  BY <1>1
<1>5. \E n \in K : \A y \in K : n >= y
  BY <1>3, <1>4
<1>6. Max(K) \in K /\ \A y \in K : Max(K) >= y
  BY <1>5 DEF Max
<1> QED
  BY <1>4, <1>6

\* A control that some catalog has is described by one that has it.
LEMMA SpecIsOfACatalog ==
    ASSUME NEW used, Listing(used), NEW c \in ToSet(used), NEW x \in ToSet(c.controls)
    PROVE  /\ \E d \in ToSet(used) : SpecOf(used, x.id) \in ToSet(d.controls)
           /\ SpecOf(used, x.id).id = x.id
           /\ Rated(SeverityOf(used, x.id)) = Level(SpecOf(used, x.id))
<1> DEFINE id == x.id
           Places(controls) == {k \in DOMAIN controls : controls[k].id = id}
           J == {j \in DOMAIN used : Places(used[j].controls) # {}}
<1>1. PICK j \in DOMAIN used : c = used[j]
  BY DEF ToSet
<1>2. PICK k \in DOMAIN c.controls : x = c.controls[k]
  BY DEF ToSet
<1>3. j \in J
  BY <1>1, <1>2
<1>4. Max(J) \in J
  <2>1. J \subseteq DOMAIN used /\ J # {}
    BY <1>3
  <2> HIDE DEF J
  <2> QED
    BY <2>1, MaxOfIndices DEF Listing
<1> DEFINE m == Max(J)
           last == used[m].controls
           K == Places(last)
<1> HIDE DEF m
<1>5. used[m] \in ToSet(used) /\ K # {}
  BY <1>4 DEF m, ToSet
<1>6. IsSequence(last)
  BY <1>5 DEF Listing
<1>7. Max(K) \in K
  <2>1. K \subseteq DOMAIN last
    OBVIOUS
  <2> HIDE DEF K
  <2> QED
    BY <1>5, <1>6, <2>1, MaxOfIndices
<1>8. SpecOf(used, id) = last[Max(K)]
  BY DEF SpecOf, m
<1>9. last[Max(K)] \in ToSet(last) /\ last[Max(K)].id = id
  BY <1>7 DEF ToSet
<1>10. \E i \in DOMAIN used : \E l \in DOMAIN used[i].controls : used[i].controls[l].id = id
  BY <1>1, <1>2
<1>11. Rated(SeverityOf(used, id)) = Level(SpecOf(used, id))
  BY <1>10 DEF SeverityOf, IsRated, Level
<1> QED
  BY <1>5, <1>8, <1>9, <1>11

-----------------------------------------------------------------------------
\* The entries of a package are made of assertions of its subject.
FindingOf(a, used, E) ==
    [control |-> a.control, outcome |-> a.outcome,
     severity |-> Level(SpecOf(used, a.control)),
     gap |-> EvidenceGap(SpecOf(used, a.control), a.outcome, E),
     evidence |-> a.evidence]

MadeOf(findings, found, used, s, own) ==
    \A f \in ToSet(findings) : \E a \in ToSet(found) :
        a.subject = s /\ a.outcome \in FindingOutcomes /\ f = FindingOf(a, used, own)

\* ... and of those alone.
LEMMA FindingsAreOf ==
    ASSUME NEW found, IsSequence(found), NEW used, NEW E, NEW s \in Judged(found)
    PROVE  LET package == PackagesOf(found, used, E)[s]
           IN  /\ IsSequence(package.findings)
               /\ MadeOf(package.findings, found, used, s, E[s])
<1> DEFINE package == PackagesOf(found, used, E)[s]
           mine == Having(found, "subject", {s})
           listed == Having(mine, "outcome", FindingOutcomes)
           S == {FindingOf(a, used, E[s]) : a \in ToSet(listed)}
<1>1. package = Remediation(mine, used, E[s])
  <2> HIDE DEF mine
  <2> QED
    BY DEF PackagesOf, mine
<1>2. IsSequence(mine) /\ ToSet(mine) = {found[k] : k \in {i \in DOMAIN found : found[i].subject \in {s}}}
  <2> DEFINE V == {s}
  <2> HIDE DEF V
  <2>1. LET p == Having(found, "subject", V)
        IN  /\ IsSequence(p)
            /\ HoldsThose(p, found, {k \in DOMAIN found : found[k]["subject"] \in V})
    BY HavingSays
  <2> QED
    BY <2>1 DEF HoldsThose, V
<1>3. /\ IsSequence(listed)
      /\ ToSet(listed) = {mine[k] : k \in {i \in DOMAIN mine : mine[i].outcome \in FindingOutcomes}}
  <2> HIDE DEF mine
  <2>1. LET p == Having(mine, "outcome", FindingOutcomes)
        IN  /\ IsSequence(p)
            /\ HoldsThose(p, mine, {k \in DOMAIN mine : mine[k]["outcome"] \in FindingOutcomes})
    BY <1>2, HavingSays
  <2> QED
    BY <2>1 DEF HoldsThose
<1>4. package.findings = [k \in DOMAIN listed |-> FindingOf(listed[k], used, E[s])]
  <2> DEFINE own == E[s]
  <2>1. package = Remediation(mine, used, own)
    BY <1>1
  <2> HIDE DEF mine, own, package
  <2>2. Remediation(mine, used, own).findings
            = [k \in DOMAIN listed |->
                  [control |-> listed[k].control, outcome |-> listed[k].outcome,
                   severity |-> Level(SpecOf(used, listed[k].control)),
                   gap |-> EvidenceGap(SpecOf(used, listed[k].control), listed[k].outcome, own),
                   evidence |-> listed[k].evidence]]
    BY DEF Remediation
  <2> HIDE DEF listed
  <2> QED
    BY <2>1, <2>2 DEF FindingOf, own
<1>5. \A a \in ToSet(mine) : a \in ToSet(found) /\ a.subject = s
  BY <1>2 DEF ToSet
<1>6. \A a \in ToSet(listed) : a \in ToSet(mine) /\ a.outcome \in FindingOutcomes
  BY <1>3 DEF ToSet
<1> HIDE DEF mine, listed, package, S
<1>7. DOMAIN listed = 1 .. Len(listed) /\ Len(listed) \in Nat
  BY <1>3, FinitelyManyIndices
<1>8. \A k \in DOMAIN listed : listed[k] \in ToSet(listed)
  BY DEF ToSet
<1>9. package.findings \in [1 .. Len(listed) -> S]
  BY <1>4, <1>7, <1>8 DEF S
<1>10. IsSequence(package.findings)
  <2>1. package.findings \in Seq(S)
    BY <1>7, <1>9, SeqDef
  <2> QED
    BY <2>1, OfItsElements
<1>11. \A f \in ToSet(package.findings) : \E a \in ToSet(listed) : f = FindingOf(a, used, E[s])
  BY <1>4, <1>8 DEF ToSet
<1> QED
  BY <1>5, <1>6, <1>10, <1>11 DEF package, MadeOf

\* What a package says of the evidence for a finding is so.
LEMMA GapsExplained ==
    ASSUME NEW found, IsSequence(found), NEW used, Listing(used), NEW events,
           \A a \in ToSet(found) : ExplainedBy(a, used, events),
           NEW E, NEW s \in Judged(found), NEW own, own = E[s],
           own = {e \in ToSet(events) : e.subject = s}
    PROVE  ExplainsGaps(PackagesOf(found, used, E)[s], used, own)
<1> DEFINE package == PackagesOf(found, used, E)[s]
<1>2. MadeOf(package.findings, found, used, s, own)
  BY FindingsAreOf
<1>1. ASSUME NEW f \in ToSet(package.findings), AsksAlike(used, f.control)
      PROVE  /\ f.outcome = "insufficient_evidence" <=> f.gap.missing # {}
             /\ \A q \in f.gap.missing : ~RequirementMet(own, q)
             /\ \A q \in f.gap.observed : RequirementMet(own, q)
  <2>1. PICK a \in ToSet(found) : /\ a.subject = s /\ a.outcome \in FindingOutcomes
                                  /\ f = FindingOf(a, used, own)
    <3> HIDE DEF package
    <3> QED
      BY <1>1, <1>2 DEF MadeOf
  <2>2. ExplainedBy(a, used, events) /\ {e \in ToSet(events) : e.subject = a.subject} = own
    BY <2>1
  <2> HIDE DEF package
  <2>9. PICK c \in ToSet(used) : \E x \in ToSet(c.controls) :
            /\ a.outcome # "partial"
            /\ x.id = a.control
            /\ a.outcome = "insufficient_evidence" => ~HasMinimumEvidence(own, x.minimum)
            /\ a.outcome = "non-conformant" => HasMinimumEvidence(own, x.minimum)
    BY <2>2 DEF ExplainedBy
  <2>3. PICK x \in ToSet(c.controls) :
            /\ a.outcome # "partial"
            /\ x.id = a.control
            /\ a.outcome = "insufficient_evidence" => ~HasMinimumEvidence(own, x.minimum)
            /\ a.outcome = "non-conformant" => HasMinimumEvidence(own, x.minimum)
    BY <2>9
  <2> DEFINE spec == SpecOf(used, a.control)
  <2>4. PICK d \in ToSet(used) : spec \in ToSet(d.controls) /\ spec.id = a.control
    BY <2>3, SpecIsOfACatalog
  <2>5. /\ f.control = a.control /\ f.outcome = a.outcome
        /\ f.gap = EvidenceGap(spec, a.outcome, own)
    BY <2>1 DEF FindingOf
  <2> HIDE DEF spec
  <2>6. spec.minimum = x.minimum
    BY <1>1, <2>3, <2>4, <2>5 DEF AsksAlike
  <2>7. CASE a.outcome = "insufficient_evidence"
    <3>1. /\ f.gap.missing = {q \in x.minimum : ~RequirementMet(own, q)}
          /\ f.gap.observed = x.minimum \ f.gap.missing
      BY <2>5, <2>6, <2>7 DEF EvidenceGap
    <3>2. f.gap.missing # {}
      BY <2>3, <2>7, <3>1 DEF HasMinimumEvidence
    <3> QED
      BY <2>5, <2>7, <3>1, <3>2
  <2>8. CASE a.outcome = "non-conformant"
    <3>1. f.gap.missing = {} /\ f.gap.observed = x.minimum
      BY <2>5, <2>6, <2>8 DEF EvidenceGap
    <3>2. \A q \in x.minimum : RequirementMet(own, q)
      BY <2>3, <2>8 DEF HasMinimumEvidence
    <3> QED
      BY <2>5, <2>8, <3>1, <3>2
  <2> QED
    BY <2>1, <2>3, <2>7, <2>8 DEF FindingOutcomes
<1> HIDE DEF package
<1> QED
  BY <1>1 DEF ExplainsGaps, RequirementMet, package

\* A package ranks a finding as report.html does.
LEMMA RankedAlike ==
    ASSUME NEW found, IsSequence(found), NEW used, Listing(used), NEW events,
           \A a \in ToSet(found) : ExplainedBy(a, used, events),
           NEW E, NEW s \in Judged(found), NEW run
    PROVE  RanksAlike(PackagesOf(found, used, E)[s],
                      Having(ReportHtml(found, used, run).rows, "subject", {s}))
<1> DEFINE package == PackagesOf(found, used, E)[s]
           rows == ReportHtml(found, used, run).rows
           mine == Having(rows, "subject", {s})
<1>1. IsSequence(rows) /\ ToSet(rows) = {Finding(a, used) : a \in ToSet(found)}
  BY RowsListAll
<1>2. ASSUME NEW f \in ToSet(package.findings)
      PROVE  \E row \in ToSet(mine) : /\ row.control = f.control /\ row.outcome = f.outcome
                                      /\ row.evidence = f.evidence /\ Rated(row.severity) = f.severity
  <2>1. PICK a \in ToSet(found) : a.subject = s /\ f = FindingOf(a, used, E[s])
    BY FindingsAreOf DEF MadeOf
  <2> DEFINE row == Finding(a, used)
  <2>2. row \in ToSet(rows)
    BY <1>1
  <2>3. /\ row.control = a.control /\ row.subject = s /\ row.outcome = a.outcome
        /\ row.evidence = a.evidence /\ row.severity = SeverityOf(used, a.control)
    BY <2>1 DEF Finding
  <2>4. /\ f.control = a.control /\ f.outcome = a.outcome /\ f.evidence = a.evidence
        /\ f.severity = Level(SpecOf(used, a.control))
    BY <2>1 DEF FindingOf
  <2> HIDE DEF row, rows, mine, package
  <2>5. row \in ToSet(mine)
    <3>1. PICK k \in DOMAIN rows : row = rows[k]
      BY <2>2 DEF ToSet
    <3> QED
      BY <1>1, <2>3, <3>1, HavingKeeps DEF mine
  <2>6. Rated(SeverityOf(used, a.control)) = Level(SpecOf(used, a.control))
    <3>1. PICK c \in ToSet(used) : \E x \in ToSet(c.controls) : x.id = a.control
      BY DEF ExplainedBy
    <3>2. PICK x \in ToSet(c.controls) : x.id = a.control
      BY <3>1
    <3> QED
      BY <3>2, SpecIsOfACatalog
  <2> QED
    BY <2>3, <2>4, <2>5, <2>6
<1> HIDE DEF package, mine
<1> QED
  BY <1>2 DEF RanksAlike, package, mine

\* The tools a skill's notes name were called by its subject.
LEMMA NotesTell ==
    ASSUME NEW package, NEW s, NEW events
    PROVE  NotesAgree(Notes(package, ToolNames({e \in ToSet(events) : e.subject = s})), s,
                      ToSet(events))
<1> DEFINE tools == ToolNames({e \in ToSet(events) : e.subject = s})
           notes == Notes(package, tools)
<1>1. \A n \in ToSet(notes) : n.tools = tools
  <2> HIDE DEF tools
  <2>1. DOMAIN notes = DOMAIN package.findings /\ \A k \in DOMAIN notes : notes[k].tools = tools
    BY DEF Notes
  <2> HIDE DEF notes
  <2> QED
    BY <2>1 DEF ToSet
<1>2. \A tool \in tools : \E e \in ToSet(events) :
          e.subject = s /\ e.type = "ToolCall" /\ Has(e, "tool") /\ e.data.tool = tool
  BY DEF ToolNames
<1> HIDE DEF tools, notes
<1> QED
  BY <1>1, <1>2 DEF NotesAgree, notes, tools

-----------------------------------------------------------------------------
(*                         The files a report writes                         *)

\* A concatenation is as long as its parts together.
LEMMA LenOfConcat ==
    ASSUME NEW s, IsSequence(s), NEW t, IsSequence(t)
    PROVE  Len(s \o t) = Len(s) + Len(t)
<1> DEFINE S == ToSet(s) \cup ToSet(t)
<1>1. s \in Seq(S) /\ t \in Seq(S)
  BY SeqMonotonic DEF IsSequence
<1> HIDE DEF S
<1> QED
  BY <1>1, ConcatProperties

\* Paths, each once, whose first components are in names and whose second, where
\* there is one, is a subject of S.
Filed(paths, names, S) ==
    /\ IsSequence(paths) /\ IsInjective(paths)
    /\ \A p \in ToSet(paths) :
           /\ p[1] \in names /\ IsSequence(p)
           /\ 2 \in DOMAIN p => p[2] \in S

\* A file alone.
LEMMA FiledOne ==
    ASSUME NEW x, NEW N, x \in N, NEW S
    PROVE  Filed(<<<<x>>>>, N, S)
<1> DEFINE p == <<x>>
<1>1. p[1] = x /\ DOMAIN p = {1} /\ p \in Seq({x})
  OBVIOUS
<1> HIDE DEF p
<1>2. ToSet(p) = {x}
  BY <1>1 DEF ToSet
<1>3. IsSequence(p) /\ 2 \notin DOMAIN p
  BY <1>1, <1>2 DEF IsSequence
<1> DEFINE s == <<p>>
<1>4. DOMAIN s = {1} /\ s[1] = p /\ s \in Seq({p})
  OBVIOUS
<1> HIDE DEF s
<1>5. ToSet(s) = {p} /\ IsInjective(s)
  BY <1>4 DEF ToSet, IsInjective
<1>6. IsSequence(s)
  BY <1>4, <1>5 DEF IsSequence
<1> QED
  BY <1>1, <1>3, <1>5, <1>6 DEF Filed, s, p

\* Files after others that are elsewhere.
LEMMA FiledConcat ==
    ASSUME NEW S, NEW s, NEW M, Filed(s, M, S), NEW t, NEW N, Filed(t, N, S),
           \A x \in M : x \notin N, NEW L, L = M \cup N
    PROVE  Filed(s \o t, L, S) /\ ToSet(s \o t) = ToSet(s) \cup ToSet(t)
<1>1. IsSequence(s \o t) /\ ToSet(s \o t) = ToSet(s) \cup ToSet(t)
  BY ConcatIsSequence, ElementsOfConcat DEF Filed
<1>2. ToSet(s) \cap ToSet(t) = {}
  BY DEF Filed
<1>3. IsInjective(s \o t)
  BY <1>2, InjectiveConcat DEF Filed
<1> QED
  BY <1>1, <1>3 DEF Filed

\* The files of each subject, one subject after another.
FilesOf(files, subjects, name) ==
    /\ files = [k \in DOMAIN subjects |-> files[k]]
    /\ \A k \in DOMAIN subjects :
        /\ IsSequence(files[k]) /\ IsInjective(files[k])
        /\ \A p \in ToSet(files[k]) : p[1] = name /\ p[2] = subjects[k] /\ IsSequence(p)

\* No subject's file is another's.
LEMMA FiledEach ==
    ASSUME NEW subjects, IsSequence(subjects), IsInjective(subjects), NEW name, NEW files,
           FilesOf(files, subjects, name), NEW N, name \in N,
           NEW Owners, \A k \in DOMAIN subjects : subjects[k] \in Owners
    PROVE  /\ Filed(FlattenSeq(files), N, Owners)
           /\ ToSet(FlattenSeq(files)) = UNION {ToSet(files[k]) : k \in DOMAIN subjects}
<1> DEFINE T == UNION {ToSet(files[k]) : k \in DOMAIN subjects}
           n == Len(subjects)
           S == Seq(T)
<1>1. DOMAIN subjects = 1 .. n /\ n \in Nat
  BY FinitelyManyIndices
<1>2. \A k \in DOMAIN subjects : files[k] \in S
  <2> TAKE k \in DOMAIN subjects
  <2> DEFINE U == ToSet(files[k])
  <2>1. files[k] \in Seq(U) /\ U \subseteq T
    BY DEF FilesOf, IsSequence
  <2> HIDE DEF U, T
  <2> QED
    BY <2>1, SeqMonotonic
<1>3. files \in Seq(S)
  <2> HIDE DEF S, n
  <2>1. files \in [1 .. n -> S]
    BY <1>1, <1>2 DEF FilesOf
  <2> QED
    BY <1>1, <2>1, SeqDef
<1> HIDE DEF T, n
<1>4. FlattenSeq(files) \in Seq(T)
  BY <1>3, FlattenedSays
<1>5. ToSet(FlattenSeq(files)) = UNION {ToSet(files[k]) : k \in DOMAIN files}
  BY <1>3, FlattenedSays
<1>6. \A k \in DOMAIN files : IsInjective(files[k])
  BY DEF FilesOf
<1>7. \A j, k \in DOMAIN files : j # k => ToSet(files[j]) \cap ToSet(files[k]) = {}
  BY DEF FilesOf, IsInjective
<1>8. IsInjective(FlattenSeq(files))
  BY <1>3, <1>6, <1>7, InjectiveFlattened
<1>9. IsSequence(FlattenSeq(files))
  BY <1>4, OfItsElements
<1> QED
  BY <1>5, <1>8, <1>9 DEF Filed, FilesOf

\* Two files of one subject.
LEMMA FiledTwo ==
    ASSUME NEW p, NEW q, p # q
    PROVE  /\ IsSequence(<<p>>) /\ IsInjective(<<p>>) /\ ToSet(<<p>>) = {p}
           /\ IsSequence(<<p, q>>) /\ IsInjective(<<p, q>>) /\ ToSet(<<p, q>>) = {p, q}
<1> DEFINE s == <<p>>
           t == <<p, q>>
<1>1. DOMAIN s = {1} /\ s[1] = p /\ s \in Seq({p})
  OBVIOUS
<1>2. DOMAIN t = {1, 2} /\ t[1] = p /\ t[2] = q /\ t \in Seq({p, q})
  OBVIOUS
<1> HIDE DEF s, t
<1>3. ToSet(s) = {p} /\ IsInjective(s)
  BY <1>1 DEF ToSet, IsInjective
<1>4. ToSet(t) = {p, q} /\ IsInjective(t)
  BY <1>2 DEF ToSet, IsInjective
<1> QED
  BY <1>1, <1>2, <1>3, <1>4 DEF IsSequence, s, t

\* Paths are sequences.
LEMMA ThreeAreASequence == ASSUME NEW a, NEW b, NEW c PROVE IsSequence(<<a, b, c>>)
<1> DEFINE t == <<a, b, c>>
<1>1. DOMAIN t = {1, 2, 3} /\ t[1] = a /\ t[2] = b /\ t[3] = c /\ t \in Seq({a, b, c})
  OBVIOUS
<1> HIDE DEF t
<1>2. ToSet(t) = {a, b, c}
  BY <1>1 DEF ToSet
<1> QED
  BY <1>1, <1>2 DEF IsSequence, t

\* ... those of notes too.
LEMMA FourAreASequence == ASSUME NEW a, NEW b, NEW c, NEW d PROVE IsSequence(<<a, b, c, d>>)
<1> DEFINE t == <<a, b, c, d>>
<1>1. /\ DOMAIN t = {1, 2, 3, 4} /\ t[1] = a /\ t[2] = b /\ t[3] = c /\ t[4] = d
      /\ t \in Seq({a, b, c, d})
  OBVIOUS
<1> HIDE DEF t
<1>2. ToSet(t) = {a, b, c, d}
  BY <1>1 DEF ToSet
<1> QED
  BY <1>1, <1>2 DEF IsSequence, t

\* Sequences with the same elements at the same places are one.
LEMMA SameElements ==
    ASSUME NEW D, NEW V, NEW u \in [D -> V], NEW w \in [D -> V],
           \A i \in D : u[i] = w[i]
    PROVE  u = w
OBVIOUS

\* Two paths of one place are one, or of two subjects.
LEMMA PathsTell ==
    ASSUME NEW u, IsSequence(u), NEW w, IsSequence(w), PathOf(u) = PathOf(w),
           2 \in DOMAIN u => u[2] = w[2]
    PROVE  u = w
<1> DEFINE V == ToSet(u) \cup ToSet(w)
           n == Len(u)
<1>1. DOMAIN PathOf(u) = DOMAIN u /\ DOMAIN PathOf(w) = DOMAIN w
  BY DEF PathOf
<1>2. \A i \in DOMAIN u : i # 2 => PathOf(u)[i] = u[i]
  BY DEF PathOf
<1>3. \A i \in DOMAIN w : i # 2 => PathOf(w)[i] = w[i]
  BY DEF PathOf
<1>4. u \in [1 .. n -> V] /\ w \in [DOMAIN w -> V]
  <2>1. u \in Seq(V) /\ w \in Seq(V)
    BY SeqMonotonic DEF IsSequence
  <2> HIDE DEF V
  <2> QED
    BY <2>1
<1>5. DOMAIN u = 1 .. n
  BY <1>4
<1>6. DOMAIN w = 1 .. n /\ \A i \in 1 .. n : u[i] = w[i]
  BY <1>1, <1>2, <1>3, <1>5
<1> HIDE DEF V, n
<1> DEFINE D == 1 .. n
<1>7. u \in [D -> V]
  BY <1>4
<1>8. w \in [D -> V]
  BY <1>4, <1>6
<1>9. \A i \in D : u[i] = w[i]
  BY <1>6
<1> HIDE DEF D
<1> QED
  BY <1>7, <1>8, <1>9, SameElements

\* What stands under a path was written there.
LEMMA WrittenTells ==
    ASSUME NEW writes, IsSequence(writes), NEW k \in DOMAIN writes
    PROVE  \E j \in DOMAIN writes : /\ Written(writes)[PathOf(writes[k])] = writes[j]
                                    /\ PathOf(writes[j]) = PathOf(writes[k])
<1> DEFINE at(path) == {i \in DOMAIN writes : PathOf(writes[i]) = path}
           here == PathOf(writes[k])
           P == {PathOf(writes[i]) : i \in DOMAIN writes}
<1>1. Written(writes) = [path \in P |-> writes[Max(at(path))]]
  BY DEF Written
<1>2. here \in P /\ at(here) \subseteq DOMAIN writes /\ k \in at(here)
  OBVIOUS
<1>3. Max(at(here)) \in at(here)
  <2> DEFINE K == at(here)
  <2>1. K \subseteq DOMAIN writes /\ K # {}
    BY <1>2
  <2> HIDE DEF K
  <2>2. Max(K) \in K
    BY <2>1, MaxOfIndices
  <2> QED
    BY <2>2 DEF K
<1> QED
  BY <1>1, <1>2, <1>3

\* The files of a skill: one for each finding and three more.
LEMMA SkillFilesSay ==
    ASSUME NEW s, NEW package, IsSequence(package.findings)
    PROVE  LET files == SkillFiles(s, package)
           IN  /\ IsSequence(files) /\ IsInjective(files)
               /\ Cardinality(ToSet(files)) = 3 + Len(package.findings)
               /\ \A p \in ToSet(files) : p[1] = "skill" /\ p[2] = s /\ IsSequence(p)
<1> DEFINE found == package.findings
           n == Len(found)
           note(k) == <<"skill", s, "findings", Notes(package, {})[k].name>>
           first == <<<<"skill", s, "remediation-package.json">>, <<"skill", s, "SKILL.md">>>>
           notes == [k \in DOMAIN found |-> note(k)]
           last == <<<<"skill", s, "REVERIFY.md">>>>
           T == {note(k) : k \in DOMAIN found}
<1>1. SkillFiles(s, package) = (first \o notes) \o last
  BY DEF SkillFiles
<1>2. DOMAIN found = 1 .. n /\ n \in Nat
  BY FinitelyManyIndices
<1>3. \A k \in DOMAIN found :
          /\ note(k)[1] = "skill" /\ note(k)[2] = s /\ note(k)[3] = "findings"
          /\ note(k)[4][2] = k /\ IsSequence(note(k))
  <2> TAKE k \in DOMAIN found
  <2> DEFINE name == Notes(package, {})[k].name
  <2>1. name[2] = k
    BY DEF Notes
  <2> HIDE DEF name
  <2> QED
    BY <2>1, FourAreASequence DEF name
<1>4. /\ Len(first) = 2 /\ IsSequence(first) /\ IsInjective(first)
      /\ \A p \in ToSet(first) :
            /\ p[1] = "skill" /\ p[2] = s /\ p[3] \in {"remediation-package.json", "SKILL.md"}
            /\ IsSequence(p)
  <2> DEFINE p == <<"skill", s, "remediation-package.json">>
             q == <<"skill", s, "SKILL.md">>
  <2>1. /\ p[1] = "skill" /\ p[2] = s /\ p[3] = "remediation-package.json"
        /\ q[1] = "skill" /\ q[2] = s /\ q[3] = "SKILL.md"
        /\ IsSequence(p) /\ IsSequence(q)
    BY ThreeAreASequence
  <2>2. first = <<p, q>>
    OBVIOUS
  <2> HIDE DEF p, q, first
  <2>3. p # q
    BY <2>1
  <2>4. IsSequence(first) /\ IsInjective(first) /\ ToSet(first) = {p, q}
    BY <2>2, <2>3, FiledTwo
  <2>5. Len(first) = 2
    BY <2>2
  <2> QED
    BY <2>1, <2>4, <2>5
<1>5. /\ Len(last) = 1 /\ IsSequence(last) /\ IsInjective(last)
      /\ \A p \in ToSet(last) : p[1] = "skill" /\ p[2] = s /\ p[3] = "REVERIFY.md" /\ IsSequence(p)
  <2> DEFINE p == <<"skill", s, "REVERIFY.md">>
             q == <<"skill", s, "SKILL.md">>
  <2>1. p[1] = "skill" /\ p[2] = s /\ p[3] = "REVERIFY.md" /\ q[3] = "SKILL.md" /\ IsSequence(p)
    BY ThreeAreASequence
  <2>2. last = <<p>>
    OBVIOUS
  <2> HIDE DEF p, q, last
  <2>3. p # q
    BY <2>1
  <2>4. IsSequence(last) /\ IsInjective(last) /\ ToSet(last) = {p}
    BY <2>2, <2>3, FiledTwo
  <2>5. Len(last) = 1
    BY <2>2
  <2> QED
    BY <2>1, <2>4, <2>5
<1> HIDE DEF first, last
<1>6. /\ IsSequence(notes) /\ IsInjective(notes) /\ Len(notes) = n
      /\ \A p \in ToSet(notes) :
             p[1] = "skill" /\ p[2] = s /\ p[3] = "findings" /\ IsSequence(p)
  <2> HIDE DEF note, n
  <2>1. notes \in [1 .. n -> T]
    BY <1>2
  <2>2. DOMAIN notes = DOMAIN found /\ \A k \in DOMAIN found : notes[k] = note(k)
    OBVIOUS
  <2> HIDE DEF T, notes
  <2>3. notes \in Seq(T) /\ Len(notes) = n
    BY <1>2, <2>1, SeqDef
  <2>4. IsSequence(notes)
    BY <2>3, OfItsElements
  <2>5. IsInjective(notes)
    BY <1>3, <2>2 DEF IsInjective
  <2>6. \A p \in ToSet(notes) :
            p[1] = "skill" /\ p[2] = s /\ p[3] = "findings" /\ IsSequence(p)
    BY <1>3, <2>2 DEF ToSet
  <2> QED
    BY <2>3, <2>4, <2>5, <2>6
<1> HIDE DEF notes, found, n, note
<1> DEFINE u == first \o notes
<1>7. /\ IsSequence(u) /\ IsInjective(u) /\ Len(u) = 2 + n
      /\ ToSet(u) = ToSet(first) \cup ToSet(notes)
  <2>1. ToSet(first) \cap ToSet(notes) = {}
    BY <1>4, <1>6
  <2>2. IsSequence(u) /\ IsInjective(u) /\ ToSet(u) = ToSet(first) \cup ToSet(notes)
    BY <1>4, <1>6, <2>1, ConcatIsSequence, ElementsOfConcat, InjectiveConcat
  <2>3. Len(u) = Len(first) + Len(notes)
    BY <1>4, <1>6, LenOfConcat
  <2> QED
    BY <1>4, <1>6, <2>2, <2>3
<1> HIDE DEF u
<1> DEFINE files == u \o last
<1>8. /\ IsSequence(files) /\ IsInjective(files) /\ Len(files) = 3 + n
      /\ ToSet(files) = ToSet(u) \cup ToSet(last)
  <2>1. ToSet(u) \cap ToSet(last) = {}
    BY <1>4, <1>5, <1>6, <1>7
  <2>2. IsSequence(files) /\ IsInjective(files) /\ ToSet(files) = ToSet(u) \cup ToSet(last)
    BY <1>5, <1>7, <2>1, ConcatIsSequence, ElementsOfConcat, InjectiveConcat
  <2>3. Len(files) = Len(u) + Len(last)
    BY <1>5, <1>7, LenOfConcat
  <2> QED
    BY <1>2, <1>5, <1>7, <2>2, <2>3
<1>9. \A p \in ToSet(files) : p[1] = "skill" /\ p[2] = s /\ IsSequence(p)
  BY <1>4, <1>5, <1>6, <1>7, <1>8
<1> HIDE DEF files
<1>10. Cardinality(ToSet(files)) = Len(files)
  <2> DEFINE V == ToSet(files)
  <2>1. Number(files, DOMAIN files, V) = Cardinality(V)
    BY <1>8, NumberOfInjective
  <2>2. {k \in DOMAIN files : files[k] \in V} = 1 .. Len(files) /\ Len(files) \in Nat
    BY <1>8, FinitelyManyIndices DEF ToSet
  <2> HIDE DEF V
  <2>3. Cardinality(1 .. Len(files)) = IF 1 > Len(files) THEN 0 ELSE Len(files) - 1 + 1
    BY <2>2, FS_Interval
  <2>4. (IF 1 > Len(files) THEN 0 ELSE Len(files) - 1 + 1) = Len(files)
    BY <2>2
  <2>5. Number(files, DOMAIN files, V) = Cardinality(1 .. Len(files))
    BY <2>2 DEF Number
  <2> QED
    BY <2>1, <2>3, <2>4, <2>5 DEF V
<1> QED
  BY <1>1, <1>8, <1>9, <1>10 DEF files, u, n, found

\* The fixed files of a report, all of them asked for.
FixedFiles ==
    <<<<"assertions.json">>>>
    \o <<<<"report.md">>>> \o <<<<"report.html">>>>
    \o <<<<"oscal-ar.json">>>>
    \o <<<<"oscal-ar.xml">>>>
    \o <<<<"results.sarif">>>>
    \o <<<<"report.junit.xml">>>> \o <<<<"report.csv">>>>
    \o <<<<"report.pdf">>>>
    \o <<<<"public-statement.md">>>>

FixedNames == {"assertions.json", "report.md", "report.html", "oscal-ar.json", "oscal-ar.xml",
               "results.sarif", "report.junit.xml", "report.csv", "report.pdf",
               "public-statement.md"}

\* ... each of which is another file.
LEMMA FiledFixed == ASSUME NEW S PROVE Filed(FixedFiles, FixedNames, S)
<1> DEFINE N1 == {"assertions.json"}
           N2 == N1 \cup {"report.md"}
           N3 == N2 \cup {"report.html"}
           N4 == N3 \cup {"oscal-ar.json"}
           N5 == N4 \cup {"oscal-ar.xml"}
           N6 == N5 \cup {"results.sarif"}
           N7 == N6 \cup {"report.junit.xml"}
           N8 == N7 \cup {"report.csv"}
           N9 == N8 \cup {"report.pdf"}
           N10 == N9 \cup {"public-statement.md"}
           s1 == <<<<"assertions.json">>>>
           s2 == s1 \o <<<<"report.md">>>>
           s3 == s2 \o <<<<"report.html">>>>
           s4 == s3 \o <<<<"oscal-ar.json">>>>
           s5 == s4 \o <<<<"oscal-ar.xml">>>>
           s6 == s5 \o <<<<"results.sarif">>>>
           s7 == s6 \o <<<<"report.junit.xml">>>>
           s8 == s7 \o <<<<"report.csv">>>>
           s9 == s8 \o <<<<"report.pdf">>>>
           s10 == s9 \o <<<<"public-statement.md">>>>
<1>1. N10 = FixedNames /\ s10 = FixedFiles
  BY DEF FixedFiles, FixedNames
<1>2. /\ "report.md" \notin N1 /\ "report.html" \notin N2 /\ "oscal-ar.json" \notin N3
      /\ "oscal-ar.xml" \notin N4 /\ "results.sarif" \notin N5 /\ "report.junit.xml" \notin N6
      /\ "report.csv" \notin N7 /\ "report.pdf" \notin N8 /\ "public-statement.md" \notin N9
  OBVIOUS
<1>3. ASSUME NEW s, NEW M, Filed(s, M, S), NEW x, x \notin M
      PROVE  Filed(s \o <<<<x>>>>, M \cup {x}, S)
  <2> DEFINE t == <<<<x>>>>
             N == {x}
             L == M \cup N
  <2>1. Filed(t, N, S)
    BY FiledOne
  <2>2. \A y \in M : y \notin N
    BY <1>3
  <2> HIDE DEF t, N
  <2>3. L = M \cup N
    OBVIOUS
  <2> HIDE DEF L
  <2>4. Filed(s \o t, L, S)
    BY <1>3, <2>1, <2>2, <2>3, FiledConcat
  <2> QED
    BY <2>4 DEF t, N, L
<1>4. Filed(s1, N1, S)
  BY FiledOne
<1> HIDE DEF N1, s1
<1>5. Filed(s2, N2, S)
  BY <1>2, <1>3, <1>4
<1> HIDE DEF N2, s2
<1>6. Filed(s3, N3, S)
  BY <1>2, <1>3, <1>5
<1> HIDE DEF N3, s3
<1>7. Filed(s4, N4, S)
  BY <1>2, <1>3, <1>6
<1> HIDE DEF N4, s4
<1>8. Filed(s5, N5, S)
  BY <1>2, <1>3, <1>7
<1> HIDE DEF N5, s5
<1>9. Filed(s6, N6, S)
  BY <1>2, <1>3, <1>8
<1> HIDE DEF N6, s6
<1>10. Filed(s7, N7, S)
  BY <1>2, <1>3, <1>9
<1> HIDE DEF N7, s7
<1>11. Filed(s8, N8, S)
  BY <1>2, <1>3, <1>10
<1> HIDE DEF N8, s8
<1>12. Filed(s9, N9, S)
  BY <1>2, <1>3, <1>11
<1> HIDE DEF N9, s9
<1>13. Filed(s10, N10, S)
  BY <1>2, <1>3, <1>12
<1> QED
  BY <1>1, <1>13

\* With every format asked for, each file of the report is another or another
\* subject's, and each subject whose directory is its own has its pack and its
\* skill.
LEMMA FilesAllAgree ==
    ASSUME NEW found, IsSequence(found), NEW packages,
           \A s \in Judged(found) : IsSequence(packages[s].findings),
           NEW used, NEW limitations
    PROVE  FilesAgree(Outputs(found, packages, EmitFormats), Claim(found, used, limitations),
                      packages)
<1> DEFINE outputs == Outputs(found, packages, EmitFormats)
           S == Judged(found)
           subjects == SetToSeq(S)
           pack(s) == <<<<"packs", s, "pack.json">>>>
           request(s) == <<<<"remediation", s, "remediation-package.json">>,
                           <<"remediation", s, "remediation.md">>>>
           skill(s) == SkillFiles(s, packages[s])
           packs == [k \in DOMAIN subjects |-> pack(subjects[k])]
           requests == [k \in DOMAIN subjects |-> request(subjects[k])]
           skills == [k \in DOMAIN subjects |-> skill(subjects[k])]
<1>1. outputs = ((FixedFiles \o FlattenSeq(packs)) \o FlattenSeq(requests)) \o FlattenSeq(skills)
  <2>1. EmitFormats # Nothing
    BY EmitAssumption
  <2>2. /\ {"md"} \cap EmitFormats # {}
        /\ {"html"} \cap EmitFormats # {}
        /\ {"oscal", "oscal_xml"} \cap EmitFormats # {}
        /\ {"oscal_xml"} \cap EmitFormats # {}
        /\ {"sarif"} \cap EmitFormats # {}
        /\ {"junit"} \cap EmitFormats # {}
        /\ {"csv"} \cap EmitFormats # {}
        /\ {"pdf"} \cap EmitFormats # {}
        /\ {"public"} \cap EmitFormats # {}
        /\ {"pack"} \cap EmitFormats # {}
        /\ {"remediation"} \cap EmitFormats # {}
        /\ {"skill"} \cap EmitFormats # {}
    BY DEF EmitFormats
  <2> QED
    BY <2>1, <2>2 DEF Outputs, FixedFiles
<1>2. IsFiniteSet(S)
  <2> DEFINE K == DOMAIN found
             f == [k \in K |-> found[k].subject]
  <2>1. IsFiniteSet(K)
    BY FinitelyManyIndices
  <2>2. f \in Surjection(K, S)
    BY DEF Judged, Surjection
  <2> HIDE DEF K, f, S
  <2> QED
    BY <2>1, <2>2, FS_Surjection
<1>3. IsSequence(subjects) /\ IsInjective(subjects) /\ ToSet(subjects) = S
  <2> HIDE DEF S
  <2> QED
    BY <1>2, EachOnce, OfItsElements
<1>4. \A k \in DOMAIN subjects : subjects[k] \in S
  BY <1>3 DEF ToSet
<1> HIDE DEF outputs, S, subjects
<1>5. ASSUME NEW s
      PROVE  /\ IsSequence(pack(s)) /\ IsInjective(pack(s))
             /\ \A p \in ToSet(pack(s)) : p[1] = "packs" /\ p[2] = s /\ IsSequence(p)
             /\ ToSet(pack(s)) = {<<"packs", s, "pack.json">>}
  <2> DEFINE p == <<"packs", s, "pack.json">>
             q == <<"packs", s, "other">>
  <2>1. p[1] = "packs" /\ p[2] = s /\ p[3] # q[3] /\ IsSequence(p)
    BY ThreeAreASequence
  <2>2. pack(s) = <<p>>
    OBVIOUS
  <2> HIDE DEF p, q, pack
  <2>3. p # q
    BY <2>1
  <2>4. IsSequence(pack(s)) /\ IsInjective(pack(s)) /\ ToSet(pack(s)) = {p}
    BY <2>2, <2>3, FiledTwo
  <2> QED
    BY <2>1, <2>4 DEF p
<1>6. ASSUME NEW s
      PROVE  /\ IsSequence(request(s)) /\ IsInjective(request(s))
             /\ \A p \in ToSet(request(s)) : p[1] = "remediation" /\ p[2] = s /\ IsSequence(p)
  <2> DEFINE p == <<"remediation", s, "remediation-package.json">>
             q == <<"remediation", s, "remediation.md">>
  <2>1. /\ p[1] = "remediation" /\ p[2] = s /\ q[1] = "remediation" /\ q[2] = s
        /\ p[3] = "remediation-package.json" /\ q[3] = "remediation.md"
        /\ IsSequence(p) /\ IsSequence(q)
    BY ThreeAreASequence
  <2>2. request(s) = <<p, q>>
    OBVIOUS
  <2> HIDE DEF p, q, request
  <2>3. p # q
    BY <2>1
  <2>5. LET both == <<p, q>> IN IsSequence(both) /\ IsInjective(both) /\ ToSet(both) = {p, q}
    BY <2>3, FiledTwo
  <2>4. IsSequence(request(s)) /\ IsInjective(request(s)) /\ ToSet(request(s)) = {p, q}
    BY <2>2, <2>5
  <2> QED
    BY <2>1, <2>4
<1>7. ASSUME NEW s \in S
      PROVE  /\ IsSequence(skill(s)) /\ IsInjective(skill(s))
             /\ \A p \in ToSet(skill(s)) : p[1] = "skill" /\ p[2] = s /\ IsSequence(p)
             /\ Cardinality(ToSet(skill(s))) = 3 + Len(packages[s].findings)
  BY SkillFilesSay DEF S
<1> HIDE DEF pack, request, skill
<1>8. /\ FilesOf(packs, subjects, "packs") /\ FilesOf(requests, subjects, "remediation")
      /\ FilesOf(skills, subjects, "skill")
  BY <1>4, <1>5, <1>6, <1>7 DEF FilesOf
<1>9. /\ \A k \in DOMAIN subjects : packs[k] = pack(subjects[k])
      /\ \A k \in DOMAIN subjects : skills[k] = skill(subjects[k])
  OBVIOUS
<1> HIDE DEF packs, requests, skills
<1> DEFINE N1 == {"packs"}
           N2 == {"remediation"}
           N3 == {"skill"}
           M1 == FixedNames \cup N1
           M2 == M1 \cup N2
           M3 == M2 \cup N3
           t1 == FlattenSeq(packs)
           t2 == FlattenSeq(requests)
           t3 == FlattenSeq(skills)
           u1 == FixedFiles \o t1
           u2 == u1 \o t2
           u3 == u2 \o t3
<1>10. /\ Filed(t1, N1, S) /\ ToSet(t1) = UNION {ToSet(packs[k]) : k \in DOMAIN subjects}
       /\ Filed(t2, N2, S)
       /\ Filed(t3, N3, S) /\ ToSet(t3) = UNION {ToSet(skills[k]) : k \in DOMAIN subjects}
  BY <1>3, <1>4, <1>8, FiledEach
<1>11. /\ \A x \in FixedNames : x \notin N1
       /\ \A x \in M1 : x \notin N2
       /\ \A x \in M2 : x \notin N3
       /\ "skill" \notin M2
       /\ M1 = FixedNames \cup N1 /\ M2 = M1 \cup N2 /\ M3 = M2 \cup N3
  BY DEF FixedNames
<1> HIDE DEF N1, N2, N3, M1, M2, M3, t1, t2, t3
<1>12. Filed(u1, M1, S) /\ ToSet(u1) = ToSet(FixedFiles) \cup ToSet(t1)
  BY <1>10, <1>11, FiledFixed, FiledConcat
<1> HIDE DEF u1
<1>13. Filed(u2, M2, S) /\ ToSet(u2) = ToSet(u1) \cup ToSet(t2)
  BY <1>10, <1>11, <1>12, FiledConcat
<1> HIDE DEF u2
<1>14. Filed(u3, M3, S) /\ ToSet(u3) = ToSet(u2) \cup ToSet(t3)
  <2>1. Filed(u2, M2, S) /\ Filed(t3, N3, S) /\ \A x \in M2 : x \notin N3
    BY <1>10, <1>11, <1>13
  <2>2. M3 = M2 \cup N3
    BY <1>11
  <2>3. /\ Filed(u2 \o t3, M3, S)
        /\ ToSet(u2 \o t3) = ToSet(u2) \cup ToSet(t3)
    BY <2>1, <2>2, FiledConcat
  <2> QED
    BY <2>3
<1>15. outputs = u3
  BY <1>1 DEF u3, u2, u1, t1, t2, t3
<1> HIDE DEF u3
<1>16. IsSequence(outputs) /\ IsInjective(outputs)
  BY <1>14, <1>15 DEF Filed
<1>17. ASSUME NEW s \in S
       PROVE  /\ <<"packs", s, "pack.json">> \in ToSet(outputs)
              /\ CountOf(outputs, LAMBDA p : p[1] = "skill" /\ p[2] = s)
                     = 3 + Len(packages[s].findings)
  <2> DEFINE path == <<"packs", s, "pack.json">>
             V == ToSet(skill(s))
  <2>1. PICK k \in DOMAIN subjects : subjects[k] = s
    BY <1>3 DEF ToSet
  <2>2. path \in ToSet(packs[k])
    BY <1>5, <1>9, <2>1
  <2> HIDE DEF path
  <2>3. path \in ToSet(outputs)
    BY <1>10, <1>12, <1>13, <1>14, <1>15, <2>2
  <2>4. ToSet(skills[k]) = V
    BY <1>9, <2>1
  <2>5. \A p \in ToSet(t3) : p[2] = s => p \in V
    <3> TAKE p \in ToSet(t3)
    <3>1. PICK j \in DOMAIN subjects : p \in ToSet(skills[j])
      BY <1>10
    <3>2. p[2] = subjects[j]
      BY <1>8, <3>1 DEF FilesOf
    <3>3. p[2] = s => j = k
      BY <1>3, <2>1, <3>2 DEF IsInjective
    <3> QED
      BY <2>4, <3>1, <3>3
  <2>6. V \subseteq ToSet(outputs) /\ \A p \in V : p[1] = "skill" /\ p[2] = s
    BY <1>7, <1>10, <1>14, <1>15, <2>4
  <2>7. \A p \in ToSet(outputs) : p[1] = "skill" /\ p[2] = s => p \in V
    BY <1>11, <1>13, <1>14, <1>15, <2>5 DEF Filed
  <2> HIDE DEF V
  <2>8. {i \in DOMAIN outputs : outputs[i][1] = "skill" /\ outputs[i][2] = s}
            = {i \in DOMAIN outputs : outputs[i] \in V}
    BY <2>6, <2>7 DEF ToSet
  <2>9. Number(outputs, DOMAIN outputs, V) = Cardinality(V)
    BY <1>16, <2>6, NumberOfInjective
  <2>10. Cardinality(V) = 3 + Len(packages[s].findings)
    BY <1>7 DEF V
  <2>11. CountOf(outputs, LAMBDA p : p[1] = "skill" /\ p[2] = s) = Cardinality(V)
    BY <2>8, <2>9 DEF CountOf, Number
  <2> QED
    BY <2>3, <2>10, <2>11 DEF path
<1>18. Claim(found, used, limitations).subjects = S
  BY DEF Claim, S
<1>19. \A w \in ToSet(outputs) : IsSequence(w) /\ (2 \in DOMAIN w => w[2] \in S)
  BY <1>14, <1>15 DEF Filed
<1>20. ASSUME NEW u \in ToSet(outputs), NEW w \in ToSet(outputs), u # w, PathOf(u) = PathOf(w)
       PROVE  /\ 2 \in DOMAIN u /\ 2 \in DOMAIN w
              /\ u[2] # w[2] /\ SafeName(u[2]) = SafeName(w[2])
  <2>1. 2 \in DOMAIN u /\ u[2] # w[2]
    BY <1>19, <1>20, PathsTell
  <2>2. 2 \in DOMAIN w
    BY <1>20, <2>1 DEF PathOf
  <2>3. PathOf(u)[2] = SafeName(u[2]) /\ PathOf(w)[2] = SafeName(w[2])
    BY <2>1, <2>2 DEF PathOf
  <2> QED
    BY <1>20, <2>1, <2>2, <2>3
<1>21. OnlySharedIsLost(outputs)
  BY <1>16, <1>20 DEF OnlySharedIsLost, ToSet, IsInjective
<1>22. ASSUME NEW s \in S, \A t \in S : SafeName(t) = SafeName(s) => t = s,
              NEW w \in ToSet(outputs), 2 \in DOMAIN w, w[2] = s
       PROVE  Written(outputs)[PathOf(w)] = w
  <2>1. PICK k \in DOMAIN outputs : w = outputs[k]
    BY DEF ToSet
  <2>2. PICK j \in DOMAIN outputs : /\ Written(outputs)[PathOf(w)] = outputs[j]
                                    /\ PathOf(outputs[j]) = PathOf(w)
    BY <1>16, <2>1, WrittenTells
  <2>3. outputs[j] \in ToSet(outputs)
    BY DEF ToSet
  <2> QED
    BY <1>19, <1>20, <1>22, <2>2, <2>3
<1> QED
  BY <1>17, <1>18, <1>21, <1>22 DEF FilesAgree, outputs

\* What documents say of one another, whatever was found and listed.
LEMMA AllDocumented ==
    ASSUME NEW r, IsSequence(r.assertions), Listing(r.catalogs),
           \A a \in ToSet(r.assertions) : ExplainedBy(a, r.catalogs, r.accepted)
    PROVE  Documented(r, r.assertions, r.catalogs, Packages(r),
                      ReportHtml(r.assertions, r.catalogs, r.run))
<1> DEFINE found == r.assertions
           used == r.catalogs
           events == r.accepted
           S == Judged(found)
           E == [s \in S |-> {e \in ToSet(events) : e.subject = s}]
           packages == PackagesOf(found, used, E)
           html == ReportHtml(found, used, r.run)
<1>1. Packages(r) = packages
  BY DEF Packages
<1>2. DOMAIN packages = S
  BY DEF PackagesOf
<1>3. \A s \in S : E[s] = {e \in ToSet(events) : e.subject = s}
  OBVIOUS
<1> HIDE DEF packages, E, html, found, used, events, S
<1>4. /\ IsSequence(found) /\ Listing(used)
      /\ \A a \in ToSet(found) : ExplainedBy(a, used, events)
  BY DEF found, used, events
<1>5. /\ Len(html.rows) = Len(found) /\ ListsEach(html.rows, Findings(found, used))
  BY <1>4, RowsListAll DEF html
<1>6. Len(Pdf(found).lines) = Len(found)
  <2> DEFINE line(k) == <<found[k].control, found[k].subject, found[k].outcome>>
             lines == [k \in DOMAIN found |-> line(k)]
             n == Len(found)
             T == {line(k) : k \in DOMAIN found}
  <2>1. Pdf(found).lines = lines
    BY DEF Pdf
  <2>2. DOMAIN found = 1 .. n /\ n \in Nat
    BY <1>4, FinitelyManyIndices
  <2> HIDE DEF line, n
  <2>3. lines \in [1 .. n -> T]
    BY <2>2
  <2> HIDE DEF T, lines
  <2>4. Len(lines) = n
    <3>1. lines \in Seq(T)
      BY <2>2, <2>3, SeqDef
    <3> QED
      BY <2>2, <2>3, <3>1
  <2> QED
    BY <2>1, <2>4 DEF n
<1>7. ASSUME NEW s \in S
      PROVE  /\ ExplainsGaps(packages[s], used, {e \in ToSet(events) : e.subject = s})
             /\ RanksAlike(packages[s], Having(html.rows, "subject", {s}))
             /\ NotesAgree(Notes(packages[s], ToolNames({e \in ToSet(events) : e.subject = s})),
                           s, ToSet(events))
             /\ IsSequence(packages[s].findings)
  <2> DEFINE own == {e \in ToSet(events) : e.subject = s}
  <2>1. own = E[s] /\ s \in Judged(found)
    BY <1>3 DEF S
  <2>2. NotesAgree(Notes(packages[s], ToolNames(own)), s, ToSet(events))
    BY NotesTell
  <2>3. ExplainsGaps(packages[s], used, own)
    BY <1>4, <2>1, GapsExplained DEF packages
  <2>4. RanksAlike(packages[s], Having(html.rows, "subject", {s}))
    BY <1>4, <2>1, RankedAlike DEF packages, html
  <2>5. IsSequence(packages[s].findings)
    BY <1>4, <2>1, FindingsAreOf DEF packages
  <2> QED
    BY <2>2, <2>3, <2>4, <2>5
<1>8. FilesAgree(Outputs(found, packages, EmitFormats), Claim(found, used, r.limitations),
                 packages)
  BY <1>4, <1>7, FilesAllAgree DEF S
<1> QED
  BY <1>1, <1>2, <1>5, <1>6, <1>7, <1>8 DEF Documented, found, used, events, html

\* A report's documents bear one another out, for any catalogs (two may share
\* a control), bundle and set of asserted subjects (two may share a directory):
\* every assertion has its row in report.html and its line in the PDF, a
\* package names as missing only evidence its subject's events lack (of a
\* control on whose evidence the catalogs agree) and ranks by the severity the
\* row shows, a skill's notes name tools its subject called, and no file is
\* written over but another subject's of the same directory (the renderers of
\* report.py and write_report).
THEOREM DocumentsAgreeAlways == Spec => []DocumentsAgree
<1>1. ReportsInv /\ ExplainedInv => DocumentsAgree
  <2> SUFFICES ASSUME ReportsInv, ExplainedInv, NEW r \in out.report
               PROVE  Documented(r, r.assertions, r.catalogs, Packages(r),
                                 ReportHtml(r.assertions, r.catalogs, r.run))
    BY DEF DocumentsAgree
  <2>1. IsSequence(r.assertions)
    BY DEF ReportsInv, Ordered
  <2>2. Listing(r.catalogs) /\ \A a \in ToSet(r.assertions) : ExplainedBy(a, r.catalogs, r.accepted)
    BY DEF ExplainedInv
  <2> QED
    BY <2>1, <2>2, AllDocumented
<1> QED
  BY <1>1, ReportsInvariant, ExplainedInvariant, PTL

-----------------------------------------------------------------------------
(*                    Loops: what a recursive function is                  *)

\* What ingest holds before the first line.
NothingReadOf(lines) ==
    [accepted |-> <<>>, quarantined |-> <<>>, ids |-> {},
     last |-> [s \in {StreamOf(lines[k]) : k \in DOMAIN lines} |-> 0]]

\* The loop over the lines: what is held after line k follows from what was
\* held before it.  (A function so defined exists: were there a number of
\* lines for which none does, the least such number would be one more than
\* another for which one does.)
LEMMA ReadingLineByLine ==
    ASSUME NEW lines, Len(lines) \in Nat, NEW items
    PROVE  /\ Reading(lines, items)[0] = NothingReadOf(lines)
           /\ \A k \in 1 .. Len(lines) :
                 Reading(lines, items)[k] = Read(Reading(lines, items)[k - 1], lines[k], items)
<1> DEFINE first == NothingReadOf(lines)
           Step(x, k) == Read(x, lines[k], items)
           Solves(h, n) ==
               h = [k \in 0 .. n |-> IF k = 0 THEN first ELSE Step(h[k - 1], k)]
           Solved == {n \in Nat : \E h : Solves(h, n)}
<1>1. Reading(lines, items) = CHOOSE h : Solves(h, Len(lines))
  BY DEF Reading, NothingReadOf
<1> HIDE DEF first, Step
<1>2. \E h : Solves(h, 0)
  <2>1. Solves([k \in 0 .. 0 |-> first], 0)
    OBVIOUS
  <2> QED
    BY <2>1
<1>3. ASSUME NEW n \in Nat, NEW h, Solves(h, n)
      PROVE  \E g : Solves(g, n + 1)
  <2> DEFINE g == [k \in 0 .. n + 1 |-> IF k <= n THEN h[k] ELSE Step(h[n], n + 1)]
  <2>1. /\ DOMAIN g = 0 .. n + 1 /\ g = [k \in DOMAIN g |-> g[k]]
        /\ \A k \in 0 .. n : g[k] = h[k]
        /\ g[n + 1] = Step(h[n], n + 1)
    OBVIOUS
  <2>2. \A k \in 0 .. n : h[k] = IF k = 0 THEN first ELSE Step(h[k - 1], k)
    BY <1>3
  <2> HIDE DEF g
  <2>3. ASSUME NEW k \in 0 .. n + 1
        PROVE  g[k] = IF k = 0 THEN first ELSE Step(g[k - 1], k)
    <3>1. CASE k = n + 1
      BY <2>1, <3>1
    <3>2. CASE k \in 0 .. n
      BY <2>1, <2>2, <3>2
    <3> QED
      BY <3>1, <3>2
  <2>4. Solves(g, n + 1)
    BY <2>1, <2>3
  <2> QED
    BY <2>4
<1>4. Solved = Nat
  <2> HIDE DEF Solves
  <2>1. 0 \in Solved /\ \A n \in Solved : n + 1 \in Solved
    BY <1>2, <1>3
  <2> HIDE DEF Solved
  <2> QED
    BY <2>1, Induction DEF Solved
<1>5. \E h : Solves(h, Len(lines))
  BY <1>4
<1>6. Solves(Reading(lines, items), Len(lines))
  <2> HIDE DEF Solves
  <2> QED
    BY <1>1, <1>5
<1>7. \A k \in 0 .. Len(lines) :
          Reading(lines, items)[k] =
              IF k = 0 THEN first ELSE Step(Reading(lines, items)[k - 1], k)
  BY <1>6
<1>8. /\ Reading(lines, items)[0] = first
      /\ \A k \in 1 .. Len(lines) :
            Reading(lines, items)[k] = Step(Reading(lines, items)[k - 1], k)
  BY <1>7
<1> QED
  BY <1>8 DEF first, Step

\* What ingest accepts is a sequence of lines it read.
LEMMA AcceptedIsSequence ==
    ASSUME NEW lines, IsSequence(lines), NEW items
    PROVE  /\ IsSequence(Ingested(lines, items).accepted)
           /\ ToSet(Ingested(lines, items).accepted) \subseteq ToSet(lines)
<1> DEFINE h == Reading(lines, items)
           S == {n \in Nat : n <= Len(lines) =>
                    /\ "accepted" \in DOMAIN h[n]
                    /\ h[n].accepted \in Seq(ToSet(lines))}
<1>1. Len(lines) \in Nat /\ \A k \in 1 .. Len(lines) : lines[k] \in ToSet(lines)
  BY DEF IsSequence, ToSet
<1>2. /\ h[0] = NothingReadOf(lines)
      /\ \A k \in 1 .. Len(lines) : h[k] = Read(h[k - 1], lines[k], items)
  BY <1>1, ReadingLineByLine
<1>3. 0 \in S
  <2>1. "accepted" \in DOMAIN h[0] /\ h[0].accepted = <<>>
    BY <1>2 DEF NothingReadOf
  <2> HIDE DEF h
  <2>2. <<>> \in Seq(ToSet(lines))
    OBVIOUS
  <2>3. h[0].accepted \in Seq(ToSet(lines))
    BY <2>1, <2>2
  <2> QED
    BY <2>1, <2>3
<1>4. ASSUME NEW n \in S PROVE n + 1 \in S
  <2> SUFFICES ASSUME n + 1 <= Len(lines)
               PROVE  /\ "accepted" \in DOMAIN h[n + 1]
                      /\ h[n + 1].accepted \in Seq(ToSet(lines))
    OBVIOUS
  <2>1. n + 1 \in 1 .. Len(lines) /\ n <= Len(lines) /\ (n + 1) - 1 = n
    BY <1>1
  <2>2. h[n + 1] = Read(h[n], lines[n + 1], items)
    BY <1>2, <2>1
  <2>3. "accepted" \in DOMAIN h[n] /\ h[n].accepted \in Seq(ToSet(lines))
    BY <2>1
  <2> HIDE DEF h
  <2>4. lines[n + 1] \in ToSet(lines)
    BY <1>1, <2>1
  <2>5. Append(h[n].accepted, lines[n + 1]) \in Seq(ToSet(lines))
    BY <2>3, <2>4
  <2> QED
    BY <2>2, <2>3, <2>5 DEF Read
<1>5. S = Nat
  <2> HIDE DEF S
  <2>1. 0 \in S /\ \A n \in S : n + 1 \in S
    BY <1>3, <1>4
  <2>2. S \in SUBSET Nat
    BY DEF S
  <2> QED
    BY <2>1, <2>2, Induction
<1>6. h[Len(lines)].accepted \in Seq(ToSet(lines))
  BY <1>1, <1>5
<1>7. Ingested(lines, items) = h[Len(lines)]
  BY DEF Ingested
<1> HIDE DEF h
<1>8. Ingested(lines, items).accepted \in Seq(ToSet(lines))
  BY <1>6, <1>7
<1> QED
  BY <1>8, OfItsElements DEF ToSet

\* The loop of the sort, in the same way: an event is put into those before it.
LEMMA SortingOneByOne ==
    ASSUME NEW events, Len(events) \in Nat
    PROVE  /\ Sorting(events)[0] = <<>>
           /\ \A k \in 1 .. Len(events) :
                 Sorting(events)[k] = Insert(Sorting(events)[k - 1], events[k])
<1> DEFINE first == <<>>
           Step(x, k) == Insert(x, events[k])
           Solves(h, n) ==
               h = [k \in 0 .. n |-> IF k = 0 THEN first ELSE Step(h[k - 1], k)]
           Solved == {n \in Nat : \E h : Solves(h, n)}
<1>1. Sorting(events) = CHOOSE h : Solves(h, Len(events))
  BY DEF Sorting
<1> HIDE DEF first, Step
<1>2. \E h : Solves(h, 0)
  <2>1. Solves([k \in 0 .. 0 |-> first], 0)
    OBVIOUS
  <2> QED
    BY <2>1
<1>3. ASSUME NEW n \in Nat, NEW h, Solves(h, n)
      PROVE  \E g : Solves(g, n + 1)
  <2> DEFINE g == [k \in 0 .. n + 1 |-> IF k <= n THEN h[k] ELSE Step(h[n], n + 1)]
  <2>1. /\ DOMAIN g = 0 .. n + 1 /\ g = [k \in DOMAIN g |-> g[k]]
        /\ \A k \in 0 .. n : g[k] = h[k]
        /\ g[n + 1] = Step(h[n], n + 1)
    OBVIOUS
  <2>2. \A k \in 0 .. n : h[k] = IF k = 0 THEN first ELSE Step(h[k - 1], k)
    BY <1>3
  <2> HIDE DEF g
  <2>3. ASSUME NEW k \in 0 .. n + 1
        PROVE  g[k] = IF k = 0 THEN first ELSE Step(g[k - 1], k)
    <3>1. CASE k = n + 1
      BY <2>1, <3>1
    <3>2. CASE k \in 0 .. n
      BY <2>1, <2>2, <3>2
    <3> QED
      BY <3>1, <3>2
  <2>4. Solves(g, n + 1)
    BY <2>1, <2>3
  <2> QED
    BY <2>4
<1>4. Solved = Nat
  <2> HIDE DEF Solves
  <2>1. 0 \in Solved /\ \A n \in Solved : n + 1 \in Solved
    BY <1>2, <1>3
  <2> HIDE DEF Solved
  <2> QED
    BY <2>1, Induction DEF Solved
<1>5. \E h : Solves(h, Len(events))
  BY <1>4
<1>6. Solves(Sorting(events), Len(events))
  <2> HIDE DEF Solves
  <2> QED
    BY <1>1, <1>5
<1>7. \A k \in 0 .. Len(events) :
          Sorting(events)[k] =
              IF k = 0 THEN first ELSE Step(Sorting(events)[k - 1], k)
  BY <1>6
<1>8. /\ Sorting(events)[0] = first
      /\ \A k \in 1 .. Len(events) : Sorting(events)[k] = Step(Sorting(events)[k - 1], k)
  BY <1>7
<1> QED
  BY <1>8 DEF first, Step

\* ... and the loop over the entries of an export: the events so far, and then
\* those of one entry more.
NothingMapped == <<>>
MappedOn(x, adapter, told, e) == x \o MapEntry(adapter, told, e)

\* That loop is what its definition says, entry by entry.
LEMMA MappingEntryByEntry ==
    ASSUME NEW adapter, NEW told, NEW entries, Len(entries) \in Nat
    PROVE  /\ MappingOf(adapter, told, entries)[0] = NothingMapped
           /\ \A k \in 1 .. Len(entries) :
                 MappingOf(adapter, told, entries)[k] =
                     MappedOn(MappingOf(adapter, told, entries)[k - 1], adapter, told, entries[k])
<1> DEFINE first == NothingMapped
           Step(x, k) == MappedOn(x, adapter, told, entries[k])
           Solves(h, n) ==
               h = [k \in 0 .. n |-> IF k = 0 THEN first ELSE Step(h[k - 1], k)]
           Solved == {n \in Nat : \E h : Solves(h, n)}
<1>1. MappingOf(adapter, told, entries) = CHOOSE h : Solves(h, Len(entries))
  BY DEF MappingOf, NothingMapped, MappedOn
<1> HIDE DEF first, Step
<1>2. \E h : Solves(h, 0)
  <2>1. Solves([k \in 0 .. 0 |-> first], 0)
    OBVIOUS
  <2> QED
    BY <2>1
<1>3. ASSUME NEW n \in Nat, NEW h, Solves(h, n)
      PROVE  \E g : Solves(g, n + 1)
  <2> DEFINE g == [k \in 0 .. n + 1 |-> IF k <= n THEN h[k] ELSE Step(h[n], n + 1)]
  <2>1. /\ DOMAIN g = 0 .. n + 1 /\ g = [k \in DOMAIN g |-> g[k]]
        /\ \A k \in 0 .. n : g[k] = h[k]
        /\ g[n + 1] = Step(h[n], n + 1)
    OBVIOUS
  <2>2. \A k \in 0 .. n : h[k] = IF k = 0 THEN first ELSE Step(h[k - 1], k)
    BY <1>3
  <2> HIDE DEF g
  <2>3. ASSUME NEW k \in 0 .. n + 1
        PROVE  g[k] = IF k = 0 THEN first ELSE Step(g[k - 1], k)
    <3>1. CASE k = n + 1
      BY <2>1, <3>1
    <3>2. CASE k \in 0 .. n
      BY <2>1, <2>2, <3>2
    <3> QED
      BY <3>1, <3>2
  <2>4. Solves(g, n + 1)
    BY <2>1, <2>3
  <2> QED
    BY <2>4
<1>4. Solved = Nat
  <2> HIDE DEF Solves
  <2>1. 0 \in Solved /\ \A n \in Solved : n + 1 \in Solved
    BY <1>2, <1>3
  <2> HIDE DEF Solved
  <2> QED
    BY <2>1, Induction DEF Solved
<1>5. \E h : Solves(h, Len(entries))
  BY <1>4
<1>6. Solves(MappingOf(adapter, told, entries), Len(entries))
  <2> HIDE DEF Solves
  <2> QED
    BY <1>1, <1>5
<1>7. \A k \in 0 .. Len(entries) :
          MappingOf(adapter, told, entries)[k] =
              IF k = 0 THEN first ELSE Step(MappingOf(adapter, told, entries)[k - 1], k)
  BY <1>6
<1>8. /\ MappingOf(adapter, told, entries)[0] = first
      /\ \A k \in 1 .. Len(entries) :
            MappingOf(adapter, told, entries)[k]
                = Step(MappingOf(adapter, told, entries)[k - 1], k)
  BY <1>7
<1> QED
  BY <1>8 DEF first, Step

\* ... and the builder's, over the events.
LEMMA MappingEventByEvent ==
    ASSUME NEW events, Len(events) \in Nat
    PROVE  /\ Mapping(events)[0] =
                  [EmptyBuilder EXCEPT !.ids = {Node(events[k]) : k \in DOMAIN events}]
           /\ \A k \in 1 .. Len(events) :
                  Mapping(events)[k] = MapEvent(Mapping(events)[k - 1], events[k])
<1> DEFINE first == [EmptyBuilder EXCEPT !.ids = {Node(events[k]) : k \in DOMAIN events}]
           Step(x, k) == MapEvent(x, events[k])
           Solves(h, n) ==
               h = [k \in 0 .. n |-> IF k = 0 THEN first ELSE Step(h[k - 1], k)]
           Solved == {n \in Nat : \E h : Solves(h, n)}
<1>1. Mapping(events) = CHOOSE h : Solves(h, Len(events))
  BY DEF Mapping
<1> HIDE DEF first, Step
<1>2. \E h : Solves(h, 0)
  <2>1. Solves([k \in 0 .. 0 |-> first], 0)
    OBVIOUS
  <2> QED
    BY <2>1
<1>3. ASSUME NEW n \in Nat, NEW h, Solves(h, n)
      PROVE  \E g : Solves(g, n + 1)
  <2> DEFINE g == [k \in 0 .. n + 1 |-> IF k <= n THEN h[k] ELSE Step(h[n], n + 1)]
  <2>1. /\ DOMAIN g = 0 .. n + 1 /\ g = [k \in DOMAIN g |-> g[k]]
        /\ \A k \in 0 .. n : g[k] = h[k]
        /\ g[n + 1] = Step(h[n], n + 1)
    OBVIOUS
  <2>2. \A k \in 0 .. n : h[k] = IF k = 0 THEN first ELSE Step(h[k - 1], k)
    BY <1>3
  <2> HIDE DEF g
  <2>3. ASSUME NEW k \in 0 .. n + 1
        PROVE  g[k] = IF k = 0 THEN first ELSE Step(g[k - 1], k)
    <3>1. CASE k = n + 1
      BY <2>1, <3>1
    <3>2. CASE k \in 0 .. n
      BY <2>1, <2>2, <3>2
    <3> QED
      BY <3>1, <3>2
  <2>4. Solves(g, n + 1)
    BY <2>1, <2>3
  <2> QED
    BY <2>4
<1>4. Solved = Nat
  <2> HIDE DEF Solves
  <2>1. 0 \in Solved /\ \A n \in Solved : n + 1 \in Solved
    BY <1>2, <1>3
  <2> HIDE DEF Solved
  <2> QED
    BY <2>1, Induction DEF Solved
<1>5. \E h : Solves(h, Len(events))
  BY <1>4
<1>6. Solves(Mapping(events), Len(events))
  <2> HIDE DEF Solves
  <2> QED
    BY <1>1, <1>5
<1>7. \A k \in 0 .. Len(events) :
          Mapping(events)[k] =
              IF k = 0 THEN first ELSE Step(Mapping(events)[k - 1], k)
  BY <1>6
<1>8. /\ Mapping(events)[0] = first
      /\ \A k \in 1 .. Len(events) : Mapping(events)[k] = Step(Mapping(events)[k - 1], k)
  BY <1>7
<1> QED
  BY <1>8 DEF first, Step

-----------------------------------------------------------------------------
(*                     What an adapter makes of an export                  *)

\* An event is put into a sequence.
LEMMA InsertedIsSequence ==
    ASSUME NEW S, NEW sorted \in Seq(S), NEW e \in S
    PROVE  Insert(sorted, e) \in Seq(S)
<1> DEFINE K == {k \in DOMAIN sorted : ~Sorts(e, sorted[k])}
<1>1. DOMAIN sorted = 1 .. Len(sorted) /\ Len(sorted) \in Nat
  OBVIOUS
<1>2. Cardinality(K) \in Nat /\ Cardinality(K) <= Len(sorted)
  <2>1. K \subseteq 1 .. Len(sorted)
    BY <1>1
  <2>2. IsFiniteSet(1 .. Len(sorted)) /\ Cardinality(1 .. Len(sorted)) = Len(sorted)
    BY <1>1, FS_Interval
  <2> HIDE DEF K
  <2>3. IsFiniteSet(K) /\ Cardinality(K) <= Cardinality(1 .. Len(sorted))
    BY <2>1, <2>2, FS_Subset
  <2> QED
    BY <2>2, <2>3, FS_CardinalityType
<1> HIDE DEF K
<1> DEFINE n == Cardinality(K) + 1
           front == SubSeq(sorted, 1, n - 1)
           back == SubSeq(sorted, n, Len(sorted))
<1>3. Insert(sorted, e) = front \o <<e>> \o back
  BY DEF Insert, InsertAt, K
<1>4. n \in Int /\ n - 1 \in Int /\ 1 .. n - 1 \subseteq 1 .. Len(sorted)
      /\ n .. Len(sorted) \subseteq 1 .. Len(sorted)
  BY <1>1, <1>2
<1>5. \A i \in 1 .. Len(sorted) : sorted[i] \in S
  BY <1>1
<1> HIDE DEF n
<1>6. front \in Seq(S)
  BY <1>4, <1>5, SubSeqProperties
<1>7. back \in Seq(S)
  BY <1>1, <1>4, <1>5, SubSeqProperties
<1>8. <<e>> \in Seq(S)
  OBVIOUS
<1> HIDE DEF front, back
<1>9. front \o <<e>> \in Seq(S)
  BY <1>6, <1>8, ConcatProperties
<1>10. (front \o <<e>>) \o back \in Seq(S)
  BY <1>7, <1>9, ConcatProperties
<1> QED
  BY <1>3, <1>10

\* Sorting events loses none of them to what is no sequence.
LEMMA SortedIsSequence ==
    ASSUME NEW S, NEW events \in Seq(S)
    PROVE  SortEvents(events) \in Seq(S)
<1> DEFINE h == Sorting(events)
           T == {n \in Nat : n <= Len(events) => h[n] \in Seq(S)}
<1>1. Len(events) \in Nat /\ \A k \in 1 .. Len(events) : events[k] \in S
  OBVIOUS
<1>2. /\ h[0] = <<>>
      /\ \A k \in 1 .. Len(events) : h[k] = Insert(h[k - 1], events[k])
  BY <1>1, SortingOneByOne
<1> HIDE DEF h
<1>3. 0 \in T
  <2>1. <<>> \in Seq(S)
    OBVIOUS
  <2> QED
    BY <1>2, <2>1
<1>4. ASSUME NEW n \in T PROVE n + 1 \in T
  <2> SUFFICES ASSUME n + 1 <= Len(events) PROVE h[n + 1] \in Seq(S)
    OBVIOUS
  <2>1. /\ n + 1 \in 1 .. Len(events) /\ (n + 1) - 1 = n /\ h[n] \in Seq(S)
        /\ events[n + 1] \in S
    BY <1>1
  <2>2. h[n + 1] = Insert(h[n], events[n + 1])
    BY <1>2, <2>1
  <2> QED
    BY <2>1, <2>2, InsertedIsSequence
<1>5. T = Nat
  <2>1. T \in SUBSET Nat
    OBVIOUS
  <2> HIDE DEF T
  <2> QED
    BY <1>3, <1>4, <2>1, Induction
<1>6. h[Len(events)] \in Seq(S)
  BY <1>1, <1>5
<1> QED
  BY <1>6 DEF SortEvents, h

\* What any adapter makes of one entry.
LEMMA MappedIsSequence ==
    ASSUME NEW adapter \in AdapterNames, NEW told, NEW e
    PROVE  IsSequence(MapEntry(adapter, told, e))
<1>1. ASSUME NEW x PROVE IsSequence(<<x>>)
  <2>1. <<x>> \in Seq({x})
    OBVIOUS
  <2> QED
    BY <2>1, OfItsElements
<1>2. ASSUME NEW x, NEW y PROVE IsSequence(<<x, y>>)
  <2>1. <<x, y>> \in Seq({x, y})
    OBVIOUS
  <2> QED
    BY <2>1, OfItsElements
<1>3. IsSequence(<<>>)
  BY OfItsElements, EmptySeq
<1>4. IsSequence(MapSpan(told, e))
  BY <1>1, <1>2, <1>3 DEF MapSpan
<1>5. IsSequence(MapGatewayEntry(told, e))
  <2>1. ASSUME NEW p, NEW c, NEW d, NEW x, NEW y, NEW z,
               x = <<>> \/ x = <<p>>, y = <<>> \/ y = <<c>>, z = <<>> \/ z = <<d>>
        PROVE  IsSequence(x \o y \o z)
    <3>1. <<>> \in Seq({p, c, d}) /\ <<p>> \in Seq({p, c, d})
          /\ <<c>> \in Seq({p, c, d}) /\ <<d>> \in Seq({p, c, d})
      OBVIOUS
    <3>2. x \in Seq({p, c, d}) /\ y \in Seq({p, c, d}) /\ z \in Seq({p, c, d})
      BY <2>1, <3>1
    <3>3. x \o y \in Seq({p, c, d})
      BY <3>2, ConcatProperties
    <3>4. (x \o y) \o z \in Seq({p, c, d})
      BY <3>2, <3>3, ConcatProperties
    <3> QED
      BY <3>4, OfItsElements
  <2>2. PICK p, c, d : MapGatewayEntry(told, e) =
            IF ~Names(e, {"time", "id", "origin"}) THEN <<>>
            ELSE (IF Names(e, {"policy"}) THEN <<p>> ELSE <<>>)
                 \o (IF OneOf(e, "method", DOMAIN MethodTypes)
                        /\ ~(Names(e, {"policy"}) /\ OneOf(e.policy, "decision", {"deny"}))
                     THEN <<c>> ELSE <<>>)
                 \o (IF Names(e, {"delegation"}) THEN <<d>> ELSE <<>>)
    BY Zenon DEF MapGatewayEntry
  <2> QED
    BY <1>3, <2>1, <2>2
<1>6. /\ IsSequence(MapCheck(told, e))
      /\ IsSequence(MapOversight(told, e))
      /\ IsSequence(MapIdentity(told, e))
      /\ IsSequence(MapSupplyChain(told, e))
  BY <1>1, <1>3 DEF MapCheck, MapOversight, MapIdentity, MapSupplyChain
<1>7. adapter \in {"mcp-gateway", "policy-engines", "oversight", "supply-chain",
                   "identity", "otel-genai"}
  BY DEF AdapterNames, LinesAdapters
<1> QED
  BY <1>3, <1>4, <1>5, <1>6, <1>7 DEF MapEntry

\* The events of all its entries, in their order.
LEMMA EntriesAreSequence ==
    ASSUME NEW adapter \in AdapterNames, NEW told, NEW entries, IsSequence(entries)
    PROVE  IsSequence(MapEntries(adapter, told, entries))
<1> DEFINE h == MappingOf(adapter, told, entries)
           S == UNION {ToSet(MapEntry(adapter, told, entries[k])) : k \in 1 .. Len(entries)}
           T == {n \in Nat : n <= Len(entries) => h[n] \in Seq(S)}
<1>1. Len(entries) \in Nat
  BY DEF IsSequence
<1>2. /\ h[0] = NothingMapped
      /\ \A k \in 1 .. Len(entries) : h[k] = MappedOn(h[k - 1], adapter, told, entries[k])
  BY <1>1, MappingEntryByEntry
<1> HIDE DEF h
<1>3. \A k \in 1 .. Len(entries) : MapEntry(adapter, told, entries[k]) \in Seq(S)
  <2> SUFFICES ASSUME NEW k \in 1 .. Len(entries)
               PROVE  MapEntry(adapter, told, entries[k]) \in Seq(S)
    OBVIOUS
  <2>1. ToSet(MapEntry(adapter, told, entries[k])) \subseteq S
    OBVIOUS
  <2>2. MapEntry(adapter, told, entries[k])
            \in Seq(ToSet(MapEntry(adapter, told, entries[k])))
    BY MappedIsSequence DEF IsSequence
  <2> HIDE DEF S
  <2> QED
    BY <2>1, <2>2, SeqMonotonic
<1> HIDE DEF S
<1>4. 0 \in T
  BY <1>2, EmptySeq DEF NothingMapped
<1>5. ASSUME NEW n \in T PROVE n + 1 \in T
  <2> SUFFICES ASSUME n + 1 <= Len(entries) PROVE h[n + 1] \in Seq(S)
    OBVIOUS
  <2>1. n + 1 \in 1 .. Len(entries) /\ (n + 1) - 1 = n /\ h[n] \in Seq(S)
    BY <1>1
  <2>2. h[n + 1] = MappedOn(h[n], adapter, told, entries[n + 1])
    BY <1>2, <2>1
  <2> QED
    BY <1>3, <2>1, <2>2, ConcatProperties DEF MappedOn
<1>6. T = Nat
  <2>1. T \in SUBSET Nat
    OBVIOUS
  <2> HIDE DEF T
  <2> QED
    BY <1>4, <1>5, <2>1, Induction
<1>7. h[Len(entries)] \in Seq(S)
  BY <1>1, <1>6
<1> QED
  BY <1>7, OfItsElements DEF MapEntries, h

\* What one ingest of the scenario adapts.
LEMMA IngestedEventsAreSequence ==
    ASSUME NEW c \in Commands, c.kind = "ingest"
    PROVE  IsSequence(IngestEvents(c))
<1>1. IsSequence(<<>>)
  BY OfItsElements, EmptySeq
<1>2. CASE c.export # NoFile /\ AdaptTrouble(c.adapter, c.told, c.export) = "none"
  <2>1. c.adapter \in AdapterNames /\ IsSequence(c.export.entries)
    BY <1>2, ScenariosAssumption DEF AdaptTrouble, WellFormed
  <2>2. IsSequence(MapEntries(c.adapter, c.told, c.export.entries))
    BY <2>1, EntriesAreSequence
  <2>3. IsSequence(SortEvents(MapEntries(c.adapter, c.told, c.export.entries)))
    BY <2>2, SortedIsSequence, OfItsElements DEF IsSequence
  <2> QED
    BY <1>1, <2>3 DEF IngestEvents, Adapt
<1> QED
  BY <1>1, <1>2 DEF IngestEvents

-----------------------------------------------------------------------------
(*                   What a described bundle is said to be                 *)

\* The scenario's commands, and the directory it began with.
Begun ==
    /\ todo \in Seq(Commands)
    /\ cmd \in Commands \cup {NoCommand}
    /\ ran \subseteq Commands
    /\ \E s \in Scenarios : start = s.start

\* The graph and the coverage on disk are those of what was accepted.
ToldOfAccepted ==
    Described =>
        /\ out.graph = BuildGraph(accepted, cmd.domain)
        /\ out.coverage = [k \in DOMAIN cmd.subjects |->
                               CoverageOf(cmd.subjects[k], accepted)]

\* What a run says of the bundle it read, and of which events.
DescribedInv ==
    /\ {"graph", "coverage", "quarantine", "applicability"} \subseteq DOMAIN out
    /\ Begun
    /\ IsSequence(accepted)
    /\ ToldOfAccepted

LEMMA DescribedInit == Init => DescribedInv
<1> SUFFICES ASSUME Init PROVE DescribedInv
  OBVIOUS
<1>1. Begun
  BY ScenariosAssumption DEF Init, Begun
<1>2. IsSequence(accepted)
  BY OfItsElements, EmptySeq DEF Init
<1>3. ToldOfAccepted
  BY DEF Init, ToldOfAccepted, Described, Running
<1> QED
  BY <1>1, <1>2, <1>3 DEF Init, DescribedInv

\* The next command starts with nothing accepted, or leaves it alone.
LEMMA DescribedStart == ASSUME DescribedInv, StartNext PROVE DescribedInv'
<1>1. PICK c \in {Head(todo)} : \/ c.kind = "ingest" /\ BeginIngest(c) /\ UNCHANGED assessVars
                                \/ c.kind = "collect" /\ BeginCollect(c) /\ UNCHANGED assessVars
                                \/ c.kind = "assess" /\ BeginAssess(c)
  BY DEF StartNext
<1>2. Begun'
  <2>1. todo \in Seq(Commands) /\ todo # <<>> /\ todo' = Tail(todo)
        /\ ran' = ran \cup {Head(todo)} /\ start' = start
    BY DEF DescribedInv, Begun, StartNext
  <2>2. Head(todo) \in Commands /\ todo' \in Seq(Commands)
    BY <2>1
  <2>3. cmd' = Head(todo)
    BY <1>1 DEF BeginIngest, BeginCollect, BeginAssess
  <2> QED
    BY <2>1, <2>2, <2>3 DEF DescribedInv, Begun
<1>3. out' = out /\ phase' \in {"ingest", "plan", "pull", "assess"}
  BY <1>1 DEF BeginIngest, BeginCollect, BeginAssess, assessVars
<1>4. IsSequence(accepted)'
  <2>1. accepted' = accepted \/ accepted' = <<>>
    BY <1>1 DEF BeginAssess, assessVars
  <2>2. IsSequence(<<>>)
    BY OfItsElements, EmptySeq
  <2> QED
    BY <2>1, <2>2 DEF DescribedInv
<1>5. ToldOfAccepted'
  BY <1>3 DEF ToldOfAccepted, Described, Running
<1> QED
  BY <1>2, <1>3, <1>4, <1>5 DEF DescribedInv

-----------------------------------------------------------------------------
(*                         Coverage of a subject                           *)

\* What a denominator counts, or is told to have been counted.
CountsWell(d) == d.counts = NoCounts \/ d.counts \in [DOMAIN d.counts -> Int]

\* Of either, a count is an integer.
LEMMA DenominatorCounts ==
    ASSUME NEW events, IsSequence(events), NEW d, CountsWell(d),
           NEW t \in DOMAIN Counts(d, events)
    PROVE  Counts(d, events)[t] \in Int
<1>1. CASE d.counts # NoCounts
  BY <1>1 DEF Counts, CountsWell
<1>2. CASE d.counts = NoCounts
  <2> DEFINE K == {k \in DOMAIN events : events[k].source = d.source /\ events[k].type = t}
  <2>1. Counts(d, events)[t] = Cardinality(K)
    BY <1>2 DEF Counts, CountOf
  <2>2. Cardinality(K) \in Nat
    <3>1. K \subseteq DOMAIN events
      OBVIOUS
    <3> HIDE DEF K
    <3> QED
      BY <3>1, FinitelyManyIndices
  <2> QED
    BY <2>1, <2>2
<1> QED
  BY <1>1, <1>2

\* What is expected of a type is the largest count of the denominators that
\* vouch for it.
LEMMA ExpectedIsLargest ==
    ASSUME NEW events, IsSequence(events), NEW s, IsSequence(s.denominators),
           \A d \in ToSet(s.denominators) : CountsWell(d),
           NEW t \in CoveredByAny(s, events)
    PROVE  /\ Expected(s, events)[t] \in Int
           /\ \/ Expected(s, events)[t] = -1
              \/ \E d \in ToSet(s.denominators) :
                    t \in Covered(d, events) /\ Counts(d, events)[t] = Expected(s, events)[t]
           /\ \A d \in ToSet(s.denominators) : t \in Covered(d, events) =>
                 Counts(d, events)[t] <= Expected(s, events)[t]
<1> DEFINE D == {d \in ToSet(s.denominators) : t \in Covered(d, events)}
           S == {Counts(d, events)[t] : d \in D}
           K == {k \in DOMAIN s.denominators : t \in Covered(s.denominators[k], events)}
           f == [k \in K |-> Counts(s.denominators[k], events)[t]]
           all == {-1} \cup S
<1>1. \A d \in D : Counts(d, events)[t] \in Int
  BY DenominatorCounts DEF Covered
<1>2. all \subseteq Int /\ all # {}
  BY <1>1
<1>3. IsFiniteSet(S)
  <2>1. IsFiniteSet(K)
    <3>1. K \subseteq DOMAIN s.denominators
      OBVIOUS
    <3> HIDE DEF K
    <3> QED
      BY <3>1, FinitelyManyIndices
  <2>2. D = {s.denominators[k] : k \in K}
    BY DEF ToSet
  <2>3. S = {f[k] : k \in K}
    BY <2>2
  <2> HIDE DEF S, K, f
  <2>4. f \in [K -> S]
    BY <2>3 DEF f
  <2>5. f \in Surjection(K, S)
    BY <2>3, <2>4 DEF Surjection
  <2> QED
    BY <2>1, <2>5, FS_Surjection
<1>4. IsFiniteSet(all)
  <2> HIDE DEF S
  <2>1. all = S \cup {-1}
    OBVIOUS
  <2> QED
    BY <1>3, <2>1, FS_AddElement
<1>5. Expected(s, events)[t] = Max(all)
  BY DEF Expected
<1>6. Max(all) \in all /\ \A j \in all : j <= Max(all)
  <2> HIDE DEF all
  <2>1. PICK m \in all : \A j \in all : j <= m
    BY <1>2, <1>4, LargestExists
  <2>2. \A x, y \in all : x >= y <=> y <= x
    BY <1>2
  <2> QED
    BY <2>1, <2>2 DEF Max
<1>7. /\ \A d \in D : Counts(d, events)[t] \in all
      /\ \A x \in all : x = -1 \/ \E d \in D : Counts(d, events)[t] = x
  OBVIOUS
<1> HIDE DEF all
<1> QED
  BY <1>2, <1>5, <1>6, <1>7

\* Some type was not captured as often as expected.
BelowThreshold(types) == \E t \in DOMAIN types : types[t].status = "below_threshold"

\* A gap in one denominator's eyes is a gap, and what nobody vouches for is
\* unknown; but for that, any type below its threshold is a gap.
LEMMA CoverageTells ==
    ASSUME IsSequence(accepted), NEW s, IsSequence(s.denominators),
           \A d \in ToSet(s.denominators) : CountsWell(d)
    PROVE  LET status == CoverageOf(s, accepted).status
           IN  /\ status = "unknown" <=> s.denominators = <<>> \/ Unvouched(s)
               /\ status = "gap" <=> status # "unknown" /\ ShortOf(s)
               /\ ShortOf(s) <=> BelowThreshold(CoverageOf(s, accepted).types)
<1> DEFINE exp == Expected(s, accepted)
           seen(t) == Cardinality({k \in DOMAIN accepted :
                                      Captured(accepted[k], s) /\ accepted[k].type = t})
           captured == {accepted[k].type : k \in {j \in DOMAIN accepted : Captured(accepted[j], s)}}
           all == captured \cup DOMAIN exp
           st(t) == StatusOf(seen(t), IF t \in DOMAIN exp THEN exp[t] ELSE NoExpectation)
           sts == {st(t) : t \in all}
           status == CoverageOf(s, accepted).status
<1>1. /\ status = Rollup(s, sts)
      /\ BelowThreshold(CoverageOf(s, accepted).types) <=> "below_threshold" \in sts
  <2> DEFINE byType == [t \in all |->
                 TypeCoverage(seen(t), IF t \in DOMAIN exp THEN exp[t] ELSE NoExpectation)]
  <2>1. CoverageOf(s, accepted) = SubjectCoverage(s, byType)
    BY DEF CoverageOf, CountOf, TypesOf
  <2>2. \A t \in all : byType[t].status = st(t)
    BY DEF TypeCoverage
  <2>3. DOMAIN byType = all
    OBVIOUS
  <2> HIDE DEF byType, st, all
  <2>4. {byType[t].status : t \in DOMAIN byType} = sts
    BY <2>2, <2>3
  <2>5. BelowThreshold(byType) <=> "below_threshold" \in sts
    BY <2>2, <2>3 DEF BelowThreshold
  <2> HIDE DEF sts
  <2> QED
    BY <2>1, <2>4, <2>5 DEF SubjectCoverage
<1>2. \A t : seen(t) \in Nat
  <2> SUFFICES ASSUME NEW t PROVE seen(t) \in Nat
    OBVIOUS
  <2> DEFINE K == {k \in DOMAIN accepted : Captured(accepted[k], s) /\ accepted[k].type = t}
  <2>1. K \subseteq DOMAIN accepted
    OBVIOUS
  <2> HIDE DEF K
  <2>2. Cardinality(K) \in Nat
    BY <2>1, FinitelyManyIndices
  <2> QED
    BY <2>2 DEF K
<1>3. DOMAIN exp = CoveredByAny(s, accepted)
  BY DEF Expected
<1>4. \A t \in DOMAIN exp :
          /\ exp[t] \in Int
          /\ \/ exp[t] = -1
             \/ \E d \in ToSet(s.denominators) :
                   t \in Covered(d, accepted) /\ Counts(d, accepted)[t] = exp[t]
          /\ \A d \in ToSet(s.denominators) : t \in Covered(d, accepted) =>
                 Counts(d, accepted)[t] <= exp[t]
  BY <1>3, ExpectedIsLargest
<1>5. \A d, t : t \in Covered(d, accepted) <=> Vouches(d, accepted, t)
  BY DEF Covered, Vouches
<1> HIDE DEF exp, seen
<1>6. \A t \in all : st(t) = "unknown" <=> t \notin DOMAIN exp
  BY <1>4, CoverageAssumption DEF StatusOf
<1>7. "unknown" \in sts <=> Unvouched(s)
  <2>1. "unknown" \in sts <=> \E t \in captured : t \notin DOMAIN exp
    BY <1>6
  <2>2. \A t : t \notin DOMAIN exp <=>
            \A d \in ToSet(s.denominators) : ~Vouches(d, accepted, t)
    BY <1>3, <1>5 DEF CoveredByAny
  <2>3. (\E t \in captured : t \notin DOMAIN exp)
            <=> \E e \in ToSet(accepted) : Captured(e, s) /\ e.type \notin DOMAIN exp
    BY DEF ToSet
  <2> HIDE DEF sts, captured
  <2> QED
    BY <2>1, <2>2, <2>3 DEF Unvouched
<1>8. "below_threshold" \in sts <=> ShortOf(s)
  <2>1. \A t \in all : st(t) = "below_threshold" <=> t \in DOMAIN exp /\ seen(t) < exp[t]
    BY <1>2, <1>4, <1>6 DEF StatusOf
  <2>2. "below_threshold" \in sts <=> \E t \in DOMAIN exp : seen(t) < exp[t]
    BY <2>1
  <2>3. ShortOf(s) <=> \E d \in ToSet(s.denominators) : \E t \in Covered(d, accepted) :
                          seen(t) < Counts(d, accepted)[t]
    BY <1>5 DEF ShortOf, seen, CountOf, Vouches
  <2>4. \A d \in ToSet(s.denominators) : \A t \in Covered(d, accepted) :
            t \in DOMAIN exp /\ Counts(d, accepted)[t] \in Int
    <3>1. \A d \in ToSet(s.denominators) : \A t \in Covered(d, accepted) :
              Counts(d, accepted)[t] \in Int
      BY DenominatorCounts DEF Covered
    <3> QED
      BY <1>3, <3>1 DEF CoveredByAny
  <2>5. ASSUME NEW t \in DOMAIN exp, seen(t) < exp[t] PROVE ShortOf(s)
    <3>1. seen(t) \in Nat /\ exp[t] # -1
      BY <1>2, <2>5
    <3> QED
      BY <1>4, <2>3, <2>5, <3>1
  <2>6. ASSUME ShortOf(s) PROVE \E t \in DOMAIN exp : seen(t) < exp[t]
    <3>1. PICK d \in ToSet(s.denominators) : \E t \in Covered(d, accepted) :
                   seen(t) < Counts(d, accepted)[t]
      BY <2>3, <2>6
    <3>2. PICK t \in Covered(d, accepted) : seen(t) < Counts(d, accepted)[t]
      BY <3>1
    <3>3. t \in DOMAIN exp /\ Counts(d, accepted)[t] <= exp[t] /\ exp[t] \in Int
              /\ Counts(d, accepted)[t] \in Int /\ seen(t) \in Nat
      BY <1>2, <1>4, <2>4, <3>2
    <3>4. seen(t) < exp[t]
      BY <3>2, <3>3
    <3> QED
      BY <3>3, <3>4
  <2> HIDE DEF sts
  <2> QED
    BY <2>2, <2>5, <2>6
<1> HIDE DEF sts, status
<1>9. s.denominators = <<>> => ~ShortOf(s)
  BY DEF ShortOf, ToSet
<1> QED
  BY <1>1, <1>7, <1>8, <1>9 DEF Rollup, status

-----------------------------------------------------------------------------
(*                 What is said of a bundle that was read                  *)

\* What a run reads of a directory that loads: the lines of its stream.
LEMMA LoadedLinesAreSequence ==
    ASSUME DirInv, DescribedInv, LoadTrouble(dir) = "none"
    PROVE  IsSequence(Lines(dir))
<1>1. IsSequence(<<>>)
  BY OfItsElements, EmptySeq
<1>2. CASE dir.manifest = start.manifest /\ Lines(dir) = Lines(start)
  <2>1. PICK s \in Scenarios : start = s.start
    BY DEF DescribedInv, Begun
  <2>2. start.manifest # NoFile
    BY <1>2, LoadsAsListed
  <2>3. IsSequence(start.stream)
    BY <2>1, <2>2, ScenariosAssumption
  <2> QED
    BY <1>1, <1>2, <2>3 DEF Lines
<1>3. ASSUME NEW c \in ran, c.kind = "ingest", Lines(dir) = IngestEvents(c)
      PROVE  IsSequence(Lines(dir))
  <2>1. c \in Commands
    BY DEF DescribedInv, Begun
  <2> QED
    BY <1>3, <2>1, IngestedEventsAreSequence
<1> QED
  BY <1>2, <1>3, DirImplies DEF LoadsWhatOneCommandWrote

\* Whatever a run reads, it describes what it accepted.
LEMMA DescribedAssess ==
    ASSUME DirInv, DescribedInv, AssessStep, UNCHANGED <<start, todo, ran>>
    PROVE  DescribedInv'
<1>1. Begun' /\ cmd' = cmd
  BY AssessOnlyReads DEF DescribedInv, Begun
<1>2. CASE \/ RefuseGate \/ ResolveCatalogs \/ RefuseCatalogs \/ RefuseBundle
           \/ RefuseReport \/ Conclude
  <2>1. accepted' = accepted /\ out' = out /\ phase' \in {"idle", "resolved"}
    BY <1>2 DEF RefuseGate, ResolveCatalogs, RefuseCatalogs, RefuseBundle, RefuseReport,
                Conclude, End, assessVars
  <2> QED
    BY <1>1, <2>1 DEF DescribedInv, ToldOfAccepted, Described, Running
<1>3. CASE IngestBundle
  <2>1. /\ LoadTrouble(dir) = "none" /\ phase' = "ingested"
        /\ accepted' = Ingested(Lines(dir), dir.manifest.sources).accepted
        /\ \E q : out' = [out EXCEPT !.quarantine = q]
    BY <1>3 DEF IngestBundle
  <2>2. IsSequence(accepted')
    BY <2>1, LoadedLinesAreSequence, AcceptedIsSequence
  <2> QED
    BY <1>1, <2>1, <2>2 DEF DescribedInv, ToldOfAccepted, Described, Running, IsSequence
<1>4. CASE Describe
  <2> DEFINE g == BuildGraph(accepted, cmd.domain)
             c == [k \in DOMAIN cmd.subjects |-> CoverageOf(cmd.subjects[k], accepted)]
             a == Statements(cmd.subjects, accepted)
  <2>1. accepted' = accepted
        /\ out' = [out EXCEPT !.graph = g, !.coverage = c, !.applicability = a]
    BY <1>4 DEF Describe
  <2> HIDE DEF g, c, a
  <2>2. out'.graph = g /\ out'.coverage = c /\ DOMAIN out' = DOMAIN out
    BY <2>1 DEF DescribedInv
  <2> QED
    BY <1>1, <2>1, <2>2 DEF DescribedInv, ToldOfAccepted, IsSequence, g, c
<1>5. CASE JudgeSubject
  <2>1. UNCHANGED <<accepted, out, phase>>
    BY <1>5 DEF JudgeSubject
  <2> QED
    BY <1>1, <2>1 DEF DescribedInv, ToldOfAccepted, Described, Running, IsSequence
<1>6. CASE WriteReport
  <2>1. accepted' = accepted /\ phase' = "reported" /\ \E r : out' = [out EXCEPT !.report = r]
    BY <1>6 DEF WriteReport
  <2> QED
    BY <1>1, <2>1 DEF DescribedInv, ToldOfAccepted, Described, Running, IsSequence
<1> QED
  BY <1>2, <1>3, <1>4, <1>5, <1>6 DEF AssessStep

LEMMA DescribedStep == DirInv /\ DescribedInv /\ [Next]_vars => DescribedInv'
<1> SUFFICES ASSUME DirInv, DescribedInv, [Next]_vars PROVE DescribedInv'
  OBVIOUS
<1>1. CASE StartNext
  BY <1>1, DescribedStart
<1>2. CASE CollectStep /\ UNCHANGED <<assessVars, start, todo, ran>>
  <2>1. cmd' = cmd /\ (phase' = "judging" => phase = "judging")
    BY <1>2 DEF CollectStep, AdaptOne, RefuseExport, WriteIngestManifest, RefuseCollect,
         WritePlan, WritePlanManifest, PullSource, FinishPull, WriteStream,
         WriteCollectReport, WriteCollectManifest, Die, End
  <2>2. UNCHANGED <<accepted, out, start, todo, ran>>
    BY <1>2 DEF assessVars
  <2> QED
    BY <2>1, <2>2 DEF DescribedInv, Begun, ToldOfAccepted, Described, Running, IsSequence
<1>3. CASE AssessStep /\ UNCHANGED <<collectVars, start, todo, ran>>
  BY <1>3, DescribedAssess
<1>4. CASE UNCHANGED vars
  BY <1>4 DEF vars, assessVars, DescribedInv, Begun, ToldOfAccepted, Described, Running,
              IsSequence
<1> QED
  BY <1>1, <1>2, <1>3, <1>4 DEF Next

LEMMA DescribedInvariant == Spec => []DescribedInv
<1>1. Spec => []DirInv
  BY DirInit, DirStep, PTL DEF Spec
<1> QED
  BY <1>1, DescribedInit, DescribedStep, PTL DEF Spec

\* Whatever the events and the denominators are: coverage.json says "unknown"
\* exactly of a subject with no denominator or with a captured type none
\* vouches for, and "gap" exactly when some denominator counted more than was
\* captured (coverage.compute_coverage, _rollup).
THEOREM CoverageNeverFlattersAlways == Spec => []CoverageNeverFlatters
<1>1. DescribedInv => CoverageNeverFlatters
  <2> SUFFICES ASSUME DescribedInv, Described, NEW k \in DOMAIN cmd.subjects
               PROVE  LET s == cmd.subjects[k]
                          status == out.coverage[k].status
                      IN  /\ status = "unknown" <=> s.denominators = <<>> \/ Unvouched(s)
                          /\ status = "gap" <=> status # "unknown" /\ ShortOf(s)
    BY DEF CoverageNeverFlatters
  <2> DEFINE s == cmd.subjects[k]
  <2>1. out.coverage[k] = CoverageOf(s, accepted) /\ IsSequence(accepted)
    BY DEF DescribedInv, ToldOfAccepted
  <2>2. cmd \in Commands /\ cmd.kind = "assess"
    BY DEF DescribedInv, Begun, Described, Running, NoCommand
  <2>3. /\ IsSequence(s.denominators)
        /\ \A d \in ToSet(s.denominators) : CountsWell(d)
    BY <2>2, ScenariosAssumption DEF CountsWell
  <2> HIDE DEF s
  <2>4. LET status == CoverageOf(s, accepted).status
        IN  /\ status = "unknown" <=> s.denominators = <<>> \/ Unvouched(s)
            /\ status = "gap" <=> status # "unknown" /\ ShortOf(s)
    BY <2>1, <2>3, CoverageTells
  <2> QED
    BY <2>1, <2>4 DEF s
<1> QED
  BY <1>1, DescribedInvariant, PTL

-----------------------------------------------------------------------------
(*                     What the builder has seen so far                    *)

\* What the second pass remembers of a decision of a type.
IsTyped(e) == e.type = "Decision" /\ Has(e, "decision_type")
Typed(e) == [node |-> Node(e), dtype |-> e.data.decision_type, time |-> e.time]

\* The builder after the events E, in whatever order they came.
BuilderOf(E, ids) ==
    [triples |-> UNION {EventTriples(e) : e \in E},
     ids |-> ids,
     typed |-> {Typed(e) : e \in {f \in E : IsTyped(f)}},
     reviewed |-> {Refs(e).decision : e \in {f \in E :
                      f.type = "ApprovalDecided" /\ "decision" \in DOMAIN Refs(f)}},
     untrusted |-> {Node(e) : e \in {f \in E : Untrusted(f)}}]

\* One event more, of a builder given by its parts.
LEMMA MapsOnto ==
    ASSUME NEW t, NEW ids, NEW y, NEW r, NEW u, NEW e
    PROVE  MapEvent([triples |-> t, ids |-> ids, typed |-> y, reviewed |-> r, untrusted |-> u], e)
               = [triples |-> t \cup EventTriples(e),
                  ids |-> ids,
                  typed |-> IF IsTyped(e) THEN y \cup {Typed(e)} ELSE y,
                  reviewed |-> IF e.type = "ApprovalDecided" /\ "decision" \in DOMAIN Refs(e)
                               THEN r \cup {Refs(e).decision} ELSE r,
                  untrusted |-> IF Untrusted(e) THEN u \cup {Node(e)} ELSE u]
<1> DEFINE b == [triples |-> t, ids |-> ids, typed |-> y, reviewed |-> r, untrusted |-> u]
           y1 == IF IsTyped(e) THEN y \cup {Typed(e)} ELSE y
           r1 == IF e.type = "ApprovalDecided" /\ "decision" \in DOMAIN Refs(e)
                 THEN r \cup {Refs(e).decision} ELSE r
           u1 == IF Untrusted(e) THEN u \cup {Node(e)} ELSE u
           t1 == t \cup EventTriples(e)
<1>1. /\ b.triples = t /\ b.ids = ids /\ b.typed = y /\ b.reviewed = r /\ b.untrusted = u
      /\ DOMAIN b = {"triples", "ids", "typed", "reviewed", "untrusted"}
  OBVIOUS
<1> HIDE DEF b
<1>2. ASSUME NEW x1, NEW x2, NEW x3, NEW x4
      PROVE  [b EXCEPT !.triples = x1, !.typed = x2, !.reviewed = x3, !.untrusted = x4]
              = [triples |-> x1, ids |-> ids, typed |-> x2, reviewed |-> x3, untrusted |-> x4]
  <2> DEFINE m == [b EXCEPT !.triples = x1, !.typed = x2, !.reviewed = x3, !.untrusted = x4]
  <2>1. /\ m = [f \in DOMAIN b |-> m[f]]
        /\ m.triples = x1 /\ m.typed = x2 /\ m.reviewed = x3 /\ m.untrusted = x4
        /\ m.ids = ids
    BY <1>1
  <2> HIDE DEF m
  <2>2. m = [triples |-> m.triples, ids |-> m.ids, typed |-> m.typed,
             reviewed |-> m.reviewed, untrusted |-> m.untrusted]
    BY <1>1, <2>1
  <2>3. m = [triples |-> x1, ids |-> ids, typed |-> x2, reviewed |-> x3, untrusted |-> x4]
    BY <2>1, <2>2
  <2> QED
    BY <2>3 DEF m
<1>3. MapEvent(b, e) = [b EXCEPT !.triples = t1, !.typed = y1, !.reviewed = r1, !.untrusted = u1]
  BY <1>1 DEF MapEvent, IsTyped, Typed
<1> HIDE DEF y1, r1, u1, t1
<1>4. MapEvent(b, e) = [triples |-> t1, ids |-> ids, typed |-> y1, reviewed |-> r1,
                        untrusted |-> u1]
  BY <1>2, <1>3
<1> QED
  BY <1>4 DEF b, y1, r1, u1, t1

\* The builder after one event more is the builder of one event more.
LEMMA MapsOneMore ==
    ASSUME NEW E, NEW ids, NEW e
    PROVE  MapEvent(BuilderOf(E, ids), e) = BuilderOf(E \cup {e}, ids)
<1> DEFINE t(D) == UNION {EventTriples(d) : d \in D}
           y(D) == {Typed(d) : d \in {f \in D : IsTyped(f)}}
           r(D) == {Refs(d).decision : d \in {f \in D :
                       f.type = "ApprovalDecided" /\ "decision" \in DOMAIN Refs(f)}}
           u(D) == {Node(d) : d \in {f \in D : Untrusted(f)}}
           more == E \cup {e}
<1>1. \A D : BuilderOf(D, ids) = [triples |-> t(D), ids |-> ids, typed |-> y(D),
                                  reviewed |-> r(D), untrusted |-> u(D)]
  BY DEF BuilderOf
<1>2. t(more) = t(E) \cup EventTriples(e)
  OBVIOUS
<1>3. y(more) = IF IsTyped(e) THEN y(E) \cup {Typed(e)} ELSE y(E)
  OBVIOUS
<1>4. r(more) = IF e.type = "ApprovalDecided" /\ "decision" \in DOMAIN Refs(e)
                THEN r(E) \cup {Refs(e).decision} ELSE r(E)
  OBVIOUS
<1>5. u(more) = IF Untrusted(e) THEN u(E) \cup {Node(e)} ELSE u(E)
  OBVIOUS
<1> HIDE DEF t, y, r, u, more
<1>6. MapEvent(BuilderOf(E, ids), e) = BuilderOf(more, ids)
  BY <1>1, <1>2, <1>3, <1>4, <1>5, MapsOnto
<1> QED
  BY <1>6 DEF more

\* After the last event the builder knows what the set of them says.
LEMMA AllMapped ==
    ASSUME NEW events, IsSequence(events)
    PROVE  Mapping(events)[Len(events)] =
               BuilderOf(ToSet(events), {Node(e) : e \in ToSet(events)})
<1> DEFINE ids == {Node(e) : e \in ToSet(events)}
           h == Mapping(events)
           Seen(n) == {events[k] : k \in 1 .. n}
           T == {n \in Nat : n <= Len(events) => h[n] = BuilderOf(Seen(n), ids)}
<1>1. Len(events) \in Nat /\ DOMAIN events = 1 .. Len(events)
  BY DEF IsSequence
<1>2. ids = {Node(events[k]) : k \in DOMAIN events}
  BY DEF ToSet
<1>3. /\ h[0] = [EmptyBuilder EXCEPT !.ids = ids]
      /\ \A k \in 1 .. Len(events) : h[k] = MapEvent(h[k - 1], events[k])
  BY <1>1, <1>2, MappingEventByEvent
<1> HIDE DEF h, ids
<1>4. 0 \in T
  <2>1. Seen(0) = {}
    OBVIOUS
  <2>2. h[0] = BuilderOf({}, ids)
    BY <1>3 DEF EmptyBuilder, BuilderOf
  <2> QED
    BY <2>1, <2>2
<1>5. ASSUME NEW n \in T PROVE n + 1 \in T
  <2> SUFFICES ASSUME n + 1 <= Len(events)
               PROVE  h[n + 1] = BuilderOf(Seen(n + 1), ids)
    OBVIOUS
  <2>1. n + 1 \in 1 .. Len(events) /\ (n + 1) - 1 = n /\ h[n] = BuilderOf(Seen(n), ids)
    BY <1>1
  <2>2. h[n + 1] = MapEvent(h[n], events[n + 1])
    BY <1>3, <2>1
  <2>3. Seen(n + 1) = Seen(n) \cup {events[n + 1]}
    OBVIOUS
  <2> QED
    BY <2>1, <2>2, <2>3, MapsOneMore
<1>6. T = Nat
  <2>1. T \in SUBSET Nat
    OBVIOUS
  <2> HIDE DEF T
  <2> QED
    BY <1>4, <1>5, <2>1, Induction
<1>7. h[Len(events)] = BuilderOf(Seen(Len(events)), ids)
  BY <1>1, <1>6
<1>8. Seen(Len(events)) = ToSet(events)
  BY <1>1 DEF ToSet
<1> QED
  BY <1>7, <1>8 DEF h, ids

\* The same flag, of two conditions that are the same.
LEMMA SameFlag ==
    /\ Flag(TRUE) = <<6, "true">> /\ Flag(FALSE) = <<6, "false">>
    /\ \A P \in BOOLEAN : Flag(P) = IF P THEN <<6, "true">> ELSE <<6, "false">>
BY DEF Flag

\* The glue of one event, predicate by predicate.
LEMMA GlueSays ==
    ASSUME NEW events, IsSequence(events), NEW domain, NEW k \in DOMAIN events, NEW x
    PROVE  LET E == ToSet(events)
               b == BuilderOf(E, {Node(o) : o \in E})
               e == events[k]
           IN  x \in Glue(b, events, k, domain) <=>
                   \/ /\ Has(e, "acted_for") /\ e.data.acted_for # <<>>
                      /\ x = <<Node(e), "chainTerminus", PrincipalIri(Last(e.data.acted_for).id)>>
                   \/ \E p \in GluePredicates \ {"precededBy"} : \E v \in GlueValues(E) :
                          x = <<Node(e), p, v>> /\ Follows(E, domain, e, p, v)
<1> DEFINE E == ToSet(events)
           b == BuilderOf(E, {Node(o) : o \in E})
           e == events[k]
           Has1(p) == \E v \in GlueValues(E) : x = <<Node(e), p, v>> /\ Follows(E, domain, e, p, v)
<1>0. e \in E
  BY DEF ToSet
<1>1. x \in DanglingOf(b, e) <=> Has1("danglingRef")
  <2>1. \A v : Follows(E, domain, e, "danglingRef", v) <=>
            \E y \in Targets(e) : v = Dangling(y) /\ IsEventRef(y) /\ \A o \in E : Node(o) # y
    BY DEF Follows
  <2>2. \A y \in Targets(e) : Dangling(y) \in GlueValues(E)
    BY <1>0 DEF GlueValues
  <2>3. \A y : y \notin b.ids <=> \A o \in E : Node(o) # y
    BY DEF BuilderOf
  <2>4. x \in DanglingOf(b, e) <=> \E y \in Targets(e) :
            IsEventRef(y) /\ y \notin b.ids /\ x = <<Node(e), "danglingRef", Dangling(y)>>
    BY DEF DanglingOf
  <2> HIDE DEF b, e, E
  <2> QED
    BY <2>1, <2>2, <2>3, <2>4
<1>2. e.type = "DelegationIssued" /\ x = <<Node(e), "chainVerified", Flag(ChainVerified(e))>>
      <=> Has1("chainVerified")
  <2>1. \A v : Follows(E, domain, e, "chainVerified", v) <=>
            e.type = "DelegationIssued" /\ v = Flag(ChainVerified(e))
    BY DEF Follows
  <2>2. Flag(ChainVerified(e)) \in GlueValues(E)
    BY DEF GlueValues, Flag
  <2> HIDE DEF b, e, E
  <2> QED
    BY <2>1, <2>2
<1>3. e.type = "ToolCall" /\ x = <<Node(e), "executesConsequential",
                                    Flag(ExecutesConsequential(b, e, domain))>>
      <=> Has1("executesConsequential")
  <2> DEFINE Q == \E d \in E, t \in domain.consequential :
                      Decides(d, t) /\ Refers(e, "decision", Node(d))
  <2>1. \A v : Follows(E, domain, e, "executesConsequential", v) <=>
            e.type = "ToolCall" /\ v = Flag(Q)
    BY DEF Follows
  <2>2. ExecutesConsequential(b, e, domain) <=> Q
    <3>1. \A d : d \in b.typed <=> \E f \in E : IsTyped(f) /\ d = Typed(f)
      BY DEF BuilderOf
    <3>2. \A f, t : Decides(f, t) <=> IsTyped(f) /\ Typed(f).dtype = t
      BY DEF Decides, Says, Typed, IsTyped
    <3>3. \A f : Typed(f).node = Node(f)
      BY DEF Typed
    <3> HIDE DEF b, e, E
    <3>4. ExecutesConsequential(b, e, domain) <=>
              \E f \in E : /\ IsTyped(f)
                           /\ Refers(e, "decision", Typed(f).node)
                           /\ Typed(f).dtype \in domain.consequential
      BY <3>1 DEF ExecutesConsequential
    <3> QED
      BY <3>2, <3>3, <3>4
  <2>3. Flag(ExecutesConsequential(b, e, domain)) = Flag(Q) /\ Flag(Q) \in GlueValues(E)
    <3> HIDE DEF Q, E, b, e
    <3> QED
      BY <2>2 DEF Flag, GlueValues
  <2> HIDE DEF b, e, E, Q
  <2> QED
    BY <2>1, <2>3
<1>4. e.type = "Decision" /\ x = <<Node(e), "oversightMatches",
                                    Flag(OversightMatches(e, domain))>>
      <=> Has1("oversightMatches")
  <2> DEFINE Q == \A t \in DOMAIN domain.oversight : Says(e, "decision_type", t)
                      => Says(e, "oversight_modality", domain.oversight[t])
  <2>1. \A v : Follows(E, domain, e, "oversightMatches", v) <=>
            e.type = "Decision" /\ v = Flag(Q)
    BY DEF Follows
  <2>2. OversightMatches(e, domain) <=> Q
    BY DEF OversightMatches, Says
  <2>3. Flag(OversightMatches(e, domain)) = Flag(Q) /\ Flag(Q) \in GlueValues(E)
    <3> HIDE DEF Q, E, b, e
    <3> QED
      BY <2>2 DEF Flag, GlueValues
  <2> HIDE DEF b, e, E, Q
  <2> QED
    BY <2>1, <2>3
<1>5. e.type \in {"ToolCall", "Decision"} /\ x = <<Node(e), "actsOnUntrusted",
                                                    Flag(ActsOnUntrusted(b, e))>>
      <=> Has1("actsOnUntrusted")
  <2> DEFINE Q == \E i \in E : Untrusted(i) /\ Refers(e, "instruction", Node(i))
  <2>1. \A v : Follows(E, domain, e, "actsOnUntrusted", v) <=>
            e.type \in {"ToolCall", "Decision"} /\ v = Flag(Q)
    BY DEF Follows
  <2>2. ActsOnUntrusted(b, e) <=> Q
    BY DEF ActsOnUntrusted, BuilderOf
  <2>3. Flag(ActsOnUntrusted(b, e)) = Flag(Q) /\ Flag(Q) \in GlueValues(E)
    <3> HIDE DEF Q, E, b, e
    <3> QED
      BY <2>2 DEF Flag, GlueValues
  <2> HIDE DEF b, e, E, Q
  <2> QED
    BY <2>1, <2>3
<1>6. e.type \in {"ToolCall", "ResourceAccess"} /\ x \in ConductOf(events, k)
      <=> Has1("withinScope") \/ Has1("withinBudget")
  <2> DEFINE P == \A d \in E : ~DeniedBy(d, Node(e))
             Q == \A d \in E : ~OverBudgetBy(d, Node(e))
             P1 == ~\E j \in DOMAIN events : DeniedBy(events[j], Node(e))
             Q1 == ~\E j \in DOMAIN events : OverBudgetBy(events[j], Node(e))
  <2>1. \A v : /\ Follows(E, domain, e, "withinScope", v) <=>
                      e.type \in {"ToolCall", "ResourceAccess"} /\ v = Flag(P)
               /\ Follows(E, domain, e, "withinBudget", v) <=>
                      e.type \in {"ToolCall", "ResourceAccess"} /\ v = Flag(Q)
    BY DEF Follows
  <2>2. (P1 <=> P) /\ (Q1 <=> Q)
    BY DEF ToSet
  <2>3. ConductOf(events, k) = {<<Node(e), "withinScope", Flag(P1)>>,
                                <<Node(e), "withinBudget", Flag(Q1)>>}
    BY DEF ConductOf
  <2> HIDE DEF P, Q, P1, Q1, E, b, e
  <2>4. /\ Flag(P1) = Flag(P) /\ Flag(P) \in GlueValues(E)
        /\ Flag(Q1) = Flag(Q) /\ Flag(Q) \in GlueValues(E)
    BY <2>2 DEF Flag, GlueValues
  <2> QED
    BY <2>1, <2>3, <2>4
<1>7. x \in Glue(b, events, k, domain) <=>
          \/ x \in DanglingOf(b, e)
          \/ e.type = "DelegationIssued" /\ x = <<Node(e), "chainVerified", Flag(ChainVerified(e))>>
          \/ e.type = "ToolCall" /\ x = <<Node(e), "executesConsequential",
                                           Flag(ExecutesConsequential(b, e, domain))>>
          \/ e.type = "Decision" /\ x = <<Node(e), "oversightMatches",
                                           Flag(OversightMatches(e, domain))>>
          \/ /\ Has(e, "acted_for") /\ e.data.acted_for # <<>>
             /\ x = <<Node(e), "chainTerminus", PrincipalIri(Last(e.data.acted_for).id)>>
          \/ e.type \in {"ToolCall", "Decision"} /\ x = <<Node(e), "actsOnUntrusted",
                                                           Flag(ActsOnUntrusted(b, e))>>
          \/ e.type \in {"ToolCall", "ResourceAccess"} /\ x \in ConductOf(events, k)
  <2> HIDE DEF b, E
  <2> QED
    BY DEF Glue
<1>8. (\E p \in GluePredicates \ {"precededBy"} : Has1(p)) <=>
          \/ Has1("danglingRef") \/ Has1("chainVerified") \/ Has1("executesConsequential")
          \/ Has1("oversightMatches") \/ Has1("actsOnUntrusted")
          \/ Has1("withinScope") \/ Has1("withinBudget")
  <2>1. GluePredicates \ {"precededBy"} =
            {"danglingRef", "chainVerified", "executesConsequential", "oversightMatches",
             "actsOnUntrusted", "withinScope", "withinBudget"}
    BY DEF GluePredicates
  <2> HIDE DEF Has1
  <2> QED
    BY <2>1
<1> QED
  BY <1>1, <1>2, <1>3, <1>4, <1>5, <1>6, <1>7, <1>8, Zenon

\* A decision of a type, and the nearest reviewed one before it.
LEMMA NearestSays ==
    ASSUME NEW E, NEW ids, NEW domain, NEW e \in E, NEW x
    PROVE  IsTyped(e) /\ x \in Nearest(BuilderOf(E, ids), Typed(e)) <=>
               \E v \in GlueValues(E) :
                   x = <<Node(e), "precededBy", v>> /\ Follows(E, domain, e, "precededBy", v)
<1> DEFINE b == BuilderOf(E, ids)
           before == {f \in b.typed : /\ f.dtype = Typed(e).dtype
                                      /\ Earlier(f, Typed(e))
                                      /\ f.node \in b.reviewed}
           Comes(d) == /\ Decides(d, e.data.decision_type)
                       /\ After(e, d)
                       /\ ReviewedIn(E, d)
<1>1. \A d : d \in b.typed <=> \E f \in E : IsTyped(f) /\ d = Typed(f)
  BY DEF BuilderOf
<1>2. \A d : Node(d) \in b.reviewed <=> ReviewedIn(E, d)
  BY DEF BuilderOf, ReviewedIn, Refers
<1>3. \A f, g : Earlier(Typed(f), Typed(g)) <=> After(g, f)
  BY DEF Earlier, Typed, After, Before, Node, EventIri
<1>4. \A f : /\ Typed(f).node = Node(f) /\ Typed(f).dtype = f.data.decision_type
             /\ \A t : Decides(f, t) <=> IsTyped(f) /\ Typed(f).dtype = t
  BY DEF Typed, Decides, Says, IsTyped
<1> HIDE DEF b
<1>5. \A d : d \in before <=> \E f \in E : Comes(f) /\ d = Typed(f)
  BY <1>1, <1>2, <1>3, <1>4
<1>6. x \in Nearest(b, Typed(e)) <=>
          \E f \in before : /\ x = <<Node(e), "precededBy", f.node>>
                            /\ ~\E h \in before : Earlier(f, h)
  BY <1>4 DEF Nearest
<1> HIDE DEF before
<1>7. x \in Nearest(b, Typed(e)) <=>
          \E d \in E : /\ Comes(d) /\ x = <<Node(e), "precededBy", Node(d)>>
                       /\ ~\E m \in E : Comes(m) /\ After(m, d)
  BY <1>3, <1>4, <1>5, <1>6
<1>8. \A v : Follows(E, domain, e, "precededBy", v) <=>
          \E d \in E : /\ v = Node(d) /\ IsTyped(e) /\ Comes(d)
                       /\ ~\E m \in E : Comes(m) /\ After(m, d)
  BY DEF Follows, IsTyped
<1>9. \A d \in E : Node(d) \in GlueValues(E)
  BY DEF GlueValues
<1> HIDE DEF Comes
<1>10. IsTyped(e) /\ x \in Nearest(b, Typed(e)) <=>
           \E v \in GlueValues(E) :
               x = <<Node(e), "precededBy", v>> /\ Follows(E, domain, e, "precededBy", v)
  BY <1>7, <1>8, <1>9
<1> QED
  BY <1>10 DEF b

\* The two passes write what the set of the events says.
LEMMA GraphOfTheSet ==
    ASSUME NEW events, IsSequence(events), NEW domain
    PROVE  BuildGraph(events, domain).triples = TriplesSaid(ToSet(events), domain)
<1> DEFINE E == ToSet(events)
           b == BuilderOf(E, {Node(e) : e \in E})
           Terminus(e, x) ==
               /\ Has(e, "acted_for") /\ e.data.acted_for # <<>>
               /\ x = <<Node(e), "chainTerminus", PrincipalIri(Last(e.data.acted_for).id)>>
           Glued(e, p, x) == \E v \in GlueValues(E) :
               x = <<Node(e), p, v>> /\ Follows(E, domain, e, p, v)
<1>1. BuildGraph(events, domain).triples =
          b.triples \cup (UNION {Glue(b, events, k, domain) : k \in DOMAIN events})
                    \cup (UNION {Nearest(b, d) : d \in b.typed})
  <2>1. BuildGraph(events, domain) = Materialise(b, events, domain)
    BY AllMapped DEF BuildGraph
  <2> HIDE DEF b
  <2> QED
    BY <2>1 DEF Materialise
<1>2. b.triples = UNION {EventTriples(e) : e \in E}
  BY DEF BuilderOf
<1>3. \A d : d \in b.typed <=> \E f \in E : IsTyped(f) /\ d = Typed(f)
  BY DEF BuilderOf
<1>4. \A x : \A k \in DOMAIN events : x \in Glue(b, events, k, domain) <=>
          \/ Terminus(events[k], x)
          \/ \E p \in GluePredicates \ {"precededBy"} : Glued(events[k], p, x)
  BY GlueSays
<1>5. \A x : \A e \in E : IsTyped(e) /\ x \in Nearest(b, Typed(e)) <=> Glued(e, "precededBy", x)
  BY NearestSays
<1>6. \A x : x \in TriplesSaid(E, domain) <=>
          \/ \E e \in E : x \in EventTriples(e)
          \/ \E e \in E : Terminus(e, x)
          \/ \E e \in E : \E p \in GluePredicates : Glued(e, p, x)
  <2> SUFFICES ASSUME NEW x
               PROVE  x \in TriplesSaid(E, domain) <=>
                          \/ \E e \in E : x \in EventTriples(e)
                          \/ \E e \in E : Terminus(e, x)
                          \/ \E e \in E : \E p \in GluePredicates : Glued(e, p, x)
    OBVIOUS
  <2> DEFINE all == {<<Node(e), p, v>> : e \in E, p \in GluePredicates, v \in GlueValues(E)}
             said == {y \in all : \E e \in E : Node(e) = y[1] /\ Follows(E, domain, e, y[2], y[3])}
             ends == {<<Node(e), "chainTerminus", PrincipalIri(Last(e.data.acted_for).id)>> :
                          e \in {f \in E : Has(f, "acted_for") /\ f.data.acted_for # <<>>}}
  <2>1. TriplesSaid(E, domain) = (UNION {EventTriples(e) : e \in E}) \cup ends \cup said
    BY DEF TriplesSaid
  <2>2. x \in ends <=> \E e \in E : Terminus(e, x)
    OBVIOUS
  <2>3. ASSUME x \in said PROVE \E e \in E : \E p \in GluePredicates : Glued(e, p, x)
    <3>1. PICK o \in E, p \in GluePredicates, v \in GlueValues(E) : x = <<Node(o), p, v>>
      BY <2>3
    <3>2. PICK e \in E : Node(e) = x[1] /\ Follows(E, domain, e, x[2], x[3])
      BY <2>3
    <3>3. x = <<Node(e), p, v>> /\ Follows(E, domain, e, p, v)
      BY <3>1, <3>2
    <3> QED
      BY <3>3
  <2>4. ASSUME NEW e \in E, NEW p \in GluePredicates, Glued(e, p, x) PROVE x \in said
    <3>1. PICK v \in GlueValues(E) : x = <<Node(e), p, v>> /\ Follows(E, domain, e, p, v)
      BY <2>4
    <3>2. x \in all
      BY <3>1
    <3>3. x[1] = Node(e) /\ x[2] = p /\ x[3] = v
      BY <3>1
    <3> QED
      BY <3>1, <3>2, <3>3
  <2>5. x \in said <=> \E e \in E : \E p \in GluePredicates : Glued(e, p, x)
    <3> HIDE DEF said, Glued, E
    <3> QED
      BY <2>3, <2>4
  <2>6. x \in TriplesSaid(E, domain) <=>
            (\E e \in E : x \in EventTriples(e)) \/ x \in ends \/ x \in said
    <3> HIDE DEF ends, said, E
    <3> QED
      BY <2>1
  <2> HIDE DEF ends, said, Terminus, Glued, E
  <2> QED
    BY <2>2, <2>5, <2>6
<1>7. /\ \A e : e \in E <=> \E k \in DOMAIN events : e = events[k]
      /\ "precededBy" \in GluePredicates
  BY DEF ToSet, GluePredicates
<1> HIDE DEF E, b, Terminus, Glued
<1>8. \A x : x \in UNION {Glue(b, events, k, domain) : k \in DOMAIN events} <=>
          \E e \in E : \/ Terminus(e, x)
                       \/ \E p \in GluePredicates \ {"precededBy"} : Glued(e, p, x)
  BY <1>4, <1>7
<1>9. \A x : x \in UNION {Nearest(b, d) : d \in b.typed} <=>
          \E e \in E : Glued(e, "precededBy", x)
  BY <1>3, <1>5
<1>10. ASSUME NEW x
       PROVE  x \in BuildGraph(events, domain).triples <=> x \in TriplesSaid(E, domain)
  <2>1. (\E e \in E : \E p \in GluePredicates : Glued(e, p, x)) <=>
            \/ \E e \in E : \E p \in GluePredicates \ {"precededBy"} : Glued(e, p, x)
            \/ \E e \in E : Glued(e, "precededBy", x)
    BY <1>7
  <2>2. x \in BuildGraph(events, domain).triples <=>
            \/ \E e \in E : x \in EventTriples(e)
            \/ x \in UNION {Glue(b, events, k, domain) : k \in DOMAIN events}
            \/ x \in UNION {Nearest(b, d) : d \in b.typed}
    BY <1>1, <1>2
  <2>3. x \in BuildGraph(events, domain).triples <=>
            \/ \E e \in E : x \in EventTriples(e)
            \/ \E e \in E : \/ Terminus(e, x)
                            \/ \E p \in GluePredicates \ {"precededBy"} : Glued(e, p, x)
            \/ \E e \in E : Glued(e, "precededBy", x)
    BY <1>8, <1>9, <2>2
  <2> QED
    BY <1>6, <2>1, <2>3
<1>11. BuildGraph(events, domain).triples = TriplesSaid(E, domain)
  BY <1>10
<1> QED
  BY <1>11 DEF E

\* Whatever the events, the domain binding and the commands before: the graph
\* a run builds says exactly what the set of the events it accepted says, so
\* neither their order nor which of two refers to the other matters (the two
\* passes of graph.build_graph, store.add_triple's INSERT OR IGNORE).
THEOREM GraphSaysWhatTheEventsSayAlways == Spec => []GraphSaysWhatTheEventsSay
<1>1. DescribedInv => GraphSaysWhatTheEventsSay
  BY GraphOfTheSet DEF DescribedInv, ToldOfAccepted, GraphSaysWhatTheEventsSay
<1> QED
  BY <1>1, DescribedInvariant, PTL

-----------------------------------------------------------------------------
(*                      What an adapted event is                           *)

\* What an adapter puts into every event of an export: it is one, of no stream,
\* of the class and the source it was told.
Enveloped(told, x) ==
    /\ x.form = "event" /\ x.stream = NoStream /\ x.class = told.class
    /\ x.id \in Nat /\ x.time \in Nat
    /\ told.source # Absent => x.source = told.source

\* Every event the events refer to is among them.
Closed(events) ==
    \A x \in ToSet(events) : \A t \in Targets(x) : \E y \in ToSet(events) : Node(y) = t

\* The events made for one that was told so, which need no others.
Standing(told, events) ==
    /\ IsSequence(events)
    /\ \A x \in ToSet(events) : Enveloped(told, x)
    /\ Closed(events)

\* What an entry has of id and times.
Numbers(e) == \A f \in {"id", "time", "start", "end"} \cap DOMAIN e : e[f] \in Nat

LEMMA IdsAreNatural ==
    ASSUME NEW prefix, prefix \in AdapterNames \cup Engines, prefix # "policy-engines",
           NEW e, e.id \in Nat, NEW part \in Nat
    PROVE  EventId(prefix, e, part) \in Nat
<1>1. /\ DOMAIN IdOrder = 1 .. 9
      /\ IdOrder[1] = "cedar" /\ IdOrder[2] = "governance_toolkit" /\ IdOrder[3] = "identity"
      /\ IdOrder[4] = "mcp-gateway" /\ IdOrder[5] = "opa" /\ IdOrder[6] = "openfga"
      /\ IdOrder[7] = "otel-genai" /\ IdOrder[8] = "oversight" /\ IdOrder[9] = "supply-chain"
  BY DEF IdOrder
<1>2. \E k \in DOMAIN IdOrder : IdOrder[k] = prefix
  BY <1>1 DEF AdapterNames, LinesAdapters, Engines
<1>3. Rank(prefix) \in DOMAIN IdOrder
  BY <1>2 DEF Rank
<1> QED
  BY <1>1, <1>3 DEF EventId

LEMMA EnvelopeSays ==
    ASSUME NEW told, NEW e, NEW id \in Nat, NEW time \in Nat, NEW type, NEW data
    PROVE  LET x == Envelope(told, e, id, time, type, data)
           IN  Enveloped(told, x) /\ x.id = id /\ x.data = data
BY DEF Envelope, Enveloped

\* Data without references.
LEMMA RefersToNothing ==
    ASSUME NEW x, {"refs", "used"} \cap DOMAIN x.data = {}
    PROVE  Targets(x) = {}
BY DEF Targets, Refs, Has

LEMMA PayloadsReferToNothing ==
    ASSUME NEW e
    PROVE  /\ {"refs", "used"} \cap DOMAIN Payload(e) = {}
           /\ {"refs", "used"} \cap DOMAIN Carry(e, {"agent"}) = {}
           /\ \A d : {"refs", "used"} \cap DOMAIN DelegationPayload(e, d) = {}
           /\ \A more : {"refs", "used"} \cap DOMAIN more = {} =>
                  {"refs", "used"} \cap DOMAIN With(Payload(e), more) = {}
<1>1. \A r, m : DOMAIN With(r, m) = DOMAIN r \cup DOMAIN m
  BY DEF With
<1>2. DOMAIN Carry(e, {"agent"}) \subseteq {"agent"}
  BY DEF Carry
<1>3. DOMAIN NoData = {}
  BY DEF NoData
<1>4. DOMAIN Payload(e) \subseteq {"agent", "acted_for"}
  <2> DEFINE more1 == IF Names(e, {"acted_for"}) /\ e.acted_for # <<>>
                      THEN [acted_for |-> [k \in DOMAIN e.acted_for |->
                               [id |-> e.acted_for[k], kind |-> "none"]]]
                      ELSE NoData
  <2>1. DOMAIN more1 \subseteq {"acted_for"}
    BY <1>3
  <2>2. Payload(e) = With(Carry(e, {"agent"}), more1)
    BY DEF Payload
  <2> HIDE DEF more1
  <2> QED
    BY <1>1, <1>2, <2>1, <2>2
<1>5. ASSUME NEW d
      PROVE  DOMAIN DelegationPayload(e, d) \subseteq {"agent", "acted_for", "chain", "verification"}
  <2> DEFINE chain == IF Names(d, {"chain"})
                      THEN SelectSeq(d.chain, LAMBDA p : p.kind \in PrincipalKinds) ELSE <<>>
             more1 == IF chain # <<>> THEN [chain |-> chain] ELSE NoData
             more2 == IF OneOf(d, "verification", {"verified", "unverified", "failed"})
                      THEN [verification |-> d.verification] ELSE NoData
  <2> HIDE DEF chain
  <2>1. DOMAIN more1 \subseteq {"chain"} /\ DOMAIN more2 \subseteq {"verification"}
    BY <1>3
  <2>2. DelegationPayload(e, d) = With(With(Payload(e), more1), more2)
    BY DEF DelegationPayload, chain
  <2> HIDE DEF more1, more2
  <2>3. /\ DOMAIN With(With(Payload(e), more1), more2)
               = DOMAIN With(Payload(e), more1) \cup DOMAIN more2
        /\ DOMAIN With(Payload(e), more1) = DOMAIN Payload(e) \cup DOMAIN more1
    BY <1>1
  <2> QED
    BY <1>4, <2>1, <2>2, <2>3
<1> QED
  BY <1>1, <1>2, <1>4, <1>5

LEMMA NoneStands ==
    ASSUME NEW told
    PROVE  Standing(told, <<>>)
<1>1. ToSet(<<>>) = {}
  BY DEF ToSet
<1>2. IsSequence(<<>>)
  BY OfItsElements, EmptySeq
<1> QED
  BY <1>1, <1>2 DEF Standing, Closed

LEMMA OneStands ==
    ASSUME NEW told, NEW e, NEW id \in Nat, NEW time \in Nat, NEW type,
           NEW data, {"refs", "used"} \cap DOMAIN data = {}
    PROVE  /\ Standing(told, <<Envelope(told, e, id, time, type, data)>>)
           /\ Targets(Envelope(told, e, id, time, type, data)) = {}
<1> DEFINE x == Envelope(told, e, id, time, type, data)
<1>1. Enveloped(told, x) /\ x.data = data
  BY EnvelopeSays
<1> HIDE DEF x
<1>2. Targets(x) = {}
  BY <1>1, RefersToNothing
<1>3. ToSet(<<x>>) = {x}
  BY DEF ToSet
<1>4. IsSequence(<<x>>)
  <2>1. <<x>> \in Seq({x})
    OBVIOUS
  <2> QED
    BY <2>1, OfItsElements
<1>5. Standing(told, <<x>>) /\ Targets(x) = {}
  BY <1>1, <1>2, <1>3, <1>4 DEF Standing, Closed
<1> QED
  BY <1>5 DEF x

LEMMA BothStand ==
    ASSUME NEW told, NEW s, Standing(told, s), NEW t, Standing(told, t)
    PROVE  Standing(told, s \o t)
<1>1. ToSet(s \o t) = ToSet(s) \cup ToSet(t)
  BY ElementsOfConcat DEF Standing
<1>2. IsSequence(s \o t)
  <2>1. s \in Seq(ToSet(s) \cup ToSet(t)) /\ t \in Seq(ToSet(s) \cup ToSet(t))
    BY SeqMonotonic DEF Standing, IsSequence
  <2>2. s \o t \in Seq(ToSet(s) \cup ToSet(t))
    BY <2>1, ConcatProperties
  <2> QED
    BY <2>2, OfItsElements
<1> QED
  BY <1>1, <1>2 DEF Standing, Closed

LEMMA LinesStand ==
    ASSUME NEW told, NEW e, Numbers(e), Names(e, {"time", "id"})
    PROVE  /\ told.engine \in Engines => Standing(told, MapCheck(told, e))
           /\ Standing(told, MapOversight(told, e))
           /\ Standing(told, MapIdentity(told, e))
           /\ Standing(told, MapSupplyChain(told, e))
<1>1. e.time \in Nat /\ e.id \in Nat /\ Base \in Nat
  BY DEF Numbers, Names, Base
<1>2. \A prefix \in (AdapterNames \cup Engines) \ {"policy-engines"} :
          EventId(prefix, e, Base) \in Nat
  BY <1>1, IdsAreNatural
<1>3. /\ "openfga" \in Engines /\ "oversight" \in AdapterNames
      /\ "identity" \in AdapterNames /\ "supply-chain" \in AdapterNames
      /\ "policy-engines" \notin Engines
  BY DEF Engines, AdapterNames, LinesAdapters
<1>4. ASSUME told.engine \in Engines PROVE Standing(told, MapCheck(told, e))
  <2> DEFINE id1 == EventId("openfga", e, Base)
             id2 == EventId(told.engine, e, Base)
             data2 == With(Payload(e), [decision |-> Canonical[e.decision]])
  <2>1. id1 \in Nat /\ id2 \in Nat
    BY <1>2, <1>3, <1>4
  <2>2. {"refs", "used"} \cap DOMAIN data2 = {} /\ {"refs", "used"} \cap DOMAIN Payload(e) = {}
    BY PayloadsReferToNothing
  <2> HIDE DEF id1, id2, data2
  <2>3. Standing(told, <<Envelope(told, e, id1, e.time, "AuthzCheck", Payload(e))>>)
        /\ Standing(told, <<Envelope(told, e, id2, e.time, "PolicyDecision", data2)>>)
    BY <1>1, <2>1, <2>2, OneStands
  <2> QED
    BY <2>3, NoneStands DEF MapCheck, id1, id2, data2
<1>5. Standing(told, MapOversight(told, e))
  <2> DEFINE id == EventId("oversight", e, Base)
             type == OversightTypes[e.kind]
  <2>1. id \in Nat
    BY <1>2, <1>3
  <2>2. {"refs", "used"} \cap DOMAIN Payload(e) = {}
    BY PayloadsReferToNothing
  <2> HIDE DEF id, type
  <2>3. Standing(told, <<Envelope(told, e, id, e.time, type, Payload(e))>>)
    BY <1>1, <2>1, <2>2, OneStands
  <2> QED
    BY <2>3, NoneStands DEF MapOversight, id, type
<1>6. Standing(told, MapIdentity(told, e))
  <2> DEFINE id == EventId("identity", e, Base)
  <2>1. id \in Nat
    BY <1>2, <1>3
  <2>2. {"refs", "used"} \cap DOMAIN DelegationPayload(e, e) = {}
    BY PayloadsReferToNothing
  <2> HIDE DEF id
  <2>3. Standing(told, <<Envelope(told, e, id, e.time, "DelegationIssued",
                                  DelegationPayload(e, e))>>)
    BY <1>1, <2>1, <2>2, OneStands
  <2> QED
    BY <2>3, NoneStands DEF MapIdentity, id
<1>7. Standing(told, MapSupplyChain(told, e))
  <2> DEFINE id == EventId("supply-chain", e, Base)
             data1 == With(Payload(e), Carry(e, {"components"}))
             data2 == With(Payload(e), [verification |-> VerificationOf(e)])
  <2>1. id \in Nat
    BY <1>2, <1>3
  <2>2. {"refs", "used"} \cap DOMAIN data1 = {} /\ {"refs", "used"} \cap DOMAIN data2 = {}
    <3>1. {"refs", "used"} \cap DOMAIN Carry(e, {"components"}) = {}
      BY DEF Carry
    <3> QED
      BY <3>1, PayloadsReferToNothing
  <2> HIDE DEF id, data1, data2
  <2>3. Standing(told, <<Envelope(told, e, id, e.time, "BundleLoaded", data1)>>)
        /\ Standing(told, <<Envelope(told, e, id, e.time, "Attestation", data2)>>)
    BY <1>1, <2>1, <2>2, OneStands
  <2> QED
    BY <2>3, NoneStands DEF MapSupplyChain, id, data1, data2
<1> QED
  BY <1>4, <1>5, <1>6, <1>7

LEMMA SpansStand ==
    ASSUME NEW told, NEW e, Numbers(e), "operation" \in DOMAIN e => "id" \in DOMAIN e
    PROVE  Standing(told, MapSpan(told, e))
<1> DEFINE begin == IF Names(e, {"start"}) THEN Millis(e.start) ELSE Millis(e.end)
           end == IF Names(e, {"end"}) THEN Millis(e.end) ELSE begin
           Event(part, time, type) ==
               Envelope(told, e, EventId("otel-genai", e, part), time, type, Carry(e, {"agent"}))
<1> SUFFICES ASSUME {"start", "end"} \cap DOMAIN e # {}, "operation" \in DOMAIN e
             PROVE  /\ Standing(told, <<Event(SessionStartPart, begin, "SessionStart"),
                                        Event(SessionEndPart, end, "SessionEnd")>>)
                    /\ Standing(told, <<Event(Base, begin, SpanTypes[e.operation])>>)
  BY NoneStands DEF MapSpan, Names
<1>1. begin \in Nat /\ end \in Nat
  <2>1. \A n \in Nat : Millis(n) \in Nat
    BY DEF Millis
  <2> QED
    BY <2>1 DEF Numbers, Names
<1>2. \A part \in {Base, SessionStartPart, SessionEndPart} :
          EventId("otel-genai", e, part) \in Nat
  BY IdsAreNatural DEF Numbers, AdapterNames, LinesAdapters, Base, SessionStartPart, SessionEndPart
<1>3. {"refs", "used"} \cap DOMAIN Carry(e, {"agent"}) = {}
  BY PayloadsReferToNothing
<1> HIDE DEF begin, end
<1>4. \A part \in {Base, SessionStartPart, SessionEndPart} : \A time \in Nat : \A type :
          /\ Standing(told, <<Event(part, time, type)>>)
          /\ Targets(Event(part, time, type)) = {}
  BY <1>2, <1>3, OneStands
<1> HIDE DEF Event
<1>5. ASSUME NEW x, Standing(told, <<x>>), Targets(x) = {},
             NEW y, Standing(told, <<y>>), Targets(y) = {}
      PROVE  Standing(told, <<x, y>>)
  <2>1. ToSet(<<x>>) = {x} /\ ToSet(<<y>>) = {y} /\ ToSet(<<x, y>>) = {x, y}
    BY DEF ToSet
  <2>2. IsSequence(<<x, y>>)
    <3>1. <<x, y>> \in Seq({x, y})
      OBVIOUS
    <3> QED
      BY <3>1, OfItsElements
  <2> QED
    BY <1>5, <2>1, <2>2 DEF Standing, Closed
<1> QED
  BY <1>1, <1>4, <1>5

\* Data with one reference, or with none.
LEMMA RefersToOne ==
    ASSUME NEW x, NEW p, {"refs", "used"} \cap DOMAIN p = {}, NEW r, x.data = With(p, r)
    PROVE  /\ r = NoData => Targets(x) = {}
           /\ \A n : r = [refs |-> [request |-> n]] => Targets(x) = {n}
           /\ \A n : r = [refs |-> [authorization |-> n]] => Targets(x) = {n}
<1>1. DOMAIN With(p, r) = DOMAIN p \cup DOMAIN r
  BY DEF With
<1>2. ASSUME r = NoData PROVE Targets(x) = {}
  <2>1. DOMAIN r = {}
    BY <1>2 DEF NoData
  <2> QED
    BY <1>1, <2>1, RefersToNothing
<1>3. ASSUME NEW q, r = [refs |-> q]
      PROVE  Targets(x) = {q[k] : k \in DOMAIN q}
  <2>1. DOMAIN r = {"refs"} /\ r.refs = q
    BY <1>3
  <2>2. "refs" \in DOMAIN x.data /\ "used" \notin DOMAIN x.data /\ "refs" \notin DOMAIN p
    BY <1>1, <2>1
  <2>3. x.data.refs = q
    BY <1>1, <2>1, <2>2 DEF With
  <2> QED
    BY <2>2, <2>3 DEF Targets, Refs, Has
<1>4. ASSUME NEW n
      PROVE  /\ {[request |-> n][k] : k \in DOMAIN [request |-> n]} = {n}
             /\ {[authorization |-> n][k] : k \in DOMAIN [authorization |-> n]} = {n}
  OBVIOUS
<1> QED
  BY <1>2, <1>3, <1>4

LEMMA GatewayStands ==
    ASSUME NEW told, NEW e, Numbers(e)
    PROVE  Standing(told, MapGatewayEntry(told, e))
<1> DEFINE Id(part) == EventId("mcp-gateway", e, part)
           executed == OneOf(e, "method", DOMAIN MethodTypes)
                       /\ ~(Names(e, {"policy"}) /\ OneOf(e.policy, "decision", {"deny"}))
           decides == IF OneOf(e.policy, "decision",
                               {"allow", "deny", "require_approval", "transform"})
                      THEN [decision |-> e.policy.decision] ELSE NoData
           authorized == IF Names(e, {"policy"})
                         THEN [refs |-> [authorization |-> EventIri(Id(PolicyPart))]]
                         ELSE NoData
           policy == Envelope(told, e, Id(PolicyPart), e.time, "PolicyDecision",
               With(With(Payload(e), decides), RequestRef(executed, Id(Base))))
           call == Envelope(told, e, Id(Base), e.time, MethodTypes[e.method],
               With(Payload(e), authorized))
           delegation == Envelope(told, e, Id(DelegationPart), e.time, "DelegationIssued",
               DelegationPayload(e, e.delegation))
           policies == IF Names(e, {"policy"}) THEN <<policy>> ELSE <<>>
           calls == IF executed THEN <<call>> ELSE <<>>
           delegations == IF Names(e, {"delegation"}) THEN <<delegation>> ELSE <<>>
<1>1. MapGatewayEntry(told, e) =
          IF ~Names(e, {"time", "id", "origin"}) THEN <<>>
          ELSE policies \o calls \o delegations
  BY Zenon DEF MapGatewayEntry
<1> SUFFICES ASSUME Names(e, {"time", "id", "origin"})
             PROVE  Standing(told, policies \o calls \o delegations)
  BY <1>1, NoneStands
<1>2. e.time \in Nat /\ e.id \in Nat
  BY DEF Numbers, Names
<1>3. Id(Base) \in Nat /\ Id(PolicyPart) \in Nat /\ Id(DelegationPart) \in Nat
  BY <1>2, IdsAreNatural DEF AdapterNames, LinesAdapters, Base, PolicyPart, DelegationPart
<1>4. /\ {"refs", "used"} \cap DOMAIN Payload(e) = {}
      /\ {"refs", "used"} \cap DOMAIN With(Payload(e), decides) = {}
      /\ {"refs", "used"} \cap DOMAIN DelegationPayload(e, e.delegation) = {}
  <2>1. {"refs", "used"} \cap DOMAIN decides = {}
    BY DEF NoData
  <2> HIDE DEF decides
  <2> QED
    BY <2>1, PayloadsReferToNothing
<1> HIDE DEF Id, executed, decides
<1>5. /\ Enveloped(told, policy) /\ policy.id = Id(PolicyPart)
      /\ policy.data = With(With(Payload(e), decides), RequestRef(executed, Id(Base)))
  BY <1>2, <1>3, EnvelopeSays
<1>6. /\ Enveloped(told, call) /\ call.id = Id(Base)
      /\ call.data = With(Payload(e), authorized)
  BY <1>2, <1>3, EnvelopeSays
<1>7. Standing(told, <<delegation>>)
  BY <1>2, <1>3, <1>4, OneStands
<1> HIDE DEF policy, call, delegation
<1>8. Targets(policy) \subseteq (IF executed THEN {Node(call)} ELSE {})
  <2>1. CASE executed
    <3>1. RequestRef(executed, Id(Base)) = [refs |-> [request |-> Node(call)]]
      BY <1>6, <2>1 DEF RequestRef, Node
    <3> DEFINE p == With(Payload(e), decides)
               r == RequestRef(executed, Id(Base))
               n == Node(call)
    <3>2. /\ {"refs", "used"} \cap DOMAIN p = {} /\ policy.data = With(p, r)
          /\ r = [refs |-> [request |-> n]]
      BY <1>4, <1>5, <3>1
    <3> HIDE DEF p, r, n
    <3>3. Targets(policy) = {n}
      BY <3>2, RefersToOne
    <3> QED
      BY <2>1, <3>3 DEF n
  <2>2. CASE ~executed
    <3>1. RequestRef(executed, Id(Base)) = NoData
      BY <2>2 DEF RequestRef
    <3> QED
      BY <1>4, <1>5, <3>1, RefersToOne
  <2> QED
    BY <2>1, <2>2
<1>9. Targets(call) \subseteq (IF Names(e, {"policy"}) THEN {Node(policy)} ELSE {})
  <2>1. authorized = IF Names(e, {"policy"})
                     THEN [refs |-> [authorization |-> Node(policy)]] ELSE NoData
    BY <1>5 DEF Node
  <2> HIDE DEF authorized
  <2> QED
    BY <1>4, <1>6, <2>1, RefersToOne
<1>10. Standing(told, policies \o calls)
  <2>1. IsSequence(policies) /\ IsSequence(calls)
    <3>1. \A x : IsSequence(<<x>>)
      <4>1. \A x : <<x>> \in Seq({x})
        OBVIOUS
      <4> QED
        BY <4>1, OfItsElements
    <3> QED
      BY <3>1, NoneStands DEF Standing
  <2>2. ToSet(policies) = (IF Names(e, {"policy"}) THEN {policy} ELSE {})
        /\ ToSet(calls) = (IF executed THEN {call} ELSE {})
    <3>1. ToSet(<<>>) = {} /\ \A x : ToSet(<<x>>) = {x}
      BY DEF ToSet
    <3> QED
      BY <3>1
  <2> HIDE DEF policies, calls
  <2>3. ToSet(policies \o calls) = ToSet(policies) \cup ToSet(calls)
        /\ IsSequence(policies \o calls)
    <3>1. policies \in Seq(ToSet(policies) \cup ToSet(calls))
          /\ calls \in Seq(ToSet(policies) \cup ToSet(calls))
      BY <2>1, SeqMonotonic DEF IsSequence
    <3>2. policies \o calls \in Seq(ToSet(policies) \cup ToSet(calls))
      BY <3>1, ConcatProperties
    <3> QED
      BY <2>1, <3>2, ElementsOfConcat, OfItsElements
  <2>4. Targets(policy) = {} \/ (executed /\ Targets(policy) \subseteq {Node(call)})
    BY <1>8
  <2>5. Targets(call) = {} \/ (Names(e, {"policy"}) /\ Targets(call) \subseteq {Node(policy)})
    BY <1>9
  <2>6. \A x \in ToSet(policies \o calls) : Enveloped(told, x)
    BY <1>5, <1>6, <2>2, <2>3
  <2>7. Closed(policies \o calls)
    BY <2>2, <2>3, <2>4, <2>5 DEF Closed
  <2> QED
    BY <2>3, <2>6, <2>7 DEF Standing
<1>11. Standing(told, delegations)
  BY <1>7, NoneStands
<1> HIDE DEF policies, calls, delegations
<1> QED
  BY <1>10, <1>11, BothStand

LEMMA EntriesStand ==
    ASSUME NEW adapter \in AdapterNames, NEW told,
           adapter = "policy-engines" => told.engine \in Engines,
           NEW e, Numbers(e), adapter = "otel-genai" /\ "operation" \in DOMAIN e => "id" \in DOMAIN e
    PROVE  Standing(told, MapEntry(adapter, told, e))
<1>1. adapter \in {"mcp-gateway", "policy-engines", "oversight", "supply-chain",
                   "identity", "otel-genai"}
  BY DEF AdapterNames, LinesAdapters
<1>2. CASE adapter = "otel-genai"
  BY <1>2, SpansStand DEF MapEntry
<1>3. CASE adapter = "mcp-gateway"
  BY <1>3, GatewayStands DEF MapEntry
<1>4. CASE adapter \notin {"otel-genai", "mcp-gateway"}
  <2>1. CASE ~Names(e, Required(adapter))
    BY <1>4, <2>1, NoneStands DEF MapEntry
  <2>2. CASE Names(e, Required(adapter))
    <3>1. Names(e, {"time", "id"})
      BY <2>2 DEF Names, Required
    <3> QED
      BY <1>1, <1>4, <2>2, <3>1, LinesStand DEF MapEntry
  <2> QED
    BY <2>1, <2>2
<1> QED
  BY <1>2, <1>3, <1>4

-----------------------------------------------------------------------------
(*                     The order of adapted events                         *)

\* The events of all the entries of an export stand as those of each do.
LEMMA AllEntriesStand ==
    ASSUME NEW adapter \in AdapterNames, NEW told,
           adapter = "policy-engines" => told.engine \in Engines,
           NEW entries, IsSequence(entries),
           \A e \in ToSet(entries) :
               Numbers(e) /\ (adapter = "otel-genai" /\ "operation" \in DOMAIN e => "id" \in DOMAIN e)
    PROVE  Standing(told, MapEntries(adapter, told, entries))
<1> DEFINE h == MappingOf(adapter, told, entries)
           T == {n \in Nat : n <= Len(entries) => Standing(told, h[n])}
<1>1. Len(entries) \in Nat /\ \A k \in 1 .. Len(entries) : entries[k] \in ToSet(entries)
  BY DEF IsSequence, ToSet
<1>2. /\ h[0] = NothingMapped
      /\ \A k \in 1 .. Len(entries) : h[k] = MappedOn(h[k - 1], adapter, told, entries[k])
  BY <1>1, MappingEntryByEntry
<1> HIDE DEF h
<1>3. 0 \in T
  BY <1>2, NoneStands DEF NothingMapped
<1>4. ASSUME NEW n \in T PROVE n + 1 \in T
  <2> SUFFICES ASSUME n + 1 <= Len(entries) PROVE Standing(told, h[n + 1])
    OBVIOUS
  <2>1. n + 1 \in 1 .. Len(entries) /\ (n + 1) - 1 = n /\ Standing(told, h[n])
    BY <1>1
  <2>2. h[n + 1] = MappedOn(h[n], adapter, told, entries[n + 1])
    BY <1>2, <2>1
  <2>3. Standing(told, MapEntry(adapter, told, entries[n + 1]))
    BY <1>1, <2>1, EntriesStand
  <2> QED
    BY <2>1, <2>2, <2>3, BothStand DEF MappedOn
<1>5. T = Nat
  <2>1. T \in SUBSET Nat
    OBVIOUS
  <2> HIDE DEF T
  <2> QED
    BY <1>3, <1>4, <2>1, Induction
<1>6. Standing(told, h[Len(entries)])
  BY <1>1, <1>5
<1> QED
  BY <1>6 DEF MapEntries, h

\* Events in the order of (time, id).
InOrder(s) == \A j, k \in DOMAIN s : j < k => ~Sorts(s[k], s[j])

Keyed(S) == \A x \in S : x.time \in Nat /\ x.id \in Nat

\* The events before an insertion are the first ones.
LEMMA TheFirstOnes ==
    ASSUME NEW n \in Nat, NEW K \in SUBSET (1 .. n),
           \A k \in K : \A j \in 1 .. n : j < k => j \in K
    PROVE  /\ K = 1 .. Cardinality(K)
           /\ Cardinality(K) \in 0 .. n
<1>1. CASE K = {}
  <2>1. Cardinality(K) = 0 /\ 1 .. 0 = {}
    BY <1>1, FS_EmptySet
  <2> QED
    BY <1>1, <2>1
<1>2. CASE K # {}
  <2>1. PICK m \in K : \A j \in K : j <= m
    BY <1>2, LastExists
  <2>2. K = 1 .. m
    <3>1. \A j \in 1 .. n : j < m => j \in K
      BY <2>1
    <3>2. \A j \in 1 .. m : j \in K
      BY <2>1, <3>1
    <3>3. \A j \in K : j \in 1 .. m
      BY <2>1
    <3> QED
      BY <3>2, <3>3
  <2>3. Cardinality(1 .. m) = m
    BY <2>1, FS_Interval
  <2> QED
    BY <2>1, <2>2, <2>3
<1> QED
  BY <1>1, <1>2

\* Where an insertion puts the event, and the others.
LEMMA InsertionPuts ==
    ASSUME NEW S, NEW sorted \in Seq(S), NEW e \in S, Keyed(S), InOrder(sorted)
    PROVE  \E c \in 0 .. Len(sorted) :
               /\ Len(Insert(sorted, e)) = Len(sorted) + 1
               /\ \A i \in 1 .. c : Insert(sorted, e)[i] = sorted[i] /\ ~Sorts(e, sorted[i])
               /\ Insert(sorted, e)[c + 1] = e
               /\ \A i \in c + 2 .. Len(sorted) + 1 :
                     Insert(sorted, e)[i] = sorted[i - 1] /\ Sorts(e, sorted[i - 1])
<1> DEFINE K == {k \in DOMAIN sorted : ~Sorts(e, sorted[k])}
           c == Cardinality(K)
<1>1. DOMAIN sorted = 1 .. Len(sorted) /\ Len(sorted) \in Nat
      /\ \A k \in 1 .. Len(sorted) : sorted[k] \in S
  OBVIOUS
<1>2. ASSUME NEW k \in K, NEW j \in 1 .. Len(sorted), j < k PROVE j \in K
  <2>1. ~Sorts(e, sorted[k]) /\ ~Sorts(sorted[k], sorted[j])
    BY <1>1, <1>2 DEF InOrder
  <2>2. /\ e.time \in Nat /\ e.id \in Nat /\ sorted[k].time \in Nat /\ sorted[k].id \in Nat
        /\ sorted[j].time \in Nat /\ sorted[j].id \in Nat
    BY <1>1 DEF Keyed
  <2>3. ~Sorts(e, sorted[j])
    BY <2>1, <2>2 DEF Sorts
  <2> QED
    BY <1>1, <2>3
<1>3. K = 1 .. c /\ c \in 0 .. Len(sorted)
  <2>1. K \in SUBSET (1 .. Len(sorted))
    BY <1>1
  <2> HIDE DEF K
  <2> QED
    BY <1>1, <1>2, <2>1, TheFirstOnes
<1> DEFINE front == SubSeq(sorted, 1, (c + 1) - 1)
           back == SubSeq(sorted, c + 1, Len(sorted))
<1>4. Insert(sorted, e) = front \o <<e>> \o back
  BY DEF Insert, InsertAt
<1>5. \A i \in 1 .. c : ~Sorts(e, sorted[i])
  BY <1>3
<1>6. ASSUME NEW i \in c + 1 .. Len(sorted) PROVE Sorts(e, sorted[i])
  <2>1. i \in DOMAIN sorted /\ i \notin 1 .. c
    BY <1>1, <1>3
  <2>2. i \notin K
    BY <1>3, <2>1
  <2> QED
    BY <2>1, <2>2
<1> HIDE DEF c
<1>7. (c + 1) - 1 = c /\ c \in Nat
  BY <1>3
<1>8. /\ front \in Seq(S) /\ Len(front) = c
      /\ \A i \in 1 .. c : front[i] = sorted[i]
  BY <1>1, <1>3, <1>7, SubSeqProperties
<1>9. /\ back \in Seq(S) /\ Len(back) = Len(sorted) - c
      /\ \A i \in 1 .. Len(sorted) - c : back[i] = sorted[c + i]
  <2>1. c + 1 \in Int /\ Len(sorted) \in Int
        /\ c + 1 .. Len(sorted) \subseteq 1 .. Len(sorted)
    BY <1>1, <1>3
  <2>2. /\ back \in Seq(S)
        /\ Len(back) = IF c + 1 <= Len(sorted) THEN Len(sorted) - (c + 1) + 1 ELSE 0
        /\ \A i \in 1 .. Len(sorted) - (c + 1) + 1 : back[i] = sorted[(c + 1) + i - 1]
    BY <1>1, <2>1, SubSeqProperties
  <2> HIDE DEF back
  <2>3. Len(back) = Len(sorted) - c
    <3>1. c \in Int /\ Len(sorted) \in Int /\ c <= Len(sorted)
      BY <1>1, <1>3
    <3> QED
      BY <2>2, <3>1
  <2>4. ASSUME NEW i \in 1 .. Len(sorted) - c PROVE back[i] = sorted[c + i]
    <3>1. i \in 1 .. Len(sorted) - (c + 1) + 1 /\ (c + 1) + i - 1 = c + i
      BY <1>1, <1>3
    <3>2. back[i] = sorted[(c + 1) + i - 1]
      BY <2>2, <3>1
    <3> QED
      BY <3>1, <3>2
  <2> QED
    BY <2>2, <2>3, <2>4
<1> HIDE DEF front, back
<1>10. <<e>> \in Seq(S) /\ Len(<<e>>) = 1 /\ <<e>>[1] = e
  OBVIOUS
<1> DEFINE upto == front \o <<e>>
<1>11. /\ upto \in Seq(S) /\ Len(upto) = c + 1
       /\ \A i \in 1 .. c : upto[i] = sorted[i]
       /\ upto[c + 1] = e
  <2>1. /\ upto \in Seq(S) /\ Len(upto) = Len(front) + Len(<<e>>)
        /\ \A i \in 1 .. Len(front) + Len(<<e>>) :
              upto[i] = IF i <= Len(front) THEN front[i] ELSE <<e>>[i - Len(front)]
    BY <1>8, <1>10, ConcatProperties
  <2> HIDE DEF upto
  <2>2. c + 1 \in 1 .. c + 1 /\ ~(c + 1 <= c) /\ (c + 1) - c = 1
    BY <1>7
  <2>3. \A i \in 1 .. c : i \in 1 .. c + 1 /\ i <= c
    BY <1>7
  <2> QED
    BY <1>8, <1>10, <2>1, <2>2, <2>3
<1> HIDE DEF upto
<1>12. /\ Len(upto \o back) = Len(sorted) + 1
       /\ \A i \in 1 .. c + 1 : (upto \o back)[i] = upto[i]
       /\ \A i \in c + 2 .. Len(sorted) + 1 : (upto \o back)[i] = sorted[i - 1]
  <2>1. /\ Len(upto \o back) = Len(upto) + Len(back)
        /\ \A i \in 1 .. Len(upto) + Len(back) :
              (upto \o back)[i] = IF i <= Len(upto) THEN upto[i] ELSE back[i - Len(upto)]
    BY <1>9, <1>11, ConcatProperties
  <2>2. Len(upto) + Len(back) = Len(sorted) + 1
    BY <1>1, <1>3, <1>9, <1>11
  <2>3. \A i \in 1 .. c + 1 : i \in 1 .. Len(sorted) + 1 /\ i <= c + 1
    BY <1>1, <1>3
  <2>4. \A i \in c + 2 .. Len(sorted) + 1 :
            /\ i \in 1 .. Len(sorted) + 1 /\ ~(i <= c + 1)
            /\ i - (c + 1) \in 1 .. Len(sorted) - c /\ c + (i - (c + 1)) = i - 1
    BY <1>1, <1>3
  <2> QED
    BY <1>9, <1>11, <2>1, <2>2, <2>3, <2>4
<1>13. Insert(sorted, e) = upto \o back
  BY <1>4 DEF upto
<1>14. \A i \in c + 2 .. Len(sorted) + 1 : i - 1 \in c + 1 .. Len(sorted)
  BY <1>1, <1>3
<1>15. \A i \in 1 .. c : i \in 1 .. c + 1
  BY <1>7
<1>16. c + 1 \in 1 .. c + 1
  BY <1>7
<1> QED
  BY <1>3, <1>5, <1>6, <1>11, <1>12, <1>13, <1>14, <1>15, <1>16

\* An insertion keeps the order, and what was there.
LEMMA InsertedInOrder ==
    ASSUME NEW S, NEW sorted \in Seq(S), NEW e \in S, Keyed(S), InOrder(sorted)
    PROVE  /\ InOrder(Insert(sorted, e))
           /\ ToSet(Insert(sorted, e)) = ToSet(sorted) \cup {e}
<1> DEFINE r == Insert(sorted, e)
           n == Len(sorted)
<1>1. n \in Nat /\ DOMAIN sorted = 1 .. n /\ \A k \in 1 .. n : sorted[k] \in S
  OBVIOUS
<1>2. r \in Seq(S)
  BY InsertedIsSequence
<1>3. PICK c \in 0 .. n :
          /\ Len(r) = n + 1
          /\ \A i \in 1 .. c : r[i] = sorted[i] /\ ~Sorts(e, sorted[i])
          /\ r[c + 1] = e
          /\ \A i \in c + 2 .. n + 1 : r[i] = sorted[i - 1] /\ Sorts(e, sorted[i - 1])
  BY InsertionPuts
<1> HIDE DEF r, n
<1>4. DOMAIN r = 1 .. n + 1 /\ c \in Nat
  BY <1>1, <1>2, <1>3
<1>5. \A j, k \in 1 .. n : j < k => ~Sorts(sorted[k], sorted[j])
  BY <1>1 DEF InOrder
<1>6. ASSUME NEW j \in 1 .. n + 1, NEW k \in 1 .. n + 1, j < k
      PROVE  ~Sorts(r[k], r[j])
  <2>1. CASE k <= c
    <3>1. j \in 1 .. c /\ k \in 1 .. c /\ j \in 1 .. n /\ k \in 1 .. n
      BY <1>1, <1>4, <1>6, <2>1
    <3> QED
      BY <1>3, <1>5, <1>6, <3>1
  <2>2. CASE k = c + 1
    <3>1. j \in 1 .. c
      BY <1>4, <1>6, <2>2
    <3> QED
      BY <1>3, <2>2, <3>1
  <2>3. CASE k > c + 1 /\ j <= c
    <3>1. /\ j \in 1 .. c /\ k \in c + 2 .. n + 1
          /\ j \in 1 .. n /\ k - 1 \in 1 .. n /\ j < k - 1
      BY <1>1, <1>4, <2>3
    <3> QED
      BY <1>3, <1>5, <3>1
  <2>4. CASE k > c + 1 /\ j = c + 1
    <3>1. k \in c + 2 .. n + 1 /\ k - 1 \in 1 .. n
      BY <1>1, <1>4, <2>4
    <3>2. r[j] = e /\ r[k] = sorted[k - 1] /\ Sorts(e, sorted[k - 1])
      BY <1>3, <2>4, <3>1
    <3>3. sorted[k - 1].time \in Nat /\ sorted[k - 1].id \in Nat /\ e.time \in Nat /\ e.id \in Nat
      BY <1>1, <3>1 DEF Keyed
    <3>4. ~Sorts(sorted[k - 1], e)
      BY <3>2, <3>3 DEF Sorts
    <3> QED
      BY <3>2, <3>4
  <2>5. CASE k > c + 1 /\ j > c + 1
    <3>1. /\ j \in c + 2 .. n + 1 /\ k \in c + 2 .. n + 1
          /\ j - 1 \in 1 .. n /\ k - 1 \in 1 .. n /\ j - 1 < k - 1
      BY <1>1, <1>4, <1>6, <2>5
    <3> QED
      BY <1>3, <1>5, <3>1
  <2> QED
    BY <1>1, <1>4, <2>1, <2>2, <2>3, <2>4, <2>5
<1>7. ToSet(r) \subseteq ToSet(sorted) \cup {e}
  <2> SUFFICES ASSUME NEW i \in 1 .. n + 1 PROVE r[i] \in ToSet(sorted) \cup {e}
    BY <1>4 DEF ToSet
  <2>1. CASE i <= c
    <3>1. i \in 1 .. c /\ i \in 1 .. n
      BY <1>1, <1>4, <2>1
    <3> QED
      BY <1>1, <1>3, <3>1 DEF ToSet
  <2>2. CASE i = c + 1
    BY <1>3, <2>2
  <2>3. CASE i > c + 1
    <3>1. i \in c + 2 .. n + 1 /\ i - 1 \in 1 .. n
      BY <1>1, <1>4, <2>3
    <3> QED
      BY <1>1, <1>3, <3>1 DEF ToSet
  <2> QED
    BY <1>1, <1>4, <2>1, <2>2, <2>3
<1>8. e \in ToSet(r)
  <2>1. c + 1 \in 1 .. n + 1
    BY <1>1, <1>4
  <2> QED
    BY <1>3, <1>4, <2>1 DEF ToSet
<1>9. ASSUME NEW i \in 1 .. n PROVE sorted[i] \in ToSet(r)
  <2>1. CASE i <= c
    <3>1. i \in 1 .. c /\ i \in 1 .. n + 1
      BY <1>1, <1>4, <2>1
    <3> QED
      BY <1>3, <1>4, <3>1 DEF ToSet
  <2>2. CASE i > c
    <3>1. i + 1 \in c + 2 .. n + 1 /\ i + 1 \in 1 .. n + 1 /\ (i + 1) - 1 = i
      BY <1>1, <1>4, <2>2
    <3>2. r[i + 1] = sorted[i]
      BY <1>3, <3>1
    <3> QED
      BY <1>4, <3>1, <3>2 DEF ToSet
  <2> QED
    BY <1>1, <1>4, <2>1, <2>2
<1>10. InOrder(r)
  BY <1>4, <1>6 DEF InOrder
<1>11. ToSet(r) = ToSet(sorted) \cup {e}
  BY <1>1, <1>7, <1>8, <1>9 DEF ToSet
<1> QED
  BY <1>10, <1>11 DEF r

\* Sorting puts the events into their order and neither adds nor loses one.
LEMMA SortedInOrder ==
    ASSUME NEW S, NEW events \in Seq(S), Keyed(S)
    PROVE  /\ InOrder(SortEvents(events))
           /\ ToSet(SortEvents(events)) = ToSet(events)
<1> DEFINE h == Sorting(events)
           Upto(n) == {events[k] : k \in 1 .. n}
           T == {n \in Nat : n <= Len(events) =>
                    h[n] \in Seq(S) /\ InOrder(h[n]) /\ ToSet(h[n]) = Upto(n)}
<1>1. /\ Len(events) \in Nat /\ DOMAIN events = 1 .. Len(events)
      /\ \A k \in 1 .. Len(events) : events[k] \in S
  OBVIOUS
<1>2. /\ h[0] = <<>>
      /\ \A k \in 1 .. Len(events) : h[k] = Insert(h[k - 1], events[k])
  BY <1>1, SortingOneByOne
<1> HIDE DEF h
<1>3. 0 \in T
  <2>1. <<>> \in Seq(S) /\ InOrder(<<>>) /\ ToSet(<<>>) = {}
    BY DEF InOrder, ToSet
  <2>2. Upto(0) = {}
    OBVIOUS
  <2> HIDE DEF Upto
  <2> QED
    BY <1>2, <2>1, <2>2
<1>4. ASSUME NEW n \in T PROVE n + 1 \in T
  <2> SUFFICES ASSUME n + 1 <= Len(events)
               PROVE  /\ h[n + 1] \in Seq(S) /\ InOrder(h[n + 1])
                      /\ ToSet(h[n + 1]) = Upto(n + 1)
    OBVIOUS
  <2>1. /\ n + 1 \in 1 .. Len(events) /\ (n + 1) - 1 = n
        /\ h[n] \in Seq(S) /\ InOrder(h[n]) /\ ToSet(h[n]) = Upto(n)
        /\ events[n + 1] \in S
    BY <1>1
  <2>2. h[n + 1] = Insert(h[n], events[n + 1])
    BY <1>2, <2>1
  <2>3. Upto(n + 1) = Upto(n) \cup {events[n + 1]}
    <3>1. n \in Nat /\ 1 .. n + 1 = (1 .. n) \cup {n + 1}
      OBVIOUS
    <3> QED
      BY <3>1
  <2> HIDE DEF Upto, T
  <2>4. Insert(h[n], events[n + 1]) \in Seq(S)
    BY <2>1, InsertedIsSequence
  <2>5. /\ InOrder(Insert(h[n], events[n + 1]))
        /\ ToSet(Insert(h[n], events[n + 1])) = ToSet(h[n]) \cup {events[n + 1]}
    BY <2>1, InsertedInOrder
  <2> QED
    BY <2>1, <2>2, <2>3, <2>4, <2>5
<1>5. T = Nat
  <2>1. T \in SUBSET Nat
    OBVIOUS
  <2> HIDE DEF T
  <2> QED
    BY <1>3, <1>4, <2>1, Induction
<1>6. /\ InOrder(h[Len(events)])
      /\ ToSet(h[Len(events)]) = Upto(Len(events))
  <2>1. Len(events) \in T
    BY <1>1, <1>5
  <2> HIDE DEF Upto
  <2> QED
    BY <1>1, <2>1
<1>7. Upto(Len(events)) = ToSet(events)
  BY <1>1 DEF ToSet
<1> QED
  BY <1>6, <1>7 DEF SortEvents, h

\* What an adapter makes of a whole export.
LEMMA AdaptedStands ==
    ASSUME NEW adapter, NEW told, NEW export, AdaptTrouble(adapter, told, export) = "none",
           WellFormed(export)
    PROVE  /\ Standing(told, Adapt(adapter, told, export))
           /\ InOrder(Adapt(adapter, told, export))
<1>1. /\ adapter \in AdapterNames
      /\ adapter = "policy-engines" => told.engine \in Engines
      /\ adapter = "otel-genai" => export.form = "otlp"
  BY DEF AdaptTrouble
<1>2. InOrder(<<>>)
  BY DEF InOrder
<1> DEFINE events == MapEntries(adapter, told, export.entries)
<1>3. Standing(told, events)
  <2>1. /\ IsSequence(export.entries)
        /\ \A e \in ToSet(export.entries) :
               Numbers(e) /\ (adapter = "otel-genai" /\ "operation" \in DOMAIN e => "id" \in DOMAIN e)
    BY <1>1 DEF WellFormed, Numbers
  <2> QED
    BY <1>1, <2>1, AllEntriesStand
<1> HIDE DEF events
<1>4. events \in Seq(ToSet(events)) /\ Keyed(ToSet(events))
  BY <1>3 DEF Standing, IsSequence, Enveloped, Keyed
<1>5. /\ InOrder(SortEvents(events))
      /\ ToSet(SortEvents(events)) = ToSet(events)
  BY <1>4, SortedInOrder
<1>6. IsSequence(SortEvents(events))
  BY <1>4, SortedIsSequence, OfItsElements
<1>7. Standing(told, SortEvents(events))
  BY <1>3, <1>5, <1>6 DEF Standing, Closed
<1> QED
  BY <1>2, <1>5, <1>7, NoneStands DEF Adapt, events

-----------------------------------------------------------------------------
(*                   What ingest refuses of a stream                       *)

\* What one line changes of what ingest holds.
Held == {"accepted", "quarantined", "ids", "last"}
ReadsOn(acc, l, v, next) ==
    /\ Held \subseteq DOMAIN next
    /\ v # Accept => /\ next.quarantined = Append(acc.quarantined, [line |-> l, reason |-> v])
                     /\ next.accepted = acc.accepted
                     /\ next.ids = acc.ids /\ next.last = acc.last
    /\ v = Accept => /\ next.quarantined = acc.quarantined
                     /\ next.accepted = Append(acc.accepted, l)
                     /\ next.ids = acc.ids \cup {l.id}
                     /\ next.last = [acc.last EXCEPT ![StreamOf(l)] = l.time]

LEMMA ReadSays ==
    ASSUME NEW acc, Held \subseteq DOMAIN acc, NEW l, NEW items
    PROVE  ReadsOn(acc, l, VerdictOn(l, items, acc.ids, acc.last), Read(acc, l, items))
<1> DEFINE v == VerdictOn(l, items, acc.ids, acc.last)
           next == Read(acc, l, items)
<1>1. next =
          IF v # Accept
          THEN [acc EXCEPT !.quarantined = Append(@, [line |-> l, reason |-> v])]
          ELSE [acc EXCEPT !.accepted = Append(@, l), !.ids = @ \cup {l.id},
                           !.last[StreamOf(l)] = l.time]
  BY Zenon DEF Read
<1> HIDE DEF v, next
<1>2. ASSUME v # Accept PROVE ReadsOn(acc, l, v, next)
  BY <1>1, <1>2 DEF Held, ReadsOn
<1>3. ASSUME v = Accept PROVE ReadsOn(acc, l, v, next)
  BY <1>1, <1>3 DEF Held, ReadsOn
<1> QED
  BY <1>2, <1>3 DEF v, next

\* Events that are admissible and in the order of their times are refused only
\* as repeats, and no id of theirs is lost.
LEMMA OnlyRepeatsAreRefused ==
    ASSUME NEW lines, IsSequence(lines), \A x \in ToSet(lines) : x.time \in Nat,
           NEW items, Admissible(lines, items), TimeOrdered(lines)
    PROVE  /\ \A k \in DOMAIN Ingested(lines, items).quarantined :
                  Ingested(lines, items).quarantined[k].reason = "duplicate_id"
           /\ \A x \in ToSet(lines) : \E y \in ToSet(Ingested(lines, items).accepted) :
                  y.id = x.id
           /\ ToSet(Ingested(lines, items).accepted) \subseteq ToSet(lines)
<1> DEFINE h == Reading(lines, items)
           Sources == {StreamOf(lines[k]) : k \in DOMAIN lines}
           Repeats == [line : ToSet(lines), reason : {"duplicate_id"}]
           Good(n) ==
               /\ Held \subseteq DOMAIN h[n]
               /\ h[n].accepted \in Seq(ToSet(lines))
               /\ h[n].quarantined \in Seq(Repeats)
               /\ \A j \in 1 .. n : lines[j].id \in h[n].ids
               /\ \A i \in h[n].ids : \E y \in ToSet(h[n].accepted) : y.id = i
               /\ DOMAIN h[n].last = Sources
               /\ \A s \in Sources :
                     \/ h[n].last[s] = 0
                     \/ \E j \in 1 .. n : StreamOf(lines[j]) = s /\ h[n].last[s] = lines[j].time
           T == {n \in Nat : n <= Len(lines) => Good(n)}
<1>1. /\ Len(lines) \in Nat /\ DOMAIN lines = 1 .. Len(lines)
      /\ \A k \in 1 .. Len(lines) : lines[k] \in ToSet(lines)
  BY DEF IsSequence, ToSet
<1>2. /\ h[0] = NothingReadOf(lines)
      /\ \A k \in 1 .. Len(lines) : h[k] = Read(h[k - 1], lines[k], items)
  BY <1>1, ReadingLineByLine
<1>3. \A k \in 1 .. Len(lines) : StreamOf(lines[k]) \in Sources
  BY <1>1
<1> HIDE DEF h, Sources
<1>4. 0 \in T
  <2>1. /\ Held \subseteq DOMAIN h[0] /\ h[0].accepted = <<>> /\ h[0].quarantined = <<>>
        /\ h[0].ids = {} /\ h[0].last = [s \in Sources |-> 0]
    BY <1>2 DEF NothingReadOf, Held, Sources
  <2>2. <<>> \in Seq(ToSet(lines)) /\ <<>> \in Seq(Repeats)
    OBVIOUS
  <2> HIDE DEF Repeats
  <2>3. Good(0)
    BY <2>1, <2>2
  <2> QED
    BY <2>3
<1>5. ASSUME NEW n \in T PROVE n + 1 \in T
  <2> SUFFICES ASSUME n + 1 <= Len(lines) PROVE Good(n + 1)
    OBVIOUS
  <2> DEFINE l == lines[n + 1]
             v == VerdictOn(l, items, h[n].ids, h[n].last)
  <2>1. /\ n + 1 \in 1 .. Len(lines) /\ (n + 1) - 1 = n /\ n \in Nat /\ Good(n)
        /\ 1 .. n + 1 = (1 .. n) \cup {n + 1}
    BY <1>1
  <2>2. h[n + 1] = Read(h[n], l, items)
    BY <1>2, <2>1
  <2>3. l \in ToSet(lines) /\ l.time \in Nat /\ StreamOf(l) \in Sources
    BY <1>1, <1>3, <2>1
  <2>4. v \in {"duplicate_id", Accept} /\ (v = "duplicate_id" => l.id \in h[n].ids)
    <3>1. /\ l.form = "event"
          /\ items = <<>> \/ l.source \in DeclaredSources(items)
          /\ DeclaredClass(items, l.source) \in {NoClass, l.class}
      BY <1>1, <2>1 DEF Admissible
    <3>2. ~(l.time < h[n].last[StreamOf(l)])
      <4>1. CASE h[n].last[StreamOf(l)] = 0
        BY <2>3, <4>1
      <4>2. ASSUME NEW j \in 1 .. n, StreamOf(lines[j]) = StreamOf(l),
                   h[n].last[StreamOf(l)] = lines[j].time
            PROVE  ~(l.time < h[n].last[StreamOf(l)])
        <5>1. /\ j \in DOMAIN lines /\ n + 1 \in DOMAIN lines /\ j < n + 1
              /\ lines[j].time \in Nat
          BY <1>1, <2>1
        <5>2. lines[j].time <= l.time
          BY <4>2, <5>1 DEF TimeOrdered
        <5> QED
          BY <2>3, <4>2, <5>1, <5>2
      <4> QED
        BY <2>1, <2>3, <4>1, <4>2
    <3> HIDE DEF l
    <3> QED
      BY <3>1, <3>2 DEF VerdictOn, Accept
  <2>5. Held \subseteq DOMAIN h[n]
    BY <2>1
  <2>6. ReadsOn(h[n], l, v, h[n + 1])
    BY <2>2, <2>5, ReadSays
  <2> HIDE DEF l, v
  <2>7. CASE v = Accept
    <3>1. /\ Held \subseteq DOMAIN h[n + 1]
          /\ h[n + 1].quarantined = h[n].quarantined
          /\ h[n + 1].accepted = Append(h[n].accepted, l)
          /\ h[n + 1].ids = h[n].ids \cup {l.id}
          /\ h[n + 1].last = [h[n].last EXCEPT ![StreamOf(l)] = l.time]
      BY <2>6, <2>7 DEF ReadsOn
    <3> DEFINE a == h[n].accepted
               b == h[n + 1].accepted
    <3>2. b \in Seq(ToSet(lines)) /\ ToSet(b) = ToSet(a) \cup {l}
      <4>1. a \in Seq(ToSet(lines)) /\ b = Append(a, l)
        BY <2>1, <3>1
      <4> HIDE DEF a, b
      <4>2. b \in Seq(ToSet(lines)) /\ Len(b) = Len(a) + 1 /\ Len(a) \in Nat
            /\ DOMAIN a = 1 .. Len(a) /\ DOMAIN b = 1 .. Len(a) + 1
            /\ (\A i \in 1 .. Len(a) : b[i] = a[i]) /\ b[Len(a) + 1] = l
        BY <2>3, <4>1
      <4>3. 1 .. Len(a) + 1 = (1 .. Len(a)) \cup {Len(a) + 1}
        BY <4>2
      <4>4. ToSet(a) = {a[i] : i \in 1 .. Len(a)} /\ ToSet(b) = {b[i] : i \in 1 .. Len(a) + 1}
        BY <4>2 DEF ToSet
      <4>5. {b[i] : i \in 1 .. Len(a) + 1} = {b[i] : i \in 1 .. Len(a)} \cup {b[Len(a) + 1]}
        BY <4>3
      <4>6. {b[i] : i \in 1 .. Len(a)} = {a[i] : i \in 1 .. Len(a)}
        BY <4>2
      <4> QED
        BY <4>2, <4>4, <4>5, <4>6
    <3>3. \A j \in 1 .. n + 1 : lines[j].id \in h[n + 1].ids
      BY <2>1, <3>1 DEF l
    <3>4. \A i \in h[n + 1].ids : \E y \in ToSet(b) : y.id = i
      BY <2>1, <3>1, <3>2
    <3>5. /\ DOMAIN h[n + 1].last = Sources
          /\ h[n + 1].last[StreamOf(l)] = l.time
          /\ \A s \in Sources \ {StreamOf(l)} : h[n + 1].last[s] = h[n].last[s]
      BY <2>1, <2>3, <3>1
    <3>6. ASSUME NEW s \in Sources
          PROVE  \/ h[n + 1].last[s] = 0
                 \/ \E j \in 1 .. n + 1 :
                       StreamOf(lines[j]) = s /\ h[n + 1].last[s] = lines[j].time
      <4>1. CASE s = StreamOf(l)
        BY <2>1, <3>5, <4>1 DEF l
      <4>2. CASE s # StreamOf(l)
        BY <2>1, <3>5, <4>2
      <4> QED
        BY <4>1, <4>2
    <3> HIDE DEF Repeats
    <3> QED
      BY <2>1, <3>1, <3>2, <3>3, <3>4, <3>5, <3>6
  <2>8. CASE v = "duplicate_id"
    <3>1. v # Accept
      BY <2>8 DEF Accept
    <3>2. /\ Held \subseteq DOMAIN h[n + 1]
          /\ h[n + 1].quarantined = Append(h[n].quarantined, [line |-> l, reason |-> v])
          /\ h[n + 1].accepted = h[n].accepted
          /\ h[n + 1].ids = h[n].ids /\ h[n + 1].last = h[n].last
      BY <2>6, <3>1 DEF ReadsOn
    <3>3. [line |-> l, reason |-> v] \in Repeats
      BY <2>3, <2>8
    <3>4. l.id \in h[n].ids
      BY <2>4, <2>8
    <3> HIDE DEF v, Repeats
    <3>5. h[n + 1].quarantined \in Seq(Repeats)
      BY <2>1, <3>2, <3>3
    <3>6. \A j \in 1 .. n + 1 : lines[j].id \in h[n + 1].ids
      BY <2>1, <3>2, <3>4 DEF l
    <3> QED
      BY <2>1, <3>2, <3>5, <3>6
  <2> QED
    BY <2>4, <2>7, <2>8
<1>6. T = Nat
  <2>1. T \in SUBSET Nat
    OBVIOUS
  <2> HIDE DEF T
  <2> QED
    BY <1>4, <1>5, <2>1, Induction
<1>7. Good(Len(lines))
  <2> HIDE DEF Good
  <2>1. Len(lines) \in T /\ Len(lines) <= Len(lines)
    BY <1>1, <1>6
  <2> QED
    BY <2>1
<1>8. Ingested(lines, items) = h[Len(lines)]
  BY DEF Ingested, h
<1>9. \A k \in DOMAIN h[Len(lines)].quarantined :
          h[Len(lines)].quarantined[k].reason = "duplicate_id"
  <2>1. h[Len(lines)].quarantined \in Seq(Repeats)
    BY <1>7
  <2> DEFINE q == h[Len(lines)].quarantined
  <2> HIDE DEF q, Repeats
  <2>2. \A k \in DOMAIN q : q[k] \in Repeats
    BY <2>1 DEF q
  <2> QED
    BY <2>2 DEF q, Repeats
<1>10. ToSet(h[Len(lines)].accepted) \subseteq ToSet(lines)
  <2>1. h[Len(lines)].accepted \in Seq(ToSet(lines))
    BY <1>7
  <2> QED
    BY <2>1 DEF ToSet
<1>11. ASSUME NEW x \in ToSet(lines)
       PROVE  \E y \in ToSet(h[Len(lines)].accepted) : y.id = x.id
  <2>1. PICK j \in 1 .. Len(lines) : x = lines[j]
    BY <1>1 DEF ToSet
  <2>2. x.id \in h[Len(lines)].ids
    BY <1>7, <2>1
  <2> HIDE DEF Repeats
  <2> QED
    BY <1>7, <2>2
<1> QED
  BY <1>8, <1>9, <1>10, <1>11

\* A closed stream of such events stands alone.
LEMMA StreamStandsAlone ==
    ASSUME NEW lines, IsSequence(lines), \A x \in ToSet(lines) : x.time \in Nat,
           NEW items, Admissible(lines, items), TimeOrdered(lines), Closed(lines)
    PROVE  LET read == Ingested(lines, items)
           IN  /\ \A k \in DOMAIN read.quarantined :
                      read.quarantined[k].reason = "duplicate_id"
               /\ \A e \in ToSet(read.accepted) : \A x \in Targets(e) :
                      \E o \in ToSet(read.accepted) : Node(o) = x
<1> DEFINE read == Ingested(lines, items)
<1>1. /\ \A k \in DOMAIN read.quarantined : read.quarantined[k].reason = "duplicate_id"
      /\ \A x \in ToSet(lines) : \E y \in ToSet(read.accepted) : y.id = x.id
      /\ ToSet(read.accepted) \subseteq ToSet(lines)
  BY OnlyRepeatsAreRefused
<1> HIDE DEF read
<1>2. \A x, y : x.id = y.id => Node(x) = Node(y)
  BY DEF Node
<1>3. \A e \in ToSet(read.accepted) : \A x \in Targets(e) :
          \E o \in ToSet(read.accepted) : Node(o) = x
  <2> SUFFICES ASSUME NEW e \in ToSet(read.accepted), NEW x \in Targets(e)
               PROVE  \E o \in ToSet(read.accepted) : Node(o) = x
    OBVIOUS
  <2>1. PICK y \in ToSet(lines) : Node(y) = x
    BY <1>1 DEF Closed
  <2>2. PICK o \in ToSet(read.accepted) : o.id = y.id
    BY <1>1
  <2> QED
    BY <1>2, <2>1, <2>2
<1> QED
  BY <1>1, <1>3 DEF read

-----------------------------------------------------------------------------
(*                     The manifests that are written                      *)

\* The sources of events, each listed.
LEMMA SourcesListed ==
    ASSUME NEW events, IsSequence(events)
    PROVE  LET S == {events[j].source : j \in DOMAIN events}
           IN  /\ Cardinality(S) \in Nat
               /\ SetToSeq(S) \in [1 .. Cardinality(S) -> S]
               /\ \A s \in S : \E k \in 1 .. Cardinality(S) : SetToSeq(S)[k] = s
<1> DEFINE S == {events[j].source : j \in DOMAIN events}
           f == [j \in DOMAIN events |-> events[j].source]
           n == Cardinality(S)
           ids == SetToSeq(S)
<1>1. IsFiniteSet(DOMAIN events)
  <2>1. DOMAIN events = 1 .. Len(events) /\ Len(events) \in Nat
    BY DEF IsSequence
  <2> QED
    BY <2>1, FS_Interval
<1>2. f \in Surjection(DOMAIN events, S)
  BY DEF Surjection
<1> HIDE DEF S, f
<1>3. IsFiniteSet(S)
  BY <1>1, <1>2, FS_Surjection
<1>4. n \in Nat /\ ExistsBijection(1 .. n, S)
  BY <1>3, FS_CardinalityType
<1>5. PICK g \in Bijection(1 .. n, S) : TRUE
  BY <1>4 DEF ExistsBijection
<1>6. g \in [1 .. n -> S] /\ IsInjective(g)
  BY <1>5 DEF Bijection, Injection, IsInjective
<1>7. ids \in [1 .. n -> S] /\ IsInjective(ids)
  BY <1>6 DEF SetToSeq
<1>8. IsFiniteSet(1 .. n) /\ Cardinality(1 .. n) = Cardinality(S)
  BY <1>4, FS_Interval
<1> HIDE DEF n, ids
<1>9. ids \in Injection(1 .. n, S)
  BY <1>7 DEF Injection, IsInjective
<1>10. ids \in Surjection(1 .. n, S)
  BY <1>3, <1>8, <1>9, FS_Injection
<1>11. \A s \in S : \E k \in 1 .. n : ids[k] = s
  BY <1>10 DEF Surjection
<1> QED
  BY <1>4, <1>7, <1>11 DEF S, n, ids

\* The manifest of an ingest declares its events.
LEMMA IngestDeclares ==
    ASSUME NEW events, IsSequence(events), NEW class,
           \A x \in ToSet(events) : x.form = "event" /\ x.class = class
    PROVE  Admissible(events, IngestManifest(events).sources)
<1> DEFINE S == {events[j].source : j \in DOMAIN events}
           n == Cardinality(S)
           ids == SetToSeq(S)
           items == IngestManifest(events).sources
<1>1. /\ DOMAIN events = 1 .. Len(events) /\ Len(events) \in Nat
      /\ \A k \in DOMAIN events : events[k].form = "event" /\ events[k].class = class
  BY DEF IsSequence, ToSet
<1>2. /\ n \in Nat /\ ids \in [1 .. n -> S]
      /\ \A s \in S : \E k \in 1 .. n : ids[k] = s
  BY SourcesListed
<1>3. items = [k \in 1 .. n |-> [id |-> ids[k], class |-> ClassIn(events, ids[k])]]
  BY DEF IngestManifest
<1>4. \A k \in DOMAIN events : events[k].source \in S
  OBVIOUS
<1>5. ASSUME NEW s \in S PROVE ClassIn(events, s) = class
  <2> DEFINE ks == {k \in DOMAIN events : events[k].source = s}
  <2>1. ks \in SUBSET (1 .. Len(events)) /\ ks # {}
    BY <1>1
  <2>2. \E k \in ks : \A j \in ks : j <= k
    <3> HIDE DEF ks
    <3> QED
      BY <1>1, <2>1, LastExists
  <2>3. (CHOOSE k \in ks : \A j \in ks : j <= k) \in DOMAIN events
    BY <2>2
  <2> HIDE DEF ks
  <2>4. ClassIn(events, s) = events[CHOOSE k \in ks : \A j \in ks : j <= k].class
    BY DEF ClassIn, ks
  <2> QED
    BY <1>1, <2>3, <2>4
<1> HIDE DEF S, n, ids, items
<1>6. DOMAIN items = 1 .. n
      /\ \A k \in 1 .. n : items[k].id = ids[k] /\ items[k].class = class
  BY <1>2, <1>3, <1>5
<1>7. ASSUME NEW s \in S PROVE s \in DeclaredSources(items)
  BY <1>2, <1>6 DEF DeclaredSources
<1>8. ASSUME NEW s PROVE DeclaredClass(items, s) \in {NoClass, class}
  <2> DEFINE ks == {k \in DOMAIN items : items[k].id = s /\ items[k].class # NoClass}
  <2>1. DeclaredClass(items, s) = IF ks = {} THEN NoClass ELSE items[Max(ks)].class
    BY DEF DeclaredClass
  <2>2. ks \in SUBSET (1 .. n)
    BY <1>6
  <2>3. ASSUME ks # {} PROVE Max(ks) \in 1 .. n
    <3> HIDE DEF ks
    <3>1. \E m \in ks : \A j \in ks : j <= m
      BY <1>2, <2>2, <2>3, LastExists
    <3>2. \E m \in ks : \A j \in ks : m >= j
      BY <1>2, <2>2, <3>1
    <3> QED
      BY <2>2, <3>2 DEF Max
  <2> HIDE DEF ks
  <2> QED
    BY <1>6, <2>1, <2>3
<1> QED
  BY <1>1, <1>4, <1>7, <1>8 DEF Admissible, items

-----------------------------------------------------------------------------
(*                     What has been adapted so far                        *)

BySource(s) ==
    \A j, k \in DOMAIN s : j < k /\ s[j].source = s[k].source => s[j].time <= s[k].time

\* What a collection has pulled is of the sources it has got past, and each
\* source's events are in order, if no two sources have one id.
PulledFrom(sources) ==
    /\ IsSequence(outcomes) /\ Len(outcomes) <= Len(sources)
    /\ \A k \in DOMAIN outcomes : outcomes[k].id = sources[k].id
    /\ IsSequence(pulled) /\ Closed(pulled)
    /\ \A x \in ToSet(pulled) :
          /\ x.form = "event" /\ x.stream = NoStream /\ x.time \in Nat
          /\ \E k \in DOMAIN outcomes : x.source = outcomes[k].id
    /\ IsInjective(SourceIds(cmd)) => BySource(pulled)

\* A command that has ended wrote what it pulled, and no other sources.
Wrote(sources) ==
    phase = "idle" /\ exit \in {0, 1} /\ pulled # <<>> =>
        dir.stream = pulled /\ dir.manifest.sources = sources

IngestAdapts ==
    cmd.kind = "ingest" =>
        /\ pulled \in {<<>>, IngestEvents(cmd)}
        /\ phase # "idle" => exit = NoExit
        /\ phase = "manifest" => dir.stream = pulled
        /\ Wrote(IngestManifest(pulled).sources)

CollectAdapts ==
    cmd.kind = "collect" =>
        /\ PulledFrom(cmd.sources)
        /\ phase # "idle" => exit = NoExit
        /\ phase \in {"plan", "plan_manifest"} => pulled = <<>>
        /\ phase \in {"report", "manifest"} /\ pulled # <<>> => dir.stream = pulled
        /\ Wrote([k \in DOMAIN outcomes |-> [id |-> outcomes[k].id, class |-> NoClass]])

AdaptedInv == IngestAdapts /\ CollectAdapts

LEMMA AdaptedInit == Init => AdaptedInv
BY DEF Init, NoCommand, AdaptedInv, IngestAdapts, CollectAdapts

LEMMA AdaptedStart == ASSUME DescribedInv, StartNext PROVE AdaptedInv'
<1>1. PICK c \in {Head(todo)} : \/ c.kind = "ingest" /\ BeginIngest(c)
                                \/ c.kind = "collect" /\ BeginCollect(c)
                                \/ c.kind = "assess" /\ BeginAssess(c)
  BY DEF StartNext
<1>2. c \in Commands
  BY <1>1 DEF StartNext, DescribedInv, Begun
<1>3. cmd' = c
  BY <1>1 DEF BeginIngest, BeginCollect, BeginAssess
<1>4. CASE c.kind = "ingest" /\ BeginIngest(c)
  BY <1>3, <1>4 DEF BeginIngest, AdaptedInv, IngestAdapts, CollectAdapts, Wrote
<1>5. CASE c.kind = "collect" /\ BeginCollect(c)
  <2>1. /\ pulled' = <<>> /\ outcomes' = <<>> /\ exit' = NoExit
        /\ phase' \in {"plan", "pull"}
    BY <1>5 DEF BeginCollect
  <2>2. IsSequence(c.sources)
    BY <1>2, <1>5, ScenariosAssumption
  <2>3. PulledFrom(cmd.sources)'
    <3>1. IsSequence(<<>>)
      BY OfItsElements, EmptySeq
    <3>3. Len(<<>>) = 0 /\ DOMAIN <<>> = {}
      OBVIOUS
    <3>4. ToSet(<<>>) = {}
      BY <3>3 DEF ToSet
    <3>2. Len(c.sources) \in Nat
      BY <2>2 DEF IsSequence
    <3> QED
      BY <1>3, <2>1, <3>1, <3>2, <3>3, <3>4 DEF PulledFrom, Closed, BySource
  <2> QED
    BY <1>3, <1>5, <2>1, <2>3 DEF AdaptedInv, IngestAdapts, CollectAdapts, Wrote
<1>6. CASE c.kind = "assess" /\ BeginAssess(c)
  BY <1>3, <1>6 DEF AdaptedInv, IngestAdapts, CollectAdapts
<1> QED
  BY <1>1, <1>4, <1>5, <1>6

\* The events of one source more, after those of others.
LEMMA OneSourceMore ==
    ASSUME NEW s, IsSequence(s), BySource(s),
           NEW t, IsSequence(t), InOrder(t), Keyed(ToSet(t)),
           NEW i, \A x \in ToSet(s) : x.source # i, \A x \in ToSet(t) : x.source = i
    PROVE  BySource(s \o t)
<1>1. /\ s \in Seq(ToSet(s) \cup ToSet(t)) /\ t \in Seq(ToSet(s) \cup ToSet(t))
      /\ DOMAIN s = 1 .. Len(s) /\ DOMAIN t = 1 .. Len(t)
      /\ Len(s) \in Nat /\ Len(t) \in Nat
  BY SeqMonotonic DEF IsSequence
<1> DEFINE r == s \o t
<1>2. /\ Len(r) = Len(s) + Len(t) /\ r \in Seq(ToSet(s) \cup ToSet(t))
      /\ \A k \in 1 .. Len(s) + Len(t) : r[k] = IF k <= Len(s) THEN s[k] ELSE t[k - Len(s)]
  BY <1>1, ConcatProperties
<1> HIDE DEF r
<1>3. DOMAIN r = 1 .. Len(s) + Len(t)
  BY <1>2
<1>4. ASSUME NEW j \in DOMAIN r, NEW k \in DOMAIN r, j < k, r[j].source = r[k].source
      PROVE  r[j].time <= r[k].time
  <2>1. CASE k <= Len(s)
    <3>1. j \in DOMAIN s /\ k \in DOMAIN s /\ j <= Len(s)
      BY <1>1, <1>3, <1>4, <2>1
    <3>2. r[j] = s[j] /\ r[k] = s[k]
      BY <1>2, <1>3, <2>1, <3>1
    <3> QED
      BY <1>4, <3>1, <3>2 DEF BySource
  <2>2. CASE j <= Len(s) /\ ~(k <= Len(s))
    <3>1. j \in DOMAIN s /\ k - Len(s) \in DOMAIN t
      BY <1>1, <1>3, <2>2
    <3>2. r[j] = s[j] /\ r[k] = t[k - Len(s)]
      BY <1>2, <1>3, <2>2
    <3>3. s[j] \in ToSet(s) /\ t[k - Len(s)] \in ToSet(t)
      BY <3>1 DEF ToSet
    <3> QED
      BY <1>4, <3>2, <3>3
  <2>3. CASE ~(j <= Len(s)) /\ ~(k <= Len(s))
    <3>1. j - Len(s) \in DOMAIN t /\ k - Len(s) \in DOMAIN t /\ j - Len(s) < k - Len(s)
      BY <1>1, <1>3, <1>4, <2>3
    <3>2. r[j] = t[j - Len(s)] /\ r[k] = t[k - Len(s)]
      BY <1>2, <1>3, <2>3
    <3>3. r[j] \in ToSet(t) /\ r[k] \in ToSet(t)
      BY <3>1, <3>2 DEF ToSet
    <3>4. r[j].time \in Nat /\ r[k].time \in Nat /\ ~Sorts(r[k], r[j])
      BY <3>1, <3>2, <3>3 DEF Keyed, InOrder
    <3> QED
      BY <3>4 DEF Sorts
  <2> QED
    BY <1>1, <1>3, <1>4, <2>1, <2>2, <2>3
<1>5. BySource(r)
  BY <1>4 DEF BySource
<1> QED
  BY <1>5 DEF r

LEMMA PulledOneMore ==
    ASSUME AdaptedInv, DescribedInv, PullSource
    PROVE  PulledFrom(cmd.sources)'
<1>1. /\ cmd.kind = "collect" /\ cmd \in Commands /\ cmd' = cmd
      /\ PulledFrom(cmd.sources)
  BY DEF PullSource, Doing, AdaptedInv, CollectAdapts, DescribedInv, Begun, NoCommand
<1> DEFINE n == Len(outcomes) + 1
           s == cmd.sources[n]
           more == IF PullTrouble(s) # "none" THEN <<>>
                   ELSE Adapt(s.adapter, ToldFor(s), s.export)
<1>2. /\ outcomes' = Append(outcomes, Outcome(s)) /\ pulled' = pulled \o more
      /\ Len(outcomes) < Len(cmd.sources)
  BY DEF PullSource
<1>3. IsSequence(cmd.sources) /\ \A x \in ToSet(cmd.sources) :
          /\ x.id # Absent
          /\ x.export \in {Absent, NoFile} \/ WellFormed(x.export)
  BY <1>1, ScenariosAssumption
<1>4. /\ Len(outcomes) \in Nat /\ Len(cmd.sources) \in Nat
      /\ DOMAIN outcomes = 1 .. Len(outcomes) /\ DOMAIN cmd.sources = 1 .. Len(cmd.sources)
      /\ IsSequence(outcomes)
  BY <1>1, <1>3 DEF PulledFrom, IsSequence
<1>5. n \in DOMAIN cmd.sources /\ s \in ToSet(cmd.sources)
  <2>1. n \in DOMAIN cmd.sources
    BY <1>2, <1>4
  <2> QED
    BY <2>1 DEF ToSet
<1> HIDE DEF s
<1>6. Standing(ToldFor(s), more) /\ InOrder(more)
  <2>1. CASE PullTrouble(s) # "none"
    BY <2>1, NoneStands DEF InOrder
  <2>2. CASE PullTrouble(s) = "none"
    <3>1. /\ s.export \notin {Absent, NoFile}
          /\ AdaptTrouble(s.adapter, ToldFor(s), s.export) = "none"
      BY <2>2 DEF PullTrouble
    <3>2. WellFormed(s.export)
      BY <1>3, <1>5, <3>1
    <3> QED
      BY <2>2, <3>1, <3>2, AdaptedStands
  <2> QED
    BY <2>1, <2>2
<1> HIDE DEF more
<1>7. \A x \in ToSet(more) : x.source = s.id
  BY <1>3, <1>5, <1>6 DEF Standing, Enveloped, ToldFor
<1>8. /\ Len(outcomes') = n /\ DOMAIN outcomes' = 1 .. n /\ IsSequence(outcomes')
      /\ \A k \in 1 .. Len(outcomes) : outcomes'[k] = outcomes[k]
      /\ outcomes'[n] = Outcome(s)
  <2>1. outcomes \in Seq(ToSet(outcomes) \cup {Outcome(s)})
    BY <1>4, SeqMonotonic DEF IsSequence
  <2>2. outcomes' \in Seq(ToSet(outcomes) \cup {Outcome(s)})
    BY <1>2, <2>1
  <2>3. IsSequence(outcomes')
    BY <2>2, OfItsElements
  <2> QED
    BY <1>2, <1>4, <2>1, <2>2, <2>3
<1>9. Outcome(s).id = s.id
  BY DEF Outcome
<1>10. /\ \A k \in DOMAIN outcomes' : outcomes'[k].id = cmd.sources[k].id
       /\ Len(outcomes') <= Len(cmd.sources)
       /\ \A k \in DOMAIN outcomes : k \in DOMAIN outcomes' /\ outcomes'[k].id = outcomes[k].id
  <2>1. \A k \in 1 .. n : k \in 1 .. Len(outcomes) \/ k = n
    BY <1>4
  <2> QED
    BY <1>1, <1>2, <1>4, <1>8, <1>9, <2>1 DEF PulledFrom, s
<1>11. /\ IsSequence(pulled') /\ ToSet(pulled') = ToSet(pulled) \cup ToSet(more)
  <2>1. IsSequence(pulled) /\ IsSequence(more)
    BY <1>1, <1>6 DEF PulledFrom, Standing
  <2>2. pulled \in Seq(ToSet(pulled) \cup ToSet(more)) /\ more \in Seq(ToSet(pulled) \cup ToSet(more))
    BY <2>1, SeqMonotonic DEF IsSequence
  <2>3. pulled \o more \in Seq(ToSet(pulled) \cup ToSet(more))
    BY <2>2, ConcatProperties
  <2> QED
    BY <1>2, <2>1, <2>3, ElementsOfConcat, OfItsElements
<1>12. Closed(pulled')
  BY <1>1, <1>6, <1>11 DEF PulledFrom, Standing, Closed
<1>13. ASSUME NEW x \in ToSet(pulled')
       PROVE  /\ x.form = "event" /\ x.stream = NoStream /\ x.time \in Nat
              /\ \E k \in DOMAIN outcomes' : x.source = outcomes'[k].id
  <2>1. CASE x \in ToSet(pulled)
    BY <1>1, <1>10, <2>1 DEF PulledFrom
  <2>2. CASE x \in ToSet(more)
    <3>1. n \in DOMAIN outcomes'
      BY <1>4, <1>8
    <3> QED
      BY <1>6, <1>7, <1>8, <1>9, <2>2, <3>1 DEF Standing, Enveloped
  <2> QED
    BY <1>11, <2>1, <2>2
<1>14. ASSUME IsInjective(SourceIds(cmd)) PROVE BySource(pulled')
  <2>1. ASSUME NEW x \in ToSet(pulled) PROVE x.source # s.id
    <3>1. PICK k \in DOMAIN outcomes : x.source = cmd.sources[k].id
      BY <1>1 DEF PulledFrom
    <3>2. k \in DOMAIN cmd.sources /\ k # n
      BY <1>2, <1>4
    <3>3. SourceIds(cmd)[k] # SourceIds(cmd)[n]
      BY <1>5, <1>14, <3>2 DEF SourceIds, IsInjective
    <3> QED
      BY <1>5, <3>1, <3>2, <3>3 DEF SourceIds, s
  <2>2. Keyed(ToSet(more))
    BY <1>6 DEF Standing, Enveloped, Keyed
  <2> QED
    BY <1>1, <1>2, <1>6, <1>7, <1>14, <2>1, <2>2, OneSourceMore DEF PulledFrom, Standing
<1> HIDE DEF n
<1> QED
  BY <1>1, <1>8, <1>10, <1>11, <1>12, <1>13, <1>14 DEF PulledFrom

\* A file that is written leaves the stream alone, if it is not the stream.
LEMMA WritesItsFile ==
    ASSUME FourFiles(dir), NEW f \in {"manifest", "stream", "report", "plan"}, NEW x,
           dir' = [dir EXCEPT ![f] = x]
    PROVE  dir'.stream = IF f = "stream" THEN x ELSE dir.stream
BY DEF FourFiles

LEMMA AdaptedCollect ==
    ASSUME DirInv, DescribedInv, AdaptedInv, CollectStep
    PROVE  AdaptedInv'
<1> DEFINE ofOutcomes == [k \in DOMAIN outcomes |-> [id |-> outcomes[k].id, class |-> NoClass]]
<1>1. /\ cmd' = cmd /\ IngestAdapts /\ CollectAdapts /\ FourFiles(dir)
      /\ NoExit \notin {0, 1}
  BY ScenariosAssumption DEF CollectStep, AdaptOne, RefuseExport, WriteIngestManifest,
         RefuseCollect, WritePlan, WritePlanManifest, PullSource, FinishPull, WriteStream,
         WriteCollectReport, WriteCollectManifest, Die, AdaptedInv, DirInv
<1>2. CASE AdaptOne
  BY <1>1, <1>2 DEF AdaptOne, Doing, AdaptedInv, IngestAdapts, CollectAdapts, Wrote
<1>3. CASE RefuseExport
  BY <1>1, <1>3 DEF RefuseExport, Doing, End, collectVars, AdaptedInv, IngestAdapts,
                    CollectAdapts, Wrote
<1>4. CASE WriteIngestManifest
  <2>1. /\ cmd.kind = "ingest" /\ dir.stream = pulled /\ pulled' = pulled /\ phase' = "idle"
        /\ dir' = [dir EXCEPT !.manifest = IngestManifest(pulled)]
        /\ pulled \in {<<>>, IngestEvents(cmd)}
    BY <1>1, <1>4 DEF WriteIngestManifest, Doing, End, collectVars, IngestAdapts
  <2>2. dir'.stream = pulled /\ dir'.manifest = IngestManifest(pulled)
    BY <1>1, <2>1, WritesOneFile, WritesItsFile
  <2> QED
    BY <1>1, <2>1, <2>2 DEF AdaptedInv, IngestAdapts, CollectAdapts, Wrote
<1>5. CASE RefuseCollect
  <2>1. UNCHANGED collectVars /\ phase' = "idle" /\ exit' = 3 /\ cmd.kind = "collect"
    BY <1>5 DEF RefuseCollect, Doing, End
  <2>2. PulledFrom(cmd.sources)'
    BY <1>1, <2>1 DEF CollectAdapts, PulledFrom, BySource, Closed, IsSequence, collectVars
  <2> QED
    BY <1>1, <2>1, <2>2 DEF AdaptedInv, IngestAdapts, CollectAdapts, Wrote
<1>6. CASE WritePlan \/ WritePlanManifest
  <2>1. /\ UNCHANGED collectVars /\ phase' \in {"plan_manifest", "idle"}
        /\ cmd.kind = "collect" /\ pulled = <<>>
        /\ phase' # "idle" => exit' = exit
        /\ phase # "idle"
    BY <1>1, <1>6 DEF WritePlan, WritePlanManifest, Doing, End, CollectAdapts
  <2>2. PulledFrom(cmd.sources)'
    BY <1>1, <2>1 DEF CollectAdapts, PulledFrom, BySource, Closed, IsSequence, collectVars
  <2>3. pulled' = <<>>
    BY <2>1 DEF collectVars
  <2> QED
    BY <1>1, <2>1, <2>2, <2>3 DEF AdaptedInv, IngestAdapts, CollectAdapts, Wrote
<1>7. CASE PullSource
  <2>1. PulledFrom(cmd.sources)'
    BY <1>7, PulledOneMore
  <2>2. cmd.kind = "collect" /\ phase' = "pull" /\ exit' = NoExit
    BY <1>1, <1>7 DEF PullSource, Doing, CollectAdapts
  <2> QED
    BY <1>1, <2>1, <2>2 DEF AdaptedInv, IngestAdapts, CollectAdapts, Wrote
<1>8. CASE FinishPull
  <2>1. /\ UNCHANGED <<dir, exit, collectVars>> /\ cmd.kind = "collect" /\ exit' = NoExit
        /\ phase' \in {"stream", "report"}
        /\ phase' = "report" => pulled = <<>>
    BY <1>1, <1>8 DEF FinishPull, Doing, CollectAdapts
  <2>2. PulledFrom(cmd.sources)'
    BY <1>1, <2>1 DEF CollectAdapts, PulledFrom, BySource, Closed, IsSequence, collectVars
  <2> QED
    BY <1>1, <2>1, <2>2 DEF AdaptedInv, IngestAdapts, CollectAdapts, Wrote, collectVars
<1>9. CASE WriteStream
  <2>1. /\ UNCHANGED <<exit, collectVars>> /\ phase = "stream"
        /\ dir' = [dir EXCEPT !.stream = pulled]
        /\ phase' = IF cmd.kind = "ingest" THEN "manifest" ELSE "report"
    BY <1>9 DEF WriteStream
  <2>2. dir'.stream = pulled' /\ pulled' = pulled
    BY <1>1, <2>1, WritesItsFile DEF collectVars
  <2>3. cmd.kind = "collect" => PulledFrom(cmd.sources)'
    BY <1>1, <2>1 DEF CollectAdapts, PulledFrom, BySource, Closed, IsSequence, collectVars
  <2> QED
    BY <1>1, <2>1, <2>2, <2>3 DEF AdaptedInv, IngestAdapts, CollectAdapts, Wrote
<1>10. CASE WriteCollectReport
  <2>1. /\ UNCHANGED <<exit, collectVars>> /\ phase = "report" /\ cmd.kind = "collect"
        /\ dir' = [dir EXCEPT !.report = outcomes] /\ phase' = "manifest"
    BY <1>10 DEF WriteCollectReport, Doing
  <2>2. dir'.stream = dir.stream /\ pulled' = pulled
    BY <1>1, <2>1, WritesItsFile DEF collectVars
  <2>3. PulledFrom(cmd.sources)'
    BY <1>1, <2>1 DEF CollectAdapts, PulledFrom, BySource, Closed, IsSequence, collectVars
  <2> QED
    BY <1>1, <2>1, <2>2, <2>3 DEF AdaptedInv, IngestAdapts, CollectAdapts, Wrote
<1>11. CASE WriteCollectManifest
  <2> DEFINE ids == [k \in DOMAIN outcomes |-> outcomes[k].id]
  <2>1. PICK files :
          /\ dir' = [dir EXCEPT !.manifest = CollectManifest(ids, files)]
          /\ UNCHANGED collectVars /\ phase = "manifest" /\ phase' = "idle"
          /\ cmd.kind = "collect"
    BY <1>11 DEF WriteCollectManifest, Doing, End
  <2>2. /\ dir'.stream = dir.stream /\ dir'.manifest = CollectManifest(ids, files)
        /\ pulled' = pulled /\ outcomes' = outcomes
    BY <1>1, <2>1, WritesOneFile, WritesItsFile DEF collectVars
  <2>3. dir'.manifest.sources = ofOutcomes
    BY <2>2 DEF CollectManifest
  <2>4. PulledFrom(cmd.sources)'
    BY <1>1, <2>1 DEF CollectAdapts, PulledFrom, BySource, Closed, IsSequence, collectVars
  <2> QED
    BY <1>1, <2>1, <2>2, <2>3, <2>4 DEF AdaptedInv, IngestAdapts, CollectAdapts, Wrote
<1>12. CASE Die
  <2>1. /\ UNCHANGED <<exit, collectVars>> /\ phase # "idle" /\ phase' = "idle"
        /\ cmd.kind \in {"ingest", "collect"}
    BY <1>12 DEF Die
  <2>2. cmd.kind = "collect" => PulledFrom(cmd.sources)'
    BY <1>1, <2>1 DEF CollectAdapts, PulledFrom, BySource, Closed, IsSequence, collectVars
  <2> QED
    BY <1>1, <2>1, <2>2 DEF AdaptedInv, IngestAdapts, CollectAdapts, Wrote, collectVars
<1> QED
  BY <1>2, <1>3, <1>4, <1>5, <1>6, <1>7, <1>8, <1>9, <1>10, <1>11, <1>12 DEF CollectStep

LEMMA AdaptedStep == DirInv /\ DescribedInv /\ AdaptedInv /\ [Next]_vars => AdaptedInv'
<1> SUFFICES ASSUME DirInv, DescribedInv, AdaptedInv, [Next]_vars PROVE AdaptedInv'
  OBVIOUS
<1>1. CASE StartNext
  BY <1>1, AdaptedStart
<1>2. CASE CollectStep
  BY <1>2, AdaptedCollect
<1>3. CASE AssessStep
  BY <1>3, AssessOnlyReads DEF AdaptedInv, IngestAdapts, CollectAdapts
<1>4. CASE UNCHANGED vars
  BY <1>4 DEF vars, collectVars, AdaptedInv, IngestAdapts, CollectAdapts, Wrote, PulledFrom,
              BySource, Closed, IsSequence
<1> QED
  BY <1>1, <1>2, <1>3, <1>4 DEF Next

\* What an ingest adapted stands alone under the manifest it wrote.
LEMMA IngestedStandsAlone ==
    ASSUME NEW c \in Commands, c.kind = "ingest", IngestEvents(c) # <<>>
    PROVE  LET events == IngestEvents(c)
           IN  /\ IsSequence(events) /\ Closed(events) /\ TimeOrdered(events)
               /\ \A x \in ToSet(events) : x.time \in Nat
               /\ Admissible(events, IngestManifest(events).sources)
<1> DEFINE events == IngestEvents(c)
<1>1. /\ AdaptTrouble(c.adapter, c.told, c.export) = "none" /\ WellFormed(c.export)
      /\ events = Adapt(c.adapter, c.told, c.export)
  BY ScenariosAssumption DEF IngestEvents
<1>2. Standing(c.told, events) /\ InOrder(events)
  BY <1>1, AdaptedStands
<1> HIDE DEF events
<1>3. \A x \in ToSet(events) :
        x.form = "event" /\ x.class = c.told.class /\ x.time \in Nat /\ x.id \in Nat
  BY <1>2 DEF Standing, Enveloped
<1>4. Admissible(events, IngestManifest(events).sources)
  BY <1>2, <1>3, IngestDeclares DEF Standing
<1>5. TimeOrdered(events)
  <2>1. ASSUME NEW j \in DOMAIN events, NEW k \in DOMAIN events, j < k
        PROVE  events[j].time <= events[k].time
    <3>1. events[j] \in ToSet(events) /\ events[k] \in ToSet(events)
      BY DEF ToSet
    <3>2. ~Sorts(events[k], events[j])
      BY <1>2, <2>1 DEF InOrder
    <3> QED
      BY <1>3, <3>1, <3>2 DEF Sorts
  <2> QED
    BY <2>1 DEF TimeOrdered
<1> QED
  BY <1>2, <1>3, <1>4, <1>5 DEF Standing, events

\* So does what a collection adapted, of sources no two of which have one id.
LEMMA CollectedStandsAlone ==
    ASSUME NEW sources, PulledFrom(sources), IsInjective(SourceIds(cmd))
    PROVE  LET items == [k \in DOMAIN outcomes |-> [id |-> outcomes[k].id, class |-> NoClass]]
           IN  /\ IsSequence(pulled) /\ Closed(pulled) /\ TimeOrdered(pulled)
               /\ \A x \in ToSet(pulled) : x.time \in Nat
               /\ Admissible(pulled, items)
<1> DEFINE items == [k \in DOMAIN outcomes |-> [id |-> outcomes[k].id, class |-> NoClass]]
<1>1. /\ IsSequence(pulled) /\ Closed(pulled) /\ BySource(pulled)
      /\ \A x \in ToSet(pulled) :
            /\ x.form = "event" /\ x.stream = NoStream /\ x.time \in Nat
            /\ \E k \in DOMAIN outcomes : x.source = outcomes[k].id
  BY DEF PulledFrom
<1>2. \A k \in DOMAIN pulled : pulled[k] \in ToSet(pulled)
  BY DEF ToSet
<1>3. \A k \in DOMAIN pulled : pulled[k].form = "event" /\ StreamOf(pulled[k]) = pulled[k].source
  BY <1>1, <1>2 DEF StreamOf
<1>4. TimeOrdered(pulled)
  BY <1>1, <1>3 DEF TimeOrdered, BySource
<1>5. \A k \in DOMAIN items : items[k].class = NoClass
  OBVIOUS
<1>6. \A x \in ToSet(pulled) : x.source \in DeclaredSources(items)
  BY <1>1 DEF DeclaredSources
<1> HIDE DEF items
<1>7. \A i : DeclaredClass(items, i) = NoClass
  BY <1>5 DEF DeclaredClass
<1>8. Admissible(pulled, items)
  BY <1>2, <1>3, <1>6, <1>7 DEF Admissible
<1> QED
  BY <1>1, <1>4, <1>8 DEF items

\* Whatever the exports hold and wherever earlier commands died: what an
\* ingest has just written, or a collection of sources with different ids, is
\* refused by a later ingest only where ids repeat, and every event an
\* accepted one refers to was accepted too (adapters' refs and order,
\* run_collect's concatenation, _write_event_bundle's manifest).
THEOREM AdaptedStandsAloneAlways == Spec => []AdaptedStandsAlone
<1>1. DescribedInv /\ AdaptedInv => AdaptedStandsAlone
  <2> SUFFICES ASSUME DescribedInv, AdaptedInv,
                      phase = "idle", cmd.kind \in {"ingest", "collect"},
                      exit \in {0, 1}, pulled # <<>>,
                      cmd.kind = "collect" => IsInjective(SourceIds(cmd))
               PROVE  LET read == Ingested(dir.stream, dir.manifest.sources)
                      IN  /\ \A k \in DOMAIN read.quarantined :
                                 read.quarantined[k].reason = "duplicate_id"
                          /\ \A e \in ToSet(read.accepted) : \A x \in Targets(e) :
                                 \E o \in ToSet(read.accepted) : Node(o) = x
    BY DEF AdaptedStandsAlone
  <2> DEFINE items == dir.manifest.sources
  <2>1. cmd \in Commands
    BY DEF DescribedInv, Begun, NoCommand
  <2>2. /\ dir.stream = pulled
        /\ IsSequence(pulled) /\ Closed(pulled) /\ TimeOrdered(pulled)
        /\ \A x \in ToSet(pulled) : x.time \in Nat
        /\ Admissible(pulled, items)
    <3>1. CASE cmd.kind = "ingest"
      <4>1. /\ pulled = IngestEvents(cmd) /\ dir.stream = pulled
            /\ items = IngestManifest(pulled).sources
        BY <3>1 DEF AdaptedInv, IngestAdapts, Wrote
      <4> QED
        BY <2>1, <3>1, <4>1, IngestedStandsAlone
    <3>2. CASE cmd.kind = "collect"
      <4>1. /\ PulledFrom(cmd.sources) /\ dir.stream = pulled
            /\ items = [k \in DOMAIN outcomes |-> [id |-> outcomes[k].id, class |-> NoClass]]
        BY <3>2 DEF AdaptedInv, CollectAdapts, Wrote
      <4> QED
        BY <3>2, <4>1, CollectedStandsAlone
    <3> QED
      BY <3>1, <3>2
  <2> QED
    BY <2>2, StreamStandsAlone
<1>2. Spec => [](DirInv /\ DescribedInv /\ AdaptedInv)
  <2>1. Init => DirInv /\ DescribedInv /\ AdaptedInv
    BY DirInit, DescribedInit, AdaptedInit
  <2>2. DirInv /\ DescribedInv /\ AdaptedInv /\ [Next]_vars
        => (DirInv /\ DescribedInv /\ AdaptedInv)'
    BY DirStep, DescribedStep, AdaptedStep
  <2> QED
    BY <2>1, <2>2, PTL DEF Spec
<1> QED
  BY <1>1, <1>2, PTL


-----------------------------------------------------------------------------
(*                      What a report that may be signed is                *)

\* Every control the run judges by has an assertion, and its last one is of
\* this subject.
ClosedBy(found, used, subject) ==
    \A c \in ToSet(used) : \A x \in ToSet(c.controls) :
        \E k \in DOMAIN found :
            /\ found[k].control = x.id
            /\ found[k].subject = subject.id
            /\ \A j \in DOMAIN found : found[j].control = x.id => j <= k

\* A run judges its subjects in their order, and each by every control.
TurnsTaken ==
    cmd.kind = "assess" =>
        /\ phase \in {"assess", "resolved", "ingested"} => turn = 1
        /\ phase \in {"judging", "reported"} =>
            /\ turn \in 1 .. Len(cmd.subjects) + 1
            /\ turn > 1 => ClosedBy(assertions, catalogs, cmd.subjects[turn - 1])

\* The files beside a report are of the events it was judged on.
FilesDescribed ==
    cmd.kind = "assess" /\ phase \in {"judging", "reported"} =>
        /\ out.coverage = [k \in DOMAIN cmd.subjects |-> CoverageOf(cmd.subjects[k], accepted)]
        /\ out.applicability = Statements(cmd.subjects, accepted)

\* A run that has just reported has judged its last subject.
ReportedAll ==
    phase = "reported" =>
        /\ cmd.kind = "assess" /\ turn > Len(cmd.subjects)
        /\ \A r \in out.report :
            /\ r.run = cmd /\ r.accepted = accepted
            /\ r.catalogs = catalogs /\ r.assertions = assertions
            /\ r.limitations = Limitations(cmd.ask)

WholeInv == TurnsTaken /\ FilesDescribed /\ ReportedAll

\* What is judged last closes what was judged before.
LEMMA ClosedByConcat ==
    ASSUME NEW found, IsSequence(found), NEW more, IsSequence(more), NEW used, NEW subject,
           \A a \in ToSet(more) : a.subject = subject.id,
           ByAll(more, used)
    PROVE  ClosedBy(found \o more, used, subject)
<1> DEFINE both == found \o more
<1> SUFFICES ASSUME NEW c \in ToSet(used), NEW x \in ToSet(c.controls)
             PROVE  \E k \in DOMAIN both :
                        /\ both[k].control = x.id
                        /\ both[k].subject = subject.id
                        /\ \A j \in DOMAIN both : both[j].control = x.id => j <= k
  BY DEF ClosedBy
<1> DEFINE S == ToSet(found) \cup ToSet(more)
           K == {k \in DOMAIN more : more[k].control = x.id}
<1>1. /\ DOMAIN found = 1 .. Len(found) /\ Len(found) \in Nat
      /\ DOMAIN more = 1 .. Len(more) /\ Len(more) \in Nat
  BY FinitelyManyIndices
<1>2. /\ DOMAIN both = 1 .. Len(found) + Len(more)
      /\ \A i \in 1 .. Len(found) + Len(more) :
             both[i] = IF i <= Len(found) THEN found[i] ELSE more[i - Len(found)]
  <2>1. found \in Seq(S) /\ more \in Seq(S)
    BY SeqMonotonic DEF IsSequence
  <2> HIDE DEF S
  <2>2. /\ Len(both) = Len(found) + Len(more) /\ both \in Seq(S)
        /\ \A i \in 1 .. Len(found) + Len(more) :
               both[i] = IF i <= Len(found) THEN found[i] ELSE more[i - Len(found)]
    BY <2>1, ConcatProperties
  <2> HIDE DEF both
  <2> QED
    BY <2>2
<1> HIDE DEF both
<1>3. K # {} /\ K \in SUBSET (1 .. Len(more))
  <2>1. PICK a \in ToSet(more) : a.control = x.id
    BY DEF ByAll
  <2> QED
    BY <1>1, <2>1 DEF ToSet
<1>4. PICK m \in K : \A j \in K : j <= m
  <2> HIDE DEF K
  <2> QED
    BY <1>1, <1>3, LastExists
<1>5. m \in 1 .. Len(more) /\ more[m].control = x.id /\ more[m].subject = subject.id
  BY <1>1, <1>4 DEF ToSet
<1> DEFINE k == Len(found) + m
<1>6. k \in 1 .. Len(found) + Len(more) /\ ~(k <= Len(found)) /\ k - Len(found) = m
  BY <1>1, <1>5
<1>7. both[k] = more[m] /\ k \in DOMAIN both
  BY <1>2, <1>6
<1>8. ASSUME NEW j \in DOMAIN both, both[j].control = x.id PROVE j <= k
  <2>1. j \in 1 .. Len(found) + Len(more)
    BY <1>2
  <2>2. CASE j <= Len(found)
    BY <1>1, <1>5, <2>1, <2>2
  <2>3. CASE ~(j <= Len(found))
    <3>1. j - Len(found) \in 1 .. Len(more)
      BY <1>1, <2>1, <2>3
    <3>2. j - Len(found) \in K
      BY <1>1, <1>2, <1>8, <2>1, <2>3, <3>1
    <3>3. j - Len(found) <= m
      BY <1>4, <3>2
    <3> QED
      BY <1>1, <1>5, <2>1, <3>3
  <2> QED
    BY <2>2, <2>3
<1> QED
  BY <1>5, <1>7, <1>8

\* Nothing is under way at first.
LEMMA WholeInit == Init => WholeInv
<1> SUFFICES ASSUME Init PROVE WholeInv
  OBVIOUS
<1>1. phase = "idle" /\ cmd.kind = "none"
  BY DEF Init, NoCommand
<1> QED
  BY <1>1 DEF WholeInv, TurnsTaken, FilesDescribed, ReportedAll

\* The next command has judged nobody.
LEMMA WholeStart == ASSUME StartNext PROVE WholeInv'
<1>1. PICK c \in {Head(todo)} : \/ c.kind = "ingest" /\ BeginIngest(c) /\ UNCHANGED assessVars
                                \/ c.kind = "collect" /\ BeginCollect(c) /\ UNCHANGED assessVars
                                \/ c.kind = "assess" /\ BeginAssess(c)
  BY DEF StartNext
<1>2. phase' \in {"ingest", "plan", "pull", "assess"}
  BY <1>1 DEF BeginIngest, BeginCollect, BeginAssess
<1>3. cmd'.kind = "assess" => turn' = 1
  BY <1>1 DEF BeginIngest, BeginCollect, BeginAssess
<1> QED
  BY <1>2, <1>3 DEF WholeInv, TurnsTaken, FilesDescribed, ReportedAll

\* A run that stops has nothing under way.
LEMMA WholeIdle == ASSUME phase' = "idle" PROVE WholeInv'
BY DEF WholeInv, TurnsTaken, FilesDescribed, ReportedAll

\* The subjects of a run are listed.
LEMMA SubjectsListed ==
    ASSUME DescribedInv, cmd.kind = "assess"
    PROVE  /\ cmd \in Commands /\ IsSequence(cmd.subjects)
           /\ DOMAIN cmd.subjects = 1 .. Len(cmd.subjects)
           /\ Len(cmd.subjects) \in Nat
<1>1. cmd \in Commands
  BY DEF DescribedInv, Begun, NoCommand
<1>2. IsSequence(cmd.subjects)
  BY <1>1, ScenariosAssumption
<1> QED
  BY <1>1, <1>2, FinitelyManyIndices

\* Each turn judges one subject by every control.
LEMMA WholeJudged ==
    ASSUME ReportsInv, DescribedInv, WholeInv, JudgeSubject
    PROVE  WholeInv'
<1> DEFINE subject == cmd.subjects[turn]
           more == Judge(subject, accepted, catalogs, cmd.domain)
<1>1. /\ Running("assess", "judging") /\ turn <= Len(cmd.subjects)
      /\ assertions' = assertions \o more /\ turn' = turn + 1
      /\ UNCHANGED <<dir, cmd, exit, phase, catalogs, accepted, out>>
  BY DEF JudgeSubject
<1>2. Listing(catalogs) /\ IsSequence(assertions)
  BY DEF ReportsInv, Ordered
<1>3. turn \in 1 .. Len(cmd.subjects) + 1 /\ Len(cmd.subjects) \in Nat
  BY <1>1, SubjectsListed DEF WholeInv, TurnsTaken, Running
<1>4. turn + 1 \in 1 .. Len(cmd.subjects) + 1 /\ (turn + 1) - 1 = turn
  BY <1>1, <1>3
<1>5. IsSequence(more)
  BY <1>2, JudgedInOrder
<1>6. \A a \in ToSet(more) : a.subject = subject.id
  <2> SUFFICES ASSUME NEW a \in ToSet(more) PROVE a.subject = subject.id
    OBVIOUS
  <2> DEFINE E == {e \in ToSet(accepted) : e.subject = subject.id}
  <2>1. OfControls(more, E, catalogs, subject)
    BY <1>2, JudgedInOrder
  <2> HIDE DEF E, more, subject
  <2>2. PICK g, c, x : a = AssertControl(g, E, c, x, subject)
    BY <2>1 DEF OfControls
  <2> QED
    BY <2>2, AssertionIsOf
<1>7. ByAll(more, catalogs)
  BY <1>2, JudgedInOrder
<1> HIDE DEF more
<1>8. ClosedBy(assertions \o more, catalogs, subject)
  <2> HIDE DEF subject
  <2> QED
    BY <1>2, <1>5, <1>6, <1>7, ClosedByConcat
<1>9. TurnsTaken'
  <2>1. ClosedBy(assertions', catalogs', cmd'.subjects[turn' - 1])
    BY <1>1, <1>4, <1>8
  <2>2. turn' \in 1 .. Len(cmd'.subjects) + 1 /\ phase' = "judging"
    BY <1>1, <1>4 DEF Running
  <2> QED
    BY <2>1, <2>2 DEF TurnsTaken
<1>10. FilesDescribed' /\ ReportedAll'
  BY <1>1 DEF WholeInv, FilesDescribed, ReportedAll, Running
<1> QED
  BY <1>9, <1>10 DEF WholeInv

\* Each step of a run leaves its files and its turns in step.
LEMMA WholeAssess ==
    ASSUME ReportsInv, DescribedInv, WholeInv, AssessStep
    PROVE  WholeInv'
<1>1. CASE RefuseGate \/ RefuseCatalogs \/ RefuseBundle \/ RefuseReport \/ Conclude
  <2>1. phase' = "idle"
    BY <1>1 DEF RefuseGate, RefuseCatalogs, RefuseBundle, RefuseReport, Conclude, End
  <2> QED
    BY <2>1, WholeIdle
<1>2. CASE ResolveCatalogs \/ IngestBundle
  <2>1. /\ cmd' = cmd /\ turn' = turn /\ phase' \in {"resolved", "ingested"}
        /\ phase \in {"assess", "resolved"}
    BY <1>2 DEF ResolveCatalogs, IngestBundle, Running
  <2> QED
    BY <2>1 DEF WholeInv, TurnsTaken, FilesDescribed, ReportedAll
<1>3. CASE Describe
  <2> DEFINE g == BuildGraph(accepted, cmd.domain)
             c == [k \in DOMAIN cmd.subjects |-> CoverageOf(cmd.subjects[k], accepted)]
             a == Statements(cmd.subjects, accepted)
  <2>1. /\ Running("assess", "ingested") /\ phase' = "judging"
        /\ UNCHANGED <<cmd, accepted, turn>>
        /\ out' = [out EXCEPT !.graph = g, !.coverage = c, !.applicability = a]
    BY <1>3 DEF Describe
  <2>2. turn = 1 /\ Len(cmd.subjects) \in Nat
    BY <2>1, SubjectsListed DEF WholeInv, TurnsTaken, Running
  <2>3. TurnsTaken'
    <3>1. 1 \in 1 .. Len(cmd.subjects) + 1
      BY <2>2
    <3> QED
      BY <2>1, <2>2, <3>1 DEF TurnsTaken
  <2> HIDE DEF g, c, a
  <2>4. out'.coverage = c /\ out'.applicability = a
    BY <2>1 DEF DescribedInv
  <2>5. FilesDescribed' /\ ReportedAll'
    BY <2>1, <2>4 DEF FilesDescribed, ReportedAll, c, a
  <2> QED
    BY <2>3, <2>5 DEF WholeInv
<1>4. CASE JudgeSubject
  BY <1>4, WholeJudged
<1>5. CASE WriteReport
  <2> DEFINE r == [run |-> cmd, accepted |-> accepted, assertions |-> assertions,
                   catalogs |-> catalogs, limitations |-> Limitations(cmd.ask)]
  <2>1. /\ Running("assess", "judging") /\ turn > Len(cmd.subjects) /\ phase' = "reported"
        /\ out' = [out EXCEPT !.report = {r}]
        /\ UNCHANGED <<cmd, catalogs, accepted, turn, assertions>>
    BY <1>5 DEF WriteReport
  <2>2. /\ r.run = cmd /\ r.accepted = accepted
        /\ r.catalogs = catalogs /\ r.assertions = assertions
        /\ r.limitations = Limitations(cmd.ask)
    OBVIOUS
  <2> HIDE DEF r
  <2>3. /\ out'.report = {r} /\ out'.coverage = out.coverage
        /\ out'.applicability = out.applicability
    BY <2>1 DEF DescribedInv, ReportsInv
  <2>4. TurnsTaken'
    BY <2>1 DEF WholeInv, TurnsTaken, Running
  <2>5. FilesDescribed'
    BY <2>1, <2>3 DEF WholeInv, FilesDescribed, Running
  <2>6. ReportedAll'
    BY <2>1, <2>2, <2>3 DEF ReportedAll, Running
  <2> QED
    BY <2>4, <2>5, <2>6 DEF WholeInv
<1> QED
  BY <1>1, <1>2, <1>3, <1>4, <1>5 DEF AssessStep

LEMMA WholeStep == ReportsInv /\ DescribedInv /\ WholeInv /\ [Next]_vars => WholeInv'
<1> SUFFICES ASSUME ReportsInv, DescribedInv, WholeInv, [Next]_vars PROVE WholeInv'
  OBVIOUS
<1>1. CASE StartNext
  BY <1>1, WholeStart
<1>2. CASE CollectStep /\ UNCHANGED <<assessVars, start, todo, ran>>
  <2>1. cmd' = cmd
    BY <1>2 DEF CollectStep, AdaptOne, RefuseExport, WriteIngestManifest, RefuseCollect,
         WritePlan, WritePlanManifest, PullSource, FinishPull, WriteStream,
         WriteCollectReport, WriteCollectManifest, Die, End, Doing
  <2>2. phase' \in {"assess", "resolved", "ingested", "judging", "reported"} => phase' = phase
    BY <1>2 DEF CollectStep, AdaptOne, RefuseExport, WriteIngestManifest, RefuseCollect,
         WritePlan, WritePlanManifest, PullSource, FinishPull, WriteStream,
         WriteCollectReport, WriteCollectManifest, Die, End, Doing
  <2>3. UNCHANGED <<catalogs, accepted, turn, assertions, out>>
    BY <1>2 DEF assessVars
  <2>5. TurnsTaken'
    BY <2>1, <2>2, <2>3 DEF WholeInv, TurnsTaken
  <2>6. FilesDescribed'
    BY <2>1, <2>2, <2>3 DEF WholeInv, FilesDescribed
  <2>7. ReportedAll'
    BY <2>1, <2>2, <2>3 DEF WholeInv, ReportedAll
  <2> QED
    BY <2>5, <2>6, <2>7 DEF WholeInv
<1>3. CASE AssessStep
  BY <1>3, WholeAssess
<1>4. CASE UNCHANGED vars
  <2>1. UNCHANGED <<cmd, phase, catalogs, accepted, turn, assertions, out>>
    BY <1>4 DEF vars, assessVars
  <2>2. TurnsTaken'
    BY <2>1 DEF WholeInv, TurnsTaken
  <2>3. FilesDescribed'
    BY <2>1 DEF WholeInv, FilesDescribed
  <2>4. ReportedAll'
    BY <2>1 DEF WholeInv, ReportedAll
  <2> QED
    BY <2>2, <2>3, <2>4 DEF WholeInv
<1> QED
  BY <1>1, <1>2, <1>3, <1>4 DEF Next

LEMMA WholeInvariant == Spec => []WholeInv
BY WholeInit, WholeStep, ReportsInvariant, DescribedInvariant, PTL DEF Spec

-----------------------------------------------------------------------------
(*                        What readiness is told of it                     *)

\* A control's severity is that of the catalog that describes it.
LEMMA SeverityIsDescribed ==
    ASSUME NEW used, NEW c \in ToSet(used), NEW x \in ToSet(c.controls)
    PROVE  /\ x.id \in DOMAIN Severities(used)
           /\ Severities(used)[x.id] = SpecOf(used, x.id).severity
<1> DEFINE Places(controls, id) == {k \in DOMAIN controls : controls[k].id = id}
           Holding(id) == {j \in DOMAIN used : Places(used[j].controls, id) # {}}
           last(id) == used[Max(Holding(id))].controls
           of(id) == last(id)[Max(Places(last(id), id))]
           ids == UNION {{y.id : y \in ToSet(d.controls)} : d \in ToSet(used)}
<1>1. Severities(used) = [id \in ids |-> of(id).severity]
  BY DEF Severities
<1>2. SpecOf(used, x.id) = of(x.id)
  BY DEF SpecOf
<1>3. x.id \in ids
  OBVIOUS
<1> HIDE DEF of, ids
<1> QED
  BY <1>1, <1>2, <1>3

\* Only controls of the catalogs have one.
LEMMA SeveritiesAreOf ==
    ASSUME NEW used, NEW id \in DOMAIN Severities(used)
    PROVE  \E c \in ToSet(used) : \E x \in ToSet(c.controls) : x.id = id
BY DEF Severities

\* Of a control whose last assertion is told, that is its outcome.
LEMMA OutcomeIsLast ==
    ASSUME NEW found, IsSequence(found), NEW k \in DOMAIN found,
           \A j \in DOMAIN found : found[j].control = found[k].control => j <= k
    PROVE  /\ found[k].control \in DOMAIN OutcomeByControl(found)
           /\ OutcomeByControl(found)[found[k].control] = found[k].outcome
<1> DEFINE K == {j \in DOMAIN found : found[j].control = found[k].control}
<1>1. k \in K /\ K \subseteq DOMAIN found
  OBVIOUS
<1>2. Max(K) \in K /\ k <= Max(K)
  <2> HIDE DEF K
  <2> QED
    BY <1>1, MaxOfIndices
<1>3. Max(K) <= k /\ Max(K) \in Nat /\ k \in Nat
  <2>1. DOMAIN found \subseteq Nat
    BY FinitelyManyIndices
  <2> QED
    BY <1>2, <2>1
<1>4. Max(K) = k
  BY <1>2, <1>3
<1> HIDE DEF K
<1>5. OutcomeByControl(found)[found[k].control] = found[Max(K)].outcome
  BY <1>1 DEF OutcomeByControl, K
<1> QED
  BY <1>4, <1>5 DEF OutcomeByControl

\* A report that is ready has no reason against it.
LEMMA ReadyHasNoReason ==
    ASSUME NEW found, NEW told, ComputeReadiness(found, told).verdict # "NOT READY"
    PROVE  /\ IntegrityReasons(found.integrity) = {}
           /\ CoverageReasons(found.coverage) = {}
           /\ DriftReasons(found.statements) = {}
           /\ Unproven(found.assertions, told.severities) \subseteq told.gaps
           /\ DeviationReasons(told.deviations, found.assertions, told.severities) = {}
<1> DEFINE unproven == Unproven(found.assertions, told.severities)
           reasons == IntegrityReasons(found.integrity) \cup CoverageReasons(found.coverage)
                   \cup DriftReasons(found.statements)
                   \cup {<<"unproven", c>> : c \in unproven \ told.gaps}
                   \cup DeviationReasons(told.deviations, found.assertions, told.severities)
<1>1. reasons = {}
  BY DEF ComputeReadiness
<1>2. {<<"unproven", c>> : c \in unproven \ told.gaps} = {}
  BY <1>1
<1> QED
  BY <1>1, <1>2

\* Where no statement tells of a drift, every event is declared.
LEMMA NothingDrifts ==
    ASSUME NEW subjects, NEW events, 1 \in DOMAIN subjects,
           DriftReasons(Statements(subjects, events)) = {}, NEW e \in ToSet(events)
    PROVE  \E s \in ToSet(subjects) :
               /\ e.subject = s.id
               /\ e.type = "Decision" /\ Has(e, "decision_type") =>
                      e.data.decision_type \in s.decision_types
               /\ e.type = "BundleLoaded" /\ Has(e, "components") =>
                      e.data.components \subseteq s.components
<1> DEFINE of(k) == Statement(subjects, k, events)
<1>1. \A k \in DOMAIN subjects : of(k).drift = {}
  <2>1. DOMAIN Statements(subjects, events) = DOMAIN subjects
        /\ \A k \in DOMAIN subjects : Statements(subjects, events)[k] = of(k)
    BY DEF Statements
  <2> HIDE DEF of
  <2>2. ASSUME NEW k \in DOMAIN subjects, NEW d \in of(k).drift PROVE FALSE
    <3>1. <<"drift", k, d>> \in DriftReasons(Statements(subjects, events))
      BY <2>1 DEF DriftReasons
    <3> QED
      BY <3>1
  <2> QED
    BY <2>2
<1>2. \A kind, refs : Drifts(kind, refs) = {} => refs = {}
  BY DEF Drifts
<1>3. ASSUME NEW k \in DOMAIN subjects
      PROVE  LET s == subjects[k]
                 E == About(events, s.id)
             IN  /\ ObservedDecisionTypes(E) \subseteq s.decision_types
                 /\ ObservedComponents(E) \subseteq s.components
                 /\ k = 1 => {events[j].subject : j \in DOMAIN events}
                                 \subseteq {subjects[j].id : j \in DOMAIN subjects}
  <2> DEFINE s == subjects[k]
             E == About(events, s.id)
             types == ObservedDecisionTypes(E) \ s.decision_types
             parts == ObservedComponents(E) \ s.components
             others == {events[j].subject : j \in DOMAIN events}
                           \ {subjects[j].id : j \in DOMAIN subjects}
  <2>1. of(k).drift = Drifts("undeclared_decision_type", types)
                      \cup Drifts("undeclared_component", parts)
                      \cup (IF k = 1 THEN Drifts("undeclared_subject", others) ELSE {})
    BY DEF Statement
  <2> HIDE DEF of, types, parts, others
  <2>2. types = {} /\ parts = {} /\ (k = 1 => others = {})
    BY <1>1, <1>2, <2>1
  <2> QED
    BY <2>2 DEF types, parts, others
<1>4. PICK j \in DOMAIN events : e = events[j]
  BY DEF ToSet
<1>5. PICK k \in DOMAIN subjects : subjects[k].id = e.subject
  BY <1>3, <1>4
<1> DEFINE s == subjects[k]
           E == About(events, s.id)
<1>6. s \in ToSet(subjects) /\ e \in E
  BY <1>4, <1>5 DEF ToSet, About
<1>7. /\ ObservedDecisionTypes(E) \subseteq s.decision_types
      /\ ObservedComponents(E) \subseteq s.components
  BY <1>3
<1>8. s.id = e.subject
  BY <1>5
<1> HIDE DEF s, E
<1>9. e.type = "Decision" /\ Has(e, "decision_type") =>
          e.data.decision_type \in s.decision_types
  BY <1>6, <1>7 DEF Has, ObservedDecisionTypes, Values
<1>10. e.type = "BundleLoaded" /\ Has(e, "components") =>
           e.data.components \subseteq s.components
  BY <1>6, <1>7 DEF Has, ObservedComponents, Values
<1> QED
  BY <1>6, <1>8, <1>9, <1>10

\* A deviation without a problem waives what the control's last verdict failed.
LEMMA DeviationIsSound ==
    ASSUME NEW d, NEW controls, NEW results, DeviationProblems(d, controls, results) = {}
    PROVE  /\ d.control \in controls /\ d.family # "INT" /\ d.approver # d.owner
           /\ d.control \in DOMAIN results => results[d.control] = "non-conformant"
<1>1. d.control \in controls
  <2>1. "unknown" \notin DeviationProblems(d, controls, results)
    OBVIOUS
  <2> QED
    BY <2>1 DEF DeviationProblems
<1>2. d.family # "INT"
  <2>1. "integrity" \notin DeviationProblems(d, controls, results)
    OBVIOUS
  <2> QED
    BY <2>1 DEF DeviationProblems
<1>3. DeviationFields \subseteq d.present
  <2>1. "incomplete" \notin DeviationProblems(d, controls, results)
    OBVIOUS
  <2> QED
    BY <2>1 DEF DeviationProblems
<1>4. d.approver # d.owner
  <2>1. "own_approval" \notin DeviationProblems(d, controls, results)
    OBVIOUS
  <2>2. {"owner", "approver"} \subseteq d.present
    BY <1>3 DEF DeviationFields
  <2> QED
    BY <2>1, <2>2 DEF DeviationProblems
<1>5. d.control \in DOMAIN results => results[d.control] # "insufficient_evidence"
  <2>1. "unproven" \notin DeviationProblems(d, controls, results)
    OBVIOUS
  <2> QED
    BY <2>1 DEF DeviationProblems
<1>6. d.control \in DOMAIN results =>
          results[d.control] \in {"insufficient_evidence", "non-conformant"}
  <2>1. "not_a_failure" \notin DeviationProblems(d, controls, results)
    OBVIOUS
  <2> QED
    BY <2>1 DEF DeviationProblems
<1> QED
  BY <1>1, <1>2, <1>4, <1>5, <1>6

\* Readiness lets the report be signed.
Signable(r, told) == ReadyWith(r, told).verdict # "NOT READY"

\* What the report and its files say where nothing speaks against it.
LEMMA ReadyIsWhole ==
    ASSUME ReportsInv, DescribedInv, ExplainedInv, WholeInv,
           phase = "reported", cmd.subjects # <<>>,
           NEW r \in out.report, NEW told, Signable(r, told)
    PROVE  /\ EvidenceIsWhole(told.integrity, cmd.subjects)
           /\ HighIsProven(RatedBy(told), told.gaps)
           /\ \A d \in ToSet(told.deviations) :
                  /\ d.control \in ControlsOf(RatedBy(told))
                  /\ WaivesAFailure(d, cmd.subjects[Len(cmd.subjects)], r.catalogs)
<1> DEFINE rating == RatedBy(told)
           severities == Severities(rating)
           found == [integrity |-> told.integrity, coverage |-> out.coverage,
                     statements |-> out.applicability, assertions |-> assertions]
           by == [severities |-> severities, deviations |-> told.deviations, gaps |-> told.gaps]
<1>1. /\ cmd.kind = "assess" /\ turn > Len(cmd.subjects)
      /\ r.catalogs = catalogs /\ r.assertions = assertions
  BY DEF WholeInv, ReportedAll
<1>2. /\ DOMAIN cmd.subjects = 1 .. Len(cmd.subjects) /\ Len(cmd.subjects) \in Nat
      /\ Len(cmd.subjects) # 0
  <2>1. IsSequence(cmd.subjects)
    BY <1>1, SubjectsListed
  <2>2. cmd.subjects \in Seq(ToSet(cmd.subjects))
    BY <2>1 DEF IsSequence
  <2> QED
    BY <1>1, <2>2, SubjectsListed, EmptySeq
<1>3. /\ IntegrityReasons(told.integrity) = {}
      /\ CoverageReasons(out.coverage) = {}
      /\ DriftReasons(out.applicability) = {}
      /\ Unproven(assertions, severities) \subseteq told.gaps
      /\ DeviationReasons(told.deviations, assertions, severities) = {}
  <2>1. ReadyWith(r, told) = ComputeReadiness(found, by)
    BY <1>1 DEF ReadyWith
  <2>2. ComputeReadiness(found, by).verdict # "NOT READY"
    BY <2>1 DEF Signable
  <2>3. /\ found.integrity = told.integrity /\ found.coverage = out.coverage
        /\ found.statements = out.applicability /\ found.assertions = assertions
        /\ by.severities = severities /\ by.deviations = told.deviations /\ by.gaps = told.gaps
    OBVIOUS
  <2> HIDE DEF found, by, severities
  <2>4. /\ IntegrityReasons(found.integrity) = {}
        /\ CoverageReasons(found.coverage) = {}
        /\ DriftReasons(found.statements) = {}
        /\ Unproven(found.assertions, by.severities) \subseteq by.gaps
        /\ DeviationReasons(by.deviations, found.assertions, by.severities) = {}
    BY <2>2, ReadyHasNoReason
  <2> QED
    BY <2>3, <2>4
<1>4. ToSet(told.integrity) \cap BadIntegrity = {}
  <2> SUFFICES ASSUME NEW k \in DOMAIN told.integrity, told.integrity[k] \in BadIntegrity
               PROVE  FALSE
    BY DEF ToSet
  <2>1. <<"integrity", k>> \in IntegrityReasons(told.integrity)
    BY DEF IntegrityReasons
  <2> QED
    BY <1>3, <2>1
<1>5. ASSUME NEW s \in ToSet(cmd.subjects) PROVE ~ShortOf(s)
  <2>1. PICK k \in DOMAIN cmd.subjects : s = cmd.subjects[k]
    BY DEF ToSet
  <2>2. /\ IsSequence(accepted) /\ IsSequence(s.denominators)
        /\ \A d \in ToSet(s.denominators) : CountsWell(d)
    <3>1. cmd \in Commands
      BY <1>1, SubjectsListed
    <3>2. /\ IsSequence(cmd.subjects[k].denominators)
          /\ \A d \in ToSet(cmd.subjects[k].denominators) :
                 d.counts = NoCounts \/ d.counts \in [DOMAIN d.counts -> Int]
      BY <1>1, <3>1, ScenariosAssumption
    <3> QED
      BY <2>1, <3>2 DEF DescribedInv, CountsWell
  <2>3. DOMAIN out.coverage = DOMAIN cmd.subjects /\ out.coverage[k] = CoverageOf(s, accepted)
    BY <1>1, <2>1 DEF WholeInv, FilesDescribed
  <2>4. ASSUME BelowThreshold(out.coverage[k].types) PROVE FALSE
    <3>2. PICK t \in DOMAIN out.coverage[k].types :
              out.coverage[k].types[t].status = "below_threshold"
      BY <2>4 DEF BelowThreshold
    <3>1. <<"coverage", k, t>> \in CoverageReasons(out.coverage)
      <4> DEFINE types(j) == out.coverage[j].types
                 below(j) == {<<"coverage", j, u>> :
                     u \in {v \in DOMAIN types(j) : types(j)[v].status = "below_threshold"}}
      <4>1. CoverageReasons(out.coverage)
                = {<<"coverage", j>> : j \in {i \in DOMAIN out.coverage :
                                                 out.coverage[i].status = "gap"}}
                  \cup UNION {below(j) : j \in DOMAIN out.coverage}
        BY DEF CoverageReasons
      <4>2. <<"coverage", k, t>> \in below(k)
        BY <3>2
      <4>3. k \in DOMAIN out.coverage
        BY <2>1, <2>3
      <4> HIDE DEF below
      <4> QED
        BY <4>1, <4>2, <4>3
    <3> QED
      BY <1>3, <3>1
  <2> QED
    BY <2>2, <2>3, <2>4, CoverageTells
<1>6. EvidenceIsWhole(told.integrity, cmd.subjects)
  <2>1. out.applicability = Statements(cmd.subjects, accepted) /\ 1 \in DOMAIN cmd.subjects
    <3>1. 1 \in 1 .. Len(cmd.subjects)
      BY <1>2
    <3>2. phase \in {"judging", "reported"}
      OBVIOUS
    <3>3. out.applicability = Statements(cmd.subjects, accepted)
      BY <1>1, <3>2 DEF WholeInv, FilesDescribed
    <3> QED
      BY <1>2, <3>1, <3>3
  <2>2. \A e \in ToSet(accepted) : \E s \in ToSet(cmd.subjects) :
            /\ e.subject = s.id
            /\ e.type = "Decision" /\ Has(e, "decision_type") =>
                   e.data.decision_type \in s.decision_types
            /\ e.type = "BundleLoaded" /\ Has(e, "components") =>
                   e.data.components \subseteq s.components
    BY <1>3, <2>1, NothingDrifts
  <2> QED
    BY <1>4, <1>5, <2>2 DEF EvidenceIsWhole
<1>7. ASSUME NEW a \in ToSet(assertions), a.outcome = "insufficient_evidence",
             a.control \in ControlsOf(rating), SpecOf(rating, a.control).severity = "high"
      PROVE  a.control \in told.gaps
  <2> HIDE DEF rating
  <2>1. PICK c \in ToSet(rating) : \E x \in ToSet(c.controls) : x.id = a.control
    BY <1>7 DEF ControlsOf
  <2>2. PICK x \in ToSet(c.controls) : x.id = a.control
    BY <2>1
  <2>3. a.control \in DOMAIN severities /\ severities[a.control] = "high"
    BY <1>7, <2>2, SeverityIsDescribed
  <2>4. \E k \in DOMAIN assertions : assertions[k].control = a.control
                                     /\ assertions[k].outcome = "insufficient_evidence"
    BY <1>7 DEF ToSet
  <2> HIDE DEF severities
  <2>5. a.control \in Unproven(assertions, severities)
    BY <2>3, <2>4 DEF Unproven
  <2> QED
    BY <1>3, <2>5
<1>8. ASSUME NEW d \in ToSet(told.deviations)
      PROVE  /\ d.control \in ControlsOf(rating)
             /\ WaivesAFailure(d, cmd.subjects[Len(cmd.subjects)], catalogs)
  <2> DEFINE last == cmd.subjects[Len(cmd.subjects)]
             outcomesOf == OutcomeByControl(assertions)
  <2>1. PICK k \in DOMAIN told.deviations : d = told.deviations[k]
    BY DEF ToSet
  <2>2. DeviationProblems(d, DOMAIN severities, outcomesOf) = {}
    <3>1. ASSUME NEW p \in DeviationProblems(d, DOMAIN severities, outcomesOf) PROVE FALSE
      <4> HIDE DEF severities
      <4>1. <<"deviation", k, p>> \in DeviationReasons(told.deviations, assertions, severities)
        <5> DEFINE problems(j) == {<<"deviation", j, q>> :
                       q \in DeviationProblems(told.deviations[j], DOMAIN severities, outcomesOf)}
        <5>1. DeviationReasons(told.deviations, assertions, severities)
                  = UNION {problems(j) : j \in DOMAIN told.deviations}
          BY DEF DeviationReasons
        <5>2. <<"deviation", k, p>> \in problems(k)
          <6> HIDE DEF outcomesOf
          <6> QED
            BY <2>1
        <5> HIDE DEF problems
        <5> QED
          BY <2>1, <5>1, <5>2
      <4> QED
        BY <1>3, <4>1
    <3> QED
      BY <3>1
  <2>3. /\ d.control \in DOMAIN severities /\ d.family # "INT" /\ d.approver # d.owner
        /\ d.control \in DOMAIN outcomesOf => outcomesOf[d.control] = "non-conformant"
    <3> HIDE DEF severities, outcomesOf
    <3> QED
      BY <2>2, DeviationIsSound
  <2>4. ClosedBy(assertions, catalogs, last)
    <3>1. turn \in 1 .. Len(cmd.subjects) + 1
          /\ (turn > 1 => ClosedBy(assertions, catalogs, cmd.subjects[turn - 1]))
      BY <1>1 DEF WholeInv, TurnsTaken
    <3>2. turn > 1 /\ turn - 1 = Len(cmd.subjects)
      <4> DEFINE n == Len(cmd.subjects)
      <4>1. n \in Nat /\ n # 0 /\ turn \in 1 .. n + 1 /\ turn > n
        BY <1>1, <1>2, <3>1
      <4> HIDE DEF n
      <4>2. turn > 1 /\ turn - 1 = n
        BY <4>1
      <4> QED
        BY <4>2 DEF n
    <3> QED
      BY <3>1, <3>2
  <2>5. d.control \in ControlsOf(rating)
    <3> HIDE DEF rating
    <3>1. PICK c \in ToSet(rating) : \E x \in ToSet(c.controls) : x.id = d.control
      BY <2>3, SeveritiesAreOf
    <3> QED
      BY <3>1 DEF ControlsOf
  <2>6. ASSUME d.control \in ControlsOf(catalogs)
        PROVE  \E a \in ToSet(assertions) :
                   a.control = d.control /\ a.subject = last.id /\ a.outcome = "non-conformant"
    <3>1. PICK c \in ToSet(catalogs) : \E x \in ToSet(c.controls) : x.id = d.control
      BY <2>6 DEF ControlsOf
    <3>2. PICK n \in DOMAIN assertions :
              /\ assertions[n].control = d.control /\ assertions[n].subject = last.id
              /\ \A j \in DOMAIN assertions : assertions[j].control = d.control => j <= n
      BY <2>4, <3>1 DEF ClosedBy
    <3>3. IsSequence(assertions)
      BY DEF ReportsInv, Ordered
    <3>4. d.control \in DOMAIN outcomesOf /\ outcomesOf[d.control] = assertions[n].outcome
      BY <3>2, <3>3, OutcomeIsLast
    <3>5. assertions[n] \in ToSet(assertions) /\ assertions[n].outcome = "non-conformant"
      BY <2>3, <3>4 DEF ToSet
    <3> QED
      BY <3>2, <3>5
  <2> QED
    BY <2>3, <2>5, <2>6 DEF WaivesAFailure
<1>9. HighIsProven(rating, told.gaps)
  <2> HIDE DEF rating
  <2> QED
    BY <1>7 DEF HighIsProven
<1> QED
  BY <1>1, <1>6, <1>8, <1>9

\* Whatever the operator tells of deviations and gaps, of whatever bundle,
\* profile and catalogs: a report that readiness lets be signed has no broken
\* stream, no shortfall, no undeclared event, no unrecorded lack of evidence
\* for a control that the catalogs readiness was given rate high, and waives
\* only what its last subject failed, or the report did not judge; and what
\* sign lets be signed lacks none that the base catalogs rate high
\* (readiness.compute_readiness, deviation_lint, _readiness_severities).
THEOREM ReadyReportIsWholeAlways == Spec => []ReadyReportIsWhole
<1>1. ReportsInv /\ DescribedInv /\ ExplainedInv /\ WholeInv => ReadyReportIsWhole
  <2> SUFFICES ASSUME ReportsInv, DescribedInv, ExplainedInv, WholeInv,
                      phase = "reported", cmd.subjects # <<>>,
                      NEW r \in out.report, NEW told \in Tellings
               PROVE  /\ Signable(r, told) =>
                          /\ EvidenceIsWhole(told.integrity, cmd.subjects)
                          /\ HighIsProven(RatedBy(told), told.gaps)
                          /\ \A d \in ToSet(told.deviations) :
                                 /\ d.control \in ControlsOf(RatedBy(told))
                                 /\ WaivesAFailure(d, cmd.subjects[Len(cmd.subjects)], r.catalogs)
                      /\ Signable(r, ToSign(told.integrity)) =>
                          /\ EvidenceIsWhole(told.integrity, cmd.subjects)
                          /\ HighIsProven(Bases, {})
    BY DEF ReadyReportIsWhole, Signable
  <2>1. /\ ToSign(told.integrity).integrity = told.integrity
        /\ ToSign(told.integrity).gaps = {}
        /\ RatedBy(ToSign(told.integrity)) = Bases
    BY DEF ToSign, RatedBy
  <2> QED
    BY <2>1, ReadyIsWhole
<1> QED
  BY <1>1, ReportsInvariant, DescribedInvariant, ExplainedInvariant, WholeInvariant, PTL

-----------------------------------------------------------------------------
(*                  What the commands that judge nothing say               *)

\* What a run judges is what the directory holds.
ReadOff ==
    cmd.kind = "assess" /\ phase \in {"ingested", "judging", "reported"} =>
        /\ LoadTrouble(dir) = "none"
        /\ accepted = Ingested(Lines(dir), dir.manifest.sources).accepted
        /\ out.quarantine = Ingested(Lines(dir), dir.manifest.sources).quarantined

\* Every verdict is on a subject of the run, judged on its own events.
OnlyJudged ==
    cmd.kind = "assess" => \A a \in ToSet(assertions) :
        \E s \in ToSet(cmd.subjects) : JudgedAs(a, accepted, catalogs, s, cmd.domain)

ReadInv == ReadOff /\ OnlyJudged

\* Nothing is read or judged at first.
LEMMA ReadInit == Init => ReadInv
<1> SUFFICES ASSUME Init PROVE ReadInv
  OBVIOUS
<1>1. cmd.kind = "none"
  BY DEF Init, NoCommand
<1> QED
  BY <1>1 DEF ReadInv, ReadOff, OnlyJudged

\* Nor by the next command when it begins.
LEMMA ReadStart == ASSUME StartNext PROVE ReadInv'
<1>1. PICK c \in {Head(todo)} : \/ c.kind = "ingest" /\ BeginIngest(c) /\ UNCHANGED assessVars
                                \/ c.kind = "collect" /\ BeginCollect(c) /\ UNCHANGED assessVars
                                \/ c.kind = "assess" /\ BeginAssess(c)
  BY DEF StartNext
<1>2. phase' \in {"ingest", "plan", "pull", "assess"}
  BY <1>1 DEF BeginIngest, BeginCollect, BeginAssess
<1>3. cmd'.kind = "assess" => assertions' = <<>>
  BY <1>1 DEF BeginIngest, BeginCollect, BeginAssess
<1> QED
  BY <1>2, <1>3 DEF ReadInv, ReadOff, OnlyJudged, ToSet

\* What was read and judged stands.
LEMMA ReadStands ==
    ASSUME ReadInv, UNCHANGED <<dir, cmd, catalogs, accepted, assertions>>,
           phase' \in {"ingested", "judging", "reported"} =>
               phase \in {"ingested", "judging", "reported"} /\ out'.quarantine = out.quarantine
    PROVE  ReadInv'
<1>1. ReadOff'
  BY DEF ReadInv, ReadOff, Lines
<1>2. OnlyJudged'
  BY DEF ReadInv, OnlyJudged
<1> QED
  BY <1>1, <1>2 DEF ReadInv

\* A run reads the bundle once, and judges its subjects by that.
LEMMA ReadAssess ==
    ASSUME ReportsInv, DescribedInv, WholeInv, ReadInv, AssessStep
    PROVE  ReadInv'
<1>1. dir' = dir /\ cmd' = cmd /\ cmd.kind = "assess"
  BY AssessOnlyReads
<1>2. "quarantine" \in DOMAIN out
  BY DEF DescribedInv
<1>3. CASE RefuseGate \/ RefuseCatalogs \/ RefuseBundle \/ RefuseReport \/ Conclude
  <2>1. phase' = "idle" /\ UNCHANGED assessVars
    BY <1>3 DEF RefuseGate, RefuseCatalogs, RefuseBundle, RefuseReport, Conclude, End
  <2> QED
    BY <1>1, <2>1, ReadStands DEF assessVars
<1>4. CASE ResolveCatalogs
  <2>1. assertions' = assertions /\ phase' = "resolved" /\ assertions = <<>>
    BY <1>4 DEF ResolveCatalogs, ReportsInv, NothingYet, Running
  <2> QED
    BY <2>1 DEF ReadInv, ReadOff, OnlyJudged, ToSet
<1>5. CASE IngestBundle
  <2> DEFINE read == Ingested(Lines(dir), dir.manifest.sources)
             q == read.quarantined
  <2>1. /\ LoadTrouble(dir) = "none" /\ accepted' = read.accepted
        /\ out' = [out EXCEPT !.quarantine = q]
        /\ assertions' = assertions /\ assertions = <<>>
    BY <1>5 DEF IngestBundle, ReportsInv, NothingYet, Running
  <2> HIDE DEF q
  <2>2. out'.quarantine = q
    BY <1>2, <2>1
  <2>3. ReadOff'
    BY <1>1, <2>1, <2>2 DEF ReadOff, q, Lines
  <2> QED
    BY <2>1, <2>3 DEF ReadInv, OnlyJudged, ToSet
<1>6. CASE Describe
  <2> DEFINE g == BuildGraph(accepted, cmd.domain)
             c == [k \in DOMAIN cmd.subjects |-> CoverageOf(cmd.subjects[k], accepted)]
             a == Statements(cmd.subjects, accepted)
  <2>1. /\ phase = "ingested" /\ UNCHANGED <<catalogs, accepted, assertions>>
        /\ out' = [out EXCEPT !.graph = g, !.coverage = c, !.applicability = a]
    BY <1>6 DEF Describe, Running
  <2> HIDE DEF g, c, a
  <2>2. out'.quarantine = out.quarantine
    BY <1>2, <2>1
  <2> QED
    BY <1>1, <2>1, <2>2, ReadStands
<1>7. CASE JudgeSubject
  <2> DEFINE subject == cmd.subjects[turn]
             more == Judge(subject, accepted, catalogs, cmd.domain)
  <2>1. /\ turn <= Len(cmd.subjects) /\ phase = "judging" /\ phase' = phase
        /\ assertions' = assertions \o more
        /\ UNCHANGED <<catalogs, accepted, out>>
    BY <1>7 DEF JudgeSubject, Running
  <2>2. Listing(catalogs) /\ IsSequence(assertions)
    BY DEF ReportsInv, Ordered
  <2>3. ReadOff'
    BY <1>1, <2>1 DEF ReadInv, ReadOff, Lines
  <2>4. IsSequence(more) /\ \A a \in ToSet(more) : JudgedAs(a, accepted, catalogs, subject, cmd.domain)
    <3> HIDE DEF subject
    <3> QED
      BY <2>2, JudgedInOrder
  <2>5. subject \in ToSet(cmd.subjects)
    <3>1. turn \in 1 .. Len(cmd.subjects) + 1
      BY <1>1, <2>1 DEF WholeInv, TurnsTaken
    <3>2. DOMAIN cmd.subjects = 1 .. Len(cmd.subjects) /\ Len(cmd.subjects) \in Nat
      BY <1>1, SubjectsListed
    <3> QED
      BY <2>1, <3>1, <3>2 DEF ToSet
  <2> HIDE DEF more, subject
  <2>6. ToSet(assertions') = ToSet(assertions) \cup ToSet(more)
    BY <2>1, <2>2, <2>4, ElementsOfConcat
  <2>7. OnlyJudged'
    BY <1>1, <2>1, <2>4, <2>5, <2>6 DEF ReadInv, OnlyJudged
  <2> QED
    BY <2>3, <2>7 DEF ReadInv
<1>8. CASE WriteReport
  <2>1. /\ phase = "judging" /\ UNCHANGED <<catalogs, accepted, assertions>>
        /\ \E r : out' = [out EXCEPT !.report = r]
    BY <1>8 DEF WriteReport, Running
  <2>2. out'.quarantine = out.quarantine
    BY <1>2, <2>1
  <2> QED
    BY <1>1, <2>1, <2>2, ReadStands
<1> QED
  BY <1>3, <1>4, <1>5, <1>6, <1>7, <1>8 DEF AssessStep

\* Nor does any other step touch what a run has read.
LEMMA ReadStep == ReportsInv /\ DescribedInv /\ WholeInv /\ ReadInv /\ [Next]_vars => ReadInv'
<1> SUFFICES ASSUME ReportsInv, DescribedInv, WholeInv, ReadInv, [Next]_vars PROVE ReadInv'
  OBVIOUS
<1>1. CASE StartNext
  BY <1>1, ReadStart
<1>2. CASE CollectStep /\ UNCHANGED <<assessVars, start, todo, ran>>
  <2>1. /\ cmd' = cmd
        /\ phase' \in {"ingested", "judging", "reported"} => phase' = phase /\ dir' = dir
    BY <1>2 DEF CollectStep, AdaptOne, RefuseExport, WriteIngestManifest, RefuseCollect,
         WritePlan, WritePlanManifest, PullSource, FinishPull, WriteStream,
         WriteCollectReport, WriteCollectManifest, Die, End, Doing
  <2>2. UNCHANGED <<catalogs, accepted, assertions, out>>
    BY <1>2 DEF assessVars
  <2>3. ReadOff'
    BY <2>1, <2>2 DEF ReadInv, ReadOff, Lines
  <2>4. OnlyJudged'
    BY <2>1, <2>2 DEF ReadInv, OnlyJudged
  <2> QED
    BY <2>3, <2>4 DEF ReadInv
<1>3. CASE AssessStep
  BY <1>3, ReadAssess
<1>4. CASE UNCHANGED vars
  <2>1. UNCHANGED <<dir, cmd, phase, catalogs, accepted, assertions, out>>
    BY <1>4 DEF vars, assessVars
  <2> QED
    BY <2>1, ReadStands
<1> QED
  BY <1>1, <1>2, <1>3, <1>4 DEF Next

\* ReadInv is an invariant.
LEMMA ReadInvariant == Spec => []ReadInv
BY ReadInit, ReadStep, ReportsInvariant, DescribedInvariant, WholeInvariant, PTL DEF Spec

\* validate, of the directory a run has just reported on.
LEMMA ValidatesAlike ==
    ASSUME WholeInv, ReadInv, phase = "reported", NEW r \in out.report
    PROVE  /\ Validate(dir).exit = (IF out.quarantine = <<>> THEN 0 ELSE 1)
           /\ Validate(dir).accepted = Len(r.accepted)
<1> DEFINE read == Ingested(Lines(dir), dir.manifest.sources)
<1>1. cmd.kind = "assess" /\ r.accepted = accepted
  BY DEF WholeInv, ReportedAll
<1>2. LoadTrouble(dir) = "none" /\ accepted = read.accepted /\ out.quarantine = read.quarantined
  BY <1>1 DEF ReadInv, ReadOff
<1> HIDE DEF read
<1>3. Validate(dir) = Validated(read)
  BY <1>2 DEF Validate, read
<1> QED
  BY <1>1, <1>2, <1>3 DEF Validated

\* A bundle whose streams verify passes has none that readiness calls broken.
LEMMA VerifiedIsNotBroken ==
    ASSUME NEW d, NEW s, NEW t, VerifyBundle(d, <<s, t>>) = 0
    PROVE  IntegrityReasons(<<s, t>>) = {}
<1>1. ToSet(<<s, t>>) \subseteq {"verified", "verified_weak"}
  BY DEF VerifyBundle
<1>2. \A j \in DOMAIN <<s, t>> : <<s, t>>[j] \in {"verified", "verified_weak"}
  BY <1>1 DEF ToSet
<1> QED
  BY <1>2 DEF IntegrityReasons, BadIntegrity

\* A directory whose catalog verify refuses is one the report names.
LEMMA RefusedIsNamed ==
    ASSUME NEW ask, NEW k \in DOMAIN ask.dirs, VerifyCatalog(ask.dirs[k], ask.trust) = 3
    PROVE  ask.dirs[k].catalog.label \in Limitations(ask)
<1>1. SignatureTrouble(ask.dirs[k], ask.trust) # "none"
  BY DEF VerifyCatalog
<1>2. k \in Waived(ask.dirs, ask.trust)
  BY <1>1 DEF Waived
<1> QED
  BY <1>2 DEF Limitations

\* The reason given where nothing was evaluated.
LEMMA WhyIsSo ==
    ASSUME ReportsInv, WholeInv, ReadInv, phase = "reported", NEW r \in out.report,
           Verdicts \cap Outcomes(r.assertions) = {}
    PROVE  WhyAgrees(r, WhyNothing(r.run.subjects, r.accepted))
<1> DEFINE why == WhyNothing(r.run.subjects, r.accepted)
<1>1. /\ cmd.kind = "assess" /\ r.run = cmd /\ r.accepted = accepted
      /\ r.assertions = assertions /\ r.catalogs = catalogs
  BY DEF WholeInv, ReportedAll
<1>2. \A a \in ToSet(assertions) :
          \E s \in ToSet(cmd.subjects) : JudgedAs(a, accepted, catalogs, s, cmd.domain)
  BY <1>1 DEF ReadInv, OnlyJudged
<1>3. why = "no_events" => r.accepted = <<>>
  BY DEF WhyNothing
<1>4. ASSUME NEW a \in ToSet(assertions)
      PROVE  \E s \in ToSet(cmd.subjects) :
                 a.subject = s.id /\ \E g, E, c, x : a = AssertControl(g, E, c, x, s)
  <2>1. PICK s \in ToSet(cmd.subjects) : JudgedAs(a, accepted, catalogs, s, cmd.domain)
    BY <1>2
  <2>2. PICK g, E, c, x : a = AssertControl(g, E, c, x, s)
    BY <2>1 DEF JudgedAs
  <2>3. a.subject = s.id
    BY <2>2, AssertionIsOf
  <2> QED
    BY <2>2, <2>3
<1>5. why = "unmatched" =>
          \A e \in ToSet(accepted) : \A s \in ToSet(cmd.subjects) : e.subject # s.id
  BY <1>1 DEF WhyNothing, ToSet
<1>6. \A s \in Judged(assertions) : \E a \in ToSet(assertions) : a.subject = s
  BY DEF Judged, ToSet
<1>7. ASSUME NEW a \in ToSet(assertions) PROVE a.applicable = 0
  <2>1. a.outcome \notin Verdicts
    BY <1>1, <1>7 DEF Outcomes, ToSet
  <2>2. PICK g, E, c, x, s : a = AssertControl(g, E, c, x, s)
    BY <1>4, <1>7
  <2>3. ASSUME NEW outcome, NEW found, NEW evidence
        PROVE  /\ Assertion(c, x, s, outcome, found, evidence).outcome = outcome
               /\ Assertion(c, x, s, outcome, found, evidence).applicable = Len(found.applicable)
    BY DEF Assertion
  <2>4. PICK outcome, found, evidence :
            /\ AssertControl(g, E, c, x, s) = Assertion(c, x, s, outcome, found, evidence)
            /\ found = Nobody \/ outcome \in Verdicts
    <3>1. ASSUME NEW f
          PROVE  \E outcome, found, evidence :
                     /\ AssertFound(E, c, x, s, f) = Assertion(c, x, s, outcome, found, evidence)
                     /\ found = Nobody \/ outcome \in Verdicts
      BY DEF AssertFound, Verdicts
    <3> QED
      BY <3>1 DEF AssertControl
  <2>5. found = Nobody /\ a.applicable = Len(found.applicable)
    BY <2>1, <2>2, <2>3, <2>4
  <2> QED
    BY <2>5 DEF Nobody
<1> HIDE DEF why
<1> QED
  BY <1>1, <1>3, <1>4, <1>5, <1>6, <1>7 DEF WhyAgrees, why

\* A tolerance within another lets nothing pass that the other does not.
LEMMA TighterLetsLessPass ==
    ASSUME NEW t, NEW u, t.kind = u.kind, t.num \in Nat, u.num \in Nat,
           t.den \in Nat \ {0}, u.den \in Nat \ {0}, ~Looser(t, u),
           NEW applicable \in Nat, NEW failed \in Nat, WithinTolerance(applicable, failed, t)
    PROVE  WithinTolerance(applicable, failed, u)
<1> DEFINE a == t.num
           b == t.den
           c == u.num
           d == u.den
<1>1. a \in Nat /\ c \in Nat /\ b \in Nat /\ b > 0 /\ d \in Nat /\ d > 0
  OBVIOUS
<1>2. a * d <= c * b
  BY <1>1 DEF Looser
<1>3. CASE t.kind = "ratio" /\ applicable > 0
  <2>1. failed * b <= a * applicable
    BY <1>3 DEF WithinTolerance
  <2>2. failed * d <= c * applicable
    <3> HIDE DEF a, b, c, d
    <3>1. (failed * b) * d <= (a * applicable) * d
      BY <1>1, <2>1
    <3>2. (a * d) * applicable <= (c * b) * applicable
      BY <1>1, <1>2
    <3>3. (failed * d) * b <= (c * applicable) * b
      BY <1>1, <3>1, <3>2
    <3> QED
      BY <1>1, <3>3
  <2> QED
    BY <1>3, <2>2 DEF WithinTolerance
<1>4. CASE ~(t.kind = "ratio" /\ applicable > 0)
  <2>1. failed <= a \div b
    BY <1>4 DEF WithinTolerance
  <2>2. failed <= c \div d
    <3> HIDE DEF a, b, c, d
    <3> DEFINE p == a \div b
               q == c \div d
    <3>1. /\ p \in Int /\ q \in Int /\ b * p <= a /\ c < d * (q + 1)
      BY <1>1
    <3>2. ASSUME q < p PROVE FALSE
      <4>1. q + 1 <= p
        BY <3>1, <3>2
      <4> HIDE DEF p, q
      <4>2. d * (q + 1) <= d * p
        BY <1>1, <3>1, <4>1
      <4>3. c < d * p
        BY <1>1, <3>1, <4>2
      <4>4. c * b < (d * p) * b
        BY <1>1, <3>1, <4>3
      <4>5. d * (b * p) <= d * a
        BY <1>1, <3>1
      <4>6. (d * p) * b = d * (b * p) /\ d * a = a * d
        BY <1>1, <3>1
      <4> QED
        BY <1>1, <1>2, <3>1, <4>4, <4>5, <4>6
    <3> HIDE DEF p, q
    <3>3. p <= q
      BY <3>1, <3>2
    <3> QED
      BY <2>1, <3>1, <3>3 DEF p, q
  <2> QED
    BY <1>4, <2>2 DEF WithinTolerance
<1> QED
  BY <1>3, <1>4

\* An overlay that lint does not call weaker is not.
LEMMA OverlaysTighten ==
    ASSUME NEW control, NEW most \in Nat
    PROVE  TighteningStays(control, most)
<1> SUFFICES ASSUME NEW v \in Revisions, NEW o \in {Revised(control, v)},
                    Admitted(control), Admitted(o),
                    OverlayWeakensBase(<<control>>, <<o>>) = {}
             PROVE  /\ control.severity = "high" => o.severity = "high"
                    /\ \A applicable \in 0..most : \A failed \in 0..applicable :
                           WithinTolerance(applicable, failed, o.tolerance)
                               => WithinTolerance(applicable, failed, control.tolerance)
  BY DEF TighteningStays
<1>1. o.id = control.id /\ o.tolerance.kind = control.tolerance.kind
  BY DEF Revised
<1>2. Loosened(<<control>>, o) = {}
  <2>1. 1 \in DOMAIN <<o>> /\ <<o>>[1] = o
    OBVIOUS
  <2>2. ASSUME NEW why \in Loosened(<<control>>, o)
        PROVE  <<o.id, why>> \in OverlayWeakensBase(<<control>>, <<o>>)
    BY <2>1 DEF OverlayWeakensBase
  <2> QED
    BY <2>2
<1> DEFINE same == {k \in DOMAIN <<control>> : <<control>>[k].id = o.id}
<1>3. same = {1}
  BY <1>1
<1>4. Max({1}) = 1
  BY DEF Max
<1>5. RankOf(o.severity) >= RankOf(control.severity) /\ ~Looser(o.tolerance, control.tolerance)
  <2>1. <<control>>[Max(same)] = control
    BY <1>3, <1>4
  <2>2. Loosened(<<control>>, o) =
            {why \in {"severity", "tolerance"} :
                /\ same # {}
                /\ CASE why = "severity" -> RankOf(o.severity) < RankOf(control.severity)
                     [] why = "tolerance" -> Looser(o.tolerance, control.tolerance)}
    BY <2>1 DEF Loosened
  <2>3. RankOf(o.severity) \in Nat /\ RankOf(control.severity) \in Nat
    BY DEF RankOf, SeverityRank
  <2>4. ~(RankOf(o.severity) < RankOf(control.severity))
    BY <1>2, <1>3, <2>2
  <2>5. ~Looser(o.tolerance, control.tolerance)
    BY <1>2, <1>3, <2>2
  <2> QED
    BY <2>3, <2>4, <2>5
<1>6. control.severity = "high" => o.severity = "high"
  BY <1>5 DEF RankOf, SeverityRank
<1>7. \A applicable \in 0..most : \A failed \in 0..applicable :
          WithinTolerance(applicable, failed, o.tolerance)
              => WithinTolerance(applicable, failed, control.tolerance)
  <2> TAKE applicable \in 0..most
  <2> TAKE failed \in 0..applicable
  <2>1. applicable \in Nat /\ failed \in Nat
    OBVIOUS
  <2> QED
    BY <1>1, <1>5, <2>1, TighterLetsLessPass DEF Admitted
<1> QED
  BY <1>6, <1>7

-----------------------------------------------------------------------------
(*                             What is read back                             *)

\* A function of the elements, of each in its place.
Mapped(F, s) == [k \in DOMAIN s |-> F[s[k]]]

\* That is a sequence, and appends as the elements do.
MapsEach(F, s) ==
    /\ IsSequence(Mapped(F, s)) /\ Len(Mapped(F, s)) = Len(s)
    /\ DOMAIN Mapped(F, s) = DOMAIN s
    /\ \A k \in DOMAIN s : Mapped(F, s)[k] = F[s[k]]
    /\ \A e \in DOMAIN F : Mapped(F, Append(s, e)) = Append(Mapped(F, s), F[e])

\* Of any function that is defined on them.
LEMMA MappedSays ==
    ASSUME NEW F, NEW s \in Seq(DOMAIN F)
    PROVE  MapsEach(F, s)
<1> DEFINE T == DOMAIN F
           U == {F[x] : x \in T}
<1>1. /\ DOMAIN s = 1 .. Len(s) /\ Len(s) \in Nat /\ \A k \in DOMAIN s : s[k] \in T
      /\ s \in Seq(T) /\ \A x \in T : F[x] \in U
  OBVIOUS
<1> HIDE DEF T, U
<1> DEFINE m == Mapped(F, s)
<1>2. m = [k \in DOMAIN s |-> F[s[k]]]
  BY DEF Mapped
<1>3. m \in [1 .. Len(s) -> U]
  BY <1>1, <1>2
<1> HIDE DEF m
<1>4. m \in Seq(U) /\ Len(m) = Len(s)
  BY <1>1, <1>3, SeqDef
<1>5. ASSUME NEW e \in T PROVE Mapped(F, Append(s, e)) = Append(m, F[e])
  <2> DEFINE t == Append(s, e)
             n == Append(m, F[e])
  <2>1. /\ t \in Seq(T) /\ Len(t) = Len(s) + 1
        /\ \A k \in 1 .. Len(s) : t[k] = s[k]
        /\ t[Len(s) + 1] = e
    BY <1>1, AppendProperties
  <2>2. F[e] \in U
    BY <1>1
  <2>3. /\ n \in Seq(U) /\ Len(n) = Len(m) + 1
        /\ \A k \in 1 .. Len(m) : n[k] = m[k]
        /\ n[Len(m) + 1] = F[e]
    BY <1>4, <2>2, AppendProperties
  <2> HIDE DEF t, n
  <2>4. DOMAIN t = 1 .. Len(s) + 1 /\ DOMAIN n = 1 .. Len(s) + 1 /\ n = [k \in DOMAIN n |-> n[k]]
    BY <1>4, <2>1, <2>3
  <2>5. ASSUME NEW k \in 1 .. Len(s) + 1 PROVE F[t[k]] = n[k]
    <3>1. CASE k = Len(s) + 1
      BY <1>4, <2>1, <2>3, <3>1
    <3>2. CASE k \in 1 .. Len(s)
      BY <1>1, <1>2, <1>4, <2>1, <2>3, <3>2
    <3> QED
      BY <1>1, <3>1, <3>2
  <2>6. Mapped(F, t) = n
    BY <2>4, <2>5 DEF Mapped
  <2> QED
    BY <2>6 DEF t, n
<1>6. IsSequence(m)
  BY <1>4, OfItsElements
<1> QED
  BY <1>2, <1>4, <1>5, <1>6 DEF m, T, MapsEach

\* What is picked is mapped as what it is picked of.
LEMMA PickedMapped ==
    ASSUME NEW F, NEW s \in Seq(DOMAIN F), NEW K
    PROVE  Picked(Mapped(F, s), K) = Mapped(F, Picked(s, K))
<1> DEFINE T == DOMAIN F
           t == Mapped(F, s)
           p == PickedTo(s, K)
           q == PickedTo(t, K)
           S == {n \in Nat : n <= Len(s) => p[n] \in Seq(T) /\ q[n] = Mapped(F, p[n])}
<1>1. Len(s) \in Nat /\ DOMAIN s = 1 .. Len(s) /\ \A k \in 1 .. Len(s) : s[k] \in T
  OBVIOUS
<1>2. Len(t) = Len(s) /\ \A k \in 1 .. Len(s) : t[k] = F[s[k]]
  <2>1. MapsEach(F, s)
    BY MappedSays
  <2> QED
    BY <1>1, <2>1 DEF MapsEach
<1>3. /\ p[0] = <<>>
      /\ \A n \in 1 .. Len(s) : p[n] = IF n \in K THEN Append(p[n - 1], s[n]) ELSE p[n - 1]
  BY <1>1, PickingOneByOne
<1>4. /\ q[0] = <<>>
      /\ \A n \in 1 .. Len(s) : q[n] = IF n \in K THEN Append(q[n - 1], t[n]) ELSE q[n - 1]
  <2> HIDE DEF t
  <2> QED
    BY <1>1, <1>2, PickingOneByOne
<1> HIDE DEF p, q, t
<1>5. 0 \in S
  <2>1. <<>> \in Seq(T) /\ Mapped(F, <<>>) = <<>>
    BY DEF Mapped
  <2> QED
    BY <1>3, <1>4, <2>1
<1>6. ASSUME NEW n \in S PROVE n + 1 \in S
  <2> SUFFICES ASSUME n + 1 <= Len(s)
               PROVE  p[n + 1] \in Seq(T) /\ q[n + 1] = Mapped(F, p[n + 1])
    OBVIOUS
  <2>1. n \in Nat /\ n <= Len(s) /\ n + 1 \in 1 .. Len(s) /\ (n + 1) - 1 = n
    BY <1>1
  <2>2. p[n] \in Seq(T) /\ q[n] = Mapped(F, p[n])
    BY <2>1
  <2>3. /\ p[n + 1] = IF n + 1 \in K THEN Append(p[n], s[n + 1]) ELSE p[n]
        /\ q[n + 1] = IF n + 1 \in K THEN Append(q[n], F[s[n + 1]]) ELSE q[n]
    BY <1>2, <1>3, <1>4, <2>1
  <2>4. s[n + 1] \in T
    BY <1>1, <2>1
  <2>5. Append(p[n], s[n + 1]) \in Seq(T)
        /\ Mapped(F, Append(p[n], s[n + 1])) = Append(q[n], F[s[n + 1]])
    <3> DEFINE x == p[n]
    <3>1. x \in Seq(T)
      BY <2>2
    <3> HIDE DEF x, S
    <3>2. Mapped(F, Append(x, s[n + 1])) = Append(Mapped(F, x), F[s[n + 1]])
      <4>1. MapsEach(F, x)
        BY <3>1, MappedSays
      <4> QED
        BY <2>4, <4>1 DEF MapsEach
    <3> QED
      BY <2>2, <2>4, <3>1, <3>2 DEF x
  <2> QED
    BY <2>2, <2>3, <2>5
<1>7. S = Nat
  <2> HIDE DEF S
  <2>1. 0 \in S /\ \A n \in S : n + 1 \in S
    BY <1>5, <1>6
  <2>2. S \in SUBSET Nat
    BY DEF S
  <2> QED
    BY <2>1, <2>2, Induction
<1>8. q[Len(s)] = Mapped(F, p[Len(s)])
  <2>1. Len(s) \in S
    BY <1>1, <1>7
  <2>2. Len(s) <= Len(s)
    BY <1>1
  <2> QED
    BY <2>1, <2>2
<1>9. Picked(t, K) = q[Len(s)] /\ Picked(s, K) = p[Len(s)]
  BY <1>2 DEF Picked, p, q
<1> QED
  BY <1>8, <1>9 DEF t

\* What assertions.json keeps of each assertion.
Kept(T) ==
    [a \in T |->
        [control |-> a.control, family |-> a.family, subject |-> a.subject,
         outcome |-> a.outcome, applicable |-> a.applicable,
         failed |-> a.failed, evidence |-> a.evidence]]

\* What is read back is a sequence with these fields.
LEMMA BackSays ==
    ASSUME NEW found, IsSequence(found)
    PROVE  LET back == ReadBack(found)
           IN  /\ IsSequence(back) /\ DOMAIN back = DOMAIN found /\ Len(back) = Len(found)
               /\ \A k \in DOMAIN found :
                      /\ back[k].control = found[k].control /\ back[k].family = found[k].family
                      /\ back[k].subject = found[k].subject /\ back[k].outcome = found[k].outcome
                      /\ back[k].applicable = found[k].applicable
                      /\ back[k].failed = found[k].failed /\ back[k].evidence = found[k].evidence
               /\ \A T : ToSet(found) \subseteq T => back = Mapped(Kept(T), found)
<1> DEFINE back == ReadBack(found)
<1>1. DOMAIN found = 1 .. Len(found) /\ Len(found) \in Nat
  BY FinitelyManyIndices
<1>2. back = [k \in DOMAIN found |->
                 [control |-> found[k].control, family |-> found[k].family, subject |-> found[k].subject,
                  outcome |-> found[k].outcome, applicable |-> found[k].applicable,
                  failed |-> found[k].failed, evidence |-> found[k].evidence]]
  BY DEF ReadBack
<1>3. \A T : ToSet(found) \subseteq T => back = Mapped(Kept(T), found)
  BY <1>2 DEF Mapped, Kept, ToSet
<1>4. back = Mapped(Kept(ToSet(found)), found)
  BY <1>3
<1>5. found \in Seq(DOMAIN Kept(ToSet(found)))
  BY DEF Kept, IsSequence
<1> HIDE DEF back
<1>6. /\ DOMAIN back = DOMAIN found
      /\ \A k \in DOMAIN found :
            /\ back[k].control = found[k].control /\ back[k].family = found[k].family
            /\ back[k].subject = found[k].subject /\ back[k].outcome = found[k].outcome
            /\ back[k].applicable = found[k].applicable
            /\ back[k].failed = found[k].failed /\ back[k].evidence = found[k].evidence
  BY <1>2
<1>7. IsSequence(back) /\ Len(back) = Len(found)
  <2> DEFINE F == Kept(ToSet(found))
  <2>1. found \in Seq(DOMAIN F) /\ back = Mapped(F, found)
    BY <1>4, <1>5
  <2> HIDE DEF F
  <2>2. MapsEach(F, found)
    BY <2>1, MappedSays
  <2> QED
    BY <2>1, <2>2 DEF MapsEach
<1> QED
  BY <1>3, <1>6, <1>7 DEF back

\* Of what is read back those of some value are what is read back of those.
LEMMA HavingBack ==
    ASSUME NEW found, IsSequence(found), NEW field \in {"family", "subject", "outcome"}, NEW values
    PROVE  Having(ReadBack(found), field, values) = ReadBack(Having(found, field, values))
<1> DEFINE back == ReadBack(found)
           K == {k \in DOMAIN found : found[k][field] \in values}
           T == ToSet(found)
<1>1. /\ DOMAIN back = DOMAIN found /\ back = Mapped(Kept(T), found)
      /\ \A k \in DOMAIN found : back[k][field] = found[k][field]
  BY BackSays
<1>2. {k \in DOMAIN back : back[k][field] \in values} = K
  BY <1>1
<1>3. Having(back, field, values) = Picked(back, K)
  BY <1>2 DEF Having
<1>4. Having(found, field, values) = Picked(found, K)
  BY DEF Having
<1>5. found \in Seq(DOMAIN Kept(T))
  BY DEF IsSequence, Kept
<1> HIDE DEF back, K
<1>6. Picked(back, K) = Mapped(Kept(T), Picked(found, K))
  <2> DEFINE F == Kept(T)
  <2>1. found \in Seq(DOMAIN F) /\ back = Mapped(F, found)
    BY <1>1, <1>5
  <2> HIDE DEF F
  <2>2. Picked(Mapped(F, found), K) = Mapped(F, Picked(found, K))
    BY <2>1, PickedMapped
  <2> QED
    BY <2>1, <2>2 DEF F
<1>7. IsSequence(Having(found, field, values)) /\ ToSet(Having(found, field, values)) \subseteq T
  BY HavingSays
<1>8. ReadBack(Having(found, field, values)) = Mapped(Kept(T), Having(found, field, values))
  <2> HIDE DEF T
  <2> QED
    BY <1>7, BackSays
<1> QED
  BY <1>3, <1>4, <1>6, <1>8 DEF back

\* The renderings of a list that show nothing assertions.json leaves out.
LEMMA RendersAlike ==
    ASSUME NEW found, IsSequence(found)
    PROVE  /\ Aggregate(ReadBack(found)) = Aggregate(found)
           /\ Summarize(ReadBack(found)) = Summarize(found)
           /\ Pack(ReadBack(found)) = Pack(found)
           /\ Oscal(ReadBack(found)) = Oscal(found)
           /\ Judged(ReadBack(found)) = Judged(found)
<1> DEFINE back == ReadBack(found)
<1>1. /\ DOMAIN back = DOMAIN found
      /\ \A k \in DOMAIN found :
            /\ back[k].control = found[k].control /\ back[k].subject = found[k].subject
            /\ back[k].outcome = found[k].outcome /\ back[k].evidence = found[k].evidence
  BY BackSays
<1> HIDE DEF back
<1>2. \A o : {k \in DOMAIN back : back[k].outcome = o} = {k \in DOMAIN found : found[k].outcome = o}
  BY <1>1
<1>3. Aggregate(back) = Aggregate(found)
  BY <1>2 DEF Aggregate, CountOf
<1> DEFINE B(o) == {back[k].control : k \in {j \in DOMAIN back : back[j].outcome = o}}
           C(o) == {found[k].control : k \in {j \in DOMAIN found : found[j].outcome = o}}
           Line(o, n) == [outcome |-> o, listed |-> Min({n, MaxListed}), more |-> Max({0, n - MaxListed})]
<1>4. \A o : B(o) = C(o)
  BY <1>1
<1>5. Summarize(back) = Summarize(found)
  <2>1. /\ Summarize(back).gaps = {Line(o, Cardinality(B(o))) : o \in {x \in GapOutcomes : B(x) # {}}}
        /\ Summarize(found).gaps = {Line(o, Cardinality(C(o))) : o \in {x \in GapOutcomes : C(x) # {}}}
    BY DEF Summarize
  <2>2. /\ Summarize(back) = [verdict |-> Summarize(back).verdict, counts |-> Aggregate(back),
                              gaps |-> Summarize(back).gaps]
        /\ Summarize(found) = [verdict |-> Summarize(found).verdict, counts |-> Aggregate(found),
                               gaps |-> Summarize(found).gaps]
    BY DEF Summarize
  <2>3. Summarize(back).verdict = Summarize(found).verdict
    BY <1>3 DEF Summarize
  <2> HIDE DEF B, C, Line
  <2>4. Summarize(back).gaps = Summarize(found).gaps
    BY <1>4, <2>1
  <2> QED
    BY <1>3, <2>2, <2>3, <2>4
<1>6. Pack(back) = Pack(found)
  BY <1>1 DEF Pack
<1>7. Oscal(back) = Oscal(found)
  BY <1>1 DEF Oscal
<1>8. Judged(back) = Judged(found)
  BY <1>1 DEF Judged
<1> QED
  BY <1>3, <1>5, <1>6, <1>7, <1>8 DEF back

\* And those of the ones of some value.
LEMMA ReportsAlike ==
    ASSUME NEW found, IsSequence(found)
    PROVE  /\ Sarif(ReadBack(found)) = Sarif(found)
           /\ PacksOf(ReadBack(found)) = PacksOf(found)
           /\ PublicStatement(ReadBack(found), <<>>) = PublicStatement(found, <<>>)
<1> DEFINE back == ReadBack(found)
           Some(field, values) == Having(found, field, values)
<1>1. \A field \in {"family", "subject", "outcome"} : \A values :
          Having(back, field, values) = ReadBack(Some(field, values))
  BY HavingBack
<1>2. \A field, values : IsSequence(Some(field, values))
  BY HavingSays
<1>3. Judged(back) = Judged(found)
  BY RendersAlike
<1>4. {back[k].family : k \in DOMAIN back} = {found[k].family : k \in DOMAIN found}
  BY BackSays
<1> HIDE DEF back, Some
<1>5. Sarif(back) = Sarif(found)
  <2> DEFINE shown == Some("outcome", DOMAIN SarifLevel)
             again == ReadBack(shown)
  <2>1. Having(back, "outcome", DOMAIN SarifLevel) = again
    BY <1>1
  <2>2. IsSequence(shown)
    BY <1>2
  <2> HIDE DEF shown
  <2>3. /\ DOMAIN again = DOMAIN shown
        /\ \A k \in DOMAIN shown :
              /\ again[k].control = shown[k].control /\ again[k].subject = shown[k].subject
              /\ again[k].outcome = shown[k].outcome
    BY <2>2, BackSays
  <2> DEFINE line(a) == [rule |-> a.control, subject |-> a.subject, level |-> SarifLevel[a.outcome]]
  <2> HIDE DEF again
  <2>4. \A k \in DOMAIN shown : line(again[k]) = line(shown[k])
    BY <2>3
  <2>5. Sarif(back) = [k \in DOMAIN again |-> line(again[k])]
    BY <2>1 DEF Sarif
  <2>6. Sarif(found) = [k \in DOMAIN shown |-> line(shown[k])]
    BY DEF Sarif, shown, Some
  <2> HIDE DEF line
  <2> QED
    BY <2>3, <2>4, <2>5, <2>6
<1>6. PacksOf(back) = PacksOf(found)
  <2>1. \A s : Pack(Having(back, "subject", {s})) = Pack(Having(found, "subject", {s}))
    BY <1>1, <1>2, RendersAlike DEF Some
  <2> QED
    BY <1>3, <2>1 DEF PacksOf
<1>7. StatementTable(back) = StatementTable(found)
  <2>1. \A f : Aggregate(Having(back, "family", {f})) = Aggregate(Having(found, "family", {f}))
    BY <1>1, <1>2, RendersAlike DEF Some
  <2> QED
    BY <1>4, <2>1 DEF StatementTable
<1>8. PublicStatement(back, <<>>) = PublicStatement(found, <<>>)
  BY <1>3, <1>7 DEF PublicStatement
<1> QED
  BY <1>5, <1>6, <1>8 DEF back

\* What is read back does not differ from what was written.
LEMMA NothingDiffers ==
    ASSUME NEW found, IsSequence(found)
    PROVE  DiffExit(found, ReadBack(found)) = 0
<1> DEFINE back == ReadBack(found)
           At(key) == {k \in DOMAIN found : <<found[k].control, found[k].subject>> = key}
           keys == {<<found[k].control, found[k].subject>> : k \in DOMAIN found}
<1>1. /\ DOMAIN back = DOMAIN found
      /\ \A k \in DOMAIN found :
            /\ back[k].control = found[k].control /\ back[k].subject = found[k].subject
            /\ back[k].outcome = found[k].outcome
  BY BackSays
<1> HIDE DEF back
<1>2. ASSUME NEW key \in keys PROVE Max(At(key)) \in DOMAIN found
  <2>1. At(key) # {} /\ At(key) \subseteq DOMAIN found
    BY <1>2
  <2> HIDE DEF At
  <2> QED
    BY <2>1, MaxOfIndices
<1>3. ByKey(found) = [key \in keys |-> found[Max(At(key))].outcome]
  BY DEF ByKey
<1>4. ByKey(back) = [key \in keys |-> back[Max(At(key))].outcome]
  <2>1. {<<back[k].control, back[k].subject>> : k \in DOMAIN back} = keys
    BY <1>1
  <2>2. \A key : {k \in DOMAIN back : <<back[k].control, back[k].subject>> = key} = At(key)
    BY <1>1
  <2> HIDE DEF keys, At
  <2> QED
    BY <2>1, <2>2 DEF ByKey
<1> HIDE DEF keys, At
<1>5. ByKey(back) = ByKey(found)
  BY <1>1, <1>2, <1>3, <1>4
<1>6. DiffAssertionSets(found, back) = {}
  BY <1>5 DEF DiffAssertionSets, DiffOf
<1> QED
  BY <1>6 DEF DiffExit, back

\* A report rendered again from assertions.json alone.
LEMMA RereadsAlike ==
    ASSUME NEW found, IsSequence(found), NEW used
    PROVE  RereadAgrees(found, used, ReportFrom(ReadBack(found), <<>>))
<1> DEFINE back == ReadBack(found)
           again == ReportFrom(back, <<>>)
           listed == [k \in DOMAIN found |-> [Finding(found[k], used) EXCEPT !.severity = Nothing]]
<1>1. /\ again.sarif = Sarif(back) /\ again.oscal = Oscal(back) /\ again.pack = PacksOf(back)
      /\ again.public = PublicStatement(back, <<>>)
      /\ again.md.summary = Summarize(back)
      /\ again.html = ReportHtml(back, <<>>, Nothing)
  BY DEF ReportFrom, ReportMd
<1>2. IsSequence(back)
  BY BackSays
<1>3. /\ DOMAIN back = DOMAIN found
      /\ \A k \in DOMAIN found :
            /\ back[k].control = found[k].control /\ back[k].subject = found[k].subject
            /\ back[k].outcome = found[k].outcome /\ back[k].applicable = found[k].applicable
            /\ back[k].failed = found[k].failed /\ back[k].evidence = found[k].evidence
  BY BackSays
<1> HIDE DEF back, again
<1>4. \A id : SeverityOf(<<>>, id) = Nothing
  BY DEF SeverityOf, IsRated
<1>5. Findings(back, <<>>) = listed
  <2>1. \A k \in DOMAIN found : Finding(back[k], <<>>) = [Finding(found[k], used) EXCEPT !.severity = Nothing]
    BY <1>3, <1>4 DEF Finding
  <2> QED
    BY <1>3, <2>1 DEF Findings
<1>6. ListsEach(again.html.rows, listed)
  BY <1>1, <1>2, <1>5, RowsListAll
<1>7. DiffExit(found, back) = 0
  BY NothingDiffers DEF back
<1>8. /\ Sarif(back) = Sarif(found) /\ Oscal(back) = Oscal(found) /\ PacksOf(back) = PacksOf(found)
      /\ PublicStatement(back, <<>>) = PublicStatement(found, <<>>)
      /\ Summarize(back) = Summarize(found)
  BY RendersAlike, ReportsAlike DEF back
<1> QED
  BY <1>1, <1>6, <1>7, <1>8 DEF RereadAgrees, again, back

-----------------------------------------------------------------------------
(*                        What lint says of a verdict                        *)

\* A verdict a test case may expect is what the shape's findings say.
LEMMA JudgedByShape ==
    ASSUME NEW g, NEW E, NEW c, NEW x, NEW s,
           RoleApplies(EffectiveRoles(s.role), x.roles),
           AssertControl(g, E, c, x, s).outcome \in Foretold
    PROVE  LET found == EvaluateShape(g, ShapeFor(c, x), ShapeTable(c))
               passes == WithinTolerance(Len(found.applicable), Len(found.failing), x.tolerance)
               outcome == AssertControl(g, E, c, x, s).outcome
           IN  /\ x.rung = 2 /\ ShapeFor(c, x) # NoShape
               /\ outcome = (IF found.applicable = <<>> THEN "not_applicable"
                             ELSE IF passes THEN "conformant" ELSE "non-conformant")
<1> DEFINE found == EvaluateShape(g, ShapeFor(c, x), ShapeTable(c))
           passes == WithinTolerance(Len(found.applicable), Len(found.failing), x.tolerance)
           a == AssertControl(g, E, c, x, s)
<1>1. ASSUME NEW outcome, NEW of, NEW cited
      PROVE  Assertion(c, x, s, outcome, of, cited).outcome = outcome
  BY DEF Assertion
<1>2. x.rung = 2 /\ ShapeFor(c, x) # NoShape
  <2> SUFFICES ASSUME x.rung # 2 \/ ShapeFor(c, x) = NoShape PROVE FALSE
    OBVIOUS
  <2>1. a = Assertion(c, x, s, "not_assessed", Nobody, {})
    BY DEF AssertControl
  <2> QED
    BY <1>1, <2>1 DEF Foretold
<1>3. a = AssertFound(E, c, x, s, found)
  BY <1>2 DEF AssertControl
<1> HIDE DEF found, a
<1>4. CASE found.applicable = <<>>
  BY <1>1, <1>2, <1>3, <1>4 DEF AssertFound, found, a
<1>5. CASE found.applicable # <<>> /\ ~HasMinimumEvidence(E, x.minimum)
  <2>1. a = Assertion(c, x, s, "insufficient_evidence", [found EXCEPT !.failing = <<>>], {})
    BY <1>3, <1>5 DEF AssertFound
  <2> QED
    BY <1>1, <2>1 DEF Foretold, a
<1>6. CASE found.applicable # <<>> /\ HasMinimumEvidence(E, x.minimum)
  <2>1. a = Assertion(c, x, s, IF passes THEN "conformant" ELSE "non-conformant", found,
                      Evidence(E, IF found.failing # <<>> THEN found.failing ELSE found.applicable))
    BY <1>3, <1>6 DEF AssertFound
  <2>2. a.outcome = (IF passes THEN "conformant" ELSE "non-conformant")
    BY <1>1, <2>1
  <2> QED
    BY <1>2, <1>6, <2>2 DEF found, a
<1> QED
  BY <1>4, <1>5, <1>6

\* Nothing fails of an empty population, so any tolerance admits it.
LEMMA NobodyFails ==
    ASSUME NEW g, NEW shape, NEW shapes, NEW tolerance, tolerance.num \in Nat,
           tolerance.den \in Nat \ {0},
           EvaluateShape(g, shape, shapes).applicable = <<>>
    PROVE  EvaluateControl(EvaluateShape(g, shape, shapes), tolerance).outcome = "conformant"
<1> DEFINE found == EvaluateShape(g, shape, shapes)
<1>1. found.applicable = TargetNodes(g, shape)
  BY DEF EvaluateShape, FailingOf
<1>2. PICK K : found.failing = Picked(<<>>, K)
  BY <1>1 DEF EvaluateShape, FailingOf
<1>3. Len(<<>>) = 0
  OBVIOUS
<1>4. Picked(<<>>, K) = <<>>
  BY <1>3, PickingOneByOne DEF Picked
<1>5. 0 <= tolerance.num \div tolerance.den
  OBVIOUS
<1>6. Len(found.applicable) = 0 /\ Len(found.failing) = 0
  BY <1>2, <1>3, <1>4
<1> HIDE DEF found
<1>7. WithinTolerance(Len(found.applicable), Len(found.failing), tolerance)
  BY <1>5, <1>6 DEF WithinTolerance
<1> QED
  BY <1>7 DEF EvaluateControl, found

\* The problems of the cases of a FileFor.
ProblemsOf(x, events, found) ==
    UNION {CaseProblems(x, [id |-> e, expected |-> e, fixture |-> {events}], found) :
           e \in Expectations}

\* They are those of its file.
LEMMA FileIsLinted ==
    ASSUME NEW c, NEW x, NEW events, NEW domain, Admitted(x), x.rung = 2,
           ShapeFor(c, x) # NoShape
    PROVE  LintCatalog(c, {FileFor(x, events)}, domain, TRUE)
               = ProblemsOf(x, events, FixtureOutcome(c, x, events, domain))
<1> DEFINE file == FileFor(x, events)
           case(e) == [id |-> e, expected |-> e, fixture |-> {events}]
           cases == {case(e) : e \in Expectations}
           of(e) == CaseProblems(x, case(e), FixtureOutcome(c, x, events, domain))
<1>1. file.control = x /\ file.valid /\ file.flagged /\ file.cases = cases
  BY DEF FileFor, Expectations
<1>2. LintCatalog(c, {file}, domain, TRUE) = LintControl(c, file, domain, TRUE)
  BY DEF LintCatalog
<1> HIDE DEF file
<1>3. LintControl(c, file, domain, TRUE) = LintCases(c, x, cases, domain)
  BY <1>1 DEF LintControl
<1>4. \A y \in cases : y.fixture = {events} /\ y.expected \in Expectations
  OBVIOUS
<1>5. {y \in cases : y.fixture = {}} = {} /\ {y \in cases : events \in y.fixture} = cases
      /\ {y \in cases : y.expected \in Expectations} = cases
  BY <1>4
<1>6. UNION {y.fixture : y \in cases} = {events}
  <2>1. case("passed") \in cases
    BY DEF Expectations
  <2> QED
    BY <1>4, <2>1
<1>7. UNION {CaseProblems(x, y, FixtureOutcome(c, x, events, domain)) : y \in cases}
          = UNION {of(e) : e \in Expectations}
  OBVIOUS
<1> HIDE DEF cases, of
<1>8. CasesProblems(x, cases, FixtureOutcome(c, x, events, domain)) = UNION {of(e) : e \in Expectations}
  BY <1>5, <1>7 DEF CasesProblems, Expectations
<1>9. LintCases(c, x, cases, domain) = UNION {of(e) : e \in Expectations}
  <2> DEFINE On(v) == CasesProblems(x, {y \in cases : v \in y.fixture},
                                    FixtureOutcome(c, x, v, domain))
  <2>1. LintCases(c, x, cases, domain)
            = {Problem(x, y.id, "no_fixture") : y \in {z \in cases : z.fixture = {}}}
              \cup UNION {On(v) : v \in UNION {y.fixture : y \in cases}}
    BY DEF LintCases
  <2>2. On(events) = UNION {of(e) : e \in Expectations}
    BY <1>5, <1>8
  <2> HIDE DEF On
  <2> QED
    BY <1>5, <1>6, <2>1, <2>2
<1> QED
  BY <1>2, <1>3, <1>9 DEF file, of, ProblemsOf

\* Lint says of them what the verdict foretells.
LEMMA FileForetells ==
    ASSUME NEW x, NEW events, NEW found, NEW outcome,
           outcome = (IF found.population = <<>> THEN "not_applicable" ELSE found.outcome),
           outcome \in Foretold,
           found.outcome \in {"conformant", "non-conformant"},
           found.population = <<>> => found.outcome = "conformant"
    PROVE  LintForetells(outcome, x, ProblemsOf(x, events, found))
<1> DEFINE problems == ProblemsOf(x, events, found)
           case(e) == [id |-> e, expected |-> e, fixture |-> {events}]
           of(e) == CaseProblems(x, case(e), found)
           dies == x.tolerance.den # 1 /\ (found.population = <<>> \/ x.tolerance.kind # "ratio")
<1>1. /\ problems = UNION {of(e) : e \in Expectations}
      /\ outcome = (IF found.population = <<>> THEN "not_applicable" ELSE found.outcome)
      /\ found.population = <<>> => found.outcome = "conformant"
  BY DEF ProblemsOf
<1> HIDE DEF problems
<1> SUFFICES LintForetells(outcome, x, problems)
  BY DEF problems
<1>2. \A e : case(e).id = e /\ case(e).expected = e
  OBVIOUS
<1> HIDE DEF case
<1>3. found.population = <<>> <=> outcome = "not_applicable"
  BY <1>1
<1>4. CASE dies
  <2>1. of("passed") = {Problem(x, "passed", "raises")}
    BY <1>2, <1>4 DEF CaseProblems
  <2>2. Problem(x, "passed", "raises") \in problems
    BY <1>1, <2>1 DEF Expectations
  <2>3. Problem(x, "passed", "raises").why = "raises"
    BY DEF Problem
  <2>4. LintExit(problems) = 3
    BY <2>2, <2>3 DEF LintExit
  <2> QED
    BY <1>3, <1>4, <2>4 DEF LintForetells
<1>5. CASE ~dies
  <2>1. \A e \in Expectations :
            of(e) = IF OutcomeMatches(e, found.population, found.outcome) THEN {}
                    ELSE {Problem(x, e, "unexpected")}
    BY <1>2, <1>5 DEF CaseProblems
  <2>2. \A e \in Expectations :
            OutcomeMatches(e, found.population, found.outcome) <=> e = Expecting(outcome)
    <3>1. OutcomeMatches("passed", found.population, found.outcome) <=> outcome = "conformant"
      BY <1>1 DEF OutcomeMatches
    <3>2. OutcomeMatches("failed", found.population, found.outcome) <=> outcome = "non-conformant"
      BY <1>1 DEF OutcomeMatches
    <3>3. OutcomeMatches("inapplicable", found.population, found.outcome) <=> outcome = "not_applicable"
      BY <1>3 DEF OutcomeMatches
    <3> QED
      BY <3>1, <3>2, <3>3 DEF Expecting, Expectations, Foretold
  <2> HIDE DEF of
  <2>3. problems = {Problem(x, e, "unexpected") : e \in Expectations \ {Expecting(outcome)}}
    <3>1. \A e \in Expectations :
              of(e) = IF e = Expecting(outcome) THEN {} ELSE {Problem(x, e, "unexpected")}
      BY <2>1, <2>2
    <3>2. ASSUME NEW p \in problems
          PROVE  \E e \in Expectations \ {Expecting(outcome)} : p = Problem(x, e, "unexpected")
      <4>1. PICK e \in Expectations : p \in of(e)
        BY <1>1
      <4> QED
        BY <3>1, <4>1
    <3>3. \A e \in Expectations \ {Expecting(outcome)} : Problem(x, e, "unexpected") \in problems
      BY <1>1, <3>1
    <3> QED
      BY <3>2, <3>3
  <2>4. \A e : Problem(x, e, "unexpected").case = e /\ Problem(x, e, "unexpected").why = "unexpected"
    BY DEF Problem
  <2>5. {p.case : p \in problems} = Expectations \ {Expecting(outcome)}
    <3> DEFINE D == Expectations \ {Expecting(outcome)}
               of_(e) == Problem(x, e, "unexpected")
    <3>1. problems = {of_(e) : e \in D} /\ \A e : of_(e).case = e
      BY <2>3, <2>4
    <3> HIDE DEF D, of_
    <3>2. {p.case : p \in problems} = D
      <4>1. \A e \in D : of_(e) \in problems /\ of_(e).case = e
        BY <3>1
      <4>2. \A p \in problems : p.case \in D
        BY <3>1
      <4>3. \A e \in D : \E p \in problems : p.case = e
        BY <4>1
      <4> QED
        BY <4>2, <4>3
    <3> QED
      BY <3>2 DEF D
  <2>6. Expectations \ {Expecting(outcome)} # {}
    BY DEF Expectations
  <2>7. LintExit(problems) = 1
    <3>1. ~\E p \in problems : p.why = "raises"
      BY <2>3, <2>4
    <3>2. problems # {}
      <4>1. PICK e \in Expectations : e # Expecting(outcome)
        BY <2>6
      <4>2. Problem(x, e, "unexpected") \in problems
        BY <2>3, <4>1
      <4> QED
        BY <4>2
    <3> QED
      BY <3>1, <3>2 DEF LintExit
  <2> QED
    BY <1>3, <1>5, <2>5, <2>7 DEF LintForetells, Expectations
<1> QED
  BY <1>4, <1>5

\* The verdicts of a report are those lint has its cases foretell.
LEMMA LintsAlike ==
    ASSUME WholeInv, ReadInv, phase = "reported", NEW r \in out.report
    PROVE  LintAgrees(r)
<1>1. /\ cmd.kind = "assess" /\ r.run = cmd /\ r.accepted = accepted
      /\ r.assertions = assertions /\ r.catalogs = catalogs
  BY DEF WholeInv, ReportedAll
<1> SUFFICES ASSUME NEW c \in ToSet(r.catalogs), NEW s \in ToSet(r.run.subjects),
                    NEW x \in ToSet(c.controls), OnlyOne(c, x, s, r), Admitted(x),
                    RoleApplies(EffectiveRoles(s.role), x.roles),
                    NEW a \in ToSet(r.assertions),
                    a.catalog = c.label, a.control = x.id, a.subject = s.id,
                    a.outcome \in Foretold
             PROVE  LintForetells(a.outcome, x,
                        LintCatalog(c, {FileFor(x, EventsOf(r.accepted, s.id))}, r.run.domain, TRUE))
  BY DEF LintAgrees
<1> DEFINE events == EventsOf(accepted, s.id)
           g == BuildGraph(events, cmd.domain)
           E == {e \in ToSet(accepted) : e.subject = s.id}
           Of(d, y, t) == AssertControl(BuildGraph(EventsOf(accepted, t.id), cmd.domain),
                                        {e \in ToSet(accepted) : e.subject = t.id}, d, y, t)
<1>2. a = AssertControl(g, E, c, x, s)
  <2>1. PICK t \in ToSet(cmd.subjects) : JudgedAs(a, accepted, catalogs, t, cmd.domain)
    BY <1>1 DEF ReadInv, OnlyJudged
  <2>2. PICK d \in ToSet(catalogs) : \E y \in ToSet(d.controls) : a = Of(d, y, t)
    BY <2>1 DEF JudgedAs
  <2>3. PICK y \in ToSet(d.controls) : a = Of(d, y, t)
    BY <2>2
  <2>4. a.control = y.id /\ a.subject = t.id
    BY <2>3, AssertionIsOf
  <2>5. a.catalog = d.label
    <3>1. ASSUME NEW h, NEW F
          PROVE  AssertControl(h, F, d, y, t).catalog = d.label
      <4>1. ASSUME NEW outcome, NEW of, NEW cited
            PROVE  Assertion(d, y, t, outcome, of, cited).catalog = d.label
        BY DEF Assertion
      <4>2. \E outcome, of, cited :
                AssertControl(h, F, d, y, t) = Assertion(d, y, t, outcome, of, cited)
        <5>1. ASSUME NEW f
              PROVE  \E outcome, of, cited :
                         AssertFound(F, d, y, t, f) = Assertion(d, y, t, outcome, of, cited)
          BY DEF AssertFound
        <5> QED
          BY <5>1 DEF AssertControl
      <4> QED
        BY <4>1, <4>2
    <3> QED
      BY <2>3, <3>1
  <2> HIDE DEF Of
  <2>6. d = c /\ t = s
    BY <1>1, <2>4, <2>5 DEF OnlyOne
  <2>7. y = x
    BY <2>4, <2>6 DEF OnlyOne
  <2> QED
    BY <2>3, <2>6, <2>7 DEF Of
<1> HIDE DEF E, events
<1> DEFINE found == EvaluateShape(g, ShapeFor(c, x), ShapeTable(c))
           fixture == FixtureOutcome(c, x, events, cmd.domain)
           passes == WithinTolerance(Len(found.applicable), Len(found.failing), x.tolerance)
<1>3. /\ x.rung = 2 /\ ShapeFor(c, x) # NoShape
      /\ a.outcome = (IF found.applicable = <<>> THEN "not_applicable"
                      ELSE IF passes THEN "conformant" ELSE "non-conformant")
  <2> HIDE DEF g
  <2> QED
    BY <1>2, JudgedByShape
<1>4. fixture = EvaluateControl(found, x.tolerance)
  BY DEF FixtureOutcome
<1>5. /\ fixture.population = found.applicable
      /\ fixture.outcome = (IF passes THEN "conformant" ELSE "non-conformant")
  BY <1>4 DEF EvaluateControl
<1>6. fixture.population = <<>> => fixture.outcome = "conformant"
  <2> HIDE DEF fixture
  <2> QED
    BY <1>4, <1>5, NobodyFails DEF Admitted
<1> HIDE DEF fixture, found, passes
<1>7. a.outcome = (IF fixture.population = <<>> THEN "not_applicable" ELSE fixture.outcome)
  BY <1>3, <1>5
<1> DEFINE problems == LintCatalog(c, {FileFor(x, events)}, cmd.domain, TRUE)
<1>8. problems = ProblemsOf(x, events, fixture)
  BY <1>3, FileIsLinted DEF fixture
<1> HIDE DEF problems
<1>9. fixture.outcome \in {"conformant", "non-conformant"}
  BY <1>5
<1>10. LintForetells(a.outcome, x, problems)
  BY <1>6, <1>7, <1>8, <1>9, FileForetells
<1> QED
  BY <1>1, <1>10 DEF problems, events

\* All of it, of a report just made.
LEMMA ReadersAgree ==
    ASSUME ReportsInv, DescribedInv, ExplainedInv, WholeInv, ReadInv
    PROVE  ReadOnlyCommandsAgree
<1> SUFFICES ASSUME phase = "reported", NEW r \in out.report
             PROVE  /\ Validate(dir).exit = (IF out.quarantine = <<>> THEN 0 ELSE 1)
                    /\ Validate(dir).accepted = Len(r.accepted)
                    /\ \A s, t \in StreamStatuses :
                           VerifyBundle(dir, <<s, t>>) = 0 => IntegrityReasons(<<s, t>>) = {}
                    /\ \A k \in DOMAIN cmd.ask.dirs :
                           VerifyCatalog(cmd.ask.dirs[k], cmd.ask.trust) = 3 =>
                               cmd.ask.dirs[k].catalog.label \in r.limitations
                    /\ LintAgrees(r)
                    /\ \A c \in ToSet(r.catalogs) : \A x \in ToSet(c.controls) :
                           TighteningStays(x, Len(r.accepted))
                    /\ RereadAgrees(r.assertions, r.catalogs, ReportFrom(ReadBack(r.assertions), <<>>))
                    /\ Verdicts \cap Outcomes(r.assertions) = {} =>
                           WhyAgrees(r, WhyNothing(r.run.subjects, r.accepted))
  BY DEF ReadOnlyCommandsAgree
<1>1. IsSequence(r.assertions)
  BY DEF ReportsInv, Ordered
<1>2. Len(r.accepted) \in Nat
  <2>1. r.accepted = accepted
    BY DEF WholeInv, ReportedAll
  <2> QED
    BY <2>1 DEF DescribedInv, IsSequence
<1>3. \A k \in DOMAIN cmd.ask.dirs :
          VerifyCatalog(cmd.ask.dirs[k], cmd.ask.trust) = 3 =>
              cmd.ask.dirs[k].catalog.label \in r.limitations
  <2>1. r.limitations = Limitations(cmd.ask)
    BY DEF WholeInv, ReportedAll
  <2> QED
    BY <2>1, RefusedIsNamed
<1>4. \A s, t \in StreamStatuses :
          VerifyBundle(dir, <<s, t>>) = 0 => IntegrityReasons(<<s, t>>) = {}
  BY VerifiedIsNotBroken
<1>5. \A c \in ToSet(r.catalogs) : \A x \in ToSet(c.controls) : TighteningStays(x, Len(r.accepted))
  BY <1>2, OverlaysTighten
<1> QED
  BY <1>1, <1>3, <1>4, <1>5, ValidatesAlike, LintsAlike, RereadsAlike, WhyIsSo

\* Whatever the bundle, the profile, the catalogs and the overlays are: of a
\* report just made validate counts what it was judged on, verify refuses what
\* it names, lint takes of each test case the verdict for the one to expect, an
\* overlay that lint admits lets nothing more pass, and a report rendered from
\* assertions.json alone lists the same (cmd_validate, _verify_catalog,
\* lint_catalog, overlay_weakens_base, cmd_report, _nothing_evaluated).
THEOREM ReadOnlyCommandsAgreeAlways == Spec => []ReadOnlyCommandsAgree
<1>1. ReportsInv /\ DescribedInv /\ ExplainedInv /\ WholeInv /\ ReadInv => ReadOnlyCommandsAgree
  BY ReadersAgree
<1> QED
  BY <1>1, ReportsInvariant, DescribedInvariant, ExplainedInvariant, WholeInvariant,
     ReadInvariant, PTL

-----------------------------------------------------------------------------
(*                     How the engines order literals                      *)

\* Whatever integers and times a bundle's values are spelled as, in whatever
\* zones and with however many digits after the point: each engine orders them
\* as numbers and as instants, by the calendar, from the year 0 on, and leaves
\* in no order what has no instant or of which only one has a zone; but for the
\* reference, which raises on an integer too long for Python's int()
\* (structural.compare_literals, structural.ts and Structural.java).
THEOREM LiteralsOrderAsInstantsAlways == Spec => []LiteralsOrderAsInstants
<1>1. LiteralsOrderAsInstants
  BY SpelledAssumption, LiteralsAreInOrder DEF LiteralsOrderAsInstants
<1> QED
  BY <1>1, PTL
=============================================================================
