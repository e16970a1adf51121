-------------------------- MODULE IntegrityProofs --------------------------
(***************************************************************************)
(* Proofs about Integrity for every set of chains, every manner of harm on *)
(* the way and any number of events: the type invariant; that a stream     *)
(* which is not reported broken is what its source wrote; that a verified  *)
(* one is attested or anchored; that a reported break is where the stream  *)
(* first departs from what was written; that a good delivery raises no     *)
(* alarm; and that the ports return the same results.                      *)
(*                                                                         *)
(* The argument.  What the sources write is linked, and no two events have *)
(* the same hash (Linked).  Whatever happens on the way, a line that still *)
(* has its block has the hash and the prev its source gave it (Carried):   *)
(* so a line that passes the first pass has its source's content too.  In  *)
(* the second pass the events up to i are a run of the chain (Passing),    *)
(* since the next event's prev names its predecessor in the chain.  A      *)
(* delivery nothing was harmed in is Smooth: of each chain ingest has      *)
(* taken exactly the events before the line it is at, so each check holds. *)
(***************************************************************************)
EXTENDS IntegrityPorts, FiniteSetTheorems, SequenceTheorems, TLAPS

Chained(c, j) ==
    LET e == emitted[c][j]
    IN  /\ e.hash = Hash(e)
        /\ e.stream = KeyName[c]
        /\ e.id <= written
        /\ \/ e.prev = Genesis
           \/ j > 1 /\ e.prev = emitted[c][j - 1].hash

Linked ==
    /\ \A c \in Chains : \A j \in DOMAIN emitted[c] : Chained(c, j)
    /\ \A c \in Chains :
          \/ tip[c] = Genesis
          \/ emitted[c] # <<>> /\ tip[c] = emitted[c][Len(emitted[c])].hash
    /\ \A c, d \in Chains : \A j \in DOMAIN emitted[c], k \in DOMAIN emitted[d] :
          emitted[c][j].id = emitted[d][k].id => c = d /\ j = k

\* e has the id and the block event j of chain c was given.
BlockOf(e, c, j) ==
    /\ e.stream = KeyName[c]
    /\ e.id = emitted[c][j].id
    /\ e.hash = emitted[c][j].hash
    /\ e.prev = emitted[c][j].prev

Carried(e) ==
    HasBlock(e) => \E c \in Chains : \E j \in DOMAIN emitted[c] : BlockOf(e, c, j)

Lines(s) == {s[n] : n \in DOMAIN s}

AllCarried ==
    /\ \A e \in Lines(stored) : Carried(e)
    /\ \A k \in Keys : \A e \in Lines(grouped[k]) : Carried(e) /\ KeyOf(e) = k

\* Nothing is judged before verifying.
InTurn ==
    phase \in {"writing", "carrying", "ingesting"} =>
        results = <<>> /\ pass = "select"

\* The first n events of s are a run of chain c from its event j on.
RunFrom(s, n, c, j) ==
    /\ j + n - 1 <= Len(emitted[c])
    /\ \A l \in 1 .. n :
          /\ Hash(s[l]) = Hash(emitted[c][j + l - 1])
          /\ emitted[c][j + l - 1].prev = Genesis <=> l = 1

RunSoFar(s, n, k) ==
    n > 0 => \E c \in Chains : KeyName[c] = k
                /\ \E j \in DOMAIN emitted[c] : RunFrom(s, n, c, j)

\* What the passes over the present stream have established.
Passing ==
    /\ pass # "select" => next <= Len(KeyOrder) /\ Stream # <<>>
    /\ pass = "tamper" =>
          \A n \in DOMAIN Stream : n < i => HashHolds(Stream[n])
    /\ pass \in {"chain", "time"} =>
          \A n \in DOMAIN Stream : HashHolds(Stream[n])
    /\ pass = "chain" => i <= Len(Stream) + 1 /\ RunSoFar(Stream, i - 1, Key)
    /\ pass = "time" => IsRun(Stream, Key)

IInv ==
    /\ TypeOK
    /\ Linked
    /\ AllCarried
    /\ InTurn
    /\ Passing
    /\ UnbrokenIsRun

-----------------------------------------------------------------------------
\* An element of a sequence over S is in S.
LEMMA ElementOf ==
    ASSUME NEW S, NEW s \in Seq(S), NEW k \in DOMAIN s
    PROVE  s[k] \in S
OBVIOUS

\* A non-empty set of naturals has its Min among its elements, and none is
\* less: of the finite sets 1..n for n in it, one is minimal.
LEMMA MinIsElement ==
    ASSUME NEW S \in SUBSET Nat, S # {}
    PROVE  Min(S) \in S /\ \A n \in S : Min(S) <= n
<1> DEFINE T == {1 .. n : n \in S}
           R == StrictSubsetOrdering(Nat)
<1>1. T \subseteq FiniteSubsetsOf(Nat)
  BY FS_Interval DEF FiniteSubsetsOf
<1>2. T # {}
  OBVIOUS
<1>3. IsWellFoundedOn(R, FiniteSubsetsOf(Nat))
  BY FS_StrictSubsetOrderingWellFounded
<1>4. PICK x \in T : \A y \in T : ~(<<y, x>> \in R)
  <2> HIDE DEF R, T
  <2> QED
    BY <1>1, <1>2, <1>3, WFMin
<1>5. PICK m \in S : x = 1 .. m
  OBVIOUS
<1>6. ASSUME NEW n \in S PROVE m <= n
  <2> SUFFICES ASSUME n < m PROVE FALSE
    OBVIOUS
  <2>1. 1 .. n \subseteq 1 .. m /\ 1 .. n # 1 .. m
    <3>1. m \in 1 .. m /\ m \notin 1 .. n
      OBVIOUS
    <3> QED
      BY <3>1
  <2>2. <<1 .. n, 1 .. m>> \in R
    BY <2>1 DEF StrictSubsetOrdering
  <2> QED
    BY <1>4, <1>5, <2>2
<1> QED
  BY <1>6 DEF Min

\* What an event is.
LEMMA EventFacts ==
    ASSUME NEW e \in Event
    PROVE  /\ e.form = "event" /\ e.id \in Nat /\ e.time \in Times
           /\ KeyOf(e) \in Keys /\ StreamOf(e) \in IngestStreams
           /\ Hash(e) \in Hashes
           /\ e.time \in Nat
<1>1. e.form = "event" /\ e.id \in Nat /\ e.time \in Times
  BY DEF Event
<1>2. e.time \in Nat
  BY <1>1, IntegrityAssumption
<1>3. KeyOf(e) \in Keys /\ StreamOf(e) \in IngestStreams
  BY DEF Event, KeyOf, HasBlock, StreamOf, IngestStreams
<1>4. Hash(e) \in Hashes
  BY DEF Event, Hash, Hashes
<1> QED
  BY <1>1, <1>2, <1>3, <1>4

\* What ingest can say of an event.
LEMMA VerdictOnEvent ==
    ASSUME NEW e \in Event, NEW ids, NEW times
    PROVE  VerdictOn(e, <<>>, ids, times) \in Reasons \cup {Accept}
<1>1. e.form = "event"
  BY EventFacts
<1> QED
  BY <1>1 DEF VerdictOn, Reasons, Accept

\* The strength reported of a stream is one a block can claim.
LEMMA StrengthIsStrength ==
    ASSUME NEW s \in Seq(Event)
    PROVE  StrengthOf(s) \in Strengths
<1> DEFINE blocks == {n \in DOMAIN s : HasBlock(s[n])}
<1>1. CASE blocks = {}
  BY <1>1 DEF StrengthOf, Strengths
<1>2. CASE blocks # {}
  <2>1. blocks \in SUBSET Nat
    OBVIOUS
  <2>2. Min(blocks) \in DOMAIN s
    BY <1>2, <2>1, MinIsElement
  <2>3. s[Min(blocks)] \in Event
    <3> HIDE DEF blocks
    <3> QED
      BY <2>2, ElementOf
  <2>4. s[Min(blocks)].strength \in Strengths
    <3> HIDE DEF blocks
    <3> QED
      BY <2>3 DEF Event
  <2> QED
    BY <1>2, <2>4 DEF StrengthOf
<1> QED
  BY <1>1, <1>2

\* The present stream is a key's group.
LEMMA KeyIsKey ==
    ASSUME TypeOK, next <= Len(KeyOrder)
    PROVE  Key \in Keys /\ Stream \in Seq(Event)
BY IntegrityAssumption DEF TypeOK, Key, Stream, Keys

-----------------------------------------------------------------------------
\* Type correctness.
LEMMA TypeInit == Init => TypeOK
<1> SUFFICES ASSUME Init PROVE TypeOK
  OBVIOUS
<1>1. anchors \in [Keys -> SUBSET Anchor]
  BY IntegrityAssumption DEF Init
<1>2. emitted \in [Chains -> Seq(Event)] /\ stored \in Seq(Event)
      /\ grouped \in [Keys -> Seq(Event)]
      /\ results \in Seq([stream : Keys, strength : Strengths,
                          status : Statuses, bad : Nat])
  BY DEF Init
<1>3. tip \in [Chains -> Hashes \cup {Genesis}] /\ last \in [IngestStreams -> Nat]
  BY DEF Init
<1>4. written \in Nat /\ mishaps \in Nat
  BY DEF Init
<1>5. harmed \in BOOLEAN
  BY Zenon DEF Init
<1>6. phase \in {"writing", "carrying", "ingesting", "verifying", "done", "aborted"}
  BY DEF Init
<1>7. /\ at \in Nat \ {0} /\ seen \in SUBSET Nat /\ refused \in SUBSET Reasons
      /\ next \in Nat \ {0} /\ pass \in Passes /\ i \in Nat \ {0}
  BY DEF Init, Passes
<1> QED
  BY <1>1, <1>2, <1>3, <1>4, <1>5, <1>6, <1>7, Zenon DEF TypeOK

\* What a source writes is an event.
LEMMA TypeEmit ==
    ASSUME TypeOK, NEW c \in Chains, NEW t \in Times,
           NEW strength \in StrengthsOf[c], Emit(c, t, strength)
    PROVE  TypeOK'
<1> DEFINE content == [id |-> written + 1, source |-> SourceOf[c],
                       pair |-> PairOf[c], time |-> t, note |-> "said"]
           e == [form |-> "event", id |-> written + 1, source |-> SourceOf[c],
                 class |-> NoClass, stream |-> KeyName[c], time |-> t,
                 pair |-> PairOf[c], note |-> "said", hash |-> content,
                 prev |-> tip[c], strength |-> strength, sig |-> TRUE]
<1>1. /\ emitted' = [emitted EXCEPT ![c] = Append(@, e)]
      /\ tip' = [tip EXCEPT ![c] = content]
      /\ stored' = Append(stored, e)
      /\ written' = written + 1
      /\ UNCHANGED <<mishaps, harmed, anchors, phase, ingest, judging>>
  BY DEF Emit, During
<1>2. content \in Hashes
  BY IntegrityAssumption DEF TypeOK, Hashes, Notes
<1>3. strength \in Strengths
  BY IntegrityAssumption
<1>4. e \in Event
  <2>1. tip[c] \in Hashes \cup {Genesis}
    BY DEF TypeOK
  <2>2. written + 1 \in Nat /\ KeyName[c] \in Keys /\ PairOf[c] \in Keys
    BY IntegrityAssumption DEF TypeOK
  <2> HIDE DEF content
  <2> QED
    BY <1>2, <1>3, <2>1, <2>2 DEF Event, Notes
<1> HIDE DEF e, content
<1>5. emitted' \in [Chains -> Seq(Event)]
  BY <1>1, <1>4 DEF TypeOK
<1>6. tip' \in [Chains -> Hashes \cup {Genesis}] /\ stored' \in Seq(Event)
  BY <1>1, <1>2, <1>4 DEF TypeOK
<1> QED
  BY <1>1, <1>5, <1>6 DEF TypeOK, ingest, judging

\* What the way does to the bundle leaves it a sequence of events.
LEMMA TypeWay ==
    ASSUME TypeOK, Way
    PROVE  TypeOK'
<1> USE DEF TypeOK, During, Mishap, Harm, sources, ingest, judging
<1>1. ASSUME NEW c \in Chains, NEW t \in Times,
             NEW strength \in StrengthsOf[c], Emit(c, t, strength)
      PROVE  TypeOK'
  BY <1>1, TypeEmit
<1>2. ASSUME NEW c \in Chains, Restart(c) PROVE TypeOK'
  BY <1>2 DEF Restart
<1>3. ASSUME NEW n \in DOMAIN stored, Repeat(n) PROVE TypeOK'
  <2>1. stored[n] \in Event
    OBVIOUS
  <2>2. Append(stored, stored[n]) \in Seq(Event)
    BY <2>1
  <2> QED
    BY <1>3, <2>2 DEF Repeat
<1>4. ASSUME NEW n \in DOMAIN stored, Lose(n) PROVE TypeOK'
  <2> DEFINE before == SubSeq(stored, 1, n - 1)
             after == SubSeq(stored, n + 1, Len(stored))
  <2>1. before \in Seq(Event) /\ after \in Seq(Event)
    OBVIOUS
  <2>2. stored' = before \o after
    BY <1>4 DEF Lose
  <2> HIDE DEF before, after
  <2>3. before \o after \in Seq(Event)
    BY <2>1, ConcatProperties, Zenon
  <2>4. stored' \in Seq(Event)
    BY <2>2, <2>3, Zenon
  <2>5. UNCHANGED <<emitted, tip, written, anchors, phase, at, seen, last,
                    refused, grouped, next, pass, i, results>>
        /\ mishaps' = mishaps + 1 /\ harmed' = TRUE
    BY <1>4 DEF Lose
  <2> QED
    BY <2>4, <2>5
<1>5. ASSUME NEW m \in DOMAIN stored, NEW n \in DOMAIN stored, Swap(m, n)
      PROVE  TypeOK'
  <2>1. stored[m] \in Event /\ stored[n] \in Event
    OBVIOUS
  <2>2. [stored EXCEPT ![m] = stored[n], ![n] = stored[m]] \in Seq(Event)
    BY <2>1
  <2> QED
    BY <1>5, <2>2 DEF Swap
<1>6. ASSUME NEW n \in DOMAIN stored, NEW e \in Event, Change(n, e) PROVE TypeOK'
  <2>1. [stored EXCEPT ![n] = e] \in Seq(Event)
    OBVIOUS
  <2> QED
    BY <1>6, <2>1 DEF Change
<1>7. ASSUME NEW n \in DOMAIN stored
      PROVE  /\ [stored[n] EXCEPT !.note = "altered"] \in Event
             /\ [stored[n] EXCEPT !.stream = NoStream] \in Event
             /\ [stored[n] EXCEPT !.sig = FALSE] \in Event
  <2>1. stored[n] \in Event
    OBVIOUS
  <2> QED
    BY <2>1 DEF Event, Notes
<1> QED
  BY <1>1, <1>2, <1>3, <1>4, <1>5, <1>6, <1>7
  DEF Way, Alter, Strip, LoseAttestation

LEMMA TypeReadLine ==
    ASSUME TypeOK, ReadLine
    PROVE  TypeOK'
<1> DEFINE l == stored[at]
           verdict == VerdictOn(l, <<>>, seen, last)
<1>1. l \in Event
  BY ElementOf DEF TypeOK, ReadLine
<1>2. l.id \in Nat /\ l.time \in Nat /\ KeyOf(l) \in Keys
      /\ StreamOf(l) \in IngestStreams
  <2> HIDE DEF l
  <2> QED
    BY <1>1, EventFacts
<1>3. verdict \in Reasons \cup {Accept}
  <2> HIDE DEF l
  <2> QED
    BY <1>1, VerdictOnEvent
<1>4. /\ at' = at + 1
      /\ UNCHANGED <<sources, bundle, phase, judging>>
      /\ IF verdict = Accept
         THEN /\ seen' = seen \cup {l.id}
              /\ last' = [last EXCEPT ![StreamOf(l)] = l.time]
              /\ grouped' = [grouped EXCEPT ![KeyOf(l)] = Append(@, l)]
              /\ UNCHANGED refused
         ELSE /\ refused' = refused \cup {verdict}
              /\ UNCHANGED <<seen, last, grouped>>
  BY DEF ReadLine
<1> HIDE DEF verdict, l
<1>5. grouped' \in [Keys -> Seq(Event)]
  <2>1. CASE verdict = Accept
    <3>1. grouped[KeyOf(l)] \in Seq(Event)
      BY <1>2 DEF TypeOK
    <3>2. Append(grouped[KeyOf(l)], l) \in Seq(Event)
      BY <1>1, <3>1
    <3>3. grouped' = [grouped EXCEPT ![KeyOf(l)] = Append(grouped[KeyOf(l)], l)]
      BY <1>4, <2>1
    <3> QED
      BY <3>2, <3>3 DEF TypeOK
  <2>2. CASE verdict # Accept
    BY <1>4, <2>2 DEF TypeOK
  <2> QED
    BY <2>1, <2>2
<1>6. seen' \in SUBSET Nat /\ last' \in [IngestStreams -> Nat]
      /\ refused' \in SUBSET Reasons
  BY <1>2, <1>3, <1>4 DEF TypeOK
<1> QED
  BY <1>4, <1>5, <1>6 DEF TypeOK, sources, bundle, judging

\* A conclusion is a result, whatever the pass it is drawn in.
LEMMA TypeConclude ==
    ASSUME TypeOK, next <= Len(KeyOrder), NEW status \in Statuses, NEW bad \in Nat,
           Conclude(status, bad)
    PROVE  /\ results' \in Seq([stream : Keys, strength : Strengths,
                                status : Statuses, bad : Nat])
           /\ next' \in Nat \ {0} /\ pass' \in Passes /\ i' \in Nat \ {0}
<1> DEFINE r == [stream |-> Key, strength |-> StrengthOf(Stream),
                 status |-> status, bad |-> bad]
           R == [stream : Keys, strength : Strengths,
                 status : Statuses, bad : Nat]
<1>1. Key \in Keys /\ StrengthOf(Stream) \in Strengths
  BY KeyIsKey, StrengthIsStrength
<1>2. r \in R
  BY <1>1
<1>3. results' = Append(results, r) /\ results \in Seq(R)
  BY DEF Conclude, TypeOK
<1> HIDE DEF r, R
<1>4. results' \in Seq(R)
  BY <1>2, <1>3
<1>5. next' \in Nat \ {0} /\ pass' \in Passes /\ i' \in Nat \ {0}
  BY DEF Conclude, TypeOK, Passes
<1> QED
  BY <1>4, <1>5 DEF R

LEMMA TypeEngine ==
    ASSUME TypeOK, Engine
    PROVE  TypeOK'
<1> USE DEF sources, bundle, ingest, judging
<1>1. CASE Carry \/ BeginIngest \/ BeginVerify \/ Finish
  BY <1>1 DEF TypeOK, Carry, BeginIngest, BeginVerify, Finish
<1>2. CASE ReadLine
  BY <1>2, TypeReadLine
<1>3. ASSUME Verifying,
             /\ results' \in Seq([stream : Keys, strength : Strengths,
                                  status : Statuses, bad : Nat])
             /\ next' \in Nat \ {0} /\ pass' \in Passes /\ i' \in Nat \ {0}
      PROVE  TypeOK'
  BY <1>3 DEF TypeOK, Verifying
<1>4. ASSUME NEW p \in Passes, Verifying, TurnTo(p) PROVE TypeOK'
  BY <1>3, <1>4 DEF TypeOK, TurnTo
<1>5. ASSUME Verifying, Advance PROVE TypeOK'
  BY <1>3, <1>5 DEF TypeOK, Advance
<1>6. ASSUME Verifying, NEW status \in Statuses, NEW bad \in Nat,
             Conclude(status, bad)
      PROVE  TypeOK'
  BY <1>3, <1>6, TypeConclude DEF Verifying
<1>7. CASE SelectStream
  <2>1. CASE Stream = <<>>
    BY <1>3, <1>7, <2>1 DEF TypeOK, SelectStream, Verifying
  <2>2. CASE Stream # <<>>
    BY <1>4, <1>7, <2>2 DEF SelectStream, Passes
  <2> QED
    BY <2>1, <2>2
<1>8. ASSUME NEW p, NEW holds, NEW status \in Statuses, Check(p, holds, status)
      PROVE  TypeOK'
  <2>1. i \in Nat
    BY DEF TypeOK
  <2>2. CASE holds
    BY <1>5, <1>8, <2>2 DEF Check
  <2>3. CASE ~holds
    BY <1>6, <1>8, <2>1, <2>3 DEF Check
  <2> QED
    BY <2>2, <2>3
<1>9. CASE CheckHash
  BY <1>8, <1>9 DEF CheckHash, Statuses
<1>10. CASE CheckLink
  BY <1>8, <1>10 DEF CheckLink, BreakKind, Statuses
<1>11. CASE CheckTime
  BY <1>8, <1>11 DEF CheckTime, Statuses, Unbroken
<1>12. CASE HashesHold \/ LinksHold
  BY <1>4, <1>12 DEF HashesHold, LinksHold, EndPass, Passes
<1>14. CASE Abort
  <2>1. <<>> \in Seq([stream : Keys, strength : Strengths, status : Statuses, bad : Nat])
    OBVIOUS
  <2> QED
    BY <1>14, <2>1 DEF TypeOK, Abort, Passes
<1>13. CASE TimesHold
  <2>1. Standing(Key, Stream) \in Statuses
    BY DEF Standing, Statuses, Unbroken
  <2> QED
    BY <1>6, <1>13, <2>1 DEF TimesHold, EndPass
<1> QED
  BY <1>1, <1>2, <1>7, <1>9, <1>10, <1>11, <1>12, <1>13, <1>14 DEF Engine

LEMMA TypeStep ==
    ASSUME TypeOK, [Next]_vars
    PROVE  TypeOK'
<1>1. CASE UNCHANGED vars
  BY <1>1 DEF TypeOK, vars
<1> QED
  BY <1>1, TypeWay, TypeEngine DEF Next

\* For every set of chains, every manifest and all that may happen to the
\* lines on the way: every variable of the stage keeps its type.
THEOREM IntegrityTypeCorrect == Spec => []TypeOK
BY TypeInit, TypeStep, PTL DEF Spec
-----------------------------------------------------------------------------
\* What the sources write is linked, and stays as written.

\* After Emit the events are those of before and, in c, the new one.
LEMMA EmitFacts ==
    ASSUME TypeOK, NEW c \in Chains, NEW t \in Times,
           NEW strength \in StrengthsOf[c], Emit(c, t, strength)
    PROVE  \E e \in Event :
              /\ stored' = Append(stored, e)
              /\ written' = written + 1
              /\ e.id = written + 1 /\ e.hash = Hash(e)
              /\ e.stream = KeyName[c] /\ e.prev = tip[c]
              /\ tip' = [tip EXCEPT ![c] = e.hash]
              /\ Len(emitted'[c]) = Len(emitted[c]) + 1
              /\ emitted'[c][Len(emitted[c]) + 1] = e
              /\ \A d \in Chains : d # c => emitted'[d] = emitted[d]
              /\ \A d \in Chains : \A j \in DOMAIN emitted[d] :
                    j \in DOMAIN emitted'[d] /\ emitted'[d][j] = emitted[d][j]
<1> DEFINE content == [id |-> written + 1, source |-> SourceOf[c],
                       pair |-> PairOf[c], time |-> t, note |-> "said"]
           e == [form |-> "event", id |-> written + 1, source |-> SourceOf[c],
                 class |-> NoClass, stream |-> KeyName[c], time |-> t,
                 pair |-> PairOf[c], note |-> "said", hash |-> content,
                 prev |-> tip[c], strength |-> strength, sig |-> TRUE]
<1>1. /\ emitted' = [emitted EXCEPT ![c] = Append(@, e)]
      /\ tip' = [tip EXCEPT ![c] = content]
      /\ stored' = Append(stored, e)
      /\ written' = written + 1
  BY DEF Emit
<1>2. TypeOK'
  BY TypeEmit
<1>3. e.id = written + 1 /\ e.hash = content /\ Hash(e) = content
      /\ e.stream = KeyName[c] /\ e.prev = tip[c]
  BY DEF Hash
<1> HIDE DEF e, content
<1>4. emitted[c] \in Seq(Event) /\ c \in DOMAIN emitted
  BY DEF TypeOK
<1>5. emitted'[c] = Append(emitted[c], e)
  BY <1>1, <1>4
<1>6. Len(emitted'[c]) = Len(emitted[c]) + 1 /\ emitted'[c][Len(emitted[c]) + 1] = e
  BY <1>4, <1>5
<1>7. emitted'[c] \in Seq(Event)
  BY <1>2 DEF TypeOK
<1>8. e \in Event
  BY <1>6, <1>7, ElementOf
<1>9. \A d \in Chains : d # c => emitted'[d] = emitted[d]
  BY <1>1 DEF TypeOK
<1>10. ASSUME NEW d \in Chains, NEW j \in DOMAIN emitted[d]
       PROVE  j \in DOMAIN emitted'[d] /\ emitted'[d][j] = emitted[d][j]
  <2>1. CASE d = c
    BY <1>4, <1>5, <1>10, <2>1
  <2>2. CASE d # c
    BY <1>9, <2>2
  <2> QED
    BY <2>1, <2>2
<1> QED
  BY <1>1, <1>3, <1>6, <1>8, <1>9, <1>10

LEMMA LinkedEmit ==
    ASSUME TypeOK, Linked, NEW c \in Chains, NEW t \in Times,
           NEW strength \in StrengthsOf[c], Emit(c, t, strength)
    PROVE  Linked'
<1> DEFINE n == Len(emitted[c]) + 1
<1>1. PICK e \in Event :
              /\ written' = written + 1
              /\ e.id = written + 1 /\ e.hash = Hash(e)
              /\ e.stream = KeyName[c] /\ e.prev = tip[c]
              /\ tip' = [tip EXCEPT ![c] = e.hash]
              /\ Len(emitted'[c]) = Len(emitted[c]) + 1
              /\ emitted'[c][Len(emitted[c]) + 1] = e
              /\ \A d \in Chains : d # c => emitted'[d] = emitted[d]
              /\ \A d \in Chains : \A j \in DOMAIN emitted[d] :
                    j \in DOMAIN emitted'[d] /\ emitted'[d][j] = emitted[d][j]
  BY EmitFacts
<1>2. TypeOK'
  BY TypeEmit
<1>3. \A d \in Chains : emitted[d] \in Seq(Event) /\ emitted'[d] \in Seq(Event)
  BY <1>2 DEF TypeOK
\* An index of emitted' is one of emitted, or that of the new event.
<1>4. ASSUME NEW d \in Chains, NEW j \in DOMAIN emitted'[d]
      PROVE  j \in DOMAIN emitted[d] \/ (d = c /\ j = n)
  BY <1>1, <1>3, <1>4
<1>5. n \in Nat /\ n \notin DOMAIN emitted[c] /\ written \in Nat
  BY <1>3 DEF TypeOK
<1>6. ASSUME NEW d \in Chains, NEW j \in DOMAIN emitted'[d]
      PROVE  Chained(d, j)'
  <2>1. CASE j \in DOMAIN emitted[d]
    <3>1. Chained(d, j)
      BY <2>1 DEF Linked
    <3>2. emitted'[d][j] = emitted[d][j]
      BY <1>1, <2>1
    <3>3. emitted[d][j].id \in Nat
      <4>1. emitted[d][j] \in Event
        BY <1>3, <2>1, ElementOf
      <4> QED
        BY <4>1, EventFacts
    <3>4. CASE emitted[d][j].prev = Genesis
      BY <1>1, <1>5, <3>1, <3>2, <3>3, <3>4 DEF Chained
    <3>5. CASE j > 1 /\ emitted[d][j].prev = emitted[d][j - 1].hash
      <4>1. j - 1 \in DOMAIN emitted[d]
        BY <1>3, <2>1, <3>5
      <4>2. emitted'[d][j - 1] = emitted[d][j - 1]
        BY <1>1, <4>1
      <4> QED
        BY <1>1, <1>5, <3>1, <3>2, <3>3, <3>5, <4>2 DEF Chained
    <3> QED
      BY <3>1, <3>4, <3>5 DEF Chained
  <2>2. CASE d = c /\ j = n
    <3>1. CASE tip[c] = Genesis
      BY <1>1, <1>5, <2>2, <3>1 DEF Chained
    <3>2. CASE emitted[c] # <<>> /\ tip[c] = emitted[c][Len(emitted[c])].hash
      <4>1. Len(emitted[c]) \in DOMAIN emitted[c] /\ n - 1 = Len(emitted[c]) /\ n > 1
        BY <1>3, <3>2
      <4>2. emitted'[c][n - 1] = emitted[c][Len(emitted[c])]
        BY <1>1, <4>1
      <4> QED
        BY <1>1, <1>5, <2>2, <3>2, <4>1, <4>2 DEF Chained
    <3> QED
      BY <3>1, <3>2 DEF Linked
  <2> QED
    BY <1>4, <2>1, <2>2
<1>7. ASSUME NEW d \in Chains
      PROVE  \/ tip'[d] = Genesis
             \/ emitted'[d] # <<>> /\ tip'[d] = emitted'[d][Len(emitted'[d])].hash
  <2>1. CASE d = c
    <3>1. tip'[c] = e.hash
      BY <1>1 DEF TypeOK
    <3>2. emitted'[c] # <<>>
      BY <1>1, <1>3, <1>5
    <3> QED
      BY <1>1, <2>1, <3>1, <3>2
  <2>2. CASE d # c
    BY <1>1, <2>2 DEF TypeOK, Linked
  <2> QED
    BY <2>1, <2>2
<1>8. ASSUME NEW d \in Chains, NEW j \in DOMAIN emitted[d]
      PROVE  emitted[d][j].id \in Nat /\ emitted[d][j].id <= written
  <2>1. emitted[d][j] \in Event
    BY <1>3, ElementOf
  <2>2. emitted[d][j].id \in Nat
    BY <2>1, EventFacts
  <2> QED
    BY <2>2 DEF Linked, Chained
<1>9. ASSUME NEW d \in Chains, NEW b \in Chains,
             NEW j \in DOMAIN emitted'[d], NEW k \in DOMAIN emitted'[b],
             emitted'[d][j].id = emitted'[b][k].id
      PROVE  d = b /\ j = k
  <2>1. CASE j \in DOMAIN emitted[d] /\ k \in DOMAIN emitted[b]
    BY <1>1, <1>9, <2>1 DEF Linked
  <2>2. CASE j \in DOMAIN emitted[d] /\ b = c /\ k = n
    BY <1>1, <1>5, <1>8, <1>9, <2>2
  <2>3. CASE k \in DOMAIN emitted[b] /\ d = c /\ j = n
    BY <1>1, <1>5, <1>8, <1>9, <2>3
  <2> QED
    BY <1>4, <2>1, <2>2, <2>3
<1> HIDE DEF n
<1> QED
  BY <1>6, <1>7, <1>9 DEF Linked

LEMMA LinkedStep ==
    ASSUME TypeOK, Linked, [Next]_vars
    PROVE  Linked'
<1>1. ASSUME NEW c \in Chains, NEW t \in Times,
             NEW strength \in StrengthsOf[c], Emit(c, t, strength)
      PROVE  Linked'
  BY <1>1, LinkedEmit
<1>2. ASSUME NEW c \in Chains, Restart(c) PROVE Linked'
  BY <1>2 DEF Restart, TypeOK, Linked, Chained
<1>3. ASSUME UNCHANGED sources PROVE Linked'
  BY <1>3 DEF sources, Linked, Chained
<1>4. ASSUME NEW n \in DOMAIN stored,
             Repeat(n) \/ Lose(n) \/ Alter(n) \/ Strip(n) \/ LoseAttestation(n)
      PROVE  UNCHANGED sources
  BY <1>4 DEF Repeat, Lose, Alter, Strip, LoseAttestation, Change
<1>5. ASSUME NEW m, NEW n, Swap(m, n) PROVE UNCHANGED sources
  BY <1>5 DEF Swap
<1>6. CASE Way
  BY <1>1, <1>2, <1>3, <1>4, <1>5, <1>6 DEF Way
<1>7. CASE Engine
  <2>1. UNCHANGED sources
    BY <1>7 DEF Engine, Carry, BeginIngest, ReadLine, BeginVerify, SelectStream,
        CheckHash, HashesHold, CheckLink, LinksHold, CheckTime, TimesHold,
        Check, EndPass, Verifying, Finish, Abort
  <2> QED
    BY <1>3, <2>1
<1>8. CASE UNCHANGED vars
  BY <1>3, <1>8 DEF vars, sources
<1> QED
  BY <1>6, <1>7, <1>8 DEF Next
-----------------------------------------------------------------------------
\* What becomes of a line on the way leaves its block as it was given.

\* Once given, a block is some event's for good.
LEMMA CarriedStays ==
    ASSUME TypeOK, NEW e, Carried(e),
           \/ UNCHANGED emitted
           \/ \E c \in Chains, t \in Times :
                 \E strength \in StrengthsOf[c] : Emit(c, t, strength)
    PROVE  Carried(e)'
<1>1. ASSUME NEW d \in Chains, NEW j \in DOMAIN emitted[d]
      PROVE  j \in DOMAIN emitted'[d] /\ emitted'[d][j] = emitted[d][j]
  <2>1. CASE UNCHANGED emitted
    BY <2>1
  <2>2. ASSUME NEW c \in Chains, NEW t \in Times,
               NEW strength \in StrengthsOf[c], Emit(c, t, strength)
        PROVE  j \in DOMAIN emitted'[d] /\ emitted'[d][j] = emitted[d][j]
    BY <2>2, EmitFacts
  <2> QED
    BY <2>1, <2>2
<1>2. CASE HasBlock(e)
  <2>1. PICK c \in Chains : \E j \in DOMAIN emitted[c] : BlockOf(e, c, j)
    BY <1>2 DEF Carried
  <2>2. PICK j \in DOMAIN emitted[c] : BlockOf(e, c, j)
    BY <2>1
  <2>3. j \in DOMAIN emitted'[c] /\ emitted'[c][j] = emitted[c][j]
    BY <1>1
  <2>4. BlockOf(e, c, j)'
    BY <2>2, <2>3 DEF BlockOf
  <2> QED
    BY <2>3, <2>4 DEF Carried
<1>3. CASE ~HasBlock(e)
  BY <1>3 DEF Carried, HasBlock
<1> QED
  BY <1>2, <1>3

\* The lines of the bundle after a step are lines of before, with the block
\* they had or none, or the event just written.
LEMMA StoredCarried ==
    ASSUME TypeOK, TypeOK', Linked, AllCarried, Way, NEW e \in Lines(stored')
    PROVE  Carried(e)'
<1>1. stored \in Seq(Event) /\ stored' \in Seq(Event)
  BY DEF TypeOK
<1>2. PICK p \in DOMAIN stored' : e = stored'[p]
  BY DEF Lines
<1>3. ASSUME NEW f \in Lines(stored), UNCHANGED emitted,
             HasBlock(e) => /\ e.stream = f.stream /\ e.id = f.id
                            /\ e.hash = f.hash /\ e.prev = f.prev
      PROVE  Carried(e)'
  <2>1. Carried(f)
    BY DEF AllCarried
  <2>2. Carried(e)
    BY <1>3, <2>1 DEF Carried, BlockOf, HasBlock
  <2> QED
    BY <1>3, <2>2, CarriedStays
<1>4. ASSUME e \in Lines(stored), UNCHANGED emitted PROVE Carried(e)'
  BY <1>3, <1>4
<1>5. ASSUME NEW c \in Chains, NEW t \in Times,
             NEW strength \in StrengthsOf[c], Emit(c, t, strength)
      PROVE  Carried(e)'
  <2>1. PICK f \in Event :
              /\ stored' = Append(stored, f)
              /\ f.stream = KeyName[c] /\ f.prev = tip[c]
              /\ Len(emitted'[c]) = Len(emitted[c]) + 1
              /\ emitted'[c][Len(emitted[c]) + 1] = f
    BY <1>5, EmitFacts
  <2>2. CASE e = f
    <3>1. emitted'[c] \in Seq(Event) /\ emitted[c] \in Seq(Event)
      BY DEF TypeOK
    <3>2. Len(emitted[c]) + 1 \in DOMAIN emitted'[c]
      BY <2>1, <3>1
    <3>3. f.hash = emitted'[c][Len(emitted[c]) + 1].hash
      BY <2>1
    <3>4. PICK j : j = Len(emitted[c]) + 1
      OBVIOUS
    <3>5. BlockOf(e, c, j)' /\ j \in DOMAIN emitted'[c]
      BY <2>1, <2>2, <3>2, <3>3, <3>4 DEF BlockOf
    <3> QED
      BY <3>5 DEF Carried
  <2>3. CASE e # f
    <3>1. p \in DOMAIN stored /\ e = stored[p]
      BY <1>1, <1>2, <2>1, <2>3
    <3>2. Carried(e)
      BY <3>1 DEF AllCarried, Lines
    <3> QED
      BY <1>5, <3>2, CarriedStays
  <2> QED
    BY <2>2, <2>3
<1>6. ASSUME NEW c \in Chains, Restart(c) PROVE Carried(e)'
  BY <1>2, <1>4, <1>6 DEF Restart, Lines
<1>7. ASSUME NEW n \in DOMAIN stored, Repeat(n) PROVE Carried(e)'
  <2>1. stored' = Append(stored, stored[n]) /\ UNCHANGED emitted
    BY <1>7 DEF Repeat, sources
  <2>2. e = stored[n] \/ (p \in DOMAIN stored /\ e = stored[p])
    BY <1>1, <1>2, <2>1
  <2> QED
    BY <1>4, <2>1, <2>2 DEF Lines
<1>8. ASSUME NEW n \in DOMAIN stored, Lose(n) PROVE Carried(e)'
  <2> DEFINE before == SubSeq(stored, 1, n - 1)
             after == SubSeq(stored, n + 1, Len(stored))
  <2>1. stored' = before \o after /\ UNCHANGED emitted
    BY <1>8 DEF Lose, sources
  <2>2. before \in Seq(Event) /\ after \in Seq(Event)
    BY <1>1
  <2>3. /\ Len(before) = n - 1 /\ \A q \in 1 .. n - 1 : before[q] = stored[q]
        /\ Len(after) = Len(stored) - n
        /\ \A q \in 1 .. Len(stored) - n : after[q] = stored[q + n]
    BY <1>1
  <2> HIDE DEF before, after
  <2>4. /\ Len(stored') = Len(before) + Len(after)
        /\ \A q \in 1 .. Len(before) + Len(after) :
              stored'[q] = IF q <= Len(before) THEN before[q]
                           ELSE after[q - Len(before)]
    BY <2>1, <2>2, ConcatProperties, Zenon
  <2>5. \E q \in DOMAIN stored : e = stored[q]
    <3>1. p \in 1 .. Len(before) + Len(after)
      BY <1>1, <1>2, <2>4
    <3>2. CASE p <= n - 1
      <4>1. p \in 1 .. n - 1 /\ p \in DOMAIN stored
        BY <1>1, <3>1, <3>2
      <4>2. e = stored[p]
        BY <1>2, <2>3, <2>4, <3>1, <3>2, <4>1
      <4> QED
        BY <4>1, <4>2
    <3>3. CASE p > n - 1
      <4>1. p - (n - 1) \in 1 .. Len(stored) - n
        BY <1>1, <2>3, <3>1, <3>3
      <4>2. e = stored[p - (n - 1) + n] /\ p + 1 \in DOMAIN stored
        BY <1>1, <1>2, <2>3, <2>4, <3>1, <3>3, <4>1
      <4>3. p - (n - 1) + n = p + 1
        BY <1>1, <3>1
      <4> QED
        BY <4>2, <4>3
    <3> QED
      BY <1>1, <3>1, <3>2, <3>3
  <2> QED
    BY <1>4, <2>1, <2>5 DEF Lines
<1>9. ASSUME NEW m \in DOMAIN stored, NEW n \in DOMAIN stored, Swap(m, n)
      PROVE  Carried(e)'
  <2>1. stored' = [stored EXCEPT ![m] = stored[n], ![n] = stored[m]]
        /\ UNCHANGED emitted
    BY <1>9 DEF Swap, sources
  <2>2. \E q \in DOMAIN stored : e = stored[q]
    BY <1>1, <1>2, <2>1
  <2> QED
    BY <1>4, <2>1, <2>2 DEF Lines
<1>10. ASSUME NEW n \in DOMAIN stored, NEW f,
              f.stream \in {stored[n].stream, NoStream}, f.id = stored[n].id,
              f.hash = stored[n].hash, f.prev = stored[n].prev, Change(n, f)
       PROVE  Carried(e)'
  <2>1. stored' = [stored EXCEPT ![n] = f] /\ UNCHANGED emitted
    BY <1>10 DEF Change, sources
  <2>2. CASE p = n
    <3>1. e = f
      BY <1>1, <1>2, <2>1, <2>2
    <3> QED
      BY <1>3, <1>10, <2>1, <3>1 DEF HasBlock, Lines
  <2>3. CASE p # n
    <3>1. p \in DOMAIN stored /\ e = stored[p]
      BY <1>1, <1>2, <2>1, <2>3
    <3> QED
      BY <1>4, <2>1, <3>1 DEF Lines
  <2> QED
    BY <2>2, <2>3
<1>11. ASSUME NEW n \in DOMAIN stored, Alter(n) \/ Strip(n) \/ LoseAttestation(n)
       PROVE  Carried(e)'
  <2>1. stored[n] \in Event
    BY <1>1, ElementOf
  <2>2. /\ stored[n] = [stored[n] EXCEPT !.hash = stored[n].hash]
        /\ DOMAIN stored[n] = {"form", "id", "source", "class", "stream", "time",
             "pair", "note", "hash", "prev", "strength", "sig"}
    BY <2>1 DEF Event
  <2>3. CASE Alter(n)
    BY <1>10, <2>2, <2>3 DEF Alter
  <2>4. CASE Strip(n)
    BY <1>10, <2>2, <2>4 DEF Strip
  <2>5. CASE LoseAttestation(n)
    BY <1>10, <2>2, <2>5 DEF LoseAttestation
  <2> QED
    BY <1>11, <2>3, <2>4, <2>5
<1> QED
  BY <1>5, <1>6, <1>7, <1>8, <1>9, <1>11 DEF Way
\* On the way nothing is grouped or judged; the engine leaves the bundle and
\* what the sources wrote alone.
LEMMA WayKeeps ==
    ASSUME Way
    PROVE  /\ phase \in {"writing", "carrying"}
           /\ UNCHANGED <<phase, ingest, judging>>
           /\ \/ UNCHANGED emitted
              \/ \E c \in Chains, t \in Times :
                    \E strength \in StrengthsOf[c] : Emit(c, t, strength)
<1> USE DEF During, sources
<1>1. ASSUME NEW c \in Chains, NEW t \in Times,
             NEW strength \in StrengthsOf[c], Emit(c, t, strength)
      PROVE  phase = "writing" /\ UNCHANGED <<phase, ingest, judging>>
  BY <1>1 DEF Emit
<1>2. ASSUME NEW c \in Chains, Restart(c)
      PROVE  phase = "writing" /\ UNCHANGED <<phase, ingest, judging, emitted>>
  BY <1>2 DEF Restart
<1>3. ASSUME NEW n \in DOMAIN stored,
             Repeat(n) \/ Lose(n) \/ Alter(n) \/ Strip(n) \/ LoseAttestation(n)
      PROVE  phase = "carrying" /\ UNCHANGED <<phase, ingest, judging, emitted>>
  BY <1>3 DEF Repeat, Lose, Alter, Strip, LoseAttestation, Change
<1>4. ASSUME NEW m, NEW n, Swap(m, n)
      PROVE  phase = "carrying" /\ UNCHANGED <<phase, ingest, judging, emitted>>
  BY <1>4 DEF Swap
<1> QED
  BY <1>1, <1>2, <1>3, <1>4 DEF Way

LEMMA EngineKeeps ==
    ASSUME Engine
    PROVE  UNCHANGED <<sources, bundle>>
BY DEF Engine, Carry, BeginIngest, ReadLine, BeginVerify, SelectStream,
    CheckHash, HashesHold, CheckLink, LinksHold, CheckTime, TimesHold,
    Check, EndPass, Verifying, Finish, Abort

LEMMA AllCarriedStep ==
    ASSUME TypeOK, TypeOK', Linked, AllCarried, [Next]_vars
    PROVE  AllCarried'
<1>1. ASSUME UNCHANGED <<emitted, stored, grouped>> PROVE AllCarried'
  BY <1>1 DEF AllCarried, Carried, BlockOf
<1>2. CASE Way
  <2>1. ASSUME NEW e \in Lines(stored') PROVE Carried(e)'
    BY <1>2, StoredCarried
  <2>2. ASSUME NEW k \in Keys, NEW e \in Lines(grouped'[k])
        PROVE  Carried(e)' /\ KeyOf(e) = k
    <3>1. grouped' = grouped
      BY <1>2, WayKeeps DEF ingest
    <3>2. Carried(e) /\ KeyOf(e) = k
      BY <2>2, <3>1 DEF AllCarried
    <3> QED
      BY <1>2, <3>2, WayKeeps, CarriedStays
  <2> QED
    BY <2>1, <2>2 DEF AllCarried, Lines, KeyOf, HasBlock
<1>3. CASE ReadLine
  <2>1. UNCHANGED <<emitted, stored>>
    BY <1>3 DEF ReadLine, sources, bundle
  <2>2. ASSUME NEW k \in Keys, NEW e \in Lines(grouped'[k])
        PROVE  Carried(e) /\ KeyOf(e) = k
    <3>1. CASE e \in Lines(grouped[k])
      BY <3>1 DEF AllCarried
    <3>2. CASE e \notin Lines(grouped[k])
      <4> DEFINE l == stored[at]
      <4>1. l \in Event /\ l \in Lines(stored)
        BY <1>3, ElementOf DEF ReadLine, TypeOK, Lines
      <4>2. KeyOf(l) \in Keys
        <5> HIDE DEF l
        <5> QED
          BY <4>1, EventFacts
      <4>3. \/ grouped' = [grouped EXCEPT ![KeyOf(l)] = Append(@, l)]
            \/ grouped' = grouped
        BY <1>3 DEF ReadLine
      <4> HIDE DEF l
      <4>4. grouped' = [grouped EXCEPT ![KeyOf(l)] = Append(@, l)] /\ k = KeyOf(l)
        BY <3>2, <4>2, <4>3 DEF TypeOK
      <4>5. grouped'[k] = Append(grouped[k], l) /\ grouped[k] \in Seq(Event)
        BY <4>4 DEF TypeOK
      <4>6. PICK p \in DOMAIN grouped'[k] : e = grouped'[k][p]
        BY <2>2 DEF Lines
      <4>7. p = Len(grouped[k]) + 1
        <5> SUFFICES ASSUME p # Len(grouped[k]) + 1 PROVE FALSE
          OBVIOUS
        <5>1. p \in DOMAIN grouped[k] /\ e = grouped[k][p]
          BY <4>1, <4>5, <4>6
        <5> QED
          BY <3>2, <5>1 DEF Lines
      <4>8. e = l
        BY <4>1, <4>5, <4>6, <4>7
      <4> QED
        BY <4>1, <4>4, <4>8 DEF AllCarried
    <3> QED
      BY <3>1, <3>2
  <2> QED
    BY <2>1, <2>2 DEF AllCarried, Lines, KeyOf, HasBlock, Carried, BlockOf
<1>4. CASE Engine /\ ~ReadLine
  <2>1. UNCHANGED grouped
    BY <1>4 DEF Engine, Carry, BeginIngest, BeginVerify, SelectStream,
        CheckHash, HashesHold, CheckLink, LinksHold, CheckTime, TimesHold,
        Check, EndPass, Verifying, Finish, Abort, ingest
  <2> QED
    BY <1>1, <1>4, <2>1, EngineKeeps DEF sources, bundle
<1>5. CASE UNCHANGED vars
  BY <1>1, <1>5 DEF vars
<1> QED
  BY <1>2, <1>3, <1>4, <1>5 DEF Next

LEMMA InTurnStep ==
    ASSUME TypeOK, InTurn, [Next]_vars
    PROVE  InTurn'
<1>1. CASE Way
  BY <1>1, WayKeeps DEF InTurn, ingest, judging
<1>2. CASE ReadLine
  BY <1>2 DEF InTurn, ReadLine, judging
<1>3. CASE Carry \/ BeginIngest \/ BeginVerify \/ Finish
  BY <1>3 DEF InTurn, Carry, BeginIngest, BeginVerify, Finish, ingest, judging
<1>4. ASSUME phase = "verifying", UNCHANGED phase PROVE InTurn'
  BY <1>4 DEF InTurn
<1>5. CASE SelectStream \/ CheckHash \/ HashesHold \/ CheckLink \/ LinksHold
           \/ CheckTime \/ TimesHold
  BY <1>4, <1>5 DEF SelectStream, CheckHash, HashesHold, CheckLink, LinksHold,
     CheckTime, TimesHold, Check, EndPass, Verifying
<1>6. CASE UNCHANGED vars
  BY <1>6 DEF InTurn, vars
<1>7. CASE Abort
  BY <1>7 DEF Abort, InTurn
<1> QED
  BY <1>1, <1>2, <1>3, <1>5, <1>6, <1>7 DEF Next, Engine
-----------------------------------------------------------------------------
\* The pass over the links.

\* A line whose hash holds has the content of an event of its stream's chain.
LEMMA HashFindsEvent ==
    ASSUME TypeOK, Linked, NEW e \in Event, Carried(e), HashHolds(e)
    PROVE  \E c \in Chains : \E j \in DOMAIN emitted[c] :
              /\ KeyName[c] = KeyOf(e)
              /\ Hash(emitted[c][j]) = Hash(e)
              /\ emitted[c][j].hash = e.hash
              /\ emitted[c][j].prev = e.prev
<1>1. PICK c \in Chains : \E j \in DOMAIN emitted[c] : BlockOf(e, c, j)
  BY DEF HashHolds, Carried
<1>2. PICK j \in DOMAIN emitted[c] : BlockOf(e, c, j)
  BY <1>1
<1>3. emitted[c][j].hash = Hash(emitted[c][j])
  BY DEF Linked, Chained
<1> QED
  BY <1>2, <1>3 DEF BlockOf, HashHolds, KeyOf

\* Two events of the sources with one content are one event.
LEMMA SameHashSameEvent ==
    ASSUME Linked, NEW c \in Chains, NEW d \in Chains,
           NEW j \in DOMAIN emitted[c], NEW k \in DOMAIN emitted[d],
           Hash(emitted[c][j]) = Hash(emitted[d][k])
    PROVE  c = d /\ j = k
<1>1. Hash(emitted[c][j]).id = Hash(emitted[d][k]).id
  OBVIOUS
<1>2. emitted[c][j].id = emitted[d][k].id
  BY <1>1 DEF Hash
<1> QED
  BY <1>2 DEF Linked

\* One more link that holds makes the run one event longer.
LEMMA LinkExtendsRun ==
    ASSUME TypeOK, Linked, NEW k \in Keys, NEW s \in Seq(Event),
           \A e \in Lines(s) : Carried(e) /\ KeyOf(e) = k /\ HashHolds(e),
           NEW m \in DOMAIN s, RunSoFar(s, m - 1, k), LinkHolds(s, m)
    PROVE  RunSoFar(s, m, k)
<1>1. m \in Nat /\ m # 0
  OBVIOUS
<1>2. \A n \in DOMAIN s : s[n] \in Event /\ s[n] \in Lines(s)
  BY ElementOf DEF Lines
<1>3. \A c \in Chains : emitted[c] \in Seq(Event)
  BY DEF TypeOK
<1>4. PICK c \in Chains : \E j \in DOMAIN emitted[c] :
              /\ KeyName[c] = KeyOf(s[m])
              /\ Hash(emitted[c][j]) = Hash(s[m])
              /\ emitted[c][j].hash = s[m].hash
              /\ emitted[c][j].prev = s[m].prev
  BY <1>2, HashFindsEvent
<1>5. PICK j \in DOMAIN emitted[c] :
              /\ KeyName[c] = KeyOf(s[m])
              /\ Hash(emitted[c][j]) = Hash(s[m])
              /\ emitted[c][j].hash = s[m].hash
              /\ emitted[c][j].prev = s[m].prev
  BY <1>4
<1>6. KeyName[c] = k
  BY <1>2, <1>5
<1>7. CASE m = 1
  <2>1. emitted[c][j].prev = Genesis
    BY <1>5, <1>7 DEF LinkHolds
  <2>2. j \in Nat /\ j <= Len(emitted[c])
    BY <1>3
  <2>3. RunFrom(s, 1, c, j)
    <3>1. j + 1 - 1 = j
      BY <2>2
    <3>2. \A l \in 1 .. 1 : l = 1
      OBVIOUS
    <3> QED
      BY <1>5, <1>7, <2>1, <2>2, <3>1, <3>2 DEF RunFrom
  <2> QED
    BY <1>6, <1>7, <2>3 DEF RunSoFar
<1>8. CASE m > 1
  <2>1. m - 1 \in DOMAIN s /\ m - 1 > 0
    BY <1>8
  <2>2. PICK d \in Chains : KeyName[d] = k
                /\ \E q \in DOMAIN emitted[d] : RunFrom(s, m - 1, d, q)
    BY <2>1 DEF RunSoFar
  <2>3. d = c
    BY <1>6, <2>2, IntegrityAssumption
  <2>4. PICK q \in DOMAIN emitted[c] : RunFrom(s, m - 1, c, q)
    BY <2>2, <2>3
  <2> DEFINE r == q + m - 2
  <2>5. q \in Nat /\ q # 0 /\ r \in DOMAIN emitted[c]
    BY <1>3, <2>1, <2>4 DEF RunFrom
  <2>6. Hash(s[m - 1]) = Hash(emitted[c][r])
    <3>1. m - 1 \in 1 .. m - 1 /\ q + (m - 1) - 1 = r
      BY <2>1, <2>5
    <3>2. Hash(s[m - 1]) = Hash(emitted[c][q + (m - 1) - 1])
      BY <2>4, <3>1 DEF RunFrom
    <3> QED
      BY <3>1, <3>2
  \* The predecessor the block names is the event before in the run.
  <2>7. emitted[c][j].prev = emitted[c][r].hash
    <3>1. emitted[c][j].prev = s[m - 1].hash
      BY <1>5, <1>8 DEF LinkHolds
    <3>2. s[m - 1].hash = Hash(s[m - 1])
      BY <1>2, <2>1 DEF HashHolds
    <3>3. emitted[c][r].hash = Hash(emitted[c][r])
      BY <2>5 DEF Linked, Chained
    <3> QED
      BY <2>6, <3>1, <3>2, <3>3
  <2>8. emitted[c][j].prev # Genesis
    <3>1. emitted[c][r] \in Event
      BY <1>3, <2>5, ElementOf
    <3>2. emitted[c][r].hash \in Hashes
      BY <3>1 DEF Event
    <3> QED
      BY <2>7, <3>2, GenesisAssumption
  <2>9. j > 1 /\ emitted[c][j].prev = emitted[c][j - 1].hash
    BY <2>8 DEF Linked, Chained
  <2>10. j - 1 = r
    <3>1. j - 1 \in DOMAIN emitted[c]
      BY <1>3, <2>9
    <3>2. Hash(emitted[c][j - 1]) = Hash(emitted[c][r])
      <4>1. /\ emitted[c][j - 1].hash = Hash(emitted[c][j - 1])
            /\ emitted[c][r].hash = Hash(emitted[c][r])
        BY <2>5, <3>1 DEF Linked, Chained
      <4> QED
        BY <2>7, <2>9, <4>1
    <3> QED
      BY <2>5, <3>1, <3>2, SameHashSameEvent
  <2>11. j = q + m - 1 /\ j <= Len(emitted[c])
    <3>1. j \in Nat /\ j <= Len(emitted[c])
      BY <1>3
    <3> QED
      BY <1>1, <2>5, <2>10, <3>1
  <2>12. ASSUME NEW l \in 1 .. m
         PROVE  /\ Hash(s[l]) = Hash(emitted[c][q + l - 1])
                /\ emitted[c][q + l - 1].prev = Genesis <=> l = 1
    <3>1. CASE l = m
      BY <1>5, <1>8, <2>8, <2>11, <3>1
    <3>2. CASE l # m
      <4>1. l \in 1 .. m - 1
        BY <1>1, <3>2
      <4> QED
        BY <2>4, <4>1 DEF RunFrom
    <3> QED
      BY <3>1, <3>2
  <2>13. RunFrom(s, m, c, q)
    BY <2>11, <2>12 DEF RunFrom
  <2> QED
    BY <1>6, <2>13 DEF RunSoFar
<1> QED
  BY <1>1, <1>7, <1>8

\* A run of the whole stream is what UnbrokenIsRun asks for.
LEMMA RunSoFarIsRun ==
    ASSUME TypeOK, NEW k \in Keys, NEW s \in Seq(Event), s # <<>>,
           RunSoFar(s, Len(s), k)
    PROVE  IsRun(s, k)
<1>1. Len(s) > 0 /\ DOMAIN s = 1 .. Len(s)
  OBVIOUS
<1>2. PICK c \in Chains : KeyName[c] = k
                /\ \E j \in DOMAIN emitted[c] : RunFrom(s, Len(s), c, j)
  BY <1>1 DEF RunSoFar
<1>3. PICK j \in DOMAIN emitted[c] : RunFrom(s, Len(s), c, j)
  BY <1>2
<1>4. RunOf(s, c)
  BY <1>1, <1>3 DEF RunFrom, RunOf
<1> QED
  BY <1>2, <1>4 DEF IsRun

-----------------------------------------------------------------------------
LEMMA PassingStep ==
    ASSUME TypeOK, TypeOK', Linked, AllCarried, InTurn, Passing, [Next]_vars
    PROVE  Passing'
<1>1. ASSUME pass' = "select" PROVE Passing'
  BY <1>1 DEF Passing
<1>2. CASE Way \/ Carry \/ BeginIngest \/ ReadLine \/ BeginVerify
  <2>1. pass = "select" /\ UNCHANGED pass
    BY <1>2, WayKeeps
    DEF InTurn, Carry, BeginIngest, ReadLine, BeginVerify, judging
  <2> QED
    BY <1>1, <2>1
<1>3. CASE Finish
  <2>1. pass = "select" /\ UNCHANGED pass
    BY <1>3, IntegrityAssumption DEF Finish, Passing, TypeOK, judging
  <2> QED
    BY <1>1, <2>1
<1>4. CASE UNCHANGED vars
  BY <1>4 DEF vars, Passing, Stream, Key, RunSoFar, RunFrom, IsRun, RunOf
\* The steps of verify_bundle that stay with the stream.
<1>5. ASSUME Verifying, UNCHANGED next
      PROVE  /\ next <= Len(KeyOrder) /\ Key \in Keys /\ Stream \in Seq(Event)
             /\ UNCHANGED <<emitted, Key, Stream>>
  BY <1>5, KeyIsKey DEF Verifying, Key, Stream, sources, ingest
<1>6. CASE SelectStream
  <2>1. CASE Stream = <<>>
    BY <1>1, <1>6, <2>1 DEF SelectStream
  <2>2. CASE Stream # <<>>
    <3>1. Verifying /\ UNCHANGED next /\ pass' = "tamper" /\ i' = 1
      BY <1>6, <2>2 DEF SelectStream, TurnTo
    <3> QED
      BY <1>5, <2>2, <3>1 DEF Passing
  <2> QED
    BY <2>1, <2>2
<1>7. ASSUME NEW p, NEW holds, NEW status, Check(p, holds, status), ~holds
      PROVE  Passing'
  BY <1>1, <1>7 DEF Check, Conclude
<1>8. CASE CheckHash
  <2>1. CASE HashHolds(Stream[i])
    <3>1. Verifying /\ UNCHANGED <<next, pass>> /\ pass = "tamper" /\ i' = i + 1
      BY <1>8, <2>1 DEF CheckHash, Check, Advance
    <3>2. \A n \in DOMAIN Stream : n < i + 1 => n < i \/ n = i
      BY <1>5, <3>1 DEF TypeOK
    <3> QED
      BY <1>5, <2>1, <3>1, <3>2 DEF Passing
  <2>2. CASE ~HashHolds(Stream[i])
    BY <1>7, <1>8, <2>2 DEF CheckHash
  <2> QED
    BY <2>1, <2>2
<1>9. CASE HashesHold
  <2>1. Verifying /\ UNCHANGED next /\ pass = "tamper" /\ pass' = "chain"
        /\ i' = 1 /\ i > Len(Stream)
    BY <1>9 DEF HashesHold, EndPass, TurnTo
  <2>2. \A n \in DOMAIN Stream : n < i
    BY <1>5, <2>1 DEF TypeOK
  <2>3. \A n \in DOMAIN Stream : HashHolds(Stream[n])
    BY <2>1, <2>2 DEF Passing
  <2>4. RunSoFar(Stream, i - 1, Key)'
    BY <2>1 DEF RunSoFar
  <2>5. i' <= Len(Stream') + 1
    BY <1>5, <2>1
  <2> QED
    BY <1>5, <2>1, <2>3, <2>4, <2>5 DEF Passing
<1>10. CASE CheckLink
  <2>1. CASE LinkHolds(Stream, i)
    <3>1. Verifying /\ UNCHANGED <<next, pass>> /\ pass = "chain"
          /\ i' = i + 1 /\ i <= Len(Stream)
      BY <1>10, <2>1 DEF CheckLink, Check, Advance
    <3>2. i \in DOMAIN Stream
      BY <1>5, <3>1 DEF TypeOK
    <3>3. \A e \in Lines(Stream) : Carried(e) /\ KeyOf(e) = Key /\ HashHolds(e)
      BY <1>5, <3>1 DEF Passing, AllCarried, Lines, Stream
    <3>4. RunSoFar(Stream, i, Key)
      BY <1>5, <2>1, <3>1, <3>2, <3>3, LinkExtendsRun DEF Passing
    <3>5. i + 1 - 1 = i /\ i + 1 <= Len(Stream) + 1
      BY <1>5, <3>1 DEF TypeOK
    <3>6. RunSoFar(Stream, i - 1, Key)'
      <4>1. i' - 1 = i
        BY <3>1 DEF TypeOK
      <4>2. Stream' = Stream /\ Key' = Key /\ emitted' = emitted
        BY <1>5, <3>1
      <4> QED
        BY <3>4, <4>1, <4>2 DEF RunSoFar, RunFrom
    <3> QED
      BY <1>5, <3>1, <3>5, <3>6 DEF Passing
  <2>2. CASE ~LinkHolds(Stream, i)
    BY <1>7, <1>10, <2>2 DEF CheckLink
  <2> QED
    BY <2>1, <2>2
<1>11. CASE LinksHold
  <2>1. Verifying /\ UNCHANGED next /\ pass = "chain" /\ pass' = "time"
        /\ i > Len(Stream)
    BY <1>11 DEF LinksHold, EndPass, TurnTo
  <2>2. i - 1 = Len(Stream) /\ Stream # <<>>
    BY <1>5, <2>1 DEF Passing, TypeOK
  <2>3. RunSoFar(Stream, Len(Stream), Key)
    BY <2>1, <2>2 DEF Passing
  <2>4. IsRun(Stream, Key)
    BY <1>5, <2>1, <2>2, <2>3, RunSoFarIsRun
  <2>5. IsRun(Stream, Key)'
    BY <1>5, <2>1, <2>4 DEF IsRun, RunOf
  <2> QED
    BY <1>5, <2>1, <2>2, <2>5 DEF Passing
<1>12. CASE CheckTime
  <2>1. CASE InTime(Key, Stream[i])
    <3>1. Verifying /\ UNCHANGED <<next, pass>> /\ pass = "time"
      BY <1>12, <2>1 DEF CheckTime, Check, Advance
    <3>2. IsRun(Stream, Key)'
      BY <1>5, <3>1 DEF Passing, IsRun, RunOf
    <3> QED
      BY <1>5, <3>1, <3>2 DEF Passing
  <2>2. CASE ~InTime(Key, Stream[i])
    BY <1>7, <1>12, <2>2 DEF CheckTime
  <2> QED
    BY <2>1, <2>2
<1>13. CASE TimesHold
  BY <1>1, <1>13 DEF TimesHold, Conclude
<1>14. CASE Abort
  BY <1>1, <1>14 DEF Abort
<1> QED
  BY <1>2, <1>3, <1>4, <1>6, <1>8, <1>9, <1>10, <1>11, <1>12, <1>13, <1>14
  DEF Next, Engine

LEMMA UnbrokenStep ==
    ASSUME TypeOK, InTurn, Passing, UnbrokenIsRun, [Next]_vars
    PROVE  UnbrokenIsRun'
<1>1. CASE Way
  BY <1>1, WayKeeps DEF InTurn, UnbrokenIsRun, judging
<1>2. CASE ReadLine
  BY <1>2 DEF ReadLine, InTurn, UnbrokenIsRun, judging
<1>3. ASSUME UNCHANGED <<results, grouped, emitted>> PROVE UnbrokenIsRun'
  BY <1>3 DEF UnbrokenIsRun, IsRun, RunOf
<1>4. CASE Carry \/ BeginIngest \/ BeginVerify \/ SelectStream \/ HashesHold
           \/ LinksHold \/ Finish \/ UNCHANGED vars
  BY <1>3, <1>4 DEF Carry, BeginIngest, BeginVerify, SelectStream, HashesHold,
     LinksHold, Finish, EndPass, TurnTo, Verifying, sources, ingest, judging, vars
<1>5. ASSUME Verifying, NEW status, NEW bad, Conclude(status, bad),
             status \in Unbroken => IsRun(Stream, Key)
      PROVE  UnbrokenIsRun'
  <2>1. UNCHANGED <<grouped, emitted>>
    BY <1>5 DEF Verifying, sources, ingest
  <2> DEFINE R == [stream : Keys, strength : Strengths,
                   status : Statuses, bad : Nat]
             r == [stream |-> Key, strength |-> StrengthOf(Stream),
                   status |-> status, bad |-> bad]
  <2>2. results \in Seq(R) /\ results' = Append(results, r)
    BY <1>5 DEF TypeOK, Conclude
  <2>3. r.stream = Key /\ r.status = status
    OBVIOUS
  <2> HIDE DEF R, r
  <2>4. ASSUME NEW n \in DOMAIN results', results'[n].status \in Unbroken
        PROVE  IsRun(grouped[results'[n].stream], results'[n].stream)
    <3>1. CASE n \in DOMAIN results
      BY <2>2, <2>4, <3>1 DEF UnbrokenIsRun
    <3>2. CASE n \notin DOMAIN results
      <4>1. results'[n] = r
        BY <2>2, <2>4, <3>2
      <4> QED
        BY <1>5, <2>3, <2>4, <4>1 DEF Stream
    <3> QED
      BY <3>1, <3>2
  <2> QED
    BY <2>1, <2>4 DEF UnbrokenIsRun, IsRun, RunOf
<1>6. ASSUME NEW p, NEW holds, NEW status, Check(p, holds, status),
             status \in Unbroken => IsRun(Stream, Key)
      PROVE  UnbrokenIsRun'
  <2>1. CASE holds
    BY <1>3, <1>6, <2>1 DEF Check, Advance, Verifying, sources, ingest
  <2>2. CASE ~holds
    BY <1>5, <1>6, <2>2 DEF Check
  <2> QED
    BY <2>1, <2>2
<1>7. CASE CheckHash
  BY <1>6, <1>7 DEF CheckHash, Unbroken
<1>8. CASE CheckLink
  BY <1>6, <1>8 DEF CheckLink, BreakKind, Unbroken
<1>9. CASE CheckTime
  <2>1. IsRun(Stream, Key)
    BY <1>9 DEF CheckTime, Check, Passing
  <2> QED
    BY <1>6, <1>9, <2>1 DEF CheckTime
<1>10. CASE TimesHold
  <2>1. IsRun(Stream, Key) /\ Verifying /\ Conclude(Standing(Key, Stream), 0)
    BY <1>10 DEF TimesHold, EndPass, Passing
  <2> QED
    BY <1>5, <2>1
<1>11. CASE Abort
  BY <1>11 DEF Abort, UnbrokenIsRun
<1> QED
  BY <1>1, <1>2, <1>4, <1>7, <1>8, <1>9, <1>10, <1>11 DEF Next, Engine

LEMMA Inductive == Init => IInv
<1> SUFFICES ASSUME Init PROVE IInv
  OBVIOUS
<1>1. TypeOK
  BY TypeInit
<1>2. \A k \in Keys : grouped[k] = <<>>
  BY DEF Init
<1>3. \A c \in Chains : emitted[c] = <<>>
  BY DEF Init
<1>4. Linked
  BY <1>3 DEF Init, Linked
<1>5. AllCarried
  BY <1>2 DEF Init, AllCarried, Lines
<1>6. InTurn /\ Passing /\ UnbrokenIsRun
  BY DEF Init, InTurn, Passing, UnbrokenIsRun
<1> QED
  BY <1>1, <1>4, <1>5, <1>6 DEF IInv

LEMMA InductiveStep == IInv /\ [Next]_vars => IInv'
BY TypeStep, LinkedStep, AllCarriedStep, InTurnStep, PassingStep, UnbrokenStep
DEF IInv

\* For every set of chains, however many events, and whatever is lost, moved,
\* repeated, altered or stripped on the way: a stream verify_bundle does not
\* report failed, gapped or reordered is a run of its source's chain from a
\* chain's start, content unchanged.
THEOREM UnbrokenStreamIsRun == Spec => []UnbrokenIsRun
<1>1. IInv => UnbrokenIsRun
  BY DEF IInv
<1> QED
  BY <1>1, Inductive, InductiveStep, PTL DEF Spec
-----------------------------------------------------------------------------
(***************************************************************************)
(* What the other statuses say.  All of it is settled when a stream's      *)
(* result is drawn and stands from then on: nothing is grouped or written  *)
(* any more.                                                               *)
(***************************************************************************)

\* A step leaves what is said of results as it was, or draws one more.
LEMMA ResultStep ==
    ASSUME InTurn, [Next]_vars
    PROVE  \/ results' = <<>>
           \/ UNCHANGED <<results, grouped, emitted, anchors>>
           \/ /\ UNCHANGED <<grouped, emitted, anchors, harmed, refused>>
              /\ Verifying
              /\ \/ ~HashHolds(Stream[i]) /\ i <= Len(Stream) /\ pass = "tamper"
                    /\ Conclude("failed", i)
                 \/ ~LinkHolds(Stream, i) /\ i <= Len(Stream) /\ pass = "chain"
                    /\ Conclude(BreakKind(Stream, i), i)
                 \/ pass = "time" /\ Conclude("time_suspect", i)
                 \/ pass = "time" /\ i > Len(Stream) /\ Conclude(Standing(Key, Stream), 0)
<1>1. CASE Way
  BY <1>1, WayKeeps DEF InTurn, judging
<1>2. CASE ReadLine
  BY <1>2 DEF InTurn, ReadLine, judging
<1>3. CASE Carry \/ BeginIngest \/ BeginVerify \/ SelectStream \/ HashesHold
           \/ LinksHold \/ Finish \/ UNCHANGED vars
  BY <1>3 DEF Carry, BeginIngest, BeginVerify, SelectStream, HashesHold,
     LinksHold, Finish, EndPass, TurnTo, Verifying, sources, ingest, judging, bundle, vars
<1>4. CASE CheckHash
  BY <1>4 DEF CheckHash, Check, Advance, Verifying, sources, ingest, bundle
<1>5. CASE CheckLink
  BY <1>5 DEF CheckLink, Check, Advance, Verifying, sources, ingest, bundle
<1>6. CASE CheckTime
  BY <1>6 DEF CheckTime, Check, Advance, Verifying, sources, ingest, bundle
<1>7. CASE TimesHold
  BY <1>7 DEF TimesHold, EndPass, Verifying, sources, ingest, bundle
<1>8. CASE Abort
  BY <1>8 DEF Abort
<1> QED
  BY <1>1, <1>2, <1>3, <1>4, <1>5, <1>6, <1>7, <1>8 DEF Next, Engine

\* The result drawn is the last of the results.
LEMMA DrawnResult ==
    ASSUME TypeOK, NEW status, NEW bad, Conclude(status, bad)
    PROVE  \A n \in DOMAIN results' :
              \/ n \in DOMAIN results /\ results'[n] = results[n]
              \/ /\ results'[n].stream = Key
                 /\ results'[n].status = status
                 /\ results'[n].bad = bad
<1> DEFINE r == [stream |-> Key, strength |-> StrengthOf(Stream),
                 status |-> status, bad |-> bad]
           R == [stream : Keys, strength : Strengths, status : Statuses, bad : Nat]
<1>1. results \in Seq(R) /\ results' = Append(results, r)
  BY DEF TypeOK, Conclude
<1>2. r.stream = Key /\ r.status = status /\ r.bad = bad
  OBVIOUS
<1> HIDE DEF R, r
<1>3. ASSUME NEW n \in DOMAIN results', n \notin DOMAIN results PROVE results'[n] = r
  BY <1>1, <1>3
<1>4. ASSUME NEW n \in DOMAIN results', n \in DOMAIN results PROVE results'[n] = results[n]
  BY <1>1, <1>4
<1> QED
  BY <1>2, <1>3, <1>4

-----------------------------------------------------------------------------
\* Verified: what VerifiedIsBacked says of one result.
BackedResult(r) ==
    r.status = "verified" =>
        /\ (\A m \in DOMAIN grouped[r.stream] : grouped[r.stream][m].sig)
           \/ anchors[r.stream] # {}
        /\ AnchorTimes(r.stream) # {} =>
             \E t \in AnchorTimes(r.stream) :
                \A m \in DOMAIN grouped[r.stream] : grouped[r.stream][m].time <= t

\* One anchor is not before any event the third pass has got past.
Timely ==
    pass = "time" /\ next <= Len(KeyOrder) /\ AnchorTimes(Key) # {} =>
        \E a \in AnchorTimes(Key) : \A n \in DOMAIN Stream : n < i => Stream[n].time <= a

\* What is read of anchors is a time.
LEMMA ReadTimes ==
    ASSUME NEW listed \in SUBSET Anchor, NEW forms
    PROVE  TimesRead(listed, forms) \subseteq Times /\ TimesRead(listed, forms) \subseteq Nat
<1>1. \A a \in listed : a.time \in Times
  BY DEF Anchor
<1>2. TimesRead(listed, forms) \subseteq Times
  BY <1>1 DEF TimesRead
<1> QED
  BY <1>2, IntegrityAssumption

LEMMA AnchorTimesKept ==
    ASSUME UNCHANGED anchors
    PROVE  \A k : UNCHANGED AnchorTimes(k)
BY DEF AnchorTimes

LEMMA TimelyStep ==
    ASSUME TypeOK, InTurn, Timely, [Next]_vars
    PROVE  Timely'
<1>1. ASSUME pass' # "time" PROVE Timely'
  BY <1>1 DEF Timely
<1>2. CASE Way \/ Carry \/ BeginIngest \/ ReadLine \/ BeginVerify
  <2>1. pass = "select" /\ UNCHANGED pass
    BY <1>2, WayKeeps
    DEF InTurn, Carry, BeginIngest, ReadLine, BeginVerify, judging
  <2> QED
    BY <1>1, <2>1
<1>3. CASE Finish \/ UNCHANGED vars
  BY <1>3 DEF Finish, vars, Timely, Stream, Key, AnchorTimes, judging, ingest, bundle
<1>11. CASE Abort
  BY <1>1, <1>11 DEF Abort
<1>4. ASSUME Verifying, UNCHANGED next
      PROVE  /\ next <= Len(KeyOrder) /\ Key \in Keys /\ Stream \in Seq(Event)
             /\ UNCHANGED <<anchors, Key, Stream, AnchorTimes(Key)>>
  BY <1>4, KeyIsKey DEF Verifying, Key, Stream, AnchorTimes, bundle, ingest
<1>5. CASE SelectStream \/ HashesHold
  <2>1. pass' \in {"select", "tamper", "chain"}
    BY <1>5 DEF SelectStream, HashesHold, EndPass, TurnTo
  <2> QED
    BY <1>1, <2>1
<1>6. ASSUME NEW p, NEW holds, NEW status, Check(p, holds, status),
             p # "time" \/ ~holds
      PROVE  Timely'
  BY <1>1, <1>6 DEF Check, Conclude, Advance
<1>7. CASE CheckHash \/ CheckLink
  BY <1>6, <1>7 DEF CheckHash, CheckLink
<1>8. CASE LinksHold
  <2>1. Verifying /\ UNCHANGED next /\ i' = 1
    BY <1>8 DEF LinksHold, EndPass, TurnTo
  <2>2. \A n \in DOMAIN Stream : ~(n < 1)
    BY <1>4, <2>1
  <2> QED
    BY <1>4, <2>1, <2>2 DEF Timely
<1>9. CASE CheckTime
  <2>1. CASE ~InTime(Key, Stream[i])
    BY <1>6, <1>9, <2>1 DEF CheckTime
  <2>2. CASE InTime(Key, Stream[i])
    <3>1. Verifying /\ UNCHANGED <<next, pass>> /\ pass = "time" /\ i' = i + 1
          /\ i <= Len(Stream)
      BY <1>9, <2>2 DEF CheckTime, Check, Advance
    <3>2. i \in Nat /\ i \in DOMAIN Stream
      BY <1>4, <3>1 DEF TypeOK
    <3>3. \A n \in DOMAIN Stream : n < i + 1 => n < i \/ n = i
      BY <1>4, <3>1, <3>2
    <3>4. \A n \in DOMAIN Stream : Stream[n].time \in Nat
      BY <1>4, <3>1, ElementOf, EventFacts
    <3>5. AnchorTimes(Key) \subseteq Nat
      BY <1>4, <3>1, ReadTimes DEF TypeOK, AnchorTimes
    <3>6. ASSUME AnchorTimes(Key) # {}
          PROVE  \E a \in AnchorTimes(Key) : \A n \in DOMAIN Stream : n < i + 1 => Stream[n].time <= a
      <4>1. PICK a \in AnchorTimes(Key) : \A n \in DOMAIN Stream : n < i => Stream[n].time <= a
        BY <1>4, <3>1, <3>6 DEF Timely
      <4>2. PICK b \in AnchorTimes(Key) : Stream[i].time <= b
        BY <2>2, <3>6 DEF InTime
      <4>3. a \in Nat /\ b \in Nat
        BY <3>5
      <4>4. CASE a <= b
        <5>1. \A n \in DOMAIN Stream : n < i + 1 => Stream[n].time <= b
          BY <3>3, <3>4, <4>1, <4>2, <4>3, <4>4
        <5> QED
          BY <5>1
      <4>5. CASE b <= a
        <5>1. \A n \in DOMAIN Stream : n < i + 1 => Stream[n].time <= a
          BY <3>2, <3>3, <3>4, <4>1, <4>2, <4>3, <4>5
        <5> QED
          BY <5>1
      <4> QED
        BY <4>3, <4>4, <4>5
    <3> QED
      BY <1>4, <3>1, <3>6 DEF Timely
  <2> QED
    BY <2>1, <2>2
<1>10. CASE TimesHold
  BY <1>1, <1>10 DEF TimesHold, Conclude
<1> QED
  BY <1>2, <1>3, <1>5, <1>7, <1>8, <1>9, <1>10, <1>11 DEF Next, Engine

\* A stream's standing is "verified" only for what it rests on.
LEMMA StandingRests ==
    ASSUME NEW k \in Keys, NEW s, Standing(k, s) = "verified"
    PROVE  (\A m \in DOMAIN s : s[m].sig) \/ anchors[k] # {}
BY DEF Standing

LEMMA BackedStep ==
    ASSUME TypeOK, InTurn, Timely, VerifiedIsBacked, [Next]_vars
    PROVE  VerifiedIsBacked'
<1>1. VerifiedIsBacked <=> \A n \in DOMAIN results : BackedResult(results[n])
  BY DEF VerifiedIsBacked, BackedResult
<1>3. CASE results' = <<>>
  BY <1>3 DEF VerifiedIsBacked
<1>4. CASE UNCHANGED <<results, grouped, emitted, anchors>>
  BY <1>4, AnchorTimesKept DEF VerifiedIsBacked
<1>5. ASSUME UNCHANGED <<grouped, anchors>>, Verifying, NEW status, NEW bad,
             Conclude(status, bad),
             status = "verified" => pass = "time" /\ i > Len(Stream)
                                    /\ status = Standing(Key, Stream)
      PROVE  VerifiedIsBacked'
  <2>1. next <= Len(KeyOrder) /\ Key \in Keys /\ Stream \in Seq(Event)
    BY <1>5, KeyIsKey DEF Verifying
  <2>2. ASSUME NEW r, r.stream = Key, r.status = status PROVE BackedResult(r)
    <3>1. CASE status = "verified"
      <4>1. \A n \in DOMAIN Stream : n < i
        BY <1>5, <2>1, <3>1 DEF TypeOK
      <4>2. (\A m \in DOMAIN Stream : Stream[m].sig) \/ anchors[Key] # {}
        BY <1>5, <2>1, <3>1, StandingRests
      <4>3. AnchorTimes(Key) # {} => \E a \in AnchorTimes(Key) : \A n \in DOMAIN Stream : Stream[n].time <= a
        BY <1>5, <2>1, <3>1, <4>1 DEF Timely
      <4> QED
        BY <2>2, <4>2, <4>3 DEF BackedResult, Stream
    <3>2. CASE status # "verified"
      BY <2>2, <3>2 DEF BackedResult
    <3> QED
      BY <3>1, <3>2
  <2>3. \A n \in DOMAIN results' : BackedResult(results'[n])
    BY <1>1, <1>5, <2>2, DrawnResult
  <2> QED
    BY <1>5, <2>3, AnchorTimesKept DEF VerifiedIsBacked, BackedResult
<1> QED
  <2>1. BreakKind(Stream, i) # "verified"
    BY DEF BreakKind
  <2> QED
    BY <1>3, <1>4, <1>5, <2>1, ResultStep

\* For every set of chains and anchors: a stream is called verified only if
\* every event of it has its attestation in the bundle or the manifest anchors
\* it, and then none of its events is later than the latest anchor.
THEOREM VerifiedStreamIsBacked == Spec => []VerifiedIsBacked
<1>1. Init => Timely /\ VerifiedIsBacked
  BY DEF Init, Timely, VerifiedIsBacked
<1>2. IInv /\ Timely /\ VerifiedIsBacked /\ [Next]_vars => Timely' /\ VerifiedIsBacked'
  BY TimelyStep, BackedStep DEF IInv
<1> QED
  BY <1>1, <1>2, Inductive, InductiveStep, PTL DEF Spec
-----------------------------------------------------------------------------
\* Broken: what BreakIsLocated says of a stream s of key k that failed at b,
\* or whose links broke there.
FailedAt(s, b) ==
    /\ b \in DOMAIN s
    /\ \A m \in 1 .. (b - 1) : Genuine(s[m])
    /\ ~(HasBlock(s[b]) /\ Genuine(s[b]))

BrokenAt(s, k, b, status) ==
    /\ b \in DOMAIN s
    /\ \A m \in DOMAIN s : Genuine(s[m])
    /\ IsRun(SubSeq(s, 1, b - 1), k)
    /\ ~IsRun(SubSeq(s, 1, b), k)
    /\ status = "gap" <=> MissesPredecessor(s, s[b])

LocatedResult(r) ==
    /\ r.status = "failed" => FailedAt(grouped[r.stream], r.bad)
    /\ r.status \in {"gap", "reordered"} =>
          BrokenAt(grouped[r.stream], r.stream, r.bad, r.status)

\* A line whose hash holds has the content its source gave it; one that has
\* the content and a block has the hash too.
LEMMA HashTellsGenuine ==
    ASSUME TypeOK, Linked, NEW e \in Event, Carried(e), HasBlock(e)
    PROVE  HashHolds(e) <=> Genuine(e)
<1>1. ASSUME HashHolds(e) PROVE Genuine(e)
  BY <1>1, HashFindsEvent DEF Genuine
<1>2. ASSUME Genuine(e) PROVE HashHolds(e)
  <2>1. PICK c \in Chains : \E j \in DOMAIN emitted[c] : BlockOf(e, c, j)
    BY DEF Carried
  <2>2. PICK j \in DOMAIN emitted[c] : BlockOf(e, c, j)
    BY <2>1
  <2>3. PICK d \in Chains : \E k \in DOMAIN emitted[d] : Hash(emitted[d][k]) = Hash(e)
    BY <1>2 DEF Genuine
  <2>4. PICK k \in DOMAIN emitted[d] : Hash(emitted[d][k]) = Hash(e)
    BY <2>3
  <2>5. emitted[d][k].id = emitted[c][j].id
    <3>1. Hash(emitted[d][k]).id = Hash(e).id
      BY <2>4
    <3>2. emitted[d][k].id = e.id
      BY <3>1 DEF Hash
    <3> QED
      BY <2>2, <3>2 DEF BlockOf
  <2>6. d = c /\ k = j
    BY <2>5 DEF Linked
  <2>7. emitted[c][j].hash = Hash(emitted[c][j])
    BY DEF Linked, Chained
  <2> QED
    BY <2>2, <2>4, <2>6, <2>7 DEF BlockOf, HashHolds
<1> QED
  BY <1>1, <1>2

\* The first n events of a run are a run.
LEMMA FirstOfRun ==
    ASSUME TypeOK, NEW k \in Keys, NEW s \in Seq(Event), NEW n \in DOMAIN s,
           RunSoFar(s, n, k)
    PROVE  IsRun(SubSeq(s, 1, n), k)
<1> DEFINE f == SubSeq(s, 1, n)
<1>1. n \in Nat /\ n # 0 /\ n <= Len(s)
  OBVIOUS
<1>2. f \in Seq(Event) /\ Len(f) = n /\ \A l \in 1 .. n : f[l] = s[l]
  BY <1>1
<1> HIDE DEF f
<1>3. f # <<>>
  BY <1>1, <1>2
<1>4. RunSoFar(f, n, k)
  BY <1>2 DEF RunSoFar, RunFrom
<1> QED
  BY <1>2, <1>3, <1>4, RunSoFarIsRun DEF f

\* The first pass stops at the first line that is not as its source wrote it.
LEMMA TamperedIsFound ==
    ASSUME TypeOK, Linked, AllCarried, Passing, next <= Len(KeyOrder),
           pass = "tamper", i <= Len(Stream), ~HashHolds(Stream[i])
    PROVE  FailedAt(Stream, i)
<1>1. Key \in Keys /\ Stream \in Seq(Event) /\ i \in DOMAIN Stream
  BY KeyIsKey DEF TypeOK
<1>2. \A n \in DOMAIN Stream : Stream[n] \in Event /\ Carried(Stream[n])
  BY <1>1, ElementOf DEF AllCarried, Lines, Stream
<1>3. ASSUME NEW m \in 1 .. (i - 1) PROVE Genuine(Stream[m])
  <2>1. m \in DOMAIN Stream /\ m < i
    BY <1>1
  <2>2. HashHolds(Stream[m])
    BY <2>1 DEF Passing
  <2> QED
    BY <1>2, <2>1, <2>2, HashTellsGenuine DEF HashHolds
<1>4. ~(HasBlock(Stream[i]) /\ Genuine(Stream[i]))
  BY <1>1, <1>2, HashTellsGenuine
<1> QED
  BY <1>1, <1>3, <1>4 DEF FailedAt

\* The second pass stops at the first line that does not follow the line
\* before it, and tells a gap by the missing predecessor.
LEMMA BreakIsFound ==
    ASSUME TypeOK, Linked, AllCarried, Passing, next <= Len(KeyOrder),
           pass = "chain", i <= Len(Stream), ~LinkHolds(Stream, i)
    PROVE  BrokenAt(Stream, Key, i, BreakKind(Stream, i))
<1> DEFINE s == Stream
           e == Stream[i]
<1>1. Key \in Keys /\ s \in Seq(Event) /\ i \in DOMAIN s /\ i \in Nat /\ i # 0
  BY KeyIsKey DEF TypeOK
<1>2. \A n \in DOMAIN s : /\ s[n] \in Event /\ Carried(s[n]) /\ KeyOf(s[n]) = Key
                          /\ HashHolds(s[n])
  BY <1>1, ElementOf DEF AllCarried, Lines, Stream, Passing
<1>3. \A n \in DOMAIN s : Genuine(s[n])
  BY <1>2, HashTellsGenuine DEF HashHolds
<1>4. \A n \in DOMAIN s : s[n].hash = Hash(s[n])
  BY <1>2 DEF HashHolds
\* The event the line was written as.
<1>5. PICK c \in Chains : \E j \in DOMAIN emitted[c] :
              /\ KeyName[c] = KeyOf(e)
              /\ Hash(emitted[c][j]) = Hash(e)
              /\ emitted[c][j].hash = e.hash
              /\ emitted[c][j].prev = e.prev
  BY <1>1, <1>2, HashFindsEvent
<1>6. PICK j \in DOMAIN emitted[c] :
              /\ KeyName[c] = KeyOf(e)
              /\ Hash(emitted[c][j]) = Hash(e)
              /\ emitted[c][j].hash = e.hash
              /\ emitted[c][j].prev = e.prev
  BY <1>5
<1>7. \A d \in Chains : \A n \in DOMAIN emitted[d] :
          /\ emitted[d][n].hash = Hash(emitted[d][n])
          /\ emitted[d][n].prev = Genesis
             \/ (n > 1 /\ emitted[d][n].prev = emitted[d][n - 1].hash)
  BY DEF Linked, Chained
<1>8. \A d \in Chains : emitted[d] \in Seq(Event)
  BY DEF TypeOK
<1>9. KeyName[c] = Key
  BY <1>1, <1>2, <1>6
<1> HIDE DEF s, e
<1>10. IsRun(SubSeq(s, 1, i - 1), Key)
  <2>1. CASE i = 1
    <3>1. SubSeq(s, 1, i - 1) = <<>>
      BY <1>1, <2>1
    <3> QED
      BY <1>9, <3>1 DEF IsRun, RunOf
  <2>2. CASE i # 1
    <3>1. i - 1 \in DOMAIN s
      BY <1>1, <2>2
    <3>2. RunSoFar(s, i - 1, Key)
      BY DEF Passing, s
    <3> QED
      BY <1>1, <3>1, <3>2, FirstOfRun
  <2> QED
    BY <2>1, <2>2
<1>11. ~IsRun(SubSeq(s, 1, i), Key)
  <2> DEFINE f == SubSeq(s, 1, i)
  <2>1. Len(f) = i /\ f # <<>> /\ DOMAIN f = 1 .. i /\ \A l \in 1 .. i : f[l] = s[l]
    BY <1>1
  <2> HIDE DEF f
  <2> SUFFICES ASSUME IsRun(f, Key) PROVE FALSE
    BY DEF f
  <2>2. PICK d \in Chains : KeyName[d] = Key /\ RunOf(f, d)
    BY DEF IsRun
  <2>3. PICK q \in DOMAIN emitted[d] :
              /\ q + i - 1 <= Len(emitted[d])
              /\ \A n \in 1 .. i :
                    /\ Hash(s[n]) = Hash(emitted[d][q + n - 1])
                    /\ emitted[d][q + n - 1].prev = Genesis <=> n = 1
    BY <2>1, <2>2 DEF RunOf
  <2>4. q \in Nat /\ q # 0 /\ q + i - 1 \in DOMAIN emitted[d] /\ i \in 1 .. i
    BY <1>1, <1>8, <2>3
  <2>5. e = s[i]
    BY DEF e, s
  <2>6. d = c /\ q + i - 1 = j
    <3>1. PICK r \in DOMAIN emitted[d] : r = q + i - 1
      BY <2>4
    <3>2. Hash(emitted[c][j]) = Hash(emitted[d][r])
      BY <1>6, <2>3, <2>4, <2>5, <3>1
    <3>3. c = d /\ j = r
      BY <3>2, SameHashSameEvent
    <3> QED
      BY <3>1, <3>3
  <2>7. s[i].prev = emitted[d][q + i - 1].prev
    BY <1>6, <2>5, <2>6
  <2>8. CASE i = 1
    <3>1. s[i].prev = Genesis
      BY <2>3, <2>4, <2>7, <2>8
    <3> QED
      BY <2>8, <3>1 DEF LinkHolds, s
  <2>9. CASE i # 1
    <3>1. emitted[d][q + i - 1].prev # Genesis
      BY <2>3, <2>4, <2>9
    <3>2. emitted[d][q + i - 1].prev = emitted[d][q + i - 1 - 1].hash
      BY <1>7, <2>4, <3>1
    <3>3. i - 1 \in 1 .. i /\ i - 1 \in DOMAIN s /\ q + (i - 1) - 1 \in DOMAIN emitted[d]
          /\ q + i - 1 - 1 = q + (i - 1) - 1
      <4>1. DOMAIN emitted[d] = 1 .. Len(emitted[d]) /\ Len(emitted[d]) \in Nat
        BY <1>8
      <4>2. i > 1 /\ DOMAIN s = 1 .. Len(s) /\ Len(s) \in Nat
        BY <1>1, <2>9
      <4> QED
        BY <1>1, <2>3, <2>4, <4>1, <4>2
    <3>4. Hash(s[i - 1]) = Hash(emitted[d][q + (i - 1) - 1])
      BY <2>3, <3>3
    <3>5. s[i].prev = s[i - 1].hash
      <4>1. s[i - 1].hash = Hash(s[i - 1])
        BY <1>4, <3>3
      <4>2. emitted[d][q + (i - 1) - 1].hash = Hash(emitted[d][q + (i - 1) - 1])
        BY <1>7, <3>3
      <4> QED
        BY <2>7, <3>2, <3>3, <3>4, <4>1, <4>2
    <3> QED
      BY <2>9, <3>5 DEF LinkHolds, s
  <2> QED
    BY <2>8, <2>9
<1>12. BreakKind(s, i) = "gap" <=> MissesPredecessor(s, e)
  <2>1. BreakKind(s, i) = "gap" <=>
            e.prev # Genesis /\ \A m \in DOMAIN s : s[m].hash # e.prev
    BY DEF BreakKind, e, s
  <2>2. \A d \in Chains : \A k \in DOMAIN emitted[d] :
            emitted[d][k].id = e.id => d = c /\ k = j
    <3>1. Hash(emitted[c][j]).id = Hash(e).id
      BY <1>6
    <3>2. emitted[c][j].id = e.id
      BY <3>1 DEF Hash
    <3> QED
      BY <3>2 DEF Linked
  <2>3. emitted[c][j].id = e.id
    <3>1. Hash(emitted[c][j]).id = Hash(e).id
      BY <1>6
    <3> QED
      BY <3>1 DEF Hash
  <2>4. MissesPredecessor(s, e) <=>
            e.prev # Genesis /\ \A m \in DOMAIN s : s[m].id # emitted[c][j - 1].id
    BY <1>6, <2>2, <2>3 DEF MissesPredecessor
  <2>5. ASSUME e.prev # Genesis, NEW m \in DOMAIN s
        PROVE  s[m].hash = e.prev <=> s[m].id = emitted[c][j - 1].id
    <3>1. j > 1 /\ e.prev = emitted[c][j - 1].hash
      BY <1>6, <1>7, <2>5
    <3>2. j - 1 \in DOMAIN emitted[c]
      BY <1>8, <3>1
    <3>3. e.prev = Hash(emitted[c][j - 1])
      BY <1>7, <3>1, <3>2
    <3>4. ASSUME s[m].hash = e.prev PROVE s[m].id = emitted[c][j - 1].id
      <4>1. Hash(s[m]).id = Hash(emitted[c][j - 1]).id
        BY <1>4, <3>3, <3>4
      <4> QED
        BY <4>1 DEF Hash
    <3>5. ASSUME s[m].id = emitted[c][j - 1].id PROVE s[m].hash = e.prev
      <4>1. PICK d \in Chains : \E k \in DOMAIN emitted[d] :
                Hash(emitted[d][k]) = Hash(s[m])
        BY <1>2, HashFindsEvent
      <4>2. PICK k \in DOMAIN emitted[d] : Hash(emitted[d][k]) = Hash(s[m])
        BY <4>1
      <4>3. Hash(emitted[d][k]).id = Hash(s[m]).id
        BY <4>2
      <4>4. emitted[d][k].id = emitted[c][j - 1].id
        BY <3>5, <4>3 DEF Hash
      <4>5. d = c /\ k = j - 1
        BY <3>2, <4>4 DEF Linked
      <4> QED
        BY <1>4, <3>3, <4>2, <4>5
    <3> QED
      BY <3>4, <3>5
  <2> QED
    BY <2>1, <2>4, <2>5
<1> QED
  BY <1>1, <1>3, <1>10, <1>11, <1>12 DEF BrokenAt, s, e

\* What is said of a stream rests on what the sources wrote alone.
LEMMA SaidForGood ==
    ASSUME UNCHANGED emitted
    PROVE  /\ \A e : Genuine(e)' <=> Genuine(e)
           /\ \A s, k : IsRun(s, k)' <=> IsRun(s, k)
           /\ \A s, e : MissesPredecessor(s, e)' <=> MissesPredecessor(s, e)
<1>1. \A e : Genuine(e)' <=> Genuine(e)
  BY DEF Genuine
<1>2. \A s, k : IsRun(s, k)' <=> IsRun(s, k)
  BY DEF IsRun, RunOf
<1>3. \A s, e : MissesPredecessor(s, e)' <=> MissesPredecessor(s, e)
  BY DEF MissesPredecessor
<1> QED
  BY <1>1, <1>2, <1>3

LEMMA LocatedStep ==
    ASSUME IInv, BreakIsLocated, [Next]_vars
    PROVE  BreakIsLocated'
<1>0. TypeOK /\ Linked /\ AllCarried /\ InTurn /\ Passing
  BY DEF IInv
<1>1. BreakIsLocated <=> \A n \in DOMAIN results : LocatedResult(results[n])
  BY DEF BreakIsLocated, LocatedResult, FailedAt, BrokenAt
<1>2. CASE results' = <<>>
  BY <1>2 DEF BreakIsLocated
<1>3. CASE UNCHANGED <<results, grouped, emitted, anchors>>
  BY <1>3, SaidForGood DEF BreakIsLocated
<1>4. ASSUME UNCHANGED <<grouped, emitted>>, NEW status, NEW bad, Conclude(status, bad),
             status = "failed" => FailedAt(Stream, bad),
             status \in {"gap", "reordered"} => BrokenAt(Stream, Key, bad, status)
      PROVE  BreakIsLocated'
  <2>1. ASSUME NEW r, r.stream = Key, r.status = status, r.bad = bad PROVE LocatedResult(r)
    BY <1>4, <2>1 DEF LocatedResult, Stream
  <2>2. \A n \in DOMAIN results' : LocatedResult(results'[n])
    BY <1>0, <1>1, <1>4, <2>1, DrawnResult
  <2> QED
    BY <1>4, <2>2, SaidForGood DEF BreakIsLocated, LocatedResult, FailedAt, BrokenAt
<1>5. ASSUME Verifying, ~HashHolds(Stream[i]), i <= Len(Stream), pass = "tamper"
      PROVE  FailedAt(Stream, i)
  BY <1>0, <1>5, TamperedIsFound DEF Verifying
<1>6. ASSUME Verifying, ~LinkHolds(Stream, i), i <= Len(Stream), pass = "chain"
      PROVE  BrokenAt(Stream, Key, i, BreakKind(Stream, i)) /\ BreakKind(Stream, i) # "failed"
  BY <1>0, <1>6, BreakIsFound DEF Verifying, BreakKind
<1>7. Standing(Key, Stream) \notin {"failed", "gap", "reordered"}
  BY DEF Standing
<1> QED
  BY <1>0, <1>2, <1>3, <1>4, <1>5, <1>6, <1>7, ResultStep

\* For every set of chains and whatever happened on the way: a result that
\* reports a break points at the event where the stored stream first departs
\* from what was written, and says "gap" exactly when that event's predecessor
\* is not in the stream.
THEOREM ReportedBreakIsLocated == Spec => []BreakIsLocated
<1>1. Init => BreakIsLocated
  BY DEF Init, BreakIsLocated
<1>2. IInv /\ BreakIsLocated /\ [Next]_vars => BreakIsLocated'
  BY LocatedStep
<1> QED
  BY <1>1, <1>2, Inductive, InductiveStep, PTL DEF Spec
-----------------------------------------------------------------------------
(***************************************************************************)
(* A good delivery.  Unharmed, the bundle holds every event at the place   *)
(* of its id, and repeats after them; with repeats alone refused, each     *)
(* group is the part of its chain that was read so far.                    *)
(***************************************************************************)
ChainWhole(c) ==
    /\ \A j \in DOMAIN emitted[c] :
          /\ emitted[c][j].id \in 1 .. written
          /\ stored[emitted[c][j].id] = emitted[c][j]
          /\ emitted[c][j].prev = IF j = 1 THEN Genesis ELSE emitted[c][j - 1].hash
          /\ \A m \in DOMAIN emitted[c] : m < j => emitted[c][m].id < emitted[c][j].id
    /\ tip[c] = IF emitted[c] = <<>> THEN Genesis ELSE emitted[c][Len(emitted[c])].hash

StoredWhole ==
    /\ Len(stored) >= written
    /\ phase = "writing" => Len(stored) = written
    /\ \A n \in 1 .. written :
          /\ stored[n].id = n
          /\ \E c \in Chains : \E j \in DOMAIN emitted[c] : stored[n] = emitted[c][j]
    /\ \A n \in DOMAIN stored : n > written => \E m \in 1 .. written : stored[n] = stored[m]

Unharmed == ~harmed => StoredWhole /\ \A c \in Chains : ChainWhole(c)

NothingRead ==
    phase \in {"writing", "carrying"} =>
        at = 1 /\ seen = {} /\ \A k \in Keys : grouped[k] = <<>>

\* The group g holds the events of the chain w that have an id below n.
ReadBefore(g, w, n) ==
    /\ Len(g) <= Len(w)
    /\ \A j \in DOMAIN w :
          /\ j <= Len(g) <=> w[j].id < n
          /\ j <= Len(g) => g[j] = w[j]

Smooth ==
    ~harmed /\ refused \subseteq {"duplicate_id"} =>
        /\ \A n \in DOMAIN stored : n < at => stored[n].id \in seen
        /\ \A d \in seen : d < at
        /\ \A k \in Keys : grouped[k] # <<>> => \E c \in Chains : KeyName[c] = k
        /\ \A c \in Chains : ReadBefore(grouped[KeyName[c]], emitted[c], at)
\* Writing an event leaves an unharmed bundle whole.
LEMMA UnharmedEmit ==
    ASSUME TypeOK, StoredWhole, \A d \in Chains : ChainWhole(d),
           NEW c \in Chains, NEW t \in Times,
           NEW strength \in StrengthsOf[c], Emit(c, t, strength)
    PROVE  StoredWhole' /\ \A d \in Chains : ChainWhole(d)'
<1>1. PICK e \in Event :
              /\ stored' = Append(stored, e)
              /\ written' = written + 1
              /\ e.id = written + 1 /\ e.hash = Hash(e)
              /\ e.stream = KeyName[c] /\ e.prev = tip[c]
              /\ tip' = [tip EXCEPT ![c] = e.hash]
              /\ Len(emitted'[c]) = Len(emitted[c]) + 1
              /\ emitted'[c][Len(emitted[c]) + 1] = e
              /\ \A d \in Chains : d # c => emitted'[d] = emitted[d]
              /\ \A d \in Chains : \A j \in DOMAIN emitted[d] :
                    j \in DOMAIN emitted'[d] /\ emitted'[d][j] = emitted[d][j]
  BY EmitFacts
<1>2. TypeOK'
  BY TypeEmit
<1>3. \A d \in Chains : emitted[d] \in Seq(Event) /\ emitted'[d] \in Seq(Event)
  BY <1>2 DEF TypeOK
<1>4. stored \in Seq(Event) /\ written \in Nat /\ Len(stored) = written
  BY DEF TypeOK, StoredWhole, Emit, During
<1>5. /\ Len(stored') = written + 1 /\ stored'[written + 1] = e
      /\ DOMAIN stored' = 1 .. written + 1
      /\ \A n \in 1 .. written : stored'[n] = stored[n]
  BY <1>1, <1>4
<1> DEFINE new == Len(emitted[c]) + 1
<1>6. ASSUME NEW d \in Chains, NEW j \in DOMAIN emitted'[d]
      PROVE  j \in DOMAIN emitted[d] \/ (d = c /\ j = new)
  BY <1>1, <1>3, <1>6
<1>7. new \in Nat /\ new \in DOMAIN emitted'[c]
  BY <1>1, <1>3
<1>8. DOMAIN emitted[c] = 1 .. Len(emitted[c]) /\ Len(emitted[c]) \in Nat
  BY <1>3
<1>9. StoredWhole'
  <2>1. Len(stored') >= written' /\ Len(stored') = written'
    BY <1>1, <1>4, <1>5
  <2>2. ASSUME NEW n \in 1 .. written'
        PROVE  /\ stored'[n].id = n
               /\ \E d \in Chains : \E j \in DOMAIN emitted'[d] : stored'[n] = emitted'[d][j]
    <3>1. CASE n \in 1 .. written
      <4>1. PICK d \in Chains : \E j \in DOMAIN emitted[d] : stored[n] = emitted[d][j]
        BY <3>1 DEF StoredWhole
      <4>2. PICK j \in DOMAIN emitted[d] : stored[n] = emitted[d][j]
        BY <4>1
      <4>3. j \in DOMAIN emitted'[d] /\ stored'[n] = emitted'[d][j]
        BY <1>1, <1>5, <3>1, <4>2
      <4> QED
        BY <1>5, <3>1, <4>3 DEF StoredWhole
    <3>2. CASE n = written + 1
      BY <1>1, <1>5, <1>7, <3>2
    <3> QED
      BY <1>1, <1>4, <3>1, <3>2
  <2>3. \A n \in DOMAIN stored' : ~(n > written')
    BY <1>1, <1>4, <1>5
  <2> QED
    BY <2>1, <2>2, <2>3 DEF StoredWhole
<1>10. ASSUME NEW d \in Chains PROVE ChainWhole(d)'
  <2>1. ASSUME NEW j \in DOMAIN emitted[d]
        PROVE  /\ emitted[d][j].id \in 1 .. written
               /\ stored[emitted[d][j].id] = emitted[d][j]
               /\ emitted[d][j].prev = IF j = 1 THEN Genesis ELSE emitted[d][j - 1].hash
               /\ \A m \in DOMAIN emitted[d] : m < j => emitted[d][m].id < emitted[d][j].id
    BY <2>1 DEF ChainWhole
  <2>2. ASSUME NEW j \in DOMAIN emitted'[d]
        PROVE  /\ emitted'[d][j].id \in 1 .. written'
               /\ stored'[emitted'[d][j].id] = emitted'[d][j]
               /\ emitted'[d][j].prev = IF j = 1 THEN Genesis ELSE emitted'[d][j - 1].hash
               /\ \A m \in DOMAIN emitted'[d] : m < j => emitted'[d][m].id < emitted'[d][j].id
    <3>1. CASE j \in DOMAIN emitted[d]
      <4>1. emitted'[d][j] = emitted[d][j]
        BY <1>1, <3>1
      <4>2. emitted'[d][j].id \in 1 .. written' /\ stored'[emitted'[d][j].id] = emitted'[d][j]
        BY <1>1, <1>4, <1>5, <2>1, <3>1, <4>1
      <4>3. emitted'[d][j].prev = IF j = 1 THEN Genesis ELSE emitted'[d][j - 1].hash
        <5>1. CASE j = 1
          BY <2>1, <3>1, <4>1, <5>1
        <5>2. CASE j # 1
          <6>1. j - 1 \in DOMAIN emitted[d]
            BY <1>3, <3>1, <5>2
          <6> QED
            BY <1>1, <2>1, <3>1, <4>1, <5>2, <6>1
        <5> QED
          BY <5>1, <5>2
      <4>4. ASSUME NEW m \in DOMAIN emitted'[d], m < j
            PROVE  emitted'[d][m].id < emitted'[d][j].id
        <5>1. m \in DOMAIN emitted[d]
          BY <1>3, <3>1, <4>4
        <5> QED
          BY <1>1, <2>1, <3>1, <4>1, <4>4, <5>1
      <4> QED
        BY <4>2, <4>3, <4>4
    <3>2. CASE d = c /\ j = new
      <4>1. emitted'[d][j] = e
        BY <1>1, <3>2
      <4>2. e.id \in 1 .. written' /\ stored'[e.id] = e
        BY <1>1, <1>4, <1>5
      <4>3. e.prev = IF j = 1 THEN Genesis ELSE emitted'[d][j - 1].hash
        <5>1. CASE emitted[c] = <<>>
          BY <1>1, <3>2, <5>1 DEF ChainWhole
        <5>2. CASE emitted[c] # <<>>
          <6>1. j - 1 = Len(emitted[c]) /\ j # 1 /\ Len(emitted[c]) \in DOMAIN emitted[c]
            BY <1>3, <1>8, <3>2, <5>2
          <6>2. e.prev = emitted[c][Len(emitted[c])].hash
            BY <1>1, <5>2 DEF ChainWhole
          <6> QED
            BY <1>1, <3>2, <6>1, <6>2
        <5> QED
          BY <5>1, <5>2
      <4>4. ASSUME NEW m \in DOMAIN emitted'[d], m < j PROVE emitted'[d][m].id < e.id
        <5>1. m \in DOMAIN emitted[d]
          BY <1>6, <3>2, <4>4
        <5>2. emitted'[d][m] = emitted[d][m] /\ emitted[d][m].id \in 1 .. written
          BY <1>1, <2>1, <5>1
        <5> QED
          BY <1>1, <1>4, <5>2
      <4> QED
        BY <4>1, <4>2, <4>3, <4>4
    <3> QED
      BY <1>6, <3>1, <3>2
  <2>3. tip'[d] = IF emitted'[d] = <<>> THEN Genesis ELSE emitted'[d][Len(emitted'[d])].hash
    <3>1. CASE d = c
      <4>1. emitted'[c] # <<>> /\ tip'[c] = e.hash
        BY <1>1, <1>3, <1>7 DEF TypeOK
      <4> QED
        BY <1>1, <3>1, <4>1
    <3>2. CASE d # c
      BY <1>1, <3>2 DEF TypeOK, ChainWhole
    <3> QED
      BY <3>1, <3>2
  <2> HIDE DEF new
  <2> QED
    BY <2>2, <2>3 DEF ChainWhole
<1> QED
  BY <1>9, <1>10

LEMMA UnharmedStep ==
    ASSUME TypeOK, Unharmed, [Next]_vars
    PROVE  Unharmed'
<1>1. CASE harmed'
  BY <1>1 DEF Unharmed
<1>2. CASE ~harmed'
  <2>1. ASSUME UNCHANGED <<sources, stored, harmed>>, phase' = "writing" => phase = "writing"
        PROVE  Unharmed'
    BY <2>1 DEF Unharmed, StoredWhole, ChainWhole, sources
  <2>2. ASSUME NEW c \in Chains, NEW t \in Times,
               NEW strength \in StrengthsOf[c], Emit(c, t, strength)
        PROVE  Unharmed'
    <3>1. UNCHANGED harmed
      BY <2>2 DEF Emit
    <3> QED
      BY <2>2, <3>1, UnharmedEmit DEF Unharmed
  <2>3. ASSUME NEW n \in DOMAIN stored, Repeat(n) PROVE Unharmed'
    <3>1. /\ stored' = Append(stored, stored[n])
          /\ UNCHANGED <<emitted, tip, written, harmed, phase>>
          /\ phase = "carrying"
      BY <2>3 DEF Repeat, During, sources
    <3>2. CASE ~harmed
      <4>1. StoredWhole /\ \A c \in Chains : ChainWhole(c)
        BY <3>2 DEF Unharmed
      <4>2. /\ stored \in Seq(Event) /\ written \in Nat
            /\ Len(stored') = Len(stored) + 1
            /\ \A k \in DOMAIN stored : stored'[k] = stored[k]
            /\ stored'[Len(stored) + 1] = stored[n]
            /\ DOMAIN stored' = DOMAIN stored \cup {Len(stored) + 1}
            /\ DOMAIN stored = 1 .. Len(stored) /\ Len(stored) \in Nat
        BY <3>1 DEF TypeOK
      <4>3. 1 .. written \subseteq DOMAIN stored
        <5>1. Len(stored) >= written
          BY <4>1 DEF StoredWhole
        <5>2. \A m \in 1 .. written : m \in 1 .. Len(stored)
          BY <4>2, <5>1
        <5> QED
          BY <4>2, <5>2
      <4>4. \A m \in 1 .. written : stored'[m] = stored[m]
        BY <4>2, <4>3
      <4>5. ASSUME NEW k \in DOMAIN stored', k > written
            PROVE  \E m \in 1 .. written : stored'[k] = stored'[m]
        <5>1. PICK q \in DOMAIN stored : stored'[k] = stored[q]
          BY <4>2
        <5>2. CASE q > written
          BY <4>1, <4>4, <5>1, <5>2 DEF StoredWhole
        <5>3. CASE ~(q > written)
          <6>1. q \in 1 .. written
            BY <4>2, <5>3
          <6> QED
            BY <4>4, <5>1, <6>1
        <5> QED
          BY <5>2, <5>3
      <4>6. StoredWhole'
        <5>1. Len(stored') >= written' /\ phase' # "writing" /\ 1 .. written' = 1 .. written
          BY <3>1, <4>1, <4>2 DEF StoredWhole
        <5>2. \A m \in 1 .. written : /\ stored'[m].id = m
                  /\ \E c \in Chains : \E j \in DOMAIN emitted[c] : stored'[m] = emitted[c][j]
          BY <4>1, <4>4 DEF StoredWhole
        <5> QED
          BY <3>1, <4>5, <5>1, <5>2 DEF StoredWhole
      <4>7. ASSUME NEW c \in Chains PROVE ChainWhole(c)'
        <5>1. ChainWhole(c)
          BY <4>1
        <5>2. \A j \in DOMAIN emitted[c] : stored'[emitted[c][j].id] = emitted[c][j]
          BY <4>4, <5>1 DEF ChainWhole
        <5> QED
          BY <3>1, <5>1, <5>2 DEF ChainWhole
      <4> QED
        BY <4>6, <4>7 DEF Unharmed
    <3>3. CASE harmed
      BY <3>1, <3>3 DEF Unharmed
    <3> QED
      BY <3>2, <3>3
  <2>4. ASSUME Harm PROVE Unharmed'
    BY <2>4 DEF Harm, Unharmed
  <2>5. CASE Way
    <3>1. ASSUME NEW c \in Chains, Restart(c) PROVE Unharmed'
      BY <2>4, <3>1 DEF Restart
    <3>2. ASSUME NEW n \in DOMAIN stored, Lose(n) \/ Alter(n) \/ Strip(n) \/ LoseAttestation(n)
          PROVE  Unharmed'
      BY <2>4, <3>2 DEF Lose, Alter, Strip, LoseAttestation, Change
    <3>3. ASSUME NEW m, NEW n, Swap(m, n) PROVE Unharmed'
      BY <2>4, <3>3 DEF Swap
    <3> QED
      BY <2>2, <2>3, <2>5, <3>1, <3>2, <3>3 DEF Way
  <2>6. CASE Engine
    <3>1. phase' = "writing" => phase = "writing"
      BY <2>6 DEF Engine, Carry, BeginIngest, ReadLine, BeginVerify, SelectStream,
         CheckHash, HashesHold, CheckLink, LinksHold, CheckTime, TimesHold,
         Check, EndPass, Verifying, Finish, Abort
    <3> QED
      BY <2>1, <2>6, <3>1, EngineKeeps DEF bundle
  <2>7. CASE UNCHANGED vars
    BY <2>1, <2>7 DEF vars, sources
  <2> QED
    BY <2>5, <2>6, <2>7 DEF Next
<1> QED
  BY <1>1, <1>2
LEMMA NothingReadStep ==
    ASSUME NothingRead, [Next]_vars
    PROVE  NothingRead'
<1>1. CASE Way
  BY <1>1, WayKeeps DEF NothingRead, ingest
<1>2. CASE Engine
  <2>1. phase' \in {"writing", "carrying"} => phase = "writing" /\ UNCHANGED <<at, seen, grouped>>
    BY <1>2 DEF Engine, Carry, BeginIngest, ReadLine, BeginVerify, SelectStream,
       CheckHash, HashesHold, CheckLink, LinksHold, CheckTime, TimesHold,
       Check, EndPass, Verifying, Finish, Abort, ingest
  <2> QED
    BY <2>1 DEF NothingRead
<1>3. CASE UNCHANGED vars
  BY <1>3 DEF vars, NothingRead
<1> QED
  BY <1>1, <1>2, <1>3 DEF Next

\* Without a manifest that names sources, an event is refused only as a
\* repeat, or else as out of order.
LEMMA VerdictWithoutSources ==
    ASSUME NEW e \in Event, NEW ids, NEW times
    PROVE  /\ e.id \notin ids => VerdictOn(e, <<>>, ids, times) \in {"time_order", Accept}
           /\ e.id \in ids => VerdictOn(e, <<>>, ids, times) = "duplicate_id"
<1>1. e.form = "event"
  BY EventFacts
<1>2. DeclaredClass(<<>>, e.source) = NoClass
  BY DEF DeclaredClass
<1> QED
  BY <1>1, <1>2 DEF VerdictOn

\* Before anything is read, no group holds anything.
LEMMA SmoothAtFirst ==
    ASSUME Unharmed, at = 1, seen = {}, \A k \in Keys : grouped[k] = <<>>
    PROVE  Smooth
<1> SUFFICES ASSUME ~harmed PROVE Smooth
  BY DEF Smooth
<1>1. ASSUME NEW c \in Chains PROVE ReadBefore(grouped[KeyName[c]], emitted[c], at)
  <2>1. grouped[KeyName[c]] = <<>>
    BY IntegrityAssumption
  <2>2. \A j \in DOMAIN emitted[c] : emitted[c][j].id \in 1 .. written
    BY DEF Unharmed, ChainWhole
  <2>3. emitted[c] = <<>> \/ emitted[c] # <<>>
    OBVIOUS
  <2> QED
    BY <2>1, <2>2 DEF ReadBefore
<1> QED
  BY <1>1 DEF Smooth

\* One line read of an unharmed bundle: the next event of its chain, or a
\* repeat.
LEMMA SmoothRead ==
    ASSUME TypeOK, Linked, Unharmed, Smooth, ReadLine, ~harmed,
           refused' \subseteq {"duplicate_id"}
    PROVE  Smooth'
<1> DEFINE l == stored[at]
           verdict == VerdictOn(l, <<>>, seen, last)
<1>1. /\ at' = at + 1
      /\ UNCHANGED <<emitted, written, stored, harmed>>
      /\ IF verdict = Accept
         THEN /\ seen' = seen \cup {l.id}
              /\ grouped' = [grouped EXCEPT ![KeyOf(l)] = Append(@, l)]
              /\ UNCHANGED refused
         ELSE /\ refused' = refused \cup {verdict}
              /\ UNCHANGED <<seen, grouped>>
  BY DEF ReadLine, sources, bundle
<1>2. /\ stored \in Seq(Event) /\ at \in DOMAIN stored /\ at \in Nat /\ at # 0
      /\ written \in Nat /\ l \in Event
  BY ElementOf DEF TypeOK, ReadLine
<1>3. l.id \notin seen => verdict \in {"time_order", Accept}
  <2> HIDE DEF l
  <2> QED
    BY <1>2, VerdictWithoutSources
<1>4. l.id \in seen => verdict = "duplicate_id"
  <2> HIDE DEF l
  <2> QED
    BY <1>2, VerdictWithoutSources
<1>5. StoredWhole /\ \A c \in Chains : ChainWhole(c)
  BY DEF Unharmed
<1> HIDE DEF verdict
<1>6. /\ \A n \in DOMAIN stored : n < at => stored[n].id \in seen
      /\ \A d \in seen : d < at
      /\ \A k \in Keys : grouped[k] # <<>> => \E c \in Chains : KeyName[c] = k
      /\ \A c \in Chains : ReadBefore(grouped[KeyName[c]], emitted[c], at)
  BY <1>1 DEF Smooth
<1>7. DOMAIN stored \subseteq Nat /\ \A n \in DOMAIN stored : n < at + 1 => n < at \/ n = at
  BY <1>2
<1>8. seen \subseteq Nat
  BY DEF TypeOK
<1>9. \A c \in Chains : \A j \in DOMAIN emitted[c] : emitted[c][j].id \in 1 .. written
  BY <1>5 DEF ChainWhole
<1>10. CASE at > written
  <2>1. PICK m \in 1 .. written : l = stored[m]
    BY <1>2, <1>5, <1>10 DEF StoredWhole
  <2>2. m \in DOMAIN stored /\ m < at
    BY <1>2, <1>10, <2>1
  <2>3. l.id \in seen
    BY <1>6, <2>1, <2>2
  <2>4. UNCHANGED <<seen, grouped>>
    BY <1>1, <1>4, <2>3 DEF Accept
  <2>5. \A n \in DOMAIN stored : n < at + 1 => stored[n].id \in seen
    BY <1>6, <1>7, <2>3
  <2>6. \A d \in seen : d < at + 1
    BY <1>2, <1>6, <1>8
  <2>7. \A c \in Chains : \A j \in DOMAIN emitted[c] :
            emitted[c][j].id < at /\ emitted[c][j].id < at + 1
    BY <1>2, <1>9, <1>10
  <2>8. ASSUME NEW c \in Chains PROVE ReadBefore(grouped[KeyName[c]], emitted[c], at + 1)
    BY <1>1, <1>6, <2>4, <2>7 DEF ReadBefore
  <2> QED
    BY <1>1, <1>6, <2>4, <2>5, <2>6, <2>8 DEF Smooth
<1>11. CASE at <= written
  <2>1. l.id = at
    BY <1>2, <1>5, <1>11 DEF StoredWhole
  <2>2. l.id \notin seen
    BY <1>2, <1>6, <1>8, <2>1
  <2>3. verdict = Accept
    BY <1>1, <1>3, <2>2 DEF Accept
  <2>4. /\ seen' = seen \cup {at} /\ grouped' = [grouped EXCEPT ![KeyOf(l)] = Append(@, l)]
    BY <1>1, <2>1, <2>3
  <2>5. PICK c \in Chains : \E j \in DOMAIN emitted[c] : l = emitted[c][j]
    BY <1>2, <1>5, <1>11 DEF StoredWhole
  <2>6. PICK j \in DOMAIN emitted[c] : l = emitted[c][j]
    BY <2>5
  <2>7. KeyOf(l) = KeyName[c] /\ KeyName[c] \in Keys
    <3>1. l.stream = KeyName[c] /\ KeyName[c] \in Keys /\ KeyName[c] # NoStream
      BY <2>6, IntegrityAssumption DEF Linked, Chained
    <3> QED
      BY <3>1 DEF KeyOf, HasBlock
  <2> DEFINE g == grouped[KeyName[c]]
  <2>8. g \in Seq(Event) /\ emitted[c] \in Seq(Event)
    BY <2>7 DEF TypeOK
  <2>9. /\ Len(g) <= Len(emitted[c])
        /\ \A n \in DOMAIN emitted[c] : /\ n <= Len(g) <=> emitted[c][n].id < at
                                        /\ n <= Len(g) => g[n] = emitted[c][n]
    BY <1>6 DEF ReadBefore
  <2>10. grouped'[KeyName[c]] = Append(g, l)
    BY <2>4, <2>7 DEF TypeOK
  <2> HIDE DEF g, l
  <2>11. \A n \in DOMAIN emitted[c] : /\ n < j => emitted[c][n].id < at
                                      /\ j < n => at < emitted[c][n].id
    BY <1>5, <2>1, <2>6 DEF ChainWhole
  \* The line is the first of its chain that is not in the group.
  <2>12. j = Len(g) + 1
    <3>1. DOMAIN emitted[c] = 1 .. Len(emitted[c]) /\ Len(emitted[c]) \in Nat /\ Len(g) \in Nat
      BY <2>8
    <3>2. ~(j <= Len(g))
      <4>1. ~(emitted[c][j].id < at)
        BY <1>2, <2>1, <2>6
      <4> QED
        BY <2>9, <4>1
    <3>3. ~(Len(g) + 1 < j)
      <4> SUFFICES ASSUME Len(g) + 1 < j PROVE FALSE
        OBVIOUS
      <4>1. PICK n \in DOMAIN emitted[c] : n = Len(g) + 1
        BY <3>1
      <4>2. n <= Len(g)
        BY <2>9, <2>11, <4>1
      <4> QED
        BY <3>1, <4>1, <4>2
    <3> QED
      BY <3>1, <3>2, <3>3
  <2>13. ReadBefore(Append(g, l), emitted[c], at + 1)
    <3>1. Len(Append(g, l)) = j /\ \A n \in 1 .. Len(g) : Append(g, l)[n] = g[n]
      BY <1>2, <2>8, <2>12
    <3>2. Append(g, l)[j] = l
      BY <1>2, <2>8, <2>12
    <3>3. DOMAIN emitted[c] = 1 .. Len(emitted[c]) /\ Len(emitted[c]) \in Nat /\ Len(g) \in Nat
      BY <2>8
    <3>4. j <= Len(emitted[c]) /\ j \in Nat
      BY <3>3
    <3>5. ASSUME NEW n \in DOMAIN emitted[c]
          PROVE  /\ n <= j <=> emitted[c][n].id < at + 1
                 /\ n <= j => Append(g, l)[n] = emitted[c][n]
      <4>0. emitted[c][n].id \in Nat
        BY <1>9
      <4>1. CASE n < j
        <5>1. emitted[c][n].id < at
          BY <2>11, <4>1
        <5>2. n \in 1 .. Len(g)
          BY <2>12, <3>3, <4>1
        <5>3. Append(g, l)[n] = emitted[c][n]
          BY <2>9, <3>1, <3>3, <5>2
        <5> QED
          BY <1>2, <4>0, <4>1, <5>1, <5>3, <3>3, <3>4
      <4>2. CASE n = j
        <5>1. emitted[c][n].id = at /\ Append(g, l)[n] = emitted[c][n]
          BY <2>1, <2>6, <3>2, <4>2
        <5> QED
          BY <1>2, <3>4, <4>2, <5>1
      <4>3. CASE j < n
        <5>1. at < emitted[c][n].id
          BY <2>11, <4>3
        <5> QED
          BY <1>2, <4>0, <4>3, <5>1, <3>3, <3>4
      <4> QED
        <5>1. n \in Nat /\ j \in Nat
          BY <3>3, <3>4
        <5>2. n < j \/ n = j \/ j < n
          BY <5>1
        <5> QED
          BY <4>1, <4>2, <4>3, <5>2
    <3> QED
      BY <3>1, <3>4, <3>5 DEF ReadBefore
  <2>14. ASSUME NEW d \in Chains
         PROVE  ReadBefore(grouped'[KeyName[d]], emitted[d], at + 1)
    <3>1. CASE d = c
      BY <2>10, <2>13, <3>1
    <3>2. CASE d # c
      <4>1. KeyName[d] # KeyName[c] /\ KeyName[d] \in Keys
        BY <3>2, IntegrityAssumption
      <4>2. grouped'[KeyName[d]] = grouped[KeyName[d]]
        BY <2>4, <2>7, <4>1 DEF TypeOK
      <4>3. ASSUME NEW n \in DOMAIN emitted[d]
            PROVE  emitted[d][n].id < at + 1 <=> emitted[d][n].id < at
        <5>1. emitted[d][n].id # emitted[c][j].id
          BY <3>2 DEF Linked
        <5>2. emitted[d][n].id # at /\ emitted[d][n].id \in Nat
          BY <1>9, <2>1, <2>6, <5>1
        <5> QED
          BY <1>2, <5>2
      <4>4. ReadBefore(grouped[KeyName[d]], emitted[d], at)
        BY <1>6
      <4> QED
        BY <4>2, <4>3, <4>4 DEF ReadBefore
    <3> QED
      BY <3>1, <3>2
  <2>15. \A n \in DOMAIN stored : n < at + 1 => stored[n].id \in seen'
    BY <1>6, <1>7, <2>1, <2>4 DEF l
  <2>16. \A d \in seen' : d < at + 1
    <3>1. \A d \in seen : d \in Nat /\ d < at
      BY <1>6, <1>8
    <3>2. \A d \in seen : d < at + 1
      BY <1>2, <3>1
    <3>3. at < at + 1
      BY <1>2
    <3> QED
      BY <2>4, <3>2, <3>3
  <2>17. ASSUME NEW k \in Keys, grouped'[k] # <<>>
         PROVE  \E d \in Chains : KeyName[d] = k
    <3>1. CASE k = KeyName[c]
      BY <3>1
    <3>2. CASE k # KeyName[c]
      BY <1>6, <2>4, <2>7, <2>17, <3>2 DEF TypeOK
    <3> QED
      BY <3>1, <3>2
  <2> QED
    BY <1>1, <2>14, <2>15, <2>16, <2>17 DEF Smooth
<1> QED
  BY <1>2, <1>10, <1>11

LEMMA SmoothStep ==
    ASSUME IInv, Unharmed, Unharmed', NothingRead, NothingRead', Smooth, [Next]_vars
    PROVE  Smooth'
<1>1. CASE Way
  <2>1. phase' \in {"writing", "carrying"}
    BY <1>1, WayKeeps
  <2>2. at' = 1 /\ seen' = {} /\ \A k \in Keys : grouped'[k] = <<>>
    BY <2>1 DEF NothingRead
  <2> SUFFICES ASSUME ~harmed' PROVE Smooth'
    BY DEF Smooth
  <2>3. ASSUME NEW c \in Chains PROVE ReadBefore(grouped'[KeyName[c]], emitted'[c], 1)
    <3>1. grouped'[KeyName[c]] = <<>>
      BY <2>2, IntegrityAssumption
    <3>2. \A j \in DOMAIN emitted'[c] : emitted'[c][j].id \in 1 .. written'
      BY DEF Unharmed, ChainWhole
    <3>3. TypeOK'
      BY TypeStep DEF IInv
    <3>4. emitted'[c] \in Seq(Event) /\ written' \in Nat
      BY <3>3 DEF TypeOK
    <3>5. \A j \in DOMAIN emitted'[c] : ~(emitted'[c][j].id < 1) /\ ~(j <= 0)
      BY <3>2, <3>4
    <3> QED
      BY <3>1, <3>4, <3>5 DEF ReadBefore
  <2>4. \A n \in DOMAIN stored' : ~(n < 1)
    <3>1. TypeOK'
      BY TypeStep DEF IInv
    <3> QED
      BY <3>1 DEF TypeOK
  <2> QED
    BY <2>2, <2>3, <2>4 DEF Smooth
<1>2. CASE ReadLine
  <2>1. UNCHANGED harmed /\ refused \subseteq refused'
    BY <1>2 DEF ReadLine, bundle
  <2>2. CASE ~harmed /\ refused' \subseteq {"duplicate_id"}
    BY <1>2, <2>1, <2>2, SmoothRead DEF IInv
  <2>3. CASE ~(~harmed /\ refused' \subseteq {"duplicate_id"})
    BY <2>1, <2>3 DEF Smooth
  <2> QED
    BY <2>2, <2>3
<1>3. ASSUME UNCHANGED <<sources, bundle, ingest>> PROVE Smooth'
  BY <1>3 DEF Smooth, sources, bundle, ingest
<1>4. CASE Engine /\ ~ReadLine
  <2>1. UNCHANGED ingest
    BY <1>4 DEF Engine, Carry, BeginIngest, BeginVerify, SelectStream,
       CheckHash, HashesHold, CheckLink, LinksHold, CheckTime, TimesHold,
       Check, EndPass, Verifying, Finish, Abort
  <2> QED
    BY <1>3, <1>4, <2>1, EngineKeeps
<1>5. CASE UNCHANGED vars
  BY <1>3, <1>5 DEF vars, sources, bundle, ingest
<1> QED
  BY <1>1, <1>2, <1>4, <1>5 DEF Next

\* With nothing harmed and repeats alone refused, every check of the first
\* two passes holds.
LEMMA SmoothChecksHold ==
    ASSUME IInv, Unharmed, Smooth, ~harmed, refused \subseteq {"duplicate_id"},
           next <= Len(KeyOrder), i <= Len(Stream)
    PROVE  HashHolds(Stream[i]) /\ LinkHolds(Stream, i)
<1>1. Key \in Keys /\ Stream \in Seq(Event) /\ i \in DOMAIN Stream /\ i \in Nat /\ i # 0
  BY KeyIsKey DEF IInv, TypeOK
<1>2. Stream # <<>>
  BY <1>1
<1>3. PICK c \in Chains : KeyName[c] = Key
  BY <1>1, <1>2 DEF Smooth, Stream
<1>4. ReadBefore(Stream, emitted[c], at) /\ ChainWhole(c)
  BY <1>3 DEF Smooth, Stream, Unharmed
<1>5. emitted[c] \in Seq(Event)
  BY DEF IInv, TypeOK
<1>6. \A n \in DOMAIN Stream : n \in DOMAIN emitted[c] /\ Stream[n] = emitted[c][n]
  <2>1. ASSUME NEW n \in DOMAIN Stream PROVE n \in DOMAIN emitted[c]
    <3>1. DOMAIN Stream = 1 .. Len(Stream) /\ DOMAIN emitted[c] = 1 .. Len(emitted[c])
          /\ Len(Stream) \in Nat /\ Len(emitted[c]) \in Nat /\ Len(Stream) <= Len(emitted[c])
      BY <1>1, <1>4, <1>5 DEF ReadBefore
    <3> QED
      BY <3>1
  <2>2. \A n \in DOMAIN Stream : n <= Len(Stream)
    BY <1>1
  <2> QED
    BY <1>4, <2>1, <2>2 DEF ReadBefore
<1>7. HashHolds(Stream[i])
  <2>1. Stream[i].hash = Hash(Stream[i]) /\ Stream[i].stream = KeyName[c]
    BY <1>1, <1>6 DEF IInv, Linked, Chained
  <2>2. KeyName[c] # NoStream
    BY IntegrityAssumption
  <2> QED
    BY <2>1, <2>2 DEF HashHolds, HasBlock
<1>8. LinkHolds(Stream, i)
  <2>1. Stream[i].prev = IF i = 1 THEN Genesis ELSE emitted[c][i - 1].hash
    BY <1>1, <1>4, <1>6 DEF ChainWhole
  <2>2. CASE i = 1
    BY <2>1, <2>2 DEF LinkHolds
  <2>3. CASE i # 1
    <3>1. i - 1 \in DOMAIN Stream
      BY <1>1, <2>3
    <3> QED
      BY <1>6, <2>1, <2>3, <3>1 DEF LinkHolds
  <2> QED
    BY <2>2, <2>3
<1> QED
  BY <1>7, <1>8

LEMMA GoodDeliveryStep ==
    ASSUME IInv, Unharmed, Smooth, GoodDeliveryVerifies, [Next]_vars
    PROVE  GoodDeliveryVerifies'
<1>0. TypeOK /\ InTurn
  BY DEF IInv
<1>1. ASSUME ~harmed', refused' \subseteq {"duplicate_id"}, results' # <<>>
      PROVE  ~harmed /\ refused \subseteq {"duplicate_id"}
  <2>1. CASE Way \/ ReadLine
    <3>1. UNCHANGED results /\ phase \in {"writing", "carrying", "ingesting"}
      BY <2>1, WayKeeps DEF ReadLine, judging
    <3> QED
      BY <1>0, <1>1, <3>1 DEF InTurn
  <2>2. CASE Engine /\ ~ReadLine
    <3>1. UNCHANGED <<bundle, ingest>>
      BY <2>2, EngineKeeps DEF Engine, Carry, BeginIngest, BeginVerify, SelectStream,
         CheckHash, HashesHold, CheckLink, LinksHold, CheckTime, TimesHold,
         Check, EndPass, Verifying, Finish, Abort
    <3> QED
      BY <1>1, <3>1 DEF bundle, ingest
  <2>3. CASE UNCHANGED vars
    BY <1>1, <2>3 DEF vars
  <2> QED
    BY <2>1, <2>2, <2>3 DEF Next
<1> SUFFICES ASSUME ~harmed', refused' \subseteq {"duplicate_id"}, results' # <<>>
             PROVE  \A n \in DOMAIN results' : results'[n].status \in Unbroken
  BY DEF GoodDeliveryVerifies
<1>2. ~harmed /\ refused \subseteq {"duplicate_id"}
  BY <1>1
<1>3. \A n \in DOMAIN results : results[n].status \in Unbroken
  BY <1>2 DEF GoodDeliveryVerifies
<1>4. ASSUME NEW status \in Unbroken, NEW bad, Conclude(status, bad)
      PROVE  \A n \in DOMAIN results' : results'[n].status \in Unbroken
  BY <1>0, <1>3, <1>4, DrawnResult
<1>5. Standing(Key, Stream) \in Unbroken /\ "time_suspect" \in Unbroken
  BY DEF Standing, Unbroken
<1>6. Verifying /\ i <= Len(Stream) => HashHolds(Stream[i]) /\ LinkHolds(Stream, i)
  BY <1>2, SmoothChecksHold DEF Verifying
<1> QED
  BY <1>0, <1>3, <1>4, <1>5, <1>6, ResultStep

\* For every set of chains and however many events: when nothing was harmed
\* on the way and ingest refused nothing but repeats, no stream is reported
\* failed, gapped or reordered.  Retried deliveries raise no alarm.
THEOREM GoodDeliveryIsVerified == Spec => []GoodDeliveryVerifies
<1>1. Init => Unharmed /\ NothingRead /\ Smooth /\ GoodDeliveryVerifies
  <2> SUFFICES ASSUME Init PROVE Unharmed /\ NothingRead /\ Smooth /\ GoodDeliveryVerifies
    OBVIOUS
  <2>1. Unharmed
    BY DEF Init, Unharmed, StoredWhole, ChainWhole
  <2>2. NothingRead /\ GoodDeliveryVerifies
    BY DEF Init, NothingRead, GoodDeliveryVerifies
  <2>3. Smooth
    BY <2>1, SmoothAtFirst DEF Init
  <2> QED
    BY <2>1, <2>2, <2>3
<1>2. IInv /\ Unharmed /\ NothingRead /\ Smooth /\ GoodDeliveryVerifies /\ [Next]_vars
          => Unharmed' /\ NothingRead' /\ Smooth' /\ GoodDeliveryVerifies'
  <2> SUFFICES ASSUME IInv, Unharmed, NothingRead, Smooth, GoodDeliveryVerifies, [Next]_vars
               PROVE  Unharmed' /\ NothingRead' /\ Smooth' /\ GoodDeliveryVerifies'
    OBVIOUS
  <2>1. Unharmed' /\ NothingRead'
    BY UnharmedStep, NothingReadStep DEF IInv
  <2> QED
    BY <2>1, SmoothStep, GoodDeliveryStep
<1> QED
  BY <1>1, <1>2, Inductive, InductiveStep, PTL DEF Spec
-----------------------------------------------------------------------------
(***************************************************************************)
(* The ports.  Each of their passes is a search; what the reference's      *)
(* passes have found where they end is what these searches find, and so    *)
(* the results drawn so far are those of the ports' loops so far.          *)
(***************************************************************************)

\* The loop of verifyBundle, stream by stream.  (The function exists: were
\* there a number of streams for which none does, the least such number would
\* be one more than another for which one does.)
LEMMA JudgingOneByOne ==
    ASSUME NEW g, NEW found
    PROVE  /\ Judging(g, found)[0] = <<>>
           /\ \A n \in 1 .. Len(KeyOrder) :
                 Judging(g, found)[n] =
                     IF g[KeyOrder[n]] = <<>> THEN Judging(g, found)[n - 1]
                     ELSE Append(Judging(g, found)[n - 1], found[KeyOrder[n]])
<1> DEFINE Step(x, n) == IF g[KeyOrder[n]] = <<>> THEN x ELSE Append(x, found[KeyOrder[n]])
           first == <<>>
           Solves(h, n) ==
               h = [k \in 0 .. n |-> IF k = 0 THEN first ELSE Step(h[k - 1], k)]
           Solved == {n \in Nat : \E h : Solves(h, n)}
<1>0. Len(KeyOrder) \in Nat
  BY IntegrityAssumption
<1>1. Judging(g, found) = CHOOSE h : Solves(h, Len(KeyOrder))
  BY DEF Judging
<1> HIDE DEF first, Step
<1>2. \E h : Solves(h, 0)
  <2>1. Solves([k \in 0 .. 0 |-> first], 0)
    OBVIOUS
  <2> QED
    BY <2>1
<1>3. ASSUME NEW n \in Nat, NEW h, Solves(h, n)
      PROVE  \E f : Solves(f, n + 1)
  <2> DEFINE f == [k \in 0 .. n + 1 |-> IF k <= n THEN h[k] ELSE Step(h[n], n + 1)]
  <2>1. /\ DOMAIN f = 0 .. n + 1 /\ f = [k \in DOMAIN f |-> f[k]]
        /\ \A k \in 0 .. n : f[k] = h[k]
        /\ f[n + 1] = Step(h[n], n + 1)
    OBVIOUS
  <2>2. \A k \in 0 .. n : h[k] = IF k = 0 THEN first ELSE Step(h[k - 1], k)
    BY <1>3
  <2> HIDE DEF f
  <2>3. ASSUME NEW k \in 0 .. n + 1
        PROVE  f[k] = IF k = 0 THEN first ELSE Step(f[k - 1], k)
    <3>1. CASE k = n + 1
      BY <2>1, <3>1
    <3>2. CASE k \in 0 .. n
      BY <2>1, <2>2, <3>2
    <3> QED
      BY <3>1, <3>2
  <2>4. Solves(f, n + 1)
    BY <2>1, <2>3
  <2> QED
    BY <2>4
<1>4. Solved = Nat
  <2> HIDE DEF Solves
  <2>1. 0 \in Solved /\ \A n \in Solved : n + 1 \in Solved
    BY <1>2, <1>3
  <2>2. Solved \subseteq Nat
    OBVIOUS
  <2> HIDE DEF Solved
  <2>3. ASSUME Nat \ Solved # {} PROVE FALSE
    <3>1. PICK m \in Nat \ Solved : m = Min(Nat \ Solved)
      BY <2>3, MinIsElement
    <3>2. \A j \in Nat \ Solved : m <= j
      BY <2>3, <3>1, MinIsElement
    <3>3. m # 0 /\ m - 1 \in Nat /\ ~(m <= m - 1) /\ (m - 1) + 1 = m
      BY <2>1, <3>1
    <3> QED
      BY <2>1, <3>1, <3>2, <3>3
  <2> QED
    BY <2>2, <2>3
<1>5. \E h : Solves(h, Len(KeyOrder))
  BY <1>0, <1>4
<1>6. Solves(Judging(g, found), Len(KeyOrder))
  <2> HIDE DEF Solves
  <2> QED
    BY <1>1, <1>5
<1>7. \A n \in 0 .. Len(KeyOrder) :
          Judging(g, found)[n] =
              IF n = 0 THEN first ELSE Step(Judging(g, found)[n - 1], n)
  BY <1>6
<1>8. /\ Judging(g, found)[0] = first
      /\ \A n \in 1 .. Len(KeyOrder) :
            Judging(g, found)[n] = Step(Judging(g, found)[n - 1], n)
  BY <1>0, <1>7
<1> QED
  BY <1>8 DEF first, Step

\* What a search finds.
LEMMA FirstIsFound ==
    ASSUME NEW s \in Seq(Event), NEW bad \in SUBSET DOMAIN s,
           NEW b \in DOMAIN s, b \in bad, \A n \in DOMAIN s : n < b => n \notin bad
    PROVE  FirstOf(bad) = b /\ b # 0
<1>1. \A n \in bad : b <= n
  OBVIOUS
<1>2. \A n \in bad : (\A m \in bad : n <= m) => n = b
  BY <1>1
<1> QED
  BY <1>1, <1>2 DEF FirstOf, Min

\* What the passes over stream k, which is s, have come to where they end.
CameTo(k, s, status, bad) ==
    \/ /\ bad \in DOMAIN s /\ ~HashHolds(s[bad]) /\ status = "failed"
       /\ \A n \in DOMAIN s : n < bad => HashHolds(s[n])
    \/ /\ \A n \in DOMAIN s : HashHolds(s[n])
       /\ bad \in DOMAIN s /\ ~LinkHolds(s, bad) /\ status = BreakKind(s, bad)
       /\ \A n \in DOMAIN s : n < bad => LinkHolds(s, n)
    \/ /\ \A n \in DOMAIN s : HashHolds(s[n]) /\ LinkHolds(s, n)
       /\ bad \in DOMAIN s /\ ~InTime(k, s[bad]) /\ status = "time_suspect"
       /\ \A n \in DOMAIN s : n < bad => InTime(k, s[n])
    \/ /\ \A n \in DOMAIN s : HashHolds(s[n]) /\ LinkHolds(s, n) /\ InTime(k, s[n])
       /\ bad = 0 /\ status = Standing(k, s)

\* What a port found of stream k, held against what was said of it.
AgreedOn(k, found, said) ==
    /\ found.stream = said.stream
    /\ \/ ReadAlike(anchors[k])
       \/ found.status \in Breaks
       \/ said.status \in Breaks
       => found = said

LEMMA FoundFields ==
    ASSUME NEW stream, NEW strength, NEW status, NEW bad
    PROVE  /\ Found(stream, strength, status, bad).stream = stream
           /\ Found(stream, strength, status, bad).status = status
BY DEF Found

\* Anchors of the forms all engines read alike give them the same times.
LEMMA SameTimes ==
    ASSUME NEW k, ReadAlike(anchors[k])
    PROVE  /\ TimesRead(anchors[k], TypeScriptReads) = AnchorTimes(k)
           /\ TimesRead(anchors[k], JavaReads) = AnchorTimes(k)
<1>1. \A a \in anchors[k] : /\ a.form \in TypeScriptReads <=> a.form = "offset"
                            /\ a.form \in JavaReads <=> a.form = "offset"
                            /\ a.form \in {"offset", "basic"} <=> a.form = "offset"
  BY DEF ReadAlike, TypeScriptReads, JavaReads
<1> QED
  BY <1>1 DEF TimesRead, AnchorTimes

LEMMA FinitelyManyRead ==
    ASSUME NEW listed \in SUBSET Anchor, IsFiniteSet(listed), NEW forms
    PROVE  IsFiniteSet(TimesRead(listed, forms))
<1> DEFINE read == {a \in listed : a.form \in forms}
           time == [a \in read |-> a.time]
           times == {time[a] : a \in read}
<1>1. IsFiniteSet(read)
  BY FS_Subset
<1>2. time \in Surjection(read, times)
  BY DEF Surjection
<1>3. IsFiniteSet(times)
  <2> HIDE DEF time, read, times
  <2> QED
    BY <1>1, <1>2, FS_Surjection
<1>4. times = TimesRead(listed, forms)
  BY DEF TimesRead
<1> QED
  BY <1>3, <1>4

LEMMA SameStrength ==
    ASSUME NEW s \in Seq(Event)
    PROVE  TypeScriptStrength(s) = StrengthOf(s) /\ JavaStrength(s) = StrengthOf(s)
<1> DEFINE blocks == {n \in DOMAIN s : HasBlock(s[n])}
<1>1. CASE blocks = {}
  BY <1>1 DEF StrengthOf, TypeScriptStrength, JavaStrength, FirstOf
<1>2. CASE blocks # {}
  <2>1. blocks \in SUBSET Nat /\ 0 \notin blocks
    OBVIOUS
  <2>2. Min(blocks) \in blocks /\ \A n \in blocks : Min(blocks) <= n
    <3> HIDE DEF blocks
    <3> QED
      BY <1>2, <2>1, MinIsElement
  <2>3. TypeScriptStrength(s) = StrengthOf(s)
    <3>1. FirstOf(blocks) = Min(blocks) /\ FirstOf(blocks) # 0
      <4> HIDE DEF blocks
      <4> QED
        BY <1>2, <2>1, <2>2 DEF FirstOf
    <3> QED
      BY <1>2, <3>1 DEF StrengthOf, TypeScriptStrength
  <2> DEFINE IsFirst(n) == HasBlock(s[n]) /\ \A m \in 1 .. (n - 1) : ~HasBlock(s[m])
  <2>4. IsFirst(Min(blocks)) /\ Min(blocks) \in DOMAIN s
    <3>1. \A m \in 1 .. (Min(blocks) - 1) : m \in DOMAIN s /\ ~(Min(blocks) <= m)
      BY <2>1, <2>2
    <3> QED
      BY <2>2, <3>1
  <2>5. \A n \in DOMAIN s : IsFirst(n) => n = Min(blocks)
    <3> SUFFICES ASSUME NEW n \in DOMAIN s, IsFirst(n) PROVE n = Min(blocks)
      OBVIOUS
    <3>1. n \in blocks /\ Min(blocks) <= n /\ n \in Nat /\ Min(blocks) \in Nat \ {0}
      BY <2>1, <2>2
    <3>2. ~(Min(blocks) < n)
      <4> SUFFICES ASSUME Min(blocks) < n PROVE FALSE
        OBVIOUS
      <4>1. Min(blocks) \in 1 .. (n - 1)
        BY <3>1
      <4> QED
        BY <2>2, <4>1
    <3> QED
      BY <3>1, <3>2
  <2>6. JavaStrength(s) = s[Min(blocks)].strength
    <3>1. JavaStrength(s) = s[CHOOSE n \in DOMAIN s : IsFirst(n)].strength
      BY <1>2 DEF JavaStrength
    <3> HIDE DEF IsFirst, blocks
    <3> QED
      BY <2>4, <2>5, <3>1
  <2> QED
    BY <1>2, <2>3, <2>6 DEF StrengthOf
<1> QED
  BY <1>1, <1>2

\* verifyStream of integrity.ts.
LEMMA TypeScriptFinds ==
    ASSUME NEW k \in Keys, NEW s \in Seq(Event), NEW status, NEW bad,
           CameTo(k, s, status, bad), anchors[k] \subseteq Anchor
    PROVE  AgreedOn(k, TypeScriptVerify(k, s, anchors[k]),
                       Found(k, StrengthOf(s), status, bad))
<1> DEFINE times == TimesRead(anchors[k], TypeScriptReads)
           found == TypeScriptVerify(k, s, anchors[k])
           said == Found(k, StrengthOf(s), status, bad)
           Tampered(n) == s[n].stream = NoStream \/ s[n].hash # Hash(s[n])
           Unlinked(n) == s[n].prev # IF n = 1 THEN Genesis ELSE s[n - 1].hash
           Late(n) == times # {} /\ \A t \in times : s[n].time > t
<1>1. \A n \in DOMAIN s : s[n] \in Event /\ s[n].time \in Nat
  BY ElementOf, EventFacts
<1>2. \A n \in DOMAIN s : /\ Tampered(n) <=> ~HashHolds(s[n])
                          /\ Unlinked(n) <=> ~LinkHolds(s, n)
  BY DEF HashHolds, HasBlock, LinkHolds
<1>3. ASSUME ReadAlike(anchors[k])
      PROVE  \A n \in DOMAIN s : Late(n) <=> ~InTime(k, s[n])
  <2>1. times \subseteq Nat
    BY ReadTimes
  <2>2. times = AnchorTimes(k)
    BY <1>3, SameTimes
  <2> QED
    BY <1>1, <2>1, <2>2 DEF InTime
<1>4. \A n \in DOMAIN s : TypeScriptBreak(s, n) = BreakKind(s, n)
  BY DEF TypeScriptBreak, BreakKind
<1>5. FirstOf({}) = 0
  BY DEF FirstOf
<1>6. /\ TypeScriptTampered(s) = FirstOf({n \in DOMAIN s : Tampered(n)})
      /\ TypeScriptUnlinked(s) = FirstOf({n \in DOMAIN s : Unlinked(n)})
      /\ TypeScriptLate(s, times) = FirstOf({n \in DOMAIN s : Late(n)})
  BY DEF TypeScriptTampered, TypeScriptUnlinked, TypeScriptLate
<1> HIDE DEF Tampered, Unlinked, Late
<1>7. ASSUME \A n \in DOMAIN s : HashHolds(s[n])
      PROVE  TypeScriptTampered(s) = 0
  <2>1. {n \in DOMAIN s : Tampered(n)} = {}
    BY <1>2, <1>7
  <2> QED
    BY <1>5, <1>6, <2>1
<1>8. ASSUME \A n \in DOMAIN s : LinkHolds(s, n)
      PROVE  TypeScriptUnlinked(s) = 0
  <2>1. {n \in DOMAIN s : Unlinked(n)} = {}
    BY <1>2, <1>8
  <2> QED
    BY <1>5, <1>6, <2>1
<1>9. CASE /\ bad \in DOMAIN s /\ ~HashHolds(s[bad]) /\ status = "failed"
           /\ \A n \in DOMAIN s : n < bad => HashHolds(s[n])
  <2>1. TypeScriptTampered(s) = bad /\ bad # 0
    BY <1>2, <1>6, <1>9, FirstIsFound
  <2>2. found = said
    BY <1>9, <2>1, SameStrength DEF TypeScriptVerify
  <2> QED
    BY <2>2 DEF AgreedOn
<1>10. CASE /\ \A n \in DOMAIN s : HashHolds(s[n])
            /\ bad \in DOMAIN s /\ ~LinkHolds(s, bad) /\ status = BreakKind(s, bad)
            /\ \A n \in DOMAIN s : n < bad => LinkHolds(s, n)
  <2>1. TypeScriptUnlinked(s) = bad /\ bad # 0
    BY <1>2, <1>6, <1>10, FirstIsFound
  <2>2. found = said
    BY <1>4, <1>7, <1>10, <2>1, SameStrength DEF TypeScriptVerify
  <2> QED
    BY <2>2 DEF AgreedOn
\* Where the hashes and the links hold, the anchors decide.
<1>11. ASSUME \A n \in DOMAIN s : HashHolds(s[n]) /\ LinkHolds(s, n)
       PROVE  /\ TypeScriptLate(s, times) # 0 =>
                     found = Found(k, StrengthOf(s), "time_suspect", TypeScriptLate(s, times))
              /\ TypeScriptLate(s, times) = 0 =>
                     found = Found(k, StrengthOf(s), Standing(k, s), 0)
  <2>1. TypeScriptTampered(s) = 0 /\ TypeScriptUnlinked(s) = 0
    BY <1>7, <1>8, <1>11
  <2>2. \A n \in DOMAIN s : TypeScriptSigned(s[n]) <=> s[n].sig
    BY <1>11 DEF TypeScriptSigned, HashHolds, HasBlock
  <2>3. TypeScriptStanding(StrengthOf(s), s, anchors[k]) = Standing(k, s)
    BY <2>2 DEF TypeScriptStanding, Standing
  <2> QED
    BY <2>1, <2>3, SameStrength DEF TypeScriptVerify
<1>12. CASE /\ \A n \in DOMAIN s : HashHolds(s[n]) /\ LinkHolds(s, n)
            /\ status \notin Breaks /\ ~ReadAlike(anchors[k])
  <2>1. found.stream = k /\ found.status \notin Breaks
    BY <1>11, <1>12, FoundFields DEF Breaks, Standing
  <2> QED
    BY <1>12, <2>1, FoundFields DEF AgreedOn
<1>13. CASE /\ \A n \in DOMAIN s : HashHolds(s[n]) /\ LinkHolds(s, n)
            /\ bad \in DOMAIN s /\ ~InTime(k, s[bad]) /\ status = "time_suspect"
            /\ \A n \in DOMAIN s : n < bad => InTime(k, s[n])
            /\ ReadAlike(anchors[k])
  <2>1. TypeScriptLate(s, times) = bad /\ bad # 0
    BY <1>3, <1>6, <1>13, FirstIsFound
  <2> QED
    BY <1>11, <1>13, <2>1 DEF AgreedOn
<1>14. CASE /\ \A n \in DOMAIN s : HashHolds(s[n]) /\ LinkHolds(s, n) /\ InTime(k, s[n])
            /\ bad = 0 /\ status = Standing(k, s)
            /\ ReadAlike(anchors[k])
  <2>1. {n \in DOMAIN s : Late(n)} = {}
    BY <1>3, <1>14
  <2>2. TypeScriptLate(s, times) = 0
    BY <1>5, <1>6, <2>1
  <2> QED
    BY <1>11, <1>14, <2>2 DEF AgreedOn
<1>15. Standing(k, s) \notin Breaks /\ "time_suspect" \notin Breaks
  BY DEF Standing, Breaks
<1> QED
  BY <1>9, <1>10, <1>12, <1>13, <1>14, <1>15 DEF CameTo

\* The latest of a stream's anchors, of which there are finitely many: were
\* none the latest, then of the sets of those after each, none were smallest.
LEMMA LatestAnchor ==
    ASSUME NEW times \in SUBSET Nat, IsFiniteSet(times), times # {}
    PROVE  Max(times) \in times /\ \A t \in times : t <= Max(times)
<1> DEFINE After(t) == {u \in times : u > t}
           T == {After(t) : t \in times}
           R == StrictSubsetOrdering(times)
<1>1. \A t \in times : IsFiniteSet(After(t))
  BY FS_Subset
<1>2. T \subseteq FiniteSubsetsOf(times) /\ T # {}
  BY <1>1 DEF FiniteSubsetsOf
<1>3. PICK A \in T : \A B \in T : ~(<<B, A>> \in R)
  <2>1. IsWellFoundedOn(R, FiniteSubsetsOf(times))
    BY FS_StrictSubsetOrderingWellFounded
  <2> HIDE DEF R, T
  <2> QED
    BY <1>2, <2>1, WFMin
<1>4. PICK m \in times : A = After(m)
  OBVIOUS
<1>5. ASSUME NEW u \in times, u > m PROVE FALSE
  <2>1. After(u) \subseteq A /\ u \in A /\ u \notin After(u)
    <3>1. \A z \in times : z > u => z > m
      BY <1>5
    <3>2. A = {z \in times : z > m}
      BY <1>4
    <3>3. ~(u > u)
      OBVIOUS
    <3> HIDE DEF R, T
    <3> QED
      BY <1>5, <3>1, <3>2, <3>3
  <2>2. A \subseteq times /\ After(u) \subseteq times /\ After(u) \in T
    BY <1>4
  <2>3. <<After(u), A>> \in R
    BY <2>1, <2>2 DEF StrictSubsetOrdering
  <2> QED
    BY <1>3, <2>2, <2>3
<1>6. \A u \in times : u <= m
  BY <1>5
<1> QED
  <2> HIDE DEF T, R, After
  <2> QED
    BY <1>6 DEF Max

\* What the passes of Integrity.java find, where the first pass of them that
\* finds anything is p, and b the first event it finds.
LEMMA JavaFindsFirst ==
    ASSUME NEW k, NEW s \in Seq(Event), NEW listed, NEW times,
           times = TimesRead(listed, JavaReads),
           NEW p \in 1 .. 3, NEW b \in DOMAIN s, NEW status \in Statuses,
           [pass |-> p, at |-> b, status |-> status] \in JavaFindings(s, times),
           \A f \in JavaFindings(s, times) :
               /\ p <= f.pass
               /\ f.pass = p => b <= f.at
    PROVE  JavaVerify(k, s, listed) = Found(k, JavaStrength(s), status, b)
<1> DEFINE findings == JavaFindings(s, times)
           found == [pass |-> p, at |-> b, status |-> status]
           First(f) == \A g \in findings : f.pass < g.pass \/ (f.pass = g.pass /\ f.at <= g.at)
<1>1. \A f \in findings : /\ f = [pass |-> f.pass, at |-> f.at, status |-> f.status]
                          /\ f.pass \in 1 .. 3 /\ f.at \in DOMAIN s
  BY DEF JavaFindings
<1>2. \A f \in findings : /\ f.pass = p => b <= f.at
                          /\ p <= f.pass
  OBVIOUS
<1>3. \A f, g \in findings : f.pass = g.pass /\ f.at = g.at => f.status = g.status
  BY DEF JavaFindings
<1>4. found \in findings /\ found.pass = p /\ found.at = b /\ found.status = status
  OBVIOUS
<1>5. First(found)
  BY <1>1, <1>2, <1>4
<1>6. ASSUME NEW f \in findings, First(f) PROVE f = found
  <2>1. f.pass < p \/ (f.pass = p /\ f.at <= b)
    BY <1>4, <1>6
  <2>2. p <= f.pass /\ f.pass \in 1 .. 3
    BY <1>1, <1>2
  <2>3. f.pass = p
    BY <2>1, <2>2
  <2>4. b <= f.at /\ f.at <= b /\ f.at \in DOMAIN s
    BY <1>1, <1>2, <2>1, <2>3
  <2>5. f.at = b
    BY <2>4
  <2> QED
    BY <1>1, <1>3, <1>4, <2>3, <2>5
<1>7. JavaVerify(k, s, listed) =
          IF findings = {} THEN Found(k, JavaStrength(s), JavaStanding(JavaStrength(s), s, listed), 0)
          ELSE Found(k, JavaStrength(s), (CHOOSE f \in findings : First(f)).status,
                     (CHOOSE f \in findings : First(f)).at)
  BY DEF JavaVerify
<1>8. (CHOOSE f \in findings : First(f)) = found
  <2> HIDE DEF findings, First, found
  <2> QED
    BY <1>4, <1>5, <1>6
<1> QED
  <2> HIDE DEF findings, First, found
  <2> QED
    BY <1>4, <1>7, <1>8

\* verifyStream of Integrity.java.
LEMMA JavaFinds ==
    ASSUME NEW k \in Keys, NEW s \in Seq(Event), NEW status, NEW bad,
           CameTo(k, s, status, bad), anchors[k] \subseteq Anchor, IsFiniteSet(anchors[k])
    PROVE  AgreedOn(k, JavaVerify(k, s, anchors[k]), Found(k, StrengthOf(s), status, bad))
<1> DEFINE times == TimesRead(anchors[k], JavaReads)
           found == JavaVerify(k, s, anchors[k])
           said == Found(k, StrengthOf(s), status, bad)
           content == ""
           says == [p \in 1 .. 3 |-> [n \in DOMAIN s |->
                       CASE p = 1 -> JavaTamper(s, n)
                         [] p = 2 -> JavaLink(s, n)
                         [] p = 3 -> JavaInTime(s, times, n)]]
<1>1. \A n \in DOMAIN s : s[n] \in Event /\ s[n].time \in Nat
  BY ElementOf, EventFacts
<1>2. \A n \in DOMAIN s : JavaTamper(s, n) = IF HashHolds(s[n]) THEN "" ELSE "failed"
  BY DEF JavaTamper, HashHolds
<1>3. \A n \in DOMAIN s : JavaLink(s, n) = IF LinkHolds(s, n) THEN "" ELSE BreakKind(s, n)
  BY DEF JavaLink, LinkHolds, BreakKind
<1>4. ASSUME NEW n \in DOMAIN s, ReadAlike(anchors[k])
      PROVE  JavaInTime(s, times, n) = IF InTime(k, s[n]) THEN "" ELSE "time_suspect"
  <2>0. times = AnchorTimes(k)
    BY <1>4, SameTimes
  <2>1. CASE times = {}
    BY <2>0, <2>1 DEF JavaInTime, InTime
  <2>2. CASE times # {}
    <3>1. times \subseteq Nat /\ IsFiniteSet(times)
      BY ReadTimes, FinitelyManyRead
    <3>2. Max(times) \in times /\ \A t \in times : t <= Max(times)
      BY <2>2, <3>1, LatestAnchor
    <3>3. s[n].time > Max(times) <=> ~ \E a \in times : s[n].time <= a
      BY <1>1, <3>1, <3>2
    <3> QED
      BY <2>0, <2>2, <3>3 DEF JavaInTime, InTime
  <2> QED
    BY <2>1, <2>2
<1>5. \A n \in DOMAIN s : BreakKind(s, n) \in Statuses
  BY DEF BreakKind, Statuses
<1>6. content \notin Statuses /\ "failed" \in Statuses /\ "time_suspect" \in Statuses
  BY DEF Statuses, Unbroken
<1>7. \A p \in 1 .. 3, n \in DOMAIN s, st \in Statuses :
          [pass |-> p, at |-> n, status |-> st] \in JavaFindings(s, times) <=> st = says[p][n]
  BY DEF JavaFindings
<1>8. \A f \in JavaFindings(s, times) :
          f.pass \in 1 .. 3 /\ f.at \in DOMAIN s /\ says[f.pass][f.at] # content
  BY <1>6 DEF JavaFindings
<1>9. \A n \in DOMAIN s :
          /\ says[1][n] = IF HashHolds(s[n]) THEN content ELSE "failed"
          /\ says[2][n] = IF LinkHolds(s, n) THEN content ELSE BreakKind(s, n)
          /\ says[3][n] \in {content, "time_suspect"}
          /\ ReadAlike(anchors[k]) =>
                 says[3][n] = IF InTime(k, s[n]) THEN content ELSE "time_suspect"
  <2>1. \A n \in DOMAIN s : JavaInTime(s, times, n) \in {"", "time_suspect"}
    BY DEF JavaInTime
  <2> SUFFICES ASSUME NEW n \in DOMAIN s
               PROVE  /\ says[1][n] = JavaTamper(s, n)
                      /\ says[2][n] = JavaLink(s, n)
                      /\ says[3][n] = JavaInTime(s, times, n)
    BY <1>2, <1>3, <1>4, <2>1
  <2> QED
    OBVIOUS
<1> HIDE DEF says, content, times
<1>10. ASSUME NEW p \in 1 .. 3, NEW b \in DOMAIN s, says[p][b] \in Statuses,
              \A q \in 1 .. (p - 1), n \in DOMAIN s : says[q][n] = content,
              \A n \in DOMAIN s : n < b => says[p][n] = content
       PROVE  found = Found(k, StrengthOf(s), says[p][b], b)
  <2>1. ASSUME NEW f \in JavaFindings(s, times)
        PROVE  p <= f.pass /\ (f.pass = p => b <= f.at)
    <3>1. f.pass \in 1 .. 3 /\ f.at \in DOMAIN s /\ says[f.pass][f.at] # content
      BY <1>8
    <3>2. p <= f.pass
      <4> SUFFICES ASSUME f.pass < p PROVE FALSE
        BY <3>1
      <4>1. f.pass \in 1 .. (p - 1)
        BY <3>1
      <4> QED
        BY <1>10, <3>1, <4>1
    <3>3. ASSUME f.pass = p PROVE b <= f.at
      BY <1>10, <3>1, <3>3
    <3> QED
      BY <3>2, <3>3
  <2>2. [pass |-> p, at |-> b, status |-> says[p][b]] \in JavaFindings(s, times)
    BY <1>7, <1>10
  <2> QED
    BY <1>10, <2>1, <2>2, JavaFindsFirst, SameStrength DEF times
<1>11. CASE /\ bad \in DOMAIN s /\ ~HashHolds(s[bad]) /\ status = "failed"
            /\ \A n \in DOMAIN s : n < bad => HashHolds(s[n])
  <2>1. says[1][bad] = "failed" /\ \A n \in DOMAIN s : n < bad => says[1][n] = content
    BY <1>9, <1>11
  <2>2. \A q \in 1 .. (1 - 1), n \in DOMAIN s : says[q][n] = content
    OBVIOUS
  <2>3. found = said
    BY <1>6, <1>10, <1>11, <2>1, <2>2
  <2> QED
    BY <2>3 DEF AgreedOn
<1>12. CASE /\ \A n \in DOMAIN s : HashHolds(s[n])
            /\ bad \in DOMAIN s /\ ~LinkHolds(s, bad) /\ status = BreakKind(s, bad)
            /\ \A n \in DOMAIN s : n < bad => LinkHolds(s, n)
  <2>1. says[2][bad] = status /\ \A n \in DOMAIN s : n < bad => says[2][n] = content
    BY <1>9, <1>12
  <2>2. \A n \in DOMAIN s : says[1][n] = content
    BY <1>9, <1>12
  <2>3. \A q \in 1 .. (2 - 1), n \in DOMAIN s : says[q][n] = content
    BY <2>2
  <2>4. found = said
    BY <1>5, <1>10, <1>12, <2>1, <2>3
  <2> QED
    BY <2>4 DEF AgreedOn
\* Where the hashes and the links hold, the anchors decide.
<1>13. ASSUME \A n \in DOMAIN s : HashHolds(s[n]) /\ LinkHolds(s, n)
       PROVE  /\ \A b \in DOMAIN s :
                     says[3][b] = "time_suspect" /\ (\A n \in DOMAIN s : n < b => says[3][n] = content)
                     => found = Found(k, StrengthOf(s), "time_suspect", b)
              /\ (\A n \in DOMAIN s : says[3][n] = content) =>
                     found = Found(k, StrengthOf(s), Standing(k, s), 0)
  <2>1. \A n \in DOMAIN s : says[1][n] = content /\ says[2][n] = content
    BY <1>9, <1>13
  <2>2. \A q \in 1 .. (3 - 1), n \in DOMAIN s : says[q][n] = content
    <3>1. \A q \in 1 .. (3 - 1) : q = 1 \/ q = 2
      OBVIOUS
    <3> QED
      BY <2>1, <3>1
  <2>3. ASSUME NEW b \in DOMAIN s, says[3][b] = "time_suspect",
               \A n \in DOMAIN s : n < b => says[3][n] = content
        PROVE  found = Found(k, StrengthOf(s), "time_suspect", b)
    BY <1>6, <1>10, <2>2, <2>3
  <2>4. ASSUME \A n \in DOMAIN s : says[3][n] = content
        PROVE  found = Found(k, StrengthOf(s), Standing(k, s), 0)
    <3>1. JavaFindings(s, times) = {}
      <4> SUFFICES ASSUME NEW f \in JavaFindings(s, times) PROVE FALSE
        OBVIOUS
      <4>1. f.at \in DOMAIN s /\ says[f.pass][f.at] # content
            /\ (f.pass = 1 \/ f.pass = 2 \/ f.pass = 3)
        BY <1>8
      <4> QED
        BY <2>1, <2>4, <4>1
    <3>2. {n \in DOMAIN s : ~JavaSigned(s[n])} = {} <=> \A n \in DOMAIN s : s[n].sig
      BY <1>13 DEF JavaSigned, HashHolds
    <3>3. JavaStanding(StrengthOf(s), s, anchors[k]) = Standing(k, s)
      BY <3>2 DEF JavaStanding, Standing
    <3> QED
      BY <3>1, <3>3, SameStrength DEF JavaVerify, times
  <2> QED
    BY <2>3, <2>4
<1>14. CASE /\ \A n \in DOMAIN s : HashHolds(s[n]) /\ LinkHolds(s, n)
            /\ status \notin Breaks /\ ~ReadAlike(anchors[k])
  <2> DEFINE late == {n \in DOMAIN s : says[3][n] # content}
  <2>1. CASE late = {}
    <3>1. found = Found(k, StrengthOf(s), Standing(k, s), 0)
      BY <1>13, <1>14, <2>1
    <3>2. found.stream = k /\ found.status \notin Breaks
      BY <3>1, FoundFields DEF Standing, Breaks
    <3> QED
      BY <1>14, <3>2, FoundFields DEF AgreedOn
  <2>2. CASE late # {}
    <3>1. late \in SUBSET Nat
      OBVIOUS
    <3>2. Min(late) \in late /\ \A n \in late : Min(late) <= n
      <4> HIDE DEF late
      <4> QED
        BY <2>2, <3>1, MinIsElement
    <3>3. Min(late) \in DOMAIN s /\ says[3][Min(late)] = "time_suspect"
      BY <1>9, <3>2
    <3>4. \A n \in DOMAIN s : n < Min(late) => says[3][n] = content
      <4>1. \A n \in DOMAIN s : n < Min(late) => ~(Min(late) <= n)
        BY <3>3
      <4> QED
        BY <3>2, <4>1
    <3>5. found = Found(k, StrengthOf(s), "time_suspect", Min(late))
      BY <1>13, <1>14, <3>3, <3>4
    <3>6. found.stream = k /\ found.status \notin Breaks
      BY <3>5, FoundFields DEF Breaks
    <3> QED
      BY <1>14, <3>6, FoundFields DEF AgreedOn
  <2> QED
    BY <2>1, <2>2
<1>15. CASE /\ \A n \in DOMAIN s : HashHolds(s[n]) /\ LinkHolds(s, n)
            /\ bad \in DOMAIN s /\ ~InTime(k, s[bad]) /\ status = "time_suspect"
            /\ \A n \in DOMAIN s : n < bad => InTime(k, s[n])
            /\ ReadAlike(anchors[k])
  <2>1. says[3][bad] = "time_suspect" /\ \A n \in DOMAIN s : n < bad => says[3][n] = content
    BY <1>9, <1>15
  <2> QED
    BY <1>13, <1>15, <2>1 DEF AgreedOn
<1>16. CASE /\ \A n \in DOMAIN s : HashHolds(s[n]) /\ LinkHolds(s, n) /\ InTime(k, s[n])
            /\ bad = 0 /\ status = Standing(k, s)
            /\ ReadAlike(anchors[k])
  <2>1. \A n \in DOMAIN s : says[3][n] = content
    BY <1>9, <1>16
  <2> QED
    BY <1>13, <1>16, <2>1 DEF AgreedOn
<1>17. Standing(k, s) \notin Breaks /\ "time_suspect" \notin Breaks
  BY DEF Standing, Breaks
<1> QED
  BY <1>11, <1>12, <1>14, <1>15, <1>16, <1>17 DEF CameTo

\* How far verify_bundle has come, and what its passes over the present stream
\* have found in order (Passing says it of the hashes).
Progress ==
    /\ next \in 1 .. (Len(KeyOrder) + 1)
    /\ phase \in {"writing", "carrying", "ingesting"} => next = 1
    /\ phase = "done" => next > Len(KeyOrder)
    /\ pass = "chain" => \A n \in DOMAIN Stream : n < i => LinkHolds(Stream, n)
    /\ pass = "time" =>
          /\ \A n \in DOMAIN Stream : LinkHolds(Stream, n)
          /\ \A n \in DOMAIN Stream : n < i => InTime(Key, Stream[n])

\* What a step leaves of the streams judged: as many, or one more, which is
\* empty or of which the result its passes come to is drawn; or, after an
\* error, none.
NoneMore == UNCHANGED <<next, results>> /\ (next = 1 \/ UNCHANGED grouped)
EmptyMore ==
    /\ UNCHANGED <<results, grouped>>
    /\ next <= Len(KeyOrder) /\ Stream = <<>> /\ next' = next + 1
OneMore ==
    /\ UNCHANGED grouped
    /\ next <= Len(KeyOrder) /\ Stream # <<>>
    /\ \E status, bad : Conclude(status, bad) /\ CameTo(Key, Stream, status, bad)

NoneLeft == results' = <<>> /\ next' = 1

LEMMA StreamStep ==
    ASSUME TypeOK, InTurn, Passing, Progress, [Next]_vars
    PROVE  /\ Progress' /\ UNCHANGED anchors
           /\ NoneMore \/ EmptyMore \/ OneMore \/ NoneLeft
<1>0. Len(KeyOrder) \in Nat /\ next \in Nat /\ i \in Nat \ {0}
  BY IntegrityAssumption DEF TypeOK
<1>1. CASE Way
  <2>1. UNCHANGED <<phase, ingest, judging>> /\ phase \in {"writing", "carrying"}
    BY <1>1, WayKeeps
  <2>2. UNCHANGED anchors
    BY <1>1 DEF Way, Emit, Restart, Repeat, Lose, Swap, Alter, Strip, LoseAttestation,
       Change, During
  <2> QED
    BY <2>1, <2>2 DEF ingest, judging, Progress, NoneMore, Stream, Key, InTime, AnchorTimes
<1>2. CASE Carry \/ BeginIngest \/ BeginVerify \/ UNCHANGED vars
  BY <1>2 DEF Carry, BeginIngest, BeginVerify, vars, sources, bundle, ingest, judging,
     Progress, NoneMore, Stream, Key, InTime, AnchorTimes
<1>3. CASE ReadLine
  BY <1>3 DEF ReadLine, bundle, judging, InTurn, Progress, NoneMore
<1>4. CASE Finish
  <2>1. pass = "select" /\ UNCHANGED <<pass, next, results, grouped, anchors>>
    BY <1>0, <1>4 DEF Finish, Passing, judging, ingest, bundle
  <2> QED
    BY <1>4, <2>1 DEF Finish, Progress, NoneMore
<1>5. ASSUME Verifying
      PROVE  /\ phase = "verifying" /\ next <= Len(KeyOrder)
             /\ UNCHANGED <<phase, grouped, anchors>>
             /\ Stream \in Seq(Event) /\ DOMAIN Stream = 1 .. Len(Stream)
             /\ Len(Stream) \in Nat
  BY <1>5, KeyIsKey DEF Verifying, sources, bundle, ingest
<1>6. ASSUME Verifying, UNCHANGED next
      PROVE  UNCHANGED <<Key, Stream>> /\ (UNCHANGED results => NoneMore)
  BY <1>5, <1>6 DEF Key, Stream, NoneMore
<1>7. CASE SelectStream
  <2>1. Verifying /\ pass = "select"
    BY <1>7 DEF SelectStream
  <2>2. CASE Stream = <<>>
    <3>1. next' = next + 1 /\ UNCHANGED <<pass, results>>
      BY <1>7, <2>2 DEF SelectStream
    <3>2. next + 1 \in 1 .. (Len(KeyOrder) + 1)
      BY <1>0, <1>5, <2>1
    <3> QED
      BY <1>5, <2>1, <2>2, <3>1, <3>2 DEF Progress, EmptyMore
  <2>3. CASE Stream # <<>>
    <3>1. pass' = "tamper" /\ UNCHANGED <<next, results>>
      BY <1>7, <2>3 DEF SelectStream, TurnTo
    <3> QED
      BY <1>5, <1>6, <2>1, <3>1 DEF Progress
  <2> QED
    BY <2>2, <2>3
\* A pass ends with the stream's result.
<1>8. ASSUME Verifying, NEW status, NEW bad, Conclude(status, bad), Stream # <<>>,
             CameTo(Key, Stream, status, bad)
      PROVE  Progress' /\ UNCHANGED anchors /\ OneMore
  <2>1. next' \in 1 .. (Len(KeyOrder) + 1) /\ pass' = "select"
    BY <1>0, <1>5, <1>8 DEF Conclude
  <2> QED
    BY <1>5, <1>8, <2>1 DEF Progress, OneMore
<1>9. CASE CheckHash
  <2>1. Verifying /\ pass = "tamper" /\ i <= Len(Stream)
    BY <1>9 DEF CheckHash, Check
  <2>2. i \in DOMAIN Stream /\ Stream # <<>>
    BY <1>0, <1>5, <2>1
  <2>3. CASE HashHolds(Stream[i])
    <3>1. UNCHANGED <<next, pass, results>>
      BY <1>9, <2>3 DEF CheckHash, Check, Advance
    <3> QED
      BY <1>5, <1>6, <2>1, <3>1 DEF Progress
  <2>4. CASE ~HashHolds(Stream[i])
    <3>1. Conclude("failed", i)
      BY <1>9, <2>4 DEF CheckHash, Check
    <3>2. CameTo(Key, Stream, "failed", i)
      BY <2>1, <2>2, <2>4 DEF Passing, CameTo
    <3> QED
      BY <1>8, <2>1, <2>2, <3>1, <3>2
  <2> QED
    BY <2>3, <2>4
<1>10. CASE HashesHold
  <2>1. Verifying /\ pass' = "chain" /\ i' = 1 /\ UNCHANGED <<next, results>>
    BY <1>10 DEF HashesHold, EndPass, TurnTo
  <2>2. \A n \in DOMAIN Stream : ~(n < 1)
    BY <1>5, <2>1
  <2>3. (\A n \in DOMAIN Stream : n < i => LinkHolds(Stream, n))'
    BY <1>6, <2>1, <2>2
  <2> QED
    BY <1>5, <1>6, <2>1, <2>3 DEF Progress
<1>11. CASE CheckLink
  <2>1. Verifying /\ pass = "chain" /\ i <= Len(Stream)
    BY <1>11 DEF CheckLink, Check
  <2>2. i \in DOMAIN Stream /\ Stream # <<>>
    BY <1>0, <1>5, <2>1
  <2>3. CASE LinkHolds(Stream, i)
    <3>1. UNCHANGED <<next, pass, results>> /\ i' = i + 1
      BY <1>11, <2>3 DEF CheckLink, Check, Advance
    <3>2. \A n \in DOMAIN Stream : n < i + 1 => n < i \/ n = i
      BY <1>0, <1>5, <2>1
    <3>3. \A n \in DOMAIN Stream : n < i + 1 => LinkHolds(Stream, n)
      BY <2>1, <2>3, <3>2 DEF Progress
    <3>4. (\A n \in DOMAIN Stream : n < i => LinkHolds(Stream, n))'
      BY <1>6, <2>1, <3>1, <3>3
    <3> QED
      BY <1>5, <1>6, <2>1, <3>1, <3>4 DEF Progress
  <2>4. CASE ~LinkHolds(Stream, i)
    <3>1. Conclude(BreakKind(Stream, i), i)
      BY <1>11, <2>4 DEF CheckLink, Check
    <3>2. CameTo(Key, Stream, BreakKind(Stream, i), i)
      BY <2>1, <2>2, <2>4 DEF Passing, Progress, CameTo
    <3> QED
      BY <1>8, <2>1, <2>2, <3>1, <3>2
  <2> QED
    BY <2>3, <2>4
<1>12. CASE LinksHold
  <2>1. Verifying /\ pass = "chain" /\ pass' = "time" /\ i' = 1 /\ i > Len(Stream)
        /\ UNCHANGED <<next, results>>
    BY <1>12 DEF LinksHold, EndPass, TurnTo
  <2>2. \A n \in DOMAIN Stream : ~(n < 1) /\ n < i
    BY <1>0, <1>5, <2>1
  <2>3. \A n \in DOMAIN Stream : LinkHolds(Stream, n)
    BY <2>1, <2>2 DEF Progress
  <2>4. (\A n \in DOMAIN Stream : LinkHolds(Stream, n))'
    BY <1>6, <2>1, <2>3
  <2>5. (\A n \in DOMAIN Stream : n < i => InTime(Key, Stream[n]))'
    BY <1>6, <2>1, <2>2
  <2> QED
    BY <1>5, <1>6, <2>1, <2>4, <2>5 DEF Progress
<1>13. CASE CheckTime
  <2>1. Verifying /\ pass = "time" /\ i <= Len(Stream)
    BY <1>13 DEF CheckTime, Check
  <2>2. i \in DOMAIN Stream /\ Stream # <<>>
    BY <1>0, <1>5, <2>1
  <2>3. CASE InTime(Key, Stream[i])
    <3>1. UNCHANGED <<next, pass, results>> /\ i' = i + 1
      BY <1>13, <2>3 DEF CheckTime, Check, Advance
    <3>2. \A n \in DOMAIN Stream : n < i + 1 => n < i \/ n = i
      BY <1>0, <1>5, <2>1
    <3>3. \A n \in DOMAIN Stream : n < i + 1 => InTime(Key, Stream[n])
      BY <2>1, <2>3, <3>2 DEF Progress
    <3>4. (\A n \in DOMAIN Stream : n < i => InTime(Key, Stream[n]))'
      BY <1>5, <1>6, <2>1, <3>1, <3>3 DEF InTime, AnchorTimes
    <3>5. (\A n \in DOMAIN Stream : LinkHolds(Stream, n))'
      BY <1>6, <2>1, <3>1 DEF Progress
    <3> QED
      BY <1>5, <1>6, <2>1, <3>1, <3>4, <3>5 DEF Progress
  <2>4. CASE ~InTime(Key, Stream[i])
    <3>1. Conclude("time_suspect", i)
      BY <1>13, <2>4 DEF CheckTime, Check
    <3>2. CameTo(Key, Stream, "time_suspect", i)
      BY <2>1, <2>2, <2>4 DEF Passing, Progress, CameTo
    <3> QED
      BY <1>8, <2>1, <2>2, <3>1, <3>2
  <2> QED
    BY <2>3, <2>4
<1>14. CASE TimesHold
  <2>1. Verifying /\ pass = "time" /\ i > Len(Stream) /\ Conclude(Standing(Key, Stream), 0)
    BY <1>14 DEF TimesHold, EndPass
  <2>2. \A n \in DOMAIN Stream : n < i
    BY <1>0, <1>5, <2>1
  <2>3. CameTo(Key, Stream, Standing(Key, Stream), 0)
    BY <2>1, <2>2 DEF Passing, Progress, CameTo
  <2>4. Stream # <<>>
    BY <2>1 DEF Passing
  <2> QED
    BY <1>8, <2>1, <2>3, <2>4
<1>15. CASE Abort
  <2>1. UNCHANGED anchors /\ results' = <<>> /\ next' = 1 /\ pass' = "select" /\ phase' = "aborted"
    BY <1>15 DEF Abort, bundle
  <2> QED
    BY <1>0, <2>1 DEF Progress, NoneLeft
<1> QED
  BY <1>1, <1>2, <1>3, <1>4, <1>7, <1>9, <1>10, <1>11, <1>12, <1>13, <1>14, <1>15
  DEF Next, Engine

\* The results so far and a port's so far, which found makes.
Agreeing(found, rs, qs) ==
    /\ qs \in Seq({found[k] : k \in Keys})
    /\ Len(qs) = Len(rs)
    /\ \A n \in DOMAIN rs : AgreedOn(rs[n].stream, qs[n], rs[n])

PortsSoFar ==
    /\ anchors \in AnchorSets
    /\ Agreeing(TypeScriptFound, results, Judging(grouped, TypeScriptFound)[next - 1])
    /\ Agreeing(JavaFound, results, Judging(grouped, JavaFound)[next - 1])

LEMMA AgreeingAtFirst ==
    ASSUME NEW found
    PROVE  Agreeing(found, <<>>, <<>>)
BY DEF Agreeing

LEMMA AgreeingOnOneMore ==
    ASSUME NEW found, NEW qs, NEW rs, NEW S, rs \in Seq(S), Agreeing(found, rs, qs),
           NEW k \in Keys, NEW r, r.stream = k, AgreedOn(k, found[k], r)
    PROVE  Agreeing(found, Append(rs, r), Append(qs, found[k]))
<1> DEFINE F == {found[l] : l \in Keys}
<1>1. qs \in Seq(F) /\ found[k] \in F /\ Len(qs) = Len(rs)
  BY DEF Agreeing
<1>2. rs \in Seq(S \cup {r})
  OBVIOUS
<1> HIDE DEF F
<1>3. Append(qs, found[k]) \in Seq(F) /\ Len(Append(qs, found[k])) = Len(Append(rs, r))
  BY <1>1, <1>2
<1>4. ASSUME NEW n \in DOMAIN Append(rs, r)
      PROVE  LET s == Append(rs, r) IN AgreedOn(s[n].stream, Append(qs, found[k])[n], s[n])
  <2>1. CASE n \in DOMAIN rs
    <3>1. Append(rs, r)[n] = rs[n] /\ Append(qs, found[k])[n] = qs[n]
      BY <1>1, <1>2, <2>1
    <3> QED
      BY <2>1, <3>1 DEF Agreeing
  <2>2. CASE n \notin DOMAIN rs
    <3>1. Append(rs, r)[n] = r /\ Append(qs, found[k])[n] = found[k]
      BY <1>1, <1>2, <1>4, <2>2
    <3> QED
      BY <3>1
  <2> QED
    BY <2>1, <2>2
<1> QED
  BY <1>3, <1>4 DEF Agreeing, F

LEMMA PortsStep ==
    ASSUME TypeOK, InTurn, Passing, Progress, PortsSoFar, [Next]_vars
    PROVE  PortsSoFar'
<1>0. /\ Progress' /\ UNCHANGED anchors
      /\ NoneMore \/ EmptyMore \/ OneMore \/ NoneLeft
  BY StreamStep
<1>1. next \in Nat \ {0} /\ Len(KeyOrder) \in Nat
  BY IntegrityAssumption DEF TypeOK
\* The invariant of the next state, its operators no longer primed.
<1>2. SUFFICES /\ Agreeing(TypeScriptFound', results', Judging(grouped', TypeScriptFound')[next' - 1])
               /\ Agreeing(JavaFound', results', Judging(grouped', JavaFound')[next' - 1])
  <2>1. anchors' \in AnchorSets
    BY <1>0 DEF PortsSoFar
  <2> QED
    BY <1>0, <2>1 DEF PortsSoFar, Agreeing, AgreedOn, Judging
<1>3. ASSUME UNCHANGED grouped
      PROVE  UNCHANGED <<TypeScriptFound, JavaFound>>
  BY <1>0, <1>3 DEF TypeScriptFound, JavaFound
<1>4. CASE next' = 1 /\ results' = <<>>
  <2>1. next' - 1 = 0
    BY <1>4
  <2> QED
    BY <1>4, <2>1, JudgingOneByOne, AgreeingAtFirst
<1>5. CASE NoneMore
  <2>1. CASE next = 1
    <3>1. results = <<>>
      <4>1. Judging(grouped, TypeScriptFound)[next - 1] = <<>>
        BY <2>1, JudgingOneByOne
      <4> QED
        BY <4>1 DEF PortsSoFar, Agreeing, TypeOK
    <3> QED
      BY <1>4, <1>5, <2>1, <3>1 DEF NoneMore
  <2>2. CASE UNCHANGED grouped
    BY <1>3, <1>5, <2>2 DEF NoneMore, PortsSoFar
  <2> QED
    BY <1>5, <2>1, <2>2 DEF NoneMore
<1>6. ASSUME next <= Len(KeyOrder), next' = next + 1
      PROVE  next' - 1 = next /\ next \in 1 .. Len(KeyOrder)
  BY <1>1, <1>6
<1>7. CASE EmptyMore
  <2>1. /\ UNCHANGED <<grouped, results>> /\ next' - 1 = next
        /\ next \in 1 .. Len(KeyOrder) /\ grouped[KeyOrder[next]] = <<>>
    BY <1>6, <1>7 DEF EmptyMore, Stream, Key
  <2>2. \A found : Judging(grouped, found)[next] = Judging(grouped, found)[next - 1]
    BY <2>1, JudgingOneByOne
  <2> QED
    BY <1>3, <2>1, <2>2 DEF PortsSoFar
<1>8. CASE OneMore
  <2>1. PICK status, bad : Conclude(status, bad) /\ CameTo(Key, Stream, status, bad)
    BY <1>8 DEF OneMore
  <2>2. /\ UNCHANGED grouped /\ next' - 1 = next
        /\ next \in 1 .. Len(KeyOrder) /\ grouped[KeyOrder[next]] # <<>>
        /\ Key = KeyOrder[next] /\ Stream = grouped[KeyOrder[next]]
    BY <1>6, <1>8, <2>1 DEF OneMore, Conclude, Stream, Key
  <2>3. \A found : Judging(grouped, found)[next]
                       = Append(Judging(grouped, found)[next - 1], found[KeyOrder[next]])
    BY <2>2, JudgingOneByOne
  <2>4. Key \in Keys /\ Stream \in Seq(Event)
    BY <1>8, KeyIsKey DEF OneMore
  <2>5. anchors[Key] \subseteq Anchor /\ IsFiniteSet(anchors[Key])
    BY <2>4, IntegrityAssumption DEF PortsSoFar
  <2> DEFINE said == Found(Key, StrengthOf(Stream), status, bad)
  <2>6. AgreedOn(Key, TypeScriptFound[Key], said) /\ AgreedOn(Key, JavaFound[Key], said)
    BY <2>1, <2>2, <2>4, <2>5, TypeScriptFinds, JavaFinds DEF TypeScriptFound, JavaFound
  <2>7. results' = Append(results, said) /\ said.stream = Key
    BY <2>1, FoundFields DEF Conclude, Found
  <2>8. results \in Seq([stream : Keys, strength : Strengths, status : Statuses, bad : Nat])
    BY DEF TypeOK
  <2> HIDE DEF said
  <2>9. ASSUME NEW found, AgreedOn(Key, found[Key], said),
               Agreeing(found, results, Judging(grouped, found)[next - 1])
        PROVE  Agreeing(found, results', Judging(grouped, found)[next])
    BY <2>2, <2>3, <2>4, <2>7, <2>8, <2>9, AgreeingOnOneMore
  <2>10. /\ Agreeing(TypeScriptFound, results', Judging(grouped, TypeScriptFound)[next])
         /\ Agreeing(JavaFound, results', Judging(grouped, JavaFound)[next])
    BY <2>6, <2>9 DEF PortsSoFar
  <2> QED
    BY <1>3, <2>2, <2>10
<1> QED
  BY <1>0, <1>4, <1>5, <1>7, <1>8 DEF NoneLeft

\* Whatever the chains and anchors, whatever became of the bundle on the way,
\* and however many streams and events there are: verifyBundle of integrity.ts
\* and of Integrity.java judges the streams verify_bundle judges, in its order,
\* agrees with it on every break and the event it is at, and on all it says of
\* a stream whose anchors are of the forms the three parsers read alike, though
\* each port searches a stream in its own way.
THEOREM PortsVerifyAlikeAlways == Spec => []PortsVerifyAlike
<1>1. Init => Progress /\ PortsSoFar
  <2> SUFFICES ASSUME Init PROVE Progress /\ PortsSoFar
    OBVIOUS
  <2>1. 1 \in 1 .. (Len(KeyOrder) + 1) /\ 1 - 1 = 0
    BY IntegrityAssumption
  <2> QED
    BY <2>1, JudgingOneByOne, AgreeingAtFirst DEF Init, Progress, PortsSoFar
<1>2. IInv /\ Progress /\ PortsSoFar /\ [Next]_vars => Progress' /\ PortsSoFar'
  BY StreamStep, PortsStep DEF IInv
<1>3. IInv /\ Progress /\ PortsSoFar => PortsVerifyAlike
  <2> SUFFICES ASSUME IInv, Progress, PortsSoFar, phase = "done" PROVE PortsVerifyAlike
    BY DEF PortsVerifyAlike
  <2>1. next - 1 = Len(KeyOrder)
    BY IntegrityAssumption DEF IInv, TypeOK, Progress
  <2>2. /\ Agreeing(TypeScriptFound, results, TypeScriptResults)
        /\ Agreeing(JavaFound, results, JavaResults)
    BY <2>1 DEF PortsSoFar, TypeScriptResults, JavaResults
  <2>3. /\ Len(TypeScriptResults) = Len(results) /\ Len(JavaResults) = Len(results)
        /\ \A n \in DOMAIN results :
              /\ AgreedOn(results[n].stream, TypeScriptResults[n], results[n])
              /\ AgreedOn(results[n].stream, JavaResults[n], results[n])
    BY <2>2 DEF Agreeing
  <2> QED
    BY <2>3 DEF PortsVerifyAlike, AgreedOn
<1> QED
  BY <1>1, <1>2, <1>3, Inductive, InductiveStep, PTL DEF Spec
=============================================================================
