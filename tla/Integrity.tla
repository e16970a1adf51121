----------------------------- MODULE Integrity -----------------------------
(***************************************************************************)
(* The integrity chain of an evidence stream, from the source that writes  *)
(* it to the verdict of integrity.verify_bundle over what ingest accepted. *)
(*                                                                         *)
(* A source gives each event a hash of its content and the hash of the     *)
(* event before it (`prev`, Genesis for the first).  On the way to the     *)
(* engine lines are lost, moved, repeated, altered or stripped of their    *)
(* integrity block; ingest refuses repeats and events that run back in     *)
(* time (IngestRules); verify_bundle then judges each stream in turn, in   *)
(* four passes over its events: hashes, links, anchors, signatures.        *)
(*                                                                         *)
(* A SHA-256 is modelled by what it is the hash of: the event without its  *)
(* integrity block.  Neither `prev` nor the stream's name is part of it.   *)
(***************************************************************************)
EXTENDS IngestRules

CONSTANTS
    Chains,      \* the chains the sources keep
    KeyName,     \* Chains -> the stream its blocks name, a key
    SourceOf,    \* Chains -> source
    PairOf,      \* Chains -> the key "source|subject" of its events
    StrengthsOf, \* Chains -> the strengths its blocks may claim
    KeyOrder,    \* every key, in the order of their names
    Genesis,     \* the prev of a chain's first event
    Times,
    AnchorSets,  \* what the manifest may list: key -> its anchors
    MaxEvents,   \* bound: events the sources write
    MaxMishaps   \* bound: repeats, restarts and harms on the way

Keys == {KeyOrder[n] : n \in DOMAIN KeyOrder}
Strengths == {"source_signed", "export_anchored", "export_chained"}
Notes == {"said", "altered"}

\* How an anchor writes its `at`: with a zone, as RFC 3339 has it or in the
\* basic form of ISO 8601; without a zone, or the day alone; in words
\* ("14 Jul 2026 09:21:07 GMT"); not at all, or as no engine reads it.
\* Nothing holds a manifest to one of them.  A "bare" anchor is no object.
AnchorForms == {"offset", "basic", "local", "day", "words", "none", "bare"}
Anchor == [form : AnchorForms, time : Times]

\* The times read of the anchors listed, where these forms are read.
TimesRead(listed, forms) == {a.time : a \in {b \in listed : b.form \in forms}}

ASSUME IntegrityAssumption ==
    /\ KeyName \in [Chains -> Keys]
    /\ PairOf \in [Chains -> Keys]
    /\ \A c, d \in Chains : KeyName[c] = KeyName[d] => c = d
    /\ StrengthsOf \in [Chains -> SUBSET Strengths]
    /\ DOMAIN SourceOf = Chains
    /\ KeyOrder \in Seq(Keys)
    /\ \A m, n \in DOMAIN KeyOrder : KeyOrder[m] = KeyOrder[n] => m = n
    /\ NoStream \notin Keys
    /\ Times \subseteq Nat \ {0}
    /\ AnchorSets \subseteq [Keys -> SUBSET Anchor]
    /\ \A listed \in AnchorSets : \A k \in Keys : IsFiniteSet(listed[k])
    /\ MaxEvents \in Nat /\ MaxMishaps \in Nat

\* recompute_hash: the content, integrity block removed.
Hash(e) == [id |-> e.id, source |-> e.source, pair |-> e.pair,
            time |-> e.time, note |-> e.note]

Hashes == [id : Nat, source : {SourceOf[c] : c \in Chains}, pair : Keys,
           time : Times, note : Notes]

ASSUME GenesisAssumption == Genesis \notin Hashes

\* An event: IngestRules' fields, the rest of its content, and its block.
\* Without a block its stream is NoStream and the rest of the block is idle.
Event ==
    [form : {"event"}, id : Nat, source : {SourceOf[c] : c \in Chains},
     class : {NoClass}, stream : Keys \cup {NoStream}, time : Times,
     pair : Keys, note : Notes,
     hash : Hashes, prev : Hashes \cup {Genesis},
     strength : Strengths, sig : BOOLEAN]

HasBlock(e) == e.stream # NoStream

\* _stream_key
KeyOf(e) == IF HasBlock(e) THEN e.stream ELSE e.pair

VARIABLES
    emitted,   \* history: chain -> the events its source has written
    tip,       \* chain -> the prev of the source's next event
    written,   \* how many events the sources have written
    stored,    \* the bundle's lines, in the order ingest reads them
    mishaps,   \* how many things happened on the way
    harmed,    \* history: some of them were not mere repeats
    anchors,   \* the manifest's anchors, by key
    phase, at, seen, last,
    refused,   \* history: the reasons ingest has quarantined for
    grouped,   \* key -> its accepted events, in arrival order
    next,      \* the stream being judged, an index of KeyOrder
    pass, i,   \* which pass over it, and the next event
    results    \* [stream, strength, status, bad], 0: no first_bad_index

vars == <<emitted, tip, written, stored, mishaps, harmed, anchors, phase, at, seen, last,
          refused, grouped, next, pass, i, results>>

sources == <<emitted, tip, written>>
bundle == <<stored, mishaps, harmed, anchors>>
ingest == <<at, seen, last, refused, grouped>>
judging == <<next, pass, i, results>>

IngestStreams == Keys \cup {SourceOf[c] : c \in Chains}

Init ==
    /\ emitted = [c \in Chains |-> <<>>]
    /\ tip = [c \in Chains |-> Genesis]
    /\ written = 0
    /\ stored = <<>>
    /\ mishaps = 0
    /\ harmed = FALSE
    /\ anchors \in AnchorSets
    /\ phase = "writing"
    /\ at = 1
    /\ seen = {}
    /\ last = [s \in IngestStreams |-> 0]
    /\ refused = {}
    /\ grouped = [k \in Keys |-> <<>>]
    /\ next = 1
    /\ pass = "select"
    /\ i = 1
    /\ results = <<>>

-----------------------------------------------------------------------------
\* The sources write, then what they wrote is carried to the engine.
During(p) == phase = p /\ UNCHANGED <<anchors, phase, ingest, judging>>

\* A source writes its chain's next event.
Emit(c, t, strength) ==
    /\ During("writing")
    /\ written < MaxEvents
    /\ LET content == [id |-> written + 1, source |-> SourceOf[c],
                       pair |-> PairOf[c], time |-> t, note |-> "said"]
           e == [form |-> "event", id |-> written + 1, source |-> SourceOf[c],
                 class |-> NoClass, stream |-> KeyName[c], time |-> t,
                 pair |-> PairOf[c], note |-> "said", hash |-> content,
                 prev |-> tip[c], strength |-> strength, sig |-> TRUE]
       IN  /\ emitted' = [emitted EXCEPT ![c] = Append(@, e)]
           /\ tip' = [tip EXCEPT ![c] = content]
           /\ stored' = Append(stored, e)
    /\ written' = written + 1
    /\ UNCHANGED <<mishaps, harmed>>

Mishap == mishaps < MaxMishaps /\ mishaps' = mishaps + 1
Harm == Mishap /\ harmed' = TRUE

\* The source forgets its chain and starts the stream anew.
Restart(c) ==
    /\ During("writing")
    /\ Harm
    /\ tip[c] # Genesis
    /\ tip' = [tip EXCEPT ![c] = Genesis]
    /\ UNCHANGED <<emitted, written, stored>>

Carry ==
    /\ phase = "writing"
    /\ phase' = "carrying"
    /\ UNCHANGED <<sources, bundle, ingest, judging>>

\* A delivery retried: the line is in the bundle twice.  It harms nothing.
Repeat(n) ==
    /\ During("carrying")
    /\ Mishap
    /\ stored' = Append(stored, stored[n])
    /\ UNCHANGED <<sources, harmed>>

Lose(n) ==
    /\ During("carrying")
    /\ Harm
    /\ stored' = SubSeq(stored, 1, n - 1) \o SubSeq(stored, n + 1, Len(stored))
    /\ UNCHANGED sources

Swap(m, n) ==
    /\ During("carrying")
    /\ Harm
    /\ m < n
    /\ stored' = [stored EXCEPT ![m] = stored[n], ![n] = stored[m]]
    /\ UNCHANGED sources

\* An exporter changes the content, drops the block, or the attestation file.
Change(n, e) ==
    /\ During("carrying")
    /\ Harm
    /\ stored' = [stored EXCEPT ![n] = e]
    /\ UNCHANGED sources

Alter(n) == Change(n, [stored[n] EXCEPT !.note = "altered"])
Strip(n) == Change(n, [stored[n] EXCEPT !.stream = NoStream])
LoseAttestation(n) == Change(n, [stored[n] EXCEPT !.sig = FALSE])

-----------------------------------------------------------------------------
\* The engine: ingest, line by line.
BeginIngest ==
    /\ phase = "carrying"
    /\ phase' = "ingesting"
    /\ UNCHANGED <<sources, bundle, ingest, judging>>

ReadLine ==
    /\ phase = "ingesting"
    /\ at <= Len(stored)
    /\ at' = at + 1
    /\ LET l == stored[at]
           verdict == VerdictOn(l, <<>>, seen, last)
       IN  IF verdict = Accept
           THEN /\ seen' = seen \cup {l.id}
                /\ last' = [last EXCEPT ![StreamOf(l)] = l.time]
                /\ grouped' = [grouped EXCEPT ![KeyOf(l)] = Append(@, l)]
                /\ UNCHANGED refused
           ELSE /\ refused' = refused \cup {verdict}
                /\ UNCHANGED <<seen, last, grouped>>
    /\ UNCHANGED <<sources, bundle, phase, judging>>

BeginVerify ==
    /\ phase = "ingesting"
    /\ at > Len(stored)
    /\ phase' = "verifying"
    /\ UNCHANGED <<sources, bundle, ingest, judging>>

-----------------------------------------------------------------------------
\* The engine: verify_bundle, stream by stream in the order of their keys.
Key == KeyOrder[next]
Stream == grouped[Key]

HashHolds(e) == HasBlock(e) /\ e.hash = Hash(e)

\* Mutant: a stream may start anywhere in its chain.
LinkHoldsAnyStart(s, n) == n = 1 \/ s[n].prev = s[n - 1].hash

LinkHolds(s, n) == s[n].prev = IF n = 1 THEN Genesis ELSE s[n - 1].hash

\* What a link that does not hold is called: the event before is missing
\* from the stream, or it is there and elsewhere.
BreakKind(s, n) ==
    IF s[n].prev # Genesis /\ \A m \in DOMAIN s : s[m].hash # s[n].prev
    THEN "gap" ELSE "reordered"

\* _anchor_times, of those that compare with an event's time, which has a zone.
AnchorTimes(k) == TimesRead(anchors[k], {"offset", "basic"})

\* A datetime without a zone compares with none that has one, and a bare
\* anchor has no `at` to get: TypeError, AttributeError.
Raises(k) == \E a \in anchors[k] : a.form \in {"local", "day", "bare"}

\* Not later than the latest of the stream's anchors, if any could be read.
InTime(k, e) == AnchorTimes(k) = {} \/ \E t \in AnchorTimes(k) : e.time <= t

\* The strength the stream's first block claims.
StrengthOf(s) ==
    LET blocks == {n \in DOMAIN s : HasBlock(s[n])}
    IN  IF blocks = {} THEN "export_chained" ELSE s[Min(blocks)].strength

\* Mutant: one signed event signs the stream.
StandingAnySigned(k, s) ==
    CASE StrengthOf(s) = "source_signed" ->
            IF \E n \in DOMAIN s : s[n].sig THEN "verified" ELSE "unsigned"
      [] StrengthOf(s) = "export_anchored" ->
            IF anchors[k] # {} THEN "verified" ELSE "verified_weak"
      [] OTHER -> "verified_weak"

\* The status of a stream with nothing wrong.
Standing(k, s) ==
    CASE StrengthOf(s) = "source_signed" ->
            IF \A n \in DOMAIN s : s[n].sig THEN "verified" ELSE "unsigned"
      [] StrengthOf(s) = "export_anchored" ->
            IF anchors[k] # {} THEN "verified" ELSE "verified_weak"
      [] OTHER -> "verified_weak"

Verifying == phase = "verifying" /\ next <= Len(KeyOrder)
    /\ UNCHANGED <<sources, bundle, phase, ingest>>

Conclude(status, bad) ==
    /\ results' = Append(results, [stream |-> Key, strength |-> StrengthOf(Stream),
                                   status |-> status, bad |-> bad])
    /\ next' = next + 1
    /\ pass' = "select"
    /\ i' = 1

TurnTo(p) == pass' = p /\ i' = 1 /\ UNCHANGED <<next, results>>

Advance == i' = i + 1 /\ UNCHANGED <<next, pass, results>>

\* Only streams some accepted event is of are judged.
SelectStream ==
    /\ Verifying
    /\ pass = "select"
    /\ IF Stream = <<>>
       THEN next' = next + 1 /\ UNCHANGED <<pass, i, results>>
       ELSE TurnTo("tamper")

\* One event of the pass p: it holds, or the stream's status is decided.
Check(p, holds, status) ==
    /\ Verifying
    /\ pass = p
    /\ i <= Len(Stream)
    /\ IF holds THEN Advance ELSE Conclude(status, i)

EndPass(p) == Verifying /\ pass = p /\ i > Len(Stream)

CheckHash == Check("tamper", HashHolds(Stream[i]), "failed")

HashesHold == EndPass("tamper") /\ TurnTo("chain")

\* Mutant: the break is laid at the event before.
CheckLinkBefore ==
    /\ Verifying
    /\ pass = "chain"
    /\ i <= Len(Stream)
    /\ IF LinkHolds(Stream, i) THEN Advance
       ELSE Conclude(BreakKind(Stream, i), i - 1)

CheckLink == Check("chain", LinkHolds(Stream, i), BreakKind(Stream, i))

LinksHold == EndPass("chain") /\ TurnTo("time")

CheckTime ==
    /\ Check("time", InTime(Key, Stream[i]), "time_suspect")
    /\ ~Raises(Key)

\* The error ends the command: no stream has a result, those judged before
\* this one included.
Abort ==
    /\ phase = "verifying"
    /\ next <= Len(KeyOrder)
    /\ pass = "time"
    /\ Raises(Key)
    /\ phase' = "aborted"
    /\ next' = 1
    /\ pass' = "select"
    /\ i' = 1
    /\ results' = <<>>
    /\ UNCHANGED <<sources, bundle, ingest>>

TimesHold == EndPass("time") /\ Conclude(Standing(Key, Stream), 0)

Finish ==
    /\ phase = "verifying"
    /\ next > Len(KeyOrder)
    /\ phase' = "done"
    /\ UNCHANGED <<sources, bundle, ingest, judging>>

-----------------------------------------------------------------------------
Way ==
    \/ \E c \in Chains, t \in Times :
          \E strength \in StrengthsOf[c] : Emit(c, t, strength)
    \/ \E c \in Chains : Restart(c)
    \/ \E n \in DOMAIN stored :
          Repeat(n) \/ Lose(n) \/ Alter(n) \/ Strip(n) \/ LoseAttestation(n)
    \/ \E m, n \in DOMAIN stored : Swap(m, n)

Engine ==
    \/ Carry \/ BeginIngest \/ ReadLine \/ BeginVerify
    \/ SelectStream
    \/ CheckHash \/ HashesHold \/ CheckLink \/ LinksHold
    \/ CheckTime \/ Abort \/ TimesHold
    \/ Finish

Next == Way \/ Engine

Spec == Init /\ [][Next]_vars

-----------------------------------------------------------------------------
(***************************************************************************)
(* Type invariant.                                                         *)
(***************************************************************************)
Unbroken == {"verified", "verified_weak", "unsigned", "time_suspect"}
Statuses == Unbroken \cup {"failed", "gap", "reordered"}
Passes == {"select", "tamper", "chain", "time"}

TypeOK ==
    /\ emitted \in [Chains -> Seq(Event)]
    /\ tip \in [Chains -> Hashes \cup {Genesis}]
    /\ written \in Nat
    /\ stored \in Seq(Event)
    /\ mishaps \in Nat
    /\ harmed \in BOOLEAN
    /\ anchors \in [Keys -> SUBSET Anchor]
    /\ phase \in {"writing", "carrying", "ingesting", "verifying", "done", "aborted"}
    /\ at \in Nat \ {0}
    /\ seen \in SUBSET Nat
    /\ last \in [IngestStreams -> Nat]
    /\ refused \in SUBSET Reasons
    /\ grouped \in [Keys -> Seq(Event)]
    /\ next \in Nat \ {0}
    /\ pass \in Passes
    /\ i \in Nat \ {0}
    /\ results \in Seq([stream : Keys, strength : Strengths,
                        status : Statuses, bad : Nat])

(***************************************************************************)
(* Safety.  What a result says of a stream, held against what the source   *)
(* wrote: `emitted`, which the engine never sees.                          *)
(***************************************************************************)
\* s is a run of consecutive events of chain c with the content the source
\* gave them, and of these the first alone starts a chain.
RunOf(s, c) ==
    s # <<>> =>
        \E j \in DOMAIN emitted[c] :
            /\ j + Len(s) - 1 <= Len(emitted[c])
            /\ \A n \in DOMAIN s :
                  /\ Hash(s[n]) = Hash(emitted[c][j + n - 1])
                  /\ emitted[c][j + n - 1].prev = Genesis <=> n = 1

IsRun(s, k) == \E c \in Chains : KeyName[c] = k /\ RunOf(s, c)

\* A stream not reported failed, gapped or reordered is what its source
\* wrote from a chain's start on, nothing lost between, moved or altered.
\* (What was lost at its end cannot be told without an anchor of the head.)
UnbrokenIsRun ==
    \A n \in DOMAIN results :
        results[n].status \in Unbroken =>
            IsRun(grouped[results[n].stream], results[n].stream)

Genuine(e) == \E c \in Chains :
    /\ KeyName[c] = KeyOf(e)
    /\ \E j \in DOMAIN emitted[c] : Hash(emitted[c][j]) = Hash(e)

\* The event before e in its chain is not in the stream.
MissesPredecessor(s, e) == \E c \in Chains : \E j \in DOMAIN emitted[c] :
    /\ emitted[c][j].id = e.id
    /\ emitted[c][j].prev # Genesis
    /\ \A m \in DOMAIN s : s[m].id # emitted[c][j - 1].id

\* first_bad_index is where the stored stream first departs from what was
\* written: the first event that is not genuine, or the first that is not
\* the successor of the one before it.  A gap means that the event its source
\* wrote just before that one is missing from the stream; reordered, that it is
\* there or that there is none.
BreakIsLocated ==
    \A n \in DOMAIN results :
        LET r == results[n]
            s == grouped[r.stream]
        IN  /\ r.status = "failed" =>
                 /\ r.bad \in DOMAIN s
                 /\ \A m \in 1..(r.bad - 1) : Genuine(s[m])
                 /\ ~(HasBlock(s[r.bad]) /\ Genuine(s[r.bad]))
            /\ r.status \in {"gap", "reordered"} =>
                 /\ r.bad \in DOMAIN s
                 /\ \A m \in DOMAIN s : Genuine(s[m])
                 /\ IsRun(SubSeq(s, 1, r.bad - 1), r.stream)
                 /\ ~IsRun(SubSeq(s, 1, r.bad), r.stream)
                 /\ r.status = "gap" <=> MissesPredecessor(s, s[r.bad])

\* No false alarm: when nothing was harmed on the way and ingest refused
\* repeats only, every stream is unbroken.
GoodDeliveryVerifies ==
    ~harmed /\ refused \subseteq {"duplicate_id"} =>
        \A n \in DOMAIN results : results[n].status \in Unbroken

\* A stream is called verified only if every event of it has an attestation
\* in the bundle or the manifest lists an anchor for it, and none of its events
\* is dated after the last anchor that gives a time with a zone.  (An anchor
\* whose `at` is missing or cannot be read counts for the first and bounds
\* nothing; one without a zone leaves no stream a result.)
VerifiedIsBacked ==
    \A n \in DOMAIN results :
        LET r == results[n]
            s == grouped[r.stream]
        IN  r.status = "verified" =>
                /\ (\A m \in DOMAIN s : s[m].sig) \/ anchors[r.stream] # {}
                /\ AnchorTimes(r.stream) # {} =>
                     \E t \in AnchorTimes(r.stream) : \A m \in DOMAIN s : s[m].time <= t
=============================================================================
