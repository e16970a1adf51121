--------------------------- MODULE ProducerProofs ---------------------------
(***************************************************************************)
(* Proofs about what writes evidence: Emitter and SpanProcessor.           *)
(*                                                                         *)
(* Of the emitter, for any number of threads, events, flushes, failing     *)
(* writes, crashes and processes over the directory: its type, that a      *)
(* bundle no two threads raced for passes ingest with zero quarantines     *)
(* (without that premise two events may share a number), and that an       *)
(* acceptable bundle is exactly what some flush set out to write where the *)
(* program has one flusher (two can leave a part of it).                   *)
(*                                                                         *)
(* Of the span processor, for any threads, spans and bounds, with the otel *)
(* extra installed or missing at each drain: where no call overlaps a      *)
(* drain, every ended span's events are on the emitter or still to come    *)
(* from the buffer, and only once.  The argument: a drain runs alone       *)
(* (InTurn), so the list a call looked up is the buffer until it has       *)
(* appended to it, and the list a drain walks has grown its last (Placed). *)
(* A span that ended then awaits its drain in one place only, or has left  *)
(* it and each of its events is on the emitter or in the batch about to be *)
(* ingested, never twice (Accounted).                                      *)
(***************************************************************************)
EXTENDS SpanProcessor, FiniteSetTheorems, SequenceTheorems, TLAPS

-----------------------------------------------------------------------------
(*                               The emitter                               *)

\* The k-th event is the one emit_* makes when it finds k-1 in the list.
NumberedFrom0(s) == s \in Seq(Event) /\ \A k \in DOMAIN s : s[k] = Own(k - 1)

\* In a call, every append directly follows the seq it belongs to.
Paired(s) ==
    /\ s \in Seq(Steps)
    /\ \A k \in DOMAIN s :
          /\ s[k] = "append" => k = 1 \/ s[k - 1] = "seq"
          /\ s[k] = "seq" => k + 1 \in DOMAIN s /\ s[k + 1] = "append"

\* Thread t has numbered an event that it has yet to append.
Appending(t) == todo[t] # <<>> /\ Head(todo[t]) = "append"

\* As long as no two threads raced, everything ever written is numbered
\* from 0, and a number that waits for its append is the next one.
Numbered ==
    /\ NumberedFrom0(events)
    /\ \A t \in Threads : NumberedFrom0(text[t])
    /\ stream # Absent => NumberedFrom0(stream)
    /\ \A t \in Threads : Appending(t) => seq[t] = Len(events)
    /\ \A t, u \in Threads : Appending(t) /\ Appending(u) => t = u

SerialInv ==
    /\ TypeOK
    /\ \A t \in Threads : Paired(todo[t])
    /\ ~raced => Numbered

-----------------------------------------------------------------------------
\* An event of the emitter's own is one, and its number can be read back.
LEMMA OwnFacts ==
    ASSUME NEW n \in Nat
    PROVE  /\ Own(n) \in Event
           /\ Own(n).id.n = n /\ Own(n).time = Base + n
           /\ Own(n).form = "event" /\ Own(n).source = Source /\ Own(n).class = Class
BY EmitterAssumption DEF Own, EventLine, Event

\* Events numbered from 0 are what ingest accepts whole.
LEMMA NumberedIsClean ==
    ASSUME NEW s, NumberedFrom0(s)
    PROVE  NoQuarantines(s, DeclaredAs)
<1>1. \A k \in DOMAIN s : k - 1 \in Nat /\ s[k] = Own(k - 1)
  BY DEF NumberedFrom0
<1>2. UniqueIds(s)
  <2> SUFFICES ASSUME NEW j \in DOMAIN s, NEW k \in DOMAIN s, s[j].id = s[k].id
               PROVE  j = k
    BY DEF UniqueIds
  <2>1. s[j].id.n = j - 1 /\ s[k].id.n = k - 1
    BY <1>1, OwnFacts
  <2>2. j \in Int /\ k \in Int
    BY DEF NumberedFrom0
  <2> QED
    BY <2>1, <2>2
<1>3. TimeOrdered(s)
  <2> SUFFICES ASSUME NEW j \in DOMAIN s, NEW k \in DOMAIN s, j < k
               PROVE  s[j].time <= s[k].time
    BY DEF TimeOrdered
  <2>1. s[j].time = Base + (j - 1) /\ s[k].time = Base + (k - 1)
    BY <1>1, OwnFacts
  <2>2. j \in Int /\ k \in Int
    BY DEF NumberedFrom0
  <2> QED
    BY <2>1, <2>2, EmitterAssumption
<1>4. Source \in DeclaredSources(DeclaredAs)
  BY DEF DeclaredSources, DeclaredAs
<1>5. DeclaredClass(DeclaredAs, Source) \in {NoClass, Class}
  <2> DEFINE ks == {k \in DOMAIN DeclaredAs :
                      DeclaredAs[k].id = Source /\ DeclaredAs[k].class # NoClass}
  <2>1. /\ DOMAIN DeclaredAs = {1}
        /\ DeclaredAs[1].class = Class
    BY DEF DeclaredAs
  <2>2. CASE ks = {}
    BY <2>2 DEF DeclaredClass
  <2>3. CASE ks # {}
    <3>1. ks = {1}
      BY <2>1, <2>3
    <3>2. Max({1}) = 1
      BY DEF Max
    <3> QED
      BY <2>1, <3>1, <3>2 DEF DeclaredClass
  <2> QED
    BY <2>2, <2>3
<1>6. Admissible(s, DeclaredAs)
  BY <1>1, <1>4, <1>5, OwnFacts DEF Admissible
<1> QED
  BY <1>2, <1>3, <1>6 DEF NoQuarantines

\* Appending the event of the next number keeps the numbering.
LEMMA NumberedAppend ==
    ASSUME NEW s, NumberedFrom0(s)
    PROVE  NumberedFrom0(Append(s, Own(Len(s))))
<1> DEFINE a == Append(s, Own(Len(s)))
<1>1. s \in Seq(Event) /\ Len(s) \in Nat /\ Own(Len(s)) \in Event
  BY OwnFacts DEF NumberedFrom0
<1>2. /\ a \in Seq(Event) /\ DOMAIN a = 1 .. Len(s) + 1
      /\ \A k \in 1 .. Len(s) : a[k] = s[k]
      /\ a[Len(s) + 1] = Own(Len(s))
  BY <1>1
<1>3. \A k \in 1 .. Len(s) : s[k] = Own(k - 1)
  BY <1>1 DEF NumberedFrom0
<1> QED
  BY <1>1, <1>2, <1>3 DEF NumberedFrom0

\* What remains of a call after a step that is not `seq` is a call, and does
\* not begin with an append.
LEMMA PairedTail ==
    ASSUME NEW s, Paired(s), s # <<>>
    PROVE  /\ Paired(Tail(s))
           /\ Tail(s) # <<>> /\ Head(Tail(s)) = "append" => Head(s) = "seq"
<1>1. s \in Seq(Steps) /\ Len(s) \in Nat /\ Len(s) # 0 /\ DOMAIN s = 1 .. Len(s)
  BY DEF Paired
<1>2. /\ Tail(s) \in Seq(Steps)
      /\ DOMAIN Tail(s) = 1 .. Len(s) - 1
      /\ \A k \in 1 .. Len(s) - 1 : Tail(s)[k] = s[k + 1]
  BY <1>1
<1>3. ASSUME NEW k \in DOMAIN Tail(s)
      PROVE  /\ Tail(s)[k] = "append" => k = 1 \/ Tail(s)[k - 1] = "seq"
             /\ Tail(s)[k] = "seq" => k + 1 \in DOMAIN Tail(s) /\ Tail(s)[k + 1] = "append"
  <2>1. k + 1 \in DOMAIN s /\ Tail(s)[k] = s[k + 1]
    BY <1>1, <1>2
  <2>2. Tail(s)[k] = "append" => k = 1 \/ Tail(s)[k - 1] = "seq"
    <3> SUFFICES ASSUME Tail(s)[k] = "append", k # 1 PROVE Tail(s)[k - 1] = "seq"
      OBVIOUS
    <3>1. k - 1 \in 1 .. Len(s) - 1 /\ (k - 1) + 1 = k /\ (k + 1) - 1 = k /\ k + 1 # 1
      BY <1>1, <1>2
    <3>2. s[(k + 1) - 1] = "seq"
      BY <2>1, <3>1 DEF Paired
    <3> QED
      BY <3>1, <3>2, <1>2
  <2>3. Tail(s)[k] = "seq" => k + 1 \in DOMAIN Tail(s) /\ Tail(s)[k + 1] = "append"
    <3>1. Tail(s)[k] = "seq" => k + 2 \in DOMAIN s /\ s[k + 2] = "append"
      <4>1. s[k + 1] = "seq" => (k + 1) + 1 \in DOMAIN s /\ s[(k + 1) + 1] = "append"
        BY <2>1 DEF Paired
      <4>2. (k + 1) + 1 = k + 2
        BY <1>2
      <4> QED
        BY <2>1, <4>1, <4>2
    <3>2. k + 2 \in DOMAIN s => k + 1 \in 1 .. Len(s) - 1 /\ (k + 1) + 1 = k + 2
      BY <1>1, <1>2
    <3> QED
      BY <3>1, <3>2, <1>2
  <2> QED
    BY <2>2, <2>3
<1>4. Tail(s) # <<>> /\ Head(Tail(s)) = "append" => Head(s) = "seq"
  <2> SUFFICES ASSUME Tail(s) # <<>>, Head(Tail(s)) = "append" PROVE Head(s) = "seq"
    OBVIOUS
  <2>1. 2 \in DOMAIN s /\ s[2] = "append"
    BY <1>1, <1>2
  <2>2. s[1] = "seq"
    BY <2>1 DEF Paired
  <2> QED
    BY <2>2, <1>1
<1> QED
  BY <1>2, <1>3, <1>4 DEF Paired

\* The calls a thread starts are paired, and only begin with a seq or a check.
LEMMA PairedCalls ==
    /\ Paired(<<>>) /\ Paired(EmitSteps) /\ Paired(<<"check">>) /\ Paired(WriteSteps)
    /\ Paired(EmitSteps \o EmitSteps \o WriteSteps)
    /\ Head(EmitSteps) # "append" /\ Head(<<"check">>) # "append" /\ Head(WriteSteps) # "append"
    /\ Head(EmitSteps \o EmitSteps \o WriteSteps) # "append"
<1>1. Paired(<<>>)
  BY DEF Paired
<1>2. Paired(<<"check">>) /\ Head(<<"check">>) # "append"
  <2> DEFINE s == <<"check">>
  <2>1. s \in Seq(Steps) /\ DOMAIN s = {1} /\ s[1] = "check"
    BY DEF Steps
  <2> QED
    BY <2>1 DEF Paired
<1>3. Paired(EmitSteps) /\ Head(EmitSteps) # "append"
  <2>1. EmitSteps \in Seq(Steps) /\ DOMAIN EmitSteps = {1, 2}
        /\ EmitSteps[1] = "seq" /\ EmitSteps[2] = "append"
    BY DEF EmitSteps, Steps
  <2> QED
    BY <2>1 DEF Paired
<1>4. Paired(WriteSteps) /\ Head(WriteSteps) # "append"
  <2>1. WriteSteps \in Seq(Steps) /\ DOMAIN WriteSteps = 1 .. 7
    BY DEF WriteSteps, Steps
  <2>2. \A k \in DOMAIN WriteSteps : WriteSteps[k] \notin {"seq", "append"}
    BY DEF WriteSteps
  <2> QED
    BY <2>1, <2>2 DEF Paired
<1>5. /\ Paired(EmitSteps \o EmitSteps \o WriteSteps)
      /\ Head(EmitSteps \o EmitSteps \o WriteSteps) # "append"
  <2> DEFINE e == EmitSteps \o EmitSteps
             s == e \o WriteSteps
  <2>1. EmitSteps \in Seq(Steps) /\ WriteSteps \in Seq(Steps)
        /\ Len(EmitSteps) = 2 /\ Len(WriteSteps) = 7
    BY DEF EmitSteps, WriteSteps, Steps
  <2>2. /\ e \in Seq(Steps) /\ Len(e) = 4
        /\ e[1] = EmitSteps[1] /\ e[2] = EmitSteps[2]
        /\ e[3] = EmitSteps[1] /\ e[4] = EmitSteps[2]
    <3>1. /\ e \in Seq(Steps)
          /\ Len(e) = Len(EmitSteps) + Len(EmitSteps)
          /\ \A i \in 1 .. Len(EmitSteps) + Len(EmitSteps) :
                e[i] = IF i <= Len(EmitSteps) THEN EmitSteps[i]
                       ELSE EmitSteps[i - Len(EmitSteps)]
      BY <2>1, ConcatProperties, Zenon
    <3> HIDE DEF e
    <3> QED
      BY <2>1, <3>1
  <2> HIDE DEF e
  <2>3. /\ s \in Seq(Steps)
        /\ Len(s) = Len(e) + Len(WriteSteps)
        /\ \A i \in 1 .. Len(e) + Len(WriteSteps) :
              s[i] = IF i <= Len(e) THEN e[i] ELSE WriteSteps[i - Len(e)]
    BY <2>1, <2>2, ConcatProperties, Zenon
  <2> HIDE DEF s
  <2>4. s \in Seq(Steps) /\ Len(s) = 11 /\ DOMAIN s = 1 .. 11 /\ Head(s) = s[1]
    BY <2>1, <2>2, <2>3
  <2>5. /\ EmitSteps[1] = "seq" /\ EmitSteps[2] = "append"
        /\ \A k \in 1 .. 7 : WriteSteps[k] \notin {"seq", "append"}
    BY DEF EmitSteps, WriteSteps
  <2>6. /\ s[1] = EmitSteps[1] /\ s[2] = EmitSteps[2]
        /\ s[3] = EmitSteps[1] /\ s[4] = EmitSteps[2]
    BY <2>1, <2>2, <2>3
  <2>7. ASSUME NEW k \in 5 .. 11 PROVE s[k] = WriteSteps[k - 4] /\ k - 4 \in 1 .. 7
    BY <2>1, <2>2, <2>3
  <2>8. \A k \in 5 .. 11 : s[k] \notin {"seq", "append"}
    BY <2>5, <2>7
  <2>9. ASSUME NEW k \in DOMAIN s
        PROVE  /\ s[k] = "append" => k = 1 \/ s[k - 1] = "seq"
               /\ s[k] = "seq" => k + 1 \in DOMAIN s /\ s[k + 1] = "append"
    <3>1. k \in {1, 2, 3, 4} \/ k \in 5 .. 11
      BY <2>4
    <3>2. CASE k \in 5 .. 11
      BY <2>8, <3>2
    <3>3. CASE k \in {1, 2, 3, 4}
      BY <2>4, <2>5, <2>6, <3>3
    <3> QED
      BY <3>1, <3>2, <3>3
  <2> QED
    BY <2>4, <2>5, <2>6, <2>9 DEF Paired, s, e
<1> QED
  BY <1>1, <1>2, <1>3, <1>4, <1>5

-----------------------------------------------------------------------------
\* Facts about the calls under way.

LEMMA DoneTypes ==
    ASSUME todo \in [Threads -> Seq(Steps)], NEW t \in Threads, todo[t] # <<>>, Done(t)
    PROVE  /\ todo' \in [Threads -> Seq(Steps)]
           /\ todo'[t] = Tail(todo[t])
           /\ \A u \in Threads \ {t} : todo'[u] = todo[u]
<1>1. todo[t] \in Seq(Steps) /\ Tail(todo[t]) \in Seq(Steps)
  OBVIOUS
<1> QED
  BY <1>1 DEF Done

\* What a step does to the calls, unless it numbers an event.
CallsKept ==
    /\ \A u \in Threads : Paired(todo'[u])
    /\ \A u \in Threads : todo'[u] # <<>> /\ Head(todo'[u]) = "append" => Appending(u)

LEMMA DoneKeeps ==
    ASSUME SerialInv, NEW t \in Threads, todo[t] # <<>>, Head(todo[t]) # "seq", Done(t)
    PROVE  /\ CallsKept
           /\ ~(todo'[t] # <<>> /\ Head(todo'[t]) = "append")
<1>1. /\ todo'[t] = Tail(todo[t])
      /\ \A u \in Threads \ {t} : todo'[u] = todo[u]
  BY DoneTypes DEF SerialInv, TypeOK
<1>2. /\ Paired(Tail(todo[t]))
      /\ ~(Tail(todo[t]) # <<>> /\ Head(Tail(todo[t])) = "append")
  BY PairedTail DEF SerialInv
<1> QED
  BY <1>1, <1>2 DEF CallsKept, SerialInv, Appending

LEMMA StartKeeps ==
    ASSUME SerialInv, NEW t \in Threads, NEW call, Paired(call),
           call = <<>> \/ Head(call) # "append",
           todo' = [todo EXCEPT ![t] = call]
    PROVE  /\ CallsKept
           /\ todo' \in [Threads -> Seq(Steps)]
<1>1. todo \in [Threads -> Seq(Steps)] /\ call \in Seq(Steps)
  BY DEF SerialInv, TypeOK, Paired
<1>2. todo'[t] = call /\ \A u \in Threads \ {t} : todo'[u] = todo[u]
  BY <1>1
<1>3. todo' \in [Threads -> Seq(Steps)]
  BY <1>1
<1> QED
  BY <1>2, <1>3 DEF CallsKept, SerialInv, Appending

\* A step that leaves the list and the numbers alone, and writes nothing
\* that is not numbered, keeps the invariant.
LEMMA QuietStep ==
    ASSUME SerialInv, TypeOK', CallsKept, UNCHANGED <<seq, events, raced>>,
           \A t \in Threads : Numbered => NumberedFrom0(text'[t]),
           Numbered => (stream' # Absent => NumberedFrom0(stream'))
    PROVE  SerialInv'
<1>1. \A t \in Threads : Appending(t)' => Appending(t)
  BY DEF CallsKept, Appending
<1>2. \A t \in Threads : Paired(todo[t])'
  BY DEF CallsKept
<1>3. ASSUME ~raced PROVE Numbered'
  BY <1>1, <1>3 DEF SerialInv, Numbered
<1> QED
  BY <1>2, <1>3 DEF SerialInv

-----------------------------------------------------------------------------
\* Type correctness.

LEMMA EmptyCalls ==
    /\ [t \in Threads |-> <<>>] \in [Threads -> Seq(Steps)]
    /\ [t \in Threads |-> <<>>] \in [Threads -> Seq(Event)]
    /\ [t \in Threads |-> <<>>] \in [Threads -> {Absent} \cup Seq(Event)]
    /\ [t \in Threads |-> 0] \in [Threads -> Nat]
OBVIOUS

LEMMA InitType == Init => TypeOK
<1> SUFFICES ASSUME Init PROVE TypeOK
  OBVIOUS
<1>1. todo \in [Threads -> Seq(Steps)] /\ seq \in [Threads -> Nat]
  BY EmptyCalls DEF Init
<1>2. text \in [Threads -> Seq(Event)] /\ dig \in [Threads -> {Absent} \cup Seq(Event)]
  BY EmptyCalls DEF Init
<1>3. events \in Seq(Event) /\ snaps \subseteq Seq(Event)
  BY DEF Init
<1>4. /\ mode \in {"running", "exiting", "ended"} /\ runs \in Nat
      /\ flushed \in BOOLEAN /\ raced \in BOOLEAN /\ raised \in BOOLEAN
      /\ stream \in {Absent} \cup Seq(Event) /\ manifest \in {Absent, Invalid} \cup Seq(Event)
  BY DEF Init
<1> QED
  BY <1>1, <1>2, <1>3, <1>4 DEF TypeOK

LEMMA TypeInductive == TypeOK /\ [Next]_vars => TypeOK'
<1> SUFFICES ASSUME TypeOK, [Next]_vars PROVE TypeOK'
  OBVIOUS
<1> USE DEF disk, history
<1>1. ASSUME NEW t \in Threads, CallEmit(t) PROVE TypeOK'
  <2>1. EmitSteps \in Seq(Steps)
    BY PairedCalls DEF Paired
  <2> QED
    BY <1>1, <2>1 DEF CallEmit, TypeOK
<1>2. ASSUME NEW t \in Threads, CallFlush(t) PROVE TypeOK'
  <2>1. <<"check">> \in Seq(Steps)
    BY PairedCalls DEF Paired
  <2> QED
    BY <1>2, <2>1 DEF CallFlush, TypeOK
<1>3. CASE BeginExit
  <2>1. <<"check">> \in Seq(Steps) /\ <<>> \in Seq(Steps)
    BY PairedCalls DEF Paired
  <2> QED
    BY <1>3, <2>1 DEF BeginExit, TypeOK
<1>4. ASSUME NEW t \in Threads, TakeSeq(t) PROVE TypeOK'
  <2>1. todo' \in [Threads -> Seq(Steps)]
    BY <1>4, DoneTypes DEF TakeSeq, Doing, Idle, TypeOK
  <2>2. raced' \in BOOLEAN
    <3> DEFINE race == \E u \in Threads : Doing(u, "append")
    <3>1. raced' = (raced \/ race) /\ raced \in BOOLEAN
      BY <1>4 DEF TakeSeq, TypeOK
    <3> HIDE DEF race
    <3>2. CASE race
      BY <3>1, <3>2
    <3>3. CASE ~race
      BY <3>1, <3>3
    <3> QED
      BY <3>2, <3>3
  <2>3. /\ seq' = [seq EXCEPT ![t] = Len(events)] /\ Len(events) \in Nat
        /\ UNCHANGED <<mode, runs, text, dig, events, flushed, stream, manifest,
                       snaps, raised>>
    BY <1>4 DEF TakeSeq, TypeOK
  <2> QED
    BY <2>1, <2>2, <2>3 DEF TypeOK
<1>5. ASSUME NEW t \in Threads, AppendEvent(t) PROVE TypeOK'
  <2>1. todo' \in [Threads -> Seq(Steps)]
    BY <1>5, DoneTypes DEF AppendEvent, Doing, Idle, TypeOK
  <2>2. events' \in Seq(Event)
    BY <1>5, OwnFacts DEF AppendEvent, TypeOK
  <2> QED
    BY <1>5, <2>1, <2>2 DEF AppendEvent, TypeOK
<1>6. ASSUME NEW t \in Threads, CheckFlushed(t) PROVE TypeOK'
  <2>1. <<>> \in Seq(Steps) /\ WriteSteps \in Seq(Steps)
        /\ EmitSteps \o EmitSteps \o WriteSteps \in Seq(Steps)
    BY PairedCalls DEF Paired
  <2>2. PICK call \in Seq(Steps) : todo' = [todo EXCEPT ![t] = call]
    <3>1. CASE flushed
      BY <1>6, <2>1, <3>1 DEF CheckFlushed
    <3>2. CASE ~flushed /\ events = <<>> /\ FromAuto
      BY <1>6, <2>1, <3>2 DEF CheckFlushed
    <3>3. CASE ~flushed /\ ~(events = <<>> /\ FromAuto)
      BY <1>6, <2>1, <3>3 DEF CheckFlushed
    <3> QED
      BY <3>1, <3>2, <3>3
  <2>3. UNCHANGED <<mode, runs, seq, text, dig, events, flushed, stream, manifest,
                    snaps, raced, raised>>
    BY <1>6 DEF CheckFlushed
  <2>4. todo' \in [Threads -> Seq(Steps)]
    BY <2>2 DEF TypeOK
  <2> QED
    BY <2>3, <2>4 DEF TypeOK
<1>7. ASSUME NEW t \in Threads, Commit(t) PROVE TypeOK'
  <2>1. CASE events = <<>>
    <3>1. /\ todo' = [todo EXCEPT ![t] = <<>>]
          /\ UNCHANGED <<mode, runs, seq, text, dig, events, flushed, stream, manifest,
                         snaps, raced, raised>>
      BY <1>7, <2>1 DEF Commit
    <3>2. todo' \in [Threads -> Seq(Steps)]
      BY <3>1 DEF TypeOK
    <3> QED
      BY <3>1, <3>2 DEF TypeOK
  <2>2. CASE events # <<>>
    <3>1. todo' \in [Threads -> Seq(Steps)]
      BY <1>7, <2>2, DoneTypes DEF Commit, Doing, Idle, TypeOK
    <3> QED
      BY <1>7, <2>2, <3>1 DEF Commit, TypeOK
  <2> QED
    BY <2>1, <2>2
<1>8. ASSUME NEW t \in Threads, Snap(t) PROVE TypeOK'
  <2>1. todo' \in [Threads -> Seq(Steps)]
    BY <1>8, DoneTypes DEF Snap, Doing, Idle, TypeOK
  <2> QED
    BY <1>8, <2>1 DEF Snap, TypeOK
<1>9. ASSUME NEW t \in Threads, Truncate(t) PROVE TypeOK'
  <2>1. todo' \in [Threads -> Seq(Steps)]
    BY <1>9, DoneTypes DEF Truncate, Doing, Idle, TypeOK
  <2> QED
    BY <1>9, <2>1 DEF Truncate, TypeOK
<1>10. ASSUME NEW t \in Threads, Fill(t) PROVE TypeOK'
  <2>1. todo' \in [Threads -> Seq(Steps)]
    BY <1>10, DoneTypes DEF Fill, Doing, Idle, TypeOK
  <2>2. stream' \in {stream, text[t]}
    BY <1>10 DEF Fill
  <2> QED
    BY <1>10, <2>1, <2>2 DEF Fill, TypeOK
<1>11. ASSUME NEW t \in Threads, FillPart(t) PROVE TypeOK'
  <2>1. PICK n \in Len(stream) + 1 .. Len(text[t]) - 1 : stream' = SubSeq(text[t], 1, n)
    BY <1>11 DEF FillPart
  <2>2. text[t] \in Seq(Event)
    BY DEF TypeOK
  <2>3. stream' \in Seq(Event)
    BY <2>1, <2>2
  <2> QED
    BY <1>11, <2>3 DEF FillPart, TypeOK
<1>12. ASSUME NEW t \in Threads, Digest(t) PROVE TypeOK'
  <2>1. todo' \in [Threads -> Seq(Steps)]
    BY <1>12, DoneTypes DEF Digest, Doing, Idle, TypeOK
  <2> QED
    BY <1>12, <2>1 DEF Digest, TypeOK
<1>13. ASSUME NEW t \in Threads, OpenManifest(t) PROVE TypeOK'
  <2>1. todo' \in [Threads -> Seq(Steps)]
    BY <1>13, DoneTypes DEF OpenManifest, Doing, Idle, TypeOK
  <2> QED
    BY <1>13, <2>1 DEF OpenManifest, TypeOK
<1>14. ASSUME NEW t \in Threads, WriteManifest(t) PROVE TypeOK'
  <2>1. todo' \in [Threads -> Seq(Steps)]
    BY <1>14, DoneTypes DEF WriteManifest, Doing, Idle, TypeOK
  <2>2. manifest' \in {Absent, Invalid} \cup Seq(Event)
    BY <1>14 DEF WriteManifest, TypeOK
  <2> QED
    BY <1>14, <2>1, <2>2 DEF WriteManifest, TypeOK
<1>15. ASSUME NEW t \in Threads, FlushFails(t) PROVE TypeOK'
  BY <1>15 DEF FlushFails, TypeOK
<1>16. CASE EndProcess \/ Die \/ UNCHANGED vars
  BY <1>16 DEF EndProcess, Die, vars, TypeOK
<1>17. CASE Restart
  <2>1. todo' \in [Threads -> Seq(Steps)] /\ seq' \in [Threads -> Nat]
    BY <1>17, EmptyCalls DEF Restart
  <2>2. text' \in [Threads -> Seq(Event)] /\ dig' \in [Threads -> {Absent} \cup Seq(Event)]
    BY <1>17, EmptyCalls DEF Restart
  <2>3. events' \in Seq(Event) /\ flushed' \in BOOLEAN /\ raised' \in BOOLEAN
        /\ mode' \in {"running", "exiting", "ended"} /\ runs' \in Nat
    <3>1. /\ events' = <<>> /\ flushed' = FALSE /\ raised' = FALSE
          /\ mode' = "running" /\ runs' = runs + 1
      BY <1>17 DEF Restart
    <3>2. events' \in Seq(Event)
      BY <3>1
    <3>3. runs' \in Nat
      BY <3>1 DEF TypeOK
    <3> QED
      BY <3>1, <3>2, <3>3
  <2>4. /\ stream' \in {Absent} \cup Seq(Event) /\ manifest' \in {Absent, Invalid} \cup Seq(Event)
        /\ snaps' \subseteq Seq(Event) /\ raced' \in BOOLEAN
    BY <1>17 DEF Restart, TypeOK
  <2> QED
    BY <2>1, <2>2, <2>3, <2>4 DEF TypeOK
<1> QED
  BY <1>1, <1>2, <1>3, <1>4, <1>5, <1>6, <1>7, <1>8, <1>9, <1>10, <1>11, <1>12,
     <1>13, <1>14, <1>15, <1>16, <1>17 DEF Next, Step, Exit

\* Every variable keeps its type.
THEOREM EmitterTypeCorrect == Spec => []TypeOK
BY InitType, TypeInductive, PTL DEF Spec

-----------------------------------------------------------------------------
\* A bundle nobody raced for is clean.

LEMMA InitSerial == Init => SerialInv
<1> SUFFICES ASSUME Init PROVE SerialInv
  OBVIOUS
<1>1. NumberedFrom0(<<>>)
  BY DEF NumberedFrom0
<1>2. \A t \in Threads : todo[t] = <<>> /\ text[t] = <<>>
  BY DEF Init
<1> QED
  BY <1>1, <1>2, InitType, PairedCalls DEF Init, SerialInv, Numbered, Appending

LEMMA StepSerial == SerialInv /\ [Next]_vars => SerialInv'
<1> SUFFICES ASSUME SerialInv, [Next]_vars PROVE SerialInv'
  OBVIOUS
<1> USE DEF disk, history
<1>a. TypeOK /\ TypeOK'
  BY TypeInductive DEF SerialInv
<1>b. \A t \in Threads : Numbered => NumberedFrom0(text[t])
  BY DEF Numbered
<1>c. Numbered => (stream # Absent => NumberedFrom0(stream))
  BY DEF Numbered
<1>1. ASSUME NEW t \in Threads, CallEmit(t) PROVE SerialInv'
  <2>1. CallsKept
    BY <1>1, StartKeeps, PairedCalls DEF CallEmit
  <2> QED
    BY <1>1, <1>a, <1>b, <1>c, <2>1, QuietStep DEF CallEmit
<1>2. ASSUME NEW t \in Threads, CallFlush(t) PROVE SerialInv'
  <2>1. CallsKept
    BY <1>2, StartKeeps, PairedCalls DEF CallFlush
  <2> QED
    BY <1>2, <1>a, <1>b, <1>c, <2>1, QuietStep DEF CallFlush
<1>3. CASE BeginExit
  <2>1. CallsKept
    <3>1. CASE FromAuto
      BY <1>3, <3>1, StartKeeps, PairedCalls, EmitterAssumption DEF BeginExit
    <3>2. CASE ~FromAuto
      BY <1>3, <3>2, StartKeeps, PairedCalls, EmitterAssumption DEF BeginExit
    <3> QED
      BY <3>1, <3>2
  <2> QED
    BY <1>3, <1>a, <1>b, <1>c, <2>1, QuietStep DEF BeginExit
<1>4. ASSUME NEW t \in Threads, TakeSeq(t) PROVE SerialInv'
  <2>1. /\ todo[t] # <<>> /\ Head(todo[t]) = "seq" /\ Done(t) /\ mode # "ended"
        /\ seq' = [seq EXCEPT ![t] = Len(events)]
        /\ raced' = (raced \/ \E u \in Threads : Doing(u, "append"))
        /\ UNCHANGED <<text, events, stream>>
    BY <1>4 DEF TakeSeq, Doing, Idle
  <2>2. /\ todo'[t] = Tail(todo[t])
        /\ \A u \in Threads \ {t} : todo'[u] = todo[u]
    BY <1>a, <2>1, DoneTypes DEF TypeOK
  <2>3. Paired(Tail(todo[t]))
    BY <2>1, PairedTail DEF SerialInv
  <2>4. \A u \in Threads : Paired(todo[u])'
    BY <2>2, <2>3 DEF SerialInv
  <2>5. ASSUME ~raced' PROVE Numbered'
    <3>1. ~raced /\ Numbered
      BY <2>1, <2>5 DEF SerialInv
    <3>2. \A u \in Threads : ~Appending(u)
      BY <2>1, <2>5 DEF Doing, Idle, Appending
    <3>3. \A u \in Threads \ {t} : ~Appending(u)'
      BY <2>2, <3>2 DEF Appending
    <3>4. seq'[t] = Len(events)'
      BY <1>a, <2>1 DEF TypeOK
    <3> QED
      BY <2>1, <3>1, <3>3, <3>4 DEF Numbered
  <2> QED
    BY <1>a, <2>4, <2>5 DEF SerialInv
<1>5. ASSUME NEW t \in Threads, AppendEvent(t) PROVE SerialInv'
  <2>1. /\ todo[t] # <<>> /\ Head(todo[t]) = "append" /\ Done(t)
        /\ events' = Append(events, Own(seq[t]))
        /\ UNCHANGED <<seq, text, stream, raced>>
    BY <1>5 DEF AppendEvent, Doing, Idle
  <2>2. CallsKept /\ ~Appending(t)'
    BY <2>1, DoneKeeps DEF Appending
  <2>3. ASSUME ~raced' PROVE Numbered'
    <3>1. Numbered /\ Appending(t)
      BY <2>1, <2>3 DEF SerialInv, Appending
    <3>2. seq[t] = Len(events) /\ events \in Seq(Event) /\ seq[t] \in Nat
      BY <1>a, <3>1 DEF Numbered, TypeOK
    <3>3. NumberedFrom0(events')
      BY <2>1, <3>1, <3>2, NumberedAppend DEF Numbered
    <3>4. \A u \in Threads : ~Appending(u)'
      BY <2>2, <3>1 DEF CallsKept, Numbered, Appending
    <3> QED
      BY <2>1, <3>1, <3>3, <3>4 DEF Numbered
  <2> QED
    BY <1>a, <2>2, <2>3 DEF SerialInv, CallsKept
<1>6. ASSUME NEW t \in Threads, CheckFlushed(t) PROVE SerialInv'
  <2>1. PICK call : /\ Paired(call) /\ (call = <<>> \/ Head(call) # "append")
                    /\ todo' = [todo EXCEPT ![t] = call]
    BY <1>6, PairedCalls DEF CheckFlushed
  <2>2. CallsKept
    BY <2>1, StartKeeps
  <2> QED
    BY <1>6, <1>a, <1>b, <1>c, <2>2, QuietStep DEF CheckFlushed
<1>7. ASSUME NEW t \in Threads, Commit(t) PROVE SerialInv'
  <2>1. CallsKept
    <3>1. CASE events = <<>>
      BY <1>7, <3>1, StartKeeps, PairedCalls DEF Commit
    <3>2. CASE events # <<>>
      BY <1>7, <3>2, DoneKeeps DEF Commit, Doing, Idle
    <3> QED
      BY <3>1, <3>2
  <2> QED
    BY <1>7, <1>a, <1>b, <1>c, <2>1, QuietStep DEF Commit
<1>8. ASSUME NEW t \in Threads, Snap(t) PROVE SerialInv'
  <2>1. CallsKept
    BY <1>8, DoneKeeps DEF Snap, Doing, Idle
  <2>2. \A u \in Threads : Numbered => NumberedFrom0(text'[u])
    BY <1>8, <1>a DEF Snap, TypeOK, Numbered
  <2> QED
    BY <1>8, <1>a, <1>c, <2>1, <2>2, QuietStep DEF Snap
<1>9. ASSUME NEW t \in Threads, Truncate(t) PROVE SerialInv'
  <2>1. CallsKept
    BY <1>9, DoneKeeps DEF Truncate, Doing, Idle
  <2>2. NumberedFrom0(stream')
    BY <1>9 DEF Truncate, NumberedFrom0
  <2> QED
    BY <1>9, <1>a, <1>b, <2>1, <2>2, QuietStep DEF Truncate
<1>10. ASSUME NEW t \in Threads, Fill(t) PROVE SerialInv'
  <2>1. CallsKept
    BY <1>10, DoneKeeps DEF Fill, Doing, Idle
  <2>2. Numbered => (stream' # Absent => NumberedFrom0(stream'))
    <3>1. stream' \in {stream, text[t]}
      BY <1>10 DEF Fill
    <3> QED
      BY <3>1 DEF Numbered
  <2> QED
    BY <1>10, <1>a, <1>b, <2>1, <2>2, QuietStep DEF Fill
<1>11. ASSUME NEW t \in Threads, FillPart(t) PROVE SerialInv'
  <2>1. CallsKept
    BY <1>11 DEF FillPart, CallsKept, SerialInv, Appending
  <2>2. PICK n \in Len(stream) + 1 .. Len(text[t]) - 1 : stream' = SubSeq(text[t], 1, n)
    BY <1>11 DEF FillPart
  <2>3. ASSUME Numbered PROVE NumberedFrom0(stream')
    <3>1. text[t] \in Seq(Event) /\ \A k \in DOMAIN text[t] : text[t][k] = Own(k - 1)
      BY <2>3 DEF Numbered, NumberedFrom0
    <3>2. n \in Int /\ n <= Len(text[t])
      BY <2>2, <3>1
    <3> QED
      BY <2>2, <3>1, <3>2 DEF NumberedFrom0
  <2> QED
    BY <1>11, <1>a, <1>b, <2>1, <2>3, QuietStep DEF FillPart
<1>12. ASSUME NEW t \in Threads, Digest(t) \/ OpenManifest(t) \/ WriteManifest(t)
       PROVE  SerialInv'
  <2>1. CallsKept
    BY <1>12, DoneKeeps DEF Digest, OpenManifest, WriteManifest, Doing, Idle
  <2>2. UNCHANGED <<seq, events, raced, text, stream>>
    BY <1>12 DEF Digest, OpenManifest, WriteManifest
  <2> QED
    BY <1>a, <1>b, <1>c, <2>1, <2>2, QuietStep
<1>13. ASSUME NEW t \in Threads, FlushFails(t) PROVE SerialInv'
  <2>1. CallsKept
    BY <1>13, StartKeeps, PairedCalls DEF FlushFails
  <2> QED
    BY <1>13, <1>a, <1>b, <1>c, <2>1, QuietStep DEF FlushFails
<1>14. CASE EndProcess \/ Die \/ UNCHANGED vars
  <2>1. UNCHANGED <<todo, seq, events, raced, text, stream>>
    BY <1>14 DEF EndProcess, Die, vars
  <2>2. CallsKept
    BY <2>1 DEF CallsKept, SerialInv, Appending
  <2> QED
    BY <1>a, <1>b, <1>c, <2>1, <2>2, QuietStep
<1>15. CASE Restart
  <2>1. /\ \A t \in Threads : todo'[t] = <<>> /\ text'[t] = <<>>
        /\ events' = <<>>
        /\ UNCHANGED <<stream, raced>>
    BY <1>15 DEF Restart
  <2>2. NumberedFrom0(<<>>)
    BY DEF NumberedFrom0
  <2>3. \A t \in Threads : ~Appending(t)'
    BY <2>1 DEF Appending
  <2>4. ASSUME ~raced' PROVE Numbered'
    BY <2>1, <2>2, <2>3, <2>4 DEF Numbered, SerialInv
  <2> QED
    BY <1>a, <2>1, <2>4, PairedCalls DEF SerialInv
<1> QED
  BY <1>1, <1>2, <1>3, <1>4, <1>5, <1>6, <1>7, <1>8, <1>9, <1>10, <1>11, <1>12,
     <1>13, <1>14, <1>15 DEF Next, Step, Exit

\* What _emit.py's module docstring promises, for programs that never
\* number two events at once: the bundle is accepted with zero quarantines.
THEOREM EmitterSerialIsClean == Spec => []SerialIsClean
<1>1. SerialInv => SerialIsClean
  <2> SUFFICES ASSUME SerialInv, ~raced, Acceptable PROVE NoQuarantines(stream, DeclaredAs)
    BY DEF SerialIsClean, BundleIsClean
  <2>1. NumberedFrom0(stream)
    BY DEF Acceptable, SerialInv, Numbered
  <2> QED
    BY <2>1, NumberedIsClean
<1> QED
  BY <1>1, InitSerial, StepSerial, PTL DEF Spec

-----------------------------------------------------------------------------
(***************************************************************************)
(* A bundle that is accepted is whole: what is on disk while one thread    *)
(* flushes, wherever it dies, and over the bundle of an earlier process.   *)
(***************************************************************************)
Writing == {"truncate", "fill", "digest", "open", "manifest"}
Precedes == [truncate |-> "snap", fill |-> "truncate", digest |-> "fill",
             open |-> "digest", manifest |-> "open"]

\* In a call, a write follows the step it depends on and the manifest is last.
Ordered(s) ==
    /\ s \in Seq(Steps)
    /\ \A k \in DOMAIN s : s[k] \in Writing =>
          s[Len(s)] = "manifest" /\ (k = 1 \/ s[k - 1] = Precedes[s[k]])

OneFlush == \A t, u \in Threads : Flushing(t) /\ Flushing(u) => t = u

\* Thread t is about to take a step among `steps`.
At(t, steps) == todo[t] # <<>> /\ Head(todo[t]) \in steps

\* What the next step of a flush finds: the text is one that a flush set out
\* to write, the stream no longer than it, then equal to it, then digested.
Underway(t) ==
    /\ At(t, Writing) => text[t] \in snaps
    /\ At(t, {"fill"}) => stream \in Seq(Event) /\ Len(stream) <= Len(text[t])
    /\ At(t, {"digest"}) => stream = text[t]
    /\ At(t, {"open", "manifest"}) => dig[t] = text[t]

\* Every manifest ever completed vouches for such a text.
Vouched == manifest \in {Absent, Invalid} \cup snaps

WholeInv ==
    /\ TypeOK
    /\ \A t \in Threads : Ordered(todo[t])
    /\ OneFlush
    /\ \A t \in Threads : Underway(t)
    /\ Vouched

LEMMA OrderedTail ==
    ASSUME NEW s, Ordered(s), s # <<>>
    PROVE  /\ Ordered(Tail(s))
           /\ Tail(s) # <<>> /\ Head(Tail(s)) \in Writing => Head(s) = Precedes[Head(Tail(s))]
           /\ Head(s) \in Writing => \E k \in DOMAIN s : s[k] = "manifest"
<1>1. s \in Seq(Steps) /\ Len(s) \in Nat /\ Len(s) # 0 /\ DOMAIN s = 1 .. Len(s)
  BY DEF Ordered
<1>2. /\ Tail(s) \in Seq(Steps) /\ Len(Tail(s)) = Len(s) - 1
      /\ DOMAIN Tail(s) = 1 .. Len(s) - 1
      /\ \A k \in 1 .. Len(s) - 1 : Tail(s)[k] = s[k + 1]
  BY <1>1
<1>3. ASSUME NEW k \in DOMAIN Tail(s), Tail(s)[k] \in Writing
      PROVE  /\ Tail(s)[Len(Tail(s))] = "manifest"
             /\ k = 1 \/ Tail(s)[k - 1] = Precedes[Tail(s)[k]]
  <2>1. k + 1 \in DOMAIN s /\ Tail(s)[k] = s[k + 1] /\ k \in Int
    BY <1>1, <1>2
  <2>2. s[Len(s)] = "manifest" /\ (k + 1 = 1 \/ s[(k + 1) - 1] = Precedes[s[k + 1]])
    BY <1>3, <2>1 DEF Ordered
  <2>3. Tail(s)[Len(Tail(s))] = s[Len(s)]
    BY <1>1, <1>2
  <2>4. k # 1 => Tail(s)[k - 1] = s[k]
    BY <1>1, <1>2
  <2>5. k + 1 # 1 /\ (k + 1) - 1 = k
    BY <1>2
  <2> QED
    BY <2>1, <2>2, <2>3, <2>4, <2>5
<1>4. ASSUME Tail(s) # <<>>, Head(Tail(s)) \in Writing
      PROVE  Head(s) = Precedes[Head(Tail(s))]
  <2>1. 2 \in DOMAIN s /\ Head(Tail(s)) = s[2] /\ Head(s) = s[1]
    BY <1>1, <1>2, <1>4
  <2> QED
    BY <1>4, <2>1 DEF Ordered
<1>5. ASSUME Head(s) \in Writing
      PROVE  \E k \in DOMAIN s : s[k] = "manifest"
  <2>1. 1 \in DOMAIN s /\ Head(s) = s[1] /\ Len(s) \in DOMAIN s
    BY <1>1
  <2>2. s[Len(s)] = "manifest"
    BY <1>5, <2>1 DEF Ordered
  <2> QED
    BY <2>1, <2>2
<1> QED
  BY <1>2, <1>3, <1>4, <1>5 DEF Ordered

LEMMA OrderedCalls ==
    /\ Ordered(<<>>) /\ Ordered(EmitSteps) /\ Ordered(<<"check">>) /\ Ordered(WriteSteps)
    /\ Ordered(EmitSteps \o EmitSteps \o WriteSteps)
    /\ Head(EmitSteps) \notin Writing /\ Head(<<"check">>) \notin Writing
    /\ Head(WriteSteps) \notin Writing
    /\ Head(EmitSteps \o EmitSteps \o WriteSteps) \notin Writing
    /\ \A k \in DOMAIN EmitSteps : EmitSteps[k] \notin {"check", "manifest"}
<1>1. Ordered(<<>>)
  BY DEF Ordered
<1>2. Ordered(<<"check">>) /\ Head(<<"check">>) \notin Writing
  <2> DEFINE s == <<"check">>
  <2>1. s \in Seq(Steps) /\ DOMAIN s = {1} /\ s[1] = "check"
    BY DEF Steps
  <2> QED
    BY <2>1 DEF Ordered, Writing
<1>3. /\ Ordered(EmitSteps) /\ Head(EmitSteps) \notin Writing
      /\ \A k \in DOMAIN EmitSteps : EmitSteps[k] \notin {"check", "manifest"}
  <2>1. EmitSteps \in Seq(Steps) /\ DOMAIN EmitSteps = {1, 2}
        /\ EmitSteps[1] = "seq" /\ EmitSteps[2] = "append"
    BY DEF EmitSteps, Steps
  <2> QED
    BY <2>1 DEF Ordered, Writing
<1> DEFINE w == WriteSteps
<1>4. /\ w \in Seq(Steps) /\ Len(w) = 7
      /\ w[1] = "commit" /\ w[2] = "snap" /\ w[3] = "truncate" /\ w[4] = "fill"
      /\ w[5] = "digest" /\ w[6] = "open" /\ w[7] = "manifest"
  BY DEF WriteSteps, Steps
<1>5. \A k \in 1 .. 7 : w[k] \in Writing => k > 1 /\ w[k - 1] = Precedes[w[k]]
  <2> HIDE DEF w
  <2>1. \A k \in 1 .. 7 : k \in {1, 2, 3, 4, 5, 6, 7}
    OBVIOUS
  <2> QED
    BY <1>4, <2>1 DEF Writing, Precedes
<1>6. Ordered(w) /\ Head(w) \notin Writing
  <2> HIDE DEF w
  <2>1. DOMAIN w = 1 .. 7 /\ Head(w) = w[1]
    BY <1>4
  <2>2. Head(w) \notin Writing
    BY <1>4, <2>1 DEF Writing
  <2> QED
    BY <1>4, <1>5, <2>1, <2>2 DEF Ordered
<1> HIDE DEF w
<1> DEFINE e == EmitSteps \o EmitSteps
           s == e \o w
<1>7. EmitSteps \in Seq(Steps) /\ Len(EmitSteps) = 2
      /\ EmitSteps[1] = "seq" /\ EmitSteps[2] = "append"
  BY DEF EmitSteps, Steps
<1>8. /\ e \in Seq(Steps) /\ Len(e) = 4
      /\ \A k \in 1 .. 4 : e[k] \in {"seq", "append"}
  <2>1. /\ e \in Seq(Steps)
        /\ Len(e) = Len(EmitSteps) + Len(EmitSteps)
        /\ \A i \in 1 .. Len(EmitSteps) + Len(EmitSteps) :
              e[i] = IF i <= Len(EmitSteps) THEN EmitSteps[i]
                     ELSE EmitSteps[i - Len(EmitSteps)]
    BY <1>7, ConcatProperties, Zenon
  <2> HIDE DEF e
  <2>2. \A k \in 1 .. 4 : k \in {1, 2, 3, 4}
    OBVIOUS
  <2> QED
    BY <1>7, <2>1, <2>2
<1> HIDE DEF e
<1>9. /\ s \in Seq(Steps)
      /\ Len(s) = Len(e) + Len(w)
      /\ \A i \in 1 .. Len(e) + Len(w) : s[i] = IF i <= Len(e) THEN e[i] ELSE w[i - Len(e)]
  BY <1>4, <1>8, ConcatProperties, Zenon
<1> HIDE DEF s
<1>10. /\ DOMAIN s = 1 .. 11 /\ Len(s) = 11 /\ Head(s) = s[1]
       /\ \A k \in 1 .. 4 : s[k] \notin Writing
       /\ \A k \in 5 .. 11 : s[k] = w[k - 4]
  <2>1. DOMAIN s = 1 .. 11 /\ Len(s) = 11 /\ Head(s) = s[1]
    BY <1>4, <1>8, <1>9
  <2>2. ASSUME NEW k \in 1 .. 4 PROVE s[k] \notin Writing
    BY <1>4, <1>8, <1>9 DEF Writing
  <2>3. ASSUME NEW k \in 5 .. 11 PROVE s[k] = w[k - 4]
    BY <1>4, <1>8, <1>9
  <2> QED
    BY <2>1, <2>2, <2>3
<1>11. ASSUME NEW k \in DOMAIN s, s[k] \in Writing
       PROVE  s[Len(s)] = "manifest" /\ (k = 1 \/ s[k - 1] = Precedes[s[k]])
  <2>1. k \in 5 .. 11 /\ k - 4 \in 1 .. 7
    BY <1>10, <1>11
  <2>2. k - 4 > 1 /\ w[(k - 4) - 1] = Precedes[w[k - 4]]
    BY <1>5, <1>10, <1>11, <2>1
  <2>3. k - 1 \in 5 .. 11 /\ (k - 1) - 4 = (k - 4) - 1
    BY <2>1, <2>2
  <2>4. s[Len(s)] = "manifest"
    BY <1>4, <1>10
  <2>5. s[k - 1] = Precedes[s[k]]
    BY <1>10, <2>1, <2>2, <2>3
  <2> QED
    BY <2>4, <2>5
<1>12. Ordered(s) /\ Head(s) \notin Writing
  BY <1>9, <1>10, <1>11 DEF Ordered
<1> QED
  BY <1>1, <1>2, <1>3, <1>6, <1>12 DEF s, e, w

-----------------------------------------------------------------------------
\* What a step does to the calls, whatever it writes: they stay in order, a
\* thread that flushes after it flushed before it, and a write that comes
\* next came next before, unless it is the one the step leads to.
CallsInOrder == (\A u \in Threads : Ordered(todo[u])) /\ OneFlush

LEMMA DoneInOrder ==
    ASSUME WholeInv, NEW t \in Threads, todo[t] # <<>>, Done(t)
    PROVE  /\ CallsInOrder'
           /\ \A u \in Threads \ {t} : todo'[u] = todo[u]
           /\ todo'[t] # <<>> /\ Head(todo'[t]) \in Writing =>
                 Head(todo[t]) = Precedes[Head(todo'[t])]
<1>1. /\ todo'[t] = Tail(todo[t])
      /\ \A u \in Threads \ {t} : todo'[u] = todo[u]
  BY DoneTypes DEF WholeInv, TypeOK
<1>2. Ordered(todo[t])
  BY DEF WholeInv
<1>3. /\ Ordered(Tail(todo[t]))
      /\ Tail(todo[t]) # <<>> /\ Head(Tail(todo[t])) \in Writing =>
            Head(todo[t]) = Precedes[Head(Tail(todo[t]))]
  BY <1>2, OrderedTail
<1>4. \A u \in Threads : Ordered(todo'[u])
  BY <1>1, <1>3 DEF WholeInv
<1>5. ASSUME NEW u \in Threads, Flushing(u)'
      PROVE  Flushing(u)
  <2>1. CASE u = t
    <3>1. todo[t] \in Seq(Steps)
      BY DEF WholeInv, TypeOK
    <3>2. PICK k \in DOMAIN Tail(todo[t]) : Tail(todo[t])[k] \in {"check", "manifest"}
      BY <1>1, <1>5, <2>1 DEF Flushing
    <3>3. k + 1 \in DOMAIN todo[t] /\ todo[t][k + 1] = Tail(todo[t])[k]
      BY <3>1, <3>2
    <3> QED
      BY <2>1, <3>2, <3>3 DEF Flushing
  <2>2. CASE u # t
    BY <1>1, <1>5, <2>2 DEF Flushing
  <2> QED
    BY <2>1, <2>2
<1>6. OneFlush'
  BY <1>5 DEF WholeInv, OneFlush
<1> QED
  BY <1>1, <1>3, <1>4, <1>6 DEF CallsInOrder

LEMMA StartInOrder ==
    ASSUME WholeInv, NEW t \in Threads, NEW call, Ordered(call),
           call = <<>> \/ Head(call) \notin Writing,
           todo' = [todo EXCEPT ![t] = call],
           \/ Flushing(t)
           \/ \A u \in Threads : ~Flushing(u)
           \/ \A k \in DOMAIN call : call[k] \notin {"check", "manifest"}
    PROVE  /\ CallsInOrder'
           /\ \A u \in Threads \ {t} : todo'[u] = todo[u]
           /\ ~(todo'[t] # <<>> /\ Head(todo'[t]) \in Writing)
<1>1. todo'[t] = call /\ \A u \in Threads \ {t} : todo'[u] = todo[u]
  BY DEF WholeInv, TypeOK
<1>2. \A u \in Threads : Ordered(todo'[u])
  BY <1>1 DEF WholeInv
<1>3. \A u \in Threads \ {t} : Flushing(u)' => Flushing(u)
  BY <1>1 DEF Flushing
<1>4. Flushing(t)' => Flushing(t) \/ \A u \in Threads : ~Flushing(u)
  BY <1>1 DEF Flushing
<1>5. OneFlush'
  BY <1>3, <1>4 DEF WholeInv, OneFlush
<1> QED
  BY <1>1, <1>2, <1>5 DEF CallsInOrder

\* A thread about to write flushes, and is the only one that does.
LEMMA WriterIsOne ==
    ASSUME WholeInv, NEW t \in Threads, At(t, Writing),
           NEW u \in Threads, At(u, Writing)
    PROVE  t = u
<1>1. ASSUME NEW v \in Threads, At(v, Writing)
      PROVE  Flushing(v)
  <2>1. Ordered(todo[v]) /\ todo[v] # <<>> /\ Head(todo[v]) \in Writing
    BY <1>1 DEF WholeInv, At
  <2>2. \E k \in DOMAIN todo[v] : todo[v][k] = "manifest"
    BY <2>1, OrderedTail
  <2> QED
    BY <2>2 DEF Flushing
<1> QED
  BY <1>1 DEF WholeInv, OneFlush

\* A step that writes nothing and leads to no write.
LEMMA QuietOnDisk ==
    ASSUME WholeInv, TypeOK', CallsInOrder', UNCHANGED <<text, dig, stream, manifest, snaps>>,
           \A u \in Threads : todo'[u] = todo[u]
                              \/ ~(todo'[u] # <<>> /\ Head(todo'[u]) \in Writing)
    PROVE  WholeInv'
<1>1. \A u \in Threads : Underway(u)'
  <2> SUFFICES ASSUME NEW u \in Threads PROVE Underway(u)'
    OBVIOUS
  <2>1. CASE todo'[u] = todo[u]
    BY <2>1 DEF WholeInv, Underway, At
  <2>2. CASE ~(todo'[u] # <<>> /\ Head(todo'[u]) \in Writing)
    BY <2>2 DEF Underway, At, Writing
  <2> QED
    BY <2>1, <2>2
<1> QED
  BY <1>1 DEF WholeInv, CallsInOrder, Vouched

\* A thread's step from one write to the next leaves no other about to write.
LEMMA WriterMoves ==
    ASSUME WholeInv, TypeOK', NEW t \in Threads, At(t, Writing), Vouched',
           CallsInOrder', \A u \in Threads \ {t} : todo'[u] = todo[u],
           Underway(t)'
    PROVE  WholeInv'
<1>1. ASSUME NEW u \in Threads \ {t}
      PROVE  Underway(u)'
  <2>1. ~At(u, Writing)
    BY <1>1, WriterIsOne
  <2> QED
    BY <1>1, <2>1 DEF Underway, At, Writing
<1> QED
  BY <1>1 DEF WholeInv, CallsInOrder

LEMMA InitWhole == Init => WholeInv
<1> SUFFICES ASSUME Init PROVE WholeInv
  OBVIOUS
<1>1. \A t \in Threads : todo[t] = <<>>
  BY DEF Init
<1> QED
  BY <1>1, InitType, OrderedCalls
  DEF WholeInv, OneFlush, Flushing, Underway, At, Vouched, Init

LEMMA StepWhole ==
    ASSUME OneFlusher, WholeInv, [Next]_vars
    PROVE  WholeInv'
<1> USE DEF disk, history
<1>a. TypeOK /\ TypeOK'
  BY TypeInductive DEF WholeInv
<1>1. ASSUME NEW t \in Threads, CallEmit(t) PROVE WholeInv'
  <2>1. /\ CallsInOrder' /\ \A u \in Threads \ {t} : todo'[u] = todo[u]
        /\ ~(todo'[t] # <<>> /\ Head(todo'[t]) \in Writing)
    BY <1>1, StartInOrder, OrderedCalls DEF CallEmit
  <2> QED
    BY <1>1, <1>a, <2>1, QuietOnDisk DEF CallEmit
<1>2. ASSUME NEW t \in Threads, CallFlush(t) PROVE WholeInv'
  <2>1. /\ CallsInOrder' /\ \A u \in Threads \ {t} : todo'[u] = todo[u]
        /\ ~(todo'[t] # <<>> /\ Head(todo'[t]) \in Writing)
    BY <1>2, StartInOrder, OrderedCalls DEF CallFlush
  <2> QED
    BY <1>2, <1>a, <2>1, QuietOnDisk DEF CallFlush
<1>3. CASE BeginExit
  <2>1. \A u \in Threads : ~Flushing(u)
    BY <1>3 DEF BeginExit, Idle, Flushing
  <2>2. PICK call : /\ Ordered(call) /\ (call = <<>> \/ Head(call) \notin Writing)
                    /\ todo' = [todo EXCEPT ![Main] = call]
    BY <1>3, OrderedCalls DEF BeginExit
  <2>3. /\ CallsInOrder' /\ \A u \in Threads \ {Main} : todo'[u] = todo[u]
        /\ ~(todo'[Main] # <<>> /\ Head(todo'[Main]) \in Writing)
    BY <2>1, <2>2, StartInOrder, EmitterAssumption
  <2> QED
    BY <1>3, <1>a, <2>3, QuietOnDisk DEF BeginExit
<1>4. ASSUME NEW t \in Threads, TakeSeq(t) \/ AppendEvent(t) PROVE WholeInv'
  <2>1. todo[t] # <<>> /\ Head(todo[t]) \in {"seq", "append"} /\ Done(t)
    BY <1>4 DEF TakeSeq, AppendEvent, Doing, Idle
  <2>2. /\ CallsInOrder' /\ \A u \in Threads \ {t} : todo'[u] = todo[u]
        /\ ~(todo'[t] # <<>> /\ Head(todo'[t]) \in Writing)
    BY <2>1, DoneInOrder DEF Precedes, Writing
  <2> QED
    BY <1>4, <1>a, <2>2, QuietOnDisk DEF TakeSeq, AppendEvent
<1>5. ASSUME NEW t \in Threads, CheckFlushed(t) PROVE WholeInv'
  <2>1. Flushing(t)
    <3>1. todo[t] \in Seq(Steps) /\ todo[t] # <<>> /\ Head(todo[t]) = "check"
      BY <1>5, <1>a DEF CheckFlushed, Doing, Idle, TypeOK
    <3>2. 1 \in DOMAIN todo[t] /\ todo[t][1] = "check"
      BY <3>1
    <3> QED
      BY <3>2 DEF Flushing
  <2>2. PICK call : /\ Ordered(call) /\ (call = <<>> \/ Head(call) \notin Writing)
                    /\ todo' = [todo EXCEPT ![t] = call]
    BY <1>5, OrderedCalls DEF CheckFlushed
  <2>3. /\ CallsInOrder' /\ \A u \in Threads \ {t} : todo'[u] = todo[u]
        /\ ~(todo'[t] # <<>> /\ Head(todo'[t]) \in Writing)
    BY <2>1, <2>2, StartInOrder
  <2> QED
    BY <1>5, <1>a, <2>3, QuietOnDisk DEF CheckFlushed
<1>6. ASSUME NEW t \in Threads, Commit(t) PROVE WholeInv'
  <2>1. /\ CallsInOrder' /\ \A u \in Threads \ {t} : todo'[u] = todo[u]
        /\ ~(todo'[t] # <<>> /\ Head(todo'[t]) \in Writing)
    <3>1. CASE events = <<>>
      BY <1>6, <3>1, StartInOrder, OrderedCalls DEF Commit
    <3>2. CASE events # <<>>
      <4>1. todo[t] # <<>> /\ Head(todo[t]) = "commit" /\ Done(t)
        BY <1>6, <3>2 DEF Commit, Doing, Idle
      <4> QED
        BY <4>1, DoneInOrder DEF Precedes, Writing
    <3> QED
      BY <3>1, <3>2
  <2> QED
    BY <1>6, <1>a, <2>1, QuietOnDisk DEF Commit
<1>7. ASSUME NEW t \in Threads, Snap(t) PROVE WholeInv'
  <2>1. todo[t] # <<>> /\ Head(todo[t]) = "snap" /\ Done(t)
    BY <1>7 DEF Snap, Doing, Idle
  <2>2. /\ CallsInOrder' /\ \A u \in Threads \ {t} : todo'[u] = todo[u]
        /\ todo'[t] # <<>> /\ Head(todo'[t]) \in Writing =>
              Head(todo'[t]) = "truncate"
    BY <2>1, DoneInOrder DEF Precedes, Writing
  <2>3. /\ text'[t] = events /\ events \in snaps' /\ snaps \subseteq snaps'
        /\ \A u \in Threads \ {t} : text'[u] = text[u]
        /\ UNCHANGED <<dig, stream, manifest>>
    BY <1>7, <1>a DEF Snap, TypeOK
  <2>4. Underway(t)'
    BY <2>2, <2>3 DEF Underway, At, Writing
  <2>5. \A u \in Threads \ {t} : Underway(u)'
    BY <2>2, <2>3 DEF WholeInv, Underway, At
  <2>6. Vouched'
    BY <2>3 DEF WholeInv, Vouched
  <2> QED
    BY <1>a, <2>2, <2>4, <2>5, <2>6 DEF WholeInv, CallsInOrder
<1>8. ASSUME NEW t \in Threads, Truncate(t) PROVE WholeInv'
  <2>1. todo[t] # <<>> /\ Head(todo[t]) = "truncate" /\ Done(t)
    BY <1>8 DEF Truncate, Doing, Idle
  <2>2. /\ CallsInOrder' /\ \A u \in Threads \ {t} : todo'[u] = todo[u]
        /\ todo'[t] # <<>> /\ Head(todo'[t]) \in Writing =>
              Head(todo'[t]) = "fill"
    BY <2>1, DoneInOrder DEF Precedes, Writing
  <2>3. At(t, Writing) /\ text[t] \in snaps /\ text[t] \in Seq(Event)
    BY <1>a, <2>1 DEF WholeInv, Underway, At, Writing, TypeOK
  <2>4. stream' = <<>> /\ UNCHANGED <<text, dig, manifest, snaps>>
    BY <1>8 DEF Truncate
  <2>5. stream' \in Seq(Event) /\ Len(stream') <= Len(text[t])
    <3>1. Len(text[t]) \in Nat
      BY <2>3
    <3> QED
      BY <2>4, <3>1
  <2>6. Underway(t)'
    BY <2>2, <2>3, <2>4, <2>5 DEF Underway, At, Writing
  <2>7. Vouched'
    BY <2>4 DEF WholeInv, Vouched
  <2> QED
    BY <1>a, <2>2, <2>3, <2>6, <2>7, WriterMoves
<1>9. ASSUME NEW t \in Threads, Fill(t) PROVE WholeInv'
  <2>1. todo[t] # <<>> /\ Head(todo[t]) = "fill" /\ Done(t)
    BY <1>9 DEF Fill, Doing, Idle
  <2>2. /\ CallsInOrder' /\ \A u \in Threads \ {t} : todo'[u] = todo[u]
        /\ todo'[t] # <<>> /\ Head(todo'[t]) \in Writing =>
              Head(todo'[t]) = "digest"
    BY <2>1, DoneInOrder DEF Precedes, Writing
  <2>3. /\ At(t, Writing) /\ text[t] \in snaps /\ text[t] \in Seq(Event)
        /\ stream \in Seq(Event) /\ Len(stream) <= Len(text[t])
    BY <1>a, <2>1 DEF WholeInv, Underway, At, Writing, TypeOK
  <2>4. /\ stream' = IF Len(stream) > Len(text[t]) THEN stream ELSE text[t]
        /\ UNCHANGED <<text, dig, manifest, snaps>>
    BY <1>9 DEF Fill
  <2>5. ~(Len(stream) > Len(text[t]))
    BY <2>3
  <2>6. Underway(t)'
    BY <2>2, <2>3, <2>4, <2>5 DEF Underway, At, Writing
  <2>7. Vouched'
    BY <2>4 DEF WholeInv, Vouched
  <2> QED
    BY <1>a, <2>2, <2>3, <2>6, <2>7, WriterMoves
<1>10. ASSUME NEW t \in Threads, FillPart(t) PROVE WholeInv'
  <2>1. todo[t] # <<>> /\ Head(todo[t]) = "fill" /\ UNCHANGED <<todo, text, dig, manifest, snaps>>
    BY <1>10 DEF FillPart, Doing, Idle
  <2>2. PICK n \in Len(stream) + 1 .. Len(text[t]) - 1 : stream' = SubSeq(text[t], 1, n)
    BY <1>10 DEF FillPart
  <2>3. /\ At(t, Writing) /\ text[t] \in snaps /\ text[t] \in Seq(Event)
        /\ stream \in Seq(Event)
    BY <1>a, <2>1 DEF WholeInv, Underway, At, Writing, TypeOK
  <2>4. n \in Nat /\ n <= Len(text[t])
    BY <2>2, <2>3
  <2>5. stream' \in Seq(Event) /\ Len(stream') = n
    BY <2>2, <2>3, <2>4
  <2>6. Underway(t)'
    BY <2>1, <2>3, <2>4, <2>5 DEF Underway, At
  <2>7. Vouched' /\ CallsInOrder'
    BY <2>1 DEF WholeInv, Vouched, CallsInOrder, OneFlush, Flushing
  <2> QED
    BY <1>a, <2>1, <2>3, <2>6, <2>7, WriterMoves
<1>11. ASSUME NEW t \in Threads, Digest(t) PROVE WholeInv'
  <2>1. todo[t] # <<>> /\ Head(todo[t]) = "digest" /\ Done(t)
    BY <1>11 DEF Digest, Doing, Idle
  <2>2. /\ CallsInOrder' /\ \A u \in Threads \ {t} : todo'[u] = todo[u]
        /\ todo'[t] # <<>> /\ Head(todo'[t]) \in Writing =>
              Head(todo'[t]) = "open"
    BY <2>1, DoneInOrder DEF Precedes, Writing
  <2>3. At(t, Writing) /\ text[t] \in snaps /\ stream = text[t]
    BY <2>1 DEF WholeInv, Underway, At, Writing
  <2>4. dig'[t] = stream /\ UNCHANGED <<text, stream, manifest, snaps>>
    BY <1>11, <1>a DEF Digest, TypeOK
  <2>5. Underway(t)'
    BY <2>2, <2>3, <2>4 DEF Underway, At, Writing
  <2>6. Vouched'
    BY <2>4 DEF WholeInv, Vouched
  <2> QED
    BY <1>a, <2>2, <2>3, <2>5, <2>6, WriterMoves
<1>12. ASSUME NEW t \in Threads, OpenManifest(t) PROVE WholeInv'
  <2>1. todo[t] # <<>> /\ Head(todo[t]) = "open" /\ Done(t)
    BY <1>12 DEF OpenManifest, Doing, Idle
  <2>2. /\ CallsInOrder' /\ \A u \in Threads \ {t} : todo'[u] = todo[u]
        /\ todo'[t] # <<>> /\ Head(todo'[t]) \in Writing =>
              Head(todo'[t]) = "manifest"
    BY <2>1, DoneInOrder DEF Precedes, Writing
  <2>3. At(t, Writing) /\ text[t] \in snaps /\ dig[t] = text[t]
    BY <2>1 DEF WholeInv, Underway, At, Writing
  <2>4. manifest' = Invalid /\ UNCHANGED <<text, dig, stream, snaps>>
    BY <1>12 DEF OpenManifest
  <2>5. Underway(t)' /\ Vouched'
    BY <2>2, <2>3, <2>4 DEF Underway, At, Vouched, Writing
  <2> QED
    BY <1>a, <2>2, <2>3, <2>5, WriterMoves
<1>13. ASSUME NEW t \in Threads, WriteManifest(t) PROVE WholeInv'
  <2>1. todo[t] # <<>> /\ Head(todo[t]) = "manifest" /\ Done(t)
    BY <1>13 DEF WriteManifest, Doing, Idle
  <2>2. /\ CallsInOrder' /\ \A u \in Threads \ {t} : todo'[u] = todo[u]
        /\ ~(todo'[t] # <<>> /\ Head(todo'[t]) \in Writing)
    BY <2>1, DoneInOrder DEF Precedes, Writing
  <2>3. At(t, Writing) /\ text[t] \in snaps /\ dig[t] = text[t]
    BY <2>1 DEF WholeInv, Underway, At, Writing
  <2>4. manifest' = text[t] /\ UNCHANGED <<text, dig, stream, snaps>>
    BY <1>13, <2>3 DEF WriteManifest
  <2>5. Underway(t)' /\ Vouched'
    BY <2>2, <2>3, <2>4 DEF Underway, At, Vouched, Writing
  <2> QED
    BY <1>a, <2>2, <2>3, <2>5, WriterMoves
<1>14. ASSUME NEW t \in Threads, FlushFails(t) PROVE WholeInv'
  <2>1. todo' = [todo EXCEPT ![t] = <<>>] /\ \A k \in DOMAIN <<>> : FALSE
    BY <1>14 DEF FlushFails
  <2>2. /\ CallsInOrder' /\ \A u \in Threads \ {t} : todo'[u] = todo[u]
        /\ ~(todo'[t] # <<>> /\ Head(todo'[t]) \in Writing)
    BY <2>1, StartInOrder, OrderedCalls
  <2> QED
    BY <1>14, <1>a, <2>2, QuietOnDisk DEF FlushFails
<1>15. CASE EndProcess \/ Die \/ UNCHANGED vars
  <2>1. UNCHANGED <<todo, text, dig, stream, manifest, snaps>>
    BY <1>15 DEF EndProcess, Die, vars
  <2>2. CallsInOrder'
    BY <2>1 DEF WholeInv, CallsInOrder, OneFlush, Flushing
  <2> QED
    BY <1>a, <2>1, <2>2, QuietOnDisk
<1>16. CASE Restart
  <2>1. /\ \A t \in Threads : todo'[t] = <<>>
        /\ UNCHANGED <<stream, manifest, snaps>>
    BY <1>16 DEF Restart
  <2> QED
    BY <1>a, <2>1, OrderedCalls
    DEF WholeInv, OneFlush, Flushing, Underway, At, Vouched
<1> QED
  BY <1>1, <1>2, <1>3, <1>4, <1>5, <1>6, <1>7, <1>8, <1>9, <1>10, <1>11, <1>12,
     <1>13, <1>14, <1>15, <1>16 DEF Next, Step, Exit

\* A bundle that load_bundle accepts holds all that some flush set out to
\* write, whatever failed or died between two steps of a flush and whatever an
\* earlier process left (Emitter.flush writes the manifest last, over a
\* digest read back): in a program that never flushes in two threads at once.
THEOREM EmitterAcceptedIsWhole ==
    ASSUME OneFlusher
    PROVE  Spec => []AcceptedIsWhole
<1>1. WholeInv => AcceptedIsWhole
  BY DEF WholeInv, Vouched, AcceptedIsWhole, Acceptable
<1>2. WholeInv /\ [Next]_vars => WholeInv'
  BY StepWhole
<1> QED
  BY InitWhole, <1>1, <1>2, PTL DEF Spec

-----------------------------------------------------------------------------
(*                            The span processor                           *)

\* What a thread of the running process may have left to do.
Outside == {<<>>, <<"seq", "append">>, <<"append">>}
OnEnd == {<<"lookup", "buffer">>, <<"buffer">>}
Gathering == {<<"drain", "take", "swap", "walk">>, <<"take", "swap", "walk">>,
              <<"swap", "walk">>}
WalkingCalls == {<<"walk">>, <<"ingest", "walk">>, <<"ingest", "ingest", "walk">>}

\* Events a call with these steps left has yet to ingest.
Owed(call) == IF call = <<"ingest", "ingest", "walk">> THEN 2
              ELSE IF call = <<"ingest", "walk">> THEN 1 ELSE 0

Line == {EventLine([by |-> b, n |-> n], time) :
            b \in {"emit"} \cup Spans, n \in Nat, time \in Nat}

Typed ==
    /\ todo \in [Threads -> Outside \cup OnEnd \cup Gathering \cup WalkingCalls]
    /\ seq \in [Threads -> Nat]
    /\ events \in Seq(Line)
    /\ ended \subseteq Spans
    /\ lists \in Seq(Seq(Spans))
    /\ buffer \in DOMAIN lists
    /\ held \in [Threads -> DOMAIN lists]
    /\ span \in [Threads -> Spans \cup {NoSpan}]
    /\ next \in [Threads -> Nat \ {0}]
    /\ batch \in [Threads -> Seq(Line)]
    /\ failed \subseteq Spans
    /\ crossed \subseteq Spans

InTurn == \A t \in Threads : span[t] # NoSpan <=> todo[t] \in OnEnd

\* Every span that ended is in one place of one list at most, or with the one
\* thread that brings it.
Placed ==
    /\ \A i, j \in DOMAIN lists : \A k \in DOMAIN lists[i], m \in DOMAIN lists[j] :
          lists[i][k] = lists[j][m] => i = j /\ k = m
    /\ \A i \in DOMAIN lists : \A k \in DOMAIN lists[i] : lists[i][k] \in ended
    /\ \A t \in Threads : span[t] # NoSpan =>
          /\ span[t] \in ended
          /\ \A i \in DOMAIN lists : \A k \in DOMAIN lists[i] : lists[i][k] # span[t]
          /\ \A u \in Threads : span[u] = span[t] => u = t

\* What a drain walks is the buffer no more, and two drains share a list only
\* when all that is on it is crossed.
Walked ==
    /\ \A t \in Threads : Len(batch[t]) = Owed(todo[t])
    /\ \A t \in Threads : todo[t] \in WalkingCalls => held[t] # buffer
    /\ \A t, u \in Threads :
          todo[t] \in WalkingCalls /\ todo[u] \in WalkingCalls /\ held[t] = held[u] =>
             t = u \/ \A k \in DOMAIN lists[held[t]] : lists[held[t]][k] \in crossed

\* The spans that wait for a drain to adapt them.
Awaiting ==
    {s \in Spans :
        \/ \E t \in Threads : span[t] = s
        \/ \E k \in DOMAIN lists[buffer] : lists[buffer][k] = s
        \/ \E t \in Threads : todo[t] \in WalkingCalls /\
              \E k \in DOMAIN lists[held[t]] : k >= next[t] /\ lists[held[t]][k] = s}

OnEmitter(id) == \E k \in DOMAIN events : events[k].id = id
InBatch(id) == \E t \in Threads : \E k \in DOMAIN batch[t] : batch[t][k].id = id

\* A span that ended waits or its events are out, each in one place, unless it
\* is crossed.
Accounted ==
    /\ \A k \in DOMAIN events : events[k].id.by \in Spans \ crossed =>
          /\ events[k].id.by \in ended \ Awaiting
          /\ \A j \in DOMAIN events : events[j].id = events[k].id => j = k
    /\ \A t \in Threads : \A k \in DOMAIN batch[t] : batch[t][k].id.by \notin crossed =>
          /\ batch[t][k].id.by \in ended \ Awaiting
          /\ ~OnEmitter(batch[t][k].id)
          /\ \A u \in Threads : \A j \in DOMAIN batch[u] :
                batch[u][j].id = batch[t][k].id => u = t /\ j = k
    /\ \A s \in ended \ (failed \cup crossed \cup Awaiting) : \A k \in DOMAIN Adapt(s) :
          OnEmitter(Adapt(s)[k].id) \/ InBatch(Adapt(s)[k].id)

Running == mode = "running" /\ Typed /\ InTurn /\ Placed /\ Walked /\ Accounted

-----------------------------------------------------------------------------
\* What a step leaves of a call.

LEMMA Calls ==
    ASSUME NEW c \in Outside \cup OnEnd \cup Gathering \cup WalkingCalls, c # <<>>
    PROVE  /\ Head(c) = "seq" => c = <<"seq", "append">> /\ Tail(c) = <<"append">>
           /\ Head(c) = "append" => c = <<"append">> /\ Tail(c) = <<>>
           /\ Head(c) = "lookup" => c = <<"lookup", "buffer">> /\ Tail(c) = <<"buffer">>
           /\ Head(c) = "buffer" => c = <<"buffer">> /\ Tail(c) = <<>>
           /\ Head(c) = "drain" => /\ c = <<"drain", "take", "swap", "walk">>
                                   /\ Tail(c) = <<"take", "swap", "walk">>
           /\ Head(c) = "take" => /\ c = <<"take", "swap", "walk">>
                                  /\ Tail(c) = <<"swap", "walk">>
           /\ Head(c) = "swap" => c = <<"swap", "walk">> /\ Tail(c) = <<"walk">>
           /\ Head(c) = "walk" => c = <<"walk">> /\ Tail(c) = <<>>
           /\ Head(c) = "ingest" =>
                 \/ /\ c = <<"ingest", "walk">>
                    /\ Tail(c) = <<"walk">>
                 \/ /\ c = <<"ingest", "ingest", "walk">>
                    /\ Tail(c) = <<"ingest", "walk">>
           /\ Head(c) \in {"seq", "append", "lookup", "buffer", "drain", "take", "swap",
                           "walk", "ingest"}
<1>1. /\ Head(<<"seq", "append">>) = "seq"
      /\ Tail(<<"seq", "append">>) = <<"append">>
  OBVIOUS
<1>2. /\ Head(<<"append">>) = "append"
      /\ Tail(<<"append">>) = <<>>
  OBVIOUS
<1>3. /\ Head(<<"lookup", "buffer">>) = "lookup"
      /\ Tail(<<"lookup", "buffer">>) = <<"buffer">>
  OBVIOUS
<1>4. /\ Head(<<"buffer">>) = "buffer"
      /\ Tail(<<"buffer">>) = <<>>
  OBVIOUS
<1>5. /\ Head(<<"drain", "take", "swap", "walk">>) = "drain"
      /\ Tail(<<"drain", "take", "swap", "walk">>) = <<"take", "swap", "walk">>
  OBVIOUS
<1>6. /\ Head(<<"take", "swap", "walk">>) = "take"
      /\ Tail(<<"take", "swap", "walk">>) = <<"swap", "walk">>
  OBVIOUS
<1>7. /\ Head(<<"swap", "walk">>) = "swap"
      /\ Tail(<<"swap", "walk">>) = <<"walk">>
  OBVIOUS
<1>8. /\ Head(<<"walk">>) = "walk"
      /\ Tail(<<"walk">>) = <<>>
  OBVIOUS
<1>9. /\ Head(<<"ingest", "walk">>) = "ingest"
      /\ Tail(<<"ingest", "walk">>) = <<"walk">>
  OBVIOUS
<1>10. /\ Head(<<"ingest", "ingest", "walk">>) = "ingest"
      /\ Tail(<<"ingest", "ingest", "walk">>) = <<"ingest", "walk">>
  OBVIOUS
<1>11. c \in {<<"seq", "append">>,
             <<"append">>,
             <<"lookup", "buffer">>,
             <<"buffer">>,
             <<"drain", "take", "swap", "walk">>,
             <<"take", "swap", "walk">>,
             <<"swap", "walk">>,
             <<"walk">>,
             <<"ingest", "walk">>,
             <<"ingest", "ingest", "walk">>}
  BY DEF Outside, OnEnd, Gathering, WalkingCalls
<1>12. CASE c = <<"seq", "append">>
  BY <1>1, <1>12
<1>13. CASE c = <<"append">>
  BY <1>2, <1>13
<1>14. CASE c = <<"lookup", "buffer">>
  BY <1>3, <1>14
<1>15. CASE c = <<"buffer">>
  BY <1>4, <1>15
<1>16. CASE c = <<"drain", "take", "swap", "walk">>
  BY <1>5, <1>16
<1>17. CASE c = <<"take", "swap", "walk">>
  BY <1>6, <1>17
<1>18. CASE c = <<"swap", "walk">>
  BY <1>7, <1>18
<1>19. CASE c = <<"walk">>
  BY <1>8, <1>19
<1>20. CASE c = <<"ingest", "walk">>
  BY <1>9, <1>20
<1>21. CASE c = <<"ingest", "ingest", "walk">>
  BY <1>10, <1>21
<1> QED
  BY <1>11, <1>12, <1>13, <1>14, <1>15, <1>16, <1>17, <1>18, <1>19, <1>20, <1>21

\* The kinds of call exclude one another.
LEMMA KindsApart ==
    /\ Outside \cap OnEnd = {} /\ Outside \cap Gathering = {}
    /\ Outside \cap WalkingCalls = {} /\ OnEnd \cap Gathering = {}
    /\ OnEnd \cap WalkingCalls = {} /\ Gathering \cap WalkingCalls = {}
BY DEF Outside, OnEnd, Gathering, WalkingCalls

LEMMA OwedFacts ==
    /\ \A c \in Outside \cup OnEnd \cup Gathering : Owed(c) = 0
    /\ Owed(<<"walk">>) = 0
    /\ Owed(<<"ingest", "walk">>) = 1
    /\ Owed(<<"ingest", "ingest", "walk">>) = 2
BY DEF Owed, Outside, OnEnd, Gathering

-----------------------------------------------------------------------------
\* An adapted span is at most two events, of its own and told apart by id.
LEMMA AdaptFacts ==
    ASSUME NEW s \in Spans
    PROVE  /\ Adapt(s) \in Seq(Line)
           /\ Len(Adapt(s)) \in {0, 1, 2}
           /\ \A k \in DOMAIN Adapt(s) :
                 /\ Adapt(s)[k].id.by = s
                 /\ \A j \in DOMAIN Adapt(s) : Adapt(s)[j].id = Adapt(s)[k].id => j = k
<1> DEFINE ev(n, time) == EventLine(SpanId(s, n), time)
<1>1. ASSUME NEW n \in Nat, NEW time \in Nat
      PROVE  /\ ev(n, time) \in Line
             /\ ev(n, time).id = SpanId(s, n)
  <2>1. SpanId(s, n) = [by |-> s, n |-> n] /\ s \in {"emit"} \cup Spans
    BY DEF SpanId
  <2>2. ev(n, time).id = SpanId(s, n)
    BY DEF EventLine
  <2>3. ev(n, time) = EventLine([by |-> s, n |-> n], time)
    BY <2>1
  <2> HIDE DEF ev
  <2>4. \E b \in {"emit"} \cup Spans, m \in Nat, x \in Nat :
           ev(n, time) = EventLine([by |-> b, n |-> m], x)
    BY <2>1, <2>3
  <2>5. ev(n, time) \in Line
    BY <2>4 DEF Line
  <2> QED
    BY <2>2, <2>5
<1>2. Start[s] \in Nat /\ End[s] \in Nat /\ Op[s] \in {"call", "session", "other"}
  BY SpanAssumption
<1>3. ASSUME NEW n \in Nat, NEW m \in Nat
      PROVE  SpanId(s, n).by = s /\ (SpanId(s, n) = SpanId(s, m) => n = m)
  <2>1. SpanId(s, n).by = s /\ SpanId(s, n).n = n /\ SpanId(s, m).n = m
    BY DEF SpanId
  <2> QED
    BY <2>1
<1> HIDE DEF ev
<1>4. CASE Op[s] = "other"
  <2>1. Adapt(s) = <<>>
    BY <1>4 DEF Adapt
  <2> QED
    BY <2>1
<1>5. CASE Op[s] = "call"
  <2>1. Adapt(s) = <<ev(0, Start[s])>>
    BY <1>5 DEF Adapt, ev
  <2> QED
    BY <2>1, <1>1, <1>2, <1>3
<1>6. CASE Op[s] = "session"
  <2>1. \/ Adapt(s) = <<ev(1, Start[s]), ev(2, End[s])>>
        \/ Adapt(s) = <<ev(2, End[s]), ev(1, Start[s])>>
    BY <1>6 DEF Adapt, ev
  <2>2. /\ ev(1, Start[s]) \in Line /\ ev(1, Start[s]).id = SpanId(s, 1)
        /\ ev(2, End[s]) \in Line /\ ev(2, End[s]).id = SpanId(s, 2)
    BY <1>1, <1>2
  <2>3. SpanId(s, 1).by = s /\ SpanId(s, 2).by = s /\ SpanId(s, 1) # SpanId(s, 2)
    BY <1>3
  <2> HIDE DEF ev
  <2>4. Adapt(s) \in Seq(Line) /\ Len(Adapt(s)) = 2 /\ DOMAIN Adapt(s) = {1, 2}
    <3>1. ASSUME NEW a \in Line, NEW b \in Line
          PROVE  <<a, b>> \in Seq(Line) /\ Len(<<a, b>>) = 2 /\ DOMAIN <<a, b>> = {1, 2}
      OBVIOUS
    <3> QED
      BY <2>1, <2>2, <3>1
  <2>5. \/ Adapt(s)[1].id = SpanId(s, 1) /\ Adapt(s)[2].id = SpanId(s, 2)
        \/ Adapt(s)[1].id = SpanId(s, 2) /\ Adapt(s)[2].id = SpanId(s, 1)
    BY <2>1, <2>2
  <2> QED
    BY <2>3, <2>4, <2>5
<1> QED
  BY <1>2, <1>4, <1>5, <1>6

-----------------------------------------------------------------------------
\* What carries over from state to state.

\* No event is added, and who waits or is lost changes for the crossed, the
\* newly ended and the newly failed only.
LEMMA AccountsKept ==
    ASSUME Typed, Accounted, UNCHANGED <<events, batch>>,
           ended' \subseteq Spans, crossed \subseteq crossed',
           \A x \in Spans \ crossed' :
              /\ x \in ended \ Awaiting => x \in ended' \ Awaiting'
              /\ x \in ended' \ (failed' \cup Awaiting') => x \in ended \ (failed \cup Awaiting)
    PROVE  Accounted'
<1>1. ASSUME NEW k \in DOMAIN events', events'[k].id.by \in Spans \ crossed'
      PROVE  /\ events'[k].id.by \in ended' \ Awaiting'
             /\ \A j \in DOMAIN events' : events'[j].id = events'[k].id => j = k
  <2>1. events[k].id.by \in Spans \ crossed
    BY <1>1
  <2> QED
    BY <1>1, <2>1 DEF Accounted
<1>2. ASSUME NEW t \in Threads, NEW k \in DOMAIN batch'[t], batch'[t][k].id.by \notin crossed'
      PROVE  /\ batch'[t][k].id.by \in ended' \ Awaiting'
             /\ ~ OnEmitter(batch[t][k].id)'
             /\ \A u \in Threads : \A j \in DOMAIN batch'[u] :
                   batch'[u][j].id = batch'[t][k].id => u = t /\ j = k
  <2>1. batch[t][k].id.by \notin crossed
    BY <1>2
  <2>2. /\ batch[t][k].id.by \in ended \ Awaiting
        /\ ~OnEmitter(batch[t][k].id)
        /\ \A u \in Threads : \A j \in DOMAIN batch[u] :
              batch[u][j].id = batch[t][k].id => u = t /\ j = k
    BY <2>1 DEF Accounted
  <2>3. batch[t][k].id.by \in Spans \ crossed'
    BY <1>2, <2>2 DEF Typed
  <2> QED
    BY <2>2, <2>3 DEF OnEmitter
<1>3. ASSUME NEW s \in ended' \ (failed' \cup crossed' \cup Awaiting'), NEW k \in DOMAIN Adapt(s)
      PROVE  OnEmitter(Adapt(s)[k].id)' \/ InBatch(Adapt(s)[k].id)'
  <2>1. s \in ended \ (failed \cup crossed \cup Awaiting)
    OBVIOUS
  <2>2. OnEmitter(Adapt(s)[k].id) \/ InBatch(Adapt(s)[k].id)
    BY <2>1 DEF Accounted
  <2> QED
    BY <2>2 DEF OnEmitter, InBatch
<1> QED
  BY <1>1, <1>2, <1>3 DEF Accounted

\* The emitter's own events are of no span.
LEMMA AccountsAppend ==
    ASSUME Typed, Accounted, UNCHANGED <<ended, failed, crossed, batch>>, Awaiting' = Awaiting,
           NEW e, events' = Append(events, e), e.id.by \notin Spans
    PROVE  Accounted'
<1>1. /\ DOMAIN events = 1 .. Len(events) /\ Len(events) \in Nat
      /\ DOMAIN events' = 1 .. Len(events) + 1
      /\ \A k \in DOMAIN events : events'[k] = events[k]
      /\ events'[Len(events) + 1] = e
  BY DEF Typed
<1>2. ASSUME NEW id, id.by \in Spans
      PROVE  OnEmitter(id)' <=> OnEmitter(id)
  BY <1>1, <1>2 DEF OnEmitter
<1>3. ASSUME NEW k \in DOMAIN events', events'[k].id.by \in Spans
      PROVE  k \in DOMAIN events
  BY <1>1, <1>3
<1>4. ASSUME NEW k \in DOMAIN events', events'[k].id.by \in Spans \ crossed'
      PROVE  /\ events'[k].id.by \in ended' \ Awaiting'
             /\ \A j \in DOMAIN events' : events'[j].id = events'[k].id => j = k
  <2>1. k \in DOMAIN events /\ events'[k] = events[k]
    BY <1>1, <1>3, <1>4
  <2>2. events'[k].id.by \in ended' \ Awaiting'
    BY <1>4, <2>1 DEF Accounted
  <2>3. ASSUME NEW j \in DOMAIN events', events'[j].id = events'[k].id PROVE j = k
    <3>1. j \in DOMAIN events /\ events'[j] = events[j]
      BY <1>1, <1>3, <1>4, <2>3
    <3> QED
      BY <1>4, <2>1, <2>3, <3>1 DEF Accounted
  <2> QED
    BY <2>2, <2>3
<1>5. ASSUME NEW t \in Threads, NEW k \in DOMAIN batch'[t], batch'[t][k].id.by \notin crossed'
      PROVE  /\ batch'[t][k].id.by \in ended' \ Awaiting'
             /\ ~OnEmitter(batch[t][k].id)'
             /\ \A u \in Threads : \A j \in DOMAIN batch'[u] :
                   batch'[u][j].id = batch'[t][k].id => u = t /\ j = k
  <2>1. /\ batch[t][k].id.by \in ended \ Awaiting
        /\ ~OnEmitter(batch[t][k].id)
        /\ \A u \in Threads : \A j \in DOMAIN batch[u] :
              batch[u][j].id = batch[t][k].id => u = t /\ j = k
    BY <1>5 DEF Accounted
  <2>2. batch[t][k].id.by \in Spans
    BY <2>1 DEF Typed
  <2>3. ~ \E j \in DOMAIN events' : events'[j].id = batch[t][k].id
    BY <1>2, <2>1, <2>2 DEF OnEmitter
  <2> QED
    BY <2>1, <2>3 DEF OnEmitter
<1>6. ASSUME NEW s \in ended' \ (failed' \cup crossed' \cup Awaiting'), NEW k \in DOMAIN Adapt(s)
      PROVE  OnEmitter(Adapt(s)[k].id)' \/ InBatch(Adapt(s)[k].id)'
  <2>1. OnEmitter(Adapt(s)[k].id) \/ InBatch(Adapt(s)[k].id)
    BY DEF Accounted
  <2>2. OnEmitter(Adapt(s)[k].id) => \E j \in DOMAIN events' : events'[j].id = Adapt(s)[k].id
    BY <1>1 DEF OnEmitter
  <2> QED
    BY <2>1, <2>2 DEF OnEmitter, InBatch
<1> QED
  BY <1>4, <1>5, <1>6 DEF Accounted

\* A step of one call that neither brings a span nor walks afterwards.
LEMMA CallStep ==
    ASSUME Running, NEW t \in Threads, NEW c \in Outside \cup OnEnd \cup Gathering,
           c \in OnEnd <=> todo[t] \in OnEnd, Owed(todo[t]) = 0,
           todo[t] \in WalkingCalls => next[t] > Len(lists[held[t]]),
           todo' = [todo EXCEPT ![t] = c],
           \A u \in Threads \ {t} : held'[u] = held[u],
           UNCHANGED <<ended, lists, buffer, span, next, batch, failed, crossed>>
    PROVE  InTurn' /\ Placed' /\ Walked' /\ Awaiting' = Awaiting
<1>1. todo'[t] = c /\ \A u \in Threads \ {t} : todo'[u] = todo[u] /\ held'[u] = held[u]
  BY DEF Running, Typed
<1>2. c \notin WalkingCalls /\ Owed(c) = 0
  BY KindsApart, OwedFacts
<1>3. \A u \in Threads : todo'[u] \in WalkingCalls =>
         u # t /\ todo[u] \in WalkingCalls /\ held'[u] = held[u]
  BY <1>1, <1>2
<1>4. InTurn'
  BY <1>1 DEF Running, InTurn
<1>5. Placed'
  BY DEF Running, Placed
<1>6. Walked'
  <2>1. \A u \in Threads : Len(batch'[u]) = Owed(todo'[u])
    BY <1>1, <1>2 DEF Running, Walked
  <2>2. \A u \in Threads : todo'[u] \in WalkingCalls => held'[u] # buffer'
    BY <1>3 DEF Running, Walked
  <2>3. ASSUME NEW u \in Threads, NEW v \in Threads, todo'[u] \in WalkingCalls,
               todo'[v] \in WalkingCalls, held'[u] = held'[v]
        PROVE  u = v \/ \A k \in DOMAIN lists'[held'[u]] : lists'[held'[u]][k] \in crossed'
    BY <1>3, <2>3 DEF Running, Walked
  <2> QED
    BY <2>1, <2>2, <2>3 DEF Walked
<1>7. Awaiting' = Awaiting
  <2>1. ASSUME NEW u \in Threads, todo[u] \in WalkingCalls, NEW k \in DOMAIN lists[held[u]],
               k >= next[u]
        PROVE  todo'[u] \in WalkingCalls /\ held'[u] = held[u]
    <3>1. u # t
      <4> SUFFICES ASSUME u = t PROVE FALSE
        OBVIOUS
      <4>1. next[t] > Len(lists[held[t]])
        BY <2>1
      <4>2. lists[held[t]] \in Seq(Spans) /\ next[t] \in Nat
        BY DEF Running, Typed
      <4> QED
        BY <2>1, <4>1, <4>2
    <3> QED
      BY <1>1, <2>1, <3>1
  <2> QED
    BY <1>3, <2>1 DEF Awaiting
<1> QED
  BY <1>4, <1>5, <1>6, <1>7

\* The same, of a call that adds no event either.
LEMMA StillStep ==
    ASSUME Running, NEW t \in Threads, NEW c \in Outside \cup OnEnd \cup Gathering,
           c \in OnEnd <=> todo[t] \in OnEnd, Owed(todo[t]) = 0,
           todo[t] \in WalkingCalls => next[t] > Len(lists[held[t]]),
           todo' = [todo EXCEPT ![t] = c],
           held' = held \/ held' = [held EXCEPT ![t] = buffer],
           UNCHANGED <<mode, seq, events, ended, lists, buffer, span, next, batch, failed,
                       crossed>>
    PROVE  Running'
<1>1. \A u \in Threads \ {t} : held'[u] = held[u]
  BY DEF Running, Typed
<1>2. InTurn' /\ Placed' /\ Walked' /\ Awaiting' = Awaiting
  BY <1>1, CallStep
<1>3. Typed'
  <2>1. todo' \in [Threads -> Outside \cup OnEnd \cup Gathering \cup WalkingCalls]
    BY DEF Running, Typed
  <2>2. held' \in [Threads -> DOMAIN lists']
    BY DEF Running, Typed
  <2> QED
    BY <2>1, <2>2 DEF Running, Typed
<1>4. Accounted'
  BY <1>2, AccountsKept DEF Running, Typed
<1> QED
  BY <1>2, <1>3, <1>4 DEF Running

-----------------------------------------------------------------------------
\* Each step.

LEMMA StepAt ==
    ASSUME Running, NEW t \in Threads, NEW step, Doing(t, step)
    PROVE  /\ todo[t] \in Outside \cup OnEnd \cup Gathering \cup WalkingCalls
           /\ todo[t] # <<>> /\ Head(todo[t]) = step
BY DEF Running, Typed, Doing, Idle

\* The steps of flush are taken at exit only.
LEMMA NotFlushing ==
    ASSUME Running, NEW t \in Threads,
           NEW step \in {"check", "commit", "snap", "truncate", "fill", "digest",
                         "open", "manifest"}
    PROVE  ~Doing(t, step)
<1> SUFFICES ASSUME Doing(t, step) PROVE FALSE
  OBVIOUS
<1>1. Head(todo[t]) \in {"seq", "append", "lookup", "buffer", "drain", "take", "swap",
                         "walk", "ingest"}
  BY StepAt, Calls
<1> QED
  BY <1>1, StepAt

\* A step of a call that has no business with the processor.
LEMMA EmitterCall ==
    ASSUME Running, NEW t \in Threads, todo[t] \in Outside, NEW c \in Outside,
           todo' = [todo EXCEPT ![t] = c], UNCHANGED spanVars
    PROVE  InTurn' /\ Placed' /\ Walked' /\ Awaiting' = Awaiting
<1>1. /\ c \notin OnEnd /\ todo[t] \notin OnEnd /\ todo[t] \notin WalkingCalls
      /\ Owed(todo[t]) = 0
  BY KindsApart, OwedFacts
<1> QED
  BY <1>1, CallStep DEF spanVars

LEMMA EmitterStepKeeps ==
    ASSUME Running, EmitterStep, mode' = "running"
    PROVE  Running'
<1> USE DEF spanVars
<1>1. UNCHANGED spanVars
  BY DEF EmitterStep
<1>2. EmitSteps \in Outside /\ <<"append">> \in Outside /\ <<>> \in Outside
  BY DEF EmitSteps, Outside
<1>3. ASSUME NEW t \in Threads, todo[t] \in Outside, NEW c \in Outside,
             todo' = [todo EXCEPT ![t] = c], seq' \in [Threads -> Nat],
             events' \in Seq(Line), Accounted'
      PROVE  Running'
  <2>1. todo' \in [Threads -> Outside \cup OnEnd \cup Gathering \cup WalkingCalls]
    BY <1>3 DEF Running, Typed
  <2>2. Typed'
    BY <1>1, <1>3, <2>1 DEF Running, Typed
  <2> QED
    BY <1>1, <1>3, <2>2, EmitterCall DEF Running
<1>4. ASSUME NEW t \in Threads, CallEmit(t) PROVE Running'
  <2>1. /\ todo[t] = <<>> /\ todo' = [todo EXCEPT ![t] = EmitSteps]
        /\ UNCHANGED <<seq, events>>
    BY <1>4 DEF CallEmit, Idle
  <2>2. Awaiting' = Awaiting
    BY <1>1, <1>2, <2>1, EmitterCall
  <2>3. Accounted'
    BY <1>1, <2>1, <2>2, AccountsKept DEF Running, Typed
  <2> QED
    BY <1>2, <1>3, <2>1, <2>3 DEF Running, Typed
<1>5. ASSUME NEW t \in Threads, TakeSeq(t) PROVE Running'
  <2>1. todo[t] = <<"seq", "append">> /\ Tail(todo[t]) = <<"append">>
    BY <1>5, StepAt, Calls DEF TakeSeq
  <2>2. /\ todo[t] \in Outside /\ todo' = [todo EXCEPT ![t] = <<"append">>]
        /\ UNCHANGED events
        /\ seq' = [seq EXCEPT ![t] = Len(events)]
    BY <1>5, <2>1 DEF TakeSeq, Done, Outside
  <2>3. Len(events) \in Nat /\ seq' \in [Threads -> Nat]
    BY <2>2 DEF Running, Typed
  <2>4. Awaiting' = Awaiting
    BY <1>1, <1>2, <2>2, EmitterCall
  <2>5. Accounted'
    BY <1>1, <2>2, <2>4, AccountsKept DEF Running, Typed
  <2> QED
    BY <1>2, <1>3, <2>2, <2>3, <2>5 DEF Running, Typed
<1>6. ASSUME NEW t \in Threads, AppendEvent(t) PROVE Running'
  <2>1. todo[t] = <<"append">> /\ Tail(todo[t]) = <<>>
    BY <1>6, StepAt, Calls DEF AppendEvent
  <2>2. /\ todo[t] \in Outside /\ todo' = [todo EXCEPT ![t] = <<>>]
        /\ UNCHANGED seq
        /\ events' = Append(events, Own(seq[t]))
    BY <1>6, <2>1 DEF AppendEvent, Done, Outside
  <2>3. Own(seq[t]).id.by \notin Spans
    BY SpanAssumption DEF Own, EventLine
  <2>4. Own(seq[t]) \in Line
    <3>1. seq[t] \in Nat /\ Base + seq[t] \in Nat /\ "emit" \in {"emit"} \cup Spans
      BY EmitterAssumption DEF Running, Typed
    <3>2. Own(seq[t]) = EventLine([by |-> "emit", n |-> seq[t]], Base + seq[t])
      BY DEF Own
    <3>3. \E b \in {"emit"} \cup Spans, m \in Nat, x \in Nat :
             Own(seq[t]) = EventLine([by |-> b, n |-> m], x)
      BY <3>1, <3>2
    <3> QED
      BY <3>3 DEF Line
  <2>5. events' \in Seq(Line)
    BY <2>2, <2>4 DEF Running, Typed
  <2>6. Awaiting' = Awaiting
    BY <1>1, <1>2, <2>2, EmitterCall
  <2>7. Accounted'
    BY <1>1, <2>2, <2>3, <2>6, AccountsAppend DEF Running
  <2> QED
    BY <1>2, <1>3, <2>2, <2>5, <2>7 DEF Running, Typed
<1>7. ASSUME NEW t \in Threads, Step(t) PROVE TakeSeq(t) \/ AppendEvent(t)
  BY <1>7, NotFlushing
     DEF Step, CheckFlushed, Commit, Snap, Truncate, Fill, Digest, OpenManifest, WriteManifest
<1>8. ASSUME NEW t \in Threads PROVE ~FillPart(t) /\ ~FlushFails(t)
  BY NotFlushing DEF FillPart, FlushFails
<1>9. ~EndProcess /\ ~Die
  BY DEF EndProcess, Die
<1> QED
  BY <1>4, <1>5, <1>6, <1>7, <1>8, <1>9 DEF EmitterStep

LEMMA OnEndKeeps ==
    ASSUME Running, NEW t \in Threads, NEW s \in Spans, CallOnEnd(t, s)
    PROVE  Running'
<1> DEFINE c == <<"lookup", "buffer">>
<1>1. /\ todo[t] = <<>> /\ s \notin ended
      /\ ended' = ended \cup {s} /\ span' = [span EXCEPT ![t] = s]
      /\ todo' = [todo EXCEPT ![t] = c]
      /\ UNCHANGED <<mode, seq, events, lists, buffer, held, next, batch, failed, crossed>>
  BY DEF CallOnEnd, Idle, emitterRest
<1>2. c \in OnEnd /\ c \notin WalkingCalls /\ Owed(c) = 0
  BY OwedFacts, KindsApart DEF OnEnd
<1> HIDE DEF c
<1>3. Owed(todo[t]) = 0 /\ todo[t] \notin WalkingCalls /\ todo[t] \notin OnEnd
  BY <1>1, OwedFacts, KindsApart DEF Outside
<1>4. /\ todo'[t] = c /\ span'[t] = s /\ s # NoSpan /\ span[t] = NoSpan
      /\ \A u \in Threads \ {t} : todo'[u] = todo[u] /\ span'[u] = span[u]
  BY <1>1, <1>3, SpanAssumption DEF Running, Typed, InTurn
<1>5. Typed'
  <2>1. /\ todo' \in [Threads -> Outside \cup OnEnd \cup Gathering \cup WalkingCalls]
        /\ span' \in [Threads -> Spans \cup {NoSpan}]
    BY <1>1, <1>2 DEF Running, Typed
  <2> QED
    BY <1>1, <2>1 DEF Running, Typed
<1>6. InTurn'
  BY <1>2, <1>4 DEF Running, InTurn
<1>7. Placed'
  <2>1. ASSUME NEW u \in Threads, span'[u] # NoSpan
        PROVE  /\ span'[u] \in ended'
               /\ \A i \in DOMAIN lists' : \A k \in DOMAIN lists'[i] : lists'[i][k] # span'[u]
               /\ \A v \in Threads : span'[v] = span'[u] => v = u
    <3>1. CASE u = t
      BY <1>1, <1>4, <3>1, SpanAssumption DEF Running, Placed
    <3>2. CASE u # t
      BY <1>1, <1>4, <2>1, <3>2 DEF Running, Placed
    <3> QED
      BY <3>1, <3>2
  <2>2. \A i, j \in DOMAIN lists' : \A k \in DOMAIN lists'[i], m \in DOMAIN lists'[j] :
           lists'[i][k] = lists'[j][m] => i = j /\ k = m
    BY <1>1 DEF Running, Placed
  <2>3. \A i \in DOMAIN lists' : \A k \in DOMAIN lists'[i] : lists'[i][k] \in ended'
    BY <1>1 DEF Running, Placed
  <2> QED
    BY <2>1, <2>2, <2>3 DEF Placed
<1>8. \A u \in Threads : /\ todo'[u] \in WalkingCalls <=> todo[u] \in WalkingCalls
                         /\ Owed(todo'[u]) = Owed(todo[u])
  BY <1>2, <1>3, <1>4
<1>9. Walked'
  BY <1>1, <1>8 DEF Running, Walked
<1>10. Awaiting' = Awaiting \cup {s}
  <2>1. ASSUME NEW x \in Spans
        PROVE  (\E u \in Threads : span'[u] = x) <=> (x = s \/ \E u \in Threads : span[u] = x)
    BY <1>4, SpanAssumption
  <2> QED
    BY <1>1, <1>8, <2>1 DEF Awaiting
<1>11. Accounted'
  BY <1>1, <1>5, <1>10, AccountsKept DEF Running, Typed
<1> QED
  BY <1>1, <1>5, <1>6, <1>7, <1>9, <1>11 DEF Running

LEMMA DrainCallKeeps ==
    ASSUME Running, NEW t \in Threads, CallDrain(t)
    PROVE  Running'
<1>1. /\ todo[t] = <<>> /\ todo' = [todo EXCEPT ![t] = <<"drain", "take", "swap", "walk">>]
      /\ UNCHANGED <<mode, seq, events, ended, lists, buffer, held, span, next, batch, failed,
                     crossed>>
  BY DEF CallDrain, Idle, emitterRest, spanVars, DrainSteps
<1>2. <<"drain", "take", "swap", "walk">> \in Gathering
  BY DEF Gathering
<1>3. Owed(todo[t]) = 0 /\ todo[t] \notin WalkingCalls /\ todo[t] \notin OnEnd
  BY <1>1, OwedFacts, KindsApart DEF Outside
<1> QED
  BY <1>1, <1>2, <1>3, KindsApart, StillStep

LEMMA GatheringKeeps ==
    ASSUME Running, NEW t \in Threads, Lookup(t) \/ Drain(t) \/ Take(t)
    PROVE  Running'
<1>1. CASE Lookup(t)
  <2>1. todo[t] = <<"lookup", "buffer">> /\ Tail(todo[t]) = <<"buffer">>
    BY <1>1, StepAt, Calls DEF Lookup
  <2>2. /\ todo' = [todo EXCEPT ![t] = <<"buffer">>]
        /\ held' = [held EXCEPT ![t] = buffer]
        /\ UNCHANGED <<mode, seq, events, ended, lists, buffer, span, next, batch, failed,
                       crossed>>
    BY <1>1, <2>1 DEF Lookup, Done, emitterRest
  <2>3. todo[t] \in OnEnd /\ <<"buffer">> \in OnEnd
    BY <2>1 DEF OnEnd
  <2>4. Owed(todo[t]) = 0 /\ todo[t] \notin WalkingCalls
    BY <2>3, OwedFacts, KindsApart
  <2> QED
    BY <2>2, <2>3, <2>4, StillStep
<1>2. CASE Drain(t)
  <2>1. /\ todo[t] = <<"drain", "take", "swap", "walk">>
        /\ Tail(todo[t]) = <<"take", "swap", "walk">>
    BY <1>2, StepAt, Calls DEF Drain
  <2>2. SubSeq(todo[t], Len(DrainSteps) + 1, Len(todo[t])) = <<>>
    <3>1. Len(DrainSteps) = 4 /\ Len(todo[t]) = 4
      BY <2>1 DEF DrainSteps
    <3> QED
      BY <2>1, <3>1
  <2>3. PICK c \in {<<>>, <<"take", "swap", "walk">>} : todo' = [todo EXCEPT ![t] = c]
    BY <1>2, <2>1, <2>2 DEF Drain, Done
  <2>4. UNCHANGED <<mode, seq, events, ended, lists, buffer, held, span, next, batch, failed,
                    crossed>>
    BY <1>2 DEF Drain, emitterRest, spanVars
  <2>5. todo[t] \in Gathering /\ c \in Gathering \cup Outside
    BY <2>1 DEF Gathering, Outside
  <2>6. Owed(todo[t]) = 0 /\ todo[t] \notin WalkingCalls /\ todo[t] \notin OnEnd /\ c \notin OnEnd
    BY <2>5, OwedFacts, KindsApart
  <2> QED
    BY <2>3, <2>4, <2>5, <2>6, StillStep
<1>3. CASE Take(t)
  <2>1. todo[t] = <<"take", "swap", "walk">> /\ Tail(todo[t]) = <<"swap", "walk">>
    BY <1>3, StepAt, Calls DEF Take
  <2>2. /\ todo' = [todo EXCEPT ![t] = <<"swap", "walk">>]
        /\ held' = [held EXCEPT ![t] = buffer]
        /\ UNCHANGED <<mode, seq, events, ended, lists, buffer, span, next, batch, failed,
                       crossed>>
    BY <1>3, <2>1 DEF Take, Done, emitterRest
  <2>3. todo[t] \in Gathering /\ <<"swap", "walk">> \in Gathering
    BY <2>1 DEF Gathering
  <2>4. /\ Owed(todo[t]) = 0 /\ todo[t] \notin WalkingCalls /\ todo[t] \notin OnEnd
        /\ <<"swap", "walk">> \notin OnEnd
    BY <2>3, OwedFacts, KindsApart
  <2> QED
    BY <2>2, <2>3, <2>4, StillStep
<1> QED
  BY <1>1, <1>2, <1>3

LEMMA BufferKeeps ==
    ASSUME Running, NEW t \in Threads, Buffer(t)
    PROVE  Running'
<1> DEFINE h == held[t]
           old == lists[h]
           new == Append(old, span[t])
           top == Len(old) + 1
<1>1. todo[t] = <<"buffer">> /\ Tail(todo[t]) = <<>> /\ todo[t] \in OnEnd
  BY StepAt, Calls DEF Buffer, OnEnd
<1>2. span[t] # NoSpan /\ span[t] \in Spans /\ h \in DOMAIN lists
  BY <1>1 DEF Running, Typed, InTurn
<1>3. /\ todo' = [todo EXCEPT ![t] = <<>>]
      /\ span' = [span EXCEPT ![t] = NoSpan]
      /\ lists' = [lists EXCEPT ![h] = new]
      /\ crossed' = IF h = buffer THEN crossed ELSE crossed \cup {span[t]}
      /\ UNCHANGED <<mode, seq, events, ended, buffer, held, next, batch, failed>>
  BY <1>1 DEF Buffer, Done, emitterRest
<1>4. /\ old \in Seq(Spans) /\ Len(old) \in Nat /\ DOMAIN old = 1 .. Len(old)
      /\ lists \in Seq(Seq(Spans))
  BY <1>2 DEF Running, Typed
<1>5. /\ new \in Seq(Spans) /\ DOMAIN new = 1 .. top
      /\ \A k \in DOMAIN old : new[k] = old[k]
      /\ new[top] = span[t] /\ top \notin DOMAIN old
      /\ \A k \in DOMAIN new : k \in DOMAIN old \/ k = top
      /\ \A k \in DOMAIN old : k \in DOMAIN new
      /\ top \in DOMAIN new
  <2> HIDE DEF old
  <2>1. new \in Seq(Spans) /\ DOMAIN new = 1 .. top /\ new[top] = span[t]
    BY <1>2, <1>4
  <2>2. \A k \in DOMAIN old : new[k] = old[k]
    BY <1>2, <1>4
  <2>3. /\ top \notin 1 .. Len(old) /\ top \in 1 .. top
        /\ \A k \in 1 .. top : k \in 1 .. Len(old) \/ k = top
        /\ \A k \in 1 .. Len(old) : k \in 1 .. top
    BY <1>4
  <2> QED
    BY <1>4, <2>1, <2>2, <2>3
<1> HIDE DEF old, new, top
<1>6. /\ todo'[t] = <<>> /\ span'[t] = NoSpan /\ lists'[h] = new
      /\ \A u \in Threads \ {t} : todo'[u] = todo[u] /\ span'[u] = span[u]
      /\ DOMAIN lists' = DOMAIN lists
      /\ \A i \in DOMAIN lists : i # h => lists'[i] = lists[i]
      /\ lists' \in Seq(Seq(Spans))
  <2>1. /\ DOMAIN lists' = DOMAIN lists /\ lists'[h] = new
        /\ \A i \in DOMAIN lists : i # h => lists'[i] = lists[i]
    BY <1>2, <1>3, <1>4
  <2>2. lists' \in Seq(Seq(Spans))
    BY <1>2, <1>3, <1>4, <1>5
  <2>3. /\ todo'[t] = <<>> /\ span'[t] = NoSpan
        /\ \A u \in Threads \ {t} : todo'[u] = todo[u] /\ span'[u] = span[u]
    BY <1>3 DEF Running, Typed
  <2> QED
    BY <2>1, <2>2, <2>3
<1>7. <<>> \in Outside /\ <<>> \notin OnEnd /\ <<>> \notin WalkingCalls /\ Owed(<<>>) = 0
  BY OwedFacts, KindsApart DEF Outside
<1>8. todo[t] \notin WalkingCalls /\ Owed(todo[t]) = 0
  BY <1>1, KindsApart, OwedFacts
<1>9. Typed'
  <2>1. /\ todo' \in [Threads -> Outside \cup OnEnd \cup Gathering \cup WalkingCalls]
        /\ span' \in [Threads -> Spans \cup {NoSpan}]
    BY <1>3, <1>7 DEF Running, Typed
  <2>2. crossed' \subseteq Spans
    BY <1>2, <1>3 DEF Running, Typed
  <2> QED
    BY <1>3, <1>6, <2>1, <2>2 DEF Running, Typed
<1>10. InTurn'
  BY <1>6, <1>7 DEF Running, InTurn
\* What is on a list afterwards was there, or is the span at its end.
<1>11. ASSUME NEW i \in DOMAIN lists', NEW k \in DOMAIN lists'[i]
       PROVE  \/ k \in DOMAIN lists[i] /\ lists'[i][k] = lists[i][k]
              \/ i = h /\ k = top /\ lists'[i][k] = span[t]
  <2>1. CASE i = h
    BY <1>5, <1>6, <2>1 DEF old
  <2>2. CASE i # h
    BY <1>6, <2>2
  <2> QED
    BY <2>1, <2>2
<1>12. \A i \in DOMAIN lists : \A k \in DOMAIN lists[i] : lists[i][k] # span[t]
  BY <1>2 DEF Running, Placed
<1>13. Placed'
  <2>1. ASSUME NEW i \in DOMAIN lists', NEW j \in DOMAIN lists', NEW k \in DOMAIN lists'[i],
               NEW m \in DOMAIN lists'[j], lists'[i][k] = lists'[j][m]
        PROVE  i = j /\ k = m
    <3>1. i \in DOMAIN lists /\ j \in DOMAIN lists
      BY <1>6
    <3>2. CASE i = h /\ k = top /\ lists'[i][k] = span[t]
      BY <1>11, <1>12, <2>1, <3>1, <3>2
    <3>3. CASE k \in DOMAIN lists[i] /\ lists'[i][k] = lists[i][k]
      <4>1. m \in DOMAIN lists[j] /\ lists'[j][m] = lists[j][m]
        BY <1>11, <1>12, <2>1, <3>1, <3>3
      <4>2. \A p, q \in DOMAIN lists : \A x \in DOMAIN lists[p], y \in DOMAIN lists[q] :
               lists[p][x] = lists[q][y] => p = q /\ x = y
        BY DEF Running, Placed
      <4>3. lists[i][k] = lists[j][m]
        BY <2>1, <3>3, <4>1
      <4> QED
        BY <3>1, <3>3, <4>1, <4>2, <4>3, Zenon
    <3> QED
      BY <1>11, <3>2, <3>3
  <2>2. \A i \in DOMAIN lists' : \A k \in DOMAIN lists'[i] : lists'[i][k] \in ended'
    BY <1>2, <1>3, <1>6, <1>11 DEF Running, Placed
  <2>3. ASSUME NEW u \in Threads, span'[u] # NoSpan
        PROVE  /\ span'[u] \in ended'
               /\ \A i \in DOMAIN lists' : \A k \in DOMAIN lists'[i] : lists'[i][k] # span'[u]
               /\ \A v \in Threads : span'[v] = span'[u] => v = u
    <3>1. u # t /\ span'[u] = span[u] /\ span[u] # span[t]
      BY <1>2, <1>6, <2>3 DEF Running, Placed
    <3>2. \A i \in DOMAIN lists : \A k \in DOMAIN lists[i] : lists[i][k] # span[u]
      BY <2>3, <3>1 DEF Running, Placed
    <3>3. \A i \in DOMAIN lists' : \A k \in DOMAIN lists'[i] : lists'[i][k] # span'[u]
      BY <1>6, <1>11, <3>1, <3>2
    <3>4. \A v \in Threads : span'[v] = span'[u] => v = u
      BY <1>6, <2>3, <3>1 DEF Running, Placed
    <3>5. span'[u] \in ended'
      BY <1>3, <2>3, <3>1 DEF Running, Placed
    <3> QED
      BY <3>3, <3>4, <3>5
  <2> QED
    BY <2>1, <2>2, <2>3 DEF Placed
<1>14. \A u \in Threads : todo'[u] \in WalkingCalls =>
          todo[u] \in WalkingCalls /\ held'[u] = held[u] /\ held[u] # buffer
  BY <1>3, <1>6, <1>7 DEF Running, Walked
<1>15. Walked'
  <2>1. \A u \in Threads : Len(batch'[u]) = Owed(todo'[u])
    BY <1>3, <1>6, <1>7, <1>8 DEF Running, Walked
  <2>2. \A u \in Threads : todo'[u] \in WalkingCalls => held'[u] # buffer'
    BY <1>3, <1>14
  <2>3. ASSUME NEW u \in Threads, NEW v \in Threads, todo'[u] \in WalkingCalls,
               todo'[v] \in WalkingCalls, held'[u] = held'[v], u # v,
               NEW k \in DOMAIN lists'[held'[u]]
        PROVE  lists'[held'[u]][k] \in crossed'
    <3>1. \A m \in DOMAIN lists[held[u]] : lists[held[u]][m] \in crossed
      BY <1>14, <2>3 DEF Running, Walked
    <3>2. held'[u] \in DOMAIN lists'
      BY <1>9 DEF Typed
    <3>3. held'[u] = held[u] /\ held[u] # buffer
      BY <1>14, <2>3
    <3> QED
      BY <1>3, <1>11, <3>1, <3>2, <3>3
  <2> QED
    BY <2>1, <2>2, <2>3 DEF Walked
<1>16. ASSUME NEW x \in Spans \ crossed'
       PROVE  x \in Awaiting' <=> x \in Awaiting
  <2>1. x # NoSpan /\ h \in DOMAIN lists
    BY <1>2, SpanAssumption
  <2>2. (\E u \in Threads : span[u] = x) <=> (x = span[t] \/ \E u \in Threads : span'[u] = x)
    BY <1>6, <2>1
  <2>3. x = span[t] => h = buffer
    BY <1>3
  <2>4. buffer \in DOMAIN lists /\ buffer' = buffer
    BY <1>3 DEF Running, Typed
  <2>5. (\E k \in DOMAIN lists'[buffer'] : lists'[buffer'][k] = x) <=>
           ((x = span[t]) \/ \E k \in DOMAIN lists[buffer] : lists[buffer][k] = x)
    <3>1. CASE h = buffer
      <4>1. (\E k \in DOMAIN new : new[k] = x) <=>
               ((x = span[t]) \/ \E k \in DOMAIN old : old[k] = x)
        BY <1>5
      <4> QED
        BY <1>6, <2>4, <3>1, <4>1 DEF old
    <3>2. CASE h # buffer
      BY <1>6, <2>3, <2>4, <3>2
    <3> QED
      BY <3>1, <3>2
  <2>6. ASSUME NEW u \in Threads
        PROVE  (todo'[u] \in WalkingCalls /\
                  \E k \in DOMAIN lists'[held'[u]] : k >= next'[u] /\ lists'[held'[u]][k] = x)
               <=>
               (todo[u] \in WalkingCalls /\
                  \E k \in DOMAIN lists[held[u]] : k >= next[u] /\ lists[held[u]][k] = x)
    <3>1. todo'[u] \in WalkingCalls <=> todo[u] \in WalkingCalls
      BY <1>6, <1>7, <1>8
    <3>2. CASE todo[u] \notin WalkingCalls
      BY <3>1, <3>2
    <3>3. CASE todo[u] \in WalkingCalls
      <4>1. held'[u] = held[u] /\ held[u] # buffer /\ held[u] \in DOMAIN lists /\ next'[u] = next[u]
        BY <1>3, <1>14, <3>1, <3>3 DEF Running, Typed
      <4>2. CASE held[u] # h
        BY <1>6, <3>1, <4>1, <4>2
      <4>3. CASE held[u] = h
        <5>1. x # span[t]
          BY <2>3, <4>1, <4>3
        <5>2. (\E k \in DOMAIN new : k >= next[u] /\ new[k] = x) <=>
                 \E k \in DOMAIN old : k >= next[u] /\ old[k] = x
          BY <1>5, <5>1
        <5> QED
          BY <1>6, <3>1, <4>1, <4>3, <5>2 DEF old
      <4> QED
        BY <4>2, <4>3
    <3> QED
      BY <3>2, <3>3
  <2> QED
    BY <2>2, <2>5, <2>6 DEF Awaiting
<1>17. Accounted'
  <2>1. crossed \subseteq crossed'
    BY <1>3
  <2> QED
    BY <1>3, <1>9, <1>16, <2>1, AccountsKept DEF Running, Typed
<1> QED
  BY <1>3, <1>9, <1>10, <1>13, <1>15, <1>17 DEF Running

LEMMA SwapKeepsAccounts ==
    ASSUME Running, NEW t \in Threads, Swap(t)
    PROVE  Running'
<1> DEFINE h == held[t]
<1>1. /\ todo[t] = <<"swap", "walk">> /\ Tail(todo[t]) = <<"walk">>
      /\ Tail(Tail(todo[t])) = <<>>
  <2>1. todo[t] = <<"swap", "walk">> /\ Tail(todo[t]) = <<"walk">>
    BY StepAt, Calls DEF Swap
  <2> QED
    BY <2>1
<1>2. todo[t] \notin WalkingCalls /\ todo[t] \notin OnEnd /\ Owed(todo[t]) = 0
  <2>1. todo[t] \in Gathering
    BY <1>1 DEF Gathering
  <2> QED
    BY <2>1, KindsApart, OwedFacts
<1>3. /\ lists' = Append(lists, <<>>) /\ buffer' = Len(lists) + 1
      /\ next' = [next EXCEPT ![t] = 1]
      /\ crossed' = IF h = buffer THEN crossed
                    ELSE crossed \cup OnList(buffer) \cup OnList(h)
      /\ UNCHANGED <<mode, seq, events, ended, held, span, batch>>
  BY DEF Swap, emitterRest
<1>4. PICK c \in {<<>>, <<"walk">>} :
         /\ todo' = [todo EXCEPT ![t] = c]
         /\ failed' = IF c = <<"walk">> THEN failed ELSE failed \cup OnList(h)
  <2>1. PICK installed \in Extras :
           IF installed
           THEN /\ Done(t)
                /\ UNCHANGED failed
           ELSE /\ todo' = [todo EXCEPT ![t] = Tail(Tail(@))]
                /\ failed' = failed \cup OnList(h)
    BY DEF Swap
  <2>2. CASE installed
    BY <1>1, <2>1, <2>2 DEF Done
  <2>3. CASE ~installed
    <3>1. <<>> # <<"walk">>
      OBVIOUS
    <3> QED
      BY <1>1, <2>1, <2>3, <3>1
  <2> QED
    BY <2>2, <2>3
<1>5. /\ c \in Outside \cup WalkingCalls /\ Owed(c) = 0 /\ c \notin OnEnd
      /\ c \in WalkingCalls <=> c = <<"walk">>
  <2>1. <<>> \in Outside /\ <<"walk">> \in WalkingCalls /\ <<>> \notin WalkingCalls
        /\ <<>> \notin OnEnd /\ <<"walk">> \notin OnEnd
    BY KindsApart DEF Outside, WalkingCalls
  <2>2. Owed(<<>>) = 0 /\ Owed(<<"walk">>) = 0
    BY <2>1, OwedFacts
  <2> QED
    BY <2>1, <2>2
<1>6. todo'[t] = c /\ \A u \in Threads \ {t} : todo'[u] = todo[u]
  BY <1>4 DEF Running, Typed
<1>7. /\ lists \in Seq(Seq(Spans)) /\ Len(lists) \in Nat
      /\ DOMAIN lists = 1 .. Len(lists) /\ buffer \in DOMAIN lists
      /\ held \in [Threads -> DOMAIN lists] /\ h \in DOMAIN lists
  BY DEF Running, Typed
<1>8. /\ lists' \in Seq(Seq(Spans)) /\ DOMAIN lists' = 1 .. Len(lists) + 1
      /\ DOMAIN lists \subseteq DOMAIN lists'
      /\ buffer' \in DOMAIN lists' /\ buffer' \notin DOMAIN lists
      /\ \A i \in DOMAIN lists' : i \in DOMAIN lists \/ i = buffer'
      /\ \A i \in DOMAIN lists : lists'[i] = lists[i]
      /\ lists'[buffer'] = <<>>
  <2>1. <<>> \in Seq(Spans)
    OBVIOUS
  <2> QED
    BY <1>3, <1>7, <2>1
<1>9. ASSUME NEW i \in DOMAIN lists', NEW k \in DOMAIN lists'[i]
      PROVE  i \in DOMAIN lists /\ lists'[i] = lists[i] /\ i # buffer'
  <2>1. i # buffer'
    <3> SUFFICES ASSUME i = buffer' PROVE FALSE
      OBVIOUS
    <3>1. k \in DOMAIN <<>>
      BY <1>8
    <3> QED
      BY <3>1
  <2> QED
    BY <1>8, <2>1
<1>10. \A i \in DOMAIN lists : OnList(i) \subseteq Spans
  BY <1>7 DEF OnList
<1>11. Typed'
  <2>1. todo' \in [Threads -> Outside \cup OnEnd \cup Gathering \cup WalkingCalls]
    BY <1>4, <1>5 DEF Running, Typed
  <2>2. failed' \subseteq Spans /\ crossed' \subseteq Spans
    BY <1>3, <1>4, <1>7, <1>10 DEF Running, Typed
  <2>3. next' \in [Threads -> Nat \ {0}] /\ held' \in [Threads -> DOMAIN lists']
    BY <1>3, <1>7, <1>8 DEF Running, Typed
  <2> QED
    BY <1>3, <1>8, <2>1, <2>2, <2>3 DEF Running, Typed
<1>12. InTurn'
  BY <1>2, <1>3, <1>5, <1>6 DEF Running, InTurn
<1>13. Placed'
  <2>1. \A i, j \in DOMAIN lists' : \A k \in DOMAIN lists'[i], m \in DOMAIN lists'[j] :
           lists'[i][k] = lists'[j][m] => i = j /\ k = m
    BY <1>9 DEF Running, Placed
  <2>2. \A i \in DOMAIN lists' : \A k \in DOMAIN lists'[i] : lists'[i][k] \in ended'
    BY <1>3, <1>9 DEF Running, Placed
  <2>3. \A u \in Threads : span'[u] # NoSpan =>
          /\ span'[u] \in ended'
          /\ \A i \in DOMAIN lists' : \A k \in DOMAIN lists'[i] : lists'[i][k] # span'[u]
          /\ \A v \in Threads : span'[v] = span'[u] => v = u
    BY <1>3, <1>9 DEF Running, Placed
  <2> QED
    BY <2>1, <2>2, <2>3 DEF Placed
\* Who walks walked before, but for this call.
<1>14. \A u \in Threads \ {t} :
          /\ todo'[u] \in WalkingCalls <=> todo[u] \in WalkingCalls
          /\ held'[u] = held[u] /\ held[u] \in DOMAIN lists /\ next'[u] = next[u]
          /\ lists'[held[u]] = lists[held[u]]
  BY <1>3, <1>6, <1>7, <1>8 DEF Running, Typed
<1>15. h # buffer => \A k \in DOMAIN lists[h] : lists[h][k] \in crossed'
  BY <1>3 DEF OnList
<1>16. Walked'
  <2>1. \A u \in Threads : Len(batch'[u]) = Owed(todo'[u])
    BY <1>2, <1>3, <1>5, <1>6 DEF Running, Walked
  <2>2. \A u \in Threads : held'[u] # buffer'
    BY <1>3, <1>7, <1>8
  <2>3. ASSUME NEW u \in Threads, NEW v \in Threads, todo'[u] \in WalkingCalls,
               todo'[v] \in WalkingCalls, held'[u] = held'[v], u # v,
               NEW k \in DOMAIN lists'[held'[u]]
        PROVE  lists'[held'[u]][k] \in crossed'
    <3>1. held'[u] = held[u] /\ held'[v] = held[v] /\ lists'[held[u]] = lists[held[u]]
      BY <1>3, <1>7, <1>8
    <3>2. CASE u # t /\ v # t
      <4>1. todo[u] \in WalkingCalls /\ todo[v] \in WalkingCalls
        BY <1>14, <2>3, <3>2
      <4>2. \A m \in DOMAIN lists[held[u]] : lists[held[u]][m] \in crossed
        BY <2>3, <3>1, <4>1 DEF Running, Walked
      <4> QED
        BY <1>3, <2>3, <3>1, <4>2
    <3>3. CASE u = t \/ v = t
      <4>1. PICK w \in Threads \ {t} : held[w] = h /\ todo'[w] \in WalkingCalls
        BY <2>3, <3>1, <3>3
      <4>2. h # buffer
        BY <1>14, <4>1 DEF Running, Walked
      <4>3. held[u] = h
        BY <2>3, <3>1, <3>3
      <4> QED
        BY <1>15, <2>3, <3>1, <4>2, <4>3
    <3> QED
      BY <3>2, <3>3
  <2> QED
    BY <2>1, <2>2, <2>3 DEF Walked
<1>17. ASSUME NEW x \in Spans \ crossed'
       PROVE  /\ x \in Awaiting' => x \in Awaiting
              /\ x \in Awaiting => x \in Awaiting' \cup failed'
  <2>1. ASSUME x \in Awaiting' PROVE x \in Awaiting
    <3>1. \/ \E u \in Threads : span'[u] = x
          \/ \E u \in Threads : todo'[u] \in WalkingCalls /\
                \E k \in DOMAIN lists'[held'[u]] : k >= next'[u] /\ lists'[held'[u]][k] = x
      BY <1>9, <1>8, <2>1 DEF Awaiting
    <3>2. CASE \E u \in Threads : span'[u] = x
      BY <1>3, <3>2 DEF Awaiting
    <3>3. ASSUME NEW u \in Threads, todo'[u] \in WalkingCalls, NEW k \in DOMAIN lists'[held'[u]],
                 k >= next'[u], lists'[held'[u]][k] = x
          PROVE  x \in Awaiting
      <4>1. CASE u # t
        BY <1>14, <3>3, <4>1 DEF Awaiting
      <4>2. CASE u = t
        <5>1. held'[u] = h /\ lists'[h] = lists[h]
          BY <1>3, <1>7, <1>8, <4>2
        <5>2. k \in DOMAIN lists[h] /\ lists[h][k] = x
          BY <3>3, <5>1
        <5>3. h = buffer
          BY <1>15, <5>2
        <5> QED
          BY <5>2, <5>3 DEF Awaiting
      <4> QED
        BY <4>1, <4>2
    <3> QED
      BY <3>1, <3>2, <3>3
  <2>2. ASSUME x \in Awaiting PROVE x \in Awaiting' \cup failed'
    <3>1. CASE \E u \in Threads : span[u] = x
      BY <1>3, <3>1 DEF Awaiting
    <3>2. ASSUME NEW u \in Threads, todo[u] \in WalkingCalls, NEW k \in DOMAIN lists[held[u]],
                 k >= next[u], lists[held[u]][k] = x
          PROVE  x \in Awaiting'
      <4>1. u # t
        BY <1>2, <3>2
      <4> QED
        BY <1>14, <3>2, <4>1 DEF Awaiting
    <3>3. ASSUME NEW k \in DOMAIN lists[buffer], lists[buffer][k] = x
          PROVE  x \in Awaiting' \cup failed'
      <4>1. h = buffer
        <5>1. x \in OnList(buffer)
          BY <3>3 DEF OnList
        <5> QED
          BY <1>3, <5>1
      <4>2. CASE c = <<"walk">>
        <5>1. /\ todo'[t] \in WalkingCalls /\ held'[t] = h /\ lists'[h] = lists[h] /\ next'[t] = 1
          BY <1>3, <1>5, <1>6, <1>7, <1>8, <4>2 DEF Running, Typed
        <5>2. k >= 1
          <6>1. lists[buffer] \in Seq(Spans)
            BY <1>7
          <6> QED
            BY <3>3, <6>1
        <5> QED
          BY <3>3, <4>1, <5>1, <5>2 DEF Awaiting
      <4>3. CASE c # <<"walk">>
        <5>1. x \in OnList(h)
          BY <3>3, <4>1 DEF OnList
        <5> QED
          BY <1>4, <4>3, <5>1
      <4> QED
        BY <4>2, <4>3
    <3> QED
      BY <2>2, <3>1, <3>2, <3>3 DEF Awaiting
  <2> QED
    BY <2>1, <2>2
<1>18. Accounted'
  <2>1. crossed \subseteq crossed' /\ failed \subseteq failed'
    BY <1>3, <1>4
  <2>2. \A x \in Spans \ crossed' :
           /\ x \in ended \ Awaiting => x \in ended' \ Awaiting'
           /\ x \in ended' \ (failed' \cup Awaiting') => x \in ended \ (failed \cup Awaiting)
    BY <1>3, <1>17, <2>1
  <2> QED
    BY <1>3, <1>11, <2>1, <2>2, AccountsKept DEF Running, Typed
<1> QED
  BY <1>3, <1>11, <1>12, <1>13, <1>16, <1>18 DEF Running

\* The steps that a span's events add to a walk.
LEMMA IngestSteps ==
    ASSUME NEW n \in {0, 1, 2}
    PROVE  LET c == [k \in 1 .. n |-> "ingest"] \o <<"walk">>
           IN  c \in WalkingCalls /\ Owed(c) = n
<1> DEFINE f == [k \in 1 .. n |-> "ingest"]
           w == <<"walk">>
           c == f \o w
           S == {"ingest", "walk"}
<1>1. f \in Seq(S) /\ Len(f) = n /\ \A k \in 1 .. n : f[k] = "ingest"
  BY n \in Nat
<1>2. w \in Seq(S) /\ Len(w) = 1 /\ w[1] = "walk"
  OBVIOUS
<1> HIDE DEF f, w
<1>3. /\ c \in Seq(S) /\ Len(c) = n + 1
      /\ \A k \in 1 .. n : c[k] = "ingest"
      /\ c[n + 1] = "walk"
  <2>1. /\ c \in Seq(S) /\ Len(c) = Len(f) + Len(w)
        /\ \A i \in 1 .. Len(f) + Len(w) :
              c[i] = IF i <= Len(f) THEN f[i] ELSE w[i - Len(f)]
    BY <1>1, <1>2, ConcatProperties, Zenon
  <2> HIDE DEF c
  <2> QED
    BY <1>1, <1>2, <2>1
<1> HIDE DEF c
<1>4. CASE n = 0
  <2>1. c = <<"walk">>
    BY <1>3, <1>4
  <2> QED
    BY <1>4, <2>1, OwedFacts DEF c, f, w, WalkingCalls
<1>5. CASE n = 1
  <2>1. c = <<"ingest", "walk">>
    BY <1>3, <1>5
  <2> QED
    BY <1>5, <2>1, OwedFacts DEF c, f, w, WalkingCalls
<1>6. CASE n = 2
  <2>1. c = <<"ingest", "ingest", "walk">>
    BY <1>3, <1>6
  <2> QED
    BY <1>6, <2>1, OwedFacts DEF c, f, w, WalkingCalls
<1> QED
  BY <1>4, <1>5, <1>6

LEMMA WalkKeeps ==
    ASSUME Running, NEW t \in Threads, Walk(t)
    PROVE  Running'
<1> DEFINE h == held[t]
           l == lists[h]
           s == l[next[t]]
           a == Adapt(s)
<1>1. todo[t] = <<"walk">> /\ Tail(todo[t]) = <<>> /\ todo[t] \in WalkingCalls
  BY StepAt, Calls DEF Walk, WalkingCalls
<1>2. UNCHANGED <<mode, seq, events, ended, lists, buffer, held, span, failed, crossed>>
  BY DEF Walk, emitterRest
<1>3. Owed(todo[t]) = 0 /\ todo[t] \notin OnEnd
  BY <1>1, OwedFacts, KindsApart
<1>4. CASE next[t] > Len(l)
  <2>1. todo' = [todo EXCEPT ![t] = <<>>] /\ UNCHANGED <<next, batch>>
    BY <1>1, <1>4 DEF Walk, Done
  <2>2. <<>> \in Outside /\ <<>> \notin OnEnd
    BY KindsApart DEF Outside
  <2> QED
    BY <1>2, <1>3, <1>4, <2>1, <2>2, StillStep
<1>5. CASE ~(next[t] > Len(l))
  <2>1. /\ l \in Seq(Spans) /\ next[t] \in Nat \ {0} /\ h \in DOMAIN lists
        /\ h # buffer /\ buffer \in DOMAIN lists
    <3>1. h \in DOMAIN lists /\ buffer \in DOMAIN lists /\ next[t] \in Nat \ {0}
      BY DEF Running, Typed
    <3>2. h # buffer
      BY <1>1 DEF Running, Walked
    <3> QED
      BY <3>1, <3>2 DEF Running, Typed
  <2>2. next[t] \in DOMAIN l /\ s \in Spans
    BY <1>5, <2>1
  <2>3. /\ a \in Seq(Line) /\ Len(a) \in {0, 1, 2}
        /\ \A k \in DOMAIN a :
              /\ a[k].id.by = s
              /\ \A j \in DOMAIN a : a[j].id = a[k].id => j = k
    BY <2>2, AdaptFacts
  <2>4. /\ next' = [next EXCEPT ![t] = next[t] + 1]
        /\ batch' = [batch EXCEPT ![t] = a]
        /\ todo' = [todo EXCEPT ![t] = [k \in DOMAIN a |-> "ingest"] \o todo[t]]
    BY <1>5 DEF Walk
  <2>5. s \in ended /\ s \in Awaiting
    <3>1. next[t] >= next[t]
      BY <2>1
    <3>2. s \in ended
      BY <2>1, <2>2 DEF Running, Placed
    <3> QED
      BY <1>1, <2>2, <3>1, <3>2 DEF Awaiting
  <2> DEFINE c == [k \in DOMAIN a |-> "ingest"] \o todo[t]
  <2> HIDE DEF a
  <2>6. c \in WalkingCalls /\ Owed(c) = Len(a)
    <3>1. DOMAIN a = 1 .. Len(a)
      BY <2>3
    <3> QED
      BY <1>1, <2>3, <3>1, IngestSteps
  <2>7. todo' = [todo EXCEPT ![t] = c]
    BY <2>4
  <2> HIDE DEF c
  <2>8. /\ todo'[t] = c /\ batch'[t] = a /\ next'[t] = next[t] + 1
        /\ \A u \in Threads \ {t} :
              todo'[u] = todo[u] /\ batch'[u] = batch[u] /\ next'[u] = next[u]
    BY <2>4, <2>7 DEF Running, Typed
  <2>9. Typed'
    <3>1. todo' \in [Threads -> Outside \cup OnEnd \cup Gathering \cup WalkingCalls]
      BY <2>6, <2>7 DEF Running, Typed
    <3>2. next' \in [Threads -> Nat \ {0}]
      BY <2>1, <2>4 DEF Running, Typed
    <3>3. batch' \in [Threads -> Seq(Line)]
      BY <2>3, <2>4 DEF Running, Typed
    <3> QED
      BY <1>2, <3>1, <3>2, <3>3 DEF Running, Typed
  <2>10. InTurn'
    BY <1>2, <1>3, <2>6, <2>8, KindsApart DEF Running, InTurn
  <2>11. Placed'
    BY <1>2 DEF Running, Placed
  <2>12. \A u \in Threads : todo'[u] \in WalkingCalls <=> todo[u] \in WalkingCalls
    BY <1>1, <2>6, <2>8
  <2>13. Walked'
    <3>1. \A u \in Threads : Len(batch'[u]) = Owed(todo'[u])
      BY <2>6, <2>8 DEF Running, Walked
    <3> QED
      BY <1>2, <2>12, <3>1 DEF Running, Walked
\* Only what the walk came to stops waiting, unless it is crossed.
  <2>14. ASSUME NEW x \in Spans, x # s PROVE x \in Awaiting' <=> x \in Awaiting
    <3>1. ASSUME NEW u \in Threads, NEW k \in DOMAIN lists[held[u]], lists[held[u]][k] = x
          PROVE  k >= next'[u] <=> k >= next[u]
      <4>1. CASE u # t
        BY <2>8, <4>1
      <4>2. CASE u = t
        <5>1. k # next[t] /\ k \in Nat
          BY <2>1, <2>14, <3>1, <4>2
        <5> QED
          BY <2>1, <2>8, <4>2, <5>1
      <4> QED
        BY <4>1, <4>2
    <3> QED
      BY <1>2, <2>12, <3>1 DEF Awaiting
  <2>15. ASSUME s \notin crossed PROVE s \notin Awaiting'
    <3> SUFFICES ASSUME s \in Awaiting' PROVE FALSE
      OBVIOUS
    <3>1. \A u \in Threads : span'[u] # s
      <4> SUFFICES ASSUME NEW u \in Threads, span[u] = s PROVE FALSE
        BY <1>2
      <4>1. s # NoSpan
        BY <2>2, SpanAssumption
      <4>2. \A i \in DOMAIN lists : \A k \in DOMAIN lists[i] : lists[i][k] # span[u]
        BY <4>1 DEF Running, Placed
      <4> QED
        BY <2>1, <2>2, <4>2
    <3>2. \A k \in DOMAIN lists'[buffer'] : lists'[buffer'][k] # s
      BY <1>2, <2>1, <2>2 DEF Running, Placed
    <3>3. PICK u \in Threads : todo'[u] \in WalkingCalls /\
             \E k \in DOMAIN lists'[held'[u]] : k >= next'[u] /\ lists'[held'[u]][k] = s
      BY <3>1, <3>2 DEF Awaiting
    <3>4. PICK k \in DOMAIN lists[held[u]] : k >= next'[u] /\ lists[held[u]][k] = s
      BY <1>2, <3>3
    <3>5. held[u] \in DOMAIN lists
      BY DEF Running, Typed
    <3>6. held[u] = h /\ k = next[t]
      BY <2>1, <2>2, <3>4, <3>5 DEF Running, Placed
    <3>7. u = t
      BY <1>1, <2>2, <2>12, <2>15, <3>3, <3>6 DEF Running, Walked
    <3> QED
      BY <2>1, <2>8, <3>4, <3>6, <3>7
  <2> HIDE DEF l, s
  <2>16. \A id : id.by = s => s \in crossed \/ ~OnEmitter(id)
    <3> SUFFICES ASSUME NEW id, id.by = s, s \notin crossed, NEW j \in DOMAIN events,
                        events[j].id = id
                 PROVE  FALSE
      BY DEF OnEmitter
    <3> QED
      BY <2>2, <2>5 DEF Running, Accounted
  <2>17. batch[t] = <<>>
    <3>1. Len(batch[t]) = 0 /\ batch[t] \in Seq(Line)
      BY <1>3 DEF Running, Walked, Typed
    <3> QED
      BY <3>1
  <2>18. Accounted'
    <3>1. ASSUME NEW k \in DOMAIN events', events'[k].id.by \in Spans \ crossed'
          PROVE  /\ events'[k].id.by \in ended' \ Awaiting'
                 /\ \A j \in DOMAIN events' : events'[j].id = events'[k].id => j = k
      <4>1. /\ events[k].id.by \in ended \ Awaiting
            /\ \A j \in DOMAIN events : events[j].id = events[k].id => j = k
        BY <1>2, <3>1 DEF Running, Accounted
      <4>2. events[k].id.by \in Spans /\ events[k].id.by # s
        BY <1>2, <2>5, <3>1, <4>1
      <4> QED
        BY <1>2, <2>14, <4>1, <4>2
    <3>2. ASSUME NEW u \in Threads, NEW k \in DOMAIN batch'[u], batch'[u][k].id.by \notin crossed'
          PROVE  /\ batch'[u][k].id.by \in ended' \ Awaiting'
                 /\ ~ \E j \in DOMAIN events' : events'[j].id = batch'[u][k].id
                 /\ \A v \in Threads : \A j \in DOMAIN batch'[v] :
                       batch'[v][j].id = batch'[u][k].id => v = u /\ j = k
      <4>1. CASE u = t
        <5>1. /\ k \in DOMAIN a /\ batch'[u][k] = a[k] /\ a[k].id.by = s /\ s \notin crossed
              /\ \A j \in DOMAIN a : a[j].id = a[k].id => j = k
          BY <1>2, <2>3, <2>8, <3>2, <4>1
        <5>2. ASSUME NEW v \in Threads, v # t, NEW j \in DOMAIN batch[v],
                     batch[v][j].id = a[k].id
              PROVE  FALSE
          <6>1. batch[v][j].id.by = s
            BY <5>1, <5>2
          <6> QED
            BY <2>5, <5>1, <5>2, <6>1 DEF Running, Accounted
        <5>3. s \in ended' \ Awaiting'
          BY <1>2, <2>5, <2>15, <5>1
        <5>4. ~ \E j \in DOMAIN events' : events'[j].id = a[k].id
          BY <1>2, <2>16, <5>1 DEF OnEmitter
        <5> QED
          BY <2>8, <4>1, <5>1, <5>2, <5>3, <5>4
      <4>2. CASE u # t
        <5>1. /\ k \in DOMAIN batch[u] /\ batch'[u][k] = batch[u][k]
              /\ batch[u][k].id.by \notin crossed
          BY <1>2, <2>8, <3>2, <4>2
        <5>2. /\ batch[u][k].id.by \in ended \ Awaiting
              /\ ~OnEmitter(batch[u][k].id)
              /\ \A v \in Threads : \A j \in DOMAIN batch[v] :
                    batch[v][j].id = batch[u][k].id => v = u /\ j = k
          BY <5>1 DEF Running, Accounted
        <5>3. batch[u][k].id.by \in Spans /\ batch[u][k].id.by # s
          BY <2>5, <5>2 DEF Running, Typed
        <5>4. batch[u][k].id.by \in ended' \ Awaiting'
          BY <1>2, <2>14, <5>2, <5>3
        <5>5. ASSUME NEW v \in Threads, NEW j \in DOMAIN batch'[v],
                     batch'[v][j].id = batch[u][k].id
              PROVE  v = u /\ j = k
          <6>1. v # t
            <7> SUFFICES ASSUME v = t PROVE FALSE
              OBVIOUS
            <7>1. batch'[v][j].id.by = s
              BY <2>3, <2>8
            <7> QED
              BY <5>3, <5>5, <7>1
          <6> QED
            BY <2>8, <5>2, <5>5, <6>1
        <5> QED
          BY <1>2, <5>1, <5>2, <5>4, <5>5 DEF OnEmitter
      <4> QED
        BY <4>1, <4>2
    <3>3. ASSUME NEW x \in ended' \ (failed' \cup crossed' \cup Awaiting'),
                 NEW k \in DOMAIN Adapt(x)
          PROVE  \/ \E j \in DOMAIN events' : events'[j].id = Adapt(x)[k].id
                 \/ \E u \in Threads : \E j \in DOMAIN batch'[u] : batch'[u][j].id = Adapt(x)[k].id
      <4>1. CASE x = s
        <5>1. k \in DOMAIN batch'[t] /\ batch'[t][k].id = Adapt(x)[k].id
          BY <2>8, <4>1 DEF a, s, l
        <5> QED
          BY <5>1
      <4>2. CASE x # s
        <5>1. x \in ended \ (failed \cup crossed \cup Awaiting)
          BY <1>2, <2>14, <4>2 DEF Running, Typed
        <5>2. OnEmitter(Adapt(x)[k].id) \/ InBatch(Adapt(x)[k].id)
          BY <5>1 DEF Running, Accounted
        <5>3. CASE OnEmitter(Adapt(x)[k].id)
          BY <1>2, <5>3 DEF OnEmitter
        <5>4. CASE InBatch(Adapt(x)[k].id)
          <6>1. PICK u \in Threads : \E j \in DOMAIN batch[u] : batch[u][j].id = Adapt(x)[k].id
            BY <5>4 DEF InBatch
          <6>2. u # t
            <7> SUFFICES ASSUME u = t PROVE FALSE
              OBVIOUS
            <7>1. DOMAIN batch[u] = {}
              BY <2>17
            <7> QED
              BY <6>1, <7>1
          <6> QED
            BY <2>8, <6>1, <6>2
        <5> QED
          BY <5>2, <5>3, <5>4
      <4> QED
        BY <4>1, <4>2
    <3> QED
      BY <3>1, <3>2, <3>3 DEF Accounted, OnEmitter, InBatch
  <2> QED
    BY <1>2, <2>9, <2>10, <2>11, <2>13, <2>18 DEF Running
<1> QED
  BY <1>4, <1>5

LEMMA IngestKeeps ==
    ASSUME Running, NEW t \in Threads, IngestEvent(t)
    PROVE  Running'
<1> DEFINE b == batch[t]
           e == Head(b)
           n == Len(events) + 1
<1>1. PICK c \in {<<"walk">>, <<"ingest", "walk">>} :
         /\ todo[t] \in WalkingCalls
         /\ Tail(todo[t]) = c
         /\ Owed(todo[t]) = Owed(c) + 1
  <2>1. \/ todo[t] = <<"ingest", "walk">> /\ Tail(todo[t]) = <<"walk">>
        \/ todo[t] = <<"ingest", "ingest", "walk">> /\ Tail(todo[t]) = <<"ingest", "walk">>
    BY StepAt, Calls DEF IngestEvent
  <2> QED
    BY <2>1, OwedFacts DEF WalkingCalls
<1>2. /\ events' = Append(events, e)
      /\ batch' = [batch EXCEPT ![t] = Tail(b)]
      /\ todo' = [todo EXCEPT ![t] = c]
      /\ UNCHANGED <<mode, seq, ended, lists, buffer, held, span, next, failed, crossed>>
  BY <1>1 DEF IngestEvent, Done, emitterRest
<1>3. c \in WalkingCalls /\ c \notin OnEnd /\ todo[t] \notin OnEnd
  BY <1>1, KindsApart DEF WalkingCalls
<1>4. /\ b \in Seq(Line) /\ Len(b) = Owed(c) + 1 /\ Owed(c) \in Nat
  <2>1. Owed(c) \in {0, 1}
    <3>1. c = <<"walk">> \/ c = <<"ingest", "walk">>
      OBVIOUS
    <3> QED
      BY <3>1, OwedFacts
  <2>2. b \in Seq(Line) /\ Len(b) = Owed(todo[t])
    BY DEF Running, Typed, Walked
  <2> QED
    BY <1>1, <2>1, <2>2
<1>5. /\ b # <<>> /\ e \in Line /\ Tail(b) \in Seq(Line) /\ Len(Tail(b)) = Owed(c)
      /\ e = b[1] /\ 1 \in DOMAIN b
      /\ \A k \in DOMAIN Tail(b) :
            /\ k \in Nat /\ k + 1 \in DOMAIN b /\ k + 1 # 1
            /\ Tail(b)[k] = b[k + 1]
      /\ \A k \in DOMAIN b : k # 1 => k - 1 \in DOMAIN Tail(b) /\ Tail(b)[k - 1] = b[k]
  <2>1. ASSUME NEW q \in Seq(Line), NEW m \in Nat, Len(q) = m + 1
        PROVE  /\ q # <<>> /\ Head(q) \in Line /\ Head(q) = q[1] /\ 1 \in DOMAIN q
               /\ Tail(q) \in Seq(Line) /\ Len(Tail(q)) = m
               /\ DOMAIN q = 1 .. m + 1 /\ DOMAIN Tail(q) = 1 .. m
               /\ \A k \in 1 .. m : Tail(q)[k] = q[k + 1]
    BY <2>1
  <2>2. /\ b # <<>> /\ Head(b) \in Line /\ Head(b) = b[1] /\ 1 \in DOMAIN b
        /\ Tail(b) \in Seq(Line) /\ Len(Tail(b)) = Owed(c)
        /\ DOMAIN b = 1 .. Owed(c) + 1 /\ DOMAIN Tail(b) = 1 .. Owed(c)
        /\ \A k \in 1 .. Owed(c) : Tail(b)[k] = b[k + 1]
    BY <1>4, <2>1, Zenon
  <2> HIDE DEF b
  <2>3. \A k \in 1 .. Owed(c) + 1 : k # 1 => k - 1 \in 1 .. Owed(c) /\ (k - 1) + 1 = k
    BY <1>4
  <2>4. \A k \in 1 .. Owed(c) : k \in Nat /\ k + 1 \in 1 .. Owed(c) + 1 /\ k + 1 # 1
    BY <1>4
  <2> QED
    BY <2>2, <2>3, <2>4
<1>6. /\ events \in Seq(Line) /\ n \in Nat
      /\ DOMAIN events' = 1 .. n /\ DOMAIN events = 1 .. n - 1
      /\ \A k \in DOMAIN events : events'[k] = events[k]
      /\ n \in DOMAIN events' /\ events'[n] = e /\ events' \in Seq(Line)
  BY <1>2, <1>5 DEF Running, Typed
<1>7. /\ todo'[t] = c /\ batch'[t] = Tail(b)
      /\ \A u \in Threads \ {t} : todo'[u] = todo[u] /\ batch'[u] = batch[u]
  BY <1>2 DEF Running, Typed
<1> HIDE DEF e, n
<1>8. Typed'
  <2>1. todo' \in [Threads -> Outside \cup OnEnd \cup Gathering \cup WalkingCalls]
    BY <1>2, <1>3 DEF Running, Typed
  <2>2. batch' \in [Threads -> Seq(Line)]
    BY <1>2, <1>5 DEF Running, Typed
  <2> QED
    BY <1>2, <1>6, <2>1, <2>2 DEF Running, Typed
<1>9. InTurn'
  BY <1>2, <1>3, <1>7 DEF Running, InTurn
<1>10. Placed'
  BY <1>2 DEF Running, Placed
<1>11. \A u \in Threads : todo'[u] \in WalkingCalls <=> todo[u] \in WalkingCalls
  BY <1>1, <1>3, <1>7
<1>12. Walked'
  <2>1. \A u \in Threads : Len(batch'[u]) = Owed(todo'[u])
    BY <1>5, <1>7 DEF Running, Walked
  <2> QED
    BY <1>2, <1>11, <2>1 DEF Running, Walked
<1>13. Awaiting' = Awaiting
  BY <1>2, <1>11 DEF Awaiting
\* Of every event still owed: where it was, and of every one that was: where
\* it is.
<1>14. ASSUME NEW u \in Threads, NEW k \in DOMAIN batch'[u]
       PROVE  \E m \in DOMAIN batch[u] :
                 /\ batch'[u][k] = batch[u][m]
                 /\ u = t => m = k + 1 /\ m # 1 /\ k \in Nat
                 /\ u # t => m = k
  <2>1. CASE u = t
    BY <1>5, <1>7, <2>1
  <2>2. CASE u # t
    BY <1>7, <2>2
  <2> QED
    BY <2>1, <2>2
<1>15. ASSUME NEW u \in Threads, NEW m \in DOMAIN batch[u], ~(u = t /\ m = 1)
       PROVE  \E k \in DOMAIN batch'[u] : batch'[u][k] = batch[u][m]
  <2>1. CASE u = t
    BY <1>5, <1>7, <1>15, <2>1
  <2>2. CASE u # t
    BY <1>7, <2>2
  <2> QED
    BY <2>1, <2>2
<1>16. ASSUME NEW u \in Threads, NEW m \in DOMAIN batch[u], batch[u][m].id.by \notin crossed
       PROVE  /\ batch[u][m].id.by \in ended \ Awaiting
              /\ \A j \in DOMAIN events : events[j].id # batch[u][m].id
              /\ \A v \in Threads : \A j \in DOMAIN batch[v] :
                    batch[v][j].id = batch[u][m].id => v = u /\ j = m
  BY <1>16 DEF Running, Accounted, OnEmitter
<1>17. e = batch[t][1] /\ 1 \in DOMAIN batch[t]
  BY <1>5
<1>18. \A k \in DOMAIN events' : k = n \/ k \in DOMAIN events
  BY <1>6
<1> HIDE DEF b
<1>19. Accounted'
  <2>1. ASSUME NEW k \in DOMAIN events', events'[k].id.by \in Spans \ crossed'
        PROVE  /\ events'[k].id.by \in ended' \ Awaiting'
               /\ \A j \in DOMAIN events' : events'[j].id = events'[k].id => j = k
    <3>1. CASE k = n
      <4>1. events'[k] = batch[t][1] /\ batch[t][1].id.by \notin crossed
        BY <1>2, <1>6, <1>17, <2>1, <3>1
      <4>2. /\ batch[t][1].id.by \in ended \ Awaiting
            /\ \A j \in DOMAIN events : events[j].id # batch[t][1].id
        BY <1>16, <1>17, <4>1
      <4> QED
        BY <1>2, <1>6, <1>13, <1>18, <3>1, <4>1, <4>2
    <3>2. CASE k \in DOMAIN events
      <4>1. events'[k] = events[k] /\ events[k].id.by \in Spans \ crossed
        BY <1>2, <1>6, <2>1, <3>2
      <4>2. /\ events[k].id.by \in ended \ Awaiting
            /\ \A j \in DOMAIN events : events[j].id = events[k].id => j = k
        BY <3>2, <4>1 DEF Running, Accounted
      <4>3. events'[n].id # events'[k].id
        <5> SUFFICES ASSUME events'[n].id = events'[k].id PROVE FALSE
          OBVIOUS
        <5>1. batch[t][1].id = events[k].id
          BY <1>6, <1>17, <4>1
        <5>2. batch[t][1].id.by \notin crossed
          BY <4>1, <5>1
        <5> QED
          BY <1>16, <1>17, <3>2, <5>1, <5>2
      <4> QED
        BY <1>2, <1>6, <1>13, <1>18, <4>1, <4>2, <4>3
    <3> QED
      BY <1>18, <3>1, <3>2
  <2>2. ASSUME NEW u \in Threads, NEW k \in DOMAIN batch'[u], batch'[u][k].id.by \notin crossed'
        PROVE  /\ batch'[u][k].id.by \in ended' \ Awaiting'
               /\ ~ \E j \in DOMAIN events' : events'[j].id = batch'[u][k].id
               /\ \A v \in Threads : \A j \in DOMAIN batch'[v] :
                     batch'[v][j].id = batch'[u][k].id => v = u /\ j = k
    <3>1. PICK m \in DOMAIN batch[u] :
             /\ batch'[u][k] = batch[u][m]
             /\ u = t => m = k + 1 /\ m # 1 /\ k \in Nat
             /\ u # t => m = k
      BY <1>14
    <3>2. batch[u][m].id.by \notin crossed
      BY <1>2, <2>2, <3>1
    <3>3. /\ batch[u][m].id.by \in ended \ Awaiting
          /\ \A j \in DOMAIN events : events[j].id # batch[u][m].id
          /\ \A v \in Threads : \A j \in DOMAIN batch[v] :
                batch[v][j].id = batch[u][m].id => v = u /\ j = m
      BY <1>16, <3>2
    <3>4. ASSUME NEW j \in DOMAIN events', events'[j].id = batch'[u][k].id PROVE FALSE
      <4>1. CASE j = n
        <5>1. batch[t][1].id = batch[u][m].id
          BY <1>6, <1>17, <3>1, <3>4, <4>1
        <5>2. t = u /\ 1 = m
          BY <1>17, <3>3, <5>1
        <5> QED
          BY <3>1, <5>2
      <4>2. CASE j \in DOMAIN events
        BY <1>6, <3>1, <3>3, <3>4, <4>2
      <4> QED
        BY <1>18, <4>1, <4>2
    <3>5. ASSUME NEW v \in Threads, NEW j \in DOMAIN batch'[v],
                 batch'[v][j].id = batch'[u][k].id
          PROVE  v = u /\ j = k
      <4>1. PICK i \in DOMAIN batch[v] :
               /\ batch'[v][j] = batch[v][i]
               /\ v = t => i = j + 1 /\ i # 1 /\ j \in Nat
               /\ v # t => i = j
        BY <1>14
      <4>2. v = u /\ i = m
        BY <3>1, <3>3, <3>5, <4>1
      <4> QED
        BY <3>1, <4>1, <4>2
    <3>6. batch'[u][k].id.by \in ended' \ Awaiting'
      BY <1>2, <1>13, <3>1, <3>3
    <3> QED
      BY <3>4, <3>5, <3>6
  <2>3. ASSUME NEW x \in ended' \ (failed' \cup crossed' \cup Awaiting'), NEW k \in DOMAIN Adapt(x)
        PROVE  \/ \E j \in DOMAIN events' : events'[j].id = Adapt(x)[k].id
               \/ \E u \in Threads : \E j \in DOMAIN batch'[u] : batch'[u][j].id = Adapt(x)[k].id
    <3>1. x \in ended \ (failed \cup crossed \cup Awaiting)
      BY <1>2, <1>13
    <3>2. OnEmitter(Adapt(x)[k].id) \/ InBatch(Adapt(x)[k].id)
      BY <3>1 DEF Running, Accounted
    <3>3. CASE OnEmitter(Adapt(x)[k].id)
      <4>1. PICK j \in DOMAIN events : events[j].id = Adapt(x)[k].id
        BY <3>3 DEF OnEmitter
      <4>2. j \in DOMAIN events' /\ events'[j] = events[j]
        BY <1>6
      <4> QED
        BY <4>1, <4>2
    <3>4. CASE InBatch(Adapt(x)[k].id)
      <4>1. PICK u \in Threads : \E j \in DOMAIN batch[u] : batch[u][j].id = Adapt(x)[k].id
        BY <3>4 DEF InBatch
      <4>2. PICK j \in DOMAIN batch[u] : batch[u][j].id = Adapt(x)[k].id
        BY <4>1
      <4>3. CASE u = t /\ j = 1
        <5>1. n \in DOMAIN events' /\ events'[n].id = Adapt(x)[k].id
          BY <1>6, <1>17, <4>2, <4>3
        <5> QED
          BY <5>1
      <4>4. CASE ~(u = t /\ j = 1)
        <5>1. PICK m \in DOMAIN batch'[u] : batch'[u][m] = batch[u][j]
          BY <1>15, <4>4
        <5> QED
          BY <4>2, <5>1
      <4> QED
        BY <4>3, <4>4
    <3> QED
      BY <3>2, <3>3, <3>4
  <2> QED
    BY <2>1, <2>2, <2>3 DEF Accounted, OnEmitter, InBatch
<1> QED
  BY <1>2, <1>8, <1>9, <1>10, <1>12, <1>19 DEF Running

-----------------------------------------------------------------------------
\* Initial states, every step, and what it says of a process between calls.

LEMMA InitRunning == SpanInit => Running
<1> SUFFICES ASSUME SpanInit PROVE Running
  OBVIOUS
<1> USE DEF SpanInit, Init
<1>1. <<>> \in Outside /\ Owed(<<>>) = 0 /\ <<>> \notin WalkingCalls
      /\ <<>> \notin OnEnd /\ <<>> \notin Gathering
  BY OwedFacts, KindsApart DEF Outside
<1>2. \A t \in Threads : /\ todo[t] = <<>> /\ span[t] = NoSpan /\ batch[t] = <<>>
  OBVIOUS
<1>3. <<>> \in Seq(Spans) /\ <<>> \in Seq(Line) /\ Len(<<>>) = 0 /\ DOMAIN <<>> = {}
  OBVIOUS
<1>4. lists \in Seq(Seq(Spans)) /\ DOMAIN lists = {1} /\ lists[1] = <<>> /\ buffer = 1
  BY <1>3
<1>5. Typed
  BY <1>1, <1>3, <1>4 DEF Typed
<1>6. InTurn
  BY <1>1, <1>2 DEF InTurn
<1>7. \A i \in DOMAIN lists : DOMAIN lists[i] = {}
  BY <1>3, <1>4
<1>8. Placed
  BY <1>2, <1>7 DEF Placed
<1>9. Walked
  <2>1. \A t \in Threads : Len(batch[t]) = Owed(todo[t]) /\ todo[t] \notin WalkingCalls
    BY <1>1, <1>2, <1>3
  <2> QED
    BY <2>1 DEF Walked
<1>10. Awaiting = {}
  BY <1>1, <1>2, <1>4, SpanAssumption DEF Awaiting
<1>11. Accounted
  BY <1>2, <1>10 DEF Accounted
<1> QED
  BY <1>5, <1>6, <1>8, <1>9, <1>11 DEF Running

LEMMA RunningStep ==
    ASSUME Running, [SpanNext]_allVars, mode' = "running"
    PROVE  Running'
<1>1. ASSUME NEW t \in Threads, NEW s \in Spans, CallOnEnd(t, s) PROVE Running'
  BY <1>1, OnEndKeeps
<1>2. ASSUME NEW t \in Threads, CallDrain(t) PROVE Running'
  BY <1>2, DrainCallKeeps
<1>3. ASSUME NEW t \in Threads, SpanStep(t) PROVE Running'
  BY <1>3, GatheringKeeps, BufferKeeps, SwapKeepsAccounts, WalkKeeps, IngestKeeps DEF SpanStep
<1>4. CASE EmitterStep
  BY <1>4, EmitterStepKeeps
<1>5. ~BeginSpanExit
  BY DEF BeginSpanExit
<1>6. CASE UNCHANGED allVars
  <2>1. UNCHANGED <<mode, todo, seq, events, ended, lists, buffer, held, span, next,
                    batch, failed, crossed>>
    BY <1>6 DEF allVars, vars, spanVars
  <2>2. Typed' /\ InTurn' /\ Placed' /\ Walked' /\ Awaiting' = Awaiting
    BY <2>1 DEF Running, Typed, InTurn, Placed, Walked, Awaiting
  <2>3. Accounted'
    BY <2>1, <2>2, AccountsKept DEF Running, Typed
  <2> QED
    BY <2>1, <2>2, <2>3 DEF Running
<1> QED
  BY <1>1, <1>2, <1>3, <1>4, <1>5, <1>6 DEF SpanNext

\* Nothing starts a process anew.
LEMMA StaysOut ==
    ASSUME [SpanNext]_allVars, mode' = "running"
    PROVE  mode = "running"
<1>1. ASSUME NEW t \in Threads, SpanStep(t) PROVE mode' = mode
  BY <1>1 DEF SpanStep, Lookup, Buffer, Drain, Take, Swap, Walk, IngestEvent, emitterRest
<1>2. ASSUME NEW t \in Threads, Step(t) PROVE mode' = mode
  BY <1>2 DEF Step, TakeSeq, AppendEvent, CheckFlushed, Commit, Snap, Truncate, Fill,
              Digest, OpenManifest, WriteManifest
<1>3. ASSUME NEW t \in Threads, FillPart(t) \/ FlushFails(t) PROVE mode' = mode
  BY <1>3 DEF FillPart, FlushFails
<1>4. ASSUME NEW t \in Threads, NEW s \in Spans, CallOnEnd(t, s) PROVE mode = "running"
  BY <1>4 DEF CallOnEnd
<1>5. ASSUME NEW t \in Threads, CallDrain(t) \/ CallEmit(t) PROVE mode = "running"
  BY <1>5 DEF CallDrain, CallEmit
<1>6. ~EndProcess /\ ~Die /\ ~BeginSpanExit
  BY DEF EndProcess, Die, BeginSpanExit
<1>7. CASE UNCHANGED allVars
  BY <1>7 DEF allVars, vars
<1> QED
  BY <1>1, <1>2, <1>3, <1>4, <1>5, <1>6, <1>7 DEF SpanNext, EmitterStep

LEMMA RunningIsConserved == Running => SpansConserved
<1> SUFFICES ASSUME Running, \A t \in Threads : Idle(t),
                    NEW s \in ended \ (failed \cup crossed), NEW k \in DOMAIN Adapt(s)
             PROVE  Copies(s, Adapt(s)[k].id) = 1
  BY DEF SpansConserved
<1> DEFINE id == Adapt(s)[k].id
           B == {j \in DOMAIN lists[buffer] : lists[buffer][j] = s}
           E == {j \in DOMAIN events : events[j].id = id}
<1>1. s \in Spans /\ id.by = s
  BY AdaptFacts DEF Running, Typed
<1> HIDE DEF id
<1>2. \A t \in Threads : todo[t] = <<>> /\ <<>> \notin WalkingCalls /\ <<>> \notin OnEnd
  BY KindsApart DEF Idle, Outside
<1>3. \A t \in Threads : span[t] = NoSpan /\ batch[t] = <<>>
  <2>1. \A t \in Threads : span[t] = NoSpan
    BY <1>2 DEF Running, InTurn
  <2>2. ASSUME NEW t \in Threads PROVE batch[t] = <<>>
    <3>1. Len(batch[t]) = 0 /\ batch[t] \in Seq(Line)
      BY <1>2, OwedFacts DEF Running, Walked, Typed, Outside
    <3> QED
      BY <3>1
  <2> QED
    BY <2>1, <2>2
<1>4. s \in Awaiting <=> B # {}
  BY <1>1, <1>2, <1>3, SpanAssumption DEF Awaiting
<1>5. \A i, j \in B : i = j
  BY DEF Running, Placed, Typed
<1>6. \A i, j \in E : i = j
  BY <1>1 DEF Running, Accounted
<1>7. E # {} => s \notin Awaiting
  BY <1>1 DEF Running, Accounted
<1>8. s \notin Awaiting => E # {}
  BY <1>3 DEF Running, Accounted, OnEmitter, InBatch, id
<1>9. Cardinality({}) = 0 /\ \A j : Cardinality({j}) = 1
  BY FS_EmptySet, FS_Singleton
<1> HIDE DEF B, E
<1>10. Cardinality(B) + Cardinality(E) = 1
  <2>1. CASE B # {}
    <3>1. PICK j : B = {j}
      BY <1>5, <2>1
    <3>2. E = {}
      BY <1>4, <1>7, <2>1
    <3>3. Cardinality(B) = 1 /\ Cardinality(E) = 0
      BY <1>9, <3>1, <3>2
    <3> QED
      BY <3>3
  <2>2. CASE B = {}
    <3>1. PICK j : E = {j}
      BY <1>4, <1>6, <1>8, <2>2
    <3>2. Cardinality(B) = 0 /\ Cardinality(E) = 1
      BY <1>9, <2>2, <3>1
    <3> QED
      BY <3>2
  <2> QED
    BY <2>1, <2>2
<1> QED
  BY <1>10 DEF Copies, B, E, id

\* For any number of threads that end spans, drain and emit at once, and any
\* spans, with the otel extra installed or not: between calls every ended
\* span's events are on the emitter or still to come from the buffer, once,
\* but for what a drain without the extra drops and the crossed spans: those
\* appended to a list that was no longer the buffer, and those on the list two
\* drains took or in the buffer the second of them replaced.
THEOREM SpansAreConserved == SpanSpec => []SpansConserved
<1> DEFINE Inv == mode = "running" => Running
<1>1. SpanInit => Inv
  BY InitRunning
<1>2. Inv /\ [SpanNext]_allVars => Inv'
  BY RunningStep, StaysOut
<1>3. Inv => SpansConserved
  BY RunningIsConserved DEF SpansConserved
<1> QED
  BY <1>1, <1>2, <1>3, PTL DEF SpanSpec
=============================================================================
