---------------------------- MODULE IngestProofs ----------------------------
(***************************************************************************)
(* Proofs about Ingest for every bundle, every damage to its files and     *)
(* every rewrite while it is read: the type invariant, that what ingest    *)
(* accepts is clean, that every line is accounted for, that a refusal is   *)
(* on account of an accepted event, that nothing is refused exactly when   *)
(* the producers kept their obligations, and that a run over a settled     *)
(* bundle has read the lines its manifest covers and no others.            *)
(***************************************************************************)
EXTENDS Ingest, FiniteSetTheorems, SequenceTheorems, TLAPS

\* A file that is read, or will be, is one whose lines can be read.
Readable ==
    \A f \in Files : pending[f] > 0 \/ cur = f => disk[f] # TooLarge

\* seen_ids is the set of accepted ids.
SeenIsAccepted == seen = {accepted[k].line.id : k \in DOMAIN accepted}

\* last_time bounds the accepted times of its stream and is one of them.
LastIsAccepted ==
    /\ \A k \in DOMAIN accepted :
          accepted[k].line.time <= last[StreamOf(accepted[k].line)]
    /\ \A s \in Streams : last[s] # 0 =>
          \E k \in DOMAIN accepted :
              StreamOf(accepted[k].line) = s /\ accepted[k].line.time = last[s]

\* Both lists are numbered by what was read so far.
Numbered ==
    /\ \A k \in DOMAIN accepted : accepted[k].n \in 1 .. Len(consumed)
    /\ \A k \in DOMAIN quarantined : quarantined[k].n \in 1 .. Len(consumed)

IInv ==
    /\ TypeOK
    /\ Readable
    /\ SeenIsAccepted
    /\ LastIsAccepted
    /\ Numbered
    /\ AcceptedClean
    /\ Accounted
    /\ RefusedForAccepted

-----------------------------------------------------------------------------
\* An element of a sequence over S is in S.
LEMMA ElementOf ==
    ASSUME NEW S, NEW s \in Seq(S), NEW k \in DOMAIN s
    PROVE  s[k] \in S
OBVIOUS

\* What a line is: its fields, its stream and its time.
LEMMA LineFacts ==
    ASSUME NEW l \in Lines
    PROVE  /\ l \in LineType
           /\ l.form \in Forms /\ l.id \in Ids
           /\ l.time \in Nat /\ l.time # 0
           /\ StreamOf(l) \in Streams
<1>1. l \in LineType /\ Times \subseteq Nat \ {0}
  BY IngestAssumption
<1> QED
  BY <1>1 DEF LineType, StreamOf, Streams

\* What ingest knows of a line when it takes a decision about it.
LEMMA VerdictFacts ==
    ASSUME NEW l \in Lines, NEW items, NEW ids, NEW times
    PROVE  /\ VerdictOn(l, items, ids, times) = Accept =>
                l.id \notin ids /\ ~(l.time < times[StreamOf(l)])
           /\ VerdictOn(l, items, ids, times) = "duplicate_id" => l.id \in ids
           /\ VerdictOn(l, items, ids, times) = "time_order" =>
                l.time < times[StreamOf(l)]
<1>1. l.form \in Forms
  BY LineFacts
<1> QED
  BY <1>1 DEF VerdictOn, Accept, Forms

\* The line being read is one of Lines.
LEMMA LineIsLine ==
    ASSUME TypeOK, Readable, Reading, HasLine
    PROVE  Line \in Lines
<1>1. cur \in Files /\ disk[cur] \in Contents
  BY IngestAssumption DEF TypeOK, Readable, Reading, HasLine, NoFile
<1>2. disk[cur] \in Seq(Lines)
  BY <1>1, IngestAssumption
<1>3. at \in Nat /\ at <= Len(disk[cur]) /\ at # 0
  BY DEF TypeOK, HasLine
<1> QED
  BY <1>2, <1>3 DEF Line

-----------------------------------------------------------------------------
LEMMA InitIInv == Init => IInv
<1> SUFFICES ASSUME Init PROVE IInv
  OBVIOUS
<1>1. TypeOK
  <2>1. disk \in [Files -> Contents \cup {Missing, TooLarge}]
    BY IngestAssumption DEF Init
  <2> QED
    BY <2>1, IngestAssumption DEF Init, TypeOK, Phases
<1>2. Readable
  BY IngestAssumption DEF Init, Readable, NoFile
<1>3. SeenIsAccepted /\ LastIsAccepted /\ Numbered
  BY DEF Init, SeenIsAccepted, LastIsAccepted, Numbered
<1>4. AcceptedClean
  BY DEF Init, AcceptedClean, AcceptedLines, UniqueIds, TimeOrdered
<1>5. Accounted /\ RefusedForAccepted
  BY DEF Init, Accounted, RefusedForAccepted
<1> QED
  BY <1>1, <1>2, <1>3, <1>4, <1>5 DEF IInv

\* A step that leaves the result alone keeps what is said of the result.
LEMMA ResultUnchanged ==
    ASSUME IInv, UNCHANGED result, TypeOK', Readable'
    PROVE  IInv'
<1>1. SeenIsAccepted' /\ LastIsAccepted' /\ Numbered'
  BY DEF IInv, result, SeenIsAccepted, LastIsAccepted, Numbered
<1>2. AcceptedClean'
  BY DEF IInv, result, AcceptedClean, AcceptedLines
<1>3. Accounted' /\ RefusedForAccepted'
  BY DEF IInv, result, Accounted, RefusedForAccepted
<1> QED
  BY <1>1, <1>2, <1>3 DEF IInv

\* Reading one refused line.
LEMMA QuarantineStep ==
    ASSUME IInv, Quarantine
    PROVE  IInv'
<1>1. Line \in Lines
  BY LineIsLine DEF IInv, Quarantine
<1> DEFINE q == [line |-> Line, n |-> Len(consumed) + 1, reason |-> Verdict]
<1>2. /\ consumed' = Append(consumed, Line)
      /\ quarantined' = Append(quarantined, q)
      /\ Verdict \in Reasons
      /\ UNCHANGED <<bundle, phase, entry, pending, cur, seen, last, accepted>>
      /\ at' = at + 1
  BY DEF Quarantine, Advance
<1>3. /\ consumed \in Seq(Lines)
      /\ quarantined \in Seq([line : Lines, n : Nat, reason : Reasons])
      /\ accepted \in Seq([line : Lines, n : Nat])
  BY DEF IInv, TypeOK
<1>4. TypeOK'
  <2>1. q \in [line : Lines, n : Nat, reason : Reasons]
    BY <1>1, <1>2, <1>3
  <2>2. /\ consumed' \in Seq(Lines)
        /\ quarantined' \in Seq([line : Lines, n : Nat, reason : Reasons])
        /\ at' \in Nat \ {0}
    BY <1>1, <1>2, <1>3, <2>1 DEF IInv, TypeOK
  <2> QED
    BY <1>2, <2>2 DEF IInv, TypeOK, bundle
<1>5. Readable'
  BY <1>2 DEF IInv, Readable, bundle
<1>6. SeenIsAccepted' /\ LastIsAccepted' /\ AcceptedClean'
  BY <1>2 DEF IInv, SeenIsAccepted, LastIsAccepted, AcceptedClean, AcceptedLines
<1>7. /\ Len(consumed') = Len(consumed) + 1
      /\ consumed'[Len(consumed) + 1] = Line
      /\ \A k \in DOMAIN consumed : consumed'[k] = consumed[k]
      /\ DOMAIN consumed' = DOMAIN consumed \cup {Len(consumed) + 1}
      /\ DOMAIN quarantined' = DOMAIN quarantined \cup {Len(quarantined) + 1}
      /\ quarantined'[Len(quarantined) + 1] = q
      /\ \A k \in DOMAIN quarantined : quarantined'[k] = quarantined[k]
      /\ Len(consumed) \in Nat /\ Len(quarantined) \in Nat
      /\ DOMAIN quarantined = 1 .. Len(quarantined)
      /\ DOMAIN consumed = 1 .. Len(consumed)
  BY <1>1, <1>2, <1>3
<1>8. /\ q.n = Len(consumed) + 1 /\ q.line = Line /\ q.reason = Verdict
  OBVIOUS
<1> HIDE DEF q
<1>9. Numbered'
  BY <1>2, <1>7, <1>8, <1>3 DEF IInv, Numbered
<1>10. Accounted'
  <2>1. \A n \in DOMAIN consumed' :
          \/ \E k \in DOMAIN accepted :
                accepted[k].n = n /\ accepted[k].line = consumed'[n]
          \/ \E k \in DOMAIN quarantined' :
                quarantined'[k].n = n /\ quarantined'[k].line = consumed'[n]
    BY <1>7, <1>8 DEF IInv, Accounted
  <2>2. \A j \in DOMAIN accepted, k \in DOMAIN quarantined' :
          accepted[j].n # quarantined'[k].n
    BY <1>7, <1>8, <1>3 DEF IInv, Accounted, Numbered
  <2>3. \A j, k \in DOMAIN quarantined' : j < k => quarantined'[j].n < quarantined'[k].n
    BY <1>7, <1>8, <1>3 DEF IInv, Accounted, Numbered
  <2> QED
    BY <1>2, <2>1, <2>2, <2>3 DEF IInv, Accounted
<1>11. RefusedForAccepted'
  <2>1. Verdict = "duplicate_id" =>
          \E a \in DOMAIN accepted :
              accepted[a].n < q.n /\ accepted[a].line.id = Line.id
    <3>1. Verdict = "duplicate_id" => Line.id \in seen
      BY <1>1, VerdictFacts DEF Verdict
    <3> SUFFICES ASSUME Verdict = "duplicate_id"
                 PROVE  \E a \in DOMAIN accepted :
                          accepted[a].n < q.n /\ accepted[a].line.id = Line.id
      OBVIOUS
    <3>2. PICK a \in DOMAIN accepted : accepted[a].line.id = Line.id
      BY <3>1 DEF IInv, SeenIsAccepted
    <3>3. accepted[a].n \in 1 .. Len(consumed)
      BY DEF IInv, Numbered
    <3> QED
      BY <3>2, <3>3, <1>7, <1>8
  <2>2. Verdict = "time_order" =>
          \E a \in DOMAIN accepted :
              /\ accepted[a].n < q.n
              /\ StreamOf(accepted[a].line) = StreamOf(Line)
              /\ Line.time < accepted[a].line.time
    <3>1. Verdict = "time_order" => Line.time < last[StreamOf(Line)]
      BY <1>1, VerdictFacts DEF Verdict
    <3>2. StreamOf(Line) \in Streams /\ Line.time \in Nat
      BY <1>1, LineFacts
    <3>3. last[StreamOf(Line)] \in Nat
      BY <3>2 DEF IInv, TypeOK
    <3>4. Verdict = "time_order" => last[StreamOf(Line)] # 0
      BY <3>1, <3>2, <3>3
    <3> SUFFICES ASSUME Verdict = "time_order"
                 PROVE  \E a \in DOMAIN accepted :
                          /\ accepted[a].n < q.n
                          /\ StreamOf(accepted[a].line) = StreamOf(Line)
                          /\ Line.time < accepted[a].line.time
      OBVIOUS
    <3>5. PICK a \in DOMAIN accepted :
            /\ StreamOf(accepted[a].line) = StreamOf(Line)
            /\ accepted[a].line.time = last[StreamOf(Line)]
      BY <3>2, <3>4 DEF IInv, LastIsAccepted
    <3>6. accepted[a].n \in 1 .. Len(consumed)
      BY DEF IInv, Numbered
    <3> QED
      BY <3>1, <3>5, <3>6, <1>7, <1>8
  <2> QED
    BY <1>2, <1>7, <1>8, <2>1, <2>2 DEF IInv, RefusedForAccepted
<1> QED
  BY <1>4, <1>5, <1>6, <1>9, <1>10, <1>11 DEF IInv

\* Reading one accepted line.
LEMMA AcceptStep ==
    ASSUME IInv, AcceptLine
    PROVE  IInv'
<1>1. Line \in Lines
  BY LineIsLine DEF IInv, AcceptLine
<1> DEFINE a == [line |-> Line, n |-> Len(consumed) + 1]
<1>2. /\ consumed' = Append(consumed, Line)
      /\ accepted' = Append(accepted, a)
      /\ seen' = seen \cup {Line.id}
      /\ last' = [last EXCEPT ![StreamOf(Line)] = Line.time]
      /\ UNCHANGED <<bundle, phase, entry, pending, cur, quarantined>>
      /\ at' = at + 1
  BY DEF AcceptLine, Advance
<1>3. /\ consumed \in Seq(Lines)
      /\ quarantined \in Seq([line : Lines, n : Nat, reason : Reasons])
      /\ accepted \in Seq([line : Lines, n : Nat])
      /\ last \in [Streams -> Nat]
  BY DEF IInv, TypeOK
<1>4. Line.id \in Ids /\ Line.time \in Nat /\ Line.time # 0 /\ StreamOf(Line) \in Streams
  BY <1>1, LineFacts
<1>5. Line.id \notin seen /\ ~(Line.time < last[StreamOf(Line)])
  BY <1>1, VerdictFacts DEF AcceptLine, Verdict
<1>6. TypeOK'
  <2>1. a \in [line : Lines, n : Nat]
    BY <1>1, <1>3
  <2>2. /\ consumed' \in Seq(Lines)
        /\ accepted' \in Seq([line : Lines, n : Nat])
        /\ at' \in Nat \ {0}
        /\ seen' \in SUBSET Ids
    BY <1>1, <1>2, <1>3, <1>4, <2>1 DEF IInv, TypeOK
  <2>3. last' \in [Streams -> Nat]
    BY <1>2, <1>3, <1>4
  <2> QED
    BY <1>2, <2>2, <2>3 DEF IInv, TypeOK, bundle
<1>7. Readable'
  BY <1>2 DEF IInv, Readable, bundle
<1>8. /\ Len(consumed') = Len(consumed) + 1
      /\ consumed'[Len(consumed) + 1] = Line
      /\ \A k \in DOMAIN consumed : consumed'[k] = consumed[k]
      /\ DOMAIN consumed' = DOMAIN consumed \cup {Len(consumed) + 1}
      /\ DOMAIN accepted' = DOMAIN accepted \cup {Len(accepted) + 1}
      /\ accepted'[Len(accepted) + 1] = a
      /\ \A k \in DOMAIN accepted : accepted'[k] = accepted[k]
      /\ Len(consumed) \in Nat /\ Len(accepted) \in Nat
      /\ DOMAIN accepted = 1 .. Len(accepted)
      /\ DOMAIN consumed = 1 .. Len(consumed)
  BY <1>1, <1>2, <1>3
<1>9. a.n = Len(consumed) + 1 /\ a.line = Line
  OBVIOUS
<1> HIDE DEF a
<1>10. SeenIsAccepted'
  <2>1. seen' = {accepted[k].line.id : k \in DOMAIN accepted} \cup {Line.id}
    BY <1>2 DEF IInv, SeenIsAccepted
  <2>2. \A i : i \in seen' => \E k \in DOMAIN accepted' : accepted'[k].line.id = i
    BY <2>1, <1>8, <1>9
  <2>3. \A k \in DOMAIN accepted' : accepted'[k].line.id \in seen'
    BY <2>1, <1>8, <1>9
  <2> QED
    BY <2>2, <2>3 DEF SeenIsAccepted
<1>11. \A k \in DOMAIN accepted : accepted[k].line \in Lines /\ accepted[k].n \in Nat
  <2>1. accepted \in Seq([line : Lines, n : Nat])
    BY <1>3
  <2>2. \A k \in DOMAIN accepted : accepted[k] \in [line : Lines, n : Nat]
    BY <2>1, ElementOf
  <2> QED
    BY <2>2
<1>12. \A k \in DOMAIN accepted :
          accepted[k].line.time \in Nat /\ StreamOf(accepted[k].line) \in Streams
  BY <1>11, LineFacts
<1>13. LastIsAccepted'
  <2>1. \A k \in DOMAIN accepted' :
          accepted'[k].line.time <= last'[StreamOf(accepted'[k].line)]
    BY <1>2, <1>3, <1>4, <1>5, <1>8, <1>9, <1>12 DEF IInv, LastIsAccepted
  <2>2. \A s \in Streams : last'[s] # 0 =>
          \E k \in DOMAIN accepted' :
              StreamOf(accepted'[k].line) = s /\ accepted'[k].line.time = last'[s]
    <3> SUFFICES ASSUME NEW s \in Streams, last'[s] # 0
                 PROVE  \E k \in DOMAIN accepted' :
                          /\ StreamOf(accepted'[k].line) = s
                          /\ accepted'[k].line.time = last'[s]
      OBVIOUS
    <3>1. CASE s = StreamOf(Line)
      BY <3>1, <1>2, <1>3, <1>4, <1>8, <1>9
    <3>2. CASE s # StreamOf(Line)
      <4>1. last'[s] = last[s]
        BY <3>2, <1>2, <1>3
      <4>2. PICK k \in DOMAIN accepted :
              StreamOf(accepted[k].line) = s /\ accepted[k].line.time = last[s]
        BY <4>1 DEF IInv, LastIsAccepted
      <4> QED
        BY <4>1, <4>2, <1>8
    <3> QED
      BY <3>1, <3>2
  <2> QED
    BY <2>1, <2>2 DEF LastIsAccepted
<1>14. Numbered'
  BY <1>2, <1>8, <1>9, <1>3 DEF IInv, Numbered
<1>15. AcceptedClean'
  <2>1. /\ AcceptedLines \in [DOMAIN accepted -> Lines]
        /\ DOMAIN AcceptedLines = DOMAIN accepted
        /\ DOMAIN AcceptedLines' = DOMAIN accepted'
        /\ \A k \in DOMAIN accepted : AcceptedLines[k] = accepted[k].line
        /\ \A k \in DOMAIN accepted' : AcceptedLines'[k] = accepted'[k].line
    BY <1>11 DEF AcceptedLines
  <2>2. UniqueIds(AcceptedLines)'
    <3> SUFFICES ASSUME NEW j \in DOMAIN accepted', NEW k \in DOMAIN accepted',
                        accepted'[j].line.id = accepted'[k].line.id
                 PROVE  j = k
      BY <2>1 DEF UniqueIds
    <3>1. \A m \in DOMAIN accepted : accepted[m].line.id # Line.id
      BY <1>5 DEF IInv, SeenIsAccepted
    <3>2. \A m, n \in DOMAIN accepted : accepted[m].line.id = accepted[n].line.id => m = n
      BY <2>1 DEF IInv, AcceptedClean, UniqueIds
    <3> QED
      BY <3>1, <3>2, <1>8, <1>9
  <2>3. TimeOrdered(AcceptedLines)'
    <3> SUFFICES ASSUME NEW j \in DOMAIN accepted', NEW k \in DOMAIN accepted', j < k,
                        StreamOf(accepted'[j].line) = StreamOf(accepted'[k].line)
                 PROVE  accepted'[j].line.time <= accepted'[k].line.time
      BY <2>1 DEF TimeOrdered
    <3>1. j \in DOMAIN accepted
      BY <1>8
    <3>2. CASE k \in DOMAIN accepted
      BY <3>1, <3>2, <1>8, <2>1 DEF IInv, AcceptedClean, TimeOrdered
    <3>3. CASE k = Len(accepted) + 1
      <4>1. accepted[j].line.time <= last[StreamOf(Line)]
        BY <3>1, <3>3, <1>8, <1>9 DEF IInv, LastIsAccepted
      <4> QED
        BY <4>1, <3>1, <3>3, <1>3, <1>4, <1>5, <1>8, <1>9, <1>12
    <3> QED
      BY <3>2, <3>3, <1>8
  <2> QED
    BY <2>2, <2>3 DEF AcceptedClean
<1>16. Accounted'
  <2>1. \A n \in DOMAIN consumed' :
          \/ \E k \in DOMAIN accepted' :
                accepted'[k].n = n /\ accepted'[k].line = consumed'[n]
          \/ \E k \in DOMAIN quarantined :
                quarantined[k].n = n /\ quarantined[k].line = consumed'[n]
    BY <1>8, <1>9 DEF IInv, Accounted
  <2>2. \A j \in DOMAIN accepted', k \in DOMAIN quarantined :
          accepted'[j].n # quarantined[k].n
    BY <1>8, <1>9, <1>3 DEF IInv, Accounted, Numbered
  <2>3. \A j, k \in DOMAIN accepted' : j < k => accepted'[j].n < accepted'[k].n
    BY <1>8, <1>9, <1>3 DEF IInv, Accounted, Numbered
  <2> QED
    BY <1>2, <2>1, <2>2, <2>3 DEF IInv, Accounted
<1>17. RefusedForAccepted'
  BY <1>2, <1>8 DEF IInv, RefusedForAccepted
<1> QED
  BY <1>6, <1>7, <1>10, <1>13, <1>14, <1>15, <1>16, <1>17 DEF IInv

\* Every step of the engine or of a producer preserves the invariant.
LEMMA StepIInv == IInv /\ [Next]_vars => IInv'
<1> SUFFICES ASSUME IInv, [Next]_vars PROVE IInv'
  OBVIOUS
<1>0. TypeOK /\ Readable
  BY DEF IInv
<1> DEFINE Steady == UNCHANGED result /\ TypeOK' /\ Readable'
<1>1. CASE ReadManifest
  <2>1. Steady
    BY <1>0, <1>1 DEF ReadManifest, TypeOK, Readable, Phases, bundle, result
  <2> QED
    BY <2>1, ResultUnchanged
<1>2. ASSUME Abort PROVE IInv'
  <2>1. Steady
    BY <1>0, <1>2 DEF Abort, TypeOK, Readable, Phases, bundle, result
  <2> QED
    BY <2>1, ResultUnchanged
<1>3. CASE RefuseManifest \/ RefuseEntry \/ TooDeep
  BY <1>2, <1>3 DEF RefuseManifest, RefuseEntry, TooDeep
<1>4. CASE VerifyEntry
  <2> DEFINE e == manifest.entries[entry]
  <2>1. /\ disk[e.file] # TooLarge
        /\ pending' = IF e.file \in EventFiles
                      THEN [pending EXCEPT ![e.file] = @ + 1] ELSE pending
        /\ entry' = entry + 1
        /\ UNCHANGED <<bundle, phase, cur, at, result>>
    BY <1>4 DEF VerifyEntry, EntryHolds
  <2> HIDE DEF e
  <2>2. pending' \in [Files -> Nat]
    <3>1. CASE e.file \in EventFiles
      <4>1. e.file \in Files
        BY <3>1, IngestAssumption
      <4>2. pending \in [Files -> Nat] /\ pending' = [pending EXCEPT ![e.file] = pending[e.file] + 1]
        BY <3>1, <1>0, <2>1 DEF TypeOK
      <4> QED
        BY <4>1, <4>2
    <3>2. CASE e.file \notin EventFiles
      BY <3>2, <1>0, <2>1 DEF TypeOK
    <3> QED
      BY <3>1, <3>2
  <2>3. TypeOK'
    BY <1>0, <2>1, <2>2 DEF TypeOK, bundle, result
  <2>4. Readable'
    BY <1>0, <2>1 DEF TypeOK, Readable, bundle
  <2> QED
    BY <2>1, <2>3, <2>4, ResultUnchanged
<1>5. CASE BeginIngest
  <2>1. Steady
    BY <1>0, <1>5 DEF BeginIngest, TypeOK, Readable, Phases, bundle, result
  <2> QED
    BY <2>1, ResultUnchanged
<1>6. ASSUME NEW f \in Files, OpenFile(f) PROVE IInv'
  <2>1. CASE disk[f] = Missing
    BY <1>2, <1>6, <2>1 DEF OpenFile
  <2>2. CASE disk[f] # Missing
    <3>1. /\ pending[f] > 0 /\ f \in Files
          /\ cur' = f /\ at' = 1
          /\ pending' = [pending EXCEPT ![f] = @ - 1]
          /\ UNCHANGED <<bundle, phase, entry, result>>
      BY <1>6, <2>2 DEF OpenFile, ToRead
    <3>2. pending' \in [Files -> Nat]
      BY <1>0, <3>1 DEF TypeOK
    <3>3. TypeOK'
      BY <1>0, <3>1, <3>2 DEF TypeOK, bundle, result
    <3>4. Readable'
      BY <1>0, <3>1 DEF TypeOK, Readable, bundle
    <3> QED
      BY <3>1, <3>3, <3>4, ResultUnchanged
  <2> QED
    BY <2>1, <2>2
<1>7. CASE SkipBlank
  <2>1. Steady
    BY <1>0, <1>7 DEF SkipBlank, Advance, TypeOK, Readable, bundle, result
  <2> QED
    BY <2>1, ResultUnchanged
<1>8. CASE EndFile
  <2>1. Steady
    BY <1>0, <1>8, IngestAssumption DEF EndFile, TypeOK, Readable, NoFile, bundle, result
  <2> QED
    BY <2>1, ResultUnchanged
<1>9. CASE Finish
  <2>1. Steady
    BY <1>0, <1>9 DEF Finish, TypeOK, Readable, Phases, bundle, result
  <2> QED
    BY <2>1, ResultUnchanged
<1>10. ASSUME NEW f \in Files, NEW c \in Rewrites, Rewrite(f, c) PROVE IInv'
  <2>1. Steady
    BY <1>0, <1>10, IngestAssumption DEF Rewrite, TypeOK, Readable, result
  <2> QED
    BY <2>1, ResultUnchanged
<1>11. CASE UNCHANGED vars
  <2>1. Steady
    BY <1>0, <1>11 DEF vars, TypeOK, Readable, result
  <2> QED
    BY <2>1, ResultUnchanged
<1> QED
  BY <1>1, <1>3, <1>4, <1>5, <1>6, <1>7, <1>8, <1>9, <1>10, <1>11,
     QuarantineStep, AcceptStep DEF Next, Engine

LEMMA AlwaysIInv == Spec => []IInv
BY InitIInv, StepIInv, PTL DEF Spec

\* Every variable of ingest keeps its type, whatever happens to the bundle
\* while it is read.
THEOREM IngestTypeCorrect == Spec => []TypeOK
<1>1. IInv => TypeOK
  BY DEF IInv
<1> QED
  BY <1>1, AlwaysIInv, PTL

\* The accepted events never repeat an id nor run back in time within a
\* stream: what every later stage of the engine relies on.
THEOREM IngestAcceptsClean == Spec => []AcceptedClean
<1>1. IInv => AcceptedClean
  BY DEF IInv
<1> QED
  BY <1>1, AlwaysIInv, PTL

\* Every line read is accepted or quarantined, never both, never neither.
THEOREM IngestAccounts == Spec => []Accounted
<1>1. IInv => Accounted
  BY DEF IInv
<1> QED
  BY <1>1, AlwaysIInv, PTL

\* No event is refused as repeated or out of order on account of one that
\* was itself refused.
THEOREM IngestRefusesForAccepted == Spec => []RefusedForAccepted
<1>1. IInv => RefusedForAccepted
  BY DEF IInv
<1> QED
  BY <1>1, AlwaysIInv, PTL
-----------------------------------------------------------------------------
(***************************************************************************)
(* What a clean ingest says about the producer.  The verdicts are judged   *)
(* by the manifest alone except for the two that compare a line with the   *)
(* accepted ones.                                                          *)
(***************************************************************************)

\* A line that is right on its own: an event of a declared source and class.
LineAdmissible(l, items) ==
    /\ l.form = "event"
    /\ items = <<>> \/ l.source \in DeclaredSources(items)
    /\ DeclaredClass(items, l.source) \in {NoClass, l.class}

Judged ==
    /\ \A k \in DOMAIN accepted : LineAdmissible(accepted[k].line, manifest.sources)
    /\ \A q \in DOMAIN quarantined :
          LineAdmissible(quarantined[q].line, manifest.sources) =>
              quarantined[q].reason \in {"duplicate_id", "time_order"}

\* What a verdict says of the line alone.
LEMMA VerdictJudges ==
    ASSUME NEW l \in Lines, NEW items, NEW ids, NEW times
    PROVE  /\ VerdictOn(l, items, ids, times) = Accept => LineAdmissible(l, items)
           /\ LineAdmissible(l, items) =>
                VerdictOn(l, items, ids, times) \in {"duplicate_id", "time_order", Accept}
<1>1. l.form \in Forms
  BY LineFacts
<1> QED
  BY <1>1 DEF VerdictOn, Accept, Forms, LineAdmissible

LEMMA InitJudged == Init => Judged
BY DEF Init, Judged

LEMMA StepJudged == IInv /\ Judged /\ [Next]_vars => Judged'
<1> SUFFICES ASSUME IInv, Judged, [Next]_vars PROVE Judged'
  OBVIOUS
<1>1. CASE Quarantine
  <2>1. Line \in Lines
    BY <1>1, LineIsLine DEF IInv, Quarantine
  <2> DEFINE r == [line |-> Line, n |-> Len(consumed) + 1, reason |-> Verdict]
  <2>2. /\ quarantined' = Append(quarantined, r)
        /\ UNCHANGED <<accepted, manifest>>
        /\ Verdict \in Reasons
    BY <1>1 DEF Quarantine, Advance, bundle
  <2>3. quarantined \in Seq([line : Lines, n : Nat, reason : Reasons])
    BY DEF IInv, TypeOK
  <2>4. r.line = Line /\ r.reason = Verdict
    OBVIOUS
  <2>5. LineAdmissible(Line, manifest.sources) => Verdict \in {"duplicate_id", "time_order"}
    <3>1. Verdict # Accept
      BY <2>2 DEF Reasons, Accept
    <3> QED
      BY <2>1, <3>1, VerdictJudges DEF Verdict
  <2> HIDE DEF r
  <2>6. \A q \in DOMAIN quarantined' :
          quarantined'[q] = r \/ (q \in DOMAIN quarantined /\ quarantined'[q] = quarantined[q])
    BY <2>2, <2>3
  <2>7. \A q \in DOMAIN quarantined' :
          LineAdmissible(quarantined'[q].line, manifest.sources) =>
              quarantined'[q].reason \in {"duplicate_id", "time_order"}
    BY <2>4, <2>5, <2>6 DEF Judged
  <2> QED
    BY <2>2, <2>7 DEF Judged
<1>2. CASE AcceptLine
  <2>1. Line \in Lines
    BY <1>2, LineIsLine DEF IInv, AcceptLine
  <2> DEFINE a == [line |-> Line, n |-> Len(consumed) + 1]
  <2>2. /\ accepted' = Append(accepted, a)
        /\ UNCHANGED <<quarantined, manifest>>
        /\ Verdict = Accept
    BY <1>2 DEF AcceptLine, Advance, bundle
  <2>3. accepted \in Seq([line : Lines, n : Nat])
    BY DEF IInv, TypeOK
  <2>4. a.line = Line
    OBVIOUS
  <2>5. LineAdmissible(Line, manifest.sources)
    BY <2>1, <2>2, VerdictJudges DEF Verdict
  <2> HIDE DEF a
  <2>6. \A k \in DOMAIN accepted' :
          accepted'[k] = a \/ (k \in DOMAIN accepted /\ accepted'[k] = accepted[k])
    BY <2>2, <2>3
  <2>7. \A k \in DOMAIN accepted' : LineAdmissible(accepted'[k].line, manifest.sources)
    BY <2>4, <2>5, <2>6 DEF Judged
  <2> QED
    BY <2>2, <2>7 DEF Judged
<1>3. ASSUME UNCHANGED <<accepted, quarantined, manifest>> PROVE Judged'
  BY <1>3 DEF Judged
<1>4. CASE ReadManifest \/ RefuseManifest \/ VerifyEntry \/ RefuseEntry \/ BeginIngest
  BY <1>3, <1>4 DEF ReadManifest, RefuseManifest, VerifyEntry, RefuseEntry, BeginIngest,
     Abort, bundle, result
<1>5. CASE SkipBlank \/ TooDeep \/ EndFile \/ Finish
  BY <1>3, <1>5 DEF SkipBlank, TooDeep, EndFile, Finish, Abort, Advance, bundle, result
<1>6. ASSUME NEW f \in Files, OpenFile(f) PROVE Judged'
  BY <1>3, <1>6 DEF OpenFile, Abort, bundle, result
<1>7. ASSUME NEW f \in Files, NEW c \in Rewrites, Rewrite(f, c) PROVE Judged'
  BY <1>3, <1>7 DEF Rewrite, result
<1>8. CASE UNCHANGED vars
  BY <1>3, <1>8 DEF vars
<1> QED
  BY <1>1, <1>2, <1>4, <1>5, <1>6, <1>7, <1>8 DEF Next, Engine

LEMMA AlwaysJudged == Spec => []Judged
BY AlwaysIInv, InitJudged, StepJudged, PTL DEF Spec

\* What the two lists hold.
LEMMA ListFacts ==
    ASSUME TypeOK
    PROVE  /\ DOMAIN accepted = 1 .. Len(accepted)
           /\ DOMAIN quarantined = 1 .. Len(quarantined)
           /\ \A k \in DOMAIN accepted : accepted[k].line \in Lines /\ accepted[k].n \in Nat
           /\ \A q \in DOMAIN quarantined :
                 quarantined[q].line \in Lines /\ quarantined[q].n \in Nat
<1>1. /\ accepted \in Seq([line : Lines, n : Nat])
      /\ quarantined \in Seq([line : Lines, n : Nat, reason : Reasons])
  BY DEF TypeOK
<1>2. \A k \in DOMAIN accepted : accepted[k] \in [line : Lines, n : Nat]
  BY <1>1, ElementOf
<1>3. \A q \in DOMAIN quarantined : quarantined[q] \in [line : Lines, n : Nat, reason : Reasons]
  BY <1>1, ElementOf
<1>4. DOMAIN accepted = 1 .. Len(accepted) /\ DOMAIN quarantined = 1 .. Len(quarantined)
  BY <1>1
<1> QED
  BY <1>2, <1>3, <1>4

\* Each list holds the lines at the places of the reading order it gives.
LEMMA PlacedAsRead ==
    ASSUME IInv
    PROVE  /\ \A k \in DOMAIN accepted :
                 /\ accepted[k].n \in DOMAIN consumed
                 /\ consumed[accepted[k].n] = accepted[k].line
           /\ \A q \in DOMAIN quarantined :
                 /\ quarantined[q].n \in DOMAIN consumed
                 /\ consumed[quarantined[q].n] = quarantined[q].line
<1>1. DOMAIN consumed = 1 .. Len(consumed)
  BY DEF IInv, TypeOK
<1>2. /\ DOMAIN accepted \subseteq Nat /\ DOMAIN quarantined \subseteq Nat
      /\ \A j, k \in DOMAIN accepted : accepted[j].n = accepted[k].n => j = k
      /\ \A j, k \in DOMAIN quarantined : quarantined[j].n = quarantined[k].n => j = k
  <2>1. /\ DOMAIN accepted \subseteq Nat /\ DOMAIN quarantined \subseteq Nat
        /\ \A k \in DOMAIN accepted : accepted[k].n \in Nat
        /\ \A q \in DOMAIN quarantined : quarantined[q].n \in Nat
    BY ListFacts DEF IInv
  <2>2. \A j, k \in DOMAIN accepted : j < k => accepted[j].n < accepted[k].n
    BY DEF IInv, Accounted
  <2>3. \A j, k \in DOMAIN quarantined : j < k => quarantined[j].n < quarantined[k].n
    BY DEF IInv, Accounted
  <2>4. \A j, k \in DOMAIN accepted : accepted[j].n = accepted[k].n => j = k
    BY <2>1, <2>2
  <2>5. \A j, k \in DOMAIN quarantined : quarantined[j].n = quarantined[k].n => j = k
    BY <2>1, <2>3
  <2> QED
    BY <2>1, <2>4, <2>5
<1>3. \A k \in DOMAIN accepted : accepted[k].n \in DOMAIN consumed
  BY <1>1 DEF IInv, Numbered
<1>4. \A q \in DOMAIN quarantined : quarantined[q].n \in DOMAIN consumed
  BY <1>1 DEF IInv, Numbered
<1>5. \A k \in DOMAIN accepted : consumed[accepted[k].n] = accepted[k].line
  BY <1>2, <1>3 DEF IInv, Accounted
<1>6. \A q \in DOMAIN quarantined : consumed[quarantined[q].n] = quarantined[q].line
  BY <1>2, <1>4 DEF IInv, Accounted
<1> QED
  BY <1>3, <1>4, <1>5, <1>6

\* Nothing was quarantined: the lines read are the accepted ones, in their
\* order, so they are as clean as those.
LEMMA CleanIngestMeansCleanLines ==
    ASSUME IInv, Judged, quarantined = <<>>
    PROVE  NoQuarantines(consumed, manifest.sources)
<1>1. \A n \in DOMAIN consumed :
        \E k \in DOMAIN accepted : accepted[k].n = n /\ accepted[k].line = consumed[n]
  BY DEF IInv, Accounted
<1>2. Admissible(consumed, manifest.sources)
  BY <1>1 DEF Judged, LineAdmissible, Admissible
<1>3. /\ DOMAIN AcceptedLines = DOMAIN accepted
      /\ \A k \in DOMAIN accepted : AcceptedLines[k] = accepted[k].line
  BY DEF AcceptedLines
<1>4. UniqueIds(consumed)
  <2> SUFFICES ASSUME NEW m \in DOMAIN consumed, NEW n \in DOMAIN consumed,
                      consumed[m].id = consumed[n].id
               PROVE  m = n
    BY DEF UniqueIds
  <2>1. PICK j \in DOMAIN accepted : accepted[j].n = m /\ accepted[j].line = consumed[m]
    BY <1>1
  <2>2. PICK k \in DOMAIN accepted : accepted[k].n = n /\ accepted[k].line = consumed[n]
    BY <1>1
  <2>3. j = k
    BY <1>3, <2>1, <2>2 DEF IInv, AcceptedClean, UniqueIds
  <2> QED
    BY <2>1, <2>2, <2>3
<1>5. TimeOrdered(consumed)
  <2> SUFFICES ASSUME NEW m \in DOMAIN consumed, NEW n \in DOMAIN consumed, m < n,
                      StreamOf(consumed[m]) = StreamOf(consumed[n])
               PROVE  consumed[m].time <= consumed[n].time
    BY DEF TimeOrdered
  <2>1. PICK j \in DOMAIN accepted : accepted[j].n = m /\ accepted[j].line = consumed[m]
    BY <1>1
  <2>2. PICK k \in DOMAIN accepted : accepted[k].n = n /\ accepted[k].line = consumed[n]
    BY <1>1
  <2>3. j < k
    <3>1. j \in Nat /\ k \in Nat /\ m \in Nat /\ n \in Nat
      BY DEF IInv, TypeOK
    <3>2. k < j => n < m
      BY <2>1, <2>2 DEF IInv, Accounted
    <3>3. j # k
      BY <2>1, <2>2, <3>1
    <3> QED
      BY <3>1, <3>2, <3>3
  <2> QED
    BY <1>3, <2>1, <2>2, <2>3 DEF IInv, AcceptedClean, TimeOrdered
<1> QED
  BY <1>2, <1>4, <1>5 DEF NoQuarantines

\* The lines read are clean: whatever a refusal could rest on is missing.
LEMMA CleanLinesMeanCleanIngest ==
    ASSUME IInv, Judged, NoQuarantines(consumed, manifest.sources)
    PROVE  quarantined = <<>>
<1>1. quarantined \in Seq([line : Lines, n : Nat, reason : Reasons])
  BY DEF IInv, TypeOK
<1> SUFFICES ASSUME quarantined # <<>> PROVE FALSE
  OBVIOUS
<1>2. 1 \in DOMAIN quarantined
  BY <1>1
<1> DEFINE r == quarantined[1]
<1>3. /\ r.n \in DOMAIN consumed /\ consumed[r.n] = r.line
      /\ r.n \in Nat /\ r.line \in Lines
  BY <1>2, PlacedAsRead, ListFacts DEF IInv
<1>4. LineAdmissible(r.line, manifest.sources)
  BY <1>3 DEF NoQuarantines, Admissible, LineAdmissible
<1>5. r.reason \in {"duplicate_id", "time_order"}
  BY <1>2, <1>4 DEF Judged
<1>6. CASE r.reason = "duplicate_id"
  <2>1. PICK a \in DOMAIN accepted : accepted[a].n < r.n /\ accepted[a].line.id = r.line.id
    BY <1>2, <1>6 DEF IInv, RefusedForAccepted
  <2>2. accepted[a].n \in DOMAIN consumed /\ consumed[accepted[a].n] = accepted[a].line
    BY PlacedAsRead
  <2>3. accepted[a].n = r.n
    BY <1>3, <2>1, <2>2 DEF NoQuarantines, UniqueIds
  <2> QED
    BY <1>3, <2>1, <2>3
<1>7. CASE r.reason = "time_order"
  <2>1. PICK a \in DOMAIN accepted :
          /\ accepted[a].n < r.n
          /\ StreamOf(accepted[a].line) = StreamOf(r.line)
          /\ r.line.time < accepted[a].line.time
    BY <1>2, <1>7 DEF IInv, RefusedForAccepted
  <2>2. accepted[a].n \in DOMAIN consumed /\ consumed[accepted[a].n] = accepted[a].line
    BY PlacedAsRead
  <2>3. accepted[a].line.time <= r.line.time
    BY <1>3, <2>1, <2>2 DEF NoQuarantines, TimeOrdered
  <2>4. accepted[a].line \in Lines
    BY ListFacts DEF IInv
  <2>5. accepted[a].line.time \in Nat /\ r.line.time \in Nat
    BY <1>3, <2>4, LineFacts
  <2> QED
    BY <2>1, <2>3, <2>5
<1> QED
  BY <1>5, <1>6, <1>7

\* Ingest quarantines nothing exactly when the lines it read meet what is
\* asked of a producer: a bundle that passes clean proves its producers kept
\* the contract, and one whose producers kept it always passes clean.
THEOREM IngestCleanIffProducerClean == Spec => []CleanIffProducerClean
<1>1. IInv /\ Judged => CleanIffProducerClean
  BY CleanIngestMeansCleanLines, CleanLinesMeanCleanIngest DEF CleanIffProducerClean
<1> QED
  BY <1>1, AlwaysIInv, AlwaysJudged, PTL
-----------------------------------------------------------------------------
(***************************************************************************)
(* What a run reads.  Of a bundle nobody writes to meanwhile: the listed   *)
(* files hash to the manifest's digests when they are verified and still   *)
(* do when they are opened, and the file opened next is the next in path   *)
(* order.  The two loops of the property are functions on naturals, which  *)
(* are as their equations say.                                             *)
(***************************************************************************)

\* A non-empty finite set has an element with the largest number: of the sets
\* of those with a larger number than each, one is minimal.
LEMMA LargestNumber ==
    ASSUME NEW S, IsFiniteSet(S), S # {}, NEW number \in [S -> Nat]
    PROVE  \E k \in S : \A j \in S : number[j] <= number[k]
<1> DEFINE Above(k) == {j \in S : number[j] > number[k]}
           T == {Above(k) : k \in S}
           R == StrictSubsetOrdering(S)
<1>1. \A k \in S : IsFiniteSet(Above(k))
  BY FS_Subset
<1>2. T \subseteq FiniteSubsetsOf(S) /\ T # {}
  <2>1. \A k \in S : Above(k) \in FiniteSubsetsOf(S)
    <3> SUFFICES ASSUME NEW k \in S PROVE Above(k) \in FiniteSubsetsOf(S)
      OBVIOUS
    <3>1. IsFiniteSet(Above(k)) /\ Above(k) \subseteq S
      BY <1>1
    <3> HIDE DEF Above
    <3> QED
      BY <3>1 DEF FiniteSubsetsOf
  <2> HIDE DEF Above
  <2> QED
    BY <2>1
<1>3. PICK A \in T : \A B \in T : ~(<<B, A>> \in R)
  <2>1. IsWellFoundedOn(R, FiniteSubsetsOf(S))
    BY FS_StrictSubsetOrderingWellFounded
  <2> HIDE DEF R, T
  <2> QED
    BY <1>2, <2>1, WFMin
<1>4. PICK k \in S : A = Above(k)
  OBVIOUS
<1>5. ASSUME NEW j \in S, number[j] > number[k] PROVE FALSE
  <2>1. Above(j) \subseteq A /\ j \in A /\ j \notin Above(j)
    <3>1. \A z \in S : number[z] > number[j] => number[z] > number[k]
      BY <1>5
    <3>2. A = {z \in S : number[z] > number[k]}
      BY <1>4
    <3>3. ~(number[j] > number[j])
      OBVIOUS
    <3> HIDE DEF R, T
    <3> QED
      BY <1>5, <3>1, <3>2, <3>3
  <2>2. A \subseteq S /\ Above(j) \subseteq S /\ Above(j) \in T
    BY <1>4
  <2>3. <<Above(j), A>> \in R
    BY <2>1, <2>2 DEF StrictSubsetOrdering
  <2> QED
    BY <1>3, <2>2, <2>3
<1> QED
  BY <1>5

\* What holds of 0, and of n + 1 where it holds of n, holds of every n: a
\* number it does not hold of would bound those it holds of, the largest of
\* which it would hold of the next of too.
LEMMA Induction ==
    ASSUME NEW S \in SUBSET Nat, 0 \in S, \A n \in S : n + 1 \in S
    PROVE  S = Nat
<1> SUFFICES ASSUME NEW m \in Nat, m \notin S PROVE FALSE
  OBVIOUS
<1> DEFINE B == {n \in 0 .. m : \A j \in 0 .. n : j \in S}
<1>1. IsFiniteSet(B) /\ B # {}
  <2>1. IsFiniteSet(0 .. m)
    BY FS_Interval
  <2>2. 0 \in B
    OBVIOUS
  <2> QED
    BY <2>1, <2>2, FS_Subset
<1>2. PICK k \in B : \A j \in B : j <= k
  <2> DEFINE same == [n \in B |-> n]
  <2>1. same \in [B -> Nat]
    OBVIOUS
  <2> HIDE DEF B
  <2>2. PICK k \in B : \A j \in B : same[j] <= same[k]
    <3> HIDE DEF same
    <3> QED
      BY <1>1, <2>1, LargestNumber
  <2> QED
    BY <2>2
<1>3. k + 1 \in S /\ k \in 0 .. m /\ k # m
  OBVIOUS
<1>4. k + 1 \in B
  <2>1. \A j \in 0 .. k + 1 : j \in 0 .. k \/ j = k + 1
    BY <1>3
  <2> QED
    BY <1>3, <2>1
<1> QED
  BY <1>2, <1>3, <1>4

\* A function the loop of n steps is exists for every n.
LEMMA LinesOneByOne ==
    ASSUME NEW c, Len(c) \in Nat
    PROVE  /\ LinesTo(c)[0] = <<>>
           /\ \A n \in 1 .. Len(c) :
                 LinesTo(c)[n] = IF c[n].form = "blank" THEN LinesTo(c)[n - 1]
                                 ELSE Append(LinesTo(c)[n - 1], c[n])
<1> DEFINE Step(x, n) == IF c[n].form = "blank" THEN x ELSE Append(x, c[n])
           first == <<>>
           Solves(h, n) ==
               h = [k \in 0 .. n |-> IF k = 0 THEN first ELSE Step(h[k - 1], k)]
           Solved == {n \in Nat : \E h : Solves(h, n)}
<1>1. LinesTo(c) = CHOOSE h : Solves(h, Len(c))
  BY DEF LinesTo
<1> HIDE DEF first, Step
<1>2. \E h : Solves(h, 0)
  <2>1. Solves([k \in 0 .. 0 |-> first], 0)
    OBVIOUS
  <2> QED
    BY <2>1
<1>3. ASSUME NEW n \in Nat, NEW h, Solves(h, n)
      PROVE  \E f : Solves(f, n + 1)
  <2> DEFINE f == [k \in 0 .. n + 1 |-> IF k <= n THEN h[k] ELSE Step(h[n], n + 1)]
  <2>1. /\ DOMAIN f = 0 .. n + 1 /\ f = [k \in DOMAIN f |-> f[k]]
        /\ \A k \in 0 .. n : f[k] = h[k]
        /\ f[n + 1] = Step(h[n], n + 1)
    OBVIOUS
  <2>2. \A k \in 0 .. n : h[k] = IF k = 0 THEN first ELSE Step(h[k - 1], k)
    BY <1>3
  <2> HIDE DEF f
  <2>3. ASSUME NEW k \in 0 .. n + 1
        PROVE  f[k] = IF k = 0 THEN first ELSE Step(f[k - 1], k)
    <3>1. CASE k = n + 1
      BY <2>1, <3>1
    <3>2. CASE k \in 0 .. n
      BY <2>1, <2>2, <3>2
    <3> QED
      BY <3>1, <3>2
  <2>4. Solves(f, n + 1)
    BY <2>1, <2>3
  <2> QED
    BY <2>4
<1>4. Solved = Nat
  <2> HIDE DEF Solves
  <2>1. 0 \in Solved /\ \A n \in Solved : n + 1 \in Solved
    BY <1>2, <1>3
  <2> HIDE DEF Solved
  <2> QED
    BY <2>1, Induction DEF Solved
<1>5. \E h : Solves(h, Len(c))
  BY <1>4
<1>6. Solves(LinesTo(c), Len(c))
  <2> HIDE DEF Solves
  <2> QED
    BY <1>1, <1>5
<1>7. \A n \in 0 .. Len(c) :
          LinesTo(c)[n] = IF n = 0 THEN first ELSE Step(LinesTo(c)[n - 1], n)
  BY <1>6
<1>8. /\ LinesTo(c)[0] = first
      /\ \A n \in 1 .. Len(c) : LinesTo(c)[n] = Step(LinesTo(c)[n - 1], n)
  BY <1>7
<1> QED
  BY <1>8 DEF first, Step

\* The same of the files.
LEMMA HeldOneByOne ==
    ASSUME NEW entries, Cardinality(Listed(entries)) \in Nat, NEW files
    PROVE  /\ HeldTo(entries, files)[0] = <<>>
           /\ \A n \in 1 .. Cardinality(Listed(entries)) :
                 HeldTo(entries, files)[n] =
                     HeldTo(entries, files)[n - 1] \o LinesOf(files[FileInTurn(entries, n)])
<1> DEFINE total == Cardinality(Listed(entries))
           Step(x, n) == x \o LinesOf(files[FileInTurn(entries, n)])
           first == <<>>
           Solves(h, n) ==
               h = [k \in 0 .. n |-> IF k = 0 THEN first ELSE Step(h[k - 1], k)]
           Solved == {n \in Nat : \E h : Solves(h, n)}
<1>1. HeldTo(entries, files) = CHOOSE h : Solves(h, total)
  BY DEF HeldTo
<1> HIDE DEF first, Step, total
<1>2. \E h : Solves(h, 0)
  <2>1. Solves([k \in 0 .. 0 |-> first], 0)
    OBVIOUS
  <2> QED
    BY <2>1
<1>3. ASSUME NEW n \in Nat, NEW h, Solves(h, n)
      PROVE  \E f : Solves(f, n + 1)
  <2> DEFINE f == [k \in 0 .. n + 1 |-> IF k <= n THEN h[k] ELSE Step(h[n], n + 1)]
  <2>1. /\ DOMAIN f = 0 .. n + 1 /\ f = [k \in DOMAIN f |-> f[k]]
        /\ \A k \in 0 .. n : f[k] = h[k]
        /\ f[n + 1] = Step(h[n], n + 1)
    OBVIOUS
  <2>2. \A k \in 0 .. n : h[k] = IF k = 0 THEN first ELSE Step(h[k - 1], k)
    BY <1>3
  <2> HIDE DEF f
  <2>3. ASSUME NEW k \in 0 .. n + 1
        PROVE  f[k] = IF k = 0 THEN first ELSE Step(f[k - 1], k)
    <3>1. CASE k = n + 1
      BY <2>1, <3>1
    <3>2. CASE k \in 0 .. n
      BY <2>1, <2>2, <3>2
    <3> QED
      BY <3>1, <3>2
  <2>4. Solves(f, n + 1)
    BY <2>1, <2>3
  <2> QED
    BY <2>4
<1>4. Solved = Nat
  <2> HIDE DEF Solves
  <2>1. 0 \in Solved /\ \A n \in Solved : n + 1 \in Solved
    BY <1>2, <1>3
  <2> HIDE DEF Solved
  <2> QED
    BY <2>1, Induction DEF Solved
<1>5. \E h : Solves(h, total)
  BY <1>4 DEF total
<1>6. Solves(HeldTo(entries, files), total)
  <2> HIDE DEF Solves
  <2> QED
    BY <1>1, <1>5
<1>7. \A n \in 0 .. total :
          HeldTo(entries, files)[n] = IF n = 0 THEN first ELSE Step(HeldTo(entries, files)[n - 1], n)
  BY <1>6
<1>8. /\ HeldTo(entries, files)[0] = first
      /\ \A n \in 1 .. total : HeldTo(entries, files)[n] = Step(HeldTo(entries, files)[n - 1], n)
  BY <1>7 DEF total
<1> QED
  BY <1>8 DEF first, Step, total

\* What is known of a sequence of manifest entries.
IsEntries(entries) == entries \in Seq([form : EntryForms, file : Files])

\* The places of the listed files: how many are before f, and how many are f.
LEMMA Places ==
    ASSUME NEW entries, IsEntries(entries), NEW f \in Nat
    PROVE  /\ IsFiniteSet(Listed(entries)) /\ Cardinality(Listed(entries)) \in Nat
           /\ Below(entries, f) \in Nat /\ UpTo(entries, f) \in Nat
           /\ UpTo(entries, f) <= Cardinality(Listed(entries))
           /\ Cardinality({k \in Listed(entries) : entries[k].file = f})
                  = UpTo(entries, f) - Below(entries, f)
           /\ Below(entries, f) <= UpTo(entries, f)
           /\ \A k \in Listed(entries) : entries[k].file \in EventFiles /\ entries[k].file \in Nat
<1> DEFINE L == Listed(entries)
           below == {k \in L : entries[k].file < f}
           exact == {k \in L : entries[k].file = f}
           upto == {k \in L : entries[k].file <= f}
<1>1. IsFiniteSet(L)
  <2>1. IsFiniteSet(1 .. Len(entries)) /\ L \subseteq 1 .. Len(entries)
    BY FS_Interval DEF IsEntries, Listed
  <2> QED
    BY <2>1, FS_Subset
<1>2. \A k \in L : entries[k].file \in EventFiles /\ entries[k].file \in Nat
  BY IngestAssumption DEF Listed
<1>3. upto = below \cup exact /\ below \cap exact = {}
  BY <1>2
<1>4. below \subseteq L /\ exact \subseteq L /\ upto \subseteq L
  OBVIOUS
<1> HIDE DEF below, exact, upto, L
<1>5. /\ IsFiniteSet(below) /\ IsFiniteSet(exact) /\ IsFiniteSet(upto)
      /\ Cardinality(upto) <= Cardinality(L)
  BY <1>1, <1>4, FS_Subset
<1>6. /\ Cardinality(L) \in Nat /\ Cardinality(below) \in Nat
      /\ Cardinality(exact) \in Nat /\ Cardinality(upto) \in Nat
  BY <1>1, <1>5, FS_CardinalityType
<1>10. Cardinality(below \cap exact) = 0
  BY <1>3, FS_EmptySet
<1>7. Cardinality(upto) = Cardinality(below) + Cardinality(exact)
  <2>1. Cardinality(upto)
            = Cardinality(below) + Cardinality(exact) - Cardinality(below \cap exact)
    BY <1>3, <1>5, FS_Union
  <2> QED
    BY <1>6, <1>10, <2>1
<1>8. Cardinality(below) = Below(entries, f) /\ Cardinality(upto) = UpTo(entries, f)
  BY DEF below, upto, L, Below, UpTo
<1>9. Cardinality(exact) = UpTo(entries, f) - Below(entries, f) /\ Below(entries, f) <= UpTo(entries, f)
  BY <1>6, <1>7, <1>8
<1> QED
  BY <1>1, <1>2, <1>5, <1>6, <1>8, <1>9 DEF exact, L

\* Of two listed files the later in path order comes after all of the other.
LEMMA PlacesInOrder ==
    ASSUME NEW entries, IsEntries(entries), NEW f \in Nat, NEW g \in Nat, g < f
    PROVE  UpTo(entries, g) <= Below(entries, f)
<1> DEFINE L == Listed(entries)
           upto == {k \in L : entries[k].file <= g}
           below == {k \in L : entries[k].file < f}
<1>1. upto \subseteq below /\ IsFiniteSet(below)
  <2>1. IsFiniteSet(L) /\ \A k \in L : entries[k].file \in Nat
    BY Places
  <2> QED
    BY <2>1, FS_Subset
<1> HIDE DEF upto, below
<1>2. Cardinality(upto) <= Cardinality(below)
  BY <1>1, FS_Subset
<1> QED
  BY <1>2 DEF upto, below, L, UpTo, Below

\* Some file is the last before f, and some is the last of all.
LEMMA LastBefore ==
    ASSUME NEW entries, IsEntries(entries), NEW f \in Nat, Below(entries, f) > 0
    PROVE  \E g \in EventFiles : /\ g < f /\ UpTo(entries, g) = Below(entries, f)
                                 /\ Below(entries, g) < UpTo(entries, g)
<1> DEFINE S == {k \in Listed(entries) : entries[k].file < f}
           number == [k \in S |-> entries[k].file]
<1>1. /\ IsFiniteSet(Listed(entries)) /\ S \subseteq Listed(entries)
      /\ \A k \in S : entries[k].file \in EventFiles /\ entries[k].file \in Nat
  BY Places
<1>2. IsFiniteSet(S) /\ S # {}
  <2>1. IsFiniteSet(S)
    BY <1>1, FS_Subset
  <2>2. Cardinality(S) > 0
    BY DEF Below
  <2> QED
    BY <2>1, <2>2, FS_EmptySet
<1>3. PICK k \in S : \A j \in S : number[j] <= number[k]
  <2>1. number \in [S -> Nat]
    BY <1>1
  <2> HIDE DEF number, S
  <2> QED
    BY <1>2, <2>1, LargestNumber
<1> DEFINE g == entries[k].file
<1>4. g \in EventFiles /\ g \in Nat /\ g < f /\ \A j \in S : entries[j].file <= g
  BY <1>1, <1>3
<1>5. {j \in Listed(entries) : entries[j].file <= g} = S
  <2>1. \A j \in Listed(entries) : entries[j].file \in Nat
    BY Places
  <2> QED
    BY <1>4, <2>1
<1>6. UpTo(entries, g) = Below(entries, f)
  BY <1>5 DEF UpTo, Below
<1>7. Below(entries, g) < UpTo(entries, g)
  <2> DEFINE exact == {j \in Listed(entries) : entries[j].file = g}
  <2>1. k \in exact /\ exact \subseteq Listed(entries)
    OBVIOUS
  <2>2. Cardinality(exact) = UpTo(entries, g) - Below(entries, g)
    BY <1>4, Places
  <2>3. IsFiniteSet(exact)
    BY <1>1, <2>1, FS_Subset
  <2>4. Cardinality(exact) \in Nat /\ Cardinality(exact) # 0
    <3> HIDE DEF exact
    <3> QED
      BY <2>1, <2>3, FS_EmptySet, FS_CardinalityType
  <2>5. UpTo(entries, g) \in Nat /\ Below(entries, g) \in Nat
    BY <1>4, Places
  <2> QED
    BY <2>2, <2>4, <2>5
<1> QED
  BY <1>4, <1>6, <1>7

\* The file in turn is the one whose places are next.
LEMMA InTurn ==
    ASSUME NEW entries, IsEntries(entries), NEW f \in EventFiles, NEW n \in Nat,
           Below(entries, f) < n, n <= UpTo(entries, f)
    PROVE  FileInTurn(entries, n) = f
<1>1. EventFiles \subseteq Nat
  BY IngestAssumption
<1>2. ASSUME NEW g \in EventFiles, Below(entries, g) < n, n <= UpTo(entries, g)
      PROVE  g = f
  <2>1. /\ Below(entries, f) \in Nat /\ UpTo(entries, f) \in Nat
        /\ Below(entries, g) \in Nat /\ UpTo(entries, g) \in Nat
    BY <1>1, Places
  <2>2. ~(g < f)
    BY <1>1, <1>2, <2>1, PlacesInOrder
  <2>3. ~(f < g)
    BY <1>1, <1>2, <2>1, PlacesInOrder
  <2> QED
    BY <1>1, <2>2, <2>3
<1> QED
  BY <1>2 DEF FileInTurn

\* The files still to be read when the first m in path order have been opened.
Left(entries, m, f) ==
    IF f \notin EventFiles \/ UpTo(entries, f) <= m THEN 0
    ELSE IF m <= Below(entries, f) THEN UpTo(entries, f) - Below(entries, f)
    ELSE UpTo(entries, f) - m

\* The first m files are opened, and what is read is what they hold, of the
\* last of them up to its next line while it is open.
ReadSoFar(m) ==
    /\ m \in 0 .. Cardinality(Listed(manifest.entries))
    /\ \A f \in Files : pending[f] = Left(manifest.entries, m, f)
    /\ cur = NoFile => consumed = HeldTo(manifest.entries, written)[m]
    /\ cur # NoFile =>
          /\ m > 0 /\ FileInTurn(manifest.entries, m) = cur
          /\ disk[cur] = written[cur] /\ disk[cur] # Missing
          /\ at <= Len(written[cur]) + 1
          /\ HeldTo(manifest.entries, written)[m - 1] \in Seq(Lines)
          /\ consumed = HeldTo(manifest.entries, written)[m - 1] \o LinesTo(written[cur])[at - 1]

\* Before that, what was verified so far is to be read as often as listed.
Verified ==
    /\ cur = NoFile /\ consumed = <<>>
    /\ entry \in 1 .. Len(manifest.entries) + 1
    /\ \A k \in DOMAIN manifest.entries : k < entry => EntryHolds(manifest.entries[k])
    /\ \A f \in Files :
          pending[f] = Cardinality({k \in Listed(manifest.entries) :
                                       k < entry /\ manifest.entries[k].file = f})

SettledInv ==
    written \notin Unsettled =>
        /\ phase = "start" => entry = 1 /\ cur = NoFile /\ consumed = <<>>
                              /\ \A f \in Files : pending[f] = 0
        /\ phase = "verifying" => Verified
        /\ phase \in {"ingesting", "done"} =>
              /\ \A k \in DOMAIN manifest.entries : EntryHolds(manifest.entries[k])
              /\ \E m : ReadSoFar(m)
        /\ phase = "done" => cur = NoFile /\ ToRead = {}

\* A manifest's entries are entries; a settled bundle stays as it is.
LEMMA EntriesAreEntries ==
    ASSUME TypeOK
    PROVE  IsEntries(manifest.entries)
BY DEF TypeOK, ManifestType, IsEntries

\* What a file that was verified holds.
LEMMA HoldsAsWritten ==
    ASSUME TypeOK, NEW k \in DOMAIN manifest.entries, EntryHolds(manifest.entries[k])
    PROVE  LET f == manifest.entries[k].file
           IN  f \in Files /\ disk[f] = written[f] /\ disk[f] # Missing
<1>1. manifest.entries[k] \in [form : EntryForms, file : Files]
  BY EntriesAreEntries, ElementOf DEF IsEntries
<1> QED
  BY <1>1 DEF EntryHolds

\* The lines of a content are lines.
LEMMA LinesAreLines ==
    ASSUME NEW c \in Seq(Lines), NEW n \in 0 .. Len(c)
    PROVE  LinesTo(c)[n] \in Seq(Lines)
<1> DEFINE S == {k \in Nat : k <= Len(c) => LinesTo(c)[k] \in Seq(Lines)}
<1>0. Len(c) \in Nat /\ \A k \in 1 .. Len(c) : c[k] \in Lines
  OBVIOUS
<1>1. 0 \in S
  <2>1. LinesTo(c)[0] = <<>>
    BY <1>0, LinesOneByOne
  <2>2. <<>> \in Seq(Lines)
    OBVIOUS
  <2>3. LinesTo(c)[0] \in Seq(Lines)
    BY <2>1, <2>2
  <2> QED
    BY <2>3
<1>2. ASSUME NEW k \in S, k + 1 <= Len(c) PROVE LinesTo(c)[k + 1] \in Seq(Lines)
  <2>1. k + 1 \in 1 .. Len(c) /\ (k + 1) - 1 = k /\ k <= Len(c)
    BY <1>0, <1>2
  <2>2. LinesTo(c)[k] \in Seq(Lines) /\ c[k + 1] \in Lines
    BY <1>0, <2>1
  <2>3. LinesTo(c)[k + 1] = IF c[k + 1].form = "blank" THEN LinesTo(c)[k]
                            ELSE Append(LinesTo(c)[k], c[k + 1])
    BY <1>0, <2>1, LinesOneByOne
  <2>4. Append(LinesTo(c)[k], c[k + 1]) \in Seq(Lines)
    BY <2>2
  <2> QED
    BY <2>2, <2>3, <2>4
<1>3. S \in SUBSET Nat /\ \A k \in S : k + 1 \in S
  BY <1>2
<1>4. S = Nat
  <2> HIDE DEF S
  <2> QED
    BY <1>1, <1>3, Induction
<1> QED
  BY <1>4

\* Nothing read yet, and every listed file still to be.
LEMMA NothingReadYet ==
    ASSUME TypeOK, Verified, entry > Len(manifest.entries)
    PROVE  ReadSoFar(0)
<1> DEFINE E == manifest.entries
<1>1. IsEntries(E)
  BY EntriesAreEntries
<1>2. 0 \in 0 .. Cardinality(Listed(E)) /\ consumed = HeldTo(E, written)[0]
  <2>1. 0 \in Nat /\ Cardinality(Listed(E)) \in Nat
    BY <1>1, Places
  <2>2. HeldTo(E, written)[0] = <<>>
    BY <2>1, HeldOneByOne
  <2>3. consumed = <<>>
    BY DEF Verified
  <2> QED
    BY <2>1, <2>2, <2>3
<1>3. ASSUME NEW f \in Files PROVE pending[f] = Left(E, 0, f)
  <2>1. f \in Nat
    BY IngestAssumption
  <2>2. /\ Below(E, f) \in Nat /\ UpTo(E, f) \in Nat /\ Below(E, f) <= UpTo(E, f)
        /\ Cardinality({k \in Listed(E) : E[k].file = f}) = UpTo(E, f) - Below(E, f)
        /\ \A k \in Listed(E) : E[k].file \in EventFiles
    BY <1>1, <2>1, Places
  <2>3. \A k \in Listed(E) : k < entry
    BY DEF TypeOK, ManifestType, Listed
  <2>4. {k \in Listed(E) : k < entry /\ E[k].file = f} = {k \in Listed(E) : E[k].file = f}
    BY <2>3
  <2>5. pending[f] = UpTo(E, f) - Below(E, f)
    BY <2>2, <2>4 DEF Verified
  <2>6. CASE f \in EventFiles
    BY <2>2, <2>5, <2>6 DEF Left
  <2>7. CASE f \notin EventFiles
    <3>1. {k \in Listed(E) : E[k].file = f} = {}
      BY <2>2, <2>7
    <3>2. UpTo(E, f) - Below(E, f) = 0
      BY <2>2, <3>1, FS_EmptySet
    <3> QED
      BY <2>5, <2>7, <3>2 DEF Left
  <2> QED
    BY <2>6, <2>7
<1> QED
  BY <1>2, <1>3 DEF ReadSoFar, Verified

\* The file opened next is the next in path order.
LEMMA OpensInTurn ==
    ASSUME TypeOK, NEW m, ReadSoFar(m), NEW f \in Files, OpenFile(f)
    PROVE  /\ f \in EventFiles /\ Below(manifest.entries, f) <= m
           /\ m < UpTo(manifest.entries, f)
           /\ pending[f] = UpTo(manifest.entries, f) - m
<1> DEFINE E == manifest.entries
<1>1. /\ IsEntries(E) /\ m \in Nat /\ pending[f] = Left(E, m, f) /\ pending[f] > 0
      /\ pending \in [Files -> Nat] /\ f \in Nat /\ EventFiles \subseteq Files
      /\ \A g \in Files : pending[g] > 0 => f <= g
  <2>1. m \in Nat
    BY DEF ReadSoFar
  <2>2. pending \in [Files -> Nat] /\ f \in Nat /\ EventFiles \subseteq Files
    BY IngestAssumption DEF TypeOK
  <2> QED
    BY <2>1, <2>2, EntriesAreEntries DEF OpenFile, ToRead, ReadSoFar
<1>2. /\ Below(E, f) \in Nat /\ UpTo(E, f) \in Nat
  BY <1>1, Places
<1>3. f \in EventFiles /\ m < UpTo(E, f)
  BY <1>1, <1>2 DEF Left
<1>4. Below(E, f) <= m
  <2> SUFFICES ASSUME m < Below(E, f) PROVE FALSE
    BY <1>1, <1>2
  <2>1. PICK g \in EventFiles : /\ g < f /\ UpTo(E, g) = Below(E, f)
                                /\ Below(E, g) < UpTo(E, g)
    BY <1>1, <1>2, LastBefore
  <2>2. g \in Files /\ g \in Nat /\ ~(pending[g] > 0)
    BY <1>1, <2>1, IngestAssumption
  <2>3. pending[g] = 0 /\ pending[g] = Left(E, m, g)
    BY <1>1, <2>2 DEF ReadSoFar
  <2>4. Below(E, g) \in Nat /\ UpTo(E, g) \in Nat
    BY <1>1, <2>2, Places
  <2> QED
    BY <1>1, <1>2, <2>1, <2>3, <2>4 DEF Left
<1>5. pending[f] = UpTo(E, f) - m
  BY <1>1, <1>2, <1>3, <1>4 DEF Left
<1> QED
  BY <1>3, <1>4, <1>5

LEMMA OpenStep ==
    ASSUME TypeOK, TypeOK', NEW m, ReadSoFar(m), NEW f \in Files, OpenFile(f),
           \A k \in DOMAIN manifest.entries : EntryHolds(manifest.entries[k])
    PROVE  disk[f] # Missing /\ ReadSoFar(m + 1)'
<1> DEFINE E == manifest.entries
<1>1. /\ IsEntries(E) /\ m \in Nat /\ f \in Nat /\ EventFiles \subseteq Nat
      /\ pending \in [Files -> Nat] /\ consumed \in Seq(Lines)
      /\ cur = NoFile /\ consumed = HeldTo(E, written)[m]
  <2>1. m \in Nat
    BY DEF ReadSoFar
  <2>2. pending \in [Files -> Nat] /\ f \in Nat /\ EventFiles \subseteq Nat
    BY IngestAssumption DEF TypeOK
  <2> QED
    BY <2>1, <2>2, EntriesAreEntries DEF OpenFile, ReadSoFar, TypeOK
<1>2. /\ f \in EventFiles /\ Below(E, f) <= m /\ m < UpTo(E, f)
      /\ pending[f] = UpTo(E, f) - m
  BY OpensInTurn
<1>3. /\ Below(E, f) \in Nat /\ UpTo(E, f) \in Nat /\ UpTo(E, f) <= Cardinality(Listed(E))
      /\ Cardinality(Listed(E)) \in Nat
      /\ Cardinality({k \in Listed(E) : E[k].file = f}) = UpTo(E, f) - Below(E, f)
  BY <1>1, Places
<1>4. disk[f] = written[f] /\ disk[f] # Missing
  <2>1. Cardinality({k \in Listed(E) : E[k].file = f}) # 0
    BY <1>1, <1>2, <1>3
  <2>2. PICK k \in Listed(E) : E[k].file = f
    BY <2>1, FS_EmptySet
  <2>3. k \in DOMAIN E
    BY DEF Listed
  <2> QED
    BY <2>2, <2>3, HoldsAsWritten
<1>5. /\ cur' = f /\ at' = 1 /\ pending' = [pending EXCEPT ![f] = @ - 1]
      /\ UNCHANGED <<written, manifest, disk, consumed>>
  BY <1>4 DEF OpenFile, bundle, result
<1>6. m + 1 \in 0 .. Cardinality(Listed(E)) /\ m + 1 > 0 /\ (m + 1) - 1 = m /\ m + 1 \in Nat
  BY <1>1, <1>2, <1>3
<1>7. ASSUME NEW g \in Files PROVE pending'[g] = Left(E, m + 1, g)
  <2>1. CASE g = f
    <3>1. pending'[g] = UpTo(E, f) - m - 1
      BY <1>1, <1>2, <1>5, <2>1
    <3> QED
      BY <1>1, <1>2, <1>3, <2>1, <3>1 DEF Left
  <2>2. CASE g # f
    <3>1. pending'[g] = Left(E, m, g)
      BY <1>1, <1>5, <2>2 DEF ReadSoFar
    <3>2. CASE g \notin EventFiles
      BY <3>1, <3>2 DEF Left
    <3>3. CASE g \in EventFiles
      <4>1. g \in Nat /\ Below(E, g) \in Nat /\ UpTo(E, g) \in Nat /\ Below(E, g) <= UpTo(E, g)
        BY <1>1, <3>3, Places
      <4>2. CASE g < f
        <5>1. UpTo(E, g) <= Below(E, f)
          BY <1>1, <4>1, <4>2, PlacesInOrder
        <5>2. UpTo(E, g) <= m /\ UpTo(E, g) <= m + 1
          BY <1>1, <1>2, <1>3, <4>1, <5>1
        <5> QED
          BY <3>1, <5>2 DEF Left
      <4>3. CASE f < g
        <5>1. UpTo(E, f) <= Below(E, g)
          BY <1>1, <4>1, <4>3, PlacesInOrder
        <5>2. m + 1 <= Below(E, g) /\ m <= Below(E, g)
          BY <1>1, <1>2, <1>3, <4>1, <5>1
        <5> QED
          BY <1>1, <3>1, <4>1, <5>2 DEF Left
      <4> QED
        BY <1>1, <2>2, <4>1, <4>2, <4>3
    <3> QED
      BY <3>2, <3>3
  <2> QED
    BY <2>1, <2>2
<1>8. FileInTurn(E, m + 1) = f
  <2>1. Below(E, f) < m + 1 /\ m + 1 <= UpTo(E, f)
    BY <1>1, <1>2, <1>3
  <2> QED
    BY <1>1, <1>2, <1>6, <2>1, InTurn
<1>9. /\ 1 <= Len(written[f]) + 1
      /\ consumed = HeldTo(E, written)[m] \o LinesTo(written[f])[1 - 1]
  <2>1. written[f] \in Seq(Lines) /\ Len(written[f]) \in Nat
    BY IngestAssumption DEF TypeOK
  <2>2. LinesTo(written[f])[0] = <<>>
    BY <2>1, LinesOneByOne
  <2>3. consumed \o <<>> = consumed
    BY <1>1, ConcatEmptySeq
  <2>4. consumed = consumed \o LinesTo(written[f])[0]
    BY <2>2, <2>3
  <2>5. 1 - 1 = 0 /\ 1 <= Len(written[f]) + 1
    BY <2>1
  <2> QED
    BY <1>1, <2>4, <2>5
<1>10. cur' # NoFile
  BY <1>5, IngestAssumption DEF NoFile
<1> QED
  BY <1>1, <1>4, <1>5, <1>6, <1>7, <1>8, <1>9, <1>10 DEF ReadSoFar

\* Reading on in the open file.
LEMMA LineStep ==
    ASSUME TypeOK, NEW m, ReadSoFar(m), Reading,
           SkipBlank \/ Quarantine \/ AcceptLine \/ EndFile
    PROVE  ReadSoFar(m)'
<1> DEFINE E == manifest.entries
           c == written[cur]
           held == HeldTo(E, written)[m - 1]
<1>1. /\ cur # NoFile /\ m > 0 /\ FileInTurn(E, m) = cur
      /\ disk[cur] = c /\ disk[cur] # Missing
      /\ at <= Len(c) + 1 /\ held \in Seq(Lines)
      /\ consumed = held \o LinesTo(c)[at - 1]
      /\ m \in 0 .. Cardinality(Listed(E))
  BY DEF Reading, ReadSoFar
<1>2. c \in Seq(Lines) /\ Len(c) \in Nat /\ at \in Nat \ {0} /\ cur \in Files
  <2>1. cur \in Files /\ at \in Nat \ {0}
    BY <1>1 DEF TypeOK
  <2>2. written[cur] \in Contents
    BY <2>1 DEF TypeOK
  <2>3. c \in Seq(Lines)
    BY <2>2, IngestAssumption
  <2> HIDE DEF c
  <2> QED
    BY <2>1, <2>3
<1>3. UNCHANGED <<written, manifest, disk, pending>>
  BY DEF SkipBlank, Quarantine, AcceptLine, EndFile, Advance, bundle
<1>4. at - 1 \in 0 .. Len(c) /\ LinesTo(c)[at - 1] \in Seq(Lines)
  <2>1. at - 1 \in 0 .. Len(c)
    BY <1>1, <1>2
  <2> QED
    BY <1>2, <2>1, LinesAreLines
<1>5. CASE SkipBlank \/ Quarantine \/ AcceptLine
  <2>1. HasLine /\ at' = at + 1 /\ cur' = cur
    BY <1>5 DEF SkipBlank, Quarantine, AcceptLine, Advance
  <2>2. at \in 1 .. Len(c) /\ Line = c[at] /\ at + 1 <= Len(c) + 1 /\ (at + 1) - 1 = at
        /\ c[at] \in Lines
    BY <1>1, <1>2, <2>1 DEF HasLine, Line
  <2>3. LinesTo(c)[at] = IF c[at].form = "blank" THEN LinesTo(c)[at - 1]
                         ELSE Append(LinesTo(c)[at - 1], c[at])
    BY <1>2, <2>2, LinesOneByOne
  <2>4. consumed' = held \o LinesTo(c)[at]
    <3>1. CASE SkipBlank
      BY <1>1, <2>2, <2>3, <3>1 DEF SkipBlank, result
    <3>2. CASE Quarantine \/ AcceptLine
      <4>1. c[at].form # "blank" /\ consumed' = Append(consumed, c[at])
        BY <2>2, <3>2 DEF Quarantine, AcceptLine, Verdict, VerdictOn, Accept
      <4> HIDE DEF held, c
      <4>2. Append(held \o LinesTo(c)[at - 1], c[at])
                = held \o Append(LinesTo(c)[at - 1], c[at])
        <5>1. \A s, t \in Seq(Lines), x \in Lines : Append(s \o t, x) = s \o Append(t, x)
          OBVIOUS
        <5> QED
          BY <1>1, <1>4, <2>2, <5>1
      <4> QED
        BY <1>1, <2>3, <4>1, <4>2
    <3> QED
      BY <1>5, <3>1, <3>2
  <2> HIDE DEF held
  <2>5. /\ at' <= Len(c) + 1 /\ consumed' = held \o LinesTo(c)[at' - 1]
    BY <2>1, <2>2, <2>4
  <2>6. /\ m \in 0 .. Cardinality(Listed(manifest'.entries))
        /\ \A f \in Files : pending'[f] = Left(manifest'.entries, m, f)
    BY <1>3 DEF ReadSoFar
  <2> QED
    BY <1>1, <1>3, <2>1, <2>5, <2>6 DEF ReadSoFar, held
<1>6. CASE EndFile
  <2>1. ~HasLine /\ cur' = NoFile /\ consumed' = consumed
    BY <1>6 DEF EndFile, result
  <2>2. at - 1 = Len(c)
    BY <1>1, <1>2, <2>1 DEF HasLine
  <2>3. m \in 1 .. Cardinality(Listed(E)) /\ Cardinality(Listed(E)) \in Nat
    <3>1. IsEntries(E) /\ 0 \in Nat
      BY EntriesAreEntries
    <3>2. Cardinality(Listed(E)) \in Nat
      BY <3>1, Places
    <3> QED
      BY <1>1, <3>2
  <2>4. HeldTo(E, written)[m] = held \o LinesOf(c)
    BY <1>1, <2>3, HeldOneByOne
  <2>5. consumed' = HeldTo(E, written)[m]
    BY <1>1, <2>1, <2>2, <2>4 DEF LinesOf
  <2>6. /\ m \in 0 .. Cardinality(Listed(manifest'.entries))
        /\ \A f \in Files : pending'[f] = Left(manifest'.entries, m, f)
    BY <1>3 DEF ReadSoFar
  <2> QED
    BY <1>3, <2>1, <2>5, <2>6 DEF ReadSoFar
<1> QED
  BY <1>5, <1>6

LEMMA VerifyStep ==
    ASSUME TypeOK, TypeOK', Verified, VerifyEntry
    PROVE  Verified'
<1> DEFINE E == manifest.entries
           e == E[entry]
<1>1. /\ entry \in Nat /\ entry <= Len(E) /\ EntryHolds(e) /\ entry' = entry + 1
      /\ UNCHANGED <<written, manifest, disk, cur, consumed>>
      /\ pending' = IF e.file \in EventFiles
                    THEN [pending EXCEPT ![e.file] = @ + 1] ELSE pending
      /\ pending \in [Files -> Nat]
  BY DEF VerifyEntry, bundle, result, TypeOK
<1>2. IsEntries(E) /\ Len(E) \in Nat /\ DOMAIN E = 1 .. Len(E) /\ DOMAIN E \subseteq Nat
  BY EntriesAreEntries DEF IsEntries
<1>0. entry > 0
  BY DEF Verified
<1>3. entry' \in 1 .. Len(E) + 1
  BY <1>0, <1>1, <1>2
<1>4. \A k \in DOMAIN E : k < entry + 1 => k < entry \/ k = entry
  BY <1>1, <1>2
<1>5. \A k \in DOMAIN E : k < entry + 1 => EntryHolds(E[k])
  BY <1>1, <1>4 DEF Verified
<1>6. ASSUME NEW f \in Files
      PROVE  pending'[f] = Cardinality({k \in Listed(E) : k < entry + 1 /\ E[k].file = f})
  <2> DEFINE before == {k \in Listed(E) : k < entry /\ E[k].file = f}
             after == {k \in Listed(E) : k < entry + 1 /\ E[k].file = f}
  <2>1. Listed(E) \subseteq DOMAIN E
    BY DEF Listed
  <2>2. pending[f] = Cardinality(before) /\ pending[f] \in Nat
    BY <1>1 DEF Verified
  <2>3. \A k \in DOMAIN E : k < entry => k < entry + 1
    BY <1>1, <1>2
  <2>4. CASE e.file = f /\ f \in EventFiles
    <3>1. entry \in Listed(E) /\ entry \notin before
      BY <1>0, <1>1, <1>2, <2>4 DEF Listed
    <3>2. after = before \cup {entry}
      BY <1>1, <1>4, <2>1, <2>3, <2>4, <3>1
    <3>3. IsFiniteSet(before)
      <4>1. IsFiniteSet(Listed(E))
        <5>1. 0 \in Nat
          OBVIOUS
        <5> QED
          BY <1>2, <5>1, Places
      <4>2. before \subseteq Listed(E)
        OBVIOUS
      <4> QED
        BY <4>1, <4>2, FS_Subset
    <3> HIDE DEF before, after
    <3>4. Cardinality(after) = Cardinality(before) + 1
      BY <3>1, <3>2, <3>3, FS_AddElement
    <3>5. pending'[f] = pending[f] + 1
      BY <1>1, <2>4
    <3> QED
      BY <2>2, <3>4, <3>5 DEF after
  <2>5. CASE ~(e.file = f /\ f \in EventFiles)
    <3>1. pending'[f] = pending[f]
      BY <1>1, <2>5
    <3>2. \A k \in Listed(E) : k = entry => E[k].file # f
      BY <2>5 DEF Listed
    <3>3. after = before
      BY <1>4, <2>1, <2>3, <3>2
    <3> QED
      BY <2>2, <3>1, <3>3
  <2> QED
    BY <2>4, <2>5
<1> QED
  BY <1>1, <1>3, <1>5, <1>6 DEF Verified, EntryHolds

LEMMA SettledStep ==
    ASSUME TypeOK, TypeOK', SettledInv, [Next]_vars
    PROVE  SettledInv'
<1> SUFFICES ASSUME written' \notin Unsettled PROVE SettledInv'
  BY DEF SettledInv
<1>1. UNCHANGED <<written, manifest, disk>>
  <2>1. UNCHANGED written
    BY DEF Next, Engine, Rewrite, ReadManifest, RefuseManifest, VerifyEntry, RefuseEntry,
       BeginIngest, OpenFile, SkipBlank, TooDeep, Quarantine, AcceptLine, EndFile, Finish,
       Abort, Advance, bundle, vars
  <2>2. \A f, c : ~Rewrite(f, c)
    BY <2>1 DEF Rewrite
  <2>3. Engine \/ UNCHANGED vars
    BY <2>2 DEF Next
  <2> QED
    BY <2>3 DEF Engine, ReadManifest, RefuseManifest, VerifyEntry, RefuseEntry,
       BeginIngest, OpenFile, SkipBlank, TooDeep, Quarantine, AcceptLine, EndFile, Finish,
       Abort, Advance, bundle, vars
<1>2. Engine \/ UNCHANGED vars
  <2>1. \A f, c : ~Rewrite(f, c)
    BY <1>1 DEF Rewrite
  <2> QED
    BY <2>1 DEF Next
<1> USE DEF Running
<1>3. CASE phase' = "aborted"
  BY <1>3 DEF SettledInv
<1>4. CASE UNCHANGED vars
  <2>1. UNCHANGED <<written, manifest, disk, phase, entry, pending, cur, at, consumed>>
    BY <1>4 DEF vars
  <2>2. phase = "start" => (entry = 1 /\ cur = NoFile /\ consumed = <<>>
                            /\ \A f \in Files : pending[f] = 0)'
    BY <1>1, <2>1 DEF SettledInv
  <2>3. phase = "verifying" => Verified'
    BY <1>1, <2>1 DEF SettledInv, Verified, EntryHolds
  <2>4. ASSUME phase \in {"ingesting", "done"}
        PROVE  /\ \A k \in DOMAIN manifest'.entries : EntryHolds(manifest.entries[k])'
               /\ \E m : ReadSoFar(m)'
    <3>1. /\ \A k \in DOMAIN manifest.entries : EntryHolds(manifest.entries[k])
          /\ \E m : ReadSoFar(m)
      BY <1>1, <2>1, <2>4 DEF SettledInv
    <3>2. \A m : ReadSoFar(m) => ReadSoFar(m)'
      BY <2>1 DEF ReadSoFar
    <3> QED
      BY <2>1, <3>1, <3>2 DEF EntryHolds
  <2>5. phase = "done" => cur' = NoFile /\ ToRead' = {}
    BY <1>1, <2>1 DEF SettledInv, ToRead
  <2> QED
    BY <2>1, <2>2, <2>3, <2>4, <2>5 DEF SettledInv
<1>5. CASE ReadManifest
  <2>1. phase = "start" /\ phase' = "verifying" /\ UNCHANGED <<entry, pending, cur, consumed>>
    BY <1>5 DEF ReadManifest, result
  <2>2. entry = 1 /\ cur = NoFile /\ consumed = <<>> /\ \A f \in Files : pending[f] = 0
    BY <1>1, <2>1 DEF SettledInv
  <2>3. IsEntries(manifest.entries)
    BY EntriesAreEntries
  <2>4. /\ Len(manifest.entries) \in Nat
        /\ \A k \in DOMAIN manifest.entries : ~(k < 1)
        /\ Listed(manifest.entries) \subseteq DOMAIN manifest.entries
    BY <2>3 DEF IsEntries, Listed
  <2>5. \A f : {k \in Listed(manifest.entries) : k < 1 /\ manifest.entries[k].file = f} = {}
    BY <2>4
  <2>6. Cardinality({}) = 0
    BY FS_EmptySet
  <2>7. 1 \in 1 .. Len(manifest.entries) + 1
    BY <2>4
  <2>8. Verified'
    BY <1>1, <2>1, <2>2, <2>4, <2>5, <2>6, <2>7 DEF Verified
  <2> QED
    BY <2>1, <2>8 DEF SettledInv
<1>6. CASE VerifyEntry
  <2>1. phase = "verifying" /\ phase' = "verifying"
    BY <1>6 DEF VerifyEntry
  <2>2. Verified
    BY <1>1, <2>1 DEF SettledInv
  <2>3. Verified'
    BY <1>6, <2>2, VerifyStep
  <2> QED
    BY <2>1, <2>3 DEF SettledInv
<1>7. CASE BeginIngest
  <2>1. phase = "verifying" /\ phase' = "ingesting" /\ entry > Len(manifest.entries)
        /\ UNCHANGED <<entry, pending, cur, at, consumed>>
    BY <1>7 DEF BeginIngest, result
  <2>2. Verified
    BY <1>1, <2>1 DEF SettledInv
  <2>3. ReadSoFar(0)
    BY <2>1, <2>2, NothingReadYet
  <2>4. ReadSoFar(0)'
    BY <1>1, <2>1, <2>3 DEF ReadSoFar
  <2>5. \A k \in DOMAIN manifest.entries : k < entry
    BY <2>1, EntriesAreEntries DEF IsEntries, TypeOK
  <2>6. \A k \in DOMAIN manifest'.entries : EntryHolds(manifest.entries[k])'
    BY <1>1, <2>2, <2>5 DEF Verified, EntryHolds
  <2> QED
    BY <2>1, <2>4, <2>6 DEF SettledInv
<1>8. ASSUME phase = "ingesting", phase' \in {"ingesting", "done"},
             \E m : ReadSoFar(m)', phase' = "done" => cur' = NoFile /\ ToRead' = {}
      PROVE  SettledInv'
  <2>1. \A k \in DOMAIN manifest'.entries : EntryHolds(manifest.entries[k])'
    BY <1>1, <1>8 DEF SettledInv, EntryHolds
  <2> QED
    BY <1>8, <2>1 DEF SettledInv
<1>9. ASSUME phase = "ingesting"
      PROVE  /\ \E m : ReadSoFar(m)
             /\ \A k \in DOMAIN manifest.entries : EntryHolds(manifest.entries[k])
  BY <1>1, <1>9 DEF SettledInv
<1>10. ASSUME NEW f \in Files, OpenFile(f) PROVE SettledInv'
  <2>1. phase = "ingesting"
    BY <1>10 DEF OpenFile
  <2>2. PICK m : ReadSoFar(m)
    BY <1>9, <2>1
  <2>3. disk[f] # Missing /\ ReadSoFar(m + 1)'
    BY <1>9, <1>10, <2>1, <2>2, OpenStep
  <2>4. phase' = "ingesting"
    BY <1>10, <2>1, <2>3 DEF OpenFile
  <2> QED
    BY <1>8, <2>1, <2>3, <2>4
<1>11. CASE SkipBlank \/ Quarantine \/ AcceptLine \/ EndFile
  <2>1. phase = "ingesting" /\ phase' = "ingesting" /\ Reading
    BY <1>11 DEF SkipBlank, Quarantine, AcceptLine, EndFile, Advance, Reading
  <2>2. PICK m : ReadSoFar(m)
    BY <1>9, <2>1
  <2>3. ReadSoFar(m)'
    BY <1>11, <2>1, <2>2, LineStep
  <2> QED
    BY <1>8, <2>1, <2>3
<1>12. CASE Finish
  <2>1. phase = "ingesting" /\ phase' = "done" /\ cur = NoFile /\ ToRead = {}
        /\ UNCHANGED <<pending, cur, at, consumed>>
    BY <1>12 DEF Finish, result
  <2>2. PICK m : ReadSoFar(m)
    BY <1>9, <2>1
  <2>3. ReadSoFar(m)' /\ cur' = NoFile /\ ToRead' = {}
    BY <1>1, <2>1, <2>2 DEF ReadSoFar, ToRead
  <2> QED
    BY <1>8, <2>1, <2>3
<1>13. CASE RefuseManifest \/ RefuseEntry \/ TooDeep
  BY <1>3, <1>13 DEF RefuseManifest, RefuseEntry, TooDeep, Abort
<1> QED
  BY <1>2, <1>4, <1>5, <1>6, <1>7, <1>10, <1>11, <1>12, <1>13 DEF Engine

\* No file is left: the last in path order was opened.
LEMMA AllWasRead ==
    ASSUME TypeOK, NEW m, ReadSoFar(m), cur = NoFile, ToRead = {}
    PROVE  consumed = HeldTo(manifest.entries, written)[Cardinality(Listed(manifest.entries))]
<1> DEFINE E == manifest.entries
           total == Cardinality(Listed(E))
<1>1. IsEntries(E) /\ m \in 0 .. total /\ consumed = HeldTo(E, written)[m]
  BY EntriesAreEntries DEF ReadSoFar
<1>2. total \in Nat
  <2>1. 0 \in Nat
    OBVIOUS
  <2> QED
    BY <1>1, <2>1, Places
<1> SUFFICES ASSUME m < total PROVE FALSE
  BY <1>1, <1>2
\* Every listed file is before some number.
<1>3. PICK f \in Nat : \A k \in Listed(E) : E[k].file < f
  <2> DEFINE number == [k \in Listed(E) |-> E[k].file]
  <2>1. IsFiniteSet(Listed(E)) /\ number \in [Listed(E) -> Nat]
    <3>1. 0 \in Nat
      OBVIOUS
    <3> QED
      BY <1>1, <3>1, Places
  <2>2. Listed(E) # {}
    BY <1>1, <1>2, FS_EmptySet
  <2>3. PICK k \in Listed(E) : \A j \in Listed(E) : number[j] <= number[k]
    <3> HIDE DEF number
    <3> QED
      BY <2>1, <2>2, LargestNumber
  <2>4. \A j \in Listed(E) : E[j].file \in Nat /\ E[j].file <= E[k].file
    BY <2>1, <2>3
  <2>5. \A j \in Listed(E) : E[j].file < E[k].file + 1
    BY <2>4
  <2> QED
    BY <2>4, <2>5
<1>4. Below(E, f) = total
  <2>1. {k \in Listed(E) : E[k].file < f} = Listed(E)
    BY <1>3
  <2> QED
    BY <2>1 DEF Below
<1>5. PICK g \in EventFiles : UpTo(E, g) = total /\ Below(E, g) < UpTo(E, g)
  BY <1>1, <1>2, <1>4, LastBefore
<1>6. g \in Files /\ g \in Nat /\ pending[g] \in Nat /\ ~(pending[g] > 0)
  BY IngestAssumption DEF TypeOK, ToRead
<1>7. Below(E, g) \in Nat /\ UpTo(E, g) \in Nat
  BY <1>1, <1>6, Places
<1>8. pending[g] = Left(E, m, g)
  BY <1>6 DEF ReadSoFar
<1> QED
  BY <1>1, <1>2, <1>5, <1>6, <1>7, <1>8 DEF Left

\* However the manifest lists the files, whatever is in them and whatever became
\* of them: a run over a bundle nobody writes to meanwhile that ends with a
\* result has read exactly the lines the manifest's digests cover, in path
\* order, once per entry that lists the file (load_bundle, ingest).
THEOREM SettledReadsWhatWasVerifiedAlways == Spec => []SettledReadsWhatWasVerified
<1>1. Init => SettledInv
  BY DEF Init, SettledInv
<1>2. IInv /\ IInv' /\ SettledInv /\ [Next]_vars => SettledInv'
  BY SettledStep DEF IInv
<1>3. IInv /\ SettledInv => SettledReadsWhatWasVerified
  BY AllWasRead DEF IInv, SettledInv, SettledReadsWhatWasVerified
<1> QED
  BY <1>1, <1>2, <1>3, AlwaysIInv, PTL DEF Spec
=============================================================================
