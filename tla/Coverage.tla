------------------------------ MODULE Coverage ------------------------------
(***************************************************************************)
(* coverage.json (agentce/coverage.py): what a subject's events show       *)
(* against what independent denominators counted.                          *)
(*                                                                         *)
(* A subject declares a sequence of denominators [source, covers, counts]: *)
(* counts is the manifest of counts the bundle holds for it, or NoCounts,  *)
(* and then the denominator's own events in the bundle are counted.        *)
(* An empty covers stands for every type it counted.                       *)
(***************************************************************************)
EXTENDS Integers, Sequences, FiniteSets, SequencesExt

CONSTANTS NoCounts, NoExpectation

\* "Nothing is expected" is no count.
ASSUME CoverageAssumption == NoExpectation \notin Int

CountOf(events, P(_)) == Cardinality({k \in DOMAIN events : P(events[k])})
TypesOf(events, P(_)) == {events[k].type : k \in {j \in DOMAIN events : P(events[j])}}

\* _denominator_counts
Counts(d, events) ==
    IF d.counts # NoCounts THEN d.counts
    ELSE [t \in TypesOf(events, LAMBDA e : e.source = d.source) |->
             CountOf(events, LAMBDA e : e.source = d.source /\ e.type = t)]

DenominatorIds(subject) ==
    {subject.denominators[k].source : k \in DOMAIN subject.denominators}

\* A denominator's own events are the yardstick, not what was captured.
Captured(e, subject) == e.subject = subject.id /\ e.source \notin DenominatorIds(subject)

\* The types a denominator vouches for.
Covered(d, events) ==
    LET counts == Counts(d, events)
    IN  (IF d.covers = {} THEN DOMAIN counts ELSE d.covers) \cap DOMAIN counts
CoveredByAny(subject, events) ==
    UNION {Covered(d, events) : d \in ToSet(subject.denominators)}

\* Mutant: the last denominator's count stands, be it the lower.
ExpectedOfLast(subject, events) ==
    LET Vouching(t) == {k \in DOMAIN subject.denominators :
                           t \in Covered(subject.denominators[k], events)}
    IN  [t \in CoveredByAny(subject, events) |->
            Counts(subject.denominators[Max(Vouching(t))], events)[t]]

\* Of several denominators the largest count of a type is what is expected;
\* a manifest may declare any integer, and what is below -1 counts as -1.
Expected(subject, events) ==
    LET Vouching(t) == {d \in ToSet(subject.denominators) : t \in Covered(d, events)}
    IN  [t \in CoveredByAny(subject, events) |->
            Max({-1} \cup {Counts(d, events)[t] : d \in Vouching(t)})]

StatusOf(observed, expected) ==
    IF expected = NoExpectation THEN "unknown"
    ELSE IF observed >= expected THEN "covered" ELSE "below_threshold"

\* _rollup
Rollup(subject, statuses) ==
    IF subject.denominators = <<>> \/ "unknown" \in statuses THEN "unknown"
    ELSE IF "below_threshold" \in statuses THEN "gap" ELSE "ok"

\* compute_coverage, for one subject.
TypeCoverage(observed, expected) ==
    [observed |-> observed, expected |-> expected, status |-> StatusOf(observed, expected)]

SubjectCoverage(subject, byType) ==
    [types |-> byType,
     status |-> Rollup(subject, {byType[t].status : t \in DOMAIN byType})]

CoverageOf(subject, events) ==
    LET expected == Expected(subject, events)
    IN  SubjectCoverage(subject,
            [t \in TypesOf(events, LAMBDA e : Captured(e, subject)) \cup DOMAIN expected |->
                TypeCoverage(CountOf(events, LAMBDA e : Captured(e, subject) /\ e.type = t),
                             IF t \in DOMAIN expected THEN expected[t] ELSE NoExpectation)])

-----------------------------------------------------------------------------
\* A denominator counts the operations of type t.
Vouches(d, events, t) ==
    /\ d.covers = {} \/ t \in d.covers
    /\ t \in DOMAIN Counts(d, events)
=============================================================================
