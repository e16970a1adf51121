---------------------------- MODULE IngestRules ----------------------------
(***************************************************************************)
(* What ingest (agentce/ingest.py) decides about one line of a bundle, and *)
(* what a sequence of events must satisfy to be accepted whole.            *)
(*                                                                         *)
(* A line is [form, id, source, class, stream, time].  Only a line of form *)
(* "event" passed the schema and names a known type; every other form is   *)
(* refused for it.  Times are ranks: the engine compares the timestamps as *)
(* strings, which orders them as instants because the canonical form fixes *)
(* UTC and three fractional digits (spec/model/canonical-form.md).         *)
(***************************************************************************)
EXTENDS Naturals, Sequences, FiniteSetsExt

CONSTANTS
    NoStream,   \* the event carries no integrity.stream
    NoClass     \* the manifest declares no class for the source

\* What a line can be, in the order ingest finds out.  "too_deep" is JSON
\* nested beyond the parser's depth: it aborts the run.
Forms == {"blank", "oversize", "too_deep", "schema_invalid", "unknown_type",
          "event"}

Reasons == {"oversize", "schema_invalid", "unknown_type", "unknown_source",
            "class_mismatch", "duplicate_id", "time_order"}

Accept == "accept"

\* _stream_of: an event without a stream belongs to its source's.
StreamOf(l) == IF l.stream = NoStream THEN l.source ELSE l.stream

\* The manifest's `sources` array; an empty one declares nothing.
DeclaredSources(items) == {items[k].id : k \in DOMAIN items}

\* The class declared for a source: of several entries the last that has one.
DeclaredClass(items, s) ==
    LET ks == {k \in DOMAIN items : items[k].id = s /\ items[k].class # NoClass}
    IN  IF ks = {} THEN NoClass ELSE items[Max(ks)].class

\* Mutant: an event at its stream's last time counts as out of order.
VerdictStrictTime(l, items, seen, last) ==
    IF l.form # "event" THEN l.form
    ELSE IF items # <<>> /\ l.source \notin DeclaredSources(items)
         THEN "unknown_source"
    ELSE IF DeclaredClass(items, l.source) \notin {NoClass, l.class}
         THEN "class_mismatch"
    ELSE IF l.id \in seen THEN "duplicate_id"
    ELSE IF l.time <= last[StreamOf(l)] THEN "time_order"
    ELSE Accept

\* Mutant: a repeated id gets in.
VerdictForgetsIds(l, items, seen, last) ==
    IF l.form # "event" THEN l.form
    ELSE IF items # <<>> /\ l.source \notin DeclaredSources(items)
         THEN "unknown_source"
    ELSE IF DeclaredClass(items, l.source) \notin {NoClass, l.class}
         THEN "class_mismatch"
    ELSE IF l.time < last[StreamOf(l)] THEN "time_order"
    ELSE Accept

\* Why line l is refused, or Accept, given the declared sources, the ids
\* accepted so far and the last accepted time of each stream (0: none).
VerdictOn(l, items, seen, last) ==
    IF l.form # "event" THEN l.form
    ELSE IF items # <<>> /\ l.source \notin DeclaredSources(items)
         THEN "unknown_source"
    ELSE IF DeclaredClass(items, l.source) \notin {NoClass, l.class}
         THEN "class_mismatch"
    ELSE IF l.id \in seen THEN "duplicate_id"
    ELSE IF l.time < last[StreamOf(l)] THEN "time_order"
    ELSE Accept

-----------------------------------------------------------------------------
\* What a producer must guarantee for ingest to accept all it wrote.
UniqueIds(s) == \A j, k \in DOMAIN s : s[j].id = s[k].id => j = k

TimeOrdered(s) ==
    \A j, k \in DOMAIN s :
        j < k /\ StreamOf(s[j]) = StreamOf(s[k]) => s[j].time <= s[k].time

Admissible(s, items) ==
    \A k \in DOMAIN s :
        /\ s[k].form = "event"
        /\ items = <<>> \/ s[k].source \in DeclaredSources(items)
        /\ DeclaredClass(items, s[k].source) \in {NoClass, s[k].class}

NoQuarantines(s, items) == Admissible(s, items) /\ UniqueIds(s) /\ TimeOrdered(s)
=============================================================================
