----------------------------- MODULE Workspace -----------------------------
(***************************************************************************)
(* An operator's working directory: one bundle directory and one output    *)
(* directory, and the commands `agentce ingest`, `agentce collect` and     *)
(* `agentce assess` run on them one after the other.                       *)
(***************************************************************************)
EXTENDS Collect, Assess, Literals

CONSTANTS
    Scenarios,  \* a set of [start, todo]: the bundle directory that is there
                \* and the commands that will be run
    Spelled     \* a set of [events, literals]: how the integers and times in
                \* the events of a bundle are spelled, which they leave out

Commands == UNION {ToSet(s.todo) : s \in Scenarios}

\* An export's entries, their times and their ids: every span that is
\* one of an operation has one, if only of an empty trace and span.
WellFormed(export) ==
    /\ IsSequence(export.entries)
    /\ \A e \in ToSet(export.entries) :
        /\ \A f \in {"id", "time", "start", "end"} \cap DOMAIN e : e[f] \in Nat
        /\ export.form = "otlp" /\ "operation" \in DOMAIN e => "id" \in DOMAIN e

\* At first there is no bundle, or one that loads.  A command ends with a code
\* or without one, and a collection's sources have ids.
ASSUME ScenariosAssumption ==
    /\ NoExit \notin {0, 1}
    /\ \A s \in Scenarios :
        /\ s.todo \in Seq(Commands)
        /\ s.start = [manifest |-> s.start.manifest, stream |-> s.start.stream,
                      report |-> s.start.report, plan |-> s.start.plan]
        /\ \/ s.start.manifest = NoFile
           \/ /\ DOMAIN s.start.manifest.files \subseteq Nat
              /\ LoadTrouble(s.start) = "none"
              /\ IsSequence(s.start.stream)
    /\ \A c \in Commands : c.kind = "ingest" =>
        c.export = NoFile \/ WellFormed(c.export)
    /\ \A c \in Commands : c.kind = "collect" =>
        /\ IsSequence(c.sources)
        /\ \A s \in ToSet(c.sources) :
            /\ s.id # Absent
            /\ s.export \in {Absent, NoFile} \/ WellFormed(s.export)
    /\ \A c \in Commands : c.kind = "assess" =>
        /\ IsSequence(c.ask.dirs)
        /\ \A d \in ToSet(c.ask.dirs) : IsSequence(d.catalog.controls)
        /\ IsSequence(c.ask.requested)
        /\ IsSequence(c.declared)
        /\ IsSequence(c.subjects)
        /\ \A k \in DOMAIN c.subjects :
            /\ IsSequence(c.subjects[k].denominators)
            /\ \A d \in ToSet(c.subjects[k].denominators) :
                   d.counts = NoCounts \/ d.counts \in [DOMAIN d.counts -> Int]

VARIABLES
    start,      \* the bundle directory as it was at first
    todo,       \* the commands still to be run
    ran         \* those that were begun

vars == <<dir, cmd, phase, exit, collectVars, assessVars, start, todo, ran>>

NoCommand == [kind |-> "none"]

Init ==
    /\ \E s \in Scenarios : start = s.start /\ todo = s.todo
    /\ dir = start
    /\ cmd = NoCommand
    /\ phase = "idle"
    /\ exit = NoExit
    /\ pulled = <<>>
    /\ outcomes = <<>>
    /\ catalogs = <<>>
    /\ accepted = <<>>
    /\ turn = 1
    /\ assertions = <<>>
    /\ out = [quarantine |-> Nothing, graph |-> Nothing, coverage |-> Nothing,
              applicability |-> Nothing, report |-> {}]
    /\ ran = {}

StartNext ==
    /\ todo # <<>>
    /\ LET c == Head(todo)
       IN  \/ c.kind = "ingest" /\ BeginIngest(c) /\ UNCHANGED assessVars
           \/ c.kind = "collect" /\ BeginCollect(c) /\ UNCHANGED assessVars
           \/ c.kind = "assess" /\ BeginAssess(c) /\ UNCHANGED collectVars
    /\ todo' = Tail(todo)
    /\ ran' = ran \cup {Head(todo)}
    /\ UNCHANGED start

Next ==
    \/ StartNext
    \/ CollectStep /\ UNCHANGED <<assessVars, start, todo, ran>>
    \/ AssessStep /\ UNCHANGED <<collectVars, start, todo, ran>>

Spec == Init /\ [][Next]_vars

-----------------------------------------------------------------------------
(*                        The bundle directory                             *)

\* A bundle directory that loads holds what was there at first or all that
\* one ingest adapted, under that ingest's manifest: a command that died half
\* way, or that writes a stream under the manifest of another, leaves nothing
\* an assessment would take (bundle.load_bundle's digests; the writes of
\* _write_event_bundle and run_collect are not atomic).
LoadsWhatOneCommandWrote ==
    LoadTrouble(dir) = "none" =>
        \/ dir.manifest = start.manifest /\ Lines(dir) = Lines(start)
        \/ \E c \in ran : /\ c.kind = "ingest"
                          /\ Lines(dir) = IngestEvents(c)
                          /\ dir.manifest = IngestManifest(IngestEvents(c))

SourceIds(c) == [k \in DOMAIN c.sources |-> c.sources[k].id]

\* What a command has just adapted stands alone: of an ingest, or of a
\* collection whose sources have different ids, ingest refuses only repeated
\* ids, and every event an accepted one refers to was accepted too (the refs
\* the gateway's adapter writes, the order all adapters sort into, and the
\* concatenation of run_collect).
AdaptedStandsAlone ==
    /\ phase = "idle"
    /\ cmd.kind \in {"ingest", "collect"}
    /\ exit \in {0, 1}
    /\ pulled # <<>>
    /\ cmd.kind = "collect" => IsInjective(SourceIds(cmd))
    => LET read == Ingested(dir.stream, dir.manifest.sources)
       IN  /\ \A k \in DOMAIN read.quarantined :
                  read.quarantined[k].reason = "duplicate_id"
           /\ \A e \in ToSet(read.accepted) : \A x \in Targets(e) :
                  \E o \in ToSet(read.accepted) : Node(o) = x

\* What the collector's docstring promises (collect.py:5): a collection that
\* found all its sources complete has written a bundle.
CollectedBundleLoads ==
    phase = "idle" /\ cmd.kind = "collect" /\ exit = 0 /\ ~cmd.dry
    => LoadTrouble(dir) = "none"

-----------------------------------------------------------------------------
(*                           The assessment                                *)

Described == Running("assess", "judging")

\* The graph holds exactly what the set of accepted events says, so the order
\* of the events in the bundle, and which of two events refers to the other,
\* do not matter (the two passes of graph.build_graph).
GraphSaysWhatTheEventsSay ==
    Described => out.graph.triples = TriplesSaid(ToSet(accepted), cmd.domain)

\* Some operation was seen that no denominator vouches for.
Unvouched(s) ==
    \E e \in ToSet(accepted) :
        /\ Captured(e, s)
        /\ \A d \in ToSet(s.denominators) : ~Vouches(d, accepted, e.type)

\* Some denominator counted more operations of a type than were captured.
ShortOf(s) ==
    \E d \in ToSet(s.denominators) : \E t \in DOMAIN Counts(d, accepted) :
        /\ Vouches(d, accepted, t)
        /\ CountOf(accepted, LAMBDA e : Captured(e, s) /\ e.type = t)
               < Counts(d, accepted)[t]

\* coverage.json never flatters: "unknown" is said exactly of a subject with
\* no denominator, or with a captured type none vouches for; "gap" exactly
\* when any denominator counted more than was captured, whatever the others
\* say (coverage.compute_coverage and _rollup).
CoverageNeverFlatters ==
    Described => \A k \in DOMAIN cmd.subjects :
        LET s == cmd.subjects[k]
            status == out.coverage[k].status
        IN  /\ status = "unknown" <=> s.denominators = <<>> \/ Unvouched(s)
            /\ status = "gap" <=> status # "unknown" /\ ShortOf(s)

\* Every verdict of a report on disk rests on events: it cites at least one,
\* and only accepted events of the subject it is about (assess._evidence keeps
\* of the first nodes those that are events; check_dc5 then refuses a report
\* with a verdict that has none left).
BackedVerdicts ==
    \A r \in out.report : \A a \in ToSet(r.assertions) : a.outcome \in Supporting =>
        /\ a.evidence # {}
        /\ \A n \in a.evidence : \E e \in ToSet(r.accepted) :
               Node(e) = n /\ e.subject = a.subject

SignedFor(d, trust) ==
    /\ d.envelope \notin {NoEnvelope, Unreadable}
    /\ d.envelope.over = d.tree
    /\ \E k \in DOMAIN d.envelope.signatures :
           Verifies(d.envelope.signatures[k], trust)

\* A report on disk was judged by what was asked for, and by nothing nobody
\* vouches for: each catalog is shipped with the engine, or what digest_tree
\* covered of its directory is signed under a trusted key, for that very
\* content, or the report names it among its limitations (_resolve_catalogs,
\* _verify_catalog_dirs).  What was loaded is the signed content, therefore,
\* of a directory that held still and names no shape the walk leaves out; of
\* another the code says no more than this.
OnlyVerifiedCatalogsJudge ==
    \A r \in out.report :
        LET ask == r.run.ask
        IN  /\ ask.requested # <<>> => {c.label : c \in ToSet(r.catalogs)} = ToSet(ask.requested)
            /\ \A c \in ToSet(r.catalogs) :
                   \/ c \in Vendored
                   \/ \E k \in DOMAIN ask.dirs :
                          /\ ask.dirs[k].catalog = c
                          /\ \/ SignedFor(ask.dirs[k], ask.trust)
                             \/ ask.allow /\ c.label \in r.limitations

Gated(c) == IF c.gate = NoGate THEN {"non-conformant"} ELSE c.gate

\* The exit code tells what the report on disk says: 0 that this run reached a
\* verdict and none of those it gates on, 1 that it reached one of those; a
\* run that left its report and ended with 3 judged nothing (cmd_assess).
ExitTellsTheReport ==
    phase = "idle" /\ cmd.kind = "assess" /\ exit # NoExit =>
        /\ exit = 0 => \E r \in out.report :
               /\ r.run = cmd
               /\ Verdicts \cap Outcomes(r.assertions) # {}
               /\ Gated(cmd) \cap Outcomes(r.assertions) = {}
        /\ exit = 1 => \E r \in out.report :
               r.run = cmd /\ Gated(cmd) \cap Outcomes(r.assertions) # {}

ASSUME SpelledAssumption == \A x \in Spelled : x.literals \subseteq LiteralType

\* The literals of a bundle are ordered as the numbers and the instants they
\* stand for, across zones, midnight and the ends of months, by each engine;
\* those with no instant, or of which only one has a zone, are in no order, and
\* on an integer too long for int() the reference raises where the ports answer
\* (structural.compare_literals, structural.ts and Structural.java).
LiteralsOrderAsInstants ==
    \A r \in out.report, x \in Spelled :
        x.events = r.accepted => AllInOrder(x.literals)
=============================================================================
