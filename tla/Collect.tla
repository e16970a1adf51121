------------------------------ MODULE Collect ------------------------------
(***************************************************************************)
(* The two commands that write a bundle directory: `agentce ingest`, which *)
(* adapts one export, and `agentce collect` (agentce/collect.py), which    *)
(* adapts the exports of the sources its config names, or with --dry-run   *)
(* only plans to.  Each writes its files one after the other, in place,    *)
(* and may die at any of them.                                             *)
(*                                                                         *)
(* An ingest is [kind, adapter, told, export], a collect [kind, dry, out,  *)
(* sources]; a source is [id, adapter, class, engine, subject, export,     *)
(* credential], an option not given being Absent.                          *)
(***************************************************************************)
EXTENDS BundleDir, Adapters

VARIABLES
    pulled,     \* the events adapted so far
    outcomes    \* collect: what became of each source so far

collectVars == <<pulled, outcomes>>

Doing(kind, p) == phase = p /\ cmd.kind = kind

-----------------------------------------------------------------------------
(*                                 ingest                                  *)

\* The manifest of an ingested stream: each source with the class of its
\* last event.
ClassIn(events, s) ==
    LET ks == {k \in DOMAIN events : events[k].source = s}
    IN  events[CHOOSE k \in ks : \A j \in ks : j <= k].class
IngestManifest(events) ==
    [sources |-> [k \in 1..Cardinality({events[j].source : j \in DOMAIN events}) |->
                     LET ids == SetToSeq({events[j].source : j \in DOMAIN events})
                     IN  [id |-> ids[k], class |-> ClassIn(events, ids[k])]],
     files |-> <<[path |-> "stream", sha |-> events]>>]

\* _adapt_export; an export that is not there is refused before.
IngestEvents(c) ==
    IF c.export = NoFile \/ AdaptTrouble(c.adapter, c.told, c.export) # "none" THEN <<>>
    ELSE Adapt(c.adapter, c.told, c.export)

BeginIngest(c) ==
    /\ phase = "idle"
    /\ cmd' = c
    /\ phase' = "ingest"
    /\ exit' = NoExit
    /\ pulled' = <<>>
    /\ outcomes' = <<>>
    /\ UNCHANGED dir

AdaptOne ==
    /\ Doing("ingest", "ingest")
    /\ IngestEvents(cmd) # <<>>
    /\ pulled' = IngestEvents(cmd)
    /\ phase' = "stream"
    /\ UNCHANGED <<dir, cmd, exit, outcomes>>

\* The adapter fails, or finds nothing: nothing is written.
RefuseExport ==
    /\ Doing("ingest", "ingest")
    /\ IngestEvents(cmd) = <<>>
    /\ End(3)
    /\ UNCHANGED <<dir, cmd, collectVars>>

WriteIngestManifest ==
    /\ Doing("ingest", "manifest")
    /\ dir' = [dir EXCEPT !.manifest = IngestManifest(pulled)]
    /\ End(0)
    /\ UNCHANGED <<cmd, collectVars>>

-----------------------------------------------------------------------------
(*                                 collect                                 *)

\* What the adapter of a source is told; its events are the source's.
ToldFor(s) ==
    [class |-> IF s.class = Absent THEN "self_report" ELSE s.class,
     source |-> s.id, engine |-> s.engine, subject |-> s.subject]

PullTrouble(s) ==
    IF s.export = Absent THEN "no_connector"
    ELSE IF s.export = NoFile THEN "export_not_found"
    ELSE IF AdaptTrouble(s.adapter, ToldFor(s), s.export) # "none" THEN "not_adapted"
    ELSE IF Adapt(s.adapter, ToldFor(s), s.export) = <<>> THEN "no_events"
    ELSE "none"

\* A credential nobody can resolve only shows in the outcome.
Outcome(s) ==
    [id |-> s.id,
     completeness |-> IF PullTrouble(s) = "none" THEN "complete" ELSE "incomplete",
     reason |-> PullTrouble(s),
     authenticated |-> s.credential = "resolves"]

CollectManifest(ids, files) ==
    [sources |-> [k \in DOMAIN ids |-> [id |-> ids[k], class |-> NoClass]],
     files |-> files]

BeginCollect(c) ==
    /\ phase = "idle"
    /\ cmd' = c
    /\ phase' = IF c.dry THEN "plan" ELSE "pull"
    /\ exit' = NoExit
    /\ pulled' = <<>>
    /\ outcomes' = <<>>
    /\ UNCHANGED dir

RefuseCollect ==
    /\ Doing("collect", "pull")
    /\ ~cmd.out
    /\ End(3)
    /\ UNCHANGED <<dir, cmd, collectVars>>

WritePlan ==
    /\ Doing("collect", "plan")
    /\ IF cmd.out
       THEN /\ dir' = [dir EXCEPT !.plan = [k \in DOMAIN cmd.sources |-> cmd.sources[k].id]]
            /\ phase' = "plan_manifest"
            /\ UNCHANGED exit
       ELSE UNCHANGED dir /\ End(0)
    /\ UNCHANGED <<cmd, collectVars>>

WritePlanManifest ==
    /\ Doing("collect", "plan_manifest")
    /\ dir' = [dir EXCEPT !.manifest =
                 [sources |-> [k \in DOMAIN cmd.sources |->
                     [id |-> cmd.sources[k].id,
                      class |-> IF cmd.sources[k].class = Absent
                                THEN NoClass ELSE cmd.sources[k].class]],
                  files |-> <<[path |-> "plan", sha |-> NoDigest]>>]]
    /\ End(0)
    /\ UNCHANGED <<cmd, collectVars>>

\* The sources in their order; one that fails does not stop the others.
PullSource ==
    /\ Doing("collect", "pull")
    /\ cmd.out
    /\ Len(outcomes) < Len(cmd.sources)
    /\ LET s == cmd.sources[Len(outcomes) + 1]
       IN  /\ outcomes' = Append(outcomes, Outcome(s))
           /\ pulled' = pulled \o (IF PullTrouble(s) # "none" THEN <<>>
                                   ELSE Adapt(s.adapter, ToldFor(s), s.export))
    /\ UNCHANGED <<dir, cmd, phase, exit>>

FinishPull ==
    /\ Doing("collect", "pull")
    /\ cmd.out
    /\ Len(outcomes) = Len(cmd.sources)
    /\ phase' = IF pulled # <<>> THEN "stream" ELSE "report"
    /\ UNCHANGED <<dir, cmd, exit, collectVars>>

\* Of both commands: the stream goes first.
WriteStream ==
    /\ phase = "stream"
    /\ dir' = [dir EXCEPT !.stream = pulled]
    /\ phase' = IF cmd.kind = "ingest" THEN "manifest" ELSE "report"
    /\ UNCHANGED <<cmd, exit, collectVars>>

WriteCollectReport ==
    /\ Doing("collect", "report")
    /\ dir' = [dir EXCEPT !.report = outcomes]
    /\ phase' = "manifest"
    /\ UNCHANGED <<cmd, exit, collectVars>>

\* The report is listed without a digest.
WriteCollectManifest ==
    /\ Doing("collect", "manifest")
    /\ dir' = [dir EXCEPT !.manifest =
                 CollectManifest([k \in DOMAIN outcomes |-> outcomes[k].id],
                     <<[path |-> "report", sha |-> NoDigest]>>
                     \o (IF pulled = <<>> THEN <<>>
                         ELSE <<[path |-> "stream", sha |-> pulled]>>))]
    /\ End(IF \A k \in DOMAIN outcomes : outcomes[k].completeness = "complete"
           THEN 0 ELSE 1)
    /\ UNCHANGED <<cmd, collectVars>>

-----------------------------------------------------------------------------
\* The file a phase is about to write.
Writes == [stream |-> "stream", report |-> "report", manifest |-> "manifest",
           plan |-> "plan", plan_manifest |-> "manifest"]

\* The process dies: between two files, or in the middle of one.
Die ==
    /\ phase # "idle"
    /\ cmd.kind \in {"ingest", "collect"}
    /\ \/ UNCHANGED dir
       \/ /\ phase \in DOMAIN Writes
          /\ phase = "plan" => cmd.out
          /\ dir' = [dir EXCEPT ![Writes[phase]] = Torn]
    /\ phase' = "idle"
    /\ UNCHANGED <<cmd, exit, collectVars>>

CollectStep ==
    \/ AdaptOne \/ RefuseExport \/ WriteIngestManifest
    \/ RefuseCollect \/ WritePlan \/ WritePlanManifest \/ PullSource \/ FinishPull
    \/ WriteStream \/ WriteCollectReport \/ WriteCollectManifest
    \/ Die
=============================================================================
