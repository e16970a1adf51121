---------------------------- MODULE StateSeries ----------------------------
(***************************************************************************)
(* `agentce assess --state DIR`: the state directory of an incremental     *)
(* assessment series (agentce/state.py) and the part of a run that touches *)
(* it (commands.cmd_assess from stage 6a, report.write_report's manifest). *)
(*                                                                         *)
(* A run reads DIR/state.json, plans supersession and drift against that   *)
(* copy, writes the report (manifest.json last), reads the manifest back   *)
(* for its digest, and saves the copy over state.json.  Nothing locks the  *)
(* directories, and both files are truncated before they are written, so a *)
(* process can die between any two of these steps and, unless whoever      *)
(* starts runs keeps them apart, two runs can interleave.                  *)
(*                                                                         *)
(* A manifest's SHA-256 is modelled by its index in `reports`: the digest  *)
(* covers started_at and the invocation, so two runs have different ones.  *)
(* The digest of a manifest cut short, or of two overlaid, is none of them *)
(* (Damaged).                                                              *)
(***************************************************************************)
EXTENDS SeriesInputs

CONSTANTS
    Procs,         \* processes running the engine
    OutDirs,       \* report directories
    None,          \* an idle process's input and report directory
    Unsupported,   \* inputs whose verdicts check_dc5 refuses to report
    DirsOf,        \* Inputs -> SUBSET OutDirs: where runs over it report
    Concurrent,    \* inputs over which a run may start beside another run
    SharedDirs,    \* report directories overlapping runs may share
    MaxReports     \* bound: manifests written

ASSUME SeriesAssumption ==
    /\ Unsupported \subseteq Inputs
    /\ None \notin Inputs \cup OutDirs
    /\ DirsOf \in [Inputs -> SUBSET OutDirs]
    /\ Concurrent \subseteq Inputs
    /\ SharedDirs \subseteq OutDirs
    /\ MaxReports \in Nat

VARIABLES
    file,      \* what state.json is: absent, of another version, empty
               \* (truncated), corrupt (two saves overlaid) or readable
    st,        \* its content (FreshState while there is none to read)
    reports,   \* every manifest written, in order; a digest is an index
    manifest,  \* OutDirs -> digest of the manifest.json there (0: none)
               \* as a reader of the file finds it now
    phase,     \* Procs -> how far the run is
    input,     \* Procs -> what the run was given
    out,       \* Procs -> where it reports
    local,     \* Procs -> its StateDir object
    plan,      \* Procs -> [supersedes, late, drift]
    recorded,  \* history: the digests saved since the directory was fresh
    overlapped \* history: two runs have overlapped since it was

vars == <<file, st, reports, manifest, phase, input, out, local, plan, recorded, overlapped>>

FileKinds == {"absent", "foreign", "empty", "corrupt", "ok"}
Phases == {"idle", "evaluated", "planned", "opened", "written", "recording", "saving"}

\* A manifest.json opened for writing is empty, or the beginning of one; two
\* writes over each other leave what neither wrote.
Opened == -1
Overlaid == -2
Damaged == {Opened, Overlaid}

FreshState == [digests |-> {}, last |-> 0, end |-> NoEnd, outcomes |-> NoOutcomes]

NoPlan == [supersedes |-> {}, late |-> NoneLate, drift |-> {}]

Idle(r) == phase[r] = "idle"

\* The process ends, and what it held in memory with it.
Exit(r) ==
    /\ phase' = [phase EXCEPT ![r] = "idle"]
    /\ input' = [input EXCEPT ![r] = None]
    /\ out' = [out EXCEPT ![r] = None]
    /\ local' = [local EXCEPT ![r] = FreshState]
    /\ plan' = [plan EXCEPT ![r] = NoPlan]

-----------------------------------------------------------------------------
\* StateDir.plan: what a new report over input i must say about the past.
PlanSupersedes(s, i) ==
    IF s.last = 0 \/ DigestOf[i] \in s.digests THEN {} ELSE {s.last}

\* Mutant: a re-run counts late events too.
PlanLateAlways(s, i) ==
    IF s.last = 0 \/ s.end = NoEnd THEN NoneLate ELSE LateBefore(i, s.end)

PlanLate(s, i) ==
    IF s.last = 0 \/ DigestOf[i] \in s.digests \/ s.end = NoEnd
    THEN NoneLate ELSE LateBefore(i, s.end)

\* Mutant: the outcomes are rebuilt from this run's pairs alone.
RememberOnly(known, i) == OutcomeOf[i]

\* StateDir.drift: the outcomes kept for the next run.
Remember(known, i) ==
    [p \in Pairs |->
        IF OutcomeOf[i][p] = NoOutcome THEN known[p] ELSE OutcomeOf[i][p]]

\* A reference run holding s after LoadState: plan, then drift, which already
\* updates the object's outcomes.
ReferencePlan(s, i) ==
    [supersedes |-> PlanSupersedes(s, i), late |-> PlanLate(s, i),
     drift |-> Moved(s.outcomes, i)]

\* StateDir of state.ts and cli.ts: the object has no outcomes; plan counts
\* late events and its caller drops them.
TypeScriptLoad(s) == [s EXCEPT !.outcomes = NoOutcomes]

TypeScriptPlan(s, i) ==
    IF s.last = 0 \/ DigestOf[i] \in s.digests THEN NoPlan
    ELSE [NoPlan EXCEPT !.supersedes = {s.last}]

TypeScriptRecord(s, digest, i) ==
    [s EXCEPT !.digests = @ \cup {DigestOf[i]}, !.last = digest, !.end = WindowEnd(i)]

TypeScriptSave(s) == [s EXCEPT !.outcomes = NoOutcomes]

\* StateDir.java: neither outcomes nor late counts.
JavaLoad(s) ==
    [digests |-> s.digests, last |-> s.last, end |-> s.end, outcomes |-> NoOutcomes]

JavaPlan(s, i) ==
    LET known == s.last = 0 \/ DigestOf[i] \in s.digests
    IN  [NoPlan EXCEPT !.supersedes = IF known THEN {} ELSE {s.last}]

JavaRecord(s, digest, i) ==
    [JavaLoad(s) EXCEPT !.digests = @ \cup {DigestOf[i]}, !.last = digest,
                        !.end = WindowEnd(i)]

JavaSave(s) ==
    [digests |-> s.digests, last |-> s.last, end |-> s.end, outcomes |-> NoOutcomes]

\* Mutant: the window end never moves back.
RecordedLatestEnd(s, digest, i) ==
    [digests |-> s.digests \cup {DigestOf[i]}, last |-> digest,
     end |-> IF s.end >= WindowEnd(i) THEN s.end ELSE WindowEnd(i),
     outcomes |-> s.outcomes]

\* StateDir.record: the run's object after it indexed this report.
ReferenceRecord(s, digest, i) ==
    [digests |-> s.digests \cup {DigestOf[i]}, last |-> digest,
     end |-> WindowEnd(i), outcomes |-> s.outcomes]

\* The state directory as the engine of the run implements it.
Loaded(s, i) ==
    CASE EngineOf[i] = "python" -> [s EXCEPT !.outcomes = Remember(@, i)]
      [] EngineOf[i] = "typescript" -> TypeScriptLoad(s)
      [] EngineOf[i] = "java" -> JavaLoad(s)

Planned(s, i) ==
    CASE EngineOf[i] = "python" -> ReferencePlan(s, i)
      [] EngineOf[i] = "typescript" -> TypeScriptPlan(s, i)
      [] EngineOf[i] = "java" -> JavaPlan(s, i)

Recorded(s, digest, i) ==
    CASE EngineOf[i] = "python" -> ReferenceRecord(s, digest, i)
      [] EngineOf[i] = "typescript" -> TypeScriptRecord(s, digest, i)
      [] EngineOf[i] = "java" -> JavaRecord(s, digest, i)

\* What state.json holds after the save.
Saved(s, i) ==
    CASE EngineOf[i] = "python" -> s
      [] EngineOf[i] = "typescript" -> TypeScriptSave(s)
      [] EngineOf[i] = "java" -> JavaSave(s)

-----------------------------------------------------------------------------
Init ==
    /\ file \in {"absent", "foreign"}
    /\ st = FreshState
    /\ reports = <<>>
    /\ manifest = [o \in OutDirs |-> 0]
    /\ phase = [r \in Procs |-> "idle"]
    /\ input = [r \in Procs |-> None]
    /\ out = [r \in Procs |-> None]
    /\ local = [r \in Procs |-> FreshState]
    /\ plan = [r \in Procs |-> NoPlan]
    /\ recorded = <<>>
    /\ overlapped = FALSE

\* Stages 1 to 6: ingest through assess_subjects, before the state is read.
Evaluate(r, i, o) ==
    /\ Idle(r)
    /\ o \in DirsOf[i]
    /\ \A q \in Procs : ~Idle(q) => {i, input[q]} \subseteq Concurrent
    /\ o \in SharedDirs \/ \A q \in Procs : out[q] # o
    /\ phase' = [phase EXCEPT ![r] = "evaluated"]
    /\ input' = [input EXCEPT ![r] = i]
    /\ out' = [out EXCEPT ![r] = o]
    /\ overlapped' = (overlapped \/ \E q \in Procs : ~Idle(q))
    /\ UNCHANGED <<file, st, reports, manifest, local, plan, recorded>>

\* Stage 6a: StateDir.load, plan and drift; nothing reaches the disk.
LoadState(r) ==
    LET i == input[r]
    IN  /\ phase[r] = "evaluated"
        /\ file \in {"absent", "ok"}
        /\ phase' = [phase EXCEPT ![r] = "planned"]
        /\ local' = [local EXCEPT ![r] = Loaded(st, i)]
        /\ plan' = [plan EXCEPT ![r] = Planned(st, i)]
        /\ UNCHANGED <<file, st, reports, manifest, input, out, recorded, overlapped>>

\* An incompatible state_version, or a file that is not JSON: exit 3.
RefuseState(r) ==
    /\ phase[r] = "evaluated"
    /\ file \in {"foreign", "empty", "corrupt"}
    /\ Exit(r)
    /\ UNCHANGED <<file, st, reports, manifest, recorded, overlapped>>

\* write_report up to the open() of manifest.json, which truncates it.
OpenManifest(r) ==
    /\ phase[r] = "planned"
    /\ input[r] \notin Unsupported
    /\ manifest' = [manifest EXCEPT ![out[r]] = Opened]
    /\ phase' = [phase EXCEPT ![r] = "opened"]
    /\ UNCHANGED <<file, st, reports, input, out, local, plan, recorded, overlapped>>

\* Mutant: supersession is read from the report directory after the write.
WriteManifestThenPlan(r) ==
    /\ phase[r] = "opened"
    /\ Len(reports) < MaxReports
    /\ reports' = Append(reports,
                    [input |-> input[r], out |-> out[r], supersedes |-> {Len(reports) + 1},
                     late |-> plan[r].late, drift |-> plan[r].drift])
    /\ manifest' = [manifest EXCEPT ![out[r]] = Len(reports) + 1]
    /\ phase' = [phase EXCEPT ![r] = "written"]
    /\ UNCHANGED <<file, st, input, out, local, plan, recorded, overlapped>>

\* The text of manifest.json.  When another process has written its own since
\* this one truncated, a shorter text overlays the head of a longer one.
WriteManifest(r) ==
    /\ phase[r] = "opened"
    /\ Len(reports) < MaxReports
    /\ reports' = Append(reports,
                    [input |-> input[r], out |-> out[r], supersedes |-> plan[r].supersedes,
                     late |-> plan[r].late, drift |-> plan[r].drift])
    /\ \/ manifest' = [manifest EXCEPT ![out[r]] = Len(reports) + 1]
       \/ /\ manifest[out[r]] # Opened
          /\ manifest' = [manifest EXCEPT ![out[r]] = Overlaid]
    /\ phase' = [phase EXCEPT ![r] = "written"]
    /\ UNCHANGED <<file, st, input, out, local, plan, recorded, overlapped>>

\* check_dc5, the first thing write_report does, raises: exit 3.
RefuseReport(r) ==
    /\ phase[r] = "planned"
    /\ input[r] \in Unsupported
    /\ Exit(r)
    /\ UNCHANGED <<file, st, reports, manifest, recorded, overlapped>>

\* StateDir.record: the manifest is read back from the report directory,
\* whatever is there by now, and the run's object indexes its digest.
ReadManifest(r) ==
    /\ phase[r] = "written"
    /\ local' = [local EXCEPT ![r] = Recorded(@, manifest[out[r]], input[r])]
    /\ phase' = [phase EXCEPT ![r] = "recording"]
    /\ UNCHANGED <<file, st, reports, manifest, input, out, plan, recorded, overlapped>>

\* The open() of save: opening state.json for writing truncates it.
BeginSave(r) ==
    /\ phase[r] = "recording"
    /\ file' = "empty"
    /\ st' = FreshState
    /\ phase' = [phase EXCEPT ![r] = "saving"]
    /\ UNCHANGED <<reports, manifest, input, out, local, plan, recorded, overlapped>>

\* The write of save.  When another process has written since this one
\* truncated, the shorter content overlays the head of the longer one.
EndSave(r) ==
    /\ phase[r] = "saving"
    /\ \/ file' = "ok"
       \/ file # "empty" /\ file' = "corrupt"
    /\ st' = IF file' = "ok" THEN Saved(local[r], input[r]) ELSE FreshState
    /\ recorded' = Append(recorded, local[r].last)
    /\ Exit(r)
    /\ UNCHANGED <<reports, manifest, overlapped>>

\* The process dies; what it wrote stays.
Crash(r) ==
    /\ ~Idle(r)
    /\ Exit(r)
    /\ UNCHANGED <<file, st, reports, manifest, recorded, overlapped>>

\* The recovery the refusal names, which an operator may also take at any
\* other time: move or delete the state directory.
MoveStateAside ==
    /\ file # "absent"
    /\ \A r \in Procs : Idle(r)
    /\ file' = "absent"
    /\ st' = FreshState
    /\ recorded' = <<>>
    /\ overlapped' = FALSE
    /\ UNCHANGED <<reports, manifest, phase, input, out, local, plan>>

RunStep(r) ==
    \/ LoadState(r)
    \/ RefuseState(r)
    \/ OpenManifest(r)
    \/ WriteManifest(r)
    \/ RefuseReport(r)
    \/ ReadManifest(r)
    \/ BeginSave(r)
    \/ EndSave(r)

Next ==
    \/ \E r \in Procs :
        \/ \E i \in Inputs, o \in OutDirs : Evaluate(r, i, o)
        \/ RunStep(r)
        \/ Crash(r)
    \/ MoveStateAside

Spec == Init /\ [][Next]_vars

-----------------------------------------------------------------------------
(***************************************************************************)
(* Type invariant.                                                         *)
(***************************************************************************)
StateType ==
    [digests : SUBSET Digests, last : Int,
     end : {NoEnd} \cup {WindowEnd(i) : i \in Inputs},
     outcomes : [Pairs -> Outcomes \cup {NoOutcome}]]

DriftType == SUBSET [pair : Pairs, previous : Outcomes, outcome : Outcomes]

PlanType ==
    [supersedes : SUBSET Int, late : [Streams -> Nat], drift : DriftType]

ReportType ==
    [input : Inputs, out : OutDirs, supersedes : SUBSET Int, late : [Streams -> Nat],
     drift : DriftType]

\* Every variable keeps its type; a manifest on disk is one that was written.
TypeOK ==
    /\ file \in FileKinds
    /\ st \in StateType
    /\ reports \in Seq(ReportType)
    /\ manifest \in [OutDirs -> (0 .. Len(reports)) \cup Damaged]
    /\ phase \in [Procs -> Phases]
    /\ input \in [Procs -> Inputs \cup {None}]
    /\ out \in [Procs -> OutDirs \cup {None}]
    /\ \A r \in Procs : ~Idle(r) => input[r] \in Inputs /\ out[r] \in OutDirs
    /\ local \in [Procs -> StateType]
    /\ plan \in [Procs -> PlanType]
    /\ recorded \in Seq((1 .. Len(reports)) \cup Damaged)
    /\ overlapped \in BOOLEAN

(***************************************************************************)
(* Safety that holds however runs overlap.                                 *)
(***************************************************************************)
\* A run that overlaps no other in its report directory records the digest of
\* the manifest it wrote; a digest no report has is recorded only after a
\* report in a directory overlapping runs share.
SharedBefore(n) == \E k \in 1 .. n : reports[k].out \in SharedDirs

\* Supersession only ever points back: a report supersedes reports whose
\* manifests were complete before its own was written, so following
\* `supersedes` from any report ends (HR-10), whatever crashed or overlapped.
\* It names no report at all (the digest of a manifest caught half written)
\* only where an earlier report shared its directory.
SupersedesOlder ==
    \A n \in DOMAIN reports : \A m \in reports[n].supersedes :
        \/ m \in 1 .. n - 1
        \/ m \in Damaged /\ SharedBefore(n - 1)

\* Where the report that state.json names is in a directory overlapping runs
\* do not share, state.json is that run's whole view and never a mix of two,
\* however saves interleaved: it holds that report's bundle, window and
\* outcomes. It names no report only where a report shared its directory.
OneRunsView ==
    file = "ok" =>
        IF st.last \in Damaged THEN SharedBefore(Len(reports))
        ELSE /\ st.last \in DOMAIN reports
             /\ reports[st.last].out \in SharedDirs \/
                LET i == reports[st.last].input
                IN  /\ DigestOf[i] \in st.digests
                    /\ st.end = WindowEnd(i)
                    /\ Remembers(i) =>
                         \A p \in Pairs : OutcomeOf[i][p] \in {NoOutcome, st.outcomes[p]}

(***************************************************************************)
(* Safety until runs overlap, crashes included.                            *)
(***************************************************************************)
\* The reports recorded through the state file, as the ledger of a series that
\* no two runs have overlapped in.
SeriesLedger ==
    IF overlapped THEN <<>>
    ELSE [k \in DOMAIN recorded |->
             [id |-> recorded[k],
              input |-> reports[recorded[k]].input,
              supersedes |-> reports[recorded[k]].supersedes,
              late |-> reports[recorded[k]].late,
              drift |-> reports[recorded[k]].drift]]

Summary(l) ==
    [digests |-> Seen(l),
     last |-> IF l = <<>> THEN 0 ELSE l[Len(l)].id,
     end |-> IF l = <<>> THEN NoEnd ELSE WindowEnd(l[Len(l)].input),
     outcomes |-> Known(l)]

\* Until two runs overlap, the state file is the summary of the reports
\* recorded through it: the index holds exactly their bundles, last_* describe
\* the newest, and the remembered outcome of a pair is the last one any of them
\* reported since a port of the engine last ran on the directory (its save
\* drops them all).
StateIsSummary ==
    ~overlapped =>
        /\ file = "ok" => st = Summary(SeriesLedger)
        /\ file \in {"absent", "foreign"} => recorded = <<>>

\* The series implements the ledger it promises, and begins a new one where
\* two runs overlap.
Ledger == INSTANCE SupersessionLedger WITH
    Ids <- 1 .. MaxReports, ledger <- SeriesLedger
ImplementsLedger == Ledger!LedgerSpec
=============================================================================
