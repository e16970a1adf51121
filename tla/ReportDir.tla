----------------------------- MODULE ReportDir -----------------------------
(***************************************************************************)
(* One report directory over its life: `agentce assess` runs write into it *)
(* one after the other, each file by file and each able to stop anywhere,  *)
(* and `agentce sign` judges its readiness and signs its claim.  Nothing   *)
(* clears the directory, so it may hold the files of several runs.         *)
(*                                                                         *)
(* A file's content is modelled by the number of the run that wrote it and *)
(* by whether the write was finished; a run's evidence by its input.       *)
(***************************************************************************)
EXTENDS Naturals, Sequences

CONSTANTS
    Inputs,       \* what a run may be given; see InputType
    Renderings,   \* the files --emit selects from
    Roles,        \* who signs: claimant, assessor
    NoSignature, Torn,
    MaxRuns       \* bound on the runs over one directory

\* The files of the stages before the report, those readiness reads, and
\* those a report's manifest digests.
Judged == {"integrity", "coverage", "applicability", "assertions"}
Outputs == {"assertions", "drift"} \cup Renderings
Artifacts == Judged \cup Outputs \cup {"quarantine", "graph", "claim", "manifest"}

InputType ==
    [named : BOOLEAN,      \* its options, catalogs and bundle are accepted
     domain : BOOLEAN,     \* its domain binding, if it names one, loads
     supported : BOOLEAN,  \* every verdict has an evidence pointer (DC-5)
     asserted : {"none", "unjudged", "judged"},  \* what its assertions say
     bad : SUBSET Judged,  \* where readiness finds a blocking reason
     drift : BOOLEAN,      \* outcomes differ from the state directory's
     emit : Seq(Renderings)]     \* the renderings it writes, in order

ASSUME ReportDirAssumption ==
    /\ Renderings \cap (Judged \cup {"drift", "quarantine", "graph", "claim", "manifest"}) = {}
    /\ Inputs \subseteq InputType
    /\ \A i \in Inputs : i.asserted = "none" => i.supported /\ "assertions" \notin i.bad
    /\ MaxRuns \in Nat
    /\ NoSignature # Torn

Nobody == 0
NoFile == [by |-> Nobody, whole |-> FALSE]

VARIABLES
    disk,        \* Artifacts -> [by, whole]
    recorded,    \* the outputs manifest.json names
    embedded,    \* the signatures in claim.json
    detached,    \* Roles -> the signature in signatures/, if any
    runs,        \* history: the inputs of the runs so far
    fate,        \* history: how each of them ended
    plan,        \* the files the running assess has yet to write
    open,        \* TRUE: the first of them has been truncated
    outputs,     \* the outputs it has written
    signer       \* what `sign` is doing

vars == <<disk, recorded, embedded, detached, runs, fate, plan, open, outputs, signer>>
signed == <<embedded, detached, signer>>
series == <<runs, fate>>

Fates == {"running", "refused", "cut", "died", "nothing", "judged"}
Current == Len(runs)
Assessing == Current > 0 /\ fate[Current] = "running"

Missing(f) == disk[f].by = Nobody
Whole(f) == disk[f].whole
IsTorn(f) == ~Missing(f) /\ ~Whole(f)

\* A signature names by digest the claim body and the manifest it was made
\* over; `after` is history, the last run begun before it.
SignatureType == [role : Roles, body : Nat, manifest : Nat, after : Nat]
SignerSteps == {"judge", "claim", "detach"}
Idle == [step |-> "idle", sig |-> NoSignature]

Init ==
    /\ disk = [f \in Artifacts |-> NoFile]
    /\ recorded = {}
    /\ embedded = {}
    /\ detached = [r \in Roles |-> NoSignature]
    /\ runs = <<>>
    /\ fate = <<>>
    /\ plan = <<>>
    /\ open = FALSE
    /\ outputs = {}
    /\ signer = Idle

-----------------------------------------------------------------------------
When(b, s) == IF b THEN s ELSE <<>>

\* write_report: the claim only if there is something to claim, the
\* manifest last.
ReportFiles(i) ==
    <<"assertions">> \o When(i.drift, <<"drift">>) \o i.emit
      \o When(i.asserted # "none", <<"claim">>) \o <<"manifest">>

EvidenceFiles == <<"quarantine", "integrity", "graph", "coverage", "applicability">>

\* Mutant: DC-5 is checked after assertions.json is written.
PlanLateCheck(i) ==
    IF ~i.domain THEN <<"quarantine", "integrity">>
    ELSE EvidenceFiles \o IF i.supported THEN ReportFiles(i) ELSE <<"assertions">>

\* cmd_assess, as far as it gets: a domain binding that does not load stops
\* it after the integrity stage, an unsupported verdict before the report.
Plan(i) ==
    IF ~i.domain THEN <<"quarantine", "integrity">>
    ELSE EvidenceFiles \o When(i.supported, ReportFiles(i))

\* Everything that is refused before the first file is written.
RefuseAssess(i) ==
    /\ ~Assessing /\ signer = Idle
    /\ Current < MaxRuns
    /\ ~i.named
    /\ runs' = Append(runs, i)
    /\ fate' = Append(fate, "refused")
    /\ UNCHANGED <<disk, recorded, plan, open, outputs, signed>>

BeginAssess(i) ==
    /\ ~Assessing /\ signer = Idle
    /\ Current < MaxRuns
    /\ i.named
    /\ runs' = Append(runs, i)
    /\ fate' = Append(fate, "running")
    /\ plan' = Plan(i)
    /\ outputs' = {}
    /\ UNCHANGED <<disk, recorded, open, signed>>

\* Mutant: a claim that exists keeps its signatures.
OpenKeepsSignatures ==
    /\ Assessing /\ plan # <<>> /\ ~open
    /\ disk' = [disk EXCEPT ![Head(plan)] = [by |-> Current, whole |-> FALSE]]
    /\ open' = TRUE
    /\ recorded' = IF Head(plan) = "manifest" THEN {} ELSE recorded
    /\ UNCHANGED <<series, plan, outputs, signed>>

\* The next file is truncated (graph.sqlite: removed and created anew).
Open ==
    /\ Assessing /\ plan # <<>> /\ ~open
    /\ disk' = [disk EXCEPT ![Head(plan)] = [by |-> Current, whole |-> FALSE]]
    /\ open' = TRUE
    /\ embedded' = IF Head(plan) = "claim" THEN {} ELSE embedded
    /\ recorded' = IF Head(plan) = "manifest" THEN {} ELSE recorded
    /\ UNCHANGED <<series, plan, outputs, detached, signer>>

\* Mutant: the manifest names every format, selected or not.
FillNamesAll ==
    /\ open
    /\ disk' = [disk EXCEPT ![Head(plan)].whole = TRUE]
    /\ open' = FALSE
    /\ plan' = Tail(plan)
    /\ outputs' = outputs \cup ({Head(plan)} \cap Outputs)
    /\ recorded' = IF Head(plan) = "manifest" THEN outputs \cup Renderings ELSE recorded
    /\ UNCHANGED <<series, signed>>

\* Its content is written, and its digest kept for the manifest.
Fill ==
    /\ open
    /\ disk' = [disk EXCEPT ![Head(plan)].whole = TRUE]
    /\ open' = FALSE
    /\ plan' = Tail(plan)
    /\ outputs' = outputs \cup ({Head(plan)} \cap Outputs)
    /\ recorded' = IF Head(plan) = "manifest" THEN outputs ELSE recorded
    /\ UNCHANGED <<series, signed>>

EndsAs(i) ==
    IF ~i.domain \/ ~i.supported THEN "cut"
    ELSE IF i.asserted = "judged" THEN "judged" ELSE "nothing"

\* Exit 0 or 1 with a report; exit 3 with one that judges nothing; exit 3
\* part of the way.
EndAssess ==
    /\ Assessing /\ plan = <<>>
    /\ fate' = [fate EXCEPT ![Current] = EndsAs(runs[Current])]
    /\ UNCHANGED <<disk, recorded, runs, plan, open, outputs, signed>>

\* The process is killed, or a write fails.
DieAssessing ==
    /\ Assessing
    /\ fate' = [fate EXCEPT ![Current] = "died"]
    /\ plan' = <<>>
    /\ open' = FALSE
    /\ UNCHANGED <<disk, recorded, runs, outputs, signed>>

-----------------------------------------------------------------------------
CallSign(r) ==
    /\ ~Assessing /\ signer = Idle
    /\ signer' = [step |-> "judge",
                  sig |-> [role |-> r, body |-> disk["claim"].by,
                           manifest |-> disk["manifest"].by, after |-> Current]]
    /\ UNCHANGED <<disk, recorded, embedded, detached, series, plan, open, outputs>>

\* Mutant: applicability.jsonl is not read.
CanBeReadySansDrift ==
    /\ \A f \in {"coverage", "assertions"} : ~IsTorn(f)
    /\ \A f \in Judged \ {"applicability"} : Whole(f) => f \notin runs[disk[f].by].bad

\* compute_readiness may answer READY: a missing file is one without
\* findings, a half-written JSON-lines file may read as one, and a
\* half-written JSON file is an error.
CanBeReady ==
    /\ \A f \in {"coverage", "assertions"} : ~IsTorn(f)
    /\ \A f \in Judged : Whole(f) => f \notin runs[disk[f].by].bad

\* NOT READY, a dry run, no key, no claim or one that does not parse.
RefuseSign ==
    /\ signer.step = "judge"
    /\ signer' = Idle
    /\ UNCHANGED <<disk, recorded, embedded, detached, series, plan, open, outputs>>

\* The claim is read, the statement signed and claim.json truncated.
OpenClaim ==
    /\ signer.step = "judge"
    /\ CanBeReady
    /\ Whole("claim")
    /\ disk' = [disk EXCEPT !["claim"].whole = FALSE]
    /\ signer' = [signer EXCEPT !.step = "claim"]
    /\ UNCHANGED <<recorded, embedded, detached, series, plan, open, outputs>>

\* Mutant: the new signature replaces those the claim had.
FillClaimAlone ==
    /\ signer.step = "claim"
    /\ disk' = [disk EXCEPT !["claim"].whole = TRUE]
    /\ embedded' = {signer.sig}
    /\ signer' = [signer EXCEPT !.step = "detach"]
    /\ UNCHANGED <<recorded, detached, series, plan, open, outputs>>

\* claim.json is written with one more signature.
FillClaim ==
    /\ signer.step = "claim"
    /\ disk' = [disk EXCEPT !["claim"].whole = TRUE]
    /\ embedded' = embedded \cup {signer.sig}
    /\ signer' = [signer EXCEPT !.step = "detach"]
    /\ UNCHANGED <<recorded, detached, series, plan, open, outputs>>

Detach ==
    /\ signer.step = "detach"
    /\ detached' = [detached EXCEPT ![signer.sig.role] = signer.sig]
    /\ signer' = Idle
    /\ UNCHANGED <<disk, recorded, embedded, series, plan, open, outputs>>

DieSigning ==
    /\ signer # Idle
    /\ signer' = Idle
    /\ \/ UNCHANGED detached
       \/ /\ signer.step = "detach"
          /\ detached' = [detached EXCEPT ![signer.sig.role] = Torn]
    /\ UNCHANGED <<disk, recorded, embedded, series, plan, open, outputs>>

Next ==
    \/ \E i \in Inputs : RefuseAssess(i) \/ BeginAssess(i)
    \/ Open \/ Fill \/ EndAssess \/ DieAssessing
    \/ \E r \in Roles : CallSign(r)
    \/ RefuseSign \/ OpenClaim \/ FillClaim \/ Detach \/ DieSigning

Spec == Init /\ [][Next]_vars

-----------------------------------------------------------------------------
(***************************************************************************)
(* Type invariant.                                                         *)
(***************************************************************************)
TypeOK ==
    /\ disk \in [Artifacts -> [by : Nat, whole : BOOLEAN]]
    /\ recorded \subseteq Outputs
    /\ embedded \subseteq SignatureType
    /\ detached \in [Roles -> SignatureType \cup {NoSignature, Torn}]
    /\ runs \in Seq(Inputs)
    /\ fate \in Seq(Fates)
    /\ Len(fate) = Len(runs)
    /\ plan \in Seq(Artifacts)
    /\ open \in BOOLEAN
    /\ open => plan # <<>>
    /\ plan # <<>> => Assessing
    /\ outputs \subseteq Outputs
    /\ signer \in {Idle} \cup [step : SignerSteps, sig : SignatureType]

(***************************************************************************)
(* Safety.                                                                 *)
(***************************************************************************)
\* A run is dead or has yet to end: what it wrote may be in pieces.
Unfinished(r) == fate[r] \in {"running", "died"}

\* The manifest goes last and digests what its run wrote: while no later run
\* that is still writing, or died writing, has got at it, every output it
\* names is there as that run wrote it, and none it does not name is that
\* run's.  A run that is refused part of the way (a domain binding that does
\* not load, a verdict without evidence) leaves an older report intact.
ManifestMatches ==
    Whole("manifest") =>
        LET m == disk["manifest"].by
        IN  \A f \in Outputs :
                \/ disk[f].by > m /\ Unfinished(disk[f].by)
                \/ f \in recorded /\ disk[f].by = m /\ Whole(f)
                \/ f \notin recorded /\ disk[f].by # m

\* Run r is the last of the first n that got past the refusals.
IsLast(r, n) == fate[r] # "refused" /\ \A q \in r + 1 .. n : fate[q] = "refused"

\* A run that wrote its whole report, with a claim in it.
Reported(r) == fate[r] \in {"judged", "nothing"} /\ runs[r].asserted # "none"

Signatures == embedded \cup {detached[r] : r \in {q \in Roles : detached[q] \notin {NoSignature, Torn}}}

\* What was signed right after a run that wrote its whole report is that
\* run's claim with that run's manifest, and nothing in that run's evidence
\* blocked it.
SignedIsLastReport ==
    \A s \in Signatures : \A r \in 1 .. s.after :
        IsLast(r, s.after) /\ Reported(r)
          => s.body = r /\ s.manifest = r /\ runs[r].bad = {}

\* Signatures go with the claim they were made over: those in claim.json
\* cover its own body, and a signature file that covers it is also in it.
SignaturesFollowClaim ==
    Whole("claim") =>
        /\ \A s \in embedded : s.body = disk["claim"].by
        /\ \A r \in Roles :
              detached[r] \notin {NoSignature, Torn} /\ detached[r].body = disk["claim"].by
                => detached[r] \in embedded

\* validate_report: missing files the run must or did write, and those that
\* do not parse (some renderings it checks for content only: they may pass
\* torn, so these are the problems it can find).
Problems ==
    {f \in {"assertions", "manifest"} \cup recorded : Missing(f)}
      \cup {f \in {"manifest"} \cup Outputs : IsTorn(f)}

\* The files run r writes beside the assertions.
Selected(r) == {runs[r].emit[k] : k \in DOMAIN runs[r].emit}
                 \cup IF runs[r].drift THEN {"drift"} ELSE {}

\* The report of a run that ended is found valid, but for files that an
\* earlier run died writing and this one did not write.
ReportValidates ==
    \A r \in 1 .. Current :
        IsLast(r, Current) /\ fate[r] \in {"judged", "nothing"} =>
            \A f \in Problems :
                /\ f \in Renderings \cup {"drift"} /\ f \notin Selected(r)
                /\ ~Missing(f) /\ fate[disk[f].by] = "died"
=============================================================================
