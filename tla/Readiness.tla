----------------------------- MODULE Readiness -----------------------------
(***************************************************************************)
(* `agentce readiness` (agentce/readiness.py): may a finished report be    *)
(* signed?  It reads the files of the report directory: the statuses of    *)
(* the streams, the coverage and the applicability of each subject, and    *)
(* the assertions in their order; and it is told the severities of the     *)
(* controls, the deviations the operator accepted and the controls whose   *)
(* evidence gaps are on record.                                            *)
(*                                                                         *)
(* A deviation is [control, family, present, owner, approver, days]: the   *)
(* fields it fills in, and its lifetime or NoDates where a date is amiss.  *)
(***************************************************************************)
EXTENDS Naturals, Sequences, FiniteSets, SequencesExt

CONSTANTS
    NoDates,
    MaxDeviationDays    \* DEFAULT_MAX_DEVIATION_DAYS

BadIntegrity == {"failed", "gap", "reordered"}
DeviationFields ==
    {"rationale", "compensating_control", "owner", "approver", "granted", "expiry"}

\* _readiness_severities: of controls with one id the last one's counts.
Severities(catalogs) ==
    LET At(controls, id) == {k \in DOMAIN controls : controls[k].id = id}
        ids == UNION {{x.id : x \in ToSet(c.controls)} : c \in ToSet(catalogs)}
        Holding(id) == {j \in DOMAIN catalogs : At(catalogs[j].controls, id) # {}}
        SeverityIn(controls, id) == controls[Max(At(controls, id))].severity
    IN  [id \in ids |-> SeverityIn(catalogs[Max(Holding(id))].controls, id)]

-----------------------------------------------------------------------------
(*                            What blocks a report                         *)

IntegrityReasons(statuses) ==
    {<<"integrity", k>> : k \in {j \in DOMAIN statuses : statuses[j] \in BadIntegrity}}

\* Mutant: what the subject's roll-up hides is hidden here too.
CoverageReasonsOfRollup(coverage) ==
    {<<"coverage", k>> : k \in {j \in DOMAIN coverage : coverage[j].status = "gap"}}

\* A type below its threshold is a shortfall, whatever the roll-up says.
CoverageReasons(coverage) ==
    {<<"coverage", k>> : k \in {j \in DOMAIN coverage : coverage[j].status = "gap"}}
    \cup UNION {{<<"coverage", k, t>> :
                    t \in {u \in DOMAIN coverage[k].types :
                              coverage[k].types[u].status = "below_threshold"}} :
                k \in DOMAIN coverage}

DriftReasons(statements) ==
    UNION {{<<"drift", k, d>> : d \in statements[k].drift} : k \in DOMAIN statements}

\* The controls of high severity that lack evidence for some subject.
Unproven(assertions, severities) ==
    {c \in DOMAIN severities : severities[c] = "high" /\
        \E k \in DOMAIN assertions : /\ assertions[k].control = c
                                     /\ assertions[k].outcome = "insufficient_evidence"}

\* One outcome a control, that of its last assertion.
OutcomeByControl(assertions) ==
    [c \in {assertions[k].control : k \in DOMAIN assertions} |->
        assertions[Max({k \in DOMAIN assertions : assertions[k].control = c})].outcome]

\* deviation_lint, for one deviation.
DeviationProblems(d, controls, outcomes) ==
    {p \in {"unknown", "integrity", "unproven", "not_a_failure", "incomplete",
            "own_approval", "too_long"} :
        CASE p = "unknown" -> d.control \notin controls
          [] p = "integrity" -> d.family = "INT"
          [] p = "unproven" ->
                d.control \in DOMAIN outcomes /\ outcomes[d.control] = "insufficient_evidence"
          [] p = "not_a_failure" ->
                /\ d.control \in DOMAIN outcomes
                /\ outcomes[d.control] \notin {"insufficient_evidence", "non-conformant"}
          [] p = "incomplete" -> ~DeviationFields \subseteq d.present
          [] p = "own_approval" ->
                {"owner", "approver"} \subseteq d.present /\ d.owner = d.approver
          [] p = "too_long" ->
                /\ {"granted", "expiry"} \subseteq d.present
                /\ d.days # NoDates
                /\ d.days > MaxDeviationDays}

DeviationReasons(deviations, assertions, severities) ==
    UNION {{<<"deviation", k, p>> :
               p \in DeviationProblems(deviations[k], DOMAIN severities,
                                       OutcomeByControl(assertions))} :
           k \in DOMAIN deviations}

\* compute_readiness.  found is what lies in the report directory, told what
\* the operator passes.
ComputeReadiness(found, told) ==
    LET unproven == Unproven(found.assertions, told.severities)
        reasons == IntegrityReasons(found.integrity) \cup CoverageReasons(found.coverage)
                   \cup DriftReasons(found.statements)
                   \cup {<<"unproven", c>> : c \in unproven \ told.gaps}
                   \cup DeviationReasons(told.deviations, found.assertions, told.severities)
        limitations == unproven \cap told.gaps
    IN  [verdict |-> IF reasons # {} THEN "NOT READY"
                     ELSE IF limitations # {} THEN "READY WITH LIMITATIONS" ELSE "READY",
         reasons |-> reasons, limitations |-> limitations]

\* The exit code of cmd_readiness.
ReadinessExit(verdict) == IF verdict = "NOT READY" THEN 1 ELSE 0
=============================================================================
