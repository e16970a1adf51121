---------------------------- MODULE ReadCommands ----------------------------
(***************************************************************************)
(* The commands of agentce that judge nothing of their own: validate,      *)
(* verify, report, diff, `catalog lint` and quickstart, the reason assess  *)
(* gives where it evaluated nothing, and `conformance run` with the        *)
(* comparison of the engines (conformance/ecs.py).  Each is a function of  *)
(* the bundle directory, the catalog directory, the assertions.json or the *)
(* corpus it is given (agentce/commands/__init__.py, agentce/catalog.py).  *)
(*                                                                         *)
(* The file of a control is [control, valid, flagged, cases]: whether the  *)
(* schema admits it, whether each of its crosswalk entries says if it was  *)
(* verified, and its test cases [id, expected, fixture], a fixture being   *)
(* the set of the one sequence of events in it, or {} where it is missing. *)
(***************************************************************************)
EXTENDS Workspace, Renderings, Readiness

CONSTANTS
    Bases,          \* the base catalogs shipped with the engine, by their paths
    Tellings,       \* what readiness may be told: a set of [integrity, gaps,
                    \* deviations, dirs], dirs being the catalogs it is given
    Revisions       \* what an overlay may say of a control: a set of
                    \* [severity, num, den]

-----------------------------------------------------------------------------
(*                          validate and verify                            *)

CountsByReason(quarantined) ==
    [reason \in {quarantined[k].reason : k \in DOMAIN quarantined} |->
        CountOf(quarantined, LAMBDA q : q.reason = reason)]

\* cmd_validate: its exit code and what it prints of the ingest.
Validated(read) ==
    [exit |-> IF read.quarantined = <<>> THEN 0 ELSE 1,
     accepted |-> Len(read.accepted), reasons |-> CountsByReason(read.quarantined)]
Validate(d) ==
    IF LoadTrouble(d) = "none" THEN Validated(Ingested(Lines(d), d.manifest.sources))
    ELSE [exit |-> 3, accepted |-> 0, reasons |-> [reason \in {} |-> 0]]

\* cmd_verify, of a bundle whose streams have these statuses.
VerifyBundle(d, statuses) ==
    IF LoadTrouble(d) # "none" THEN 3
    ELSE IF ToSet(statuses) \subseteq {"verified", "verified_weak"} THEN 0 ELSE 1

\* _verify_catalog
VerifyCatalog(d, trust) == IF SignatureTrouble(d, trust) = "none" THEN 0 ELSE 3

\* _nothing_evaluated
WhyNothing(subjects, events) ==
    IF events = <<>> THEN "no_events"
    ELSE IF {subjects[k].id : k \in DOMAIN subjects} \cap {e.subject : e \in ToSet(events)} = {}
    THEN "unmatched" ELSE "no_population"

-----------------------------------------------------------------------------
(*                           report and diff                               *)

\* to_json and from_json: of what an assertion was, its catalog is not kept.
ReadBack(as) ==
    [k \in DOMAIN as |->
        [control |-> as[k].control, family |-> as[k].family, subject |-> as[k].subject,
         outcome |-> as[k].outcome, applicable |-> as[k].applicable,
         failed |-> as[k].failed, evidence |-> as[k].evidence]]

\* cmd_report --from: no catalog is loaded, and no run is known.
ReportFrom(as, labels) ==
    [md |-> ReportMd(as, <<>>, Nothing), html |-> ReportHtml(as, <<>>, Nothing),
     oscal |-> Oscal(as), sarif |-> Sarif(as), public |-> PublicStatement(as, labels),
     pack |-> PacksOf(as)]

\* _diff_assertion_sets: an assertion is known by its control and subject,
\* and of two with one key the last counts.
ByKey(as) ==
    LET Key(k) == <<as[k].control, as[k].subject>>
    IN  [key \in {Key(k) : k \in DOMAIN as} |->
            as[Max({k \in DOMAIN as : Key(k) = key})].outcome]
OutcomeAt(left, key) == IF key \in DOMAIN left THEN left[key] ELSE "absent"
DiffOf(left, right) ==
    {key \in DOMAIN left \cup DOMAIN right : OutcomeAt(left, key) # OutcomeAt(right, key)}
DiffAssertionSets(as, bs) == DiffOf(ByKey(as), ByKey(bs))

\* cmd_diff
DiffExit(as, bs) == IF DiffAssertionSets(as, bs) = {} THEN 0 ELSE 1

-----------------------------------------------------------------------------
(*                             catalog lint                                *)

\* _outcome_matches
OutcomeMatches(expected, population, outcome) ==
    CASE expected = "passed" -> population # <<>> /\ outcome = "conformant"
      [] expected = "failed" -> outcome = "non-conformant"
      [] expected = "inapplicable" -> population = <<>>
      [] OTHER -> TRUE

\* evaluate_control, of a shape's findings.
EvaluateControl(found, tolerance) ==
    [population |-> found.applicable,
     outcome |-> IF WithinTolerance(Len(found.applicable), Len(found.failing), tolerance)
                 THEN "conformant" ELSE "non-conformant"]

\* Mutant: a fixture is judged without the control's tolerance.
FixtureOutcomeStrict(catalog, control, fixture, domain) ==
    EvaluateControl(EvaluateShape(BuildGraph(fixture, domain), ShapeFor(catalog, control),
                                  ShapeTable(catalog)),
                    [kind |-> "count", num |-> 0, den |-> 1])

\* A control's outcome on the graph of a fixture.
FixtureOutcome(catalog, control, fixture, domain) ==
    EvaluateControl(EvaluateShape(BuildGraph(fixture, domain), ShapeFor(catalog, control),
                                  ShapeTable(catalog)),
                    control.tolerance)

\* What a test case may expect.
Expectations == {"passed", "failed", "inapplicable"}

\* What lint finds amiss with a control's file, or with one of its cases.
Problem(control, case, why) == [control |-> control.id, case |-> case, why |-> why]

\* _lint_case, of a fixture's outcome.  A tolerance that is no whole number is
\* read as one where the population is empty or it is no ratio, and the
\* command dies of it.
CaseProblems(control, case, found) ==
    IF control.tolerance.den # 1
       /\ (found.population = <<>> \/ control.tolerance.kind # "ratio")
    THEN {Problem(control, case.id, "raises")}
    ELSE IF OutcomeMatches(case.expected, found.population, found.outcome) THEN {}
    ELSE {Problem(control, case.id, "unexpected")}
CasesProblems(control, cases, found) ==
    UNION {CaseProblems(control, case, found) : case \in {x \in cases : x.expected \in Expectations}}

\* The cases of a control, those of one fixture together.
LintCases(catalog, control, cases, domain) ==
    {Problem(control, case.id, "no_fixture") : case \in {x \in cases : x.fixture = {}}}
    \cup (IF ShapeFor(catalog, control) = NoShape THEN {}
          ELSE UNION {CasesProblems(control, {case \in cases : events \in case.fixture},
                                    FixtureOutcome(catalog, control, events, domain)) :
                      events \in UNION {case.fixture : case \in cases}})

\* One control's file in lint_catalog.
LintControl(catalog, file, domain, flags) ==
    IF ~file.valid THEN {Problem(file.control, Nothing, "schema")}
    ELSE (IF flags /\ ~file.flagged THEN {Problem(file.control, Nothing, "flags")} ELSE {})
         \cup (IF file.control.rung = 2 /\ ShapeFor(catalog, file.control) = NoShape
               THEN {Problem(file.control, Nothing, "no_shape")}
               ELSE LintCases(catalog, file.control, file.cases, domain))

\* lint_catalog and cmd_catalog: of a directory's files, with its test domain.
LintCatalog(catalog, files, domain, flags) ==
    UNION {LintControl(catalog, file, domain, flags) : file \in files}
LintExit(problems) ==
    IF \E p \in problems : p.why = "raises" THEN 3 ELSE IF problems = {} THEN 0 ELSE 1

\* overlay_weakens_base, control by control: a tolerance's number is compared
\* whatever its kind.
SeverityRank == [high |-> 3, medium |-> 2, low |-> 1]
RankOf(severity) == IF severity \in DOMAIN SeverityRank THEN SeverityRank[severity] ELSE 0
Looser(t, u) == t.num * u.den > u.num * t.den
Loosened(base, control) ==
    LET same == {k \in DOMAIN base : base[k].id = control.id}
        old == base[Max(same)]
    IN  {why \in {"severity", "tolerance"} :
            /\ same # {}
            /\ CASE why = "severity" -> RankOf(control.severity) < RankOf(old.severity)
                 [] why = "tolerance" -> Looser(control.tolerance, old.tolerance)}
OverlayWeakensBase(base, overlay) ==
    UNION {{<<overlay[k].id, why>> : why \in Loosened(base, overlay[k])} : k \in DOMAIN overlay}

-----------------------------------------------------------------------------
(*                     The Engine Conformance Suite                        *)

(* A corpus is a set of projects [id, dir, subjects, domain], and base the *)
(* sequence of the catalogs under spec/catalogs/base.                      *)

\* What write_report leaves of a project whose verdicts are backed.
ProjectFiles(as) ==
    IF Backed(as)
    THEN [assertions |-> as, oscal |-> Oscal(as), sarif |-> Sarif(as),
          packs |-> PacksOnDisk(as)]
    ELSE NoFile

\* _assess_project: without signatures, a gate or an exit code of its own.
ProjectAssertions(project, base, events) ==
    FlattenSeq([k \in DOMAIN project.subjects |->
                   Judge(project.subjects[k], events, base, project.domain)])
AssessProject(project, base) ==
    IF LoadTrouble(project.dir) # "none" THEN NoFile
    ELSE ProjectFiles(ProjectAssertions(project, base,
             Ingested(Lines(project.dir), project.dir.manifest.sources).accepted))

\* run_ecs: a project counts as identical when its assessment does not raise,
\* and a learned component voids the claim.
ClaimOf(total, identical, noMl) ==
    IF ~noMl THEN "none"
    ELSE IF identical = total /\ total > 0 THEN "full"
    ELSE IF identical > 0 THEN "partial" ELSE "none"
RunEcs(corpus, base, noMl) ==
    LET files == [id \in {project.id : project \in corpus} |->
                     AssessProject(CHOOSE project \in corpus : project.id = id, base)]
    IN  [claim |-> ClaimOf(Cardinality(DOMAIN files),
                           Cardinality({id \in DOMAIN files : files[id] # NoFile}), noMl),
         files |-> files]

\* _canonical_set, the engine's own name and version left out.
CanonicalSet(files) ==
    IF files = NoFile THEN [name \in {} |-> Nothing]
    ELSE <<"assertions.json">> :> files.assertions @@ <<"oscal-ar.json">> :> files.oscal
         @@ <<"results.sarif">> :> files.sarif
         @@ [name \in {<<"packs", place>> : place \in DOMAIN files.packs} |-> files.packs[name[2]]]

\* Mutant: only what both engines wrote is compared.
DivergencesOfBoth(expected, actual) ==
    {name \in DOMAIN expected \cap DOMAIN actual : expected[name] # actual[name]}

\* canonical_divergences, of two canonical sets.
Divergences(expected, actual) ==
    IF <<"assertions.json">> \notin DOMAIN expected THEN {<<"assertions.json">>}
    ELSE {name \in DOMAIN expected \cup DOMAIN actual :
             \/ name \notin DOMAIN expected \cap DOMAIN actual
             \/ expected[name] # actual[name]}

\* run_multi_engine: the projects in which each engine wrote what the first did.
IdenticalProjects(reports) ==
    {id \in DOMAIN reports[1].files : \A k \in 2..Len(reports) :
        Divergences(CanonicalSet(reports[1].files[id]), CanonicalSet(reports[k].files[id])) = {}}

\* _all_identical, as ecs.py --compare requires.
AllIdentical(reports) ==
    /\ \A k \in DOMAIN reports : reports[k].claim = "full"
    /\ DOMAIN reports[1].files # {}
    /\ IdenticalProjects(reports) = DOMAIN reports[1].files

\* cmd_conformance, its exit code, the adapters left aside.
CmdConformance(report) == IF report.claim = "full" THEN 0 ELSE 1

-----------------------------------------------------------------------------
(*                              quickstart                                 *)

\* cmd_quickstart: assess, by the bundled directory and by its label, and no
\* directory that does not verify is allowed.
Quickstart(run, bundled) ==
    [run EXCEPT !.ask = [@ EXCEPT !.requested = <<bundled.catalog.label>>,
                                  !.dirs = <<bundled>>, !.allow = FALSE]]

-----------------------------------------------------------------------------
(*                        Whether a report may be signed                   *)

\* _readiness_severities: the catalogs whose severities count.  Those the report
\* was made by are not asked for.
RatedBy(told) == IF told.dirs = <<>> THEN Bases ELSE told.dirs

\* cmd_readiness of a finished report.
ReadyWith(r, told) ==
    ComputeReadiness(
        [integrity |-> told.integrity, coverage |-> out.coverage,
         statements |-> out.applicability, assertions |-> r.assertions],
        [severities |-> Severities(RatedBy(told)), deviations |-> told.deviations,
         gaps |-> told.gaps])

\* cmd_sign has no option for catalogs, deviations or gaps.
ToSign(integrity) == [integrity |-> integrity, gaps |-> {}, deviations |-> <<>>, dirs |-> <<>>]

\* The controls of catalogs.
ControlsOf(used) == UNION {{x.id : x \in ToSet(c.controls)} : c \in ToSet(used)}

\* What was captured is all there, and declared.
EvidenceIsWhole(statuses, subjects) ==
    /\ ToSet(statuses) \cap BadIntegrity = {}
    /\ \A s \in ToSet(subjects) : ~ShortOf(s)
    /\ \A e \in ToSet(accepted) : \E s \in ToSet(subjects) :
           /\ e.subject = s.id
           /\ e.type = "Decision" /\ Has(e, "decision_type") =>
                  e.data.decision_type \in s.decision_types
           /\ e.type = "BundleLoaded" /\ Has(e, "components") =>
                  e.data.components \subseteq s.components

\* A deviation is of a control that the subject failed, if it was judged by one.
WaivesAFailure(d, subject, used) ==
    /\ d.family # "INT"
    /\ d.approver # d.owner
    /\ d.control \in ControlsOf(used) =>
           \E a \in ToSet(assertions) :
               a.control = d.control /\ a.subject = subject.id /\ a.outcome = "non-conformant"

\* No control rated high lacks evidence, but for those on record.
HighIsProven(rating, gaps) ==
    \A a \in ToSet(assertions) :
        /\ a.outcome = "insufficient_evidence"
        /\ a.control \in ControlsOf(rating)
        /\ SpecOf(rating, a.control).severity = "high"
        => a.control \in gaps

\* A report that may be signed is whole: no stream of its bundle is broken, no
\* denominator counted more than was captured (even where another type makes
\* the subject's coverage unknown), no event is of a subject, a decision
\* type or a loaded component nobody declared, each control rated high that
\* some subject has no evidence for is on record, and no control was waived
\* that is about integrity, that no catalog at hand knows, or that the report
\* judged and the last subject did not fail.  Rated high is what the catalogs
\* readiness was given say, or the base catalogs shipped, and to sign always
\* these: not the catalogs the report was made by, unless they are the same
\* (compute_readiness, deviation_lint, _readiness_severities; a profile without
\* subjects, which its schema forbids and Profile.load admits, is left aside).
ReadyReportIsWhole ==
    phase = "reported" /\ cmd.subjects # <<>> =>
        \A r \in out.report, told \in Tellings :
            /\ ReadyWith(r, told).verdict # "NOT READY" =>
                /\ EvidenceIsWhole(told.integrity, cmd.subjects)
                /\ HighIsProven(RatedBy(told), told.gaps)
                /\ \A d \in ToSet(told.deviations) :
                       /\ d.control \in ControlsOf(RatedBy(told))
                       /\ WaivesAFailure(d, cmd.subjects[Len(cmd.subjects)], r.catalogs)
            /\ ReadyWith(r, ToSign(told.integrity)).verdict # "NOT READY" =>
                /\ EvidenceIsWhole(told.integrity, cmd.subjects)
                /\ HighIsProven(Bases, {})

-----------------------------------------------------------------------------
(*                  What the commands that judge nothing say               *)

\* What control.schema.json admits as a tolerance.
Admitted(control) == control.tolerance.num \in Nat /\ control.tolerance.den \in Nat \ {0}

\* A control's file with a test case for each expectation, whose fixture is
\* the events.
FileFor(control, events) ==
    [control |-> control, valid |-> Admitted(control), flagged |-> TRUE,
     cases |-> {[id |-> x, expected |-> x, fixture |-> {events}] : x \in Expectations}]

\* What a test case has to expect of a verdict, where there is such a thing.
Foretold == {"conformant", "non-conformant", "not_applicable"}
Expecting(outcome) ==
    CASE outcome = "conformant" -> "passed"
      [] outcome = "non-conformant" -> "failed"
      [] outcome = "not_applicable" -> "inapplicable"

\* Of the events that assess judged, lint takes the case for right that expects
\* the verdict, and no other; unless it dies of the tolerance.
LintForetells(outcome, control, problems) ==
    IF control.tolerance.den # 1
       /\ (outcome = "not_applicable" \/ control.tolerance.kind # "ratio")
    THEN LintExit(problems) = 3
    ELSE /\ {p.case : p \in problems} = Expectations \ {Expecting(outcome)}
         /\ LintExit(problems) = 1

\* No other catalog, control or subject goes by the name.
OnlyOne(c, control, subject, r) ==
    /\ \A d \in ToSet(r.catalogs) : d.label = c.label => d = c
    /\ \A x \in ToSet(c.controls) : x.id = control.id => x = control
    /\ \A s \in ToSet(r.run.subjects) : s.id = subject.id => s = subject

LintAgrees(r) ==
    \A c \in ToSet(r.catalogs), s \in ToSet(r.run.subjects) : \A x \in ToSet(c.controls) :
        (/\ OnlyOne(c, x, s, r) /\ Admitted(x)
         /\ RoleApplies(EffectiveRoles(s.role), x.roles)) =>
            \A a \in ToSet(r.assertions) :
                (/\ a.catalog = c.label /\ a.control = x.id /\ a.subject = s.id
                 /\ a.outcome \in Foretold) =>
                    LintForetells(a.outcome, x,
                        LintCatalog(c, {FileFor(x, EventsOf(r.accepted, s.id))},
                                    r.run.domain, TRUE))

\* An overlay's control says again of the base's what it does not revise.
Revised(control, v) ==
    [id |-> control.id, severity |-> v.severity,
     tolerance |-> [kind |-> control.tolerance.kind, num |-> v.num, den |-> v.den]]
TighteningStays(control, most) ==
    \A v \in Revisions : \A o \in {Revised(control, v)} :
        (/\ Admitted(control) /\ Admitted(o)
         /\ OverlayWeakensBase(<<control>>, <<o>>) = {}) =>
            /\ control.severity = "high" => o.severity = "high"
            /\ \A applicable \in 0..most : \A failed \in 0..applicable :
                   WithinTolerance(applicable, failed, o.tolerance)
                       => WithinTolerance(applicable, failed, control.tolerance)

\* What report and diff make of assertions.json alone.
RereadAgrees(as, used, again) ==
    /\ DiffExit(as, ReadBack(as)) = 0
    /\ again.sarif = Sarif(as) /\ again.oscal = Oscal(as) /\ again.pack = PacksOf(as)
    /\ again.public = PublicStatement(as, <<>>)
    /\ again.md.summary = Summarize(as)
    /\ ListsEach(again.html.rows,
                 [k \in DOMAIN as |-> [Finding(as[k], used) EXCEPT !.severity = Nothing]])

StreamStatuses ==
    {"verified", "verified_weak", "unsigned", "time_suspect", "reordered", "gap", "failed"}

\* Where nothing was evaluated, the reason given is so.
WhyAgrees(r, why) ==
    /\ why = "no_events" => r.accepted = <<>>
    /\ why = "unmatched" => \A e \in ToSet(r.accepted) : \A s \in Judged(r.assertions) : e.subject # s
    /\ why = "no_population" => \A a \in ToSet(r.assertions) : a.applicable = 0

\* The commands that only read say what the assessment of the same directory
\* said: validate finds a bundle clean exactly when nothing was quarantined,
\* and as many events accepted; streams that verify passes do not block
\* readiness; a directory verify refuses is one the report names as a
\* limitation; of the test cases that have a subject's events as their
\* fixture lint passes the one that expects the verdict the subject got, and
\* no other, or dies of a tolerance that is no whole number where the
\* population is empty; an overlay the lint does not call weaker, of the same
\* kind of tolerance, lets nothing pass that failed; a report rendered again
\* from assertions.json alone lists the same, but for severities; and the
\* reason given where nothing was evaluated is true of the events
\* (cmd_validate, _verify_catalog, lint_catalog, overlay_weakens_base,
\* cmd_report and _nothing_evaluated each read the files on their own).
ReadOnlyCommandsAgree ==
    phase = "reported" =>
        \A r \in out.report :
            /\ Validate(dir).exit = (IF out.quarantine = <<>> THEN 0 ELSE 1)
            /\ Validate(dir).accepted = Len(r.accepted)
            /\ \A s, t \in StreamStatuses :
                   VerifyBundle(dir, <<s, t>>) = 0 => IntegrityReasons(<<s, t>>) = {}
            /\ \A k \in DOMAIN cmd.ask.dirs : VerifyCatalog(cmd.ask.dirs[k], cmd.ask.trust) = 3 =>
                   cmd.ask.dirs[k].catalog.label \in r.limitations
            /\ LintAgrees(r)
            /\ \A c \in ToSet(r.catalogs) : \A x \in ToSet(c.controls) :
                   TighteningStays(x, Len(r.accepted))
            /\ RereadAgrees(r.assertions, r.catalogs, ReportFrom(ReadBack(r.assertions), <<>>))
            /\ Verdicts \cap Outcomes(r.assertions) = {} =>
                   WhyAgrees(r, WhyNothing(r.run.subjects, r.accepted))
=============================================================================
