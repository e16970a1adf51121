----------------------------- MODULE Renderings -----------------------------
(***************************************************************************)
(* What a report's files say: each is a function of the assertions, the    *)
(* accepted events and the catalogs of one run (agentce/verdict.py, the    *)
(* renderers of agentce/report.py).  Wording, layout and the order within  *)
(* a file are left out; when a file is written is ReportDir's.             *)
(***************************************************************************)
EXTENDS Assess

CONSTANTS
    MaxListed,      \* verdict.MAX_LISTED
    SafeName(_)     \* _safe: a name with every other character made "_", so
                    \* that two subjects may get one

AllOutcomes == {"conformant", "non-conformant", "partial", "not_applicable",
                "not_assessed", "insufficient_evidence"}
GapOutcomes == {"non-conformant", "partial", "insufficient_evidence", "not_assessed"}

\* The assertions of which some field has a value.
Having(as, field, values) == Picked(as, {k \in DOMAIN as : as[k][field] \in values})
Judged(as) == {as[k].subject : k \in DOMAIN as}

-----------------------------------------------------------------------------
(*                       The verdict and the tallies                       *)

\* aggregate
Aggregate(as) == [o \in AllOutcomes |-> CountOf(as, LAMBDA a : a.outcome = o)]

\* Mutant: what was not assessed is no gap.
SummarizeAssessed(as) ==
    LET counts == Aggregate(as)
    IN  [verdict |-> IF counts["non-conformant"] > 0 THEN "non-conformant"
                     ELSE IF counts["partial"] + counts["insufficient_evidence"] > 0
                     THEN "incomplete" ELSE "conformant",
         counts |-> counts, gaps |-> {}]

\* summarize: a gap line names MaxListed controls and counts the others.
Summarize(as) ==
    LET counts == Aggregate(as)
        Controls(o) == {as[k].control : k \in {j \in DOMAIN as : as[j].outcome = o}}
        found == {o \in GapOutcomes : Controls(o) # {}}
    IN  [verdict |->
            IF counts["non-conformant"] > 0 THEN "non-conformant"
            ELSE IF counts["partial"] + counts["insufficient_evidence"]
                    + counts["not_assessed"] > 0
            THEN "incomplete" ELSE "conformant",
         counts |-> counts,
         gaps |-> {[outcome |-> o,
                    listed |-> Min({Cardinality(Controls(o)), MaxListed}),
                    more |-> Max({0, Cardinality(Controls(o)) - MaxListed})] : o \in found}]

\* _control_index: of controls with one id the last catalog's is described.
SpecOf(used, id) ==
    LET Places(controls) == {k \in DOMAIN controls : controls[k].id = id}
        last == used[Max({j \in DOMAIN used : Places(used[j].controls) # {}})].controls
    IN  last[Max(Places(last))]

\* _remediation_severity
Rated(severity) == IF severity \in {"high", "medium", "low"} THEN severity ELSE "unrated"
Level(control) == Rated(control.severity)

\* A severity as it stands, or nothing of a control that no catalog at hand
\* describes; and what findings are ranked by.
IsRated(used, id) ==
    \E k \in DOMAIN used : \E j \in DOMAIN used[k].controls : used[k].controls[j].id = id
SeverityOf(used, id) == IF IsRated(used, id) THEN SpecOf(used, id).severity ELSE Nothing
LevelOf(used, id) == IF IsRated(used, id) THEN Level(SpecOf(used, id)) ELSE "unrated"

\* _grouped_by_severity: report.md and report.html rank the findings.
Levels == <<"high", "medium", "low", "unrated">>
BySeverity(as, used) ==
    [level \in ToSet(Levels) |->
        Picked(as, {k \in DOMAIN as : LevelOf(used, as[k].control) = level})]

-----------------------------------------------------------------------------
(*                        The formats other tools read                     *)

SarifLevel == [o \in GapOutcomes |->
    CASE o = "non-conformant" -> "error"
      [] o \in {"partial", "insufficient_evidence"} -> "warning"
      [] o = "not_assessed" -> "note"]

\* render_sarif
Sarif(as) ==
    LET shown == Having(as, "outcome", DOMAIN SarifLevel)
    IN  [k \in DOMAIN shown |-> [rule |-> shown[k].control, subject |-> shown[k].subject,
                                 level |-> SarifLevel[shown[k].outcome]]]

\* render_junit: a test fails unless its pair is conformant.
Junit(as) ==
    [tests |-> Len(as),
     failures |->
        Picked([k \in DOMAIN as |-> [test |-> as[k].control, class |-> as[k].subject,
                                     message |-> as[k].outcome]],
               {k \in DOMAIN as : as[k].outcome # "conformant"})]

\* render_oscal: an observation is known by its control and subject.
Oscal(as) ==
    [observations |-> [k \in DOMAIN as |->
        [id |-> <<as[k].control, as[k].subject>>, evidence |-> as[k].evidence]],
     findings |-> [k \in DOMAIN as |->
        [target |-> as[k].control, subject |-> as[k].subject,
         state |-> IF as[k].outcome = "conformant" THEN "satisfied" ELSE "not-satisfied",
         observation |-> <<as[k].control, as[k].subject>>]]]

\* render_csv
Csv(as) == [k \in DOMAIN as |-> <<as[k].control, as[k].subject, as[k].outcome>>]

\* render_evidence_pack, for one subject.
Pack(as) ==
    [assertions |-> [k \in DOMAIN as |-> [control |-> as[k].control, outcome |-> as[k].outcome,
                                          evidence |-> as[k].evidence]],
     evidence |-> UNION {as[k].evidence : k \in DOMAIN as}]

\* The table of render_public_statement.
StatementTable(as) ==
    [f \in {as[k].family : k \in DOMAIN as} |->
        Aggregate(Having(as, "family", {f}))]

-----------------------------------------------------------------------------
(*                         The remediation packages                        *)

FindingOutcomes == {"non-conformant", "partial", "insufficient_evidence"}

\* _remediation_evidence_gap
EvidenceGap(control, outcome, E) ==
    LET required == control.minimum
        missing == IF outcome = "insufficient_evidence"
                   THEN {q \in required : ~RequirementMet(E, q)} ELSE {}
    IN  [required |-> required, observed |-> required \ missing, missing |-> missing]

\* render_remediation_package, for one subject with its events.
Remediation(as, used, E) ==
    LET findings == Having(as, "outcome", FindingOutcomes)
        unassessed == Having(as, "outcome", {"not_assessed"})
    IN  [findings |-> [k \in DOMAIN findings |->
            LET a == findings[k]
            IN  [control |-> a.control, outcome |-> a.outcome,
                 severity |-> Level(SpecOf(used, a.control)),
                 gap |-> EvidenceGap(SpecOf(used, a.control), a.outcome, E),
                 evidence |-> a.evidence]],
         not_assessed |-> [k \in DOMAIN unassessed |->
            [control |-> unassessed[k].control,
             reason |-> IF SpecOf(used, unassessed[k].control).rung # 2
                        THEN "rung" ELSE "no shape"]]]

\* Each subject's package, from its own assertions and the events E[subject].
PackagesOf(as, used, E) ==
    [s \in Judged(as) |-> Remediation(Having(as, "subject", {s}), used, E[s])]

\* Mutant: the events of the whole bundle are looked through.
PackagesOfBundle(r) ==
    PackagesOf(r.assertions, r.catalogs,
               [s \in Judged(r.assertions) |-> ToSet(r.accepted)])

\* write_report: a subject's package looks through the subject's events.
Packages(r) ==
    PackagesOf(r.assertions, r.catalogs,
               [s \in Judged(r.assertions) |-> {e \in ToSet(r.accepted) : e.subject = s}])

PacksOf(as) == [s \in Judged(as) |-> Pack(Having(as, "subject", {s}))]

\* What write_report leaves of them: of the subjects with one directory, in the
\* order of their names, the last one's.
LastIn(place, subjects) ==
    LET order == SetToSeq(subjects)
    IN  order[Max({k \in DOMAIN order : SafeName(order[k]) = place})]
PacksOnDisk(as) ==
    [place \in {SafeName(s) : s \in Judged(as)} |-> PacksOf(as)[LastIn(place, Judged(as))]]

-----------------------------------------------------------------------------
(*                     The documents a person reads                        *)

\* _finding_md: an assertion under its level's heading.
FindingMd(a) ==
    [control |-> a.control, subject |-> a.subject, outcome |-> a.outcome,
     applicable |-> a.applicable, failed |-> a.failed, evidence |-> a.evidence]

\* _row_html: its severity as it stands in the catalog.
Finding(a, used) ==
    [control |-> a.control, subject |-> a.subject, outcome |-> a.outcome,
     evidence |-> a.evidence, severity |-> SeverityOf(used, a.control)]

Findings(as, used) == [k \in DOMAIN as |-> Finding(as[k], used)]

\* _provenance_md: a report that no run made is reproduced by the quickstart.
Provenance(used, run) ==
    [catalogs |-> [k \in DOMAIN used |-> used[k].label],
     reproduce |-> IF run = Nothing THEN [kind |-> "quickstart"] ELSE run]

\* render_report_md
ReportMd(as, used, run) ==
    [summary |-> Summarize(as),
     groups |-> [level \in ToSet(Levels) |->
                    [k \in DOMAIN BySeverity(as, used)[level] |->
                        FindingMd(BySeverity(as, used)[level][k])]],
     provenance |-> Provenance(used, run)]

\* render_report_html: its rows are in the order of report.md's groups.
ReportHtml(as, used, run) ==
    [summary |-> Summarize(as),
     rows |-> FlattenSeq([k \in DOMAIN Levels |-> Findings(BySeverity(as, used)[Levels[k]], used)]),
     provenance |-> Provenance(used, run)]

\* _pdf_body_lines
Pdf(as) ==
    [verdict |-> Summarize(as).verdict, counts |-> Aggregate(as),
     lines |-> [k \in DOMAIN as |-> <<as[k].control, as[k].subject, as[k].outcome>>]]

\* render_step_summary
StepSummary(as, used, run) == [pairs |-> Len(as), report |-> ReportMd(as, used, run)]

\* render_public_statement: the line about conduct stands wherever a control
\* of conduct was assessed, whatever the outcome.
PublicStatement(as, labels) ==
    [subjects |-> Judged(as), catalogs |-> labels, table |-> StatementTable(as),
     conduct |-> "CND" \in DOMAIN StatementTable(as)]

-----------------------------------------------------------------------------
(*                 The skill, the claim and the manifest                   *)

\* _tool_names_for_subject
ToolNames(E) == {e.data.tool : e \in {x \in E : x.type = "ToolCall" /\ Has(x, "tool")}}

\* The findings/<control>--<n>.md of a subject's skill.
Notes(package, tools) ==
    [k \in DOMAIN package.findings |->
        [name |-> <<SafeName(package.findings[k].control), k>>, finding |-> package.findings[k],
         tools |-> tools]]

\* _catalog_refs: a directory's digest stands for the catalog in it.
CatalogRefs(used) ==
    [k \in DOMAIN used |-> [label |-> used[k].label, digest |-> used[k]]]

\* _build_claim
Claim(as, used, limitations) ==
    [subjects |-> Judged(as), catalogs |-> CatalogRefs(used), limitations |-> limitations]

\* build_manifest
Manifest(used, outputs, run, limitations) ==
    [catalogs |-> CatalogRefs(used), outputs |-> outputs, invocation |-> run,
     limitations |-> limitations]

\* What --emit may name, and what is written without it.
EmitFormats == {"md", "html", "oscal", "sarif", "public", "pack", "junit", "csv",
                "oscal_xml", "pdf", "remediation", "skill"}
LegacyEmit == {"md", "html", "oscal", "sarif", "pack"}

\* To name none of them is not to name them all.
ASSUME EmitAssumption == Nothing # EmitFormats

\* The files of a subject's skill, and its notes among them.
SkillFiles(s, package) ==
    <<<<"skill", s, "remediation-package.json">>, <<"skill", s, "SKILL.md">>>>
    \o [k \in DOMAIN package.findings |->
           <<"skill", s, "findings", Notes(package, {})[k].name>>]
    \o <<<<"skill", s, "REVERIFY.md">>>>

\* write_report: what it writes, in its order, a subject's files under its
\* name; claim.json and manifest.json, which follow, are not among them.
Outputs(as, packages, emit) ==
    LET want == IF emit = Nothing THEN LegacyEmit ELSE emit
        subjects == SetToSeq(Judged(as))
        When(tokens, files) == IF tokens \cap want # {} THEN files ELSE <<>>
        Each(Of(_)) == FlattenSeq([k \in DOMAIN subjects |-> Of(subjects[k])])
    IN  <<<<"assertions.json">>>>
        \o When({"md"}, <<<<"report.md">>>>) \o When({"html"}, <<<<"report.html">>>>)
        \o When({"oscal", "oscal_xml"}, <<<<"oscal-ar.json">>>>)
        \o When({"oscal_xml"}, <<<<"oscal-ar.xml">>>>)
        \o When({"sarif"}, <<<<"results.sarif">>>>)
        \o When({"junit"}, <<<<"report.junit.xml">>>>) \o When({"csv"}, <<<<"report.csv">>>>)
        \o When({"pdf"}, <<<<"report.pdf">>>>)
        \o When({"public"}, <<<<"public-statement.md">>>>)
        \o When({"pack"}, Each(LAMBDA s : <<<<"packs", s, "pack.json">>>>))
        \o When({"remediation"}, Each(LAMBDA s :
               <<<<"remediation", s, "remediation-package.json">>,
                 <<"remediation", s, "remediation.md">>>>))
        \o When({"skill"}, Each(LAMBDA s : SkillFiles(s, packages[s])))

\* Where it goes, and the manifest's outputs: of one path the last write.
PathOf(w) == [i \in DOMAIN w |-> IF i = 2 THEN SafeName(w[i]) ELSE w[i]]
Written(writes) ==
    [path \in {PathOf(writes[k]) : k \in DOMAIN writes} |->
        writes[Max({k \in DOMAIN writes : PathOf(writes[k]) = path})]]

-----------------------------------------------------------------------------
(*                        What a reader may rely on                        *)

\* What the renderings of the assertions as of the report r say of one another.
AreGaps(n, as, package, a) ==
    /\ n = CountOf(Sarif(as), LAMBDA x : x.rule = a.control /\ x.subject = a.subject)
    /\ n = CountOf(package.findings, LAMBDA f : f.control = a.control)
           + CountOf(package.not_assessed, LAMBDA f : f.control = a.control)
AreFailures(n, as, a) ==
    /\ n = CountOf(Junit(as).failures, LAMBDA x : x.test = a.control /\ x.class = a.subject)
    /\ n = CountOf(Oscal(as).findings, LAMBDA f : /\ f.target = a.control
                                                 /\ f.subject = a.subject
                                                 /\ f.state = "not-satisfied")
AgreeOn(a, as, package, pack) ==
    LET OfPair(b) == b.control = a.control /\ b.subject = a.subject
    IN  /\ AreGaps(CountOf(as, LAMBDA b : OfPair(b) /\ b.outcome \in GapOutcomes),
                   as, package, a)
        /\ AreFailures(CountOf(as, LAMBDA b : OfPair(b) /\ b.outcome # "conformant"), as, a)
        /\ \A o \in ToSet(Oscal(as).observations) :
               o.id = <<a.control, a.subject>> => o.evidence \subseteq pack.evidence
VerdictAgrees(summary, sarif) ==
    /\ summary.verdict = "conformant" <=> sarif = <<>>
    /\ summary.verdict = "non-conformant" <=>
           \E k \in DOMAIN sarif : sarif[k].level = "error"
    /\ \A o \in GapOutcomes :
           summary.counts[o] > 0 <=> \E gap \in summary.gaps : gap.outcome = o
TalliesAgree(counts, rows, table) ==
    \A o \in AllOutcomes :
        /\ counts[o] = CountOf(rows, LAMBDA row : row[3] = o)
        /\ counts[o] = SumFunction([f \in DOMAIN table |-> table[f][o]])
GroupsAgree(n, groups) == n = SumFunction([l \in DOMAIN groups |-> Len(groups[l])])
Agree(as, used, packages, packs) ==
    /\ \A a \in ToSet(as) : AgreeOn(a, as, packages[a.subject], packs[a.subject])
    /\ VerdictAgrees(Summarize(as), Sarif(as))
    /\ TalliesAgree(Aggregate(as), Csv(as), StatementTable(as))
    /\ GroupsAgree(Len(as), BySeverity(as, used))

\* No rendering of a report on disk is kinder than another: the gaps of
\* assertions.json are what SARIF reports, what the subjects' remediation
\* packages ask for, and, with the pairs that did not apply, the tests that
\* fail in JUnit and the findings OSCAL does not call satisfied; the one word
\* of the verdict is "conformant" exactly when there is no gap and
\* "non-conformant" exactly when SARIF has an error; every tally counts every
\* assertion; and an observation shows the evidence of its pair (summarize and
\* the renderers each walk the assertions on their own).
RenderingsAgree ==
    \A r \in out.report : Agree(r.assertions, r.catalogs, Packages(r), PacksOf(r.assertions))

\* The catalogs that describe a control ask the same evidence for it.
AsksAlike(used, id) ==
    \A c, d \in ToSet(used) : \A x \in ToSet(c.controls), y \in ToSet(d.controls) :
        x.id = id /\ y.id = id => x.minimum = y.minimum

\* Where a remediation package says evidence is missing, it is.
ExplainsGaps(package, used, E) ==
    LET Supplied(q) == \E e \in E : e.type = q.type
                                   /\ q.class \in {"any", "self_report", e.class}
    IN  \A f \in {x \in ToSet(package.findings) : AsksAlike(used, x.control)} :
            /\ f.outcome = "insufficient_evidence" <=> f.gap.missing # {}
            /\ \A q \in f.gap.missing : ~Supplied(q)
            /\ \A q \in f.gap.observed : Supplied(q)

ListsEach(rows, listed) ==
    \A x \in ToSet(rows) \cup ToSet(listed) :
        CountOf(rows, LAMBDA f : f = x) = CountOf(listed, LAMBDA f : f = x)

\* A package ranks its findings as the report does, where it knows the level.
RanksAlike(package, rows) ==
    \A f \in ToSet(package.findings) : \E row \in ToSet(rows) :
        /\ row.control = f.control /\ row.outcome = f.outcome
        /\ row.evidence = f.evidence /\ Rated(row.severity) = f.severity

NotesAgree(notes, s, E) ==
    \A n \in ToSet(notes) : \A tool \in n.tools : \E e \in E :
        e.subject = s /\ e.type = "ToolCall" /\ Has(e, "tool") /\ e.data.tool = tool

\* No file is written over, but by another subject's of the same directory.
OnlySharedIsLost(writes) ==
    \A j, k \in DOMAIN writes :
        j # k /\ PathOf(writes[j]) = PathOf(writes[k]) =>
            /\ 2 \in DOMAIN writes[j] /\ 2 \in DOMAIN writes[k]
            /\ writes[j][2] # writes[k][2]

FilesAgree(writes, claim, packages) ==
    /\ OnlySharedIsLost(writes)
    /\ \A s \in claim.subjects :
        /\ <<"packs", s, "pack.json">> \in ToSet(writes)
        /\ CountOf(writes, LAMBDA w : w[1] = "skill" /\ w[2] = s)
               = 3 + Len(packages[s].findings)
        /\ (\A t \in claim.subjects : SafeName(t) = SafeName(s) => t = s) =>
               \A w \in ToSet(writes) :
                   2 \in DOMAIN w /\ w[2] = s => Written(writes)[PathOf(w)] = w

Documented(r, as, used, packages, html) ==
    /\ ListsEach(html.rows, Findings(as, used))
    /\ Len(Pdf(as).lines) = Len(html.rows)
    /\ \A s \in DOMAIN packages :
        /\ ExplainsGaps(packages[s], used, {e \in ToSet(r.accepted) : e.subject = s})
        /\ RanksAlike(packages[s], Having(html.rows, "subject", {s}))
        /\ NotesAgree(Notes(packages[s], ToolNames({e \in ToSet(r.accepted) : e.subject = s})),
                      s, ToSet(r.accepted))
    /\ FilesAgree(Outputs(as, packages, EmitFormats), Claim(as, used, r.limitations), packages)

\* The documents of a report on disk bear one another out: report.md and
\* report.html list every assertion once and the PDF as many; a remediation
\* package asks its subject for evidence that no event of that subject
\* supplies and says observed only of evidence that was, unless two catalogs
\* ask different evidence for the control, and ranks each finding as the
\* report does, where the report shows a severity it knows; the notes of a
\* skill name tools that subject called; for each subject the claim names its
\* pack is written and a note for every finding, and they stay, unless the
\* directory is another subject's too: the files of two subjects whose names
\* differ in what _safe makes "_" alone are written over one another
\* (_remediation_evidence_gap looks the requirements up again in the catalog
\* that describes the control, each renderer walks the assertions and looks a
\* control up on its own, and notes are numbered because two catalogs may
\* share a control id).
DocumentsAgree ==
    \A r \in out.report : \A packages \in {Packages(r)} :
        Documented(r, r.assertions, r.catalogs, packages,
                   ReportHtml(r.assertions, r.catalogs, r.run))
=============================================================================
