-------------------------- MODULE TypeScriptEngine --------------------------
(***************************************************************************)
(* `agentce assess` of the TypeScript engine (engines/typescript/src): what *)
(* a run makes of a bundle directory and a command, from the catalogs it   *)
(* resolves to its exit code.  Definitions have the names of the functions *)
(* they translate.  Where a function reads statement by statement as the   *)
(* reference's, its definition is the reference's operator; the others are *)
(* written out.  The port has no catalog signatures and no --fail-on, and  *)
(* lays no glue about conduct.                                             *)
(***************************************************************************)
EXTENDS Renderings

-----------------------------------------------------------------------------
(*                         Reading the bundle                              *)

loadBundle(d) == LoadTrouble(d)

streamOf(e) == StreamOf(e)

\* ingest: JSON of any depth that does not parse is one more bad line.
ingest(lines, items) ==
    Ingested([k \in DOMAIN lines |->
                 IF lines[k].form = "too_deep"
                 THEN [lines[k] EXCEPT !.form = "schema_invalid"] ELSE lines[k]], items)

\* cmdValidate: its exit code.
cmdValidate(d) ==
    IF loadBundle(d) # "none" THEN 3
    ELSE IF ingest(Lines(d), d.manifest.sources).quarantined # <<>> THEN 1 ELSE 0

-----------------------------------------------------------------------------
(*                              Catalogs                                   *)

vendoredCatalogs == Vendored

\* The ids asked for: --catalog, else none beside directories, else the
\* profile's.
requestedIds(ask, declared) ==
    CASE ask.requested # <<>> -> ask.requested
      [] ask.requested = <<>> /\ ask.dirs # <<>> -> <<>>
      [] OTHER -> declared

resolveTrouble(ask, declared) ==
    LET ids == ToSet(requestedIds(ask, declared))
        known == Labels(ask.dirs) \cup {c.label : c \in vendoredCatalogs}
    IN  IF ids = {} /\ ask.dirs = <<>> THEN "catalog_missing"
        ELSE IF ids \ known # {} THEN "catalog_unresolved"
        ELSE "none"

\* [...new Set(list)]: the first of each.
unique(list) ==
    FoldLeft(LAMBDA kept, l : IF l \in ToSet(kept) THEN kept ELSE Append(kept, l),
             <<>>, list)

\* resolveCatalogs: those asked for and then the directories', each once;
\* byLabel.set overwrites, so a later directory of a label stands.
resolveCatalogs(ask, declared) ==
    LET labels == unique(requestedIds(ask, declared)
                         \o [k \in DOMAIN ask.dirs |-> ask.dirs[k].catalog.label])
    IN  [k \in DOMAIN labels |-> CatalogFor(ask.dirs, vendoredCatalogs, labels[k])]

shapeFor(catalog, control) == ShapeFor(catalog, control)

-----------------------------------------------------------------------------
(*                               The graph                                 *)

BASE_SUBCLASS == BaseSubclass
GENERIC_REFS == GenericRefs
closure(subclass, classes) == Closure(subclass, classes)

mapDelegationPrincipals(e) ==
    IF e.type = "DelegationIssued" /\ Has(e, "chain") THEN ChainTriples(e.data.chain) ELSE {}
mapChain(e) == AgentTriples(e)
mapDecisionLinks(e) == LinkTriples(e)

mapEvent(b, e) ==
    LET typed == e.type = "Decision" /\ Has(e, "decision_type")
        written == {<<Node(e), "type", Class(e.type)>>,
                    <<Node(e), "sourceClass", Class(e.class)>>,
                    <<Node(e), "atTime", Time(e.time)>>}
                   \cup mapChain(e) \cup UsedTriples(e) \cup RefTriples(e)
                   \cup mapDecisionLinks(e) \cup mapDelegationPrincipals(e)
                   \cup {<<Node(e), "type", Class(t)>> :
                            t \in IF typed THEN {e.data.decision_type} ELSE {}}
        decisions == IF typed THEN {[node |-> Node(e), dtype |-> e.data.decision_type,
                                     time |-> e.time]} ELSE {}
        reviews == IF e.type = "ApprovalDecided" /\ "decision" \in DOMAIN Refs(e)
                   THEN {Refs(e).decision} ELSE {}
    IN  [b EXCEPT !.triples = @ \cup written, !.typed = @ \cup decisions,
                  !.reviewed = @ \cup reviews]

dangling(b, e) == DanglingOf(b, e)
chainVerified(e) == ChainVerified(e)
executesConsequential(b, e, domain) == ExecutesConsequential(b, e, domain)
oversightMatches(e, domain) == OversightMatches(e, domain)
chainTerminus(e) ==
    IF Has(e, "acted_for") /\ e.data.acted_for # <<>>
    THEN {<<Node(e), "chainTerminus", PrincipalIri(Last(e.data.acted_for).id)>>} ELSE {}

\* Mutant: the decision just before, reviewed or not.
precededByAny(b) ==
    UNION {Nearest([b EXCEPT !.reviewed = {f.node : f \in b.typed}], d) : d \in b.typed}

precededBy(b) == UNION {Nearest(b, d) : d \in b.typed}

\* What the second pass writes of one event.
glue(b, e, domain) ==
    LET Fact(type, p, holds) == IF e.type = type THEN {<<Node(e), p, Flag(holds)>>} ELSE {}
    IN  dangling(b, e) \cup chainTerminus(e)
        \cup Fact("DelegationIssued", "chainVerified", chainVerified(e))
        \cup Fact("ToolCall", "executesConsequential", executesConsequential(b, e, domain))
        \cup Fact("Decision", "oversightMatches", oversightMatches(e, domain))

materialise(b, events, domain) ==
    b.triples \cup (UNION {glue(b, events[k], domain) : k \in DOMAIN events}) \cup precededBy(b)

\* The graph of the builder b that every event was mapped to.
built(b, events, domain) ==
    [triples |-> materialise(b, events, domain),
     closure |-> closure(domain.subclasses @@ BASE_SUBCLASS,
                         DOMAIN BASE_SUBCLASS
                         \cup {"prov:Agent", "prov:Activity", "prov:Entity"}
                         \cup {events[k].type : k \in DOMAIN events}
                         \cup {d.dtype : d \in b.typed})]

build(events, domain) ==
    LET empty == [EmptyBuilder EXCEPT !.ids = {Node(events[k]) : k \in DOMAIN events}]
    IN  built(FoldLeft(mapEvent, empty, events), events, domain)

-----------------------------------------------------------------------------
(*                        Coverage and applicability                       *)

denominatorCounts(d, events) == Counts(d, events)
rollup(subject, statuses) == Rollup(subject, statuses)
computeCoverage(subjects, events) ==
    [k \in DOMAIN subjects |-> CoverageOf(subjects[k], events)]

effectiveRoles(role) == EffectiveRoles(role)
observedDecisionTypes(E) == ObservedDecisionTypes(E)
observedComponents(E) == ObservedComponents(E)
resolveSubject(subjects, k, events) == Statement(subjects, k, events)
resolve(subjects, events) ==
    [k \in DOMAIN subjects |-> resolveSubject(subjects, k, events)]

-----------------------------------------------------------------------------
(*                               Judging                                   *)

resolvePath(g, focus, path) == ResolvePath(g, focus, path)
checkProperty(g, focus, prop, shapes) ==
    Failed(g, focus, prop) \cup FailedNested(g, focus, prop, shapes)
targetNodes(g, shape) == TargetNodes(g, shape)
withinTolerance(applicable, failed, tolerance) ==
    WithinTolerance(applicable, failed, tolerance)

\* The nodes of a population that fail a property of the shape.
failingOf(g, applicable, shape, shapes) ==
    LET Fails(n) == \E k \in DOMAIN shape.props :
                        checkProperty(g, n, shape.props[k], shapes) # {}
    IN  [applicable |-> applicable, failing |-> SelectSeq(applicable, Fails)]

evaluateShape(g, shape, shapes) == failingOf(g, targetNodes(g, shape), shape, shapes)

roleApplies(roles, targets) == RoleApplies(roles, targets)
hasMinimumEvidence(E, minimum) == HasMinimumEvidence(E, minimum)
evidence(E, focus) == Evidence(E, focus)

\* What assertControl says of a shape's findings.
assertFindings(E, catalog, control, subject, found) ==
    LET Made(outcome, of, cited) == Assertion(catalog, control, subject, outcome, of, cited)
    IN  CASE found.applicable = <<>> -> Made("not_applicable", Nobody, {})
          [] found.applicable # <<>> /\ ~hasMinimumEvidence(E, control.minimum) ->
                Made("insufficient_evidence", [found EXCEPT !.failing = <<>>], {})
          [] OTHER ->
                Made(IF withinTolerance(Len(found.applicable), Len(found.failing),
                                        control.tolerance)
                     THEN "conformant" ELSE "non-conformant",
                     found,
                     evidence(E, IF found.failing = <<>> THEN found.applicable
                                                         ELSE found.failing))

assertControl(g, E, catalog, control, subject) ==
    LET named == [of \in {s.of : s \in ToSet(catalog.shapes)} |->
                     SelectSeq(catalog.shapes, LAMBDA s : s.of = of)[1].shape]
        Bare(outcome) == Assertion(catalog, control, subject, outcome, Nobody, {})
    IN  IF ~roleApplies(effectiveRoles(subject.role), control.roles) THEN Bare("not_applicable")
        ELSE IF control.rung # 2 \/ shapeFor(catalog, control) = NoShape
        THEN Bare("not_assessed")
        ELSE assertFindings(E, catalog, control, subject,
                            evaluateShape(g, shapeFor(catalog, control), named))

\* One subject's assertions: by catalog, then by control.
assessOn(g, own, used, s) ==
    FlattenSeq([j \in DOMAIN used |->
        [i \in DOMAIN used[j].controls |->
            assertControl(g, ToSet(own), used[j], used[j].controls[i], s)]])

assessOwn(own, used, domain, s) == assessOn(build(own, domain), own, used, s)

assessSubjects(subjects, events, used, domain) ==
    FlattenSeq([k \in DOMAIN subjects |->
        assessOwn(SelectSeq(events, LAMBDA e : e.subject = subjects[k].id), used, domain,
                  subjects[k])])

evaluatedNothing(as) == Verdicts \cap Outcomes(as) = {}
checkDc5(as) == Backed(as)

-----------------------------------------------------------------------------
(*                     The report's files, and the run                     *)

aggregate(as) == Aggregate(as)
summarize(as) == Summarize(as)
renderSarif(as) == Sarif(as)
renderOscal(as) == Oscal(as)
renderEvidencePack(as) == Pack(as)

\* renderReportMd: every assertion, unranked and without a verdict.
renderReportMd(as) ==
    [counts |-> aggregate(as),
     rows |-> [k \in DOMAIN as |->
        [control |-> as[k].control, subject |-> as[k].subject, outcome |-> as[k].outcome,
         applicable |-> as[k].applicable, failed |-> as[k].failed]]]

\* renderReportHtml
renderReportHtml(as) ==
    [counts |-> aggregate(as),
     rows |-> [k \in DOMAIN as |-> <<as[k].control, as[k].subject, as[k].outcome>>]]

\* buildManifest: a catalog is named, and its digest is all zeroes.
buildManifest(labels, outputs) ==
    [catalogs |-> [k \in DOMAIN labels |-> [label |-> labels[k], digest |-> Nothing]],
     outputs |-> outputs]

\* What writeReport writes, and after it manifest.json.
outputsOf(as) ==
    {<<"assertions.json">>, <<"report.md">>, <<"report.html">>, <<"oscal-ar.json">>,
     <<"results.sarif">>}
    \cup {<<"packs", SafeName(s), "pack.json">> : s \in Judged(as)}

\* The subjects' packs, of which the last with a directory stays.
packsOf(as) ==
    [place \in {SafeName(s) : s \in Judged(as)} |->
        renderEvidencePack(SelectSeq(as, LAMBDA a : a.subject = LastIn(place, Judged(as))))]

writeReport(as, used) ==
    [assertions |-> as, summary |-> summarize(as),
     md |-> renderReportMd(as), html |-> renderReportHtml(as),
     sarif |-> renderSarif(as), oscal |-> renderOscal(as),
     packs |-> packsOf(as),
     manifest |-> buildManifest([k \in DOMAIN used |-> used[k].label], outputsOf(as))]

refusedRun == [exit |-> 3, written |-> {}]

\* The files of the stages before the report, and those of the reports.
writeRun(c, read, reports) ==
    {[quarantine |-> read.quarantined,
      graph |-> build(read.accepted, c.domain),
      coverage |-> computeCoverage(c.subjects, read.accepted),
      applicability |-> resolve(c.subjects, read.accepted),
      reports |-> reports]}

\* The end of runAssess, from the ingested events and the assertions on:
\* writeReport begins by refusing a verdict without evidence.
checkRun(c, read, used, as) ==
    IF ~checkDc5(as) THEN [exit |-> 3, written |-> writeRun(c, read, {})]
    ELSE [exit |-> IF evaluatedNothing(as) THEN 3
                   ELSE IF "non-conformant" \in Outcomes(as) THEN 1 ELSE 0,
          written |-> writeRun(c, read, {writeReport(as, used)})]
assessRun(c, read, used) ==
    checkRun(c, read, used, assessSubjects(c.subjects, read.accepted, used, c.domain))

\* runAssess: nothing is written where the catalogs or the bundle refuse the
\* run.  A verdict without evidence refuses it when only the report is missing,
\* and a run that evaluated nothing is refused after its report is written.
runAssess(d, c) ==
    IF resolveTrouble(c.ask, c.declared) # "none" \/ loadBundle(d) # "none" THEN refusedRun
    ELSE assessRun(c, ingest(Lines(d), d.manifest.sources), resolveCatalogs(c.ask, c.declared))

-----------------------------------------------------------------------------
(*                          The other commands                             *)

\* Why nothing was evaluated (nothingEvaluated).
nothingEvaluated(subjects, events) ==
    LET declared == {subjects[k].id : k \in DOMAIN subjects}
        seen == {events[k].subject : k \in DOMAIN events}
    IN  CASE events = <<>> -> "no_events"
          [] events # <<>> /\ declared \cap seen = {} -> "unmatched"
          [] OTHER -> "no_population"

\* cmdQuickstart: the bundled directory is passed, and by its label asked for.
cmdQuickstart(d, c, bundled) ==
    runAssess(d, [c EXCEPT !.ask.requested = <<bundled.catalog.label>>, !.ask.dirs = <<bundled>>])

\* cmdReport, of the assertions of a file, without catalogs.
REPORT_FORMATS == {"md", "html", "oscal", "sarif", "pack"}
cmdReport(as, format) ==
    CASE format = "md" -> renderReportMd(as)
      [] format = "html" -> renderReportHtml(as)
      [] format = "oscal" -> renderOscal(as)
      [] format = "sarif" -> renderSarif(as)
      [] format = "pack" ->
            [s \in Judged(as) |-> renderEvidencePack(SelectSeq(as, LAMBDA a : a.subject = s))]
      [] OTHER -> Nothing

-----------------------------------------------------------------------------
(*                      The Engine Conformance Suite                       *)

\* assessProject: NoFile stands for what it throws.
projectReport(as, base) == IF checkDc5(as) THEN writeReport(as, base) ELSE NoFile
assessProject(project, base) ==
    IF loadBundle(project.dir) # "none" THEN NoFile
    ELSE projectReport(
             assessSubjects(project.subjects,
                            ingest(Lines(project.dir), project.dir.manifest.sources).accepted,
                            base, project.domain), base)

\* runEcs, of a corpus and the base catalogs in their order.
runEcs(corpus, base, noMl) ==
    LET files == [id \in {project.id : project \in corpus} |->
                     assessProject(CHOOSE project \in corpus : project.id = id, base)]
        identical == {id \in DOMAIN files : files[id] # NoFile}
    IN  [files |-> files,
         claim |-> CASE ~noMl -> "none"
                     [] noMl /\ identical = DOMAIN files /\ identical # {} -> "full"
                     [] noMl /\ identical # {} /\ identical # DOMAIN files -> "partial"
                     [] OTHER -> "none"]

cmdConformance(report) == IF report.claim # "full" THEN 1 ELSE 0
=============================================================================
