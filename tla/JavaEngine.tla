----------------------------- MODULE JavaEngine -----------------------------
(***************************************************************************)
(* `agentce assess` of the Java engine (engines/java, org.agentce): like   *)
(* TypeScriptEngine, by the names of the methods.  The two ports were      *)
(* written from each other: the Java graph, too, lays no glue about        *)
(* conduct, and there are no catalog signatures and no --fail-on.  What    *)
(* the classes do in one place is written out here, the methods that read  *)
(* as the other port's functions do are those.                             *)
(***************************************************************************)
EXTENDS Renderings

TS == INSTANCE TypeScriptEngine

-----------------------------------------------------------------------------
(*                     Bundle, Ingest and the catalogs                     *)

load(d) == TS!loadBundle(d)
streamOf(e) == TS!streamOf(e)

\* Json.parse throws whatever the depth: one more bad line.
ingest(lines, items) == TS!ingest(lines, items)

\* Cli.cmdValidate
cmdValidate(d) ==
    CASE load(d) # "none" -> 3
      [] load(d) = "none" /\ ingest(Lines(d), d.manifest.sources).quarantined = <<>> -> 0
      [] OTHER -> 1

vendoredCatalogs == TS!vendoredCatalogs

\* Cli.resolveCatalogs, and why it throws.
resolveCatalogs(ask, declared) == TS!resolveCatalogs(ask, declared)
resolveTrouble(ask, declared) == TS!resolveTrouble(ask, declared)
shapeFor(catalog, control) == TS!shapeFor(catalog, control)

-----------------------------------------------------------------------------
(*                            Graph and GraphStore                         *)

baseSubclass == TS!BASE_SUBCLASS
genericRefs == TS!GENERIC_REFS
closure(subclass, classes) == TS!closure(subclass, classes)
objects(g, s, p) == Objects(g, s, p)
instancesOf(g, c) == InstancesOf(g, c)
isA(g, node, c) == IsA(g, node, c)

mapDelegationPrincipals(e) == TS!mapDelegationPrincipals(e)
mapChain(e) == TS!mapChain(e)
mapDecisionLinks(e) == TS!mapDecisionLinks(e)
mapEvent(b, e) == TS!mapEvent(b, e)

dangling(b, e) == TS!dangling(b, e)
chainVerified(e) == TS!chainVerified(e)
executesConsequential(b, e, domain) == TS!executesConsequential(b, e, domain)
oversightMatches(e, domain) == TS!oversightMatches(e, domain)
chainTerminus(e) == TS!chainTerminus(e)
precededBy(b) == TS!precededBy(b)
materialise(b, events, domain) == TS!materialise(b, events, domain)

\* Builder.build: the ids, then every event, then the glue.
build(events, domain) ==
    LET ids == {Node(events[k]) : k \in DOMAIN events}
    IN  TS!built(FoldLeft(mapEvent, [EmptyBuilder EXCEPT !.ids = ids], events),
                 events, domain)

-----------------------------------------------------------------------------
(*                        Coverage and Applicability                       *)

denominatorCounts(d, events) == TS!denominatorCounts(d, events)
rollup(subject, statuses) == TS!rollup(subject, statuses)
computeCoverage(subjects, events) == TS!computeCoverage(subjects, events)
effectiveRoles(role) == TS!effectiveRoles(role)
observedDecisionTypes(E) == TS!observedDecisionTypes(E)
observedComponents(E) == TS!observedComponents(E)
resolveSubject(subjects, k, events) == TS!resolveSubject(subjects, k, events)
resolve(subjects, events) == TS!resolve(subjects, events)

-----------------------------------------------------------------------------
(*                    Structural, Assess and Assertions                    *)

resolvePath(g, focus, path) == TS!resolvePath(g, focus, path)
checkProperty(g, focus, prop, shapes) == TS!checkProperty(g, focus, prop, shapes)
targetNodes(g, shape) == TS!targetNodes(g, shape)
withinTolerance(applicable, failed, tolerance) ==
    TS!withinTolerance(applicable, failed, tolerance)
evaluateShape(g, shape, shapes) == TS!evaluateShape(g, shape, shapes)
roleApplies(roles, targets) == TS!roleApplies(roles, targets)
classOk(observed, required) == required \in {"any", "self_report", observed}
hasMinimumEvidence(E, minimum) ==
    \A req \in minimum :
        \E e \in E : e.type = req.type /\ classOk(e.class, req.class)
evidence(E, focus) == TS!evidence(E, focus)

\* The outcome Assess.assertControl reaches on the shape's findings, ...
outcomeOn(E, control, found) ==
    IF found.applicable = <<>> THEN "not_applicable"
    ELSE IF ~hasMinimumEvidence(E, control.minimum) THEN "insufficient_evidence"
    ELSE IF withinTolerance(Len(found.applicable), Len(found.failing), control.tolerance)
    THEN "conformant" ELSE "non-conformant"

\* ... and the assertion it makes of it.
assertOutcome(E, catalog, control, subject, found, outcome) ==
    Assertion(catalog, control, subject, outcome,
        IF outcome = "insufficient_evidence" THEN [found EXCEPT !.failing = <<>>] ELSE found,
        IF outcome \notin Supporting THEN {}
        ELSE evidence(E, IF found.failing # <<>> THEN found.failing ELSE found.applicable))

assertControl(g, E, catalog, control, subject) ==
    LET named == [of \in {s.of : s \in ToSet(catalog.shapes)} |->
                     SelectSeq(catalog.shapes, LAMBDA s : s.of = of)[1].shape]
        Settled(found) == assertOutcome(E, catalog, control, subject, found,
                                        outcomeOn(E, control, found))
    IN  IF ~roleApplies(effectiveRoles(subject.role), control.roles)
        THEN Assertion(catalog, control, subject, "not_applicable", Nobody, {})
        ELSE IF control.rung # 2 \/ shapeFor(catalog, control) = NoShape
        THEN Assertion(catalog, control, subject, "not_assessed", Nobody, {})
        ELSE Settled(evaluateShape(g, shapeFor(catalog, control), named))

\* By subject, then by catalog, then by control.
rowsOf(g, own, used, s) ==
    FlattenSeq([j \in DOMAIN used |->
        [i \in DOMAIN used[j].controls |->
            assertControl(g, ToSet(own), used[j], used[j].controls[i], s)]])
rowsOn(own, used, domain, s) == rowsOf(build(own, domain), own, used, s)

assessSubjects(subjects, events, used, domain) ==
    FlattenSeq([k \in DOMAIN subjects |->
        rowsOn(SelectSeq(events, LAMBDA e : e.subject = subjects[k].id), used, domain,
               subjects[k])])

evaluatedNothing(as) == TS!evaluatedNothing(as)
checkDc5(as) == TS!checkDc5(as)

-----------------------------------------------------------------------------
(*                          Report and Cli.runAssess                       *)

aggregate(as) == TS!aggregate(as)
summarize(as) == TS!summarize(as)
renderSarif(as) == TS!renderSarif(as)
renderOscal(as) == TS!renderOscal(as)
renderEvidencePack(as) == TS!renderEvidencePack(as)

\* renderReportMd: the verdict with its gaps and every assertion, unranked.
renderReportMd(as) ==
    LET of == summarize(as)
    IN  [verdict |-> of.verdict, gaps |-> of.gaps, counts |-> of.counts,
         rows |-> [k \in DOMAIN as |->
            [control |-> as[k].control, subject |-> as[k].subject, outcome |-> as[k].outcome,
             applicable |-> as[k].applicable, failed |-> as[k].failed]]]

\* renderReportHtml, its first section by verdictHtml.
verdictHtml(summary) == [verdict |-> summary.verdict, gaps |-> summary.gaps]
renderReportHtml(as) ==
    [verdict |-> verdictHtml(summarize(as)), counts |-> aggregate(as),
     rows |-> [k \in DOMAIN as |-> <<as[k].control, as[k].subject, as[k].outcome>>]]

\* buildManifest: the catalogs' labels are split again, their digests zero.
buildManifest(labels, outputs) ==
    [catalogs |-> [k \in DOMAIN labels |-> [label |-> labels[k], digest |-> Nothing]],
     outputs |-> outputs]

writeReport(as, used) ==
    LET subjects == SetToSeq(Judged(as))
        places == {SafeName(subjects[k]) : k \in DOMAIN subjects}
        last(place) == subjects[Max({k \in DOMAIN subjects : SafeName(subjects[k]) = place})]
        packs == [place \in places |->
                     renderEvidencePack(SelectSeq(as, LAMBDA a : a.subject = last(place)))]
        outputs == {<<"assertions.json">>, <<"report.md">>, <<"report.html">>,
                    <<"oscal-ar.json">>, <<"results.sarif">>}
                   \cup {<<"packs", place, "pack.json">> : place \in places}
    IN  [assertions |-> as, summary |-> summarize(as),
         md |-> renderReportMd(as), html |-> renderReportHtml(as),
         sarif |-> renderSarif(as), oscal |-> renderOscal(as), packs |-> packs,
         manifest |-> buildManifest([k \in DOMAIN used |-> used[k].label], outputs)]

\* The end of runAssess, from the ingested events and the assertions on:
\* Report.writeReport throws, before it writes, on a verdict without evidence.
concluded(c, read, used, as) ==
    LET code == IF evaluatedNothing(as) THEN 3
                ELSE IF "non-conformant" \in Outcomes(as) THEN 1 ELSE 0
    IN  [exit |-> IF checkDc5(as) THEN code ELSE 3,
         written |-> {[quarantine |-> read.quarantined,
                       graph |-> build(read.accepted, c.domain),
                       coverage |-> computeCoverage(c.subjects, read.accepted),
                       applicability |-> resolve(c.subjects, read.accepted),
                       reports |-> IF checkDc5(as) THEN {writeReport(as, used)} ELSE {}]}]

assessed(c, read, used) ==
    concluded(c, read, used, assessSubjects(c.subjects, read.accepted, used, c.domain))

runAssess(d, c) ==
    IF resolveTrouble(c.ask, c.declared) # "none" \/ load(d) # "none"
    THEN [exit |-> 3, written |-> {}]
    ELSE assessed(c, ingest(Lines(d), d.manifest.sources), resolveCatalogs(c.ask, c.declared))

-----------------------------------------------------------------------------
(*                        The other commands of Cli                        *)

\* nothingEvaluated, with the subjects both declared and seen.
nothingEvaluated(subjects, events) ==
    LET seen == {events[k].subject : k \in DOMAIN events}
        matched == SelectSeq(subjects, LAMBDA s : s.id \in seen)
    IN  IF events = <<>> THEN "no_events"
        ELSE IF matched = <<>> THEN "unmatched"
        ELSE "no_population"

cmdQuickstart(d, c, bundled) ==
    LET ask == [c.ask EXCEPT !.requested = <<bundled.catalog.label>>, !.dirs = <<bundled>>]
    IN  runAssess(d, [c EXCEPT !.ask = ask])

\* cmdReport: a format that is not one of these is refused; the last is the
\* default of its switch.
REPORT_FORMATS == {"md", "html", "oscal", "sarif", "pack"}
cmdReport(as, format) ==
    CASE format \notin REPORT_FORMATS -> Nothing
      [] format = "md" -> renderReportMd(as)
      [] format = "html" -> renderReportHtml(as)
      [] format = "oscal" -> renderOscal(as)
      [] format = "sarif" -> renderSarif(as)
      [] OTHER ->
            [s \in Judged(as) |-> renderEvidencePack(SelectSeq(as, LAMBDA a : a.subject = s))]

-----------------------------------------------------------------------------
(*                             Conformance                                 *)

\* Conformance.assessProject and runEcs: the projects whose assessment throws
\* nothing are counted.
assessProject(project, base) ==
    CASE load(project.dir) # "none" -> NoFile
      [] OTHER ->
            LET events == ingest(Lines(project.dir), project.dir.manifest.sources).accepted
                as == assessSubjects(project.subjects, events, base, project.domain)
            IN  IF checkDc5(as) THEN writeReport(as, base) ELSE NoFile

runEcs(corpus, base, noMl) ==
    LET ids == {project.id : project \in corpus}
        files == [id \in ids |-> assessProject(CHOOSE p \in corpus : p.id = id, base)]
        thrown == {id \in ids : files[id] = NoFile}
    IN  [files |-> files,
         claim |-> IF ~noMl \/ ids = {} \/ thrown = ids THEN "none"
                   ELSE IF thrown = {} THEN "full" ELSE "partial"]

cmdConformance(report) == IF report.claim = "full" THEN 0 ELSE 1
=============================================================================
