------------------------------- MODULE Assess -------------------------------
(***************************************************************************)
(* `agentce assess`: cmd_assess (agentce/commands/__init__.py) resolves    *)
(* the catalogs, loads and ingests the bundle, builds the graph, compares  *)
(* coverage, states applicability, judges each subject (agentce/assess.py),*)
(* writes the report unless a verdict lacks evidence, and exits.           *)
(*                                                                         *)
(* A run is [kind, ask, declared, subjects, domain, gate]: what catalogs   *)
(* it asks for and the profile declares, the profile's subjects, the       *)
(* domain binding and the outcomes --fail-on names.  A control is [id,     *)
(* family, severity, roles, rung, minimum, shape, tolerance], minimum      *)
(* being a set of [type, class]. How the report's files are put on disk is *)
(* ReportDir's; the incremental state is StateSeries'.                     *)
(***************************************************************************)
EXTENDS BundleDir, Shapes, Coverage, Applicability, Catalogs

CONSTANTS
    Vendored,       \* the catalogs shipped with the engine
    EvidenceCap,    \* _EVIDENCE_CAP
    NoGate,         \* no --fail-on
    BadGate,        \* one that does not parse
    Nothing         \* a file of the output directory that is not there

ASSUME AssessAssumption ==
    /\ EvidenceCap \in Nat \ {0}
    /\ \A c \in Vendored : IsSequence(c.controls)

VARIABLES
    catalogs,       \* what the run judges by, in their order
    accepted,       \* the events it accepted
    turn,           \* the next subject to judge
    assertions,     \* what it found so far, in the order it was found
    out             \* the output directory: [quarantine, graph, coverage,
                    \* applicability, report], the last a set: {} until the
                    \* first report is written, then the latest alone

assessVars == <<catalogs, accepted, turn, assertions, out>>

Running(kind, p) == phase = p /\ cmd.kind = kind

-----------------------------------------------------------------------------
(*                           Judging one control                           *)

\* requirement_met: a requirement of self_report is one of any class.
RequirementMet(E, req) ==
    \E e \in E : /\ e.type = req.type
                 /\ req.class \in {"any", "self_report", e.class}
HasMinimumEvidence(E, minimum) == \A req \in minimum : RequirementMet(E, req)

FirstOf(focus) == SubSeq(focus, 1, Min({Len(focus), EvidenceCap}))

\* Mutant: whatever the nodes are, they are cited.
EvidenceUnchecked(E, focus) == ToSet(FirstOf(focus))

\* _evidence: of the first EvidenceCap nodes the ones that are events of E.
Evidence(E, focus) == {n \in ToSet(FirstOf(focus)) : \E e \in E : Node(e) = n}

\* The catalog an assertion comes from is told by its place among the others.
Assertion(catalog, control, subject, outcome, found, evidence) ==
    [catalog |-> catalog.label, control |-> control.id,
     family |-> control.family, subject |-> subject.id,
     outcome |-> outcome, applicable |-> Len(found.applicable),
     failed |-> Len(found.failing), evidence |-> evidence]

Nobody == [applicable |-> <<>>, failing |-> <<>>]

\* A catalog's shapes by the IRIs nested ones are referred to by.
ShapeTable(catalog) ==
    [x \in {catalog.shapes[k].of : k \in DOMAIN catalog.shapes} |->
        SelectSeq(catalog.shapes, LAMBDA y : y.of = x)[1].shape]

\* A control of the second rung whose shape was evaluated.
AssertFound(E, catalog, control, subject, found) ==
    IF found.applicable = <<>>
    THEN Assertion(catalog, control, subject, "not_applicable", Nobody, {})
    ELSE IF ~HasMinimumEvidence(E, control.minimum)
    THEN Assertion(catalog, control, subject, "insufficient_evidence",
                   [found EXCEPT !.failing = <<>>], {})
    ELSE Assertion(catalog, control, subject,
            IF WithinTolerance(Len(found.applicable), Len(found.failing), control.tolerance)
            THEN "conformant" ELSE "non-conformant",
            found,
            Evidence(E, IF found.failing # <<>> THEN found.failing ELSE found.applicable))

\* _assert_control
AssertControl(g, E, catalog, control, subject) ==
    LET Unjudged(outcome) == Assertion(catalog, control, subject, outcome, Nobody, {})
    IN  IF ~RoleApplies(EffectiveRoles(subject.role), control.roles)
        THEN Unjudged("not_applicable")
        ELSE IF control.rung # 2 \/ ShapeFor(catalog, control) = NoShape
        THEN Unjudged("not_assessed")
        ELSE AssertFound(E, catalog, control, subject,
                 EvaluateShape(g, ShapeFor(catalog, control), ShapeTable(catalog)))

\* A subject's events, in their order.
EventsOf(events, id) == SelectSeq(events, LAMBDA e : e.subject = id)

\* One subject's turn in assess_subjects, by catalog and then by control: its
\* graph holds its own events.
Judge(subject, events, used, domain) ==
    LET E == {e \in ToSet(events) : e.subject = subject.id}
        OnGraph(g) ==
            FlattenSeq([j \in DOMAIN used |->
                [k \in DOMAIN used[j].controls |->
                    AssertControl(g, E, used[j], used[j].controls[k], subject)]])
    IN  OnGraph(BuildGraph(EventsOf(events, subject.id), domain))

-----------------------------------------------------------------------------
(*                            The run, step by step                        *)

Verdicts == {"conformant", "non-conformant", "insufficient_evidence"}
Supporting == {"conformant", "non-conformant", "partial"}
Outcomes(as) == {as[k].outcome : k \in DOMAIN as}

BeginAssess(run) ==
    /\ phase = "idle"
    /\ cmd' = run
    /\ phase' = "assess"
    /\ exit' = NoExit
    /\ catalogs' = <<>>
    /\ accepted' = <<>>
    /\ turn' = 1
    /\ assertions' = <<>>
    /\ UNCHANGED <<dir, out>>

\* A --fail-on that does not parse is refused before anything is written.
RefuseGate ==
    /\ Running("assess", "assess")
    /\ cmd.gate = BadGate
    /\ End(3)
    /\ UNCHANGED <<dir, cmd, assessVars>>

ResolveCatalogs ==
    /\ Running("assess", "assess")
    /\ cmd.gate # BadGate
    /\ ResolveTrouble(cmd.ask, cmd.declared, Vendored) = "none"
    /\ catalogs' = Resolve(cmd.ask, cmd.declared, Vendored)
    /\ phase' = "resolved"
    /\ UNCHANGED <<dir, cmd, exit, accepted, turn, assertions, out>>

RefuseCatalogs ==
    /\ Running("assess", "assess")
    /\ cmd.gate # BadGate
    /\ ResolveTrouble(cmd.ask, cmd.declared, Vendored) # "none"
    /\ End(3)
    /\ UNCHANGED <<dir, cmd, assessVars>>

RefuseBundle ==
    /\ Running("assess", "resolved")
    /\ LoadTrouble(dir) # "none"
    /\ End(3)
    /\ UNCHANGED <<dir, cmd, assessVars>>

IngestBundle ==
    /\ Running("assess", "resolved")
    /\ LoadTrouble(dir) = "none"
    /\ LET read == Ingested(Lines(dir), dir.manifest.sources)
       IN  /\ accepted' = read.accepted
           /\ out' = [out EXCEPT !.quarantine = read.quarantined]
    /\ phase' = "ingested"
    /\ UNCHANGED <<dir, cmd, exit, catalogs, turn, assertions>>

\* Stages 3 to 5, each with its file.
Describe ==
    /\ Running("assess", "ingested")
    /\ out' = [out EXCEPT
                 !.graph = BuildGraph(accepted, cmd.domain),
                 !.coverage = [k \in DOMAIN cmd.subjects |->
                                  CoverageOf(cmd.subjects[k], accepted)],
                 !.applicability = Statements(cmd.subjects, accepted)]
    /\ phase' = "judging"
    /\ UNCHANGED <<dir, cmd, exit, catalogs, accepted, turn, assertions>>

JudgeSubject ==
    /\ Running("assess", "judging")
    /\ turn <= Len(cmd.subjects)
    /\ assertions' = assertions \o Judge(cmd.subjects[turn], accepted, catalogs, cmd.domain)
    /\ turn' = turn + 1
    /\ UNCHANGED <<dir, cmd, exit, phase, catalogs, accepted, out>>

\* check_dc5: every supporting verdict cites evidence.
Backed(as) == \A a \in ToSet(as) : a.outcome \in Supporting => a.evidence # {}

Limitations(ask) ==
    {ask.dirs[k].catalog.label : k \in Waived(ask.dirs, ask.trust)}

WriteReport ==
    /\ Running("assess", "judging")
    /\ turn > Len(cmd.subjects)
    /\ Backed(assertions)
    /\ out' = [out EXCEPT !.report =
                 {[run |-> cmd, accepted |-> accepted, assertions |-> assertions,
                   catalogs |-> catalogs, limitations |-> Limitations(cmd.ask)]}]
    /\ phase' = "reported"
    /\ UNCHANGED <<dir, cmd, exit, catalogs, accepted, turn, assertions>>

RefuseReport ==
    /\ Running("assess", "judging")
    /\ turn > Len(cmd.subjects)
    /\ ~Backed(assertions)
    /\ End(3)
    /\ UNCHANGED <<dir, cmd, assessVars>>

\* Mutant: a gate decides alone, even where nothing was evaluated.
ExitCodeOfGate(as) ==
    IF (IF cmd.gate = NoGate THEN {"non-conformant"} ELSE cmd.gate) \cap Outcomes(as) # {}
    THEN 1 ELSE 0

\* A gate replaces the rule that a non-conformant verdict is a finding; a run
\* that reached no verdict at all is refused after its report is written.
ExitCode(as) ==
    IF Verdicts \cap Outcomes(as) = {} THEN 3
    ELSE IF (IF cmd.gate = NoGate THEN {"non-conformant"} ELSE cmd.gate)
            \cap Outcomes(as) # {}
    THEN 1 ELSE 0

Conclude ==
    /\ Running("assess", "reported")
    /\ End(ExitCode(assertions))
    /\ UNCHANGED <<dir, cmd, assessVars>>

AssessStep ==
    \/ RefuseGate \/ ResolveCatalogs \/ RefuseCatalogs \/ RefuseBundle
    \/ IngestBundle \/ Describe \/ JudgeSubject \/ WriteReport \/ RefuseReport
    \/ Conclude
=============================================================================
