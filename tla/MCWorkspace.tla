---------------------------- MODULE MCWorkspace ----------------------------
(***************************************************************************)
(* Working directories for TLC: evidence in every order, catalogs signed   *)
(* and not, exports of every adapter, and commands that die half way.      *)
(***************************************************************************)
EXTENDS ReadCommands, Metrics

-----------------------------------------------------------------------------
(*      Metrics and probes, and what they mean said without an evaluator:   *)
(*      by counting, over sets of events rather than sequences              *)

MCHashRank == [n \in 1..20 |-> (n * 7) % 23]

Metric(where, by, statistic, op, threshold, least, sample) ==
    [event |-> "Decision", where |-> where, by |-> by, statistic |-> statistic,
     op |-> op, threshold |-> threshold, least |-> least, sample |-> sample,
     pass |-> "conformant", fail |-> "non-conformant"]

Consequential ==
    {[path |-> "decision_type", below |-> TRUE, matcher |-> "ConsequentialDecision"]}
OfMinor == {[path |-> "decision_type", below |-> FALSE, matcher |-> "Minor"]}
Quantile(num, den) == [kind |-> "quantile", q |-> Rational(num, den), field |-> "latency"]
Mean == [kind |-> "mean", field |-> "latency"]
Escalated == [kind |-> "proportion", field |-> "escalated"]
Prompt == [kind |-> "ratio", numerator |-> "escalated", denominator |-> "prompt"]
Weight == [kind |-> "sum", field |-> "weight"]

\* Small tallies stand for the large ones for which the method gives up.
MCUnconverged == {<<1, 2>>, <<3, 4>>}

MCMetricSpecs == {
    Metric({}, {}, Quantile(1, 2), ">=", Rational(4, 1), 2, Census),
    Metric(Consequential, {}, Quantile(1, 10), ">=", Rational(4, 1), 1, 1),
    Metric({}, {"decision_type"}, Mean, "<=", Rational(9, 2), 1, 2),
    Metric(OfMinor, {}, Escalated, "<", Rational(1, 2), 1, Census),
    Metric({}, {"agent"}, Escalated, "<", Rational(2, 3), 3, Census),
    Metric({}, {"decision_type"}, Escalated, "<", Rational(2, 3), 2, Census),
    Metric({}, {"decision_type"}, Weight, "<=", Rational(3, 1), 1, 2),
    Metric({}, {}, Prompt, "<=", Rational(1, 2), 0, 2)}

InScope ==
    [nodes |-> {}, class |-> {"ToolCall"}, where |-> {},
     props |-> <<[path |-> <<<<[inverse |-> FALSE, p |-> "withinScope"]>>>>,
                  hasValue |-> Flag(TRUE)]>>]
Oracles == {[kind |-> "policy_violation"], [kind |-> "absence", forbidden |-> "irreversible"],
            [kind |-> "structural", shape |-> InScope, shapes |-> {}]}
Probe(oracle, least) ==
    [oracle |-> oracle, op |-> "<=", threshold |-> Rational(1, 3), least |-> least,
     pass |-> "conformant", fail |-> "non-conformant"]

\* A case of every two events that follow one another, and of one of them the
\* prompt or the events altered since the manifest was signed off.
CorpusOf(events, signed, altered) ==
    [signed |-> signed,
     hashed |-> [k \in DOMAIN events |-> k],
     cases |-> [k \in DOMAIN events |->
        [events |-> IF altered = <<"events", k>> THEN <<>>
                    ELSE SubSeq(events, k, Min({k + 1, Len(events)})),
         output |-> "",
         prompt |-> IF altered = <<"prompt", k>> THEN 0 ELSE k]]]

LatencyIn(G) == MapThenSumSet(LAMBDA e : e.data.latency.num, G)

\* Whether the events of G measure up.
MeasuresUp(G, metric) ==
    LET t == metric.threshold
        st == metric.statistic
        n == Cardinality(G)
        short == {e \in G : e.data.latency.num < t.num}
        promptly == Cardinality({e \in G : e.data.prompt})
        escalated == Cardinality({e \in G : e.data.escalated})
    IN  CASE st.kind = "quantile" -> Cardinality(short) * st.q.den < Max({st.q.num * n, 1})
          [] st.kind = "mean" -> LatencyIn(G) * t.den <= t.num * n
          [] st.kind = "sum" -> MapThenSumSet(LAMBDA e : e.data.weight.num, G) <= t.num
          [] st.kind = "proportion" -> escalated * t.den < t.num * n
          [] st.kind = "ratio" -> escalated * t.den <= t.num * promptly

\* The decisions a metric is about.
ChosenFor(E, metric, domain) ==
    LET population == {e \in E : e.type = "Decision" /\
                          \A w \in metric.where :
                              e.data.decision_type \in IF w.below THEN domain.consequential
                                                       ELSE {w.matcher}}
        LowerHashes(e) == {d \in population : MCHashRank[d.id] < MCHashRank[e.id]}
    IN  IF metric.sample = Census THEN population
        ELSE {e \in population : Cardinality(LowerHashes(e)) < metric.sample}

JudgedGroups(E, metric, domain) ==
    LET chosen == ChosenFor(E, metric, domain)
        Alike(d, e) == \A p \in metric.by : d.data[p] = e.data[p]
        groups == IF metric.by = {} THEN {chosen}
                  ELSE {{d \in chosen : Alike(d, e)} : e \in chosen}
    IN  {G \in groups : Cardinality(G) >= metric.least}

MeantByMetric(E, metric, domain) ==
    LET judged == JudgedGroups(E, metric, domain)
    IN  IF judged = {} THEN "not_assessed"
        ELSE IF \A G \in judged : MeasuresUp(G, metric) THEN "conformant" ELSE "non-conformant"

\* What is no measure: a ratio to nothing, a sum of what is no number, a share
\* without its interval.
NoMeasure(G, statistic) ==
    CASE statistic.kind = "ratio" -> \A e \in G : ~e.data.prompt
      [] statistic.kind = "sum" -> \E e \in G : e.data.weight = NotNumber
      [] statistic.kind = "proportion" ->
            <<Cardinality({e \in G : e.data.escalated}), Cardinality(G)>> \in Unconverged
      [] OTHER -> FALSE

\* Whether an attack, the two events of a case, got through.
GotThrough(E, oracle) ==
    LET calls == {e \in E : e.type = "ToolCall"}
        denials == {e \in E : e.type = "PolicyDecision" /\ e.data.decision = "deny"}
    IN  CASE oracle.kind = "policy_violation" -> denials = {}
          [] oracle.kind = "absence" ->
                \E e \in calls : Says(e, "effect_class", "irreversible")
          [] oracle.kind = "structural" ->
                \E e \in calls, d \in denials : d.data.refs.request = Node(e)

MeantByProbe(corpus, probe) ==
    LET through == Cardinality({k \in DOMAIN corpus.cases :
                       GotThrough(ToSet(corpus.cases[k].events), probe.oracle)})
        n == Len(corpus.cases)
    IN  IF n < probe.least THEN "not_assessed"
        ELSE IF <<through, n>> \in Unconverged THEN "refused"
        ELSE IF 3 * through <= n THEN "conformant" ELSE "non-conformant"

-----------------------------------------------------------------------------
(*                       The evidence of two subjects                      *)

\* Every event has a stream of its own, so that any order is accepted.
Event(id, time, subject, type, class, source, data) ==
    [form |-> "event", id |-> id, source |-> source, class |-> class,
     stream |-> <<"stream", id>>, time |-> time, subject |-> subject,
     type |-> type, data |-> data]

Decide(id, time, type) ==
    Event(id, time, "s1", "Decision", "self_report", "agent",
          [decision_type |-> type, agent |-> 1, oversight_modality |-> "review_before",
           latency |-> Rational(time, 1), escalated |-> time > 3, prompt |-> time < 5,
           weight |-> IF time = 4 THEN NotNumber ELSE Rational(1, 1)])

Pool == {
    Decide(1, 3, "Credit"), Decide(2, 5, "Credit"), Decide(3, 4, "Minor"),
    Event(4, 6, "s1", "ApprovalDecided", "independent_system", "desk",
          [refs |-> [decision |-> EventIri(1)]]),
    Event(5, 6, "s1", "ToolCall", "enforcement_point", "gateway",
          [refs |-> [decision |-> EventIri(1), instruction |-> EventIri(8),
                     delegation |-> EventIri(9)],
           agent |-> 1, acted_for |-> <<[id |-> 1, kind |-> "none"]>>, tool |-> "pay"]),
    Event(6, 5, "s1", "PolicyDecision", "enforcement_point", "gateway",
          [refs |-> [request |-> EventIri(5)], decision |-> "deny"]),
    Event(7, 7, "s2", "PolicyDecision", "enforcement_point", "gateway",
          [refs |-> [request |-> EventIri(5)], decision |-> "deny"]),
    Event(8, 1, "s1", "Instruction", "self_report", "agent",
          [source_class |-> "web", used |-> {ItemIri(1)}]),
    Event(9, 2, "s1", "DelegationIssued", "independent_system", "desk",
          [chain |-> <<[id |-> 1, kind |-> "human"]>>, verification |-> "verified"]),
    Event(10, 6, "s1", "ToolCall", "enforcement_point", "egress",
          [effect_class |-> "irreversible", tool |-> "send"]),
    Event(11, 8, "s1", "Refusal", "self_report", "agent",
          [refs |-> [request |-> EventIri(5), instruction |-> EventIri(8)],
           reason_class |-> "budget_exceeded"]),
    Event(12, 2, "s1", "ApprovalDecided", "independent_system", "desk",
          [refs |-> [decision |-> EventIri(2)]])}

Domain == [subclasses |-> "Credit" :> "ConsequentialDecision" @@ "Minor" :> "Decision",
           consequential |-> {"Credit"}, oversight |-> "Credit" :> "review_before"]

\* The events that refer to one another most.
Linked == {e \in Pool : e.id \in {1, 2, 4, 5, 6, 9, 12}}

Orders(S, n) == {s \in [1..n -> S] : IsInjective(s)}
\* Of an order and its reverse one.
HalfOfOrders(S, n) == {s \in Orders(S, n) : s[1].id < s[n].id}

-----------------------------------------------------------------------------
(*                              The catalogs                               *)

On(class, where, props) == [nodes |-> {}, class |-> {class}, where |-> where, props |-> props]
One(inverse, p) == <<[inverse |-> inverse, p |-> p]>>
Path(p) == <<One(FALSE, p)>>
True == Flag(TRUE)
Zero == [kind |-> "count", num |-> 0, den |-> 1]

Control(id, family, severity, type, tolerance) ==
    [id |-> id, family |-> family, severity |-> severity, roles |-> {"both"}, rung |-> 2, shape |-> "named",
     minimum |-> {[type |-> type, class |-> "any"]}, tolerance |-> tolerance]

\* As shipped: OVS-01, OVS-03, INT-01 and CND-01, but that the review of half
\* of the decisions may be missing here.  AGT-01 is about agents, which no
\* catalog shipped is; ROB-01 is of a rung the engine does not evaluate, and
\* of a severity that load_catalog lets pass.
Half == [kind |-> "ratio", num |-> 1, den |-> 2]
Controls == [
    review |-> Control("OVS-01", "OVS", "medium", "Decision", Half),
    terminus |-> Control("OVS-03", "OVS", "high", "ToolCall", Zero),
    capture |-> Control("INT-01", "INT", "high", "ToolCall", Zero),
    scope |-> Control("CND-01", "CND", "high", "PolicyDecision", Zero),
    agents |-> Control("AGT-01", "AGT", "medium", "Decision", Zero),
    robust |-> [Control("ROB-01", "ROB", "medium", "Decision", Zero)
                EXCEPT !.rung = 3, !.shape = NoShape, !.severity = "critical"]]

Executing == {<<"executesConsequential", True>>}
ShapesOf == [
    review |-> On("ConsequentialDecision", {}, <<[path |-> Path("reviewedBy"), minCount |-> 1]>>),
    terminus |-> On("ToolCall", Executing,
        <<[path |-> Path("chainTerminus"), class |-> "HumanPrincipal", minCount |-> 1],
          [path |-> <<One(FALSE, "delegatedVia"), One(FALSE, "chainVerified")>>,
           hasValue |-> True],
          [path |-> <<One(FALSE, "executes"), One(FALSE, "oversightMatches")>>,
           hasValue |-> True]>>),
    capture |-> On("ToolCall", Executing,
        <<[path |-> Path("sourceClass"), hasValue |-> Class("enforcement_point"),
           minCount |-> 1]>>),
    scope |-> On("ToolCall", {}, <<[path |-> Path("withinScope"), hasValue |-> True]>>),
    agents |-> [On("Agent", {}, <<[path |-> <<One(TRUE, "wasAssociatedWith")>>,
                                   minCount |-> 1]>>)
                EXCEPT !.nodes = {EventIri(5)}],
    robust |-> NoShape]

CatalogOf(label, names) ==
    LET shaped == SelectSeq(names, LAMBDA n : Controls[n].shape # NoShape)
    IN  [label |-> label, controls |-> [k \in DOMAIN names |-> Controls[names[k]]],
         shapes |-> [k \in DOMAIN shaped |-> [of |-> Controls[shaped[k]].id,
                                              shape |-> ShapesOf[shaped[k]]]]]

BaseCatalog == CatalogOf("base", <<"review", "terminus", "capture", "scope">>)
MCVendored == {BaseCatalog}
MCBases == <<BaseCatalog>>

-----------------------------------------------------------------------------
(*                             The assessments                             *)

Ask(requested, dirs, allow) ==
    [requested |-> requested, dirs |-> dirs, allow |-> allow,
     trust |-> [keys |-> {"k1"}, authorities |-> {"ca"}]]

Subject(id, role, denominators) ==
    [id |-> id, role |-> role, decision_types |-> {"Credit"}, components |-> {},
     denominators |-> denominators]

Denominator(source, covers, counts) == [source |-> source, covers |-> covers, counts |-> counts]
Counted == <<Denominator("proxy", {}, [ToolCall |-> 1, Decision |-> 2]),
             Denominator("ledger", {"Decision", "Override"}, [Decision |-> 1, Notice |-> 9])>>
Egress == <<Denominator("egress", {}, NoCounts)>>

AssessRun(ask, denominators, gate) ==
    [kind |-> "assess", ask |-> ask, declared |-> <<"base">>, domain |-> Domain,
     gate |-> gate,
     subjects |-> <<Subject("s1", "both", denominators), Subject("s2", "deployer", <<>>)>>]

Bundle(events, sources) ==
    [manifest |-> [sources |-> sources, files |-> <<[path |-> "stream", sha |-> events]>>],
     stream |-> events, report |-> NoFile, plan |-> NoFile]

Plain == AssessRun(Ask(<<>>, <<>>, FALSE), Counted, NoGate)

\* Evidence in every order, but for reversals.
Evidenced ==
    {[start |-> Bundle(s, <<>>), todo |-> <<Plain>>] :
        s \in HalfOfOrders(Pool, 3) \cup HalfOfOrders(Linked, 4)}
    \cup {[start |-> Bundle(s, <<>>),
           todo |-> <<AssessRun(Ask(<<>>, <<>>, FALSE), Egress, {"insufficient_evidence"})>>] :
              s \in Orders(Pool, 2)}

-----------------------------------------------------------------------------
(*                     Catalog directories and signatures                  *)

Overlay == CatalogOf("overlay", <<"agents">>)
Weaker == CatalogOf("overlay", <<"scope", "robust">>)
OwnBase == CatalogOf("base", <<"scope">>)
Sealed(c, e) == [catalog |-> c, tree |-> c, envelope |-> e]
SignedOver(c, key, issuer) ==
    [over |-> c, signatures |-> <<[key |-> key, issuer |-> issuer, good |-> TRUE]>>]
Directories ==
    {Sealed(c, e) :
        c \in {Overlay, Weaker, OwnBase},
        e \in {NoEnvelope, Unreadable, SignedOver(Overlay, "k1", NoCertificate),
               SignedOver(OwnBase, "leaf", "ca"), SignedOver(Weaker, "k2", NoCertificate)}}
    \* A shape outside the tree, or a tree restored before it is verified.
    \cup {[catalog |-> Weaker, tree |-> Overlay,
           envelope |-> SignedOver(c, "k1", NoCertificate)] : c \in {Overlay, Weaker}}

Asks == {Ask(r, d, a) :
            r \in {<<>>, <<"base">>, <<"overlay">>, <<"overlay", "base">>, <<"none">>},
            d \in {<<>>} \cup {<<x>> : x \in Directories}
                  \cup {<<x, y>> : x \in Directories, y \in {z \in Directories : z.catalog = Overlay}},
            a \in BOOLEAN}

Judgeable == <<Decide(1, 3, "Credit"),
               CHOOSE e \in Pool : e.id = 4, CHOOSE e \in Pool : e.id = 5,
               CHOOSE e \in Pool : e.id = 6>>
Catalogued ==
    {[start |-> Bundle(Judgeable, <<>>), todo |-> <<AssessRun(a, <<>>, NoGate)>>] : a \in Asks}
    \cup {[start |-> Bundle(SubSeq(Judgeable, 1, n), <<>>),
           todo |-> <<AssessRun(Ask(<<>>, <<Sealed(Overlay, NoEnvelope)>>,
                                    TRUE), <<>>, g)>>] : n \in 1..2, g \in {NoGate, BadGate}}

\* The catalog the engines ship, as `agentce quickstart` passes it.
Shipped(envelope) == Sealed(BaseCatalog, envelope)
Signed == Shipped(SignedOver(BaseCatalog, "k1", NoCertificate))
Quickstarts ==
    {[start |-> Bundle(Judgeable, <<>>), todo |-> <<Quickstart(Plain, b)>>] :
        b \in {Signed, Shipped(NoEnvelope)}}

\* Two names that go into files as one.
Slashed == "s/2"
MCSafeName(s) == IF s = Slashed THEN "s_2" ELSE s

\* A denied call of the second subject, with and without calls of the first.
Denied == {
    <<Event(13, 3, Slashed, "ToolCall", "enforcement_point", "gateway", NoData),
      Event(14, 2, Slashed, "PolicyDecision", "enforcement_point", "gateway",
            [refs |-> [request |-> EventIri(13)], decision |-> d])>> \o rest :
        d \in {"deny", "allow"},
        rest \in {<<>>} \cup Orders({e \in Pool : e.id \in {5, 6, 7}}, 1)
                       \cup Orders({e \in Pool : e.id \in {5, 6}}, 2)}

\* ... judged by the base catalog, and by one that is not signed.
Namesakes(run) ==
    [run EXCEPT !.subjects = <<@[1], Subject(Slashed, "deployer", <<>>),
                               Subject(MCSafeName(Slashed), "both", <<>>)>>]
Refused ==
    {[start |-> Bundle(s, <<>>), todo |-> <<Namesakes(AssessRun(a, <<>>, NoGate))>>] :
        s \in Denied,
        a \in {Ask(<<>>, <<>>, FALSE),
               Ask(<<>>, <<Sealed(Weaker, NoEnvelope)>>, TRUE)}}

-----------------------------------------------------------------------------
(*                       Exports, and commands that die                    *)

Told(class, source, engine) ==
    [class |-> class, source |-> source, engine |-> engine, subject |-> "s1"]
IngestRun(adapter, told, export) ==
    [kind |-> "ingest", adapter |-> adapter, told |-> told, export |-> export]
Export(form, entries) == [form |-> form, entries |-> entries]

Junk == NoData
Call(id, time, method, decision) ==
    [id |-> id, time |-> time, origin |-> "gateway", method |-> method,
     agent |-> 1, acted_for |-> <<1>>, policy |-> [decision |-> decision]]
GatewayEntries == {
    Call(1, 2, "tools/call", "allow"), Call(1, 1, "tools/call", "deny"),
    Call(2, 2, "resources/read", "forbid"),
    [id |-> 3, time |-> 1, origin |-> "gateway2", method |-> "tools/call",
     delegation |-> [chain |-> <<[id |-> 1, kind |-> "human"], [id |-> 2, kind |-> "robot"]>>,
                     verification |-> "verified"]],
    [id |-> 4, time |-> 3, method |-> "tools/call"], Junk}

Line(id, time, more) == [id |-> id, time |-> time, format |-> "v1"] @@ more
OversightEntries == {
    Line(1, 2, [kind |-> "approval_requested", origin |-> "desk"]),
    Line(1, 1, [kind |-> "approval_decided", actor |-> 1, session_ref |-> 1]),
    Line(2, 1, [kind |-> "override"]), Line(3, 3, [kind |-> "notice"])}
CheckEntries == {
    Line(1, 2, [decision |-> "forbid", agent |-> 1]), Line(2, 1, [decision |-> "maybe"]),
    Line(3, 2, [tuple |-> 1, allowed |-> TRUE])}
IdentityEntries == {
    Line(1, 2, [token_ref |-> 1, chain |-> <<[id |-> 1, kind |-> "human"]>>,
                verification |-> "unverified"]), Line(2, 1, NoData)}
SupplyEntries == {
    Line(1, 2, [kind |-> "bundle_loaded", components |-> {"lib"}]),
    Line(2, 1, [kind |-> "attestation", key_id |-> "k1", digests |-> {1}]),
    Line(3, 1, [kind |-> "attestation"])}
Spans == {
    [id |-> 1, start |-> 3, end |-> 3, operation |-> "invoke_agent", agent |-> 1],
    [id |-> 2, end |-> 5, operation |-> "execute_tool"],
    [id |-> 3, start |-> 2, operation |-> "chat"],
    [id |-> 4, operation |-> "chat"], [id |-> 5, start |-> 1, operation |-> "rerank"]}

Own == Told("self_report", Absent, Absent)
Ingests ==
    {IngestRun("mcp-gateway", Told("enforcement_point", s, Absent), Export("lines", x)) :
        s \in {Absent, "log"}, x \in Orders(GatewayEntries, 3)}
    \cup {IngestRun("oversight", Told(c, Absent, Absent), Export("lines", x)) :
        c \in {"self_report", "independent_system"}, x \in Orders(OversightEntries, 2)}
    \cup {IngestRun("policy-engines", Told("enforcement_point", Absent, n), Export("lines", x)) :
        n \in {"opa", "openfga", "other", Absent}, x \in Orders(CheckEntries, 2)}
    \cup {IngestRun("identity", Own, Export("lines", x)) : x \in Orders(IdentityEntries, 2)}
    \cup {IngestRun("supply-chain", Own, Export("lines", x)) : x \in Orders(SupplyEntries, 2)}
    \cup {IngestRun("otel-genai", Own, Export("otlp", x)) : x \in Orders(Spans, 3)}
    \cup {IngestRun(a, Told(c, Absent, Absent), Export(f, <<Junk>>)) :
        a \in AdapterNames \cup {"other"}, c \in {"self_report", "none"},
        f \in {"lines", "otlp", "undecodable", "too_deep"}}
    \cup {IngestRun("identity", Own, NoFile)}

NoBundle == [manifest |-> NoFile, stream |-> NoFile, report |-> NoFile, plan |-> NoFile]

Exported == {[start |-> NoBundle, todo |-> <<c, Plain>>] : c \in Ingests}

Log == Export("lines", <<Call(1, 2, "tools/call", "allow"), Call(2, 1, "tools/call", "deny")>>)
Trace == Export("otlp", <<[id |-> 2, end |-> 5, operation |-> "execute_tool"]>>)
SourceOf(id, adapter, export, credential) ==
    [id |-> id, adapter |-> adapter, class |-> Absent, engine |-> Absent,
     subject |-> "s1", export |-> export, credential |-> credential]
Gateway == SourceOf("gateway", "mcp-gateway", Log, "resolves")
CollectSources == {
    <<Gateway>>, <<Gateway, SourceOf("trace", "otel-genai", Trace, Absent)>>,
    <<SourceOf("trace", "otel-genai", Trace, "unset"), SourceOf("copy", "mcp-gateway", Log, Absent),
      Gateway>>,
    <<Gateway, SourceOf("gateway", "mcp-gateway", Log, Absent)>>,
    <<SourceOf("broken", "otel-genai", Log, Absent), Gateway>>,
    <<SourceOf("empty", "identity", Log, Absent), SourceOf("gone", "identity", NoFile, Absent),
      SourceOf("live", "identity", Absent, "resolves")>>}
CollectRun(sources, dry, given) ==
    [kind |-> "collect", dry |-> dry, out |-> given, sources |-> sources]

\* An assessment of what an ingest and a collection left, in either order,
\* each of which may have died.
Collected ==
    LET ingest == IngestRun("otel-genai", Own, Trace)
        again == IngestRun("mcp-gateway", Told("enforcement_point", Absent, Absent), Log)
        collects == {CollectRun(s, FALSE, TRUE) : s \in CollectSources}
        plans == {CollectRun(<<Gateway>>, TRUE, o) : o \in BOOLEAN}
                 \cup {CollectRun(<<Gateway>>, FALSE, FALSE)}
    IN  {[start |-> NoBundle, todo |-> <<ingest, c, Plain>>] : c \in collects \cup plans}
        \cup {[start |-> Bundle(Judgeable, <<>>), todo |-> <<ingest, c, again, Plain>>] :
                  c \in {CollectRun(<<Gateway>>, FALSE, TRUE)} \cup plans}

MCScenarios ==
    Evidenced \cup Refused \cup Catalogued \cup Quickstarts \cup Exported \cup Collected

-----------------------------------------------------------------------------
(*                     What the base catalog's verdicts mean               *)

VerdictOf(report, subject, control) ==
    (CHOOSE a \in ToSet(report.assertions) : a.subject = subject /\ a.control = control).outcome

\* The verdicts of a report by the base catalog follow from the events alone,
\* each subject's from its own: decisions of a consequential type may go
\* unreviewed up to one in two, no tool call may have been denied, and every
\* call that carries out a consequential decision must come from an
\* enforcement point; no verdict is given where the evidence the control asks
\* for is not there (assess._assert_control, structural.evaluate_shape and
\* within_tolerance, graph.build_graph).  Coverage plays no part in them, which
\* UnknownCoverageIsInsufficient denies.
VerdictsFollowFromTheEvents ==
    \A r \in {x \in out.report : x.catalogs = <<BaseCatalog>>} :
        \A s \in Judged(r.assertions) :
            LET E == {e \in ToSet(r.accepted) : e.subject = s}
                decisions == {d \in E : Decides(d, "Credit")}
                unreviewed == {d \in decisions : ~ReviewedIn(E, d)}
                calls == {e \in E : e.type = "ToolCall"}
                denied == {e \in calls : \E p \in E : DeniedBy(p, Node(e))}
                acting == {e \in calls : \E d \in decisions : Refers(e, "decision", Node(d))}
                bare == {e \in acting : e.class # "enforcement_point"}
                Verdict(population, evidenced, good) ==
                    IF population = {} THEN "not_applicable"
                    ELSE IF ~evidenced THEN "insufficient_evidence"
                    ELSE IF good THEN "conformant" ELSE "non-conformant"
            IN  /\ VerdictOf(r, s, "OVS-01") =
                       Verdict(decisions, TRUE,
                               2 * Cardinality(unreviewed) <= Cardinality(decisions))
                /\ VerdictOf(r, s, "CND-01") =
                       Verdict(calls, \E e \in E : e.type = "PolicyDecision", denied = {})
                /\ VerdictOf(r, s, "INT-01") = Verdict(acting, TRUE, bare = {})

\* engines/python/agentce/coverage.py: "unknown coverage is what later makes INT
\* and REC controls insufficient_evidence for that subject"; of a subject whose
\* coverage is unknown no control about integrity that applies to it and can be
\* assessed gets another verdict.
UnknownCoverageIsInsufficient ==
    phase = "reported" =>
        \A r \in out.report : \A k \in DOMAIN cmd.subjects :
            out.coverage[k].status = "unknown" =>
                \A a \in ToSet(r.assertions) :
                    a.subject = cmd.subjects[k].id /\ a.family = "INT" =>
                        a.outcome \in {"insufficient_evidence", "not_applicable", "not_assessed"}

-----------------------------------------------------------------------------
(*                        Whether a report may be signed                   *)

\* What the operator passes: the gaps file and at most one deviation.
Deviation(control, present, approver, days) ==
    [control |-> control.id, family |-> control.family, present |-> present,
     owner |-> "Ada", approver |-> approver, days |-> days]
Deviations ==
    {Deviation(Controls.scope, DeviationFields, "Grace", 180),
     Deviation(Controls.scope, DeviationFields \ {"granted"}, "Grace", NoDates),
     Deviation(Controls.terminus, DeviationFields, "Ada", 30),
     Deviation(Controls.review, DeviationFields, "Grace", 181),
     Deviation(Controls.capture, DeviationFields, "Grace", 30)}
Gapsets == {{}, {"CND-01"}, {"OVS-03", "INT-01"}}

\* What readiness may be given: of a control in both the last one counts.
Stricter ==
    [CatalogOf("stricter", <<"scope", "review">>) EXCEPT
        !.controls[1].severity = "low", !.controls[2].severity = "high"]

MCRevisions == [severity : {"high", "low", "other"}, num : 0..2, den : {1, 2}]

MCTellings ==
    {[integrity |-> i, gaps |-> g, deviations |-> ds, dirs |-> dirs] :
        i \in {<<>>, <<"verified", "gap">>}, g \in Gapsets,
        ds \in {<<>>} \cup {<<d>> : d \in Deviations}, dirs \in {<<>>, <<OwnBase, Stricter>>}}

-----------------------------------------------------------------------------
(*                         What the third rung means                       *)

\* A metric over the accepted events says what it means whatever order they
\* came in: it fails exactly where some group that is large enough, of the
\* sampled events of its population, does not measure up - so many of them
\* below the threshold that the quantile is, a sum over the threshold's
\* multiple, too large a share - and is refused exactly where such a group has
\* no measure: a ratio to nothing, a sum of what is no number, a share whose
\* interval was not found.  A probe scores no corpus that is unsigned or in
\* which one prompt was altered, and passes exactly where few enough attacks
\* got through, by the outputs and events the cases have now, altered since
\* they were signed off or not (statistical.evaluate_metric,
\* numerics.nearest_rank_quantile, probe.evaluate_probe).
MetricsMeanWhatTheySay ==
    (phase = "reported" /\ cmd = Plain /\ ran = {Plain}) =>
        /\ \A metric \in MCMetricSpecs :
               \A found \in {EvaluateMetric(accepted, metric, Domain)} :
                   IF \E G \in JudgedGroups(ToSet(accepted), metric, Domain) :
                         NoMeasure(G, metric.statistic)
                   THEN found = Broken
                   ELSE /\ found # Broken
                        /\ found.outcome = MeantByMetric(ToSet(accepted), metric, Domain)
        /\ \A probe \in {Probe(oracle, least) : oracle \in Oracles, least \in {0, 3}},
              signed \in BOOLEAN, altered \in {<<"prompt", 0>>, <<"prompt", 2>>, <<"events", 2>>} :
               \A corpus \in {CorpusOf(accepted, signed, altered)} :
                   \A found \in {EvaluateProbe(probe, corpus, Domain)},
                      meant \in {MeantByProbe(corpus, probe)} :
                       IF \/ ~signed \/ meant = "refused"
                          \/ altered[1] = "prompt" /\ altered[2] \in DOMAIN accepted
                       THEN found = Broken
                       ELSE found # Broken /\ found.outcome = meant

-----------------------------------------------------------------------------
(*                        What the other engines write                     *)

TS == INSTANCE TypeScriptEngine
JV == INSTANCE JavaEngine

\* What the ports lay no glue about.
Conduct == {"instructionUntrusted", "actsOnUntrusted", "withinScope", "withinBudget"}
WithoutConduct(g) == [g EXCEPT !.triples = {x \in @ : x[2] \notin Conduct}]
ReadsConduct(shape) ==
    /\ shape # NoShape
    /\ \/ \E w \in shape.where : w[1] \in Conduct
       \/ \E k \in DOMAIN shape.props : \E step \in ToSet(shape.props[k].path) :
              \E option \in ToSet(step) : option.p \in Conduct
OnConduct(used) ==
    UNION {{<<c.label, c.controls[k].id>> :
               k \in {j \in DOMAIN c.controls : ReadsConduct(ShapeFor(c, c.controls[j]))}} :
           c \in ToSet(used)}

\* What the ports make of the bundle directory d and the command c.
PortRuns(d, c) ==
    IF c = Quickstart(Plain, Signed)
    THEN {TS!cmdQuickstart(d, Plain, Signed), JV!cmdQuickstart(d, Plain, Signed)}
    ELSE {TS!runAssess(d, c), JV!runAssess(d, c)}

\* The documents a port writes list what the reference's do, and its manifest
\* names the same files and catalogs.
DocumentsAlike(report, listed, used) ==
    /\ Len(report.md.rows) = Len(listed)
    /\ ListsEach(report.html.rows, Csv(listed))
    /\ report.manifest.outputs = DOMAIN Written(Outputs(listed, <<>>, Nothing))
    /\ [k \in DOMAIN used |-> report.manifest.catalogs[k].label]
           = [k \in DOMAIN used |-> used[k].label]

\* The ports' commands that only read say what the reference's do.
CommandsAlike(r) ==
    LET as == ReadBack(r.assertions)
    IN  /\ \A code \in {TS!cmdValidate(dir), JV!cmdValidate(dir)} : code = Validate(dir).exit
        /\ \A port \in {TS!cmdReport(as, "sarif"), JV!cmdReport(as, "sarif")} : port = Sarif(as)
        /\ \A port \in {TS!cmdReport(as, "pack"), JV!cmdReport(as, "pack")} : port = PacksOf(as)
        /\ Verdicts \cap Outcomes(as) = {} =>
               \A why \in {TS!nothingEvaluated(r.run.subjects, r.accepted),
                           JV!nothingEvaluated(r.run.subjects, r.accepted)} :
                   why = WhyNothing(r.run.subjects, r.accepted)

\* Where the reference writes a report, the TypeScript and the Java engine
\* write one from the same bundle and command, and but for the facts of
\* conduct it is the same: the same lines quarantined, the same graph, the
\* same coverage and applicability, and, in the same order, the same verdicts
\* on the same evidence of every control whose shape reads no such fact; so
\* that `agentce diff` of the two names no other control.  Where no control
\* does, the files other tools read and the exit code are the same too, and
\* report.md and report.html list the same assertions (runAssess of cli.ts
\* and Cli.java against cmd_assess; each engine evaluates shapes, tolerances
\* and minimum evidence with its own code, and reads a passed catalog
\* directory where the reference also asks for its signature).
EnginesAgree ==
    phase = "reported" =>
        /\ \A r \in out.report : CommandsAlike(r)
        /\ \A engine \in PortRuns(dir, cmd), r \in out.report, apart \in {OnConduct(catalogs)} :
            LET listed == r.assertions
                Common(as) == SelectSeq(as, LAMBDA a : <<a.catalog, a.control>> \notin apart)
            IN  /\ \E w \in engine.written : w.reports # {}
                /\ apart = {} /\ cmd.gate = NoGate => engine.exit = ExitCode(assertions)
                /\ \A w \in engine.written :
                    /\ w.quarantine = out.quarantine
                    /\ WithoutConduct(w.graph) = WithoutConduct(out.graph)
                    /\ w.coverage = out.coverage
                    /\ w.applicability = out.applicability
                    /\ \A report \in w.reports :
                        /\ Common(report.assertions) = Common(listed)
                        /\ \A key \in DiffAssertionSets(listed, report.assertions) :
                               \E x \in apart : x[2] = key[1]
                        /\ apart = {} =>
                            /\ report.summary = Summarize(listed)
                            /\ report.sarif = Sarif(listed)
                            /\ report.oscal = Oscal(listed)
                            /\ DocumentsAlike(report, listed, r.catalogs)

\* engines/java/src/main/java/org/agentce/Graph.java: "This is a faithful
\* port of the reference; it must build byte-identical graphs."
PortsBuildTheSameGraph ==
    phase = "judging" =>
        /\ out.graph = JV!build(accepted, cmd.domain)
        /\ out.graph = TS!build(accepted, cmd.domain)

-----------------------------------------------------------------------------
(*                          What the suite says                            *)

\* The suite is looked at for one order of each evidence of three events or
\* fewer, and one directory.
ReadOnce(r) ==
    /\ ran = {cmd} /\ Len(cmd.ask.dirs) < 2 /\ Len(r.accepted) < 4
    /\ \A k \in 2..Len(r.accepted) : r.accepted[k - 1].id < r.accepted[k].id

\* A corpus of this bundle and of one whose manifest is lost.
Project(id, d) ==
    [id |-> id, dir |-> d, subjects |-> cmd.subjects, domain |-> cmd.domain]
Suite(corpus) ==
    <<RunEcs(corpus, <<BaseCatalog>>, TRUE), TS!runEcs(corpus, <<BaseCatalog>>, TRUE),
      JV!runEcs(corpus, <<BaseCatalog>>, TRUE)>>

\* No call of the subject for which there is evidence was within its scope.
NoCallInScope(subject) ==
    LET E == {e \in ToSet(accepted) : e.subject = subject}
        calls == {e \in E : e.type = "ToolCall"}
    IN  (\E e \in E : e.type = "PolicyDecision") =>
            \A call \in calls : \E p \in E : DeniedBy(p, Node(call))

SuiteSays(r, corpus, reports) ==
    LET whole == {x \in corpus : x.dir = dir}
    IN  /\ \A k \in DOMAIN reports :
            /\ reports[k].claim = IF whole = corpus THEN "full" ELSE "partial"
            /\ {CmdConformance(reports[k]), TS!cmdConformance(reports[k]),
                JV!cmdConformance(reports[k])} = IF whole = corpus THEN {0} ELSE {1}
        /\ \A x \in whole :
            /\ reports[1].files[x.id].assertions = r.assertions
            /\ x.id \in IdenticalProjects(reports) <=>
                   \A k \in DOMAIN cmd.subjects : NoCallInScope(cmd.subjects[k].id)
        /\ \A x \in corpus \ whole : x.id \notin IdenticalProjects(reports)
        /\ AllIdentical(reports) <=> corpus = {x \in whole : x.id \in IdenticalProjects(reports)}

\* The conformance suite of each engine claims "full" of a corpus of bundles
\* that load and whose verdicts are backed, and "partial" where one does not,
\* whatever verdicts it reaches; and the comparison of the engines, which
\* reads what assess writes, tells them apart exactly where the reference
\* finds a tool call within its scope, which the ports never do, and finds no
\* project alike that no engine could assess (run_ecs, runEcs,
\* canonical_divergences and run_multi_engine of conformance/ecs.py).
SuiteTellsTheEnginesApart ==
    phase = "reported" =>
        \A r \in {x \in out.report : x.catalogs = <<BaseCatalog>> /\ ReadOnce(x)} :
            \A corpus \in {{Project(1, dir)},
                            {Project(1, dir), Project(2, [dir EXCEPT !.manifest = NoFile])}} :
                \A reports \in {Suite(corpus)} : SuiteSays(r, corpus, reports)

-----------------------------------------------------------------------------
(*                      How catalogs' shapes are read                      *)

\* What rdflib writes for the value of a literal that is written otherwise.
Rewritten ==
    [type \in {"xsd:integer", "xsd:boolean", "xsd:dateTime"} |->
        CASE type = "xsd:integer" -> ("01" :> "1" @@ "+1" :> "1")
          [] type = "xsd:boolean" -> ("0" :> "false" @@ "1" :> "true")
          [] type = "xsd:dateTime" -> ("2020Z" :> "2020+00:00")]
MCCanonical(t) ==
    IF t.type \in DOMAIN Rewritten /\ t.name[2] \in DOMAIN Rewritten[t.type]
    THEN [t EXCEPT !.name[2] = Rewritten[t.type][@]] ELSE t

PP == INSTANCE MCShapes WITH
    Endings <- [local \in {"Scope", "MyScope", "Other", "c"} |->
                   IF local = "MyScope" THEN {"Scope"} ELSE {}],
    Canonical <- MCCanonical

\* What is of no state, and looked at beside the report of these events.
Sample == <<Decide(1, 3, "Credit"), Decide(2, 5, "Credit"), Decide(3, 4, "Minor")>>
AtOneReport == phase = "reported" /\ cmd = Plain /\ ran = {Plain} /\ accepted = Sample

MCSpelled == {[events |-> Sample, literals |-> PP!Stock]}

\* The two ports read the same shapes from every shapes graph the check of
\* portable shapes permits in which nothing is stated twice, and the reference
\* what they read of that graph with its typed literals written as rdflib
\* writes their values, so all three read alike a graph that has them so; none
\* of its constraints is left out but sh:pattern; and each takes a reference to
\* a nested shape for the shape of that name where no other name ends with it
\* (psp.parse_shapes and structural._shape_by_curie, psp.ts and Psp.java).
ShapesReadAlike == AtOneReport => PP!AllReadAlike
=============================================================================
