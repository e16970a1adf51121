--------------------------- MODULE EvidenceGraph ---------------------------
(***************************************************************************)
(* The provenance graph the engine builds of a sequence of accepted events *)
(* (agentce/graph.py) and the store it builds it in (agentce/store.py).    *)
(*                                                                         *)
(* A term is a pair <<rank, x>>.  The ranks order the terms the way their  *)
(* text does: agentce:event/... before agentce:principal/... before the    *)
(* ids of agents and of context items; a class is a name, a literal a flag *)
(* or a rank of time.  A graph holds triples of terms, which are a set     *)
(* (INSERT OR IGNORE), and the closure of the class hierarchy.             *)
(*                                                                         *)
(* An event is a line of the bundle (see IngestRules) with a subject, a    *)
(* type and its data: a record with the fields the event carries.          *)
(***************************************************************************)
EXTENDS Naturals, Sequences, FiniteSets, SequencesExt

EventIri(n) == <<1, n>>
PrincipalIri(n) == <<2, n>>
AgentIri(n) == <<3, n>>
ItemIri(n) == <<4, n>>
Class(c) == <<5, c>>
Flag(b) == <<6, IF b THEN "true" ELSE "false">>
Time(t) == <<7, t>>
Index(i) == <<8, i>>
Dangling(x) == <<9, x>>

IsEventRef(x) == x[1] = 1
IsIri(x) == x[1] <= 5

\* The order of two nodes, that of their IRIs.
Before(x, y) == x[1] < y[1] \/ (x[1] = y[1] /\ x[2] < y[2])

-----------------------------------------------------------------------------
(*                               The store                                 *)

Objects(g, s, p) == {x[3] : x \in {y \in g.triples : y[1] = s /\ y[2] = p}}
Subjects(g, p, o) == {x[1] : x \in {y \in g.triples : y[2] = p /\ y[3] = o}}
IsA(g, node, c) ==
    \E x \in Objects(g, node, "type") : <<x[2], c>> \in g.closure
InstancesOf(g, c) ==
    {n \in {x[1] : x \in {y \in g.triples : y[2] = "type"}} : IsA(g, n, c)}

-----------------------------------------------------------------------------
(*                          The class hierarchy                            *)

Activities == {"PolicyDecision", "DelegationIssued", "Decision", "Instruction",
               "Refusal", "ToolCall", "ModelCall", "ResourceAccess",
               "MemoryRead", "MemoryWrite"}

\* BASE_SUBCLASS, child -> parent.
BaseSubclass ==
    [c \in Activities |-> "Activity"]
    @@ [c \in {"HumanPrincipal", "ServicePrincipal"} |-> "Principal"]
    @@ [c \in {"SoftwareAgent", "Principal"} |-> "prov:Agent"]
    @@ "Agent" :> "SoftwareAgent"
    @@ "Activity" :> "prov:Activity"
    @@ "ContextItem" :> "prov:Entity"
    @@ "ConsequentialDecision" :> "Decision"

\* _closure: every class with itself and with all that is above it; the walk
\* stops where a binding's hierarchy comes round to a class it has seen.
Closure(subclass, classes) ==
    LET nodes == classes \cup DOMAIN subclass
                 \cup {subclass[c] : c \in DOMAIN subclass}
        Up(S, step) == S \cup {subclass[c] : c \in S \cap DOMAIN subclass}
        Above(c) == FoldLeft(Up, {c}, [k \in 1..Cardinality(DOMAIN subclass) |-> k])
    IN  UNION {{<<c, a>> : a \in Above(c)} : c \in nodes}

-----------------------------------------------------------------------------
(*                           Mapping one event                             *)

Node(e) == EventIri(e.id)
Has(e, f) == f \in DOMAIN e.data
Refs(e) == IF Has(e, "refs") THEN e.data.refs ELSE [k \in {} |-> k]
Refers(e, k, x) == k \in DOMAIN Refs(e) /\ Refs(e)[k] = x
Targets(e) == {Refs(e)[k] : k \in DOMAIN Refs(e)}
              \cup (IF Has(e, "used") THEN e.data.used ELSE {})
Says(e, f, v) == Has(e, f) /\ e.data[f] = v

\* _GENERIC_REFS: the predicate of a reference.
GenericRefs == [authorization |-> "authorizedBy", request |-> "authorizedBy",
                delegation |-> "delegatedVia", instruction |-> "actsOn",
                parent |-> "derivedFrom", origin |-> "derivedFrom"]

\* The predicate from a decision to an event of this type that names it.
DecisionLinks == [Outcome |-> "resultedIn", ApprovalDecided |-> "reviewedBy",
                  Override |-> "overriddenBy", Interrupt |-> "interruptedBy",
                  Notice |-> "notifiedBy"]

\* _TRUSTED_INSTRUCTION.
TrustedInstruction == {"user", "operator", "service", "agent_identified",
                       "memory_trusted"}
Untrusted(e) == e.type = "Instruction" /\ Has(e, "source_class")
                /\ e.data.source_class \notin TrustedInstruction

\* The principals of a chain, each typed by its kind, at its place.
PrincipalClass(kind) ==
    CASE kind = "human" -> "HumanPrincipal"
      [] kind = "service" -> "ServicePrincipal"
      [] OTHER -> "Principal"
ChainTriples(chain) ==
    UNION {{<<PrincipalIri(chain[k].id), "type", Class(PrincipalClass(chain[k].kind))>>,
            <<PrincipalIri(chain[k].id), "chainIndex", Index(k - 1)>>} :
           k \in DOMAIN chain}

AgentTriples(e) ==
    IF ~Has(e, "agent") THEN {}
    ELSE LET agent == AgentIri(e.data.agent)
             chain == IF Has(e, "acted_for") THEN e.data.acted_for ELSE <<>>
         IN  {<<agent, "type", Class("Agent")>>,
              <<Node(e), "wasAssociatedWith", agent>>}
             \cup ChainTriples(chain)
             \cup {<<agent, "actedOnBehalfOf", PrincipalIri(chain[k].id)>> :
                   k \in DOMAIN chain}

UsedTriples(e) ==
    IF ~Has(e, "used") THEN {}
    ELSE UNION {{<<x, "type", Class("ContextItem")>>, <<Node(e), "used", x>>} :
                x \in e.data.used}

RefTriples(e) ==
    {<<Node(e), GenericRefs[k], Refs(e)[k]>> :
        k \in DOMAIN Refs(e) \cap DOMAIN GenericRefs}

LinkTriples(e) ==
    (IF "decision" \notin DOMAIN Refs(e) THEN {}
     ELSE IF e.type = "ToolCall" THEN {<<Node(e), "executes", Refs(e).decision>>}
     ELSE IF e.type \in DOMAIN DecisionLinks
     THEN {<<Refs(e).decision, DecisionLinks[e.type], Node(e)>>}
     ELSE {})
    \cup (IF e.type = "Refusal" /\ "instruction" \in DOMAIN Refs(e)
          THEN {<<Refs(e).instruction, "refusedBy", Node(e)>>} ELSE {})

\* All that _map_event writes for e.
EventTriples(e) ==
    {<<Node(e), "type", Class(e.type)>>,
     <<Node(e), "sourceClass", Class(e.class)>>,
     <<Node(e), "atTime", Time(e.time)>>}
    \cup AgentTriples(e) \cup UsedTriples(e) \cup RefTriples(e) \cup LinkTriples(e)
    \cup (IF e.type = "Instruction"
          THEN {<<Node(e), "instructionUntrusted", Flag(Untrusted(e))>>} ELSE {})
    \cup (IF e.type = "DelegationIssued" /\ Has(e, "chain")
          THEN ChainTriples(e.data.chain) ELSE {})
    \cup (IF e.type = "Decision" /\ Has(e, "decision_type")
          THEN {<<Node(e), "type", Class(e.data.decision_type)>>} ELSE {})

-----------------------------------------------------------------------------
(*                              The builder                                *)

\* _Builder: the triples so far and what the second pass needs to know.
EmptyBuilder == [triples |-> {}, ids |-> {}, typed |-> {}, reviewed |-> {},
                 untrusted |-> {}]

MapEvent(b, e) ==
    [b EXCEPT
        !.triples = @ \cup EventTriples(e),
        !.typed = IF e.type = "Decision" /\ Has(e, "decision_type")
                  THEN @ \cup {[node |-> Node(e), dtype |-> e.data.decision_type,
                                time |-> e.time]} ELSE @,
        !.reviewed = IF e.type = "ApprovalDecided" /\ "decision" \in DOMAIN Refs(e)
                     THEN @ \cup {Refs(e).decision} ELSE @,
        !.untrusted = IF Untrusted(e) THEN @ \cup {Node(e)} ELSE @]

\* _dangling: an event the bundle does not hold is referred to.
DanglingOf(b, e) ==
    {<<Node(e), "danglingRef", Dangling(x)>> :
        x \in {y \in Targets(e) : IsEventRef(y) /\ y \notin b.ids}}

ChainVerified(e) ==
    IF Has(e, "chain_verified") THEN e.data.chain_verified
    ELSE Says(e, "verification", "verified")

ExecutesConsequential(b, e, domain) ==
    \E d \in b.typed : /\ Refers(e, "decision", d.node)
                       /\ d.dtype \in domain.consequential

OversightMatches(e, domain) ==
    Has(e, "decision_type") /\ e.data.decision_type \in DOMAIN domain.oversight
    => Says(e, "oversight_modality", domain.oversight[e.data.decision_type])

ActsOnUntrusted(b, e) == \E x \in b.untrusted : Refers(e, "instruction", x)

\* _conduct_scope_budget: what the enforcement point denied or cut off.
DeniedBy(e, x) == e.type = "PolicyDecision" /\ Says(e, "decision", "deny")
                  /\ Refers(e, "request", x)
OverBudgetBy(e, x) == e.type = "Refusal" /\ Says(e, "reason_class", "budget_exceeded")
                      /\ Refers(e, "request", x)

ConductOf(events, k) ==
    {<<Node(events[k]), "withinScope",
       Flag(~\E j \in DOMAIN events : DeniedBy(events[j], Node(events[k])))>>,
     <<Node(events[k]), "withinBudget",
       Flag(~\E j \in DOMAIN events : OverBudgetBy(events[j], Node(events[k])))>>}

\* The glue of the k-th event.
Glue(b, events, k, domain) ==
    LET e == events[k]
        n == Node(e)
        When(T, s) == IF e.type \in T THEN s ELSE {}
    IN  DanglingOf(b, e)
        \cup When({"DelegationIssued"}, {<<n, "chainVerified", Flag(ChainVerified(e))>>})
        \cup When({"ToolCall"}, {<<n, "executesConsequential",
                                   Flag(ExecutesConsequential(b, e, domain))>>})
        \cup When({"Decision"}, {<<n, "oversightMatches",
                                   Flag(OversightMatches(e, domain))>>})
        \cup (IF Has(e, "acted_for") /\ e.data.acted_for # <<>>
              THEN {<<n, "chainTerminus", PrincipalIri(Last(e.data.acted_for).id)>>}
              ELSE {})
        \cup When({"ToolCall", "Decision"}, {<<n, "actsOnUntrusted",
                                               Flag(ActsOnUntrusted(b, e))>>})
        \cup When({"ToolCall", "ResourceAccess"}, ConductOf(events, k))

\* _preceded_by: the decisions of a type in the order of their times, each
\* with the nearest earlier one that was reviewed.
Earlier(d, f) == d.time < f.time \/ (d.time = f.time /\ Before(d.node, f.node))
Nearest(b, d) ==
    LET before == {f \in b.typed : /\ f.dtype = d.dtype
                                   /\ Earlier(f, d)
                                   /\ f.node \in b.reviewed}
    IN  {<<d.node, "precededBy", f.node>> :
            f \in {g \in before : ~\E h \in before : Earlier(g, h)}}

Materialise(b, events, domain) ==
    [triples |-> b.triples
                 \cup (UNION {Glue(b, events, k, domain) : k \in DOMAIN events})
                 \cup (UNION {Nearest(b, d) : d \in b.typed}),
     closure |-> Closure(domain.subclasses @@ BaseSubclass,
                         DOMAIN BaseSubclass
                         \cup {"prov:Agent", "prov:Activity", "prov:Entity"}
                         \cup {events[k].type : k \in DOMAIN events}
                         \cup {d.dtype : d \in b.typed})]

\* The builder after each of the events; every id is known before the first.
Mapping(events) ==
    LET first == [EmptyBuilder EXCEPT !.ids = {Node(events[k]) : k \in DOMAIN events}]
        mapped[k \in 0 .. Len(events)] ==
            IF k = 0 THEN first ELSE MapEvent(mapped[k - 1], events[k])
    IN  mapped

\* Mutant: one pass, so that an event sees only what comes before it.
BuildGraphInOnePass(events, domain) ==
    LET mapped == Mapping(events)
        all == mapped[Len(events)]
    IN  [Materialise(all, events, domain) EXCEPT
            !.triples = all.triples
                \cup (UNION {Glue(mapped[k], events, k, domain) : k \in DOMAIN events})
                \cup (UNION {Nearest(all, d) : d \in all.typed})]

\* build_graph: every event is mapped before the glue is laid.
BuildGraph(events, domain) == Materialise(Mapping(events)[Len(events)], events, domain)

-----------------------------------------------------------------------------
(*        What the events say, whatever the order they come in             *)

GluePredicates == {"danglingRef", "chainVerified", "executesConsequential",
                   "oversightMatches", "actsOnUntrusted", "withinScope",
                   "withinBudget", "precededBy"}

\* The decision d of type t, in the set of events E.
Decides(d, t) == d.type = "Decision" /\ Says(d, "decision_type", t)
ReviewedIn(E, d) == \E r \in E : r.type = "ApprovalDecided" /\ Refers(r, "decision", Node(d))
After(d, f) == f.time < d.time \/ (f.time = d.time /\ f.id < d.id)

\* The triple x of a glue predicate follows from the events E.
Follows(E, domain, e, p, v) ==
    CASE p = "danglingRef" ->
            \E x \in Targets(e) : /\ v = Dangling(x)
                                  /\ IsEventRef(x)
                                  /\ \A o \in E : Node(o) # x
      [] p = "chainVerified" ->
            e.type = "DelegationIssued" /\ v = Flag(ChainVerified(e))
      [] p = "executesConsequential" ->
            /\ e.type = "ToolCall"
            /\ v = Flag(\E d \in E, t \in domain.consequential :
                            Decides(d, t) /\ Refers(e, "decision", Node(d)))
      [] p = "oversightMatches" ->
            /\ e.type = "Decision"
            /\ v = Flag(\A t \in DOMAIN domain.oversight : Says(e, "decision_type", t)
                          => Says(e, "oversight_modality", domain.oversight[t]))
      [] p = "actsOnUntrusted" ->
            /\ e.type \in {"ToolCall", "Decision"}
            /\ v = Flag(\E i \in E : Untrusted(i) /\ Refers(e, "instruction", Node(i)))
      [] p = "withinScope" ->
            /\ e.type \in {"ToolCall", "ResourceAccess"}
            /\ v = Flag(\A d \in E : ~DeniedBy(d, Node(e)))
      [] p = "withinBudget" ->
            /\ e.type \in {"ToolCall", "ResourceAccess"}
            /\ v = Flag(\A d \in E : ~OverBudgetBy(d, Node(e)))
      [] p = "precededBy" ->
            \E d \in E : /\ v = Node(d)
                         /\ e.type = "Decision" /\ Has(e, "decision_type")
                         /\ Decides(d, e.data.decision_type)
                         /\ After(e, d) /\ ReviewedIn(E, d)
                         /\ ~\E m \in E : /\ Decides(m, e.data.decision_type)
                                          /\ After(e, m) /\ After(m, d)
                                          /\ ReviewedIn(E, m)

\* The values a glue triple of E can have.
GlueValues(E) == {Flag(TRUE), Flag(FALSE)} \cup {Node(e) : e \in E}
                 \cup {Dangling(x) : x \in UNION {Targets(e) : e \in E}}

\* Every triple of the graph, in terms of the set of events alone.
TriplesSaid(E, domain) ==
    (UNION {EventTriples(e) : e \in E})
    \cup {<<Node(e), "chainTerminus", PrincipalIri(Last(e.data.acted_for).id)>> :
            e \in {f \in E : Has(f, "acted_for") /\ f.data.acted_for # <<>>}}
    \cup {x \in {<<Node(e), p, v>> : e \in E, p \in GluePredicates, v \in GlueValues(E)} :
            \E e \in E : Node(e) = x[1] /\ Follows(E, domain, e, x[2], x[3])}
=============================================================================
