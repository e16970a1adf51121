------------------------------ MODULE Adapters ------------------------------
(***************************************************************************)
(* The adapters under adapters/: each turns one export of a vendor's log   *)
(* into evidence events, and adapters/_ingest.py runs one of them.         *)
(*                                                                         *)
(* An export is [form, entries].  Form "lines" is a JSON Lines log, form   *)
(* "otlp" an OTLP document, "undecodable" bytes that are not UTF-8 and     *)
(* "too_deep" JSON nested beyond the parser.  An entry is a record of the  *)
(* fields it has: "id" stands for its stable id (or its trace and span),   *)
(* "time" for its timestamp, "origin" for what its source URI is derived   *)
(* from; a line that is no JSON object is an entry without fields.         *)
(*                                                                         *)
(* What an adapter is told is [class, source, engine, subject], source and *)
(* engine possibly Absent.                                                 *)
(***************************************************************************)
EXTENDS IngestRules, EvidenceGraph

CONSTANTS
    Absent,     \* an option that was not given
    Unnamed     \* the source URI of entries without an origin

LinesAdapters == {"mcp-gateway", "policy-engines", "oversight", "supply-chain", "identity"}
AdapterNames == LinesAdapters \cup {"otel-genai"}
Engines == {"openfga", "opa", "cedar", "governance_toolkit"}
SourceClasses == {"self_report", "enforcement_point", "independent_system"}

NoData == [f \in {} |-> f]
Names(r, fields) == fields \subseteq DOMAIN r
Carry(r, fields) == [f \in fields \cap DOMAIN r |-> r[f]]
\* r with the fields that only `more` has (what @@ does, spelt out: to the
\* provers @@ is a symbol).
With(r, more) ==
    [f \in DOMAIN r \cup DOMAIN more |-> IF f \in DOMAIN r THEN r[f] ELSE more[f]]
OneOf(r, f, S) == f \in DOMAIN r /\ r[f] \in S

\* The order of the ids: by the adapter's (or the engine's) prefix, by the
\* entry, then "" before "#delegation" before "#policy", and "#session-end"
\* before "#session-start".
IdOrder == <<"cedar", "governance_toolkit", "identity", "mcp-gateway", "opa",
              "openfga", "otel-genai", "oversight", "supply-chain">>
Rank(prefix) == CHOOSE k \in DOMAIN IdOrder : IdOrder[k] = prefix
EventId(prefix, entry, part) == 100 * Rank(prefix) + 4 * entry.id + part
Base == 0
DelegationPart == 1
PolicyPart == 2
SessionEndPart == 1
SessionStartPart == 2

\* The envelope every adapter puts around what it maps.
Envelope(told, e, id, time, type, data) ==
    [form |-> "event", id |-> id,
     source |-> IF told.source # Absent THEN told.source
                ELSE IF "origin" \in DOMAIN e THEN e.origin ELSE Unnamed,
     class |-> told.class, stream |-> NoStream, time |-> time,
     subject |-> told.subject, type |-> type, data |-> data]

\* _base_payload: who acted, and for whom.  Adapters write the principals of
\* acted_for as plain strings.
Payload(e) ==
    With(Carry(e, {"agent"}),
         IF Names(e, {"acted_for"}) /\ e.acted_for # <<>>
         THEN [acted_for |-> [k \in DOMAIN e.acted_for |->
                                 [id |-> e.acted_for[k], kind |-> "none"]]]
         ELSE NoData)

-----------------------------------------------------------------------------
(*                           The gateway's log                             *)

\* A delegation block: the principals of a known kind, and its verification.
PrincipalKinds == {"human", "service", "agent"}
DelegationPayload(e, d) ==
    LET chain == IF Names(d, {"chain"})
                 THEN SelectSeq(d.chain, LAMBDA p : p.kind \in PrincipalKinds) ELSE <<>>
    IN  With(With(Payload(e), IF chain # <<>> THEN [chain |-> chain] ELSE NoData),
             IF OneOf(d, "verification", {"verified", "unverified", "failed"})
             THEN [verification |-> d.verification] ELSE NoData)

MethodTypes == "tools/call" :> "ToolCall" @@ "resources/read" :> "ResourceAccess"

\* Mutant: the decision on a call names it, whether or not it was made.
RequestRefAlways(executed, id) == [refs |-> [request |-> EventIri(id)]]

\* method_ref: a decision names the call it was about if that was made.
RequestRef(executed, id) ==
    IF executed THEN [refs |-> [request |-> EventIri(id)]] ELSE NoData

\* _map_entry: what the gateway blocked was not done; a decision it does not
\* know is left out and blocks nothing.
MapGatewayEntry(told, e) ==
    LET Id(part) == EventId("mcp-gateway", e, part)
        executed == OneOf(e, "method", DOMAIN MethodTypes)
                    /\ ~(Names(e, {"policy"}) /\ OneOf(e.policy, "decision", {"deny"}))
        policy == Envelope(told, e, Id(PolicyPart), e.time, "PolicyDecision",
            With(With(Payload(e),
                      IF OneOf(e.policy, "decision",
                               {"allow", "deny", "require_approval", "transform"})
                      THEN [decision |-> e.policy.decision] ELSE NoData),
                 RequestRef(executed, Id(Base))))
        call == Envelope(told, e, Id(Base), e.time, MethodTypes[e.method],
            With(Payload(e), IF Names(e, {"policy"})
                             THEN [refs |-> [authorization |-> EventIri(Id(PolicyPart))]]
                             ELSE NoData))
        delegation == Envelope(told, e, Id(DelegationPart), e.time, "DelegationIssued",
            DelegationPayload(e, e.delegation))
    IN  IF ~Names(e, {"time", "id", "origin"}) THEN <<>>
        ELSE (IF Names(e, {"policy"}) THEN <<policy>> ELSE <<>>)
             \o (IF executed THEN <<call>> ELSE <<>>)
             \o (IF Names(e, {"delegation"}) THEN <<delegation>> ELSE <<>>)

-----------------------------------------------------------------------------
(*               Policy engines, oversight, identity, supply chain         *)

Canonical == [allow |-> "allow", allowed |-> "allow", permit |-> "allow",
              deny |-> "deny", denied |-> "deny", forbid |-> "deny",
              require_approval |-> "require_approval",
              conditional |-> "require_approval", transform |-> "transform"]

MapCheck(told, e) ==
    IF told.engine = "openfga"
    THEN IF Names(e, {"tuple", "allowed"})
         THEN <<Envelope(told, e, EventId("openfga", e, Base), e.time,
                         "AuthzCheck", Payload(e))>> ELSE <<>>
    ELSE IF OneOf(e, "decision", DOMAIN Canonical)
    THEN <<Envelope(told, e, EventId(told.engine, e, Base), e.time, "PolicyDecision",
                    With(Payload(e), [decision |-> Canonical[e.decision]]))>>
    ELSE <<>>

OversightTypes == [approval_requested |-> "ApprovalRequested",
                   approval_decided |-> "ApprovalDecided", override |-> "Override",
                   interrupt |-> "Interrupt", notice |-> "Notice"]
NeedsActor == {"approval_decided", "override", "interrupt"}

\* No record of oversight says which decision it is about; two records of
\* one id have one event id, whatever their kinds.
MapOversight(told, e) ==
    IF /\ OneOf(e, "kind", DOMAIN OversightTypes)
       /\ e.kind \in NeedsActor => Names(e, {"actor"})
       /\ e.kind = "approval_decided" => Names(e, {"session_ref"})
    THEN <<Envelope(told, e, EventId("oversight", e, Base), e.time,
                    OversightTypes[e.kind], Payload(e))>>
    ELSE <<>>

MapIdentity(told, e) ==
    IF Names(e, {"token_ref"})
    THEN <<Envelope(told, e, EventId("identity", e, Base), e.time,
                    "DelegationIssued", DelegationPayload(e, e))>>
    ELSE <<>>

\* _verify, with the trusted keys adapters/_ingest.py passes: none.
TrustedKeys == {}
VerificationOf(e) ==
    IF ~Names(e, {"key_id"}) THEN "unverified"
    ELSE IF e.key_id \notin TrustedKeys THEN "failed"
    ELSE IF Names(e, {"observed"}) /\ e.observed # e.digests THEN "failed"
    ELSE "verified"

MapSupplyChain(told, e) ==
    LET Event(type, more) ==
            <<Envelope(told, e, EventId("supply-chain", e, Base), e.time, type,
                       With(Payload(e), more))>>
    IN  IF OneOf(e, "kind", {"bundle_loaded"})
        THEN Event("BundleLoaded", Carry(e, {"components"}))
        ELSE IF OneOf(e, "kind", {"attestation"})
        THEN Event("Attestation", [verification |-> VerificationOf(e)])
        ELSE <<>>

-----------------------------------------------------------------------------
(*                           The trace export                              *)

ModelOperations == {"chat", "text_completion", "generate_content", "embeddings"}
SpanTypes == [o \in ModelOperations |-> "ModelCall"]
             @@ "execute_tool" :> "ToolCall"
             @@ [o \in {"retrieve", "retrieval"} |-> "ResourceAccess"]
             @@ "memory.write" :> "MemoryWrite" @@ "memory.read" :> "MemoryRead"

\* _rfc3339_millis drops what is below a millisecond: here two ticks make one.
Millis(ticks) == ticks \div 2

\* _map_span: a span's time is its start, or its end.
MapSpan(told, e) ==
    LET start == IF Names(e, {"start"}) THEN Millis(e.start) ELSE Millis(e.end)
        end == IF Names(e, {"end"}) THEN Millis(e.end) ELSE start
        Event(part, time, type) ==
            Envelope(told, e, EventId("otel-genai", e, part), time, type, Carry(e, {"agent"}))
    IN  IF ~Names(e, {"operation"}) \/ {"start", "end"} \cap DOMAIN e = {} THEN <<>>
        ELSE IF e.operation \in {"invoke_agent", "invoke_workflow"}
        THEN <<Event(SessionStartPart, start, "SessionStart"),
               Event(SessionEndPart, end, "SessionEnd")>>
        ELSE IF e.operation \in DOMAIN SpanTypes
        THEN <<Event(Base, start, SpanTypes[e.operation])>>
        ELSE <<>>

-----------------------------------------------------------------------------
(*                            adapt and _ingest.py                         *)

\* Why the adapter is not run, or gives up; "none" if it does its work.
AdaptTrouble(adapter, told, export) ==
    IF adapter \notin AdapterNames THEN "unknown_adapter"
    ELSE IF (told.engine # Absent) # (adapter = "policy-engines") THEN "bad_arguments"
    ELSE IF told.class \notin SourceClasses THEN "bad_source_class"
    ELSE IF adapter = "oversight" /\ told.class = "independent_system"
         THEN "class_justification_required"
    ELSE IF adapter = "policy-engines" /\ told.engine \notin Engines THEN "unknown_engine"
    ELSE IF export.form \in {"undecodable", "too_deep"} THEN export.form
    ELSE IF adapter = "otel-genai" /\ export.form # "otlp" THEN "not_otlp"
    ELSE "none"

Required(adapter) ==
    IF adapter = "policy-engines" THEN {"time", "id"} ELSE {"time", "id", "format"}

\* The events of one entry; one it cannot map is skipped.
MapEntry(adapter, told, e) ==
    IF adapter = "otel-genai" THEN MapSpan(told, e)
    ELSE IF adapter = "mcp-gateway" THEN MapGatewayEntry(told, e)
    ELSE IF ~Names(e, Required(adapter)) THEN <<>>
    ELSE CASE adapter = "policy-engines" -> MapCheck(told, e)
           [] adapter = "oversight" -> MapOversight(told, e)
           [] adapter = "identity" -> MapIdentity(told, e)
           [] adapter = "supply-chain" -> MapSupplyChain(told, e)

\* Events in the order of (time, id), those of one key as they came.
Sorts(a, b) == a.time < b.time \/ (a.time = b.time /\ a.id < b.id)
Insert(sorted, e) ==
    InsertAt(sorted, Cardinality({k \in DOMAIN sorted : ~Sorts(e, sorted[k])}) + 1, e)
Sorting(events) ==
    LET sorted[k \in 0 .. Len(events)] ==
            IF k = 0 THEN <<>> ELSE Insert(sorted[k - 1], events[k])
    IN  sorted
SortEvents(events) == Sorting(events)[Len(events)]

\* The events of the entries, one after the other.
MappingOf(adapter, told, entries) ==
    LET mapped[k \in 0 .. Len(entries)] ==
            IF k = 0 THEN <<>>
            ELSE mapped[k - 1] \o MapEntry(adapter, told, entries[k])
    IN  mapped
MapEntries(adapter, told, entries) == MappingOf(adapter, told, entries)[Len(entries)]

\* adapt: a log adapter finds no entry in an OTLP document.
Adapt(adapter, told, export) ==
    IF (export.form = "otlp") # (adapter = "otel-genai") THEN <<>>
    ELSE SortEvents(MapEntries(adapter, told, export.entries))
=============================================================================
