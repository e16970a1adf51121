--------------------------- MODULE Applicability ---------------------------
(***************************************************************************)
(* The applicability statements (agentce/applicability.py): what a profile *)
(* declares of each subject against what the events show of it.            *)
(***************************************************************************)
EXTENDS Naturals, Sequences, FiniteSets

\* effective_roles
EffectiveRoles(role) ==
    CASE role = "both" -> {"deployer", "provider"}
      [] role \in {"deployer", "provider"} -> {role}
      [] OTHER -> {"deployer"}

\* _role_applies
RoleApplies(roles, targets) ==
    roles \cap (targets \cup IF "both" \in targets THEN {"deployer", "provider"} ELSE {})
    # {}

About(events, s) == {events[k] : k \in {j \in DOMAIN events : events[j].subject = s}}

\* A field of the data of the events of one type.
Values(E, type, f) ==
    {e.data[f] : e \in {x \in E : x.type = type /\ f \in DOMAIN x.data}}

ObservedDecisionTypes(E) == Values(E, "Decision", "decision_type")

\* A component by its name, one by its id, and those a bundle loads.
ObservedComponents(E) ==
    Values(E, "Component", "name") \cup Values(E, "Component", "id")
    \cup UNION Values(E, "BundleLoaded", "components")

Drifts(kind, refs) == {[kind |-> kind, ref |-> r] : r \in refs}

\* resolve_subject, and for the first subject what resolve adds of subjects
\* nobody declared.
Statement(subjects, k, events) ==
    LET s == subjects[k]
        E == About(events, s.id)
        declared == {subjects[j].id : j \in DOMAIN subjects}
    IN  [subject |-> s.id,
         roles |-> EffectiveRoles(s.role),
         drift |-> Drifts("undeclared_decision_type",
                          ObservedDecisionTypes(E) \ s.decision_types)
                   \cup Drifts("undeclared_component", ObservedComponents(E) \ s.components)
                   \cup (IF k = 1
                         THEN Drifts("undeclared_subject",
                                     {events[j].subject : j \in DOMAIN events} \ declared)
                         ELSE {})]

Statements(subjects, events) ==
    [k \in DOMAIN subjects |-> Statement(subjects, k, events)]
=============================================================================
