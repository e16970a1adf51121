---------------------------- MODULE MCIntegrity ----------------------------
(***************************************************************************)
(* A small instance of Integrity: one source keeps two chains for two      *)
(* subjects; the first is named "source|subject" after the specification   *)
(* and signed at the source, the second has a name of its own and is       *)
(* anchored, or chained after the export.                                  *)
(***************************************************************************)
EXTENDS IntegrityPorts

CONSTANTS x, xa, xb, m

MCChains == {1, 2}
MCKeyName == <<xa, m>>
MCSourceOf == <<x, x>>
MCPairOf == <<xa, xb>>
MCStrengthsOf == <<{"source_signed"}, {"export_anchored", "export_chained"}>>
MCKeyOrder == <<m, xa, xb>>

At(form, time) == [form |-> form, time |-> time]

\* The second chain's anchors: as they should be, unreadable, read by one
\* engine or another, and not comparable.
MCAnchorSets ==
    {[k \in Keys |-> IF k = m THEN listed ELSE {}] :
        listed \in {{At("offset", 1)}, {At("none", 1)},
                   {At("basic", 1), At("words", 2)}, {At("offset", 1), At("local", 2)}}}
=============================================================================
