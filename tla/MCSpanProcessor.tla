-------------------------- MODULE MCSpanProcessor --------------------------
(***************************************************************************)
(* Small instances of SpanProcessor: a model call inside an agent's        *)
(* session, and a span the adapter does not know.  The session's id ranks  *)
(* and times are those of a nested trace: the outer span starts first and  *)
(* ends last.                                                              *)
(***************************************************************************)
EXTENDS SpanProcessor, TLC

CONSTANTS chat, agent, other

MCSpans == {chat, agent, other}
MCOp == (chat :> "call") @@ (agent :> "session") @@ (other :> "other")
MCStart == (chat :> 2) @@ (agent :> 1) @@ (other :> 3)
MCEnd == (chat :> 3) @@ (agent :> 4) @@ (other :> 4)

TwoSpans == {chat, agent}
TwoOp == [s \in TwoSpans |-> MCOp[s]]
TwoStart == [s \in TwoSpans |-> MCStart[s]]
TwoEnd == [s \in TwoSpans |-> MCEnd[s]]
=============================================================================
