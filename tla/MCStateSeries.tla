--------------------------- MODULE MCStateSeries ---------------------------
(***************************************************************************)
(* A small instance of StateSeries.  Bundle A holds two events of one      *)
(* stream; B is A plus an event of a second stream inside A's window (the  *)
(* late arrival of conformance/late_event.py) and says nothing about one   *)
(* of the pairs; C reaches past the window its profile declares and is     *)
(* assessed by Java.  Input A2 is bundle A under a profile that leads to a *)
(* verdict without evidence; Bt is bundle B with TypeScript.               *)
(***************************************************************************)
EXTENDS StateSeries, TLC

CONSTANTS A, A2, B, Bt, C,       \* inputs
          dA, dB, dC,            \* bundle digests
          pass, fail             \* outcomes

MCInputs == {A, A2, B, Bt, C}
MCEngineOf ==
    [i \in MCInputs |->
        IF i = Bt THEN "typescript" ELSE IF i = C THEN "java" ELSE "python"]
MCDigestOf == (A :> dA) @@ (A2 :> dA) @@ (B :> dB) @@ (Bt :> dB) @@ (C :> dC)
MCEvents == 1 .. 4
MCEventsOf ==
    (A :> {1, 3}) @@ (A2 :> {1, 3}) @@ (B :> {1, 2, 3}) @@ (Bt :> {1, 2, 3})
      @@ (C :> {1, 3, 4})
MCTimeOf == <<1, 2, 3, 5>>
MCStreamOf == <<"s1", "s2", "s1", "s1">>
\* C's profile declares its window; the others close at their last event.
MCDeclaredEnd == [i \in MCInputs |-> IF i = C THEN 4 ELSE NoEnd]
MCPairs == {"p", "q"}
MCOutcomeOf ==
    (A :> [p |-> pass, q |-> fail]) @@ (A2 :> [p |-> pass, q |-> NoOutcome])
      @@ (B :> [p |-> fail, q |-> NoOutcome]) @@ (Bt :> [p |-> fail, q |-> NoOutcome])
      @@ (C :> [p |-> pass, q |-> pass])

\* The report directory a run over each input is given.
MCDirsOf ==
    (A :> {"o1"}) @@ (A2 :> {"o1"}) @@ (B :> {"o2"}) @@ (Bt :> {"o2"}) @@ (C :> {"o1"})

\* Which process makes a run does not matter.
Processes == Permutations(Procs)
=============================================================================
