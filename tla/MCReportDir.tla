---------------------------- MODULE MCReportDir ----------------------------
(***************************************************************************)
(* Small instances of ReportDir: two renderings, two signers, two runs of  *)
(* the kinds of input that differ in what they leave behind.               *)
(***************************************************************************)
EXTENDS ReportDir

Run(d, s, a, b, e) ==
    [named |-> TRUE, domain |-> d, supported |-> s, asserted |-> a,
     bad |-> b, drift |-> e = <<"md">>, emit |-> e]

MCInputs ==
    {Run(TRUE, TRUE, "judged", {}, <<"md", "sarif">>),
     Run(TRUE, TRUE, "judged", {"assertions"}, <<"md">>),
     Run(TRUE, TRUE, "judged", {"applicability"}, <<"sarif">>),
     Run(TRUE, TRUE, "unjudged", {"coverage"}, <<>>),
     Run(TRUE, TRUE, "none", {}, <<"md">>),
     Run(FALSE, TRUE, "judged", {"integrity"}, <<>>),
     Run(TRUE, FALSE, "judged", {}, <<"sarif">>),
     [Run(TRUE, TRUE, "judged", {}, <<>>) EXCEPT !.named = FALSE]}
=============================================================================
