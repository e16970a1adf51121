------------------------- MODULE SupersessionLedger -------------------------
(***************************************************************************)
(* What an incremental assessment series promises its reader: a ledger of  *)
(* reports, each entry naming what it supersedes, how much evidence        *)
(* arrived late, and which outcomes moved since the ledger last spoke      *)
(* about them. An entry by an engine that does not remember says nothing   *)
(* of the past but what it supersedes, and the ledger forgets what it had  *)
(* said about outcomes. Nothing here knows about files, process crashes or *)
(* the order in which a run writes its outputs; StateSeries is the         *)
(* program, and it is checked to implement this module.                    *)
(***************************************************************************)
EXTENDS SeriesInputs

CONSTANT Ids       \* report identities, in the order they are minted

VARIABLE ledger    \* the reports of the series, oldest first

\* A bundle the ledger has not seen supersedes the newest report; a bundle
\* it has seen supersedes nothing.
Supersedes(l, i) ==
    IF l = <<>> \/ DigestOf[i] \in Seen(l) THEN {} ELSE {l[Len(l)].id}

Late(l, i) ==
    IF ~Remembers(i) \/ l = <<>> \/ DigestOf[i] \in Seen(l) THEN NoneLate
    ELSE LateBefore(i, WindowEnd(l[Len(l)].input))

Drift(l, i) == IF Remembers(i) THEN Moved(Known(l), i) ELSE {}

Entry(l, n, i) ==
    [id |-> n, input |-> i, supersedes |-> Supersedes(l, i),
     late |-> Late(l, i), drift |-> Drift(l, i)]

LedgerInit == ledger = <<>>

\* A report identity is fresh and later than every one in the ledger.
Assess(n, i) ==
    /\ \A x \in EntryRange(ledger) : x.id < n
    /\ ledger' = Append(ledger, Entry(ledger, n, i))

\* The operator starts a fresh state directory: the series begins anew.
StartAfresh == ledger # <<>> /\ ledger' = <<>>

LedgerNext ==
    \/ \E n \in Ids, i \in Inputs : Assess(n, i)
    \/ StartAfresh

LedgerSpec == LedgerInit /\ [][LedgerNext]_ledger
=============================================================================
