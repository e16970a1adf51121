---------------------------- MODULE SeriesInputs ----------------------------
(***************************************************************************)
(* What the runs of an incremental assessment series read, and what one    *)
(* input says relative to others: the window it closes, the events of it   *)
(* that are late, the outcomes it moves (agentce/state.py).  A sequence of *)
(* entries with an `input` and an `id` field stands for the reports made   *)
(* so far.                                                                 *)
(*                                                                         *)
(* An INPUT is everything one run reads: bundle, profile, catalogs; and    *)
(* the engine that runs.  Two inputs over the same bundle have the same    *)
(* DigestOf.  Times are ranks in the order the code compares them in       *)
(* (strings).                                                              *)
(***************************************************************************)
EXTENDS Integers, FiniteSets, Sequences

CONSTANTS
    Inputs,        \* what a run may be given
    Digests,       \* bundle digests
    EngineOf,      \* Inputs -> Engines
    DigestOf,      \* Inputs -> Digests
    Events,        \* accepted evidence events
    EventsOf,      \* Inputs -> SUBSET Events
    TimeOf,        \* Events -> Nat
    StreamOf,      \* Events -> Streams
    Streams,
    DeclaredEnd,   \* Inputs -> Nat \cup {NoEnd}
    Pairs,         \* the (subject, control) pairs
    Outcomes,
    NoOutcome,     \* "this run did not speak about the pair"
    OutcomeOf      \* Inputs -> [Pairs -> Outcomes \cup {NoOutcome}]

Engines == {"python", "typescript", "java"}

NoEnd == -1
Epoch == 0         \* "1970-01-01T00:00:00Z", before every event

ASSUME InputsAssumption ==
    /\ EngineOf \in [Inputs -> Engines]
    /\ DigestOf \in [Inputs -> Digests]
    /\ EventsOf \in [Inputs -> SUBSET Events]
    /\ IsFiniteSet(Events)
    /\ TimeOf \in [Events -> Nat]
    /\ StreamOf \in [Events -> Streams]
    /\ DeclaredEnd \in [Inputs -> Nat \cup {NoEnd}]

ASSUME OutcomesAssumption ==
    /\ NoOutcome \notin Outcomes
    /\ OutcomeOf \in [Inputs -> [Pairs -> Outcomes \cup {NoOutcome}]]

-----------------------------------------------------------------------------
\* The window a run closes: the end its profile declares, else its latest
\* event, else the epoch.
WindowEnd(i) ==
    LET times == {TimeOf[e] : e \in EventsOf[i]}
    IN  IF DeclaredEnd[i] # NoEnd THEN DeclaredEnd[i]
        ELSE IF times = {} THEN Epoch
        ELSE CHOOSE t \in times : \A u \in times : u <= t

\* Events of input i inside a window that ended at `end`, per stream.
LateBefore(i, end) ==
    [s \in Streams |->
        Cardinality({e \in EventsOf[i] : StreamOf[e] = s /\ TimeOf[e] <= end})]

NoneLate == [s \in Streams |-> 0]

\* Only the reference engine speaks of late events and drift, and only it
\* keeps outcomes in the state directory (agentce/state.py); the ports'
\* StateDir has no such field, so their save drops what it held.
Remembers(i) == EngineOf[i] = "python"

NoOutcomes == [p \in Pairs |-> NoOutcome]

\* The outcomes that input i changes, against outcomes known before it.
Moved(known, i) ==
    {[pair |-> p, previous |-> known[p], outcome |-> OutcomeOf[i][p]] :
        p \in {q \in Pairs : /\ OutcomeOf[i][q] # NoOutcome
                             /\ known[q] # NoOutcome
                             /\ known[q] # OutcomeOf[i][q]}}

-----------------------------------------------------------------------------
EntryRange(l) == {l[k] : k \in DOMAIN l}

Seen(l) == {DigestOf[x.input] : x \in EntryRange(l)}

\* The last thing a ledger says about a pair, since its last entry by an
\* engine that does not remember.
Known(l) ==
    [p \in Pairs |->
        LET spoke == {k \in DOMAIN l :
                        /\ OutcomeOf[l[k].input][p] # NoOutcome
                        /\ \A j \in k .. Len(l) : Remembers(l[j].input)}
        IN  IF spoke = {} THEN NoOutcome
            ELSE LET k == CHOOSE k \in spoke : \A j \in spoke : j <= k
                 IN  OutcomeOf[l[k].input][p]]
=============================================================================
