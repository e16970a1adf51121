\* Two processes over one state directory and two report directories, one of
\* which overlapping runs may share; runs over A and B may overlap.
CONSTANTS
    A = A  A2 = A2  B = B  Bt = Bt  C = C
    dA = dA  dB = dB  dC = dC
    pass = pass  fail = fail
    NoOutcome = NoOutcome
    Inputs = {A, A2, B, Bt, C}
    Digests = {dA, dB, dC}
    Outcomes = {pass, fail}
    Events <- MCEvents
    EngineOf <- MCEngineOf
    DigestOf <- MCDigestOf
    EventsOf <- MCEventsOf
    TimeOf <- MCTimeOf
    StreamOf <- MCStreamOf
    Streams = {"s1", "s2"}
    DeclaredEnd <- MCDeclaredEnd
    Pairs <- MCPairs
    OutcomeOf <- MCOutcomeOf
    Procs = {r1, r2}
    None = None
    OutDirs = {"o1", "o2"}
    DirsOf <- MCDirsOf
    Unsupported = {A2}
    Concurrent = {A, B}
    SharedDirs = {"o1"}
    MaxReports = 3
SYMMETRY Processes
SPECIFICATION Spec
INVARIANTS SupersedesOlder OneRunsView StateIsSummary
PROPERTY ImplementsLedger
