\* Two threads emit, either may flush, and the directory is used twice.
CONSTANTS
    NoStream = NoStream
    NoClass = NoClass
    Main = main
    Threads = {main, worker}
    FromAuto = TRUE
    OneFlusher = TRUE
    IOFails = TRUE
    Source = "urn:agentce:emit:local"
    Class = "self_report"
    Base = 10
    Absent = Absent
    Invalid = Invalid
    MaxEvents = 2
    MaxRuns = 2
SPECIFICATION FairSpec
INVARIANTS AcceptedIsWhole SerialIsClean
PROPERTY LeavesABundle
\* The last process ends and nothing follows it.
CHECK_DEADLOCK FALSE
