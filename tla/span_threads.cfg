\* Two threads emit, end spans and drain at once.
CONSTANTS
    NoStream = NoStream
    NoClass = NoClass
    Main = main
    Threads = {main, worker}
    FromAuto = TRUE
    IOFails = TRUE
    OneFlusher = TRUE
    Source = "urn:agentce:emit:local"
    Class = "self_report"
    Base = 10
    Absent = Absent
    Invalid = Invalid
    MaxEvents = 2
    MaxRuns = 1
    chat = chat
    agent = agent
    other = other
    NoSpan = NoSpan
    Spans <- TwoSpans
    Op <- TwoOp
    Start <- TwoStart
    End <- TwoEnd
    Extras = {TRUE, FALSE}
SPECIFICATION SpanSpec
INVARIANT SpansConserved
\* The process ends and nothing follows it.
CHECK_DEADLOCK FALSE
