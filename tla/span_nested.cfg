\* One thread ends an inner span and then the one around it.
CONSTANTS
    NoStream = NoStream
    NoClass = NoClass
    Main = main
    Threads = {main}
    FromAuto = TRUE
    IOFails = FALSE
    OneFlusher = TRUE
    Source = "urn:agentce:emit:local"
    Class = "self_report"
    Base = 10
    Absent = Absent
    Invalid = Invalid
    MaxEvents = 0
    MaxRuns = 1
    chat = chat
    agent = agent
    other = other
    NoSpan = NoSpan
    Spans <- TwoSpans
    Op <- TwoOp
    Start <- TwoStart
    End <- TwoEnd
    Extras = {TRUE}
SPECIFICATION SpanSpec
INVARIANT BundleIsClean
\* The process ends and nothing follows it.
CHECK_DEADLOCK FALSE
