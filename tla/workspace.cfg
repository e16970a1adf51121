SPECIFICATION Spec
CHECK_DEADLOCK FALSE
CONSTANTS
    NoStream = NoStream
    NoClass = NoClass
    NoFile = NoFile
    Torn = Torn
    NoDigest = NoDigest
    NoExit = NoExit
    NoCounts = NoCounts
    NoExpectation = NoExpectation
    NoEnvelope = NoEnvelope
    Unreadable = Unreadable
    NoCertificate = NoCertificate
    NoShape = NoShape
    NoGate = NoGate
    BadGate = BadGate
    Nothing = Nothing
    Absent = Absent
    Unnamed = Unnamed
    EvidenceCap = 1
    MaxListed = 2
    SafeName <- MCSafeName
    Census = Census
    NoField = NoField
    NotNumber = NotNumber
    NoThreshold = NoThreshold
    Unconverged <- MCUnconverged
    Broken = Broken
    HashRank <- MCHashRank
    NoDates = NoDates
    MaxDeviationDays = 180
    Bases <- MCBases
    Tellings <- MCTellings
    Revisions <- MCRevisions
    Vendored <- MCVendored
    Scenarios <- MCScenarios
    Spelled <- MCSpelled
INVARIANT LoadsWhatOneCommandWrote
INVARIANT AdaptedStandsAlone
INVARIANT GraphSaysWhatTheEventsSay
INVARIANT CoverageNeverFlatters
INVARIANT BackedVerdicts
INVARIANT OnlyVerifiedCatalogsJudge
INVARIANT ExitTellsTheReport
INVARIANT VerdictsFollowFromTheEvents
INVARIANT RenderingsAgree
INVARIANT DocumentsAgree
INVARIANT ReadyReportIsWhole
INVARIANT MetricsMeanWhatTheySay
INVARIANT EnginesAgree
INVARIANT ShapesReadAlike
INVARIANT LiteralsOrderAsInstants
INVARIANT ReadOnlyCommandsAgree
INVARIANT SuiteTellsTheEnginesApart
