\* Two chains, three events, up to two mishaps on the way.
CONSTANTS
    NoStream = NoStream
    NoClass = NoClass
    Genesis = Genesis
    x = x
    xa = xa
    xb = xb
    m = m
    Chains <- MCChains
    KeyName <- MCKeyName
    SourceOf <- MCSourceOf
    PairOf <- MCPairOf
    StrengthsOf <- MCStrengthsOf
    KeyOrder <- MCKeyOrder
    Times = {1, 2}
    AnchorSets <- MCAnchorSets
    MaxEvents = 3
    MaxMishaps = 2
SPECIFICATION Spec
INVARIANTS UnbrokenIsRun BreakIsLocated GoodDeliveryVerifies VerifiedIsBacked PortsVerifyAlike
\* The engine stops after its last stream.
CHECK_DEADLOCK FALSE
