SPECIFICATION FairSpec
CONSTANTS
    MaxInFlight = 3
    MaxAny = 2
INVARIANTS
    Coherent
    InStep
PROPERTIES
    NegotiationEnds
CHECK_DEADLOCK FALSE
