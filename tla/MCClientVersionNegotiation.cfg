SPECIFICATION FairSpec
CONSTANTS
    MaxVersion = 3
    RequestSize = 2
    kPacketHeaderSize = 2
    kMaxPacketSize = 4
    SendBuffer = 1
INVARIANTS AgreedIsHighestCommon RestIsLeft
PROPERTIES ClientReturns
CHECK_DEADLOCK FALSE
