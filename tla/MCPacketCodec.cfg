SPECIFICATION CodecSpec
CONSTANTS
    Base = 3
    MaxPacketSize = 6
    Threshold = 5
    Payloads <- MCPayloads
    BadSizes = {0, 3, 7}
    MaxPackets = 4
INVARIANTS ReceivedIsSent ErrorIsJustified LittleWaste
CHECK_DEADLOCK FALSE
