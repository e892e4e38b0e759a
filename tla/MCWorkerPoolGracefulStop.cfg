CONSTANTS
    Workers = {w1, w2}
    Sessions = {s1}
    NoEvent = NoEvent
    InboxCapacity = 2
    OutboxCapacity = 1
    MaxParked = 1
    MaxMessages = 1
    MaxEvents = 1
    MaxRepeats = 0
SPECIFICATION Spec
CHECK_DEADLOCK FALSE
INVARIANTS
    GracefulStopWaits
