CONSTANTS
    Workers = {w1, w2}
    Sessions = {s1}
    NoEvent = NoEvent
    InboxCapacity = 2
    OutboxCapacity = 2
    MaxParked = 1
    MaxMessages = 1
    MaxEvents = 2
    MaxRepeats = 1
SPECIFICATION Spec
CHECK_DEADLOCK FALSE
SYMMETRY Symmetry
INVARIANTS TurnsSafe InOrder CountsExact NothingStranded GracefulStopHandlesAll
