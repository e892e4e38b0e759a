CONSTANTS
    Workers = {w1, w2}
    Sessions = {s1}
    NoEvent = NoEvent
    InboxCapacity = 2
    OutboxCapacity = 1
    MaxParked = 1
    MaxMessages = 1
    MaxEvents = 2
    MaxRepeats = 0
SPECIFICATION FairSpec
CHECK_DEADLOCK FALSE
PROPERTIES EventsEnd StopEndsWorkers
