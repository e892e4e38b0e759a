CONSTANTS
    Producers = {p1, p2}
    Consumers = {c1, c2}
    Closers = {x1, x2}
    Values = {a, b}
    Capacity = 2
SPECIFICATION FairSpec
INVARIANTS
    NoLostWakeup
PROPERTIES
    WakeupsArrive
    ImplementsQueue
