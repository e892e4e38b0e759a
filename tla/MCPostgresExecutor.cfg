SPECIFICATION FairSpec
CONSTANTS
    Threads = {w1, w2}
    Names = {n1}
    PerName = 3
    QueueCapacity = 1
    FaultSets <- MCFaultSets
INVARIANTS
    NoUseAfterFinish
    RaceIsNoError
PROPERTIES
    EveryRequestAnswered
    ImplementsRepository
CHECK_DEADLOCK FALSE
