SPECIFICATION FairSpec
CONSTANT Runs <- MCRuns
INVARIANTS
    CleanIsComplete
    WithinWindow
PROPERTIES
    RunEnds
CHECK_DEADLOCK FALSE
