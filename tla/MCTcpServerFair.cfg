SPECIFICATION FairSpec
CONSTANTS
    Fds = {1}
    MaxConnections = 1
    Configs <- MCFairConfigs
PROPERTIES InputMoves StopEnds
CHECK_DEADLOCK FALSE
