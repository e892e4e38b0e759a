SPECIFICATION RouterSpec
CONSTANTS
    Sessions = {s1, s2}
    MaxRoomId = 2
    Setups <- MCSetups
INVARIANTS
    RoomsConsistent
    EachRequestAnswered
    TellsRooms
    VersionFirst
    NoGhosts
PROPERTIES
    BroadcastStaysInRoom
SYMMETRY SessionSymmetry
CHECK_DEADLOCK FALSE
