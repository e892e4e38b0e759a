-------------------------- MODULE MCMessageRouter ---------------------------
(***************************************************************************)
(* Three setups: sessions that come and go between rooms; sessions that send *)
(* anything, with messages that may not fit the byte budget; a budget of one *)
(* message, which cuts broadcasts off.                                       *)
(***************************************************************************)
EXTENDS MessageRouter

MCSetups ==
    {[packets |-> {"version", "login", "create", "join", "leave"},
      budget |-> 3, mayNotFit |-> FALSE, maxPackets |-> 5],
     [packets |-> {"version", "invalid", "login", "create", "join", "chat",
                   "position", "ping"},
      budget |-> 2, mayNotFit |-> TRUE, maxPackets |-> 4],
     [packets |-> {"version", "login", "create", "join", "chat"},
      budget |-> 1, mayNotFit |-> FALSE, maxPackets |-> 4]}

\* No action tells one session from another.
SessionSymmetry == Permutations(Sessions)
=============================================================================
