-------------------------- MODULE MCScenarioRunner --------------------------
(***************************************************************************)
(* Four runs of the tool: a reliable server and tasks that fail, with no    *)
(* deadline to rely on; rooms of two sizes; an external server that loses,  *)
(* repeats and drops; threads that cannot be started.                       *)
(***************************************************************************)
EXTENDS ScenarioRunner

Base == [fast |-> 2, slow |-> 0, rooms |-> 1, messages |-> 2, window |-> 2, paced |-> TRUE,
         external |-> FALSE, reliable |-> TRUE, failures |-> {}, deadline |-> FALSE]

MCRuns ==
    {[Base EXCEPT !.slow = 1, !.failures = {"setup", "hook"}],
     [Base EXCEPT !.fast = 3, !.rooms = 2],
     [Base EXCEPT !.messages = 1, !.window = 0, !.paced = FALSE, !.external = TRUE,
                  !.reliable = FALSE, !.failures = {"hook"}, !.deadline = TRUE],
     [Base EXCEPT !.messages = 1, !.window = 1, !.reliable = FALSE,
                  !.failures = {"thread"}, !.deadline = TRUE]}
=============================================================================
