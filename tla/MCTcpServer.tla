---------------------------- MODULE MCTcpServer ----------------------------
(***************************************************************************)
(* Configurations of TcpServer with the environments they meet, one for      *)
(* each way the I/O thread is put under pressure.                            *)
(***************************************************************************)
EXTENDS TcpServer

Base ==
    [max_sessions |-> 1, capacity |-> 3, high |-> 2, low |-> 1,
     outbox_capacity |-> 1, max_pending |-> 1, workers |-> 1, accept_limit |-> 2,
     drain_limit |-> 1, work_limit |-> 2, flush_limit |-> 1,
     connections |-> 1, packets |-> 3, messages |-> 0, deferrals |-> 0,
     sizes |-> {1}, happens |-> {}]

\* Two sessions share the inbox, with malformed frames.
TwoSessions ==
    [Base EXCEPT !.max_sessions = 2, !.connections = 2,
                 !.happens = {"bad"}]

\* A descriptor is used again while its first session has input put off.
Reuse ==
    [Base EXCEPT !.capacity = 2, !.connections = 2, !.messages = 1, !.sizes = {}]

\* Writes that are sent in parts or over the limit.
PartialWrites ==
    [Base EXCEPT !.high = 3, !.low = 2, !.outbox_capacity = 2, !.max_pending = 3,
                 !.drain_limit = 2, !.flush_limit = 2, !.sizes = {2},
                 !.packets = 1, !.messages = 3, !.happens = {"reset"}]

\* A message for a session that is gone (idle sessions too) when its descriptor is used again.
LateMessage ==
    [Base EXCEPT !.connections = 2, !.packets = 1, !.messages = 1,
                 !.happens = {"idle"}]

\* stop() at any time: with packets that are put off, or with output.  An
\* accept4 or a set-up that fails.
StoppedInput ==
    [Base EXCEPT !.happens = {"stop"}]
StoppedOutput ==
    [Base EXCEPT !.packets = 2, !.messages = 1,
                 !.happens = {"stop", "accept", "setup"}]

MCConfigs ==
    {TwoSessions, Reuse, PartialWrites, LateMessage, StoppedInput, StoppedOutput}

\* With fairness: reads are paused and resumed, and a server that stops with
\* output, its worker waiting for room in the outbox, or with a deferred event
\* under way.
MCFairConfigs ==
    {[Base EXCEPT !.work_limit = 1, !.deferrals = 1, !.happens = {"reset"}],
     [Base EXCEPT !.work_limit = 1, !.packets = 1, !.messages = 2,
                  !.happens = {"stop"}],
     [Base EXCEPT !.work_limit = 1, !.packets = 1, !.deferrals = 1,
                  !.happens = {"stop"}]}
=============================================================================
