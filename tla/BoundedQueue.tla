---------------------------- MODULE BoundedQueue ----------------------------
(***************************************************************************)
(* What rss::util::BoundedBlockingQueue promises its callers: a FIFO of at  *)
(* most Capacity values whose push and pop are single steps.  Once closed   *)
(* it takes nothing more, and what it still holds can be popped.            *)
(* BoundedBlockingQueue implements it with a mutex and two condition        *)
(* variables; WorkerPool and the modules above it use the queue as it is    *)
(* specified here.                                                          *)
(***************************************************************************)
EXTENDS Naturals, Sequences

CONSTANTS Values,    \* what the queue carries
          Capacity   \* BoundedBlockingQueue::capacity_

VARIABLES queue,     \* the values held, oldest first
          closed     \* close() has been called

vars == <<queue, closed>>

Init == queue = <<>> /\ closed = FALSE

Push(v) ==
    /\ ~closed
    /\ Len(queue) < Capacity
    /\ queue' = Append(queue, v)
    /\ UNCHANGED closed

Pop ==
    /\ queue # <<>>
    /\ queue' = Tail(queue)
    /\ UNCHANGED closed

Close ==
    /\ closed' = TRUE
    /\ UNCHANGED queue

Next == (\E v \in Values : Push(v)) \/ Pop \/ Close

Spec == Init /\ [][Next]_vars
=============================================================================
