------------------------ MODULE BoundedBlockingQueue ------------------------
(***************************************************************************)
(* rss::util::BoundedBlockingQueue<T>                                       *)
(* (libs/server-core/include/rss/util/BoundedBlockingQueue.h).              *)
(*                                                                          *)
(* Each section under mutex_ is one step.  notify_one() and notify_all()    *)
(* are called after the mutex is released, so each is a step of its own and *)
(* any thread may run between the section and its notification.  A thread   *)
(* inside condition_variable::wait is in pc "wait"; a notification (or a    *)
(* spurious wakeup) moves it to "woken", and when it has the mutex again it *)
(* evaluates the loop condition once more.                                  *)
(***************************************************************************)
EXTENDS Naturals, Sequences, FiniteSets

CONSTANTS Producers,  \* threads that call push and tryPush
          Consumers,  \* threads that call pop and tryPop
          Closers,    \* threads that call close
          Values,     \* what the queue carries
          Capacity    \* capacity_

\* The constructor throws on capacity 0 (lines 31-35); threads are finite and
\* a thread is in one role at a time.
ASSUME QueueAssumption ==
    /\ Capacity \in Nat \ {0}
    /\ IsFiniteSet(Producers) /\ IsFiniteSet(Consumers)
    /\ Producers \cap Consumers = {}

VARIABLES queue,   \* queue_
          closed,  \* closed_
          ppc,     \* where each producer is
          cpc,     \* where each consumer is
          xpc      \* where each closer is

vars == <<queue, closed, ppc, cpc, xpc>>

-----------------------------------------------------------------------------
\* The producers and consumers inside wait() on each condition variable.
WaitingProducers == {p \in Producers : ppc[p] = "wait"}
WaitingConsumers == {c \in Consumers : cpc[c] = "wait"}
\* Notified, but not yet past the reacquisition of the mutex.
WokenProducers == {p \in Producers : ppc[p] = "woken"}
WokenConsumers == {c \in Consumers : cpc[c] = "woken"}
\* Past the section, before the notify_one() that follows it.
NotifyingProducers == {p \in Producers : ppc[p] = "notify"}
NotifyingConsumers == {c \in Consumers : cpc[c] = "notify"}

\* Types; the queue never holds more than capacity_ values, so the test for
\* equality in push and tryPush (lines 41 and 55) is never stepped over.
TypeOK ==
    /\ queue \in Seq(Values)
    /\ Len(queue) <= Capacity
    /\ closed \in BOOLEAN
    /\ ppc \in [Producers -> {"idle", "wait", "woken", "notify"}]
    /\ cpc \in [Consumers -> {"idle", "wait", "woken", "notify"}]
    /\ xpc \in [Closers -> {"idle", "notifyEmpty", "notifyFull"}]

Full == Len(queue) = Capacity

Init ==
    /\ queue = <<>>
    /\ closed = FALSE
    /\ ppc = [p \in Producers |-> "idle"]
    /\ cpc = [c \in Consumers |-> "idle"]
    /\ xpc = [x \in Closers |-> "idle"]

-----------------------------------------------------------------------------
\* push and tryPush without notify_one().
EnqueueMutant(p, v) ==
    /\ queue' = Append(queue, v)
    /\ ppc' = [ppc EXCEPT ![p] = "idle"]
    /\ UNCHANGED <<closed, cpc, xpc>>

\* The value is in the queue and the lock is released; notify_one() is next.
Enqueue(p, v) ==
    /\ queue' = Append(queue, v)
    /\ ppc' = [ppc EXCEPT ![p] = "notify"]
    /\ UNCHANGED <<closed, cpc, xpc>>

\* push: the loop condition holds, so the thread waits (again).
PushWait(p) ==
    /\ ppc[p] \in {"idle", "woken"}
    /\ ~closed /\ Full
    /\ ppc' = [ppc EXCEPT ![p] = "wait"]
    /\ UNCHANGED <<queue, closed, cpc, xpc>>

\* push: out of the loop with the queue closed, the value is refused.
PushRefused(p) ==
    /\ ppc[p] = "woken"
    /\ closed
    /\ ppc' = [ppc EXCEPT ![p] = "idle"]
    /\ UNCHANGED <<queue, closed, cpc, xpc>>

\* push that does not look at closed_ after the loop.
PushMutant(p, v) ==
    /\ ppc[p] \in {"idle", "woken"}
    /\ ~Full
    /\ Enqueue(p, v)

\* push: out of the loop with room; from "idle" it is also a tryPush that
\* succeeds.  A tryPush on a closed or full queue changes nothing.
Push(p, v) ==
    /\ ppc[p] \in {"idle", "woken"}
    /\ ~closed /\ ~Full
    /\ Enqueue(p, v)

\* not_empty_.notify_one() after push or tryPush: lost when nobody waits.
NotifyNotEmpty(p) ==
    /\ ppc[p] = "notify"
    /\ ppc' = [ppc EXCEPT ![p] = "idle"]
    /\ \/ WaitingConsumers = {} /\ UNCHANGED cpc
       \/ \E c \in WaitingConsumers : cpc' = [cpc EXCEPT ![c] = "woken"]
    /\ UNCHANGED <<queue, closed, xpc>>

-----------------------------------------------------------------------------
\* The front value leaves and the lock is released; notify_one() is next.
Dequeue(c) ==
    /\ queue' = Tail(queue)
    /\ cpc' = [cpc EXCEPT ![c] = "notify"]
    /\ UNCHANGED <<closed, ppc, xpc>>

\* pop: the loop condition holds, so the thread waits (again).
PopWait(c) ==
    /\ cpc[c] \in {"idle", "woken"}
    /\ ~closed /\ queue = <<>>
    /\ cpc' = [cpc EXCEPT ![c] = "wait"]
    /\ UNCHANGED <<queue, closed, ppc, xpc>>

\* pop: closed and nothing left.
PopRefused(c) ==
    /\ cpc[c] = "woken"
    /\ closed /\ queue = <<>>
    /\ cpc' = [cpc EXCEPT ![c] = "idle"]
    /\ UNCHANGED <<queue, closed, ppc, xpc>>

\* pop: a value is there, whether the queue is closed or not; from "idle" it
\* is also a tryPop that succeeds.  A tryPop on an empty queue changes nothing.
Pop(c) ==
    /\ cpc[c] \in {"idle", "woken"}
    /\ queue # <<>>
    /\ Dequeue(c)

\* notify_one() on the wrong condition variable.
NotifyNotFullMutant(c) ==
    /\ cpc[c] = "notify"
    /\ \/ WaitingConsumers = {} /\ cpc' = [cpc EXCEPT ![c] = "idle"]
       \/ \E d \in WaitingConsumers :
             cpc' = [cpc EXCEPT ![c] = "idle", ![d] = "woken"]
    /\ UNCHANGED <<queue, closed, ppc, xpc>>

\* not_full_.notify_one() after pop or tryPop.
NotifyNotFull(c) ==
    /\ cpc[c] = "notify"
    /\ cpc' = [cpc EXCEPT ![c] = "idle"]
    /\ \/ WaitingProducers = {} /\ UNCHANGED ppc
       \/ \E p \in WaitingProducers : ppc' = [ppc EXCEPT ![p] = "woken"]
    /\ UNCHANGED <<queue, closed, xpc>>

-----------------------------------------------------------------------------
\* close: the flag is set under the mutex, the two notify_all() follow.
Close(x) ==
    /\ xpc[x] = "idle"
    /\ closed' = TRUE
    /\ xpc' = [xpc EXCEPT ![x] = "notifyEmpty"]
    /\ UNCHANGED <<queue, ppc, cpc>>

CloseNotifyNotEmpty(x) ==
    /\ xpc[x] = "notifyEmpty"
    /\ cpc' = [c \in Consumers |-> IF cpc[c] = "wait" THEN "woken" ELSE cpc[c]]
    /\ xpc' = [xpc EXCEPT ![x] = "notifyFull"]
    /\ UNCHANGED <<queue, closed, ppc>>

CloseNotifyNotFull(x) ==
    /\ xpc[x] = "notifyFull"
    /\ ppc' = [p \in Producers |-> IF ppc[p] = "wait" THEN "woken" ELSE ppc[p]]
    /\ xpc' = [xpc EXCEPT ![x] = "idle"]
    /\ UNCHANGED <<queue, closed, cpc>>

\* condition_variable::wait may return without a notification.
SpuriousWakeup ==
    \/ \E p \in WaitingProducers :
          /\ ppc' = [ppc EXCEPT ![p] = "woken"]
          /\ UNCHANGED <<queue, closed, cpc, xpc>>
    \/ \E c \in WaitingConsumers :
          /\ cpc' = [cpc EXCEPT ![c] = "woken"]
          /\ UNCHANGED <<queue, closed, ppc, xpc>>

-----------------------------------------------------------------------------
Next ==
    \/ \E p \in Producers :
          \/ \E v \in Values : Push(p, v)
          \/ PushWait(p) \/ PushRefused(p) \/ NotifyNotEmpty(p)
    \/ \E c \in Consumers :
          Pop(c) \/ PopWait(c) \/ PopRefused(c) \/ NotifyNotFull(c)
    \/ \E x \in Closers :
          Close(x) \/ CloseNotifyNotEmpty(x) \/ CloseNotifyNotFull(x)
    \/ SpuriousWakeup

Spec == Init /\ [][Next]_vars

(***************************************************************************)
(* A thread that holds or is handed the mutex goes on: it finishes the loop *)
(* after a wakeup and it makes the notifications it owes.  Nobody is obliged *)
(* to call an operation.                                                    *)
(***************************************************************************)
Fairness ==
    /\ \A p \in Producers :
          /\ WF_vars(NotifyNotEmpty(p))
          /\ WF_vars(ppc[p] = "woken" /\ (PushWait(p) \/ PushRefused(p)
                                          \/ \E v \in Values : Push(p, v)))
    /\ \A c \in Consumers :
          /\ WF_vars(NotifyNotFull(c))
          /\ WF_vars(cpc[c] = "woken" /\ (PopWait(c) \/ PopRefused(c) \/ Pop(c)))
    /\ \A x \in Closers :
          WF_vars(CloseNotifyNotEmpty(x) \/ CloseNotifyNotFull(x))

FairSpec == Spec /\ Fairness

-----------------------------------------------------------------------------
\* While a consumer sleeps on not_empty_, every value in the queue has a
\* wakeup on its way: a push whose notify_one() is still to come, or a consumer
\* already notified.  So a value is never left behind by a notification that
\* was sent too early or to nobody (lines 47, 66 and 74-78).
NoLostNotEmpty ==
    (WaitingConsumers # {} /\ ~closed) =>
        Len(queue) <= Cardinality(NotifyingProducers)
                      + Cardinality(WokenConsumers)

\* While a producer sleeps on not_full_, every free slot has a wakeup on its
\* way (lines 55-59, 86 and 102).
NoLostNotFull ==
    (WaitingProducers # {} /\ ~closed) =>
        Capacity - Len(queue) <= Cardinality(NotifyingConsumers)
                                 + Cardinality(WokenProducers)

\* After close() a sleeper has the notify_all() of some closer still ahead of
\* it (lines 106-113): nobody goes to sleep on a closed queue.
CloseReachesSleepers ==
    closed =>
        /\ WaitingConsumers # {} => \E x \in Closers : xpc[x] = "notifyEmpty"
        /\ WaitingProducers # {} => \E x \in Closers : xpc[x] # "idle"

\* No notification is lost, although each is sent after the mutex is released.
NoLostWakeup == NoLostNotEmpty /\ NoLostNotFull /\ CloseReachesSleepers

\* It is never the case for good that everyone sleeps on work that is there.
SleepersWoken ==
    /\ (queue # <<>> /\ WaitingConsumers = Consumers)
          ~> (WaitingConsumers # Consumers)
    /\ (~Full /\ WaitingProducers = Producers)
          ~> (WaitingProducers # Producers)

\* close() releases every blocked push and pop, and none blocks afterwards.
CloseReleasesAll ==
    closed ~> [](/\ \A p \in Producers : ppc[p] \notin {"wait", "woken"}
                 /\ \A c \in Consumers : cpc[c] \notin {"wait", "woken"})

\* Whoever sleeps in push or pop for something that has come is woken.
WakeupsArrive == SleepersWoken /\ CloseReleasesAll

Abstract == INSTANCE BoundedQueue

\* The queue as its callers see it: a FIFO with atomic push and pop.
ImplementsQueue == Abstract!Spec
=============================================================================
