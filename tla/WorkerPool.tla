----------------------------- MODULE WorkerPool -----------------------------
(***************************************************************************)
(* rss::net::WorkerPool (libs/server-core/src/net/WorkerPool.cpp): a pool of *)
(* threads that take session events from a shared inbox, run the handler on *)
(* them one at a time and in sequence order per session, and put what it     *)
(* emits into a shared outbox.  A handler may defer: its session then stays  *)
(* active, without a thread, until a completion comes back through the inbox. *)
(*                                                                          *)
(* A step is what a thread does under one lock (intake_mutex_,               *)
(* sequence_mutex_, the mutex of a deferred completion) or one operation on  *)
(* a queue; the queues are as BoundedQueue specifies them.  The pool is the  *)
(* one its constructor builds by default, without notifiers and statistics.  *)
(*                                                                          *)
(* The I/O thread (Enqueue, IoPop, BeginStop, ForceStop), the handler's      *)
(* outcome and the threads that complete deferred events (Complete,          *)
(* PushCompletion) are the pool's environment.                               *)
(***************************************************************************)
EXTENDS Naturals, Sequences, FiniteSets

CONSTANTS
    Workers,             \* the threads start() creates
    Sessions,            \* session ids
    NoEvent,             \* std::nullopt
    InboxCapacity,       \* capacity of inbox_
    OutboxCapacity,      \* capacity of outbox_
    MaxParked,           \* config_.max_parked_events_per_session
    MaxMessages,         \* config_.max_outbound_messages_per_event
    MaxEvents,           \* bound: events the I/O thread makes for a session
    MaxRepeats           \* bound: sequence numbers the producer uses again

Kinds == {"Packet", "Disconnected", "DeferredCompletion"}

\* service::SessionEvent; failed stands for DeferredCompletionPayload::failed.
Event == [kind : Kinds, session : Sessions, sequence : 0..MaxEvents,
          failed : BOOLEAN]

\* service::OutboundMessage, with the event it comes from.  cut is a
\* DisconnectSession message.
Message == [session : Sessions, sequence : 0..MaxEvents, cut : BOOLEAN]

\* The constructor refuses limits of zero (lines 198-203).
ASSUME WorkerPoolAssumption ==
    /\ InboxCapacity \in Nat \ {0}
    /\ OutboxCapacity \in Nat \ {0}
    /\ MaxParked \in Nat \ {0}
    /\ MaxMessages \in Nat \ {0}
    /\ MaxEvents \in Nat
    /\ MaxRepeats \in Nat
    /\ IsFiniteSet(Sessions)
    /\ NoEvent \notin Event

\* start() makes at least one thread (lines 211-218).
ASSUME SomeWorker == Workers # {}

VARIABLES
    inbox, inboxClosed,    \* inbox_ : BoundedBlockingQueue<SessionEvent>
    outbox, outboxClosed,  \* outbox_ : BoundedBlockingQueue<OutboundMessage>
    mapped,                \* the keys of sequence_by_session_
    state,                 \* the SessionSequenceState of each session
    outstanding,           \* outstanding_deferred_
    draining,              \* drain_requested_
    forced,                \* force_stop_requested_
    pc,                    \* where each worker is in run()
    cur,                   \* `current' of each worker
    left,                  \* messages the worker has still to publish
    deferred,              \* the worker's handler has called defer()
    inlined,               \* `inline_completion' of each worker
    completion,            \* the DeferredCompletionState of the last defer()
    pushing,               \* the event a completing thread is about to push
    sent,                  \* events the I/O thread has made for a session
    gone,                  \* it has enqueued the session's Disconnected
    repeated,              \* sequence numbers it has used again
    handled,               \* history: the events given to the handler
    cuts                   \* history: disconnects requested for a session

queues == <<inbox, inboxClosed, outbox, outboxClosed>>
sessionVars == <<mapped, state, outstanding>>
stopVars == <<draining, forced>>
completionVars == <<completion, pushing>>
ioVars == <<sent, gone, repeated>>
history == <<handled, cuts>>
shared == <<queues, sessionVars, stopVars, completionVars, ioVars, history>>
locals == <<cur, left, deferred, inlined>>
workerVars == <<pc, locals>>
vars == <<shared, workerVars>>

-----------------------------------------------------------------------------
\* SessionSequenceState (WorkerPool.h:56-66).
SessionSequenceState ==
    [next : Nat, active : BOOLEAN, activeDisconnect : BOOLEAN,
     awaiting : BOOLEAN, failed : BOOLEAN, closed : BOOLEAN,
     parked : SUBSET Event, early : Event \cup {NoEvent},
     pending : Event \cup {NoEvent}]

FreshState ==
    [next |-> 0, active |-> FALSE, activeDisconnect |-> FALSE,
     awaiting |-> FALSE, failed |-> FALSE, closed |-> FALSE,
     parked |-> {}, early |-> NoEvent, pending |-> NoEvent]

\* DeferredCompletionState, and whether there is one.
DeferredCompletionState ==
    [made : BOOLEAN, sequence : 0..MaxEvents, completed : BOOLEAN,
     returned : BOOLEAN, inline : Event \cup {NoEvent}]

\* How many messages emit() takes from one event: the budget, and after it one
\* DisconnectSession, which is not counted.
Batch == 0..(MaxMessages + 1)

\* Where a worker is in run().
Labels ==
    {"pop",        \* waiting for intake_mutex_ or in inbox_.pop
     "attach",     \* has an event and intake_mutex_, looks up its session
     "start",      \* top of the inner loop, before tryStartSessionTurn
     "discarded",  \* the event was discarded, maybeCloseInbox... is next
     "rejected",   \* InvalidSequence or ParkedLimit, markSessionFailed is next
     "rejectCut",  \* ... publishing the DisconnectSession
     "retry",      \* ... before `continue' or takePendingDisconnected
     "check",      \* has the turn, before shouldSkipFailedSession
     "handler",    \* in handler_.handle
     "broken",     \* the handler threw or the completion failed
     "brokenCut",  \* ... publishing the DisconnectSession
     "publish",    \* publishing what the handler or the completion emitted
     "defer",      \* before markSessionDeferred
     "complete",   \* before completeSessionTurn
     "exited"}     \* run() has returned

\* Types and the limits the configuration sets: queue capacities, parked events.
TypeOK ==
    /\ inbox \in Seq(Event) /\ Len(inbox) <= InboxCapacity
    /\ outbox \in Seq(Message) /\ Len(outbox) <= OutboxCapacity
    /\ inboxClosed \in BOOLEAN /\ outboxClosed \in BOOLEAN
    /\ mapped \in [Sessions -> BOOLEAN]
    /\ state \in [Sessions -> SessionSequenceState]
    /\ outstanding \in Nat
    /\ draining \in BOOLEAN /\ forced \in BOOLEAN
    /\ pc \in [Workers -> Labels]
    /\ cur \in [Workers -> Event \cup {NoEvent}]
    /\ \A w \in Workers : pc[w] \notin {"pop", "exited"} => cur[w] # NoEvent
    /\ left \in [Workers -> Batch]
    /\ deferred \in [Workers -> BOOLEAN]
    /\ inlined \in [Workers -> Event \cup {NoEvent}]
    /\ completion \in [Sessions -> DeferredCompletionState]
    /\ pushing \in [Sessions -> Event \cup {NoEvent}]
    /\ sent \in [Sessions -> 0..MaxEvents]
    /\ gone \in [Sessions -> BOOLEAN] /\ repeated \in 0..MaxRepeats
    /\ handled \in [Sessions -> Seq(Event)]
    /\ cuts \in [Sessions -> Nat]
    /\ \A s \in Sessions : /\ IsFiniteSet(state[s].parked)
                           /\ Cardinality(state[s].parked) <= MaxParked

Init ==
    /\ inbox = <<>> /\ inboxClosed = FALSE
    /\ outbox = <<>> /\ outboxClosed = FALSE
    /\ mapped = [s \in Sessions |-> FALSE]
    /\ state = [s \in Sessions |-> FreshState]
    /\ outstanding = 0
    /\ draining = FALSE /\ forced = FALSE
    /\ pc = [w \in Workers |-> "pop"]
    /\ cur = [w \in Workers |-> NoEvent]
    /\ left = [w \in Workers |-> 0]
    /\ deferred = [w \in Workers |-> FALSE]
    /\ inlined = [w \in Workers |-> NoEvent]
    /\ completion = [s \in Sessions |->
                       [made |-> FALSE, sequence |-> 0, completed |-> FALSE,
                        returned |-> FALSE, inline |-> NoEvent]]
    /\ pushing = [s \in Sessions |-> NoEvent]
    /\ sent = [s \in Sessions |-> 0]
    /\ gone = [s \in Sessions |-> FALSE] /\ repeated = 0
    /\ handled = [s \in Sessions |-> <<>>]
    /\ cuts = [s \in Sessions |-> 0]

-----------------------------------------------------------------------------
\* The session, and its state, of the event a worker works on.  session_state
\* in run() is a reference taken at intake; it stays the state of that session
\* as long as no second state is made for it (NoResurrection).
SessionOf(w) == cur[w].session
StateOf(w) == state[SessionOf(w)]

Goto(w, label) == pc' = [pc EXCEPT ![w] = label]

\* Nothing but the position of the worker changes.
Jump(w, label) == Goto(w, label) /\ UNCHANGED <<shared, locals>>

\* `current' is e from here on: the inner loop goes round, or ends on nullopt.
Continue(w, e) ==
    /\ cur' = [cur EXCEPT ![w] = e]
    /\ Goto(w, IF e = NoEvent THEN "pop" ELSE "start")

\* A session with nothing under way, as maybeCloseInboxForDrainLocked tests it.
Quiet(q) ==
    ~q.active /\ q.parked = {} /\ q.early = NoEvent /\ q.pending = NoEvent

\* maybeCloseInboxForDrainLocked, over the map, states and counter in force
\* when it is called.
MaybeCloseInbox(drain, map, states, count) ==
    inboxClosed' =
        \/ inboxClosed
        \/ /\ drain /\ count = 0 /\ inbox = <<>>
           /\ \A s \in Sessions : map[s] => Quiet(states[s])

-----------------------------------------------------------------------------
(* Intake: lines 261-285.  intake_mutex_ is held exactly in "attach".       *)

IntakeFree == \A v \in Workers : pc[v] # "attach"

\* inbox_.pop with intake_mutex_ held.
Pop(w) ==
    /\ pc[w] = "pop" /\ IntakeFree
    /\ inbox # <<>>
    /\ inbox' = Tail(inbox)
    /\ cur' = [cur EXCEPT ![w] = Head(inbox)]
    /\ Goto(w, "attach")
    /\ UNCHANGED <<inboxClosed, outbox, outboxClosed, sessionVars, stopVars,
                   left, deferred, inlined, completionVars, ioVars, history>>

\* inbox_.pop fails: closed and empty.
PopFailed(w) ==
    /\ pc[w] = "pop" /\ IntakeFree
    /\ inbox = <<>> /\ inboxClosed
    /\ Jump(w, "exited")

\* The state of the session is found in sequence_by_session_ or made.
Attach(w) ==
    /\ pc[w] = "attach"
    /\ mapped' = [mapped EXCEPT ![SessionOf(w)] = TRUE]
    /\ state' = [state EXCEPT ![SessionOf(w)] =
                    IF mapped[SessionOf(w)] THEN @ ELSE FreshState]
    /\ Goto(w, "start")
    /\ UNCHANGED <<queues, outstanding, stopVars, cur, left, deferred, inlined,
                   completionVars, ioVars, history>>

\* A graceful stop taken for a forced one.
AbandonMutant(w) ==
    /\ pc[w] = "start" /\ (forced \/ draining)
    /\ Jump(w, "exited")

\* force_stop_requested_ at the top of the loop: the event is dropped.
Abandon(w) ==
    /\ pc[w] = "start" /\ forced
    /\ Jump(w, "exited")

-----------------------------------------------------------------------------
(* tryStartSessionTurn: which way an event e goes at a session in state q.  *)

IsCompletion(e) == e.kind = "DeferredCompletion"
IsDisconnected(e) == e.kind = "Disconnected"

Discarded(e, q) ==
    \/ q.closed
    \/ q.failed /\ e.kind = "Packet"

\* A completion whose event waits for it ...
CompletionDue(e, q) ==
    /\ ~q.closed /\ IsCompletion(e)
    /\ q.active /\ q.next = e.sequence /\ q.awaiting

\* ... or is still being deferred by the worker that ran the handler.
CompletionEarly(e, q) ==
    /\ ~q.closed /\ IsCompletion(e)
    /\ q.active /\ q.next = e.sequence /\ ~q.awaiting /\ q.early = NoEvent

\* A test dropped: is a turn active, ...
TurnFreeMutantActive(e, q) ==
    /\ ~q.closed /\ ~IsCompletion(e)
    /\ IF q.failed THEN IsDisconnected(e) ELSE q.next = e.sequence

\* ... or is it the next event in sequence.
TurnFreeMutantSequence(e, q) ==
    /\ ~q.closed /\ ~IsCompletion(e) /\ ~q.active
    /\ q.failed => IsDisconnected(e)

\* A failed session takes its Disconnected whatever the sequence, another
\* session the next event in sequence; neither while a turn is active.
TurnFree(e, q) ==
    /\ ~q.closed /\ ~IsCompletion(e) /\ ~q.active
    /\ IF q.failed THEN IsDisconnected(e) ELSE q.next = e.sequence

DisconnectPending(e, q) ==
    ~q.closed /\ q.failed /\ IsDisconnected(e) /\ q.active

\* Ahead of its turn on a healthy session.
Ahead(e, q) ==
    ~q.closed /\ ~q.failed /\ ~IsCompletion(e) /\ ~TurnFree(e, q)

SequenceUsed(e, q) ==
    e.sequence < q.next \/ \E p \in q.parked : p.sequence = e.sequence

ParkedFull(q) == Cardinality(q.parked) >= MaxParked

InvalidSequence(e, q) ==
    \/ Ahead(e, q) /\ SequenceUsed(e, q)
    \/ /\ ~q.closed /\ IsCompletion(e)
       /\ ~CompletionDue(e, q) /\ ~CompletionEarly(e, q)

ParkedLimit(e, q) == Ahead(e, q) /\ ~SequenceUsed(e, q) /\ ParkedFull(q)

Parkable(e, q) == Ahead(e, q) /\ ~SequenceUsed(e, q) /\ ~ParkedFull(q)

Starting(w) == pc[w] = "start" /\ ~forced

-----------------------------------------------------------------------------
(* The inner loop of run(), lines 288-319.                                  *)

Discard(w) ==
    /\ Starting(w) /\ Discarded(cur[w], StateOf(w))
    /\ Jump(w, "discarded")

\* The discarded event may be the one the drain waited for.
DiscardDrainMutant(w) ==
    /\ pc[w] = "discarded"
    /\ Continue(w, NoEvent)
    /\ UNCHANGED <<queues, sessionVars, stopVars, left, deferred, inlined,
                   completionVars, ioVars, history>>

\* A second section under sequence_mutex_ after Discarded.
DiscardDrain(w) ==
    /\ pc[w] = "discarded"
    /\ MaybeCloseInbox(draining, mapped, state, outstanding)
    /\ Continue(w, NoEvent)
    /\ UNCHANGED <<inbox, outbox, outboxClosed, sessionVars, stopVars, left,
                   deferred, inlined, completionVars, ioVars, history>>

\* Parked: the event is left with the session and the worker goes on.
Park(w, q) ==
    /\ state' = [state EXCEPT ![SessionOf(w)] = q]
    /\ Continue(w, NoEvent)
    /\ UNCHANGED <<queues, mapped, outstanding, stopVars, left, deferred,
                   inlined, completionVars, ioVars, history>>

ParkEvent(w) ==
    /\ Starting(w) /\ Parkable(cur[w], StateOf(w))
    /\ Park(w, [StateOf(w) EXCEPT !.parked = @ \cup {cur[w]}])

ParkCompletion(w) ==
    /\ Starting(w) /\ CompletionEarly(cur[w], StateOf(w))
    /\ Park(w, [StateOf(w) EXCEPT !.early = cur[w]])

ParkDisconnected(w) ==
    /\ Starting(w) /\ DisconnectPending(cur[w], StateOf(w))
    /\ Park(w, [StateOf(w) EXCEPT !.pending = cur[w]])

Reject(w) ==
    /\ Starting(w)
    /\ \/ InvalidSequence(cur[w], StateOf(w))
       \/ ParkedLimit(cur[w], StateOf(w))
    /\ Jump(w, "rejected")

\* The turn of a Packet or a Disconnected begins.
StartTurn(w) ==
    /\ Starting(w) /\ TurnFree(cur[w], StateOf(w))
    /\ state' = [state EXCEPT ![SessionOf(w)] =
                    [@ EXCEPT !.next = cur[w].sequence,
                              !.active = TRUE,
                              !.activeDisconnect = IsDisconnected(cur[w])]]
    /\ Goto(w, "check")
    /\ UNCHANGED <<queues, mapped, outstanding, stopVars, cur, left, deferred,
                   inlined, completionVars, ioVars, history>>

\* The turn resumes with its completion: a failed one goes the way of a handler
\* that threw, the messages of another are published (lines 321-343).
\* completion_context.emit may refuse some (budget, or a force stop meanwhile).
ResumeTurn(w) ==
    /\ Starting(w) /\ CompletionDue(cur[w], StateOf(w))
    /\ IF cur[w].failed
       THEN Goto(w, "broken") /\ UNCHANGED left
       ELSE /\ \E n \in Batch : left' = [left EXCEPT ![w] = n]
            /\ Goto(w, "publish")
    /\ UNCHANGED <<queues, sessionVars, stopVars, cur, deferred, inlined,
                   completionVars, ioVars, history>>

-----------------------------------------------------------------------------
(* The handler: lines 348-374.                                              *)

\* shouldSkipFailedSession: another worker has failed the session meanwhile.
SkipFailed(w) ==
    /\ pc[w] = "check"
    /\ ~IsDisconnected(cur[w]) /\ (StateOf(w).failed \/ StateOf(w).closed)
    /\ Jump(w, "complete")

EnterHandler(w) ==
    /\ pc[w] = "check"
    /\ IsDisconnected(cur[w]) \/ ~(StateOf(w).failed \/ StateOf(w).closed)
    /\ handled' = [handled EXCEPT ![SessionOf(w)] = Append(@, cur[w])]
    /\ Goto(w, "handler")
    /\ UNCHANGED <<queues, sessionVars, stopVars, cur, left, deferred, inlined,
                   completionVars, ioVars, cuts>>

\* context.defer(), at most once and only for a packet (MessageRouter defers
\* LOGIN_REQ).  A completion object of an earlier event of the session can no
\* longer be completed with effect and is forgotten.
Defer(w) ==
    /\ pc[w] = "handler" /\ ~deferred[w] /\ cur[w].kind = "Packet"
    /\ deferred' = [deferred EXCEPT ![w] = TRUE]
    /\ completion' = [completion EXCEPT ![SessionOf(w)] =
                        [made |-> TRUE, sequence |-> cur[w].sequence,
                         completed |-> FALSE, returned |-> FALSE,
                         inline |-> NoEvent]]
    /\ UNCHANGED <<queues, sessionVars, stopVars, pc, cur, left, inlined,
                   pushing, ioVars, history>>

\* The handler returns with what it emitted; finishDeferredHandler follows.
HandlerReturns(w) ==
    /\ pc[w] = "handler"
    /\ \E n \in Batch : left' = [left EXCEPT ![w] = n]
    /\ IF deferred[w]
       THEN /\ inlined' = [inlined EXCEPT ![w] =
                              completion[SessionOf(w)].inline]
            /\ completion' = [completion EXCEPT ![SessionOf(w)] =
                              [@ EXCEPT !.returned = TRUE, !.inline = NoEvent]]
       ELSE UNCHANGED <<inlined, completion>>
    /\ Goto(w, "publish")
    /\ UNCHANGED <<queues, sessionVars, stopVars, cur, deferred, pushing,
                   ioVars, history>>

\* The handler throws: what it emitted is dropped, `deferred' stays false and
\* the completion object, if there is one, never sees handler_returned.
HandlerThrows(w) ==
    /\ pc[w] = "handler"
    /\ deferred' = [deferred EXCEPT ![w] = FALSE]
    /\ Goto(w, "broken")
    /\ UNCHANGED <<queues, sessionVars, stopVars, cur, left, inlined,
                   completionVars, ioVars, history>>

-----------------------------------------------------------------------------
(* Failing a session, and publishing.                                       *)

\* The parked Disconnected goes with the other parked events.
FailedMutant(q) == [q EXCEPT !.failed = TRUE, !.parked = {}]

\* markSessionFailed on a session that is not failed or closed.
Failed(q) ==
    [q EXCEPT !.failed = TRUE,
              !.parked = {},
              !.pending = IF \E e \in q.parked : IsDisconnected(e)
                          THEN CHOOSE e \in q.parked : IsDisconnected(e)
                          ELSE @]

\* markSessionFailed; the first to fail the session goes on to
\* requestSessionDisconnect (lines 304-313, 323-328 and 361-363).
MarkSessionFailed(w) ==
    /\ pc[w] \in {"rejected", "broken"}
    /\ ~(StateOf(w).failed \/ StateOf(w).closed)
    /\ state' = [state EXCEPT ![SessionOf(w)] = Failed(@)]
    /\ left' = [left EXCEPT ![w] = 1]
    /\ Goto(w, IF pc[w] = "rejected" THEN "rejectCut" ELSE "brokenCut")
    /\ UNCHANGED <<queues, mapped, outstanding, stopVars, cur, deferred,
                   inlined, completionVars, ioVars, history>>

AlreadyFailed(w) ==
    /\ pc[w] \in {"rejected", "broken"}
    /\ StateOf(w).failed \/ StateOf(w).closed
    /\ Jump(w, IF pc[w] = "rejected" THEN "retry" ELSE "complete")

Cutting(w) == pc[w] \in {"rejectCut", "brokenCut"}
Publishing(w) == pc[w] = "publish" \/ Cutting(w)

\* publishOutbound: outbox_.push blocks while the outbox is full.
PublishOutbound(w) ==
    /\ Publishing(w) /\ left[w] > 0
    /\ ~outboxClosed /\ Len(outbox) < OutboxCapacity
    /\ outbox' = Append(outbox, [session |-> SessionOf(w),
                                 sequence |-> cur[w].sequence,
                                 cut |-> Cutting(w)])
    /\ left' = [left EXCEPT ![w] = @ - 1]
    /\ cuts' = [cuts EXCEPT ![SessionOf(w)] = IF Cutting(w) THEN @ + 1 ELSE @]
    /\ UNCHANGED <<inbox, inboxClosed, outboxClosed, sessionVars, stopVars, pc,
                   cur, deferred, inlined, completionVars, ioVars, handled>>

\* outbox_.push fails on a closed outbox and the rest is dropped.
PublishRefused(w) ==
    /\ Publishing(w) /\ left[w] > 0
    /\ outboxClosed
    /\ left' = [left EXCEPT ![w] = 0]
    /\ UNCHANGED <<queues, sessionVars, stopVars, pc, cur, deferred, inlined,
                   completionVars, ioVars, history>>

Published(w) ==
    /\ Publishing(w) /\ left[w] = 0
    /\ Jump(w, CASE pc[w] = "rejectCut" -> "retry"
                 [] pc[w] = "publish" /\ deferred[w] -> "defer"
                 [] OTHER -> "complete")

\* takePendingDisconnected forgotten.
RetryMutant(w) ==
    /\ pc[w] = "retry"
    /\ Continue(w, IF IsDisconnected(cur[w]) THEN cur[w] ELSE NoEvent)
    /\ UNCHANGED <<queues, sessionVars, stopVars, left, deferred, inlined,
                   completionVars, ioVars, history>>

\* Lines 314-318: a rejected Disconnected tries again, now on a failed session;
\* otherwise takePendingDisconnected.
Retry(w) ==
    /\ pc[w] = "retry"
    /\ IF IsDisconnected(cur[w])
       THEN Continue(w, cur[w]) /\ UNCHANGED state
       ELSE IF StateOf(w).active \/ StateOf(w).closed
       THEN Continue(w, NoEvent) /\ UNCHANGED state
       ELSE /\ Continue(w, StateOf(w).pending)
            /\ state' = [state EXCEPT ![SessionOf(w)] =
                            [@ EXCEPT !.pending = NoEvent]]
    /\ UNCHANGED <<queues, mapped, outstanding, stopVars, left, deferred,
                   inlined, completionVars, ioVars, history>>

-----------------------------------------------------------------------------
(* The end of a turn, lines 375-381.                                        *)

\* markSessionDeferred; it throws unless the turn is active (DeferIsLegal).
\* The worker goes on with the completion that came inline or early, if any.
MarkSessionDeferred(w) ==
    /\ pc[w] = "defer"
    /\ StateOf(w).active /\ StateOf(w).next = cur[w].sequence
    /\ state' = [state EXCEPT ![SessionOf(w)] =
                    [@ EXCEPT !.awaiting = TRUE, !.early = NoEvent]]
    /\ outstanding' = outstanding + 1
    /\ Continue(w, IF inlined[w] # NoEvent THEN inlined[w]
                   ELSE StateOf(w).early)
    /\ deferred' = [deferred EXCEPT ![w] = FALSE]
    /\ inlined' = [inlined EXCEPT ![w] = NoEvent]
    /\ UNCHANGED <<queues, mapped, stopVars, left, completionVars, ioVars,
                   history>>

\* The event completeSessionTurn hands to the worker, q being the state after
\* the turn: the Disconnected of a failed session, or the next parked event.
Successor(q) ==
    IF q.activeDisconnect THEN NoEvent
    ELSE IF q.failed THEN q.pending
    ELSE IF \E e \in q.parked : e.sequence = q.next
         THEN CHOOSE e \in q.parked : e.sequence = q.next
         ELSE NoEvent

OutstandingAfterMutant(e) ==
    IF IsCompletion(e) /\ ~e.failed /\ outstanding > 0
    THEN outstanding - 1 ELSE outstanding

\* outstanding_deferred_ after the turn of e; the kind is tested.
OutstandingAfter(e) ==
    IF IsCompletion(e) /\ outstanding > 0 THEN outstanding - 1 ELSE outstanding

CompleteSessionTurn(w) ==
    /\ pc[w] = "complete"
    /\ LET s == SessionOf(w)
           q == [state[s] EXCEPT !.active = FALSE, !.awaiting = FALSE,
                                 !.next = @ + 1]
           next == Successor(q)
       IN  /\ state' = [state EXCEPT ![s] =
                  [q EXCEPT !.closed = @ \/ q.activeDisconnect,
                            !.pending = IF q.failed /\ ~q.activeDisconnect
                                        THEN NoEvent ELSE @,
                            !.parked = @ \ {next}]]
           /\ mapped' = [mapped EXCEPT ![s] = @ /\ ~q.activeDisconnect]
           /\ outstanding' = OutstandingAfter(cur[w])
           /\ IF next = NoEvent
              THEN MaybeCloseInbox(draining, mapped', state', outstanding')
              ELSE UNCHANGED inboxClosed
           /\ Continue(w, next)
    /\ UNCHANGED <<inbox, outbox, outboxClosed, stopVars, left, deferred,
                   inlined, completionVars, ioVars, history>>

-----------------------------------------------------------------------------
(* The threads that complete deferred events.                               *)

CompletionOf(s, failure) ==
    [kind |-> "DeferredCompletion", session |-> s,
     sequence |-> completion[s].sequence, failed |-> failure]

\* QueueDeferredSessionCompletion::complete up to line 68, by succeed() or
\* fail().  After a force stop, and when it has been called before, it does
\* nothing.
Complete(s) ==
    /\ completion[s].made /\ ~completion[s].completed /\ ~forced
    /\ \E failure \in BOOLEAN :
          IF completion[s].returned
          THEN /\ pushing' = [pushing EXCEPT ![s] = CompletionOf(s, failure)]
               /\ completion' = [completion EXCEPT ![s] =
                                    [@ EXCEPT !.completed = TRUE]]
          ELSE /\ completion' = [completion EXCEPT ![s] =
                                    [@ EXCEPT !.completed = TRUE,
                                        !.inline = CompletionOf(s, failure)]]
               /\ UNCHANGED pushing
    /\ UNCHANGED <<queues, sessionVars, stopVars, workerVars, ioVars, history>>

\* inbox_.push of the completion: blocks while the inbox is full ...
PushCompletion(s) ==
    /\ pushing[s] # NoEvent
    /\ ~inboxClosed /\ Len(inbox) < InboxCapacity
    /\ inbox' = Append(inbox, pushing[s])
    /\ pushing' = [pushing EXCEPT ![s] = NoEvent]
    /\ UNCHANGED <<inboxClosed, outbox, outboxClosed, sessionVars, stopVars,
                   workerVars, completion, ioVars, history>>

\* ... and fails when it is closed: succeed() returns false.
PushCompletionRefused(s) ==
    /\ pushing[s] # NoEvent
    /\ inboxClosed
    /\ pushing' = [pushing EXCEPT ![s] = NoEvent]
    /\ UNCHANGED <<queues, sessionVars, stopVars, workerVars, completion,
                   ioVars, history>>

-----------------------------------------------------------------------------
(* The I/O thread (TcpServer): it numbers the events of a session, and its  *)
(* Disconnected is the last of them.                                        *)

Enqueue(s, kind, q) ==
    /\ ~gone[s] /\ ~inboxClosed /\ Len(inbox) < InboxCapacity
    /\ inbox' = Append(inbox, [kind |-> kind, session |-> s, sequence |-> q,
                               failed |-> FALSE])
    /\ UNCHANGED <<inboxClosed, outbox, outboxClosed, sessionVars, stopVars,
                   workerVars, completionVars, history>>

EnqueuePacket(s) ==
    /\ sent[s] < MaxEvents
    /\ Enqueue(s, "Packet", sent[s])
    /\ sent' = [sent EXCEPT ![s] = @ + 1]
    /\ UNCHANGED <<gone, repeated>>

\* A producer that reuses a sequence number, which the pool must survive.
EnqueueDuplicate(s) ==
    /\ repeated < MaxRepeats
    /\ \E q \in 0..MaxEvents : q < sent[s] /\ Enqueue(s, "Packet", q)
    /\ repeated' = repeated + 1
    /\ UNCHANGED <<sent, gone>>

EnqueueDisconnected(s) ==
    /\ Enqueue(s, "Disconnected", sent[s])
    /\ gone' = [gone EXCEPT ![s] = TRUE]
    /\ UNCHANGED <<sent, repeated>>

\* drainOutbound takes what the workers published.
IoPop ==
    /\ outbox # <<>>
    /\ outbox' = Tail(outbox)
    /\ UNCHANGED <<inbox, inboxClosed, outboxClosed, sessionVars, stopVars,
                   workerVars, completionVars, ioVars, history>>

BeginStop ==
    /\ ~draining
    /\ draining' = TRUE
    /\ MaybeCloseInbox(TRUE, mapped, state, outstanding)
    /\ UNCHANGED <<inbox, outbox, outboxClosed, sessionVars, forced, workerVars,
                   completionVars, ioVars, history>>

\* forceStop sets the flag, then closes the inbox, then the outbox.
ForceStop ==
    /\ ~forced
    /\ forced' = TRUE
    /\ UNCHANGED <<queues, sessionVars, draining, workerVars, completionVars,
                   ioVars, history>>

ForceCloseInbox ==
    /\ forced /\ ~inboxClosed
    /\ inboxClosed' = TRUE
    /\ UNCHANGED <<inbox, outbox, outboxClosed, sessionVars, stopVars,
                   workerVars, completionVars, ioVars, history>>

ForceCloseOutbox ==
    /\ forced /\ inboxClosed /\ ~outboxClosed
    /\ outboxClosed' = TRUE
    /\ UNCHANGED <<inbox, inboxClosed, outbox, sessionVars, stopVars,
                   workerVars, completionVars, ioVars, history>>

-----------------------------------------------------------------------------
\* run(), one step of a worker.
Run(w) ==
    \/ Pop(w) \/ PopFailed(w) \/ Attach(w) \/ Abandon(w)
    \/ Discard(w) \/ DiscardDrain(w)
    \/ ParkEvent(w) \/ ParkCompletion(w) \/ ParkDisconnected(w)
    \/ Reject(w) \/ StartTurn(w) \/ ResumeTurn(w)
    \/ SkipFailed(w) \/ EnterHandler(w) \/ Defer(w)
    \/ HandlerReturns(w) \/ HandlerThrows(w)
    \/ MarkSessionFailed(w) \/ AlreadyFailed(w)
    \/ PublishOutbound(w) \/ PublishRefused(w) \/ Published(w) \/ Retry(w)
    \/ MarkSessionDeferred(w) \/ CompleteSessionTurn(w)

Completer(s) == Complete(s) \/ PushCompletion(s) \/ PushCompletionRefused(s)

Producer(s) ==
    EnqueuePacket(s) \/ EnqueueDuplicate(s) \/ EnqueueDisconnected(s)

Next ==
    \/ \E w \in Workers : Run(w)
    \/ \E s \in Sessions : Completer(s) \/ Producer(s)
    \/ IoPop \/ BeginStop \/ ForceStop \/ ForceCloseInbox \/ ForceCloseOutbox

Spec == Init /\ [][Next]_vars

(***************************************************************************)
(* Threads are scheduled and handlers return; whoever was handed a deferred *)
(* completion calls it (PostgresExecutor answers every task it accepted); a *)
(* started forceStop() finishes and the I/O thread keeps taking output.     *)
(* Nobody is obliged to enqueue an event or to stop the pool.               *)
(***************************************************************************)
Fairness ==
    /\ \A w \in Workers : WF_vars(Run(w))
    /\ \A s \in Sessions : WF_vars(Completer(s))
    /\ WF_vars(IoPop)
    /\ WF_vars(ForceCloseInbox \/ ForceCloseOutbox)

FairSpec == Spec /\ Fairness

-----------------------------------------------------------------------------
(* Safety.                                                                  *)

\* The worker has the turn of its session.
InTurn(w) ==
    pc[w] \in {"check", "handler", "broken", "brokenCut", "publish", "defer",
               "complete"}

\* At most one worker at a time has the turn of a session, and it has it for
\* the event next in sequence, while the session is marked active: the handler
\* never runs for one session on two threads (tryStartSessionTurn, 446-499).
TurnExclusion ==
    \A w \in Workers : InTurn(w) =>
        /\ StateOf(w).active /\ ~StateOf(w).closed
        /\ StateOf(w).next = cur[w].sequence
        /\ \A v \in Workers : InTurn(v) /\ SessionOf(v) = SessionOf(w) => v = w

\* The handler sees the packets of a session without gap, repetition or
\* reordering whatever the workers' interleaving, and nothing after its
\* Disconnected, which may come early only on a failed session.
HandledInOrder ==
    \A s \in Sessions : \A i \in DOMAIN handled[s] :
        LET e == handled[s][i] IN
        /\ e.kind = "Packet" => e.sequence = i - 1
        /\ IsDisconnected(e) => /\ i = Len(handled[s])
                                /\ e.sequence = i - 1 \/ state[s].failed

\* What an event emitted reaches the outbox before anything a later event of
\* its session emits, deferred answers included.
OutboxInOrder ==
    \A i, j \in DOMAIN outbox :
        (/\ i < j /\ outbox[i].session = outbox[j].session
         /\ ~outbox[i].cut /\ ~outbox[j].cut)
            => outbox[i].sequence <= outbox[j].sequence

\* A closed session has nothing left in the inbox, so no worker ever makes a
\* second state, with its sequence back at 0, for it (lines 263-277, 514).
NoResurrection ==
    \A s \in Sessions : state[s].closed =>
        /\ \A i \in DOMAIN inbox : inbox[i].session # s
        /\ \A w \in Workers : pc[w] = "attach" => SessionOf(w) # s
        /\ pushing[s] = NoEvent

\* outstanding_deferred_ counts the sessions that wait for a completion: the
\* drain is neither held up by a completion that was taken nor let go by one
\* that was not (lines 418 and 506-509).
OutstandingExact ==
    outstanding = Cardinality({s \in Sessions : state[s].awaiting})

\* markSessionDeferred never throws (lines 414-416): whatever other workers do
\* with the session while the handler runs, its turn is still there after it.
DeferIsLegal ==
    \A w \in Workers : pc[w] = "defer" =>
        /\ StateOf(w).active /\ ~StateOf(w).awaiting
        /\ StateOf(w).next = cur[w].sequence

\* An event of the session with this number is in the inbox or with a worker.
OnItsWay(s, n) ==
    \/ \E i \in DOMAIN inbox : /\ inbox[i].session = s /\ inbox[i].sequence = n
                               /\ ~IsCompletion(inbox[i])
    \/ \E w \in Workers : /\ pc[w] \notin {"pop", "exited"} /\ SessionOf(w) = s
                          /\ cur[w].sequence = n /\ ~IsCompletion(cur[w])

\* The number of a parked event has had its turn, or has it: another event came
\* with it, and nobody takes this one up (lines 488-497 let a repeat of the
\* active number in).  Until its session fails it keeps a graceful stop waiting.
Overtaken(e, q) == e.sequence < q.next \/ (q.active /\ e.sequence = q.next)

\* What is set aside has someone who takes it up: a parked event is ahead of the
\* turn that is active, or of the next one, whose event is on its way unless the
\* pool is forced to stop; a Disconnected set aside has a turn to end or a worker
\* on its way to it; an early completion has the worker that defers its event.
\* Only a producer that uses a sequence number twice leaves an event parked where
\* its number is past, and TcpServer is none (SessionEvents).
NothingStranded ==
    \A s \in Sessions :
        LET q == state[s] IN
        /\ \A e \in q.parked :
              \/ repeated > 0 /\ Overtaken(e, q)
              \/ e.sequence > q.next /\ (q.active \/ forced \/ OnItsWay(s, q.next))
        /\ (q.pending # NoEvent /\ ~q.active) =>
              \E w \in Workers : /\ pc[w] \in {"rejectCut", "retry"}
                                 /\ SessionOf(w) = s
        /\ q.early # NoEvent =>
              \E w \in Workers : InTurn(w) /\ SessionOf(w) = s /\ deferred[w]

\* However many of its events fail, a session is cut off once (lines 397-399).
CutOnce == \A s \in Sessions : cuts[s] <= 1

\* A graceful stop loses no event: when it has ended the workers, every event
\* that was enqueued has been handled, except behind a failure or behind a
\* deferred event whose completion never came (see GracefulStopWaits).
GracefulStopHandlesAll ==
    (~forced /\ \A w \in Workers : pc[w] = "exited") =>
        \A s \in Sessions :
            \/ state[s].failed \/ state[s].awaiting
            \/ Len(handled[s]) = sent[s] + (IF gone[s] THEN 1 ELSE 0)

\* The events of a session take effect once and in their order: in the handler,
\* in what they send, and in that no later event starts the session anew.
InOrder == HandledInOrder /\ OutboxInOrder /\ NoResurrection

\* What the pool counts is what there is, failures and repeated calls included.
CountsExact == OutstandingExact /\ CutOnce

-----------------------------------------------------------------------------
(* Liveness.                                                                *)

HandledDisconnect(s) ==
    \E i \in DOMAIN handled[s] : IsDisconnected(handled[s][i])

\* A session's Disconnected always reaches the handler, which frees its user and
\* room, however its packets fail, defer or overtake each other; only a stop of
\* the pool may prevent it.
DisconnectReachesHandler ==
    \A s \in Sessions :
        gone[s] ~> (HandledDisconnect(s) \/ draining \/ forced)

\* Every deferred event is taken to its end: a session does not stay blocked
\* behind one whose completion was called.
DeferredEventEnds ==
    \A s \in Sessions :
        state[s].awaiting ~> (~state[s].awaiting \/ draining \/ forced)

\* No event of a session is held up for ever, a disconnect or a deferred one.
EventsEnd == DisconnectReachesHandler /\ DeferredEventEnds

\* A stop, graceful or forced, ends every worker.
StopEndsWorkers ==
    (draining \/ forced) ~> \A w \in Workers : pc[w] = "exited"

\* A graceful stop does not end the pool while an event waits for its deferred
\* completion (GracefulStopWaitsForDeferredCompletion).
GracefulStopWaits ==
    (~forced /\ \A w \in Workers : pc[w] = "exited")
        => \A s \in Sessions : ~state[s].awaiting
=============================================================================
