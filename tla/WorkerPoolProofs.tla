-------------------------- MODULE WorkerPoolProofs --------------------------
(***************************************************************************)
(* Type correctness of the worker pool, which holds the limits of its       *)
(* configuration: the capacities of both queues and the number of events    *)
(* parked for a session, for any number of workers and sessions.            *)
(*                                                                          *)
(* Then: the turn of a session is exclusive, for any number of workers,     *)
(* sessions and events, with any sequence numbers.  A step concerns one     *)
(* session, at which SessionInv is shown action by action; at every other   *)
(* session the step moves nothing (Elsewhere).                              *)
(*                                                                          *)
(* Then: the events of a session take effect in order, none is left behind  *)
(* and none is lost.  Each of these invariants is shown to be kept with     *)
(* TurnInv and the ones before it; a step of a worker concerns the session  *)
(* of its event alone.                                                      *)
(***************************************************************************)
EXTENDS WorkerPoolInvariant, FiniteSetTheorems, TLAPS

\* A worker that is not between events works on an event of some session.
LEMMA CurrentType ==
  ASSUME TypeOK, NEW w \in Workers, pc[w] \notin {"pop", "exited"}
  PROVE  /\ cur[w] \in Event
         /\ cur[w].kind \in Kinds /\ cur[w].sequence \in 0..MaxEvents
         /\ SessionOf(w) \in Sessions
         /\ StateOf(w) \in SessionSequenceState
         /\ IsFiniteSet(StateOf(w).parked)
         /\ Cardinality(StateOf(w).parked) <= MaxParked
  BY DEF TypeOK, Event, SessionOf, StateOf

\* What a step may do to the state of one session.
LEMMA StateType ==
  ASSUME TypeOK, NEW s \in Sessions, NEW q \in SessionSequenceState,
         IsFiniteSet(q.parked), Cardinality(q.parked) <= MaxParked,
         state' = [state EXCEPT ![s] = q]
  PROVE  /\ state' \in [Sessions -> SessionSequenceState]
         /\ \A t \in Sessions : /\ IsFiniteSet(state'[t].parked)
                                /\ Cardinality(state'[t].parked) <= MaxParked
  BY DEF TypeOK

\* Continue leaves the worker with an event exactly when it goes on.
LEMMA ContinueType ==
  ASSUME TypeOK, NEW w \in Workers, NEW e \in Event \cup {NoEvent},
         Continue(w, e)
  PROVE  /\ pc' \in [Workers -> Labels]
         /\ cur' \in [Workers -> Event \cup {NoEvent}]
         /\ \A v \in Workers : pc'[v] \notin {"pop", "exited"}
                                   => cur'[v] # NoEvent
  BY DEF TypeOK, Continue, Goto, Labels

\* A jump to a label, with the event kept.
LEMMA GotoType ==
  ASSUME TypeOK, NEW w \in Workers, NEW l \in Labels, Goto(w, l),
         pc[w] \notin {"pop", "exited"} \/ l = "exited"
  PROVE  /\ pc' \in [Workers -> Labels]
         /\ \A v \in Workers : pc'[v] \notin {"pop", "exited"}
                                   => cur[v] # NoEvent
  BY DEF TypeOK, Goto, Labels

LEMMA JumpType ==
  ASSUME TypeOK, NEW w \in Workers, NEW l \in Labels, Jump(w, l),
         pc[w] \notin {"pop", "exited"} \/ l = "exited"
  PROVE  TypeOK'
  <1>1. /\ pc' \in [Workers -> Labels]
        /\ \A v \in Workers : pc'[v] \notin {"pop", "exited"}
                                  => cur[v] # NoEvent
    BY GotoType DEF Jump
  <1> QED
    BY <1>1 DEF TypeOK, Jump, shared, locals, queues, sessionVars, stopVars,
                completionVars, ioVars, history

\* No event is parked, so the limit holds of the initial states.
LEMMA InitType == Init => TypeOK
  <1> SUFFICES ASSUME Init PROVE TypeOK
    OBVIOUS
  <1>1. FreshState \in SessionSequenceState
    BY DEF FreshState, SessionSequenceState
  <1>2. IsFiniteSet({}) /\ Cardinality({}) = 0
    BY FS_EmptySet
  <1>3. \A s \in Sessions : /\ IsFiniteSet(state[s].parked)
                            /\ Cardinality(state[s].parked) <= MaxParked
    <2>1. \A s \in Sessions : state[s].parked = {}
      BY DEF Init, FreshState
    <2> QED
      BY <1>2, <2>1, WorkerPoolAssumption
  <1>4. state \in [Sessions -> SessionSequenceState]
    BY <1>1 DEF Init
  <1>5. completion \in [Sessions -> DeferredCompletionState]
    BY WorkerPoolAssumption DEF Init, DeferredCompletionState
  <1>6. /\ inbox \in Seq(Event) /\ Len(inbox) <= InboxCapacity
        /\ outbox \in Seq(Message) /\ Len(outbox) <= OutboxCapacity
    BY WorkerPoolAssumption DEF Init
  <1>7. handled \in [Sessions -> Seq(Event)]
    BY DEF Init
  <1>8. /\ pc \in [Workers -> Labels]
        /\ cur \in [Workers -> Event \cup {NoEvent}]
        /\ \A w \in Workers : pc[w] \notin {"pop", "exited"} => cur[w] # NoEvent
    BY DEF Init, Labels
  <1>9. /\ left \in [Workers -> Batch]
        /\ deferred \in [Workers -> BOOLEAN]
        /\ inlined \in [Workers -> Event \cup {NoEvent}]
    BY WorkerPoolAssumption DEF Init, Batch
  <1>10. /\ pushing \in [Sessions -> Event \cup {NoEvent}]
         /\ sent \in [Sessions -> 0..MaxEvents]
         /\ gone \in [Sessions -> BOOLEAN]
         /\ repeated \in 0..MaxRepeats
         /\ cuts \in [Sessions -> Nat]
         /\ mapped \in [Sessions -> BOOLEAN]
    BY WorkerPoolAssumption DEF Init
  <1>11. /\ inboxClosed \in BOOLEAN /\ outboxClosed \in BOOLEAN
         /\ outstanding \in Nat
         /\ draining \in BOOLEAN /\ forced \in BOOLEAN
    BY DEF Init
  <1> QED
    BY <1>3, <1>4, <1>5, <1>6, <1>7, <1>8, <1>9, <1>10, <1>11 DEF TypeOK

-----------------------------------------------------------------------------
\* The steps of a worker.
LEMMA IntakeType ==
  ASSUME TypeOK, NEW w \in Workers,
         Pop(w) \/ PopFailed(w) \/ Attach(w) \/ Abandon(w)
  PROVE  TypeOK'
  <1>1. CASE Pop(w)
    <2>1. /\ Head(inbox) \in Event
          /\ inbox' \in Seq(Event) /\ Len(inbox') <= InboxCapacity
      BY <1>1, WorkerPoolAssumption DEF TypeOK, Pop
    <2>2. /\ pc' \in [Workers -> Labels]
          /\ cur' \in [Workers -> Event \cup {NoEvent}]
          /\ \A v \in Workers : pc'[v] \notin {"pop", "exited"}
                                    => cur'[v] # NoEvent
      BY <1>1, <2>1, WorkerPoolAssumption DEF TypeOK, Pop, Goto, Labels
    <2> QED
      BY <1>1, <2>1, <2>2
      DEF TypeOK, Pop, sessionVars, stopVars, completionVars, ioVars, history
  <1>2. CASE PopFailed(w)
    BY <1>2, JumpType DEF PopFailed, Labels
  <1>3. CASE Attach(w)
    <2>1. SessionOf(w) \in Sessions /\ StateOf(w) \in SessionSequenceState
          /\ IsFiniteSet(StateOf(w).parked)
          /\ Cardinality(StateOf(w).parked) <= MaxParked
      BY <1>3, CurrentType DEF Attach
    <2> DEFINE q == IF mapped[SessionOf(w)] THEN StateOf(w) ELSE FreshState
    <2>2. FreshState \in SessionSequenceState /\ FreshState.parked = {}
      BY DEF FreshState, SessionSequenceState
    <2>3. /\ q \in SessionSequenceState
          /\ IsFiniteSet(q.parked) /\ Cardinality(q.parked) <= MaxParked
      BY <2>1, <2>2, FS_EmptySet, WorkerPoolAssumption
    <2>4. state' = [state EXCEPT ![SessionOf(w)] = q]
      BY <1>3, <2>1 DEF Attach, StateOf, TypeOK
    <2> HIDE DEF q
    <2>5. /\ state' \in [Sessions -> SessionSequenceState]
          /\ \A t \in Sessions : /\ IsFiniteSet(state'[t].parked)
                                 /\ Cardinality(state'[t].parked) <= MaxParked
      BY <2>1, <2>3, <2>4, StateType
    <2>6. /\ pc' \in [Workers -> Labels]
          /\ \A v \in Workers : pc'[v] \notin {"pop", "exited"}
                                    => cur[v] # NoEvent
      BY <1>3, GotoType DEF Attach, Labels
    <2>7. mapped' \in [Sessions -> BOOLEAN]
      BY <1>3, <2>1 DEF Attach, TypeOK
    <2> QED
      BY <1>3, <2>5, <2>6, <2>7
      DEF TypeOK, Attach, queues, stopVars, completionVars, ioVars, history
  <1>4. CASE Abandon(w)
    BY <1>4, JumpType DEF Abandon, Labels
  <1> QED
    BY <1>1, <1>2, <1>3, <1>4

\* What the test for the drain decides is a Boolean.
LEMMA DrainType ==
  ASSUME TypeOK, NEW drain, NEW map, NEW states, NEW count,
         MaybeCloseInbox(drain, map, states, count)
  PROVE  inboxClosed' \in BOOLEAN
  BY DEF MaybeCloseInbox

\* Parking keeps the limit: an event is added only below it.
LEMMA ParkType ==
  ASSUME TypeOK, NEW w \in Workers,
         ParkEvent(w) \/ ParkCompletion(w) \/ ParkDisconnected(w)
  PROVE  TypeOK'
  <1>1. pc[w] = "start"
    BY DEF ParkEvent, ParkCompletion, ParkDisconnected, Starting
  <1>2. /\ cur[w] \in Event /\ SessionOf(w) \in Sessions
        /\ StateOf(w) \in SessionSequenceState
        /\ IsFiniteSet(StateOf(w).parked)
        /\ Cardinality(StateOf(w).parked) <= MaxParked
    BY <1>1, CurrentType
  <1>3. ASSUME NEW q \in SessionSequenceState, Park(w, q),
               IsFiniteSet(q.parked), Cardinality(q.parked) <= MaxParked
        PROVE  TypeOK'
    <2>1. /\ state' \in [Sessions -> SessionSequenceState]
          /\ \A t \in Sessions : /\ IsFiniteSet(state'[t].parked)
                                 /\ Cardinality(state'[t].parked) <= MaxParked
      BY <1>2, <1>3, StateType DEF Park
    <2>2. /\ pc' \in [Workers -> Labels]
          /\ cur' \in [Workers -> Event \cup {NoEvent}]
          /\ \A v \in Workers : pc'[v] \notin {"pop", "exited"}
                                    => cur'[v] # NoEvent
      BY <1>3, ContinueType DEF Park
    <2> QED
      BY <1>3, <2>1, <2>2
      DEF TypeOK, Park, queues, stopVars, completionVars, ioVars, history
  <1>4. CASE ParkEvent(w)
    <2> DEFINE q == [StateOf(w) EXCEPT !.parked = @ \cup {cur[w]}]
    <2>1. Cardinality(StateOf(w).parked) < MaxParked
      <3>1. ~(Cardinality(StateOf(w).parked) >= MaxParked)
        BY <1>4 DEF ParkEvent, Parkable, ParkedFull
      <3>2. Cardinality(StateOf(w).parked) \in Nat
        BY <1>2, FS_CardinalityType
      <3> QED
        BY <3>1, <3>2, WorkerPoolAssumption
    <2>2. q \in SessionSequenceState
          /\ q.parked = StateOf(w).parked \cup {cur[w]}
      BY <1>2 DEF SessionSequenceState
    <2>3. IsFiniteSet(q.parked) /\ Cardinality(q.parked) <= MaxParked
      <3>1. /\ IsFiniteSet(StateOf(w).parked \cup {cur[w]})
            /\ \/ Cardinality(StateOf(w).parked \cup {cur[w]})
                     = Cardinality(StateOf(w).parked)
               \/ Cardinality(StateOf(w).parked \cup {cur[w]})
                     = Cardinality(StateOf(w).parked) + 1
        BY <1>2, FS_AddElement
      <3>2. Cardinality(StateOf(w).parked) \in Nat
        BY <1>2, FS_CardinalityType
      <3> HIDE DEF q
      <3> QED
        BY <2>1, <2>2, <3>1, <3>2, WorkerPoolAssumption
    <2>4. Park(w, q)
      BY <1>4 DEF ParkEvent
    <2> QED
      BY <1>3, <2>2, <2>3, <2>4
  <1>5. CASE ParkCompletion(w)
    <2> DEFINE q == [StateOf(w) EXCEPT !.early = cur[w]]
    <2>1. q \in SessionSequenceState /\ q.parked = StateOf(w).parked
      BY <1>2 DEF SessionSequenceState
    <2>2. Park(w, q)
      BY <1>5 DEF ParkCompletion
    <2> QED
      BY <1>2, <1>3, <2>1, <2>2
  <1>6. CASE ParkDisconnected(w)
    <2> DEFINE q == [StateOf(w) EXCEPT !.pending = cur[w]]
    <2>1. q \in SessionSequenceState /\ q.parked = StateOf(w).parked
      BY <1>2 DEF SessionSequenceState
    <2>2. Park(w, q)
      BY <1>6 DEF ParkDisconnected
    <2> QED
      BY <1>2, <1>3, <2>1, <2>2
  <1> QED
    BY <1>4, <1>5, <1>6

LEMMA TurnStartType ==
  ASSUME TypeOK, NEW w \in Workers,
         \/ Discard(w) \/ DiscardDrain(w) \/ Reject(w)
         \/ StartTurn(w) \/ ResumeTurn(w)
  PROVE  TypeOK'
  <1>1. CASE Discard(w)
    BY <1>1, JumpType DEF Discard, Starting, Labels
  <1>2. CASE DiscardDrain(w)
    <2>1. inboxClosed' \in BOOLEAN
      BY <1>2, DrainType DEF DiscardDrain
    <2>2. /\ pc' \in [Workers -> Labels]
          /\ cur' \in [Workers -> Event \cup {NoEvent}]
          /\ \A v \in Workers : pc'[v] \notin {"pop", "exited"}
                                    => cur'[v] # NoEvent
      BY <1>2, ContinueType DEF DiscardDrain
    <2> QED
      BY <1>2, <2>1, <2>2
      DEF TypeOK, DiscardDrain, sessionVars, stopVars, completionVars, ioVars,
          history
  <1>3. CASE Reject(w)
    BY <1>3, JumpType DEF Reject, Starting, Labels
  <1>4. CASE StartTurn(w)
    <2>1. /\ cur[w] \in Event /\ SessionOf(w) \in Sessions
          /\ cur[w].sequence \in 0..MaxEvents
          /\ StateOf(w) \in SessionSequenceState
          /\ IsFiniteSet(StateOf(w).parked)
          /\ Cardinality(StateOf(w).parked) <= MaxParked
      BY <1>4, CurrentType DEF StartTurn, Starting
    <2> DEFINE q == [StateOf(w) EXCEPT !.next = cur[w].sequence,
                                       !.active = TRUE,
                                       !.activeDisconnect =
                                           IsDisconnected(cur[w])]
    <2>2. q \in SessionSequenceState /\ q.parked = StateOf(w).parked
      <3>1. IsDisconnected(cur[w]) \in BOOLEAN
        BY DEF IsDisconnected
      <3>2. cur[w].sequence \in Nat
        BY <2>1, WorkerPoolAssumption
      <3> QED
        BY <2>1, <3>1, <3>2 DEF SessionSequenceState
    <2>3. state' = [state EXCEPT ![SessionOf(w)] = q]
      BY <1>4 DEF StartTurn, StateOf
    <2> HIDE DEF q
    <2>4. /\ state' \in [Sessions -> SessionSequenceState]
          /\ \A t \in Sessions : /\ IsFiniteSet(state'[t].parked)
                                 /\ Cardinality(state'[t].parked) <= MaxParked
      BY <2>1, <2>2, <2>3, StateType
    <2>5. /\ pc' \in [Workers -> Labels]
          /\ \A v \in Workers : pc'[v] \notin {"pop", "exited"}
                                    => cur[v] # NoEvent
      BY <1>4, GotoType DEF StartTurn, Starting, Labels
    <2> QED
      BY <1>4, <2>4, <2>5
      DEF TypeOK, StartTurn, queues, stopVars, completionVars, ioVars, history
  <1>5. CASE ResumeTurn(w)
    <2>1. /\ pc' \in [Workers -> Labels]
          /\ \A v \in Workers : pc'[v] \notin {"pop", "exited"}
                                    => cur[v] # NoEvent
      BY <1>5, GotoType DEF ResumeTurn, Starting, Labels
    <2>2. left' \in [Workers -> Batch]
      BY <1>5 DEF ResumeTurn, TypeOK
    <2> QED
      BY <1>5, <2>1, <2>2
      DEF TypeOK, ResumeTurn, queues, sessionVars, stopVars, completionVars,
          ioVars, history
  <1> QED
    BY <1>1, <1>2, <1>3, <1>4, <1>5

\* The handler and the failure of a session.
LEMMA HandlerType ==
  ASSUME TypeOK, NEW w \in Workers,
         \/ SkipFailed(w) \/ EnterHandler(w) \/ Defer(w)
         \/ HandlerReturns(w) \/ HandlerThrows(w)
  PROVE  TypeOK'
  <1>1. CASE SkipFailed(w)
    BY <1>1, JumpType DEF SkipFailed, Labels
  <1>2. CASE EnterHandler(w)
    <2>1. cur[w] \in Event /\ SessionOf(w) \in Sessions
      BY <1>2, CurrentType DEF EnterHandler
    <2>2. handled' \in [Sessions -> Seq(Event)]
      BY <1>2, <2>1 DEF EnterHandler, TypeOK
    <2>3. /\ pc' \in [Workers -> Labels]
          /\ \A v \in Workers : pc'[v] \notin {"pop", "exited"}
                                    => cur[v] # NoEvent
      BY <1>2, GotoType DEF EnterHandler, Labels
    <2> QED
      BY <1>2, <2>2, <2>3
      DEF TypeOK, EnterHandler, queues, sessionVars, stopVars, completionVars,
          ioVars
  <1>3. CASE Defer(w)
    <2>1. cur[w].sequence \in 0..MaxEvents /\ SessionOf(w) \in Sessions
      BY <1>3, CurrentType DEF Defer
    <2>2. completion' \in [Sessions -> DeferredCompletionState]
      BY <1>3, <2>1 DEF Defer, TypeOK, DeferredCompletionState
    <2>3. deferred' \in [Workers -> BOOLEAN]
      BY <1>3 DEF Defer, TypeOK
    <2> QED
      BY <1>3, <2>2, <2>3
      DEF TypeOK, Defer, queues, sessionVars, stopVars, ioVars, history
  <1>4. CASE HandlerReturns(w)
    <2>1. SessionOf(w) \in Sessions
      BY <1>4, CurrentType DEF HandlerReturns
    <2>2. completion[SessionOf(w)] \in DeferredCompletionState
      BY <2>1 DEF TypeOK
    <2>3. inlined' \in [Workers -> Event \cup {NoEvent}]
      BY <1>4, <2>2 DEF HandlerReturns, TypeOK, DeferredCompletionState
    <2>4. completion' \in [Sessions -> DeferredCompletionState]
      <3>1. [completion[SessionOf(w)] EXCEPT !.returned = TRUE,
                                             !.inline = NoEvent]
                \in DeferredCompletionState
        BY <2>2 DEF DeferredCompletionState
      <3>2. \/ completion' = completion
            \/ completion' = [completion EXCEPT ![SessionOf(w)] =
                  [completion[SessionOf(w)] EXCEPT !.returned = TRUE,
                                                   !.inline = NoEvent]]
        BY <1>4 DEF HandlerReturns
      <3> QED
        BY ZenonT(60), <2>1, <3>1, <3>2 DEF TypeOK
    <2>5. left' \in [Workers -> Batch]
      BY <1>4 DEF HandlerReturns, TypeOK
    <2>6. /\ pc' \in [Workers -> Labels]
          /\ \A v \in Workers : pc'[v] \notin {"pop", "exited"}
                                    => cur[v] # NoEvent
      BY <1>4, GotoType DEF HandlerReturns, Labels
    <2> QED
      BY <1>4, <2>3, <2>4, <2>5, <2>6
      DEF TypeOK, HandlerReturns, queues, sessionVars, stopVars, ioVars, history
  <1>5. CASE HandlerThrows(w)
    <2>1. /\ pc' \in [Workers -> Labels]
          /\ \A v \in Workers : pc'[v] \notin {"pop", "exited"}
                                    => cur[v] # NoEvent
      BY <1>5, GotoType DEF HandlerThrows, Labels
    <2>2. deferred' \in [Workers -> BOOLEAN]
      BY <1>5 DEF HandlerThrows, TypeOK
    <2> QED
      BY <1>5, <2>1, <2>2
      DEF TypeOK, HandlerThrows, queues, sessionVars, stopVars, completionVars,
          ioVars, history
  <1> QED
    BY <1>1, <1>2, <1>3, <1>4, <1>5

LEMMA FailureType ==
  ASSUME TypeOK, NEW w \in Workers,
         MarkSessionFailed(w) \/ AlreadyFailed(w)
  PROVE  TypeOK'
  <1>1. CASE MarkSessionFailed(w)
    <2>1. /\ SessionOf(w) \in Sessions
          /\ StateOf(w) \in SessionSequenceState
      BY <1>1, CurrentType DEF MarkSessionFailed
    <2> DEFINE q == Failed(StateOf(w))
    <2>2. /\ q \in SessionSequenceState /\ q.parked = {}
      <3>1. (IF \E e \in StateOf(w).parked : IsDisconnected(e)
             THEN CHOOSE e \in StateOf(w).parked : IsDisconnected(e)
             ELSE StateOf(w).pending) \in Event \cup {NoEvent}
        <4>1. CASE \E e \in StateOf(w).parked : IsDisconnected(e)
          <5>1. (CHOOSE e \in StateOf(w).parked : IsDisconnected(e))
                    \in StateOf(w).parked
            BY <4>1
          <5>2. StateOf(w).parked \subseteq Event
            BY <2>1 DEF SessionSequenceState
          <5> QED
            BY <4>1, <5>1, <5>2
        <4>2. CASE ~ \E e \in StateOf(w).parked : IsDisconnected(e)
          BY <2>1, <4>2 DEF SessionSequenceState
        <4> QED
          BY <4>1, <4>2
      <3> QED
        BY <2>1, <3>1 DEF Failed, SessionSequenceState
    <2>3. state' = [state EXCEPT ![SessionOf(w)] = q]
      BY <1>1 DEF MarkSessionFailed, StateOf
    <2> HIDE DEF q
    <2>4. IsFiniteSet(q.parked) /\ Cardinality(q.parked) <= MaxParked
      BY <2>2, FS_EmptySet, WorkerPoolAssumption
    <2>5. /\ state' \in [Sessions -> SessionSequenceState]
          /\ \A t \in Sessions : /\ IsFiniteSet(state'[t].parked)
                                 /\ Cardinality(state'[t].parked) <= MaxParked
      BY <2>1, <2>2, <2>3, <2>4, StateType
    <2>6. /\ pc' \in [Workers -> Labels]
          /\ \A v \in Workers : pc'[v] \notin {"pop", "exited"}
                                    => cur[v] # NoEvent
      BY <1>1, GotoType DEF MarkSessionFailed, Labels
    <2>7. left' \in [Workers -> Batch]
      BY <1>1, WorkerPoolAssumption DEF MarkSessionFailed, TypeOK, Batch
    <2> QED
      BY <1>1, <2>5, <2>6, <2>7
      DEF TypeOK, MarkSessionFailed, queues, stopVars, completionVars, ioVars,
          history
  <1>2. CASE AlreadyFailed(w)
    BY <1>2, JumpType DEF AlreadyFailed, Labels
  <1> QED
    BY <1>1, <1>2

\* Publishing respects the capacity of the outbox.
LEMMA PublishType ==
  ASSUME TypeOK, NEW w \in Workers,
         PublishOutbound(w) \/ PublishRefused(w) \/ Published(w)
  PROVE  TypeOK'
  <1>1. CASE PublishOutbound(w)
    <2>1. SessionOf(w) \in Sessions /\ cur[w].sequence \in 0..MaxEvents
      BY <1>1, CurrentType DEF PublishOutbound, Publishing, Cutting
    <2>2. [session |-> SessionOf(w), sequence |-> cur[w].sequence,
           cut |-> Cutting(w)] \in Message
      <3>1. Cutting(w) \in BOOLEAN
        BY DEF Cutting
      <3> QED
        BY <2>1, <3>1 DEF Message
    <2>3. outbox' \in Seq(Message) /\ Len(outbox') <= OutboxCapacity
      BY <1>1, <2>2, WorkerPoolAssumption DEF PublishOutbound, TypeOK
    <2>4. left' \in [Workers -> Batch]
      BY <1>1, WorkerPoolAssumption DEF PublishOutbound, TypeOK, Batch
    <2>5. cuts' \in [Sessions -> Nat]
      BY <1>1, <2>1 DEF PublishOutbound, TypeOK
    <2> QED
      BY <1>1, <2>3, <2>4, <2>5
      DEF TypeOK, PublishOutbound, sessionVars, stopVars, completionVars, ioVars
  <1>2. CASE PublishRefused(w)
    <2>1. left' \in [Workers -> Batch]
      BY <1>2, WorkerPoolAssumption DEF PublishRefused, TypeOK, Batch
    <2> QED
      BY <1>2, <2>1
      DEF TypeOK, PublishRefused, queues, sessionVars, stopVars, completionVars,
          ioVars, history
  <1>3. CASE Published(w)
    <2> DEFINE l == CASE pc[w] = "rejectCut" -> "retry"
                      [] pc[w] = "publish" /\ deferred[w] -> "defer"
                      [] OTHER -> "complete"
    <2>1. l \in Labels
      BY DEF Labels
    <2>2. Jump(w, l) /\ pc[w] \notin {"pop", "exited"}
      BY <1>3 DEF Published, Publishing, Cutting
    <2> HIDE DEF l
    <2> QED
      BY <2>1, <2>2, JumpType
  <1> QED
    BY <1>1, <1>2, <1>3

\* The end of a turn: parked events are only taken out.
LEMMA RetryType ==
  ASSUME TypeOK, NEW w \in Workers, Retry(w)
  PROVE  TypeOK'
  <1>1. /\ cur[w] \in Event /\ SessionOf(w) \in Sessions
        /\ StateOf(w) \in SessionSequenceState
        /\ IsFiniteSet(StateOf(w).parked)
        /\ Cardinality(StateOf(w).parked) <= MaxParked
    BY CurrentType DEF Retry
  <1> DEFINE q == [StateOf(w) EXCEPT !.pending = NoEvent]
  <1>2. q \in SessionSequenceState /\ q.parked = StateOf(w).parked
    BY <1>1 DEF SessionSequenceState
  <1>3. \/ state' = state
        \/ state' = [state EXCEPT ![SessionOf(w)] = q]
    BY DEF Retry, StateOf
  <1> HIDE DEF q
  <1>4. /\ state' \in [Sessions -> SessionSequenceState]
        /\ \A t \in Sessions : /\ IsFiniteSet(state'[t].parked)
                               /\ Cardinality(state'[t].parked) <= MaxParked
    <2>1. CASE state' = state
      BY <2>1 DEF TypeOK
    <2>2. CASE state' = [state EXCEPT ![SessionOf(w)] = q]
      BY <1>1, <1>2, <2>2, StateType
    <2> QED
      BY <1>3, <2>1, <2>2
  <1>5. StateOf(w).pending \in Event \cup {NoEvent}
    BY <1>1 DEF SessionSequenceState
  <1>6. \/ Continue(w, cur[w])
        \/ Continue(w, NoEvent)
        \/ Continue(w, StateOf(w).pending)
    BY DEF Retry
  <1>7. /\ pc' \in [Workers -> Labels]
        /\ cur' \in [Workers -> Event \cup {NoEvent}]
        /\ \A v \in Workers : pc'[v] \notin {"pop", "exited"}
                                  => cur'[v] # NoEvent
    BY <1>1, <1>5, <1>6, ContinueType
  <1> QED
    BY <1>4, <1>7
    DEF TypeOK, Retry, queues, stopVars, completionVars, ioVars, history

LEMMA DeferredType ==
  ASSUME TypeOK, NEW w \in Workers, MarkSessionDeferred(w)
  PROVE  TypeOK'
  <1>1. /\ SessionOf(w) \in Sessions
        /\ StateOf(w) \in SessionSequenceState
        /\ IsFiniteSet(StateOf(w).parked)
        /\ Cardinality(StateOf(w).parked) <= MaxParked
    BY CurrentType DEF MarkSessionDeferred
  <1> DEFINE q == [StateOf(w) EXCEPT !.awaiting = TRUE, !.early = NoEvent]
  <1>2. q \in SessionSequenceState /\ q.parked = StateOf(w).parked
    BY <1>1 DEF SessionSequenceState
  <1>3. state' = [state EXCEPT ![SessionOf(w)] = q]
    BY DEF MarkSessionDeferred, StateOf
  <1> HIDE DEF q
  <1>4. /\ state' \in [Sessions -> SessionSequenceState]
        /\ \A t \in Sessions : /\ IsFiniteSet(state'[t].parked)
                               /\ Cardinality(state'[t].parked) <= MaxParked
    BY <1>1, <1>2, <1>3, StateType
  <1>5. (IF inlined[w] # NoEvent THEN inlined[w] ELSE StateOf(w).early)
            \in Event \cup {NoEvent}
    BY <1>1 DEF SessionSequenceState, TypeOK
  <1>6. /\ pc' \in [Workers -> Labels]
        /\ cur' \in [Workers -> Event \cup {NoEvent}]
        /\ \A v \in Workers : pc'[v] \notin {"pop", "exited"}
                                  => cur'[v] # NoEvent
    BY <1>5, ContinueType DEF MarkSessionDeferred
  <1>7. /\ deferred' \in [Workers -> BOOLEAN]
        /\ inlined' \in [Workers -> Event \cup {NoEvent}]
        /\ outstanding' \in Nat
    BY DEF MarkSessionDeferred, TypeOK
  <1> QED
    BY <1>4, <1>6, <1>7
    DEF TypeOK, MarkSessionDeferred, queues, stopVars, completionVars, ioVars,
        history

LEMMA CompleteType ==
  ASSUME TypeOK, NEW w \in Workers, CompleteSessionTurn(w)
  PROVE  TypeOK'
  <1>1. /\ SessionOf(w) \in Sessions
        /\ StateOf(w) \in SessionSequenceState
        /\ IsFiniteSet(StateOf(w).parked)
        /\ Cardinality(StateOf(w).parked) <= MaxParked
    BY CurrentType DEF CompleteSessionTurn
  <1> DEFINE q == [StateOf(w) EXCEPT !.active = FALSE, !.awaiting = FALSE,
                                     !.next = @ + 1]
             next == Successor(q)
             r == [q EXCEPT !.closed = @ \/ q.activeDisconnect,
                            !.pending = IF q.failed /\ ~q.activeDisconnect
                                        THEN NoEvent ELSE @,
                            !.parked = @ \ {next}]
  <1>2. q \in SessionSequenceState /\ q.parked = StateOf(w).parked
    <2>1. StateOf(w).next + 1 \in Nat
      BY <1>1 DEF SessionSequenceState
    <2>2. q = [StateOf(w) EXCEPT !.active = FALSE, !.awaiting = FALSE,
                                 !.next = StateOf(w).next + 1]
      BY <1>1 DEF SessionSequenceState
    <2> HIDE DEF q
    <2> QED
      BY <1>1, <2>1, <2>2 DEF SessionSequenceState
  <1>3. /\ state' = [state EXCEPT ![SessionOf(w)] = r]
        /\ Continue(w, next)
        /\ mapped' = [mapped EXCEPT ![SessionOf(w)] = @ /\ ~q.activeDisconnect]
        /\ outstanding' = OutstandingAfter(cur[w])
        /\ \/ MaybeCloseInbox(draining, mapped', state', outstanding')
           \/ UNCHANGED inboxClosed
    <2>1. state' = [state EXCEPT ![SessionOf(w)] = r]
      BY DEF CompleteSessionTurn, StateOf
    <2>2. Continue(w, next)
      BY DEF CompleteSessionTurn, StateOf
    <2>3. mapped' = [mapped EXCEPT ![SessionOf(w)] = @ /\ ~q.activeDisconnect]
      BY DEF CompleteSessionTurn, StateOf
    <2>4. outstanding' = OutstandingAfter(cur[w])
      BY DEF CompleteSessionTurn
    <2>5. \/ MaybeCloseInbox(draining, mapped', state', outstanding')
          \/ UNCHANGED inboxClosed
      BY DEF CompleteSessionTurn
    <2> QED
      BY <2>1, <2>2, <2>3, <2>4, <2>5
  <1>4. next \in Event \cup {NoEvent}
    <2> HIDE DEF q
    <2>1. q.pending \in Event \cup {NoEvent} /\ q.parked \subseteq Event
      BY <1>2 DEF SessionSequenceState
    <2>2. (\E e \in q.parked : e.sequence = q.next)
            => (CHOOSE e \in q.parked : e.sequence = q.next) \in q.parked
      OBVIOUS
    <2> QED
      BY <2>1, <2>2 DEF Successor
  <1>5. /\ r \in SessionSequenceState
        /\ r.parked = StateOf(w).parked \ {next}
    <2> HIDE DEF next, q
    <2> QED
      BY <1>2, <1>4 DEF SessionSequenceState
  <1>6. IsFiniteSet(r.parked) /\ Cardinality(r.parked) <= MaxParked
    <2>1. /\ IsFiniteSet(StateOf(w).parked \ {next})
          /\ \/ Cardinality(StateOf(w).parked \ {next})
                   = Cardinality(StateOf(w).parked)
             \/ Cardinality(StateOf(w).parked \ {next})
                   = Cardinality(StateOf(w).parked) - 1
      BY <1>1, FS_RemoveElement
    <2>2. Cardinality(StateOf(w).parked) \in Nat
      BY <1>1, FS_CardinalityType
    <2> HIDE DEF r, next
    <2> QED
      BY <1>1, <1>5, <2>1, <2>2, WorkerPoolAssumption
  <1> HIDE DEF r, next
  <1>7. /\ state' \in [Sessions -> SessionSequenceState]
        /\ \A t \in Sessions : /\ IsFiniteSet(state'[t].parked)
                               /\ Cardinality(state'[t].parked) <= MaxParked
    BY <1>1, <1>3, <1>5, <1>6, StateType
  <1>8. /\ pc' \in [Workers -> Labels]
        /\ cur' \in [Workers -> Event \cup {NoEvent}]
        /\ \A v \in Workers : pc'[v] \notin {"pop", "exited"}
                                  => cur'[v] # NoEvent
    BY <1>3, <1>4, ContinueType
  <1>9. mapped' \in [Sessions -> BOOLEAN]
    <2> HIDE DEF q
    <2> QED
      BY <1>1, <1>3 DEF TypeOK
  <1>10. outstanding' \in Nat
    BY <1>3 DEF TypeOK, OutstandingAfter
  <1>11. inboxClosed' \in BOOLEAN
    BY <1>3, DrainType DEF TypeOK
  <1> QED
    BY <1>7, <1>8, <1>9, <1>10, <1>11
    DEF TypeOK, CompleteSessionTurn, stopVars, completionVars, ioVars, history

-----------------------------------------------------------------------------
\* The completing threads and the I/O thread respect the inbox's capacity.
LEMMA CompleterType ==
  ASSUME TypeOK, NEW s \in Sessions, Completer(s)
  PROVE  TypeOK'
  <1>1. CASE Complete(s)
    <2>1. completion[s] \in DeferredCompletionState
      BY DEF TypeOK
    <2>2. PICK failure \in BOOLEAN :
            \/ /\ pushing' = [pushing EXCEPT ![s] = CompletionOf(s, failure)]
               /\ completion' = [completion EXCEPT ![s] =
                                    [@ EXCEPT !.completed = TRUE]]
            \/ /\ completion' = [completion EXCEPT ![s] =
                                    [@ EXCEPT !.completed = TRUE,
                                        !.inline = CompletionOf(s, failure)]]
               /\ UNCHANGED pushing
      BY <1>1 DEF Complete
    <2>3. CompletionOf(s, failure) \in Event
      BY <2>1 DEF CompletionOf, Event, Kinds, DeferredCompletionState
    <2>4. /\ [completion[s] EXCEPT !.completed = TRUE]
                \in DeferredCompletionState
          /\ [completion[s] EXCEPT !.completed = TRUE,
                                   !.inline = CompletionOf(s, failure)]
                \in DeferredCompletionState
      BY <2>1, <2>3 DEF DeferredCompletionState
    <2>5. completion' \in [Sessions -> DeferredCompletionState]
      BY <2>2, <2>4 DEF TypeOK
    <2>6. pushing' \in [Sessions -> Event \cup {NoEvent}]
      BY ZenonT(60), <2>2, <2>3 DEF TypeOK
    <2> QED
      BY <1>1, <2>5, <2>6
      DEF TypeOK, Complete, queues, sessionVars, stopVars, workerVars, locals,
          ioVars, history
  <1>2. CASE PushCompletion(s)
    <2>1. pushing[s] \in Event
      BY <1>2 DEF PushCompletion, TypeOK
    <2>2. inbox' \in Seq(Event) /\ Len(inbox') <= InboxCapacity
      BY <1>2, <2>1, WorkerPoolAssumption DEF PushCompletion, TypeOK
    <2>3. pushing' \in [Sessions -> Event \cup {NoEvent}]
      BY <1>2 DEF PushCompletion, TypeOK
    <2> QED
      BY <1>2, <2>2, <2>3
      DEF TypeOK, PushCompletion, sessionVars, stopVars, workerVars, locals,
          ioVars, history
  <1>3. CASE PushCompletionRefused(s)
    <2>1. pushing' \in [Sessions -> Event \cup {NoEvent}]
      BY <1>3 DEF PushCompletionRefused, TypeOK
    <2> QED
      BY <1>3, <2>1
      DEF TypeOK, PushCompletionRefused, queues, sessionVars, stopVars,
          workerVars, locals, ioVars, history
  <1> QED
    BY <1>1, <1>2, <1>3 DEF Completer

LEMMA EnqueueType ==
  ASSUME TypeOK, NEW s \in Sessions, NEW kind \in Kinds,
         NEW q \in 0..MaxEvents, Enqueue(s, kind, q),
         sent' \in [Sessions -> 0..MaxEvents], gone' \in [Sessions -> BOOLEAN],
         repeated' \in 0..MaxRepeats
  PROVE  TypeOK'
  <1>1. [kind |-> kind, session |-> s, sequence |-> q, failed |-> FALSE]
            \in Event
    BY DEF Event
  <1>2. inbox' \in Seq(Event) /\ Len(inbox') <= InboxCapacity
    BY <1>1, WorkerPoolAssumption DEF Enqueue, TypeOK
  <1> QED
    BY <1>2
    DEF TypeOK, Enqueue, sessionVars, stopVars, workerVars, locals,
        completionVars, history

LEMMA ProducerType ==
  ASSUME TypeOK, NEW s \in Sessions, Producer(s)
  PROVE  TypeOK'
  <1>1. sent[s] \in 0..MaxEvents
    BY DEF TypeOK
  <1>2. CASE EnqueuePacket(s)
    <2>1. /\ sent' \in [Sessions -> 0..MaxEvents]
          /\ gone' \in [Sessions -> BOOLEAN]
          /\ repeated' \in 0..MaxRepeats
      BY <1>1, <1>2, WorkerPoolAssumption DEF EnqueuePacket, TypeOK
    <2> QED
      BY <1>1, <1>2, <2>1, EnqueueType DEF EnqueuePacket, Kinds
  <1>3. CASE EnqueueDuplicate(s)
    <2>1. repeated' \in 0..MaxRepeats
      BY <1>3, WorkerPoolAssumption DEF EnqueueDuplicate, TypeOK
    <2> QED
      BY <1>3, <2>1, EnqueueType DEF EnqueueDuplicate, Kinds, TypeOK
  <1>4. CASE EnqueueDisconnected(s)
    <2>1. /\ sent' \in [Sessions -> 0..MaxEvents]
          /\ gone' \in [Sessions -> BOOLEAN]
          /\ repeated' \in 0..MaxRepeats
      BY <1>4 DEF EnqueueDisconnected, TypeOK
    <2> QED
      BY <1>1, <1>4, <2>1, EnqueueType DEF EnqueueDisconnected, Kinds
  <1> QED
    BY <1>2, <1>3, <1>4 DEF Producer

LEMMA ControlType ==
  ASSUME TypeOK,
         \/ IoPop \/ BeginStop \/ ForceStop \/ ForceCloseInbox
         \/ ForceCloseOutbox
  PROVE  TypeOK'
  <1> USE DEF sessionVars, workerVars, locals, completionVars, ioVars, history
  <1>1. CASE IoPop
    <2>1. outbox' \in Seq(Message) /\ Len(outbox') <= OutboxCapacity
      BY <1>1, WorkerPoolAssumption DEF IoPop, TypeOK
    <2> QED
      BY <1>1, <2>1 DEF IoPop, TypeOK, stopVars
  <1>2. CASE BeginStop
    <2>1. inboxClosed' \in BOOLEAN
      BY <1>2, DrainType DEF BeginStop
    <2> QED
      BY <1>2, <2>1 DEF BeginStop, TypeOK
  <1>3. CASE ForceStop
    BY <1>3 DEF ForceStop, TypeOK, queues
  <1>4. CASE ForceCloseInbox
    BY <1>4 DEF ForceCloseInbox, TypeOK, stopVars
  <1>5. CASE ForceCloseOutbox
    BY <1>5 DEF ForceCloseOutbox, TypeOK, stopVars
  <1> QED
    BY <1>1, <1>2, <1>3, <1>4, <1>5

LEMMA StutterType == TypeOK /\ UNCHANGED vars => TypeOK'
  BY DEF TypeOK, vars, shared, workerVars, locals, queues, sessionVars,
         stopVars, completionVars, ioVars, history

LEMMA NextType == TypeOK /\ [Next]_vars => TypeOK'
  <1> SUFFICES ASSUME TypeOK, [Next]_vars PROVE TypeOK'
    OBVIOUS
  <1>1. ASSUME NEW w \in Workers, Run(w) PROVE TypeOK'
    BY <1>1, IntakeType, ParkType, TurnStartType, HandlerType, FailureType,
       PublishType, RetryType, DeferredType, CompleteType DEF Run
  <1>2. ASSUME NEW s \in Sessions, Completer(s) \/ Producer(s) PROVE TypeOK'
    BY <1>2, CompleterType, ProducerType
  <1>3. CASE \/ IoPop \/ BeginStop \/ ForceStop \/ ForceCloseInbox
             \/ ForceCloseOutbox
    BY <1>3, ControlType
  <1>4. CASE UNCHANGED vars
    BY <1>4, StutterType
  <1> QED
    BY <1>1, <1>2, <1>3, <1>4 DEF Next

\* Every state of the pool is well typed: in particular neither queue exceeds
\* its capacity, no session has more than max_parked_events_per_session events
\* parked (tryStartSessionTurn, line 492), a turn publishes within its budget
\* and a worker never runs the inner loop without an event.
THEOREM TypeCorrect == Spec => []TypeOK
  BY InitType, NextType, PTL DEF Spec
-----------------------------------------------------------------------------
\* An inbox that stays is shifted by 0.
LEMMA NotShifted ==
  ASSUME NEW S, NEW q \in Seq(S)
  PROVE  \A i \in DOMAIN q : i + 0 = i
  OBVIOUS

LEMMA SamePlaces ==
  ASSUME TypeOK, inbox' = inbox
  PROVE  \A i \in DOMAIN inbox' : i + 0 \in DOMAIN inbox /\ inbox'[i] = inbox[i + 0]
  <1>1. inbox \in Seq(Event)
    BY DEF TypeOK
  <1>2. \A i \in DOMAIN inbox : i + 0 = i
    BY <1>1, NotShifted
  <1> QED
    BY <1>2

LEMMA SameInbox ==
  ASSUME TypeOK, inbox' = inbox
  PROVE  \A s \in Sessions : \A i \in DOMAIN inbox' :
             QueuedAt(s, i)' => QueuedAt(s, i + 0)
  <1>1. inbox \in Seq(Event)
    BY DEF TypeOK
  <1>2. \A i \in DOMAIN inbox : i + 0 = i
    BY <1>1, NotShifted
  <1> QED
    BY <1>2 DEF QueuedAt

\* No completion of the session turns up in a place where none was.  Taking the
\* head of the inbox shifts the others by k = 1.
ShrinksAt(s, k) ==
    /\ Open(s)' => Open(s)
    /\ Inline(s)' => Inline(s)
    /\ Inlined(s)' => Inlined(s)
    /\ Pushed(s)' => Pushed(s)
    /\ \A i \in DOMAIN inbox' : QueuedAt(s, i)' => QueuedAt(s, i + k)
    /\ \A w \in Workers : HeldBy(s, w)' => HeldBy(s, w)
    /\ Early(s)' => Early(s)

SameWorker(v) ==
    /\ pc'[v] = pc[v] /\ cur'[v] = cur[v]
    /\ deferred'[v] = deferred[v] /\ inlined'[v] = inlined[v]

\* The worker has nothing to do with the session.
AwayFrom(v, s) ==
    DeferralLocal(v) /\ (pc[v] \notin {"pop", "exited"} => SessionOf(v) # s)

LEMMA ShrinkTokens ==
  ASSUME TypeOK, TypeOK', NEW s \in Sessions, NEW k \in Nat, ShrinksAt(s, k)
  PROVE  /\ Queued(s)' => Queued(s)
         /\ Held(s)' => Held(s)
         /\ Delivered(s)' => Delivered(s)
         /\ Token(s)' => Token(s)
  <1>1. Queued(s)' => Queued(s)
    BY DEF ShrinksAt, Queued, QueuedAt
  <1>2. Held(s)' => Held(s)
    BY DEF ShrinksAt, Held
  <1>3. Delivered(s)' => Delivered(s)
    BY <1>1, <1>2 DEF ShrinksAt, Delivered
  <1>4. Token(s)' => Token(s)
    BY <1>3 DEF ShrinksAt, Token
  <1> QED
    BY <1>1, <1>2, <1>3, <1>4

LEMMA ShrinkOne ==
  ASSUME TypeOK, TypeOK', NEW s \in Sessions, NEW k \in Nat, ShrinksAt(s, k),
         OneCompletionOf(s)
  PROVE  OneCompletionOf(s)'
  <1>1. /\ Queued(s)' => Queued(s)
        /\ Held(s)' => Held(s)
        /\ Delivered(s)' => Delivered(s)
    BY ShrinkTokens
  <1>2. /\ Open(s)' => Open(s)
        /\ Inline(s)' => Inline(s)
        /\ Inlined(s)' => Inlined(s)
        /\ Pushed(s)' => Pushed(s)
        /\ Early(s)' => Early(s)
    BY DEF ShrinksAt
  <1>3. /\ Open(s) => ~Inline(s) /\ ~Delivered(s)
        /\ Inline(s) => ~Delivered(s)
        /\ Inlined(s) => ~Pushed(s) /\ ~Queued(s) /\ ~Held(s) /\ ~Early(s)
        /\ Pushed(s) => ~Queued(s) /\ ~Held(s) /\ ~Early(s)
        /\ Queued(s) => ~Held(s) /\ ~Early(s)
        /\ Held(s) => ~Early(s)
    BY DEF OneCompletionOf
  <1>4. ASSUME NEW i \in DOMAIN inbox', NEW j \in DOMAIN inbox',
               QueuedAt(s, i)', QueuedAt(s, j)'
        PROVE  i = j
    <2>1. QueuedAt(s, i + k) /\ QueuedAt(s, j + k)
      BY <1>4 DEF ShrinksAt
    <2>2. i + k \in DOMAIN inbox /\ j + k \in DOMAIN inbox
      BY <2>1 DEF QueuedAt
    <2>3. i + k = j + k
      BY <2>1, <2>2 DEF OneCompletionOf
    <2>4. i \in Nat /\ j \in Nat
      BY SMTT(40) DEF TypeOK
    <2> QED
      BY <2>3, <2>4
  <1>5. ASSUME NEW v \in Workers, NEW w \in Workers,
               HeldBy(s, v)', HeldBy(s, w)'
        PROVE  v = w
    BY <1>5 DEF ShrinksAt, OneCompletionOf
  <1> QED
    BY <1>1, <1>2, <1>3, <1>4, <1>5 DEF OneCompletionOf

\* What no step but the beginning and the end of a turn changes.
StateKept(s) ==
    /\ state'[s].active = state[s].active
    /\ state'[s].closed = state[s].closed
    /\ state'[s].next = state[s].next
    /\ state'[s].awaiting = state[s].awaiting
    /\ mapped'[s] = mapped[s]

\* A step that gives no worker the turn and makes no completion.
LEMMA MoveTurn ==
  ASSUME TypeOK, TypeOK', NEW s \in Sessions, SessionInv(s),
         StateKept(s), KeptEvents(s)', OneCompletionOf(s)',
         CompletionFlags(s)', Token(s)' => Token(s),
         \A v \in Workers : InTurn(v)' /\ SessionOf(v)' = s =>
             /\ InTurn(v) /\ cur'[v] = cur[v]
             /\ deferred'[v] = deferred[v] \/ ~Token(s)',
         \A v \in Workers : PastIntake(v)' /\ SessionOf(v)' = s =>
             PastIntake(v) /\ SessionOf(v) = s
  PROVE  SessionInv(s)'
  <1>1. OneTurn(s)'
    BY DEF SessionInv, OneTurn, StateKept, SessionOf
  <1>2. FirstTurn(s)'
    BY DEF SessionInv, FirstTurn, StateKept, SessionOf
  <1>3. CompletionActive(s)'
    BY DEF SessionInv, CompletionActive, StateKept
  <1>4. Attached(s)'
    BY DEF SessionInv, Attached, StateKept
  <1> QED
    BY <1>1, <1>2, <1>3, <1>4 DEF SessionInv

\* ... and moves none.
LEMMA KeepTurn ==
  ASSUME TypeOK, TypeOK', NEW s \in Sessions, SessionInv(s),
         NEW k \in Nat, ShrinksAt(s, k), StateKept(s), KeptEvents(s)',
         completion'[s] = completion[s],
         \A v \in Workers : InTurn(v)' /\ SessionOf(v)' = s =>
             /\ InTurn(v) /\ cur'[v] = cur[v] /\ deferred'[v] = deferred[v]
             /\ pc'[v] = "handler" /\ deferred[v] => pc[v] = "handler",
         \A v \in Workers : PastIntake(v)' /\ SessionOf(v)' = s =>
             PastIntake(v) /\ SessionOf(v) = s
  PROVE  SessionInv(s)'
  <1>1. OneCompletionOf(s)'
    BY ShrinkOne DEF SessionInv
  <1>2. /\ Token(s)' => Token(s)
        /\ Delivered(s)' => Delivered(s)
    BY ShrinkTokens
  <1>3. CompletionFlags(s)'
    BY <1>2 DEF SessionInv, CompletionFlags, SessionOf, InTurn
  <1> QED
    BY <1>1, <1>2, <1>3, MoveTurn

\* The sessions a step does not concern.
LEMMA Elsewhere ==
  ASSUME TypeOK, TypeOK', NEW s \in Sessions, SessionInv(s), NEW k \in Nat,
         state'[s] = state[s], mapped'[s] = mapped[s],
         completion'[s] = completion[s], pushing'[s] = pushing[s],
         \A i \in DOMAIN inbox' : QueuedAt(s, i)' => QueuedAt(s, i + k),
         \A v \in Workers : SameWorker(v) \/ AwayFrom(v, s)'
  PROVE  SessionInv(s)'
  <1>1. ShrinksAt(s, k)
    <2>1. DeferringHandler(s)' => DeferringHandler(s)
      BY DEF DeferringHandler, SessionOf, SameWorker, AwayFrom
    <2>2. Open(s)' => Open(s)
      BY <2>1 DEF Open, Answerable
    <2>3. Inline(s)' => Inline(s)
      BY <2>1 DEF Inline, Answerable
    <2>4. Inlined(s)' => Inlined(s)
      BY DEF Inlined, SessionOf, SameWorker, AwayFrom, DeferralLocal
    <2>5. Pushed(s)' => Pushed(s)
      BY DEF Pushed
    <2>6. \A v \in Workers : HeldBy(s, v)' => HeldBy(s, v)
      BY DEF HeldBy, SessionOf, SameWorker, AwayFrom
    <2>7. Early(s)' => Early(s)
      BY DEF Early
    <2> QED
      BY <2>2, <2>3, <2>4, <2>5, <2>6, <2>7 DEF ShrinksAt
  <1>2. StateKept(s)
    BY DEF StateKept
  <1>3. KeptEvents(s)'
    BY DEF SessionInv, KeptEvents
  <1>4. \A v \in Workers : InTurn(v)' /\ SessionOf(v)' = s =>
             /\ InTurn(v) /\ cur'[v] = cur[v] /\ deferred'[v] = deferred[v]
             /\ pc'[v] = "handler" /\ deferred[v] => pc[v] = "handler"
    BY DEF InTurn, SameWorker, AwayFrom
  <1>5. \A v \in Workers : PastIntake(v)' /\ SessionOf(v)' = s =>
             PastIntake(v) /\ SessionOf(v) = s
    BY DEF PastIntake, SameWorker, AwayFrom, SessionOf
  <1> QED
    BY <1>1, <1>2, <1>3, <1>4, <1>5, KeepTurn

\* A step of the pool's environment that touches no completion.
LEMMA FrameTurn ==
  ASSUME TurnInv, TypeOK',
         UNCHANGED <<pc, cur, deferred, inlined, state, mapped, completion,
                     pushing>>,
         \A s \in Sessions : \A i \in DOMAIN inbox' :
             QueuedAt(s, i)' => QueuedAt(s, i)
  PROVE  TurnInv'
  <1>1. ASSUME NEW s \in Sessions PROVE SessionInv(s)'
    <2>1. \A v \in Workers : SameWorker(v)
      BY DEF SameWorker
    <2>2. \A i \in DOMAIN inbox' : QueuedAt(s, i)' => QueuedAt(s, i + 0)
      <3>1. inbox' \in Seq(Event)
        BY DEF TypeOK
      <3>2. \A i \in DOMAIN inbox' : i + 0 = i
        BY <3>1, NotShifted
      <3> QED
        BY <3>2
    <2> QED
      BY <2>1, <2>2, Elsewhere DEF TurnInv
  <1>2. ASSUME NEW w \in Workers PROVE DeferralLocal(w)'
    BY DEF TurnInv, DeferralLocal, SessionOf
  <1> QED
    BY <1>1, <1>2 DEF TurnInv

\* A step of one worker at one session.
LEMMA WorkerTurn ==
  ASSUME TurnInv, TypeOK', NEW w \in Workers, NEW s \in Sessions,
         NEW k \in Nat,
         \A v \in Workers \ {w} : SameWorker(v),
         \A t \in Sessions \ {s} :
             /\ state'[t] = state[t] /\ mapped'[t] = mapped[t]
             /\ completion'[t] = completion[t] /\ pushing'[t] = pushing[t]
             /\ \A i \in DOMAIN inbox' : QueuedAt(t, i)' => QueuedAt(t, i + k),
         pc'[w] \notin {"pop", "exited"} => SessionOf(w)' = s,
         DeferralLocal(w)',
         SessionInv(s)'
  PROVE  TurnInv'
  <1>1. ASSUME NEW t \in Sessions \ {s} PROVE SessionInv(t)'
    <2>1. \A v \in Workers : SameWorker(v) \/ AwayFrom(v, t)'
      BY DEF AwayFrom
    <2> QED
      BY <2>1, Elsewhere DEF TurnInv
  <1>2. ASSUME NEW v \in Workers \ {w} PROVE DeferralLocal(v)'
    BY DEF TurnInv, DeferralLocal, SessionOf, SameWorker
  <1> QED
    BY <1>1, <1>2 DEF TurnInv

-----------------------------------------------------------------------------
(* The steps that move no completion.                                       *)

\* A worker with an event goes on to another label with the same event.
LEMMA KeepStep ==
  ASSUME TurnInv, TypeOK', NEW w \in Workers, NEW l \in Labels,
         NEW s \in Sessions, SessionOf(w) = s,
         pc[w] \notin {"pop", "exited"}, Goto(w, l),
         UNCHANGED <<cur, deferred, inlined, completion, pushing, mapped,
                     inbox>>,
         \A t \in Sessions \ {s} : state'[t] = state[t],
         StateKept(s), KeptEvents(s)',
         state'[s].early = state[s].early,
         l \in {"check", "handler", "broken", "brokenCut", "publish", "defer",
                "complete"} => InTurn(w),
         l = "handler" => pc[w] = "check",
         deferred[w] => l \in {"publish", "defer"},
         l = "defer" => deferred[w], pc[w] # "attach"
  PROVE  TurnInv'
  <1>2. /\ \A v \in Workers \ {w} : SameWorker(v)
        /\ pc'[w] = l /\ cur'[w] = cur[w] /\ SessionOf(w)' = s
        /\ deferred'[w] = deferred[w] /\ inlined'[w] = inlined[w]
    BY DEF Goto, SameWorker, TurnInv, TypeOK, SessionOf
  <1>3. l = "handler" => ~deferred[w]
    BY DEF TurnInv, DeferralLocal
  <1>4. DeferralLocal(w)'
    BY <1>2, <1>3 DEF TurnInv, DeferralLocal
  <1>5. ShrinksAt(s, 0)
    <2>1. DeferringHandler(s)' => DeferringHandler(s)
      BY <1>2, <1>3 DEF DeferringHandler, SessionOf, SameWorker
    <2>2. Open(s)' => Open(s)
      BY <2>1 DEF Open, Answerable
    <2>3. Inline(s)' => Inline(s)
      BY <2>1 DEF Inline, Answerable
    <2>4. Inlined(s)' => Inlined(s)
      BY <1>2 DEF Inlined, SessionOf, SameWorker
    <2>5. Pushed(s)' => Pushed(s)
      BY DEF Pushed
    <2>6. \A v \in Workers : HeldBy(s, v)' => HeldBy(s, v)
      BY <1>2 DEF HeldBy, SessionOf, SameWorker
    <2>7. Early(s)' => Early(s)
      BY DEF Early
    <2>8. \A i \in DOMAIN inbox' : QueuedAt(s, i)' => QueuedAt(s, i + 0)
      BY SameInbox DEF TurnInv
    <2> QED
      BY <2>2, <2>3, <2>4, <2>5, <2>6, <2>7, <2>8 DEF ShrinksAt
  <1>6. SessionInv(s)'
    <2>1. \A v \in Workers : InTurn(v)' /\ SessionOf(v)' = s =>
             /\ InTurn(v) /\ cur'[v] = cur[v] /\ deferred'[v] = deferred[v]
             /\ pc'[v] = "handler" /\ deferred[v] => pc[v] = "handler"
      BY <1>2, <1>3 DEF InTurn, SameWorker
    <2>2. \A v \in Workers : PastIntake(v)' /\ SessionOf(v)' = s =>
             PastIntake(v) /\ SessionOf(v) = s
      BY <1>2 DEF PastIntake, SameWorker, SessionOf
    <2> QED
      BY <1>5, <2>1, <2>2, KeepTurn DEF TurnInv
  <1>7. \A t \in Sessions : \A i \in DOMAIN inbox' :
            QueuedAt(t, i)' => QueuedAt(t, i + 0)
    BY SameInbox DEF TurnInv
  <1> QED
    BY <1>2, <1>4, <1>6, <1>7, WorkerTurn

\* A worker without the turn ends its loop, or goes on with an event that is not
\* a completion.
LEMMA DropStep ==
  ASSUME TurnInv, TypeOK', NEW w \in Workers, NEW e \in Event \cup {NoEvent},
         NEW s \in Sessions, SessionOf(w) = s,
         PastIntake(w), ~InTurn(w), Continue(w, e),
         e # NoEvent => ~IsCompletion(e) /\ e.session = s,
         UNCHANGED <<deferred, inlined, completion, pushing, mapped, inbox>>,
         \A t \in Sessions \ {s} : state'[t] = state[t],
         StateKept(s), KeptEvents(s)',
         state'[s].early = state[s].early
  PROVE  TurnInv'
  <1>2. /\ \A v \in Workers \ {w} : SameWorker(v)
        /\ pc'[w] \in {"pop", "start"} /\ cur'[w] = e
        /\ pc'[w] # "pop" => e # NoEvent /\ SessionOf(w)' = s
        /\ deferred'[w] = deferred[w] /\ inlined'[w] = inlined[w]
    BY DEF Goto, Continue, SameWorker, TurnInv, TypeOK, SessionOf
  <1>3. ~deferred[w] /\ inlined[w] = NoEvent
    BY DEF TurnInv, DeferralLocal, InTurn
  <1>4. DeferralLocal(w)'
    BY <1>2, <1>3 DEF DeferralLocal
  <1>5. ShrinksAt(s, 0)
    <2>1. DeferringHandler(s)' => DeferringHandler(s)
      BY <1>2, <1>3 DEF DeferringHandler, SessionOf, SameWorker
    <2>2. Open(s)' => Open(s)
      BY <2>1 DEF Open, Answerable
    <2>3. Inline(s)' => Inline(s)
      BY <2>1 DEF Inline, Answerable
    <2>4. Inlined(s)' => Inlined(s)
      BY <1>2, <1>3 DEF Inlined, SessionOf, SameWorker
    <2>5. Pushed(s)' => Pushed(s)
      BY DEF Pushed
    <2>6. \A v \in Workers : HeldBy(s, v)' => HeldBy(s, v)
      BY <1>2 DEF HeldBy, SessionOf, SameWorker, IsCompletion
    <2>7. Early(s)' => Early(s)
      BY DEF Early
    <2>8. \A i \in DOMAIN inbox' : QueuedAt(s, i)' => QueuedAt(s, i + 0)
      BY SameInbox DEF TurnInv
    <2> QED
      BY <2>2, <2>3, <2>4, <2>5, <2>6, <2>7, <2>8 DEF ShrinksAt
  <1>6. SessionInv(s)'
    <2>1. \A v \in Workers : InTurn(v)' /\ SessionOf(v)' = s =>
             /\ InTurn(v) /\ cur'[v] = cur[v] /\ deferred'[v] = deferred[v]
             /\ pc'[v] = "handler" /\ deferred[v] => pc[v] = "handler"
      BY <1>2, <1>3 DEF InTurn, SameWorker
    <2>2. \A v \in Workers : PastIntake(v)' /\ SessionOf(v)' = s =>
             PastIntake(v) /\ SessionOf(v) = s
      BY <1>2 DEF PastIntake, SameWorker, SessionOf
    <2> QED
      BY <1>5, <2>1, <2>2, KeepTurn DEF TurnInv
  <1>7. \A t \in Sessions : \A i \in DOMAIN inbox' :
            QueuedAt(t, i)' => QueuedAt(t, i + 0)
    BY SameInbox DEF TurnInv
  <1> QED
    BY <1>2, <1>4, <1>6, <1>7, WorkerTurn

LEMMA JumpTurn ==
  ASSUME TurnInv, TypeOK', NEW w \in Workers, NEW l \in Labels,
         pc[w] \notin {"pop", "exited"}, Jump(w, l),
         l \in {"check", "handler", "broken", "brokenCut", "publish", "defer",
                "complete"} => InTurn(w),
         l # "handler",
         deferred[w] => l \in {"publish", "defer"},
         l = "defer" => deferred[w], pc[w] # "attach"
  PROVE  TurnInv'
  <1> USE DEF Jump, shared, locals, queues, sessionVars, completionVars
  <1>1. PICK s \in Sessions : SessionOf(w) = s
    BY CurrentType DEF TurnInv
  <1>2. StateKept(s) /\ KeptEvents(s)'
    BY DEF StateKept, KeptEvents, TurnInv, SessionInv
  <1>3. /\ Goto(w, l)
        /\ UNCHANGED <<cur, deferred, inlined, completion, pushing, mapped,
                       inbox>>
        /\ \A t \in Sessions \ {s} : state'[t] = state[t]
        /\ state'[s].early = state[s].early
    OBVIOUS
  <1> QED
    BY <1>1, <1>2, <1>3, KeepStep

\* pop fails: the worker has no event and gets none.
LEMMA PopFailedTurn ==
  ASSUME TurnInv, TypeOK', NEW w \in Workers, PopFailed(w)
  PROVE  TurnInv'
  <1> USE DEF PopFailed, Jump, Goto, shared, locals, queues, sessionVars,
              completionVars
  <1>1. ~deferred[w] /\ inlined[w] = NoEvent
    BY DEF TurnInv, DeferralLocal
  <1>2. pc'[w] = "exited" /\ DeferralLocal(w)'
    BY <1>1 DEF DeferralLocal, TurnInv, TypeOK
  <1>3. \A v \in Workers \ {w} : SameWorker(v)
    BY DEF SameWorker, TurnInv, TypeOK
  <1>4. ASSUME NEW s \in Sessions PROVE SessionInv(s)'
    <2>1. \A v \in Workers : SameWorker(v) \/ AwayFrom(v, s)'
      BY <1>2, <1>3 DEF AwayFrom
    <2>2. \A i \in DOMAIN inbox' : QueuedAt(s, i)' => QueuedAt(s, i + 0)
      BY SameInbox DEF TurnInv
    <2> QED
      BY <2>1, <2>2, Elsewhere DEF TurnInv
  <1>5. ASSUME NEW v \in Workers \ {w} PROVE DeferralLocal(v)'
    BY <1>3 DEF TurnInv, DeferralLocal, SessionOf, SameWorker
  <1> QED
    BY <1>2, <1>4, <1>5 DEF TurnInv

LEMMA JumpsTurn ==
  ASSUME TurnInv, TypeOK', NEW w \in Workers,
         \/ Abandon(w) \/ Discard(w) \/ Reject(w) \/ SkipFailed(w)
         \/ AlreadyFailed(w) \/ Published(w)
  PROVE  TurnInv'
  <1> USE DEF Starting, Labels, InTurn
  <1>1. deferred[w] => pc[w] \in {"handler", "publish", "defer"}
    BY DEF TurnInv, DeferralLocal
  <1>2. CASE Abandon(w)
    BY <1>1, <1>2, JumpTurn DEF Abandon
  <1>3. CASE Discard(w)
    BY <1>1, <1>3, JumpTurn DEF Discard
  <1>4. CASE Reject(w)
    BY <1>1, <1>4, JumpTurn DEF Reject
  <1>5. CASE SkipFailed(w)
    BY <1>1, <1>5, JumpTurn DEF SkipFailed
  <1>6. CASE AlreadyFailed(w)
    <2>1. CASE pc[w] = "rejected"
      BY <1>1, <1>6, <2>1, JumpTurn DEF AlreadyFailed
    <2>2. CASE pc[w] = "broken"
      BY <1>1, <1>6, <2>2, JumpTurn DEF AlreadyFailed
    <2> QED
      BY <1>6, <2>1, <2>2 DEF AlreadyFailed
  <1>7. CASE Published(w)
    <2> USE DEF Published, Publishing, Cutting
    <2>1. CASE pc[w] = "rejectCut"
      BY <1>1, <1>7, <2>1, JumpTurn
    <2>2. CASE pc[w] = "publish" /\ deferred[w]
      BY <1>1, <1>7, <2>2, JumpTurn
    <2>3. CASE pc[w] = "publish" /\ ~deferred[w]
      BY <1>1, <1>7, <2>3, JumpTurn
    <2>4. CASE pc[w] = "brokenCut"
      BY <1>1, <1>7, <2>4, JumpTurn
    <2> QED
      BY <1>7, <2>1, <2>2, <2>3, <2>4
  <1> QED
    BY <1>2, <1>3, <1>4, <1>5, <1>6, <1>7

\* The label of the worker does not change either.
LEMMA PublishTurn ==
  ASSUME TurnInv, TypeOK', NEW w \in Workers,
         PublishOutbound(w) \/ PublishRefused(w)
  PROVE  TurnInv'
  <1>1. UNCHANGED <<pc, cur, deferred, inlined, state, mapped, completion,
                    pushing, inbox>>
    BY DEF PublishOutbound, PublishRefused, sessionVars, completionVars, queues
  <1>2. \A s \in Sessions : \A i \in DOMAIN inbox' :
            QueuedAt(s, i)' => QueuedAt(s, i)
    BY <1>1 DEF QueuedAt
  <1> QED
    BY <1>1, <1>2, FrameTurn

LEMMA EnterHandlerTurn ==
  ASSUME TurnInv, TypeOK', NEW w \in Workers, EnterHandler(w)
  PROVE  TurnInv'
  <1> USE DEF EnterHandler, queues, sessionVars, completionVars
  <1>1. PICK s \in Sessions : SessionOf(w) = s
    BY CurrentType DEF TurnInv
  <1>2. StateKept(s) /\ KeptEvents(s)'
    BY DEF StateKept, KeptEvents, TurnInv, SessionInv
  <1>3. ~deferred[w]
    BY DEF TurnInv, DeferralLocal
  <1> QED
    BY <1>1, <1>2, <1>3, KeepStep DEF InTurn, Labels

\* What markSessionFailed keeps of a session.
LEMMA FailedKeeps ==
  ASSUME NEW q \in SessionSequenceState
  PROVE  /\ Failed(q).active = q.active
         /\ Failed(q).closed = q.closed
         /\ Failed(q).next = q.next
         /\ Failed(q).awaiting = q.awaiting
         /\ Failed(q).early = q.early
         /\ Failed(q).parked = {}
         /\ Failed(q).pending = q.pending \/ Failed(q).pending \in q.parked
  <1> DEFINE p == IF \E e \in q.parked : IsDisconnected(e)
                  THEN CHOOSE e \in q.parked : IsDisconnected(e)
                  ELSE q.pending
  <1>1. p = q.pending \/ p \in q.parked
    <2>1. CASE \E e \in q.parked : IsDisconnected(e)
      <3>1. (CHOOSE e \in q.parked : IsDisconnected(e)) \in q.parked
        BY <2>1
      <3> QED
        BY <2>1, <3>1
    <2>2. CASE ~ \E e \in q.parked : IsDisconnected(e)
      BY <2>2
    <2> QED
      BY <2>1, <2>2
  <1>2. Failed(q) = [q EXCEPT !.failed = TRUE, !.parked = {}, !.pending = p]
    BY DEF Failed
  <1> HIDE DEF p
  <1> QED
    BY <1>1, <1>2 DEF SessionSequenceState

\* markSessionFailed forgets parked events and keeps one Disconnected of them.
LEMMA MarkSessionFailedTurn ==
  ASSUME TurnInv, TypeOK', NEW w \in Workers, MarkSessionFailed(w)
  PROVE  TurnInv'
  <1> USE DEF MarkSessionFailed, queues, completionVars
  <1>1. PICK s \in Sessions : SessionOf(w) = s
    BY CurrentType DEF TurnInv
  <1>2. /\ state[s] \in SessionSequenceState
        /\ state'[s] = Failed(state[s])
        /\ \A t \in Sessions \ {s} : state'[t] = state[t]
    BY <1>1 DEF TurnInv, TypeOK
  <1>3. KeptEvents(s)
    BY DEF TurnInv, SessionInv
  <1>4. StateKept(s) /\ state'[s].early = state[s].early
    BY <1>2, FailedKeeps DEF StateKept
  <1>5. KeptEvents(s)'
    BY <1>2, <1>3, FailedKeeps DEF KeptEvents
  <1>6. ~deferred[w]
    BY DEF TurnInv, DeferralLocal
  <1>7. CASE pc[w] = "rejected"
    BY <1>1, <1>2, <1>4, <1>5, <1>6, <1>7, KeepStep DEF InTurn, Labels
  <1>8. CASE pc[w] = "broken"
    BY <1>1, <1>2, <1>4, <1>5, <1>6, <1>8, KeepStep DEF InTurn, Labels
  <1> QED
    BY <1>7, <1>8

\* The steps that end the inner loop, or go round it, without the turn.
LEMMA DropsTurn ==
  ASSUME TurnInv, TypeOK', NEW w \in Workers,
         \/ DiscardDrain(w) \/ ParkEvent(w) \/ ParkDisconnected(w) \/ Retry(w)
  PROVE  TurnInv'
  <1> USE DEF queues, sessionVars, completionVars, InTurn, PastIntake
  <1>1. pc[w] \in {"discarded", "start", "retry"}
    BY DEF DiscardDrain, ParkEvent, ParkDisconnected, Starting, Retry
  <1>2. PICK s \in Sessions : SessionOf(w) = s
    BY <1>1, CurrentType DEF TurnInv
  <1>3. /\ state[s] \in SessionSequenceState
        /\ cur[w] \in Event /\ cur[w] # NoEvent
        /\ KeptEvents(s)
        /\ NoEvent \in Event \cup {NoEvent}
    BY <1>1, CurrentType DEF TurnInv, TypeOK, SessionInv
  <1>4. CASE DiscardDrain(w)
    <2>1. StateKept(s) /\ KeptEvents(s)'
      BY <1>3, <1>4 DEF StateKept, KeptEvents, DiscardDrain
    <2> QED
      BY <1>1, <1>2, <1>3, <1>4, <2>1, DropStep DEF DiscardDrain
  <1>5. CASE ParkEvent(w)
    <2>1. /\ state'[s] = [state[s] EXCEPT !.parked = @ \cup {cur[w]}]
          /\ \A t \in Sessions \ {s} : state'[t] = state[t]
      BY <1>2, <1>5 DEF ParkEvent, Park, StateOf, TurnInv, TypeOK
    <2>2. ~IsCompletion(cur[w])
      BY <1>5 DEF ParkEvent, Parkable, Ahead
    <2>3. /\ StateKept(s) /\ KeptEvents(s)'
          /\ state'[s].early = state[s].early
      BY <1>2, <1>3, <1>5, <2>1, <2>2
         DEF ParkEvent, Park, StateKept, KeptEvents, SessionSequenceState,
             SessionOf
    <2> QED
      BY <1>1, <1>2, <1>3, <1>5, <2>1, <2>3, DropStep DEF ParkEvent, Park
  <1>6. CASE ParkDisconnected(w)
    <2>1. /\ state'[s] = [state[s] EXCEPT !.pending = cur[w]]
          /\ \A t \in Sessions \ {s} : state'[t] = state[t]
      BY <1>2, <1>6 DEF ParkDisconnected, Park, StateOf, TurnInv, TypeOK
    <2>2. ~IsCompletion(cur[w])
      BY <1>6 DEF ParkDisconnected, DisconnectPending, IsDisconnected,
                  IsCompletion
    <2>3. /\ StateKept(s) /\ KeptEvents(s)'
          /\ state'[s].early = state[s].early
      BY <1>2, <1>3, <1>6, <2>1, <2>2
         DEF ParkDisconnected, Park, StateKept, KeptEvents,
             SessionSequenceState, SessionOf
    <2> QED
      BY <1>1, <1>2, <1>3, <1>6, <2>1, <2>3, DropStep
         DEF ParkDisconnected, Park
  <1>7. CASE Retry(w)
    <2>1. CASE IsDisconnected(cur[w])
      <3>1. Continue(w, cur[w]) /\ UNCHANGED <<state, mapped>>
        BY <1>7, <2>1 DEF Retry
      <3>2. StateKept(s) /\ KeptEvents(s)'
        BY <1>3, <1>7, <3>1 DEF StateKept, KeptEvents, Retry
      <3>3. ~IsCompletion(cur[w]) /\ cur[w].session = s
        BY <1>2, <2>1 DEF IsDisconnected, IsCompletion, SessionOf
      <3> QED
        BY <1>1, <1>2, <1>3, <1>7, <3>1, <3>2, <3>3, DropStep DEF Retry
    <2>2. CASE /\ ~IsDisconnected(cur[w])
               /\ StateOf(w).active \/ StateOf(w).closed
      <3>1. Continue(w, NoEvent) /\ UNCHANGED <<state, mapped>>
        BY <1>7, <2>2 DEF Retry
      <3>2. StateKept(s) /\ KeptEvents(s)'
        BY <1>3, <1>7, <3>1 DEF StateKept, KeptEvents, Retry
      <3> QED
        BY <1>1, <1>2, <1>3, <1>7, <3>1, <3>2, DropStep DEF Retry
    <2>3. CASE /\ ~IsDisconnected(cur[w])
               /\ ~(StateOf(w).active \/ StateOf(w).closed)
      <3>1. /\ Continue(w, state[s].pending) /\ mapped' = mapped
            /\ state'[s] = [state[s] EXCEPT !.pending = NoEvent]
            /\ \A t \in Sessions \ {s} : state'[t] = state[t]
        BY <1>2, <1>7, <2>3 DEF Retry, StateOf, TurnInv, TypeOK
      <3>2. /\ StateKept(s) /\ KeptEvents(s)'
            /\ state'[s].early = state[s].early
        BY <1>3, <1>7, <3>1 DEF StateKept, KeptEvents, Retry,
                                SessionSequenceState
      <3>3. /\ state[s].pending \in Event \cup {NoEvent}
            /\ state[s].pending # NoEvent =>
                  ~IsCompletion(state[s].pending)
                  /\ state[s].pending.session = s
        BY <1>3 DEF KeptEvents, SessionSequenceState
      <3> QED
        BY <1>1, <1>2, <1>7, <3>1, <3>2, <3>3, DropStep DEF Retry
    <2> QED
      BY <2>1, <2>2, <2>3
  <1> QED
    BY <1>4, <1>5, <1>6, <1>7

-----------------------------------------------------------------------------
(* The steps that move a completion from one place to the next.             *)

\* The completion at the head of the inbox becomes the event of a worker.
LEMMA PopTurn ==
  ASSUME TurnInv, TypeOK', NEW w \in Workers, Pop(w)
  PROVE  TurnInv'
  <1> USE DEF Pop, sessionVars, completionVars
  <1>1. /\ Head(inbox) \in Event /\ Head(inbox) = inbox[1]
        /\ 1 \in DOMAIN inbox
        /\ \A i \in DOMAIN inbox' : /\ i \in Nat /\ i >= 1
                                    /\ i + 1 \in DOMAIN inbox
                                    /\ inbox'[i] = inbox[i + 1]
    BY DEF TurnInv, TypeOK
  <1>2. PICK s \in Sessions : Head(inbox).session = s
    BY <1>1 DEF Event
  <1>3. /\ \A v \in Workers \ {w} : SameWorker(v)
        /\ pc'[w] = "attach" /\ cur'[w] = Head(inbox) /\ SessionOf(w)' = s
        /\ deferred'[w] = deferred[w] /\ inlined'[w] = inlined[w]
    BY <1>2 DEF Goto, SameWorker, TurnInv, TypeOK, SessionOf
  <1>4. ~deferred[w] /\ inlined[w] = NoEvent
    BY DEF TurnInv, DeferralLocal
  <1>5. DeferralLocal(w)'
    BY <1>3, <1>4 DEF DeferralLocal
  <1>6. \A t \in Sessions : \A i \in DOMAIN inbox' :
            QueuedAt(t, i)' => QueuedAt(t, i + 1)
    BY <1>1 DEF QueuedAt
  <1>7. /\ SessionInv(s) /\ StateKept(s) /\ KeptEvents(s)'
    BY DEF StateKept, KeptEvents, TurnInv, SessionInv
  <1>8. /\ DeferringHandler(s)' => DeferringHandler(s)
        /\ Inlined(s)' => Inlined(s)
    BY <1>3, <1>4 DEF DeferringHandler, Inlined, SessionOf, SameWorker
  <1>9. /\ Open(s)' => Open(s)
        /\ Inline(s)' => Inline(s)
        /\ Pushed(s)' => Pushed(s)
        /\ Early(s)' => Early(s)
    BY <1>8 DEF Open, Inline, Answerable, Pushed, Early
  <1>10. \A v \in Workers \ {w} : HeldBy(s, v)' => HeldBy(s, v)
    BY <1>3 DEF HeldBy, SessionOf, SameWorker
  <1>11. /\ \A v \in Workers : InTurn(v)' /\ SessionOf(v)' = s =>
             /\ InTurn(v) /\ cur'[v] = cur[v] /\ deferred'[v] = deferred[v]
             /\ pc'[v] = "handler" /\ deferred[v] => pc[v] = "handler"
         /\ \A v \in Workers : PastIntake(v)' /\ SessionOf(v)' = s =>
             PastIntake(v) /\ SessionOf(v) = s
    BY <1>3 DEF InTurn, PastIntake, SameWorker, SessionOf
  <1>12. SessionInv(s)'
    <2>1. CASE ~IsCompletion(Head(inbox))
      <3>1. ShrinksAt(s, 1)
        BY <1>3, <1>6, <1>8, <1>9, <1>10, <2>1
           DEF ShrinksAt, HeldBy, IsCompletion
      <3> QED
        BY <1>7, <1>11, <3>1, KeepTurn DEF TurnInv
    <2>2. CASE IsCompletion(Head(inbox))
      <3>1. QueuedAt(s, 1)
        BY <1>1, <1>2, <2>2 DEF QueuedAt
      <3>2. /\ ~Open(s) /\ ~Inline(s) /\ ~Inlined(s) /\ ~Pushed(s)
            /\ ~Held(s) /\ ~Early(s) /\ Delivered(s) /\ Token(s)
        BY <1>1, <1>7, <3>1
           DEF SessionInv, OneCompletionOf, Queued, Delivered, Token
      <3>3. ~Queued(s)'
        BY <1>1, <1>6, <1>7, <3>1
           DEF SessionInv, OneCompletionOf, Queued
      <3>4. \A v \in Workers \ {w} : ~HeldBy(s, v)'
        BY <1>10, <3>2 DEF Held
      <3>5. OneCompletionOf(s)'
        BY <1>8, <1>9, <3>2, <3>3, <3>4
           DEF OneCompletionOf, Queued, Delivered
      <3>6. CompletionFlags(s)'
        BY <1>7, <1>11, <3>2 DEF SessionInv, CompletionFlags, SessionOf, InTurn
      <3> QED
        BY <1>7, <1>11, <3>2, <3>5, <3>6, MoveTurn DEF TurnInv
    <2> QED
      BY <2>1, <2>2
  <1> QED
    BY <1>3, <1>5, <1>6, <1>12, WorkerTurn

\* A completion that comes too early is left with its session.
LEMMA ParkCompletionTurn ==
  ASSUME TurnInv, TypeOK', NEW w \in Workers, ParkCompletion(w)
  PROVE  TurnInv'
  <1> USE DEF ParkCompletion, Park, Starting, CompletionEarly, queues,
              completionVars
  <1>1. PICK s \in Sessions : SessionOf(w) = s
    BY CurrentType DEF TurnInv
  <1>2. /\ state[s] \in SessionSequenceState
        /\ state'[s] = [state[s] EXCEPT !.early = cur[w]]
        /\ \A t \in Sessions \ {s} : state'[t] = state[t]
    BY <1>1 DEF StateOf, TurnInv, TypeOK
  <1>3. /\ \A v \in Workers \ {w} : SameWorker(v)
        /\ pc'[w] = "pop" /\ cur'[w] = NoEvent
        /\ deferred'[w] = deferred[w] /\ inlined'[w] = inlined[w]
    BY DEF Continue, Goto, SameWorker, TurnInv, TypeOK
  <1>4. ~deferred[w] /\ inlined[w] = NoEvent
    BY DEF TurnInv, DeferralLocal
  <1>5. DeferralLocal(w)'
    BY <1>3, <1>4 DEF DeferralLocal
  <1>6. \A t \in Sessions : \A i \in DOMAIN inbox' :
            QueuedAt(t, i)' => QueuedAt(t, i + 0)
    BY SameInbox DEF TurnInv
  <1>7. SessionInv(s) /\ StateKept(s) /\ KeptEvents(s)'
    BY <1>1, <1>2 DEF StateKept, KeptEvents, TurnInv, SessionInv,
                      SessionSequenceState, SessionOf
  <1>8. HeldBy(s, w)
    BY <1>1 DEF HeldBy
  <1>9. /\ ~Open(s) /\ ~Inline(s) /\ ~Inlined(s) /\ ~Pushed(s)
        /\ ~Queued(s) /\ ~Early(s) /\ Delivered(s) /\ Token(s)
    BY <1>7, <1>8 DEF SessionInv, OneCompletionOf, Held, Delivered, Token
  <1>10. /\ ~DeferringHandler(s) => ~DeferringHandler(s)'
         /\ ~Inlined(s)'
    BY <1>3, <1>4, <1>9 DEF DeferringHandler, Inlined, SessionOf, SameWorker
  <1>11. ~Open(s)' /\ ~Inline(s)' /\ ~Pushed(s)' /\ ~Queued(s)'
    BY <1>9, <1>10 DEF Open, Inline, Answerable, Pushed, Queued, QueuedAt
  <1>12. \A v \in Workers : ~HeldBy(s, v)'
    <2>1. \A v \in Workers \ {w} : HeldBy(s, v)' => HeldBy(s, v)
      BY <1>3 DEF HeldBy, SessionOf, SameWorker
    <2> QED
      BY <1>3, <1>7, <1>8, <2>1 DEF SessionInv, OneCompletionOf, HeldBy
  <1>13. OneCompletionOf(s)'
    BY <1>10, <1>11, <1>12 DEF OneCompletionOf, Held, Delivered, Queued
  <1>14. /\ \A v \in Workers : InTurn(v)' /\ SessionOf(v)' = s =>
             /\ InTurn(v) /\ cur'[v] = cur[v] /\ deferred'[v] = deferred[v]
             /\ pc'[v] = "handler" /\ deferred[v] => pc[v] = "handler"
         /\ \A v \in Workers : PastIntake(v)' /\ SessionOf(v)' = s =>
             PastIntake(v) /\ SessionOf(v) = s
    BY <1>3 DEF InTurn, PastIntake, SameWorker, SessionOf
  <1>15. CompletionFlags(s)'
    BY <1>7, <1>9, <1>14 DEF SessionInv, CompletionFlags, SessionOf, InTurn
  <1>16. SessionInv(s)'
    BY <1>7, <1>9, <1>13, <1>14, <1>15, MoveTurn DEF TurnInv
  <1> QED
    BY <1>2, <1>3, <1>5, <1>6, <1>16, WorkerTurn

-----------------------------------------------------------------------------
(* The beginning of a turn.                                                 *)

\* A session that is not in the map has no turn and no completion to lose.
LEMMA AttachTurn ==
  ASSUME TurnInv, TypeOK', NEW w \in Workers, Attach(w)
  PROVE  TurnInv'
  <1> USE DEF Attach, queues, completionVars
  <1>1. PICK s \in Sessions : SessionOf(w) = s
    BY CurrentType DEF TurnInv
  <1>2. /\ mapped'[s] = TRUE
        /\ state'[s] = IF mapped[s] THEN state[s] ELSE FreshState
        /\ \A t \in Sessions \ {s} :
              state'[t] = state[t] /\ mapped'[t] = mapped[t]
    BY <1>1 DEF TurnInv, TypeOK
  <1>3. /\ \A v \in Workers \ {w} : SameWorker(v)
        /\ pc'[w] = "start" /\ cur'[w] = cur[w] /\ SessionOf(w)' = s
        /\ deferred'[w] = deferred[w] /\ inlined'[w] = inlined[w]
    BY <1>1 DEF Goto, SameWorker, TurnInv, TypeOK, SessionOf
  <1>4. ~deferred[w] /\ inlined[w] = NoEvent
    BY DEF TurnInv, DeferralLocal
  <1>5. DeferralLocal(w)'
    BY <1>3, <1>4 DEF DeferralLocal
  <1>6. \A t \in Sessions : \A i \in DOMAIN inbox' :
            QueuedAt(t, i)' => QueuedAt(t, i + 0)
    BY SameInbox DEF TurnInv
  <1>7. SessionInv(s)
    BY DEF TurnInv
  <1>8. /\ state'[s].early \in {state[s].early, NoEvent}
        /\ KeptEvents(s)'
    BY <1>2, <1>7 DEF SessionInv, KeptEvents, FreshState
  <1>9. ShrinksAt(s, 0)
    <2>1. /\ DeferringHandler(s)' => DeferringHandler(s)
          /\ Inlined(s)' => Inlined(s)
      BY <1>3, <1>4 DEF DeferringHandler, Inlined, SessionOf, SameWorker
    <2>2. /\ Open(s)' => Open(s)
          /\ Inline(s)' => Inline(s)
          /\ Pushed(s)' => Pushed(s)
          /\ Early(s)' => Early(s)
      BY <1>8, <2>1 DEF Open, Inline, Answerable, Pushed, Early
    <2>3. \A v \in Workers : HeldBy(s, v)' => HeldBy(s, v)
      BY <1>3 DEF HeldBy, SessionOf, SameWorker
    <2> QED
      BY <1>6, <2>1, <2>2, <2>3 DEF ShrinksAt
  <1>10. /\ Token(s)' => Token(s)
         /\ Delivered(s)' => Delivered(s)
    BY <1>9, ShrinkTokens DEF TurnInv
  <1>11. \A v \in Workers : InTurn(v)' /\ SessionOf(v)' = s =>
             /\ InTurn(v) /\ SessionOf(v) = s
             /\ cur'[v] = cur[v] /\ deferred'[v] = deferred[v]
             /\ pc'[v] = "handler" /\ deferred[v] => pc[v] = "handler"
    BY <1>3 DEF InTurn, SameWorker, SessionOf
  <1>12. \A v \in Workers : InTurn(v) /\ SessionOf(v) = s => mapped[s]
    BY <1>7 DEF SessionInv, OneTurn
  <1>13. OneCompletionOf(s)'
    BY <1>7, <1>9, ShrinkOne DEF TurnInv, SessionInv
  <1>14. OneTurn(s)'
    BY <1>2, <1>7, <1>11, <1>12 DEF SessionInv, OneTurn, SessionOf
  <1>15. FirstTurn(s)'
    BY <1>2, <1>7, <1>10, <1>11, <1>12 DEF SessionInv, FirstTurn, SessionOf
  <1>16. CompletionActive(s)'
    BY <1>2, <1>7, <1>10 DEF SessionInv, CompletionActive, FreshState
  <1>17. CompletionFlags(s)'
    BY <1>7, <1>10, <1>11 DEF SessionInv, CompletionFlags, SessionOf, InTurn
  <1>18. Attached(s)'
    BY <1>2 DEF Attached
  <1>19. SessionInv(s)'
    BY <1>8, <1>13, <1>14, <1>15, <1>16, <1>17, <1>18 DEF SessionInv
  <1> QED
    BY <1>2, <1>3, <1>5, <1>6, <1>19, WorkerTurn

\* A turn begins only on a session that is not active: no worker has its turn
\* and no completion is under way.
LEMMA StartTurnTurn ==
  ASSUME TurnInv, TypeOK', NEW w \in Workers, StartTurn(w)
  PROVE  TurnInv'
  <1> USE DEF StartTurn, Starting, TurnFree, queues, completionVars
  <1>1. PICK s \in Sessions : SessionOf(w) = s
    BY CurrentType DEF TurnInv
  <1>2. /\ state[s] \in SessionSequenceState
        /\ state'[s] = [state[s] EXCEPT
                          !.next = cur[w].sequence, !.active = TRUE,
                          !.activeDisconnect = IsDisconnected(cur[w])]
        /\ \A t \in Sessions \ {s} : state'[t] = state[t]
        /\ mapped' = mapped
    BY <1>1 DEF TurnInv, TypeOK
  <1>3. /\ \A v \in Workers \ {w} : SameWorker(v)
        /\ pc'[w] = "check" /\ cur'[w] = cur[w] /\ SessionOf(w)' = s
        /\ deferred'[w] = deferred[w] /\ inlined'[w] = inlined[w]
    BY <1>1 DEF Goto, SameWorker, TurnInv, TypeOK, SessionOf
  <1>4. ~deferred[w] /\ inlined[w] = NoEvent
    BY DEF TurnInv, DeferralLocal
  <1>5. DeferralLocal(w)'
    BY <1>3, <1>4 DEF DeferralLocal
  <1>6. \A t \in Sessions : \A i \in DOMAIN inbox' :
            QueuedAt(t, i)' => QueuedAt(t, i + 0)
    BY SameInbox DEF TurnInv
  <1>7. SessionInv(s) /\ ~state[s].active /\ ~state[s].closed
    BY <1>1 DEF TurnInv, StateOf
  <1>8. /\ state'[s].active = TRUE /\ state'[s].closed = state[s].closed
        /\ state'[s].next = cur[w].sequence
        /\ state'[s].awaiting = state[s].awaiting
        /\ state'[s].early = state[s].early
        /\ state'[s].parked = state[s].parked
        /\ state'[s].pending = state[s].pending
    <2> HIDE DEF StartTurn, Starting, TurnFree
    <2>1. PICK d \in BOOLEAN :
            state'[s] = [state[s] EXCEPT !.next = cur[w].sequence,
                                         !.active = TRUE,
                                         !.activeDisconnect = d]
      BY <1>2 DEF IsDisconnected
    <2> QED
      BY <1>2, <2>1 DEF SessionSequenceState
  <1>9. KeptEvents(s)'
    BY <1>7, <1>8 DEF SessionInv, KeptEvents
  <1>10. ~Token(s) /\ ~state[s].awaiting /\ mapped[s]
    BY <1>1, <1>7 DEF SessionInv, CompletionActive, Attached, PastIntake
  <1>11. \A v \in Workers \ {w} : ~(InTurn(v)' /\ SessionOf(v)' = s)
    <2>1. \A v \in Workers : ~(InTurn(v) /\ SessionOf(v) = s)
      BY <1>7 DEF SessionInv, OneTurn
    <2> QED
      BY <1>3, <2>1 DEF InTurn, SessionOf, SameWorker
  <1>12. ShrinksAt(s, 0)
    <2>1. /\ DeferringHandler(s)' => DeferringHandler(s)
          /\ Inlined(s)' => Inlined(s)
      BY <1>3, <1>4 DEF DeferringHandler, Inlined, SessionOf, SameWorker
    <2>2. /\ Open(s)' => Open(s)
          /\ Inline(s)' => Inline(s)
          /\ Pushed(s)' => Pushed(s)
          /\ Early(s)' => Early(s)
      BY <1>8, <2>1 DEF Open, Inline, Answerable, Pushed, Early
    <2>3. \A v \in Workers : HeldBy(s, v)' => HeldBy(s, v)
      BY <1>3 DEF HeldBy, SessionOf, SameWorker
    <2> QED
      BY <1>6, <2>1, <2>2, <2>3 DEF ShrinksAt
  <1>13. ~Token(s)' /\ ~Delivered(s)'
    BY <1>10, <1>12, ShrinkTokens DEF TurnInv, Token
  <1>14. OneCompletionOf(s)'
    BY <1>7, <1>12, ShrinkOne DEF TurnInv, SessionInv
  <1>15. OneTurn(s)' /\ FirstTurn(s)'
    BY <1>2, <1>3, <1>7, <1>8, <1>10, <1>11, <1>13 DEF OneTurn, FirstTurn
  <1>16. CompletionActive(s)' /\ Attached(s)'
    BY <1>2, <1>8, <1>10, <1>13 DEF CompletionActive, Attached
  <1>17. CompletionFlags(s)'
    BY <1>3, <1>4, <1>7, <1>11, <1>13
       DEF SessionInv, CompletionFlags, InTurn
  <1>18. SessionInv(s)'
    BY <1>9, <1>14, <1>15, <1>16, <1>17 DEF SessionInv
  <1> QED
    BY <1>2, <1>3, <1>5, <1>6, <1>18, WorkerTurn

\* A turn resumes on a session that awaits its completion: a worker that had the
\* turn would have it for a second completion.
LEMMA ResumeTurnTurn ==
  ASSUME TurnInv, TypeOK', NEW w \in Workers, ResumeTurn(w)
  PROVE  TurnInv'
  <1> USE DEF ResumeTurn, Starting, CompletionDue, queues, sessionVars,
              completionVars
  <1>1. PICK s \in Sessions : SessionOf(w) = s
    BY CurrentType DEF TurnInv
  <1>2. /\ \A v \in Workers \ {w} : SameWorker(v)
        /\ pc'[w] \in {"broken", "publish"} /\ cur'[w] = cur[w]
        /\ SessionOf(w)' = s
        /\ deferred'[w] = deferred[w] /\ inlined'[w] = inlined[w]
    <2>1. CASE cur[w].failed
      BY <1>1, <2>1 DEF Goto, SameWorker, TurnInv, TypeOK, SessionOf
    <2>2. CASE ~cur[w].failed
      BY <1>1, <2>2 DEF Goto, SameWorker, TurnInv, TypeOK, SessionOf
    <2> QED
      BY <2>1, <2>2
  <1>3. ~deferred[w] /\ inlined[w] = NoEvent
    BY DEF TurnInv, DeferralLocal
  <1>4. DeferralLocal(w)'
    BY <1>2, <1>3 DEF DeferralLocal
  <1>5. \A t \in Sessions : \A i \in DOMAIN inbox' :
            QueuedAt(t, i)' => QueuedAt(t, i + 0)
    BY SameInbox DEF TurnInv
  <1>6. /\ SessionInv(s) /\ state[s].active /\ ~state[s].closed
        /\ state[s].awaiting /\ state[s].next = cur[w].sequence
    BY <1>1 DEF TurnInv, StateOf
  <1>7. HeldBy(s, w)
    BY <1>1 DEF HeldBy
  <1>8. \A v \in Workers \ {w} : ~(InTurn(v)' /\ SessionOf(v)' = s)
    <2>1. SUFFICES ASSUME NEW v \in Workers \ {w}, InTurn(v),
                          SessionOf(v) = s
                   PROVE  FALSE
      BY <1>2 DEF InTurn, SessionOf, SameWorker
    <2>2. IsCompletion(cur[v])
      BY <1>6, <2>1 DEF SessionInv, FirstTurn
    <2>3. HeldBy(s, v)
      BY <2>1, <2>2 DEF HeldBy, InTurn
    <2> QED
      BY <1>6, <1>7, <2>3 DEF SessionInv, OneCompletionOf
  <1>9. ShrinksAt(s, 0)
    <2>1. /\ DeferringHandler(s)' => DeferringHandler(s)
          /\ Inlined(s)' => Inlined(s)
      BY <1>2, <1>3 DEF DeferringHandler, Inlined, SessionOf, SameWorker
    <2>2. /\ Open(s)' => Open(s)
          /\ Inline(s)' => Inline(s)
          /\ Pushed(s)' => Pushed(s)
          /\ Early(s)' => Early(s)
      BY <2>1 DEF Open, Inline, Answerable, Pushed, Early
    <2>3. \A v \in Workers : HeldBy(s, v)' => HeldBy(s, v)
      BY <1>2, <1>7 DEF HeldBy, SessionOf, SameWorker
    <2> QED
      BY <1>5, <2>1, <2>2, <2>3 DEF ShrinksAt
  <1>10. /\ Token(s)' => Token(s)
         /\ Delivered(s)' => Delivered(s)
    BY <1>9, ShrinkTokens DEF TurnInv
  <1>11. OneCompletionOf(s)'
    BY <1>6, <1>9, ShrinkOne DEF TurnInv, SessionInv
  <1>12. mapped[s]
    BY <1>1, <1>6 DEF SessionInv, Attached, PastIntake
  <1>13. OneTurn(s)' /\ FirstTurn(s)'
    BY <1>2, <1>6, <1>8, <1>12 DEF OneTurn, FirstTurn
  <1>14. CompletionActive(s)' /\ Attached(s)' /\ KeptEvents(s)'
    BY <1>6, <1>12 DEF SessionInv, CompletionActive, Attached, KeptEvents
  <1>15. CompletionFlags(s)'
    BY <1>2, <1>6, <1>8, <1>10 DEF SessionInv, CompletionFlags, InTurn
  <1>16. SessionInv(s)'
    BY <1>11, <1>13, <1>14, <1>15 DEF SessionInv
  <1> QED
    BY <1>2, <1>4, <1>5, <1>16, WorkerTurn

-----------------------------------------------------------------------------
(* The handler.                                                             *)

\* The worker in the handler has the turn alone.
LEMMA AloneInTurn ==
  ASSUME TurnInv, NEW w \in Workers, NEW s \in Sessions, SessionOf(w) = s,
         InTurn(w), \A v \in Workers \ {w} : SameWorker(v)
  PROVE  \A v \in Workers \ {w} :
            ~(InTurn(v) /\ SessionOf(v) = s) /\ ~(InTurn(v)' /\ SessionOf(v)' = s)
  <1>1. \A v \in Workers \ {w} : ~(InTurn(v) /\ SessionOf(v) = s)
    BY DEF TurnInv, SessionInv, OneTurn
  <1> QED
    BY <1>1 DEF InTurn, SessionOf, SameWorker

\* defer() makes the completion of an event that had none.
LEMMA DeferTurn ==
  ASSUME TurnInv, TypeOK', NEW w \in Workers, Defer(w)
  PROVE  TurnInv'
  <1> USE DEF Defer, queues, sessionVars
  <1>1. PICK s \in Sessions : SessionOf(w) = s
    BY CurrentType DEF TurnInv
  <1>2. /\ completion'[s] = [made |-> TRUE, sequence |-> cur[w].sequence,
                             completed |-> FALSE, returned |-> FALSE,
                             inline |-> NoEvent]
        /\ \A t \in Sessions \ {s} : completion'[t] = completion[t]
    BY <1>1 DEF TurnInv, TypeOK
  <1>3. /\ \A v \in Workers \ {w} : SameWorker(v)
        /\ pc'[w] = "handler" /\ cur'[w] = cur[w] /\ SessionOf(w)' = s
        /\ deferred'[w] = TRUE /\ inlined'[w] = inlined[w]
    BY <1>1 DEF SameWorker, TurnInv, TypeOK, SessionOf
  <1>4. inlined[w] = NoEvent /\ ~IsCompletion(cur[w])
    BY DEF TurnInv, DeferralLocal, IsCompletion
  <1>5. DeferralLocal(w)'
    BY <1>3, <1>4 DEF DeferralLocal
  <1>6. \A t \in Sessions : \A i \in DOMAIN inbox' :
            QueuedAt(t, i)' => QueuedAt(t, i + 0)
    BY SameInbox DEF TurnInv
  <1>7. SessionInv(s) /\ InTurn(w)
    BY DEF TurnInv, InTurn
  <1>8. /\ state[s].active /\ mapped[s] /\ ~state[s].awaiting /\ ~Token(s)
    BY <1>1, <1>4, <1>7 DEF SessionInv, OneTurn, FirstTurn
  <1>9. \A v \in Workers \ {w} : ~(InTurn(v)' /\ SessionOf(v)' = s)
    BY <1>1, <1>3, <1>7, AloneInTurn
  <1>10. ~Delivered(s)'
    <2>1. /\ ~Inlined(s) /\ ~Pushed(s) /\ ~Queued(s) /\ ~Held(s) /\ ~Early(s)
      BY <1>8 DEF Token, Delivered
    <2>2. ~Inlined(s)'
      BY <1>3, <1>4, <2>1 DEF Inlined, SessionOf, SameWorker
    <2>3. ~Held(s)'
      BY <1>3, <2>1 DEF Held, HeldBy, SessionOf, SameWorker
    <2>4. ~Pushed(s)' /\ ~Queued(s)' /\ ~Early(s)'
      BY <2>1 DEF Pushed, Queued, QueuedAt, Early
    <2> QED
      BY <2>2, <2>3, <2>4 DEF Delivered
  <1>11. ~Inline(s)'
    BY <1>2 DEF Inline
  <1>12. OneCompletionOf(s)'
    BY <1>10, <1>11 DEF OneCompletionOf, Delivered, Queued, Held
  <1>13. OneTurn(s)'
    BY <1>1, <1>3, <1>7, <1>9 DEF SessionInv, OneTurn, InTurn
  <1>14. FirstTurn(s)'
    BY <1>3, <1>8, <1>9 DEF FirstTurn
  <1>15. CompletionActive(s)'
    BY <1>8 DEF CompletionActive
  <1>16. Attached(s)'
    BY <1>8 DEF Attached
  <1>17. KeptEvents(s)'
    BY <1>2, <1>7 DEF SessionInv, KeptEvents
  <1>18. CompletionFlags(s)'
    BY <1>2, <1>10 DEF CompletionFlags
  <1>19. SessionInv(s)'
    BY <1>12, <1>13, <1>14, <1>15, <1>16, <1>17, <1>18 DEF SessionInv
  <1> QED
    BY <1>2, <1>3, <1>5, <1>6, <1>19, WorkerTurn

\* finishDeferredHandler takes the inline completion or leaves the completion
\* open; a completion that comes later is pushed.
LEMMA HandlerReturnsTurn ==
  ASSUME TurnInv, TypeOK', NEW w \in Workers, HandlerReturns(w)
  PROVE  TurnInv'
  <1> USE DEF HandlerReturns, queues, sessionVars
  <1>1. PICK s \in Sessions : SessionOf(w) = s
    BY CurrentType DEF TurnInv
  <1>2. SessionInv(s) /\ InTurn(w)
    BY DEF TurnInv, InTurn
  <1>3. CASE ~deferred[w]
    <2>1. UNCHANGED <<inlined, completion>>
      BY <1>3
    <2>2. StateKept(s) /\ KeptEvents(s)'
      BY <1>2, <2>1 DEF StateKept, KeptEvents, SessionInv
    <2> QED
      BY <1>1, <1>2, <1>3, <2>1, <2>2, KeepStep DEF Labels
  <1>4. CASE deferred[w]
    <2>1. /\ completion[s] \in DeferredCompletionState
          /\ completion'[s] = [completion[s] EXCEPT !.returned = TRUE,
                                                    !.inline = NoEvent]
          /\ \A t \in Sessions \ {s} : completion'[t] = completion[t]
      BY <1>1, <1>4 DEF TurnInv, TypeOK
    <2>2. /\ completion'[s].returned = TRUE
          /\ completion'[s].inline = NoEvent
          /\ completion'[s].made = completion[s].made
          /\ completion'[s].completed = completion[s].completed
      BY <2>1 DEF DeferredCompletionState
    <2>3. /\ \A v \in Workers \ {w} : SameWorker(v)
          /\ pc'[w] = "publish" /\ cur'[w] = cur[w] /\ SessionOf(w)' = s
          /\ deferred'[w] = TRUE /\ inlined'[w] = completion[s].inline
      BY <1>1, <1>4 DEF Goto, SameWorker, TurnInv, TypeOK, SessionOf
    <2>4. /\ ~IsCompletion(cur[w]) /\ inlined[w] = NoEvent
          /\ completion[s].inline # NoEvent => completion[s].inline.session = s
      BY <1>2, <1>4 DEF TurnInv, DeferralLocal, SessionInv, KeptEvents
    <2>5. DeferralLocal(w)'
      BY <2>3, <2>4 DEF DeferralLocal
    <2>6. \A t \in Sessions : \A i \in DOMAIN inbox' :
              QueuedAt(t, i)' => QueuedAt(t, i + 0)
      BY SameInbox DEF TurnInv
    <2>7. /\ completion[s].made /\ ~completion[s].returned /\ ~Delivered(s)
          /\ completion[s].inline # NoEvent => completion[s].completed
      BY <1>1, <1>2, <1>4 DEF SessionInv, CompletionFlags
    <2>8. DeferringHandler(s)
      BY <1>1, <1>4 DEF DeferringHandler
    <2>9. \A v \in Workers \ {w} : ~(InTurn(v)' /\ SessionOf(v)' = s)
      BY <1>1, <1>2, <2>3, AloneInTurn
    <2>10. ~Pushed(s)' /\ ~Queued(s)' /\ ~Held(s)' /\ ~Early(s)'
      <3>1. /\ ~Pushed(s) /\ ~Queued(s) /\ ~Held(s) /\ ~Early(s)
        BY <2>7 DEF Delivered
      <3>2. ~Held(s)'
        BY <2>3, <3>1 DEF Held, HeldBy, SessionOf, SameWorker
      <3>3. ~Pushed(s)' /\ ~Queued(s)' /\ ~Early(s)'
        BY <3>1 DEF Pushed, Queued, QueuedAt, Early
      <3> QED
        BY <3>2, <3>3
    <2>11. Inlined(s)' => completion[s].inline # NoEvent
      <3>1. ~Inlined(s)
        BY <2>7 DEF Delivered
      <3> QED
        BY <2>3, <3>1 DEF Inlined, SessionOf, SameWorker
    <2>12. ~Inline(s)' /\ (Open(s)' => Open(s) /\ ~completion[s].completed)
      BY <2>2, <2>8 DEF Open, Inline, Answerable
    <2>13. OneCompletionOf(s)'
      BY <2>7, <2>10, <2>11, <2>12 DEF OneCompletionOf, Delivered, Queued, Held
    <2>14. Token(s)' => Token(s)
      BY <2>8, <2>10, <2>11, <2>12 DEF Token, Delivered, Inline, Answerable
    <2>15. CompletionFlags(s)'
      BY <2>2, <2>3, <2>9 DEF CompletionFlags, InTurn
    <2>16. StateKept(s) /\ KeptEvents(s)'
      BY <1>2, <2>2 DEF StateKept, KeptEvents, SessionInv
    <2>17. /\ \A v \in Workers : InTurn(v)' /\ SessionOf(v)' = s =>
                 InTurn(v) /\ cur'[v] = cur[v] /\ deferred'[v] = deferred[v]
           /\ \A v \in Workers : PastIntake(v)' /\ SessionOf(v)' = s =>
                 PastIntake(v) /\ SessionOf(v) = s
      BY <1>1, <1>2, <1>4, <2>3 DEF InTurn, PastIntake, SameWorker, SessionOf
    <2>18. SessionInv(s)'
      BY <1>2, <2>13, <2>14, <2>15, <2>16, <2>17, MoveTurn DEF TurnInv
    <2> QED
      BY <2>1, <2>3, <2>5, <2>6, <2>18, WorkerTurn
  <1> QED
    BY <1>3, <1>4

\* The completion of a handler that throws is lost with it: it is still open or
\* inline, and nobody will take it.
LEMMA HandlerThrowsTurn ==
  ASSUME TurnInv, TypeOK', NEW w \in Workers, HandlerThrows(w)
  PROVE  TurnInv'
  <1> USE DEF HandlerThrows, queues, sessionVars, completionVars
  <1>1. PICK s \in Sessions : SessionOf(w) = s
    BY CurrentType DEF TurnInv
  <1>2. /\ SessionInv(s) /\ InTurn(w) /\ inlined[w] = NoEvent
        /\ StateKept(s) /\ KeptEvents(s)'
    BY DEF TurnInv, InTurn, DeferralLocal, StateKept, KeptEvents, SessionInv
  <1>3. /\ \A v \in Workers \ {w} : SameWorker(v)
        /\ pc'[w] = "broken" /\ cur'[w] = cur[w] /\ SessionOf(w)' = s
        /\ deferred'[w] = FALSE /\ inlined'[w] = inlined[w]
    BY <1>1 DEF Goto, SameWorker, TurnInv, TypeOK, SessionOf
  <1>4. CASE ~deferred[w]
    <2>1. deferred' = deferred
      BY <1>4 DEF TurnInv, TypeOK
    <2> QED
      BY <1>1, <1>2, <1>4, <2>1, KeepStep DEF Labels
  <1>5. CASE deferred[w]
    <2>1. DeferralLocal(w)'
      BY <1>2, <1>3 DEF DeferralLocal
    <2>2. \A t \in Sessions : \A i \in DOMAIN inbox' :
              QueuedAt(t, i)' => QueuedAt(t, i + 0)
      BY SameInbox DEF TurnInv
    <2>3. ~completion[s].returned /\ ~Delivered(s)
      BY <1>1, <1>2, <1>5 DEF SessionInv, CompletionFlags
    <2>4. \A v \in Workers \ {w} : ~(InTurn(v)' /\ SessionOf(v)' = s)
      BY <1>1, <1>2, <1>3, AloneInTurn
    <2>5. ~DeferringHandler(s)'
      BY <1>3, <2>4 DEF DeferringHandler, InTurn
    <2>6. ~Open(s)' /\ ~Inline(s)'
      BY <2>3, <2>5 DEF Open, Inline, Answerable
    <2>7. ~Delivered(s)'
      <3>1. /\ ~Inlined(s) /\ ~Pushed(s) /\ ~Queued(s) /\ ~Held(s)
            /\ ~Early(s)
        BY <2>3 DEF Delivered
      <3>2. ~Inlined(s)'
        BY <1>2, <1>3, <3>1 DEF Inlined, SessionOf, SameWorker
      <3>3. ~Held(s)'
        BY <1>3, <3>1 DEF Held, HeldBy, SessionOf, SameWorker
      <3>4. ~Pushed(s)' /\ ~Queued(s)' /\ ~Early(s)'
        BY <3>1 DEF Pushed, Queued, QueuedAt, Early
      <3> QED
        BY <3>2, <3>3, <3>4 DEF Delivered
    <2>8. OneCompletionOf(s)' /\ ~Token(s)'
      BY <2>6, <2>7 DEF OneCompletionOf, Delivered, Token, Queued, Held
    <2>9. CompletionFlags(s)'
      BY <1>2, <1>3, <2>4, <2>7 DEF SessionInv, CompletionFlags, InTurn
    <2>10. /\ \A v \in Workers : InTurn(v)' /\ SessionOf(v)' = s =>
                 InTurn(v) /\ cur'[v] = cur[v]
           /\ \A v \in Workers : PastIntake(v)' /\ SessionOf(v)' = s =>
                 PastIntake(v) /\ SessionOf(v) = s
      BY <1>1, <1>2, <1>3 DEF InTurn, PastIntake, SameWorker, SessionOf
    <2>11. SessionInv(s)'
      BY <1>2, <2>8, <2>9, <2>10, MoveTurn DEF TurnInv
    <2> QED
      BY <1>3, <2>1, <2>2, <2>11, WorkerTurn
  <1> QED
    BY <1>4, <1>5

-----------------------------------------------------------------------------
(* The end of a turn.                                                       *)

\* The turn is given up; the worker goes on with the completion if it came
\* inline or early.
LEMMA MarkSessionDeferredTurn ==
  ASSUME TurnInv, TypeOK', NEW w \in Workers, MarkSessionDeferred(w)
  PROVE  TurnInv'
  <1> USE DEF MarkSessionDeferred, queues, completionVars
  <1>1. PICK s \in Sessions : SessionOf(w) = s
    BY CurrentType DEF TurnInv
  <1> DEFINE e == IF inlined[w] # NoEvent THEN inlined[w] ELSE state[s].early
  <1>2. /\ SessionInv(s) /\ InTurn(w) /\ deferred[w] /\ ~IsCompletion(cur[w])
        /\ inlined[w] # NoEvent => inlined[w].session = s
    BY <1>1 DEF TurnInv, InTurn, DeferralLocal
  <1>3. /\ state[s] \in SessionSequenceState
        /\ state'[s] = [state[s] EXCEPT !.awaiting = TRUE, !.early = NoEvent]
        /\ \A t \in Sessions \ {s} : state'[t] = state[t]
        /\ mapped' = mapped
    BY <1>1 DEF TurnInv, TypeOK
  <1>4. /\ state'[s].active = state[s].active
        /\ state'[s].closed = state[s].closed
        /\ state'[s].early = NoEvent
        /\ state'[s].parked = state[s].parked
        /\ state'[s].pending = state[s].pending
    <2> HIDE DEF MarkSessionDeferred
    <2> QED
      BY <1>3 DEF SessionSequenceState
  <1>5. e # NoEvent => e.session = s
    BY <1>2 DEF SessionInv, KeptEvents
  <1>6. /\ \A v \in Workers \ {w} : SameWorker(v)
        /\ pc'[w] \in {"pop", "start"} /\ cur'[w] = e
        /\ pc'[w] # "pop" => e # NoEvent /\ SessionOf(w)' = s
        /\ deferred'[w] = FALSE /\ inlined'[w] = NoEvent
    <2>1. Continue(w, e)
      BY <1>1 DEF StateOf
    <2> QED
      BY SMTT(40), <1>5, <2>1 DEF Continue, Goto, SameWorker, TurnInv, TypeOK, SessionOf
  <1>7. DeferralLocal(w)'
    BY <1>6 DEF DeferralLocal
  <1>8. \A t \in Sessions : \A i \in DOMAIN inbox' :
            QueuedAt(t, i)' => QueuedAt(t, i + 0)
    BY SameInbox DEF TurnInv
  <1>9. \A v \in Workers : ~(InTurn(v)' /\ SessionOf(v)' = s)
    <2>1. ~InTurn(w)'
      BY <1>6 DEF InTurn
    <2> QED
      BY <1>1, <1>2, <1>6, <2>1, AloneInTurn
  <1>10. /\ state[s].active /\ mapped[s]
    BY <1>1, <1>2 DEF SessionInv, OneTurn
  <1>11. /\ ~Inlined(s)' /\ ~Early(s)'
    <2>1. \A v \in Workers \ {w} : inlined[v] # NoEvent => InTurn(v)
      BY DEF TurnInv, DeferralLocal, InTurn
    <2>2. \A v \in Workers \ {w} : ~(InTurn(v) /\ SessionOf(v) = s)
      BY <1>1, <1>2, <1>6, AloneInTurn
    <2> QED
      BY <1>4, <1>6, <2>1, <2>2 DEF Inlined, Early, SessionOf, SameWorker
  <1>12. /\ Open(s)' => Open(s)
         /\ Inline(s)' => Inline(s)
         /\ Pushed(s)' => Pushed(s)
         /\ Queued(s)' => Queued(s)
    <2>1. DeferringHandler(s)' => DeferringHandler(s)
      BY <1>6 DEF DeferringHandler, SessionOf, SameWorker
    <2> QED
      BY <2>1 DEF Open, Inline, Answerable, Pushed, Queued, QueuedAt
  <1>13. \A v \in Workers \ {w} : HeldBy(s, v)' => HeldBy(s, v)
    BY <1>6 DEF HeldBy, SessionOf, SameWorker
  <1>14. HeldBy(s, w)' => Inlined(s) \/ Early(s)
    BY <1>1, <1>6 DEF HeldBy, Inlined, Early
  <1>15. Delivered(s)' => Delivered(s)
    BY <1>11, <1>12, <1>13, <1>14 DEF Delivered, Held
  <1>16. OneCompletionOf(s)'
    <2>1. OneCompletionOf(s)
      BY <1>2 DEF SessionInv
    <2>2. HeldBy(s, w)' =>
            /\ ~Open(s) /\ ~Inline(s) /\ ~Pushed(s) /\ ~Queued(s) /\ ~Held(s)
      BY <1>14, <2>1 DEF OneCompletionOf, Delivered
    <2>3. Held(s)' => Held(s) \/ HeldBy(s, w)'
      BY <1>13 DEF Held
    <2>4. /\ Open(s)' => ~Inline(s)' /\ ~Delivered(s)'
          /\ Inline(s)' => ~Delivered(s)'
          /\ Pushed(s)' => ~Queued(s)' /\ ~Held(s)'
          /\ Queued(s)' => ~Held(s)'
      BY <1>12, <1>15, <2>1, <2>2, <2>3 DEF OneCompletionOf
    <2>5. \A u, v \in Workers : HeldBy(s, u)' /\ HeldBy(s, v)' => u = v
      BY <1>13, <2>1, <2>2 DEF OneCompletionOf, Held
    <2>6. \A i, j \in DOMAIN inbox' :
              QueuedAt(s, i)' /\ QueuedAt(s, j)' => i = j
      BY <2>1 DEF OneCompletionOf, QueuedAt
    <2> QED
      BY <1>11, <2>4, <2>5, <2>6 DEF OneCompletionOf
  <1>17. OneTurn(s)' /\ FirstTurn(s)'
    BY <1>9 DEF OneTurn, FirstTurn
  <1>18. CompletionActive(s)' /\ Attached(s)'
    BY <1>3, <1>4, <1>10 DEF CompletionActive, Attached
  <1>19. CompletionFlags(s)'
    BY <1>2, <1>9, <1>15 DEF SessionInv, CompletionFlags, InTurn
  <1>20. KeptEvents(s)'
    BY <1>2, <1>4 DEF SessionInv, KeptEvents
  <1>21. SessionInv(s)'
    BY <1>16, <1>17, <1>18, <1>19, <1>20 DEF SessionInv
  <1> QED
    BY <1>3, <1>6, <1>7, <1>8, <1>21, WorkerTurn

\* What completeSessionTurn hands over was parked or pending.
LEMMA SuccessorKept ==
  ASSUME NEW q
  PROVE  Successor(q) = NoEvent \/ Successor(q) = q.pending
             \/ Successor(q) \in q.parked
  <1>1. CASE \E e \in q.parked : e.sequence = q.next
    <2>1. (CHOOSE e \in q.parked : e.sequence = q.next) \in q.parked
      BY <1>1
    <2> QED
      BY <1>1, <2>1 DEF Successor
  <1>2. CASE ~ \E e \in q.parked : e.sequence = q.next
    BY <1>2 DEF Successor
  <1> QED
    BY <1>1, <1>2

\* The turn ends with its event or its completion: no other completion is left.
LEMMA CompleteSessionTurnTurn ==
  ASSUME TurnInv, TypeOK', NEW w \in Workers, CompleteSessionTurn(w)
  PROVE  TurnInv'
  <1>1. PICK s \in Sessions : SessionOf(w) = s
    BY CurrentType DEF TurnInv, CompleteSessionTurn
  <1>2. /\ pc[w] = "complete" /\ SessionInv(s) /\ InTurn(w)
        /\ ~deferred[w] /\ inlined[w] = NoEvent
        /\ state[s] \in SessionSequenceState
    BY DEF TurnInv, TypeOK, InTurn, DeferralLocal, CompleteSessionTurn
  <1> DEFINE q == [state[s] EXCEPT !.active = FALSE, !.awaiting = FALSE,
                                   !.next = @ + 1]
             e == Successor(q)
             d == state[s].activeDisconnect
  <1>3. /\ q \in SessionSequenceState
        /\ q.activeDisconnect = d /\ d \in BOOLEAN
        /\ q.active = FALSE /\ q.awaiting = FALSE
        /\ q.closed = state[s].closed
        /\ q.early = state[s].early
        /\ q.parked = state[s].parked
        /\ q.pending = state[s].pending
    <2>1. PICK n \in Nat : n = state[s].next + 1
      BY <1>2 DEF SessionSequenceState
    <2>2. q = [state[s] EXCEPT !.active = FALSE, !.awaiting = FALSE,
                               !.next = n]
      BY <2>1
    <2> QED
      BY ZenonT(60), <1>2, <2>2 DEF SessionSequenceState
  <1>4. /\ state' = [state EXCEPT ![s] =
                        [q EXCEPT !.closed = @ \/ q.activeDisconnect,
                                  !.pending = IF q.failed /\ ~q.activeDisconnect
                                              THEN NoEvent ELSE @,
                                  !.parked = @ \ {e}]]
        /\ mapped' = [mapped EXCEPT ![s] = @ /\ ~q.activeDisconnect]
        /\ Continue(w, e)
        /\ UNCHANGED <<inbox, deferred, inlined, completion, pushing>>
    BY <1>1 DEF CompleteSessionTurn, completionVars
  <1> HIDE DEF q, e
  <1>5. /\ state'[s].active = FALSE /\ state'[s].awaiting = FALSE
        /\ state'[s].closed = (state[s].closed \/ d)
        /\ state'[s].early = state[s].early
        /\ state'[s].parked = state[s].parked \ {e}
        /\ state'[s].pending \in {state[s].pending, NoEvent}
        /\ mapped'[s] = (mapped[s] /\ ~d)
        /\ \A t \in Sessions \ {s} :
              state'[t] = state[t] /\ mapped'[t] = mapped[t]
    <2>1. PICK p \in {q.pending, NoEvent} :
            state' = [state EXCEPT ![s] =
                        [q EXCEPT !.closed = @ \/ q.activeDisconnect,
                                  !.pending = p, !.parked = @ \ {e}]]
      BY <1>4
    <2>2. PICK c : /\ c = (q.closed \/ q.activeDisconnect)
                   /\ state' = [state EXCEPT ![s] =
                        [q EXCEPT !.closed = c, !.pending = p,
                                  !.parked = @ \ {e}]]
      BY <2>1
    <2>3. state'[s] = [q EXCEPT !.closed = c, !.pending = p,
                                !.parked = @ \ {e}]
      BY <2>2 DEF TurnInv, TypeOK
    <2>4. /\ state'[s].active = q.active /\ state'[s].awaiting = q.awaiting
          /\ state'[s].closed = c /\ state'[s].early = q.early
          /\ state'[s].parked = q.parked \ {e} /\ state'[s].pending = p
      BY <1>3, <2>3 DEF SessionSequenceState
    <2>5. /\ mapped'[s] = (mapped[s] /\ ~q.activeDisconnect)
          /\ \A t \in Sessions \ {s} :
                state'[t] = state[t] /\ mapped'[t] = mapped[t]
      BY <1>4, <2>2 DEF TurnInv, TypeOK
    <2> QED
      BY <1>3, <2>1, <2>2, <2>4, <2>5
  <1>6. e # NoEvent => ~IsCompletion(e) /\ e.session = s
    <2>1. e = NoEvent \/ e = q.pending \/ e \in q.parked
      BY SuccessorKept DEF e
    <2> QED
      BY <1>2, <1>3, <2>1 DEF SessionInv, KeptEvents
  <1>7. /\ \A v \in Workers \ {w} : SameWorker(v)
        /\ pc'[w] \in {"pop", "start"} /\ cur'[w] = e
        /\ pc'[w] # "pop" => e # NoEvent /\ SessionOf(w)' = s
        /\ deferred'[w] = deferred[w] /\ inlined'[w] = inlined[w]
    BY <1>4, <1>6 DEF Continue, Goto, SameWorker, TurnInv, TypeOK, SessionOf
  <1>8. DeferralLocal(w)'
    BY <1>2, <1>7 DEF DeferralLocal
  <1>9. \A t \in Sessions : \A i \in DOMAIN inbox' :
            QueuedAt(t, i)' => QueuedAt(t, i + 0)
    BY <1>4, SameInbox DEF TurnInv
  <1>10. \A v \in Workers : ~(InTurn(v)' /\ SessionOf(v)' = s)
    <2>1. ~InTurn(w)'
      BY <1>7 DEF InTurn
    <2> QED
      BY <1>1, <1>2, <1>7, <2>1, AloneInTurn
  <1>11. ~HeldBy(s, w)'
    BY <1>6, <1>7 DEF HeldBy, IsCompletion
  <1>12. /\ ~Open(s) /\ ~Inline(s) /\ ~Inlined(s) /\ ~Pushed(s) /\ ~Queued(s)
         /\ ~Early(s) /\ \A v \in Workers \ {w} : ~HeldBy(s, v)
    <2>1. CASE IsCompletion(cur[w])
      <3>1. HeldBy(s, w)
        BY <1>1, <1>2, <2>1 DEF HeldBy
      <3> QED
        BY <1>2, <3>1 DEF SessionInv, OneCompletionOf, Held, Delivered
    <2>2. CASE ~IsCompletion(cur[w])
      BY <1>1, <1>2, <2>2 DEF SessionInv, FirstTurn, Token, Delivered, Held
    <2> QED
      BY <2>1, <2>2
  <1>13. ~Held(s)'
    BY <1>7, <1>11, <1>12 DEF Held, HeldBy, SessionOf, SameWorker
  <1>14. /\ ~Open(s)' /\ ~Inline(s)' /\ ~Inlined(s)' /\ ~Pushed(s)'
         /\ ~Queued(s)' /\ ~Early(s)'
    <2>1. DeferringHandler(s)' => DeferringHandler(s)
      BY <1>7 DEF DeferringHandler, SessionOf, SameWorker
    <2>2. ~Inlined(s)'
      BY <1>2, <1>7, <1>12 DEF Inlined, SessionOf, SameWorker
    <2> QED
      BY <1>4, <1>5, <1>12, <2>1, <2>2
         DEF Open, Inline, Answerable, Pushed, Queued, QueuedAt, Early
  <1>15. ~Token(s)' /\ ~Delivered(s)' /\ OneCompletionOf(s)'
    BY <1>13, <1>14 DEF Token, Delivered, OneCompletionOf, Queued, Held
  <1>16. OneTurn(s)' /\ FirstTurn(s)' /\ CompletionActive(s)'
    BY <1>5, <1>10, <1>15 DEF OneTurn, FirstTurn, CompletionActive
  <1>17. CompletionFlags(s)'
    BY <1>2, <1>4, <1>10, <1>15 DEF SessionInv, CompletionFlags, InTurn
  <1>18. KeptEvents(s)'
    BY <1>2, <1>4, <1>5 DEF SessionInv, KeptEvents
  <1>19. Attached(s)'
    <2>1. \A v \in Workers : PastIntake(v)' /\ SessionOf(v)' = s =>
              PastIntake(v) /\ SessionOf(v) = s
      BY <1>1, <1>2, <1>7 DEF PastIntake, SameWorker, SessionOf
    <2> QED
      BY <1>2, <1>5, <2>1 DEF SessionInv, Attached
  <1>20. SessionInv(s)'
    BY <1>15, <1>16, <1>17, <1>18, <1>19 DEF SessionInv
  <1> QED
    BY <1>4, <1>5, <1>7, <1>8, <1>9, <1>20, WorkerTurn

-----------------------------------------------------------------------------
(* The threads that complete, and the I/O thread.                           *)

\* A step of no worker, at one session.
LEMMA SessionTurn ==
  ASSUME TurnInv, TypeOK', NEW s \in Sessions,
         UNCHANGED <<pc, cur, deferred, inlined, state, mapped>>,
         \A t \in Sessions \ {s} :
             /\ completion'[t] = completion[t] /\ pushing'[t] = pushing[t]
             /\ \A i \in DOMAIN inbox' : QueuedAt(t, i)' => QueuedAt(t, i + 0),
         KeptEvents(s)', OneCompletionOf(s)', CompletionFlags(s)',
         Token(s)' => Token(s)
  PROVE  TurnInv'
  <1>1. \A v \in Workers : SameWorker(v)
    BY DEF SameWorker
  <1>2. ASSUME NEW t \in Sessions \ {s} PROVE SessionInv(t)'
    BY <1>1, Elsewhere DEF TurnInv
  <1>3. SessionInv(s)'
    <2>1. StateKept(s)
      BY DEF StateKept
    <2>2. /\ \A v \in Workers : InTurn(v)' /\ SessionOf(v)' = s =>
                InTurn(v) /\ cur'[v] = cur[v] /\ deferred'[v] = deferred[v]
          /\ \A v \in Workers : PastIntake(v)' /\ SessionOf(v)' = s =>
                PastIntake(v) /\ SessionOf(v) = s
      BY DEF InTurn, PastIntake, SessionOf
    <2> QED
      BY <2>1, <2>2, MoveTurn DEF TurnInv
  <1>4. ASSUME NEW w \in Workers PROVE DeferralLocal(w)'
    BY DEF TurnInv, DeferralLocal, SessionOf
  <1> QED
    BY <1>2, <1>3, <1>4 DEF TurnInv

\* complete() hands over an open completion: to the handler that still runs, or
\* to be pushed.
LEMMA CompleteTurn ==
  ASSUME TurnInv, TypeOK', NEW s \in Sessions, Complete(s)
  PROVE  TurnInv'
  <1>1. /\ UNCHANGED <<pc, cur, deferred, inlined, state, mapped, inbox>>
        /\ completion[s].made /\ ~completion[s].completed
    BY DEF Complete, workerVars, locals, sessionVars, queues
  <1>2. PICK failure \in BOOLEAN :
          IF completion[s].returned
          THEN /\ pushing' = [pushing EXCEPT ![s] = CompletionOf(s, failure)]
               /\ completion' = [completion EXCEPT ![s] =
                                    [@ EXCEPT !.completed = TRUE]]
          ELSE /\ completion' = [completion EXCEPT ![s] =
                                    [@ EXCEPT !.completed = TRUE,
                                        !.inline = CompletionOf(s, failure)]]
               /\ UNCHANGED pushing
    BY DEF Complete
  <1>3. /\ SessionInv(s) /\ completion[s] \in DeferredCompletionState
        /\ completion[s].inline = NoEvent
    BY <1>1 DEF TurnInv, TypeOK, SessionInv, CompletionFlags
  <1>4. \A t \in Sessions :
            \A i \in DOMAIN inbox' : QueuedAt(t, i)' => QueuedAt(t, i + 0)
    BY <1>1, SameInbox DEF TurnInv
  <1>5. CompletionOf(s, failure).session = s
    BY DEF CompletionOf
  <1>6. /\ DeferringHandler(s)' = DeferringHandler(s)
        /\ Inlined(s)' = Inlined(s) /\ Queued(s)' = Queued(s)
        /\ Held(s)' = Held(s) /\ Early(s)' = Early(s)
        /\ \A i : QueuedAt(s, i)' = QueuedAt(s, i)
        /\ \A w \in Workers : HeldBy(s, w)' = HeldBy(s, w)
    BY <1>1 DEF DeferringHandler, Inlined, Queued, QueuedAt, Held, HeldBy,
                Early, SessionOf
  <1>7. CASE completion[s].returned
    <2>1. /\ completion'[s].made = completion[s].made
          /\ completion'[s].returned = completion[s].returned
          /\ completion'[s].inline = NoEvent
          /\ completion'[s].completed = TRUE
          /\ pushing'[s] = CompletionOf(s, failure)
          /\ \A t \in Sessions \ {s} :
                completion'[t] = completion[t] /\ pushing'[t] = pushing[t]
      <3>1. /\ completion'[s] = [completion[s] EXCEPT !.completed = TRUE]
            /\ pushing'[s] = CompletionOf(s, failure)
            /\ \A t \in Sessions \ {s} :
                  completion'[t] = completion[t] /\ pushing'[t] = pushing[t]
        BY ZenonT(60), <1>2, <1>7 DEF TurnInv, TypeOK
      <3> QED
        BY <1>3, <3>1 DEF DeferredCompletionState
    <2>2. Open(s) /\ Token(s)
      BY <1>1, <1>7 DEF Open, Answerable, Token
    <2>3. ~Inlined(s) /\ ~Queued(s) /\ ~Held(s) /\ ~Early(s)
      BY <1>3, <2>2 DEF SessionInv, OneCompletionOf, Delivered
    <2>4. ~Open(s)' /\ ~Inline(s)'
      BY <2>1 DEF Open, Inline
    <2>5. OneCompletionOf(s)'
      BY <1>6, <2>3, <2>4 DEF OneCompletionOf, Queued, Held
    <2>6. CompletionFlags(s)'
      BY <1>1, <1>3, <1>7, <2>1
         DEF SessionInv, CompletionFlags, SessionOf
    <2>7. KeptEvents(s)'
      BY <1>1, <1>3, <1>5, <2>1 DEF SessionInv, KeptEvents
    <2> QED
      BY <1>1, <1>4, <2>1, <2>2, <2>5, <2>6, <2>7, SessionTurn
  <1>8. CASE ~completion[s].returned
    <2>1. /\ completion'[s].made = completion[s].made
          /\ completion'[s].returned = completion[s].returned
          /\ completion'[s].inline = CompletionOf(s, failure)
          /\ completion'[s].completed = TRUE
          /\ pushing' = pushing
          /\ \A t \in Sessions \ {s} : completion'[t] = completion[t]
      <3>1. /\ completion'[s] = [completion[s] EXCEPT !.completed = TRUE,
                                     !.inline = CompletionOf(s, failure)]
            /\ pushing' = pushing
            /\ \A t \in Sessions \ {s} : completion'[t] = completion[t]
        BY <1>2, <1>8 DEF TurnInv, TypeOK
      <3> QED
        BY <1>3, <3>1 DEF DeferredCompletionState
    <2>2. ~Delivered(s)
      BY <1>3, <1>8 DEF SessionInv, CompletionFlags
    <2>3. ~Delivered(s)'
      BY <1>6, <2>1, <2>2 DEF Delivered, Pushed
    <2>4. ~Open(s)' /\ (Inline(s)' => Open(s))
      BY <1>1, <1>6, <2>1 DEF Open, Inline, Answerable
    <2>5. OneCompletionOf(s)'
      BY <2>3, <2>4 DEF OneCompletionOf, Delivered, Queued, Held
    <2>6. CompletionFlags(s)'
      BY <1>1, <1>3, <2>1, <2>3 DEF SessionInv, CompletionFlags, SessionOf
    <2>7. KeptEvents(s)'
      BY <1>1, <1>3, <1>5, <2>1 DEF SessionInv, KeptEvents
    <2>8. Token(s)' => Token(s)
      BY <2>3, <2>4 DEF Token
    <2> QED
      BY <1>1, <1>4, <2>1, <2>5, <2>6, <2>7, <2>8, SessionTurn
  <1> QED
    BY <1>7, <1>8

\* The push into the inbox.
LEMMA PushCompletionTurn ==
  ASSUME TurnInv, TypeOK', NEW s \in Sessions,
         PushCompletion(s) \/ PushCompletionRefused(s)
  PROVE  TurnInv'
  <1>1. /\ UNCHANGED <<pc, cur, deferred, inlined, state, mapped, completion>>
        /\ pushing[s] # NoEvent
        /\ pushing' = [pushing EXCEPT ![s] = NoEvent]
        /\ inbox' = Append(inbox, pushing[s]) \/ inbox' = inbox
    BY DEF PushCompletion, PushCompletionRefused, workerVars, locals,
           sessionVars, queues
  <1>2. SessionInv(s)
    BY DEF TurnInv
  <1>3. /\ pushing'[s] = NoEvent
        /\ \A t \in Sessions \ {s} : pushing'[t] = pushing[t]
        /\ pushing[s] \in Event /\ pushing[s].session = s
    BY <1>1, <1>2 DEF TurnInv, TypeOK, SessionInv, KeptEvents
  <1>4. \A i \in DOMAIN inbox' :
            \/ i \in DOMAIN inbox /\ inbox'[i] = inbox[i] /\ i = i + 0
            \/ i = Len(inbox) + 1 /\ inbox'[i] = pushing[s]
    <2>1. CASE inbox' = inbox
      BY <2>1 DEF TurnInv, TypeOK
    <2>2. CASE inbox' = Append(inbox, pushing[s])
      BY SMTT(40), <1>3, <2>2 DEF TurnInv, TypeOK
    <2> QED
      BY <1>1, <2>1, <2>2
  <1>5. \A t \in Sessions \ {s} :
            \A i \in DOMAIN inbox' : QueuedAt(t, i)' => QueuedAt(t, i + 0)
    BY <1>3, <1>4 DEF QueuedAt
  <1>6. Pushed(s) /\ Delivered(s) /\ Token(s)
    BY <1>1 DEF Pushed, Delivered, Token
  <1>7. ~Open(s) /\ ~Inline(s) /\ ~Inlined(s) /\ ~Queued(s) /\ ~Held(s)
        /\ ~Early(s)
    BY <1>2, <1>6 DEF SessionInv, OneCompletionOf
  <1>8. /\ ~Open(s)' /\ ~Inline(s)' /\ ~Inlined(s)' /\ ~Held(s)' /\ ~Early(s)'
        /\ ~Pushed(s)'
    BY <1>1, <1>3, <1>7 DEF Open, Inline, Answerable, DeferringHandler, Inlined,
                            Held, HeldBy, Early, Pushed, SessionOf
  <1>9. \A i, j \in DOMAIN inbox' : QueuedAt(s, i)' /\ QueuedAt(s, j)' => i = j
    BY <1>4, <1>7 DEF Queued, QueuedAt
  <1>10. OneCompletionOf(s)'
    BY <1>8, <1>9 DEF OneCompletionOf, Held
  <1>11. CompletionFlags(s)'
    BY <1>1, <1>2, <1>6 DEF SessionInv, CompletionFlags, SessionOf
  <1>12. KeptEvents(s)'
    BY <1>1, <1>2, <1>3 DEF SessionInv, KeptEvents
  <1> QED
    BY <1>1, <1>3, <1>5, <1>6, <1>10, <1>11, <1>12, SessionTurn

\* What the I/O thread puts into the inbox is not a completion.
LEMMA ProducerTurn ==
  ASSUME TurnInv, TypeOK', NEW s \in Sessions, Producer(s)
  PROVE  TurnInv'
  <1>1. PICK e \in Event :
            /\ ~IsCompletion(e) /\ inbox' = Append(inbox, e)
            /\ UNCHANGED <<pc, cur, deferred, inlined, state, mapped,
                           completion, pushing>>
    <2> USE DEF Enqueue, workerVars, locals, sessionVars, completionVars,
                IsCompletion
    <2>1. CASE EnqueuePacket(s)
      <3> DEFINE e == [kind |-> "Packet", session |-> s,
                       sequence |-> sent[s], failed |-> FALSE]
      <3>1. e \in Event
        BY DEF Event, Kinds, TurnInv, TypeOK
      <3> QED
        BY <2>1, <3>1 DEF EnqueuePacket
    <2>2. CASE EnqueueDuplicate(s)
      <3>1. PICK q \in 0..MaxEvents : Enqueue(s, "Packet", q)
        BY <2>2 DEF EnqueueDuplicate
      <3> DEFINE e == [kind |-> "Packet", session |-> s,
                       sequence |-> q, failed |-> FALSE]
      <3>2. e \in Event
        BY DEF Event, Kinds
      <3> QED
        BY <3>1, <3>2
    <2>3. CASE EnqueueDisconnected(s)
      <3> DEFINE e == [kind |-> "Disconnected", session |-> s,
                       sequence |-> sent[s], failed |-> FALSE]
      <3>1. e \in Event
        BY DEF Event, Kinds, TurnInv, TypeOK
      <3> QED
        BY <2>3, <3>1 DEF EnqueueDisconnected
    <2> QED
      BY <2>1, <2>2, <2>3 DEF Producer
  <1>2. \A i \in DOMAIN inbox' :
            \/ i \in DOMAIN inbox /\ inbox'[i] = inbox[i]
            \/ i = Len(inbox) + 1 /\ inbox'[i] = e
    BY SMTT(40), <1>1 DEF TurnInv, TypeOK
  <1>3. \A t \in Sessions : \A i \in DOMAIN inbox' :
            QueuedAt(t, i)' => QueuedAt(t, i)
    BY <1>1, <1>2 DEF QueuedAt, IsCompletion
  <1> QED
    BY <1>1, <1>3, FrameTurn

LEMMA ControlTurn ==
  ASSUME TurnInv, TypeOK',
         \/ IoPop \/ BeginStop \/ ForceStop \/ ForceCloseInbox
         \/ ForceCloseOutbox \/ UNCHANGED vars
  PROVE  TurnInv'
  <1>1. UNCHANGED <<pc, cur, deferred, inlined, state, mapped, completion,
                    pushing, inbox>>
    BY DEF IoPop, BeginStop, ForceStop, ForceCloseInbox, ForceCloseOutbox, vars,
           shared, queues, sessionVars, workerVars, locals, completionVars
  <1>2. \A s \in Sessions : \A i \in DOMAIN inbox' :
            QueuedAt(s, i)' => QueuedAt(s, i)
    BY <1>1 DEF QueuedAt
  <1> QED
    BY <1>1, <1>2, FrameTurn

-----------------------------------------------------------------------------
LEMMA InitTurn == Init => TurnInv
  <1> SUFFICES ASSUME Init PROVE TurnInv
    OBVIOUS
  <1>1. TypeOK
    BY InitType
  <1>2. /\ \A w \in Workers : /\ pc[w] = "pop" /\ ~deferred[w]
                              /\ inlined[w] = NoEvent
        /\ DOMAIN inbox = {}
    BY DEF Init
  <1>3. \A w \in Workers : DeferralLocal(w)
    BY <1>2 DEF DeferralLocal
  <1>4. ASSUME NEW s \in Sessions PROVE SessionInv(s)
    <2>1. /\ ~completion[s].made /\ completion[s].inline = NoEvent
          /\ pushing[s] = NoEvent
          /\ state[s].early = NoEvent /\ state[s].pending = NoEvent
          /\ state[s].parked = {} /\ ~state[s].awaiting
      BY DEF Init, FreshState
    <2>2. /\ ~Open(s) /\ ~Inline(s) /\ ~Inlined(s) /\ ~Pushed(s)
          /\ ~Queued(s) /\ ~Held(s) /\ ~Early(s)
      BY <1>2, <2>1
         DEF Open, Inline, Inlined, Pushed, Queued, Held, HeldBy, Early
    <2>3. OneCompletionOf(s) /\ ~Token(s) /\ ~Delivered(s)
      BY <2>2 DEF OneCompletionOf, Token, Delivered, Queued, Held
    <2>4. OneTurn(s) /\ FirstTurn(s) /\ Attached(s)
      BY <1>2 DEF OneTurn, FirstTurn, Attached, InTurn, PastIntake
    <2>5. CompletionActive(s) /\ CompletionFlags(s) /\ KeptEvents(s)
      BY <1>2, <2>1, <2>3 DEF CompletionActive, CompletionFlags, KeptEvents
    <2> QED
      BY <2>3, <2>4, <2>5 DEF SessionInv
  <1> QED
    BY <1>1, <1>3, <1>4 DEF TurnInv

LEMMA NextTurn == TurnInv /\ [Next]_vars => TurnInv'
  <1> SUFFICES ASSUME TurnInv, [Next]_vars PROVE TurnInv'
    OBVIOUS
  <1>1. TypeOK'
    BY NextType DEF TurnInv
  <1>2. ASSUME NEW w \in Workers, Run(w) PROVE TurnInv'
    BY <1>1, <1>2, PopTurn, PopFailedTurn, AttachTurn, JumpsTurn, DropsTurn,
       ParkCompletionTurn, StartTurnTurn, ResumeTurnTurn, EnterHandlerTurn,
       DeferTurn, HandlerReturnsTurn, HandlerThrowsTurn, MarkSessionFailedTurn,
       PublishTurn, MarkSessionDeferredTurn, CompleteSessionTurnTurn DEF Run
  <1>3. ASSUME NEW s \in Sessions, Completer(s) \/ Producer(s) PROVE TurnInv'
    BY <1>1, <1>3, CompleteTurn, PushCompletionTurn, ProducerTurn DEF Completer
  <1>4. CASE \/ IoPop \/ BeginStop \/ ForceStop \/ ForceCloseInbox
             \/ ForceCloseOutbox \/ UNCHANGED vars
    BY <1>1, <1>4, ControlTurn
  <1> QED
    BY <1>2, <1>3, <1>4 DEF Next

LEMMA TurnInvExcludes ==
  ASSUME TurnInv
  PROVE  TurnExclusion /\ OneCompletion /\ DeferIsLegal
  <1>1. OneCompletion
    BY DEF TurnInv, SessionInv, OneCompletion
  <1>2. ASSUME NEW w \in Workers, InTurn(w)
        PROVE  /\ StateOf(w).active /\ ~StateOf(w).closed
               /\ StateOf(w).next = cur[w].sequence
               /\ \A v \in Workers :
                     InTurn(v) /\ SessionOf(v) = SessionOf(w) => v = w
    <2>1. SessionOf(w) \in Sessions
      BY <1>2, CurrentType DEF TurnInv, InTurn
    <2>2. OneTurn(SessionOf(w))
      BY <2>1 DEF TurnInv, SessionInv
    <2> QED
      BY <1>2, <2>2 DEF OneTurn, StateOf
  <1>3. ASSUME NEW w \in Workers, pc[w] = "defer"
        PROVE  ~StateOf(w).awaiting
    <2>1. /\ SessionOf(w) \in Sessions /\ InTurn(w) /\ ~IsCompletion(cur[w])
      BY <1>3, CurrentType DEF TurnInv, InTurn, DeferralLocal
    <2>2. FirstTurn(SessionOf(w))
      BY <2>1 DEF TurnInv, SessionInv
    <2> QED
      BY <2>1, <2>2 DEF FirstTurn, StateOf
  <1>4. DeferIsLegal
    BY <1>2, <1>3 DEF DeferIsLegal, InTurn
  <1> QED
    BY <1>1, <1>2, <1>4 DEF TurnExclusion

\* At most one worker has the turn of a session, and has it for the event next in
\* sequence: however the completions of deferred events interleave with the
\* workers, and whatever sequence numbers the producer uses, the handler never
\* runs for one session on two threads (tryStartSessionTurn, 446-499).
THEOREM TurnsExclude == Spec => []TurnExclusion
  BY InitTurn, NextTurn, TurnInvExcludes, PTL DEF Spec

\* A deferred event is completed at most once: whoever calls complete(), before or
\* after the handler returns, there is never a second completion for its turn
\* (lines 51-77, 131-141).
THEOREM CompletedOnce == Spec => []OneCompletion
  BY InitTurn, NextTurn, TurnInvExcludes, PTL DEF Spec

\* markSessionDeferred never throws (lines 414-416): the turn a worker defers is
\* still its own, and no completion has resumed it meanwhile.
THEOREM DeferAlwaysLegal == Spec => []DeferIsLegal
  BY InitTurn, NextTurn, TurnInvExcludes, PTL DEF Spec

\* Turns are safe whatever the workers, the completing threads and the numbers of
\* the producer do.
THEOREM TurnsAlwaysSafe == Spec => []TurnsSafe
  BY TurnsExclude, CompletedOnce, DeferAlwaysLegal, PTL DEF TurnsSafe

-----------------------------------------------------------------------------
\* A step that moves no event of the session but completions.  Taking the head of
\* the inbox shifts the others by k = 1.
LEMMA KeepPlaces ==
  ASSUME TypeOK, TypeOK', NEW s \in Sessions, EventInvAt(s), NEW k \in Nat,
         state'[s].parked = state[s].parked,
         state'[s].pending = state[s].pending,
         state'[s].failed = state[s].failed, state'[s].closed = state[s].closed,
         sent'[s] = sent[s], gone'[s] = gone[s],
         \A i \in DOMAIN inbox' : inbox'[i].session = s =>
             i + k \in DOMAIN inbox /\ inbox'[i] = inbox[i + k],
         \A v \in Workers : At(v, s)' =>
             \/ IsCompletion(cur'[v])
             \/ /\ At(v, s) /\ cur'[v] = cur[v]
                /\ pc'[v] = "attach" => pc[v] = "attach"
  PROVE  /\ EventsNumbered(s)' /\ KeptApart(s)'
         /\ OneDisconnected(s)' /\ DisconnectedLast(s)'
  <1>1. EventsNumbered(s)'
    BY DEF EventInvAt, EventsNumbered, Numbered, IsCompletion, IsDisconnected
  <1>2. \A v \in Workers : AtDisconnected(v, s)' => AtDisconnected(v, s)
    BY DEF AtDisconnected, IsCompletion, IsDisconnected
  <1>3. KeepsDisconnected(s)' = KeepsDisconnected(s)
    BY DEF KeepsDisconnected
  <1>4. KeptApart(s)' /\ OneDisconnected(s)'
    BY <1>2, <1>3 DEF EventInvAt, KeptApart, OneDisconnected
  <1>5. DisconnectTaken(s)' => DisconnectTaken(s)
    BY <1>2, <1>3 DEF DisconnectTaken
  <1>6. \A v \in Workers : pc'[v] = "attach" /\ SessionOf(v)' = s =>
            \/ cur'[v].kind # "Packet"
            \/ pc[v] = "attach" /\ SessionOf(v) = s /\ cur'[v] = cur[v]
    BY DEF At, IsCompletion
  <1>7. \A i, j \in DOMAIN inbox' : i < j => i + k < j + k
    BY SMTT(40) DEF TypeOK
  <1>8. DisconnectedLast(s)'
    BY <1>5, <1>6, <1>7 DEF EventInvAt, DisconnectedLast
  <1> QED
    BY <1>1, <1>4, <1>8

\* A step that leaves the state of the session as it is, and brings no worker to
\* an event of it nor changes whose turn it is.
LEMMA KeepEvents ==
  ASSUME TypeOK, TypeOK', NEW s \in Sessions, EventInvAt(s), NEW k \in Nat,
         state'[s] = state[s], mapped'[s] = mapped[s],
         sent'[s] = sent[s], gone'[s] = gone[s],
         \A i \in DOMAIN inbox' : inbox'[i].session = s =>
             i + k \in DOMAIN inbox /\ inbox'[i] = inbox[i + k],
         \A v \in Workers : At(v, s)' =>
             /\ At(v, s) /\ cur'[v] = cur[v]
             /\ pc'[v] = "attach" => pc[v] = "attach",
         \A v \in Workers : InTurn(v) /\ SessionOf(v) = s =>
             InTurn(v)' /\ SessionOf(v)' = s,
         \A v \in Workers : InTurn(v)' /\ SessionOf(v)' = s =>
             /\ InTurn(v) /\ SessionOf(v) = s
             /\ IsCompletion(cur[v]) => pc'[v] \notin {"check", "handler"}
             /\ deferred'[v] => cur[v].kind = "Packet",
         CompletionKinds(s)'
  PROVE  EventInvAt(s)'
  <1>1. /\ EventsNumbered(s)' /\ KeptApart(s)'
        /\ OneDisconnected(s)' /\ DisconnectedLast(s)'
    BY KeepPlaces
  <1>2. MappedOrClosed(s)' /\ NextBounded(s)'
    BY DEF EventInvAt, MappedOrClosed, NextBounded
  <1>3. \A v \in Workers : InTurn(v)' /\ SessionOf(v)' = s =>
             cur'[v] = cur[v]
    BY DEF InTurn, At
  <1>4. TurnOwned(s)'
    BY <1>3 DEF EventInvAt, TurnOwned
  <1> QED
    BY <1>1, <1>2, <1>4 DEF EventInvAt

\* What completeSessionTurn hands over, and what it leaves.
Handover(q, e) ==
    /\ q.activeDisconnect => e = NoEvent
    /\ ~q.activeDisconnect /\ q.failed => e = q.pending
    /\ ~q.activeDisconnect /\ ~q.failed =>
          \/ e \in q.parked /\ e.sequence = q.next + 1
          \/ e = NoEvent /\ \A d \in q.parked : d.sequence # q.next + 1

AfterTurn(q, e) ==
    [q EXCEPT !.active = FALSE, !.awaiting = FALSE, !.next = @ + 1,
              !.closed = @ \/ q.activeDisconnect,
              !.pending = IF q.failed /\ ~q.activeDisconnect THEN NoEvent ELSE @,
              !.parked = @ \ {e}]

LEMMA CompleteEffect ==
  ASSUME TypeOK, NEW w \in Workers, NEW s \in Sessions, SessionOf(w) = s,
         CompleteSessionTurn(w)
  PROVE  \E e \in Event \cup {NoEvent} :
            /\ Handover(state[s], e) /\ Continue(w, e)
            /\ state' = [state EXCEPT ![s] = AfterTurn(state[s], e)]
            /\ mapped' = [mapped EXCEPT ![s] = @ /\ ~state[s].activeDisconnect]
  <1> DEFINE q == [state[s] EXCEPT !.active = FALSE, !.awaiting = FALSE,
                                   !.next = @ + 1]
             e == Successor(q)
  <1>1. state[s] \in SessionSequenceState
    BY DEF TypeOK
  <1>2. /\ q.pending = state[s].pending /\ q.parked = state[s].parked
        /\ q.activeDisconnect = state[s].activeDisconnect
        /\ q.failed = state[s].failed /\ q.next = state[s].next + 1
        /\ q.closed = state[s].closed
    BY <1>1 DEF SessionSequenceState
  <1>3. Handover(state[s], e)
    <2>1. ASSUME \E d \in q.parked : d.sequence = q.next
          PROVE  LET c == CHOOSE d \in q.parked : d.sequence = q.next
                 IN  c \in q.parked /\ c.sequence = q.next
      BY <2>1
    <2> HIDE DEF q
    <2> QED
      BY <1>2, <2>1 DEF Handover, Successor
  <1>4. e \in Event \cup {NoEvent}
    <2> HIDE DEF q
    <2>1. q.pending \in Event \cup {NoEvent} /\ q.parked \subseteq Event
      BY <1>1, <1>2 DEF SessionSequenceState
    <2> QED
      BY <2>1, SuccessorKept
  <1>5. /\ Continue(w, e)
        /\ mapped' = [mapped EXCEPT ![s] = @ /\ ~state[s].activeDisconnect]
        /\ state' = [state EXCEPT ![s] =
                  [q EXCEPT !.closed = @ \/ q.activeDisconnect,
                            !.pending = IF q.failed /\ ~q.activeDisconnect
                                        THEN NoEvent ELSE @,
                            !.parked = @ \ {e}]]
    BY <1>2 DEF CompleteSessionTurn
  <1>6. [q EXCEPT !.closed = @ \/ q.activeDisconnect,
                  !.pending = IF q.failed /\ ~q.activeDisconnect
                              THEN NoEvent ELSE @,
                  !.parked = @ \ {e}] = AfterTurn(state[s], e)
    <2> HIDE DEF e
    <2> QED
      BY <1>1 DEF AfterTurn, SessionSequenceState
  <1> HIDE DEF e, q
  <1> QED
    BY <1>3, <1>4, <1>5, <1>6

\* What a step of worker w at an event of session s leaves alone.
OnlyAt(w, s) ==
    /\ \A v \in Workers \ {w} : SameWorker(v) /\ left'[v] = left[v]
    /\ UNCHANGED <<inbox, ioVars, stopVars, pushing>>
    /\ \A t \in Sessions \ {s} :
          /\ state'[t] = state[t] /\ mapped'[t] = mapped[t]
          /\ completion'[t] = completion[t]
          /\ handled'[t] = handled[t] /\ cuts'[t] = cuts[t]
    /\ pc'[w] \notin {"pop", "exited"} => SessionOf(w)' = s

LEMMA WorkerFrame ==
  ASSUME TurnInv, TypeOK', NEW w \in Workers, NEW s \in Sessions,
         SessionOf(w) = s, pc[w] # "pop", Run(w)
  PROVE  OnlyAt(w, s)
  <1> USE DEF OnlyAt, SameWorker, Goto, queues, sessionVars, stopVars,
              completionVars, ioVars, history, shared, locals
  <1> DEFINE T ==
        /\ state \in [Sessions -> SessionSequenceState]
        /\ mapped \in [Sessions -> BOOLEAN]
        /\ pc \in [Workers -> Labels]
        /\ cur \in [Workers -> Event \cup {NoEvent}]
        /\ left \in [Workers -> Batch]
        /\ deferred \in [Workers -> BOOLEAN]
        /\ inlined \in [Workers -> Event \cup {NoEvent}]
        /\ completion \in [Sessions -> DeferredCompletionState]
        /\ handled \in [Sessions -> Seq(Event)]
        /\ cuts \in [Sessions -> Nat]
  <1>1. T
    BY DEF TurnInv, TypeOK
  <1>2. KeptEvents(s) /\ DeferralLocal(w)
    BY DEF TurnInv, SessionInv
  <1>3. CASE \/ PopFailed(w) \/ Abandon(w) \/ Discard(w) \/ Reject(w)
             \/ SkipFailed(w) \/ AlreadyFailed(w) \/ Published(w)
    <2>1. PICK l : Jump(w, l)
      BY <1>3 DEF PopFailed, Abandon, Discard, Reject, SkipFailed,
                  AlreadyFailed, Published
    <2> QED
      BY <1>1, <2>1 DEF Jump, SessionOf
  <1>4. CASE Attach(w)
    BY <1>1, <1>4 DEF Attach, SessionOf
  <1>5. CASE DiscardDrain(w)
    BY <1>1, <1>5 DEF DiscardDrain, Continue
  <1>6. CASE ParkEvent(w) \/ ParkCompletion(w) \/ ParkDisconnected(w)
    BY <1>1, <1>6 DEF ParkEvent, ParkCompletion, ParkDisconnected, Park,
                      Continue
  <1>7. CASE StartTurn(w)
    BY <1>1, <1>7 DEF StartTurn, SessionOf
  <1>8. CASE ResumeTurn(w)
    <2>1. CASE cur[w].failed
      BY <1>1, <1>8, <2>1 DEF ResumeTurn, SessionOf
    <2>2. CASE ~cur[w].failed
      <3>1. PICK n \in Batch : left' = [left EXCEPT ![w] = n]
        BY <1>8, <2>2 DEF ResumeTurn
      <3> QED
        BY <1>1, <1>8, <2>2, <3>1 DEF ResumeTurn, SessionOf
    <2> QED
      BY <2>1, <2>2
  <1>9. CASE EnterHandler(w)
    BY <1>1, <1>9 DEF EnterHandler, SessionOf
  <1>10. CASE Defer(w)
    BY <1>1, <1>10 DEF Defer, SessionOf
  <1>11. CASE HandlerReturns(w)
    <2>1. PICK n \in Batch : left' = [left EXCEPT ![w] = n]
      BY <1>11 DEF HandlerReturns
    <2>2. CASE deferred[w]
      BY <1>1, <1>11, <2>1, <2>2 DEF HandlerReturns, SessionOf
    <2>3. CASE ~deferred[w]
      BY <1>1, <1>11, <2>1, <2>3 DEF HandlerReturns, SessionOf
    <2> QED
      BY <2>2, <2>3
  <1>12. CASE HandlerThrows(w)
    BY <1>1, <1>12 DEF HandlerThrows, SessionOf
  <1>13. CASE MarkSessionFailed(w)
    BY <1>1, <1>13 DEF MarkSessionFailed, SessionOf
  <1>14. CASE PublishOutbound(w)
    BY <1>1, <1>14 DEF PublishOutbound, SessionOf
  <1>15. CASE PublishRefused(w)
    BY <1>1, <1>15 DEF PublishRefused, SessionOf
  <1>16. CASE Retry(w)
    <2>1. CASE IsDisconnected(cur[w])
      BY <1>1, <1>16, <2>1 DEF Retry, Continue, SessionOf
    <2>2. CASE ~IsDisconnected(cur[w]) /\ (StateOf(w).active \/ StateOf(w).closed)
      BY <1>1, <1>16, <2>2 DEF Retry, Continue
    <2>3. CASE ~IsDisconnected(cur[w]) /\ ~(StateOf(w).active \/ StateOf(w).closed)
      <3>1. /\ Continue(w, state[s].pending)
            /\ state' = [state EXCEPT ![s] = [@ EXCEPT !.pending = NoEvent]]
        BY <1>16, <2>3 DEF Retry, StateOf
      <3>2. state[s].pending # NoEvent => state[s].pending.session = s
        BY <1>2 DEF KeptEvents
      <3> QED
        BY <1>1, <1>16, <3>1, <3>2 DEF Retry, Continue, SessionOf
    <2> QED
      BY <2>1, <2>2, <2>3
  <1>17. CASE MarkSessionDeferred(w)
    <2>1. /\ inlined[w] # NoEvent => inlined[w].session = s
          /\ state[s].early # NoEvent => state[s].early.session = s
      BY <1>2 DEF KeptEvents, DeferralLocal
    <2>2. Continue(w, IF inlined[w] # NoEvent THEN inlined[w]
                      ELSE state[s].early)
      BY <1>17 DEF MarkSessionDeferred, StateOf
    <2>3. \A t \in Sessions \ {s} : state'[t] = state[t]
      BY <1>1, <1>17 DEF MarkSessionDeferred
    <2> QED
      BY <1>1, <1>17, <2>1, <2>2, <2>3
         DEF MarkSessionDeferred, Continue, SessionOf
  <1>18. CASE CompleteSessionTurn(w)
    <2>1. PICK e \in Event \cup {NoEvent} :
            /\ Handover(state[s], e) /\ Continue(w, e)
            /\ state' = [state EXCEPT ![s] = AfterTurn(state[s], e)]
            /\ mapped' = [mapped EXCEPT ![s] = @ /\ ~state[s].activeDisconnect]
      BY <1>18, CompleteEffect DEF TurnInv
    <2>2. e # NoEvent => e.session = s
      BY <1>2, <2>1 DEF KeptEvents, Handover
    <2> QED
      BY <1>1, <1>18, <2>1, <2>2 DEF CompleteSessionTurn, Continue, SessionOf
  <1> QED
    BY <1>3, <1>4, <1>5, <1>6, <1>7, <1>8, <1>9, <1>10, <1>11, <1>12, <1>13,
       <1>14, <1>15, <1>16, <1>17, <1>18 DEF Run, Pop

\* The other sessions, in a step of a worker at one.
LEMMA EventsElsewhere ==
  ASSUME TurnInv, TypeOK', EventInv, NEW w \in Workers, NEW s \in Sessions,
         SessionOf(w) = s, OnlyAt(w, s), EventInvAt(s)'
  PROVE  EventInv'
  <1>1. ASSUME NEW t \in Sessions \ {s} PROVE EventInvAt(t)'
    <2>1. /\ state'[t] = state[t] /\ mapped'[t] = mapped[t]
          /\ sent'[t] = sent[t] /\ gone'[t] = gone[t]
          /\ completion'[t] = completion[t] /\ pushing'[t] = pushing[t]
          /\ EventInvAt(t) /\ TypeOK
      BY DEF OnlyAt, ioVars, EventInv, TurnInv
    <2>2. \A i \in DOMAIN inbox' : inbox'[i].session = t =>
              i + 0 \in DOMAIN inbox /\ inbox'[i] = inbox[i + 0]
      BY <2>1, SamePlaces DEF OnlyAt
    <2>3. \A v \in Workers : At(v, t)' =>
              /\ At(v, t) /\ cur'[v] = cur[v] /\ SameWorker(v)
              /\ pc'[v] = "attach" => pc[v] = "attach"
      BY DEF OnlyAt, At, SameWorker, SessionOf
    <2>4. \A v \in Workers : InTurn(v) /\ SessionOf(v) = t =>
              InTurn(v)' /\ SessionOf(v)' = t
      BY DEF OnlyAt, InTurn, SameWorker, SessionOf
    <2>5. \A v \in Workers : InTurn(v)' /\ SessionOf(v)' = t =>
             /\ InTurn(v) /\ SessionOf(v) = t
             /\ IsCompletion(cur[v]) => pc'[v] \notin {"check", "handler"}
             /\ deferred'[v] => cur[v].kind = "Packet"
      BY <2>1 DEF OnlyAt, InTurn, SameWorker, SessionOf, EventInvAt, TurnOwned
    <2>6. CompletionKinds(t)'
      BY <2>1, <2>3 DEF CompletionKinds, EventInvAt, SameWorker
    <2> QED
      BY <2>1, <2>2, <2>3, <2>4, <2>5, <2>6, KeepEvents
  <1> QED
    BY <1>1 DEF EventInv

\* A worker goes on with its event, or drops it, and the session stays as it is.
LEMMA MoveEvents ==
  ASSUME TurnInv, TypeOK', EventInv, NEW w \in Workers, NEW s \in Sessions,
         SessionOf(w) = s, OnlyAt(w, s), pc[w] \notin {"pop", "exited"},
         state'[s] = state[s], mapped'[s] = mapped[s], CompletionKinds(s)',
         pc'[w] \notin {"pop", "exited"} =>
             cur'[w] = cur[w] /\ pc'[w] # "attach",
         InTurn(w)' <=> InTurn(w),
         InTurn(w)' =>
             /\ IsCompletion(cur[w]) => pc'[w] \notin {"check", "handler"}
             /\ deferred'[w] => cur[w].kind = "Packet"
  PROVE  EventInv'
  <1>1. /\ sent'[s] = sent[s] /\ gone'[s] = gone[s]
        /\ EventInvAt(s) /\ TypeOK
    BY DEF OnlyAt, ioVars, EventInv, TurnInv
  <1>2. \A i \in DOMAIN inbox' : inbox'[i].session = s =>
            i + 0 \in DOMAIN inbox /\ inbox'[i] = inbox[i + 0]
    BY <1>1, SamePlaces DEF OnlyAt
  <1>3. \A v \in Workers : At(v, s)' =>
            /\ At(v, s) /\ cur'[v] = cur[v]
            /\ pc'[v] = "attach" => pc[v] = "attach"
    BY DEF OnlyAt, At, SameWorker, SessionOf
  <1>4. \A v \in Workers : InTurn(v) /\ SessionOf(v) = s =>
            InTurn(v)' /\ SessionOf(v)' = s
    BY DEF OnlyAt, InTurn, SameWorker, SessionOf
  <1>5. \A v \in Workers : InTurn(v)' /\ SessionOf(v)' = s =>
           /\ InTurn(v) /\ SessionOf(v) = s
           /\ IsCompletion(cur[v]) => pc'[v] \notin {"check", "handler"}
           /\ deferred'[v] => cur[v].kind = "Packet"
    BY <1>1 DEF OnlyAt, InTurn, SameWorker, SessionOf, EventInvAt, TurnOwned
  <1>6. EventInvAt(s)'
    BY <1>1, <1>2, <1>3, <1>4, <1>5, KeepEvents
  <1> QED
    BY <1>6, EventsElsewhere

\* The places of a completion, when the step takes none of them up.
LEMMA SameKinds ==
  ASSUME EventInv, NEW w \in Workers, NEW s \in Sessions, SessionOf(w) = s,
         OnlyAt(w, s), state'[s].early \in {state[s].early, NoEvent},
         completion'[s] = completion[s],
         inlined'[w] \in {inlined[w], NoEvent},
         pc[w] \notin {"pop", "exited"}
  PROVE  CompletionKinds(s)'
  <1>1. CompletionKinds(s)
    BY DEF EventInv, EventInvAt
  <1> QED
    BY <1>1 DEF CompletionKinds, OnlyAt, At, SameWorker, SessionOf

LEMMA JumpEvents ==
  ASSUME TurnInv, TypeOK', EventInv, NEW w \in Workers, NEW s \in Sessions,
         SessionOf(w) = s, OnlyAt(w, s),
         \/ Abandon(w) \/ Discard(w) \/ Reject(w) \/ SkipFailed(w)
         \/ AlreadyFailed(w) \/ Published(w)
         \/ PublishOutbound(w) \/ PublishRefused(w) \/ EnterHandler(w)
         \/ DiscardDrain(w)
  PROVE  EventInv'
  <1> USE DEF Starting, InTurn
  <1>1. /\ pc[w] \notin {"pop", "exited"} /\ pc \in [Workers -> Labels]
        /\ cur \in [Workers -> Event \cup {NoEvent}]
    BY DEF Abandon, Discard, Reject, SkipFailed, AlreadyFailed, Published,
           PublishOutbound, PublishRefused, EnterHandler, DiscardDrain,
           Publishing, Cutting, TurnInv, TypeOK
  <1>2. /\ state' = state /\ mapped' = mapped /\ completion' = completion
        /\ inlined' = inlined /\ deferred' = deferred
    BY DEF Abandon, Discard, Reject, SkipFailed, AlreadyFailed, Published,
           PublishOutbound, PublishRefused, EnterHandler, DiscardDrain,
           Jump, shared, locals, sessionVars, completionVars
  <1>3. CompletionKinds(s)'
    BY <1>1, <1>2, SameKinds
  <1>4. InTurn(w) => /\ IsCompletion(cur[w]) => pc[w] \notin {"check", "handler"}
                     /\ deferred'[w] => cur[w].kind = "Packet"
    BY <1>2 DEF EventInv, EventInvAt, TurnOwned
  <1>5. /\ pc'[w] \notin {"pop", "exited"} =>
             cur'[w] = cur[w] /\ pc'[w] # "attach"
        /\ InTurn(w)' <=> InTurn(w)
        /\ pc'[w] \in {"check", "handler"} => pc[w] \in {"check", "handler"}
    <2> USE DEF Jump, locals, Goto
    <2>1. CASE Abandon(w) \/ Discard(w) \/ Reject(w) \/ SkipFailed(w)
      BY <1>1, <2>1 DEF Abandon, Discard, Reject, SkipFailed
    <2>2. CASE AlreadyFailed(w)
      BY <1>1, <2>2 DEF AlreadyFailed
    <2>3. CASE Published(w)
      BY <1>1, <2>3 DEF Published, Publishing, Cutting
    <2>4. CASE PublishOutbound(w) \/ PublishRefused(w)
      BY <1>1, <2>4 DEF PublishOutbound, PublishRefused, Publishing, Cutting
    <2>5. CASE EnterHandler(w)
      BY <1>1, <2>5 DEF EnterHandler
    <2>6. CASE DiscardDrain(w)
      BY <1>1, <2>6 DEF DiscardDrain, Continue
    <2> QED
      BY <2>1, <2>2, <2>3, <2>4, <2>5, <2>6
  <1> HIDE DEF InTurn
  <1>6. InTurn(w)' =>
            /\ IsCompletion(cur[w]) => pc'[w] \notin {"check", "handler"}
            /\ deferred'[w] => cur[w].kind = "Packet"
    BY <1>4, <1>5
  <1> QED
    BY <1>1, <1>2, <1>3, <1>5, <1>6, MoveEvents

LEMMA HandlerEvents ==
  ASSUME TurnInv, TypeOK', EventInv, NEW w \in Workers, NEW s \in Sessions,
         SessionOf(w) = s, OnlyAt(w, s),
         Defer(w) \/ HandlerReturns(w) \/ HandlerThrows(w)
  PROVE  EventInv'
  <1>1. /\ pc[w] = "handler" /\ InTurn(w) /\ pc \in [Workers -> Labels]
        /\ completion \in [Sessions -> DeferredCompletionState]
        /\ deferred \in [Workers -> BOOLEAN]
        /\ inlined \in [Workers -> Event \cup {NoEvent}]
    BY DEF Defer, HandlerReturns, HandlerThrows, InTurn, TurnInv, TypeOK
  <1>2. /\ state' = state /\ mapped' = mapped /\ cur' = cur
    BY DEF Defer, HandlerReturns, HandlerThrows, sessionVars
  <1>3. /\ CompletionKinds(s)
        /\ ~IsCompletion(cur[w])
        /\ deferred[w] => cur[w].kind = "Packet"
    BY <1>1 DEF EventInv, EventInvAt, TurnOwned
  <1>4. /\ pc'[w] \in {"handler", "publish", "broken"} /\ InTurn(w)'
        /\ deferred'[w] => cur[w].kind = "Packet"
    BY <1>1, <1>3 DEF Defer, HandlerReturns, HandlerThrows, Goto, InTurn
  <1>5. /\ completion'[s].inline \in {completion[s].inline, NoEvent}
        /\ inlined'[w] \in {inlined[w], NoEvent, completion[s].inline}
    <2>1. completion[s] \in DeferredCompletionState
      BY <1>1
    <2>2. CASE Defer(w)
      BY <1>1, <2>1, <2>2 DEF Defer, DeferredCompletionState
    <2>3. CASE HandlerReturns(w) /\ deferred[w]
      <3>1. /\ inlined'[w] = completion[s].inline
            /\ completion'[s] = [completion[s] EXCEPT !.returned = TRUE,
                                                     !.inline = NoEvent]
        BY <1>1, <2>3 DEF HandlerReturns
      <3> QED
        BY <2>1, <3>1 DEF DeferredCompletionState
    <2>4. CASE HandlerReturns(w) /\ ~deferred[w]
      BY <1>1, <2>1, <2>4 DEF HandlerReturns
    <2>5. CASE HandlerThrows(w)
      BY <1>1, <2>1, <2>5 DEF HandlerThrows, completionVars
    <2> QED
      BY <2>2, <2>3, <2>4, <2>5
  <1>6. CompletionKinds(s)'
    BY <1>1, <1>2, <1>3, <1>5
       DEF CompletionKinds, OnlyAt, At, SameWorker, SessionOf
  <1> QED
    BY <1>1, <1>2, <1>3, <1>4, <1>6, MoveEvents

\* No event of a closed session comes through the inbox any more.
LEMMA AttachOpen ==
  ASSUME TurnInv, EventInv, NEW w \in Workers, NEW s \in Sessions,
         SessionOf(w) = s, pc[w] = "attach"
  PROVE  ~state[s].closed
  <1>1. SessionInv(s) /\ EventInvAt(s) /\ cur[w] \in Event
    BY CurrentType DEF TurnInv, EventInv
  <1>2. CASE cur[w].kind = "Packet"
    BY <1>1, <1>2 DEF EventInvAt, DisconnectedLast, DisconnectTaken
  <1>3. CASE IsDisconnected(cur[w])
    BY <1>1, <1>3 DEF EventInvAt, OneDisconnected, AtDisconnected, At
  <1>4. CASE IsCompletion(cur[w])
    <2>1. Token(s)
      BY <1>4 DEF Token, Delivered, Held, HeldBy
    <2> QED
      BY <1>1, <2>1 DEF SessionInv, CompletionActive, EventInvAt, MappedOrClosed
  <1> QED
    BY <1>1, <1>2, <1>3, <1>4 DEF Event, Kinds, IsDisconnected, IsCompletion

\* Past intake an open session is in the map.
LEMMA OpenMapped ==
  ASSUME TurnInv, NEW w \in Workers, NEW s \in Sessions,
         SessionOf(w) = s, PastIntake(w), ~state[s].closed
  PROVE  mapped[s]
  BY DEF TurnInv, SessionInv, Attached

\* The state is found or made in intake: it is not made a second time.
LEMMA AttachKeepsState ==
  ASSUME TurnInv, EventInv, NEW w \in Workers, NEW s \in Sessions,
         SessionOf(w) = s, Attach(w)
  PROVE  state' = state
  <1>1. pc[w] = "attach" /\ state \in [Sessions -> SessionSequenceState]
    BY DEF Attach, TurnInv, TypeOK
  <1>2. ~mapped[s] => state[s] = FreshState
    BY <1>1, AttachOpen DEF EventInv, EventInvAt, MappedOrClosed
  <1> QED
    BY <1>1, <1>2 DEF Attach

LEMMA AttachEvents ==
  ASSUME TurnInv, TypeOK', EventInv, NEW w \in Workers, NEW s \in Sessions,
         SessionOf(w) = s, OnlyAt(w, s), Attach(w)
  PROVE  EventInv'
  <1>1. /\ pc[w] = "attach" /\ pc'[w] = "start" /\ cur' = cur
        /\ state' = state /\ mapped'[s] /\ completion' = completion
        /\ inlined' = inlined
    BY AttachKeepsState DEF Attach, Goto, TurnInv, TypeOK, completionVars
  <1>2. EventInvAt(s) /\ ~state[s].closed /\ TypeOK
    BY <1>1, AttachOpen DEF EventInv, TurnInv
  <1>3. CompletionKinds(s)'
    BY <1>1, SameKinds
  <1>4. MappedOrClosed(s)'
    BY <1>1, <1>2 DEF MappedOrClosed
  <1>5. /\ sent'[s] = sent[s] /\ gone'[s] = gone[s]
        /\ \A i \in DOMAIN inbox' : inbox'[i].session = s =>
              i + 0 \in DOMAIN inbox /\ inbox'[i] = inbox[i + 0]
    BY <1>2, SamePlaces DEF OnlyAt, ioVars
  <1>6. \A v \in Workers : At(v, s)' =>
             /\ At(v, s) /\ cur'[v] = cur[v]
             /\ pc'[v] = "attach" => pc[v] = "attach"
    BY <1>1 DEF OnlyAt, At, SameWorker, SessionOf
  <1>7. /\ EventsNumbered(s)' /\ KeptApart(s)'
        /\ OneDisconnected(s)' /\ DisconnectedLast(s)'
    BY <1>1, <1>2, <1>5, <1>6, KeepPlaces
  <1>8. \A v \in Workers :
            /\ InTurn(v)' <=> InTurn(v)
            /\ InTurn(v) => SameWorker(v)
    BY <1>1 DEF OnlyAt, InTurn, SameWorker
  <1>9. TurnOwned(s)' /\ NextBounded(s)'
    BY <1>1, <1>2, <1>5, <1>8
       DEF EventInvAt, TurnOwned, NextBounded, SameWorker, SessionOf
  <1> QED
    BY <1>3, <1>4, <1>7, <1>9, EventsElsewhere DEF EventInvAt

\* An event, a completion or the Disconnected is left with the session.
LEMMA ParkEvents ==
  ASSUME TurnInv, TypeOK', EventInv, NEW w \in Workers, NEW s \in Sessions,
         SessionOf(w) = s, OnlyAt(w, s),
         ParkEvent(w) \/ ParkCompletion(w) \/ ParkDisconnected(w)
  PROVE  EventInv'
  <1>1. /\ pc[w] = "start" /\ pc'[w] = "pop" /\ mapped' = mapped
        /\ completion' = completion /\ inlined' = inlined
        /\ \E q : Park(w, q)
    BY DEF ParkEvent, ParkCompletion, ParkDisconnected, Park, Starting,
           Continue, Goto, TurnInv, TypeOK, completionVars
  <1>2. /\ EventInvAt(s) /\ TypeOK /\ cur[w] \in Event
        /\ state[s] \in SessionSequenceState
    BY <1>1, CurrentType DEF EventInv, TurnInv, TypeOK
  <1>3. At(w, s) /\ Numbered(s, cur[w])
    BY <1>1, <1>2 DEF At, EventInvAt, EventsNumbered
  <1>4. /\ inbox' = inbox /\ sent' = sent /\ gone' = gone
        /\ \A v \in Workers : At(v, s)' => v # w /\ SameWorker(v) /\ At(v, s)
        /\ \A v \in Workers : At(v, s) => v = w \/ At(v, s)'
    BY <1>1 DEF OnlyAt, ioVars, At, SameWorker, SessionOf
  <1>5. ~state[s].closed /\ mapped[s]
    <2>1. ~state[s].closed
      BY DEF ParkEvent, Parkable, Ahead, ParkCompletion, CompletionEarly,
             ParkDisconnected, DisconnectPending, StateOf
    <2> QED
      BY <1>1, <2>1, OpenMapped DEF PastIntake
  <1>6. \A v \in Workers : InTurn(v)' <=> InTurn(v)
    BY <1>1 DEF OnlyAt, InTurn, SameWorker
  <1>7. \A v \in Workers : InTurn(v) => SameWorker(v)
    BY <1>1 DEF OnlyAt, InTurn
  <1>8. ASSUME state'[s].closed = state[s].closed,
               state'[s].active = state[s].active,
               state'[s].activeDisconnect = state[s].activeDisconnect,
               state'[s].awaiting = state[s].awaiting,
               state'[s].next = state[s].next,
               state'[s].failed = state[s].failed
        PROVE  TurnOwned(s)' /\ NextBounded(s)' /\ MappedOrClosed(s)'
    BY <1>1, <1>2, <1>4, <1>5, <1>6, <1>7, <1>8
       DEF EventInvAt, TurnOwned, NextBounded, MappedOrClosed, SameWorker,
           SessionOf
  <1>9. \A v \in Workers : AtDisconnected(v, s)' => AtDisconnected(v, s) /\ v # w
    BY <1>4 DEF AtDisconnected, SameWorker
  <1>10. ASSUME DisconnectTaken(s)' => DisconnectTaken(s)
         PROVE  DisconnectedLast(s)'
    <2>1. \A v \in Workers : pc'[v] = "attach" /\ SessionOf(v)' = s =>
             pc[v] = "attach" /\ SessionOf(v) = s /\ cur'[v] = cur[v]
      BY <1>4 DEF At, SameWorker
    <2> QED
      BY <1>2, <1>4, <1>10, <2>1 DEF EventInvAt, DisconnectedLast
  <1>11. CASE ParkEvent(w)
    <2>1. /\ state'[s] = [state[s] EXCEPT !.parked = @ \cup {cur[w]}]
          /\ Parkable(cur[w], state[s])
      BY <1>2, <1>11 DEF ParkEvent, Park, StateOf, TypeOK
    <2>2. /\ state'[s].parked = state[s].parked \cup {cur[w]}
          /\ state'[s].pending = state[s].pending
          /\ state'[s].early = state[s].early
          /\ state'[s].closed = state[s].closed
          /\ state'[s].active = state[s].active
          /\ state'[s].activeDisconnect = state[s].activeDisconnect
          /\ state'[s].awaiting = state[s].awaiting
          /\ state'[s].next = state[s].next
          /\ state'[s].failed = state[s].failed
      BY <1>2, <2>1 DEF SessionSequenceState
    <2>3. /\ ~state[s].failed
          /\ \A p \in state[s].parked : p.sequence # cur[w].sequence
      BY <2>1 DEF Parkable, Ahead, SequenceUsed
    <2>4. CompletionKinds(s)'
      BY <1>1, <2>2, SameKinds
    <2>5. EventsNumbered(s)'
      BY <1>2, <1>3, <1>4, <2>2
         DEF EventInvAt, EventsNumbered, Numbered, SameWorker
    <2>6. KeptApart(s)'
      BY <1>2, <2>2, <2>3 DEF EventInvAt, KeptApart
    <2>7. KeepsDisconnected(s)' => KeepsDisconnected(s) \/ AtDisconnected(w, s)
      BY <1>3, <2>2 DEF KeepsDisconnected, AtDisconnected
    <2>8. OneDisconnected(s)'
      BY <1>2, <1>9, <2>2, <2>7 DEF EventInvAt, OneDisconnected
    <2>9. DisconnectedLast(s)'
      BY <1>9, <1>10, <2>2, <2>7 DEF DisconnectTaken
    <2> QED
      BY <1>8, <2>2, <2>4, <2>5, <2>6, <2>8, <2>9, EventsElsewhere
         DEF EventInvAt
  <1>12. CASE ParkCompletion(w)
    <2>1. /\ state'[s] = [state[s] EXCEPT !.early = cur[w]]
          /\ IsCompletion(cur[w])
      BY <1>2, <1>12 DEF ParkCompletion, Park, StateOf, TypeOK, CompletionEarly
    <2>2. /\ state'[s].parked = state[s].parked
          /\ state'[s].pending = state[s].pending
          /\ state'[s].early = cur[w]
          /\ state'[s].closed = state[s].closed
          /\ state'[s].active = state[s].active
          /\ state'[s].activeDisconnect = state[s].activeDisconnect
          /\ state'[s].awaiting = state[s].awaiting
          /\ state'[s].next = state[s].next
          /\ state'[s].failed = state[s].failed
      BY <1>2, <2>1 DEF SessionSequenceState
    <2>3. CompletionKinds(s)'
      BY <1>1, <1>2, <1>4, <2>1, <2>2
         DEF CompletionKinds, EventInvAt, OnlyAt, SameWorker
    <2>4. \A i \in DOMAIN inbox' : inbox'[i].session = s =>
              i + 0 \in DOMAIN inbox /\ inbox'[i] = inbox[i + 0]
      BY <1>2, <1>4, SamePlaces
    <2>5. /\ EventsNumbered(s)' /\ KeptApart(s)'
          /\ OneDisconnected(s)' /\ DisconnectedLast(s)'
      BY <1>2, <1>4, <2>2, <2>4, KeepPlaces DEF SameWorker
    <2> QED
      BY <1>8, <2>2, <2>3, <2>5, EventsElsewhere DEF EventInvAt
  <1>13. CASE ParkDisconnected(w)
    <2>1. /\ state'[s] = [state[s] EXCEPT !.pending = cur[w]]
          /\ DisconnectPending(cur[w], state[s])
      BY <1>2, <1>13 DEF ParkDisconnected, Park, StateOf, TypeOK
    <2>2. /\ state'[s].parked = state[s].parked
          /\ state'[s].pending = cur[w]
          /\ state'[s].early = state[s].early
          /\ state'[s].closed = state[s].closed
          /\ state'[s].active = state[s].active
          /\ state'[s].activeDisconnect = state[s].activeDisconnect
          /\ state'[s].awaiting = state[s].awaiting
          /\ state'[s].next = state[s].next
          /\ state'[s].failed = state[s].failed
      BY <1>2, <2>1 DEF SessionSequenceState
    <2>3. AtDisconnected(w, s) /\ state[s].failed
      BY <1>3, <2>1 DEF DisconnectPending, AtDisconnected
    <2>4. CompletionKinds(s)'
      BY <1>1, <2>2, SameKinds
    <2>5. EventsNumbered(s)'
      BY <1>2, <1>3, <1>4, <2>2
         DEF EventInvAt, EventsNumbered, Numbered, SameWorker
    <2>6. KeptApart(s)'
      BY <1>2, <2>2, <2>3 DEF EventInvAt, KeptApart, AtDisconnected
    <2>7. OneDisconnected(s)'
      BY <1>2, <1>5, <1>9, <2>2, <2>3 DEF EventInvAt, OneDisconnected
    <2>8. DisconnectedLast(s)'
      BY <1>10, <2>3 DEF DisconnectTaken
    <2> QED
      BY <1>8, <2>2, <2>4, <2>5, <2>6, <2>7, <2>8, EventsElsewhere
         DEF EventInvAt
  <1> QED
    BY <1>11, <1>12, <1>13

\* A worker at its event gets the turn: nobody has it.
LEMMA TurnStartEvents ==
  ASSUME TurnInv, TypeOK', EventInv, NEW w \in Workers, NEW s \in Sessions,
         SessionOf(w) = s, OnlyAt(w, s), StartTurn(w) \/ ResumeTurn(w)
  PROVE  EventInv'
  <1>1. /\ pc[w] = "start" /\ cur' = cur /\ mapped' = mapped
        /\ pc'[w] \in {"check", "broken", "publish"} /\ InTurn(w)'
        /\ completion' = completion /\ inlined' = inlined
        /\ deferred' = deferred /\ ~deferred[w]
    BY ZenonT(60) DEF StartTurn, ResumeTurn, Starting, Goto, InTurn, sessionVars,
           completionVars, TurnInv, TypeOK, DeferralLocal
  <1>2. /\ EventInvAt(s) /\ TypeOK /\ cur[w] \in Event /\ SessionInv(s)
        /\ state[s] \in SessionSequenceState
    BY <1>1, CurrentType DEF EventInv, TurnInv, TypeOK
  <1>3. At(w, s) /\ Numbered(s, cur[w])
    BY <1>1, <1>2 DEF At, EventInvAt, EventsNumbered
  <1>4. /\ sent' = sent /\ gone' = gone
        /\ \A i \in DOMAIN inbox' : inbox'[i].session = s =>
              i + 0 \in DOMAIN inbox /\ inbox'[i] = inbox[i + 0]
        /\ \A v \in Workers : At(v, s)' =>
              /\ At(v, s) /\ cur'[v] = cur[v]
              /\ pc'[v] = "attach" => pc[v] = "attach"
        /\ \A v \in Workers \ {w} : SameWorker(v)
    BY <1>1, <1>2, <1>3, SamePlaces DEF OnlyAt, ioVars, At, SameWorker, SessionOf
  <1>5. ~state[s].closed /\ mapped[s]
    <2>1. ~state[s].closed
      BY DEF StartTurn, ResumeTurn, TurnFree, CompletionDue, StateOf
    <2> QED
      BY <1>1, <2>1, OpenMapped DEF PastIntake
  <1>6. CASE StartTurn(w)
    <2>1. /\ state'[s] = [state[s] EXCEPT !.next = cur[w].sequence,
                              !.active = TRUE,
                              !.activeDisconnect = IsDisconnected(cur[w])]
          /\ TurnFree(cur[w], state[s])
      BY <1>2, <1>6 DEF StartTurn, StateOf, TypeOK
    <2>2. /\ state'[s].parked = state[s].parked
          /\ state'[s].pending = state[s].pending
          /\ state'[s].early = state[s].early
          /\ state'[s].closed = state[s].closed
          /\ state'[s].failed = state[s].failed
          /\ state'[s].active
          /\ state'[s].activeDisconnect = IsDisconnected(cur[w])
          /\ state'[s].awaiting = state[s].awaiting
          /\ state'[s].next = cur[w].sequence
      BY <1>2, <2>1 DEF SessionSequenceState
    <2>3. ~IsCompletion(cur[w]) /\ ~state[s].active /\ ~state[s].awaiting
      BY <1>2, <2>1 DEF TurnFree, SessionInv, CompletionActive
    <2>4. CompletionKinds(s)'
      BY <1>1, <2>2, SameKinds
    <2>5. /\ EventsNumbered(s)' /\ KeptApart(s)'
          /\ OneDisconnected(s)' /\ DisconnectedLast(s)'
      BY <1>2, <1>4, <2>2, KeepPlaces
    <2>6. MappedOrClosed(s)'
      BY <1>1, <1>5, <2>2 DEF MappedOrClosed
    <2>7. \A v \in Workers : InTurn(v)' /\ SessionOf(v)' = s => v = w
      <3>1. \A v \in Workers : ~(InTurn(v) /\ SessionOf(v) = s)
        BY <1>2, <2>3 DEF SessionInv, OneTurn
      <3> QED
        BY <1>1, <1>4, <3>1 DEF InTurn, SameWorker, SessionOf
    <2>8. TurnOwned(s)'
      <3>1. SessionOf(w)' = s
        BY <1>1 DEF SessionOf
      <3> QED
        BY <1>1, <2>2, <2>3, <2>7, <3>1 DEF TurnOwned
    <2>9. NextBounded(s)'
      <3>1. cur[w].kind = "Packet" \/ IsDisconnected(cur[w])
        BY <1>2, <2>3 DEF Event, Kinds, IsDisconnected, IsCompletion
      <3> QED
        BY <1>3, <1>4, <1>5, <2>2, <3>1 DEF NextBounded, Numbered
    <2> QED
      BY <2>4, <2>5, <2>6, <2>8, <2>9, EventsElsewhere DEF EventInvAt
  <1>7. CASE ResumeTurn(w)
    <2>1. /\ state' = state /\ CompletionDue(cur[w], state[s])
      BY <1>7 DEF ResumeTurn, StateOf, sessionVars
    <2>2. /\ IsCompletion(cur[w]) /\ ~IsDisconnected(cur[w])
          /\ state[s].awaiting /\ pc'[w] \notin {"check", "handler"}
      BY <1>1, <1>7, <2>1 DEF CompletionDue, IsCompletion, IsDisconnected,
                              ResumeTurn, Goto, TurnInv, TypeOK
    <2>3. CompletionKinds(s)'
      BY <1>1, <2>1, SameKinds
    <2>4. /\ EventsNumbered(s)' /\ KeptApart(s)'
          /\ OneDisconnected(s)' /\ DisconnectedLast(s)'
      BY <1>2, <1>4, <2>1, KeepPlaces
    <2>5. MappedOrClosed(s)' /\ NextBounded(s)'
      BY <1>1, <1>2, <1>4, <2>1 DEF EventInvAt, MappedOrClosed, NextBounded
    <2>6. \A v \in Workers \ {w} : InTurn(v)' <=> InTurn(v)
      BY <1>4 DEF InTurn, SameWorker
    <2>7. TurnOwned(s)'
      BY <1>1, <1>2, <1>4, <2>1, <2>2, <2>6
         DEF EventInvAt, TurnOwned, SameWorker, SessionOf
    <2> QED
      BY <2>3, <2>4, <2>5, <2>7, EventsElsewhere DEF EventInvAt
  <1> QED
    BY <1>6, <1>7

\* What a failed session keeps: the Disconnected that was parked or pending.
LEMMA FailedPending ==
  ASSUME NEW s \in Sessions, EventInvAt(s), TypeOK, ~state[s].failed
  PROVE  LET q == Failed(state[s]) IN
         /\ q.failed /\ q.activeDisconnect = state[s].activeDisconnect
         /\ q.pending # NoEvent =>
               IsDisconnected(q.pending) /\ q.pending \in state[s].parked
         /\ (\E e \in state[s].parked : IsDisconnected(e)) => q.pending # NoEvent
  <1>1. state[s] \in SessionSequenceState /\ state[s].pending = NoEvent
    BY DEF TypeOK, EventInvAt, KeptApart
  <1> DEFINE p == IF \E e \in state[s].parked : IsDisconnected(e)
                  THEN CHOOSE e \in state[s].parked : IsDisconnected(e)
                  ELSE state[s].pending
  <1>2. /\ p # NoEvent => IsDisconnected(p) /\ p \in state[s].parked
        /\ (\E e \in state[s].parked : IsDisconnected(e)) => p # NoEvent
    <2>1. CASE \E e \in state[s].parked : IsDisconnected(e)
      <3>1. /\ p \in state[s].parked /\ IsDisconnected(p)
        BY <2>1
      <3>2. state[s].parked \subseteq Event
        BY <1>1 DEF SessionSequenceState
      <3> QED
        BY <3>1, <3>2, WorkerPoolAssumption
    <2>2. CASE ~ \E e \in state[s].parked : IsDisconnected(e)
      BY <1>1, <2>2
    <2> QED
      BY <2>1, <2>2
  <1>3. Failed(state[s]) = [state[s] EXCEPT !.failed = TRUE, !.parked = {},
                                            !.pending = p]
    BY DEF Failed
  <1> HIDE DEF p
  <1> QED
    BY <1>1, <1>2, <1>3 DEF SessionSequenceState

LEMMA MarkSessionFailedEvents ==
  ASSUME TurnInv, TypeOK', EventInv, NEW w \in Workers, NEW s \in Sessions,
         SessionOf(w) = s, OnlyAt(w, s), MarkSessionFailed(w)
  PROVE  EventInv'
  <1>1. /\ pc[w] \in {"rejected", "broken"} /\ cur' = cur /\ mapped' = mapped
        /\ pc'[w] = IF pc[w] = "rejected" THEN "rejectCut" ELSE "brokenCut"
        /\ completion' = completion /\ inlined' = inlined
        /\ deferred' = deferred
    BY DEF MarkSessionFailed, Goto, completionVars, TurnInv, TypeOK
  <1>2. /\ EventInvAt(s) /\ TypeOK
        /\ state[s] \in SessionSequenceState
        /\ state'[s] = Failed(state[s])
        /\ ~state[s].failed /\ ~state[s].closed
    BY DEF EventInv, TurnInv, TypeOK, MarkSessionFailed, StateOf
  <1>3. /\ state'[s].parked = {} /\ state'[s].failed
        /\ state'[s].early = state[s].early
        /\ state'[s].closed = state[s].closed
        /\ state'[s].active = state[s].active
        /\ state'[s].activeDisconnect = state[s].activeDisconnect
        /\ state'[s].awaiting = state[s].awaiting
        /\ state'[s].next = state[s].next
        /\ state'[s].pending # NoEvent =>
               /\ IsDisconnected(state'[s].pending)
               /\ state'[s].pending \in state[s].parked
    BY <1>2, FailedKeeps, FailedPending
  <1>4. /\ inbox' = inbox /\ sent' = sent /\ gone' = gone
        /\ \A v \in Workers : /\ At(v, s)' => At(v, s)
                              /\ pc'[v] = "attach" => pc[v] = "attach"
                              /\ InTurn(v)' <=> InTurn(v)
        /\ \A v \in Workers : pc'[v] \in {"check", "handler"} =>
              pc[v] \in {"check", "handler"}
    BY <1>1 DEF OnlyAt, ioVars, At, SameWorker, SessionOf, InTurn
  <1>5. mapped'[s]
    BY <1>1, <1>2, OpenMapped DEF PastIntake
  <1>6. CompletionKinds(s)'
    BY <1>1, <1>3, SameKinds
  <1>7. EventsNumbered(s)'
    BY <1>1, <1>2, <1>3, <1>4 DEF EventInvAt, EventsNumbered, Numbered
  <1>8. KeptApart(s)'
    BY <1>3 DEF KeptApart
  <1>9. /\ KeepsDisconnected(s)' => KeepsDisconnected(s)
        /\ \A v \in Workers : AtDisconnected(v, s)' => AtDisconnected(v, s)
    BY <1>1, <1>3, <1>4 DEF KeepsDisconnected, AtDisconnected
  <1>10. OneDisconnected(s)'
    BY <1>2, <1>3, <1>9 DEF EventInvAt, OneDisconnected
  <1>11. DisconnectTaken(s)' => DisconnectTaken(s)
    BY <1>3, <1>9 DEF DisconnectTaken
  <1>12. DisconnectedLast(s)'
    BY <1>1, <1>2, <1>4, <1>11 DEF EventInvAt, DisconnectedLast, SessionOf
  <1>13. TurnOwned(s)'
    BY <1>1, <1>2, <1>3, <1>4 DEF EventInvAt, TurnOwned, SessionOf
  <1>14. NextBounded(s)' /\ MappedOrClosed(s)'
    BY <1>2, <1>3, <1>4, <1>5 DEF EventInvAt, NextBounded, MappedOrClosed
  <1> QED
    BY <1>6, <1>7, <1>8, <1>10, <1>12, <1>13, <1>14, EventsElsewhere
       DEF EventInvAt

LEMMA RetryEvents ==
  ASSUME TurnInv, TypeOK', EventInv, NEW w \in Workers, NEW s \in Sessions,
         SessionOf(w) = s, OnlyAt(w, s), Retry(w)
  PROVE  EventInv'
  <1>1. /\ pc[w] = "retry" /\ mapped' = mapped
        /\ completion' = completion /\ inlined' = inlined
        /\ deferred' = deferred
        /\ pc \in [Workers -> Labels] /\ cur \in [Workers -> Event \cup {NoEvent}]
    BY DEF Retry, completionVars, TurnInv, TypeOK
  <1>2. /\ EventInvAt(s) /\ TypeOK
        /\ state[s] \in SessionSequenceState
    BY DEF EventInv, TurnInv, TypeOK
  <1>3. ASSUME NEW e \in Event \cup {NoEvent}, Continue(w, e)
        PROVE  /\ pc'[w] = (IF e = NoEvent THEN "pop" ELSE "start")
               /\ cur'[w] = e /\ ~InTurn(w) /\ ~InTurn(w)'
    BY <1>1, <1>3 DEF Continue, Goto, InTurn
  <1>4. CASE IsDisconnected(cur[w]) \/ StateOf(w).active \/ StateOf(w).closed
    <2>1. PICK e \in {NoEvent, cur[w]} : Continue(w, e) /\ state' = state
      BY <1>4 DEF Retry
    <2>2. e \in Event \cup {NoEvent}
      BY <1>1
    <2>3. /\ CompletionKinds(s)'
          /\ pc'[w] \notin {"pop", "exited"} =>
                cur'[w] = cur[w] /\ pc'[w] # "attach"
          /\ ~InTurn(w) /\ ~InTurn(w)'
      BY <1>1, <1>3, <2>1, <2>2, SameKinds
    <2> QED
      BY <1>1, <2>1, <2>3, MoveEvents
  <1>5. CASE ~(IsDisconnected(cur[w]) \/ StateOf(w).active \/ StateOf(w).closed)
    <2> DEFINE e == state[s].pending
    <2>1. /\ Continue(w, e)
          /\ state'[s] = [state[s] EXCEPT !.pending = NoEvent]
          /\ e \in Event \cup {NoEvent}
          /\ ~state[s].active /\ ~state[s].closed
          /\ ~IsDisconnected(cur[w])
      BY <1>2, <1>5 DEF Retry, StateOf, TypeOK, SessionSequenceState
    <2>2. /\ pc'[w] = IF e = NoEvent THEN "pop" ELSE "start"
          /\ cur'[w] = e /\ ~InTurn(w) /\ ~InTurn(w)'
          /\ cur'[w] # NoEvent => SessionOf(w)' = s
      BY <1>3, <2>1 DEF OnlyAt
    <2>3. /\ state'[s].parked = state[s].parked
          /\ state'[s].pending = NoEvent
          /\ state'[s].early = state[s].early
          /\ state'[s].closed = state[s].closed
          /\ state'[s].failed = state[s].failed
          /\ state'[s].active = state[s].active
          /\ state'[s].activeDisconnect = state[s].activeDisconnect
          /\ state'[s].awaiting = state[s].awaiting
          /\ state'[s].next = state[s].next
      BY <1>2, <2>1 DEF SessionSequenceState
    <2>4. /\ inbox' = inbox /\ sent' = sent /\ gone' = gone
          /\ \A v \in Workers : At(v, s)' =>
                v = w \/ (SameWorker(v) /\ At(v, s))
          /\ \A v \in Workers : pc'[v] = "attach" => SameWorker(v)
          /\ \A v \in Workers : InTurn(v)' <=> InTurn(v)
          /\ \A v \in Workers : InTurn(v) => SameWorker(v)
      <3>1. \A v \in Workers \ {w} : SameWorker(v)
        BY DEF OnlyAt
      <3>2. pc'[w] \in {"pop", "start"}
        BY <2>2
      <3>3. \A v \in Workers \ {w} : (InTurn(v)' <=> InTurn(v))
        BY <3>1 DEF InTurn, SameWorker
      <3>4. /\ inbox' = inbox /\ sent' = sent /\ gone' = gone
        BY DEF OnlyAt, ioVars
      <3>5. \A v \in Workers \ {w} : At(v, s)' => At(v, s)
        BY <3>1 DEF At, SameWorker, SessionOf
      <3>6. \A v \in Workers : pc'[v] = "attach" => SameWorker(v)
        BY <3>1, <3>2
      <3> QED
        BY <2>2, <3>1, <3>3, <3>4, <3>5, <3>6
    <2>5. At(w, s)' <=> e # NoEvent
      BY <2>2 DEF At
    <2>6. CompletionKinds(s)'
      BY <1>1, <2>3, SameKinds
    <2>7. EventsNumbered(s)'
      BY <1>2, <2>2, <2>3, <2>4, <2>5
         DEF EventInvAt, EventsNumbered, Numbered, SameWorker
    <2>8. KeptApart(s)'
      BY <1>2, <2>3 DEF EventInvAt, KeptApart
    <2>9. /\ KeepsDisconnected(s)' => KeepsDisconnected(s)
          /\ e # NoEvent =>
                /\ ~KeepsDisconnected(s)' /\ KeepsDisconnected(s)
                /\ \A v \in Workers : ~AtDisconnected(v, s)
          /\ \A v \in Workers \ {w} :
                AtDisconnected(v, s)' => AtDisconnected(v, s)
          /\ AtDisconnected(w, s)' => e # NoEvent
      <3>1. e # NoEvent => state[s].parked = {}
        BY <1>2 DEF EventInvAt, KeptApart
      <3> QED
        BY <1>2, <2>3, <2>4, <2>5, <3>1
           DEF KeepsDisconnected, EventInvAt, OneDisconnected, AtDisconnected,
               SameWorker
    <2>10. OneDisconnected(s)'
      BY <1>2, <2>1, <2>3, <2>9 DEF EventInvAt, OneDisconnected
    <2>11. DisconnectTaken(s)' => DisconnectTaken(s)
      BY <2>3, <2>9 DEF DisconnectTaken
    <2>12. DisconnectedLast(s)'
      BY <1>2, <2>4, <2>11
         DEF EventInvAt, DisconnectedLast, SessionOf, SameWorker
    <2>13. TurnOwned(s)'
      BY <1>1, <1>2, <2>3, <2>4
         DEF EventInvAt, TurnOwned, SessionOf, SameWorker
    <2>14. mapped[s]
      BY <1>1, <2>1, OpenMapped DEF PastIntake
    <2>15. NextBounded(s)' /\ MappedOrClosed(s)'
      BY <1>1, <1>2, <2>1, <2>3, <2>4, <2>14
         DEF EventInvAt, NextBounded, MappedOrClosed
    <2> QED
      BY <2>6, <2>7, <2>8, <2>10, <2>12, <2>13, <2>15, EventsElsewhere
         DEF EventInvAt
  <1> QED
    BY <1>4, <1>5

\* The worker gives the turn up and goes on with the completion, if it is there.
LEMMA MarkSessionDeferredEvents ==
  ASSUME TurnInv, TypeOK', EventInv, NEW w \in Workers, NEW s \in Sessions,
         SessionOf(w) = s, OnlyAt(w, s), MarkSessionDeferred(w)
  PROVE  EventInv'
  <1>1. /\ pc[w] = "defer" /\ mapped' = mapped /\ completion' = completion
        /\ inlined'[w] = NoEvent /\ InTurn(w) /\ deferred[w]
        /\ ~IsCompletion(cur[w])
    BY DEF MarkSessionDeferred, completionVars, TurnInv, TypeOK, InTurn,
           DeferralLocal
  <1>2. /\ EventInvAt(s) /\ TypeOK /\ SessionInv(s) /\ At(w, s)
        /\ state[s] \in SessionSequenceState
        /\ state'[s] = [state[s] EXCEPT !.awaiting = TRUE, !.early = NoEvent]
    BY <1>1 DEF EventInv, TurnInv, TypeOK, MarkSessionDeferred, At
  <1>3. /\ state'[s].parked = state[s].parked
        /\ state'[s].pending = state[s].pending
        /\ state'[s].early = NoEvent
        /\ state'[s].closed = state[s].closed
        /\ state'[s].failed = state[s].failed
        /\ state'[s].active = state[s].active
        /\ state'[s].activeDisconnect = state[s].activeDisconnect
        /\ state'[s].awaiting
        /\ state'[s].next = state[s].next
    BY <1>2 DEF SessionSequenceState
  <1>4. /\ pc'[w] \in {"pop", "start"}
        /\ pc'[w] = "start" => IsCompletion(cur'[w])
        /\ ~InTurn(w)'
    <2>1. /\ inlined[w] # NoEvent => IsCompletion(inlined[w])
          /\ state[s].early # NoEvent => IsCompletion(state[s].early)
      BY <1>2 DEF EventInvAt, CompletionKinds
    <2> QED
      BY <1>2, <2>1 DEF MarkSessionDeferred, Continue, Goto, StateOf, TypeOK,
                        InTurn
  <1>5. CompletionKinds(s)'
    BY <1>1, <1>3, SameKinds
  <1>6. /\ sent' = sent /\ gone' = gone
        /\ \A i \in DOMAIN inbox' : inbox'[i].session = s =>
              i + 0 \in DOMAIN inbox /\ inbox'[i] = inbox[i + 0]
        /\ \A v \in Workers : At(v, s)' =>
              \/ IsCompletion(cur'[v])
              \/ /\ At(v, s) /\ cur'[v] = cur[v]
                 /\ pc'[v] = "attach" => pc[v] = "attach"
        /\ \A v \in Workers \ {w} : SameWorker(v)
    <2>1. \A v \in Workers \ {w} : SameWorker(v)
      BY DEF OnlyAt
    <2>2. \A v \in Workers \ {w} : At(v, s)' =>
             /\ At(v, s) /\ cur'[v] = cur[v]
             /\ pc'[v] = "attach" => pc[v] = "attach"
      BY <2>1 DEF At, SameWorker, SessionOf
    <2>3. At(w, s)' => IsCompletion(cur'[w])
      BY <1>4 DEF At
    <2> QED
      BY <1>2, <2>1, <2>2, <2>3, SamePlaces DEF OnlyAt, ioVars
  <1>7. /\ EventsNumbered(s)' /\ KeptApart(s)'
        /\ OneDisconnected(s)' /\ DisconnectedLast(s)'
    <2>1. sent'[s] = sent[s] /\ gone'[s] = gone[s] /\ 0 \in Nat
      BY <1>6
    <2> QED
      BY ZenonT(60), <1>2, <1>3, <1>6, <2>1, KeepPlaces
  <1>8. MappedOrClosed(s)' /\ NextBounded(s)'
    <2>1. ~state[s].closed /\ mapped[s]
      BY <1>1, <1>2 DEF SessionInv, OneTurn
    <2> QED
      BY <1>1, <1>2, <1>3, <1>6, <2>1
         DEF EventInvAt, MappedOrClosed, NextBounded
  <1>9. ~state[s].activeDisconnect
    BY <1>1, <1>2 DEF EventInvAt, TurnOwned, IsDisconnected
  <1>10. \A v \in Workers : ~(InTurn(v)' /\ SessionOf(v)' = s)
    BY <1>1, <1>2, <1>4, <1>6
       DEF SessionInv, OneTurn, InTurn, SameWorker, SessionOf
  <1>11. TurnOwned(s)'
    BY <1>3, <1>9, <1>10 DEF TurnOwned
  <1> QED
    BY <1>5, <1>7, <1>8, <1>11, EventsElsewhere DEF EventInvAt

\* The fields of the state after a turn.
LEMMA AfterTurnFields ==
  ASSUME NEW q \in SessionSequenceState, NEW e
  PROVE  LET r == AfterTurn(q, e) IN
         /\ ~r.active /\ ~r.awaiting /\ r.next = q.next + 1
         /\ r.failed = q.failed /\ r.early = q.early
         /\ r.activeDisconnect = q.activeDisconnect
         /\ r.closed = (q.closed \/ q.activeDisconnect)
         /\ r.parked = q.parked \ {e}
         /\ r.pending = IF q.failed /\ ~q.activeDisconnect
                        THEN NoEvent ELSE q.pending
  BY DEF AfterTurn, SessionSequenceState

LEMMA CompleteSessionTurnEvents ==
  ASSUME TurnInv, TypeOK', EventInv, NEW w \in Workers, NEW s \in Sessions,
         SessionOf(w) = s, OnlyAt(w, s), CompleteSessionTurn(w)
  PROVE  EventInv'
  <1>1. /\ pc[w] = "complete" /\ completion' = completion
        /\ inlined' = inlined /\ InTurn(w) /\ At(w, s)
    BY DEF CompleteSessionTurn, completionVars, InTurn, At
  <1>2. /\ EventInvAt(s) /\ TypeOK /\ SessionInv(s)
        /\ state[s] \in SessionSequenceState
    BY DEF EventInv, TurnInv, TypeOK
  <1>3. PICK e \in Event \cup {NoEvent} :
            /\ Handover(state[s], e) /\ Continue(w, e)
            /\ state' = [state EXCEPT ![s] = AfterTurn(state[s], e)]
            /\ mapped' = [mapped EXCEPT ![s] = @ /\ ~state[s].activeDisconnect]
    BY <1>2, CompleteEffect
  <1>4. /\ pc'[w] = (IF e = NoEvent THEN "pop" ELSE "start")
        /\ cur'[w] = e /\ ~InTurn(w)'
        /\ mapped'[s] = (mapped[s] /\ ~state[s].activeDisconnect)
        /\ state'[s] = AfterTurn(state[s], e)
    BY <1>2, <1>3 DEF Continue, Goto, InTurn, TypeOK
  <1>5. /\ ~state'[s].active /\ ~state'[s].awaiting
        /\ state'[s].next = state[s].next + 1
        /\ state'[s].failed = state[s].failed
        /\ state'[s].early = state[s].early
        /\ state'[s].activeDisconnect = state[s].activeDisconnect
        /\ state'[s].closed = (state[s].closed \/ state[s].activeDisconnect)
        /\ state'[s].parked = state[s].parked \ {e}
        /\ state'[s].pending =
              IF state[s].failed /\ ~state[s].activeDisconnect
              THEN NoEvent ELSE state[s].pending
    BY <1>2, <1>4, AfterTurnFields
  <1>6. /\ state[s].active /\ ~state[s].closed /\ mapped[s]
        /\ state[s].activeDisconnect <=> AtDisconnected(w, s)
        /\ \A v \in Workers : InTurn(v) /\ SessionOf(v) = s => v = w
    BY <1>1, <1>2 DEF SessionInv, OneTurn, EventInvAt, TurnOwned, AtDisconnected
  <1>7. /\ inbox' = inbox /\ sent' = sent /\ gone' = gone
        /\ \A v \in Workers \ {w} : SameWorker(v)
        /\ \A v \in Workers : At(v, s)' =>
              (v = w /\ e # NoEvent) \/ (SameWorker(v) /\ At(v, s))
        /\ \A v \in Workers : pc'[v] = "attach" => SameWorker(v)
    <2>1. \A v \in Workers \ {w} : SameWorker(v)
      BY DEF OnlyAt
    <2>2. pc'[w] \in {"pop", "start"} /\ (pc'[w] = "start" => e # NoEvent)
      BY <1>4
    <2>3. inbox' = inbox /\ sent' = sent /\ gone' = gone
      BY DEF OnlyAt, ioVars
    <2>4. \A v \in Workers \ {w} : At(v, s)' => At(v, s)
      BY <2>1 DEF At, SameWorker, SessionOf
    <2>5. At(w, s)' => e # NoEvent
      BY <2>2 DEF At
    <2>6. \A v \in Workers : pc'[v] = "attach" => SameWorker(v)
      BY <2>1, <2>2
    <2> QED
      BY <2>1, <2>3, <2>4, <2>5, <2>6
  <1>8. CompletionKinds(s)'
    BY <1>1, <1>5, SameKinds
  <1>9. e # NoEvent =>
            /\ e \in state[s].parked \/ e = state[s].pending
            /\ Numbered(s, e) /\ ~state[s].activeDisconnect
    BY <1>2, <1>3 DEF Handover, EventInvAt, EventsNumbered
  <1>10. EventsNumbered(s)'
    BY <1>2, <1>4, <1>5, <1>7, <1>9
       DEF EventInvAt, EventsNumbered, Numbered, SameWorker
  <1>11. KeptApart(s)'
    BY <1>2, <1>5 DEF EventInvAt, KeptApart
  <1>12. /\ \A v \in Workers \ {w} : AtDisconnected(v, s)' =>
               AtDisconnected(v, s)
         /\ AtDisconnected(w, s)' => e # NoEvent /\ IsDisconnected(e)
    <2>1. AtDisconnected(w, s)' => e # NoEvent /\ IsDisconnected(e)
      BY <1>4 DEF AtDisconnected, At
    <2> QED
      BY <1>7, <2>1 DEF AtDisconnected, SameWorker
  <1>13. KeepsDisconnected(s)' => KeepsDisconnected(s)
    BY <1>5 DEF KeepsDisconnected
  <1>14. e # NoEvent /\ IsDisconnected(e) =>
            KeepsDisconnected(s) /\ ~KeepsDisconnected(s)'
    <2>1. ASSUME e # NoEvent, IsDisconnected(e), ~state[s].failed
          PROVE  KeepsDisconnected(s) /\ ~KeepsDisconnected(s)'
      <3>1. /\ e \in state[s].parked /\ state[s].pending = NoEvent
        BY <1>2, <1>9, <2>1 DEF EventInvAt, KeptApart
      <3>2. \A d \in state[s].parked : IsDisconnected(d) => d = e
        BY <1>2, <2>1, <3>1
           DEF EventInvAt, KeptApart, EventsNumbered, Numbered
      <3> QED
        BY <1>5, <2>1, <3>1, <3>2 DEF KeepsDisconnected
    <2>2. ASSUME e # NoEvent, state[s].failed
          PROVE  KeepsDisconnected(s) /\ ~KeepsDisconnected(s)'
      BY <1>2, <1>5, <1>9, <2>2 DEF EventInvAt, KeptApart, KeepsDisconnected
    <2> QED
      BY <2>1, <2>2
  <1>15. OneDisconnected(s)'
    <2>1. CASE state[s].activeDisconnect
      <3>1. e = NoEvent /\ AtDisconnected(w, s)
        BY <1>6, <1>9, <2>1
      <3> QED
        BY <1>2, <1>12, <1>13, <3>1 DEF EventInvAt, OneDisconnected
    <2>2. CASE ~state[s].activeDisconnect
      BY <1>2, <1>5, <1>6, <1>12, <1>13, <1>14, <2>2
         DEF EventInvAt, OneDisconnected
    <2> QED
      BY <2>1, <2>2
  <1>16. DisconnectTaken(s)' => DisconnectTaken(s)
    BY <1>5, <1>6, <1>12, <1>13, <1>14 DEF DisconnectTaken
  <1>17. DisconnectedLast(s)'
    BY <1>2, <1>7, <1>16
       DEF EventInvAt, DisconnectedLast, SessionOf, SameWorker
  <1>18. TurnOwned(s)'
    <2>1. \A v \in Workers : ~(InTurn(v)' /\ SessionOf(v)' = s)
      BY <1>4, <1>6, <1>7 DEF InTurn, SameWorker, SessionOf
    <2> QED
      BY <1>5, <2>1 DEF TurnOwned
  <1>19. MappedOrClosed(s)'
    BY <1>4, <1>5, <1>6 DEF MappedOrClosed
  <1>20. NextBounded(s)'
    <2>1. state[s].next \in Nat /\ sent[s] \in Nat
      BY <1>2, WorkerPoolAssumption DEF TypeOK, SessionSequenceState
    <2>2. CASE state[s].activeDisconnect
      BY <1>2, <1>5, <1>6, <1>7, <2>1, <2>2 DEF EventInvAt, NextBounded
    <2>3. CASE ~state[s].activeDisconnect
      <3>1. ~state'[s].closed /\ sent' = sent
        BY <1>5, <1>6, <1>7, <2>3
      <3>2. state[s].next < sent[s]
        BY <1>2, <1>6, <2>3 DEF EventInvAt, NextBounded
      <3>3. state'[s].next = state[s].next + 1 /\ ~state'[s].active
        BY <1>5
      <3> QED
        BY <2>1, <3>1, <3>2, <3>3 DEF NextBounded
    <2> QED
      BY <2>2, <2>3
  <1> QED
    BY <1>8, <1>10, <1>11, <1>15, <1>17, <1>18, <1>19, <1>20, EventsElsewhere
       DEF EventInvAt

\* The head of the inbox becomes the event of a worker.  No other worker is in
\* intake: a packet that left the inbox before the Disconnected is past it.
LEMMA PopEvents ==
  ASSUME TurnInv, TypeOK', EventInv, NEW w \in Workers, Pop(w)
  PROVE  EventInv'
  <1>1. /\ Head(inbox) \in Event /\ Head(inbox) = inbox[1]
        /\ 1 \in DOMAIN inbox
        /\ \A i \in DOMAIN inbox' : /\ i \in Nat /\ i >= 1
                                    /\ i + 1 \in DOMAIN inbox
                                    /\ inbox'[i] = inbox[i + 1]
    BY DEF Pop, TurnInv, TypeOK
  <1>2. /\ pc[w] = "pop" /\ pc'[w] = "attach" /\ cur'[w] = inbox[1]
        /\ \A v \in Workers \ {w} : SameWorker(v)
        /\ \A v \in Workers : pc[v] # "attach"
        /\ UNCHANGED <<state, mapped, sent, gone, completion, pushing>>
        /\ deferred' = deferred /\ inlined' = inlined
    BY <1>1 DEF Pop, Goto, SameWorker, TurnInv, TypeOK, IntakeFree,
                sessionVars, completionVars, ioVars
  <1>3. TypeOK /\ ~deferred[w] /\ inlined[w] = NoEvent
    BY <1>2 DEF TurnInv, DeferralLocal
  <1>4. \A v \in Workers : InTurn(v)' <=> InTurn(v)
    BY <1>2 DEF InTurn, SameWorker
  <1>5. \A v \in Workers : InTurn(v) => SameWorker(v)
    BY <1>2 DEF InTurn
  <1>6. ASSUME NEW s \in Sessions PROVE EventInvAt(s)'
    <2>1. EventInvAt(s)
      BY DEF EventInv
    <2>2. \A i \in DOMAIN inbox' : inbox'[i].session = s =>
              i + 1 \in DOMAIN inbox /\ inbox'[i] = inbox[i + 1]
      BY <1>1
    <2>3. \A v \in Workers \ {w} : At(v, s)' =>
              At(v, s) /\ cur'[v] = cur[v] /\ pc'[v] # "attach"
      BY <1>2 DEF At, SameWorker, SessionOf
    <2>4. CompletionKinds(s)'
      BY <1>2, <1>3, <2>1, <2>3 DEF EventInvAt, CompletionKinds
    <2>5. TurnOwned(s)' /\ NextBounded(s)' /\ MappedOrClosed(s)'
      BY <1>2, <1>4, <1>5, <2>1
         DEF EventInvAt, TurnOwned, NextBounded, MappedOrClosed, SameWorker,
             SessionOf
    <2>6. CASE inbox[1].session # s \/ IsCompletion(inbox[1])
      <3>1. At(w, s)' => IsCompletion(cur'[w])
        BY <1>2, <2>6 DEF At, SessionOf
      <3>2. /\ EventsNumbered(s)' /\ KeptApart(s)'
            /\ OneDisconnected(s)' /\ DisconnectedLast(s)'
        BY <1>2, <1>3, <2>1, <2>2, <2>3, <3>1, KeepPlaces
      <3> QED
        BY <2>4, <2>5, <3>2 DEF EventInvAt
    <2>7. CASE inbox[1].session = s /\ ~IsCompletion(inbox[1])
      <3>1. /\ Numbered(s, inbox[1])
            /\ ~DisconnectTaken(s)
        BY <1>1, <2>1, <2>7 DEF EventInvAt, EventsNumbered, DisconnectedLast
      <3>2. EventsNumbered(s)'
        BY <1>2, <2>1, <2>2, <2>3, <3>1
           DEF EventInvAt, EventsNumbered, Numbered
      <3>3. KeepsDisconnected(s)' = KeepsDisconnected(s)
        BY <1>2 DEF KeepsDisconnected
      <3>4. /\ \A v \in Workers : AtDisconnected(v, s)' => v = w
            /\ AtDisconnected(w, s)' => IsDisconnected(inbox[1])
            /\ ~state[s].closed /\ ~KeepsDisconnected(s)
        BY <1>2, <2>3, <3>1 DEF DisconnectTaken, AtDisconnected
      <3>5. KeptApart(s)' /\ OneDisconnected(s)'
        BY <1>2, <2>1, <3>3, <3>4 DEF EventInvAt, KeptApart, OneDisconnected
      <3>6. DisconnectTaken(s)' => IsDisconnected(inbox[1])
        BY <1>2, <3>3, <3>4 DEF DisconnectTaken
      <3>7. \A i, j \in DOMAIN inbox' : i < j => i + 1 < j + 1
        BY <1>1
      <3>8. \A j \in DOMAIN inbox' : 1 < j + 1
        BY <1>1
      <3>9. \A v \in Workers : pc'[v] = "attach" => cur'[v] = inbox[1]
        BY <1>2 DEF SameWorker
      <3>10. DisconnectedLast(s)'
        <4>1. \A i, j \in DOMAIN inbox' :
                (/\ i < j /\ inbox'[i].session = s /\ inbox'[j].session = s
                 /\ IsDisconnected(inbox'[i])) => IsCompletion(inbox'[j])
          BY <2>1, <2>2, <3>7 DEF EventInvAt, DisconnectedLast
        <4>2. ASSUME IsDisconnected(inbox[1])
              PROVE  /\ gone[s]
                     /\ \A i \in DOMAIN inbox' : inbox'[i].session = s =>
                            IsCompletion(inbox'[i])
                     /\ \A v \in Workers : pc'[v] = "attach" =>
                            cur'[v].kind # "Packet"
          <5>1. gone[s]
            BY <3>1, <4>2 DEF Numbered
          <5>2. \A i \in DOMAIN inbox' : inbox'[i].session = s =>
                    IsCompletion(inbox'[i])
            BY <1>1, <2>1, <2>2, <2>7, <3>8, <4>2
               DEF EventInvAt, DisconnectedLast
          <5> QED
            BY <3>9, <4>2, <5>1, <5>2 DEF IsDisconnected
        <4> QED
          BY <1>2, <3>6, <4>1, <4>2 DEF DisconnectedLast
      <3> QED
        BY <2>4, <2>5, <3>2, <3>5, <3>10 DEF EventInvAt
    <2> QED
      BY <2>6, <2>7
  <1> QED
    BY <1>6 DEF EventInv

\* Steps that concern no session: no event is moved.
LEMMA IdleEvents ==
  ASSUME TurnInv, TypeOK', EventInv,
         UNCHANGED <<cur, deferred, inlined, state, mapped, sent, gone,
                     completion, pushing, inbox>>,
         \A v \in Workers :
             pc'[v] = pc[v] \/ (pc[v] = "pop" /\ pc'[v] = "exited")
  PROVE  EventInv'
  <1>1. ASSUME NEW s \in Sessions PROVE EventInvAt(s)'
    <2>1. EventInvAt(s) /\ TypeOK
      BY DEF EventInv, TurnInv
    <2>2. \A i \in DOMAIN inbox' : inbox'[i].session = s =>
              i + 0 \in DOMAIN inbox /\ inbox'[i] = inbox[i + 0]
      BY <2>1, SamePlaces
    <2>3. \A v \in Workers : At(v, s)' =>
              /\ At(v, s) /\ cur'[v] = cur[v]
              /\ pc'[v] = "attach" => pc[v] = "attach"
      BY DEF At, SessionOf
    <2>4. CompletionKinds(s)'
      BY <2>1, <2>3 DEF EventInvAt, CompletionKinds
    <2>5. \A v \in Workers : InTurn(v) /\ SessionOf(v) = s =>
              InTurn(v)' /\ SessionOf(v)' = s
      BY DEF InTurn, SessionOf
    <2>6. \A v \in Workers : InTurn(v)' /\ SessionOf(v)' = s =>
             /\ InTurn(v) /\ SessionOf(v) = s
             /\ IsCompletion(cur[v]) => pc'[v] \notin {"check", "handler"}
             /\ deferred'[v] => cur[v].kind = "Packet"
      BY <2>1 DEF InTurn, SessionOf, EventInvAt, TurnOwned
    <2> QED
      BY <2>1, <2>2, <2>3, <2>4, <2>5, <2>6, KeepEvents
  <1> QED
    BY <1>1 DEF EventInv

LEMMA ControlEvents ==
  ASSUME TurnInv, TypeOK', EventInv,
         \/ IoPop \/ BeginStop \/ ForceStop \/ ForceCloseInbox
         \/ ForceCloseOutbox \/ UNCHANGED vars
         \/ \E w \in Workers : PopFailed(w)
  PROVE  EventInv'
  <1> USE DEF queues, sessionVars, ioVars, completionVars, workerVars, locals
  <1>1. CASE \E w \in Workers : PopFailed(w)
    BY SMTT(40), <1>1, IdleEvents DEF PopFailed, Jump, Goto, shared, TurnInv, TypeOK
  <1>2. CASE ~ \E w \in Workers : PopFailed(w)
    BY <1>2, IdleEvents DEF IoPop, BeginStop, ForceStop, ForceCloseInbox,
                     ForceCloseOutbox, vars, shared
  <1> QED
    BY <1>1, <1>2

\* The inbox grows by an event at its end.
LEMMA AppendedEvents ==
  ASSUME TypeOK, TypeOK', NEW s \in Sessions, EventInvAt(s), NEW e \in Event,
         inbox' = Append(inbox, e),
         UNCHANGED <<pc, cur, deferred, inlined, state, mapped>>,
         CompletionKinds(s)',
         e.session = s => \/ IsCompletion(e)
                          \/ ~gone[s] /\ Numbered(s, e)',
         gone'[s] = gone[s] \/ ~gone[s],
         sent'[s] = sent[s] \/ (~gone[s] /\ sent'[s] = sent[s] + 1)
  PROVE  EventInvAt(s)'
  <1>1. \A i \in DOMAIN inbox' :
            \/ i \in DOMAIN inbox /\ inbox'[i] = inbox[i]
            \/ i = Len(inbox) + 1 /\ inbox'[i] = e
    BY SMTT(40) DEF TypeOK
  <1>3. /\ sent[s] \in Nat /\ sent'[s] \in Nat /\ sent'[s] >= sent[s]
        /\ gone[s] => sent'[s] = sent[s]
        /\ gone[s] \in BOOLEAN /\ gone'[s] \in BOOLEAN
        /\ gone[s] => gone'[s]
        /\ state[s].next \in Nat
    <2>1. /\ sent[s] \in 0..MaxEvents /\ sent'[s] \in 0..MaxEvents
          /\ gone[s] \in BOOLEAN /\ gone'[s] \in BOOLEAN
          /\ state[s].next \in Nat
      BY DEF TypeOK, SessionSequenceState
    <2> QED
      BY <2>1, WorkerPoolAssumption
  <1>4. \A d \in Event : Numbered(s, d) => Numbered(s, d)'
    <2>1. \A d \in Event : d.sequence \in Nat
      BY WorkerPoolAssumption DEF Event
    <2> QED
      BY <1>3, <2>1 DEF Numbered
  <1>5. /\ \A i \in DOMAIN inbox : inbox[i] \in Event
        /\ \A v \in Workers : At(v, s) => cur[v] \in Event
        /\ state[s].parked \subseteq Event
        /\ state[s].pending \in Event \cup {NoEvent}
    BY SMTT(40) DEF TypeOK, SessionSequenceState, At
  <1>6. \A v \in Workers : At(v, s)' = At(v, s)
    BY DEF At, SessionOf
  <1>7. EventsNumbered(s)'
    <2>1. \A i \in DOMAIN inbox' : inbox'[i].session = s =>
              Numbered(s, inbox[i])'
      <3>1. e.session = s => Numbered(s, e)'
        BY DEF Numbered, IsCompletion, IsDisconnected
      <3> QED
        BY <1>1, <1>4, <1>5, <3>1 DEF EventInvAt, EventsNumbered, Numbered
    <2>2. \A v \in Workers : At(v, s)' => Numbered(s, cur[v])'
      BY <1>4, <1>5, <1>6 DEF EventInvAt, EventsNumbered, Numbered
    <2>3. /\ \A d \in state'[s].parked : Numbered(s, d)'
          /\ (state[s].pending # NoEvent => Numbered(s, state[s].pending))'
      BY <1>4, <1>5 DEF EventInvAt, EventsNumbered, Numbered
    <2> QED
      BY <2>1, <2>2, <2>3 DEF EventsNumbered, Numbered
  <1>8. /\ KeepsDisconnected(s)' = KeepsDisconnected(s)
        /\ \A v \in Workers : AtDisconnected(v, s)' = AtDisconnected(v, s)
    BY <1>6 DEF KeepsDisconnected, AtDisconnected
  <1>9. KeptApart(s)' /\ OneDisconnected(s)' /\ MappedOrClosed(s)'
    BY <1>8 DEF EventInvAt, KeptApart, OneDisconnected, MappedOrClosed
  <1>10. \A v \in Workers : InTurn(v)' = InTurn(v) /\ SessionOf(v)' = SessionOf(v)
    BY DEF InTurn, SessionOf
  <1>11. TurnOwned(s)'
    BY <1>10 DEF EventInvAt, TurnOwned
  <1>12. DisconnectTaken(s) => gone[s]
    BY DEF EventInvAt, DisconnectedLast
  <1>13. \A i \in DOMAIN inbox :
             inbox[i].session = s /\ IsDisconnected(inbox[i]) => gone[s]
    BY DEF EventInvAt, EventsNumbered, Numbered
  <1>14. DisconnectTaken(s)' = DisconnectTaken(s)
    BY <1>8 DEF DisconnectTaken
  <1>15. DisconnectedLast(s)'
    <2>1. ASSUME NEW i \in DOMAIN inbox', NEW j \in DOMAIN inbox',
                 i < j, inbox'[i].session = s, inbox'[j].session = s,
                 IsDisconnected(inbox'[i])
          PROVE  IsCompletion(inbox'[j])
      <3>1. j \in Nat /\ j <= Len(inbox) + 1 /\ i \in Nat
        BY SMTT(40) DEF TypeOK
      <3>2. i \in DOMAIN inbox /\ inbox'[i] = inbox[i] /\ gone[s]
        BY <1>1, <1>13, <2>1, <3>1
      <3> QED
        BY <1>1, <2>1, <3>2 DEF EventInvAt, DisconnectedLast
    <2>2. ASSUME DisconnectTaken(s)
          PROVE  /\ gone'[s]
                 /\ \A i \in DOMAIN inbox' : inbox'[i].session = s =>
                        IsCompletion(inbox'[i])
                 /\ \A v \in Workers : pc[v] = "attach" /\ SessionOf(v) = s =>
                        cur[v].kind # "Packet"
      BY <1>1, <1>3, <1>12, <2>2 DEF EventInvAt, DisconnectedLast
    <2> QED
      BY <1>14, <2>1, <2>2 DEF DisconnectedLast, SessionOf
  <1>16. NextBounded(s)'
    <2>1. state[s].closed => gone[s]
      BY <1>12 DEF DisconnectTaken
    <2>2. state[s].active /\ state[s].activeDisconnect => gone[s]
      <3>1. SUFFICES ASSUME state[s].active, state[s].activeDisconnect
                     PROVE  gone[s]
        OBVIOUS
      <3>2. PICK v \in Workers : InTurn(v) /\ SessionOf(v) = s
        BY <3>1 DEF EventInvAt, TurnOwned
      <3>3. AtDisconnected(v, s)
        BY <3>1, <3>2 DEF EventInvAt, TurnOwned, AtDisconnected, At, InTurn
      <3> QED
        BY <1>12, <3>3 DEF DisconnectTaken
    <2> QED
      BY <1>3, <2>1, <2>2 DEF EventInvAt, NextBounded
  <1> QED
    BY <1>7, <1>9, <1>11, <1>15, <1>16 DEF EventInvAt

\* Where a worker is when it takes a step.
LEMMA RunAtPop ==
  ASSUME NEW w \in Workers, Run(w), pc[w] = "pop"
  PROVE  Pop(w) \/ PopFailed(w)
  BY DEF Run, Attach, Abandon, Discard, DiscardDrain, ParkEvent, ParkCompletion,
         ParkDisconnected, Reject, StartTurn, ResumeTurn, SkipFailed,
         EnterHandler, Defer, HandlerReturns, HandlerThrows, MarkSessionFailed,
         AlreadyFailed, PublishOutbound, PublishRefused, Published, Retry,
         MarkSessionDeferred, CompleteSessionTurn, Starting, Publishing, Cutting

LEMMA RunAtSession ==
  ASSUME TurnInv, NEW w \in Workers, Run(w), pc[w] # "pop"
  PROVE  \E s \in Sessions : SessionOf(w) = s
  <1>1. pc[w] # "exited"
    BY DEF Run, Pop, PopFailed, Attach, Abandon, Discard, DiscardDrain,
           ParkEvent, ParkCompletion, ParkDisconnected, Reject, StartTurn,
           ResumeTurn, SkipFailed, EnterHandler, Defer, HandlerReturns,
           HandlerThrows, MarkSessionFailed, AlreadyFailed, PublishOutbound,
           PublishRefused, Published, Retry, MarkSessionDeferred,
           CompleteSessionTurn, Starting, Publishing, Cutting
  <1> QED
    BY <1>1, CurrentType DEF TurnInv

LEMMA CompleterEvents ==
  ASSUME TurnInv, TypeOK', EventInv, NEW s \in Sessions, Completer(s)
  PROVE  EventInv'
  <1> USE DEF queues, sessionVars, ioVars, completionVars, workerVars, locals
  <1>1. UNCHANGED <<pc, cur, deferred, inlined, state, mapped, sent, gone>>
    BY DEF Completer, Complete, PushCompletion, PushCompletionRefused
  <1>2. ASSUME NEW t \in Sessions PROVE CompletionKinds(t)'
    <2>1. /\ CompletionKinds(t) /\ pushing \in [Sessions -> Event \cup {NoEvent}]
          /\ completion \in [Sessions -> DeferredCompletionState]
      BY DEF EventInv, EventInvAt, TurnInv, TypeOK
    <2>2. /\ pushing'[t] # NoEvent => IsCompletion(pushing'[t])
          /\ completion'[t].inline # NoEvent =>
                IsCompletion(completion'[t].inline)
      <3>1. CASE Complete(s)
        <4>1. PICK failure \in BOOLEAN :
            IF completion[s].returned
            THEN /\ pushing' = [pushing EXCEPT ![s] = CompletionOf(s, failure)]
                 /\ completion' = [completion EXCEPT ![s] =
                                      [@ EXCEPT !.completed = TRUE]]
            ELSE /\ completion' = [completion EXCEPT ![s] =
                                      [@ EXCEPT !.completed = TRUE,
                                        !.inline = CompletionOf(s, failure)]]
                 /\ UNCHANGED pushing
          BY <3>1 DEF Complete
        <4>2. IsCompletion(CompletionOf(s, failure))
          BY DEF IsCompletion, CompletionOf
        <4>3. /\ pushing'[t] \in {pushing[t], CompletionOf(s, failure)}
              /\ completion'[t].inline \in
                    {completion[t].inline, CompletionOf(s, failure)}
          <5>1. CASE t = s
            <6>1. completion[s] \in DeferredCompletionState
              BY <2>1
            <6> HIDE DEF CompletionOf
            <6> QED
              BY ZenonT(60), <2>1, <4>1, <5>1, <6>1 DEF DeferredCompletionState
          <5>2. CASE t # s
            BY <2>1, <4>1, <5>2
          <5> QED
            BY <5>1, <5>2
        <4> QED
          BY <2>1, <4>2, <4>3 DEF CompletionKinds
      <3>2. CASE PushCompletion(s) \/ PushCompletionRefused(s)
        <4>1. completion' = completion /\ pushing'[t] \in {pushing[t], NoEvent}
          BY <2>1, <3>2 DEF PushCompletion, PushCompletionRefused
        <4> QED
          BY <2>1, <4>1 DEF CompletionKinds
      <3> QED
        BY <3>1, <3>2 DEF Completer
    <2> QED
      BY <1>1, <2>1, <2>2 DEF CompletionKinds, At, SessionOf
  <1>3. CASE inbox' = inbox
    <2>1. ASSUME NEW t \in Sessions PROVE EventInvAt(t)'
      <3>1. EventInvAt(t) /\ TypeOK
        BY DEF EventInv, TurnInv
      <3>2. \A i \in DOMAIN inbox' : inbox'[i].session = t =>
                i + 0 \in DOMAIN inbox /\ inbox'[i] = inbox[i + 0]
        BY <1>3, <3>1, SamePlaces
      <3>3. /\ \A v \in Workers : At(v, t)' =>
                  /\ At(v, t) /\ cur'[v] = cur[v]
                  /\ pc'[v] = "attach" => pc[v] = "attach"
            /\ \A v \in Workers : InTurn(v) /\ SessionOf(v) = t =>
                  InTurn(v)' /\ SessionOf(v)' = t
            /\ \A v \in Workers : InTurn(v)' /\ SessionOf(v)' = t =>
                 /\ InTurn(v) /\ SessionOf(v) = t
                 /\ IsCompletion(cur[v]) => pc'[v] \notin {"check", "handler"}
                 /\ deferred'[v] => cur[v].kind = "Packet"
        <4>1. \A v \in Workers : InTurn(v) /\ SessionOf(v) = t =>
                 /\ IsCompletion(cur[v]) => pc[v] \notin {"check", "handler"}
                 /\ deferred[v] => cur[v].kind = "Packet"
          BY <3>1 DEF EventInvAt, TurnOwned
        <4> QED
          BY <1>1, <4>1 DEF At, InTurn, SessionOf
      <3>4. CompletionKinds(t)'
        BY <1>2
      <3> QED
        BY <1>1, <3>1, <3>2, <3>3, <3>4, KeepEvents
    <2> QED
      BY <2>1 DEF EventInv
  <1>4. CASE PushCompletion(s)
    <2>1. PICK e \in Event : IsCompletion(e) /\ inbox' = Append(inbox, e)
      BY <1>4 DEF PushCompletion, TurnInv, TypeOK, EventInv, EventInvAt,
                  CompletionKinds
    <2>2. ASSUME NEW t \in Sessions PROVE EventInvAt(t)'
      <3>1. EventInvAt(t) /\ TypeOK
        BY DEF EventInv, TurnInv
      <3>2. CompletionKinds(t)'
        BY <1>2
      <3> QED
        BY <1>1, <2>1, <3>1, <3>2, AppendedEvents
    <2> QED
      BY <2>2 DEF EventInv
  <1> QED
    BY <1>3, <1>4 DEF Completer, Complete, PushCompletionRefused

LEMMA ProducerEvents ==
  ASSUME TurnInv, TypeOK', EventInv, NEW s \in Sessions, Producer(s)
  PROVE  EventInv'
  <1> USE DEF sessionVars, completionVars, workerVars, locals
  <1>1. /\ TypeOK /\ sent[s] \in 0..MaxEvents /\ sent[s] \in Nat
        /\ sent \in [Sessions -> 0..MaxEvents] /\ gone \in [Sessions -> BOOLEAN]
    <2>1. /\ TypeOK /\ sent[s] \in 0..MaxEvents
          /\ sent \in [Sessions -> 0..MaxEvents]
          /\ gone \in [Sessions -> BOOLEAN]
      BY DEF TurnInv, TypeOK
    <2> QED
      BY <2>1, WorkerPoolAssumption
  <1>2. PICK e \in Event :
            /\ e.session = s /\ ~gone[s] /\ inbox' = Append(inbox, e)
            /\ UNCHANGED <<pc, cur, deferred, inlined, state, mapped,
                           completion, pushing>>
            /\ \/ e.kind = "Packet" /\ e.sequence < sent'[s]
               \/ IsDisconnected(e) /\ e.sequence = sent'[s] /\ gone'[s]
            /\ \A t \in Sessions \ {s} : sent'[t] = sent[t] /\ gone'[t] = gone[t]
            /\ sent'[s] = sent[s] \/ sent'[s] = sent[s] + 1
    <2> DEFINE e(k, q) == [kind |-> k, session |-> s, sequence |-> q,
                           failed |-> FALSE]
    <2>1. \A k \in {"Packet", "Disconnected"} : \A q \in 0..MaxEvents :
              e(k, q) \in Event
      BY DEF Event, Kinds
    <2>2. CASE EnqueuePacket(s)
      <3>1. e("Packet", sent[s]) \in Event
        BY <1>1, <2>1
      <3> QED
        BY <1>1, <2>2, <3>1 DEF EnqueuePacket, Enqueue
    <2>3. CASE EnqueueDuplicate(s)
      <3>1. PICK q \in 0..MaxEvents : q < sent[s] /\ Enqueue(s, "Packet", q)
        BY <2>3 DEF EnqueueDuplicate
      <3>2. e("Packet", q) \in Event
        BY <2>1
      <3> QED
        BY <2>3, <3>1, <3>2 DEF EnqueueDuplicate, Enqueue
    <2>4. CASE EnqueueDisconnected(s)
      <3>1. e("Disconnected", sent[s]) \in Event
        BY <1>1, <2>1
      <3> QED
        BY <1>1, <2>4, <3>1 DEF EnqueueDisconnected, Enqueue, IsDisconnected
    <2> QED
      BY <2>2, <2>3, <2>4 DEF Producer
  <1>3. ASSUME NEW t \in Sessions PROVE EventInvAt(t)'
    <2>1. EventInvAt(t)
      BY DEF EventInv
    <2>2. CompletionKinds(t)'
      BY <1>2, <2>1 DEF EventInvAt, CompletionKinds, At, SessionOf
    <2>3. CASE t = s
      <3>1. Numbered(s, e)'
        BY <1>2 DEF Numbered, IsDisconnected
      <3> QED
        BY <1>1, <1>2, <2>1, <2>2, <2>3, <3>1, AppendedEvents
    <2>4. CASE t # s
      BY <1>1, <1>2, <2>1, <2>2, <2>4, AppendedEvents
    <2> QED
      BY <2>3, <2>4
  <1> QED
    BY <1>3 DEF EventInv

LEMMA InitEvents == Init => EventInv
  <1> SUFFICES ASSUME Init, NEW s \in Sessions PROVE EventInvAt(s)
    BY DEF EventInv
  <1>1. /\ \A w \in Workers : pc[w] = "pop"
        /\ inbox = <<>> /\ state[s] = FreshState /\ ~mapped[s]
        /\ sent[s] = 0 /\ pushing[s] = NoEvent /\ completion[s].inline = NoEvent
        /\ \A i \in DOMAIN inbox : FALSE
    BY DEF Init
  <1>2. /\ state[s].parked = {} /\ state[s].pending = NoEvent
        /\ state[s].early = NoEvent /\ ~state[s].closed /\ ~state[s].active
        /\ ~state[s].awaiting /\ state[s].next = 0 /\ ~state[s].failed
    BY <1>1 DEF FreshState
  <1>3. \A w \in Workers : ~At(w, s) /\ ~InTurn(w) /\ ~AtDisconnected(w, s)
    BY <1>1 DEF At, InTurn, AtDisconnected
  <1>4. ~KeepsDisconnected(s) /\ ~DisconnectTaken(s)
    BY <1>2, <1>3 DEF KeepsDisconnected, DisconnectTaken
  <1>5. EventsNumbered(s) /\ CompletionKinds(s) /\ KeptApart(s)
    BY <1>1, <1>2, <1>3 DEF EventsNumbered, CompletionKinds, KeptApart
  <1>6. OneDisconnected(s) /\ DisconnectedLast(s)
    BY <1>1, <1>3, <1>4 DEF OneDisconnected, DisconnectedLast
  <1>7. MappedOrClosed(s) /\ TurnOwned(s) /\ NextBounded(s)
    BY <1>1, <1>2, <1>3 DEF MappedOrClosed, TurnOwned, NextBounded
  <1> QED
    BY <1>5, <1>6, <1>7 DEF EventInvAt

LEMMA RunEvents ==
  ASSUME TurnInv, TypeOK', EventInv, NEW w \in Workers, Run(w)
  PROVE  EventInv'
  <1>1. CASE pc[w] = "pop"
    <2>1. Pop(w) \/ PopFailed(w)
      BY <1>1, RunAtPop
    <2> QED
      BY <2>1, PopEvents, ControlEvents
  <1>2. CASE pc[w] # "pop"
    <2>1. ~Pop(w) /\ ~PopFailed(w)
      BY <1>2 DEF Pop, PopFailed
    <2>2. PICK s \in Sessions : SessionOf(w) = s
      BY <1>2, RunAtSession
    <2>3. OnlyAt(w, s)
      BY <1>2, <2>2, WorkerFrame
    <2> QED
      BY <2>1, <2>2, <2>3, AttachEvents, JumpEvents, HandlerEvents, ParkEvents,
         TurnStartEvents, MarkSessionFailedEvents, RetryEvents,
         MarkSessionDeferredEvents, CompleteSessionTurnEvents DEF Run
  <1> QED
    BY <1>1, <1>2

LEMMA NextEvents == TurnInv /\ EventInv /\ [Next]_vars => EventInv'
  <1> SUFFICES ASSUME TurnInv, EventInv, [Next]_vars PROVE EventInv'
    OBVIOUS
  <1>1. TypeOK'
    BY NextType DEF TurnInv
  <1>2. ASSUME NEW w \in Workers, Run(w) PROVE EventInv'
    BY <1>1, <1>2, RunEvents
  <1>3. ASSUME NEW s \in Sessions, Completer(s) \/ Producer(s) PROVE EventInv'
    BY <1>1, <1>3, CompleterEvents, ProducerEvents
  <1>4. CASE \/ IoPop \/ BeginStop \/ ForceStop \/ ForceCloseInbox
             \/ ForceCloseOutbox \/ UNCHANGED vars
    BY <1>1, <1>4, ControlEvents
  <1> QED
    BY <1>2, <1>3, <1>4 DEF Next

-----------------------------------------------------------------------------
(* What there is of a session, and what is counted of it.                   *)

\* The fields of a state that say how far the session is.
Progress(q) ==
    <<q.next, q.active, q.activeDisconnect, q.awaiting, q.failed, q.closed>>

\* Which steps of a worker change them.
LEMMA ProgressKept ==
  ASSUME TurnInv, EventInv, NEW w \in Workers, NEW s \in Sessions,
         SessionOf(w) = s, pc[w] # "pop", Run(w),
         ~StartTurn(w), ~MarkSessionFailed(w), ~MarkSessionDeferred(w),
         ~CompleteSessionTurn(w)
  PROVE  Progress(state'[s]) = Progress(state[s]) /\ outstanding' = outstanding
  <1>1. /\ state \in [Sessions -> SessionSequenceState]
        /\ state[s] \in SessionSequenceState
    BY DEF TurnInv, TypeOK
  <1>2. CASE Attach(w)
    BY <1>2, AttachKeepsState DEF Attach
  <1>3. CASE ParkEvent(w) \/ ParkCompletion(w) \/ ParkDisconnected(w)
    <2>1. PICK q : /\ state'[s] = q /\ outstanding' = outstanding
                   /\ \/ q = [state[s] EXCEPT !.parked = @ \cup {cur[w]}]
                      \/ q = [state[s] EXCEPT !.early = cur[w]]
                      \/ q = [state[s] EXCEPT !.pending = cur[w]]
      BY <1>1, <1>3 DEF ParkEvent, ParkCompletion, ParkDisconnected, Park, StateOf
    <2> QED
      BY <1>1, <2>1 DEF Progress, SessionSequenceState
  <1>4. CASE Retry(w)
    <2>1. /\ outstanding' = outstanding
          /\ \/ state'[s] = [state[s] EXCEPT !.pending = NoEvent]
             \/ state'[s] = state[s]
      BY <1>1, <1>4 DEF Retry
    <2> QED
      BY <1>1, <2>1 DEF Progress, SessionSequenceState
  <1>5. CASE ~Attach(w) /\ ~ParkEvent(w) /\ ~ParkCompletion(w)
             /\ ~ParkDisconnected(w) /\ ~Retry(w)
    <2>1. state' = state /\ outstanding' = outstanding
      BY <1>5 DEF Run, Pop, PopFailed, Abandon, Discard, DiscardDrain, Reject,
                  ResumeTurn, SkipFailed, EnterHandler, Defer, HandlerReturns,
                  HandlerThrows, AlreadyFailed, PublishOutbound, PublishRefused,
                  Published, Jump, shared, sessionVars
    <2> QED
      BY <2>1
  <1> QED
    BY <1>2, <1>3, <1>4, <1>5

\* How the others change them.
LEMMA ProgressMade ==
  ASSUME TurnInv, EventInv, NEW w \in Workers, NEW s \in Sessions,
         SessionOf(w) = s
  PROVE  /\ StartTurn(w) =>
               /\ ~state[s].active /\ ~state[s].awaiting
               /\ ~state[s].closed /\ ~IsCompletion(cur[w])
               /\ state'[s].next = cur[w].sequence /\ state'[s].active
               /\ ~state[s].failed => state[s].next = cur[w].sequence
               /\ state'[s].activeDisconnect = IsDisconnected(cur[w])
               /\ state'[s].awaiting = state[s].awaiting
               /\ state'[s].failed = state[s].failed
               /\ state'[s].closed = state[s].closed
         /\ MarkSessionFailed(w) =>
               /\ ~state[s].failed /\ state'[s].failed
               /\ state'[s].next = state[s].next
               /\ state'[s].active = state[s].active
               /\ state'[s].activeDisconnect = state[s].activeDisconnect
               /\ state'[s].awaiting = state[s].awaiting
               /\ state'[s].closed = state[s].closed
         /\ MarkSessionDeferred(w) =>
               /\ ~state[s].awaiting /\ state'[s].awaiting
               /\ state'[s].next = state[s].next
               /\ state'[s].active = state[s].active
               /\ state'[s].activeDisconnect = state[s].activeDisconnect
               /\ state'[s].failed = state[s].failed
               /\ state'[s].closed = state[s].closed
         /\ CompleteSessionTurn(w) =>
               /\ state[s].active /\ ~state'[s].active /\ ~state'[s].awaiting
               /\ state[s].awaiting <=> IsCompletion(cur[w])
               /\ state'[s].next = state[s].next + 1
               /\ state'[s].activeDisconnect = state[s].activeDisconnect
               /\ state'[s].failed = state[s].failed
               /\ ~state[s].closed
               /\ state'[s].closed <=> state[s].activeDisconnect
  <1>1. /\ state \in [Sessions -> SessionSequenceState] /\ TypeOK
        /\ state[s] \in SessionSequenceState /\ SessionInv(s) /\ EventInvAt(s)
    BY DEF TurnInv, TypeOK, EventInv
  <1>2. ASSUME StartTurn(w)
        PROVE  /\ ~state[s].active /\ ~state[s].awaiting
               /\ ~state[s].closed /\ ~IsCompletion(cur[w])
               /\ state'[s].next = cur[w].sequence /\ state'[s].active
               /\ ~state[s].failed => state[s].next = cur[w].sequence
               /\ state'[s].activeDisconnect = IsDisconnected(cur[w])
               /\ state'[s].awaiting = state[s].awaiting
               /\ state'[s].failed = state[s].failed
               /\ state'[s].closed = state[s].closed
    <2>1. /\ state'[s] = [state[s] EXCEPT !.next = cur[w].sequence,
                              !.active = TRUE,
                              !.activeDisconnect = IsDisconnected(cur[w])]
          /\ TurnFree(cur[w], state[s])
      BY <1>1, <1>2 DEF StartTurn, StateOf
    <2> QED
      BY <1>1, <2>1 DEF SessionSequenceState, TurnFree, SessionInv,
                        CompletionActive
  <1>3. ASSUME MarkSessionFailed(w)
        PROVE  /\ ~state[s].failed /\ state'[s].failed
               /\ state'[s].next = state[s].next
               /\ state'[s].active = state[s].active
               /\ state'[s].activeDisconnect = state[s].activeDisconnect
               /\ state'[s].awaiting = state[s].awaiting
               /\ state'[s].closed = state[s].closed
    <2>1. state'[s] = Failed(state[s]) /\ ~state[s].failed
      BY <1>1, <1>3 DEF MarkSessionFailed, StateOf
    <2> QED
      BY <1>1, <2>1, FailedKeeps, FailedPending
  <1>4. ASSUME MarkSessionDeferred(w)
        PROVE  /\ ~state[s].awaiting /\ state'[s].awaiting
               /\ state'[s].next = state[s].next
               /\ state'[s].active = state[s].active
               /\ state'[s].activeDisconnect = state[s].activeDisconnect
               /\ state'[s].failed = state[s].failed
               /\ state'[s].closed = state[s].closed
    <2>1. state'[s] = [state[s] EXCEPT !.awaiting = TRUE, !.early = NoEvent]
      BY <1>1, <1>4 DEF MarkSessionDeferred
    <2>2. ~state[s].awaiting
      BY <1>4, TurnInvExcludes DEF MarkSessionDeferred, DeferIsLegal, StateOf
    <2> QED
      BY <1>1, <2>1, <2>2 DEF SessionSequenceState
  <1>5. ASSUME CompleteSessionTurn(w)
        PROVE  /\ state[s].active /\ ~state'[s].active /\ ~state'[s].awaiting
               /\ state[s].awaiting <=> IsCompletion(cur[w])
               /\ state'[s].next = state[s].next + 1
               /\ state'[s].activeDisconnect = state[s].activeDisconnect
               /\ state'[s].failed = state[s].failed
               /\ ~state[s].closed
               /\ state'[s].closed <=> state[s].activeDisconnect
    <2>1. PICK e : state' = [state EXCEPT ![s] = AfterTurn(state[s], e)]
      BY <1>1, <1>5, CompleteEffect
    <2>2. state'[s] = AfterTurn(state[s], e)
      BY <1>1, <2>1
    <2>3. InTurn(w)
      BY <1>5 DEF CompleteSessionTurn, InTurn
    <2>4. /\ state[s].active /\ ~state[s].closed
          /\ state[s].awaiting <=> IsCompletion(cur[w])
      BY <1>1, <2>3
         DEF SessionInv, OneTurn, FirstTurn, EventInvAt, TurnOwned
    <2>5. /\ ~state'[s].active /\ ~state'[s].awaiting
          /\ state'[s].next = state[s].next + 1
          /\ state'[s].activeDisconnect = state[s].activeDisconnect
          /\ state'[s].failed = state[s].failed
          /\ state'[s].closed = (state[s].closed \/ state[s].activeDisconnect)
      BY <1>1, <2>2, AfterTurnFields
    <2> QED
      BY <2>4, <2>5
  <1> QED
    BY <1>2, <1>3, <1>4, <1>5

-----------------------------------------------------------------------------
Awaiting == {s \in Sessions : state[s].awaiting}

LEMMA OutstandingStep ==
  TurnInv /\ EventInv /\ OutstandingExact /\ [Next]_vars => OutstandingExact'
  <1> SUFFICES ASSUME TurnInv, EventInv, OutstandingExact, [Next]_vars
               PROVE  OutstandingExact'
    OBVIOUS
  <1>1. TypeOK /\ TypeOK'
    BY NextType DEF TurnInv
  <1>2. IsFiniteSet(Awaiting) /\ outstanding = Cardinality(Awaiting)
    BY WorkerPoolAssumption, FS_Subset DEF Awaiting, OutstandingExact
  <1>3. ASSUME outstanding' = outstanding,
               \A s \in Sessions : state'[s].awaiting = state[s].awaiting
        PROVE  OutstandingExact'
    <2>1. Awaiting' = Awaiting
      BY <1>3 DEF Awaiting
    <2> QED
      BY <1>2, <1>3, <2>1 DEF OutstandingExact, Awaiting
  <1>4. ASSUME NEW w \in Workers, Run(w) PROVE OutstandingExact'
    <2>1. CASE pc[w] = "pop"
      <3>1. state' = state /\ outstanding' = outstanding
        BY <1>4, <2>1, RunAtPop DEF Pop, PopFailed, Jump, shared, sessionVars
      <3> QED
        BY <1>3, <3>1
    <2>2. CASE pc[w] # "pop"
      <3>1. PICK s \in Sessions : SessionOf(w) = s
        BY <1>4, <2>2, RunAtSession
      <3>2. \A t \in Sessions \ {s} : state'[t] = state[t]
        BY <1>1, <1>4, <2>2, <3>1, WorkerFrame DEF OnlyAt
      <3>3. CASE MarkSessionDeferred(w)
        <4>1. ~state[s].awaiting /\ state'[s].awaiting
          BY <3>1, <3>3, ProgressMade
        <4>2. Awaiting' = Awaiting \cup {s} /\ s \notin Awaiting
          BY <3>2, <4>1 DEF Awaiting
        <4>3. Cardinality(Awaiting') = Cardinality(Awaiting) + 1
          BY <1>2, <4>2, FS_AddElement
        <4>4. outstanding' = outstanding + 1
          BY <3>3 DEF MarkSessionDeferred
        <4> QED
          BY <1>2, <4>3, <4>4 DEF OutstandingExact, Awaiting
      <3>4. CASE CompleteSessionTurn(w) /\ IsCompletion(cur[w])
        <4>1. state[s].awaiting /\ ~state'[s].awaiting
          BY <3>1, <3>4, ProgressMade
        <4>2. Awaiting' = Awaiting \ {s} /\ s \in Awaiting
          BY <3>2, <4>1 DEF Awaiting
        <4>3. /\ Cardinality(Awaiting') = Cardinality(Awaiting) - 1
              /\ Cardinality(Awaiting') \in Nat
          <5>1. IsFiniteSet(Awaiting')
            BY <1>2, <4>2, FS_RemoveElement
          <5> QED
            BY <1>2, <4>2, <5>1, FS_RemoveElement, FS_CardinalityType
        <4>4. outstanding > 0 /\ outstanding \in Nat
          BY <1>1, <1>2, <4>3 DEF TypeOK
        <4>5. outstanding' = outstanding - 1
          BY <3>4, <4>4 DEF CompleteSessionTurn, OutstandingAfter
        <4> QED
          BY <1>2, <4>3, <4>5 DEF OutstandingExact, Awaiting
      <3>5. CASE CompleteSessionTurn(w) /\ ~IsCompletion(cur[w])
        <4>1. ~state[s].awaiting /\ ~state'[s].awaiting
          BY <3>1, <3>5, ProgressMade
        <4>2. Awaiting' = Awaiting
          BY <3>2, <4>1 DEF Awaiting
        <4>3. outstanding' = outstanding
          BY <3>5 DEF CompleteSessionTurn, OutstandingAfter
        <4> QED
          BY <1>2, <4>2, <4>3 DEF OutstandingExact, Awaiting
      <3>6. CASE StartTurn(w) \/ MarkSessionFailed(w)
        <4>1. state'[s].awaiting = state[s].awaiting
          BY <3>1, <3>6, ProgressMade
        <4>2. outstanding' = outstanding
          BY <3>6 DEF StartTurn, MarkSessionFailed
        <4> QED
          BY <1>3, <3>2, <4>1, <4>2
      <3>7. CASE ~StartTurn(w) /\ ~MarkSessionFailed(w)
                 /\ ~MarkSessionDeferred(w) /\ ~CompleteSessionTurn(w)
        <4>1. state'[s].awaiting = state[s].awaiting /\ outstanding' = outstanding
          BY <1>4, <2>2, <3>1, <3>7, ProgressKept DEF Progress
        <4> QED
          BY <1>3, <3>2, <4>1
      <3> QED
        BY <3>3, <3>4, <3>5, <3>6, <3>7
    <2> QED
      BY <2>1, <2>2
  <1>5. CASE \E s \in Sessions : Completer(s) \/ Producer(s)
    BY <1>3, <1>5 DEF Completer, Complete, PushCompletion, PushCompletionRefused,
       Producer, EnqueuePacket, EnqueueDuplicate, EnqueueDisconnected, Enqueue,
       sessionVars
  <1>6. CASE \/ IoPop \/ BeginStop \/ ForceStop \/ ForceCloseInbox
             \/ ForceCloseOutbox \/ UNCHANGED vars
    BY <1>3, <1>6 DEF IoPop, BeginStop, ForceStop, ForceCloseInbox,
       ForceCloseOutbox, sessionVars, vars, shared
  <1> QED
    BY <1>4, <1>5, <1>6 DEF Next

\* Only markSessionFailed leads to a cut, and only publishing one counts it.
LEMMA OtherLabels ==
  ASSUME TypeOK, NEW w \in Workers, Run(w), ~MarkSessionFailed(w),
         ~PublishOutbound(w), ~PublishRefused(w)
  PROVE  cuts' = cuts /\ pc'[w] \notin {"rejectCut", "brokenCut"}
  <1> USE DEF Goto, Jump, Continue, history, shared
  <1>1. pc \in [Workers -> Labels]
    BY DEF TypeOK
  <1>2. CASE \/ Pop(w) \/ PopFailed(w) \/ Attach(w) \/ Abandon(w)
             \/ Discard(w) \/ DiscardDrain(w) \/ ParkEvent(w)
             \/ ParkCompletion(w) \/ ParkDisconnected(w) \/ Reject(w)
    BY <1>1, <1>2 DEF Pop, PopFailed, Attach, Abandon, Discard, DiscardDrain,
                      ParkEvent, ParkCompletion, ParkDisconnected, Reject, Park
  <1>3. CASE \/ StartTurn(w) \/ ResumeTurn(w) \/ SkipFailed(w)
             \/ EnterHandler(w) \/ Defer(w) \/ HandlerReturns(w)
             \/ HandlerThrows(w)
    BY <1>1, <1>3 DEF StartTurn, ResumeTurn, SkipFailed, EnterHandler, Defer,
                      HandlerReturns, HandlerThrows
  <1>4. CASE AlreadyFailed(w)
    BY <1>1, <1>4 DEF AlreadyFailed
  <1>5. CASE Published(w)
    BY <1>1, <1>5 DEF Published, Publishing, Cutting
  <1>6. CASE Retry(w)
    BY <1>1, <1>6 DEF Retry
  <1>7. CASE MarkSessionDeferred(w) \/ CompleteSessionTurn(w)
    BY <1>1, <1>7 DEF MarkSessionDeferred, CompleteSessionTurn
  <1> QED
    BY <1>2, <1>3, <1>4, <1>5, <1>6, <1>7 DEF Run

-----------------------------------------------------------------------------
CutsInv == \A s \in Sessions : CutInv(s)

LEMMA KeepCut ==
  ASSUME TypeOK, NEW s \in Sessions, CutInv(s),
         state'[s].failed = state[s].failed, cuts'[s] = cuts[s],
         \A v \in Workers : Cutting(v)' /\ SessionOf(v)' = s =>
             /\ Cutting(v) /\ SessionOf(v) = s
             /\ left'[v] = left[v] \/ left'[v] = 0
  PROVE  CutInv(s)'
  <1>1. cuts[s] \in Nat /\ \A v \in Workers : left[v] \in Nat
    BY WorkerPoolAssumption DEF TypeOK, Batch
  <1> QED
    BY <1>1 DEF CutInv

LEMMA CutStep ==
  TurnInv /\ EventInv /\ CutsInv /\ [Next]_vars => CutsInv'
  <1> SUFFICES ASSUME TurnInv, EventInv, CutsInv, [Next]_vars PROVE CutsInv'
    OBVIOUS
  <1>1. TypeOK /\ TypeOK'
    BY NextType DEF TurnInv
  <1>2. ASSUME state' = state, cuts' = cuts, UNCHANGED <<pc, cur, left>>
        PROVE  CutsInv'
    BY <1>1, <1>2, KeepCut DEF CutsInv, Cutting, SessionOf
  <1>3. ASSUME NEW w \in Workers, Run(w) PROVE CutsInv'
    <2>1. CASE pc[w] = "pop"
      <3>1. /\ state' = state /\ cuts' = cuts /\ left' = left
            /\ \A v \in Workers \ {w} : pc'[v] = pc[v] /\ cur'[v] = cur[v]
            /\ pc'[w] \in {"attach", "exited"}
        BY <1>1, <1>3, <2>1, RunAtPop DEF Pop, PopFailed, Jump, Goto, shared,
           locals, sessionVars, history, TypeOK
      <3> QED
        BY <1>1, <3>1, KeepCut DEF CutsInv, Cutting, SessionOf
    <2>2. CASE pc[w] # "pop"
      <3>1. PICK s \in Sessions : SessionOf(w) = s
        BY <1>3, <2>2, RunAtSession
      <3>2. OnlyAt(w, s) /\ CutInv(s)
        BY <1>1, <1>3, <2>2, <3>1, WorkerFrame DEF CutsInv
      <3>3. ASSUME NEW t \in Sessions \ {s} PROVE CutInv(t)'
        <4>1. \A v \in Workers : Cutting(v)' /\ SessionOf(v)' = t =>
                  Cutting(v) /\ SessionOf(v) = t /\ left'[v] = left[v]
          BY <3>2 DEF OnlyAt, Cutting, SessionOf, SameWorker
        <4> QED
          BY <1>1, <3>2, <4>1, KeepCut DEF OnlyAt, CutsInv
      <3>4. /\ cuts[s] \in Nat /\ left[w] \in Nat /\ left'[w] \in Nat
        BY <1>1, WorkerPoolAssumption DEF TypeOK, Batch
      <3>5. \A v \in Workers \ {w} : Cutting(v)' /\ SessionOf(v)' = s =>
                Cutting(v) /\ SessionOf(v) = s /\ left'[v] = left[v]
        BY <3>2 DEF OnlyAt, Cutting, SessionOf, SameWorker
      <3>6. CASE MarkSessionFailed(w)
        <4>1. ~state[s].failed /\ state'[s].failed
          BY <3>1, <3>6, ProgressMade
        <4>2. left'[w] = 1 /\ cuts' = cuts
          BY <1>1, <3>6 DEF MarkSessionFailed, TypeOK, history
        <4> QED
          BY <3>2, <3>3, <3>5, <4>1, <4>2 DEF CutInv, CutsInv
      <3>7. CASE PublishOutbound(w) /\ Cutting(w)
        <4>1. /\ state' = state /\ pc' = pc /\ cur' = cur
              /\ left'[w] = left[w] - 1 /\ cuts'[s] = cuts[s] + 1
              /\ left[w] > 0 /\ Cutting(w)' /\ SessionOf(w)' = s
          BY <1>1, <3>1, <3>7
             DEF PublishOutbound, sessionVars, TypeOK, Cutting, SessionOf
        <4>2. \A v \in Workers : Cutting(v)' /\ SessionOf(v)' = s => v = w
          BY <3>1, <3>2, <3>5, <3>7 DEF CutInv
        <4>3. state[s].failed /\ left[w] + cuts[s] <= 1
          BY <3>1, <3>2, <3>7 DEF CutInv
        <4>4. CutInv(s)'
          BY <3>4, <4>1, <4>2, <4>3 DEF CutInv
        <4> QED
          BY <3>3, <4>4 DEF CutsInv
      <3>8. CASE ~MarkSessionFailed(w) /\ ~(PublishOutbound(w) /\ Cutting(w))
        <4>1. state'[s].failed = state[s].failed
          BY <1>3, <2>2, <3>1, <3>8, ProgressKept, ProgressMade DEF Progress
        <4>2. CASE PublishOutbound(w) \/ PublishRefused(w)
          <5>1. /\ pc' = pc /\ cur' = cur /\ cuts'[s] = cuts[s]
                /\ Cutting(w) => left'[w] = 0
            BY <1>1, <3>1, <3>8, <4>2
               DEF PublishOutbound, PublishRefused, TypeOK, history
          <5>2. \A v \in Workers : Cutting(v)' /\ SessionOf(v)' = s =>
                   /\ Cutting(v) /\ SessionOf(v) = s
                   /\ left'[v] = left[v] \/ left'[v] = 0
            BY <3>5, <5>1 DEF Cutting, SessionOf
          <5> QED
            BY <1>1, <3>2, <3>3, <4>1, <5>1, <5>2, KeepCut DEF CutsInv
        <4>3. CASE ~PublishOutbound(w) /\ ~PublishRefused(w)
          <5>1. cuts' = cuts /\ pc'[w] \notin {"rejectCut", "brokenCut"}
            BY <1>1, <1>3, <2>2, <3>8, <4>3, OtherLabels DEF history
          <5>2. \A v \in Workers : Cutting(v)' /\ SessionOf(v)' = s =>
                   /\ Cutting(v) /\ SessionOf(v) = s
                   /\ left'[v] = left[v] \/ left'[v] = 0
            BY <3>5, <5>1 DEF Cutting
          <5> QED
            BY <1>1, <3>2, <3>3, <4>1, <5>1, <5>2, KeepCut DEF CutsInv
        <4> QED
          BY <4>2, <4>3
      <3> QED
        BY <3>6, <3>7, <3>8
    <2> QED
      BY <2>1, <2>2
  <1>4. CASE \E s \in Sessions : Completer(s) \/ Producer(s)
    BY <1>2, <1>4 DEF Completer, Complete, PushCompletion, PushCompletionRefused,
       Producer, EnqueuePacket, EnqueueDuplicate, EnqueueDisconnected, Enqueue,
       sessionVars, history, workerVars, locals
  <1>5. CASE \/ IoPop \/ BeginStop \/ ForceStop \/ ForceCloseInbox
             \/ ForceCloseOutbox \/ UNCHANGED vars
    BY <1>2, <1>5 DEF IoPop, BeginStop, ForceStop, ForceCloseInbox,
       ForceCloseOutbox, sessionVars, vars, shared, history, workerVars, locals
  <1> QED
    BY <1>3, <1>4, <1>5 DEF Next

-----------------------------------------------------------------------------
(* The order of what is handled and sent.                                   *)

HandledInOrderAt(s) ==
    \A i \in DOMAIN handled[s] :
        LET e == handled[s][i] IN
        /\ e.kind = "Packet" => e.sequence = i - 1
        /\ IsDisconnected(e) => /\ i = Len(handled[s])
                                /\ e.sequence = i - 1 \/ state[s].failed

HandledAt(s) == HandledInOrderAt(s) /\ HandledInv(s)

\* The worker has entered the handler in its turn, or skipped it.
PastCheck(w) == InTurn(w) /\ pc[w] # "check"

\* A step after which as many turns of the session were entered.
LEMMA KeepHandled ==
  ASSUME NEW s \in Sessions, HandledAt(s), handled'[s] = handled[s],
         Progress(state'[s]) = Progress(state[s]),
         Entered(s)' <=> Entered(s)
  PROVE  HandledAt(s)'
  <1>1. /\ state'[s].next = state[s].next
        /\ state'[s].active = state[s].active
        /\ state'[s].activeDisconnect = state[s].activeDisconnect
        /\ state'[s].failed = state[s].failed
        /\ state'[s].closed = state[s].closed
    BY DEF Progress
  <1>2. HandledInOrderAt(s)'
    BY <1>1 DEF HandledAt, HandledInOrderAt
  <1>3. HandledInv(s)'
    BY <1>1 DEF HandledAt, HandledInv
  <1> QED
    BY <1>2, <1>3 DEF HandledAt

\* Whether the turn was entered, in a step of a worker.
LEMMA EnteredFrame ==
  ASSUME NEW w \in Workers, NEW s \in Sessions, NEW t \in Sessions,
         SessionOf(w) = s, OnlyAt(w, s),
         state'[t].awaiting = state[t].awaiting,
         t = s => (PastCheck(w)' <=> PastCheck(w))
  PROVE  Entered(t)' <=> Entered(t)
  <1>1. \A v \in Workers : PastCheck(v) /\ SessionOf(v) = t <=>
            PastCheck(v)' /\ SessionOf(v)' = t
    BY DEF OnlyAt, PastCheck, InTurn, SameWorker, SessionOf
  <1> QED
    BY <1>1 DEF Entered, PastCheck

\* No step but these begins, enters or ends a turn.
LEMMA PastCheckKept ==
  ASSUME TurnInv, NEW w \in Workers, Run(w), ~EnterHandler(w), ~SkipFailed(w),
         ~ResumeTurn(w), ~MarkSessionDeferred(w), ~CompleteSessionTurn(w)
  PROVE  PastCheck(w)' <=> PastCheck(w)
  <1> USE DEF PastCheck, InTurn, Goto, Jump, Continue, Starting
  <1>1. pc \in [Workers -> Labels]
    BY DEF TurnInv, TypeOK
  <1>2. CASE \/ Pop(w) \/ PopFailed(w) \/ Attach(w) \/ Abandon(w)
             \/ Discard(w) \/ DiscardDrain(w) \/ ParkEvent(w)
             \/ ParkCompletion(w) \/ ParkDisconnected(w) \/ Reject(w)
             \/ StartTurn(w)
    BY <1>1, <1>2 DEF Pop, PopFailed, Attach, Abandon, Discard, DiscardDrain,
       ParkEvent, ParkCompletion, ParkDisconnected, Reject, Park, StartTurn
  <1>3. CASE \/ Defer(w) \/ HandlerReturns(w) \/ HandlerThrows(w)
    BY <1>1, <1>3 DEF Defer, HandlerReturns, HandlerThrows
  <1>4. CASE AlreadyFailed(w) \/ MarkSessionFailed(w)
    BY <1>1, <1>4 DEF AlreadyFailed, MarkSessionFailed
  <1>5. CASE Published(w)
    BY <1>1, <1>5 DEF Published, Publishing, Cutting
  <1>6. CASE Retry(w)
    BY <1>1, <1>6 DEF Retry
  <1>7. CASE PublishOutbound(w) \/ PublishRefused(w)
    BY <1>1, <1>7 DEF PublishOutbound, PublishRefused
  <1> QED
    BY <1>2, <1>3, <1>4, <1>5, <1>6, <1>7 DEF Run

\* Without the turn of its session a worker finds it not entered only if nobody
\* else has it.
LEMMA EnteredAlone ==
  ASSUME TurnInv, EventInv, NEW w \in Workers, NEW s \in Sessions,
         SessionOf(w) = s, InTurn(w)
  PROVE  /\ Entered(s) <=> (state[s].awaiting \/ pc[w] # "check")
         /\ state[s].awaiting <=> IsCompletion(cur[w])
         /\ pc[w] \in {"check", "handler"} => ~state[s].awaiting
         /\ state[s].active /\ ~state[s].closed
         /\ state[s].next = cur[w].sequence
         /\ state[s].activeDisconnect <=> IsDisconnected(cur[w])
  BY DEF TurnInv, EventInv, SessionInv, EventInvAt, OneTurn, FirstTurn,
         TurnOwned, Entered

LEMMA RunHandled ==
  ASSUME TurnInv, TypeOK', TurnInv', EventInv, NEW w \in Workers,
         NEW s \in Sessions, SessionOf(w) = s, pc[w] # "pop", Run(w),
         HandledAt(s)
  PROVE  HandledAt(s)'
  <1>1. OnlyAt(w, s)
    BY WorkerFrame
  <1>2. /\ pc \in [Workers -> Labels] /\ handled \in [Sessions -> Seq(Event)]
        /\ handled[s] \in Seq(Event) /\ Len(handled[s]) \in Nat
        /\ state[s].next \in Nat
    BY SMTT(40) DEF TurnInv, TypeOK, SessionSequenceState
  <1>3. CASE EnterHandler(w)
    <2>1. /\ pc[w] = "check" /\ InTurn(w) /\ state' = state
          /\ handled'[s] = Append(handled[s], cur[w])
          /\ pc'[w] = "handler" /\ cur' = cur
          /\ IsDisconnected(cur[w]) \/ ~state[s].failed
      BY <1>2, <1>3 DEF EnterHandler, InTurn, sessionVars, Goto, StateOf
    <2>2. /\ ~Entered(s) /\ ~IsCompletion(cur[w]) /\ state[s].active
          /\ ~state[s].closed /\ state[s].next = cur[w].sequence
          /\ state[s].activeDisconnect <=> IsDisconnected(cur[w])
      BY <2>1, EnteredAlone
    <2>3. Entered(s)'
      BY <2>1 DEF Entered, InTurn, SessionOf
    <2>4. \A i \in DOMAIN handled[s] : ~IsDisconnected(handled[s][i])
      BY <2>2 DEF HandledAt, HandledInv
    <2>5. /\ Len(handled'[s]) = Len(handled[s]) + 1
          /\ \A i \in DOMAIN handled'[s] :
                \/ i \in DOMAIN handled[s] /\ handled'[s][i] = handled[s][i]
                \/ i = Len(handled[s]) + 1 /\ handled'[s][i] = cur[w]
      <3>1. cur[w] \in Event
        BY <2>1, CurrentType DEF TurnInv
      <3> QED
        BY <1>2, <2>1, <3>1
    <2>6. ~state[s].failed => Len(handled[s]) = cur[w].sequence
      <3>1. ~state[s].failed => Len(handled[s]) = state[s].next + 0
        BY <2>2 DEF HandledAt, HandledInv
      <3> QED
        BY <1>2, <2>2, <3>1
    <2>7. HandledInOrderAt(s)'
      <3>1. ASSUME NEW i \in DOMAIN handled'[s]
            PROVE  /\ handled'[s][i].kind = "Packet" =>
                          handled'[s][i].sequence = i - 1
                   /\ IsDisconnected(handled'[s][i]) =>
                          /\ i = Len(handled'[s])
                          /\ handled'[s][i].sequence = i - 1 \/ state'[s].failed
        <4>1. CASE i \in DOMAIN handled[s] /\ handled'[s][i] = handled[s][i]
          BY <2>4, <4>1 DEF HandledAt, HandledInOrderAt
        <4>2. CASE i = Len(handled[s]) + 1 /\ handled'[s][i] = cur[w]
          <5>1. cur[w].kind = "Packet" => ~state[s].failed
            BY <2>1 DEF IsDisconnected
          <5>2. i - 1 = Len(handled[s])
            BY <1>2, <4>2
          <5> QED
            BY <2>1, <2>5, <2>6, <4>2, <5>1, <5>2
        <4> QED
          BY <2>5, <4>1, <4>2
      <3> QED
        BY <3>1 DEF HandledInOrderAt
    <2>8. HandledInv(s)'
      <3>1. ~state[s].failed => Len(handled[s]) = state[s].next
        BY <2>2, <2>6
      <3> QED
        BY <2>1, <2>2, <2>3, <2>4, <2>5, <3>1
           DEF HandledAt, HandledInv
    <2> QED
      BY <2>7, <2>8 DEF HandledAt
  <1>4. ASSUME ~EnterHandler(w) PROVE handled' = handled
    BY <1>4 DEF Run, Pop, PopFailed, Attach, Abandon, Discard, DiscardDrain,
           ParkEvent, ParkCompletion, ParkDisconnected, Park, Reject, StartTurn,
           ResumeTurn, SkipFailed, Defer, HandlerReturns,
           HandlerThrows, MarkSessionFailed, AlreadyFailed, PublishOutbound,
           PublishRefused, Published, Retry, MarkSessionDeferred,
           CompleteSessionTurn, Jump, shared, history
  <1>5. CASE SkipFailed(w)
    <2>1. /\ pc[w] = "check" /\ InTurn(w) /\ state' = state
          /\ state[s].failed \/ state[s].closed
      BY <1>2, <1>5 DEF SkipFailed, InTurn, shared, sessionVars, Jump, Goto,
                        StateOf
    <2>2. ~Entered(s) /\ ~state[s].closed
      BY <2>1, EnteredAlone
    <2>3. handled' = handled
      BY <1>4, <1>5, <2>1 DEF SkipFailed, EnterHandler, StateOf
    <2>4. \A i \in DOMAIN handled[s] : ~IsDisconnected(handled[s][i])
      BY <2>2 DEF HandledAt, HandledInv
    <2> QED
      BY <2>1, <2>2, <2>3, <2>4
         DEF HandledAt, HandledInOrderAt, HandledInv
  <1>6. CASE StartTurn(w)
    <2>1. /\ ~state[s].active /\ ~state[s].awaiting /\ ~state[s].closed
          /\ ~state[s].failed => state'[s].next = state[s].next
          /\ state'[s].failed = state[s].failed
          /\ state'[s].awaiting = state[s].awaiting
      BY <1>6, ProgressMade
    <2>2. ~Entered(s)
      BY <2>1 DEF Entered, TurnInv, SessionInv, OneTurn
    <2>3. handled' = handled /\ pc'[w] = "check" /\ pc[w] = "start"
      BY <1>2, <1>6 DEF StartTurn, Starting, history, Goto
    <2>4. Entered(s)' <=> Entered(s)
      <3>1. PastCheck(w)' <=> PastCheck(w)
        BY <2>3 DEF PastCheck, InTurn
      <3> QED
        BY <1>1, <2>1, <3>1, EnteredFrame
    <2>5. \A i \in DOMAIN handled[s] : ~IsDisconnected(handled[s][i])
      BY <2>1 DEF HandledAt, HandledInv
    <2> QED
      BY <2>1, <2>2, <2>3, <2>4, <2>5
         DEF HandledAt, HandledInOrderAt, HandledInv
  <1>7. CASE MarkSessionFailed(w)
    <2>1. /\ state'[s].failed
          /\ state'[s].active = state[s].active
          /\ state'[s].activeDisconnect = state[s].activeDisconnect
          /\ state'[s].awaiting = state[s].awaiting
          /\ state'[s].closed = state[s].closed
      BY <1>7, ProgressMade
    <2>2. handled' = handled
      BY <1>7 DEF MarkSessionFailed, history
    <2>3. Entered(s)' <=> Entered(s)
      <3>1. PastCheck(w)' <=> PastCheck(w)
        BY <1>2, <1>7 DEF PastCheck, InTurn, MarkSessionFailed, Goto
      <3> QED
        BY <1>1, <2>1, <3>1, EnteredFrame
    <2> QED
      BY <2>1, <2>2, <2>3 DEF HandledAt, HandledInOrderAt, HandledInv
  <1>8. CASE MarkSessionDeferred(w)
    <2>1. /\ state'[s].next = state[s].next
          /\ state'[s].active = state[s].active
          /\ state'[s].activeDisconnect = state[s].activeDisconnect
          /\ state'[s].awaiting
          /\ state'[s].failed = state[s].failed
          /\ state'[s].closed = state[s].closed
      BY <1>8, ProgressMade
    <2>2. handled' = handled /\ pc[w] = "defer"
      BY <1>8 DEF MarkSessionDeferred, history
    <2>3. Entered(s)' /\ Entered(s)
      BY <2>1, <2>2 DEF Entered, InTurn
    <2> QED
      BY <2>1, <2>2, <2>3 DEF HandledAt, HandledInOrderAt, HandledInv
  <1>9. CASE CompleteSessionTurn(w)
    <2>1. /\ state'[s].next = state[s].next + 1
          /\ ~state'[s].active /\ ~state'[s].awaiting
          /\ state'[s].failed = state[s].failed
          /\ ~state[s].closed
          /\ state'[s].closed <=> state[s].activeDisconnect
      BY <1>9, ProgressMade
    <2>2. handled' = handled /\ pc[w] = "complete"
      BY <1>9 DEF CompleteSessionTurn, history
    <2>3. Entered(s)
      BY <2>2 DEF Entered, InTurn
    <2>4. ~Entered(s)'
      BY <2>1 DEF Entered, TurnInv, SessionInv, OneTurn
    <2> QED
      BY <1>2, <2>1, <2>2, <2>3, <2>4
         DEF HandledAt, HandledInOrderAt, HandledInv
  <1>10. CASE ResumeTurn(w)
    <2>1. handled' = handled /\ state' = state /\ state[s].awaiting
      BY <1>10 DEF ResumeTurn, history, sessionVars, CompletionDue, StateOf
    <2>2. Entered(s)' /\ Entered(s)
      BY <2>1 DEF Entered
    <2> QED
      BY <2>1, <2>2, KeepHandled
  <1>11. CASE /\ ~EnterHandler(w) /\ ~SkipFailed(w) /\ ~StartTurn(w)
              /\ ~MarkSessionFailed(w) /\ ~MarkSessionDeferred(w)
              /\ ~CompleteSessionTurn(w) /\ ~ResumeTurn(w)
    <2>1. Progress(state'[s]) = Progress(state[s])
      BY <1>11, ProgressKept
    <2>2. state'[s].awaiting = state[s].awaiting
      BY <2>1 DEF Progress
    <2>3. Entered(s)' <=> Entered(s)
      BY <1>1, <1>11, <2>2, PastCheckKept, EnteredFrame
    <2> QED
      BY <1>4, <1>11, <2>1, <2>3, KeepHandled
  <1> QED
    BY <1>3, <1>5, <1>6, <1>7, <1>8, <1>9, <1>10, <1>11

LEMMA HandledStep ==
  ASSUME TurnInv, EventInv, [Next]_vars, \A s \in Sessions : HandledAt(s)
  PROVE  \A s \in Sessions : HandledAt(s)'
  <1>1. TypeOK /\ TypeOK' /\ TurnInv'
    BY NextType, NextTurn DEF TurnInv
  <1>2. ASSUME NEW s \in Sessions, UNCHANGED <<handled, state>>,
               \A v \in Workers :
                   /\ PastCheck(v)' <=> PastCheck(v)
                   /\ PastCheck(v) => SessionOf(v)' = SessionOf(v)
        PROVE  HandledAt(s)'
    <2>1. Entered(s)' <=> Entered(s)
      BY <1>2 DEF Entered, PastCheck
    <2> QED
      BY <1>2, <2>1, KeepHandled
  <1>3. ASSUME NEW w \in Workers, Run(w), NEW s \in Sessions
        PROVE  HandledAt(s)'
    <2>1. CASE pc[w] = "pop"
      <3>1. /\ UNCHANGED <<handled, state>>
            /\ \A v \in Workers \ {w} : pc'[v] = pc[v] /\ cur'[v] = cur[v]
            /\ pc'[w] \in {"attach", "exited"}
        BY <1>1, <1>3, <2>1, RunAtPop
           DEF Pop, PopFailed, Jump, Goto, shared, sessionVars, history, TypeOK,
               locals
      <3> QED
        BY <1>2, <2>1, <3>1 DEF PastCheck, InTurn, SessionOf
    <2>2. CASE pc[w] # "pop"
      <3>1. PICK t \in Sessions : SessionOf(w) = t
        BY <1>3, <2>2, RunAtSession
      <3>2. CASE s = t
        BY <1>1, <1>3, <2>2, <3>1, <3>2, RunHandled
      <3>3. CASE s # t
        <4>1. OnlyAt(w, t)
          BY <1>1, <1>3, <2>2, <3>1, WorkerFrame
        <4>2. state'[s] = state[s] /\ handled'[s] = handled[s]
          BY <3>3, <4>1 DEF OnlyAt
        <4>3. Entered(s)' <=> Entered(s)
          BY <3>1, <3>3, <4>1, <4>2, EnteredFrame
        <4> QED
          BY <4>2, <4>3, KeepHandled
      <3> QED
        BY <3>2, <3>3
    <2> QED
      BY <2>1, <2>2
  <1>4. ASSUME UNCHANGED <<handled, state, pc, cur>>, NEW s \in Sessions
        PROVE  HandledAt(s)'
    BY <1>2, <1>4 DEF PastCheck, InTurn, SessionOf
  <1>5. CASE \E s \in Sessions : Completer(s) \/ Producer(s)
    BY <1>4, <1>5 DEF Completer, Complete, PushCompletion, PushCompletionRefused,
       Producer, EnqueuePacket, EnqueueDuplicate, EnqueueDisconnected, Enqueue,
       sessionVars, history, workerVars, locals
  <1>6. CASE \/ IoPop \/ BeginStop \/ ForceStop \/ ForceCloseInbox
             \/ ForceCloseOutbox \/ UNCHANGED vars
    BY <1>4, <1>6 DEF IoPop, BeginStop, ForceStop, ForceCloseInbox,
       ForceCloseOutbox, sessionVars, vars, shared, history, workerVars, locals
  <1> QED
    BY <1>3, <1>5, <1>6 DEF Next

\* next_sequence never goes back: on a failed session the Disconnected that takes
\* the turn has the last number of all.
LEMMA NextMonotone ==
  ASSUME TurnInv, EventInv, NEW w \in Workers, NEW s \in Sessions,
         SessionOf(w) = s, pc[w] # "pop", Run(w)
  PROVE  state[s].next \in Nat /\ state'[s].next \in Nat
         /\ state[s].next <= state'[s].next
  <1>1. /\ state[s] \in SessionSequenceState /\ EventInvAt(s)
        /\ state[s].next \in Nat
    BY DEF TurnInv, TypeOK, EventInv, SessionSequenceState
  <1>2. CASE StartTurn(w)
    <2>1. /\ ~state[s].active /\ ~state[s].closed
          /\ state'[s].next = cur[w].sequence
          /\ ~state[s].failed => state[s].next = cur[w].sequence
      BY <1>2, ProgressMade
    <2>2. state[s].failed => IsDisconnected(cur[w])
      BY <1>2 DEF StartTurn, TurnFree, StateOf
    <2>3. At(w, s) /\ cur[w] \in Event
      BY <1>2, CurrentType DEF At, StartTurn, Starting, TurnInv
    <2>4. cur[w].sequence \in Nat
      BY <2>3, WorkerPoolAssumption DEF Event
    <2>5. state[s].failed => cur[w].sequence = sent[s]
      BY <1>1, <2>2, <2>3 DEF EventInvAt, EventsNumbered, Numbered
    <2>6. state[s].next <= sent[s]
      BY <1>1, <2>1 DEF EventInvAt, NextBounded
    <2> QED
      BY <1>1, <2>1, <2>4, <2>5, <2>6
  <1>3. CASE MarkSessionFailed(w) \/ MarkSessionDeferred(w)
             \/ CompleteSessionTurn(w)
    BY <1>1, <1>3, ProgressMade
  <1>4. CASE ~StartTurn(w) /\ ~MarkSessionFailed(w) /\ ~MarkSessionDeferred(w)
             /\ ~CompleteSessionTurn(w)
    BY <1>1, <1>4, ProgressKept DEF Progress
  <1> QED
    BY <1>2, <1>3, <1>4

LEMMA MessageNumber == \A m \in Message : m.sequence \in Nat
  BY WorkerPoolAssumption DEF Message

\* The outbox of a pool in which no session goes back.
LEMMA KeepOutbox ==
  ASSUME TypeOK, TypeOK', OutboxInOrder, \A s \in Sessions : OutboxBehind(s),
         \A s \in Sessions : state[s].next <= state'[s].next,
         outbox' = outbox \/ (outbox # <<>> /\ outbox' = Tail(outbox))
  PROVE  OutboxInOrder' /\ \A s \in Sessions : OutboxBehind(s)'
  <1>1. /\ outbox \in Seq(Message)
        /\ \A s \in Sessions : state[s].next \in Nat /\ state'[s].next \in Nat
        /\ \A i \in DOMAIN outbox : outbox[i].sequence \in Nat
    <2>1. \A s \in Sessions : state[s].next \in Nat /\ state'[s].next \in Nat
      BY DEF TypeOK, SessionSequenceState
    <2>2. outbox \in Seq(Message)
      BY DEF TypeOK
    <2> QED
      BY <2>1, <2>2, MessageNumber
  <1>2. PICK k \in {0, 1} : \A i \in DOMAIN outbox' :
            i + k \in DOMAIN outbox /\ outbox'[i] = outbox[i + k]
    <2>1. CASE outbox' = outbox
      <3>1. \A i \in DOMAIN outbox' : i + 0 = i
        BY <1>1, <2>1, NotShifted
      <3> QED
        BY <2>1, <3>1
    <2>2. CASE outbox # <<>> /\ outbox' = Tail(outbox)
      BY <1>1, <2>2
    <2> QED
      BY <2>1, <2>2
  <1>3. \A i, j \in DOMAIN outbox' : i < j => i + k < j + k
    <2>1. outbox' \in Seq(Message)
      BY DEF TypeOK
    <2> QED
      BY <2>1
  <1>4. OutboxInOrder'
    BY <1>2, <1>3 DEF OutboxInOrder
  <1>5. ASSUME NEW s \in Sessions PROVE OutboxBehind(s)'
    BY SMTT(40), <1>1, <1>2 DEF OutboxBehind
  <1> QED
    BY <1>4, <1>5

\* What a worker publishes in its turn is of the event of the turn.
LEMMA PublishInOrder ==
  ASSUME TurnInv, TypeOK', OutboxInOrder, \A s \in Sessions : OutboxBehind(s),
         NEW w \in Workers, NEW s \in Sessions, SessionOf(w) = s,
         PublishOutbound(w)
  PROVE  OutboxInOrder' /\ \A t \in Sessions : OutboxBehind(t)'
  <1>1. /\ outbox \in Seq(Message) /\ Len(outbox) \in Nat
        /\ \A t \in Sessions : state[t].next \in Nat
        /\ \A i \in DOMAIN outbox : outbox[i].sequence \in Nat
    <2>1. \A t \in Sessions : state[t].next \in Nat
      BY DEF TurnInv, TypeOK, SessionSequenceState
    <2>2. outbox \in Seq(Message)
      BY DEF TurnInv, TypeOK
    <2> QED
      BY <2>1, <2>2, MessageNumber
  <1> DEFINE m == [session |-> s, sequence |-> cur[w].sequence,
                   cut |-> Cutting(w)]
  <1>2. /\ outbox' = Append(outbox, m) /\ state' = state
        /\ Cutting(w) \/ pc[w] = "publish"
    BY DEF PublishOutbound, Publishing, sessionVars
  <1>3. /\ m.session = s /\ m.cut = Cutting(w)
        /\ ~m.cut => m.sequence = state[s].next
    BY <1>2 DEF TurnInv, SessionInv, OneTurn, InTurn
  <1> HIDE DEF m
  <1>4. \A i \in DOMAIN outbox' :
            \/ i \in DOMAIN outbox /\ outbox'[i] = outbox[i]
            \/ i = Len(outbox) + 1 /\ outbox'[i] = m
    <2>1. outbox' \in Seq(Message) /\ Len(outbox') = Len(outbox) + 1
      BY <1>1, <1>2 DEF TypeOK
    <2> QED
      BY <1>1, <1>2, <2>1
  <1>5. ASSUME NEW t \in Sessions PROVE OutboxBehind(t)'
    BY <1>1, <1>2, <1>3, <1>4, <1>5 DEF OutboxBehind
  <1>6. ASSUME NEW i \in DOMAIN outbox', NEW j \in DOMAIN outbox', i < j,
               outbox'[i].session = outbox'[j].session,
               ~outbox'[i].cut, ~outbox'[j].cut
        PROVE  outbox'[i].sequence <= outbox'[j].sequence
    <2>1. i \in DOMAIN outbox /\ outbox'[i] = outbox[i]
      <3>1. outbox' \in Seq(Message) /\ Len(outbox') = Len(outbox) + 1
        BY <1>1, <1>2 DEF TypeOK
      <3> QED
        BY <1>1, <1>4, <1>6, <3>1
    <2>2. CASE j \in DOMAIN outbox /\ outbox'[j] = outbox[j]
      BY <1>6, <2>1, <2>2 DEF OutboxInOrder
    <2>3. CASE outbox'[j] = m
      BY <1>3, <1>6, <2>1, <2>3 DEF OutboxBehind
    <2> QED
      BY <1>4, <2>2, <2>3
  <1> QED
    BY <1>5, <1>6 DEF OutboxInOrder

LEMMA OutboxStep ==
  ASSUME TurnInv, EventInv, [Next]_vars, OutboxInOrder,
         \A s \in Sessions : OutboxBehind(s)
  PROVE  OutboxInOrder' /\ \A s \in Sessions : OutboxBehind(s)'
  <1>1. TypeOK /\ TypeOK'
    BY NextType DEF TurnInv
  <1>2. \A s \in Sessions : state[s].next \in Nat
    BY <1>1 DEF TypeOK, SessionSequenceState
  <1>3. ASSUME state' = state,
               outbox' = outbox \/ (outbox # <<>> /\ outbox' = Tail(outbox))
        PROVE  OutboxInOrder' /\ \A s \in Sessions : OutboxBehind(s)'
    <2>1. \A s \in Sessions : state[s].next <= state'[s].next
      BY <1>2, <1>3
    <2> QED
      BY <1>1, <1>3, <2>1, KeepOutbox
  <1>4. ASSUME NEW w \in Workers, Run(w)
        PROVE  OutboxInOrder' /\ \A s \in Sessions : OutboxBehind(s)'
    <2>1. CASE pc[w] = "pop"
      BY <1>3, <1>4, <2>1, RunAtPop DEF Pop, PopFailed, Jump, shared,
         sessionVars, queues
    <2>2. CASE pc[w] # "pop" /\ PublishOutbound(w)
      BY <1>1, <1>4, <2>2, RunAtSession, PublishInOrder
    <2>3. CASE pc[w] # "pop" /\ ~PublishOutbound(w)
      <3>1. PICK s \in Sessions : SessionOf(w) = s
        BY <1>4, <2>3, RunAtSession
      <3>2. \A t \in Sessions \ {s} : state'[t] = state[t]
        BY <1>1, <1>4, <2>3, <3>1, WorkerFrame DEF OnlyAt
      <3>3. \A t \in Sessions : state[t].next <= state'[t].next
        BY <1>2, <1>4, <2>3, <3>1, <3>2, NextMonotone
      <3>4. outbox' = outbox
        BY <1>4, <2>3
           DEF Run, Pop, PopFailed, Attach, Abandon, Discard, DiscardDrain,
               ParkEvent, ParkCompletion, ParkDisconnected, Park, Reject,
               StartTurn, ResumeTurn, SkipFailed, EnterHandler, Defer,
               HandlerReturns, HandlerThrows, MarkSessionFailed, AlreadyFailed,
               PublishRefused, Published, Retry, MarkSessionDeferred,
               CompleteSessionTurn, Jump, shared, queues
      <3> QED
        BY <1>1, <3>3, <3>4, KeepOutbox
    <2> QED
      BY <2>1, <2>2, <2>3
  <1>5. CASE \E s \in Sessions : Completer(s) \/ Producer(s)
    BY <1>3, <1>5 DEF Completer, Complete, PushCompletion, PushCompletionRefused,
       Producer, EnqueuePacket, EnqueueDuplicate, EnqueueDisconnected, Enqueue,
       sessionVars, queues
  <1>6. CASE \/ IoPop \/ BeginStop \/ ForceStop \/ ForceCloseInbox
             \/ ForceCloseOutbox \/ UNCHANGED vars
    BY <1>3, <1>6 DEF IoPop, BeginStop, ForceStop, ForceCloseInbox,
       ForceCloseOutbox, sessionVars, vars, shared, queues
  <1> QED
    BY <1>4, <1>5, <1>6 DEF Next

LEMMA InitOrder ==
  ASSUME Init
  PROVE  /\ OutstandingExact /\ CutsInv /\ OutboxInOrder
         /\ \A s \in Sessions : HandledAt(s) /\ OutboxBehind(s)
  <1>1. /\ \A w \in Workers : pc[w] = "pop"
        /\ outbox = <<>> /\ outstanding = 0
        /\ \A s \in Sessions : /\ state[s] = FreshState /\ handled[s] = <<>>
                               /\ cuts[s] = 0
    BY DEF Init
  <1>2. \A s \in Sessions : /\ ~state[s].awaiting /\ ~state[s].failed
                            /\ state[s].next = 0
    BY <1>1 DEF FreshState
  <1>3. OutstandingExact
    <2>1. {s \in Sessions : state[s].awaiting} = {}
      BY <1>2
    <2> QED
      BY <1>1, <2>1, FS_EmptySet DEF OutstandingExact
  <1>4. CutsInv
    BY <1>1, <1>2 DEF CutsInv, CutInv, Cutting
  <1>5. OutboxInOrder /\ \A s \in Sessions : OutboxBehind(s)
    BY <1>1 DEF OutboxInOrder, OutboxBehind
  <1>6. ASSUME NEW s \in Sessions PROVE HandledAt(s)
    <2>1. ~Entered(s)
      BY <1>1, <1>2 DEF Entered, InTurn
    <2>2. Len(handled[s]) = 0 /\ \A i \in DOMAIN handled[s] : FALSE
      BY <1>1
    <2>3. HandledInOrderAt(s)
      BY <2>2 DEF HandledInOrderAt
    <2>4. HandledInv(s)
      BY <1>2, <2>1, <2>2 DEF HandledInv
    <2> QED
      BY <2>3, <2>4 DEF HandledAt
  <1> QED
    BY <1>3, <1>4, <1>5, <1>6

\* A closed session had its Disconnected, the last of its events, and no turn is
\* left that a completion could be for.
LEMMA ClosedHasNothing == TurnInv /\ EventInv => NoResurrection
  <1> SUFFICES ASSUME TurnInv, EventInv, NEW s \in Sessions, state[s].closed
               PROVE  /\ \A i \in DOMAIN inbox : inbox[i].session # s
                      /\ \A w \in Workers : pc[w] = "attach" => SessionOf(w) # s
                      /\ pushing[s] = NoEvent
    BY DEF NoResurrection
  <1>1. SessionInv(s) /\ EventInvAt(s)
    BY DEF TurnInv, EventInv
  <1>2. ~Token(s)
    BY <1>1 DEF SessionInv, CompletionActive, EventInvAt, MappedOrClosed
  <1>3. pushing[s] = NoEvent
    BY <1>2 DEF Token, Delivered, Pushed
  <1>4. ASSUME NEW i \in DOMAIN inbox, inbox[i].session = s PROVE FALSE
    <2>1. IsCompletion(inbox[i])
      BY <1>1, <1>4 DEF EventInvAt, DisconnectedLast, DisconnectTaken
    <2> QED
      BY <1>2, <1>4, <2>1 DEF Token, Delivered, Queued, QueuedAt
  <1>5. ASSUME NEW w \in Workers, pc[w] = "attach", SessionOf(w) = s PROVE FALSE
    BY <1>5, AttachOpen
  <1> QED
    BY <1>3, <1>4, <1>5

-----------------------------------------------------------------------------
(* Nothing is kept where no one takes it up.                                *)

\* The worker that failed the session goes on to its Disconnected.
Rejecting(w, s) == pc[w] \in {"rejectCut", "retry"} /\ SessionOf(w) = s
\* The worker that defers the event of the turn goes on to its completion.
Deferring(w, s) == InTurn(w) /\ SessionOf(w) = s /\ deferred[w]

\* NothingStranded at one session, but for where the event before a parked one is.
StrandedAt(s) ==
    /\ (~state[s].active /\ ~state[s].failed) =>
          \A e \in state[s].parked : e.sequence # state[s].next
    /\ (state[s].pending # NoEvent /\ ~state[s].active) =>
          \E w \in Workers : Rejecting(w, s)
    /\ state[s].early # NoEvent => \E w \in Workers : Deferring(w, s)

\* A step that leaves the session as it is, and the workers it relies on.
LEMMA KeepStranded ==
  ASSUME NEW s \in Sessions, StrandedAt(s), state'[s] = state[s],
         \A v \in Workers : Rejecting(v, s) => Rejecting(v, s)',
         state[s].early # NoEvent =>
             \A v \in Workers : Deferring(v, s) => Deferring(v, s)'
  PROVE  StrandedAt(s)'
  BY DEF StrandedAt

\* Where the worker is relied on, it stays.
LEMMA RelyKept ==
  ASSUME TurnInv, NEW w \in Workers, NEW s \in Sessions, SessionOf(w) = s,
         pc[w] # "pop", Run(w),
         ~Retry(w), ~MarkSessionDeferred(w), ~CompleteSessionTurn(w)
  PROVE  /\ Rejecting(w, s) => Rejecting(w, s)'
         /\ Deferring(w, s) /\ ~HandlerThrows(w) => Deferring(w, s)'
  <1> USE DEF Rejecting, Deferring, InTurn, Goto, Jump, SessionOf, locals
  <1>1. /\ pc \in [Workers -> Labels] /\ deferred \in [Workers -> BOOLEAN]
        /\ deferred[w] => pc[w] \in {"handler", "publish", "defer"}
    BY DEF TurnInv, TypeOK, DeferralLocal
  <1>2. CASE pc[w] \in {"attach", "start", "discarded", "check", "rejected",
                        "broken"}
    BY <1>1, <1>2
  <1>3. CASE pc[w] \in {"rejectCut", "brokenCut", "publish"}
    <2>1. PublishOutbound(w) \/ PublishRefused(w) \/ Published(w)
      BY <1>3 DEF Run, Pop, PopFailed, Attach, Abandon, Discard, DiscardDrain,
         ParkEvent, ParkCompletion, ParkDisconnected, Reject, StartTurn,
         ResumeTurn, SkipFailed, EnterHandler, Defer, HandlerReturns,
         HandlerThrows, MarkSessionFailed, AlreadyFailed, Retry,
         MarkSessionDeferred, CompleteSessionTurn, Starting
    <2>2. CASE PublishOutbound(w) \/ PublishRefused(w)
      BY <1>1, <2>2 DEF PublishOutbound, PublishRefused
    <2>3. CASE Published(w)
      BY <1>1, <1>3, <2>3 DEF Published
    <2> QED
      BY <2>1, <2>2, <2>3
  <1>4. CASE pc[w] = "handler"
    <2>1. Defer(w) \/ HandlerReturns(w) \/ HandlerThrows(w)
      BY <1>4 DEF Run, Pop, PopFailed, Attach, Abandon, Discard, DiscardDrain,
         ParkEvent, ParkCompletion, ParkDisconnected, Reject, StartTurn,
         ResumeTurn, SkipFailed, EnterHandler, MarkSessionFailed, AlreadyFailed,
         PublishOutbound, PublishRefused, Published, Publishing, Cutting, Retry,
         MarkSessionDeferred, CompleteSessionTurn, Starting
    <2> QED
      BY <1>1, <1>4, <2>1 DEF Defer, HandlerReturns
  <1>5. CASE pc[w] \in {"retry", "defer", "complete", "exited"}
    BY <1>5 DEF Run, Pop, PopFailed, Attach, Abandon, Discard, DiscardDrain,
       ParkEvent, ParkCompletion, ParkDisconnected, Reject, StartTurn,
       ResumeTurn, SkipFailed, EnterHandler, Defer, HandlerReturns,
       HandlerThrows, MarkSessionFailed, AlreadyFailed, PublishOutbound,
       PublishRefused, Published, Publishing, Cutting, Retry,
       MarkSessionDeferred, CompleteSessionTurn, Starting
  <1> QED
    BY <1>1, <1>2, <1>3, <1>4, <1>5 DEF Labels

\* Only the worker that has the turn of the session defers it.
LEMMA DeferringAlone ==
  ASSUME TurnInv, NEW w \in Workers, NEW s \in Sessions, SessionOf(w) = s,
         InTurn(w), NEW v \in Workers, Deferring(v, s)
  PROVE  v = w
  BY DEF TurnInv, SessionInv, OneTurn, Deferring

LEMMA RunStranded ==
  ASSUME TurnInv, TypeOK', EventInv, NEW w \in Workers,
         NEW s \in Sessions, SessionOf(w) = s, pc[w] # "pop", Run(w),
         StrandedAt(s)
  PROVE  StrandedAt(s)'
  <1>1. OnlyAt(w, s)
    BY WorkerFrame
  <1>2. /\ state \in [Sessions -> SessionSequenceState]
        /\ state[s] \in SessionSequenceState /\ state[s].next \in Nat
        /\ pc \in [Workers -> Labels] /\ deferred \in [Workers -> BOOLEAN]
        /\ SessionInv(s) /\ EventInvAt(s) /\ DeferralLocal(w)
    BY DEF TurnInv, TypeOK, SessionSequenceState, EventInv
  <1>3. \A v \in Workers \ {w} : /\ Rejecting(v, s) => Rejecting(v, s)'
                                 /\ Deferring(v, s) => Deferring(v, s)'
    BY <1>1 DEF OnlyAt, Rejecting, Deferring, InTurn, SessionOf, SameWorker
  <1>4. CASE HandlerThrows(w)
    <2>1. state' = state /\ pc[w] = "handler"
      BY <1>4 DEF HandlerThrows, sessionVars
    <2>2. state[s].early = NoEvent
      <3>1. ASSUME state[s].early # NoEvent PROVE FALSE
        <4>1. PICK v \in Workers : Deferring(v, s)
          BY <3>1 DEF StrandedAt
        <4>2. deferred[w]
          BY <2>1, <4>1, DeferringAlone DEF InTurn, Deferring
        <4>3. Delivered(s)
          BY <3>1 DEF Delivered, Early
        <4> QED
          BY <1>2, <2>1, <4>2, <4>3 DEF SessionInv, CompletionFlags
      <3> QED
        BY <3>1
    <2>3. Rejecting(w, s) => Rejecting(w, s)'
      BY <2>1 DEF Rejecting
    <2> QED
      BY <1>3, <2>1, <2>2, <2>3, KeepStranded
  <1>5. CASE ParkEvent(w)
    <2>1. /\ state'[s] = [state[s] EXCEPT !.parked = @ \cup {cur[w]}]
          /\ ~TurnFree(cur[w], state[s]) /\ ~state[s].failed /\ ~state[s].closed
          /\ ~IsCompletion(cur[w])
      BY <1>2, <1>5 DEF ParkEvent, Park, Parkable, Ahead, StateOf
    <2>2. ~state[s].active => cur[w].sequence # state[s].next
      BY <2>1 DEF TurnFree
    <2>3. /\ state'[s].parked = state[s].parked \cup {cur[w]}
          /\ state'[s].next = state[s].next
          /\ state'[s].active = state[s].active
          /\ state'[s].failed = state[s].failed
          /\ state'[s].pending = state[s].pending
          /\ state'[s].early = state[s].early
      BY <1>2, <2>1 DEF SessionSequenceState
    <2>4. ~Rejecting(w, s) /\ ~Deferring(w, s)
      BY <1>5 DEF ParkEvent, Starting, Rejecting, Deferring, InTurn
    <2> QED
      BY <1>3, <2>2, <2>3, <2>4 DEF StrandedAt
  <1>6. CASE ParkCompletion(w)
    <2>1. /\ state'[s] = [state[s] EXCEPT !.early = cur[w]]
          /\ state[s].active /\ ~state[s].awaiting /\ IsCompletion(cur[w])
          /\ pc[w] = "start"
      BY <1>2, <1>6
         DEF ParkCompletion, Park, CompletionEarly, StateOf, Starting
    <2>2. state'[s].active = state[s].active
      BY <1>2, <2>1 DEF SessionSequenceState
    <2>3. PICK v \in Workers : InTurn(v) /\ SessionOf(v) = s
      BY <1>2, <2>1 DEF EventInvAt, TurnOwned
    <2>4. ~IsCompletion(cur[v])
      BY <1>2, <2>1, <2>3 DEF EventInvAt, TurnOwned
    <2>5. Token(s)
      BY <2>1 DEF Token, Delivered, Held, HeldBy
    <2>6. deferred[v]
      BY <1>2, <2>3, <2>4, <2>5 DEF SessionInv, FirstTurn
    <2>7. Deferring(v, s)'
      <3>1. v # w
        BY <2>1, <2>3 DEF InTurn
      <3> QED
        BY <1>3, <2>3, <2>6, <3>1 DEF Deferring
    <2> QED
      BY <2>1, <2>2, <2>7 DEF StrandedAt
  <1>7. CASE ParkDisconnected(w) \/ StartTurn(w)
    <2>1. /\ state'[s].active /\ state'[s].early = state[s].early
          /\ pc[w] = "start"
      <3>1. CASE ParkDisconnected(w)
        <4>1. /\ state'[s] = [state[s] EXCEPT !.pending = cur[w]]
              /\ state[s].active /\ pc[w] = "start"
          BY <1>2, <3>1
             DEF ParkDisconnected, Park, DisconnectPending, StateOf, Starting
        <4> QED
          BY <1>2, <4>1 DEF SessionSequenceState
      <3>2. CASE StartTurn(w)
        <4>1. /\ state'[s] = [state[s] EXCEPT !.next = cur[w].sequence,
                              !.active = TRUE,
                              !.activeDisconnect = IsDisconnected(cur[w])]
              /\ pc[w] = "start"
          BY <1>2, <3>2 DEF StartTurn, StateOf, Starting
        <4> QED
          BY <1>2, <4>1 DEF SessionSequenceState
      <3> QED
        BY <1>7, <3>1, <3>2
    <2>2. ~Deferring(w, s)
      BY <2>1 DEF Deferring, InTurn
    <2> QED
      BY <1>3, <2>1, <2>2 DEF StrandedAt
  <1>8. CASE MarkSessionFailed(w)
    <2>1. /\ state'[s] = Failed(state[s])
          /\ pc[w] = "rejected" => pc'[w] = "rejectCut"
          /\ pc[w] \in {"rejected", "broken"} /\ cur' = cur
      BY <1>2, <1>8 DEF MarkSessionFailed, Goto
    <2>2. /\ state'[s].active = state[s].active /\ state'[s].failed
          /\ state'[s].early = state[s].early
      BY <1>2, <2>1 DEF Failed, SessionSequenceState
    <2>3. pc[w] = "broken" => state[s].active
      BY <1>2 DEF SessionInv, OneTurn, InTurn
    <2>4. pc[w] = "rejected" => Rejecting(w, s)'
      BY <2>1 DEF Rejecting, SessionOf
    <2>5. ~Deferring(w, s)
      BY <1>2, <2>1 DEF Deferring, DeferralLocal
    <2> QED
      BY <1>3, <2>1, <2>2, <2>3, <2>4, <2>5 DEF StrandedAt
  <1>9. CASE Retry(w)
    <2>1. pc[w] = "retry"
      BY <1>9 DEF Retry
    <2>2. ~Deferring(w, s)
      BY <2>1 DEF Deferring, InTurn
    <2>3. CASE IsDisconnected(cur[w]) \/ state[s].active \/ state[s].closed
      <3>1. state' = state
        BY <1>9, <2>3 DEF Retry, StateOf
      <3>2. state[s].active \/ state[s].pending = NoEvent
        BY <1>2, <2>1, <2>3 DEF EventInvAt, OneDisconnected, AtDisconnected, At,
                                KeepsDisconnected
      <3> QED
        BY <1>3, <2>2, <3>1, <3>2 DEF StrandedAt
    <2>4. CASE ~IsDisconnected(cur[w]) /\ ~state[s].active /\ ~state[s].closed
      <3>1. state'[s] = [state[s] EXCEPT !.pending = NoEvent]
        BY <1>2, <1>9, <2>4 DEF Retry, StateOf
      <3>2. /\ state'[s].pending = NoEvent /\ state'[s].early = state[s].early
            /\ state'[s].active = state[s].active
            /\ state'[s].failed = state[s].failed
            /\ state'[s].next = state[s].next
            /\ state'[s].parked = state[s].parked
        BY <1>2, <3>1 DEF SessionSequenceState
      <3> QED
        BY <1>3, <2>2, <3>2 DEF StrandedAt
    <2> QED
      BY <2>3, <2>4
  <1>10. CASE MarkSessionDeferred(w)
    <2>1. /\ state'[s] = [state[s] EXCEPT !.awaiting = TRUE, !.early = NoEvent]
          /\ state[s].active
      BY <1>2, <1>10 DEF MarkSessionDeferred, StateOf
    <2>2. state'[s].active /\ state'[s].early = NoEvent
      BY <1>2, <2>1 DEF SessionSequenceState
    <2> QED
      BY <2>2 DEF StrandedAt
  <1>11. CASE CompleteSessionTurn(w)
    <2>1. PICK e : /\ state'[s] = AfterTurn(state[s], e)
                   /\ Handover(state[s], e)
      BY <1>2, <1>11, CompleteEffect DEF TurnInv
    <2>2. pc[w] = "complete" /\ InTurn(w)
      BY <1>11 DEF CompleteSessionTurn, InTurn
    <2>3. /\ state'[s].next = state[s].next + 1
          /\ state'[s].failed = state[s].failed
          /\ state'[s].early = state[s].early
          /\ state'[s].parked = state[s].parked \ {e}
          /\ state'[s].pending = IF state[s].failed /\ ~state[s].activeDisconnect
                                 THEN NoEvent ELSE state[s].pending
      BY <1>2, <2>1, AfterTurnFields
    <2>4. state'[s].pending = NoEvent
      <3>1. CASE state[s].failed /\ ~state[s].activeDisconnect
        BY <2>3, <3>1
      <3>2. CASE ~state[s].failed
        BY <1>2, <2>3, <3>2 DEF EventInvAt, KeptApart
      <3>3. CASE state[s].failed /\ state[s].activeDisconnect
        <4>1. AtDisconnected(w, s)
          BY <1>2, <2>2, <3>3 DEF EventInvAt, TurnOwned, AtDisconnected, At
        <4> QED
          BY <1>2, <2>3, <3>3, <4>1
             DEF EventInvAt, OneDisconnected, KeepsDisconnected
      <3> QED
        BY <3>1, <3>2, <3>3
    <2>5. state[s].early = NoEvent
      <3>1. ~deferred[w]
        BY <1>2, <2>2 DEF DeferralLocal
      <3> QED
        BY <2>2, <3>1, DeferringAlone DEF StrandedAt, Deferring
    <2>6. ~state[s].failed => \A d \in state'[s].parked :
              d.sequence # state[s].next + 1
      <3>1. CASE state[s].activeDisconnect
        <4>1. AtDisconnected(w, s)
          BY <1>2, <2>2, <3>1 DEF EventInvAt, TurnOwned, AtDisconnected, At
        <4>2. state[s].next = sent[s]
          BY <1>2, <2>2, <3>1
             DEF EventInvAt, NextBounded, SessionInv, OneTurn
        <4>3. \A d \in state[s].parked : ~IsDisconnected(d)
          BY <1>2, <4>1 DEF EventInvAt, OneDisconnected, KeepsDisconnected
        <4>4. \A d \in state[s].parked : d \in Event /\ ~IsCompletion(d)
          BY <1>2 DEF SessionSequenceState, SessionInv, KeptEvents
        <4>5. \A d \in state[s].parked : d.sequence < sent[s]
          BY <1>2, <4>3, <4>4
             DEF EventInvAt, EventsNumbered, Numbered, Event, Kinds,
                 IsDisconnected, IsCompletion
        <4>6. \A d \in Event : d.sequence \in Nat
          BY WorkerPoolAssumption DEF Event
        <4> QED
          BY <1>2, <2>3, <4>2, <4>4, <4>5, <4>6
      <3>2. CASE ~state[s].activeDisconnect
        BY <1>2, <2>1, <2>3, <3>2 DEF Handover, EventInvAt, KeptApart
      <3> QED
        BY <3>1, <3>2
    <2> QED
      BY <2>3, <2>4, <2>5, <2>6 DEF StrandedAt
  <1>12. CASE /\ ~HandlerThrows(w) /\ ~ParkEvent(w) /\ ~ParkCompletion(w)
              /\ ~ParkDisconnected(w) /\ ~StartTurn(w) /\ ~MarkSessionFailed(w)
              /\ ~Retry(w) /\ ~MarkSessionDeferred(w) /\ ~CompleteSessionTurn(w)
    <2>1. state' = state
      <3>1. CASE Attach(w)
        BY <3>1, AttachKeepsState
      <3>2. CASE ~Attach(w)
        BY <1>12, <3>2
           DEF Run, Pop, PopFailed, Abandon, Discard, DiscardDrain, Reject,
               ResumeTurn, SkipFailed, EnterHandler, Defer, HandlerReturns,
               AlreadyFailed, PublishOutbound, PublishRefused, Published, Jump,
               shared, sessionVars
      <3> QED
        BY <3>1, <3>2
    <2>2. /\ Rejecting(w, s) => Rejecting(w, s)'
          /\ Deferring(w, s) => Deferring(w, s)'
      BY <1>12, RelyKept
    <2> QED
      BY <1>3, <2>1, <2>2, KeepStranded
  <1> QED
    BY <1>4, <1>5, <1>6, <1>7, <1>8, <1>9, <1>10, <1>11, <1>12

LEMMA StrandedStep ==
  ASSUME TurnInv, EventInv, [Next]_vars, \A s \in Sessions : StrandedAt(s)
  PROVE  \A s \in Sessions : StrandedAt(s)'
  <1>1. TypeOK /\ TypeOK'
    BY NextType DEF TurnInv
  <1>2. ASSUME NEW s \in Sessions, state'[s] = state[s], NEW w \in Workers,
               \A v \in Workers \ {w} : SameWorker(v),
               ~Rejecting(w, s), ~Deferring(w, s)
        PROVE  StrandedAt(s)'
    <2>1. \A v \in Workers : /\ Rejecting(v, s) => Rejecting(v, s)'
                             /\ Deferring(v, s) => Deferring(v, s)'
      BY <1>2 DEF Rejecting, Deferring, InTurn, SessionOf, SameWorker
    <2> QED
      BY <1>2, <2>1, KeepStranded
  <1>3. ASSUME NEW w \in Workers, Run(w), NEW s \in Sessions
        PROVE  StrandedAt(s)'
    <2>1. CASE pc[w] = "pop"
      <3>1. /\ state' = state
            /\ \A v \in Workers \ {w} : SameWorker(v)
        BY <1>1, <1>3, <2>1, RunAtPop
           DEF Pop, PopFailed, Jump, Goto, shared, sessionVars, TypeOK, locals,
               SameWorker
      <3> QED
        BY <1>2, <2>1, <3>1 DEF Rejecting, Deferring, InTurn
    <2>2. CASE pc[w] # "pop"
      <3>1. PICK t \in Sessions : SessionOf(w) = t
        BY <1>3, <2>2, RunAtSession
      <3>2. CASE s = t
        BY <1>1, <1>3, <2>2, <3>1, <3>2, RunStranded
      <3>3. CASE s # t
        <4>1. OnlyAt(w, t)
          BY <1>1, <1>3, <2>2, <3>1, WorkerFrame
        <4> QED
          BY <1>2, <3>1, <3>3, <4>1 DEF OnlyAt, Rejecting, Deferring
      <3> QED
        BY <3>2, <3>3
    <2> QED
      BY <2>1, <2>2
  <1>4. ASSUME UNCHANGED <<state, pc, cur, deferred>>, NEW s \in Sessions
        PROVE  StrandedAt(s)'
    BY <1>4, KeepStranded DEF Rejecting, Deferring, InTurn, SessionOf
  <1>5. CASE \E s \in Sessions : Completer(s) \/ Producer(s)
    BY <1>4, <1>5 DEF Completer, Complete, PushCompletion, PushCompletionRefused,
       Producer, EnqueuePacket, EnqueueDuplicate, EnqueueDisconnected, Enqueue,
       sessionVars, workerVars, locals
  <1>6. CASE \/ IoPop \/ BeginStop \/ ForceStop \/ ForceCloseInbox
             \/ ForceCloseOutbox \/ UNCHANGED vars
    BY <1>4, <1>6 DEF IoPop, BeginStop, ForceStop, ForceCloseInbox,
       ForceCloseOutbox, sessionVars, vars, shared, workerVars, locals
  <1> QED
    BY <1>3, <1>5, <1>6 DEF Next

-----------------------------------------------------------------------------
(* Nothing is lost.                                                         *)

\* A step that leaves the numbers of the session and what is pending of it.
LEMMA KeepLost ==
  ASSUME NEW s \in Sessions, NothingLostAt(s), forced' = forced,
         sent'[s] = sent[s], gone'[s] = gone[s],
         state'[s].failed \/ state'[s].closed \/
             (/\ ~state[s].failed /\ ~state[s].closed
              /\ state'[s].next = state[s].next
              /\ state'[s].active = state[s].active
              /\ \A n \in state[s].next..sent[s] :
                    Pending(s, n) => \/ Pending(s, n)'
                                     \/ n = state[s].next /\ state[s].active)
  PROVE  NothingLostAt(s)'
  BY DEF NothingLostAt

\* ... one in which the inbox stays.
LEMMA KeepPending ==
  ASSUME NEW s \in Sessions, NEW n, inbox' = inbox,
         \A v \in Workers : Carries(v, s, n) => Pending(s, n)',
         \A e \in state[s].parked : e.sequence = n => Pending(s, n)'
  PROVE  Pending(s, n) => Pending(s, n)'
  BY DEF Pending, Carries

\* Where the worker drops its event, and where it leaves it.
LEMMA DropsKept ==
  ASSUME TurnInv, TypeOK', EventInv, NEW w \in Workers, NEW s \in Sessions,
         SessionOf(w) = s, pc[w] # "pop", Run(w), DropsFailed(s)
  PROVE  /\ state[s].failed => state'[s].failed
         /\ state[s].closed => state'[s].closed
         /\ DropsFailed(s)'
  <1>1. OnlyAt(w, s) /\ pc \in [Workers -> Labels] /\ TypeOK
    BY WorkerFrame DEF TurnInv, TypeOK
  <1>2. /\ state[s].failed => state'[s].failed
        /\ state[s].closed => state'[s].closed
    <2>1. CASE ~StartTurn(w) /\ ~MarkSessionFailed(w) /\ ~MarkSessionDeferred(w)
               /\ ~CompleteSessionTurn(w)
      BY <2>1, ProgressKept DEF Progress
    <2>2. CASE StartTurn(w) \/ MarkSessionFailed(w) \/ MarkSessionDeferred(w)
               \/ CompleteSessionTurn(w)
      BY <2>2, ProgressMade
    <2> QED
      BY <2>1, <2>2
  <1>3. ASSUME pc'[w] \in {"discarded", "rejectCut", "retry"}
        PROVE  state'[s].failed \/ state'[s].closed
    <2>1. CASE Discard(w)
      <3>1. state[s].failed \/ state[s].closed
        BY <2>1 DEF Discard, Discarded, StateOf
      <3> QED
        BY <1>2, <3>1
    <2>2. CASE MarkSessionFailed(w)
      BY <2>2, ProgressMade
    <2>3. CASE AlreadyFailed(w)
      BY <1>2, <2>3 DEF AlreadyFailed, StateOf
    <2>4. CASE PublishOutbound(w) \/ PublishRefused(w) \/ Published(w)
      <3>1. pc[w] = "rejectCut"
        <4>1. CASE PublishOutbound(w) \/ PublishRefused(w)
          BY <1>3, <4>1
             DEF PublishOutbound, PublishRefused, Publishing, Cutting
        <4>2. CASE Published(w)
          BY <1>1, <1>3, <4>2 DEF Published, Jump, Goto, Publishing, Cutting
        <4> QED
          BY <2>4, <4>1, <4>2
      <3> QED
        BY <1>2, <3>1 DEF DropsFailed, At
    <2>5. CASE ~Discard(w) /\ ~MarkSessionFailed(w) /\ ~AlreadyFailed(w)
               /\ ~PublishOutbound(w) /\ ~PublishRefused(w) /\ ~Published(w)
      <3> USE DEF Goto, Jump, Continue
      <3>1. CASE \/ Attach(w) \/ Abandon(w) \/ DiscardDrain(w) \/ ParkEvent(w)
                 \/ ParkCompletion(w) \/ ParkDisconnected(w) \/ Reject(w)
                 \/ StartTurn(w) \/ ResumeTurn(w) \/ Pop(w) \/ PopFailed(w)
        BY <1>1, <1>3, <3>1 DEF Attach, Abandon, DiscardDrain, ParkEvent,
           ParkCompletion, ParkDisconnected, Park, Reject, StartTurn, ResumeTurn,
           Pop, PopFailed
      <3>2. CASE \/ SkipFailed(w) \/ EnterHandler(w) \/ HandlerReturns(w)
                 \/ HandlerThrows(w) \/ Retry(w) \/ MarkSessionDeferred(w)
        BY <1>1, <1>3, <3>2 DEF SkipFailed, EnterHandler, HandlerReturns,
           HandlerThrows, Retry, MarkSessionDeferred
      <3>3. CASE CompleteSessionTurn(w)
        BY <1>1, <1>3, <3>3, CompleteEffect
      <3>4. CASE Defer(w)
        BY <1>3, <3>4 DEF Defer
      <3> QED
        BY <2>5, <3>1, <3>2, <3>3, <3>4 DEF Run
    <2> QED
      BY <2>1, <2>2, <2>3, <2>4, <2>5
  <1>4. ASSUME NEW v \in Workers \ {w}, At(v, s)',
               pc'[v] \in {"discarded", "rejectCut", "retry"}
        PROVE  state'[s].failed \/ state'[s].closed
    BY <1>1, <1>2, <1>4 DEF OnlyAt, SameWorker, At, SessionOf, DropsFailed
  <1> QED
    BY <1>2, <1>3, <1>4 DEF DropsFailed

\* A step of a worker loses no event of a session that stays healthy.
LEMMA RunLost ==
  ASSUME TurnInv, TypeOK', EventInv, NEW w \in Workers, NEW s \in Sessions,
         SessionOf(w) = s, pc[w] # "pop", Run(w), DropsFailed(s),
         NothingLostAt(s)
  PROVE  NothingLostAt(s)'
  <1>1. OnlyAt(w, s)
    BY WorkerFrame
  <1>2. /\ state \in [Sessions -> SessionSequenceState] /\ TypeOK
        /\ state[s] \in SessionSequenceState /\ state[s].next \in Nat
        /\ pc \in [Workers -> Labels] /\ sent[s] \in Nat
        /\ SessionInv(s) /\ EventInvAt(s)
    <2>1. sent[s] \in 0..MaxEvents
      BY DEF TurnInv, TypeOK
    <2>2. sent[s] \in Nat
      BY <2>1, WorkerPoolAssumption
    <2> QED
      BY <2>2 DEF TurnInv, TypeOK, SessionSequenceState, EventInv
  <1>3. /\ sent' = sent /\ gone' = gone /\ forced' = forced /\ inbox' = inbox
    BY <1>1 DEF OnlyAt, ioVars, stopVars
  <1>4. CASE forced \/ state'[s].failed \/ state'[s].closed
    BY <1>3, <1>4 DEF NothingLostAt
  <1>5. ASSUME ~forced, ~state'[s].failed, ~state'[s].closed
        PROVE  NothingLostAt(s)'
    <2>1. ~state[s].failed /\ ~state[s].closed
      BY <1>5, DropsKept
    <2>2. /\ pc[w] \notin {"discarded", "rejectCut", "retry"}
          /\ pc[w] \notin {"pop", "exited"} => At(w, s)
      BY <2>1 DEF DropsFailed, At
    <2>3. \A v \in Workers \ {w}, n \in Nat :
              Carries(v, s, n) => Carries(v, s, n)'
      BY <1>1 DEF OnlyAt, SameWorker, Carries, At, SessionOf
    <2>4. \A n \in state[s].next..sent[s] : n \in Nat
      BY <1>2
    <2>5. CASE StartTurn(w)
      <3>1. /\ state'[s].active /\ state'[s].next = state[s].next
            /\ state[s].next = cur[w].sequence /\ ~state[s].active
        BY <2>1, <2>5, ProgressMade
      <3>2. state'[s].parked = state[s].parked
        <4>1. state'[s] = [state[s] EXCEPT !.next = cur[w].sequence,
                              !.active = TRUE,
                              !.activeDisconnect = IsDisconnected(cur[w])]
          BY <1>2, <2>5 DEF StartTurn
        <4> QED
          BY <1>2, <4>1 DEF SessionSequenceState
      <3>3. ASSUME NEW n \in state[s].next..sent[s], n # state[s].next
            PROVE  Pending(s, n) => Pending(s, n)'
        <4>1. \A v \in Workers : Carries(v, s, n) => Carries(v, s, n)'
          BY <2>3, <2>4, <3>1, <3>3 DEF Carries
        <4> QED
          BY <1>3, <3>2, <4>1, KeepPending DEF Pending, Carries
      <3> QED
        BY <1>3, <1>5, <2>1, <3>1, <3>3 DEF NothingLostAt
    <2>6. CASE MarkSessionDeferred(w)
      <3>1. /\ state'[s].next = state[s].next
            /\ state'[s].active = state[s].active
        BY <2>6, ProgressMade
      <3>2. state'[s].parked = state[s].parked
        <4>1. state'[s] = [state[s] EXCEPT !.awaiting = TRUE, !.early = NoEvent]
          BY <1>2, <2>6 DEF MarkSessionDeferred
        <4> QED
          BY <1>2, <4>1 DEF SessionSequenceState
      <3>3. state[s].next = cur[w].sequence /\ state[s].active
        BY <1>2, <2>6 DEF MarkSessionDeferred, StateOf
      <3>4. ASSUME NEW n \in state[s].next..sent[s], n # state[s].next
            PROVE  Pending(s, n) => Pending(s, n)'
        <4>1. \A v \in Workers : Carries(v, s, n) => Carries(v, s, n)'
          BY <2>3, <2>4, <3>3, <3>4 DEF Carries
        <4> QED
          BY <1>3, <3>2, <4>1, KeepPending DEF Pending, Carries
      <3> QED
        BY <1>3, <1>5, <2>1, <3>1, <3>3, <3>4 DEF NothingLostAt
    <2>7. CASE CompleteSessionTurn(w)
      <3>1. PICK e : /\ state'[s] = AfterTurn(state[s], e)
                     /\ Handover(state[s], e) /\ Continue(w, e)
        BY <1>2, <2>7, CompleteEffect
      <3>2. /\ state'[s].next = state[s].next + 1
            /\ state'[s].parked = state[s].parked \ {e}
        BY <1>2, <3>1, AfterTurnFields
      <3>3. InTurn(w)
        BY <2>7 DEF CompleteSessionTurn, InTurn
      <3>4. state[s].next = cur[w].sequence /\ state[s].active
        BY <3>3, EnteredAlone
      <3>5. e # NoEvent => e \in state[s].parked
        BY <2>1, <3>1 DEF Handover
      <3>6. ASSUME NEW n \in state'[s].next..sent[s]
            PROVE  Pending(s, n) => Pending(s, n)'
        <4>1. n # state[s].next /\ n \in state[s].next..sent[s] /\ n \in Nat
          BY <1>2, <3>2, <3>6
        <4>2. \A v \in Workers : Carries(v, s, n) => Carries(v, s, n)'
          BY <2>3, <3>4, <4>1 DEF Carries
        <4>3. ASSUME e # NoEvent, e.sequence = n PROVE Carries(w, s, n)'
          <5>1. ~IsCompletion(e) /\ e.session = s
            BY <1>2, <3>5, <4>3 DEF SessionInv, KeptEvents
          <5>2. cur'[w] = e /\ pc'[w] = "start"
            BY <1>2, <3>1, <4>3 DEF Continue, Goto, TypeOK
          <5> QED
            BY <4>3, <5>1, <5>2 DEF Carries, At, SessionOf
        <4>4. ASSUME NEW d \in state[s].parked, d.sequence = n
              PROVE  Pending(s, n)'
          <5>1. CASE d = e /\ e # NoEvent
            BY <4>3, <4>4, <5>1 DEF Carries, Pending
          <5>2. CASE d # e
            BY <3>2, <4>4, <5>2 DEF Pending
          <5>3. d # NoEvent
            BY <1>2, WorkerPoolAssumption DEF SessionSequenceState
          <5> QED
            BY <5>1, <5>2, <5>3
        <4> QED
          BY <1>3, <4>2, <4>4, KeepPending DEF Pending, Carries
      <3>7. ASSUME NEW n \in state'[s].next..sent[s], n < sent[s] \/ gone[s]
            PROVE  Pending(s, n)'
        <4>1. n # state[s].next /\ n \in state[s].next..sent[s]
          BY <1>2, <3>2, <3>7
        <4> QED
          BY <1>5, <2>1, <3>6, <3>7, <4>1 DEF NothingLostAt
      <3> QED
        BY <1>3, <3>7 DEF NothingLostAt
    <2>8. CASE ParkEvent(w) \/ ParkCompletion(w) \/ ParkDisconnected(w)
      <3>1. pc[w] = "start" /\ At(w, s)
        BY <2>2, <2>8 DEF ParkEvent, ParkCompletion, ParkDisconnected, Starting
      <3>2. /\ state[s].parked \subseteq state'[s].parked
            /\ IsCompletion(cur[w]) \/ cur[w] \in state'[s].parked
        <4>1. CASE ParkEvent(w)
          <5>1. state'[s] = [state[s] EXCEPT !.parked = @ \cup {cur[w]}]
            BY <1>2, <4>1 DEF ParkEvent, Park, StateOf
          <5> QED
            BY <1>2, <5>1 DEF SessionSequenceState
        <4>2. CASE ParkCompletion(w)
          <5>1. /\ state'[s] = [state[s] EXCEPT !.early = cur[w]]
                /\ IsCompletion(cur[w])
            BY <1>2, <4>2 DEF ParkCompletion, Park, CompletionEarly, StateOf
          <5> QED
            BY <1>2, <5>1 DEF SessionSequenceState
        <4>3. CASE ParkDisconnected(w)
          BY <2>1, <4>3 DEF ParkDisconnected, DisconnectPending, StateOf
        <4> QED
          BY <2>8, <4>1, <4>2, <4>3
      <3>3. Progress(state'[s]) = Progress(state[s])
        <4>1. ~StartTurn(w) /\ ~MarkSessionFailed(w) /\ ~MarkSessionDeferred(w)
              /\ ~CompleteSessionTurn(w)
          <5>1. ~TurnFree(cur[w], state[s])
            BY <2>1, <2>8 DEF ParkEvent, ParkCompletion, ParkDisconnected,
               Parkable, Ahead, CompletionEarly, DisconnectPending, TurnFree,
               StateOf
          <5> QED
            BY <3>1, <5>1 DEF StartTurn, MarkSessionFailed, MarkSessionDeferred,
                              CompleteSessionTurn, StateOf
        <4> QED
          BY <4>1, ProgressKept
      <3>4. ASSUME NEW n \in state[s].next..sent[s]
            PROVE  Pending(s, n) => Pending(s, n)'
        <4>1. \A v \in Workers : Carries(v, s, n) => Pending(s, n)'
          BY <2>3, <2>4, <3>2, <3>4 DEF Carries, Pending
        <4>2. \A e \in state[s].parked : e.sequence = n => Pending(s, n)'
          BY <3>2 DEF Pending
        <4> QED
          BY <1>3, <4>1, <4>2, KeepPending
      <3> QED
        BY <1>3, <2>1, <3>3, <3>4, KeepLost DEF Progress
    <2>9. CASE /\ ~StartTurn(w) /\ ~MarkSessionDeferred(w)
               /\ ~CompleteSessionTurn(w) /\ ~ParkEvent(w)
               /\ ~ParkCompletion(w) /\ ~ParkDisconnected(w)
      <3>1. ~MarkSessionFailed(w)
        BY <1>5, ProgressMade
      <3>2. ~Retry(w) /\ ~DiscardDrain(w) /\ ~Abandon(w)
        BY <1>5, <2>2 DEF Retry, DiscardDrain, Abandon
      <3>3. state' = state /\ cur' = cur /\ pc'[w] \notin {"pop", "exited"}
        <4> USE DEF Goto, Jump, shared, sessionVars, locals
        <4>1. CASE Attach(w)
          BY <1>2, <4>1, AttachKeepsState DEF Attach
        <4>2. CASE \/ Discard(w) \/ Reject(w) \/ ResumeTurn(w) \/ SkipFailed(w)
                   \/ EnterHandler(w) \/ HandlerReturns(w) \/ HandlerThrows(w)
          BY <1>2, <4>2 DEF Discard, Reject, ResumeTurn, SkipFailed,
             EnterHandler, HandlerReturns, HandlerThrows
        <4>3. CASE Defer(w) \/ PublishOutbound(w) \/ PublishRefused(w)
          BY <1>2, <4>3 DEF Defer, PublishOutbound, PublishRefused, Publishing,
                            Cutting
        <4>4. CASE AlreadyFailed(w) \/ Published(w)
          BY <1>2, <4>4 DEF AlreadyFailed, Published
        <4>5. ~Pop(w) /\ ~PopFailed(w)
          BY DEF Pop, PopFailed
        <4> QED
          BY <2>9, <3>1, <3>2, <4>1, <4>2, <4>3, <4>4, <4>5 DEF Run
      <3>4. ASSUME NEW n \in state[s].next..sent[s]
            PROVE  Pending(s, n) => Pending(s, n)'
        <4>1. \A v \in Workers : Carries(v, s, n) => Carries(v, s, n)'
          BY <2>3, <2>4, <3>3, <3>4 DEF Carries, At, SessionOf
        <4> QED
          BY <1>3, <3>3, <4>1, KeepPending DEF Pending, Carries
      <3> QED
        BY <1>3, <2>1, <3>3, <3>4, KeepLost
    <2> QED
      BY <2>5, <2>6, <2>7, <2>8, <2>9
  <1> QED
    BY <1>4, <1>5

\* An event more in the inbox: what was pending is.
LEMMA AppendedPending ==
  ASSUME TypeOK, NEW s \in Sessions, NEW n, NEW e \in Event,
         inbox' = Append(inbox, e), UNCHANGED <<state, pc, cur>>
  PROVE  /\ Pending(s, n) => Pending(s, n)'
         /\ e.session = s /\ e.sequence = n /\ ~IsCompletion(e) => Pending(s, n)'
  <1>1. /\ \A i \in DOMAIN inbox : i \in DOMAIN inbox' /\ inbox'[i] = inbox[i]
        /\ \E i \in DOMAIN inbox' : inbox'[i] = e
    <2>1. inbox \in Seq(Event) /\ Len(inbox) + 1 \in DOMAIN Append(inbox, e)
      BY DEF TypeOK
    <2> QED
      BY <2>1
  <1>2. \A v \in Workers : Carries(v, s, n) => Carries(v, s, n)'
    BY DEF Carries, At, SessionOf
  <1> QED
    BY <1>1, <1>2 DEF Pending, Carries

\* The I/O thread numbers what it enqueues.
LEMMA ProducerLost ==
  ASSUME TurnInv, NEW t \in Sessions, Producer(t), NEW s \in Sessions,
         NothingLostAt(s)
  PROVE  NothingLostAt(s)'
  <1>1. TypeOK /\ sent \in [Sessions -> 0..MaxEvents] /\ MaxEvents \in Nat
        /\ gone \in [Sessions -> BOOLEAN]
    BY WorkerPoolAssumption DEF TurnInv, TypeOK
  <1>2. PICK kind \in {"Packet", "Disconnected"}, q \in 0..MaxEvents :
            /\ inbox' = Append(inbox, [kind |-> kind, session |-> t,
                                       sequence |-> q, failed |-> FALSE])
            /\ ~gone[t]
            /\ \/ kind = "Packet" /\ q = sent[t] /\ gone' = gone
                  /\ sent' = [sent EXCEPT ![t] = @ + 1]
               \/ kind = "Packet" /\ sent' = sent /\ gone' = gone
               \/ kind = "Disconnected" /\ q = sent[t] /\ sent' = sent
                  /\ gone' = [gone EXCEPT ![t] = TRUE]
    <2>1. CASE EnqueuePacket(t)
      BY <1>1, <2>1 DEF EnqueuePacket, Enqueue
    <2>2. CASE EnqueueDuplicate(t)
      BY <2>2 DEF EnqueueDuplicate, Enqueue
    <2>3. CASE EnqueueDisconnected(t)
      BY <1>1, <2>3 DEF EnqueueDisconnected, Enqueue
    <2> QED
      BY <2>1, <2>2, <2>3 DEF Producer
  <1> DEFINE e == [kind |-> kind, session |-> t, sequence |-> q,
                   failed |-> FALSE]
  <1>3. /\ e \in Event /\ e.session = t /\ e.sequence = q /\ ~IsCompletion(e)
        /\ inbox' = Append(inbox, e)
    BY <1>2 DEF Event, Kinds, IsCompletion
  <1> HIDE DEF e
  <1>4. UNCHANGED <<state, pc, cur, forced>>
    BY DEF Producer, EnqueuePacket, EnqueueDuplicate, EnqueueDisconnected,
           Enqueue, sessionVars, workerVars, locals, stopVars
  <1>5. ASSUME NEW n \in state[s].next..sent'[s], n < sent'[s] \/ gone'[s],
               ~forced, ~state[s].failed, ~state[s].closed
        PROVE  (n = state[s].next /\ state[s].active) \/ Pending(s, n)'
    <2>1. state[s].next \in Nat /\ sent[s] \in Nat
      BY <1>1 DEF TypeOK, SessionSequenceState
    <2>2. CASE n \in state[s].next..sent[s] /\ (n < sent[s] \/ gone[s])
      BY <1>1, <1>3, <1>4, <1>5, <2>2, AppendedPending DEF NothingLostAt
    <2>3. CASE ~(n \in state[s].next..sent[s] /\ (n < sent[s] \/ gone[s]))
      <3>1. s = t /\ n = sent[s] /\ q = sent[s]
        <4>1. CASE s # t
          <5>1. sent'[s] = sent[s] /\ gone'[s] = gone[s]
            BY <1>1, <1>2, <4>1
          <5> QED
            BY <1>5, <2>3, <5>1
        <4>2. CASE s = t
          <5>1. CASE /\ q = sent[t] /\ sent' = [sent EXCEPT ![t] = @ + 1]
                     /\ gone' = gone
            <6>1. sent'[s] = sent[s] + 1
              BY <1>1, <4>2, <5>1
            <6> QED
              BY <1>1, <1>2, <1>5, <2>1, <2>3, <4>2, <5>1, <6>1
          <5>2. CASE sent' = sent /\ gone' = gone
            BY <1>5, <2>3, <5>2
          <5>3. CASE q = sent[t] /\ sent' = sent
            BY <1>5, <2>1, <2>3, <4>2, <5>3
          <5> QED
            BY <1>2, <5>1, <5>2, <5>3
        <4> QED
          BY <4>1, <4>2
      <3> QED
        BY <1>1, <1>3, <1>4, <3>1, AppendedPending
    <2> QED
      BY <2>2, <2>3
  <1> QED
    BY <1>4, <1>5 DEF NothingLostAt

LEMMA CompleterLost ==
  ASSUME TurnInv, NEW t \in Sessions, Completer(t), NEW s \in Sessions,
         NothingLostAt(s)
  PROVE  NothingLostAt(s)'
  <1>1. UNCHANGED <<state, pc, cur, forced, sent, gone>> /\ TypeOK
    BY DEF Completer, Complete, PushCompletion, PushCompletionRefused,
           sessionVars, workerVars, locals, stopVars, ioVars, TurnInv
  <1>2. inbox' = inbox \/ \E e \in Event : inbox' = Append(inbox, e)
    BY DEF Completer, Complete, PushCompletion, PushCompletionRefused, queues,
           TurnInv, TypeOK
  <1>3. \A n \in state[s].next..sent[s] : Pending(s, n) => Pending(s, n)'
    <2>1. CASE inbox' = inbox
      BY <1>1, <2>1 DEF Pending, At, SessionOf
    <2>2. CASE \E e \in Event : inbox' = Append(inbox, e)
      BY <1>1, <2>2, AppendedPending
    <2> QED
      BY <1>2, <2>1, <2>2
  <1> QED
    BY <1>1, <1>3 DEF NothingLostAt

\* The event a worker takes from the inbox is the one it is at.
LEMMA PopLost ==
  ASSUME TurnInv, NEW w \in Workers, Pop(w) \/ PopFailed(w),
         NEW s \in Sessions, NothingLostAt(s)
  PROVE  NothingLostAt(s)'
  <1>1. /\ UNCHANGED <<state, forced, sent, gone>> /\ pc[w] = "pop"
        /\ inbox \in Seq(Event) /\ pc \in [Workers -> Labels]
        /\ cur \in [Workers -> Event \cup {NoEvent}]
        /\ \A v \in Workers \ {w} : pc'[v] = pc[v] /\ cur'[v] = cur[v]
    BY DEF Pop, PopFailed, Jump, Goto, shared, sessionVars, stopVars, ioVars,
           locals, TurnInv, TypeOK
  <1>2. ASSUME NEW n PROVE Pending(s, n) => Pending(s, n)'
    <2>1. \A v \in Workers : Carries(v, s, n) => Carries(v, s, n)'
      BY <1>1 DEF Carries, At, SessionOf
    <2>2. ASSUME NEW i \in DOMAIN inbox, inbox[i].session = s,
                 inbox[i].sequence = n, ~IsCompletion(inbox[i])
          PROVE  Pending(s, n)'
      <3>1. CASE PopFailed(w)
        BY <2>2, <3>1 DEF PopFailed
      <3>2. CASE Pop(w) /\ i = 1
        <4>1. cur'[w] = inbox[i] /\ pc'[w] = "attach"
          BY <1>1, <3>2 DEF Pop, Goto
        <4> QED
          BY <2>2, <4>1 DEF Pending, At, SessionOf
      <3>3. CASE Pop(w) /\ i # 1
        <4>1. i - 1 \in DOMAIN inbox' /\ inbox'[i - 1] = inbox[i]
          <5>1. inbox' = Tail(inbox) /\ inbox # <<>>
            BY <3>3 DEF Pop
          <5> QED
            BY <1>1, <2>2, <3>3, <5>1
        <4> QED
          BY <2>2, <4>1 DEF Pending
      <3> QED
        BY <3>1, <3>2, <3>3
    <2> QED
      BY <1>1, <2>1, <2>2 DEF Pending, Carries
  <1> QED
    BY <1>1, <1>2 DEF NothingLostAt

\* A worker leaves the pool only when inbox_.pop fails or the pool is forced to stop.
LEMMA ExitStep ==
  ASSUME TurnInv, ExitDrained, [Next]_vars
  PROVE  ExitDrained'
  <1> SUFFICES ASSUME ~forced', NEW w \in Workers, pc'[w] = "exited"
               PROVE  inbox' = <<>> /\ inboxClosed'
    BY DEF ExitDrained
  <1>1. /\ ~forced /\ pc \in [Workers -> Labels]
        /\ inbox \in Seq(Event) /\ inboxClosed \in BOOLEAN
    <2>1. forced => forced'
      BY ZenonT(60) DEF Next, Run, Pop, PopFailed, Attach, Abandon, Discard, DiscardDrain,
         ParkEvent, ParkCompletion, ParkDisconnected, Park, Reject, StartTurn,
         ResumeTurn, SkipFailed, EnterHandler, Defer, HandlerReturns,
         HandlerThrows, MarkSessionFailed, AlreadyFailed, PublishOutbound,
         PublishRefused, Published, Retry, MarkSessionDeferred,
         CompleteSessionTurn, Jump, shared, stopVars, Completer, Complete,
         PushCompletion, PushCompletionRefused, Producer, EnqueuePacket,
         EnqueueDuplicate, EnqueueDisconnected, Enqueue, IoPop, BeginStop,
         ForceStop, ForceCloseInbox, ForceCloseOutbox, vars
    <2> QED
      BY SMTT(40), <2>1 DEF TurnInv, TypeOK
  <1>2. ASSUME NEW v \in Workers, Run(v) PROVE inbox' = <<>> /\ inboxClosed'
    <2>1. CASE PopFailed(v)
      BY <2>1 DEF PopFailed, Jump, shared, queues
    <2>2. CASE Pop(v)
      <3>1. v # w => pc[w] = "exited"
        BY <1>1, <2>2 DEF Pop, Goto
      <3>2. v # w
        BY <1>1, <2>2 DEF Pop, Goto
      <3> QED
        BY <1>1, <2>2, <3>1, <3>2 DEF ExitDrained, Pop
    <2>3. CASE ~Pop(v) /\ ~PopFailed(v)
      <3>1. PICK s \in Sessions : SessionOf(v) = s
        BY <1>2, <2>3, RunAtPop, RunAtSession
      <3>2. inbox' = inbox /\ (inboxClosed => inboxClosed')
        BY <1>2, <2>3
           DEF Run, Attach, Abandon, Discard, DiscardDrain, ParkEvent,
         ParkCompletion, ParkDisconnected, Park, Reject, StartTurn, ResumeTurn,
         SkipFailed, EnterHandler, Defer, HandlerReturns, HandlerThrows,
         MarkSessionFailed, AlreadyFailed, PublishOutbound, PublishRefused,
         Published, Retry, MarkSessionDeferred, CompleteSessionTurn, Jump,
         shared, queues, MaybeCloseInbox
      <3>3. pc[w] = "exited"
        <4> USE DEF Goto, Jump, Continue
        <4>1. CASE \/ Attach(v) \/ Discard(v) \/ DiscardDrain(v) \/ ParkEvent(v)
                   \/ ParkCompletion(v) \/ ParkDisconnected(v) \/ Reject(v)
                   \/ StartTurn(v) \/ ResumeTurn(v)
          BY <1>1, <4>1 DEF Attach, Discard, DiscardDrain, ParkEvent,
             ParkCompletion, ParkDisconnected, Park, Reject, StartTurn,
             ResumeTurn
        <4>2. CASE \/ SkipFailed(v) \/ EnterHandler(v) \/ HandlerReturns(v)
                   \/ HandlerThrows(v) \/ Retry(v) \/ MarkSessionDeferred(v)
          BY <1>1, <4>2 DEF SkipFailed, EnterHandler, HandlerReturns,
             HandlerThrows, Retry, MarkSessionDeferred
        <4>3. CASE Defer(v) \/ PublishOutbound(v) \/ PublishRefused(v)
          BY <4>3 DEF Defer, PublishOutbound, PublishRefused
        <4>4. CASE MarkSessionFailed(v) \/ AlreadyFailed(v)
          BY <1>1, <4>4 DEF MarkSessionFailed, AlreadyFailed
        <4>5. CASE Published(v)
          BY <1>1, <4>5 DEF Published
        <4>6. CASE CompleteSessionTurn(v)
          <5>1. PICK e : Continue(v, e)
            BY <3>1, <4>6, CompleteEffect DEF TurnInv
          <5> QED
            BY <1>1, <5>1
        <4>7. ~Abandon(v)
          BY <1>1 DEF Abandon
        <4> QED
          BY <1>2, <2>3, <4>1, <4>2, <4>3, <4>4, <4>5, <4>6, <4>7 DEF Run
      <3> QED
        BY <1>1, <3>2, <3>3 DEF ExitDrained
    <2> QED
      BY <2>1, <2>2, <2>3
  <1>3. ASSUME pc' = pc, inboxClosed => inbox' = inbox /\ inboxClosed'
        PROVE  inbox' = <<>> /\ inboxClosed'
    BY <1>1, <1>3 DEF ExitDrained
  <1>4. ASSUME NEW s \in Sessions, Completer(s) \/ Producer(s)
        PROVE  inbox' = <<>> /\ inboxClosed'
    <2>1. pc' = pc /\ inboxClosed' = inboxClosed
      BY <1>4 DEF Completer, Complete, PushCompletion, PushCompletionRefused,
         Producer, EnqueuePacket, EnqueueDuplicate, EnqueueDisconnected, Enqueue,
         queues, workerVars
    <2>2. ~inboxClosed \/ inbox' = inbox
      BY <1>4 DEF Completer, Complete, PushCompletion, PushCompletionRefused,
         Producer, EnqueuePacket, EnqueueDuplicate, EnqueueDisconnected, Enqueue,
         queues
    <2> QED
      BY <1>3, <2>1, <2>2
  <1>5. CASE \/ IoPop \/ BeginStop \/ ForceStop \/ ForceCloseInbox
             \/ ForceCloseOutbox \/ UNCHANGED vars
    <2>1. pc' = pc /\ inbox' = inbox
      BY <1>5 DEF IoPop, BeginStop, ForceStop, ForceCloseInbox,
         ForceCloseOutbox, vars, shared, queues, workerVars
    <2>2. inboxClosed => inboxClosed'
      BY <1>5 DEF IoPop, BeginStop, ForceStop, ForceCloseInbox,
         ForceCloseOutbox, vars, shared, queues, MaybeCloseInbox
    <2> QED
      BY <1>3, <2>1, <2>2
  <1> QED
    BY <1>2, <1>4, <1>5 DEF Next

LEMMA LostStep ==
  ASSUME TurnInv, EventInv, NothingLost, [Next]_vars
  PROVE  NothingLost'
  <1>1. TypeOK /\ TypeOK'
    BY NextType DEF TurnInv
  <1>2. ExitDrained'
    BY ExitStep DEF NothingLost
  <1>3. \A s \in Sessions : DropsFailed(s) /\ NothingLostAt(s)
    BY DEF NothingLost
  <1>4. ASSUME NEW w \in Workers, Run(w), NEW s \in Sessions
        PROVE  DropsFailed(s)' /\ NothingLostAt(s)'
    <2>1. CASE pc[w] = "pop"
      <3>1. Pop(w) \/ PopFailed(w)
        BY <1>4, <2>1, RunAtPop
      <3>2. /\ state' = state /\ pc'[w] \in {"attach", "exited"}
            /\ \A v \in Workers \ {w} : pc'[v] = pc[v] /\ cur'[v] = cur[v]
        BY <1>1, <3>1
           DEF Pop, PopFailed, Jump, Goto, shared, sessionVars, TypeOK, locals
      <3>3. DropsFailed(s)'
        BY <1>3, <3>2 DEF DropsFailed, At, SessionOf
      <3> QED
        BY <1>3, <3>1, <3>3, PopLost
    <2>2. CASE pc[w] # "pop"
      <3>1. PICK t \in Sessions : SessionOf(w) = t
        BY <1>4, <2>2, RunAtSession
      <3>2. CASE s = t
        BY <1>1, <1>3, <1>4, <2>2, <3>1, <3>2, RunLost, DropsKept
      <3>3. CASE s # t
        <4>1. OnlyAt(w, t)
          BY <1>1, <1>4, <2>2, <3>1, WorkerFrame
        <4>2. /\ state'[s] = state[s] /\ sent'[s] = sent[s] /\ inbox' = inbox
              /\ gone'[s] = gone[s] /\ forced' = forced
              /\ \A v \in Workers : At(v, s)' <=> At(v, s)
              /\ \A v \in Workers : At(v, s) => cur'[v] = cur[v] /\ pc'[v] = pc[v]
          BY <3>1, <3>3, <4>1 DEF OnlyAt, ioVars, stopVars, At, SameWorker,
                                  SessionOf
        <4>3. DropsFailed(s)'
          BY <1>3, <4>2 DEF DropsFailed
        <4>4. \A n \in state[s].next..sent[s] : Pending(s, n) => Pending(s, n)'
          BY <4>2 DEF Pending
        <4>5. NothingLostAt(s)'
          BY <1>3, <4>2, <4>4 DEF NothingLostAt
        <4> QED
          BY <4>3, <4>5
      <3> QED
        BY <3>2, <3>3
    <2> QED
      BY <2>1, <2>2
  <1>5. ASSUME UNCHANGED <<state, pc, cur>>, NEW s \in Sessions
        PROVE  DropsFailed(s)'
    BY <1>3, <1>5 DEF DropsFailed, At, SessionOf
  <1>6. ASSUME NEW t \in Sessions, Completer(t) \/ Producer(t), NEW s \in Sessions
        PROVE  DropsFailed(s)' /\ NothingLostAt(s)'
    <2>1. UNCHANGED <<state, pc, cur>>
      BY <1>6 DEF Completer, Complete, PushCompletion, PushCompletionRefused,
         Producer, EnqueuePacket, EnqueueDuplicate, EnqueueDisconnected, Enqueue,
         sessionVars, workerVars, locals
    <2> QED
      BY <1>3, <1>5, <1>6, <2>1, ProducerLost, CompleterLost
  <1>7. ASSUME \/ IoPop \/ BeginStop \/ ForceStop \/ ForceCloseInbox
               \/ ForceCloseOutbox \/ UNCHANGED vars,
               NEW s \in Sessions
        PROVE  DropsFailed(s)' /\ NothingLostAt(s)'
    <2>1. UNCHANGED <<state, pc, cur, inbox, sent, gone>>
      BY <1>7 DEF IoPop, BeginStop, ForceStop, ForceCloseInbox,
         ForceCloseOutbox, vars, shared, queues, workerVars, sessionVars, ioVars,
         locals
    <2>4. forced => forced'
      BY <1>7 DEF IoPop, BeginStop, ForceStop, ForceCloseInbox,
         ForceCloseOutbox, vars, shared, stopVars
    <2>2. \A n \in state[s].next..sent[s] : Pending(s, n) => Pending(s, n)'
      BY <2>1 DEF Pending, At, SessionOf
    <2>3. NothingLostAt(s)'
      BY <1>3, <2>1, <2>2, <2>4 DEF NothingLostAt
    <2> QED
      BY <1>5, <2>1, <2>3
  <1> QED
    BY <1>2, <1>4, <1>6, <1>7 DEF Next, NothingLost

LEMMA InitLost ==
  ASSUME Init
  PROVE  NothingLost /\ \A s \in Sessions : StrandedAt(s)
  <1>1. /\ \A w \in Workers : pc[w] = "pop"
        /\ \A s \in Sessions : /\ state[s] = FreshState
                               /\ sent[s] = 0 /\ ~gone[s]
    BY DEF Init
  <1>2. \A s \in Sessions : /\ state[s].parked = {} /\ state[s].next = 0
                            /\ state[s].pending = NoEvent
                            /\ state[s].early = NoEvent
    BY <1>1 DEF FreshState
  <1>3. \A s \in Sessions : StrandedAt(s)
    BY <1>2 DEF StrandedAt
  <1>4. ASSUME NEW s \in Sessions PROVE NothingLostAt(s)
    BY <1>1, <1>2 DEF NothingLostAt
  <1>5. ExitDrained /\ \A s \in Sessions : DropsFailed(s)
    BY <1>1 DEF ExitDrained, DropsFailed, At
  <1> QED
    BY <1>3, <1>4, <1>5 DEF NothingLost

-----------------------------------------------------------------------------
(* A number that is used once is in one place.                              *)

\* A step that leaves the inbox and the turn, and puts no event anywhere.
LEMMA KeepOnce ==
  ASSUME NEW s \in Sessions, NumbersOnce(s), repeated' = repeated,
         inbox' = inbox, state[s].failed => state'[s].failed,
         state'[s].next = state[s].next, state'[s].active = state[s].active,
         \A n \in Nat : ParkedAs(s, n)' => ParkedAs(s, n),
         \A v \in Workers, n \in Nat :
             Carries(v, s, n)' => Carries(v, s, n) /\ (InTurn(v) => InTurn(v)')
  PROVE  NumbersOnce(s)'
  <1> SUFFICES ASSUME repeated = 0, ~state'[s].failed, NEW n \in Nat
               PROVE  Once(s, n)'
    BY DEF NumbersOnce
  <1>1. Once(s, n)
    BY DEF NumbersOnce
  <1>2. /\ Turnless(s, n)' <=> Turnless(s, n)
        /\ \A i \in DOMAIN inbox : Inbound(i, s, n)' <=> Inbound(i, s, n)
    BY DEF Turnless, Inbound
  <1> QED
    BY <1>1, <1>2 DEF Once

\* No step but these two gives up a turn.
LEMMA TurnKept ==
  ASSUME TurnInv, NEW w \in Workers, Run(w), ~MarkSessionDeferred(w),
         ~CompleteSessionTurn(w)
  PROVE  InTurn(w) => InTurn(w)'
  <1>1. pc \in [Workers -> Labels]
    BY DEF TurnInv, TypeOK
  <1>2. CASE \/ EnterHandler(w) \/ SkipFailed(w) \/ ResumeTurn(w)
    BY <1>1, <1>2 DEF EnterHandler, SkipFailed, ResumeTurn, InTurn, Goto, Jump,
                      Starting
  <1>3. CASE ~EnterHandler(w) /\ ~SkipFailed(w) /\ ~ResumeTurn(w)
    <2>1. InTurn(w) => pc[w] # "check"
      BY <1>3 DEF Run, Pop, PopFailed, Attach, Abandon, Discard, DiscardDrain,
         ParkEvent, ParkCompletion, ParkDisconnected, Reject, StartTurn, Defer,
         HandlerReturns, HandlerThrows, MarkSessionFailed, AlreadyFailed,
         PublishOutbound, PublishRefused, Published, Publishing, Cutting, Retry,
         Starting
    <2> QED
      BY <1>3, <2>1, PastCheckKept DEF PastCheck
  <1> QED
    BY <1>2, <1>3

LEMMA RunOnce ==
  ASSUME TurnInv, TypeOK', EventInv, NEW w \in Workers, NEW s \in Sessions,
         SessionOf(w) = s, pc[w] # "pop", Run(w), DropsFailed(s),
         NumbersOnce(s)
  PROVE  NumbersOnce(s)'
  <1>1. OnlyAt(w, s)
    BY WorkerFrame
  <1>2. /\ state \in [Sessions -> SessionSequenceState] /\ TypeOK
        /\ state[s] \in SessionSequenceState /\ state[s].next \in Nat
        /\ pc \in [Workers -> Labels] /\ SessionInv(s) /\ EventInvAt(s)
    BY DEF TurnInv, TypeOK, SessionSequenceState, EventInv
  <1>3. repeated' = repeated /\ inbox' = inbox
    BY <1>1 DEF OnlyAt, ioVars
  <1>4. state[s].failed => state'[s].failed
    BY DropsKept
  <1>5. SUFFICES ASSUME repeated = 0, ~state'[s].failed PROVE NumbersOnce(s)'
    BY <1>3 DEF NumbersOnce
  <1>6. ~state[s].failed /\ \A n \in Nat : Once(s, n)
    BY <1>4, <1>5 DEF NumbersOnce
  <1>7. \A v \in Workers \ {w}, n \in Nat :
            /\ Carries(v, s, n)' <=> Carries(v, s, n)
            /\ InTurn(v)' <=> InTurn(v)
    BY <1>1 DEF OnlyAt, SameWorker, Carries, At, SessionOf, InTurn
  <1>8. \A n \in Nat, i \in DOMAIN inbox : Inbound(i, s, n)' <=> Inbound(i, s, n)
    BY <1>3 DEF Inbound
  <1>9. CASE StartTurn(w)
    <2>1. /\ state'[s].active /\ state'[s].next = state[s].next
          /\ state[s].next = cur[w].sequence /\ ~state[s].active
          /\ ~IsCompletion(cur[w])
      BY <1>6, <1>9, ProgressMade
    <2>2. state'[s].parked = state[s].parked
      <3>1. state'[s] = [state[s] EXCEPT !.next = cur[w].sequence,
                            !.active = TRUE,
                            !.activeDisconnect = IsDisconnected(cur[w])]
        BY <1>2, <1>9 DEF StartTurn
      <3> QED
        BY <1>2, <3>1 DEF SessionSequenceState
    <2>3. /\ Carries(w, s, state[s].next) /\ InTurn(w)'
          /\ \A n \in Nat : Carries(w, s, n)' <=> Carries(w, s, n)
      BY <1>2, <1>9, <2>1
         DEF StartTurn, Starting, Goto, Carries, At, InTurn, SessionOf
    <2>4. ASSUME NEW n \in Nat PROVE Once(s, n)'
      <3>1. ParkedAs(s, n)' <=> ParkedAs(s, n)
        BY <2>2 DEF ParkedAs
      <3>2. n # state[s].next => (Turnless(s, n)' <=> Turnless(s, n))
        BY <1>2, <2>1 DEF Turnless
      <3>3. n = state[s].next => \A v \in Workers : Carries(v, s, n) => v = w
        BY <1>6, <2>3 DEF Once
      <3>4. Once(s, n)
        BY <1>6
      <3>5. CASE n # state[s].next
        BY <1>3, <1>7, <1>8, <2>1, <2>3, <3>1, <3>2, <3>4, <3>5 DEF Once
      <3>6. CASE n = state[s].next
        BY <1>3, <1>7, <1>8, <2>1, <2>3, <3>1, <3>3, <3>4, <3>6 DEF Once
      <3> QED
        BY <3>5, <3>6
    <2> QED
      BY <2>4 DEF NumbersOnce
  <1>10. CASE MarkSessionDeferred(w)
    <2>1. /\ state'[s].next = state[s].next
          /\ state'[s].active = state[s].active
      BY <1>10, ProgressMade
    <2>2. state'[s].parked = state[s].parked
      <3>1. state'[s] = [state[s] EXCEPT !.awaiting = TRUE, !.early = NoEvent]
        BY <1>2, <1>10 DEF MarkSessionDeferred
      <3> QED
        BY <1>2, <3>1 DEF SessionSequenceState
    <2>3. \A n \in Nat : ~Carries(w, s, n)'
      <3>1. PICK e : /\ Continue(w, e)
                     /\ e = NoEvent \/ IsCompletion(e)
        <4>1. At(w, s)
          BY <1>10 DEF MarkSessionDeferred, At
        <4> QED
          BY <1>2, <1>10, <4>1
             DEF MarkSessionDeferred, EventInvAt, CompletionKinds, StateOf
      <3> QED
        BY <1>2, <3>1 DEF Continue, Goto, Carries, At, TypeOK
    <2>4. \A v \in Workers, n \in Nat :
              Carries(v, s, n)' => Carries(v, s, n) /\ (InTurn(v) => InTurn(v)')
      BY <1>7, <2>3
    <2>5. \A n \in Nat : ParkedAs(s, n)' => ParkedAs(s, n)
      BY <2>2 DEF ParkedAs
    <2> QED
      BY <1>3, <1>4, <2>1, <2>4, <2>5, KeepOnce
  <1>11. CASE CompleteSessionTurn(w)
    <2>1. PICK e : /\ state'[s] = AfterTurn(state[s], e)
                   /\ Handover(state[s], e) /\ Continue(w, e)
      BY <1>2, <1>11, CompleteEffect
    <2>2. /\ state'[s].next = state[s].next + 1 /\ ~state'[s].active
          /\ state'[s].parked = state[s].parked \ {e}
      BY <1>2, <2>1, AfterTurnFields
    <2>3. InTurn(w)
      BY <1>11 DEF CompleteSessionTurn, InTurn
    <2>4. state[s].next = cur[w].sequence /\ state[s].active
      BY <2>3, EnteredAlone
    <2>5. e # NoEvent => /\ e \in state[s].parked
                         /\ e.sequence = state[s].next + 1
      BY <1>6, <2>1 DEF Handover
    <2>6. \A d \in state'[s].parked : d.sequence # state[s].next + 1
      <3>1. CASE state[s].activeDisconnect
        <4>1. state[s].next = sent[s] /\ sent[s] \in Nat
          BY <1>2, <2>4, <3>1 DEF EventInvAt, NextBounded
        <4>2. ASSUME NEW d \in state[s].parked
              PROVE  d.sequence <= sent[s] /\ d.sequence \in Nat
          <5>1. d \in Event /\ ~IsCompletion(d) /\ Numbered(s, d)
            BY <1>2 DEF SessionSequenceState, SessionInv, KeptEvents, EventInvAt,
                        EventsNumbered
          <5>2. d.sequence \in Nat /\ d.kind \in {"Packet", "Disconnected"}
            BY <5>1, WorkerPoolAssumption DEF Event, Kinds, IsCompletion
          <5> QED
            BY <4>1, <5>1, <5>2 DEF Numbered, IsDisconnected
        <4> QED
          BY <2>2, <4>1, <4>2
      <3>2. CASE ~state[s].activeDisconnect
        <4>1. \A d, c \in state[s].parked : d.sequence = c.sequence => d = c
          BY <1>2 DEF EventInvAt, KeptApart
        <4>2. \/ e \in state[s].parked /\ e.sequence = state[s].next + 1
              \/ \A d \in state[s].parked : d.sequence # state[s].next + 1
          BY <1>6, <2>1, <3>2 DEF Handover
        <4> QED
          BY <2>2, <4>1, <4>2
      <3> QED
        BY <3>1, <3>2
    <2>7. \A n \in Nat : ParkedAs(s, n)' => ParkedAs(s, n) /\ n # state[s].next + 1
      BY <2>2, <2>6 DEF ParkedAs
    <2>8. \A n \in Nat : Carries(w, s, n)' =>
              /\ n = state[s].next + 1 /\ ParkedAs(s, n)
      <3>1. CASE e = NoEvent
        BY <1>2, <2>1, <3>1 DEF Continue, Goto, Carries, At
      <3>2. CASE e # NoEvent
        <4>1. cur'[w] = e
          BY <1>2, <2>1 DEF Continue, TypeOK
        <4> QED
          BY <2>5, <3>2, <4>1 DEF Carries, ParkedAs
      <3> QED
        BY <3>1, <3>2
    <2>9. \A v \in Workers : v # w => ~(InTurn(v) /\ SessionOf(v) = s)
      BY <1>2, <2>3 DEF SessionInv, OneTurn
    <2>10. ASSUME NEW n \in Nat PROVE Once(s, n)'
      <3>1. Once(s, n)
        BY <1>6
      <3>2. n > state[s].next => Turnless(s, n)'
        BY <1>2, <2>2 DEF Turnless
      <3>3. Turnless(s, n) => n > state[s].next
        BY <2>4 DEF Turnless
      <3>4. \A i \in DOMAIN inbox : Inbound(i, s, n) =>
                /\ Turnless(s, n)' /\ ~ParkedAs(s, n)'
                /\ \A v \in Workers : ~Carries(v, s, n)'
        BY <1>7, <2>7, <2>8, <3>1, <3>2, <3>3 DEF Once
      <3>5. \A v \in Workers : Carries(v, s, n)' => Turnless(s, n)' /\ ~ParkedAs(s, n)'
        <4>1. ASSUME NEW v \in Workers, v # w, Carries(v, s, n)'
              PROVE  Turnless(s, n)' /\ ~ParkedAs(s, n)'
          <5>1. Carries(v, s, n) /\ ~InTurn(v)
            BY <1>7, <2>9, <4>1 DEF Carries, At
          <5> QED
            BY <2>7, <3>1, <3>2, <3>3, <5>1 DEF Once
        <4>2. ASSUME Carries(w, s, n)'
              PROVE  Turnless(s, n)' /\ ~ParkedAs(s, n)'
          BY <1>2, <2>2, <2>7, <2>8, <4>2 DEF Turnless
        <4> QED
          BY <4>1, <4>2
      <3>6. \A v, u \in Workers : Carries(v, s, n)' /\ Carries(u, s, n)' => v = u
        BY <1>7, <2>8, <3>1 DEF Once
      <3>7. ParkedAs(s, n)' => n > state'[s].next
        <4>1. ParkedAs(s, n)' => n > state[s].next /\ n # state[s].next + 1
          BY <2>7, <3>1 DEF Once
        <4> QED
          BY <1>2, <2>2, <4>1
      <3> QED
        BY <1>3, <1>8, <3>1, <3>4, <3>5, <3>6, <3>7 DEF Once
    <2> QED
      BY <2>10 DEF NumbersOnce
  <1>12. CASE ParkEvent(w)
    <2>1. /\ pc[w] = "start" /\ At(w, s) /\ cur[w] \in Event
          /\ Parkable(cur[w], state[s]) /\ pc'[w] = "pop"
          /\ state'[s] = [state[s] EXCEPT !.parked = @ \cup {cur[w]}]
      BY <1>2, <1>12, WorkerPoolAssumption
         DEF ParkEvent, Park, Starting, Continue, Goto, At, StateOf, TypeOK
    <2>2. /\ state'[s].next = state[s].next
          /\ state'[s].active = state[s].active
          /\ state'[s].parked = state[s].parked \cup {cur[w]}
      BY <1>2, <2>1 DEF SessionSequenceState
    <2>3. ~IsCompletion(cur[w]) /\ ~TurnFree(cur[w], state[s])
          /\ ~state[s].closed
      BY <2>1 DEF Parkable, Ahead
    <2>4. cur[w].sequence \in Nat /\ Carries(w, s, cur[w].sequence)
      BY <2>1, <2>3, WorkerPoolAssumption DEF Event, Carries
    <2>5. cur[w].sequence > state[s].next
      <3>1. ~InTurn(w)
        BY <2>1 DEF InTurn
      <3>2. Turnless(s, cur[w].sequence)
        BY <1>6, <2>4, <3>1 DEF Once
      <3> QED
        BY <1>6, <2>3, <3>2 DEF Turnless, TurnFree
    <2>6. \A n \in Nat : ~Carries(w, s, n)'
      BY <2>1 DEF Carries, At
    <2>7. ASSUME NEW n \in Nat PROVE Once(s, n)'
      <3>1. Once(s, n)
        BY <1>6
      <3>2. Turnless(s, n)' <=> Turnless(s, n)
        BY <2>2 DEF Turnless
      <3>3. CASE n # cur[w].sequence
        <4>1. ParkedAs(s, n)' <=> ParkedAs(s, n)
          BY <2>2, <3>3 DEF ParkedAs
        <4> QED
          BY <1>3, <1>7, <1>8, <2>2, <2>6, <3>1, <3>2, <4>1 DEF Once
      <3>4. CASE n = cur[w].sequence
        <4>1. /\ \A i \in DOMAIN inbox : ~Inbound(i, s, n)
              /\ \A v \in Workers : Carries(v, s, n) => v = w
          BY <2>4, <3>1, <3>4 DEF Once
        <4>2. /\ \A i \in DOMAIN inbox' : ~Inbound(i, s, n)'
              /\ \A v \in Workers : ~Carries(v, s, n)'
          BY <1>3, <1>7, <1>8, <2>6, <4>1
        <4> QED
          BY <2>2, <2>5, <3>4, <4>2 DEF Once
      <3> QED
        BY <3>3, <3>4
    <2> QED
      BY <2>7 DEF NumbersOnce
  <1>13. CASE /\ ~StartTurn(w) /\ ~MarkSessionDeferred(w)
              /\ ~CompleteSessionTurn(w) /\ ~ParkEvent(w)
    <2>1. ~MarkSessionFailed(w)
      BY <1>5, ProgressMade
    <2>2. /\ state'[s].next = state[s].next
          /\ state'[s].active = state[s].active
      BY <1>13, <2>1, ProgressKept DEF Progress
    <2>3. /\ state'[s].parked = state[s].parked
          /\ \/ pc'[w] \in {"pop", "exited"}
             \/ cur'[w] = cur[w] /\ pc[w] \notin {"pop", "exited"}
      <3> USE DEF Goto, Jump, shared, sessionVars, locals
      <3>1. CASE Attach(w)
        BY <1>2, <3>1, AttachKeepsState DEF Attach
      <3>2. CASE \/ Discard(w) \/ Reject(w) \/ ResumeTurn(w) \/ SkipFailed(w)
                 \/ EnterHandler(w) \/ HandlerReturns(w) \/ HandlerThrows(w)
        BY <1>2, <3>2 DEF Discard, Reject, ResumeTurn, SkipFailed,
           EnterHandler, HandlerReturns, HandlerThrows, Starting
      <3>3. CASE Defer(w) \/ PublishOutbound(w) \/ PublishRefused(w)
        BY <1>2, <3>3 DEF Defer, PublishOutbound, PublishRefused, Publishing,
                          Cutting
      <3>4. CASE AlreadyFailed(w) \/ Published(w)
        BY <1>2, <3>4 DEF AlreadyFailed, Published, Publishing, Cutting
      <3>5. CASE Abandon(w) \/ DiscardDrain(w)
        BY <1>2, <3>5 DEF Abandon, DiscardDrain, Continue
      <3>6. CASE ParkCompletion(w) \/ ParkDisconnected(w)
        <4>1. /\ pc'[w] = "pop"
              /\ \/ state'[s] = [state[s] EXCEPT !.early = cur[w]]
                 \/ state'[s] = [state[s] EXCEPT !.pending = cur[w]]
          BY <1>2, <3>6 DEF ParkCompletion, ParkDisconnected, Park, StateOf,
                            Continue
        <4> QED
          BY <1>2, <4>1 DEF SessionSequenceState
      <3>7. CASE Retry(w)
        <4>1. state[s].closed
          BY <1>6, <3>7 DEF Retry, DropsFailed, At
        <4> QED
          BY <1>2, <3>7, <4>1 DEF Retry, Continue, StateOf, TypeOK
      <3>8. ~Pop(w) /\ ~PopFailed(w)
        BY DEF Pop, PopFailed
      <3> QED
        BY <1>13, <2>1, <3>1, <3>2, <3>3, <3>4, <3>5, <3>6, <3>7, <3>8 DEF Run
    <2>4. InTurn(w) => InTurn(w)'
      BY <1>13, TurnKept
    <2>5. \A v \in Workers, n \in Nat :
              Carries(v, s, n)' => Carries(v, s, n) /\ (InTurn(v) => InTurn(v)')
      BY <1>7, <2>3, <2>4 DEF Carries, At, SessionOf
    <2>6. \A n \in Nat : ParkedAs(s, n)' => ParkedAs(s, n)
      BY <2>3 DEF ParkedAs
    <2> QED
      BY <1>3, <1>4, <2>2, <2>5, <2>6, KeepOnce
  <1> QED
    BY <1>9, <1>10, <1>11, <1>12, <1>13

\* The event a worker takes from the inbox is there no longer.
LEMMA PopOnce ==
  ASSUME TurnInv, NEW w \in Workers, Pop(w) \/ PopFailed(w),
         NEW s \in Sessions, NumbersOnce(s)
  PROVE  NumbersOnce(s)'
  <1>1. /\ UNCHANGED <<state, repeated>> /\ pc[w] = "pop"
        /\ inbox \in Seq(Event) /\ pc \in [Workers -> Labels]
        /\ cur \in [Workers -> Event \cup {NoEvent}]
        /\ \A v \in Workers \ {w} : pc'[v] = pc[v] /\ cur'[v] = cur[v]
    BY DEF Pop, PopFailed, Jump, Goto, shared, sessionVars, ioVars, locals,
           TurnInv, TypeOK
  <1>2. \A v \in Workers \ {w}, n \in Nat :
            /\ Carries(v, s, n)' <=> Carries(v, s, n)
            /\ InTurn(v)' <=> InTurn(v)
    BY <1>1 DEF Carries, At, SessionOf, InTurn
  <1>3. CASE PopFailed(w)
    <2>1. inbox' = inbox /\ \A n \in Nat : ~Carries(w, s, n)'
      BY <1>1, <1>3 DEF PopFailed, Jump, Goto, shared, queues, Carries, At
    <2>2. \A n \in Nat : ParkedAs(s, n)' => ParkedAs(s, n)
      BY <1>1 DEF ParkedAs
    <2> QED
      BY <1>1, <1>2, <2>1, <2>2, KeepOnce
  <1>4. CASE Pop(w)
    <2>1. /\ \A i \in DOMAIN inbox' :
                i + 1 \in DOMAIN inbox /\ inbox'[i] = inbox[i + 1] /\ i \in Nat \ {0}
          /\ 1 \in DOMAIN inbox /\ Head(inbox) = inbox[1]
      <3>1. inbox' = Tail(inbox) /\ inbox # <<>>
        BY <1>4 DEF Pop
      <3> QED
        BY <1>1, <3>1
    <2>2. cur'[w] = inbox[1] /\ pc'[w] = "attach"
      BY <1>1, <1>4, <2>1 DEF Pop, Goto
    <2>3. ASSUME repeated = 0, ~state[s].failed, NEW n \in Nat
          PROVE  Once(s, n)'
      <3>1. Once(s, n)
        BY <2>3 DEF NumbersOnce
      <3>2. /\ Turnless(s, n)' <=> Turnless(s, n)
            /\ ParkedAs(s, n)' <=> ParkedAs(s, n)
        BY <1>1 DEF Turnless, ParkedAs
      <3>3. Carries(w, s, n)' <=> Inbound(1, s, n)
        BY <2>2 DEF Carries, At, SessionOf, Inbound
      <3>4. \A i \in DOMAIN inbox' : Inbound(i, s, n)' <=> Inbound(i + 1, s, n)
        BY <2>1 DEF Inbound
      <3>5. \A i, j \in DOMAIN inbox' :
                Inbound(i, s, n)' /\ Inbound(j, s, n)' => i = j
        <4>1. ASSUME NEW i \in DOMAIN inbox', NEW j \in DOMAIN inbox',
                     Inbound(i, s, n)', Inbound(j, s, n)'
              PROVE  i = j
          <5>1. i + 1 = j + 1
            BY <2>1, <3>1, <3>4, <4>1 DEF Once
          <5> QED
            BY <2>1, <5>1
        <4> QED
          BY <4>1
      <3>6. ASSUME NEW i \in DOMAIN inbox', Inbound(i, s, n)'
            PROVE  /\ Turnless(s, n) /\ ~ParkedAs(s, n)
                   /\ \A v \in Workers : ~Carries(v, s, n)'
        <4>1. Inbound(i + 1, s, n) /\ i + 1 \in DOMAIN inbox /\ i + 1 # 1
          BY <2>1, <3>4, <3>6
        <4>2. ~Inbound(1, s, n)
          BY <2>1, <3>1, <4>1 DEF Once
        <4> QED
          BY <1>2, <3>1, <3>3, <4>1, <4>2 DEF Once
      <3>7. ASSUME NEW v \in Workers, Carries(v, s, n)'
            PROVE  /\ ~ParkedAs(s, n)
                   /\ Turnless(s, n) \/ (n = state[s].next /\ InTurn(v)')
                   /\ \A u \in Workers : Carries(u, s, n)' => u = v
        <4>1. CASE v = w
          BY <1>2, <2>1, <3>1, <3>3, <3>7, <4>1 DEF Once
        <4>2. CASE v # w
          BY <1>2, <2>1, <3>1, <3>3, <3>7, <4>2 DEF Once
        <4> QED
          BY <4>1, <4>2
      <3> QED
        BY <1>1, <3>1, <3>2, <3>5, <3>6, <3>7 DEF Once
    <2> QED
      BY <1>1, <2>3 DEF NumbersOnce
  <1> QED
    BY <1>3, <1>4

\* An event more in the inbox.  It is a completion, of another session, or has a
\* number that is nowhere.
LEMMA AppendedOnce ==
  ASSUME TypeOK, NEW s \in Sessions, NumbersOnce(s), NEW e \in Event,
         inbox' = Append(inbox, e), UNCHANGED <<state, pc, cur, repeated>>,
         e.session = s /\ ~IsCompletion(e) =>
            /\ Turnless(s, e.sequence) /\ ~ParkedAs(s, e.sequence)
            /\ \A i \in DOMAIN inbox : ~Inbound(i, s, e.sequence)
            /\ \A v \in Workers : ~Carries(v, s, e.sequence)
  PROVE  NumbersOnce(s)'
  <1>1. DOMAIN inbox' = DOMAIN inbox \cup {Len(inbox) + 1}
        /\ (\A i \in DOMAIN inbox : inbox'[i] = inbox[i])
        /\ inbox'[Len(inbox) + 1] = e
        /\ Len(inbox) + 1 \notin DOMAIN inbox
    <2>1. inbox \in Seq(Event)
      BY DEF TypeOK
    <2> QED
      BY <2>1
  <1> DEFINE k == Len(inbox) + 1
  <1> HIDE DEF k
  <1>2. ASSUME repeated = 0, ~state[s].failed, NEW n \in Nat
        PROVE  Once(s, n)'
    <2>1. Once(s, n)
      BY <1>2 DEF NumbersOnce
    <2>2. /\ Turnless(s, n)' <=> Turnless(s, n)
          /\ ParkedAs(s, n)' <=> ParkedAs(s, n)
          /\ \A v \in Workers : /\ Carries(v, s, n)' <=> Carries(v, s, n)
                                /\ InTurn(v)' <=> InTurn(v)
      BY DEF Turnless, ParkedAs, Carries, At, SessionOf, InTurn
    <2>3. /\ \A i \in DOMAIN inbox : Inbound(i, s, n)' <=> Inbound(i, s, n)
          /\ \A i \in DOMAIN inbox' : i \in DOMAIN inbox \/ i = k
      BY <1>1 DEF Inbound, k
    <2>4. ASSUME NEW i, i = k, Inbound(i, s, n)'
          PROVE  /\ Turnless(s, n) /\ ~ParkedAs(s, n)
                 /\ \A j \in DOMAIN inbox : ~Inbound(j, s, n)
                 /\ \A v \in Workers : ~Carries(v, s, n)
      <3>1. e.session = s /\ e.sequence = n /\ ~IsCompletion(e)
        BY <1>1, <2>4 DEF Inbound, k
      <3> QED
        BY <3>1
    <2> QED
      BY <2>1, <2>2, <2>3, <2>4 DEF Once
  <1> QED
    BY <1>2 DEF NumbersOnce

LEMMA CompleterOnce ==
  ASSUME TurnInv, EventInv, NEW t \in Sessions, Completer(t), NEW s \in Sessions,
         NumbersOnce(s)
  PROVE  NumbersOnce(s)'
  <1>1. UNCHANGED <<state, pc, cur, repeated>> /\ TypeOK
    BY DEF Completer, Complete, PushCompletion, PushCompletionRefused,
           sessionVars, workerVars, locals, ioVars, TurnInv
  <1>2. inbox' = inbox \/ \E e \in Event : inbox' = Append(inbox, e) /\ IsCompletion(e)
    <2>1. CASE PushCompletion(t)
      BY <2>1 DEF PushCompletion, TurnInv, TypeOK, EventInv, EventInvAt,
                  CompletionKinds
    <2>2. CASE ~PushCompletion(t)
      BY <2>2 DEF Completer, Complete, PushCompletionRefused, queues
    <2> QED
      BY <2>1, <2>2
  <1>3. CASE inbox' = inbox
    BY <1>1, <1>3, KeepOnce DEF ParkedAs, Carries, At, SessionOf, InTurn
  <1>4. CASE \E e \in Event : inbox' = Append(inbox, e) /\ IsCompletion(e)
    BY <1>1, <1>4, AppendedOnce
  <1> QED
    BY <1>2, <1>3, <1>4

\* The number the I/O thread is at is new.
LEMMA FreshNumber ==
  ASSUME TurnInv, EventInv, NEW s \in Sessions, ~gone[s]
  PROVE  /\ Turnless(s, sent[s]) /\ ~ParkedAs(s, sent[s])
         /\ \A i \in DOMAIN inbox : ~Inbound(i, s, sent[s])
         /\ \A v \in Workers : ~Carries(v, s, sent[s])
  <1>1. /\ TypeOK /\ EventInvAt(s) /\ SessionInv(s)
        /\ state[s] \in SessionSequenceState /\ state[s].next \in Nat
    BY DEF TurnInv, TypeOK, EventInv, SessionSequenceState
  <1>2. sent[s] \in Nat
    <2>1. sent[s] \in 0..MaxEvents
      BY <1>1 DEF TypeOK
    <2> QED
      BY <2>1, WorkerPoolAssumption
  <1>3. ASSUME NEW e \in Event, ~IsCompletion(e), Numbered(s, e)
        PROVE  e.sequence # sent[s]
    <2>1. e.kind = "Packet"
      BY <1>3 DEF Event, Kinds, IsCompletion, Numbered, IsDisconnected
    <2> QED
      BY <1>2, <1>3, <2>1 DEF Numbered
  <1>4. \A i \in DOMAIN inbox : ~Inbound(i, s, sent[s])
    <2>1. \A i \in DOMAIN inbox : inbox[i] \in Event
      BY <1>1 DEF TypeOK
    <2> QED
      BY <1>1, <1>3, <2>1 DEF Inbound, EventInvAt, EventsNumbered
  <1>5. \A v \in Workers : ~Carries(v, s, sent[s])
    <2>1. \A v \in Workers : At(v, s) => cur[v] \in Event
      BY <1>1 DEF TypeOK, At
    <2> QED
      BY <1>1, <1>3, <2>1 DEF Carries, EventInvAt, EventsNumbered
  <1>6. ~ParkedAs(s, sent[s])
    <2>1. \A e \in state[s].parked : e \in Event /\ ~IsCompletion(e)
      BY <1>1 DEF SessionSequenceState, SessionInv, KeptEvents
    <2> QED
      BY <1>1, <1>3, <2>1 DEF ParkedAs, EventInvAt, EventsNumbered
  <1>7. ~state[s].closed
    BY <1>1 DEF EventInvAt, DisconnectedLast, DisconnectTaken
  <1>8. ~(state[s].active /\ state[s].activeDisconnect)
    <2>1. SUFFICES ASSUME state[s].active, state[s].activeDisconnect PROVE FALSE
      OBVIOUS
    <2>2. PICK w \in Workers : /\ InTurn(w) /\ SessionOf(w) = s
                               /\ IsDisconnected(cur[w])
      BY <1>1, <2>1 DEF EventInvAt, TurnOwned
    <2>3. At(w, s)
      BY <2>2 DEF InTurn, At
    <2> QED
      BY <1>1, <2>2, <2>3 DEF EventInvAt, EventsNumbered, Numbered
  <1>9. Turnless(s, sent[s])
    BY <1>1, <1>2, <1>7, <1>8 DEF Turnless, EventInvAt, NextBounded
  <1> QED
    BY <1>4, <1>5, <1>6, <1>9

LEMMA ProducerOnce ==
  ASSUME TurnInv, EventInv, NEW t \in Sessions, Producer(t), NEW s \in Sessions,
         NumbersOnce(s)
  PROVE  NumbersOnce(s)'
  <1>1. TypeOK /\ sent \in [Sessions -> 0..MaxEvents] /\ repeated \in Nat
    BY WorkerPoolAssumption DEF TurnInv, TypeOK
  <1>2. UNCHANGED <<state, pc, cur>>
    BY DEF Producer, EnqueuePacket, EnqueueDuplicate, EnqueueDisconnected,
           Enqueue, sessionVars, workerVars, locals
  <1>3. CASE EnqueueDuplicate(t)
    <2>1. repeated' # 0
      BY <1>1, <1>3 DEF EnqueueDuplicate
    <2> QED
      BY <2>1 DEF NumbersOnce
  <1>4. CASE EnqueuePacket(t) \/ EnqueueDisconnected(t)
    <2>1. PICK kind \in {"Packet", "Disconnected"} :
              /\ inbox' = Append(inbox, [kind |-> kind, session |-> t,
                                         sequence |-> sent[t], failed |-> FALSE])
              /\ ~gone[t] /\ repeated' = repeated
      BY <1>4 DEF EnqueuePacket, EnqueueDisconnected, Enqueue
    <2> DEFINE e == [kind |-> kind, session |-> t, sequence |-> sent[t],
                     failed |-> FALSE]
    <2>2. /\ e \in Event /\ e.session = t /\ e.sequence = sent[t]
          /\ inbox' = Append(inbox, e)
      BY <1>1, <2>1 DEF Event, Kinds
    <2> HIDE DEF e
    <2> QED
      BY <1>1, <1>2, <2>1, <2>2, FreshNumber, AppendedOnce
  <1> QED
    BY <1>3, <1>4 DEF Producer

LEMMA OnceStep ==
  ASSUME TurnInv, EventInv, NothingLost, \A s \in Sessions : NumbersOnce(s),
         [Next]_vars, NEW s \in Sessions
  PROVE  NumbersOnce(s)'
  <1>1. TypeOK /\ TypeOK' /\ DropsFailed(s) /\ NumbersOnce(s)
    BY NextType DEF TurnInv, NothingLost
  <1>2. ASSUME NEW w \in Workers, Run(w) PROVE NumbersOnce(s)'
    <2>1. CASE pc[w] = "pop"
      BY <1>1, <1>2, <2>1, RunAtPop, PopOnce
    <2>2. CASE pc[w] # "pop"
      <3>1. PICK t \in Sessions : SessionOf(w) = t
        BY <1>2, <2>2, RunAtSession
      <3>2. CASE s = t
        BY <1>1, <1>2, <2>2, <3>1, <3>2, RunOnce
      <3>3. CASE s # t
        <4>1. OnlyAt(w, t)
          BY <1>1, <1>2, <2>2, <3>1, WorkerFrame
        <4>2. state'[s] = state[s] /\ inbox' = inbox /\ repeated' = repeated
          BY <3>3, <4>1 DEF OnlyAt, ioVars
        <4>3. ASSUME NEW v \in Workers, NEW n \in Nat, Carries(v, s, n)'
              PROVE  Carries(v, s, n) /\ (InTurn(v) => InTurn(v)')
          <5>1. v # w
            BY <3>3, <4>1, <4>3 DEF OnlyAt, Carries, At
          <5> QED
            BY <4>1, <4>3, <5>1
               DEF OnlyAt, SameWorker, Carries, At, SessionOf, InTurn
        <4> QED
          BY <1>1, <4>2, <4>3, KeepOnce DEF ParkedAs
      <3> QED
        BY <3>2, <3>3
    <2> QED
      BY <2>1, <2>2
  <1>3. CASE \E t \in Sessions : Completer(t) \/ Producer(t)
    BY <1>1, <1>3, CompleterOnce, ProducerOnce
  <1>4. CASE \/ IoPop \/ BeginStop \/ ForceStop \/ ForceCloseInbox
             \/ ForceCloseOutbox \/ UNCHANGED vars
    <2>1. UNCHANGED <<state, pc, cur, inbox, repeated>>
      BY <1>4 DEF IoPop, BeginStop, ForceStop, ForceCloseInbox,
         ForceCloseOutbox, vars, shared, queues, workerVars, sessionVars, ioVars,
         locals
    <2> QED
      BY <1>1, <2>1, KeepOnce DEF ParkedAs, Carries, At, SessionOf, InTurn
  <1> QED
    BY <1>2, <1>3, <1>4 DEF Next

LEMMA InitOnce ==
  ASSUME Init, NEW s \in Sessions
  PROVE  NumbersOnce(s)
  <1>1. /\ inbox = <<>> /\ state[s].parked = {}
        /\ \A w \in Workers : pc[w] = "pop"
    BY DEF Init, FreshState
  <1> QED
    BY <1>1 DEF NumbersOnce, Once, Carries, At, ParkedAs

-----------------------------------------------------------------------------
\* All of it, which is inductive.
PoolInv ==
    /\ TurnInv /\ EventInv
    /\ OutstandingExact /\ CutsInv
    /\ OutboxInOrder /\ NothingLost
    /\ \A s \in Sessions : /\ HandledAt(s) /\ OutboxBehind(s)
                           /\ StrandedAt(s) /\ NumbersOnce(s)

LEMMA InitPool == Init => PoolInv
  BY InitTurn, InitEvents, InitOrder, InitLost, InitOnce DEF PoolInv

LEMMA NextPool == PoolInv /\ [Next]_vars => PoolInv'
  <1> SUFFICES ASSUME PoolInv, [Next]_vars PROVE PoolInv'
    OBVIOUS
  <1>1. TurnInv' /\ EventInv' /\ OutstandingExact' /\ CutsInv'
    BY NextTurn, NextEvents, OutstandingStep, CutStep DEF PoolInv
  <1>2. OutboxInOrder' /\ \A s \in Sessions : OutboxBehind(s)'
    BY OutboxStep DEF PoolInv
  <1>3. \A s \in Sessions : HandledAt(s)'
    BY HandledStep DEF PoolInv
  <1>4. \A s \in Sessions : StrandedAt(s)'
    BY StrandedStep DEF PoolInv
  <1>5. NothingLost'
    BY LostStep DEF PoolInv
  <1>6. \A s \in Sessions : NumbersOnce(s)'
    BY OnceStep DEF PoolInv
  <1> QED
    BY <1>1, <1>2, <1>3, <1>4, <1>5, <1>6 DEF PoolInv

\* An event parked ahead has its predecessor at work or on its way; one whose number
\* is past is left only where a number was used again.
LEMMA ParkedHasTurn ==
  ASSUME PoolInv, NEW s \in Sessions, NEW e \in state[s].parked
  PROVE  \/ repeated > 0 /\ Overtaken(e, state[s])
         \/ /\ e.sequence > state[s].next
            /\ state[s].active \/ forced \/ OnItsWay(s, state[s].next)
  <1>1. /\ TypeOK /\ SessionInv(s) /\ EventInvAt(s)
        /\ StrandedAt(s) /\ NumbersOnce(s) /\ NothingLostAt(s)
    BY DEF PoolInv, TurnInv, EventInv, NothingLost
  <1>2. /\ state[s] \in SessionSequenceState /\ state[s].next \in Nat
        /\ repeated \in Nat /\ sent[s] \in Nat
    <2>1. sent[s] \in 0..MaxEvents /\ repeated \in 0..MaxRepeats
      BY <1>1 DEF TypeOK
    <2> QED
      BY <1>1, <2>1, WorkerPoolAssumption DEF TypeOK, SessionSequenceState
  <1>3. e \in Event /\ ~IsCompletion(e) /\ Numbered(s, e) /\ ~state[s].failed
    BY <1>1, <1>2 DEF SessionSequenceState, SessionInv, KeptEvents, EventInvAt,
                      EventsNumbered, KeptApart
  <1>4. e.sequence \in Nat /\ e.kind \in {"Packet", "Disconnected"}
    BY <1>3, WorkerPoolAssumption DEF Event, Kinds, IsCompletion
  <1>5. repeated = 0 => e.sequence > state[s].next
    BY <1>1, <1>3, <1>4 DEF NumbersOnce, Once, ParkedAs
  <1>6. CASE e.sequence <= state[s].next
    <2>1. e.sequence = state[s].next => state[s].active
      BY <1>1, <1>3 DEF StrandedAt
    <2> QED
      BY <1>2, <1>4, <1>5, <1>6, <2>1 DEF Overtaken
  <1>7. CASE e.sequence > state[s].next
    <2>1. SUFFICES ASSUME ~state[s].active, ~forced
                   PROVE  OnItsWay(s, state[s].next)
      BY <1>7
    <2>2. e.sequence <= sent[s]
      BY <1>2, <1>3, <1>4 DEF Numbered, IsDisconnected
    <2>3. ~state[s].closed
      BY <1>1, <1>2, <1>3, <1>4, <1>7, <2>2 DEF EventInvAt, NextBounded
    <2>4. state[s].next \in state[s].next..sent[s] /\ state[s].next < sent[s]
      BY <1>2, <1>4, <1>7, <2>2
    <2>5. Pending(s, state[s].next)
      BY <1>1, <1>3, <2>1, <2>3, <2>4 DEF NothingLostAt
    <2>6. \A d \in state[s].parked : d.sequence # state[s].next
      BY <1>1, <1>3, <2>1 DEF StrandedAt
    <2> QED
      BY <2>5, <2>6 DEF Pending, At, OnItsWay
  <1> QED
    BY <1>2, <1>4, <1>6, <1>7

LEMMA PoolInvOrder == PoolInv => InOrder /\ CountsExact /\ NothingStranded
  <1> SUFFICES ASSUME PoolInv PROVE InOrder /\ CountsExact /\ NothingStranded
    OBVIOUS
  <1>1. HandledInOrder
    BY DEF PoolInv, HandledAt, HandledInOrderAt, HandledInOrder
  <1>2. NoResurrection
    BY ClosedHasNothing DEF PoolInv
  <1>3. CutOnce
    BY DEF PoolInv, CutsInv, CutInv, CutOnce
  <1>4. NothingStranded
    BY ParkedHasTurn DEF PoolInv, StrandedAt, NothingStranded, Rejecting, Deferring
  <1> QED
    BY <1>1, <1>2, <1>3, <1>4 DEF PoolInv, InOrder, CountsExact

\* With the workers gone and nobody forced nothing is pending, so all was handled.
LEMMA DrainedHandlesAll == PoolInv => GracefulStopHandlesAll
  <1> SUFFICES ASSUME PoolInv, ~forced, \A w \in Workers : pc[w] = "exited",
                      NEW s \in Sessions, ~state[s].failed, ~state[s].awaiting
               PROVE  Len(handled[s]) = sent[s] + (IF gone[s] THEN 1 ELSE 0)
    BY DEF GracefulStopHandlesAll
  <1>1. inbox = <<>>
    BY SomeWorker DEF PoolInv, NothingLost, ExitDrained
  <1>2. ~state[s].active
    BY DEF PoolInv, EventInv, EventInvAt, TurnOwned, InTurn
  <1>3. ~Entered(s)
    BY DEF Entered, InTurn
  <1>4. Len(handled[s]) = state[s].next
    <2>1. Len(handled[s]) = state[s].next + 0
      BY <1>3 DEF PoolInv, HandledAt, HandledInv
    <2>2. state[s].next \in Nat
      BY DEF PoolInv, TurnInv, TypeOK, SessionSequenceState
    <2> QED
      BY <2>1, <2>2
  <1>5. CASE state[s].closed
    <2>1. state[s].next = sent[s] + 1 /\ gone[s]
      BY <1>5 DEF PoolInv, EventInv, EventInvAt, NextBounded, DisconnectedLast,
                  DisconnectTaken
    <2> QED
      BY <1>4, <2>1
  <1>6. CASE ~state[s].closed
    <2>1. state[s].next <= sent[s]
      BY <1>2, <1>6 DEF PoolInv, EventInv, EventInvAt, NextBounded
    <2>2. state[s].next \in Nat /\ sent[s] \in Nat
      <3>1. state[s].next \in Nat /\ sent[s] \in 0..MaxEvents
        BY DEF PoolInv, TurnInv, TypeOK, SessionSequenceState
      <3> QED
        BY <3>1, WorkerPoolAssumption
    <2>3. ~Pending(s, state[s].next)
      <3>1. \A e \in state[s].parked : e.sequence # state[s].next
        BY <1>2 DEF PoolInv, StrandedAt
      <3> QED
        BY <1>1, <3>1 DEF Pending, At
    <2>4. state[s].next \in state[s].next..sent[s]
      BY <2>1, <2>2
    <2>5. ~(state[s].next < sent[s] \/ gone[s])
      <3>1. NothingLostAt(s)
        BY DEF PoolInv, NothingLost
      <3> QED
        BY <1>2, <1>6, <2>3, <2>4, <3>1 DEF NothingLostAt
    <2> QED
      BY <1>4, <2>1, <2>2, <2>5
  <1> QED
    BY <1>5, <1>6

\* The events of a session take effect once and in their order, whatever the
\* workers' interleaving: each packet is handled as the next one, the Disconnected
\* last, answers leave in the order of their events, and a closed session is never
\* started anew (tryStartSessionTurn and completeSessionTurn, lines 446-530).
THEOREM EventsInOrder == Spec => []InOrder
  BY InitPool, NextPool, PoolInvOrder, PTL DEF Spec

\* outstanding_deferred_ is the number of sessions that wait for a completion, and
\* a session is cut off once however many of its events fail (lines 397-425).
THEOREM CountsAlwaysExact == Spec => []CountsExact
  BY InitPool, NextPool, PoolInvOrder, PTL DEF Spec

\* What a session parks, sets aside or gets early has someone who takes it up: a
\* parked event waits for the turn that is active or for an earlier event that is
\* queued or with a worker, a Disconnected set aside for a turn or for the worker
\* that failed the session, an early completion for the worker that defers its
\* event.  The exception is an event whose number another event came with and had
\* its turn with: it stays, and there is none unless the producer uses a number
\* twice (lines 304-319 and 404-530).
THEOREM NothingEverStranded == Spec => []NothingStranded
  BY InitPool, NextPool, PoolInvOrder, PTL DEF Spec

\* A graceful stop ends the workers only after every event that was enqueued has been
\* handled, except those of failed sessions and behind an event whose completion
\* never came (maybeCloseInboxForDrainLocked; inbox_.pop, lines 261-285).
THEOREM GracefulStopLosesNothing == Spec => []GracefulStopHandlesAll
  BY InitPool, NextPool, DrainedHandlesAll, PTL DEF Spec

=============================================================================
