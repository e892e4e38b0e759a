------------------------ MODULE WorkerPoolInvariant -------------------------
(***************************************************************************)
(* Why a turn of WorkerPool is exclusive.  The turn of a deferred event is   *)
(* given up by one worker and resumed by whichever takes its completion, so  *)
(* there must never be two completions for it.  A completion is in one of    *)
(* seven places between defer() and the worker that resumes the turn.        *)
(***************************************************************************)
EXTENDS WorkerPool

\* A handler of session s has deferred and not yet returned.
DeferringHandler(s) ==
    \E w \in Workers : /\ pc[w] = "handler" /\ deferred[w]
                       /\ SessionOf(w) = s

\* Completing the object of the session's last defer() has an effect: not when
\* its handler threw.
Answerable(s) == completion[s].returned \/ DeferringHandler(s)

\* The places: not yet called, ...
Open(s) ==
    completion[s].made /\ ~completion[s].completed /\ Answerable(s)

\* ... left with the running handler (inline_payload), ...
Inline(s) == completion[s].inline # NoEvent /\ Answerable(s)

\* ... taken by the worker that publishes and defers, ...
Inlined(s) ==
    \E w \in Workers : inlined[w] # NoEvent /\ SessionOf(w) = s

\* ... about to be pushed, ...
Pushed(s) == pushing[s] # NoEvent

\* ... in the inbox, ...
QueuedAt(s, i) ==
    i \in DOMAIN inbox /\ IsCompletion(inbox[i]) /\ inbox[i].session = s
Queued(s) == \E i \in DOMAIN inbox : QueuedAt(s, i)

\* ... the event a worker is at, ...
HeldBy(s, w) ==
    /\ pc[w] \notin {"pop", "exited"}
    /\ IsCompletion(cur[w]) /\ SessionOf(w) = s
Held(s) == \E w \in Workers : HeldBy(s, w)

\* ... or early_completion.
Early(s) == state[s].early # NoEvent

\* A completion that was handed over by complete() after the handler returned.
Delivered(s) == Inlined(s) \/ Pushed(s) \/ Queued(s) \/ Held(s) \/ Early(s)

Token(s) == Open(s) \/ Inline(s) \/ Delivered(s)

-----------------------------------------------------------------------------
\* The completion of the session is in one place, once.
OneCompletionOf(s) ==
    /\ Open(s) => ~Inline(s) /\ ~Delivered(s)
    /\ Inline(s) => ~Delivered(s)
    /\ Inlined(s) => ~Pushed(s) /\ ~Queued(s) /\ ~Held(s) /\ ~Early(s)
    /\ Pushed(s) => ~Queued(s) /\ ~Held(s) /\ ~Early(s)
    /\ Queued(s) => ~Held(s) /\ ~Early(s)
    /\ Held(s) => ~Early(s)
    /\ \A i, j \in DOMAIN inbox : QueuedAt(s, i) /\ QueuedAt(s, j) => i = j
    /\ \A v, w \in Workers : HeldBy(s, v) /\ HeldBy(s, w) => v = w

\* A deferred event has at most one completion, in one place, until its turn is
\* over, whoever calls complete() and however often (lines 51-77).
OneCompletion == \A s \in Sessions : OneCompletionOf(s)

\* TurnExclusion at the session, which is in the map while a worker has the turn.
OneTurn(s) ==
    \A w \in Workers : InTurn(w) /\ SessionOf(w) = s =>
        /\ state[s].active /\ ~state[s].closed /\ mapped[s]
        /\ state[s].next = cur[w].sequence
        /\ \A v \in Workers : InTurn(v) /\ SessionOf(v) = s => v = w

\* The worker has the turn of an event itself, not of its completion: the session
\* does not await one, and there is none before the handler has deferred.
FirstTurn(s) ==
    \A w \in Workers :
        InTurn(w) /\ SessionOf(w) = s /\ ~IsCompletion(cur[w]) =>
            ~state[s].awaiting /\ (~deferred[w] => ~Token(s))

\* Only an active session waits for, or has, a completion.
CompletionActive(s) ==
    /\ Token(s) => state[s].active /\ mapped[s]
    /\ state[s].awaiting => state[s].active

\* handler_returned and completed of the deferred completion.
CompletionFlags(s) ==
    /\ Delivered(s) => completion[s].returned
    /\ completion[s].inline # NoEvent => completion[s].completed
    /\ \A w \in Workers :
          pc[w] = "handler" /\ deferred[w] /\ SessionOf(w) = s =>
              completion[s].made /\ ~completion[s].returned

\* Past intake: the worker has a reference to the state of its event's session.
PastIntake(w) == pc[w] \notin {"pop", "attach", "exited"}

\* The state a worker refers to is in the map, or the session was closed.
Attached(s) ==
    \A w \in Workers :
        PastIntake(w) /\ SessionOf(w) = s => mapped[s] \/ state[s].closed

\* Events are kept with their own session, completions only as such.
KeptEvents(s) ==
    /\ \A e \in state[s].parked : ~IsCompletion(e) /\ e.session = s
    /\ state[s].pending # NoEvent =>
          ~IsCompletion(state[s].pending) /\ state[s].pending.session = s
    /\ state[s].early # NoEvent => state[s].early.session = s
    /\ pushing[s] # NoEvent => pushing[s].session = s
    /\ completion[s].inline # NoEvent => completion[s].inline.session = s

SessionInv(s) ==
    /\ OneCompletionOf(s)
    /\ OneTurn(s)
    /\ FirstTurn(s)
    /\ CompletionActive(s)
    /\ CompletionFlags(s)
    /\ Attached(s)
    /\ KeptEvents(s)

\* The worker's local variables about a deferral are set only during it.
DeferralLocal(w) ==
    /\ deferred[w] => /\ pc[w] \in {"handler", "publish", "defer"}
                      /\ ~IsCompletion(cur[w])
    /\ pc[w] = "defer" => deferred[w]
    /\ inlined[w] # NoEvent => /\ deferred[w] /\ pc[w] # "handler"
                               /\ inlined[w].session = SessionOf(w)

\* The inductive invariant behind TurnExclusion.
TurnInv ==
    /\ TypeOK
    /\ \A s \in Sessions : SessionInv(s)
    /\ \A w \in Workers : DeferralLocal(w)

\* The turns of a session are one after the other, also when one is given up and
\* taken up again: one worker has it, one completion ends it, and the worker that
\* defers still has it when the handler returns (lines 414-416 never throw).
TurnsSafe == TurnExclusion /\ OneCompletion /\ DeferIsLegal
-----------------------------------------------------------------------------
(* Why the events of a session take effect in order, and why none is lost.   *)

\* The worker is at an event of the session.
At(w, s) == pc[w] \notin {"pop", "exited"} /\ SessionOf(w) = s

\* The number the I/O thread gave to an event: packets count up, the Disconnected
\* is the last.
Numbered(s, e) ==
    /\ e.kind = "Packet" => e.sequence < sent[s]
    /\ IsDisconnected(e) => e.sequence = sent[s] /\ gone[s]

\* Every event of the session that is queued, worked on or kept has its number.
EventsNumbered(s) ==
    /\ \A i \in DOMAIN inbox : inbox[i].session = s => Numbered(s, inbox[i])
    /\ \A w \in Workers : At(w, s) => Numbered(s, cur[w])
    /\ \A e \in state[s].parked : Numbered(s, e)
    /\ state[s].pending # NoEvent => Numbered(s, state[s].pending)

\* What is kept as a completion is one.
CompletionKinds(s) ==
    /\ state[s].early # NoEvent => IsCompletion(state[s].early)
    /\ pushing[s] # NoEvent => IsCompletion(pushing[s])
    /\ completion[s].inline # NoEvent => IsCompletion(completion[s].inline)
    /\ \A w \in Workers : At(w, s) /\ inlined[w] # NoEvent =>
          IsCompletion(inlined[w])

\* A failed session keeps nothing but its Disconnected; a healthy one keeps its
\* events by their numbers.
KeptApart(s) ==
    /\ state[s].failed => state[s].parked = {}
    /\ state[s].pending # NoEvent =>
          state[s].failed /\ IsDisconnected(state[s].pending)
    /\ \A d, e \in state[s].parked : d.sequence = e.sequence => d = e

\* The Disconnected of the session is kept, or some worker is at it.
KeepsDisconnected(s) ==
    (\E e \in state[s].parked : IsDisconnected(e)) \/ state[s].pending # NoEvent
AtDisconnected(w, s) == At(w, s) /\ IsDisconnected(cur[w])

\* The Disconnected has left the inbox.
DisconnectTaken(s) ==
    \/ state[s].closed \/ KeepsDisconnected(s)
    \/ \E w \in Workers : AtDisconnected(w, s)

\* The session has one Disconnected, which is nowhere once it is closed.
OneDisconnected(s) ==
    /\ \A v, w \in Workers : AtDisconnected(v, s) /\ AtDisconnected(w, s) => v = w
    /\ \A w \in Workers : AtDisconnected(w, s) =>
          ~state[s].closed /\ ~KeepsDisconnected(s)
    /\ KeepsDisconnected(s) => ~state[s].closed

\* It is the last event of its session: behind it, in the inbox and after it was
\* taken, there are only completions.
DisconnectedLast(s) ==
    /\ \A i, j \in DOMAIN inbox :
          (/\ i < j /\ inbox[i].session = s /\ inbox[j].session = s
           /\ IsDisconnected(inbox[i])) => IsCompletion(inbox[j])
    /\ DisconnectTaken(s) =>
          /\ gone[s]
          /\ \A i \in DOMAIN inbox :
                inbox[i].session = s => IsCompletion(inbox[i])
          /\ \A w \in Workers : pc[w] = "attach" /\ SessionOf(w) = s =>
                cur[w].kind # "Packet"

\* A session outside the map has no state yet, or is closed for ever.
MappedOrClosed(s) ==
    /\ state[s].closed => ~state[s].active /\ ~mapped[s]
    /\ ~mapped[s] /\ ~state[s].closed => state[s] = FreshState

\* Whose turn it is: a worker's, or nobody's while the event waits for its
\* completion, which only packets do.
TurnOwned(s) ==
    /\ \A w \in Workers : InTurn(w) /\ SessionOf(w) = s =>
          /\ state[s].activeDisconnect <=> IsDisconnected(cur[w])
          /\ IsCompletion(cur[w]) =>
                state[s].awaiting /\ pc[w] \notin {"check", "handler"}
          /\ deferred[w] => cur[w].kind = "Packet"
    /\ state[s].awaiting => ~state[s].activeDisconnect
    /\ state[s].active /\ ~state[s].awaiting =>
          \E w \in Workers : InTurn(w) /\ SessionOf(w) = s

\* next_sequence against the numbers given.
NextBounded(s) ==
    /\ state[s].active =>
          IF state[s].activeDisconnect THEN state[s].next = sent[s]
          ELSE state[s].next < sent[s]
    /\ ~state[s].active /\ ~state[s].closed => state[s].next <= sent[s]
    /\ state[s].closed /\ ~state[s].failed => state[s].next = sent[s] + 1

EventInvAt(s) ==
    /\ EventsNumbered(s) /\ CompletionKinds(s) /\ KeptApart(s)
    /\ OneDisconnected(s) /\ DisconnectedLast(s)
    /\ MappedOrClosed(s) /\ TurnOwned(s) /\ NextBounded(s)

\* The inductive invariant behind InOrder and NothingStranded, with TurnInv.
EventInv == \A s \in Sessions : EventInvAt(s)

\* The session is cut by the worker that failed it, and by no other.
CutInv(s) ==
    /\ \A w \in Workers : Cutting(w) /\ SessionOf(w) = s =>
          /\ state[s].failed /\ left[w] + cuts[s] <= 1
          /\ \A v \in Workers : Cutting(v) /\ SessionOf(v) = s => v = w
    /\ ~state[s].failed => cuts[s] = 0
    /\ cuts[s] <= 1

\* The handler has been entered in the turn that is under way.
Entered(s) ==
    \/ state[s].awaiting
    \/ \E w \in Workers : InTurn(w) /\ SessionOf(w) = s /\ pc[w] # "check"

\* The events handled so far are those before next_sequence, and the one of the
\* turn; a Disconnected is handled in the last turn.
HandledInv(s) ==
    /\ ~state[s].failed =>
          Len(handled[s]) = state[s].next + (IF Entered(s) THEN 1 ELSE 0)
    /\ \A i \in DOMAIN handled[s] :
          /\ ~IsCompletion(handled[s][i])
          /\ IsDisconnected(handled[s][i]) =>
                \/ state[s].closed
                \/ state[s].active /\ state[s].activeDisconnect /\ Entered(s)

\* Nothing in the outbox is of an event after the one of the turn.
OutboxBehind(s) ==
    \A i \in DOMAIN outbox : outbox[i].session = s /\ ~outbox[i].cut =>
        outbox[i].sequence <= state[s].next

\* An event of the session with this number is queued, worked on or parked.
Pending(s, n) ==
    \/ \E i \in DOMAIN inbox : /\ inbox[i].session = s /\ inbox[i].sequence = n
                               /\ ~IsCompletion(inbox[i])
    \/ \E w \in Workers : /\ At(w, s) /\ cur[w].sequence = n
                          /\ ~IsCompletion(cur[w])
    \/ \E e \in state[s].parked : e.sequence = n

\* An event is dropped only once its session is failed or closed.
DropsFailed(s) ==
    \A w \in Workers :
        At(w, s) /\ pc[w] \in {"discarded", "rejectCut", "retry"} =>
            state[s].failed \/ state[s].closed

\* Unless it is forced to stop the pool loses no event of a healthy session: each
\* number given and not handled has its turn or is pending.
NothingLostAt(s) ==
    ~forced /\ ~state[s].failed /\ ~state[s].closed =>
        \A n \in state[s].next..sent[s] :
            n < sent[s] \/ gone[s] =>
                (n = state[s].next /\ state[s].active) \/ Pending(s, n)

\* A worker leaves a pool that is not forced to stop only when it is drained.
ExitDrained ==
    ~forced => \A w \in Workers : pc[w] = "exited" => inbox = <<>> /\ inboxClosed

NothingLost ==
    /\ ExitDrained
    /\ \A s \in Sessions : DropsFailed(s) /\ NothingLostAt(s)
-----------------------------------------------------------------------------
(* Why no parked event is passed over as long as no number is used twice.    *)

\* Where the event of the session with this number is: in the inbox, ...
Inbound(i, s, n) ==
    inbox[i].session = s /\ inbox[i].sequence = n /\ ~IsCompletion(inbox[i])

\* ... with a worker, ...
Carries(w, s, n) ==
    At(w, s) /\ cur[w].sequence = n /\ ~IsCompletion(cur[w])

\* ... or parked.
ParkedAs(s, n) == \E e \in state[s].parked : e.sequence = n

\* The number has not had its turn.
Turnless(s, n) == n > state[s].next \/ (n = state[s].next /\ ~state[s].active)

\* There is one such event at most, in one place, and its turn is still to come
\* unless the worker that is at it has it.
Once(s, n) ==
    /\ \A i, j \in DOMAIN inbox : Inbound(i, s, n) /\ Inbound(j, s, n) => i = j
    /\ \A i \in DOMAIN inbox : Inbound(i, s, n) =>
          /\ Turnless(s, n) /\ ~ParkedAs(s, n)
          /\ \A w \in Workers : ~Carries(w, s, n)
    /\ \A v, w \in Workers : Carries(v, s, n) /\ Carries(w, s, n) => v = w
    /\ \A w \in Workers : Carries(w, s, n) =>
          /\ Turnless(s, n) \/ (n = state[s].next /\ InTurn(w))
          /\ ~ParkedAs(s, n)
    /\ ParkedAs(s, n) => n > state[s].next

NumbersOnce(s) ==
    repeated = 0 /\ ~state[s].failed => \A n \in Nat : Once(s, n)
=============================================================================
