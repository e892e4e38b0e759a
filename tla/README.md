# TLA+ models of realtime-session-server

The server accepts TCP sessions, frames their bytes into packets, runs a
message router on a pool of worker threads, and sends what the router emits back
through the I/O thread. This directory holds TLA+ modules translated from the
source, the TLC configurations that check them, and TLAPS proofs.

Run a check with `tlc -workers 2 -config MCWorkerPoolOrder.cfg MCWorkerPool`, a proof with
`tlapm WorkerPoolProofs.tla`. `PROJECT.json` lists the runs, the mutants that
show each property can fail, the source lines behind each definition, the
hazards, and the theorems.

## The system

| Part | State | Operations | Interacts with |
| --- | --- | --- | --- |
| `TcpServer` (one I/O thread) | sessions by fd, registration tokens, deferred reads and disconnects, read pause, shutdown phase and deadline | accept, read and decode, flush, drain the outbox, idle expiry, pause and resume reads, shutdown | pushes session events into the inbox with `tryPush`, pops the outbox, is woken through two eventfds |
| `Session` | codec buffer, write queue and its byte limit, event sequence, closing flag | enqueue bytes, flush, next sequence | owned by the I/O thread |
| `ReadBackpressureController` | one flag, two watermarks | size grew, capacity available | I/O thread |
| `BoundedBlockingQueue` | queue, closed flag, two condition variables | push, tryPush, pop, tryPop, close | inbox, outbox and the database's task queue |
| `WorkerPool` | per session: next sequence, active turn, awaiting completion, failed, closed, parked events; count of outstanding deferrals; stop flags | `run`, `beginStop`, `forceStop`; `defer` and completion | pops the inbox, calls the handler, pushes the outbox; completions come from any thread |
| `MessageRouter` | negotiated version of each session | handle a packet or a disconnect | called by workers; calls `RoomService` and the user repository; defers logins |
| `RoomService`, `Lobby`, `Room` | users, room of each session, rooms with members and positions | attach, create, join, leave, chat, position, disconnect | called by workers and by the threads that complete logins |
| `PostgresExecutor`, `PostgresUserRepository` | task queue, connections, accepting flag | start, submit, stop, run | answers logins on its own threads |
| protocol library | codec buffer | framing, payload fields, version ranges | server and clients |
| Qt client controller | connection, session and room state, pending requests, negotiation timer | user actions, transport events, answers | its transport |
| tools | statistics | load scenarios, console client | clients of the server |

What is hard, and hardly reached by tests: events of one session in the hands of
several workers; completions that overtake the worker that defers, or come from
another thread at any time; failures with a disconnect parked behind them; the
drain of a graceful stop; notifications sent after the unlock; state kept twice.
The list, with lines, is in `PROJECT.json` under `hazards`.

What makes each part correct:

* queue: a FIFO within its capacity; nobody sleeps while there is work; `close`
  releases everyone;
* pool: one turn of a session at a time, events in order, every disconnect
  handled, one cut per failed session, a stop that ends, a graceful stop that
  loses nothing;
* rooms: the two records of membership agree, rooms live as long as they are
  occupied, broadcasts stay in the room;
* I/O loop: reads resume when there is room, every session that goes gets its
  `Disconnected` after its packets, nothing is delivered through a reused
  descriptor, shutdown completes by its deadline;
* router: nothing but negotiation before it is done, no user left behind by a
  late login, at most one answer per request, and one where the budgets of an
  event refuse nothing;
* executor: one answer per request, one user per name, no connection used after
  it is finished;
* codec and negotiation: the packets sent are the packets received, the highest
  common version is agreed on, nothing is read ahead;
* client: state, timer, pending request and socket agree with each other and with
  the server;
* scenario runner: every run ends, and a report without failures is complete.

## Modules

| Module | Models |
| --- | --- |
| `BoundedQueue` | what the queue promises: a FIFO with atomic push and pop |
| `BoundedBlockingQueue` | the queue with its mutex sections, condition variables, late notifications and spurious wakeups; implements `BoundedQueue` |
| `WorkerPool` | the pool, with the I/O thread, the handler and the completing threads as environment |
| `WorkerPoolInvariant` | where the completion of a deferred event is, and the inductive invariant of the pool's turns |
| `SessionEvents` | what the I/O thread promises the workers about the events of a session |
| `TcpServer` | the I/O thread with its sessions, backpressure, deferred input, output and shutdown; implements `SessionEvents` |
| `RoomService` | users, rooms, members, positions |
| `MessageRouter` | the router over `RoomService`, which it extends: negotiation, requests, late logins, disconnects |
| `UserRepository` | what a user repository promises; as it stands, the in-memory one |
| `PostgresExecutor` | the executor's threads and queue, and the repository's statements; implements `UserRepository` |
| `PacketCodec` | framing over a byte stream in pieces |
| `ClientVersionNegotiation` | the Linux clients' blocking negotiation, and the version ranges |
| `ClientController` | the Qt client's controller and transport, with a server |
| `ScenarioRunner` | one run of the load scenario tool |
| `MC...` and `.cfg` | instances for TLC |
| `...Proofs` | theorems and proofs |

`TcpServer`, `MessageRouter`, `PostgresExecutor` and `ScenarioRunner` have a
variable (`config`, `setup`, `faults`, `options`) that is chosen in the initial
state from a constant set and never changes: one run then covers several
configurations. `config` is the code's `config_`.

### BoundedBlockingQueue

A section under `mutex_` is one step. `notify_one` and `notify_all` follow the
unlock in the code, so each is a step of its own. A thread is `idle`, in `wait`,
`woken` (it will evaluate the loop condition again) or about to `notify`. A
`tryPush` or `tryPop` that succeeds is a push or pop that did not wait; one that
fails changes nothing. The waiter counters are not modelled.

### WorkerPool

A worker's position in `run()` is its `pc`; the labels are listed with their
meaning in the module. A step is what a thread does under one lock, or one queue
operation. `state[s]` is the `SessionSequenceState` of a session and `mapped[s]`
says whether `sequence_by_session_` has it. The ways of `tryStartSessionTurn` are
the predicates `Discarded`, `CompletionDue`, `CompletionEarly`, `TurnFree`,
`DisconnectPending`, `InvalidSequence`, `ParkedLimit` and `Parkable`, each the
guard of one action. `completion[s]` is the object of the session's last
`defer()`; `pushing[s]` is a completion between the unlock of its mutex and its
push. The flag that `complete()` reads first is read together with its section.

Left out: notifiers and statistics (null by default), message contents, the
byte budget (a handler may emit any number of messages up to the limit, and one
`DisconnectSession`). The handler may return, defer once on a packet, or throw.
The queues behave as `BoundedQueue` says, which `BoundedBlockingQueue`
implements. `handled` and `cuts` are history variables.

The producer numbers the events of a session from 0, its `Disconnected` comes
last. It may reuse up to `MaxRepeats` numbers, as the test
`DuplicateSequenceCountsOneFailurePerSession` does.

### RoomService

Every operation holds `RoomService::mutex_` and is one step; a refused call
changes nothing and is no step. Membership is kept twice, as in the code:
`roomOf` and `members`. `result` holds the last answer, for the property about
broadcasts.

### TcpServer

The I/O thread is one sequential process. `io.pc` is the function it is in, the
other fields of `io` are that call's locals; a step is one operation on state it
shares (a queue, an eventfd, `stop_requested_`, the clock, a socket) with the
local work up to the next one. `Enter...` and `...Return` are calls and returns,
since `readSession`, `drainDeferredInput`, `drainOutbound` and `flushSession` are
called from several places.

* Loop: `LoopTop`, `Wait`, `NextEvent`, `HandleWakeup`, `HandleSession`,
  `FlushEvent`, `EndOfEvents`, `ExpireIdle`. `Wait` takes what is ready into
  `batch`; its events are handled in any order, and a token whose session is gone
  is skipped (`Current`).
* Input: `Accept`, `ReadSession`, `Decode`, `EnqueueDecoded`, `Disconnect`, and
  `drainDeferredInput` as `DrainDisconnects` to `ResumeClosed`, with its budget. The
  budget is looked at before a deferred read is begun (`Yield`) and behind its next
  packet (`DrainReadsDecode`): a read whose codec has no packet left is done, even
  with the budget used up, and then the thread does not wake itself.
* Output: `DrainOutbound`, `FlushSend`, `FlushEnd`, `TryEnqueue`, `ConsumeWrite`.
* Shutdown: `BeginShutdown`, `Advance...`, `ForceShutdown`, `Join`, `FlushAll`,
  `CloseResources`; `Fail` is the exception path of `run()`.

The inbox is its size, since the thread only reads `size()` and the outcome of
`tryPush`; `log` records what was pushed. Bytes are counted, a frame is `packet`
or `bad`. The pool pops, notifies exactly at the low watermark, defers and
completes, and finishes when told to, without the order `WorkerPool` checks. A
worker with a message for the outbox waits while it is full (`WorkerEmit`,
`WorkerPush`) and does not end its turn before; a graceful stop may end the pool
under a deferred event, as the run `pool_graceful_stop` shows it does.
`accept4` gives the lowest free descriptor, so numbers are reused at once.
A failing system call of epoll or an eventfd takes the path of a failing
`accept4` and is not listed separately.

### MessageRouter

A locked section of the router or of `RoomService` is one step, each push to the
outbox another; turns of different sessions interleave. That a session has one
turn at a time is `WorkerPool`'s `TurnsSafe`. `AttachUser` runs in
`LoginCallback`, on a database thread. `stage` is where the turn of a session is,
`out` what it still has to publish, `delivered` what the session was sent.
`context.emit` refuses what exceeds the number of messages of an event, or its
bytes (`mayNotFit`: it may refuse any of them), and a handler stops at the first
refusal (`Emit`), the answer included: a `JoinRoomRes` that is refused leaves the
room changed and nobody told. Every malformed payload is the packet `invalid`.

### PostgresExecutor and UserRepository

Callers, threads and `stop` interleave between the flag, the queue and the
database. The table is READ COMMITTED: a statement sees the rows of its start
and conflicts with those of its end, which is why an insertion may return no row
and is followed by `kFindSql`. `connect`, thread creation, `submit` and
statements may fail, with or without the connection (`resultErrorKind`), or lose the
connection after the row was made. `stop` clears the flag and closes the queue in
two steps, as `submit` reads the flag without the mutex. In
`UserRepository` a step finds or makes the user of a name and answers, at most
once; `InMemoryUserRepository` does just that under its mutex.

### PacketCodec, ClientVersionNegotiation

The codec's bytes are real, with a small base instead of 256: `WriteU16` and
`ReadU16` are the conversion, `buffer` and `head` the consumed prefix and its
compaction. The server peeks and consumes, the client drains: `Offsets` and
`Drained` are the loop of `drainPackets`. The negotiation
counts bytes: partial sends, reads of any length, interrupted calls, `poll`
returning early, the deadline, a peer that closes or is not the server.

### ClientController

All of the client is one thread: a step is one user action or one signal with
everything it calls, signals emitted inside it included. The server is honest
(it answers as `MessageRouter` does) or sends anything; the network delivers in
order, and drops the connection at any time.

### ScenarioRunner

`main` sets the clients up, launches a receiver and a sender per client, opens
the barrier, joins and adds up. `MayTakeTicket` and `MinimumReceived` are the
send window. A call of `ScenarioClient` is its outcome. The server is external.

## Runs

| Run | Instance | Shows |
| --- | --- | --- |
| `queue` | 2 producers, 2 consumers, 2 closers, capacity 2, 2 values | `NoLostWakeup`; `WakeupsArrive`: sleepers are woken and `close` releases all; `ImplementsQueue` |
| `pool_order` | 2 workers, 1 session, 2 packets and a disconnect, one sequence number used again | `TurnsSafe` (one turn, one completion, legal deferral), `InOrder` (handling, output, no resurrection), `CountsExact` (outstanding deferrals, one cut per session), `NothingStranded` (a parked event is ahead of a turn or of an event on its way, unless its number was used twice), `GracefulStopHandlesAll` |
| `pool_live` | the same without repeated numbers, with fairness | `EventsEnd`: disconnects are handled and deferred events end; `StopEndsWorkers` |
| `pool_graceful_stop` | 2 workers, 1 session, 1 packet | violation, see below |
| `tcp_server` | six configurations, see below | `WakeupDue`, `DeferredWithinLimit`, `InterestExact`, `DeliveredToOwner`, `GracefulSendsAll`, and `KeepsPromise`: the events of each session are those of `SessionEvents` |
| `tcp_live` | 1 session; 3 packets, a deferral and a reset; a stop with output, a worker waiting for the full outbox, or with a deferral | `InputMoves`: paused reads resume, every session that goes is reported; `StopEnds`, and nothing is pushed behind `beginStop` |
| `router` | 2 sessions, 2 rooms, three setups: moving between rooms, anything with messages that do not fit, a budget of one message | `RoomsConsistent`, `BroadcastStaysInRoom`, `EachRequestAnswered` (at most one answer; one where the budgets refuse nothing), `TellsRooms` (answers agree with `RoomService` if their bytes fit, broadcasts if there is a message for everyone; nobody hears of an entry before the one who entered), `VersionFirst`, `NoGhosts` |
| `postgres` | 2 threads, 3 requests for one new name, a queue of one; without and with faults | `NoUseAfterFinish`, `RaceIsNoError`, `EveryRequestAnswered`, `ImplementsRepository` |
| `client` | an honest server with 3 packets under way, any server with 2 | `Coherent`, `InStep` (requests the server can serve, a pending request exactly while its answer is due, agreeing states), `NegotiationEnds` |
| `codec` | 4 frames of 4 to 6 bytes, sizes 0, 3 and 7 malformed, threshold 5 | `ReceivedIsSent`, `ErrorIsJustified`, `LittleWaste` |
| `negotiation` | all ranges of 3 versions, honest and other peers | `AgreedIsHighestCommon`, `RestIsLeft`, `ClientReturns` |
| `scenario` | four runs: 2 fast and 1 slow client with failing tasks, 3 clients in 2 rooms, an external server that loses and repeats, threads that fail to start | `CleanIsComplete`, `WithinWindow`, `RunEnds` |

The bounds let every interesting case happen.

* Pool: one packet defers while the second and the disconnect are with the other
  worker or parked, where one place is free; a third event of the session exists
  as the duplicate. Both queues fill up. A session's state is independent of the
  others', and the proofs below lift the turns to any number.
* Queue: two threads in each role give every pair of waiter and notifier; the
  state space is finite without a bound on calls.
* `tcp_server`: two sessions with malformed frames compete for an inbox of 3 with
  watermarks 1 and 2; with one descriptor and an inbox of 2 a second session
  arrives while the first one's input is put off; writes of 2 units with a limit
  of 3 and flushes of 2 are sent in parts and overflow; a message meets the
  successor of its session, idle sessions expire; `stop()` and the deadline come
  at any step of 3 packets, of which one is put off, or of 2 packets and a
  message, and `accept4` and the session's set-up fail. The work budget is 2 (1 in `tcp_live`), so that it runs out.
* Router: two sessions suffice for a room with one member left behind; 4 or 5
  packets per session are a login, a room, a change of room and one more.
* Postgres: three requests on two threads and one queue place give a race, a
  queued request and a refused one.
* Client: buffers of 3 packets hold an answer, a broadcast and an error.
* Codec: the threshold lies within one frame, so compaction falls on each byte.
* Scenario: a window of 2 with 3 senders makes them wait for each other.

Sessions and workers are symmetry sets in `pool_order` and `router`; no run with
a liveness property uses symmetry. Deadlock is not checked where the system may
really stop: a pool or server that was stopped, clients with nothing more to
send. The `queue` run checks it.

Fairness. In the queue, a thread that was woken gets the mutex eventually and a
thread makes the notifications it owes; nobody must call an operation. In the
pool, every worker is scheduled (handlers return), a deferred completion is
called by whoever has it, the I/O thread keeps taking output, a started
`forceStop` finishes; nobody must enqueue or stop. The first holds of the
scheduler, the second of the router, whose callback ends in `succeed` or `fail`
on every path. In `TcpServer` the I/O thread and the workers are scheduled and
the clock reaches the deadline. In `PostgresExecutor` the threads and the callers
that have begun are scheduled, and a statement ends (libpq's timeout). In the
client the event loop handles what has arrived, the timer fires, a connection
attempt ends and a closing socket closes. In the negotiation and the scenario
runner threads are scheduled and deadlines pass. No peer, user or server is
assumed to send, answer or leave.

### Graceful stop and deferred events

`pool_graceful_stop` is expected to fail. `beginStop` closes the inbox when it
is empty, no session has anything under way and no deferral is outstanding. An
event that a worker has popped and not yet started is in none of these places.
If its handler then defers (a login), the completion finds the inbox closed,
`succeed` returns false, the workers end and the answer is lost, although
`GracefulStopWaitsForDeferredCompletion` expects the pool to wait.
`GracefulStopHandlesAll` shows that the handling of the event itself is not lost.

## Proofs

The theorems hold for every number of threads, workers, sessions, requests, rooms,
versions, clients and packets, and every capacity, that the named assumptions
allow: capacities and limits are positive, the sets of threads, sessions and names
are finite, there is a worker, no thread is both producer and consumer of a queue,
payloads are bytes and a malformed size lies outside the limits. All of these the
code's own configuration checks or types give. TLC evaluates each on its run, and
each inductive invariant was model-checked before it was proved.

* `QueueAndCodecProofs`, about two parts that stand alone. The queue:
  `WakeupNeverLost` and `Implementation`. The inductive invariant is `TypeOK` with the three parts of `NoLostWakeup`. It is
  inductive as it stands because they are stated with counts: every value (free
  slot) is matched by a notification to come or a thread already woken.
  `MoveProducer` and `MoveConsumer` say what one thread's step does to the
  counts. `Implementation` maps `queue` and `closed` to themselves: `Push`, `Pop`
  and `Close` are steps of `BoundedQueue`, all others stutter.
  The codec: `CodecHandsOnWhatWasSent`, `CodecErrorsAreJustified` and
  `CodecWastesLittle`, for every base, packet size, threshold and set of payloads.
  None says what is in the bytes that are still under way, so `CodecInv` does: there
  are offsets at which the bytes in the buffer and on the wire are the frames of the
  packets not yet handed on, one after the other (`Layout`). Sending adds a frame
  (`LayoutGrows`), compaction and feeding move bytes and keep the stream
  (`CompactSameBytes`, `StreamFed`), taking drops whole frames (`LayoutShrinks`).
  At such an offset `packetFrameAt` sees the packet that was sent, or nothing, or a
  malformed header that was sent (`AtFrame`). That the loop of `drainPackets` stays
  on these offsets (`OffsetsAtEnds`) is an induction over its turns.
* `WorkerPoolProofs`: type correctness, which contains the limits of both
  queues, of the parked events and of a published batch; and `TurnsAlwaysSafe`,
  from `TurnExclusion`, `OneCompletion` and `DeferIsLegal`, without any assumption
  on the producer's sequence numbers. Exclusion is not inductive: a deferred turn
  is given up by one worker and resumed by the one that takes the completion, so
  a second completion would give it to two. `TurnInv` (in `WorkerPoolInvariant`)
  therefore follows the completion through its places: not yet called, left with
  the running handler, taken by its worker, about to be pushed, in the inbox, with
  a worker, or early. It is in one of them at a time, only while the session is
  active, and never while a worker has the turn of an event that has not
  deferred. A step concerns one session: `WorkerTurn` and `SessionTurn` reduce
  the proof to that session, where each action has a lemma; `Elsewhere` covers
  all others.
* `WorkerPoolProofs` then proves `EventsInOrder`, `CountsAlwaysExact`,
  `NothingEverStranded` and `GracefulStopLosesNothing`, from `PoolInv`, which adds
  to `TurnInv`, in this order:
  - `EventInv`: every event still carries the number it was given, wherever it is;
    a session has one `Disconnected`, behind it come only completions, and no
    packet is attached once it was taken (this is why a closed session is not
    started anew); `next_sequence` keeps to the numbers given;
  - `StrandedAt`, for what waits on a turn or on a worker: the next event of an idle
    session, a pending disconnect, an early completion; and `CutInv`: only the worker
    that failed a session cuts it, and its remaining cut and those made are at most one;
  - `NumbersOnce`: as long as no number was used twice, each event is in one place,
    the inbox, a worker or parked, and one that is parked is ahead of
    `next_sequence` (`Once`, `Turnless`). So an event is overtaken while it is parked
    only by another one with its number;
  - `HandledInv` and `OutboxBehind`: `handled` is as long as `next_sequence` says, plus one in a turn
    that has entered its handler, and nothing in the outbox is ahead of it, so the
    next event appended is the next in order;
  - the count of `outstanding_deferred_`, as the cardinality of the set of sessions
    that await a completion;
  - `NothingLost`: every number that was given and not handled has its turn, or is
    in the inbox, with a worker or parked, unless the pool is forced. A worker
    leaves only a closed and empty inbox, where that leaves the turn alone.
* `MessageRouterProofs` first proves `RoomsAlwaysConsistent` of `RoomService`. The
  invariant conjoins types, consistency of membership, occupancy and positions; a
  leaving member keeps occupancy only because the two records of membership agree.
  The action properties (broadcasts stay in the room, ids are not reused) follow
  from it. `RouterUsesRooms` shows that every step of the router is
  a step of `RoomService` or leaves it alone, so that the theorems about
  `RoomService` hold of it while the router runs (`RouterRoomsConsistent`,
  `RouterBroadcasts`). `NeverGhosts` shows that nothing is left of a session
  after its `Disconnected`. `GhostInv` adds that a login is under way only in a
  deferred turn and that an ended session is in no turn but its own, with its
  user gone once `disconnect` has returned. `VersionAlwaysFirst` needs what other
  turns may still publish: `VersionInv` says that a user has been sent something
  (`Served`), and that each message a turn has ready goes to such a session,
  except a `VersionRes` or a cut of its own (`Emitted`). `RequestsAlwaysAnswered`
  needs a balance, `Counted` in `AnswerInv`: answers sent and the one the turn owes
  (a login under way or a message still to be published) are at most the requests
  taken, and equal to them where the budgets refuse nothing (`Roomy`).
  Broadcasts do not disturb it, as a turn never broadcasts to its own session.
  `RoomsAlwaysTold` is about what was delivered, while calls and broadcasts of
  several workers interleave. It rests on this: only its own turn moves a session,
  so what that turn has yet to publish is true until it ends (`MoveTrue`,
  `NewsTrue`), and what was delivered is true of everything nothing is due about
  (`AnswerTold`, `NewsTold`). Both assume what the code needs: bytes that fit for the
  answers (`Fits`), and a message for everyone for the broadcasts (`Roomy`), since
  what is refused is lost. That nobody hears of an entry before the one who entered
  (`JoinersToldFirst`) holds for every budget: `JoinInv` says that a `JOIN` still to
  be published comes behind its `JoinRoomRes`, which is delivered because the
  session it answers is not cut.
* `PostgresExecutorProofs`: `NeverUsedAfterFinish`, `RaceNeverAnError` and the
  refinement `RepositoryImplemented`, from `ExecutorInv`. Its parts: threads run
  only between `start` and the end of `stop`, with a connection each (`Alive`);
  a row that a statement saw, or that made the insertion return none, stays
  (`RowSeen`, which is what makes `kFindSql` find it); user ids are given one after
  the other (`Numbered`); a request is with its caller, in the queue or with one
  thread, and unanswered until then (`Once`). Under the mapping (the table is
  `UserRepository`'s, and so are the answers) a statement that makes a row or
  answers is a step of `UserRepository`, everything else stutters.
* `ClientControllerProofs`: `AlwaysCoherent` and `AlwaysInStep`. The first needs
  only `LinkInv`: without a connection nothing is on its way. The second is about
  answers meeting the wrong request and needs the shape of both streams,
  `StreamInv`: they are those of a negotiation, or hold no request and only chats
  and broadcasts, or the pending request behind the chats sent before it, or its
  one answer among broadcasts, with the server's state before or after it.
* `ClientVersionNegotiationProofs`: `AlwaysHighestCommon` and `RestAlwaysLeft`.
  What the reader may take depends on how far it is in the answer (`ReaderInv`) and
  on no byte coming before the first frame (`PeerInv`, `NothingStreamed`);
  `NegotiateVersionIs` shows that the server's arithmetic on the ranges gives the
  greatest common version.
* `ScenarioRunnerProofs`: `CleanAlwaysComplete` and `WindowAlwaysKept`, for every
  set of options. Messages are counted as cardinalities of sets of pairs (sender,
  number), which need no sums. `RunInv` ties each shared counter to the positions of
  the senders: those recorded, those ended, and those that hold a permit
  (`Counters`); what a receiver has counted lies behind what it has got, and tickets
  at most a window ahead of that (`Receipts`); a receiver that left without failing
  had found all senders ended before it compared its count (`Leaves`). Then as many
  messages as were sent, all of them sent ones, are all of them.
* `TcpServerProofs`, for every configuration that `Validate` accepts. `ServerInv` is
  inductive. It says that the maps of sessions agree; where the I/O thread is and
  what it holds there; that reads stay paused while an event is put off, so that
  none is accepted then (this bounds what is put off); and that the queued bytes
  are those of the queued writes, counted as the cardinality of `BytesOf`, which
  needs no sum. `LimitsAlwaysHold` and `AlwaysDeliveredToOwner` follow from it.
  Each of the others adds what it needs:
  - `GracefulAlwaysSendsAll`: `Stages` ties the phases of the shutdown to the
    positions of the I/O thread. Input is read only while `Running` or
    `DrainingInput`; drained input stays drained, a closed outbox closed and a sent
    write sent (`Graceful`);
  - `WakeupAlwaysDue`: while reads are paused either the inbox is above its low
    watermark, or a wakeup is pending or owed, or `drainDeferredInput` is under way
    (`DueInv`); a drain that ends without a wakeup has taken up all that was put off
    and looked at the watermark itself; the read it is redoing is not also put off
    (`ReadOnce`);
  - `InterestAlwaysExact`: `WatchInv` gives up the exactness of one session only,
    the one that is being flushed; the listener is watched unless reads are paused,
    sessions to come have nothing queued, and no deadline passes while `Running`
    (`LateInv`);
  - `PromiseAlwaysKept`: every step is a step of `SessionEvents` or stutters. By
    `StreamInv` the frames that a session was fed are the packets pushed followed
    by what its codec still has, a `Disconnected` is pushed or put off once and only
    for a session that is gone, and a put-off one is pushed only when the codec has
    no packet left. A step is `Arrive`, `Deliver`, `End` or leaves the log alone.
  - `StopIsLast`: the half of `StopEnds` that is no liveness (`SilentAfterStop`).
    Once `beginStop` was called the phase is past the two that push events, or
    `run()` has left its loop (`StopLast`); `Stages` says where the I/O thread can
    be then. It is what the pool's graceful-stop proofs assume of their producer.

Only model-checked: all liveness (`WakeupsArrive`, `EventsEnd`, `StopEndsWorkers`,
`InputMoves`, `StopEnds`, `EveryRequestAnswered`, `NegotiationEnds`,
`ClientReturns`, `RunEnds`), since the prover has no fairness or `ENABLED`; of
`StopEnds`, the safety half is proved (`StopIsLast`). Every invariant and every
refinement that a passing run checks is also a theorem.

Induction. The library's induction theorems take an operator as a parameter, which
the installed provers cannot instantiate. Where a proof needs induction it takes the
least number for which a statement fails (`LeastNumber`, from the well-foundedness
of the natural numbers); properties are stated with sets of places and cardinalities
instead of `SelectSeq` and folds, so that this is seldom needed.

## Not modelled

* Overload statistics, log formatting and the periodic reporter: counters that no
  decision of the server reads, printed by a thread that only sleeps and formats.
* Server process and signals: option parsing and start-up order; its signal
  thread calls `TcpServer::stop`, which `TcpServer` allows at any moment.
* Payload fields and text validation: pure formatting, one valid or invalid bit
  in the models that use it.
* Widgets, chat model and delegate of the Qt client: display only.
* Console client and load test client: straight-line programs over the
  negotiation and the codec.
* Wrappers of epoll, eventfd and libpq: represented by what they do to the state
  of their users.
* The wrap-around of 32-bit room ids after 2^32 rooms.

## Plan

Everything that carries the server's and the clients' state is modelled, and the
safety of every modelled part is proved. What could be added: payload fields and
text validation as operators with a reference definition, and the progress of the
I/O thread on a larger instance than `tcp_live`.
