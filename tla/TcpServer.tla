----------------------------- MODULE TcpServer -----------------------------
(***************************************************************************)
(* rss::net::TcpServer (libs/server-net-linux/src/TcpServer.cpp): the I/O    *)
(* thread that accepts sessions, turns their bytes into session events,      *)
(* stops reading while the inbox is too full, sends what the workers put     *)
(* into the outbox, and shuts down in phases with a deadline; with           *)
(* rss::net::Session, ReadBackpressureController, AcceptBatchLimiter and the *)
(* two EventFdCompletionNotifiers it owns.                                  *)
(*                                                                          *)
(* A step of the I/O thread is one operation on state it shares (the two     *)
(* queues, the eventfds, stop_requested_, the clock, a socket) with the local *)
(* work up to the next one.  io.pc says where the thread is.  The workers    *)
(* take events, notify at the low watermark, emit messages and complete      *)
(* deferred events as module WorkerPool has them do; here the inbox is its   *)
(* size.  Peers connect, send packets or malformed frames, close and reset.  *)
(***************************************************************************)
EXTENDS Naturals, Sequences, FiniteSets, SequencesExt

CONSTANTS
    Fds,             \* descriptors the kernel may give to sessions
    MaxConnections,  \* bound: connections made by peers
    Configs          \* the configurations, each with its environment

NoFd == 0
Happenings == {"stop", "reset", "bad", "idle", "accept", "setup"}

\* A configuration of the server (ServerConfig and the k...Limit constants) and
\* the environment it meets: the sizes of messages, which of Happenings happen
\* (stop(), a peer's reset, a malformed frame, an idle session, a failing
\* accept4, a failing set-up), and bounds on what peers and handlers do.
ConfigFields ==
    {"max_sessions", "capacity", "high", "low", "outbox_capacity", "max_pending",
     "workers", "accept_limit", "drain_limit", "work_limit", "flush_limit",
     "connections", "packets", "messages", "deferrals", "sizes", "happens"}

\* ServerConfig::validate: positive limits, 0 < low < high <= capacity.
Validate(c) ==
    /\ {c.max_sessions, c.low, c.outbox_capacity, c.max_pending, c.workers}
         \subseteq Nat \ {0}
    /\ c.low < c.high /\ c.high <= c.capacity

ASSUME TcpServerAssumption ==
    /\ IsFiniteSet(Fds) /\ Fds \subseteq Nat \ {0}
    /\ MaxConnections \in Nat
    /\ \A c \in Configs :
         /\ DOMAIN c = ConfigFields
         /\ {c.high, c.capacity} \subseteq Nat /\ Validate(c)
         /\ {c.accept_limit, c.drain_limit, c.work_limit, c.flush_limit}
              \subseteq Nat \ {0}
         /\ c.sizes \subseteq Nat \ {0} /\ c.happens \subseteq Happenings
         /\ c.max_sessions <= Cardinality(Fds) /\ c.connections \in 0..MaxConnections

VARIABLE config  \* config_, which never changes

MaxSessions == config.max_sessions        \* max_sessions
Capacity == config.capacity               \* inbound_queue_capacity
High == config.high                       \* inbound_high_watermark
Low == config.low                         \* inbound_low_watermark
OutboxCapacity == config.outbox_capacity  \* outbound_queue_capacity
MaxPending == config.max_pending          \* max_pending_write_bytes
Workers == config.workers                 \* worker_count
AcceptLimit == config.accept_limit        \* kAcceptBatchLimit
DrainLimit == config.drain_limit          \* kOutboundDrainMessageLimit
WorkLimit == config.work_limit            \* kDeferredInputWorkLimit
FlushLimit == config.flush_limit          \* kSessionFlushByteLimit
Happens == config.happens

\* Session ids, in the order of next_session_id_.  0 is no session.  The
\* registration token of a session grows in step with its id.
Ids == 1..MaxConnections
kListenerToken == 1
kOutboundWakeupToken == 2
kInputCapacityWakeupToken == 3
Token(id) == 3 + id

Phases == {"Running", "DrainingInput", "DrainingOutput", "Forced", "Complete"}
Draining == {"DrainingInput", "DrainingOutput"}
Messages(ids) ==
    [session : ids, kind : {"SendBytes", "SendBytesAndDisconnect"}, size : config.sizes]
      \cup [session : ids, kind : {"DisconnectSession"}, size : {0}]

VARIABLES
    \* sessions_by_fd_, fd_by_session_, fd_by_registration_token_
    sessionAt, fdBySession, fdByToken,
    nextId,               \* next_session_id_ - 1
    codec,                \* decoded and undecoded frames in each Session's codec_
    sequence,             \* next_event_sequence_
    peerReadClosed,       \* peer_read_closed_
    closing,              \* closing_after_flush_
    writes, pendingBytes, \* pending_writes_ and pending_write_bytes_
    interest,             \* the epoll interest of each descriptor
    listener,             \* listener_registered_
    paused,               \* reads_paused_
    ctlPaused,            \* ReadBackpressureController::paused_
    deferredReads, deferredReadSet,  \* deferred_read_fds_ and its set
    deferredDisconnects,  \* deferred_disconnects_
    phase, forcedShutdown,\* shutdown_phase_, forced_shutdown_
    io,                   \* position and locals of the I/O thread
    batch,                \* the events of the last wait still to be handled
    inbox,                \* inbox_.size()
    outbox, outboxClosed, \* outbox_
    inWake, outWake,      \* input_capacity_wakeup_ and outbound_wakeup_ readable
    stopRequested, late,  \* stop_requested_; shutdown_deadline_ has passed
    pool,                 \* the workers
    backlog, connections, \* connections to be accepted; made so far
    wire, peer,           \* frames in the socket; the peer's end
    emitted,              \* messages emitted so far
    log, fed              \* history: events pushed, frames given to the codec

maps == <<sessionAt, fdBySession, fdByToken, nextId>>
input == <<codec, fed, peerReadClosed>>
writeVars == <<closing, writes, pendingBytes>>
reading == <<interest, listener, paused, ctlPaused>>
deferredVars == <<deferredReads, deferredReadSet, deferredDisconnects>>
phaseVars == <<phase, forcedShutdown>>
eventVars == <<inbox, sequence, log>>
outVars == <<outbox, outboxClosed>>
wakeups == <<inWake, outWake>>
control == <<stopRequested, late>>
network == <<backlog, connections, wire, peer, emitted>>
loopVars == <<io, batch>>
exceptDisconnect ==
    <<input, writeVars, phaseVars, batch, outVars, wakeups, control, pool, network>>
exceptIo == <<exceptDisconnect, maps, reading, deferredVars, eventVars>>
stable == <<maps, input, writeVars, deferredVars, eventVars, control, network>>
serverVars ==
    <<maps, input, writeVars, reading, deferredVars, phaseVars, loopVars,
      eventVars, outVars, wakeups, control, pool, network>>
vars == <<serverVars, config>>

-----------------------------------------------------------------------------
\* The I/O thread's position and locals; a field has its value here when the
\* function it belongs to is not running.
Start ==
    [pc |-> "top",                        \* labels are named after functions
     ev |-> [token |-> 0, flags |-> {}],  \* the event being handled
     slots |-> 0,                         \* acceptLoop: the limiter
     fd |-> NoFd, drain |-> FALSE, readRet |-> "",    \* readSession
     work |-> 0, drainRet |-> "", drained |-> FALSE,  \* drainDeferredInput
     closed |-> {},                       \* resumeReads: peer_closed_fds
     popped |-> 0, outRet |-> "",         \* drainOutbound
     flushFd |-> NoFd, sent |-> 0, flushRet |-> "",   \* flushSession
     advanceRet |-> ""]                   \* advanceShutdown

At(label) == io.pc = label
Goto(label) == io' = [io EXCEPT !.pc = label]

HasPacket(id) == codec[id] # <<>> /\ Head(codec[id]) = "packet"
OpenFds == {fd \in Fds : sessionAt[fd] # 0}

\* The interest updateInterest computes for the session of fd.
Wanted(fd, isPaused, ph, cl, wr) ==
    LET id == sessionAt[fd] IN
    {"RDHUP"}
      \cup (IF ph = "Running" /\ ~isPaused /\ ~cl[id] THEN {"IN"} ELSE {})
      \cup (IF wr[id] # <<>> THEN {"OUT"} ELSE {})

UpdateInterestMutant(fd, cl, wr) ==
    interest' = [interest EXCEPT ![fd] = @ \cup Wanted(fd, paused, phase, cl, wr)]

UpdateInterest(fd, cl, wr) ==
    interest' = [interest EXCEPT ![fd] = Wanted(fd, paused, phase, cl, wr)]

\* updateInterest for every session of sessions_by_fd_ but those in gone.
InterestAll(isPaused, ph, gone) ==
    [fd \in Fds |-> IF fd \in OpenFds \ gone
                    THEN Wanted(fd, isPaused, ph, closing, writes) ELSE {}]

InterestWithout(gone) ==
    [fd \in Fds |-> IF fd \in gone THEN {} ELSE interest[fd]]

\* pauseReads(), with the descriptors in gone already removed.
PauseReads(gone) ==
    /\ paused' = TRUE
    /\ listener' = IF paused THEN listener ELSE FALSE
    /\ interest' = IF paused THEN InterestWithout(gone)
                   ELSE InterestAll(TRUE, phase, gone)

\* After a tryPush that left n events in the inbox: onInboundSize, and
\* pauseReads on its Pause.
ObservePush(n, gone) ==
    /\ ctlPaused' = (ctlPaused \/ n >= High)
    /\ \/ ~ctlPaused /\ n >= High /\ PauseReads(gone)
       \/ /\ ctlPaused \/ n < High
          /\ interest' = InterestWithout(gone)
          /\ UNCHANGED <<paused, listener>>

\* After a tryPush that failed: onInboundSize(capacity) and pauseReads.
ObserveFull(gone) == ctlPaused' = TRUE /\ PauseReads(gone)

\* A tryPush that succeeds, and commitEventSequence.
PushEvent(kind, id, gone) ==
    /\ inbox < Capacity
    /\ inbox' = inbox + 1
    /\ log' = [log EXCEPT ![id] =
                 Append(@, [kind |-> kind, sequence |-> sequence[id]])]
    /\ sequence' = [sequence EXCEPT ![id] = @ + 1]
    /\ ObservePush(inbox + 1, gone)

DeferDisconnectedMutant(id, next) ==
    \/ /\ Len(deferredDisconnects) < MaxSessions
       /\ UNCHANGED deferredDisconnects
       /\ io' = next
    \/ /\ Len(deferredDisconnects) >= MaxSessions
       /\ io' = [next EXCEPT !.pc = "failed"]
       /\ UNCHANGED deferredDisconnects

\* deferDisconnected; the logic_error beyond its limit leaves the loop.
DeferDisconnected(id, next) ==
    \/ /\ Len(deferredDisconnects) < MaxSessions
       /\ deferredDisconnects' = Append(deferredDisconnects, id)
       /\ io' = next
    \/ /\ Len(deferredDisconnects) >= MaxSessions
       /\ io' = [next EXCEPT !.pc = "failed"]
       /\ UNCHANGED deferredDisconnects

ForgetMutant(fd, id) ==
    /\ sessionAt' = [sessionAt EXCEPT ![fd] = 0]
    /\ fdByToken' = [fdByToken EXCEPT ![id] = NoFd]
    /\ deferredReadSet' = deferredReadSet \ {fd}
    /\ UNCHANGED <<fdBySession, nextId, deferredReads>>

\* The session of fd leaves the maps; deferred_read_fds_ keeps its descriptor.
Forget(fd, id) ==
    /\ sessionAt' = [sessionAt EXCEPT ![fd] = 0]
    /\ fdBySession' = [fdBySession EXCEPT ![id] = NoFd]
    /\ fdByToken' = [fdByToken EXCEPT ![id] = NoFd]
    /\ deferredReadSet' = deferredReadSet \ {fd}
    /\ UNCHANGED <<nextId, deferredReads>>

PushesNowMutant(id) == phase \in {"Running", "DrainingInput"}

\* disconnect() pushes at once, or (PutsOff) leaves it to drainDeferredInput:
\* behind completed packets, of which a malformed frame is none.
PushesNow(id) == phase = "Running" /\ ~HasPacket(id)
PutsOff(id) == phase = "DrainingInput" \/ (phase = "Running" /\ HasPacket(id))

\* disconnect(fd): the session leaves the maps, and its Disconnected is pushed,
\* or put off when it must wait behind packets or for room; next is where the
\* thread goes on.
Disconnect(fd, next) ==
    LET id == sessionAt[fd] IN
    /\ Forget(fd, id)
    /\ \/ /\ PushesNow(id)
          /\ PushEvent("Disconnected", id, {fd})
          /\ io' = next /\ UNCHANGED deferredDisconnects
       \/ /\ PushesNow(id) /\ inbox = Capacity
          /\ ObserveFull({fd})
          /\ DeferDisconnected(id, next)
          /\ UNCHANGED eventVars
       \/ /\ PutsOff(id)
          /\ DeferDisconnected(id, next)
          /\ interest' = InterestWithout({fd})
          /\ UNCHANGED <<eventVars, paused, listener, ctlPaused>>
       \/ /\ phase \notin {"Running", "DrainingInput"}
          /\ interest' = InterestWithout({fd})
          /\ io' = next
          /\ UNCHANGED <<eventVars, paused, listener, ctlPaused,
                         deferredDisconnects>>

DeferRead(fd) ==
    /\ deferredReadSet' = deferredReadSet \cup {fd}
    /\ deferredReads' = IF fd \in deferredReadSet THEN deferredReads
                        ELSE Append(deferredReads, fd)
    /\ UNCHANGED deferredDisconnects

-----------------------------------------------------------------------------
\* The loop of run().

\* beginShutdown.
BeginShutdown ==
    /\ phase' = "DrainingInput"
    /\ paused' = TRUE /\ listener' = FALSE
    /\ interest' = InterestAll(TRUE, "DrainingInput", {})
    /\ UNCHANGED <<ctlPaused, forcedShutdown>>

\* if (stop_requested_) beginShutdown();
ObserveStop ==
    \/ stopRequested /\ phase = "Running" /\ BeginShutdown
    \/ ~(stopRequested /\ phase = "Running") /\ UNCHANGED <<reading, phaseVars>>

ForceShutdownMutant ==
    /\ UNCHANGED pool
    /\ outboxClosed' = TRUE
    /\ phase' = "Forced" /\ forcedShutdown' = TRUE
    /\ UNCHANGED outbox

\* forceShutdown: forceStop closes both queues.
ForceShutdown ==
    /\ pool' = [pool EXCEPT !.forced = TRUE]
    /\ outboxClosed' = TRUE
    /\ phase' = "Forced" /\ forcedShutdown' = TRUE
    /\ UNCHANGED outbox

LoopTop ==
    /\ At("top")
    /\ ObserveStop
    /\ io' = IF phase' = "Running" THEN [io EXCEPT !.pc = "wait"]
             ELSE [io EXCEPT !.pc = "advance", !.advanceRet = "wait"]
    /\ UNCHANGED <<stable, batch, outVars, wakeups, pool>>

\* What epoll reports of fd: data or end of file, the peer's close, an error,
\* and room to write.
Flags(fd, writable) ==
    LET id == sessionAt[fd] IN
    (IF wire[id] # <<>> \/ peer[id] # "open" THEN {"IN"} \cap interest[fd] ELSE {})
      \cup (IF peer[id] # "open" THEN {"RDHUP"} ELSE {})
      \cup (IF peer[id] = "reset" THEN {"ERR"} ELSE {})
      \cup (IF fd \in writable THEN {"OUT"} \cap interest[fd] ELSE {})

Ready(token, condition) ==
    IF condition THEN {[token |-> token, flags |-> {"IN"}]} ELSE {}

\* event_loop_.wait returns what is ready, or nothing after its timeout.
Wait ==
    /\ At("wait")
    /\ \E writable \in SUBSET {fd \in Fds : "OUT" \in interest[fd]} :
         batch' = {e \in {[token |-> Token(sessionAt[fd]),
                           flags |-> Flags(fd, writable)] : fd \in OpenFds} :
                     e.flags # {}}
           \cup Ready(kListenerToken, listener /\ backlog > 0)
           \cup Ready(kOutboundWakeupToken, outWake)
           \cup Ready(kInputCapacityWakeupToken, inWake)
    /\ Goto("events")
    /\ UNCHANGED <<stable, reading, phaseVars, outVars, wakeups, pool>>

\* The head of the loop over the events.
NextEvent ==
    /\ At("events") /\ batch # {}
    /\ \/ /\ ~(phase \in Draining /\ late)
          /\ ObserveStop
          /\ Goto("event")
          /\ UNCHANGED <<batch, pool, outVars>>
       \/ /\ phase \in Draining /\ late
          /\ ForceShutdown
          /\ batch' = {} /\ Goto("expire")
          /\ UNCHANGED reading
    /\ UNCHANGED <<stable, wakeups>>

\* drainOutbound is entered at "out" and goes on at ret.
EnterOut(ret) == [io EXCEPT !.pc = "out", !.popped = 0, !.outRet = ret]
\* drainDeferredInput is entered at "disconnects" and goes on at ret.
EnterDrain(ret) ==
    [io EXCEPT !.pc = "disconnects", !.work = WorkLimit, !.drainRet = ret]
\* readSession(fd, drain) is entered at "read" and goes on at ret.
EnterRead(fd, drain, ret) ==
    [io EXCEPT !.pc = "read", !.fd = fd, !.drain = drain, !.readRet = ret]
EnterFlush(fd, ret) ==
    [io EXCEPT !.pc = "flush", !.flushFd = fd, !.sent = 0, !.flushRet = ret]

MayAcceptMutant == phase = "Running"

\* The guards of acceptLoop and of its call.
MayAccept == phase = "Running" /\ listener /\ ~paused

\* An event of the batch that is one of the two wakeups or the listener's.
HandleWakeup ==
    /\ At("event")
    /\ \E e \in batch :
         /\ batch' = batch \ {e}
         /\ \/ /\ e.token = kOutboundWakeupToken
               /\ outWake' = FALSE
               /\ IF phase # "Forced" THEN io' = EnterOut("events")
                  ELSE Goto("events")
               /\ UNCHANGED inWake
            \/ /\ e.token = kInputCapacityWakeupToken
               /\ inWake' = FALSE
               /\ IF phase \in {"Running", "DrainingInput"}
                  THEN io' = EnterDrain("events") ELSE Goto("events")
               /\ UNCHANGED outWake
            \/ /\ e.token = kListenerToken
               /\ IF MayAccept
                  THEN io' = [io EXCEPT !.pc = "accept", !.slots = AcceptLimit]
                  ELSE Goto("events")
               /\ UNCHANGED wakeups
    /\ UNCHANGED <<stable, reading, phaseVars, outVars, pool>>

\* The token of session id is still registered, for its descriptor.
Current(id) == fdByToken[id] # NoFd /\ sessionAt[fdByToken[id]] = id

\* An event of a session: a stale token is skipped, an error disconnects,
\* a close or data is read now or put off, then the socket is flushed.
HandleSession ==
    /\ At("event")
    /\ \E e \in batch :
         LET id == e.token - 3
             fd == fdByToken[id]
             hup == "RDHUP" \in e.flags
             then == IF "OUT" \in e.flags THEN "flushEvent" ELSE "events"
             seen == [io EXCEPT !.ev = IF "OUT" \in e.flags THEN e ELSE @]
             after == [seen EXCEPT !.pc = then]
         IN
         /\ e.token > 3
         /\ batch' = batch \ {e}
         /\ \/ /\ ~Current(id)
               /\ Goto("events")
               /\ UNCHANGED <<maps, peerReadClosed, reading, deferredVars,
                              eventVars>>
            \/ /\ Current(id) /\ "ERR" \in e.flags
               /\ Disconnect(fd, [io EXCEPT !.pc = "events"])
               /\ UNCHANGED peerReadClosed
            \/ /\ Current(id) /\ "ERR" \notin e.flags
               /\ peerReadClosed' = [peerReadClosed EXCEPT ![id] = @ \/ hup]
               /\ IF phase = "Running" /\ ~paused
                  THEN /\ io' = IF e.flags \cap {"IN", "RDHUP"} # {}
                                THEN [EnterRead(fd, FALSE, then)
                                        EXCEPT !.ev = seen.ev]
                                ELSE after
                       /\ UNCHANGED deferredVars
                  ELSE /\ io' = after
                       /\ IF hup /\ phase \in {"Running", "DrainingInput"}
                          THEN DeferRead(fd) ELSE UNCHANGED deferredVars
               /\ UNCHANGED <<maps, reading, eventVars>>
    /\ UNCHANGED <<codec, fed, writeVars, phaseVars, outVars, wakeups, control,
                   pool, network>>

\* The last part of an event: flushSession if the descriptor has a session.
FlushEvent ==
    /\ At("flushEvent")
    /\ LET fd == fdByToken[io.ev.token - 3]
           done == [io EXCEPT !.pc = "events", !.ev = Start.ev]
       IN  io' = IF fd # NoFd
                 THEN [EnterFlush(fd, "events") EXCEPT !.ev = Start.ev]
                 ELSE done
    /\ UNCHANGED exceptIo

\* After the events: drainOutbound, then expireIdleSessions.
EndOfEvents ==
    /\ At("events") /\ batch = {}
    /\ IF phase # "Forced" THEN io' = EnterOut("expire") ELSE Goto("expire")
    /\ UNCHANGED exceptIo

\* expireIdleSessions: any session may have been idle for too long.
ExpireIdle ==
    /\ At("expire")
    /\ \/ /\ phase = "Running" /\ "idle" \in Happens
          /\ \E fd \in OpenFds : Disconnect(fd, io)
       \/ /\ io' = IF phase = "Running" THEN [io EXCEPT !.pc = "top"]
                   ELSE [io EXCEPT !.pc = "advance", !.advanceRet = "top"]
          /\ UNCHANGED <<maps, reading, deferredVars, eventVars>>
    /\ UNCHANGED exceptDisconnect

-----------------------------------------------------------------------------
\* acceptLoop.  The limiter reads stop_requested_; it is read again after
\* accept4.
AcceptEnd ==
    /\ At("accept")
    /\ io.slots = 0 \/ stopRequested \/ backlog = 0
    /\ io' = [io EXCEPT !.pc = "events", !.slots = 0]
    /\ UNCHANGED exceptIo

\* accept4 gives the lowest descriptor that is not open; the session may be refused.
Accept ==
    /\ At("accept") /\ io.slots > 0 /\ backlog > 0
    /\ backlog' = backlog - 1
    /\ \/ /\ ~stopRequested
          /\ io' = [io EXCEPT !.slots = @ - 1]
          /\ \/ /\ Cardinality(OpenFds) < MaxSessions
                /\ nextId' = nextId + 1
                /\ LET fd == Min(Fds \ OpenFds) IN
                     /\ sessionAt' = [sessionAt EXCEPT ![fd] = nextId']
                     /\ fdBySession' = [fdBySession EXCEPT ![nextId'] = fd]
                     /\ fdByToken' = [fdByToken EXCEPT ![nextId'] = fd]
                     /\ interest' = [interest EXCEPT ![fd] = {"IN", "RDHUP"}]
             \/ /\ Cardinality(OpenFds) >= MaxSessions \/ "setup" \in Happens
                /\ UNCHANGED <<maps, interest>>
       \/ /\ stopRequested
          /\ io' = [io EXCEPT !.pc = "events", !.slots = 0]
          /\ UNCHANGED <<maps, interest>>
       \/ /\ "accept" \in Happens
          /\ Goto("failed")
          /\ UNCHANGED <<maps, interest>>
    /\ UNCHANGED <<input, writeVars, listener, paused, ctlPaused, deferredVars,
                   phaseVars, batch, eventVars, outVars, wakeups, control, pool,
                   connections, wire, peer, emitted>>

-----------------------------------------------------------------------------
\* readSession.
ReadReturn == [io EXCEPT !.pc = io.readRet, !.fd = NoFd, !.drain = FALSE,
                         !.readRet = ""]

ReadEnds(id) ==
    \/ paused /\ ~io.drain
    \/ id = 0 \/ (id # 0 /\ closing[id])
    \/ stopRequested /\ ~io.drain

ReadSession ==
    /\ At("read")
    /\ LET id == sessionAt[io.fd] IN
       \/ /\ \/ ReadEnds(id)
             \/ wire[id] = <<>> /\ peer[id] = "open"
          /\ io' = ReadReturn
          /\ UNCHANGED <<maps, codec, fed, reading, deferredVars, eventVars, wire>>
       \/ /\ ~ReadEnds(id)
          /\ (wire[id] = <<>> /\ peer[id] = "closed") \/ peer[id] = "reset"
          /\ Disconnect(io.fd, ReadReturn)
          /\ UNCHANGED <<codec, fed, wire>>
       \/ /\ ~ReadEnds(id)
          /\ \E n \in 1..Len(wire[id]) :
               /\ codec' = [codec EXCEPT ![id] = @ \o SubSeq(wire[id], 1, n)]
               /\ fed' = [fed EXCEPT ![id] = @ \o SubSeq(wire[id], 1, n)]
               /\ wire' = [wire EXCEPT ![id] = SubSeq(@, n + 1, Len(@))]
          /\ Goto("decode")
          /\ UNCHANGED <<maps, reading, deferredVars, eventVars>>
    /\ UNCHANGED <<peerReadClosed, writeVars, phaseVars, batch, outVars, wakeups,
                   control, pool, backlog, connections, peer, emitted>>

\* One round of enqueueDecodedPackets: true leads to onTrue, false to onFalse,
\* a ProtocolError to onError; remaining_work counts if counted.
EnqueueDecoded(id, counted, onTrue, onFalse, onError) ==
    LET work == IF counted THEN io.work - 1 ELSE io.work IN
    \/ /\ codec[id] = <<>>
       /\ Goto(onTrue)
       /\ UNCHANGED <<codec, reading, eventVars>>
    \/ /\ codec[id] # <<>> /\ ~HasPacket(id)
       /\ Goto(onError)
       /\ UNCHANGED <<codec, reading, eventVars>>
    \/ /\ HasPacket(id) /\ counted /\ io.work = 0
       /\ Goto(onFalse)
       /\ UNCHANGED <<codec, reading, eventVars>>
    \/ /\ HasPacket(id) /\ ~(counted /\ io.work = 0)
       /\ \/ /\ inbox = Capacity
             /\ ObserveFull({})
             /\ Goto(onFalse)
             /\ UNCHANGED <<codec, eventVars>>
          \/ /\ PushEvent("Packet", id, {})
             /\ codec' = [codec EXCEPT ![id] = Tail(@)]
             /\ io' = [io EXCEPT !.work = work,
                                 !.pc = IF inbox + 1 >= High THEN onFalse ELSE @]

Decode ==
    /\ At("decode")
    /\ EnqueueDecoded(sessionAt[io.fd], io.drain, "read", "readDefer", "readError")
    /\ UNCHANGED <<maps, fed, peerReadClosed, writeVars, deferredVars, phaseVars,
                   batch, outVars, wakeups, control, pool, network>>

ReadStops ==
    /\ \/ /\ At("readDefer")
          /\ DeferRead(io.fd)
          /\ io' = ReadReturn
          /\ UNCHANGED <<maps, reading, eventVars>>
       \/ /\ At("readError")
          /\ Disconnect(io.fd, ReadReturn)
    /\ UNCHANGED exceptDisconnect

-----------------------------------------------------------------------------
\* drainDeferredInput.
DrainReturn(result) ==
    [io EXCEPT !.pc = io.drainRet, !.drained = result, !.work = 0, !.drainRet = "",
               !.closed = {}]

\* yieldForWorkBudget, where the budget is used up or a call returned false.  The
\* budget is looked at before a deferred read is begun; within one it is
\* enqueueDecodedPackets that looks, behind its next packet.
Yield ==
    /\ \/ At("yield")
       \/ At("disconnects") /\ deferredDisconnects # <<>> /\ io.work = 0
       \/ At("pushDisconnected") /\ io.work = 0
       \/ At("reads") /\ deferredReads # <<>> /\ io.work = 0
    /\ inWake' = (inWake \/ (io.work = 0 /\ phase \notin {"Forced", "Complete"}))
    /\ io' = DrainReturn(FALSE)
    /\ UNCHANGED <<stable, reading, phaseVars, batch, outVars, outWake, pool>>

\* The packets of the first deferred disconnect, then its Disconnected.
DrainDisconnects ==
    /\ At("disconnects")
    /\ \/ /\ deferredDisconnects = <<>>
          /\ Goto("reads")
          /\ UNCHANGED <<codec, reading, eventVars>>
       \/ /\ deferredDisconnects # <<>> /\ io.work > 0
          /\ EnqueueDecoded(Head(deferredDisconnects), TRUE,
                            "pushDisconnected", "yield", "pushDisconnected")
    /\ UNCHANGED <<maps, fed, peerReadClosed, writeVars, deferredVars, phaseVars,
                   batch, outVars, wakeups, control, pool, network>>

PushDisconnected ==
    /\ At("pushDisconnected") /\ io.work > 0
    /\ \/ /\ inbox = Capacity
          /\ ObserveFull({})
          /\ io' = DrainReturn(FALSE)
          /\ UNCHANGED <<deferredVars, eventVars>>
       \/ /\ PushEvent("Disconnected", Head(deferredDisconnects), {})
          /\ deferredDisconnects' = Tail(deferredDisconnects)
          /\ io' = [io EXCEPT !.work = @ - 1, !.pc = "disconnectsSize"]
          /\ UNCHANGED <<deferredReads, deferredReadSet>>
    /\ UNCHANGED <<exceptDisconnect, maps>>

\* The two places where inbox_.size() at the high watermark ends the call.
DrainSize ==
    /\ \/ At("disconnectsSize") \/ At("readsSize")
    /\ io' = IF inbox >= High THEN DrainReturn(FALSE)
             ELSE [io EXCEPT !.pc = IF At("readsSize") THEN "reads"
                                    ELSE "disconnects"]
    /\ UNCHANGED exceptIo

\* The first deferred read: its fd may have lost its session.
DrainReads ==
    /\ At("reads")
    /\ LET fd == Head(deferredReads)
           stale == fd \notin deferredReadSet \/ sessionAt[fd] = 0
       IN
       \/ /\ deferredReads = <<>>
          /\ Goto("resume?")
          /\ UNCHANGED <<codec, reading, deferredVars, eventVars>>
       \/ /\ deferredReads # <<>> /\ io.work > 0 /\ stale
          /\ deferredReads' = Tail(deferredReads)
          /\ UNCHANGED <<io, codec, reading, deferredReadSet, deferredDisconnects,
                         eventVars>>
       \/ /\ deferredReads # <<>> /\ io.work > 0 /\ ~stale
          /\ Goto("readsDecode")
          /\ UNCHANGED <<codec, reading, deferredVars, eventVars>>
    /\ UNCHANGED <<maps, fed, peerReadClosed, writeVars, phaseVars, batch, outVars,
                   wakeups, control, pool, network>>

\* The packets of the first deferred read: without one, or with a malformed frame,
\* the read is done, the budget used up or not.
DrainReadsDecode ==
    /\ At("readsDecode")
    /\ EnqueueDecoded(sessionAt[Head(deferredReads)], TRUE,
                      "readsPop", "yield", "readsError")
    /\ UNCHANGED <<maps, fed, peerReadClosed, writeVars, deferredVars, phaseVars,
                   batch, outVars, wakeups, control, pool, network>>

\* The first deferred read is done: a peer that has closed is read to its end.
DrainReadsPop ==
    /\ At("readsPop")
    /\ LET fd == Head(deferredReads) IN
       /\ deferredReads' = Tail(deferredReads)
       /\ deferredReadSet' = deferredReadSet \ {fd}
       /\ io' = IF peerReadClosed[sessionAt[fd]]
                THEN EnterRead(fd, TRUE, "reads") ELSE [io EXCEPT !.pc = "reads"]
    /\ UNCHANGED <<exceptDisconnect, maps, reading, deferredDisconnects, eventVars>>

DrainReadsError ==
    /\ \/ /\ At("readsError")
          /\ deferredReads' = Tail(deferredReads)
          /\ deferredReadSet' = deferredReadSet \ {Head(deferredReads)}
          /\ io' = [io EXCEPT !.pc = "readsDisconnect", !.fd = Head(deferredReads)]
          /\ UNCHANGED <<maps, reading, deferredDisconnects, eventVars>>
       \/ /\ At("readsDisconnect")
          /\ Disconnect(io.fd, [io EXCEPT !.pc = "readsSize", !.fd = NoFd])
    /\ UNCHANGED exceptDisconnect

CapacityAvailableMutant == ctlPaused /\ inbox < Low

\* onCapacityAvailable(inbox_.size()) gives Resume.
CapacityAvailable == ctlPaused /\ inbox <= Low

\* resumeReads: the listener and every session are watched again.
ResumeAll ==
    /\ paused' = FALSE /\ listener' = TRUE
    /\ interest' = InterestAll(FALSE, phase, {})

\* The end of drainDeferredInput.
ResumeReads ==
    /\ At("resume?")
    /\ LET resume == deferredDisconnects = <<>> /\ phase = "Running"
                     /\ CapacityAvailable
       IN
       /\ ctlPaused' = (ctlPaused /\ ~resume)
       /\ \/ /\ resume /\ paused
             /\ ResumeAll
             /\ io' = [io EXCEPT !.pc = "resume",
                                 !.closed = {fd \in OpenFds :
                                               peerReadClosed[sessionAt[fd]]}]
          \/ /\ ~(resume /\ paused)
             /\ io' = DrainReturn(deferredDisconnects = <<>>)
             /\ UNCHANGED <<paused, listener, interest>>
    /\ UNCHANGED <<exceptDisconnect, maps, deferredVars, eventVars>>

\* resumeReads: the peers that have closed are read at once, unless reads are
\* paused again.
ResumeClosed ==
    /\ At("resume")
    /\ \/ /\ io.closed = {} \/ paused
          /\ io' = DrainReturn(TRUE)
       \/ /\ ~paused
          /\ \E fd \in io.closed :
               io' = [EnterRead(fd, FALSE, "resume") EXCEPT !.closed = @ \ {fd}]
    /\ UNCHANGED exceptIo

-----------------------------------------------------------------------------
\* drainOutbound and flushSession.

\* Session::tryEnqueue.
TryEnqueue(id, m) ==
    /\ m.size <= MaxPending - pendingBytes[id]
    /\ writes' = [writes EXCEPT ![id] =
                    Append(@, [to |-> m.session, left |-> m.size])]
    /\ pendingBytes' = [pendingBytes EXCEPT ![id] = @ + m.size]

\* Session::consumeWrite(n).
ConsumeWrite(id, n) ==
    LET first == Head(writes[id])
        rest == Tail(writes[id])
    IN
    /\ pendingBytes' = [pendingBytes EXCEPT ![id] = @ - n]
    /\ writes' = [writes EXCEPT ![id] =
                    IF first.left = n THEN rest
                    ELSE <<[first EXCEPT !.left = first.left - n]>> \o rest]

\* One message of the outbox.  It is looked up by session id; a session that
\* is gone or closing drops it, one that is over its limit is disconnected.
DrainOutbound ==
    /\ At("out") /\ io.popped < DrainLimit /\ outbox # <<>>
    /\ outbox' = Tail(outbox)
    /\ LET m == Head(outbox)
           fd == fdBySession[m.session]
           id == sessionAt[fd]
           next == [io EXCEPT !.popped = @ + 1]
           open == IF fd = NoFd THEN FALSE ELSE id # 0
       IN
       \/ /\ open => m.kind # "DisconnectSession" /\ closing[id]
          /\ io' = next
          /\ UNCHANGED <<maps, writeVars, reading, deferredVars, eventVars>>
       \/ /\ open
          /\ \/ m.kind = "DisconnectSession"
             \/ ~closing[id] /\ m.size > MaxPending - pendingBytes[id]
          /\ Disconnect(fd, next)
          /\ UNCHANGED writeVars
       \/ /\ open /\ m.kind # "DisconnectSession" /\ ~closing[id]
          /\ TryEnqueue(id, m)
          /\ closing' = [closing EXCEPT ![id] = m.kind = "SendBytesAndDisconnect"]
          /\ UpdateInterest(fd, closing', writes')
          /\ io' = next
          /\ UNCHANGED <<maps, listener, paused, ctlPaused, deferredVars, eventVars>>
    /\ UNCHANGED <<input, phaseVars, batch, outboxClosed, wakeups, control, pool,
                   network>>

\* The end of drainOutbound: tryPop found nothing, or the limit was reached;
\* outbox_.size() is read afterwards.
DrainOutboundEnd ==
    /\ \/ /\ At("out") /\ (io.popped = DrainLimit \/ outbox = <<>>)
          /\ Goto("outSize")
          /\ UNCHANGED outWake
       \/ /\ At("outSize")
          /\ outWake' = (outWake \/ outbox # <<>>)
          /\ io' = [io EXCEPT !.pc = io.outRet, !.popped = 0, !.outRet = ""]
    /\ UNCHANGED <<stable, reading, phaseVars, batch, outVars, inWake, pool>>

FlushReturn == [io EXCEPT !.pc = io.flushRet, !.flushFd = NoFd, !.sent = 0,
                          !.flushRet = ""]

\* flushSession: one send, of what the socket takes.
FlushSend ==
    /\ At("flush")
    /\ LET fd == io.flushFd
           id == sessionAt[fd]
       IN
       /\ writes[id] # <<>> /\ io.sent < FlushLimit
       /\ \/ \E n \in 1..Head(writes[id]).left :
               /\ n <= FlushLimit - io.sent
               /\ ConsumeWrite(id, n)
               /\ io' = [io EXCEPT !.sent = @ + n]
               /\ UNCHANGED <<maps, reading, deferredVars, eventVars, closing>>
          \/ \* EAGAIN
             /\ UpdateInterest(fd, closing, writes)
             /\ io' = FlushReturn
             /\ UNCHANGED <<maps, listener, paused, ctlPaused, deferredVars,
                            eventVars, writeVars>>
          \/ /\ peer[id] = "reset"
             /\ Disconnect(fd, FlushReturn)
             /\ UNCHANGED writeVars
    /\ UNCHANGED <<input, phaseVars, batch, outVars, wakeups, control, pool, network>>

FlushEnd ==
    /\ At("flush")
    /\ LET fd == io.flushFd
           id == sessionAt[fd]
       IN
       /\ writes[id] = <<>> \/ io.sent >= FlushLimit
       /\ \/ /\ closing[id] /\ writes[id] = <<>>
             /\ Disconnect(fd, FlushReturn)
          \/ /\ ~(closing[id] /\ writes[id] = <<>>)
             /\ UpdateInterest(fd, closing, writes)
             /\ io' = FlushReturn
             /\ UNCHANGED <<maps, listener, paused, ctlPaused, deferredVars,
                            eventVars>>
    /\ UNCHANGED exceptDisconnect

-----------------------------------------------------------------------------
\* advanceShutdown.
AdvanceReturn == [io EXCEPT !.pc = io.advanceRet, !.advanceRet = ""]

\* Its head (it does nothing in phase Running): the deadline; Forced waits for
\* the workers.
Advance ==
    /\ At("advance")
    /\ \/ /\ phase \in Draining /\ late
          /\ ForceShutdown
          /\ UNCHANGED io
       \/ /\ phase \in Draining /\ ~late
          /\ io' = EnterOut("advanceInput")
          /\ UNCHANGED <<phaseVars, pool, outVars>>
       \/ /\ phase = "Forced"
          /\ IF pool.done
             THEN phase' = "Complete" /\ io' = [AdvanceReturn EXCEPT !.pc = "join"]
             ELSE phase' = phase /\ io' = AdvanceReturn
          /\ UNCHANGED <<forcedShutdown, pool, outVars>>
    /\ UNCHANGED <<stable, reading, batch, wakeups>>

\* After the first and the second drainOutbound: the deadline again.
AdvanceInput ==
    /\ \/ At("advanceInput") \/ At("advanceOutput")
    /\ \/ /\ late
          /\ ForceShutdown
          /\ io' = [AdvanceReturn EXCEPT !.drained = FALSE]
       \/ /\ ~late /\ At("advanceInput")
          /\ io' = IF phase = "DrainingInput" THEN EnterDrain("advanceStop")
                   ELSE [io EXCEPT !.pc = "advanceOutput"]
          /\ UNCHANGED <<phaseVars, pool, outVars>>
       \/ /\ ~late /\ At("advanceOutput")
          /\ io' = EnterOut("advanceFinished")
          /\ UNCHANGED <<phaseVars, pool, outVars>>
    /\ UNCHANGED <<stable, reading, batch, wakeups>>

\* drainDeferredInput has returned: beginStop once all input is pushed.
AdvanceStop ==
    /\ At("advanceStop")
    /\ \/ /\ io.drained
          /\ phase' = "DrainingOutput"
          /\ pool' = [pool EXCEPT !.draining = TRUE]
       \/ ~io.drained /\ UNCHANGED <<phase, pool>>
    /\ Goto("advanceOutput")
    /\ UNCHANGED <<stable, reading, forcedShutdown, batch, outVars, wakeups>>

AllSessionWritesDrainedMutant == TRUE

AllSessionWritesDrained == \A fd \in OpenFds : writes[sessionAt[fd]] = <<>>

\* The workers are finished: what they left is sent, then Complete.
AdvanceFinished ==
    /\ \/ /\ At("advanceFinished")
          /\ io' = IF phase = "DrainingOutput" /\ pool.done
                   THEN EnterOut("advanceEnd") ELSE AdvanceReturn
          /\ UNCHANGED <<phase, outboxClosed>>
       \/ /\ At("advanceEnd")
          /\ \/ /\ outbox = <<>>
                /\ AllSessionWritesDrained
                /\ outboxClosed' = TRUE /\ phase' = "Complete"
                /\ io' = [AdvanceReturn EXCEPT !.pc = "join"]
             \/ /\ ~(outbox = <<>> /\ AllSessionWritesDrained)
                /\ io' = AdvanceReturn
                /\ UNCHANGED <<phase, outboxClosed>>
    /\ UNCHANGED <<stable, reading, forcedShutdown, batch, outbox, wakeups, pool>>

\* After the loop: join, and without force a last drain and flush of the
\* sessions.
Join ==
    /\ At("join") /\ pool.done
    /\ io' = IF forcedShutdown THEN [io EXCEPT !.pc = "close"] ELSE EnterOut("flushAll")
    /\ UNCHANGED exceptIo

\* flushAllSessions; the set is io.closed here.
FlushAll ==
    /\ \/ /\ At("flushAll")
          /\ io' = [io EXCEPT !.pc = "flushNext", !.closed = OpenFds]
       \/ /\ At("flushNext")
          /\ \/ io.closed = {} /\ Goto("close")
             \/ \E fd \in io.closed :
                  io' = [EnterFlush(fd, "flushNext") EXCEPT !.closed = @ \ {fd}]
    /\ UNCHANGED exceptIo

\* closeNetworkResources.
CloseResources ==
    /\ At("close")
    /\ sessionAt' = [fd \in Fds |-> 0]
    /\ fdBySession' = [id \in Ids |-> NoFd]
    /\ fdByToken' = [id \in Ids |-> NoFd]
    /\ listener' = FALSE
    /\ interest' = [fd \in Fds |-> {}]
    /\ deferredReads' = <<>> /\ deferredReadSet' = {} /\ deferredDisconnects' = <<>>
    /\ io' = [Start EXCEPT !.pc = "stopped"]
    /\ UNCHANGED <<exceptDisconnect, nextId, paused, ctlPaused, eventVars>>

\* The exception path of run(): beginStop, close the outbox, join.
Fail ==
    /\ \/ /\ At("failed")
          /\ pool' = [pool EXCEPT !.draining = TRUE]
          /\ outboxClosed' = TRUE
          /\ Goto("failedJoin")
       \/ /\ At("failedJoin") /\ pool.done
          /\ Goto("close")
          /\ UNCHANGED <<pool, outboxClosed>>
    /\ UNCHANGED <<stable, reading, phaseVars, batch, outbox, wakeups>>

\* stop(), from any thread; the clock reaches shutdown_deadline_.
Stop ==
    /\ ~stopRequested /\ "stop" \in Happens
    /\ stopRequested' = TRUE /\ outWake' = TRUE
    /\ UNCHANGED <<maps, input, writeVars, reading, deferredVars, phaseVars,
                   loopVars, eventVars, outVars, inWake, late, pool, network>>

DeadlinePasses ==
    /\ phase \in Draining /\ ~late
    /\ late' = TRUE
    /\ UNCHANGED <<maps, input, writeVars, reading, deferredVars, phaseVars,
                   loopVars, eventVars, outVars, wakeups, stopRequested, pool,
                   network>>

-----------------------------------------------------------------------------
\* The workers: busy of them have an event, pushing of these are in the push to the
\* outbox; owes and owesOut are the notifications still to be made to the two
\* eventfds.
unchangedByPool ==
    <<maps, input, writeVars, reading, deferredVars, phaseVars, loopVars, sequence,
      log, outboxClosed, control, backlog, connections, wire, peer>>

\* WorkerPool::run takes an event and notifies exactly at the low watermark.
WorkerPop ==
    /\ inbox > 0 /\ pool.busy < Workers /\ ~pool.done
    /\ inbox' = inbox - 1
    /\ pool' = [pool EXCEPT !.busy = @ + 1,
                            !.owes = IF inbox - 1 = Low THEN @ + 1 ELSE @]
    /\ UNCHANGED <<unchangedByPool, wakeups, outbox, emitted>>

WorkerNotify ==
    /\ \/ /\ pool.owes > 0
          /\ inWake' = TRUE
          /\ pool' = [pool EXCEPT !.owes = @ - 1]
          /\ UNCHANGED outWake
       \/ /\ pool.owesOut > 0
          /\ outWake' = TRUE
          /\ pool' = [pool EXCEPT !.owesOut = @ - 1]
          /\ UNCHANGED inWake
    /\ UNCHANGED <<unchangedByPool, inbox, outbox, emitted>>

\* A worker that has its event to itself, and nothing to do first.
WorkerFree == pool.busy > pool.owes + pool.owesOut + pool.pushing

\* The turn of a worker has emitted a message: the worker is in publishOutbound.
WorkerEmit ==
    /\ WorkerFree /\ emitted < config.messages
    /\ emitted' = emitted + 1
    /\ pool' = [pool EXCEPT !.pushing = @ + 1]
    /\ UNCHANGED <<unchangedByPool, wakeups, inbox, outbox>>

\* publishOutbound: a message to a session the handler knows; the push waits while
\* the outbox is full, and fails once it is closed.
WorkerPush ==
    /\ pool.pushing > 0
    /\ \/ /\ ~outboxClosed /\ Len(outbox) < OutboxCapacity
          /\ \E m \in Messages(1..nextId) : outbox' = Append(outbox, m)
          /\ pool' = [pool EXCEPT !.pushing = @ - 1, !.owesOut = @ + 1]
       \/ /\ outboxClosed
          /\ pool' = [pool EXCEPT !.pushing = @ - 1]
          /\ UNCHANGED outbox
    /\ UNCHANGED <<unchangedByPool, wakeups, inbox, emitted>>

\* The turn ends, or is deferred; a deferred completion comes back through the
\* inbox.
WorkerEnd ==
    /\ WorkerFree
    /\ \/ pool' = [pool EXCEPT !.busy = @ - 1]
       \/ /\ pool.made < config.deferrals
          /\ pool' = [pool EXCEPT !.busy = @ - 1, !.made = @ + 1,
                                  !.deferrals = @ + 1]
    /\ UNCHANGED <<unchangedByPool, wakeups, inbox, outbox, emitted>>

\* The inbox is closed to a completion once the workers are stopped by force, or
\* done.
PoolCompletes ==
    /\ pool.deferrals > 0
    /\ inbox < Capacity \/ pool.forced \/ pool.done
    /\ inbox' = IF pool.forced \/ pool.done THEN inbox ELSE inbox + 1
    /\ pool' = [pool EXCEPT !.deferrals = @ - 1]
    /\ UNCHANGED <<unchangedByPool, wakeups, outbox, emitted>>

\* The workers have ended.  A graceful stop may end them under a deferred event
\* (WorkerPool's GracefulStopWaits is violated), so none is waited for here.
PoolDone ==
    /\ ~pool.done /\ pool.busy = 0
    /\ pool.forced \/ (pool.draining /\ inbox = 0)
    /\ pool' = [pool EXCEPT !.done = TRUE]
    /\ UNCHANGED <<unchangedByPool, wakeups, inbox, outbox, emitted>>

\* The peers.
unchangedByPeers ==
    <<maps, input, writeVars, reading, deferredVars, phaseVars, loopVars, eventVars,
      outVars, wakeups, control, pool, emitted>>

PeerConnects ==
    /\ connections < config.connections
    /\ connections' = connections + 1 /\ backlog' = backlog + 1
    /\ UNCHANGED <<unchangedByPeers, wire, peer>>

\* The frames peers have sent so far, in a socket or given to a codec.
FramesSent ==
    FoldFunction(LAMBDA frames, sum : Len(frames) + sum, 0, fed)
      + FoldFunction(LAMBDA frames, sum : Len(frames) + sum, 0, wire)

PeerSends ==
    /\ FramesSent < config.packets
    /\ \E id \in 1..nextId, frame \in {"packet"} \cup (Happens \cap {"bad"}) :
         /\ peer[id] = "open"
         /\ wire' = [wire EXCEPT ![id] = Append(@, frame)]
    /\ UNCHANGED <<unchangedByPeers, backlog, connections, peer>>

PeerLeaves ==
    /\ \E id \in 1..nextId, how \in {"closed"} \cup (Happens \cap {"reset"}) :
         /\ peer[id] = "open"
         /\ peer' = [peer EXCEPT ![id] = how]
    /\ UNCHANGED <<unchangedByPeers, backlog, connections, wire>>

-----------------------------------------------------------------------------
Init ==
    /\ config \in Configs
    /\ sessionAt = [fd \in Fds |-> 0]
    /\ fdBySession = [id \in Ids |-> NoFd]
    /\ fdByToken = [id \in Ids |-> NoFd]
    /\ nextId = 0
    /\ codec = [id \in Ids |-> <<>>] /\ fed = [id \in Ids |-> <<>>]
    /\ peerReadClosed = [id \in Ids |-> FALSE]
    /\ closing = [id \in Ids |-> FALSE]
    /\ writes = [id \in Ids |-> <<>>] /\ pendingBytes = [id \in Ids |-> 0]
    /\ interest = [fd \in Fds |-> {}]
    /\ listener = TRUE /\ paused = FALSE /\ ctlPaused = FALSE
    /\ deferredReads = <<>> /\ deferredReadSet = {} /\ deferredDisconnects = <<>>
    /\ phase = "Running" /\ forcedShutdown = FALSE
    /\ io = Start /\ batch = {}
    /\ inbox = 0 /\ sequence = [id \in Ids |-> 0] /\ log = [id \in Ids |-> <<>>]
    /\ outbox = <<>> /\ outboxClosed = FALSE
    /\ inWake = FALSE /\ outWake = FALSE
    /\ stopRequested = FALSE /\ late = FALSE
    /\ pool = [busy |-> 0, pushing |-> 0, owes |-> 0, owesOut |-> 0,
               deferrals |-> 0, made |-> 0,
               draining |-> FALSE, forced |-> FALSE, done |-> FALSE]
    /\ backlog = 0 /\ connections = 0
    /\ wire = [id \in Ids |-> <<>>] /\ peer = [id \in Ids |-> "open"]
    /\ emitted = 0

\* run() of the I/O thread.
Loop ==
    \/ LoopTop \/ Wait \/ NextEvent \/ EndOfEvents
    \/ HandleWakeup \/ HandleSession \/ FlushEvent \/ ExpireIdle
Input ==
    \/ AcceptEnd \/ Accept \/ ReadSession \/ Decode \/ ReadStops
    \/ Yield \/ DrainDisconnects \/ PushDisconnected \/ DrainSize
    \/ DrainReads \/ DrainReadsDecode \/ DrainReadsPop \/ DrainReadsError
    \/ ResumeReads \/ ResumeClosed
Output == DrainOutbound \/ DrainOutboundEnd \/ FlushSend \/ FlushEnd
Shutdown ==
    \/ Advance \/ AdvanceInput \/ AdvanceStop \/ AdvanceFinished
    \/ Join \/ FlushAll \/ CloseResources \/ Fail
IoThread == Loop \/ Input \/ Output \/ Shutdown

Pool ==
    \/ WorkerPop \/ WorkerNotify \/ WorkerEmit \/ WorkerPush \/ WorkerEnd
    \/ PoolCompletes \/ PoolDone
Peers == PeerConnects \/ PeerSends \/ PeerLeaves

Next ==
    /\ IoThread \/ Stop \/ DeadlinePasses \/ Pool \/ Peers
    /\ UNCHANGED config

Spec == Init /\ [][Next]_vars

\* The I/O thread runs, workers take events and finish them, deferred events
\* are completed, time passes.  Nobody has to connect, send, emit or stop.
FairSpec ==
    /\ Spec
    /\ WF_serverVars(IoThread)
    /\ WF_serverVars(WorkerPop) /\ WF_serverVars(WorkerNotify)
    /\ WF_serverVars(WorkerPush) /\ WF_serverVars(WorkerEnd)
    /\ WF_serverVars(PoolCompletes) /\ WF_serverVars(PoolDone)
    /\ WF_serverVars(DeadlinePasses)

-----------------------------------------------------------------------------
\* Types, and the limits of the queues.
TypeOK ==
    /\ sessionAt \in [Fds -> {0} \cup Ids]
    /\ fdBySession \in [Ids -> Fds \cup {NoFd}]
    /\ fdByToken \in [Ids -> Fds \cup {NoFd}]
    /\ nextId \in 0..MaxConnections
    /\ codec \in [Ids -> Seq({"packet", "bad"})]
    /\ fed \in [Ids -> Seq({"packet", "bad"})]
    /\ sequence \in [Ids -> Nat]
    /\ peerReadClosed \in [Ids -> BOOLEAN] /\ closing \in [Ids -> BOOLEAN]
    /\ pendingBytes \in [Ids -> 0..MaxPending]
    /\ interest \in [Fds -> SUBSET {"IN", "OUT", "RDHUP"}]
    /\ {listener, paused, ctlPaused, forcedShutdown, outboxClosed, inWake, outWake,
        stopRequested, late} \subseteq BOOLEAN
    /\ deferredReads \in Seq(Fds) /\ deferredReadSet \subseteq Fds
    /\ deferredDisconnects \in Seq(Ids)
    /\ phase \in Phases
    /\ inbox \in 0..Capacity
    /\ outbox \in Seq(Messages(Ids)) /\ Len(outbox) <= OutboxCapacity
    /\ pool.busy \in 0..Workers
    /\ pool.owes + pool.owesOut + pool.pushing <= pool.busy

\* The thread has left the loop.
Left == {"failed", "failedJoin", "close", "stopped"}

\* When the I/O thread goes to sleep it is due to be woken for all it has put
\* off.  With reads paused the inbox is above the low watermark, so some pop will
\* reach it, or the notification is on its way (WorkerPool.cpp:278,
\* drainDeferredInput); decoded packets that are not pushed belong to a session
\* that is queued in deferred_read_fds_ (enqueueDecodedPackets' false).
WakeupDue ==
    At("wait") =>
      /\ phase = "Running" /\ paused => inbox > Low \/ inWake \/ pool.owes > 0
      /\ phase \in {"Running", "DrainingInput"} =>
           /\ \A fd \in OpenFds : HasPacket(sessionAt[fd]) => fd \in deferredReadSet
           /\ \A fd \in deferredReadSet :
                \E i \in DOMAIN deferredReads : deferredReads[i] = fd

\* The sessions of deferred disconnects and the open ones are together within
\* max_sessions, so that deferDisconnected never throws (TcpServer.cpp:701); the
\* queues and write limits hold too.
DeferredWithinLimit ==
    /\ TypeOK
    /\ Len(deferredDisconnects) + Cardinality(OpenFds) <= MaxSessions

\* The bytes that queued writes have still to send: byte b of write i.
BytesOf(queue) == UNION {{<<i, b>> : b \in 1..queue[i].left} : i \in DOMAIN queue}

\* What is kept twice agrees.  epoll is asked for what updateInterest would
\* compute now (no pending write waits without EPOLLOUT, no session is read while
\* reads are paused); pending_write_bytes_ is what the queued writes still have to
\* send; while the server runs reads_paused_, the controller's own flag and the
\* listener's registration follow each other (pauseReads, resumeReads).
InterestExact ==
    /\ \A fd \in OpenFds \ {io.flushFd} :
         interest[fd] = Wanted(fd, paused, phase, closing, writes)
    /\ \A id \in Ids :
         pendingBytes[id] = Cardinality(BytesOf(writes[id]))
    /\ phase = "Running" /\ io.pc \notin Left
         => paused = ctlPaused /\ listener = ~paused

\* However often a descriptor is reused, what goes through it is its session's:
\* what is queued for the socket was addressed to that session (drainOutbound
\* looks up by session id), and a descriptor left behind in deferred_read_fds_ by
\* a session that is gone has not been given to another.
DeliveredToOwner ==
    /\ \A id \in Ids : \A i \in DOMAIN writes[id] : writes[id][i].to = id
    /\ \A i \in DOMAIN deferredReads :
         deferredReads[i] \notin deferredReadSet => sessionAt[deferredReads[i]] = 0

\* A shutdown that was not forced has handed over every packet it decoded and
\* every deferred Disconnected, and has sent all that was emitted for the
\* sessions that are still open (advanceShutdown).
GracefulSendsAll ==
    phase = "Complete" /\ ~forcedShutdown =>
      /\ outbox = <<>> /\ deferredDisconnects = <<>>
      /\ \A fd \in OpenFds : writes[sessionAt[fd]] = <<>>
      /\ \A fd \in OpenFds : ~HasPacket(sessionAt[fd])

\* The events of each session are the ones SessionEvents promises.
Promise == INSTANCE SessionEvents WITH arrived <- fed, stream <- log
KeepsPromise == Promise!Spec

\* Input keeps moving (WorkerPool.cpp:278, deferDisconnected): paused reads
\* resume unless the server is stopped, and the workers hear of every session
\* that goes unless the shutdown is forced or beyond its input phase.
InputMoves ==
    /\ paused ~> ~paused \/ stopRequested \/ io.pc \in Left
    /\ \A id \in Ids :
         (id <= nextId /\ fdBySession[id] = NoFd)
           ~> \/ Promise!Ended(id)
              \/ phase \notin {"Running", "DrainingInput"} \/ io.pc \in Left

\* Once beginStop was called the I/O thread pushes no event, which the pool's drain
\* assumes of its producer (disconnect in the phases after DrainingInput).
SilentAfterStop == [][pool.draining => log' = log]_vars

\* stop() ends run(), whatever the workers and peers do, and beginStop comes after
\* the last event.
StopEnds == (stopRequested ~> At("stopped")) /\ SilentAfterStop
=============================================================================
