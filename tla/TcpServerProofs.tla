-------------------------- MODULE TcpServerProofs ---------------------------
(***************************************************************************)
(* Theorems about TcpServer.  The inductive invariant, ServerInv, is built  *)
(* first: CoreInv for the sessions, the position of the I/O thread and what *)
(* is put off, OutInv for what is to be sent.  The theorems then add what   *)
(* each of them needs: Stages and Graceful (shutdown), ReadOnce and DueInv  *)
(* (wakeups), LateInv and WatchInv (epoll), StreamInv (events).             *)
(***************************************************************************)
EXTENDS TcpServer, FiniteSetTheorems, TLAPS

Frames == {"packet", "bad"}
Interests == SUBSET {"IN", "OUT", "RDHUP"}
Peers3 == {"open", "closed", "reset"}

\* What the types of the variables are, in the groups that steps change together.
MapTypes ==
    /\ sessionAt \in [Fds -> {0} \cup Ids]
    /\ fdBySession \in [Ids -> Fds \cup {NoFd}]
    /\ fdByToken \in [Ids -> Fds \cup {NoFd}]
    /\ nextId \in 0..MaxConnections

InputTypes ==
    /\ codec \in [Ids -> Seq(Frames)] /\ fed \in [Ids -> Seq(Frames)]
    /\ wire \in [Ids -> Seq(Frames)]
    /\ peerReadClosed \in [Ids -> BOOLEAN]

ReadingTypes ==
    /\ interest \in [Fds -> Interests]
    /\ listener \in BOOLEAN /\ paused \in BOOLEAN /\ ctlPaused \in BOOLEAN

EventTypes == inbox \in 0..Capacity /\ sequence \in [Ids -> Nat]

DeferredTypes ==
    /\ deferredReads \in Seq(Fds) /\ deferredReadSet \subseteq Fds
    /\ deferredDisconnects \in Seq(Ids)

-----------------------------------------------------------------------------
\* The configuration.
LEMMA ConfigIs ==
  ASSUME config \in Configs
  PROVE  /\ MaxSessions \in Nat \ {0} /\ Capacity \in Nat /\ High \in Nat /\ Low \in Nat \ {0}
         /\ Low < High /\ High <= Capacity
         /\ OutboxCapacity \in Nat \ {0} /\ MaxPending \in Nat \ {0} /\ Workers \in Nat \ {0}
         /\ {AcceptLimit, DrainLimit, WorkLimit, FlushLimit} \subseteq Nat \ {0}
         /\ config.sizes \subseteq Nat \ {0}
         /\ MaxSessions <= Cardinality(Fds)
         /\ config.connections \in Nat /\ config.connections <= MaxConnections
         /\ IsFiniteSet(Fds) /\ Fds \subseteq Nat \ {0} /\ MaxConnections \in Nat
  BY TcpServerAssumption
  DEF Validate, MaxSessions, Capacity, High, Low, OutboxCapacity, MaxPending, Workers,
      AcceptLimit, DrainLimit, WorkLimit, FlushLimit

\* What is watched of a session.
LEMMA WantedType ==
  ASSUME NEW fd, NEW isPaused, NEW ph, NEW cl, NEW wr
  PROVE  Wanted(fd, isPaused, ph, cl, wr) \in Interests
  BY DEF Wanted, Interests

LEMMA InterestAllType ==
  ASSUME NEW isPaused, NEW ph, NEW gone
  PROVE  InterestAll(isPaused, ph, gone) \in [Fds -> Interests]
  <1>1. ASSUME NEW fd \in Fds
        PROVE  (IF fd \in OpenFds \ gone
                THEN Wanted(fd, isPaused, ph, closing, writes) ELSE {}) \in Interests
    BY WantedType DEF Interests
  <1> QED
    BY <1>1 DEF InterestAll

LEMMA InterestWithoutType ==
  ASSUME ReadingTypes, NEW gone
  PROVE  InterestWithout(gone) \in [Fds -> Interests]
  BY DEF InterestWithout, ReadingTypes, Interests

LEMMA PauseReadsIs ==
  ASSUME ReadingTypes, NEW gone, PauseReads(gone)
  PROVE  /\ interest' \in [Fds -> Interests] /\ listener' \in BOOLEAN /\ paused' = TRUE
  BY InterestAllType, InterestWithoutType DEF PauseReads, ReadingTypes

\* pauseReads follows the controller's flag.
LEMMA ObservePushIs ==
  ASSUME ReadingTypes, High \in Nat, NEW n \in Nat, NEW gone, ObservePush(n, gone)
  PROVE  /\ ReadingTypes' /\ (paused => paused')
         /\ paused = ctlPaused => paused' = ctlPaused' /\ (n >= High => paused')
  <1>1. CASE ~ctlPaused /\ n >= High /\ PauseReads(gone)
    BY <1>1, PauseReadsIs DEF ObservePush, ReadingTypes
  <1>2. CASE /\ ctlPaused \/ n < High
             /\ interest' = InterestWithout(gone)
             /\ UNCHANGED <<paused, listener>>
    <2>1. ctlPaused' = (ctlPaused \/ n >= High)
      BY DEF ObservePush
    <2>2. ~(n < High) <=> n >= High
      OBVIOUS
    <2>3. CASE ctlPaused
      BY <1>2, <2>1, <2>3, InterestWithoutType DEF ReadingTypes
    <2>4. CASE ~ctlPaused
      BY <1>2, <2>1, <2>2, <2>4, InterestWithoutType DEF ReadingTypes
    <2> QED
      BY <2>3, <2>4
  <1> QED
    BY <1>1, <1>2 DEF ObservePush

LEMMA ObserveFullIs ==
  ASSUME ReadingTypes, NEW gone, ObserveFull(gone)
  PROVE  ReadingTypes' /\ paused' = TRUE /\ ctlPaused' = TRUE
  BY PauseReadsIs DEF ObserveFull, ReadingTypes

LEMMA PushEventIs ==
  ASSUME config \in Configs, ReadingTypes, EventTypes, NEW kind, NEW id \in Ids, NEW gone,
         PushEvent(kind, id, gone), UNCHANGED config
  PROVE  /\ ReadingTypes' /\ EventTypes' /\ (paused => paused')
         /\ paused = ctlPaused => paused' = ctlPaused' /\ (inbox + 1 >= High => paused')
         /\ log' = [log EXCEPT ![id] = Append(@, [kind |-> kind, sequence |-> sequence[id]])]
  <1>1. Capacity \in Nat /\ High \in Nat /\ Capacity' = Capacity
    BY ConfigIs DEF Capacity
  <1>2. inbox + 1 \in Nat /\ inbox' \in 0..Capacity
    BY <1>1 DEF EventTypes, PushEvent
  <1>3. sequence' \in [Ids -> Nat]
    BY DEF EventTypes, PushEvent
  <1>4. ObservePush(inbox + 1, gone)
    BY DEF PushEvent
  <1>5. /\ ReadingTypes' /\ (paused => paused')
        /\ paused = ctlPaused => paused' = ctlPaused' /\ (inbox + 1 >= High => paused')
    BY <1>1, <1>2, <1>4, ObservePushIs
  <1> QED
    BY <1>1, <1>2, <1>3, <1>5 DEF EventTypes, PushEvent

-----------------------------------------------------------------------------
\* Where the I/O thread is, and where it goes on.

Reading == {"read", "decode", "readDefer", "readError"}
DrainingInput == {"disconnects", "yield", "pushDisconnected", "disconnectsSize", "reads",
                  "readsDecode", "readsPop", "readsError", "readsDisconnect", "readsSize",
                  "resume?", "resume"}
Outing == {"out", "outSize"}
Advancing == {"advance", "advanceInput", "advanceStop", "advanceOutput",
              "advanceFinished", "advanceEnd"}
Looping == {"top", "wait", "events", "event", "flushEvent", "expire", "accept",
            "join", "flushAll", "flushNext"}
Labels == Reading \cup DrainingInput \cup Outing \cup Advancing \cup Looping \cup Left
            \cup {"flush"}

EventType == [token : 0..(3 + MaxConnections), flags : SUBSET {"IN", "RDHUP", "ERR", "OUT"}]
IoType ==
    [pc : Labels, ev : EventType, slots : Nat,
     fd : Fds \cup {NoFd}, drain : BOOLEAN, readRet : Labels \cup {""},
     work : Nat, drainRet : Labels \cup {""}, drained : BOOLEAN, closed : SUBSET Fds,
     popped : Nat, outRet : Labels \cup {""},
     flushFd : Fds \cup {NoFd}, sent : Nat, flushRet : Labels \cup {""},
     advanceRet : Labels \cup {""}]

InDrain(j) ==
    j.pc \in DrainingInput \/ (j.pc \in Reading /\ j.readRet \in {"reads", "resume"})
InAdvance(j) ==
    \/ j.pc \in Advancing
    \/ InDrain(j) /\ j.drainRet = "advanceStop"
    \/ j.pc \in Outing /\ j.outRet \in Advancing

\* The calls that are under way know where they return to, and have the locals
\* of those that are not as Start has them.
CallsOK(j) ==
    /\ j.pc \in Reading =>
         /\ j.readRet \in {"flushEvent", "events", "reads", "resume"}
         /\ j.drain => j.readRet = "reads"
         /\ j.fd \in Fds
    /\ j.pc \notin Reading => ~j.drain
    /\ j.pc = "readsDisconnect" => j.fd \in Fds
    /\ InDrain(j) => j.drainRet \in {"events", "advanceStop"}
    /\ j.pc \in Outing =>
         j.outRet \in {"events", "expire", "advanceInput", "advanceFinished",
                       "advanceEnd", "flushAll"}
    /\ j.pc = "flush" => j.flushRet \in {"events", "flushNext"} /\ j.flushFd \in Fds
    /\ j.pc # "flush" => j.flushFd = NoFd
    /\ InAdvance(j) => j.advanceRet \in {"wait", "top"}
    /\ j.pc = "flushEvent" \/ (j.pc \in Reading /\ j.readRet = "flushEvent") =>
         j.ev.token - 3 \in Ids

Calls == io \in IoType /\ CallsOK(io)

\* The same call goes on.
SameCall(l, m) ==
    \/ l \in Reading /\ m \in Reading
    \/ l \in DrainingInput \ {"readsDisconnect"} /\ m \in DrainingInput \ {"readsDisconnect"}
    \/ l \in Outing /\ m \in Outing
    \/ l \in Advancing /\ m \in Advancing
    \/ l \in Looping /\ m \in (Looping \cup Left) \ {"flushEvent"}
    \/ l \in Left /\ m \in Left

LEMMA GotoCalls ==
  ASSUME NEW j \in IoType, CallsOK(j), NEW l \in Labels, SameCall(j.pc, l)
  PROVE  /\ [j EXCEPT !.pc = l] \in IoType /\ CallsOK([j EXCEPT !.pc = l])
  <1> DEFINE k == [j EXCEPT !.pc = l]
  <1>1. k \in IoType /\ k.pc = l
    BY ZenonT(60) DEF IoType
  <1>2. /\ k.fd = j.fd /\ k.drain = j.drain /\ k.readRet = j.readRet
        /\ k.drainRet = j.drainRet /\ k.outRet = j.outRet /\ k.flushRet = j.flushRet
        /\ k.flushFd = j.flushFd /\ k.advanceRet = j.advanceRet /\ k.ev = j.ev
    BY DEF IoType
  <1> HIDE DEF k
  <1>3. CallsOK(k)
    BY <1>1, <1>2 DEF CallsOK, SameCall, InDrain, InAdvance, Reading, DrainingInput, Outing,
       Advancing, Looping, Left
  <1> QED
    BY <1>1, <1>3 DEF k

-----------------------------------------------------------------------------
\* The invariant behind the limits, and behind what reused descriptors deliver.

BatchTypes == batch \subseteq EventType

\* What a position says of the state.
Positions ==
    /\ io.pc = "accept" => phase = "Running" /\ ~paused
    /\ io.pc \in {"decode", "readDefer", "readError", "readsDisconnect"} =>
         io.fd \in OpenFds
    /\ io.pc = "flush" => io.flushFd \in OpenFds
    /\ io.pc = "flushNext" \/ (io.pc = "flush" /\ io.flushRet = "flushNext") =>
         io.closed \subseteq OpenFds \ {io.flushFd}
    /\ io.pc \in {"readsDecode", "readsPop", "readsError"} =>
         deferredReads # <<>> /\ Head(deferredReads) \in deferredReadSet
    /\ io.pc = "pushDisconnected" => deferredDisconnects # <<>>
    /\ io.pc = "resume?" => deferredReads = <<>>

\* sessions_by_fd_, fd_by_session_ and fd_by_registration_token_ agree, and an
\* id is given out once.
MapsAgree ==
    /\ \A fd \in OpenFds : /\ fdBySession[sessionAt[fd]] = fd
                           /\ sessionAt[fd] <= nextId
    /\ \A id \in Ids : fdBySession[id] # NoFd => sessionAt[fdBySession[id]] = id
    /\ fdByToken = fdBySession

Connected ==
    /\ connections \in Nat /\ backlog \in Nat
    /\ nextId + backlog <= connections /\ connections <= config.connections
    /\ \A id \in Ids : id > nextId => codec[id] = <<>>

Within == Len(deferredDisconnects) + Cardinality(OpenFds) <= MaxSessions

\* deferred_read_fds_ has each session of its set once, and descriptors of
\* sessions that are gone.
ReadQueue ==
    /\ deferredReadSet \subseteq OpenFds
    /\ \A fd \in deferredReadSet : \E i \in DOMAIN deferredReads : deferredReads[i] = fd
    /\ \A i, j \in DOMAIN deferredReads :
         deferredReads[i] = deferredReads[j] /\ deferredReads[i] \in deferredReadSet => i = j
    /\ \A i \in DOMAIN deferredReads :
         deferredReads[i] \notin deferredReadSet => sessionAt[deferredReads[i]] = 0

\* Reads are paused while anything is put off, until the thread leaves its loop.
PausedWhile ==
    phase = "Running" /\ io.pc \notin Left =>
      /\ paused = ctlPaused
      /\ deferredReads # <<>> \/ deferredDisconnects # <<>> => paused
      /\ io.drain \/ io.pc = "readDefer" => paused

\* A packet that is decoded and not pushed has the read of its session put off.
PutOff ==
    /\ \A fd \in OpenFds : HasPacket(sessionAt[fd]) =>
         fd \in deferredReadSet \/ (io.pc \in {"decode", "readDefer"} /\ io.fd = fd)
    /\ io.pc \in {"readError", "readsDisconnect"} => ~HasPacket(sessionAt[io.fd])
    /\ io.pc \in {"readsPop", "readsError"} => ~HasPacket(sessionAt[Head(deferredReads)])

Typed ==
    /\ config \in Configs /\ phase \in Phases
    /\ MapTypes /\ InputTypes /\ ReadingTypes /\ EventTypes /\ DeferredTypes /\ BatchTypes

CoreInv ==
    /\ Typed /\ Calls /\ Positions /\ MapsAgree /\ Connected /\ Within
    /\ ReadQueue /\ PausedWhile /\ PutOff

-----------------------------------------------------------------------------
\* disconnect().

LEMMA OpenFinite ==
  ASSUME IsFiniteSet(Fds)
  PROVE  IsFiniteSet(OpenFds) /\ Cardinality(OpenFds) \in Nat
  BY FS_Subset, FS_CardinalityType DEF OpenFds

\* What disconnect() does, whichever way it takes: it never goes beyond the limit
\* of the deferred disconnects, since the session still counts.
LosesSession(fd, next) ==
    /\ sessionAt' = [sessionAt EXCEPT ![fd] = 0]
    /\ fdBySession' = [fdBySession EXCEPT ![sessionAt[fd]] = NoFd]
    /\ fdByToken' = [fdByToken EXCEPT ![sessionAt[fd]] = NoFd]
    /\ nextId' = nextId
    /\ deferredReadSet' = deferredReadSet \ {fd} /\ deferredReads' = deferredReads
    /\ ReadingTypes' /\ EventTypes' /\ (paused => paused')
    /\ paused = ctlPaused => paused' = ctlPaused'
    /\ \/ deferredDisconnects' = deferredDisconnects
       \/ /\ deferredDisconnects' = Append(deferredDisconnects, sessionAt[fd])
          /\ phase = "Running" => paused' \/ HasPacket(sessionAt[fd])
    /\ io' = next

LEMMA DisconnectIs ==
  ASSUME CoreInv, UNCHANGED config, NEW fd \in OpenFds, NEW next, Disconnect(fd, next)
  PROVE  LosesSession(fd, next)
  <1>1. /\ config \in Configs /\ ReadingTypes /\ EventTypes /\ MapTypes /\ DeferredTypes
        /\ Within
    BY DEF CoreInv, Typed
  <1> DEFINE id == sessionAt[fd]
  <1>2. id \in Ids
    BY <1>1 DEF OpenFds, MapTypes
  <1>3. Len(deferredDisconnects) < MaxSessions
    <2>1. IsFiniteSet(OpenFds) /\ Cardinality(OpenFds) \in Nat /\ MaxSessions \in Nat
      BY <1>1, ConfigIs, OpenFinite
    <2>2. Cardinality(OpenFds) # 0
      BY <2>1, FS_EmptySet
    <2>3. Len(deferredDisconnects) \in Nat
      BY <1>1 DEF DeferredTypes
    <2> QED
      BY <1>1, <2>1, <2>2, <2>3 DEF Within
  <1>4. /\ Capacity' = Capacity /\ Forget(fd, id)
    BY DEF Disconnect, Capacity
  <1>5. ASSUME DeferDisconnected(id, next)
        PROVE  deferredDisconnects' = Append(deferredDisconnects, id) /\ io' = next
    <2>1. Len(deferredDisconnects) \in Nat /\ MaxSessions \in Nat
      BY <1>1, ConfigIs DEF DeferredTypes
    <2> QED
      BY <1>3, <1>5, <2>1 DEF DeferDisconnected
  <1> DEFINE Rest ==
      /\ ReadingTypes' /\ EventTypes' /\ (paused => paused')
      /\ paused = ctlPaused => paused' = ctlPaused'
      /\ \/ deferredDisconnects' = deferredDisconnects
         \/ /\ deferredDisconnects' = Append(deferredDisconnects, id)
            /\ phase = "Running" => paused' \/ HasPacket(id)
      /\ io' = next
  <1>6. ASSUME /\ PushEvent("Disconnected", id, {fd})
               /\ io' = next /\ UNCHANGED deferredDisconnects
        PROVE  Rest
    BY <1>1, <1>2, <1>6, PushEventIs
  <1>7. ASSUME ObserveFull({fd}), DeferDisconnected(id, next), UNCHANGED eventVars
        PROVE  Rest
    BY <1>1, <1>4, <1>5, <1>7, ObserveFullIs DEF eventVars, EventTypes
  <1>8. ASSUME /\ PutsOff(id) /\ DeferDisconnected(id, next)
               /\ interest' = InterestWithout({fd})
               /\ UNCHANGED <<eventVars, paused, listener, ctlPaused>>
        PROVE  Rest
    <2>1. ReadingTypes'
      BY <1>1, <1>8, InterestWithoutType DEF ReadingTypes
    <2> QED
      BY <1>1, <1>4, <1>5, <1>8, <2>1 DEF eventVars, EventTypes, PutsOff
  <1>9. ASSUME /\ interest' = InterestWithout({fd}) /\ io' = next
               /\ UNCHANGED <<eventVars, paused, listener, ctlPaused, deferredDisconnects>>
        PROVE  Rest
    <2>1. ReadingTypes'
      BY <1>1, <1>9, InterestWithoutType DEF ReadingTypes
    <2> QED
      BY <1>1, <1>4, <1>9, <2>1 DEF eventVars, EventTypes
  <1>10. Rest
    BY <1>6, <1>7, <1>8, <1>9 DEF Disconnect
  <1> QED
    BY <1>4, <1>10 DEF LosesSession, Forget

LEMMA GoneIs ==
  ASSUME MapTypes, NEW fd \in OpenFds, sessionAt' = [sessionAt EXCEPT ![fd] = 0]
  PROVE  /\ OpenFds' = OpenFds \ {fd} /\ fd \in Fds
         /\ \A f \in Fds \ {fd} : sessionAt'[f] = sessionAt[f]
         /\ sessionAt'[fd] = 0 /\ sessionAt[fd] \in Ids
  BY DEF OpenFds, MapTypes

\* Where the thread goes on from a disconnect().
GoesOn(next, fd) ==
    /\ next \in IoType /\ CallsOK(next)
    /\ next.pc \in {"events", "expire", "flushEvent", "reads", "resume", "readsSize", "out",
                    "flushNext"}
    /\ next.pc = "flushNext" => next.closed \subseteq OpenFds \ {fd}

LEMMA DisconnectKeeps ==
  ASSUME CoreInv, NEW fd \in OpenFds, NEW next, LosesSession(fd, next), GoesOn(next, fd),
         UNCHANGED <<config, phase, codec, fed, wire, connections, backlog>>,
         peerReadClosed' \in [Ids -> BOOLEAN], BatchTypes', io.pc \notin Left,
         io.pc \notin {"decode", "readDefer"}
  PROVE  CoreInv'
  <1>1. /\ Typed /\ Calls /\ Positions /\ MapsAgree /\ Connected /\ Within
        /\ ReadQueue /\ PausedWhile /\ PutOff
        /\ config \in Configs /\ phase \in Phases
        /\ MapTypes /\ InputTypes /\ ReadingTypes /\ EventTypes /\ DeferredTypes
    BY DEF CoreInv, Typed
  <1>2. /\ OpenFds' = OpenFds \ {fd} /\ sessionAt[fd] \in Ids /\ fd \in Fds
        /\ \A f \in Fds \ {fd} : sessionAt'[f] = sessionAt[f]
        /\ sessionAt'[fd] = 0
    BY <1>1, GoneIs DEF LosesSession, OpenFds
  <1>3. MapTypes'
    BY <1>1, <1>2 DEF LosesSession, MapTypes
  <1>4. DeferredTypes'
    <2>1. deferredReads' \in Seq(Fds) /\ deferredReadSet' \subseteq Fds
      BY <1>1 DEF LosesSession, DeferredTypes
    <2>2. deferredDisconnects \in Seq(Ids)
      BY <1>1 DEF DeferredTypes
    <2>3. \/ deferredDisconnects' = deferredDisconnects
          \/ deferredDisconnects' = Append(deferredDisconnects, sessionAt[fd])
      BY DEF LosesSession
    <2>4. deferredDisconnects' \in Seq(Ids)
      BY <1>2, <2>2, <2>3
    <2> QED
      BY <2>1, <2>4 DEF DeferredTypes
  <1>5. Typed'
    BY <1>1, <1>3, <1>4 DEF LosesSession, Typed, InputTypes
  <1>6. Calls'
    BY DEF Calls, LosesSession, GoesOn
  <1>7. io'.pc = next.pc /\ io'.closed = next.closed /\ io'.flushFd = NoFd /\ ~io'.drain
    BY DEF LosesSession, GoesOn, CallsOK, Reading
  <1>8. Positions'
    <2>1. io'.pc = "flushNext" => io'.closed \subseteq OpenFds' \ {io'.flushFd}
      <3>1. NoFd \notin Fds
        BY <1>1, ConfigIs DEF NoFd
      <3> QED
        BY <1>2, <1>7, <3>1 DEF GoesOn, OpenFds
    <2> QED
      BY <1>7, <2>1 DEF Positions, GoesOn
  <1>9. MapsAgree'
    <2>1. ASSUME NEW f \in OpenFds'
          PROVE  fdBySession'[sessionAt'[f]] = f /\ sessionAt'[f] <= nextId'
      <3>1. f \in OpenFds /\ f # fd /\ f \in Fds /\ sessionAt'[f] = sessionAt[f]
        BY <1>2, <2>1 DEF OpenFds
      <3>2. sessionAt[f] # sessionAt[fd] /\ sessionAt[f] \in Ids
        BY <1>1, <3>1 DEF MapsAgree, MapTypes, OpenFds
      <3> QED
        BY <1>1, <1>2, <3>1, <3>2 DEF MapsAgree, LosesSession, MapTypes
    <2>2. ASSUME NEW id \in Ids, fdBySession'[id] # NoFd
          PROVE  sessionAt'[fdBySession'[id]] = id
      <3>1. id # sessionAt[fd] /\ fdBySession'[id] = fdBySession[id]
        BY <1>1, <1>2, <2>2 DEF LosesSession, MapTypes
      <3>2. sessionAt[fdBySession[id]] = id /\ fdBySession[id] \in Fds
        BY <1>1, <2>2, <3>1 DEF MapsAgree, MapTypes
      <3> QED
        BY <1>2, <3>1, <3>2
    <2> QED
      BY <1>1, <2>1, <2>2 DEF MapsAgree, LosesSession
  <1>10. Connected'
    BY <1>1 DEF Connected, LosesSession
  <1>11. Within'
    <2>1. IsFiniteSet(OpenFds) /\ Cardinality(OpenFds) \in Nat /\ MaxSessions \in Nat
          /\ MaxSessions' = MaxSessions
      BY <1>1, ConfigIs, OpenFinite DEF MaxSessions
    <2>2. Cardinality(OpenFds') = Cardinality(OpenFds) - 1
      BY <1>2, <2>1, FS_RemoveElement
    <2>3. Len(deferredDisconnects) \in Nat /\ deferredDisconnects \in Seq(Ids)
      BY <1>1 DEF DeferredTypes
    <2>4. Len(deferredDisconnects') <= Len(deferredDisconnects) + 1
          /\ Len(deferredDisconnects') \in Nat
      BY <1>2, <2>3 DEF LosesSession
    <2> QED
      BY <1>1, <2>1, <2>2, <2>3, <2>4 DEF Within
  <1>12. ReadQueue'
    <2>1. deferredReadSet' \subseteq OpenFds'
      BY <1>1, <1>2 DEF ReadQueue, LosesSession
    <2>2. ASSUME NEW i \in DOMAIN deferredReads, deferredReads[i] \notin deferredReadSet'
          PROVE  sessionAt'[deferredReads[i]] = 0
      <3>1. deferredReads[i] \in Fds
        BY <1>1 DEF DeferredTypes
      <3> QED
        BY <1>1, <1>2, <2>2, <3>1 DEF ReadQueue, LosesSession
    <2> QED
      BY <1>1, <2>1, <2>2 DEF ReadQueue, LosesSession
  <1>13. PausedWhile'
    <2> SUFFICES ASSUME phase = "Running"
                 PROVE  /\ paused' = ctlPaused'
                        /\ deferredReads' # <<>> \/ deferredDisconnects' # <<>> => paused'
      BY <1>7 DEF PausedWhile, GoesOn
    <2>1. paused = ctlPaused /\ (deferredReads # <<>> \/ deferredDisconnects # <<>> => paused)
      BY <1>1 DEF PausedWhile
    <2>2. HasPacket(sessionAt[fd]) => paused
      <3>1. HasPacket(sessionAt[fd]) => fd \in deferredReadSet
        BY <1>1 DEF PutOff
      <3>2. fd \in deferredReadSet => deferredReads # <<>>
        BY <1>1 DEF ReadQueue
      <3> QED
        BY <2>1, <3>1, <3>2
    <2> QED
      BY <2>1, <2>2 DEF LosesSession
  <1>14. PutOff'
    <2>1. ASSUME NEW f \in OpenFds', HasPacket(sessionAt[f])' PROVE f \in deferredReadSet'
      <3>1. f \in OpenFds /\ f # fd /\ sessionAt'[f] = sessionAt[f]
        BY <1>2, <2>1 DEF OpenFds
      <3>2. HasPacket(sessionAt[f])
        BY <2>1, <3>1 DEF HasPacket
      <3> QED
        BY <1>1, <3>1, <3>2 DEF PutOff, LosesSession
    <2> QED
      BY <1>7, <2>1 DEF PutOff, GoesOn
  <1> QED
    BY <1>5, <1>6, <1>8, <1>9, <1>10, <1>11, <1>12, <1>13, <1>14 DEF CoreInv

-----------------------------------------------------------------------------
\* Calls and returns.

LEMMA LabelSets ==
  /\ Reading \subseteq Labels /\ DrainingInput \subseteq Labels /\ Outing \subseteq Labels
  /\ Advancing \subseteq Labels /\ Looping \subseteq Labels /\ Left \subseteq Labels
  /\ "flush" \in Labels
  BY DEF Labels

LEMMA EnterOutIs ==
  ASSUME Calls, io.pc \notin Reading \cup {"flush"},
         NEW ret \in {"events", "expire", "advanceInput", "advanceFinished", "advanceEnd",
                      "flushAll"},
         ret \in Advancing => InAdvance(io)
  PROVE  /\ EnterOut(ret) \in IoType /\ CallsOK(EnterOut(ret))
         /\ EnterOut(ret).pc = "out" /\ ~EnterOut(ret).drain
  <1> DEFINE k == EnterOut(ret)
  <1>1. ret \in Labels /\ "out" \in Labels
    BY DEF Labels, Looping, Advancing, Outing
  <1>2. k \in IoType /\ k.pc = "out" /\ k.outRet = ret
    BY ZenonT(60), <1>1 DEF IoType, EnterOut, Calls
  <1>3. k.drain = io.drain /\ k.flushFd = io.flushFd /\ k.advanceRet = io.advanceRet
    BY DEF IoType, EnterOut, Calls
  <1> HIDE DEF k
  <1>4. CallsOK(k) /\ ~k.drain
    BY <1>2, <1>3 DEF Calls, CallsOK, InDrain, InAdvance, Reading, DrainingInput, Outing, Advancing
  <1> QED
    BY <1>2, <1>4 DEF k

LEMMA EnterDrainIs ==
  ASSUME Calls, config \in Configs, io.pc \notin Reading \cup {"flush"},
         NEW ret \in {"events", "advanceStop"}, ret = "advanceStop" => InAdvance(io)
  PROVE  /\ EnterDrain(ret) \in IoType /\ CallsOK(EnterDrain(ret))
         /\ EnterDrain(ret).pc = "disconnects" /\ ~EnterDrain(ret).drain
  <1> DEFINE k == EnterDrain(ret)
  <1>1. ret \in Labels /\ "disconnects" \in Labels /\ WorkLimit \in Nat
    BY ConfigIs DEF Labels, Looping, Advancing, DrainingInput
  <1>2. k \in IoType /\ k.pc = "disconnects" /\ k.drainRet = ret
    BY ZenonT(60), <1>1 DEF IoType, EnterDrain, Calls
  <1>3. k.drain = io.drain /\ k.flushFd = io.flushFd /\ k.advanceRet = io.advanceRet
    BY DEF IoType, EnterDrain, Calls
  <1> HIDE DEF k
  <1>4. CallsOK(k) /\ ~k.drain
    BY <1>2, <1>3 DEF Calls, CallsOK, InDrain, InAdvance, Reading, DrainingInput, Outing, Advancing
  <1> QED
    BY <1>2, <1>4 DEF k

\* readSession is called by drainDeferredInput, or for an event of the loop.
LEMMA EnterReadIs ==
  ASSUME Calls, NEW fd \in Fds, NEW drain \in BOOLEAN, io.pc # "flush",
         NEW ret \in {"events", "reads", "resume"}, drain => ret = "reads",
         ret # "events" => io.pc \in DrainingInput
  PROVE  /\ EnterRead(fd, drain, ret) \in IoType /\ CallsOK(EnterRead(fd, drain, ret))
         /\ EnterRead(fd, drain, ret).pc = "read" /\ EnterRead(fd, drain, ret).drain = drain
  <1> DEFINE k == EnterRead(fd, drain, ret)
  <1>1. ret \in Labels /\ "read" \in Labels
    BY DEF Labels, Looping, Reading, DrainingInput
  <1>2. k \in IoType /\ k.pc = "read" /\ k.readRet = ret /\ k.drain = drain /\ k.fd = fd
    BY ZenonT(60), <1>1 DEF IoType, EnterRead, Calls
  <1>3. k.flushFd = io.flushFd /\ k.advanceRet = io.advanceRet /\ k.drainRet = io.drainRet
    BY DEF IoType, EnterRead, Calls
  <1> HIDE DEF k
  <1>4. CallsOK(k)
    BY <1>2, <1>3 DEF Calls, CallsOK, InDrain, InAdvance, Reading, DrainingInput, Outing, Advancing
  <1> QED
    BY <1>2, <1>4 DEF k

LEMMA EnterFlushIs ==
  ASSUME Calls, NEW fd \in Fds, io.pc \notin Reading, NEW ret \in {"events", "flushNext"}
  PROVE  /\ EnterFlush(fd, ret) \in IoType /\ CallsOK(EnterFlush(fd, ret))
         /\ EnterFlush(fd, ret).pc = "flush" /\ EnterFlush(fd, ret).flushFd = fd
         /\ EnterFlush(fd, ret).flushRet = ret /\ ~EnterFlush(fd, ret).drain
         /\ EnterFlush(fd, ret).closed = io.closed
  <1> DEFINE k == EnterFlush(fd, ret)
  <1>1. ret \in Labels /\ "flush" \in Labels
    BY DEF Labels, Looping
  <1>2. k \in IoType /\ k.pc = "flush" /\ k.flushRet = ret /\ k.flushFd = fd
    BY ZenonT(60), <1>1 DEF IoType, EnterFlush, Calls
  <1>3. k.drain = io.drain /\ k.closed = io.closed
    BY DEF IoType, EnterFlush, Calls
  <1> HIDE DEF k
  <1>4. CallsOK(k) /\ ~k.drain
    BY <1>2, <1>3 DEF Calls, CallsOK, InDrain, InAdvance, Reading, DrainingInput, Outing, Advancing
  <1> QED
    BY <1>2, <1>3, <1>4 DEF k

LEMMA ReadReturnIs ==
  ASSUME Calls, io.pc \in Reading
  PROVE  /\ ReadReturn \in IoType /\ CallsOK(ReadReturn)
         /\ ReadReturn.pc \in {"flushEvent", "events", "reads", "resume"} /\ ~ReadReturn.drain
  <1> DEFINE k == ReadReturn
  <1>1. io.readRet \in {"flushEvent", "events", "reads", "resume"} /\ io.readRet \in Labels
    BY DEF Labels, Looping, Reading, DrainingInput, Calls, CallsOK
  <1>2. k \in IoType /\ k.pc = io.readRet /\ k.drain = FALSE
    BY ZenonT(60), <1>1 DEF IoType, ReadReturn, Calls
  <1>3. k.flushFd = io.flushFd /\ k.advanceRet = io.advanceRet /\ k.drainRet = io.drainRet
        /\ k.ev = io.ev
    BY DEF IoType, ReadReturn, Calls
  <1> HIDE DEF k
  <1>4. CallsOK(k)
    BY <1>1, <1>2, <1>3
    DEF Calls, CallsOK, InDrain, InAdvance, Reading, DrainingInput, Outing, Advancing
  <1> QED
    BY <1>1, <1>2, <1>4 DEF k

LEMMA DrainReturnIs ==
  ASSUME Calls, io.pc \in DrainingInput \ {"readsDisconnect"}, NEW result \in BOOLEAN
  PROVE  /\ DrainReturn(result) \in IoType /\ CallsOK(DrainReturn(result))
         /\ DrainReturn(result).pc \in {"events", "advanceStop"} /\ ~DrainReturn(result).drain
         /\ DrainReturn(result).drained = result
  <1> DEFINE k == DrainReturn(result)
  <1>1. io.drainRet \in {"events", "advanceStop"} /\ io.drainRet \in Labels
    BY DEF Labels, Looping, DrainingInput, Advancing, Calls, CallsOK, InDrain
  <1>2. k \in IoType /\ k.pc = io.drainRet /\ k.drained = result
    BY ZenonT(60), <1>1 DEF IoType, DrainReturn, Calls
  <1>3. k.flushFd = io.flushFd /\ k.advanceRet = io.advanceRet /\ k.drain = io.drain
    BY DEF IoType, DrainReturn, Calls
  <1> HIDE DEF k
  <1>4. CallsOK(k) /\ ~k.drain
    BY <1>1, <1>2, <1>3
    DEF Calls, CallsOK, InDrain, InAdvance, Reading, DrainingInput, Outing, Advancing
  <1> QED
    BY <1>1, <1>2, <1>4 DEF k

LEMMA FlushReturnIs ==
  ASSUME Calls, io.pc = "flush"
  PROVE  /\ FlushReturn \in IoType /\ CallsOK(FlushReturn)
         /\ FlushReturn.pc = io.flushRet /\ ~FlushReturn.drain
         /\ FlushReturn.closed = io.closed /\ io.flushRet \in {"events", "flushNext"}
         /\ FlushReturn.flushFd = NoFd
  <1> DEFINE k == FlushReturn
  <1>1. io.flushRet \in {"events", "flushNext"} /\ io.flushRet \in Labels
    BY DEF Labels, Looping, Calls, CallsOK
  <1>2. k \in IoType /\ k.pc = io.flushRet /\ k.flushFd = NoFd
    BY ZenonT(60), <1>1 DEF IoType, FlushReturn, Calls
  <1>3. k.drain = io.drain /\ k.closed = io.closed
    BY DEF IoType, FlushReturn, Calls
  <1> HIDE DEF k
  <1>4. CallsOK(k) /\ ~k.drain
    BY <1>1, <1>2, <1>3
    DEF Calls, CallsOK, InDrain, InAdvance, Reading, DrainingInput, Outing, Advancing
  <1> QED
    BY <1>1, <1>2, <1>3, <1>4 DEF k

OutReturn == [io EXCEPT !.pc = io.outRet, !.popped = 0, !.outRet = ""]

LEMMA OutReturnIs ==
  ASSUME Calls, io.pc \in Outing
  PROVE  /\ OutReturn \in IoType /\ CallsOK(OutReturn)
         /\ OutReturn.pc = io.outRet /\ ~OutReturn.drain
         /\ io.outRet \in {"events", "expire", "advanceInput", "advanceFinished",
                           "advanceEnd", "flushAll"}
  <1> DEFINE k == OutReturn
  <1>1. /\ io.outRet \in {"events", "expire", "advanceInput", "advanceFinished",
                          "advanceEnd", "flushAll"}
        /\ io.outRet \in Labels
    BY DEF Labels, Looping, Advancing, Calls, CallsOK
  <1>2. k \in IoType /\ k.pc = io.outRet
    BY ZenonT(60), <1>1 DEF IoType, OutReturn, Calls
  <1>3. k.drain = io.drain /\ k.flushFd = io.flushFd /\ k.advanceRet = io.advanceRet
    BY DEF IoType, OutReturn, Calls
  <1> HIDE DEF k
  <1>4. CallsOK(k) /\ ~k.drain
    BY <1>1, <1>2, <1>3
    DEF Calls, CallsOK, InDrain, InAdvance, Reading, DrainingInput, Outing, Advancing
  <1> QED
    BY <1>1, <1>2, <1>4 DEF k

LEMMA AdvanceReturnIs ==
  ASSUME Calls, io.pc \in Advancing, NEW d \in BOOLEAN
  PROVE  LET back == [AdvanceReturn EXCEPT !.drained = d]
             joining == [AdvanceReturn EXCEPT !.pc = "join"]
         IN  /\ AdvanceReturn \in IoType /\ CallsOK(AdvanceReturn)
             /\ AdvanceReturn.pc \in {"wait", "top"} /\ ~AdvanceReturn.drain
             /\ back \in IoType /\ CallsOK(back) /\ back.pc \in {"wait", "top"} /\ ~back.drain
             /\ joining \in IoType /\ CallsOK(joining) /\ joining.pc = "join" /\ ~joining.drain
  <1>1. io.advanceRet \in {"wait", "top"} /\ io.advanceRet \in Labels /\ "join" \in Labels
    BY DEF Labels, Looping, Advancing, Calls, CallsOK, InAdvance
  <1>2. ASSUME NEW k, k \in {AdvanceReturn, [AdvanceReturn EXCEPT !.drained = d],
                             [AdvanceReturn EXCEPT !.pc = "join"]}
        PROVE  k \in IoType /\ CallsOK(k) /\ k.pc \in {"wait", "top", "join"} /\ ~k.drain
    <2>1. /\ k \in IoType /\ k.pc \in {"wait", "top", "join"}
          /\ k.drain = io.drain /\ k.flushFd = io.flushFd
      <3>1. CASE k = AdvanceReturn
        BY <1>1, <3>1 DEF IoType, AdvanceReturn, Calls
      <3>2. CASE k = [AdvanceReturn EXCEPT !.drained = d]
        BY <1>1, <3>2 DEF IoType, AdvanceReturn, Calls
      <3>3. CASE k = [AdvanceReturn EXCEPT !.pc = "join"]
        BY <1>1, <3>3 DEF IoType, AdvanceReturn, Calls
      <3> QED
        BY <1>2, <3>1, <3>2, <3>3
    <2>2. CallsOK(k) /\ ~k.drain
      BY <2>1
      DEF Calls, CallsOK, InDrain, InAdvance, Reading, DrainingInput, Outing, Advancing
    <2> QED
      BY <2>1, <2>2
  <1>3. /\ AdvanceReturn.pc \in {"wait", "top"}
        /\ [AdvanceReturn EXCEPT !.drained = d].pc \in {"wait", "top"}
        /\ [AdvanceReturn EXCEPT !.pc = "join"].pc = "join"
    BY <1>1 DEF IoType, AdvanceReturn, Calls
  <1> QED
    BY <1>2, <1>3

-----------------------------------------------------------------------------
\* Steps that leave the sessions and what is put off alone.

Plain == {"top", "wait", "events", "event", "flushEvent", "expire", "join", "flushAll",
          "read", "disconnects", "yield", "disconnectsSize", "reads", "readsSize", "resume"}
           \cup Outing \cup Advancing \cup Left

LEMMA PlainPositions ==
  ASSUME io'.pc \in Plain
  PROVE  /\ Positions'
         /\ io'.pc \notin {"readDefer", "readError", "readsDisconnect", "readsPop", "readsError"}
  BY DEF Positions, Plain, Outing, Advancing, Left

LEMMA MoveKeeps ==
  ASSUME CoreInv, UNCHANGED <<config, maps, codec, deferredVars, connections, backlog>>,
         InputTypes', ReadingTypes', EventTypes', BatchTypes', Calls', phase' \in Phases,
         Positions', io.pc \notin {"decode", "readDefer"},
         io'.pc \notin {"readDefer", "readError", "readsDisconnect", "readsPop", "readsError"},
         io'.pc \notin Left => io.pc \notin Left,
         phase' = "Running" => phase = "Running" /\ paused' = paused /\ ctlPaused' = ctlPaused,
         io'.drain /\ phase' = "Running" => paused
  PROVE  CoreInv'
  <1>1. /\ Typed /\ Calls /\ Positions /\ MapsAgree /\ Connected /\ Within
        /\ ReadQueue /\ PausedWhile /\ PutOff
    BY DEF CoreInv
  <1>2. /\ sessionAt' = sessionAt /\ fdBySession' = fdBySession /\ fdByToken' = fdByToken
        /\ nextId' = nextId /\ deferredReads' = deferredReads
        /\ deferredReadSet' = deferredReadSet /\ deferredDisconnects' = deferredDisconnects
        /\ config' = config /\ OpenFds' = OpenFds
    BY DEF maps, deferredVars, OpenFds
  <1>3. Typed'
    BY <1>1, <1>2 DEF Typed, MapTypes, DeferredTypes
  <1>4. MapsAgree' /\ Connected' /\ Within' /\ ReadQueue'
    BY <1>1, <1>2 DEF MapsAgree, Connected, Within, ReadQueue, MaxSessions
  <1>5. PausedWhile'
    BY <1>1, <1>2 DEF PausedWhile
  <1>6. PutOff'
    BY <1>1, <1>2 DEF PutOff, HasPacket
  <1> QED
    BY <1>3, <1>4, <1>5, <1>6 DEF CoreInv

\* A step of another thread or of a peer.
LEMMA OthersKeep ==
  ASSUME CoreInv, UNCHANGED <<config, maps, codec, fed, peerReadClosed, deferredVars, reading,
                              phase, io, batch, sequence>>,
         inbox' \in 0..Capacity, wire' \in [Ids -> Seq(Frames)], Connected'
  PROVE  CoreInv'
  <1>1. /\ Typed /\ Calls /\ Positions /\ MapsAgree /\ Connected /\ Within
        /\ ReadQueue /\ PausedWhile /\ PutOff
    BY DEF CoreInv
  <1>2. /\ sessionAt' = sessionAt /\ fdBySession' = fdBySession /\ fdByToken' = fdByToken
        /\ nextId' = nextId /\ deferredReads' = deferredReads
        /\ deferredReadSet' = deferredReadSet /\ deferredDisconnects' = deferredDisconnects
        /\ config' = config /\ OpenFds' = OpenFds
        /\ interest' = interest /\ listener' = listener /\ paused' = paused
        /\ ctlPaused' = ctlPaused
    BY DEF maps, deferredVars, reading, OpenFds
  <1>3. Typed'
    BY <1>1, <1>2 DEF Typed, MapTypes, DeferredTypes, InputTypes, ReadingTypes, EventTypes,
       BatchTypes, Capacity
  <1>4. MapsAgree' /\ Within' /\ ReadQueue' /\ Calls'
    BY <1>1, <1>2 DEF MapsAgree, Within, ReadQueue, MaxSessions, Calls
  <1>5. PausedWhile' /\ Positions'
    BY <1>1, <1>2 DEF PausedWhile, Positions
  <1>6. PutOff'
    BY <1>1, <1>2 DEF PutOff, HasPacket
  <1> QED
    BY <1>3, <1>4, <1>5, <1>6 DEF CoreInv

-----------------------------------------------------------------------------
\* The workers, the peers, the clock and stop().

LEMMA PoolCore ==
  ASSUME CoreInv, Pool, UNCHANGED config
  PROVE  CoreInv'
  <1>1. /\ UNCHANGED <<config, maps, codec, fed, peerReadClosed, deferredVars, reading,
                       phase, io, batch, sequence, wire, connections, backlog>>
    BY DEF Pool, WorkerPop, WorkerNotify, WorkerEmit, WorkerPush, WorkerEnd, PoolCompletes, PoolDone,
       unchangedByPool, input, phaseVars, loopVars
  <1>2. inbox \in 0..Capacity /\ Capacity \in Nat /\ wire \in [Ids -> Seq(Frames)]
    BY ConfigIs DEF CoreInv, Typed, EventTypes, InputTypes
  <1>3. inbox' \in 0..Capacity
    <2>1. CASE WorkerPop \/ WorkerNotify \/ WorkerEmit \/ WorkerPush \/ WorkerEnd \/ PoolDone
      BY <1>2, <2>1 DEF WorkerPop, WorkerNotify, WorkerEmit, WorkerPush, WorkerEnd, PoolDone
    <2>2. CASE PoolCompletes
      BY <1>2, <2>2 DEF PoolCompletes
    <2> QED
      BY <2>1, <2>2 DEF Pool
  <1>4. Connected'
    BY <1>1 DEF CoreInv, Connected, maps
  <1> QED
    BY <1>1, <1>2, <1>3, <1>4, OthersKeep

LEMMA PeersCore ==
  ASSUME CoreInv, Peers, UNCHANGED config
  PROVE  CoreInv'
  <1>1. /\ UNCHANGED <<config, maps, codec, fed, peerReadClosed, deferredVars, reading,
                       phase, io, batch, sequence, inbox>>
    BY DEF Peers, PeerConnects, PeerSends, PeerLeaves, unchangedByPeers, input, phaseVars,
       loopVars, eventVars
  <1>2. /\ inbox \in 0..Capacity /\ wire \in [Ids -> Seq(Frames)] /\ nextId \in 0..MaxConnections
        /\ Connected /\ config.connections \in Nat /\ MaxConnections \in Nat
    BY ConfigIs DEF CoreInv, Typed, EventTypes, InputTypes, MapTypes
  <1>3. Connected'
    <2>1. CASE PeerConnects
      BY SMTT(40), <1>1, <1>2, <2>1 DEF Connected, PeerConnects, maps
    <2>2. CASE PeerSends \/ PeerLeaves
      BY <1>1, <1>2, <2>2 DEF Connected, PeerSends, PeerLeaves, maps
    <2> QED
      BY <2>1, <2>2 DEF Peers
  <1>4. wire' \in [Ids -> Seq(Frames)]
    <2>1. CASE PeerSends
      <3>1. PICK id \in 1..nextId, frame \in {"packet"} \cup (Happens \cap {"bad"}) :
                   wire' = [wire EXCEPT ![id] = Append(@, frame)]
        BY <2>1 DEF PeerSends
      <3>2. frame \in Frames /\ id \in Ids
        BY <1>2 DEF Frames, Ids
      <3> QED
        BY <1>2, <3>1, <3>2
    <2>2. CASE PeerConnects \/ PeerLeaves
      BY <1>2, <2>2 DEF PeerConnects, PeerLeaves
    <2> QED
      BY <2>1, <2>2 DEF Peers
  <1> QED
    BY <1>1, <1>2, <1>3, <1>4, OthersKeep

LEMMA ControlCore ==
  ASSUME CoreInv, Stop \/ DeadlinePasses, UNCHANGED config
  PROVE  CoreInv'
  <1>1. UNCHANGED <<config, maps, codec, fed, peerReadClosed, deferredVars, reading,
                    phase, io, batch, sequence, inbox, wire, connections, backlog>>
    BY DEF Stop, DeadlinePasses, input, phaseVars, loopVars, eventVars, network
  <1>2. inbox \in 0..Capacity /\ wire \in [Ids -> Seq(Frames)]
    BY DEF CoreInv, Typed, EventTypes, InputTypes
  <1>3. Connected'
    BY <1>1 DEF CoreInv, Connected, maps
  <1> QED
    BY <1>1, <1>2, <1>3, OthersKeep

LEMMA StutterCore ==
  ASSUME CoreInv, UNCHANGED vars
  PROVE  CoreInv'
  <1>1. UNCHANGED <<config, maps, codec, fed, peerReadClosed, deferredVars, reading,
                    phase, io, batch, sequence, inbox, wire, connections, backlog>>
    BY DEF vars, serverVars, input, phaseVars, loopVars, eventVars, network
  <1>2. inbox \in 0..Capacity /\ wire \in [Ids -> Seq(Frames)]
    BY DEF CoreInv, Typed, EventTypes, InputTypes
  <1>3. Connected'
    BY <1>1 DEF CoreInv, Connected, maps
  <1> QED
    BY <1>1, <1>2, <1>3, OthersKeep

-----------------------------------------------------------------------------
\* The steps of the loop.

\* A step that only moves the I/O thread, or its shutdown phase, on.
LEMMA PlainStep ==
  ASSUME CoreInv, UNCHANGED <<config, maps, codec, fed, peerReadClosed, wire, deferredVars,
                              connections, backlog, reading, inbox, sequence>>,
         BatchTypes', Calls', io'.pc \in Plain, ~io'.drain,
         io.pc \notin {"decode", "readDefer"}, io'.pc \notin Left => io.pc \notin Left,
         phase' \in Phases, phase' = "Running" => phase = "Running"
  PROVE  CoreInv'
  <1>1. InputTypes' /\ ReadingTypes' /\ EventTypes'
    BY DEF CoreInv, Typed, InputTypes, ReadingTypes, EventTypes, Capacity, reading
  <1>2. paused' = paused /\ ctlPaused' = ctlPaused
    BY DEF reading
  <1>3. /\ Positions'
        /\ io'.pc \notin {"readDefer", "readError", "readsDisconnect", "readsPop", "readsError"}
    BY PlainPositions
  <1> QED
    BY <1>1, <1>2, <1>3, MoveKeeps

\* What PlainStep needs is unchanged by the steps that change only positions.
LEMMA OnlyIo ==
  ASSUME UNCHANGED exceptIo
  PROVE  UNCHANGED <<maps, codec, fed, peerReadClosed, wire, deferredVars,
                     connections, backlog, reading, inbox, sequence, phase, batch>>
  BY DEF exceptIo, exceptDisconnect, input, network, eventVars, phaseVars

LEMMA OnlyStable ==
  ASSUME UNCHANGED stable
  PROVE  UNCHANGED <<maps, codec, fed, peerReadClosed, wire, deferredVars,
                     connections, backlog, inbox, sequence>>
  BY DEF stable, input, network, eventVars

\* The thread looks at stop_requested_, and may begin the shutdown.
LEMMA StopSeen ==
  ASSUME CoreInv, ObserveStop,
         UNCHANGED <<config, maps, codec, fed, peerReadClosed, wire, deferredVars,
                     connections, backlog, inbox, sequence>>,
         BatchTypes', Calls', io'.pc \in Plain, ~io'.drain,
         io.pc \notin {"decode", "readDefer"}, io.pc \notin Left
  PROVE  CoreInv'
  <1>1. ReadingTypes /\ phase \in Phases
    BY DEF CoreInv, Typed
  <1>2. CASE UNCHANGED <<reading, phaseVars>>
    <2>1. phase' = phase
      BY <1>2 DEF phaseVars
    <2> QED
      BY <1>1, <1>2, <2>1, PlainStep
  <1>3. CASE BeginShutdown
    <2>1. ReadingTypes'
      BY <1>1, <1>3, InterestAllType DEF BeginShutdown, ReadingTypes
    <2>2. InputTypes' /\ EventTypes' /\ phase' = "DrainingInput"
      BY <1>3 DEF CoreInv, Typed, InputTypes, EventTypes, Capacity, BeginShutdown
    <2>3. /\ Positions'
          /\ io'.pc \notin {"readDefer", "readError", "readsDisconnect", "readsPop", "readsError"}
      BY PlainPositions
    <2>4. phase' \in Phases
      BY <2>2 DEF Phases
    <2> QED
      BY <2>1, <2>2, <2>3, <2>4, MoveKeeps
  <1> QED
    BY <1>2, <1>3 DEF ObserveStop

LEMMA LoopTopCore ==
  ASSUME CoreInv, LoopTop, UNCHANGED config
  PROVE  CoreInv'
  <1>1. /\ io.pc = "top" /\ Calls /\ ReadingTypes /\ phase \in Phases /\ BatchTypes
    BY DEF LoopTop, At, CoreInv, Typed
  <1>2. /\ UNCHANGED <<maps, codec, fed, peerReadClosed, wire, deferredVars,
                       connections, backlog, inbox, sequence>>
        /\ batch' = batch
    BY OnlyStable DEF LoopTop
  <1>3. Calls' /\ ~io'.drain /\ io'.pc \in {"wait", "advance"}
    <2>1. CASE phase' = "Running"
      <3>1. io' = [io EXCEPT !.pc = "wait"] /\ "wait" \in Labels /\ SameCall("top", "wait")
        BY <2>1 DEF LoopTop, Labels, Looping, SameCall
      <3>2. Calls'
        BY <1>1, <3>1, GotoCalls DEF Calls
      <3> QED
        BY <1>1, <3>1, <3>2 DEF Calls, IoType, CallsOK, Reading
    <2>2. CASE phase' # "Running"
      <3>1. io' = [io EXCEPT !.pc = "advance", !.advanceRet = "wait"]
        BY <2>2 DEF LoopTop
      <3>2. "advance" \in Labels /\ "wait" \in Labels
        BY DEF Labels, Looping, Advancing
      <3>3. /\ io' \in IoType /\ io'.pc = "advance" /\ io'.advanceRet = "wait"
            /\ io'.drain = io.drain /\ io'.flushFd = io.flushFd
        BY <1>1, <3>1, <3>2 DEF Calls, IoType
      <3> QED
        BY <1>1, <3>3 DEF Calls, CallsOK, InDrain, InAdvance, Reading, DrainingInput, Outing,
           Advancing
    <2> QED
      BY <2>1, <2>2
  <1>4. io'.pc \in Plain /\ io'.pc \notin Left
    BY <1>3 DEF Plain, Advancing, Left
  <1>5. BatchTypes' /\ ObserveStop
    BY <1>1, <1>2 DEF LoopTop, BatchTypes
  <1> QED
    BY <1>1, <1>2, <1>3, <1>4, <1>5, StopSeen DEF Left

LEMMA WaitCore ==
  ASSUME CoreInv, Wait, UNCHANGED config
  PROVE  CoreInv'
  <1>1. /\ io.pc = "wait" /\ Calls /\ phase \in Phases /\ io' = [io EXCEPT !.pc = "events"]
        /\ MapTypes /\ MaxConnections \in Nat
    BY ConfigIs DEF Wait, At, CoreInv, Typed, Goto
  <1>2. UNCHANGED <<maps, codec, fed, peerReadClosed, wire, deferredVars,
                    connections, backlog, inbox, sequence, reading, phase>>
    BY OnlyStable DEF Wait, phaseVars
  <1>3. Calls' /\ ~io'.drain /\ io'.pc = "events"
    <2>1. "events" \in Labels /\ SameCall("wait", "events")
      BY DEF Labels, Looping, SameCall
    <2>2. Calls'
      BY <1>1, <2>1, GotoCalls DEF Calls
    <2> QED
      BY <1>1, <2>2 DEF Calls, IoType, CallsOK, Reading
  <1>4. BatchTypes'
    <2>1. ASSUME NEW t \in 1..3, NEW c PROVE Ready(t, c) \subseteq EventType
      BY <1>1 DEF Ready, EventType
    <2>2. ASSUME NEW fd \in OpenFds, NEW w
          PROVE  [token |-> Token(sessionAt[fd]), flags |-> Flags(fd, w)] \in EventType
      <3>1. Token(sessionAt[fd]) \in 0..(3 + MaxConnections)
        BY <1>1 DEF Token, MapTypes, OpenFds, Ids
      <3>2. Flags(fd, w) \in SUBSET {"IN", "RDHUP", "ERR", "OUT"}
        BY DEF Flags
      <3> QED
        BY <3>1, <3>2 DEF EventType
    <2>3. PICK w : batch' = {e \in {[token |-> Token(sessionAt[fd]),
                           flags |-> Flags(fd, w)] : fd \in OpenFds} :
                     e.flags # {}}
           \cup Ready(kListenerToken, listener /\ backlog > 0)
           \cup Ready(kOutboundWakeupToken, outWake)
           \cup Ready(kInputCapacityWakeupToken, inWake)
      BY DEF Wait
    <2>4. kListenerToken \in 1..3 /\ kOutboundWakeupToken \in 1..3
          /\ kInputCapacityWakeupToken \in 1..3
      BY DEF kListenerToken, kOutboundWakeupToken, kInputCapacityWakeupToken
    <2>5. /\ Ready(kListenerToken, listener /\ backlog > 0) \subseteq EventType
          /\ Ready(kOutboundWakeupToken, outWake) \subseteq EventType
          /\ Ready(kInputCapacityWakeupToken, inWake) \subseteq EventType
      BY <2>1, <2>4
    <2>6. {e \in {[token |-> Token(sessionAt[fd]),
                   flags |-> Flags(fd, w)] : fd \in OpenFds} : e.flags # {}} \subseteq EventType
      BY <2>2
    <2> QED
      BY <2>3, <2>5, <2>6 DEF BatchTypes
  <1> QED
    BY <1>1, <1>2, <1>3, <1>4, PlainStep DEF Plain, Left

\* A label of the same call is where the thread is next.
LEMMA GoesTo ==
  ASSUME Calls, NEW l \in Labels, SameCall(io.pc, l), io' = [io EXCEPT !.pc = l]
  PROVE  Calls' /\ io'.pc = l /\ io'.drain = io.drain /\ io'.closed = io.closed
         /\ io'.fd = io.fd /\ io'.flushFd = io.flushFd
  <1>1. io \in IoType /\ CallsOK(io)
    BY DEF Calls
  <1>2. Calls'
    BY <1>1, GotoCalls DEF Calls
  <1> QED
    BY <1>1, <1>2 DEF IoType

LEMMA NotDraining ==
  ASSUME Calls, io.pc \notin Reading
  PROVE  ~io.drain
  BY DEF Calls, CallsOK

LEMMA NextEventCore ==
  ASSUME CoreInv, NextEvent, UNCHANGED config
  PROVE  CoreInv'
  <1>1. /\ io.pc = "events" /\ Calls /\ phase \in Phases /\ BatchTypes /\ ~io.drain
    BY NotDraining DEF NextEvent, At, CoreInv, Typed, Reading
  <1>2. UNCHANGED <<maps, codec, fed, peerReadClosed, wire, deferredVars,
                    connections, backlog, inbox, sequence>>
    BY OnlyStable DEF NextEvent
  <1>3. CASE ObserveStop /\ Goto("event") /\ UNCHANGED batch
    <2>1. "event" \in Labels /\ SameCall("events", "event")
      BY DEF Labels, Looping, SameCall
    <2>2. Calls' /\ io'.pc = "event" /\ ~io'.drain /\ BatchTypes'
      BY <1>1, <1>3, <2>1, GoesTo DEF Goto, BatchTypes
    <2> QED
      BY <1>1, <1>2, <1>3, <2>2, StopSeen DEF Left, Plain
  <1>4. CASE ForceShutdown /\ batch' = {} /\ Goto("expire") /\ UNCHANGED reading
    <2>1. "expire" \in Labels /\ SameCall("events", "expire")
      BY DEF Labels, Looping, SameCall
    <2>2. Calls' /\ io'.pc = "expire" /\ ~io'.drain /\ BatchTypes'
      BY <1>1, <1>4, <2>1, GoesTo DEF Goto, BatchTypes
    <2>3. phase' = "Forced" /\ phase' \in Phases
      BY <1>4 DEF ForceShutdown, Phases
    <2> QED
      BY <1>1, <1>2, <1>4, <2>2, <2>3, PlainStep DEF Left, Plain
  <1> QED
    BY <1>3, <1>4 DEF NextEvent

LEMMA EndOfEventsCore ==
  ASSUME CoreInv, EndOfEvents, UNCHANGED config
  PROVE  CoreInv'
  <1>1. /\ io.pc = "events" /\ Calls /\ phase \in Phases /\ BatchTypes /\ ~io.drain
    BY NotDraining DEF EndOfEvents, At, CoreInv, Typed, Reading
  <1>2. UNCHANGED <<maps, codec, fed, peerReadClosed, wire, deferredVars,
                    connections, backlog, reading, inbox, sequence, phase, batch>>
    BY OnlyIo DEF EndOfEvents
  <1>3. Calls' /\ io'.pc \in {"out", "expire"} /\ ~io'.drain
    <2>1. CASE io' = EnterOut("expire")
      BY <1>1, <2>1, EnterOutIs DEF Calls, Reading, Advancing
    <2>2. CASE Goto("expire")
      <3>1. "expire" \in Labels /\ SameCall("events", "expire")
        BY DEF Labels, Looping, SameCall
      <3> QED
        BY <1>1, <2>2, <3>1, GoesTo DEF Goto
    <2> QED
      BY <2>1, <2>2 DEF EndOfEvents
  <1> QED
    BY <1>1, <1>2, <1>3, PlainStep DEF Left, Plain, Outing, BatchTypes

LEMMA HandleWakeupCore ==
  ASSUME CoreInv, HandleWakeup, UNCHANGED config
  PROVE  CoreInv'
  <1>1. /\ io.pc = "event" /\ Calls /\ phase \in Phases /\ BatchTypes /\ ~io.drain
        /\ config \in Configs
    BY NotDraining DEF HandleWakeup, At, CoreInv, Typed, Reading
  <1>2. UNCHANGED <<maps, codec, fed, peerReadClosed, wire, deferredVars,
                    connections, backlog, reading, inbox, sequence, phase>>
    BY OnlyStable DEF HandleWakeup, phaseVars
  <1>3. BatchTypes'
    BY <1>1 DEF BatchTypes, HandleWakeup
  <1>4. ASSUME io' \in IoType, CallsOK(io'), io'.pc \in {"out", "disconnects", "events"}, ~io'.drain
        PROVE  CoreInv'
    BY <1>1, <1>2, <1>3, <1>4, PlainStep DEF Left, Plain, Outing, Calls
  <1>5. CASE io' = EnterOut("events")
    BY <1>1, <1>4, <1>5, EnterOutIs DEF Reading, Advancing
  <1>6. CASE io' = EnterDrain("events")
    BY <1>1, <1>4, <1>6, EnterDrainIs DEF Reading
  <1>7. CASE Goto("events")
    <2>1. "events" \in Labels /\ SameCall("event", "events")
      BY DEF Labels, Looping, SameCall
    <2> QED
      BY <1>1, <1>4, <1>7, <2>1, GoesTo DEF Goto, Calls
  <1>8. CASE MayAccept /\ io' = [io EXCEPT !.pc = "accept", !.slots = AcceptLimit]
    <2>1. "accept" \in Labels /\ AcceptLimit \in Nat
      BY <1>1, ConfigIs DEF Labels, Looping
    <2>2. /\ io' \in IoType /\ io'.pc = "accept"
          /\ io'.drain = io.drain /\ io'.flushFd = io.flushFd
      BY <1>1, <1>8, <2>1 DEF Calls, IoType
    <2>3. Calls'
      BY <1>1, <2>2 DEF Calls, CallsOK, InDrain, InAdvance, Reading, DrainingInput, Outing,
           Advancing
    <2>4. phase' = "Running" /\ ~paused'
      BY <1>2, <1>8 DEF MayAccept, reading
    <2>5. Positions'
      BY <2>2, <2>4 DEF Positions
    <2>6. InputTypes' /\ ReadingTypes' /\ EventTypes'
      BY <1>2 DEF CoreInv, Typed, InputTypes, ReadingTypes, EventTypes, Capacity, reading
    <2>7. paused' = paused /\ ctlPaused' = ctlPaused
      BY <1>2 DEF reading
    <2> QED
      BY <1>1, <1>2, <1>3, <2>2, <2>3, <2>5, <2>6, <2>7, MoveKeeps DEF Left
  <1> QED
    BY <1>5, <1>6, <1>7, <1>8 DEF HandleWakeup

LEMMA AcceptEndCore ==
  ASSUME CoreInv, AcceptEnd, UNCHANGED config
  PROVE  CoreInv'
  <1>1. /\ io.pc = "accept" /\ Calls /\ phase \in Phases /\ BatchTypes /\ ~io.drain
        /\ io' = [io EXCEPT !.pc = "events", !.slots = 0]
    BY NotDraining DEF AcceptEnd, At, CoreInv, Typed, Reading
  <1>2. UNCHANGED <<maps, codec, fed, peerReadClosed, wire, deferredVars,
                    connections, backlog, reading, inbox, sequence, phase, batch>>
    BY OnlyIo DEF AcceptEnd
  <1>3. "events" \in Labels
    BY DEF Labels, Looping
  <1>4. io' \in IoType /\ io'.pc = "events" /\ io'.drain = io.drain /\ io'.flushFd = io.flushFd
    BY <1>1, <1>3 DEF Calls, IoType
  <1>5. Calls'
    BY <1>1, <1>4 DEF Calls, CallsOK, InDrain, InAdvance, Reading, DrainingInput, Outing,
           Advancing
  <1> QED
    BY <1>1, <1>2, <1>4, <1>5, PlainStep DEF Left, Plain, BatchTypes

LEMMA FlushEventCore ==
  ASSUME CoreInv, FlushEvent, UNCHANGED config
  PROVE  CoreInv'
  <1>1. /\ io.pc = "flushEvent" /\ Calls /\ phase \in Phases /\ BatchTypes /\ ~io.drain
        /\ MapTypes /\ MapsAgree /\ config \in Configs
    BY NotDraining DEF FlushEvent, At, CoreInv, Typed, Reading
  <1>2. /\ UNCHANGED <<maps, codec, fed, peerReadClosed, wire, deferredVars,
                    connections, backlog, reading, inbox, sequence, phase, batch>>
        /\ BatchTypes'
    BY <1>1, OnlyIo DEF FlushEvent, BatchTypes
  <1> DEFINE id == io.ev.token - 3
             fd == fdByToken[id]
  <1>3. id \in Ids /\ Start.ev \in EventType
    BY <1>1, ConfigIs DEF Calls, CallsOK, Start, EventType
  <1>4. CASE fd = NoFd
    <2>1. "events" \in Labels /\ io' = [io EXCEPT !.pc = "events", !.ev = Start.ev]
      BY <1>4 DEF Labels, Looping, FlushEvent
    <2>2. io' \in IoType /\ io'.pc = "events" /\ io'.drain = io.drain /\ io'.flushFd = io.flushFd
      BY <1>1, <1>3, <2>1 DEF Calls, IoType
    <2>3. Calls'
      BY <1>1, <2>2 DEF Calls, CallsOK, InDrain, InAdvance, Reading, DrainingInput, Outing,
           Advancing
    <2> QED
      BY <1>1, <1>2, <2>2, <2>3, PlainStep DEF Left, Plain
  <1>5. CASE fd # NoFd
    <2>1. fd \in OpenFds /\ fd \in Fds
      BY <1>1, <1>3, <1>5 DEF MapsAgree, MapTypes, OpenFds, Ids
    <2>2. io' = [EnterFlush(fd, "events") EXCEPT !.ev = Start.ev]
      BY <1>5 DEF FlushEvent
    <2>3. /\ EnterFlush(fd, "events") \in IoType /\ CallsOK(EnterFlush(fd, "events"))
          /\ EnterFlush(fd, "events").pc = "flush" /\ EnterFlush(fd, "events").flushFd = fd
          /\ EnterFlush(fd, "events").flushRet = "events" /\ ~EnterFlush(fd, "events").drain
      BY <1>1, <2>1, EnterFlushIs DEF Reading
    <2>4. /\ io' \in IoType /\ io'.pc = "flush" /\ io'.flushFd = fd /\ io'.flushRet = "events"
          /\ ~io'.drain
      BY <1>3, <2>2, <2>3 DEF IoType
    <2>5. Calls'
      BY <2>1, <2>4 DEF Calls, CallsOK, InDrain, InAdvance, Reading, DrainingInput, Outing,
           Advancing
    <2>6. Positions'
      BY <1>2, <2>1, <2>4 DEF Positions, OpenFds, maps
    <2>7. InputTypes' /\ ReadingTypes' /\ EventTypes'
      BY <1>2 DEF CoreInv, Typed, InputTypes, ReadingTypes, EventTypes, Capacity, reading
    <2>8. paused' = paused /\ ctlPaused' = ctlPaused
      BY <1>2 DEF reading
    <2> QED
      BY <1>1, <1>2, <2>4, <2>5, <2>6, <2>7, <2>8, MoveKeeps DEF Left
  <1> QED
    BY <1>4, <1>5

\* The lowest descriptor that is not open.
LEMMA LowestFree ==
  ASSUME NEW S, S \subseteq Nat, S # {}
  PROVE  Min(S) \in S
  <1>1. \E x \in S : \A y \in S : ~(<<y, x>> \in OpToRel(<, Nat))
    BY NatLessThanWellFounded, WFMin
  <1>2. PICK x \in S : \A y \in S : ~(<<y, x>> \in OpToRel(<, Nat))
    BY <1>1
  <1>3. \A y \in S : <<y, x>> \in OpToRel(<, Nat) <=> y < x
    BY DEF OpToRel
  <1>4. \A y \in S : ~(y < x)
    BY <1>2, <1>3, Zenon
  <1>5. \A y \in S : x <= y
    BY <1>4
  <1> QED
    BY <1>5 DEF Min

-----------------------------------------------------------------------------
\* The events of sessions, reads that are put off.

LEMMA DeferKeeps ==
  ASSUME CoreInv, NEW fd \in OpenFds, DeferRead(fd),
         UNCHANGED <<config, maps, codec, fed, wire, reading, phase, inbox, sequence,
                     connections, backlog>>,
         peerReadClosed' \in [Ids -> BOOLEAN], BatchTypes', Calls', io'.pc \in Plain,
         ~io'.drain, io.pc \notin Left, phase = "Running" => paused,
         io.pc \in {"decode", "readDefer"} => io.fd = fd
  PROVE  CoreInv'
  <1>1. /\ Typed /\ Calls /\ Positions /\ MapsAgree /\ Connected /\ Within
        /\ ReadQueue /\ PausedWhile /\ PutOff
        /\ config \in Configs /\ phase \in Phases
        /\ MapTypes /\ InputTypes /\ ReadingTypes /\ EventTypes /\ DeferredTypes
    BY DEF CoreInv, Typed
  <1>2. /\ sessionAt' = sessionAt /\ fdBySession' = fdBySession /\ fdByToken' = fdByToken
        /\ nextId' = nextId /\ config' = config /\ OpenFds' = OpenFds
        /\ interest' = interest /\ listener' = listener /\ paused' = paused
        /\ ctlPaused' = ctlPaused /\ deferredDisconnects' = deferredDisconnects
        /\ fd \in Fds /\ sessionAt[fd] # 0
    BY DEF maps, reading, OpenFds, DeferRead
  <1>3. DeferredTypes'
    BY <1>1, <1>2 DEF DeferredTypes, DeferRead
  <1>4. Typed'
    BY <1>1, <1>2, <1>3 DEF Typed, MapTypes, InputTypes, ReadingTypes, EventTypes, Capacity
  <1>5. MapsAgree' /\ Within' /\ Connected'
    BY <1>1, <1>2 DEF MapsAgree, Within, MaxSessions, Connected
  <1>6. /\ Positions'
        /\ io'.pc \notin {"readDefer", "readError", "readsDisconnect", "readsPop", "readsError"}
    BY PlainPositions
  <1>7. PausedWhile'
    BY <1>1, <1>2, <1>6 DEF PausedWhile
  <1>8. PutOff'
    BY <1>1, <1>2, <1>6 DEF PutOff, HasPacket, DeferRead
  <1>9. ReadQueue'
    <2>1. deferredReadSet' = deferredReadSet \cup {fd} /\ deferredReadSet' \subseteq OpenFds'
      BY <1>1, <1>2 DEF DeferRead, ReadQueue
    <2>2. CASE fd \in deferredReadSet
      <3>1. deferredReads' = deferredReads /\ deferredReadSet' = deferredReadSet
        BY <2>1, <2>2 DEF DeferRead
      <3> QED
        BY <1>1, <1>2, <3>1 DEF ReadQueue
    <2>3. CASE fd \notin deferredReadSet
      <3>1. deferredReads' = Append(deferredReads, fd)
        BY <2>3 DEF DeferRead
      <3>2. \A i \in DOMAIN deferredReads : deferredReads[i] # fd
        BY <1>1, <1>2, <2>3 DEF ReadQueue
      <3>3. /\ DOMAIN deferredReads = 1..Len(deferredReads) /\ Len(deferredReads) \in Nat
            /\ DOMAIN deferredReads' = 1..(Len(deferredReads) + 1)
            /\ \A i \in DOMAIN deferredReads : deferredReads'[i] = deferredReads[i]
            /\ deferredReads'[Len(deferredReads) + 1] = fd
        BY <1>1, <1>2, <3>1 DEF DeferredTypes
      <3>4. \A i \in DOMAIN deferredReads' :
               (i \in DOMAIN deferredReads /\ deferredReads'[i] # fd)
               \/ (i = Len(deferredReads) + 1 /\ deferredReads'[i] = fd)
        BY <3>2, <3>3
      <3>5. \A f \in deferredReadSet' : \E i \in DOMAIN deferredReads' : deferredReads'[i] = f
        BY <1>1, <2>1, <3>3 DEF ReadQueue
      <3>6. \A i, j \in DOMAIN deferredReads' :
              deferredReads'[i] = deferredReads'[j] /\ deferredReads'[i] \in deferredReadSet'
                => i = j
        BY <1>1, <2>1, <3>3, <3>4 DEF ReadQueue
      <3>7. \A i \in DOMAIN deferredReads' :
              deferredReads'[i] \notin deferredReadSet' => sessionAt'[deferredReads'[i]] = 0
        BY <1>1, <1>2, <2>1, <3>3, <3>4 DEF ReadQueue
      <3> QED
        BY <2>1, <3>5, <3>6, <3>7 DEF ReadQueue
    <2> QED
      BY <2>2, <2>3
  <1> QED
    BY <1>4, <1>5, <1>6, <1>7, <1>8, <1>9 DEF CoreInv

LEMMA HandleSessionCore ==
  ASSUME CoreInv, HandleSession, UNCHANGED config
  PROVE  CoreInv'
  <1>1. /\ io.pc = "event" /\ Calls /\ phase \in Phases /\ BatchTypes /\ ~io.drain
        /\ MapTypes /\ MapsAgree /\ config \in Configs /\ InputTypes
        /\ io \in IoType /\ CallsOK(io)
    BY NotDraining DEF HandleSession, At, CoreInv, Typed, Reading, Calls
  <1>2. UNCHANGED <<codec, fed, wire, connections, backlog, phase>>
    BY DEF HandleSession, phaseVars, network
  <1>3. PICK e \in batch :
         LET id == e.token - 3
             fd == fdByToken[id]
             hup == "RDHUP" \in e.flags
             then == IF "OUT" \in e.flags THEN "flushEvent" ELSE "events"
             seen == [io EXCEPT !.ev = IF "OUT" \in e.flags THEN e ELSE @]
             after == [seen EXCEPT !.pc = then]
         IN
         /\ e.token > 3
         /\ batch' = batch \ {e}
         /\ \/ /\ ~Current(id)
               /\ Goto("events")
               /\ UNCHANGED <<maps, peerReadClosed, reading, deferredVars,
                              eventVars>>
            \/ /\ Current(id) /\ "ERR" \in e.flags
               /\ Disconnect(fd, [io EXCEPT !.pc = "events"])
               /\ UNCHANGED peerReadClosed
            \/ /\ Current(id) /\ "ERR" \notin e.flags
               /\ peerReadClosed' = [peerReadClosed EXCEPT ![id] = @ \/ hup]
               /\ IF phase = "Running" /\ ~paused
                  THEN /\ io' = IF e.flags \cap {"IN", "RDHUP"} # {}
                                THEN [EnterRead(fd, FALSE, then)
                                        EXCEPT !.ev = seen.ev]
                                ELSE after
                       /\ UNCHANGED deferredVars
                  ELSE /\ io' = after
                       /\ IF hup /\ phase \in {"Running", "DrainingInput"}
                          THEN DeferRead(fd) ELSE UNCHANGED deferredVars
               /\ UNCHANGED <<maps, reading, eventVars>>
    BY DEF HandleSession
  <1> DEFINE id == e.token - 3
             fd == fdByToken[id]
             hup == "RDHUP" \in e.flags
             then == IF "OUT" \in e.flags THEN "flushEvent" ELSE "events"
             ev == IF "OUT" \in e.flags THEN e ELSE io.ev
  <1>4. e \in EventType /\ id \in Ids /\ ev \in EventType /\ BatchTypes'
    <2>1. e \in EventType /\ e.token > 3 /\ batch' = batch \ {e}
      BY <1>1, <1>3 DEF BatchTypes
    <2>2. id \in Ids
      BY <1>1, <2>1, ConfigIs DEF EventType, Ids
    <2>3. ev \in EventType
      BY <1>1, <2>1 DEF IoType
    <2> QED
      BY <1>1, <2>1, <2>2, <2>3 DEF BatchTypes
  <1>5. Current(id) => fd \in OpenFds /\ fd \in Fds
    BY <1>1, <1>4 DEF Current, MapsAgree, MapTypes, OpenFds, Ids
  <1>6. "events" \in Labels /\ SameCall("event", "events") /\ then \in Labels
    BY DEF Labels, Looping, SameCall
  <1>7. [io EXCEPT !.pc = "events"] \in IoType /\ CallsOK([io EXCEPT !.pc = "events"])
    BY <1>1, <1>6, GotoCalls
  <1>8. CASE /\ Goto("events")
             /\ UNCHANGED <<maps, peerReadClosed, reading, deferredVars, eventVars>>
    <2>1. io'.pc = "events" /\ Calls' /\ ~io'.drain
      BY <1>1, <1>6, <1>8, GoesTo DEF Goto
    <2>2. inbox' = inbox /\ sequence' = sequence
      BY <1>8 DEF eventVars
    <2> QED
      BY <1>1, <1>2, <1>4, <1>8, <2>1, <2>2, PlainStep DEF Left, Plain
  <1>9. CASE /\ Current(id)
             /\ Disconnect(fd, [io EXCEPT !.pc = "events"])
             /\ UNCHANGED peerReadClosed
    <2>1. LosesSession(fd, [io EXCEPT !.pc = "events"])
      BY <1>5, <1>9, DisconnectIs
    <2>2. GoesOn([io EXCEPT !.pc = "events"], fd)
      BY <1>1, <1>7 DEF GoesOn, IoType
    <2>3. peerReadClosed' \in [Ids -> BOOLEAN]
      BY <1>1, <1>9 DEF InputTypes
    <2> QED
      BY <1>1, <1>2, <1>4, <1>5, <1>9, <2>1, <2>2, <2>3, DisconnectKeeps DEF Left
  <1>10. CASE /\ Current(id)
              /\ peerReadClosed' = [peerReadClosed EXCEPT ![id] = @ \/ hup]
              /\ IF phase = "Running" /\ ~paused
                 THEN /\ io' = IF e.flags \cap {"IN", "RDHUP"} # {}
                               THEN [EnterRead(fd, FALSE, then) EXCEPT !.ev = ev]
                               ELSE [[io EXCEPT !.ev = ev] EXCEPT !.pc = then]
                      /\ UNCHANGED deferredVars
                 ELSE /\ io' = [[io EXCEPT !.ev = ev] EXCEPT !.pc = then]
                      /\ IF hup /\ phase \in {"Running", "DrainingInput"}
                         THEN DeferRead(fd) ELSE UNCHANGED deferredVars
              /\ UNCHANGED <<maps, reading, eventVars>>
    <2>1. peerReadClosed' \in [Ids -> BOOLEAN]
      BY <1>1, <1>4, <1>10 DEF InputTypes
    <2>2. inbox' = inbox /\ sequence' = sequence
      BY <1>10 DEF eventVars
    <2>3. ASSUME io' = [[io EXCEPT !.ev = ev] EXCEPT !.pc = then]
          PROVE  Calls' /\ io'.pc = then /\ ~io'.drain
      <3>1. then \in {"flushEvent", "events"} /\ (then = "flushEvent" => ev.token - 3 \in Ids)
        BY <1>4
      <3> HIDE DEF then, ev
      <3>2. /\ io' \in IoType /\ io'.pc = then /\ io'.ev = ev
            /\ io'.drain = io.drain /\ io'.flushFd = io.flushFd
        BY <1>1, <1>4, <1>6, <2>3 DEF IoType
      <3> QED
        BY <1>1, <3>1, <3>2 DEF Calls, CallsOK, InDrain, InAdvance, Reading, DrainingInput,
           Outing, Advancing
    <2>4. ASSUME io' = [EnterRead(fd, FALSE, then) EXCEPT !.ev = ev]
          PROVE  Calls' /\ io'.pc = "read" /\ ~io'.drain
      <3>1. "read" \in Labels
        BY DEF Labels, Reading
      <3>2. then \in {"flushEvent", "events"} /\ (then = "flushEvent" => ev.token - 3 \in Ids)
        BY <1>4
      <3>3. fd \in Fds
        BY <1>5, <1>10
      <3> HIDE DEF then, ev, fd
      <3>4. /\ io' \in IoType /\ io'.pc = "read" /\ io'.ev = ev /\ io'.fd = fd
            /\ io'.drain = FALSE /\ io'.flushFd = io.flushFd /\ io'.readRet = then
        BY <1>1, <1>4, <1>6, <2>4, <3>1, <3>3 DEF IoType, EnterRead
      <3> QED
        BY <1>1, <3>2, <3>3, <3>4 DEF Calls, CallsOK, InDrain, InAdvance, Reading, DrainingInput,
           Outing, Advancing
    <2>5. Calls' /\ io'.pc \in {"flushEvent", "events", "read"} /\ ~io'.drain
      BY <1>10, <2>3, <2>4
    <2>6. io'.pc \in Plain /\ io'.pc \notin Left
      BY <2>5 DEF Plain, Left
    <2>7. CASE UNCHANGED deferredVars
      <3>1. InputTypes' /\ ReadingTypes' /\ EventTypes'
        BY <1>2, <1>10, <2>1, <2>2
        DEF CoreInv, Typed, InputTypes, ReadingTypes, EventTypes, Capacity, reading
      <3>2. paused' = paused /\ ctlPaused' = ctlPaused
        BY <1>10 DEF reading
      <3>3. /\ Positions'
            /\ io'.pc \notin {"readDefer", "readError", "readsDisconnect", "readsPop", "readsError"}
        BY <2>6, PlainPositions
      <3> QED
        BY <1>1, <1>2, <1>4, <1>10, <2>5, <2>6, <2>7, <3>1, <3>2, <3>3, MoveKeeps DEF Left
    <2>8. CASE ~(phase = "Running" /\ ~paused) /\ DeferRead(fd)
      BY <1>1, <1>2, <1>4, <1>5, <1>10, <2>1, <2>2, <2>5, <2>6, <2>8, DeferKeeps DEF Left
    <2> QED
      BY <1>10, <2>7, <2>8
  <1>11. [io EXCEPT !.ev = IF "OUT" \in e.flags THEN e ELSE @] = [io EXCEPT !.ev = ev]
    BY <1>1 DEF IoType
  <1>12. [io EXCEPT !.ev = ev].ev = ev
    BY <1>1 DEF IoType
  <1> QED
    BY <1>3, <1>8, <1>9, <1>10, <1>11, <1>12

LEMMA ExpireIdleCore ==
  ASSUME CoreInv, ExpireIdle, UNCHANGED config
  PROVE  CoreInv'
  <1>1. /\ io.pc = "expire" /\ Calls /\ phase \in Phases /\ BatchTypes /\ ~io.drain
        /\ InputTypes /\ io \in IoType /\ CallsOK(io)
    BY NotDraining DEF ExpireIdle, At, CoreInv, Typed, Reading, Calls
  <1>2. /\ UNCHANGED <<codec, fed, peerReadClosed, wire, connections, backlog, phase, batch>>
        /\ BatchTypes'
    BY <1>1 DEF ExpireIdle, exceptDisconnect, input, phaseVars, network, BatchTypes
  <1>3. ASSUME NEW fd \in OpenFds, Disconnect(fd, io) PROVE CoreInv'
    <2>1. LosesSession(fd, io)
      BY <1>3, DisconnectIs
    <2>2. GoesOn(io, fd)
      BY <1>1 DEF GoesOn
    <2>3. peerReadClosed' \in [Ids -> BOOLEAN]
      BY <1>1, <1>2 DEF InputTypes
    <2> QED
      BY <1>1, <1>2, <1>3, <2>1, <2>2, <2>3, DisconnectKeeps DEF Left
  <1>4. CASE /\ io' = IF phase = "Running" THEN [io EXCEPT !.pc = "top"]
                      ELSE [io EXCEPT !.pc = "advance", !.advanceRet = "top"]
             /\ UNCHANGED <<maps, reading, deferredVars, eventVars>>
    <2>1. "top" \in Labels /\ "advance" \in Labels /\ SameCall("expire", "top")
      BY DEF Labels, Looping, Advancing, SameCall
    <2>2. ASSUME io' = [io EXCEPT !.pc = "advance", !.advanceRet = "top"]
          PROVE  Calls' /\ io'.pc = "advance" /\ ~io'.drain
      <3>1. /\ io' \in IoType /\ io'.pc = "advance" /\ io'.advanceRet = "top"
            /\ io'.drain = io.drain /\ io'.flushFd = io.flushFd
        BY <1>1, <2>1, <2>2 DEF IoType
      <3> QED
        BY <1>1, <3>1 DEF Calls, CallsOK, InDrain, InAdvance, Reading, DrainingInput, Outing,
           Advancing
    <2>3. Calls' /\ io'.pc \in {"top", "advance"} /\ ~io'.drain
      BY <1>1, <1>4, <2>1, <2>2, GoesTo
    <2>4. inbox' = inbox /\ sequence' = sequence
      BY <1>4 DEF eventVars
    <2> QED
      BY <1>1, <1>2, <1>4, <2>3, <2>4, PlainStep DEF Left, Plain, Advancing
  <1> QED
    BY <1>3, <1>4 DEF ExpireIdle

-----------------------------------------------------------------------------
\* acceptLoop.

\* The session that accept4 gives the lowest free descriptor.
Admits(fd) ==
    /\ nextId' = nextId + 1
    /\ sessionAt' = [sessionAt EXCEPT ![fd] = nextId + 1]
    /\ fdBySession' = [fdBySession EXCEPT ![nextId + 1] = fd]
    /\ fdByToken' = [fdByToken EXCEPT ![nextId + 1] = fd]

LEMMA AdmitsIs ==
  ASSUME MapTypes, MapsAgree, Connected, config \in Configs, backlog > 0,
         Cardinality(OpenFds) < MaxSessions, NEW fd \in Fds \ OpenFds, Admits(fd)
  PROVE  /\ MapTypes' /\ MapsAgree' /\ OpenFds' = OpenFds \cup {fd} /\ nextId + 1 \in Ids
         /\ sessionAt'[fd] = nextId + 1 /\ \A f \in OpenFds : sessionAt'[f] = sessionAt[f]
  <1>1. /\ nextId \in Nat /\ nextId + 1 \in Ids /\ nextId + 1 \in 0..MaxConnections
        /\ nextId + 1 # 0
    <2>1. /\ config.connections \in Nat /\ config.connections <= MaxConnections
          /\ MaxConnections \in Nat
      BY ConfigIs
    <2>2. /\ nextId \in Nat /\ backlog \in Nat /\ connections \in Nat
          /\ nextId + backlog <= connections /\ connections <= config.connections
      BY <2>1 DEF MapTypes, Connected
    <2>3. nextId + 1 <= MaxConnections
      BY <2>1, <2>2
    <2> QED
      BY <2>1, <2>2, <2>3 DEF Ids
  <1>2. MapTypes'
    BY <1>1 DEF MapTypes, Admits
  <1>3. sessionAt'[fd] = nextId + 1 /\ \A f \in Fds \ {fd} : sessionAt'[f] = sessionAt[f]
    BY DEF MapTypes, Admits
  <1>4. OpenFds' = OpenFds \cup {fd}
    BY <1>1, <1>3 DEF OpenFds
  <1>5. NoFd \notin Fds
    BY ConfigIs DEF NoFd
  <1>6. /\ fdBySession'[nextId + 1] = fd
        /\ \A id \in Ids \ {nextId + 1} : fdBySession'[id] = fdBySession[id]
    BY <1>1 DEF MapTypes, Admits
  <1>7. ASSUME NEW f \in OpenFds
        PROVE  sessionAt[f] \in Ids /\ sessionAt[f] <= nextId /\ sessionAt[f] # nextId + 1
    BY <1>1 DEF MapTypes, MapsAgree, OpenFds, Ids
  <1>8. ASSUME NEW f \in OpenFds'
        PROVE  fdBySession'[sessionAt'[f]] = f /\ sessionAt'[f] <= nextId'
    <2>1. CASE f = fd
      BY <1>1, <1>3, <1>6, <2>1 DEF Admits
    <2>2. CASE f # fd
      <3>1. f \in OpenFds /\ f \in Fds \ {fd}
        BY <1>4, <2>2 DEF OpenFds
      <3>2. sessionAt[f] \in Nat
        BY <1>7, <3>1 DEF Ids
      <3> QED
        BY <1>1, <1>3, <1>6, <1>7, <3>1, <3>2 DEF MapsAgree, Admits
    <2> QED
      BY <2>1, <2>2
  <1>9. ASSUME NEW id \in Ids, fdBySession'[id] # NoFd
        PROVE  sessionAt'[fdBySession'[id]] = id
    <2>1. CASE id = nextId + 1
      BY <1>3, <1>6, <2>1
    <2>2. CASE id # nextId + 1
      <3>1. fdBySession[id] \in Fds /\ sessionAt[fdBySession[id]] = id /\ id # 0
        BY <1>6, <1>9, <2>2 DEF MapTypes, MapsAgree, Ids
      <3>2. fdBySession[id] \in OpenFds
        BY <3>1 DEF OpenFds
      <3> QED
        BY <1>3, <1>6, <2>2, <3>1, <3>2
    <2> QED
      BY <2>1, <2>2
  <1>10. fdByToken' = fdBySession'
    BY DEF MapsAgree, Admits
  <1> QED
    BY <1>1, <1>2, <1>3, <1>4, <1>8, <1>9, <1>10 DEF MapsAgree, OpenFds

LEMMA AcceptCore ==
  ASSUME CoreInv, Accept, UNCHANGED config
  PROVE  CoreInv'
  <1>1. /\ Typed /\ Calls /\ Positions /\ MapsAgree /\ Connected /\ Within
        /\ ReadQueue /\ PausedWhile /\ PutOff
        /\ config \in Configs /\ phase \in Phases
        /\ MapTypes /\ InputTypes /\ ReadingTypes /\ EventTypes /\ DeferredTypes /\ BatchTypes
        /\ io.pc = "accept" /\ io \in IoType /\ CallsOK(io) /\ ~io.drain
    BY NotDraining DEF CoreInv, Typed, Accept, At, Calls, Reading
  <1>2. /\ phase = "Running" /\ ~paused /\ deferredReads = <<>> /\ deferredDisconnects = <<>>
        /\ deferredReadSet = {}
    <2>1. phase = "Running" /\ ~paused /\ deferredReads = <<>> /\ deferredDisconnects = <<>>
      BY <1>1 DEF Positions, PausedWhile, Left
    <2> QED
      BY <1>1, <2>1 DEF ReadQueue
  <1>3. /\ UNCHANGED <<codec, fed, peerReadClosed, wire, listener, paused, ctlPaused,
                       deferredReads, deferredReadSet, deferredDisconnects, phase, batch,
                       inbox, sequence, connections>>
        /\ backlog' = backlog - 1 /\ backlog > 0
    BY DEF Accept, input, deferredVars, phaseVars, eventVars
  <1>4. InputTypes' /\ EventTypes' /\ DeferredTypes' /\ BatchTypes'
    BY <1>1, <1>3 DEF InputTypes, EventTypes, DeferredTypes, BatchTypes, Capacity
  <1>5. /\ io' \in IoType /\ CallsOK(io') /\ io'.pc \in {"accept", "events", "failed"}
        /\ ~io'.drain
    <2>1. "events" \in Labels /\ "accept" \in Labels /\ "failed" \in Labels
          /\ SameCall("accept", "failed")
      BY DEF Labels, Looping, Left, SameCall
    <2>2. CASE io.slots > 0 /\ io' = [io EXCEPT !.slots = @ - 1]
      <3>0. io.slots \in Nat
        BY <1>1 DEF IoType
      <3>1. io.slots - 1 \in Nat
        BY <2>2, <3>0
      <3>2. io' \in IoType /\ io'.pc = "accept" /\ io'.drain = io.drain /\ io'.flushFd = io.flushFd
        BY <1>1, <2>2, <3>1 DEF IoType
      <3> QED
        BY <1>1, <3>2 DEF CallsOK, InDrain, InAdvance, Reading, DrainingInput, Outing, Advancing
    <2>3. CASE io' = [io EXCEPT !.pc = "events", !.slots = 0]
      <3>1. io' \in IoType /\ io'.pc = "events" /\ io'.drain = io.drain /\ io'.flushFd = io.flushFd
        BY <1>1, <2>1, <2>3 DEF IoType
      <3> QED
        BY <1>1, <3>1 DEF CallsOK, InDrain, InAdvance, Reading, DrainingInput, Outing, Advancing
    <2>4. CASE Goto("failed")
      BY <1>1, <2>1, <2>4, GoesTo DEF Goto, Calls
    <2> QED
      BY <2>2, <2>3, <2>4 DEF Accept
  <1>6. Positions' /\ PausedWhile'
    BY <1>1, <1>2, <1>3, <1>5 DEF Positions, PausedWhile, Left
  <1>7. CASE UNCHANGED <<maps, interest>>
    <2>1. /\ sessionAt' = sessionAt /\ fdBySession' = fdBySession /\ fdByToken' = fdByToken
          /\ nextId' = nextId /\ interest' = interest /\ OpenFds' = OpenFds
      BY <1>7 DEF maps, OpenFds
    <2>2. Typed'
      BY <1>1, <1>3, <1>4, <2>1 DEF Typed, MapTypes, ReadingTypes
    <2>3. MapsAgree' /\ Within' /\ ReadQueue'
      BY <1>1, <1>3, <2>1 DEF MapsAgree, Within, ReadQueue, MaxSessions
    <2>4. Connected'
      BY <1>1, <1>3, <2>1 DEF Connected, MapTypes
    <2>5. PutOff'
      BY <1>1, <1>3, <1>5, <2>1 DEF PutOff, HasPacket
    <2> QED
      BY <1>5, <1>6, <2>2, <2>3, <2>4, <2>5 DEF CoreInv, Calls
  <1>8. ASSUME Cardinality(OpenFds) < MaxSessions, nextId' = nextId + 1,
               LET fd == Min(Fds \ OpenFds) IN
                     /\ sessionAt' = [sessionAt EXCEPT ![fd] = nextId']
                     /\ fdBySession' = [fdBySession EXCEPT ![nextId'] = fd]
                     /\ fdByToken' = [fdByToken EXCEPT ![nextId'] = fd]
                     /\ interest' = [interest EXCEPT ![fd] = {"IN", "RDHUP"}]
        PROVE  CoreInv'
    <2> DEFINE fd == Min(Fds \ OpenFds)
    <2>1. /\ IsFiniteSet(Fds) /\ Fds \subseteq Nat /\ MaxSessions <= Cardinality(Fds)
          /\ MaxSessions \in Nat /\ IsFiniteSet(OpenFds) /\ Cardinality(OpenFds) \in Nat
          /\ Cardinality(Fds) \in Nat
      BY <1>1, ConfigIs, OpenFinite, FS_CardinalityType
    <2>2. Fds \ OpenFds # {}
      <3>1. Fds # OpenFds /\ OpenFds \subseteq Fds
        BY <1>8, <2>1 DEF OpenFds
      <3> QED
        BY <3>1
    <2>3. fd \in Fds \ OpenFds
      BY <2>1, <2>2, LowestFree
    <2> HIDE DEF fd
    <2>4. Admits(fd) /\ interest' = [interest EXCEPT ![fd] = {"IN", "RDHUP"}]
      BY <1>8 DEF Admits, fd
    <2>5. /\ MapTypes' /\ MapsAgree' /\ OpenFds' = OpenFds \cup {fd} /\ nextId + 1 \in Ids
          /\ sessionAt'[fd] = nextId + 1 /\ \A f \in OpenFds : sessionAt'[f] = sessionAt[f]
      BY <1>1, <1>3, <1>8, <2>3, <2>4, AdmitsIs
    <2>6. Typed'
      <3>1. ReadingTypes'
        BY <1>1, <1>3, <2>4 DEF ReadingTypes, Interests
      <3> QED
        BY <1>1, <1>3, <1>4, <2>5, <3>1 DEF Typed
    <2>7. Connected'
      BY <1>1, <1>3, <2>4 DEF Connected, MapTypes, Admits, Ids
    <2>8. Within'
      <3>1. Cardinality(OpenFds') = Cardinality(OpenFds) + 1
        BY <2>1, <2>3, <2>5, FS_AddElement
      <3>2. Len(deferredDisconnects') = 0 /\ MaxSessions' = MaxSessions
        BY <1>2, <1>3 DEF MaxSessions
      <3> QED
        BY <1>8, <2>1, <3>1, <3>2 DEF Within
    <2>9. ReadQueue'
      BY <1>2, <1>3 DEF ReadQueue
    <2>10. PutOff'
      <3>1. ASSUME NEW f \in OpenFds', HasPacket(sessionAt[f])' PROVE f \in deferredReadSet'
        <4>1. CASE f = fd
          <5>1. codec[nextId + 1] = <<>>
            BY <1>1, <2>5 DEF Connected, MapTypes
          <5> QED
            BY <1>3, <2>5, <3>1, <4>1, <5>1 DEF HasPacket
        <4>2. CASE f # fd
          <5>1. f \in OpenFds /\ HasPacket(sessionAt[f])
            BY SMTT(40), <1>3, <2>5, <3>1, <4>2 DEF HasPacket
          <5> QED
            BY <1>1, <1>3, <5>1 DEF PutOff
        <4> QED
          BY <4>1, <4>2
      <3> QED
        BY <1>5, <3>1 DEF PutOff
    <2> QED
      BY <1>5, <1>6, <2>5, <2>6, <2>7, <2>8, <2>9, <2>10 DEF CoreInv, Calls
  <1> QED
    BY <1>7, <1>8 DEF Accept

-----------------------------------------------------------------------------
\* readSession and enqueueDecodedPackets.

LEMMA ReadSessionCore ==
  ASSUME CoreInv, ReadSession, UNCHANGED config
  PROVE  CoreInv'
  <1>1. /\ Typed /\ Calls /\ Positions /\ MapsAgree /\ Connected /\ Within
        /\ ReadQueue /\ PausedWhile /\ PutOff
        /\ config \in Configs /\ phase \in Phases
        /\ MapTypes /\ InputTypes /\ ReadingTypes /\ EventTypes /\ DeferredTypes /\ BatchTypes
        /\ io.pc = "read" /\ io \in IoType /\ CallsOK(io)
    <2>1. io.pc = "read"
      BY DEF ReadSession, At
    <2>2. io \in IoType /\ CallsOK(io)
      BY ZenonT(60) DEF CoreInv, Calls
    <2> QED
      BY ZenonT(60), <2>1, <2>2 DEF CoreInv, Typed
  <1>2. /\ UNCHANGED <<peerReadClosed, phase, batch, connections, backlog>>
        /\ BatchTypes' /\ peerReadClosed' \in [Ids -> BOOLEAN]
    BY <1>1 DEF ReadSession, phaseVars, BatchTypes, InputTypes
  <1>3. io.fd \in Fds
    BY <1>1 DEF CallsOK, Reading
  <1>4. /\ ReadReturn \in IoType /\ CallsOK(ReadReturn)
        /\ ReadReturn.pc \in {"flushEvent", "events", "reads", "resume"} /\ ~ReadReturn.drain
    BY <1>1, ReadReturnIs DEF Reading
  <1> DEFINE id == sessionAt[io.fd]
  <1>5. ~ReadEnds(id) => io.fd \in OpenFds /\ id \in Ids
    BY <1>1, <1>3 DEF ReadEnds, OpenFds, MapTypes
  <1>6. CASE /\ io' = ReadReturn
             /\ UNCHANGED <<maps, codec, fed, reading, deferredVars, eventVars, wire>>
    <2>1. inbox' = inbox /\ sequence' = sequence
      BY <1>6 DEF eventVars
    <2>2. Calls' /\ io'.pc \in Plain /\ ~io'.drain
      BY <1>4, <1>6 DEF Calls, Plain
    <2> QED
      BY <1>1, <1>2, <1>6, <2>1, <2>2, PlainStep DEF Left
  <1>7. CASE ~ReadEnds(id) /\ Disconnect(io.fd, ReadReturn) /\ UNCHANGED <<codec, fed, wire>>
    <2>1. LosesSession(io.fd, ReadReturn)
      BY <1>5, <1>7, DisconnectIs
    <2>2. GoesOn(ReadReturn, io.fd)
      BY <1>4 DEF GoesOn
    <2> QED
      BY <1>1, <1>2, <1>5, <1>7, <2>1, <2>2, DisconnectKeeps DEF Left
  <1>8. ASSUME NEW n \in 1..Len(wire[id]), ~ReadEnds(id),
               codec' = [codec EXCEPT ![id] = @ \o SubSeq(wire[id], 1, n)],
               fed' = [fed EXCEPT ![id] = @ \o SubSeq(wire[id], 1, n)],
               wire' = [wire EXCEPT ![id] = SubSeq(@, n + 1, Len(@))],
               Goto("decode"), UNCHANGED <<maps, reading, deferredVars, eventVars>>
        PROVE  CoreInv'
    <2>1. io.fd \in OpenFds /\ id \in Ids
      BY <1>5, <1>8
    <2>2. "decode" \in Labels /\ SameCall("read", "decode")
      BY DEF Labels, Reading, SameCall
    <2>3. /\ Calls' /\ io'.pc = "decode" /\ io'.drain = io.drain /\ io'.fd = io.fd
          /\ io'.flushFd = io.flushFd
      BY <1>1, <1>8, <2>2, GoesTo DEF Goto
    <2>4. /\ sessionAt' = sessionAt /\ fdBySession' = fdBySession /\ fdByToken' = fdByToken
          /\ nextId' = nextId /\ config' = config /\ OpenFds' = OpenFds
          /\ interest' = interest /\ listener' = listener /\ paused' = paused
          /\ ctlPaused' = ctlPaused /\ deferredDisconnects' = deferredDisconnects
          /\ deferredReads' = deferredReads /\ deferredReadSet' = deferredReadSet
          /\ inbox' = inbox /\ sequence' = sequence
      BY <1>8 DEF maps, reading, OpenFds, deferredVars, eventVars
    <2>5. InputTypes'
      <3>1. /\ wire[id] \in Seq(Frames) /\ codec[id] \in Seq(Frames) /\ fed[id] \in Seq(Frames)
            /\ n \in Nat /\ n <= Len(wire[id]) /\ Len(wire[id]) \in Nat
        BY <1>1, <2>1 DEF InputTypes
      <3>2. /\ SubSeq(wire[id], 1, n) \in Seq(Frames)
            /\ SubSeq(wire[id], n + 1, Len(wire[id])) \in Seq(Frames)
        BY <3>1
      <3>3. /\ codec[id] \o SubSeq(wire[id], 1, n) \in Seq(Frames)
            /\ fed[id] \o SubSeq(wire[id], 1, n) \in Seq(Frames)
        BY <3>1, <3>2
      <3> QED
        BY <1>1, <1>2, <1>8, <2>1, <3>2, <3>3 DEF InputTypes
    <2>6. Typed'
      BY <1>1, <1>2, <2>4, <2>5 DEF Typed, MapTypes, ReadingTypes, EventTypes, DeferredTypes,
         Capacity
    <2>7. MapsAgree' /\ Within' /\ ReadQueue'
      BY <1>1, <2>4 DEF MapsAgree, Within, ReadQueue, MaxSessions
    <2>8. \A i \in Ids \ {id} : codec'[i] = codec[i]
      BY <1>1, <1>8 DEF InputTypes
    <2>9. Connected'
      BY <1>1, <1>2, <2>1, <2>4, <2>8 DEF Connected, MapsAgree, MapTypes, Ids
    <2>10. Positions' /\ PausedWhile'
      BY <1>1, <1>2, <2>1, <2>3, <2>4 DEF Positions, PausedWhile, Left
    <2>11. PutOff'
      <3>1. ASSUME NEW f \in OpenFds, f # io.fd, HasPacket(sessionAt[f])'
            PROVE  f \in deferredReadSet
        <4>1. sessionAt[f] \in Ids \ {id}
          BY <1>1, <2>1, <3>1 DEF MapsAgree, MapTypes, OpenFds
        <4>2. HasPacket(sessionAt[f])
          BY <2>4, <2>8, <3>1, <4>1 DEF HasPacket
        <4> QED
          BY <1>1, <4>2 DEF PutOff
      <3> QED
        BY <2>3, <2>4, <3>1 DEF PutOff
    <2> QED
      BY <2>3, <2>6, <2>7, <2>9, <2>10, <2>11 DEF CoreInv
  <1> QED
    BY <1>6, <1>7, <1>8 DEF ReadSession

\* What one round of enqueueDecodedPackets does.
Enqueues(id, counted, onTrue, onFalse, onError) ==
    /\ ReadingTypes' /\ EventTypes' /\ (paused => paused')
    /\ paused = ctlPaused => paused' = ctlPaused'
    /\ \/ codec[id] = <<>> /\ io' = [io EXCEPT !.pc = onTrue] /\ codec' = codec
       \/ /\ codec[id] # <<>> /\ ~HasPacket(id)
          /\ io' = [io EXCEPT !.pc = onError] /\ codec' = codec
       \/ /\ HasPacket(id) /\ codec' = codec
          /\ io' = [io EXCEPT !.pc = onFalse] /\ (paused' \/ counted)
       \/ /\ HasPacket(id) /\ codec' = [codec EXCEPT ![id] = Tail(@)]
          /\ \E w \in Nat, l \in {io.pc, onFalse} :
               /\ io' = [io EXCEPT !.work = w, !.pc = l]
               /\ paused = ctlPaused /\ l # io.pc => paused'

LEMMA EnqueueIs ==
  ASSUME CoreInv, UNCHANGED config, NEW id \in Ids, NEW counted \in BOOLEAN,
         NEW onTrue, NEW onFalse, NEW onError,
         EnqueueDecoded(id, counted, onTrue, onFalse, onError)
  PROVE  Enqueues(id, counted, onTrue, onFalse, onError)
  <1>1. /\ config \in Configs /\ ReadingTypes /\ EventTypes /\ io \in IoType
        /\ io.work \in Nat
    BY DEF CoreInv, Typed, Calls, IoType
  <1>2. UNCHANGED <<reading, eventVars>> =>
           /\ ReadingTypes' /\ EventTypes' /\ paused' = paused /\ ctlPaused' = ctlPaused
    BY <1>1 DEF reading, eventVars, ReadingTypes, EventTypes, Capacity
  <1>3. CASE /\ codec[id] = <<>> /\ Goto(onTrue)
             /\ UNCHANGED <<codec, reading, eventVars>>
    BY <1>2, <1>3 DEF Enqueues, Goto
  <1>4. CASE /\ codec[id] # <<>> /\ ~HasPacket(id) /\ Goto(onError)
             /\ UNCHANGED <<codec, reading, eventVars>>
    <2>1. /\ ReadingTypes' /\ EventTypes' /\ paused' = paused /\ ctlPaused' = ctlPaused
          /\ codec' = codec
      BY <1>2, <1>4
    <2>2. io' = [io EXCEPT !.pc = onError] /\ codec[id] # <<>> /\ ~HasPacket(id)
      BY <1>4 DEF Goto
    <2> QED
      BY <2>1, <2>2, Zenon DEF Enqueues
  <1>5. CASE /\ HasPacket(id) /\ counted /\ Goto(onFalse)
             /\ UNCHANGED <<codec, reading, eventVars>>
    BY <1>2, <1>5 DEF Enqueues, Goto
  <1>6. CASE /\ HasPacket(id) /\ ObserveFull({}) /\ Goto(onFalse)
             /\ UNCHANGED <<codec, eventVars>>
    <2>1. EventTypes'
      BY <1>1, <1>6 DEF EventTypes, eventVars, Capacity
    <2> QED
      BY <1>1, <1>6, <2>1, ObserveFullIs DEF Enqueues, Goto
  <1>7. CASE /\ HasPacket(id) /\ ~(counted /\ io.work = 0)
             /\ PushEvent("Packet", id, {})
             /\ codec' = [codec EXCEPT ![id] = Tail(@)]
             /\ io' = [io EXCEPT !.work = IF counted THEN io.work - 1 ELSE io.work,
                                 !.pc = IF inbox + 1 >= High THEN onFalse ELSE @]
    <2>1. /\ ReadingTypes' /\ EventTypes' /\ (paused => paused')
          /\ paused = ctlPaused => paused' = ctlPaused' /\ (inbox + 1 >= High => paused')
      BY <1>1, <1>7, PushEventIs
    <2> DEFINE w == IF counted THEN io.work - 1 ELSE io.work
               l == IF inbox + 1 >= High THEN onFalse ELSE io.pc
    <2>2. w \in Nat
      BY <1>1, <1>7
    <2>3. l \in {io.pc, onFalse} /\ (paused = ctlPaused /\ l # io.pc => paused')
      BY <2>1
    <2>4. io' = [io EXCEPT !.work = w, !.pc = l]
      BY <1>1, <1>7 DEF IoType
    <2> HIDE DEF w, l
    <2> QED
      BY ZenonT(60), <1>7, <2>1, <2>2, <2>3, <2>4 DEF Enqueues
  <1> QED
    BY <1>3, <1>4, <1>5, <1>6, <1>7 DEF EnqueueDecoded

\* Where it leaves the thread.
Enqueued(id, counted, onTrue, onFalse, onError) ==
    /\ Calls' /\ io'.drain = io.drain /\ io'.fd = io.fd /\ io'.flushFd = io.flushFd
    /\ \/ io'.pc = onTrue /\ codec[id] = <<>> /\ codec' = codec
       \/ io'.pc = onError /\ ~HasPacket(id) /\ codec' = codec
       \/ /\ io'.pc = onFalse /\ HasPacket(id)
          /\ paused = ctlPaused /\ ~counted => paused' \/ onFalse = io.pc
       \/ io'.pc = io.pc /\ HasPacket(id)

LEMMA EnqueueCalls ==
  ASSUME Calls, NEW id, NEW counted, NEW onTrue \in Labels, NEW onFalse \in Labels,
         NEW onError \in Labels, Enqueues(id, counted, onTrue, onFalse, onError),
         SameCall(io.pc, onTrue), SameCall(io.pc, onFalse), SameCall(io.pc, onError),
         SameCall(io.pc, io.pc)
  PROVE  Enqueued(id, counted, onTrue, onFalse, onError)
  <1>1. io \in IoType /\ CallsOK(io) /\ io.pc \in Labels
    BY DEF Calls, IoType
  <1>2. ASSUME NEW l \in Labels, SameCall(io.pc, l), io' = [io EXCEPT !.pc = l]
        PROVE  /\ Calls' /\ io'.pc = l /\ io'.drain = io.drain /\ io'.fd = io.fd
               /\ io'.flushFd = io.flushFd
    BY <1>2, GoesTo
  <1>3. ASSUME NEW w \in Nat, NEW l \in Labels, SameCall(io.pc, l),
               io' = [io EXCEPT !.work = w, !.pc = l]
        PROVE  /\ Calls' /\ io'.pc = l /\ io'.drain = io.drain /\ io'.fd = io.fd
               /\ io'.flushFd = io.flushFd
    <2> DEFINE k == [io EXCEPT !.work = w]
    <2>1. k \in IoType /\ k.pc = io.pc
      BY <1>1 DEF IoType
    <2>2. /\ k.fd = io.fd /\ k.drain = io.drain /\ k.readRet = io.readRet
          /\ k.drainRet = io.drainRet /\ k.outRet = io.outRet /\ k.flushRet = io.flushRet
          /\ k.flushFd = io.flushFd /\ k.advanceRet = io.advanceRet /\ k.ev = io.ev
      BY <1>1 DEF IoType
    <2>3. io' = [k EXCEPT !.pc = l]
      BY <1>1, <1>3 DEF IoType
    <2> HIDE DEF k
    <2>4. CallsOK(k)
      BY <1>1, <2>1, <2>2 DEF CallsOK, InDrain, InAdvance
    <2>5. io' \in IoType /\ CallsOK(io')
      BY <1>3, <2>1, <2>3, <2>4, GotoCalls
    <2> QED
      BY <2>1, <2>2, <2>3, <2>5 DEF Calls, IoType
  <1>4. CASE codec[id] = <<>> /\ io' = [io EXCEPT !.pc = onTrue] /\ codec' = codec
    BY <1>2, <1>4 DEF Enqueued
  <1>5. CASE /\ codec[id] # <<>> /\ ~HasPacket(id)
             /\ io' = [io EXCEPT !.pc = onError] /\ codec' = codec
    BY <1>2, <1>5 DEF Enqueued
  <1>6. CASE /\ HasPacket(id) /\ codec' = codec
             /\ io' = [io EXCEPT !.pc = onFalse] /\ (paused' \/ counted)
    BY <1>2, <1>6 DEF Enqueued
  <1>7. CASE /\ HasPacket(id) /\ codec' = [codec EXCEPT ![id] = Tail(@)]
             /\ \E w \in Nat, l \in {io.pc, onFalse} :
                  /\ io' = [io EXCEPT !.work = w, !.pc = l]
                  /\ paused = ctlPaused /\ l # io.pc => paused'
    <2>1. PICK w \in Nat, l \in {io.pc, onFalse} :
                  /\ io' = [io EXCEPT !.work = w, !.pc = l]
                  /\ paused = ctlPaused /\ l # io.pc => paused'
      BY <1>7
    <2>2. l \in Labels /\ SameCall(io.pc, l)
      BY <1>1
    <2> QED
      BY <1>3, <1>7, <2>1, <2>2 DEF Enqueued
  <1> QED
    BY <1>4, <1>5, <1>6, <1>7 DEF Enqueues

LEMMA EnqueueKeeps ==
  ASSUME CoreInv, NEW id \in Ids, NEW counted, NEW onTrue, NEW onFalse, NEW onError,
         Enqueues(id, counted, onTrue, onFalse, onError),
         UNCHANGED <<config, maps, fed, peerReadClosed, wire, deferredVars, phase, batch,
                     connections, backlog>>
  PROVE  /\ Typed' /\ MapsAgree' /\ Connected' /\ Within' /\ ReadQueue'
         /\ \A i \in Ids : HasPacket(i)' => HasPacket(i)
  <1>1. /\ Typed /\ MapsAgree /\ Connected /\ Within /\ ReadQueue /\ InputTypes /\ MapTypes
    BY DEF CoreInv, Typed
  <1>2. /\ sessionAt' = sessionAt /\ fdBySession' = fdBySession /\ fdByToken' = fdByToken
        /\ nextId' = nextId /\ deferredReads' = deferredReads
        /\ deferredReadSet' = deferredReadSet /\ deferredDisconnects' = deferredDisconnects
        /\ config' = config /\ OpenFds' = OpenFds
    BY SMTT(40) DEF maps, deferredVars, OpenFds
  <1>3. \/ codec' = codec
        \/ HasPacket(id) /\ codec' = [codec EXCEPT ![id] = Tail(@)]
    BY DEF Enqueues
  <1>4. codec' \in [Ids -> Seq(Frames)]
    <2>1. HasPacket(id) => Tail(codec[id]) \in Seq(Frames)
      BY <1>1 DEF InputTypes, HasPacket
    <2> QED
      BY <1>1, <1>3, <2>1 DEF InputTypes
  <1>5. Typed'
    BY <1>1, <1>2, <1>4 DEF Typed, InputTypes, MapTypes, DeferredTypes, Enqueues, BatchTypes
  <1>6. MapsAgree' /\ Within' /\ ReadQueue'
    BY <1>1, <1>2 DEF MapsAgree, Within, ReadQueue, MaxSessions
  <1>7. \A i \in Ids \ {id} : codec'[i] = codec[i]
    BY <1>1, <1>3 DEF InputTypes
  <1>8. HasPacket(id) => ~(id > nextId)
    BY <1>1 DEF Connected, HasPacket
  <1>9. Connected'
    BY <1>1, <1>2, <1>3, <1>7, <1>8 DEF Connected
  <1>10. \A i \in Ids : HasPacket(i)' => HasPacket(i)
    BY <1>3, <1>7 DEF HasPacket
  <1> QED
    BY <1>5, <1>6, <1>9, <1>10

LEMMA DecodeCore ==
  ASSUME CoreInv, Decode, UNCHANGED config
  PROVE  CoreInv'
  <1>1. /\ Typed /\ Calls /\ Positions /\ MapsAgree /\ PausedWhile /\ PutOff
        /\ MapTypes /\ io.pc = "decode" /\ io \in IoType /\ CallsOK(io) /\ io.drain \in BOOLEAN
    BY DEF CoreInv, Typed, Decode, At, Calls, IoType
  <1> DEFINE id == sessionAt[io.fd]
  <1>2. io.fd \in OpenFds /\ id \in Ids
    BY <1>1 DEF Positions, MapTypes, OpenFds
  <1>3. Enqueues(id, io.drain, "read", "readDefer", "readError")
    BY <1>1, <1>2, EnqueueIs DEF Decode
  <1>4. UNCHANGED <<maps, fed, peerReadClosed, wire, deferredVars, phase, batch,
                     connections, backlog>>
    BY DEF Decode, phaseVars, network
  <1>5. /\ Typed' /\ MapsAgree' /\ Connected' /\ Within' /\ ReadQueue'
        /\ \A i \in Ids : HasPacket(i)' => HasPacket(i)
    BY <1>2, <1>3, <1>4, EnqueueKeeps
  <1>6. /\ Calls' /\ io'.drain = io.drain /\ io'.fd = io.fd /\ io'.flushFd = io.flushFd
        /\ \/ io'.pc = "read" /\ codec[id] = <<>> /\ codec' = codec
           \/ io'.pc = "readError" /\ ~HasPacket(id) /\ codec' = codec
           \/ /\ io'.pc = "readDefer" /\ HasPacket(id)
              /\ paused = ctlPaused /\ ~io.drain => paused'
           \/ io'.pc = "decode"
    <2>1. /\ "read" \in Labels /\ "readDefer" \in Labels /\ "readError" \in Labels
          /\ SameCall(io.pc, "read") /\ SameCall(io.pc, "readDefer")
          /\ SameCall(io.pc, "readError") /\ SameCall(io.pc, io.pc)
      BY <1>1 DEF Labels, Reading, SameCall
    <2> HIDE DEF id
    <2>2. Enqueued(id, io.drain, "read", "readDefer", "readError")
      BY <1>1, <1>3, <2>1, EnqueueCalls
    <2> QED
      BY <1>1, <2>2 DEF Enqueued
  <1>7. /\ sessionAt' = sessionAt /\ OpenFds' = OpenFds /\ deferredReads' = deferredReads
        /\ deferredReadSet' = deferredReadSet /\ deferredDisconnects' = deferredDisconnects
        /\ phase' = phase
    BY <1>4 DEF maps, deferredVars, OpenFds
  <1>8. Positions'
    BY <1>2, <1>6, <1>7 DEF Positions
  <1>9. PausedWhile'
    <2>1. (paused => paused') /\ (paused = ctlPaused => paused' = ctlPaused')
      BY <1>3 DEF Enqueues
    <2> QED
      BY SMTT(40), <1>1, <1>6, <1>7, <2>1 DEF PausedWhile, Left
  <1>10. PutOff'
    <2>1. ASSUME NEW f \in OpenFds, HasPacket(sessionAt[f])'
          PROVE  f \in deferredReadSet \/ (io'.pc \in {"decode", "readDefer"} /\ io.fd = f)
      <3>1. HasPacket(sessionAt[f])
        BY <1>1, <1>5, <1>7, <2>1 DEF HasPacket, MapTypes, OpenFds
      <3>2. f \in deferredReadSet \/ io.fd = f
        BY <1>1, <3>1 DEF PutOff
      <3>3. io.fd = f => io'.pc \in {"decode", "readDefer"}
        BY <1>6, <3>1 DEF HasPacket
      <3> QED
        BY <3>2, <3>3
    <2>2. io'.pc = "readError" => ~HasPacket(sessionAt[io.fd])'
      BY <1>6, <1>7 DEF HasPacket
    <2> QED
      BY <1>6, <1>7, <2>1, <2>2 DEF PutOff
  <1> QED
    BY <1>5, <1>6, <1>8, <1>9, <1>10 DEF CoreInv

LEMMA ReadStopsCore ==
  ASSUME CoreInv, ReadStops, UNCHANGED config
  PROVE  CoreInv'
  <1>1. /\ Calls /\ Positions /\ PausedWhile /\ InputTypes /\ BatchTypes /\ io.pc \in Reading
    BY DEF CoreInv, Typed, ReadStops, At, Reading
  <1>2. /\ UNCHANGED <<codec, fed, peerReadClosed, wire, phase, batch, connections, backlog>>
        /\ BatchTypes' /\ peerReadClosed' \in [Ids -> BOOLEAN]
    BY <1>1 DEF ReadStops, exceptDisconnect, input, phaseVars, network, BatchTypes, InputTypes
  <1>3. /\ ReadReturn \in IoType /\ CallsOK(ReadReturn)
        /\ ReadReturn.pc \in {"flushEvent", "events", "reads", "resume"} /\ ~ReadReturn.drain
    BY <1>1, ReadReturnIs
  <1>4. CASE /\ At("readDefer") /\ DeferRead(io.fd) /\ io' = ReadReturn
             /\ UNCHANGED <<maps, reading, eventVars>>
    <2>1. io.pc = "readDefer" /\ io.fd \in OpenFds /\ (phase = "Running" => paused)
      BY <1>1, <1>4 DEF At, Positions, PausedWhile, Left
    <2>2. inbox' = inbox /\ sequence' = sequence
      BY <1>4 DEF eventVars
    <2>3. Calls' /\ io'.pc \in Plain /\ ~io'.drain
      BY <1>3, <1>4 DEF Calls, Plain
    <2> QED
      BY <1>2, <1>4, <2>1, <2>2, <2>3, DeferKeeps DEF Left
  <1>5. CASE At("readError") /\ Disconnect(io.fd, ReadReturn)
    <2>1. io.pc = "readError" /\ io.fd \in OpenFds
      BY <1>1, <1>5 DEF At, Positions
    <2>2. LosesSession(io.fd, ReadReturn)
      BY <1>5, <2>1, DisconnectIs
    <2>3. GoesOn(ReadReturn, io.fd)
      BY <1>3 DEF GoesOn
    <2> QED
      BY <1>2, <2>1, <2>2, <2>3, DisconnectKeeps DEF Left
  <1> QED
    BY <1>4, <1>5 DEF ReadStops

-----------------------------------------------------------------------------
\* drainDeferredInput.

LEMMA YieldCore ==
  ASSUME CoreInv, Yield, UNCHANGED config
  PROVE  CoreInv'
  <1>1. /\ Calls /\ phase \in Phases /\ BatchTypes
        /\ io.pc \in {"yield", "disconnects", "pushDisconnected", "reads"}
        /\ io' = DrainReturn(FALSE)
    BY DEF Yield, At, CoreInv, Typed
  <1>2. /\ UNCHANGED <<maps, codec, fed, peerReadClosed, wire, deferredVars,
                       connections, backlog, reading, inbox, sequence, phase, batch>>
        /\ BatchTypes'
    BY <1>1, OnlyStable DEF Yield, phaseVars, BatchTypes
  <1>3. io.pc \in DrainingInput \ {"readsDisconnect"}
    BY <1>1 DEF DrainingInput
  <1>4. /\ DrainReturn(FALSE) \in IoType /\ CallsOK(DrainReturn(FALSE))
        /\ DrainReturn(FALSE).pc \in {"events", "advanceStop"} /\ ~DrainReturn(FALSE).drain
    BY <1>1, <1>3, DrainReturnIs
  <1>5. Calls' /\ io'.pc \in Plain /\ ~io'.drain
    BY <1>1, <1>4 DEF Calls, Plain, Advancing
  <1> QED
    BY <1>1, <1>2, <1>5, PlainStep DEF Left

LEMMA DrainSizeCore ==
  ASSUME CoreInv, DrainSize, UNCHANGED config
  PROVE  CoreInv'
  <1>1. /\ Calls /\ phase \in Phases /\ BatchTypes
        /\ io.pc \in {"disconnectsSize", "readsSize"} /\ ~io.drain
    BY NotDraining DEF DrainSize, At, CoreInv, Typed, Reading
  <1>2. /\ UNCHANGED <<maps, codec, fed, peerReadClosed, wire, deferredVars,
                       connections, backlog, reading, inbox, sequence, phase, batch>>
        /\ BatchTypes'
    BY <1>1, OnlyIo DEF DrainSize, BatchTypes
  <1>3. io.pc \in DrainingInput \ {"readsDisconnect"}
    BY <1>1 DEF DrainingInput
  <1>4. /\ DrainReturn(FALSE) \in IoType /\ CallsOK(DrainReturn(FALSE))
        /\ DrainReturn(FALSE).pc \in {"events", "advanceStop"} /\ ~DrainReturn(FALSE).drain
    BY <1>1, <1>3, DrainReturnIs
  <1>5. Calls' /\ io'.pc \in {"events", "advanceStop", "reads", "disconnects"} /\ ~io'.drain
    <2>1. CASE io' = DrainReturn(FALSE)
      BY <1>4, <2>1 DEF Calls
    <2>2. ASSUME NEW l \in {"reads", "disconnects"}, io' = [io EXCEPT !.pc = l]
          PROVE  Calls' /\ io'.pc = l /\ ~io'.drain
      <3>1. l \in Labels /\ SameCall(io.pc, l)
        BY <1>3 DEF Labels, DrainingInput, SameCall
      <3> QED
        BY <1>1, <2>2, <3>1, GoesTo
    <2> QED
      BY <2>1, <2>2 DEF DrainSize
  <1> QED
    BY <1>1, <1>2, <1>5, PlainStep DEF Left, Plain, Advancing

LEMMA DrainDisconnectsCore ==
  ASSUME CoreInv, DrainDisconnects, UNCHANGED config
  PROVE  CoreInv'
  <1>1. /\ Typed /\ Calls /\ PausedWhile /\ PutOff /\ phase \in Phases /\ BatchTypes
        /\ MapTypes /\ DeferredTypes /\ io.pc = "disconnects" /\ ~io.drain
    BY NotDraining DEF CoreInv, Typed, DrainDisconnects, At, Reading
  <1>2. /\ UNCHANGED <<maps, fed, peerReadClosed, wire, deferredVars, phase, batch,
                       connections, backlog>>
        /\ BatchTypes'
    BY <1>1 DEF DrainDisconnects, phaseVars, network, BatchTypes
  <1>3. CASE Goto("reads") /\ UNCHANGED <<codec, reading, eventVars>>
    <2>1. "reads" \in Labels /\ SameCall("disconnects", "reads")
      BY DEF Labels, DrainingInput, SameCall
    <2>2. Calls' /\ io'.pc = "reads" /\ ~io'.drain
      BY <1>1, <1>3, <2>1, GoesTo DEF Goto
    <2>3. inbox' = inbox /\ sequence' = sequence
      BY <1>3 DEF eventVars
    <2> QED
      BY <1>1, <1>2, <1>3, <2>2, <2>3, PlainStep DEF Left, Plain
  <1>4. CASE /\ deferredDisconnects # <<>>
             /\ EnqueueDecoded(Head(deferredDisconnects), TRUE,
                               "pushDisconnected", "yield", "pushDisconnected")
    <2> DEFINE id == Head(deferredDisconnects)
    <2>1. id \in Ids
      BY <1>1, <1>4 DEF DeferredTypes
    <2>2. Enqueues(id, TRUE, "pushDisconnected", "yield", "pushDisconnected")
      BY <1>4, <2>1, EnqueueIs
    <2>3. /\ Typed' /\ MapsAgree' /\ Connected' /\ Within' /\ ReadQueue'
          /\ \A i \in Ids : HasPacket(i)' => HasPacket(i)
      BY <1>2, <2>1, <2>2, EnqueueKeeps
    <2>4. Calls' /\ io'.drain = io.drain /\ io'.pc \in {"pushDisconnected", "yield", "disconnects"}
      <3>1. /\ "pushDisconnected" \in Labels /\ "yield" \in Labels
            /\ SameCall(io.pc, "pushDisconnected") /\ SameCall(io.pc, "yield")
            /\ SameCall(io.pc, io.pc)
        BY <1>1 DEF Labels, DrainingInput, SameCall
      <3> HIDE DEF id
      <3>2. Enqueued(id, TRUE, "pushDisconnected", "yield", "pushDisconnected")
        BY <1>1, <2>2, <3>1, EnqueueCalls
      <3> QED
        BY <1>1, <3>2 DEF Enqueued
    <2>5. /\ sessionAt' = sessionAt /\ OpenFds' = OpenFds /\ deferredReads' = deferredReads
          /\ deferredReadSet' = deferredReadSet /\ deferredDisconnects' = deferredDisconnects
          /\ phase' = phase
      BY <1>2 DEF maps, deferredVars, OpenFds
    <2>6. Positions'
      BY <1>4, <2>4, <2>5 DEF Positions
    <2>7. PausedWhile'
      <3>1. (paused => paused') /\ (paused = ctlPaused => paused' = ctlPaused')
        BY <2>2 DEF Enqueues
      <3> QED
        BY <1>1, <2>4, <2>5, <3>1 DEF PausedWhile, Left
    <2>8. PutOff'
      <3>1. ASSUME NEW f \in OpenFds, HasPacket(sessionAt[f])' PROVE f \in deferredReadSet
        <4>1. HasPacket(sessionAt[f])
          BY <1>1, <2>3, <2>5, <3>1 DEF HasPacket, MapTypes, OpenFds
        <4> QED
          BY <1>1, <4>1 DEF PutOff
      <3> QED
        BY <2>4, <2>5, <3>1 DEF PutOff
    <2> QED
      BY <2>3, <2>4, <2>6, <2>7, <2>8 DEF CoreInv
  <1> QED
    BY <1>3, <1>4 DEF DrainDisconnects

\* The first deferred read leaves the queue.
LEMMA PopRead ==
  ASSUME CoreInv, deferredReads # <<>>, deferredReads' = Tail(deferredReads),
         deferredReadSet' = deferredReadSet \ {Head(deferredReads)},
         UNCHANGED <<config, maps, codec, fed, peerReadClosed, wire, deferredDisconnects,
                     reading, phase, batch, inbox, sequence, connections, backlog>>,
         Calls', Positions', io'.pc \in Plain \cup {"readsDisconnect"},
         io'.pc = "readsDisconnect" => io'.fd = Head(deferredReads)
                                       /\ Head(deferredReads) \in deferredReadSet,
         Head(deferredReads) \in deferredReadSet => ~HasPacket(sessionAt[Head(deferredReads)]),
         io.pc \notin Left, io.pc \notin {"decode", "readDefer"}
  PROVE  CoreInv'
  <1>1. /\ Typed /\ MapsAgree /\ Connected /\ Within /\ ReadQueue /\ PausedWhile /\ PutOff
        /\ MapTypes /\ InputTypes /\ ReadingTypes /\ EventTypes /\ DeferredTypes
    BY DEF CoreInv, Typed
  <1>2. /\ sessionAt' = sessionAt /\ fdBySession' = fdBySession /\ fdByToken' = fdByToken
        /\ nextId' = nextId /\ config' = config /\ OpenFds' = OpenFds
        /\ interest' = interest /\ listener' = listener /\ paused' = paused
        /\ ctlPaused' = ctlPaused
    BY DEF maps, reading, OpenFds
  <1>3. DeferredTypes'
    BY <1>1 DEF DeferredTypes
  <1>4. Typed'
    BY <1>1, <1>2, <1>3 DEF Typed, MapTypes, InputTypes, ReadingTypes, EventTypes, BatchTypes,
       Capacity
  <1>5. MapsAgree' /\ Within' /\ Connected'
    BY <1>1, <1>2 DEF MapsAgree, Within, MaxSessions, Connected
  <1>6. io'.pc \notin {"decode", "readDefer", "readError", "readsPop", "readsError"}
    BY DEF Plain, Outing, Advancing, Left
  <1>7. PausedWhile'
    BY <1>1, <1>2, <1>6 DEF PausedWhile
  <1>8. PutOff'
    <2>1. ASSUME NEW f \in OpenFds, HasPacket(sessionAt[f])' PROVE f \in deferredReadSet'
      <3>1. HasPacket(sessionAt[f])
        BY <1>2, <2>1 DEF HasPacket
      <3>2. f \in deferredReadSet
        BY <1>1, <3>1 DEF PutOff
      <3> QED
        BY <3>1, <3>2
    <2>2. io'.pc = "readsDisconnect" => ~HasPacket(sessionAt[io.fd])'
      BY <1>2 DEF HasPacket
    <2> QED
      BY <1>2, <1>6, <2>1, <2>2 DEF PutOff
  <1>9. ReadQueue'
    <2> DEFINE head == Head(deferredReads)
    <2>1. /\ deferredReads \in Seq(Fds) /\ Len(deferredReads) \in Nat /\ Len(deferredReads) > 0
          /\ DOMAIN deferredReads = 1..Len(deferredReads) /\ head = deferredReads[1]
      BY <1>1 DEF DeferredTypes
    <2>2. /\ DOMAIN deferredReads' = 1..(Len(deferredReads) - 1)
          /\ \A i \in 1..(Len(deferredReads) - 1) : deferredReads'[i] = deferredReads[i + 1]
      BY <2>1
    <2>3. \A i \in DOMAIN deferredReads' : i + 1 \in DOMAIN deferredReads /\ i + 1 # 1
      BY <2>1, <2>2
    <2>4. deferredReadSet' \subseteq OpenFds'
      BY <1>1, <1>2 DEF ReadQueue
    <2>5. ASSUME NEW f \in deferredReadSet'
          PROVE  \E i \in DOMAIN deferredReads' : deferredReads'[i] = f
      <3>1. f \in deferredReadSet /\ f # head
        BY <2>5
      <3>2. PICK i \in DOMAIN deferredReads : deferredReads[i] = f
        BY <1>1, <3>1 DEF ReadQueue
      <3>3. i # 1 /\ i \in 1..Len(deferredReads)
        BY <2>1, <3>1, <3>2
      <3>4. i - 1 \in 1..(Len(deferredReads) - 1) /\ (i - 1) + 1 = i
        BY <2>1, <3>3
      <3> QED
        BY <2>2, <3>2, <3>4
    <2>6. ASSUME NEW i \in DOMAIN deferredReads', NEW j \in DOMAIN deferredReads',
                 deferredReads'[i] = deferredReads'[j], deferredReads'[i] \in deferredReadSet'
          PROVE  i = j
      <3>1. i + 1 = j + 1
        BY <1>1, <2>2, <2>3, <2>6 DEF ReadQueue
      <3> QED
        BY <2>1, <2>2, <3>1
    <2>7. ASSUME NEW i \in DOMAIN deferredReads', deferredReads'[i] \notin deferredReadSet'
          PROVE  sessionAt'[deferredReads'[i]] = 0
      <3>1. deferredReads'[i] = deferredReads[i + 1] /\ i + 1 \in DOMAIN deferredReads /\ i + 1 # 1
            /\ 1 \in DOMAIN deferredReads
        BY <2>1, <2>2, <2>3
      <3>2. deferredReads[i + 1] \notin deferredReadSet
        BY <1>1, <2>1, <2>7, <3>1 DEF ReadQueue
      <3> QED
        BY <1>1, <1>2, <3>1, <3>2 DEF ReadQueue
    <2> HIDE DEF head
    <2> QED
      BY <2>4, <2>5, <2>6, <2>7 DEF ReadQueue
  <1> QED
    BY <1>4, <1>5, <1>7, <1>8, <1>9 DEF CoreInv

LEMMA DrainReadsCore ==
  ASSUME CoreInv, DrainReads, UNCHANGED config
  PROVE  CoreInv'
  <1>1. /\ Typed /\ Calls /\ PausedWhile /\ PutOff /\ ReadQueue /\ phase \in Phases /\ BatchTypes
        /\ MapTypes /\ DeferredTypes /\ io.pc = "reads" /\ ~io.drain
    BY NotDraining DEF CoreInv, Typed, DrainReads, At, Reading
  <1>2. /\ UNCHANGED <<maps, fed, peerReadClosed, wire, phase, batch, connections, backlog>>
        /\ BatchTypes'
    BY <1>1 DEF DrainReads, phaseVars, network, BatchTypes
  <1> DEFINE fd == Head(deferredReads)
  <1>3. CASE /\ deferredReads = <<>> /\ Goto("resume?")
             /\ UNCHANGED <<codec, reading, deferredVars, eventVars>>
    <2>1. "resume?" \in Labels /\ SameCall("reads", "resume?")
      BY DEF Labels, DrainingInput, SameCall
    <2>2. Calls' /\ io'.pc = "resume?" /\ ~io'.drain
      BY <1>1, <1>3, <2>1, GoesTo DEF Goto
    <2>3. inbox' = inbox /\ sequence' = sequence /\ deferredReads' = deferredReads
          /\ paused' = paused /\ ctlPaused' = ctlPaused
      BY <1>3 DEF eventVars, deferredVars, reading
    <2>4. Positions'
      BY <1>3, <2>2, <2>3 DEF Positions
    <2>5. InputTypes' /\ ReadingTypes' /\ EventTypes'
      BY <1>2, <1>3, <2>3 DEF CoreInv, Typed, InputTypes, ReadingTypes, EventTypes, Capacity, reading
    <2> QED
      BY <1>1, <1>2, <1>3, <2>2, <2>3, <2>4, <2>5, MoveKeeps DEF Left
  <1>4. CASE /\ deferredReads # <<>> /\ (fd \notin deferredReadSet \/ sessionAt[fd] = 0)
             /\ deferredReads' = Tail(deferredReads)
             /\ UNCHANGED <<io, codec, reading, deferredReadSet, deferredDisconnects, eventVars>>
    <2>1. fd \notin deferredReadSet
      BY <1>1, <1>4 DEF ReadQueue, OpenFds
    <2>2. deferredReadSet' = deferredReadSet \ {fd}
      BY <1>4, <2>1
    <2>3. inbox' = inbox /\ sequence' = sequence
      BY <1>4 DEF eventVars
    <2>4. Calls' /\ io'.pc = "reads" /\ io'.pc \in Plain
      BY <1>1, <1>4 DEF Calls, Plain
    <2>5. Positions'
      BY <2>4, PlainPositions
    <2> QED
      BY <1>1, <1>2, <1>4, <2>1, <2>2, <2>3, <2>4, <2>5, PopRead DEF Left
  <1>5. CASE /\ deferredReads # <<>> /\ ~(fd \notin deferredReadSet \/ sessionAt[fd] = 0)
             /\ Goto("readsDecode")
             /\ UNCHANGED <<codec, reading, deferredVars, eventVars>>
    <2>1. "readsDecode" \in Labels /\ SameCall("reads", "readsDecode")
      BY DEF Labels, DrainingInput, SameCall
    <2>2. Calls' /\ io'.pc = "readsDecode" /\ ~io'.drain
      BY <1>1, <1>5, <2>1, GoesTo DEF Goto
    <2>3. /\ inbox' = inbox /\ sequence' = sequence /\ deferredReads' = deferredReads
          /\ deferredReadSet' = deferredReadSet /\ paused' = paused /\ ctlPaused' = ctlPaused
      BY <1>5 DEF eventVars, deferredVars, reading
    <2>4. Positions'
      BY <1>5, <2>2, <2>3 DEF Positions
    <2>5. InputTypes' /\ ReadingTypes' /\ EventTypes'
      BY <1>2, <1>5, <2>3 DEF CoreInv, Typed, InputTypes, ReadingTypes, EventTypes, Capacity, reading
    <2> QED
      BY <1>1, <1>2, <1>5, <2>2, <2>3, <2>4, <2>5, MoveKeeps DEF Left
  <1> QED
    BY <1>3, <1>4, <1>5 DEF DrainReads

LEMMA DrainReadsDecodeCore ==
  ASSUME CoreInv, DrainReadsDecode, UNCHANGED config
  PROVE  CoreInv'
  <1>1. /\ Typed /\ Calls /\ PausedWhile /\ PutOff /\ ReadQueue /\ phase \in Phases /\ BatchTypes
        /\ MapTypes /\ DeferredTypes /\ Positions /\ io.pc = "readsDecode" /\ ~io.drain
    BY NotDraining DEF CoreInv, Typed, DrainReadsDecode, At, Reading
  <1>2. /\ UNCHANGED <<maps, fed, peerReadClosed, wire, phase, batch, connections, backlog>>
        /\ BatchTypes'
    BY <1>1 DEF DrainReadsDecode, phaseVars, network, BatchTypes
  <1> DEFINE fd == Head(deferredReads)
             id == sessionAt[fd]
  <1>3. /\ deferredReads # <<>> /\ fd \in deferredReadSet /\ fd \in OpenFds
        /\ EnqueueDecoded(sessionAt[fd], TRUE, "readsPop", "yield", "readsError")
        /\ UNCHANGED deferredVars
    BY <1>1 DEF DrainReadsDecode, Positions, ReadQueue
  <1>4. fd \in deferredReadSet /\ fd \in Fds /\ id \in Ids
    BY <1>1, <1>3 DEF MapTypes, OpenFds
  <1>5. Enqueues(id, TRUE, "readsPop", "yield", "readsError")
    BY <1>3, <1>4, EnqueueIs
  <1>6. /\ Typed' /\ MapsAgree' /\ Connected' /\ Within' /\ ReadQueue'
        /\ \A i \in Ids : HasPacket(i)' => HasPacket(i)
    BY <1>2, <1>3, <1>4, <1>5, EnqueueKeeps
  <1>7. /\ Calls' /\ io'.drain = io.drain
        /\ \/ io'.pc \in {"readsPop", "readsError"} /\ ~HasPacket(id) /\ codec' = codec
           \/ io'.pc \in {"yield", "readsDecode"}
    <2>1. /\ "readsPop" \in Labels /\ "yield" \in Labels /\ "readsError" \in Labels
          /\ SameCall(io.pc, "readsPop") /\ SameCall(io.pc, "yield")
          /\ SameCall(io.pc, "readsError") /\ SameCall(io.pc, io.pc)
      BY <1>1 DEF Labels, DrainingInput, SameCall
    <2> HIDE DEF id
    <2>2. Enqueued(id, TRUE, "readsPop", "yield", "readsError")
      BY <1>1, <1>5, <2>1, EnqueueCalls
    <2> QED
      BY <1>1, <2>2 DEF Enqueued, HasPacket
  <1>8. /\ sessionAt' = sessionAt /\ OpenFds' = OpenFds /\ deferredReads' = deferredReads
        /\ deferredReadSet' = deferredReadSet /\ deferredDisconnects' = deferredDisconnects
        /\ phase' = phase
    BY <1>2, <1>3 DEF maps, deferredVars, OpenFds
  <1>9. Positions'
    BY <1>3, <1>4, <1>7, <1>8 DEF Positions
  <1>10. PausedWhile'
    <2>1. (paused => paused') /\ (paused = ctlPaused => paused' = ctlPaused')
      BY <1>5 DEF Enqueues
    <2> QED
      BY SMTT(40), <1>1, <1>7, <1>8, <2>1 DEF PausedWhile, Left
  <1>11. PutOff'
    <2>1. ASSUME NEW f \in OpenFds, HasPacket(sessionAt[f])' PROVE f \in deferredReadSet
      <3>1. HasPacket(sessionAt[f])
        BY <1>1, <1>6, <1>8, <2>1 DEF HasPacket, MapTypes, OpenFds
      <3> QED
        BY <1>1, <3>1 DEF PutOff
    <2>2. io'.pc \in {"readsPop", "readsError"} => ~HasPacket(sessionAt[Head(deferredReads)])'
      BY <1>7, <1>8 DEF HasPacket
    <2> QED
      BY <1>7, <1>8, <2>1, <2>2 DEF PutOff
  <1> QED
    BY <1>6, <1>7, <1>9, <1>10, <1>11 DEF CoreInv

LEMMA DrainReadsPopCore ==
  ASSUME CoreInv, DrainReadsPop, UNCHANGED config
  PROVE  CoreInv'
  <1>1. /\ Calls /\ Positions /\ PutOff /\ DeferredTypes /\ io.pc = "readsPop"
        /\ io \in IoType /\ CallsOK(io)
    BY DEF CoreInv, Typed, DrainReadsPop, At, Calls
  <1> DEFINE fd == Head(deferredReads)
  <1>2. /\ UNCHANGED <<maps, codec, fed, peerReadClosed, wire, deferredDisconnects, reading,
                       phase, batch, inbox, sequence, connections, backlog>>
        /\ deferredReads' = Tail(deferredReads) /\ deferredReadSet' = deferredReadSet \ {fd}
    BY DEF DrainReadsPop, exceptDisconnect, input, phaseVars, network, eventVars
  <1>3. /\ deferredReads # <<>> /\ fd \in deferredReadSet /\ ~HasPacket(sessionAt[fd])
        /\ fd \in Fds
    BY <1>1 DEF Positions, PutOff, DeferredTypes
  <1>4. Calls' /\ io'.pc \in {"read", "reads"}
    <2>1. CASE io' = EnterRead(fd, TRUE, "reads")
      BY <1>1, <1>3, <2>1, EnterReadIs DEF Calls, DrainingInput
    <2>2. CASE io' = [io EXCEPT !.pc = "reads"]
      <3>1. "reads" \in Labels /\ SameCall("readsPop", "reads")
        BY DEF Labels, DrainingInput, SameCall
      <3> QED
        BY <1>1, <2>2, <3>1, GoesTo
    <2> QED
      BY <2>1, <2>2 DEF DrainReadsPop
  <1>5. io'.pc \in Plain /\ io'.pc # "readsDisconnect"
    BY <1>4 DEF Plain
  <1>6. Positions'
    BY <1>5, PlainPositions
  <1> QED
    BY <1>1, <1>2, <1>3, <1>4, <1>5, <1>6, PopRead DEF Left

LEMMA DrainReadsErrorCore ==
  ASSUME CoreInv, DrainReadsError, UNCHANGED config
  PROVE  CoreInv'
  <1>1. /\ Calls /\ Positions /\ PutOff /\ ReadQueue /\ DeferredTypes /\ BatchTypes /\ InputTypes
        /\ io \in IoType /\ CallsOK(io)
    BY DEF CoreInv, Typed, Calls
  <1>2. /\ UNCHANGED <<codec, fed, peerReadClosed, wire, phase, batch, connections, backlog>>
        /\ BatchTypes' /\ peerReadClosed' \in [Ids -> BOOLEAN]
    BY <1>1 DEF DrainReadsError, exceptDisconnect, input, phaseVars, network, BatchTypes, InputTypes
  <1>3. CASE /\ At("readsError")
             /\ deferredReads' = Tail(deferredReads)
             /\ deferredReadSet' = deferredReadSet \ {Head(deferredReads)}
             /\ io' = [io EXCEPT !.pc = "readsDisconnect", !.fd = Head(deferredReads)]
             /\ UNCHANGED <<maps, reading, deferredDisconnects, eventVars>>
    <2> DEFINE fd == Head(deferredReads)
    <2>1. /\ deferredReads # <<>> /\ fd \in deferredReadSet /\ ~HasPacket(sessionAt[fd])
          /\ fd \in Fds /\ io.pc = "readsError" /\ fd \in OpenFds
      BY <1>1, <1>3 DEF Positions, PutOff, DeferredTypes, At, ReadQueue
    <2>2. inbox' = inbox /\ sequence' = sequence
      BY <1>3 DEF eventVars
    <2>3. "readsDisconnect" \in Labels
      BY DEF Labels, DrainingInput
    <2>4. /\ io' \in IoType /\ io'.pc = "readsDisconnect" /\ io'.fd = fd
          /\ io'.drain = io.drain /\ io'.drainRet = io.drainRet /\ io'.flushFd = io.flushFd
          /\ io'.advanceRet = io.advanceRet
      BY <1>1, <1>3, <2>1, <2>3 DEF IoType
    <2>5. Calls'
      <3> HIDE DEF fd
      <3> QED
        BY <1>1, <2>1, <2>4 DEF Calls, CallsOK, InDrain, InAdvance, Reading, DrainingInput,
           Outing, Advancing
    <2>6. Positions'
      <3>1. OpenFds' = OpenFds
        BY <1>3 DEF OpenFds, maps
      <3> QED
        BY <2>1, <2>4, <3>1 DEF Positions
    <2> QED
      BY <1>2, <1>3, <2>1, <2>2, <2>4, <2>5, <2>6, PopRead DEF Left
  <1>4. CASE /\ At("readsDisconnect")
             /\ Disconnect(io.fd, [io EXCEPT !.pc = "readsSize", !.fd = NoFd])
    <2> DEFINE next == [io EXCEPT !.pc = "readsSize", !.fd = NoFd]
    <2>1. io.pc = "readsDisconnect" /\ io.fd \in OpenFds
      BY <1>1, <1>4 DEF At, Positions
    <2>2. "readsSize" \in Labels
      BY DEF Labels, DrainingInput
    <2>3. /\ next \in IoType /\ next.pc = "readsSize"
          /\ next.drain = io.drain /\ next.drainRet = io.drainRet /\ next.flushFd = io.flushFd
          /\ next.advanceRet = io.advanceRet
      BY <1>1, <2>2 DEF IoType
    <2> HIDE DEF next
    <2>4. CallsOK(next)
      BY <1>1, <2>1, <2>3 DEF CallsOK, InDrain, InAdvance, Reading, DrainingInput, Outing, Advancing
    <2>5. LosesSession(io.fd, next)
      BY <1>4, <2>1, DisconnectIs DEF next
    <2>6. GoesOn(next, io.fd)
      BY <2>3, <2>4 DEF GoesOn
    <2> QED
      BY <1>2, <2>1, <2>5, <2>6, DisconnectKeeps DEF Left
  <1> QED
    BY <1>3, <1>4 DEF DrainReadsError

LEMMA PushDisconnectedCore ==
  ASSUME CoreInv, PushDisconnected, UNCHANGED config
  PROVE  CoreInv'
  <1>1. /\ Typed /\ Calls /\ Positions /\ MapsAgree /\ Connected /\ Within
        /\ ReadQueue /\ PausedWhile /\ PutOff /\ phase \in Phases /\ config \in Configs
        /\ MapTypes /\ InputTypes /\ ReadingTypes /\ EventTypes /\ DeferredTypes /\ BatchTypes
        /\ io.pc = "pushDisconnected" /\ io \in IoType /\ CallsOK(io) /\ ~io.drain
    BY NotDraining DEF CoreInv, Typed, PushDisconnected, At, Calls, Reading
  <1>2. /\ UNCHANGED <<maps, codec, fed, peerReadClosed, wire, phase, batch, connections, backlog>>
        /\ BatchTypes' /\ InputTypes'
    BY <1>1 DEF PushDisconnected, exceptDisconnect, input, phaseVars, network, BatchTypes, InputTypes
  <1>3. /\ deferredDisconnects # <<>> /\ deferredDisconnects \in Seq(Ids)
        /\ (phase = "Running" => paused /\ ctlPaused)
    BY <1>1 DEF Positions, PausedWhile, DeferredTypes, Left
  <1>4. CASE /\ ObserveFull({}) /\ io' = DrainReturn(FALSE)
             /\ UNCHANGED <<deferredVars, eventVars>>
    <2>1. ReadingTypes' /\ paused' = TRUE /\ ctlPaused' = TRUE
      BY <1>1, <1>4, ObserveFullIs
    <2>2. EventTypes'
      BY <1>1, <1>4 DEF EventTypes, eventVars, Capacity
    <2>3. io.pc \in DrainingInput \ {"readsDisconnect"}
      BY <1>1 DEF DrainingInput
    <2>4. /\ DrainReturn(FALSE) \in IoType /\ CallsOK(DrainReturn(FALSE))
          /\ DrainReturn(FALSE).pc \in {"events", "advanceStop"} /\ ~DrainReturn(FALSE).drain
      BY <1>1, <2>3, DrainReturnIs
    <2>5. Calls' /\ io'.pc \in Plain /\ ~io'.drain /\ io'.pc \notin Left
      BY <1>4, <2>4 DEF Calls, Plain, Advancing, Left
    <2>6. /\ Positions'
          /\ io'.pc \notin {"readDefer", "readError", "readsDisconnect", "readsPop", "readsError"}
      BY <2>5, PlainPositions
    <2>7. phase' = "Running" => phase = "Running" /\ paused' = paused /\ ctlPaused' = ctlPaused
      BY <1>1, <1>2, <1>3, <2>1 DEF ReadingTypes
    <2> QED
      BY <1>1, <1>2, <1>4, <2>1, <2>2, <2>5, <2>6, <2>7, MoveKeeps DEF Left
  <1>5. CASE /\ PushEvent("Disconnected", Head(deferredDisconnects), {})
             /\ deferredDisconnects' = Tail(deferredDisconnects)
             /\ io.work > 0
             /\ io' = [io EXCEPT !.work = @ - 1, !.pc = "disconnectsSize"]
             /\ UNCHANGED <<deferredReads, deferredReadSet>>
    <2>1. Head(deferredDisconnects) \in Ids /\ Tail(deferredDisconnects) \in Seq(Ids)
          /\ Len(Tail(deferredDisconnects)) <= Len(deferredDisconnects)
          /\ Len(Tail(deferredDisconnects)) \in Nat /\ Len(deferredDisconnects) \in Nat
      BY <1>3
    <2>2. ReadingTypes' /\ EventTypes' /\ (paused => paused')
          /\ (paused = ctlPaused => paused' = ctlPaused')
      BY <1>1, <1>5, <2>1, PushEventIs
    <2>3. /\ sessionAt' = sessionAt /\ fdBySession' = fdBySession /\ fdByToken' = fdByToken
          /\ nextId' = nextId /\ config' = config /\ OpenFds' = OpenFds
      BY <1>2 DEF maps, OpenFds
    <2>4. io' \in IoType /\ io'.pc = "disconnectsSize" /\ Calls' /\ ~io'.drain
      <3>1. "disconnectsSize" \in Labels /\ io.work \in Nat
        BY <1>1 DEF Labels, DrainingInput, IoType
      <3>2. io.work - 1 \in Nat
        BY <1>5, <3>1
      <3>3. /\ io' \in IoType /\ io'.pc = "disconnectsSize"
            /\ io'.drain = io.drain /\ io'.drainRet = io.drainRet /\ io'.flushFd = io.flushFd
            /\ io'.advanceRet = io.advanceRet
        BY <1>1, <1>5, <3>1, <3>2 DEF IoType
      <3> QED
        BY <1>1, <3>3 DEF Calls, CallsOK, InDrain, InAdvance, Reading, DrainingInput,
           Outing, Advancing
    <2>5. Typed'
      BY <1>1, <1>2, <1>5, <2>1, <2>2, <2>3 DEF Typed, MapTypes, DeferredTypes
    <2>6. MapsAgree' /\ Connected' /\ ReadQueue'
      BY <1>1, <1>2, <1>5, <2>3 DEF MapsAgree, Connected, ReadQueue
    <2>7. Within'
      <3>1. Cardinality(OpenFds) \in Nat /\ MaxSessions \in Nat /\ MaxSessions' = MaxSessions
        BY <1>1, ConfigIs, OpenFinite DEF MaxSessions
      <3> QED
        BY <1>1, <1>5, <2>1, <2>3, <3>1 DEF Within
    <2>8. Positions' /\ io'.pc \notin Left
      BY <2>4 DEF Positions, Left
    <2>9. PausedWhile'
      BY <1>1, <1>2, <1>3, <2>2, <2>4 DEF PausedWhile, Left
    <2>10. PutOff'
      BY <1>1, <1>2, <1>5, <2>3, <2>4 DEF PutOff, HasPacket
    <2> QED
      BY <2>4, <2>5, <2>6, <2>7, <2>8, <2>9, <2>10 DEF CoreInv
  <1> QED
    BY <1>4, <1>5 DEF PushDisconnected

LEMMA ResumeReadsCore ==
  ASSUME CoreInv, ResumeReads, UNCHANGED config
  PROVE  CoreInv'
  <1>1. /\ Typed /\ Calls /\ Positions /\ MapsAgree /\ Connected /\ Within
        /\ ReadQueue /\ PausedWhile /\ PutOff /\ phase \in Phases
        /\ MapTypes /\ InputTypes /\ ReadingTypes /\ EventTypes /\ DeferredTypes /\ BatchTypes
        /\ io.pc = "resume?" /\ io \in IoType /\ CallsOK(io) /\ ~io.drain
    BY NotDraining DEF CoreInv, Typed, ResumeReads, At, Calls, Reading
  <1>2. /\ UNCHANGED <<maps, codec, fed, peerReadClosed, wire, phase, batch, connections, backlog,
                       deferredVars, inbox, sequence>>
        /\ BatchTypes' /\ InputTypes' /\ EventTypes'
    BY <1>1 DEF ResumeReads, exceptDisconnect, input, phaseVars, network, eventVars, BatchTypes,
       InputTypes, EventTypes, Capacity
  <1>3. deferredReads = <<>> /\ (phase = "Running" => paused = ctlPaused)
    BY <1>1 DEF Positions, PausedWhile, Left
  <1> DEFINE resume == deferredDisconnects = <<>> /\ phase = "Running" /\ CapacityAvailable
  <1>4. CASE /\ resume /\ paused /\ ResumeAll
             /\ ctlPaused' = (ctlPaused /\ ~resume)
             /\ io' = [io EXCEPT !.pc = "resume",
                                 !.closed = {fd \in OpenFds : peerReadClosed[sessionAt[fd]]}]
    <2>1. /\ paused' = FALSE /\ ctlPaused' = FALSE /\ ReadingTypes'
      BY <1>4, InterestAllType DEF ResumeAll, ReadingTypes
    <2>2. io' \in IoType /\ io'.pc = "resume" /\ Calls' /\ ~io'.drain
      <3>1. "resume" \in Labels /\ {fd \in OpenFds : peerReadClosed[sessionAt[fd]]} \subseteq Fds
        BY DEF Labels, DrainingInput, OpenFds
      <3>2. /\ io' \in IoType /\ io'.pc = "resume"
            /\ io'.drain = io.drain /\ io'.drainRet = io.drainRet /\ io'.flushFd = io.flushFd
            /\ io'.advanceRet = io.advanceRet
        BY <1>1, <1>4, <3>1 DEF IoType
      <3> QED
        BY <1>1, <3>2 DEF Calls, CallsOK, InDrain, InAdvance, Reading, DrainingInput,
           Outing, Advancing
    <2>3. /\ sessionAt' = sessionAt /\ fdBySession' = fdBySession /\ fdByToken' = fdByToken
          /\ nextId' = nextId /\ config' = config /\ OpenFds' = OpenFds
          /\ deferredReads' = deferredReads /\ deferredReadSet' = deferredReadSet
          /\ deferredDisconnects' = deferredDisconnects
      BY <1>2 DEF maps, OpenFds, deferredVars
    <2>4. Typed'
      BY <1>1, <1>2, <2>1, <2>3 DEF Typed, MapTypes, DeferredTypes
    <2>5. MapsAgree' /\ Connected' /\ ReadQueue' /\ Within'
      BY <1>1, <1>2, <2>3 DEF MapsAgree, Connected, ReadQueue, Within, MaxSessions
    <2>6. Positions' /\ PausedWhile'
      BY <1>3, <1>4, <2>1, <2>2, <2>3 DEF Positions, PausedWhile
    <2>7. PutOff'
      BY <1>1, <1>2, <2>2, <2>3 DEF PutOff, HasPacket
    <2> QED
      BY <2>2, <2>4, <2>5, <2>6, <2>7 DEF CoreInv
  <1>5. CASE /\ ~(resume /\ paused) /\ ctlPaused' = (ctlPaused /\ ~resume)
             /\ io' = DrainReturn(deferredDisconnects = <<>>)
             /\ UNCHANGED <<paused, listener, interest>>
    <2>1. ReadingTypes' /\ paused' = paused /\ (phase = "Running" => ctlPaused' = ctlPaused)
      <3>1. ReadingTypes' /\ paused' = paused
        BY <1>1, <1>5 DEF ReadingTypes
      <3>2. phase = "Running" => ~resume
        BY <1>3, <1>5 DEF CapacityAvailable
      <3> QED
        BY <1>1, <1>5, <3>1, <3>2 DEF ReadingTypes
    <2>2. io.pc \in DrainingInput \ {"readsDisconnect"}
      BY <1>1 DEF DrainingInput
    <2> DEFINE k == DrainReturn(deferredDisconnects = <<>>)
    <2>3. k \in IoType /\ CallsOK(k) /\ k.pc \in {"events", "advanceStop"} /\ ~k.drain
      <3>1. (deferredDisconnects = <<>>) \in BOOLEAN
        OBVIOUS
      <3> QED
        BY <1>1, <2>2, <3>1, DrainReturnIs
    <2> HIDE DEF k
    <2>4. Calls' /\ io'.pc \in Plain /\ ~io'.drain /\ io'.pc \notin Left
      BY <1>5, <2>3 DEF Calls, Plain, Advancing, Left, k
    <2>5. /\ Positions'
          /\ io'.pc \notin {"readDefer", "readError", "readsDisconnect", "readsPop", "readsError"}
      BY <2>4, PlainPositions
    <2> QED
      BY <1>1, <1>2, <2>1, <2>4, <2>5, MoveKeeps DEF Left
  <1> QED
    BY <1>4, <1>5 DEF ResumeReads

LEMMA ResumeClosedCore ==
  ASSUME CoreInv, ResumeClosed, UNCHANGED config
  PROVE  CoreInv'
  <1>1. /\ Calls /\ phase \in Phases /\ BatchTypes /\ io.pc = "resume"
        /\ io \in IoType /\ CallsOK(io)
    BY DEF ResumeClosed, At, CoreInv, Typed, Calls
  <1>2. /\ UNCHANGED <<maps, codec, fed, peerReadClosed, wire, deferredVars,
                       connections, backlog, reading, inbox, sequence, phase, batch>>
        /\ BatchTypes'
    BY <1>1, OnlyIo DEF ResumeClosed, BatchTypes
  <1>3. io.pc \in DrainingInput \ {"readsDisconnect"}
    BY <1>1 DEF DrainingInput
  <1>4. CASE io' = DrainReturn(TRUE)
    <2>1. /\ DrainReturn(TRUE) \in IoType /\ CallsOK(DrainReturn(TRUE))
          /\ DrainReturn(TRUE).pc \in {"events", "advanceStop"} /\ ~DrainReturn(TRUE).drain
      BY <1>1, <1>3, DrainReturnIs
    <2>2. Calls' /\ io'.pc \in Plain /\ ~io'.drain
      BY <1>4, <2>1 DEF Calls, Plain, Advancing
    <2> QED
      BY <1>1, <1>2, <2>2, PlainStep DEF Left
  <1>5. ASSUME NEW fd \in io.closed,
               io' = [EnterRead(fd, FALSE, "resume") EXCEPT !.closed = @ \ {fd}]
        PROVE  CoreInv'
    <2> DEFINE k == EnterRead(fd, FALSE, "resume")
    <2>1. fd \in Fds
      BY <1>1, <1>5 DEF IoType
    <2>2. k \in IoType /\ CallsOK(k) /\ k.pc = "read" /\ k.drain = FALSE
      BY <1>1, <1>3, <2>1, EnterReadIs
    <2> HIDE DEF k
    <2>3. io' = [k EXCEPT !.closed = @ \ {fd}]
      BY <1>5 DEF k
    <2>4. /\ io' \in IoType /\ io'.pc = k.pc /\ io'.drain = k.drain /\ io'.fd = k.fd
          /\ io'.readRet = k.readRet /\ io'.drainRet = k.drainRet /\ io'.outRet = k.outRet
          /\ io'.flushRet = k.flushRet /\ io'.flushFd = k.flushFd
          /\ io'.advanceRet = k.advanceRet /\ io'.ev = k.ev
      BY <2>2, <2>3 DEF IoType
    <2>5. Calls' /\ io'.pc \in Plain /\ ~io'.drain
      BY <2>2, <2>4 DEF Calls, CallsOK, InDrain, InAdvance, Plain
    <2> QED
      BY <1>1, <1>2, <2>5, PlainStep DEF Left
  <1> QED
    BY <1>4, <1>5 DEF ResumeClosed

-----------------------------------------------------------------------------
\* drainOutbound and flushSession.

Write == [to : Ids, left : Nat \ {0}]

\* The types of what goes out.
OutTypes ==
    /\ outbox \in Seq(Messages(Ids)) /\ Len(outbox) <= OutboxCapacity
    /\ closing \in [Ids -> BOOLEAN] /\ writes \in [Ids -> Seq(Write)]

\* The descriptor of the session that a message is for.
LEMMA Addressee ==
  ASSUME MapTypes, MapsAgree, config \in Configs, OutTypes, outbox # <<>>
  PROVE  LET m == Head(outbox)
             fd == fdBySession[m.session]
         IN  /\ m \in Messages(Ids) /\ m.session \in Ids
             /\ fd # NoFd => fd \in Fds /\ fd \in OpenFds /\ sessionAt[fd] = m.session
  <1> DEFINE m == Head(outbox)
             fd == fdBySession[m.session]
  <1>1. m \in Messages(Ids)
    BY DEF OutTypes
  <1>2. m.session \in Ids
    BY <1>1 DEF Messages
  <1>3. fd # NoFd => fd \in Fds /\ sessionAt[fd] = m.session
    BY <1>2 DEF MapTypes, MapsAgree
  <1> QED
    BY <1>1, <1>2, <1>3 DEF OpenFds, Ids

LEMMA DrainOutboundCore ==
  ASSUME CoreInv, OutTypes, DrainOutbound, UNCHANGED config
  PROVE  CoreInv'
  <1>1. /\ Calls /\ MapsAgree /\ config \in Configs /\ phase \in Phases
        /\ MapTypes /\ InputTypes /\ ReadingTypes /\ EventTypes /\ BatchTypes
        /\ io.pc = "out" /\ io \in IoType /\ CallsOK(io) /\ ~io.drain /\ outbox # <<>>
    BY NotDraining DEF CoreInv, Typed, DrainOutbound, At, Calls, Reading
  <1>2. /\ UNCHANGED <<codec, fed, peerReadClosed, wire, phase, batch, connections, backlog>>
        /\ BatchTypes' /\ InputTypes' /\ peerReadClosed' \in [Ids -> BOOLEAN]
    BY <1>1 DEF DrainOutbound, input, phaseVars, network, BatchTypes, InputTypes
  <1> DEFINE m == Head(outbox)
             fd == fdBySession[m.session]
             id == sessionAt[fd]
             next == [io EXCEPT !.popped = @ + 1]
  <1>3. fd # NoFd => fd \in Fds /\ fd \in OpenFds /\ id = m.session
    BY <1>1, Addressee
  <1>4. next \in IoType /\ CallsOK(next) /\ next.pc = "out" /\ ~next.drain
    <2>0. io.popped \in Nat
      BY <1>1 DEF IoType
    <2>1. io.popped + 1 \in Nat
      BY <2>0
    <2>2. /\ next \in IoType /\ next.pc = io.pc /\ next.drain = io.drain /\ next.fd = io.fd
          /\ next.readRet = io.readRet /\ next.drainRet = io.drainRet /\ next.outRet = io.outRet
          /\ next.flushRet = io.flushRet /\ next.flushFd = io.flushFd
          /\ next.advanceRet = io.advanceRet /\ next.ev = io.ev
      BY <1>1, <2>1 DEF IoType
    <2> HIDE DEF next
    <2> QED
      BY <1>1, <2>2 DEF CallsOK, InDrain, InAdvance
  <1> HIDE DEF next
  <1>5. CASE io' = next /\ UNCHANGED <<maps, reading, deferredVars, eventVars>>
    <2>1. inbox' = inbox /\ sequence' = sequence
      BY <1>5 DEF eventVars
    <2>2. Calls' /\ io'.pc \in Plain /\ ~io'.drain
      BY <1>4, <1>5 DEF Calls, Plain, Outing
    <2> QED
      BY <1>1, <1>2, <1>5, <2>1, <2>2, PlainStep DEF Left
  <1>6. CASE fd # NoFd /\ Disconnect(fd, next)
    <2>1. LosesSession(fd, next)
      BY <1>3, <1>6, DisconnectIs
    <2>2. GoesOn(next, fd)
      BY <1>4 DEF GoesOn
    <2> QED
      BY <1>1, <1>2, <1>3, <1>6, <2>1, <2>2, DisconnectKeeps DEF Left
  <1>7. CASE /\ fd # NoFd /\ UpdateInterest(fd, closing', writes') /\ io' = next
             /\ UNCHANGED <<maps, listener, paused, ctlPaused, deferredVars, eventVars>>
    <2>1. ReadingTypes'
      BY <1>1, <1>7, WantedType DEF UpdateInterest, ReadingTypes
    <2>2. Calls' /\ io'.pc \in Plain /\ ~io'.drain /\ io'.pc \notin Left
      BY <1>4, <1>7 DEF Calls, Plain, Outing, Left
    <2>3. EventTypes'
      BY <1>1, <1>7 DEF EventTypes, eventVars, Capacity
    <2>4. /\ Positions'
          /\ io'.pc \notin {"readDefer", "readError", "readsDisconnect", "readsPop", "readsError"}
      BY <2>2, PlainPositions
    <2> QED
      BY <1>1, <1>2, <1>7, <2>1, <2>2, <2>3, <2>4, MoveKeeps DEF Left
  <1> HIDE DEF fd, id, m
  <1>8. \/ io' = next /\ UNCHANGED <<maps, reading, deferredVars, eventVars>>
        \/ fd # NoFd /\ Disconnect(fd, next)
        \/ /\ fd # NoFd /\ UpdateInterest(fd, closing', writes') /\ io' = next
           /\ UNCHANGED <<maps, listener, paused, ctlPaused, deferredVars, eventVars>>
    BY DEF DrainOutbound, fd, id, m, next
  <1> QED
    BY <1>5, <1>6, <1>7, <1>8

LEMMA DrainOutboundEndCore ==
  ASSUME CoreInv, DrainOutboundEnd, UNCHANGED config
  PROVE  CoreInv'
  <1>1. /\ Calls /\ phase \in Phases /\ BatchTypes /\ io.pc \in Outing /\ ~io.drain
    BY NotDraining DEF DrainOutboundEnd, At, CoreInv, Typed, Reading, Outing
  <1>2. /\ UNCHANGED <<maps, codec, fed, peerReadClosed, wire, deferredVars,
                       connections, backlog, reading, inbox, sequence, phase, batch>>
        /\ BatchTypes'
    BY <1>1, OnlyStable DEF DrainOutboundEnd, phaseVars, BatchTypes
  <1>3. CASE At("out") /\ Goto("outSize")
    <2>1. "outSize" \in Labels /\ SameCall(io.pc, "outSize")
      BY <1>1 DEF Labels, Outing, SameCall
    <2>2. Calls' /\ io'.pc = "outSize" /\ ~io'.drain
      BY <1>1, <1>3, <2>1, GoesTo DEF Goto
    <2> QED
      BY <1>1, <1>2, <2>2, PlainStep DEF Left, Plain, Outing
  <1>4. CASE io' = OutReturn
    <2>1. /\ OutReturn \in IoType /\ CallsOK(OutReturn)
          /\ OutReturn.pc = io.outRet /\ ~OutReturn.drain
          /\ io.outRet \in {"events", "expire", "advanceInput", "advanceFinished",
                            "advanceEnd", "flushAll"}
      BY <1>1, OutReturnIs
    <2>2. Calls' /\ io'.pc \in Plain /\ ~io'.drain
      BY <1>4, <2>1 DEF Calls, Plain, Advancing
    <2> QED
      BY <1>1, <1>2, <2>2, PlainStep DEF Left, Outing
  <1> QED
    BY <1>3, <1>4 DEF DrainOutboundEnd, OutReturn

\* The end of flushSession, with the session or without it.
LEMMA FlushEnds ==
  ASSUME CoreInv, io.pc = "flush", UNCHANGED config,
         UNCHANGED <<codec, fed, peerReadClosed, wire, phase, batch, connections, backlog>>,
         \/ Disconnect(io.flushFd, FlushReturn)
         \/ /\ UpdateInterest(io.flushFd, closing, writes) /\ io' = FlushReturn
            /\ UNCHANGED <<maps, listener, paused, ctlPaused, deferredVars, eventVars>>
  PROVE  CoreInv'
  <1>1. /\ Calls /\ Positions /\ config \in Configs /\ phase \in Phases
        /\ InputTypes /\ ReadingTypes /\ EventTypes /\ BatchTypes /\ ~io.drain
    BY NotDraining DEF CoreInv, Typed, Reading
  <1>2. BatchTypes' /\ InputTypes' /\ peerReadClosed' \in [Ids -> BOOLEAN]
    BY <1>1 DEF BatchTypes, InputTypes
  <1>3. /\ FlushReturn \in IoType /\ CallsOK(FlushReturn)
        /\ FlushReturn.pc = io.flushRet /\ ~FlushReturn.drain
        /\ FlushReturn.closed = io.closed /\ io.flushRet \in {"events", "flushNext"}
        /\ FlushReturn.flushFd = NoFd
    BY <1>1, FlushReturnIs
  <1>4. /\ io.flushFd \in OpenFds
        /\ io.flushRet = "flushNext" => io.closed \subseteq OpenFds \ {io.flushFd}
    BY <1>1 DEF Positions
  <1>5. CASE Disconnect(io.flushFd, FlushReturn)
    <2>1. LosesSession(io.flushFd, FlushReturn)
      BY <1>4, <1>5, DisconnectIs
    <2>2. GoesOn(FlushReturn, io.flushFd)
      BY <1>3, <1>4 DEF GoesOn
    <2> QED
      BY <1>2, <1>4, <2>1, <2>2, DisconnectKeeps DEF Left
  <1>6. CASE /\ UpdateInterest(io.flushFd, closing, writes) /\ io' = FlushReturn
             /\ UNCHANGED <<maps, listener, paused, ctlPaused, deferredVars, eventVars>>
    <2>1. ReadingTypes'
      BY <1>1, <1>6, WantedType DEF UpdateInterest, ReadingTypes
    <2>2. EventTypes'
      BY <1>1, <1>6 DEF EventTypes, eventVars, Capacity
    <2>3. Calls' /\ io'.pc \in {"events", "flushNext"} /\ ~io'.drain /\ io'.flushFd = NoFd
          /\ io'.closed = io.closed /\ io'.pc = io.flushRet
      BY <1>3, <1>6 DEF Calls
    <2>4. Positions'
      <3>1. NoFd \notin OpenFds /\ OpenFds' = OpenFds
        BY <1>1, <1>6, ConfigIs DEF OpenFds, NoFd, maps
      <3> QED
        BY <1>4, <2>3, <3>1 DEF Positions
    <2> QED
      BY <1>1, <1>2, <1>6, <2>1, <2>2, <2>3, <2>4, MoveKeeps DEF Left
  <1> QED
    BY <1>5, <1>6

LEMMA FlushSendCore ==
  ASSUME CoreInv, OutTypes, FlushSend, UNCHANGED config
  PROVE  CoreInv'
  <1>1. /\ Calls /\ Positions /\ config \in Configs /\ phase \in Phases /\ MapTypes
        /\ InputTypes /\ ReadingTypes /\ EventTypes /\ BatchTypes /\ ~io.drain
        /\ io.pc = "flush" /\ io \in IoType /\ CallsOK(io)
    BY NotDraining DEF CoreInv, Typed, Reading, FlushSend, At, Calls
  <1>2. UNCHANGED <<codec, fed, peerReadClosed, wire, phase, batch, connections, backlog>>
    BY DEF FlushSend, input, phaseVars, network
  <1> DEFINE id == sessionAt[io.flushFd]
  <1>3. id \in Ids /\ io.flushFd \in OpenFds
    BY <1>1 DEF Positions, OpenFds, MapTypes
  <1>4. ASSUME NEW n \in 1..Head(writes[id]).left, writes[id] # <<>>,
               io' = [io EXCEPT !.sent = @ + n],
               UNCHANGED <<maps, reading, deferredVars, eventVars>>
        PROVE  CoreInv'
    <2>1. n \in Nat
      BY <1>3, <1>4 DEF OutTypes, Write
    <2>0. io.sent \in Nat
      BY <1>1 DEF IoType
    <2>2. io.sent + n \in Nat
      BY <2>0, <2>1
    <2>3. /\ io' \in IoType /\ io'.pc = io.pc /\ io'.drain = io.drain /\ io'.fd = io.fd
          /\ io'.readRet = io.readRet /\ io'.drainRet = io.drainRet /\ io'.outRet = io.outRet
          /\ io'.flushRet = io.flushRet /\ io'.flushFd = io.flushFd
          /\ io'.advanceRet = io.advanceRet /\ io'.ev = io.ev /\ io'.closed = io.closed
      BY <1>1, <1>4, <2>2 DEF IoType
    <2>4. Calls' /\ io'.pc = "flush" /\ ~io'.drain
      BY <1>1, <2>3 DEF Calls, CallsOK, InDrain, InAdvance
    <2>5. BatchTypes' /\ InputTypes' /\ ReadingTypes' /\ EventTypes'
      BY <1>1, <1>2, <1>4 DEF BatchTypes, InputTypes, ReadingTypes, EventTypes, reading, eventVars,
         Capacity
    <2>6. OpenFds' = OpenFds /\ paused' = paused /\ ctlPaused' = ctlPaused
      BY <1>4 DEF OpenFds, maps, reading
    <2>7. Positions'
      BY <1>1, <2>3, <2>4, <2>6 DEF Positions
    <2> QED
      BY <1>1, <1>2, <1>4, <2>4, <2>5, <2>6, <2>7, MoveKeeps DEF Left
  <1>5. CASE \/ Disconnect(io.flushFd, FlushReturn)
             \/ /\ UpdateInterest(io.flushFd, closing, writes) /\ io' = FlushReturn
                /\ UNCHANGED <<maps, listener, paused, ctlPaused, deferredVars, eventVars>>
    BY <1>1, <1>2, <1>5, FlushEnds
  <1> QED
    BY <1>4, <1>5 DEF FlushSend

LEMMA FlushEndCore ==
  ASSUME CoreInv, FlushEnd, UNCHANGED config
  PROVE  CoreInv'
  <1>1. io.pc = "flush"
    BY DEF FlushEnd, At
  <1>2. UNCHANGED <<codec, fed, peerReadClosed, wire, phase, batch, connections, backlog>>
    BY DEF FlushEnd, exceptDisconnect, input, phaseVars, network
  <1>3. \/ Disconnect(io.flushFd, FlushReturn)
        \/ /\ UpdateInterest(io.flushFd, closing, writes) /\ io' = FlushReturn
           /\ UNCHANGED <<maps, listener, paused, ctlPaused, deferredVars, eventVars>>
    BY DEF FlushEnd
  <1> QED
    BY <1>1, <1>2, <1>3, FlushEnds

-----------------------------------------------------------------------------
\* advanceShutdown and the end of run().

LEMMA AdvanceCore ==
  ASSUME CoreInv, Advance \/ AdvanceInput \/ AdvanceStop \/ AdvanceFinished, UNCHANGED config
  PROVE  CoreInv'
  <1>1. /\ Calls /\ config \in Configs /\ phase \in Phases /\ BatchTypes
        /\ io.pc \in Advancing /\ ~io.drain /\ io \in IoType /\ CallsOK(io)
    BY NotDraining DEF Advance, AdvanceInput, AdvanceStop, AdvanceFinished, At, CoreInv, Typed,
       Reading, Advancing, Calls
  <1>2. /\ UNCHANGED <<maps, codec, fed, peerReadClosed, wire, deferredVars,
                       connections, backlog, reading, inbox, sequence, batch>>
        /\ BatchTypes'
    BY <1>1, OnlyStable DEF Advance, AdvanceInput, AdvanceStop, AdvanceFinished, BatchTypes
  <1>3. phase' \in Phases /\ (phase' = "Running" => phase = "Running")
    BY <1>1 DEF Advance, AdvanceInput, AdvanceStop, AdvanceFinished, ForceShutdown, phaseVars, Phases
  <1>4. InAdvance(io)
    BY <1>1 DEF InAdvance
  <1> DEFINE Fine(k) == k \in IoType /\ CallsOK(k) /\ k.pc \in Plain \ Left /\ ~k.drain
  <1>5. ASSUME NEW d \in BOOLEAN
        PROVE  /\ Fine(AdvanceReturn) /\ Fine([AdvanceReturn EXCEPT !.drained = d])
               /\ Fine([AdvanceReturn EXCEPT !.pc = "join"])
    BY <1>1, <1>5, AdvanceReturnIs DEF Plain, Left
  <1>6. ASSUME NEW ret \in {"advanceInput", "advanceFinished", "advanceEnd"}
        PROVE  Fine(EnterOut(ret))
    <2>1. io.pc \notin Reading \cup {"flush"}
      BY <1>1 DEF Advancing, Reading
    <2> QED
      BY <1>1, <1>4, <2>1, EnterOutIs DEF Plain, Outing, Left
  <1>7. Fine(EnterDrain("advanceStop"))
    <2>1. io.pc \notin Reading \cup {"flush"}
      BY <1>1 DEF Advancing, Reading
    <2> QED
      BY <1>1, <1>4, <2>1, EnterDrainIs DEF Plain, Left
  <1>8. Fine([io EXCEPT !.pc = "advanceOutput"])
    <2>1. "advanceOutput" \in Labels /\ SameCall(io.pc, "advanceOutput")
          /\ "advanceOutput" \in Plain \ Left
      BY <1>1 DEF Labels, Advancing, SameCall, Plain, Left
    <2> QED
      BY ZenonT(60), <1>1, <2>1, GotoCalls DEF IoType
  <1>9. Fine(io)
    BY <1>1 DEF Plain, Advancing, Left
  <1>10. Fine(io')
    <2> HIDE DEF Fine
    <2>1. CASE Advance
      BY <1>5, <1>6, <1>9, <2>1 DEF Advance
    <2>2. CASE AdvanceInput
      BY <1>5, <1>6, <1>7, <1>8, <2>2 DEF AdvanceInput
    <2>3. CASE AdvanceStop
      BY <1>8, <2>3 DEF AdvanceStop, Goto
    <2>4. CASE AdvanceFinished
      BY <1>5, <1>6, <2>4 DEF AdvanceFinished
    <2> QED
      BY <2>1, <2>2, <2>3, <2>4
  <1>11. Calls' /\ io'.pc \in Plain /\ ~io'.drain
    BY <1>10 DEF Calls
  <1>12. io.pc \notin {"decode", "readDefer"} /\ io.pc \notin Left
    BY <1>1 DEF Advancing, Left
  <1> QED
    BY <1>2, <1>3, <1>11, <1>12, PlainStep

LEMMA JoinCore ==
  ASSUME CoreInv, Join, UNCHANGED config
  PROVE  CoreInv'
  <1>1. /\ io.pc = "join" /\ Calls /\ phase \in Phases /\ BatchTypes /\ ~io.drain
    BY NotDraining DEF Join, At, CoreInv, Typed, Reading
  <1>2. /\ UNCHANGED <<maps, codec, fed, peerReadClosed, wire, deferredVars,
                       connections, backlog, reading, inbox, sequence, phase, batch>>
        /\ BatchTypes'
    BY <1>1, OnlyIo DEF Join, BatchTypes
  <1>3. Calls' /\ io'.pc \in {"out", "close"} /\ ~io'.drain
    <2>1. CASE io' = EnterOut("flushAll")
      BY <1>1, <2>1, EnterOutIs DEF Calls, Reading, Advancing
    <2>2. CASE io' = [io EXCEPT !.pc = "close"]
      <3>1. "close" \in Labels /\ SameCall("join", "close")
        BY DEF Labels, Looping, SameCall, Left
      <3> QED
        BY <1>1, <2>2, <3>1, GoesTo
    <2> QED
      BY <2>1, <2>2 DEF Join
  <1> QED
    BY <1>1, <1>2, <1>3, PlainStep DEF Left, Plain, Outing

LEMMA FlushAllCore ==
  ASSUME CoreInv, FlushAll, UNCHANGED config
  PROVE  CoreInv'
  <1>1. /\ io.pc \in {"flushAll", "flushNext"} /\ Calls /\ phase \in Phases /\ BatchTypes
        /\ ~io.drain /\ Positions /\ io \in IoType /\ CallsOK(io) /\ config \in Configs
    BY NotDraining DEF FlushAll, At, CoreInv, Typed, Reading, Calls
  <1>2. /\ UNCHANGED <<maps, codec, fed, peerReadClosed, wire, deferredVars,
                       connections, backlog, reading, inbox, sequence, phase, batch>>
        /\ BatchTypes'
    BY <1>1, OnlyIo DEF FlushAll, BatchTypes
  <1>3. InputTypes' /\ ReadingTypes' /\ EventTypes'
    BY <1>2 DEF CoreInv, Typed, InputTypes, ReadingTypes, EventTypes, Capacity, reading
  <1>4. /\ OpenFds' = OpenFds /\ paused' = paused /\ ctlPaused' = ctlPaused
        /\ NoFd \notin OpenFds /\ OpenFds \subseteq Fds
    BY <1>1, <1>2, ConfigIs DEF OpenFds, maps, reading, NoFd
  <1>5. CASE At("flushAll") /\ io' = [io EXCEPT !.pc = "flushNext", !.closed = OpenFds]
    <2>1. "flushNext" \in Labels
      BY DEF Labels, Looping
    <2>2. /\ io' \in IoType /\ io'.pc = "flushNext" /\ io'.closed = OpenFds
          /\ io'.drain = io.drain /\ io'.flushFd = io.flushFd
      BY <1>1, <1>4, <1>5, <2>1 DEF IoType
    <2>3. Calls' /\ io'.flushFd = NoFd
      BY <1>1, <2>2 DEF Calls, CallsOK, InDrain, InAdvance, Reading, DrainingInput,
         Outing, Advancing
    <2>4. Positions'
      BY <1>4, <2>2, <2>3 DEF Positions
    <2> QED
      BY <1>1, <1>2, <1>3, <1>4, <2>2, <2>3, <2>4, MoveKeeps DEF Left
  <1>6. CASE At("flushNext") /\ Goto("close")
    <2>1. "close" \in Labels /\ SameCall(io.pc, "close")
      BY <1>1 DEF Labels, Looping, SameCall, Left
    <2>2. Calls' /\ io'.pc = "close" /\ ~io'.drain
      BY <1>1, <1>6, <2>1, GoesTo DEF Goto
    <2> QED
      BY <1>1, <1>2, <2>2, PlainStep DEF Left, Plain
  <1>7. ASSUME At("flushNext"), NEW fd \in io.closed,
               io' = [EnterFlush(fd, "flushNext") EXCEPT !.closed = @ \ {fd}]
        PROVE  CoreInv'
    <2> DEFINE k == EnterFlush(fd, "flushNext")
    <2>1. fd \in OpenFds /\ fd \in Fds /\ io.closed \subseteq OpenFds
      BY <1>1, <1>4, <1>7 DEF Positions, At
    <2>2. /\ k \in IoType /\ CallsOK(k) /\ k.pc = "flush" /\ k.flushFd = fd
          /\ k.flushRet = "flushNext" /\ ~k.drain /\ k.closed = io.closed
      BY <1>1, <2>1, EnterFlushIs DEF Reading
    <2> HIDE DEF k
    <2>3. io' = [k EXCEPT !.closed = @ \ {fd}]
      BY <1>7 DEF k
    <2>4. /\ io' \in IoType /\ io'.pc = k.pc /\ io'.drain = k.drain /\ io'.fd = k.fd
          /\ io'.readRet = k.readRet /\ io'.drainRet = k.drainRet /\ io'.outRet = k.outRet
          /\ io'.flushRet = k.flushRet /\ io'.flushFd = k.flushFd
          /\ io'.advanceRet = k.advanceRet /\ io'.ev = k.ev /\ io'.closed = k.closed \ {fd}
      BY <2>2, <2>3 DEF IoType
    <2>5. Calls' /\ io'.pc = "flush" /\ ~io'.drain
      BY <2>2, <2>4 DEF Calls, CallsOK, InDrain, InAdvance
    <2>6. Positions'
      BY <1>4, <2>1, <2>2, <2>4, <2>5 DEF Positions
    <2> QED
      BY <1>1, <1>2, <1>3, <1>4, <2>5, <2>6, MoveKeeps DEF Left
  <1> QED
    BY <1>5, <1>6, <1>7 DEF FlushAll

LEMMA FailCore ==
  ASSUME CoreInv, Fail, UNCHANGED config
  PROVE  CoreInv'
  <1>1. /\ io.pc \in {"failed", "failedJoin"} /\ Calls /\ phase \in Phases /\ BatchTypes
        /\ ~io.drain
    BY NotDraining DEF Fail, At, CoreInv, Typed, Reading
  <1>2. /\ UNCHANGED <<maps, codec, fed, peerReadClosed, wire, deferredVars,
                       connections, backlog, reading, inbox, sequence, phase, batch>>
        /\ BatchTypes'
    BY <1>1, OnlyStable DEF Fail, phaseVars, BatchTypes
  <1>3. Calls' /\ io'.pc \in {"failedJoin", "close"} /\ ~io'.drain
    <2>1. ASSUME NEW l \in {"failedJoin", "close"}, Goto(l)
          PROVE  Calls' /\ io'.pc = l /\ ~io'.drain
      <3>1. l \in Labels /\ SameCall(io.pc, l)
        BY <1>1 DEF Labels, SameCall, Left
      <3> QED
        BY <1>1, <2>1, <3>1, GoesTo DEF Goto
    <2> QED
      BY <2>1 DEF Fail
  <1> QED
    BY <1>1, <1>2, <1>3, PlainStep DEF Left, Plain

LEMMA StartIs ==
  ASSUME NEW k, k = Start \/ k = [Start EXCEPT !.pc = "stopped"]
  PROVE  /\ k \in IoType /\ CallsOK(k) /\ ~k.drain /\ k.flushFd = NoFd
         /\ k.pc = IF k = Start THEN "top" ELSE "stopped"
  <1>1. /\ "top" \in Labels /\ "stopped" \in Labels
        /\ [token |-> 0, flags |-> {}] \in EventType
    BY TcpServerAssumption DEF Labels, Looping, Left, EventType
  <1>2. CASE k = Start
    <2>1. k \in IoType /\ k.pc = "top" /\ k.drain = FALSE /\ k.flushFd = NoFd
      BY <1>1, <1>2 DEF IoType, Start
    <2>2. CallsOK(k)
      BY <2>1 DEF CallsOK, InDrain, InAdvance, Reading, DrainingInput, Outing, Advancing
    <2> QED
      BY <1>2, <2>1, <2>2
  <1>3. CASE k = [Start EXCEPT !.pc = "stopped"]
    <2>1. k \in IoType /\ k.pc = "stopped" /\ k.drain = FALSE /\ k.flushFd = NoFd
      BY <1>1, <1>3 DEF IoType, Start
    <2>2. CallsOK(k)
      BY <2>1 DEF CallsOK, InDrain, InAdvance, Reading, DrainingInput, Outing, Advancing
    <2>3. Start.pc = "top"
      BY DEF Start
    <2>4. k # Start
      BY <2>1, <2>3
    <2> QED
      BY <2>1, <2>2, <2>4
  <1> QED
    BY <1>2, <1>3

LEMMA CloseResourcesCore ==
  ASSUME CoreInv, CloseResources, UNCHANGED config
  PROVE  CoreInv'
  <1>1. /\ config \in Configs /\ phase \in Phases /\ Connected
        /\ MapTypes /\ InputTypes /\ ReadingTypes /\ EventTypes /\ BatchTypes
    BY DEF CoreInv, Typed
  <1>2. /\ UNCHANGED <<codec, fed, peerReadClosed, wire, phase, batch, connections, backlog,
                       inbox, sequence, nextId, paused, ctlPaused>>
        /\ sessionAt' = [fd \in Fds |-> 0] /\ fdBySession' = [id \in Ids |-> NoFd]
        /\ fdByToken' = [id \in Ids |-> NoFd] /\ listener' = FALSE
        /\ interest' = [fd \in Fds |-> {}]
        /\ deferredReads' = <<>> /\ deferredReadSet' = {} /\ deferredDisconnects' = <<>>
        /\ io' = [Start EXCEPT !.pc = "stopped"]
    BY DEF CloseResources, exceptDisconnect, input, phaseVars, network, eventVars
  <1>3. OpenFds' = {}
    BY <1>2 DEF OpenFds
  <1>4. Calls' /\ io'.pc = "stopped" /\ ~io'.drain
    <2>1. io'.pc = "stopped" /\ Start.pc = "top"
      BY <1>2 DEF Start
    <2> QED
      BY <1>2, <2>1, StartIs DEF Calls
  <1>5. Typed'
    <2>1. MapTypes' /\ DeferredTypes'
      BY <1>1, <1>2 DEF MapTypes, DeferredTypes
    <2>2. ReadingTypes'
      BY <1>1, <1>2 DEF ReadingTypes, Interests
    <2>3. InputTypes' /\ EventTypes' /\ BatchTypes'
      BY <1>1, <1>2 DEF InputTypes, EventTypes, BatchTypes, Capacity
    <2> QED
      BY <1>1, <1>2, <2>1, <2>2, <2>3 DEF Typed
  <1>6. Positions' /\ PausedWhile' /\ PutOff'
    BY <1>3, <1>4 DEF Positions, PausedWhile, PutOff, Left
  <1>7. MapsAgree' /\ Connected' /\ ReadQueue'
    BY <1>1, <1>2, <1>3 DEF MapsAgree, Connected, ReadQueue
  <1>8. Within'
    BY <1>1, <1>2, <1>3, FS_EmptySet, ConfigIs DEF Within, MaxSessions
  <1> QED
    BY <1>4, <1>5, <1>6, <1>7, <1>8 DEF CoreInv

LEMMA InitCore ==
  ASSUME Init
  PROVE  CoreInv
  <1>1. config \in Configs /\ config.connections \in Nat /\ MaxSessions \in Nat /\ Capacity \in Nat
        /\ MaxConnections \in Nat
    BY ConfigIs DEF Init
  <1>2. OpenFds = {}
    BY DEF OpenFds, Init
  <1>3. Calls /\ io.pc = "top" /\ ~io.drain
    <2>1. io = Start
      BY DEF Init
    <2> QED
      BY <2>1, StartIs DEF Calls
  <1>4. Typed
    <2>1. MapTypes /\ DeferredTypes
      BY <1>1 DEF Init, MapTypes, DeferredTypes
    <2>2. ReadingTypes
      BY DEF Init, ReadingTypes, Interests
    <2>3. InputTypes /\ EventTypes /\ BatchTypes
      BY <1>1 DEF Init, InputTypes, EventTypes, BatchTypes
    <2> QED
      BY <1>1, <2>1, <2>2, <2>3 DEF Typed, Init, Phases
  <1>5. Positions /\ PutOff
    BY <1>2, <1>3 DEF Positions, PutOff
  <1>6. PausedWhile
    BY <1>3 DEF PausedWhile, Init
  <1>7. MapsAgree /\ Connected /\ ReadQueue
    BY <1>1, <1>2 DEF Init, MapsAgree, Connected, ReadQueue
  <1>8. Within
    BY <1>1, <1>2, FS_EmptySet DEF Init, Within
  <1> QED
    BY <1>3, <1>4, <1>5, <1>6, <1>7, <1>8 DEF CoreInv

LEMMA NextCore ==
  ASSUME CoreInv, OutTypes, Next
  PROVE  CoreInv'
  <1>1. UNCHANGED config
    BY DEF Next
  <1>2. CASE Loop
    BY <1>1, <1>2, LoopTopCore, WaitCore, NextEventCore, EndOfEventsCore, HandleWakeupCore,
       HandleSessionCore, FlushEventCore, ExpireIdleCore DEF Loop
  <1>3. CASE Input
    BY <1>1, <1>3, AcceptEndCore, AcceptCore, ReadSessionCore, DecodeCore, ReadStopsCore,
       YieldCore, DrainDisconnectsCore, PushDisconnectedCore, DrainSizeCore, DrainReadsCore,
       DrainReadsDecodeCore,
       DrainReadsPopCore, DrainReadsErrorCore, ResumeReadsCore, ResumeClosedCore DEF Input
  <1>4. CASE Output
    BY <1>1, <1>4, DrainOutboundCore, DrainOutboundEndCore, FlushSendCore, FlushEndCore DEF Output
  <1>5. CASE Shutdown
    BY <1>1, <1>5, AdvanceCore, JoinCore, FlushAllCore, CloseResourcesCore, FailCore DEF Shutdown
  <1>6. CASE Stop \/ DeadlinePasses \/ Pool \/ Peers
    BY <1>1, <1>6, ControlCore, PoolCore, PeersCore
  <1> QED
    BY <1>2, <1>3, <1>4, <1>5, <1>6 DEF Next, IoThread

-----------------------------------------------------------------------------
\* The bytes of queued writes.

LEMMA BytesAre ==
  ASSUME NEW w \in Seq(Write)
  PROVE  \A p : p \in BytesOf(w) <=> \E i \in 1..Len(w) : \E b \in 1..w[i].left : p = <<i, b>>
  <1>1. DOMAIN w = 1..Len(w)
    OBVIOUS
  <1> QED
    BY <1>1 DEF BytesOf

\* Bytes from..to of write i.
Bytes(i, from, to) == {i} \X (from..to)

LEMMA BytesCount ==
  ASSUME NEW i, NEW from \in Nat, NEW to \in Nat, from <= to + 1
  PROVE  /\ IsFiniteSet(Bytes(i, from, to)) /\ Cardinality(Bytes(i, from, to)) = to + 1 - from
  <1>1. IsFiniteSet({i}) /\ Cardinality({i}) = 1
    BY FS_Singleton
  <1>2. IsFiniteSet(from..to) /\ Cardinality(from..to) = IF from > to THEN 0 ELSE to - from + 1
    BY FS_Interval
  <1>3. /\ IsFiniteSet(Bytes(i, from, to))
        /\ Cardinality(Bytes(i, from, to)) = 1 * Cardinality(from..to)
    BY <1>1, <1>2, FS_Product DEF Bytes
  <1>4. 1 * Cardinality(from..to) = to + 1 - from
    BY <1>2
  <1> QED
    BY <1>3, <1>4

LEMMA BytesIn ==
  ASSUME NEW i, NEW from, NEW to
  PROVE  \A p : p \in Bytes(i, from, to) <=> \E b \in from..to : p = <<i, b>>
  BY DEF Bytes

\* Two parts of the bytes that share none.
LEMMA PartsCount ==
  ASSUME NEW S, NEW T, IsFiniteSet(S), IsFiniteSet(T), S \cap T = {}
  PROVE  IsFiniteSet(S \cup T) /\ Cardinality(S \cup T) = Cardinality(S) + Cardinality(T)
  <1>1. Cardinality(S \cap T) = 0 /\ Cardinality(S) \in Nat /\ Cardinality(T) \in Nat
    BY FS_EmptySet, FS_CardinalityType
  <1>2. /\ IsFiniteSet(S \cup T)
        /\ Cardinality(S \cup T) = Cardinality(S) + Cardinality(T) - Cardinality(S \cap T)
    BY FS_Union
  <1> QED
    BY <1>1, <1>2

LEMMA RestCount ==
  ASSUME NEW S, NEW T, NEW U, IsFiniteSet(U), IsFiniteSet(T), U = S \cup T, S \cap T = {}
  PROVE  IsFiniteSet(S) /\ Cardinality(S) = Cardinality(U) - Cardinality(T)
  <1>1. IsFiniteSet(S)
    BY FS_Subset
  <1>2. Cardinality(U) = Cardinality(S) + Cardinality(T)
    BY <1>1, PartsCount
  <1>3. Cardinality(S) \in Nat /\ Cardinality(T) \in Nat
    BY <1>1, FS_CardinalityType
  <1> QED
    BY <1>1, <1>2, <1>3

LEMMA AppendCount ==
  ASSUME NEW w \in Seq(Write), NEW x \in Write, IsFiniteSet(BytesOf(w))
  PROVE  /\ IsFiniteSet(BytesOf(Append(w, x)))
         /\ Cardinality(BytesOf(Append(w, x))) = Cardinality(BytesOf(w)) + x.left
  <1> DEFINE v == Append(w, x)
             n == Len(w) + 1
  <1>1. /\ v \in Seq(Write) /\ Len(v) = n /\ Len(w) \in Nat /\ v[n] = x
        /\ \A i \in 1..Len(w) : v[i] = w[i]
    OBVIOUS
  <1>2. x.left \in Nat
    BY DEF Write
  <1>3. /\ IsFiniteSet(Bytes(n, 1, x.left)) /\ Cardinality(Bytes(n, 1, x.left)) = x.left
        /\ \A p : p \in Bytes(n, 1, x.left) <=> \E b \in 1..x.left : p = <<n, b>>
    <2> HIDE DEF n
    <2>1. 1 \in Nat /\ 1 <= x.left + 1 /\ x.left + 1 - 1 = x.left
      BY <1>2
    <2>2. IsFiniteSet(Bytes(n, 1, x.left)) /\ Cardinality(Bytes(n, 1, x.left)) = x.left + 1 - 1
      BY <1>2, <2>1, BytesCount
    <2> QED
      BY <2>1, <2>2, BytesIn
  <1>4. \A i : i \in 1..n <=> i \in 1..Len(w) \/ i = n
    BY <1>1
  <1>5. n \notin 1..Len(w)
    BY <1>1
  <1> HIDE DEF v, n
  <1>6. BytesOf(v) = BytesOf(w) \cup Bytes(n, 1, x.left)
    <2>1. ASSUME NEW p
          PROVE  p \in BytesOf(v) <=> p \in BytesOf(w) \/ p \in Bytes(n, 1, x.left)
      <3>1. p \in BytesOf(v) <=> \E i \in 1..n : \E b \in 1..v[i].left : p = <<i, b>>
        BY <1>1, BytesAre
      <3>2. p \in BytesOf(w) <=> \E i \in 1..Len(w) : \E b \in 1..w[i].left : p = <<i, b>>
        BY BytesAre
      <3>3. p \in BytesOf(v) <=>
              \/ \E i \in 1..Len(w) : \E b \in 1..w[i].left : p = <<i, b>>
              \/ \E b \in 1..x.left : p = <<n, b>>
        BY <1>1, <1>4, <3>1, Zenon
      <3> QED
        BY <1>3, <3>2, <3>3, Zenon
    <2> QED
      BY <2>1
  <1>7. BytesOf(w) \cap Bytes(n, 1, x.left) = {}
    <2>1. ASSUME NEW p \in BytesOf(w), p \in Bytes(n, 1, x.left) PROVE FALSE
      <3>1. PICK i \in 1..Len(w) : \E b \in 1..w[i].left : p = <<i, b>>
        BY BytesAre
      <3>2. p[1] = i
        BY <3>1
      <3>3. p[1] = n
        BY <1>3, <2>1
      <3> QED
        BY <1>5, <3>2, <3>3
    <2> QED
      BY <2>1
  <1>8. /\ IsFiniteSet(BytesOf(v))
        /\ Cardinality(BytesOf(v)) = Cardinality(BytesOf(w)) + Cardinality(Bytes(n, 1, x.left))
    BY <1>3, <1>6, <1>7, PartsCount
  <1> QED
    BY <1>3, <1>8 DEF v

\* consumeWrite of a part of the first write.
LEMMA PartCount ==
  ASSUME NEW w \in Seq(Write), w # <<>>, IsFiniteSet(BytesOf(w)),
         NEW n \in Nat \ {0}, n < w[1].left
  PROVE  LET v == <<[Head(w) EXCEPT !.left = @ - n]>> \o Tail(w)
         IN  /\ v \in Seq(Write) /\ Len(v) = Len(w)
             /\ v[1].to = w[1].to /\ \A i \in 2..Len(w) : v[i] = w[i]
             /\ IsFiniteSet(BytesOf(v))
             /\ Cardinality(BytesOf(v)) = Cardinality(BytesOf(w)) - n
  <1> DEFINE x == [Head(w) EXCEPT !.left = @ - n]
             v == <<x>> \o Tail(w)
             left == w[1].left
             gone == Bytes(1, left - n + 1, left)
  <1>1. Len(w) \in Nat /\ Len(w) > 0 /\ Head(w) = w[1] /\ w[1] \in Write
    OBVIOUS
  <1>2. left \in Nat /\ left - n \in Nat \ {0} /\ w[1].to \in Ids
    BY <1>1 DEF Write
  <1>3. x \in Write /\ x.left = left - n /\ x.to = w[1].to
    BY <1>1, <1>2 DEF Write
  <1> HIDE DEF x
  <1>4. /\ v \in Seq(Write) /\ Len(v) = Len(w) /\ v[1] = x
        /\ \A i \in 2..Len(w) : v[i] = w[i]
    <2>1. Tail(w) \in Seq(Write) /\ Len(Tail(w)) = Len(w) - 1 /\ <<x>> \in Seq(Write)
          /\ Len(<<x>>) = 1 /\ <<x>>[1] = x
      BY <1>1, <1>3
    <2>2. \A i \in 1..(Len(w) - 1) : Tail(w)[i] = w[i + 1]
      BY <1>1
    <2>3. v \in Seq(Write) /\ Len(v) = 1 + (Len(w) - 1) /\ v[1] = x
      BY <2>1
    <2>4. ASSUME NEW i \in 2..Len(w) PROVE v[i] = w[i]
      <3>1. i \in 2..(1 + (Len(w) - 1)) /\ i - 1 \in 1..(Len(w) - 1) /\ (i - 1) + 1 = i
        BY <1>1
      <3>2. v[i] = Tail(w)[i - 1]
        BY <2>1, <3>1
      <3> QED
        BY <2>2, <3>1, <3>2
    <2> QED
      BY <1>1, <2>3, <2>4
  <1> HIDE DEF v
  <1>5. /\ IsFiniteSet(gone) /\ Cardinality(gone) = n
        /\ \A p : p \in gone <=> \E b \in (left - n + 1)..left : p = <<1, b>>
    <2>1. left - n + 1 \in Nat /\ left - n + 1 <= left + 1 /\ left + 1 - (left - n + 1) = n
      BY <1>2
    <2>2. IsFiniteSet(gone) /\ Cardinality(gone) = left + 1 - (left - n + 1)
      BY <1>2, <2>1, BytesCount
    <2> QED
      BY <2>1, <2>2, BytesIn
  <1> HIDE DEF gone
  <1>6. \A b : b \in 1..left <=> b \in 1..(left - n) \/ b \in (left - n + 1)..left
    BY <1>2
  <1>7. \A b : ~(b \in 1..(left - n) /\ b \in (left - n + 1)..left)
    BY <1>2
  <1>8. \A i : i \in 1..Len(w) <=> i = 1 \/ i \in 2..Len(w)
    BY <1>1
  <1>9. 1 \notin 2..Len(w)
    BY <1>1
  <1> HIDE DEF left
  <1>10. BytesOf(w) = BytesOf(v) \cup gone
    <2>1. ASSUME NEW p
          PROVE  p \in BytesOf(w) <=> p \in BytesOf(v) \/ p \in gone
      <3>1. p \in BytesOf(v) <=> \E i \in 1..Len(w) : \E b \in 1..v[i].left : p = <<i, b>>
        BY SMTT(40), <1>4, BytesAre
      <3>2. p \in BytesOf(w) <=> \E i \in 1..Len(w) : \E b \in 1..w[i].left : p = <<i, b>>
        BY BytesAre
      <3>3. p \in BytesOf(v) <=>
              \/ \E b \in 1..(left - n) : p = <<1, b>>
              \/ \E i \in 2..Len(w) : \E b \in 1..w[i].left : p = <<i, b>>
        BY <1>3, <1>4, <1>8, <3>1, Zenon
      <3>4. p \in BytesOf(w) <=>
              \/ \E b \in 1..left : p = <<1, b>>
              \/ \E i \in 2..Len(w) : \E b \in 1..w[i].left : p = <<i, b>>
        BY <1>8, <3>2, Zenon DEF left
      <3> QED
        BY <1>5, <1>6, <3>3, <3>4, Zenon
    <2> QED
      BY <2>1
  <1>11. BytesOf(v) \cap gone = {}
    <2>1. ASSUME NEW p \in BytesOf(v), p \in gone PROVE FALSE
      <3>0. PICK i \in 1..Len(w) : \E b \in 1..v[i].left : p = <<i, b>>
        BY <1>4, BytesAre
      <3>1. PICK b \in 1..v[i].left : p = <<i, b>>
        BY <3>0
      <3>2. PICK c \in (left - n + 1)..left : p = <<1, c>>
        BY <1>5, <2>1
      <3>3. i = 1 /\ b = c
        BY <3>1, <3>2
      <3>4. b \in 1..(left - n)
        BY <1>3, <1>4, <3>3
      <3> QED
        BY <1>7, <3>3, <3>4
    <2> QED
      BY <2>1
  <1>12. IsFiniteSet(BytesOf(v)) /\ Cardinality(BytesOf(v)) = Cardinality(BytesOf(w)) - Cardinality(gone)
    BY <1>5, <1>10, <1>11, RestCount
  <1> QED
    BY <1>3, <1>4, <1>5, <1>12 DEF v, x

\* consumeWrite of the whole first write.
LEMMA TailCount ==
  ASSUME NEW w \in Seq(Write), w # <<>>, IsFiniteSet(BytesOf(w))
  PROVE  /\ Tail(w) \in Seq(Write) /\ Len(Tail(w)) = Len(w) - 1
         /\ \A i \in 1..(Len(w) - 1) : Tail(w)[i] = w[i + 1]
         /\ IsFiniteSet(BytesOf(Tail(w)))
         /\ Cardinality(BytesOf(Tail(w))) = Cardinality(BytesOf(w)) - w[1].left
  <1> DEFINE v == Tail(w)
             left == w[1].left
             gone == Bytes(1, 1, left)
             S == BytesOf(w) \ gone
             f == [p \in S |-> <<p[1] - 1, p[2]>>]
  <1>1. Len(w) \in Nat /\ Len(w) > 0 /\ w[1] \in Write
    OBVIOUS
  <1>2. left \in Nat
    BY <1>1 DEF Write
  <1>3. /\ v \in Seq(Write) /\ Len(v) = Len(w) - 1
        /\ \A i \in 1..(Len(w) - 1) : v[i] = w[i + 1]
    BY <1>1
  <1> HIDE DEF v
  <1>4. IsFiniteSet(gone) /\ Cardinality(gone) = left
    <2>1. 1 \in Nat /\ 1 <= left + 1 /\ left + 1 - 1 = left
      BY <1>2
    <2>2. IsFiniteSet(gone) /\ Cardinality(gone) = left + 1 - 1
      BY <1>2, <2>1, BytesCount
    <2> QED
      BY <2>1, <2>2
  <1>5. \A p : p \in gone <=> \E b \in 1..left : p = <<1, b>>
    BY BytesIn
  <1> HIDE DEF gone
  <1>6. \A p : p \in BytesOf(w) <=> \E i \in 1..Len(w) : \E b \in 1..w[i].left : p = <<i, b>>
    BY BytesAre
  <1>7. \A p : p \in BytesOf(v) <=>
               \E i \in 1..(Len(w) - 1) : \E b \in 1..v[i].left : p = <<i, b>>
    BY <1>3, BytesAre
  <1>8. gone \subseteq BytesOf(w)
    <2>1. 1 \in 1..Len(w)
      BY <1>1
    <2> QED
      BY <1>5, <1>6, <2>1
  <1>9. IsFiniteSet(S) /\ Cardinality(S) = Cardinality(BytesOf(w)) - left
    <2>1. BytesOf(w) = S \cup gone /\ S \cap gone = {}
      BY <1>8
    <2> HIDE DEF S, f
    <2>2. IsFiniteSet(S) /\ Cardinality(S) = Cardinality(BytesOf(w)) - Cardinality(gone)
      BY <1>4, <2>1, RestCount
    <2> QED
      BY <1>4, <2>2
  <1>10. ASSUME NEW p \in S
         PROVE  \E i \in 2..Len(w) : \E b \in 1..w[i].left : p = <<i, b>>
    <2>1. PICK i \in 1..Len(w) : \E b \in 1..w[i].left : p = <<i, b>>
      BY <1>6
    <2>2. i # 1
      BY <1>5, <2>1
    <2>3. i \in 2..Len(w)
      BY <1>1, <2>2
    <2> QED
      BY <2>1, <2>3
  <1>11. ASSUME NEW i \in 2..Len(w), NEW b \in 1..w[i].left
         PROVE  /\ <<i, b>> \in S
                /\ i - 1 \in 1..(Len(w) - 1) /\ (i - 1) + 1 = i
                /\ <<i - 1, b>> \in BytesOf(v)
    <2>1. i \in 1..Len(w) /\ i # 1 /\ i - 1 \in 1..(Len(w) - 1) /\ (i - 1) + 1 = i
      BY <1>1
    <2>2. <<i, b>> \notin gone
      BY <1>5, <2>1
    <2>3. v[i - 1] = w[i]
      BY <1>3, <2>1
    <2> QED
      BY <1>6, <1>7, <2>1, <2>2, <2>3
  <1> HIDE DEF S
  <1>12. f \in [S -> BytesOf(v)]
    <2>1. ASSUME NEW p \in S PROVE <<p[1] - 1, p[2]>> \in BytesOf(v)
      BY <1>10, <1>11
    <2> QED
      BY <2>1
  <1>13. ASSUME NEW p \in S, NEW q \in S, f[p] = f[q] PROVE p = q
    <2>0. PICK i \in 2..Len(w) : \E b \in 1..w[i].left : p = <<i, b>>
      BY <1>10
    <2>1. PICK b \in 1..w[i].left : p = <<i, b>>
      BY <2>0
    <2>2. PICK j \in 2..Len(w) : \E c \in 1..w[j].left : q = <<j, c>>
      BY <1>10
    <2>3. PICK c \in 1..w[j].left : q = <<j, c>>
      BY <2>2
    <2>4. <<i - 1, b>> = <<j - 1, c>>
      BY <1>13, <2>1, <2>3
    <2>5. i - 1 = j - 1 /\ b = c
      BY <2>4
    <2>6. i = j
      BY <1>1, <2>5
    <2> QED
      BY <2>1, <2>3, <2>5, <2>6
  <1>14. ASSUME NEW t \in BytesOf(v) PROVE \E s \in S : f[s] = t
    <2>1. PICK i \in 1..(Len(w) - 1) : \E b \in 1..v[i].left : t = <<i, b>>
      BY <1>7
    <2>2. PICK b \in 1..v[i].left : t = <<i, b>>
      BY <2>1
    <2>3. i + 1 \in 2..Len(w) /\ (i + 1) - 1 = i /\ v[i] = w[i + 1]
      BY <1>1, <1>3
    <2>4. <<i + 1, b>> \in S
      BY <1>11, <2>3
    <2>5. f[<<i + 1, b>>] = <<(i + 1) - 1, b>>
      BY <2>4
    <2> QED
      BY <2>2, <2>3, <2>4, <2>5
  <1> HIDE DEF f
  <1>15. ExistsBijection(S, BytesOf(v))
    <2>1. f \in Injection(S, BytesOf(v))
      <3>1. IsInjective(f)
        BY <1>12, <1>13 DEF IsInjective
      <3> QED
        BY <1>12, <3>1 DEF Injection
    <2>2. f \in Surjection(S, BytesOf(v))
      BY <1>12, <1>14 DEF Surjection
    <2> QED
      BY <2>1, <2>2 DEF ExistsBijection, Bijection
  <1>16. IsFiniteSet(BytesOf(v)) /\ Cardinality(BytesOf(v)) = Cardinality(S)
    BY <1>9, <1>15, FS_Bijection
  <1> QED
    BY <1>3, <1>9, <1>16 DEF v

-----------------------------------------------------------------------------
\* What goes out, what the workers owe, and the flags.

\* The queue of a session and its count of bytes.
Queued(id) ==
    /\ pendingBytes[id] \in Nat /\ pendingBytes[id] <= MaxPending
    /\ IsFiniteSet(BytesOf(writes[id]))
    /\ pendingBytes[id] = Cardinality(BytesOf(writes[id]))
    /\ \A i \in DOMAIN writes[id] : writes[id][i].to = id

WriteInv == pendingBytes \in [Ids -> Nat] /\ \A id \in Ids : Queued(id)

PoolType ==
    [busy : Nat, pushing : Nat, owes : Nat, owesOut : Nat, deferrals : Nat, made : Nat,
     draining : BOOLEAN, forced : BOOLEAN, done : BOOLEAN]

\* A worker that pushes or owes a notification is busy.
PoolInv ==
    /\ pool \in PoolType /\ pool.busy <= Workers
    /\ pool.owes + pool.owesOut + pool.pushing <= pool.busy

FlagTypes ==
    /\ forcedShutdown \in BOOLEAN /\ outboxClosed \in BOOLEAN
    /\ inWake \in BOOLEAN /\ outWake \in BOOLEAN
    /\ stopRequested \in BOOLEAN /\ late \in BOOLEAN

OutInv == OutTypes /\ WriteInv /\ PoolInv /\ FlagTypes

LEMMA InitOut ==
  ASSUME Init
  PROVE  OutInv
  <1>1. config \in Configs /\ MaxPending \in Nat /\ OutboxCapacity \in Nat /\ Workers \in Nat
    BY ConfigIs DEF Init
  <1>2. OutTypes
    BY <1>1 DEF Init, OutTypes
  <1>3. WriteInv
    <2>1. BytesOf(<<>>) = {}
      BY DEF BytesOf
    <2>2. IsFiniteSet({}) /\ Cardinality({}) = 0
      BY FS_EmptySet
    <2>3. ASSUME NEW id \in Ids PROVE writes[id] = <<>> /\ pendingBytes[id] = 0
      BY DEF Init
    <2>4. ASSUME NEW id \in Ids PROVE Queued(id)
      <3>0. 0 \in Nat /\ 0 <= MaxPending
        BY <1>1
      <3>1. \A i \in DOMAIN writes[id] : writes[id][i].to = id
        BY <2>3
      <3> QED
        BY <2>1, <2>2, <2>3, <3>0, <3>1 DEF Queued
    <2> QED
      BY <2>3, <2>4 DEF WriteInv, Init
  <1>4. PoolInv
    BY <1>1 DEF Init, PoolInv, PoolType
  <1>5. FlagTypes
    BY DEF Init, FlagTypes
  <1> QED
    BY <1>2, <1>3, <1>4, <1>5 DEF OutInv

\* The queues change where a message is taken, bytes are sent or a worker emits.
SameOut == UNCHANGED <<closing, writes, pendingBytes, outbox>>

LEMMA LoopOut ==
  ASSUME Loop
  PROVE  SameOut
  <1>1. CASE LoopTop \/ Wait \/ HandleWakeup
    BY <1>1 DEF LoopTop, Wait, HandleWakeup, stable, writeVars, outVars, SameOut
  <1>2. CASE EndOfEvents \/ FlushEvent
    BY <1>2 DEF EndOfEvents, FlushEvent, exceptIo, exceptDisconnect, writeVars, outVars, SameOut
  <1>3. CASE HandleSession
    BY <1>3 DEF HandleSession, writeVars, outVars, SameOut
  <1>4. CASE ExpireIdle
    BY <1>4 DEF ExpireIdle, exceptDisconnect, writeVars, outVars, SameOut
  <1>5. CASE NextEvent
    BY <1>5 DEF NextEvent, ForceShutdown, stable, writeVars, outVars, SameOut
  <1> QED
    BY <1>1, <1>2, <1>3, <1>4, <1>5 DEF Loop

LEMMA InputOut ==
  ASSUME Input
  PROVE  SameOut
  <1>1. CASE AcceptEnd \/ DrainSize \/ ResumeClosed
    BY <1>1 DEF AcceptEnd, DrainSize, ResumeClosed, exceptIo, exceptDisconnect, writeVars, outVars,
       SameOut
  <1>2. CASE Accept \/ ReadSession \/ Decode
    BY <1>2 DEF Accept, ReadSession, Decode, writeVars, outVars, SameOut
  <1>3. CASE ReadStops \/ PushDisconnected \/ DrainReadsPop \/ DrainReadsError \/ ResumeReads
    BY <1>3 DEF ReadStops, PushDisconnected, DrainReadsPop, DrainReadsError, ResumeReads,
       exceptDisconnect, writeVars, outVars, SameOut
  <1>4. CASE Yield \/ DrainDisconnects \/ DrainReads \/ DrainReadsDecode
    BY <1>4 DEF Yield, DrainDisconnects, DrainReads, DrainReadsDecode, stable, writeVars, outVars, SameOut
  <1> QED
    BY <1>1, <1>2, <1>3, <1>4 DEF Input

LEMMA ShutdownOut ==
  ASSUME Shutdown
  PROVE  SameOut
  <1>1. CASE Advance \/ AdvanceInput
    BY <1>1 DEF Advance, AdvanceInput, ForceShutdown, stable, writeVars, outVars, SameOut
  <1>2. CASE AdvanceStop \/ AdvanceFinished \/ Fail
    BY <1>2 DEF AdvanceStop, AdvanceFinished, Fail, stable, writeVars, outVars, SameOut
  <1>3. CASE Join \/ FlushAll
    BY <1>3 DEF Join, FlushAll, exceptIo, exceptDisconnect, writeVars, outVars, SameOut
  <1>4. CASE CloseResources
    BY <1>4 DEF CloseResources, exceptDisconnect, writeVars, outVars, SameOut
  <1> QED
    BY <1>1, <1>2, <1>3, <1>4 DEF Shutdown

LEMMA SameOutKeeps ==
  ASSUME OutTypes, WriteInv, SameOut, UNCHANGED config
  PROVE  OutTypes' /\ WriteInv'
  <1>1. OutTypes'
    BY DEF OutTypes, SameOut, Messages, OutboxCapacity
  <1>2. MaxPending' = MaxPending
    BY DEF MaxPending
  <1>3. ASSUME NEW id \in Ids PROVE Queued(id)'
    <2>1. Queued(id)
      BY DEF WriteInv
    <2>2. BytesOf(writes[id])' = BytesOf(writes[id])
      BY DEF SameOut, BytesOf
    <2> QED
      BY <1>2, <2>1, <2>2 DEF SameOut, Queued
  <1> QED
    BY <1>1, <1>3 DEF WriteInv, SameOut

\* tryEnqueue and consumeWrite change the queue of one session.
LEMMA QueueChanges ==
  ASSUME WriteInv, OutTypes, UNCHANGED config, NEW id \in Ids, NEW w \in Seq(Write), NEW n \in Nat,
         n <= MaxPending, IsFiniteSet(BytesOf(w)), n = Cardinality(BytesOf(w)),
         \A i \in DOMAIN w : w[i].to = id,
         writes' = [writes EXCEPT ![id] = w], pendingBytes' = [pendingBytes EXCEPT ![id] = n]
  PROVE  WriteInv' /\ writes' \in [Ids -> Seq(Write)]
  <1>1. writes \in [Ids -> Seq(Write)] /\ pendingBytes \in [Ids -> Nat]
    BY DEF OutTypes, WriteInv
  <1>2. writes' \in [Ids -> Seq(Write)] /\ pendingBytes' \in [Ids -> Nat]
    BY <1>1
  <1>3. MaxPending' = MaxPending
    BY DEF MaxPending
  <1>4. ASSUME NEW other \in Ids PROVE Queued(other)'
    <2>1. CASE other = id
      <3>1. writes'[other] = w /\ pendingBytes'[other] = n
        BY <1>1, <2>1
      <3>2. BytesOf(writes[other])' = BytesOf(w)
        BY <3>1 DEF BytesOf
      <3> QED
        BY <1>3, <2>1, <3>1, <3>2 DEF Queued
    <2>2. CASE other # id
      <3>1. writes'[other] = writes[other] /\ pendingBytes'[other] = pendingBytes[other]
        BY <1>1, <2>2
      <3>2. Queued(other)
        BY DEF WriteInv
      <3>3. BytesOf(writes[other])' = BytesOf(writes[other])
        BY <3>1 DEF BytesOf
      <3> QED
        BY <1>3, <3>1, <3>2, <3>3 DEF Queued
    <2> QED
      BY <2>1, <2>2
  <1> QED
    BY <1>2, <1>4 DEF WriteInv

LEMMA TryEnqueueKeeps ==
  ASSUME WriteInv, OutTypes, config \in Configs, UNCHANGED config,
         NEW id \in Ids, NEW m \in Messages(Ids), m.session = id, m.kind # "DisconnectSession",
         TryEnqueue(id, m)
  PROVE  WriteInv' /\ writes' \in [Ids -> Seq(Write)]
  <1>1. config.sizes \subseteq Nat \ {0} /\ MaxPending \in Nat
    BY ConfigIs
  <1>2. m.size \in Nat \ {0}
    BY <1>1 DEF Messages
  <1> DEFINE x == [to |-> m.session, left |-> m.size]
             w == Append(writes[id], x)
  <1>3. x \in Write /\ x.to = id /\ x.left = m.size
    BY <1>2 DEF Write
  <1> HIDE DEF x
  <1>4. writes[id] \in Seq(Write) /\ Queued(id)
    BY DEF OutTypes, WriteInv
  <1>5. /\ IsFiniteSet(BytesOf(w)) /\ Cardinality(BytesOf(w)) = Cardinality(BytesOf(writes[id])) + x.left
    BY <1>3, <1>4, AppendCount DEF Queued
  <1>6. /\ pendingBytes[id] + m.size \in Nat /\ pendingBytes[id] + m.size <= MaxPending
        /\ pendingBytes[id] + m.size = Cardinality(BytesOf(w))
    <2>1. pendingBytes[id] \in Nat /\ pendingBytes[id] = Cardinality(BytesOf(writes[id]))
      BY <1>4 DEF Queued
    <2>2. m.size <= MaxPending - pendingBytes[id]
      BY DEF TryEnqueue
    <2> QED
      BY <1>1, <1>2, <1>3, <1>5, <2>1, <2>2
  <1>7. w \in Seq(Write) /\ \A i \in DOMAIN w : w[i].to = id
    <2>1. \A i \in DOMAIN writes[id] : writes[id][i].to = id
      BY <1>4 DEF Queued
    <2>2. w \in Seq(Write) /\ Len(writes[id]) \in Nat /\ Len(w) = Len(writes[id]) + 1
          /\ DOMAIN w = 1..Len(w) /\ DOMAIN writes[id] = 1..Len(writes[id])
      BY <1>3, <1>4
    <2>3. ASSUME NEW i \in DOMAIN w PROVE w[i].to = id
      <3>1. CASE i = Len(writes[id]) + 1
        BY <1>3, <1>4, <3>1
      <3>2. CASE i # Len(writes[id]) + 1
        <4>1. i \in DOMAIN writes[id]
          BY <2>2, <3>2
        <4>2. w[i] = writes[id][i]
          BY <1>4, <4>1
        <4> QED
          BY <2>1, <4>1, <4>2
      <3> QED
        BY <3>1, <3>2
    <2> QED
      BY <2>2, <2>3
  <1>8. /\ writes' = [writes EXCEPT ![id] = w]
        /\ pendingBytes' = [pendingBytes EXCEPT ![id] = pendingBytes[id] + m.size]
    BY DEF TryEnqueue, x
  <1> HIDE DEF w
  <1> QED
    BY <1>5, <1>6, <1>7, <1>8, QueueChanges

LEMMA ConsumeWriteKeeps ==
  ASSUME WriteInv, OutTypes, config \in Configs, UNCHANGED config,
         NEW id \in Ids, writes[id] # <<>>, NEW n \in 1..Head(writes[id]).left,
         ConsumeWrite(id, n)
  PROVE  WriteInv' /\ writes' \in [Ids -> Seq(Write)]
  <1> DEFINE q == writes[id]
             part == <<[Head(q) EXCEPT !.left = Head(q).left - n]>> \o Tail(q)
             w == IF Head(q).left = n THEN Tail(q) ELSE part
             p == pendingBytes[id]
  <1>1. q \in Seq(Write) /\ Queued(id) /\ MaxPending \in Nat
    BY ConfigIs DEF OutTypes, WriteInv
  <1>2. /\ Head(q) = q[1] /\ q[1] \in Write /\ Len(q) \in Nat /\ Len(q) > 0
        /\ DOMAIN q = 1..Len(q)
    BY <1>1
  <1>3. q[1].left \in Nat \ {0} /\ n \in Nat \ {0} /\ n <= q[1].left
    <2>1. q[1].left \in Nat \ {0}
      BY <1>2 DEF Write
    <2> QED
      BY <1>2, <2>1
  <1>4. /\ p \in Nat /\ p <= MaxPending /\ IsFiniteSet(BytesOf(q)) /\ p = Cardinality(BytesOf(q))
        /\ \A i \in DOMAIN q : q[i].to = id
    BY <1>1 DEF Queued
  <1>5. /\ writes' = [writes EXCEPT ![id] = w]
        /\ pendingBytes' = [pendingBytes EXCEPT ![id] = p - n]
    BY DEF ConsumeWrite
  <1> HIDE DEF q, p
  <1>6. /\ w \in Seq(Write) /\ IsFiniteSet(BytesOf(w))
        /\ Cardinality(BytesOf(w)) = Cardinality(BytesOf(q)) - n
        /\ \A i \in DOMAIN w : w[i].to = id
    <2>1. CASE q[1].left = n
      <3>1. w = Tail(q)
        BY <1>2, <2>1
      <3>2. /\ Tail(q) \in Seq(Write) /\ Len(Tail(q)) = Len(q) - 1
            /\ \A i \in 1..(Len(q) - 1) : Tail(q)[i] = q[i + 1]
            /\ IsFiniteSet(BytesOf(Tail(q)))
            /\ Cardinality(BytesOf(Tail(q))) = Cardinality(BytesOf(q)) - q[1].left
        BY <1>1, <1>2, <1>4, TailCount DEF q
      <3>3. ASSUME NEW i \in DOMAIN Tail(q) PROVE Tail(q)[i].to = id
        <4>1. i \in 1..(Len(q) - 1)
          BY <3>2
        <4>2. i + 1 \in DOMAIN q
          BY <1>2, <4>1
        <4> QED
          BY <1>4, <3>2, <4>1, <4>2
      <3> QED
        BY ZenonT(60), <2>1, <3>1, <3>2, <3>3
    <2>2. CASE q[1].left # n
      <3>1. w = part /\ n < q[1].left
        BY <1>2, <1>3, <2>2
      <3>2. /\ part \in Seq(Write) /\ Len(part) = Len(q)
            /\ part[1].to = q[1].to /\ \A i \in 2..Len(q) : part[i] = q[i]
            /\ IsFiniteSet(BytesOf(part))
            /\ Cardinality(BytesOf(part)) = Cardinality(BytesOf(q)) - n
        BY <1>1, <1>2, <1>3, <1>4, <3>1, PartCount DEF q
      <3> HIDE DEF part
      <3>3. ASSUME NEW i \in DOMAIN part PROVE part[i].to = id
        <4>1. i \in 1..Len(q) /\ i \in DOMAIN q /\ 1 \in DOMAIN q
          BY <1>2, <3>2
        <4>2. i = 1 \/ i \in 2..Len(q)
          BY <1>2, <4>1
        <4> QED
          BY <1>4, <3>2, <4>1, <4>2
      <3> QED
        BY <3>1, <3>2, <3>3
    <2> QED
      BY <2>1, <2>2
  <1> HIDE DEF w, part
  <1>7. p - n \in Nat /\ p - n <= MaxPending /\ p - n = Cardinality(BytesOf(w))
    <2>1. Cardinality(BytesOf(w)) \in Nat
      BY <1>6, FS_CardinalityType
    <2> QED
      BY <1>1, <1>3, <1>4, <1>6, <2>1
  <1> QED
    BY <1>5, <1>6, <1>7, QueueChanges

LEMMA DrainOutboundOut ==
  ASSUME CoreInv, OutInv, DrainOutbound, UNCHANGED config
  PROVE  OutTypes' /\ WriteInv'
  <1>1. /\ OutTypes /\ WriteInv /\ config \in Configs /\ MapTypes /\ MapsAgree
        /\ OutboxCapacity \in Nat /\ outbox # <<>>
    BY ConfigIs DEF CoreInv, Typed, OutInv, DrainOutbound
  <1> DEFINE m == Head(outbox)
             fd == fdBySession[m.session]
             id == sessionAt[fd]
  <1>2. m \in Messages(Ids) /\ m.session \in Ids /\ (fd # NoFd => id = m.session)
    BY <1>1, Addressee
  <1>3. outbox' \in Seq(Messages(Ids)') /\ Len(outbox') <= OutboxCapacity'
    <2>1. Messages(Ids)' = Messages(Ids) /\ OutboxCapacity' = OutboxCapacity
      BY DEF Messages, OutboxCapacity
    <2>2. outbox \in Seq(Messages(Ids)) /\ Len(outbox) <= OutboxCapacity /\ outbox' = Tail(outbox)
      BY <1>1 DEF OutTypes, DrainOutbound
    <2>3. /\ Tail(outbox) \in Seq(Messages(Ids)) /\ Len(Tail(outbox)) = Len(outbox) - 1
          /\ Len(outbox) \in Nat
      BY <1>1, <2>2
    <2> QED
      BY <1>1, <2>1, <2>2, <2>3
  <1>4. CASE UNCHANGED writeVars
    <2>1. closing' = closing /\ writes' = writes /\ pendingBytes' = pendingBytes
      BY <1>4 DEF writeVars
    <2>2. ASSUME NEW i \in Ids PROVE Queued(i)'
      <3>1. Queued(i) /\ MaxPending' = MaxPending
        BY <1>1 DEF WriteInv, MaxPending
      <3>2. BytesOf(writes[i])' = BytesOf(writes[i])
        BY <2>1 DEF BytesOf
      <3> QED
        BY <2>1, <3>1, <3>2 DEF Queued
    <2> QED
      BY <1>1, <1>3, <2>1, <2>2 DEF OutTypes, WriteInv
  <1>5. CASE /\ fd # NoFd /\ m.kind # "DisconnectSession" /\ TryEnqueue(id, m)
             /\ closing' = [closing EXCEPT ![id] = m.kind = "SendBytesAndDisconnect"]
    <2>1. id \in Ids /\ m.session = id
      BY <1>2, <1>5
    <2>2. WriteInv' /\ writes' \in [Ids -> Seq(Write)]
      BY <1>1, <1>2, <1>5, <2>1, TryEnqueueKeeps
    <2> HIDE DEF id, m
    <2>3. closing' \in [Ids -> BOOLEAN]
      BY <1>1, <1>5 DEF OutTypes
    <2> QED
      BY <1>3, <2>2, <2>3 DEF OutTypes
  <1> QED
    BY <1>4, <1>5 DEF DrainOutbound

LEMMA FlushSendOut ==
  ASSUME CoreInv, OutInv, FlushSend, UNCHANGED config
  PROVE  OutTypes' /\ WriteInv'
  <1>1. /\ OutTypes /\ WriteInv /\ config \in Configs /\ MapTypes /\ Positions
        /\ io.pc = "flush" /\ outbox' = outbox
    BY DEF CoreInv, Typed, OutInv, FlushSend, At, outVars
  <1> DEFINE id == sessionAt[io.flushFd]
  <1>2. id \in Ids
    BY <1>1 DEF Positions, OpenFds, MapTypes
  <1>3. CASE UNCHANGED writeVars
    <2>1. SameOut
      BY <1>1, <1>3 DEF SameOut, writeVars
    <2> QED
      BY <1>1, <2>1, SameOutKeeps
  <1>4. ASSUME NEW n \in 1..Head(writes[id]).left, writes[id] # <<>>, ConsumeWrite(id, n),
               UNCHANGED closing
        PROVE  OutTypes' /\ WriteInv'
    <2>1. WriteInv' /\ writes' \in [Ids -> Seq(Write)]
      BY <1>1, <1>2, <1>4, ConsumeWriteKeeps
    <2>2. Messages(Ids)' = Messages(Ids) /\ OutboxCapacity' = OutboxCapacity
      BY DEF Messages, OutboxCapacity
    <2> QED
      BY <1>1, <1>4, <2>1, <2>2 DEF OutTypes
  <1> QED
    BY <1>3, <1>4 DEF FlushSend

LEMMA WorkerPushOut ==
  ASSUME CoreInv, OutInv, WorkerPush, UNCHANGED config
  PROVE  OutTypes' /\ WriteInv'
  <1>1. /\ OutTypes /\ WriteInv /\ config \in Configs /\ MapTypes /\ OutboxCapacity \in Nat
    BY ConfigIs DEF CoreInv, Typed, OutInv
  <1>2. UNCHANGED <<closing, writes, pendingBytes>>
    BY DEF WorkerPush, unchangedByPool, writeVars
  <1>3. CASE UNCHANGED outbox
    BY <1>1, <1>2, <1>3, SameOutKeeps DEF SameOut
  <1>4. ASSUME NEW m \in Messages(1..nextId), Len(outbox) < OutboxCapacity,
               outbox' = Append(outbox, m)
        PROVE  OutTypes' /\ WriteInv'
    <2>1. m \in Messages(Ids)
      <3>1. 1..nextId \subseteq Ids
        BY <1>1, TcpServerAssumption DEF MapTypes, Ids
      <3> QED
        BY <1>4, <3>1 DEF Messages
    <2>2. Messages(Ids)' = Messages(Ids) /\ OutboxCapacity' = OutboxCapacity
      BY DEF Messages, OutboxCapacity
    <2>3. /\ Append(outbox, m) \in Seq(Messages(Ids)) /\ Len(Append(outbox, m)) = Len(outbox) + 1
          /\ Len(outbox) \in Nat
      BY <1>1, <2>1 DEF OutTypes
    <2>4. OutTypes'
      BY <1>1, <1>2, <1>4, <2>2, <2>3 DEF OutTypes
    <2>5. ASSUME NEW i \in Ids PROVE Queued(i)'
      <3>1. Queued(i) /\ MaxPending' = MaxPending
        BY <1>1 DEF WriteInv, MaxPending
      <3>2. BytesOf(writes[i])' = BytesOf(writes[i])
        BY <1>2 DEF BytesOf
      <3> QED
        BY <1>2, <3>1, <3>2 DEF Queued
    <2> QED
      BY <1>1, <1>2, <2>4, <2>5 DEF WriteInv
  <1> QED
    BY <1>3, <1>4 DEF WorkerPush

\* Nobody else touches the queues.
LEMMA WritesNext ==
  ASSUME CoreInv, OutInv, Next
  PROVE  OutTypes' /\ WriteInv'
  <1>1. UNCHANGED config /\ OutTypes /\ WriteInv
    BY DEF Next, OutInv
  <1>2. CASE SameOut
    BY <1>1, <1>2, SameOutKeeps
  <1>3. CASE IoThread
    <2>1. CASE Loop \/ Input \/ Shutdown
      BY <1>2, <2>1, LoopOut, InputOut, ShutdownOut
    <2>2. CASE DrainOutbound
      BY <1>1, <2>2, DrainOutboundOut
    <2>3. CASE FlushSend
      BY <1>1, <2>3, FlushSendOut
    <2>4. CASE DrainOutboundEnd \/ FlushEnd
      <3>1. SameOut
        BY <2>4 DEF DrainOutboundEnd, FlushEnd, exceptDisconnect, stable, writeVars, outVars, SameOut
      <3> QED
        BY <1>2, <3>1
    <2> QED
      BY <1>3, <2>1, <2>2, <2>3, <2>4 DEF IoThread, Output
  <1>4. CASE Stop \/ DeadlinePasses \/ Peers
    <2>1. SameOut
      BY <1>4 DEF Stop, DeadlinePasses, Peers, PeerConnects, PeerSends, PeerLeaves,
         unchangedByPeers, writeVars, outVars, SameOut
    <2> QED
      BY <1>2, <2>1
  <1>5. CASE Pool
    <2>1. CASE WorkerPush
      BY <1>1, <2>1, WorkerPushOut
    <2>2. CASE WorkerPop \/ WorkerNotify \/ WorkerEmit \/ WorkerEnd \/ PoolCompletes \/ PoolDone
      <3>1. SameOut
        BY <2>2 DEF WorkerPop, WorkerNotify, WorkerEmit, WorkerEnd, PoolCompletes, PoolDone,
           unchangedByPool, writeVars, SameOut
      <3> QED
        BY <1>2, <3>1
    <2> QED
      BY <1>5, <2>1, <2>2 DEF Pool
  <1> QED
    BY <1>3, <1>4, <1>5 DEF Next

\* The I/O thread starts a stop of the pool or forces it; nothing else of it.
SamePool ==
    \/ pool' = pool
    \/ pool' = [pool EXCEPT !.forced = TRUE]
    \/ pool' = [pool EXCEPT !.draining = TRUE]

LEMMA IoPool ==
  ASSUME IoThread
  PROVE  SamePool
  <1>1. CASE LoopTop \/ Wait \/ HandleWakeup \/ HandleSession
    BY <1>1 DEF LoopTop, Wait, HandleWakeup, HandleSession, SamePool
  <1>2. CASE EndOfEvents \/ FlushEvent \/ AcceptEnd \/ DrainSize \/ ResumeClosed \/ Join \/ FlushAll
    BY <1>2 DEF EndOfEvents, FlushEvent, AcceptEnd, DrainSize, ResumeClosed, Join, FlushAll,
       exceptIo, exceptDisconnect, SamePool
  <1>3. CASE \/ ExpireIdle \/ ReadStops \/ PushDisconnected \/ DrainReadsPop \/ DrainReadsError
             \/ ResumeReads \/ FlushEnd \/ CloseResources
    BY <1>3 DEF ExpireIdle, ReadStops, PushDisconnected, DrainReadsPop, DrainReadsError, ResumeReads,
       FlushEnd, CloseResources, exceptDisconnect, SamePool
  <1>4. CASE Accept \/ ReadSession \/ Decode \/ Yield
    BY <1>4 DEF Accept, ReadSession, Decode, Yield, SamePool
  <1>5. CASE DrainDisconnects \/ DrainReads \/ DrainReadsDecode \/ DrainOutbound \/ DrainOutboundEnd \/ FlushSend
    BY <1>5 DEF DrainDisconnects, DrainReads, DrainReadsDecode, DrainOutbound, DrainOutboundEnd, FlushSend, SamePool
  <1>6. CASE NextEvent \/ Advance \/ AdvanceInput
    BY <1>6 DEF NextEvent, Advance, AdvanceInput, ForceShutdown, SamePool
  <1>7. CASE AdvanceStop \/ AdvanceFinished \/ Fail
    BY <1>7 DEF AdvanceStop, AdvanceFinished, Fail, SamePool
  <1> QED
    BY <1>1, <1>2, <1>3, <1>4, <1>5, <1>6, <1>7 DEF IoThread, Loop, Input, Output, Shutdown

LEMMA PoolNext ==
  ASSUME config \in Configs, PoolInv, Next
  PROVE  PoolInv'
  <1>1. Workers \in Nat /\ Workers' = Workers
    BY ConfigIs DEF Next, Workers
  <1>2. /\ pool \in PoolType /\ pool.busy <= Workers
        /\ pool.owes + pool.owesOut + pool.pushing <= pool.busy /\ pool.pushing \in Nat
        /\ pool.busy \in Nat /\ pool.owes \in Nat /\ pool.owesOut \in Nat
        /\ pool.deferrals \in Nat /\ pool.made \in Nat
    BY DEF PoolInv, PoolType
  <1>3. CASE SamePool
    BY <1>1, <1>2, <1>3 DEF SamePool, PoolInv, PoolType
  <1>4. CASE IoThread
    BY <1>3, <1>4, IoPool
  <1>5. CASE Stop \/ DeadlinePasses \/ Peers
    <2>1. SamePool
      BY <1>5 DEF Stop, DeadlinePasses, Peers, PeerConnects, PeerSends, PeerLeaves,
         unchangedByPeers, SamePool
    <2> QED
      BY <1>3, <2>1
  <1>6. CASE WorkerPop
    <2>1. pool.busy < Workers
      BY <1>6 DEF WorkerPop
    <2>2. PICK owed \in {pool.owes, pool.owes + 1} :
            pool' = [pool EXCEPT !.busy = @ + 1, !.owes = owed]
      BY <1>6 DEF WorkerPop
    <2>3. pool.busy + 1 \in Nat /\ owed \in Nat /\ owed <= pool.owes + 1
      BY <1>2
    <2>4. /\ pool' \in PoolType /\ pool'.busy = pool.busy + 1 /\ pool'.owes = owed
          /\ pool'.owesOut = pool.owesOut /\ pool'.pushing = pool.pushing
      BY <1>2, <2>2, <2>3 DEF PoolType
    <2> QED
      BY <1>1, <1>2, <2>1, <2>3, <2>4 DEF PoolInv
  <1>7. CASE WorkerNotify
    <2>1. CASE pool.owes > 0 /\ pool' = [pool EXCEPT !.owes = @ - 1]
      <3>1. pool.owes - 1 \in Nat
        BY <1>2, <2>1
      <3>2. /\ pool' \in PoolType /\ pool'.busy = pool.busy /\ pool'.owes = pool.owes - 1
            /\ pool'.owesOut = pool.owesOut /\ pool'.pushing = pool.pushing
        BY <1>2, <2>1, <3>1 DEF PoolType
      <3> QED
        BY <1>1, <1>2, <3>2 DEF PoolInv
    <2>2. CASE pool.owesOut > 0 /\ pool' = [pool EXCEPT !.owesOut = @ - 1]
      <3>1. pool.owesOut - 1 \in Nat
        BY <1>2, <2>2
      <3>2. /\ pool' \in PoolType /\ pool'.busy = pool.busy /\ pool'.owes = pool.owes
            /\ pool'.owesOut = pool.owesOut - 1 /\ pool'.pushing = pool.pushing
        BY <1>2, <2>2, <3>1 DEF PoolType
      <3> QED
        BY <1>1, <1>2, <3>2 DEF PoolInv
    <2> QED
      BY <1>7, <2>1, <2>2 DEF WorkerNotify
  <1>8. CASE WorkerEmit
    <2>1. pool.pushing + 1 \in Nat /\ pool.busy > pool.owes + pool.owesOut + pool.pushing
      BY <1>2, <1>8 DEF WorkerEmit, WorkerFree
    <2>2. /\ pool' \in PoolType /\ pool'.busy = pool.busy /\ pool'.owes = pool.owes
          /\ pool'.owesOut = pool.owesOut /\ pool'.pushing = pool.pushing + 1
      BY <1>2, <1>8, <2>1 DEF PoolType, WorkerEmit
    <2> QED
      BY <1>1, <1>2, <2>1, <2>2 DEF PoolInv
  <1>12. CASE WorkerPush
    <2>1. pool.pushing - 1 \in Nat /\ pool.owesOut + 1 \in Nat
      BY <1>2, <1>12 DEF WorkerPush
    <2>2. /\ pool' \in PoolType /\ pool'.busy = pool.busy /\ pool'.owes = pool.owes
          /\ pool'.owesOut \in {pool.owesOut, pool.owesOut + 1} /\ pool'.pushing = pool.pushing - 1
      BY <1>2, <1>12, <2>1 DEF PoolType, WorkerPush
    <2> QED
      BY <1>1, <1>2, <2>1, <2>2 DEF PoolInv
  <1>9. CASE WorkerEnd
    <2>1. pool.busy > pool.owes + pool.owesOut + pool.pushing
      BY <1>9 DEF WorkerEnd, WorkerFree
    <2>2. pool.busy - 1 \in Nat /\ pool.made + 1 \in Nat /\ pool.deferrals + 1 \in Nat
      BY <1>2, <2>1
    <2>3. /\ pool' \in PoolType /\ pool'.busy = pool.busy - 1 /\ pool'.owes = pool.owes
          /\ pool'.owesOut = pool.owesOut /\ pool'.pushing = pool.pushing
      BY <1>2, <1>9, <2>2 DEF PoolType, WorkerEnd
    <2> QED
      BY <1>1, <1>2, <2>1, <2>3 DEF PoolInv
  <1>10. CASE PoolCompletes
    <2>1. pool.deferrals - 1 \in Nat /\ pool' = [pool EXCEPT !.deferrals = @ - 1]
      BY <1>2, <1>10 DEF PoolCompletes
    <2>2. /\ pool' \in PoolType /\ pool'.busy = pool.busy /\ pool'.owes = pool.owes
          /\ pool'.owesOut = pool.owesOut /\ pool'.pushing = pool.pushing
      BY <1>2, <2>1 DEF PoolType
    <2> QED
      BY <1>1, <1>2, <2>2 DEF PoolInv
  <1>11. CASE PoolDone
    <2>1. /\ pool' \in PoolType /\ pool'.busy = pool.busy /\ pool'.owes = pool.owes
          /\ pool'.owesOut = pool.owesOut /\ pool'.pushing = pool.pushing
      BY <1>2, <1>11 DEF PoolType, PoolDone
    <2> QED
      BY <1>1, <1>2, <2>1 DEF PoolInv
  <1> QED
    BY <1>4, <1>5, <1>6, <1>7, <1>8, <1>9, <1>10, <1>11, <1>12
    DEF Next, Pool

LEMMA FlagsNext ==
  ASSUME FlagTypes, Next
  PROVE  FlagTypes'
  <1>1. CASE LoopTop \/ NextEvent
    BY <1>1, Zenon DEF LoopTop, NextEvent, ObserveStop, BeginShutdown, ForceShutdown, stable, phaseVars,
       outVars, wakeups, control, FlagTypes
  <1>2. CASE Wait \/ HandleWakeup \/ HandleSession
    BY <1>2 DEF Wait, HandleWakeup, HandleSession, stable, phaseVars, outVars, wakeups, control, FlagTypes
  <1>3. CASE EndOfEvents \/ FlushEvent \/ AcceptEnd \/ DrainSize \/ ResumeClosed \/ Join \/ FlushAll
    BY <1>3 DEF EndOfEvents, FlushEvent, AcceptEnd, DrainSize, ResumeClosed, Join, FlushAll,
       exceptIo, exceptDisconnect, phaseVars, outVars, wakeups, control, FlagTypes
  <1>4. CASE \/ ExpireIdle \/ ReadStops \/ PushDisconnected \/ DrainReadsPop \/ DrainReadsError
             \/ ResumeReads \/ FlushEnd \/ CloseResources
    BY <1>4 DEF ExpireIdle, ReadStops, PushDisconnected, DrainReadsPop, DrainReadsError, ResumeReads,
       FlushEnd, CloseResources, exceptDisconnect, phaseVars, outVars, wakeups, control, FlagTypes
  <1>5. CASE Accept \/ ReadSession \/ Decode \/ DrainDisconnects \/ DrainReads \/ DrainReadsDecode
    BY <1>5 DEF Accept, ReadSession, Decode, DrainDisconnects, DrainReads, DrainReadsDecode, phaseVars, outVars, wakeups,
       control, FlagTypes
  <1>6. CASE DrainOutbound \/ FlushSend
    BY <1>6 DEF DrainOutbound, FlushSend, phaseVars, outVars, wakeups, control, FlagTypes
  <1>7. CASE DrainOutboundEnd \/ Yield
    <2>1. /\ UNCHANGED <<forcedShutdown, outboxClosed, stopRequested, late>>
      BY <1>7 DEF DrainOutboundEnd, Yield, stable, phaseVars, outVars, control
    <2>2. inWake' \in BOOLEAN /\ outWake' \in BOOLEAN
      BY <1>7, Zenon DEF DrainOutboundEnd, Yield, FlagTypes
    <2> QED
      BY <2>1, <2>2 DEF FlagTypes
  <1>8. CASE Advance \/ AdvanceInput \/ AdvanceStop \/ AdvanceFinished \/ Fail
    BY <1>8 DEF Advance, AdvanceInput, AdvanceStop, AdvanceFinished, Fail, ForceShutdown, stable,
       phaseVars, outVars, wakeups, control, FlagTypes
  <1>9. CASE Stop \/ DeadlinePasses
    BY <1>9 DEF Stop, DeadlinePasses, phaseVars, outVars, wakeups, control, FlagTypes
  <1>10. CASE Peers
    BY <1>10 DEF Peers, PeerConnects, PeerSends, PeerLeaves, unchangedByPeers, phaseVars, outVars,
       wakeups, control, FlagTypes
  <1>11. CASE Pool
    BY <1>11 DEF Pool, WorkerPop, WorkerNotify, WorkerEmit, WorkerPush, WorkerEnd, PoolCompletes, PoolDone,
       unchangedByPool, phaseVars, outVars, wakeups, control, FlagTypes
  <1> QED
    BY <1>1, <1>2, <1>3, <1>4, <1>5, <1>6, <1>7, <1>8, <1>9, <1>10, <1>11
    DEF Next, IoThread, Loop, Input, Output, Shutdown

-----------------------------------------------------------------------------
\* The inductive invariant of the server.
ServerInv == CoreInv /\ OutInv

LEMMA StutterOut ==
  ASSUME OutInv, UNCHANGED vars
  PROVE  OutInv'
  <1>1. /\ SameOut /\ UNCHANGED config /\ pool' = pool
        /\ UNCHANGED <<forcedShutdown, outboxClosed, inWake, outWake, stopRequested, late>>
    BY DEF vars, serverVars, writeVars, phaseVars, outVars, wakeups, control, SameOut
  <1>2. OutTypes' /\ WriteInv'
    BY <1>1, SameOutKeeps DEF OutInv
  <1>3. PoolInv' /\ FlagTypes'
    BY <1>1 DEF OutInv, PoolInv, FlagTypes, Workers
  <1> QED
    BY <1>2, <1>3 DEF OutInv

\* Every behaviour of the server stays within ServerInv.
THEOREM ServerInvariant == Spec => []ServerInv
  <1>1. Init => ServerInv
    BY InitCore, InitOut DEF ServerInv
  <1>2. ServerInv /\ [Next]_vars => ServerInv'
    <2> SUFFICES ASSUME ServerInv, [Next]_vars PROVE ServerInv'
      OBVIOUS
    <2>1. CoreInv /\ OutInv /\ OutTypes /\ PoolInv /\ FlagTypes /\ config \in Configs
      BY DEF ServerInv, OutInv, CoreInv, Typed
    <2>2. CASE Next
      BY <2>1, <2>2, NextCore, WritesNext, PoolNext, FlagsNext DEF ServerInv, OutInv
    <2>3. CASE UNCHANGED vars
      BY <2>1, <2>3, StutterCore, StutterOut DEF ServerInv
    <2> QED
      BY <2>2, <2>3
  <1> QED
    BY <1>1, <1>2, PTL DEF Spec

\* Whatever descriptors are closed, left in deferred_read_fds_ and given out again
\* by accept4, what a socket sends was addressed to its session, and a read put
\* off for a session that is gone is never done for another (DeliveredToOwner).
THEOREM AlwaysDeliveredToOwner == Spec => []DeliveredToOwner
  <1>1. ServerInv => DeliveredToOwner
    BY DEF ServerInv, CoreInv, OutInv, ReadQueue, WriteInv, Queued, DeliveredToOwner
  <1> QED
    BY <1>1, ServerInvariant, PTL

\* deferDisconnected never meets its limit, so its logic_error never ends the
\* server, and the inbox, the outbox and every pending_write_bytes_ stay within
\* theirs (DeferredWithinLimit).
THEOREM LimitsAlwaysHold == Spec => []DeferredWithinLimit
  <1>1. ServerInv => DeferredWithinLimit
    <2> SUFFICES ASSUME ServerInv PROVE DeferredWithinLimit
      OBVIOUS
    <2>1. /\ Typed /\ Within /\ OutTypes /\ WriteInv /\ PoolInv /\ FlagTypes
          /\ MaxPending \in Nat /\ Workers \in Nat
      BY ConfigIs DEF ServerInv, CoreInv, OutInv, Typed
    <2>2. pendingBytes \in [Ids -> 0..MaxPending]
      <3>1. ASSUME NEW id \in Ids PROVE pendingBytes[id] \in 0..MaxPending
        BY <2>1 DEF WriteInv, Queued
      <3> QED
        BY <2>1, <3>1 DEF WriteInv
    <2>3. pool.busy \in 0..Workers /\ pool.owes + pool.owesOut + pool.pushing <= pool.busy
      BY <2>1 DEF PoolInv, PoolType
    <2>4. {listener, paused, ctlPaused, forcedShutdown, outboxClosed, inWake, outWake,
           stopRequested, late} \subseteq BOOLEAN
      BY <2>1 DEF Typed, ReadingTypes, FlagTypes
    <2>5. TypeOK
      BY <2>1, <2>2, <2>3, <2>4 DEF TypeOK, Typed, MapTypes, InputTypes, ReadingTypes, EventTypes,
         DeferredTypes, OutTypes, Frames, Interests
    <2> QED
      BY <2>1, <2>5 DEF DeferredWithinLimit, Within
  <1> QED
    BY <1>1, ServerInvariant, PTL

-----------------------------------------------------------------------------
\* The stages of run(): reads happen while it is running or draining its input,
\* and a graceful end leaves nothing behind.

\* The thread drains input for advanceShutdown, or is just back from it.
StopDrain(j) == j.pc = "advanceStop" \/ (InDrain(j) /\ j.drainRet = "advanceStop")
Ending(j) == j.pc = "advanceEnd" \/ (j.pc \in Outing /\ j.outRet = "advanceEnd")

Stages ==
    /\ io.pc = "resume" \/ (io.pc \in Reading /\ io.readRet # "reads") => phase = "Running"
    /\ InDrain(io) => phase \in {"Running", "DrainingInput"}
    /\ StopDrain(io) => phase = "DrainingInput"
    /\ Ending(io) => phase = "DrainingOutput"

InputDrained == deferredDisconnects = <<>> /\ deferredReads = <<>>

Graceful ==
    /\ phase = "Forced" => forcedShutdown
    /\ io.pc = "advanceStop" /\ io.drained => InputDrained
    /\ phase \in {"DrainingOutput", "Complete"} /\ ~forcedShutdown => InputDrained
    /\ phase = "Complete" /\ ~forcedShutdown =>
         outbox = <<>> /\ outboxClosed /\ AllSessionWritesDrained

\* What is due to end a pause of reads: a pop at the low watermark, or its
\* notification.
Due == inbox > Low \/ inWake \/ pool.owes > 0

InReads(j) ==
    \/ j.pc \in {"reads", "readsDecode", "readsPop", "readsError", "readsDisconnect", "readsSize",
                 "resume?"}
    \/ j.pc \in Reading /\ j.drain

\* The session whose deferred read is done is no longer in the set.
ReadOnce == io.drain => io.fd \notin deferredReadSet

\* drainDeferredInput is under way, and will resume or be called again.
Resuming ==
    \/ io.pc \in {"disconnects", "pushDisconnected", "disconnectsSize"}
    \/ io.pc = "yield" /\ io.work = 0
    \/ InReads(io) /\ deferredDisconnects = <<>>

DueInv == phase = "Running" /\ paused /\ io.pc \notin Left => Due \/ Resuming

\* epoll watches for what updateInterest would compute.
Watched(fd) == interest[fd] = Wanted(fd, paused, phase, closing, writes)

\* Sessions to come have nothing queued.
Fresh == \A id \in Ids : id > nextId => ~closing[id] /\ writes[id] = <<>>

WatchInv ==
    /\ \A fd \in OpenFds \ {io.flushFd} : Watched(fd)
    /\ phase = "Running" /\ io.pc \notin Left => listener = ~paused
    /\ Fresh

\* Labels outside the calls that Stages speaks of.
Quiet == Looping \cup Left \cup {"flush"} \cup (Advancing \ {"advanceStop", "advanceEnd"})

\* What each step keeps; advanceStop is reached only from drainDeferredInput.
Staged == Stages' /\ (io'.pc = "advanceStop" => io.pc \in DrainingInput)

LEMMA QuietStages ==
  ASSUME io'.pc \in Quiet
  PROVE  Staged
  BY DEF Staged, Stages, StopDrain, Ending, InDrain, Quiet, Looping, Left, Advancing, Reading, DrainingInput,
     Outing

\* A step within a call.
LEMMA GoesStages ==
  ASSUME Stages, phase' = phase,
         io'.readRet = io.readRet, io'.drainRet = io.drainRet, io'.outRet = io.outRet,
         \/ io.pc \in Reading /\ io'.pc \in Reading
         \/ io.pc \in DrainingInput /\ io'.pc \in DrainingInput \ {"resume"}
         \/ io.pc \in Outing /\ io'.pc \in Outing
  PROVE  Staged
  BY DEF Staged, Stages, StopDrain, Ending, InDrain, Reading, DrainingInput, Outing

LEMMA ReadReturnStages ==
  ASSUME Stages, Calls, phase' = phase, io.pc \in Reading, io' = ReadReturn
  PROVE  Staged
  <1>1. io'.pc = io.readRet /\ io'.drainRet = io.drainRet
    BY DEF ReadReturn, Calls, IoType
  <1>2. io.readRet \in {"flushEvent", "events", "reads", "resume"}
    BY DEF Calls, CallsOK
  <1> QED
    BY <1>1, <1>2 DEF Staged, Stages, StopDrain, Ending, InDrain, Reading, DrainingInput, Outing

LEMMA DrainReturnStages ==
  ASSUME Stages, Calls, phase' = phase, io.pc \in DrainingInput, NEW result, io' = DrainReturn(result)
  PROVE  Staged
  <1>1. io'.pc = io.drainRet
    BY DEF DrainReturn, Calls, IoType
  <1>2. io.drainRet \in {"events", "advanceStop"} /\ InDrain(io)
    BY DEF Calls, CallsOK, InDrain
  <1> QED
    BY <1>1, <1>2 DEF Staged, Stages, StopDrain, Ending, InDrain, Reading, DrainingInput, Outing

LEMMA OutReturnStages ==
  ASSUME Stages, Calls, phase' = phase, io.pc \in Outing, io' = OutReturn
  PROVE  Staged
  <1>1. io'.pc = io.outRet
    BY DEF OutReturn, Calls, IoType
  <1>2. io.outRet \in {"events", "expire", "advanceInput", "advanceFinished", "advanceEnd", "flushAll"}
    BY DEF Calls, CallsOK
  <1> QED
    BY <1>1, <1>2 DEF Staged, Stages, StopDrain, Ending, InDrain, Reading, DrainingInput, Outing

LEMMA EnterOutStages ==
  ASSUME Calls, NEW ret, io' = EnterOut(ret), ret = "advanceEnd" => phase' = "DrainingOutput"
  PROVE  Staged
  <1>1. io'.pc = "out" /\ io'.outRet = ret
    BY DEF EnterOut, Calls, IoType
  <1> QED
    BY <1>1 DEF Staged, Stages, StopDrain, Ending, InDrain, Reading, DrainingInput, Outing

LEMMA EnterDrainStages ==
  ASSUME Calls, NEW ret, io' = EnterDrain(ret), phase' \in {"Running", "DrainingInput"},
         ret = "advanceStop" => phase' = "DrainingInput"
  PROVE  Staged
  <1>1. io'.pc = "disconnects" /\ io'.drainRet = ret
    BY DEF EnterDrain, Calls, IoType
  <1> QED
    BY <1>1 DEF Staged, Stages, StopDrain, Ending, InDrain, Reading, DrainingInput, Outing

\* readSession for an event; drainDeferredInput's calls of it.
LEMMA EnterReadStages ==
  ASSUME io'.pc = "read", phase' = "Running", io'.readRet \in {"events", "flushEvent"}
  PROVE  Staged
  BY DEF Staged, Stages, StopDrain, Ending, InDrain, Reading, DrainingInput, Outing

LEMMA DrainReadStages ==
  ASSUME Stages, io'.pc = "read", phase' = phase, io.pc \in DrainingInput,
         io'.drainRet = io.drainRet,
         io'.readRet = "reads" \/ (io'.readRet = "resume" /\ io.pc = "resume")
  PROVE  Staged
  BY DEF Staged, Stages, StopDrain, Ending, InDrain, Reading, DrainingInput, Outing

LEMMA LoopStages ==
  ASSUME CoreInv, Stages, Loop
  PROVE  Staged
  <1>1. Calls /\ io \in IoType /\ phase \in Phases
    BY DEF CoreInv, Calls, Typed
  <1>2. \A l \in Labels : [io EXCEPT !.pc = l].pc = l
    BY <1>1 DEF IoType
  <1>3. \A l \in Quiet : l \in Labels
    BY DEF Quiet, Labels
  <1>4. ASSUME NEW l \in Quiet, io' = [io EXCEPT !.pc = l] PROVE Staged
    BY <1>2, <1>3, <1>4, QuietStages
  <1>5. {"wait", "advance", "events", "event", "expire", "accept", "flushEvent", "top"} \subseteq Quiet
    BY DEF Quiet, Looping, Advancing
  <1>6. CASE LoopTop
    <2>1. io'.pc \in {"wait", "advance"}
      BY <1>1, <1>6 DEF LoopTop, IoType
    <2> QED
      BY <1>5, <2>1, QuietStages
  <1>7. CASE Wait
    BY <1>4, <1>5, <1>7 DEF Wait, Goto
  <1>8. CASE NextEvent
    BY <1>4, <1>5, <1>8 DEF NextEvent, Goto
  <1>9. CASE EndOfEvents
    <2>1. CASE io' = EnterOut("expire")
      BY <1>1, <2>1, EnterOutStages
    <2>2. CASE Goto("expire")
      BY <1>4, <1>5, <2>2 DEF Goto
    <2> QED
      BY <1>9, <2>1, <2>2 DEF EndOfEvents
  <1>10. CASE HandleWakeup
    <2>1. phase' = phase
      BY <1>10 DEF HandleWakeup, phaseVars
    <2>2. CASE io' = EnterOut("events")
      BY <1>1, <2>2, EnterOutStages
    <2>3. CASE Goto("events")
      BY <1>4, <1>5, <2>3 DEF Goto
    <2>4. CASE io' = EnterDrain("events") /\ phase \in {"Running", "DrainingInput"}
      BY <1>1, <2>1, <2>4, EnterDrainStages
    <2>5. CASE io' = [io EXCEPT !.pc = "accept", !.slots = AcceptLimit]
      <3>1. io'.pc = "accept"
        BY <1>1, <2>5 DEF IoType
      <3> QED
        BY <1>5, <3>1, QuietStages
    <2> QED
      BY <1>10, <2>2, <2>3, <2>4, <2>5 DEF HandleWakeup
  <1>11. CASE HandleSession
    <2>0. phase' = phase
      BY <1>11 DEF HandleSession, phaseVars
    <2>1. CASE Goto("events")
      BY <1>4, <1>5, <2>1 DEF Goto
    <2>2. ASSUME NEW fd, Disconnect(fd, [io EXCEPT !.pc = "events"]) PROVE Staged
      <3>1. io'.pc \in {"events", "failed"}
        BY <1>1, <2>2 DEF Disconnect, DeferDisconnected, IoType
      <3> QED
        BY <3>1, QuietStages DEF Quiet, Looping, Left
    <2>3. ASSUME NEW e, NEW l \in {"flushEvent", "events"},
                 io' = [[io EXCEPT !.ev = IF "OUT" \in e.flags THEN e ELSE @] EXCEPT !.pc = l]
          PROVE  Staged
      <3>1. io'.pc = l
        BY <1>1, <2>3 DEF IoType
      <3> QED
        BY <1>5, <3>1, QuietStages
    <2>4. ASSUME NEW fd, NEW x, NEW l \in {"flushEvent", "events"}, phase = "Running",
                 io' = [EnterRead(fd, FALSE, l) EXCEPT !.ev = x]
          PROVE  Staged
      <3>1. io'.pc = "read" /\ io'.readRet = l
        BY <1>1, <2>4 DEF IoType, EnterRead
      <3> QED
        BY <2>0, <2>4, <3>1, EnterReadStages
    <2>5. PICK e \in batch :
           LET id == e.token - 3
               fd == fdByToken[id]
               then == IF "OUT" \in e.flags THEN "flushEvent" ELSE "events"
               seen == [io EXCEPT !.ev = IF "OUT" \in e.flags THEN e ELSE @]
               after == [seen EXCEPT !.pc = then]
           IN  \/ Goto("events")
               \/ Disconnect(fd, [io EXCEPT !.pc = "events"])
               \/ phase = "Running" /\ io' = [EnterRead(fd, FALSE, then) EXCEPT !.ev = seen.ev]
               \/ io' = after
      BY <1>11 DEF HandleSession
    <2> QED
      BY <2>1, <2>2, <2>3, <2>4, <2>5
  <1>12. CASE FlushEvent
    <2>1. io'.pc \in {"flush", "events"}
      BY <1>1, <1>12 DEF FlushEvent, EnterFlush, IoType
    <2> QED
      BY <2>1, QuietStages DEF Quiet, Looping
  <1>13. CASE ExpireIdle
    <2>1. io'.pc \in {"expire", "failed", "top", "advance"}
      <3>1. ASSUME NEW fd, Disconnect(fd, io) PROVE io'.pc \in {"expire", "failed"}
        BY <1>1, <1>13, <3>1 DEF ExpireIdle, At, Disconnect, DeferDisconnected, IoType
      <3>2. ASSUME \/ io' = [io EXCEPT !.pc = "top"]
                   \/ io' = [io EXCEPT !.pc = "advance", !.advanceRet = "top"]
            PROVE  io'.pc \in {"top", "advance"}
        BY <1>1, <3>2 DEF IoType
      <3> QED
        BY <1>13, <3>1, <3>2 DEF ExpireIdle
    <2> QED
      BY <2>1, QuietStages DEF Quiet, Looping, Left, Advancing
  <1> QED
    BY <1>6, <1>7, <1>8, <1>9, <1>10, <1>11, <1>12, <1>13 DEF Loop

LEMMA DisconnectGoes ==
  ASSUME NEW fd, NEW next \in IoType, Disconnect(fd, next)
  PROVE  io' = next \/ io'.pc = "failed"
  <1>1. [next EXCEPT !.pc = "failed"].pc = "failed"
    BY DEF IoType
  <1> QED
    BY <1>1 DEF Disconnect, DeferDisconnected

\* One round of enqueueDecodedPackets stays within the call.
LEMMA EnqueueGoes ==
  ASSUME io \in IoType, NEW id, NEW counted, NEW onTrue, NEW onFalse, NEW onError,
         EnqueueDecoded(id, counted, onTrue, onFalse, onError)
  PROVE  /\ io'.pc \in {io.pc, onTrue, onFalse, onError}
         /\ io'.readRet = io.readRet /\ io'.drainRet = io.drainRet /\ io'.outRet = io.outRet
         /\ io'.drain = io.drain /\ io'.fd = io.fd
  <1>1. ASSUME NEW l, io' = [io EXCEPT !.pc = l]
        PROVE  /\ io'.pc = l
               /\ io'.readRet = io.readRet /\ io'.drainRet = io.drainRet /\ io'.outRet = io.outRet
               /\ io'.drain = io.drain /\ io'.fd = io.fd
    BY <1>1 DEF IoType
  <1>2. ASSUME NEW l, NEW w, io' = [io EXCEPT !.work = w, !.pc = l]
        PROVE  /\ io'.pc = l
               /\ io'.readRet = io.readRet /\ io'.drainRet = io.drainRet /\ io'.outRet = io.outRet
               /\ io'.drain = io.drain /\ io'.fd = io.fd
    BY <1>2 DEF IoType
  <1>3. \/ Goto(onTrue) \/ Goto(onError) \/ Goto(onFalse)
        \/ \E l \in {io.pc, onFalse}, w \in {io.work, io.work - 1} :
             io' = [io EXCEPT !.work = w, !.pc = l]
    <2>1. CASE Goto(onTrue) \/ Goto(onError) \/ Goto(onFalse)
      BY <2>1
    <2>2. CASE io' = [io EXCEPT !.work = IF counted THEN io.work - 1 ELSE io.work,
                                !.pc = IF inbox + 1 >= High THEN onFalse ELSE @]
      <3> DEFINE w == IF counted THEN io.work - 1 ELSE io.work
                 l == IF inbox + 1 >= High THEN onFalse ELSE io.pc
      <3>1. io' = [io EXCEPT !.work = w, !.pc = l]
        BY <2>2 DEF IoType
      <3>2. w \in {io.work, io.work - 1} /\ l \in {io.pc, onFalse}
        OBVIOUS
      <3> HIDE DEF w, l
      <3> QED
        BY <3>1, <3>2
    <2> QED
      BY <2>1, <2>2 DEF EnqueueDecoded
  <1> QED
    BY <1>1, <1>2, <1>3 DEF Goto

LEMMA InputStages ==
  ASSUME CoreInv, Stages, Input
  PROVE  Staged
  <1>1. Calls /\ io \in IoType /\ CallsOK(io) /\ phase \in Phases /\ config \in Configs
    BY DEF CoreInv, Calls, Typed
  <1>2. phase' = phase
    <2>1. CASE AcceptEnd \/ DrainSize \/ ResumeClosed
      BY <2>1, OnlyIo DEF AcceptEnd, DrainSize, ResumeClosed
    <2>2. CASE Accept \/ ReadSession \/ Decode \/ Yield \/ DrainDisconnects \/ DrainReads
             \/ DrainReadsDecode
      BY <2>2 DEF Accept, ReadSession, Decode, Yield, DrainDisconnects, DrainReads, DrainReadsDecode,
         phaseVars
    <2>3. CASE ReadStops \/ PushDisconnected \/ DrainReadsPop \/ DrainReadsError \/ ResumeReads
      BY <2>3 DEF ReadStops, PushDisconnected, DrainReadsPop, DrainReadsError, ResumeReads,
         exceptDisconnect, phaseVars
    <2> QED
      BY <2>1, <2>2, <2>3 DEF Input
  <1>3. ASSUME NEW l, io' = [io EXCEPT !.pc = l]
        PROVE  /\ io'.pc = l
               /\ io'.readRet = io.readRet /\ io'.drainRet = io.drainRet /\ io'.outRet = io.outRet
    BY <1>1, <1>3 DEF IoType
  <1>4. CASE io'.pc = "failed"
    BY <1>4, QuietStages DEF Quiet, Left
  <1>5. CASE AcceptEnd \/ Accept
    <2>1. io'.pc \in {"events", "accept", "failed"}
      BY ZenonT(60), <1>1, <1>5 DEF AcceptEnd, Accept, Goto, At, IoType
    <2> QED
      BY <2>1, QuietStages DEF Quiet, Left, Looping
  <1>6. ASSUME io.pc \in Reading, io' = ReadReturn PROVE Staged
    BY <1>1, <1>2, <1>6, ReadReturnStages
  <1>7. io.pc \in Reading => ReadReturn \in IoType
    BY <1>1, ReadReturnIs
  <1>8. CASE ReadSession
    <2>1. io.pc \in Reading
      BY <1>8 DEF ReadSession, At, Reading
    <2>2. CASE io' = ReadReturn
      BY <1>6, <2>1, <2>2
    <2>3. CASE Disconnect(io.fd, ReadReturn)
      BY <1>4, <1>6, <1>7, <2>1, <2>3, DisconnectGoes
    <2>4. CASE Goto("decode")
      BY <1>2, <1>3, <2>1, <2>4, GoesStages DEF Goto, Reading
    <2> QED
      BY SMTT(40), <1>8, <2>2, <2>3, <2>4 DEF ReadSession
  <1>9. CASE Decode
    <2>1. io.pc = "decode"
      BY <1>9 DEF Decode, At
    <2>2. /\ io'.pc \in {io.pc, "read", "readDefer", "readError"}
          /\ io'.readRet = io.readRet /\ io'.drainRet = io.drainRet /\ io'.outRet = io.outRet
      BY <1>1, <1>9, EnqueueGoes DEF Decode
    <2> QED
      BY <1>2, <2>1, <2>2, GoesStages DEF Reading
  <1>10. CASE ReadStops
    <2>1. io.pc \in Reading
      BY <1>10 DEF ReadStops, At, Reading
    <2> QED
      BY <1>4, <1>6, <1>7, <1>10, <2>1, DisconnectGoes DEF ReadStops
  <1>11. ASSUME NEW result, io.pc \in DrainingInput, io' = DrainReturn(result) PROVE Staged
    BY <1>1, <1>2, <1>11, DrainReturnStages
  <1>12. ASSUME NEW l \in DrainingInput \ {"resume"}, io.pc \in DrainingInput,
                io' = [io EXCEPT !.pc = l]
         PROVE  Staged
    BY <1>2, <1>3, <1>12, GoesStages
  <1>13. CASE Yield
    <2>1. io.pc \in DrainingInput
      BY <1>13 DEF Yield, At, DrainingInput
    <2> QED
      BY <1>11, <1>13, <2>1 DEF Yield
  <1>14. CASE DrainDisconnects
    <2>1. io.pc = "disconnects" /\ io.pc \in DrainingInput
      BY <1>14 DEF DrainDisconnects, At, DrainingInput
    <2>2. CASE Goto("reads")
      BY <1>12, <2>1, <2>2 DEF Goto, DrainingInput
    <2>3. CASE EnqueueDecoded(Head(deferredDisconnects), TRUE,
                              "pushDisconnected", "yield", "pushDisconnected")
      <3>1. /\ io'.pc \in {io.pc, "pushDisconnected", "yield", "pushDisconnected"}
            /\ io'.readRet = io.readRet /\ io'.drainRet = io.drainRet /\ io'.outRet = io.outRet
        BY <1>1, <2>3, EnqueueGoes
      <3> QED
        BY <1>2, <2>1, <3>1, GoesStages DEF DrainingInput
    <2> QED
      BY <1>14, <2>2, <2>3 DEF DrainDisconnects
  <1>15. CASE PushDisconnected
    <2>1. io.pc \in DrainingInput
      BY <1>15 DEF PushDisconnected, At, DrainingInput
    <2>2. CASE io' = [io EXCEPT !.work = @ - 1, !.pc = "disconnectsSize"]
      <3>1. /\ io'.pc = "disconnectsSize"
            /\ io'.readRet = io.readRet /\ io'.drainRet = io.drainRet /\ io'.outRet = io.outRet
        BY <1>1, <2>2 DEF IoType
      <3> QED
        BY <1>2, <2>1, <3>1, GoesStages DEF DrainingInput
    <2> QED
      BY <1>11, <1>15, <2>1, <2>2 DEF PushDisconnected
  <1>16. CASE DrainSize
    <2>1. io.pc \in DrainingInput
      BY <1>16 DEF DrainSize, At, DrainingInput
    <2>2. \/ io' = DrainReturn(FALSE)
          \/ io' = [io EXCEPT !.pc = "reads"]
          \/ io' = [io EXCEPT !.pc = "disconnects"]
      BY <1>16 DEF DrainSize
    <2>3. {"reads", "disconnects"} \subseteq DrainingInput \ {"resume"}
      BY DEF DrainingInput
    <2> QED
      BY <1>11, <1>12, <2>1, <2>2, <2>3
  <1>17. CASE DrainReads
    <2>1. io.pc = "reads" /\ io.pc \in DrainingInput
      BY <1>17 DEF DrainReads, At, DrainingInput
    <2>2. CASE Goto("resume?")
      BY <1>12, <2>1, <2>2 DEF Goto, DrainingInput
    <2>3. CASE io' = io
      BY <1>2, <2>1, <2>3, GoesStages DEF DrainingInput
    <2>4. CASE Goto("readsDecode")
      BY <1>12, <2>1, <2>4 DEF Goto, DrainingInput
    <2> QED
      BY <1>17, <2>2, <2>3, <2>4 DEF DrainReads
  <1>26. CASE DrainReadsDecode
    <2>1. io.pc = "readsDecode" /\ io.pc \in DrainingInput
      BY <1>26 DEF DrainReadsDecode, At, DrainingInput
    <2>2. /\ io'.pc \in {io.pc, "readsPop", "yield", "readsError"}
          /\ io'.readRet = io.readRet /\ io'.drainRet = io.drainRet /\ io'.outRet = io.outRet
      BY <1>1, <1>26, EnqueueGoes DEF DrainReadsDecode
    <2> QED
      BY <1>2, <2>1, <2>2, GoesStages DEF DrainingInput
  <1>18. CASE DrainReadsPop
    <2>1. io.pc \in DrainingInput
      BY <1>18 DEF DrainReadsPop, At, DrainingInput
    <2>2. CASE io' = [io EXCEPT !.pc = "reads"]
      BY <1>12, <2>1, <2>2 DEF DrainingInput
    <2>3. CASE io' = EnterRead(Head(deferredReads), TRUE, "reads")
      <3>1. io'.pc = "read" /\ io'.readRet = "reads" /\ io'.drainRet = io.drainRet
        BY <1>1, <2>3 DEF EnterRead, IoType
      <3> QED
        BY <1>2, <2>1, <3>1, DrainReadStages
    <2> QED
      BY <1>18, <2>2, <2>3 DEF DrainReadsPop
  <1>19. CASE DrainReadsError
    <2>1. io.pc \in DrainingInput
      BY <1>19 DEF DrainReadsError, At, DrainingInput
    <2>2. ASSUME NEW fd, NEW l \in {"readsDisconnect", "readsSize"},
                 io' = [io EXCEPT !.pc = l, !.fd = fd]
          PROVE  Staged
      <3>1. /\ io'.pc = l
            /\ io'.readRet = io.readRet /\ io'.drainRet = io.drainRet /\ io'.outRet = io.outRet
        BY <1>1, <2>2 DEF IoType
      <3> QED
        BY <1>2, <2>1, <3>1, GoesStages DEF DrainingInput
    <2>3. [io EXCEPT !.pc = "readsSize", !.fd = NoFd] \in IoType
      <3>1. "readsSize" \in Labels
        BY DEF Labels, DrainingInput
      <3> QED
        BY <1>1, <3>1 DEF IoType
    <2> QED
      BY <1>4, <1>19, <2>2, <2>3, DisconnectGoes DEF DrainReadsError
  <1>20. CASE ResumeReads
    <2>1. io.pc = "resume?" /\ io.pc \in DrainingInput
      BY <1>20 DEF ResumeReads, At, DrainingInput
    <2>2. CASE \E fds : io' = [io EXCEPT !.pc = "resume", !.closed = fds] /\ phase = "Running"
      <3>1. io'.pc = "resume" /\ io'.drainRet = io.drainRet /\ phase' = "Running"
        BY <1>1, <1>2, <2>2 DEF IoType
      <3> QED
        BY <1>2, <2>1, <3>1 DEF Staged, Stages, StopDrain, Ending, InDrain, Reading, DrainingInput, Outing
    <2>3. CASE io' = DrainReturn(deferredDisconnects = <<>>)
      BY <1>11, <2>1, <2>3
    <2> QED
      BY <1>20, <2>2, <2>3 DEF ResumeReads
  <1>21. CASE ResumeClosed
    <2>1. io.pc = "resume" /\ io.pc \in DrainingInput
      BY <1>21 DEF ResumeClosed, At, DrainingInput
    <2>2. CASE io' = DrainReturn(TRUE)
      BY <1>11, <2>1, <2>2
    <2>3. ASSUME NEW fd, io' = [EnterRead(fd, FALSE, "resume") EXCEPT !.closed = @ \ {fd}]
          PROVE  Staged
      <3>1. io'.pc = "read" /\ io'.readRet = "resume" /\ io'.drainRet = io.drainRet
        BY <1>1, <2>3 DEF EnterRead, IoType
      <3> QED
        BY <1>2, <2>1, <3>1, DrainReadStages
    <2> QED
      BY <1>21, <2>2, <2>3 DEF ResumeClosed
  <1> QED
    BY <1>5, <1>8, <1>9, <1>10, <1>13, <1>14, <1>15, <1>16, <1>17, <1>18, <1>19, <1>20, <1>21, <1>26
    DEF Input

LEMMA OutputStages ==
  ASSUME CoreInv, Stages, Output
  PROVE  Staged
  <1>1. Calls /\ io \in IoType /\ CallsOK(io) /\ phase \in Phases
    BY DEF CoreInv, Calls, Typed
  <1>2. phase' = phase
    <2>1. CASE DrainOutbound \/ DrainOutboundEnd \/ FlushSend
      BY <2>1 DEF DrainOutbound, DrainOutboundEnd, FlushSend, phaseVars
    <2>2. CASE FlushEnd
      BY <2>2 DEF FlushEnd, exceptDisconnect, phaseVars
    <2> QED
      BY <2>1, <2>2 DEF Output
  <1>3. CASE io'.pc = "failed"
    BY <1>3, QuietStages DEF Quiet, Left
  <1>4. CASE DrainOutbound
    <2> DEFINE next == [io EXCEPT !.popped = @ + 1]
    <2>1. io.pc \in Outing
      BY <1>4 DEF DrainOutbound, At, Outing
    <2>2. next \in IoType
      <3>1. io.popped \in Nat
        BY <1>1 DEF IoType
      <3>2. io.popped + 1 \in Nat
        BY <3>1
      <3> QED
        BY <1>1, <3>2 DEF IoType
    <2>3. /\ next.pc = io.pc
          /\ next.readRet = io.readRet /\ next.drainRet = io.drainRet /\ next.outRet = io.outRet
      BY <1>1 DEF IoType
    <2> HIDE DEF next
    <2>4. CASE io' = next
      BY <1>2, <2>1, <2>3, <2>4, GoesStages
    <2>5. io' = next \/ \E fd : Disconnect(fd, next)
      BY <1>4 DEF DrainOutbound, next
    <2> QED
      BY <1>3, <2>2, <2>4, <2>5, DisconnectGoes
  <1>5. CASE DrainOutboundEnd
    <2>1. io.pc \in Outing
      BY <1>5 DEF DrainOutboundEnd, At, Outing
    <2>2. CASE Goto("outSize")
      <3>1. /\ io'.pc = "outSize"
            /\ io'.readRet = io.readRet /\ io'.drainRet = io.drainRet /\ io'.outRet = io.outRet
        BY <1>1, <2>2 DEF Goto, IoType
      <3> QED
        BY <1>2, <2>1, <3>1, GoesStages DEF Outing
    <2>3. CASE io' = OutReturn
      BY <1>1, <1>2, <2>1, <2>3, OutReturnStages
    <2> QED
      BY <1>5, <2>2, <2>3 DEF DrainOutboundEnd, OutReturn
  <1>6. CASE FlushSend \/ FlushEnd
    <2>1. io.pc = "flush"
      BY <1>6 DEF FlushSend, FlushEnd, At
    <2>2. FlushReturn \in IoType /\ FlushReturn.pc \in {"events", "flushNext"}
      BY <1>1, <2>1, FlushReturnIs
    <2>3. \/ \E n : io' = [io EXCEPT !.sent = @ + n]
          \/ io' = FlushReturn
          \/ \E fd : Disconnect(fd, FlushReturn)
      BY <1>6 DEF FlushSend, FlushEnd
    <2>4. io'.pc \in {"flush", "events", "flushNext", "failed"}
      <3>1. ASSUME NEW n, io' = [io EXCEPT !.sent = @ + n] PROVE io'.pc = "flush"
        BY <1>1, <2>1, <3>1 DEF IoType
      <3> QED
        BY <2>2, <2>3, <3>1, DisconnectGoes
    <2> QED
      BY <2>4, QuietStages DEF Quiet, Looping, Left
  <1> QED
    BY <1>4, <1>5, <1>6 DEF Output

LEMMA ShutdownStages ==
  ASSUME CoreInv, Stages, Shutdown
  PROVE  Staged
  <1>1. Calls /\ io \in IoType /\ CallsOK(io) /\ phase \in Phases /\ config \in Configs
    BY DEF CoreInv, Calls, Typed
  <1>2. io.pc \in Advancing => AdvanceReturn.pc \in {"wait", "top"}
    BY <1>1, AdvanceReturnIs
  <1>3. ASSUME NEW d, io.pc \in Advancing, io' = [AdvanceReturn EXCEPT !.drained = d]
        PROVE  io'.pc \in {"wait", "top"}
    <2>1. io'.pc = AdvanceReturn.pc
      BY <1>1, <1>3 DEF AdvanceReturn, IoType
    <2> QED
      BY <1>2, <1>3, <2>1
  <1>4. ASSUME io'.pc \in {"wait", "top", "join", "advance", "advanceOutput", "close", "flushNext",
                           "flush", "failedJoin", "stopped"}
        PROVE  Staged
    BY <1>4, QuietStages DEF Quiet, Looping, Left, Advancing
  <1>5. [AdvanceReturn EXCEPT !.pc = "join"].pc = "join"
    BY <1>1 DEF AdvanceReturn, IoType
  <1>6. CASE Advance
    <2>1. io.pc = "advance" /\ io.pc \in Advancing
      BY <1>6 DEF Advance, At, Advancing
    <2>2. \/ io' = io
          \/ io' = EnterOut("advanceInput")
          \/ io' = AdvanceReturn
          \/ io' = [AdvanceReturn EXCEPT !.pc = "join"]
      BY <1>6 DEF Advance
    <2>3. CASE io' = EnterOut("advanceInput")
      BY <1>1, <2>3, EnterOutStages
    <2> QED
      BY <1>2, <1>4, <1>5, <2>1, <2>2, <2>3
  <1>7. CASE AdvanceInput
    <2>1. io.pc \in Advancing
      BY <1>7 DEF AdvanceInput, At, Advancing
    <2>2. CASE io' = [AdvanceReturn EXCEPT !.drained = FALSE]
      BY <1>3, <1>4, <2>1, <2>2
    <2>3. CASE io' = EnterDrain("advanceStop") /\ phase = "DrainingInput" /\ phase' = phase
      BY <1>1, <2>3, EnterDrainStages
    <2>4. CASE io' = [io EXCEPT !.pc = "advanceOutput"]
      <3>1. io'.pc = "advanceOutput"
        BY <1>1, <2>4 DEF IoType
      <3> QED
        BY <1>4, <3>1
    <2>5. CASE io' = EnterOut("advanceFinished")
      BY <1>1, <2>5, EnterOutStages
    <2> QED
      BY <1>7, <2>2, <2>3, <2>4, <2>5 DEF AdvanceInput, phaseVars
  <1>8. CASE AdvanceStop
    <2>1. io'.pc = "advanceOutput"
      BY <1>1, <1>8 DEF AdvanceStop, Goto, IoType
    <2> QED
      BY <1>4, <2>1
  <1>9. CASE AdvanceFinished
    <2>1. io.pc \in Advancing
      BY <1>9 DEF AdvanceFinished, At, Advancing
    <2>2. CASE io' = EnterOut("advanceEnd") /\ phase = "DrainingOutput" /\ phase' = phase
      BY <1>1, <2>2, EnterOutStages
    <2>3. CASE io' = AdvanceReturn \/ io' = [AdvanceReturn EXCEPT !.pc = "join"]
      BY <1>2, <1>4, <1>5, <2>1, <2>3
    <2> QED
      BY <1>9, <2>2, <2>3 DEF AdvanceFinished
  <1>10. CASE Join
    <2>1. CASE io' = [io EXCEPT !.pc = "close"]
      <3>1. io'.pc = "close"
        BY <1>1, <2>1 DEF IoType
      <3> QED
        BY <1>4, <3>1
    <2>2. CASE io' = EnterOut("flushAll")
      BY <1>1, <2>2, EnterOutStages
    <2> QED
      BY <1>10, <2>1, <2>2 DEF Join
  <1>11. CASE FlushAll
    <2>1. ASSUME NEW fd, io' = [EnterFlush(fd, "flushNext") EXCEPT !.closed = @ \ {fd}]
          PROVE  io'.pc = "flush"
      BY <1>1, <2>1 DEF EnterFlush, IoType
    <2>2. ASSUME NEW fds, io' = [io EXCEPT !.pc = "flushNext", !.closed = fds]
          PROVE  io'.pc = "flushNext"
      BY <1>1, <2>2 DEF IoType
    <2>3. ASSUME Goto("close") PROVE io'.pc = "close"
      BY <1>1, <2>3 DEF Goto, IoType
    <2> QED
      BY <1>4, <1>11, <2>1, <2>2, <2>3 DEF FlushAll
  <1>12. CASE CloseResources
    <2>1. io'.pc = "stopped"
      BY <1>12 DEF CloseResources, Start
    <2> QED
      BY <1>4, <2>1
  <1>13. CASE Fail
    <2>1. io'.pc \in {"failedJoin", "close"}
      BY <1>1, <1>13 DEF Fail, Goto, IoType
    <2> QED
      BY <1>4, <2>1
  <1> QED
    BY <1>6, <1>7, <1>8, <1>9, <1>10, <1>11, <1>12, <1>13 DEF Shutdown

\* The other threads and the peers leave the I/O thread where it is.
LEMMA OthersStay ==
  ASSUME Stop \/ DeadlinePasses \/ Pool \/ Peers
  PROVE  UNCHANGED <<io, phase, forcedShutdown, maps, deferredVars, reading, closing, writes>>
  <1>1. CASE Stop \/ DeadlinePasses
    BY <1>1 DEF Stop, DeadlinePasses, loopVars, phaseVars, writeVars
  <1>2. CASE Pool
    BY <1>2 DEF Pool, WorkerPop, WorkerNotify, WorkerEmit, WorkerPush, WorkerEnd, PoolCompletes, PoolDone,
       unchangedByPool, loopVars, phaseVars, writeVars
  <1>3. CASE Peers
    BY <1>3 DEF Peers, PeerConnects, PeerSends, PeerLeaves, unchangedByPeers, loopVars, phaseVars,
       writeVars
  <1> QED
    BY <1>1, <1>2, <1>3

LEMMA StagesNext ==
  ASSUME CoreInv, Stages, Next
  PROVE  Stages'
  <1>1. CASE IoThread
    BY <1>1, LoopStages, InputStages, OutputStages, ShutdownStages DEF IoThread, Staged
  <1>2. CASE Stop \/ DeadlinePasses \/ Pool \/ Peers
    <2>1. io' = io /\ phase' = phase
      BY <1>2, OthersStay
    <2> QED
      BY <2>1 DEF Stages
  <1> QED
    BY <1>1, <1>2 DEF Next

-----------------------------------------------------------------------------
\* A graceful end.

\* Once the input is drained, disconnect() puts nothing off.
LEMMA DisconnectPutsNothingOff ==
  ASSUME NEW fd, NEW next, Disconnect(fd, next), phase \notin {"Running", "DrainingInput"}
  PROVE  UNCHANGED <<deferredReads, deferredDisconnects>>
  BY SMTT(40) DEF Disconnect, Forget, PushesNow, PutsOff

LEMMA NoInputLeft ==
  ASSUME CoreInv, Stages, Input, phase \notin {"Running", "DrainingInput"}
  PROVE  AcceptEnd
  <1>1. Calls /\ Positions
    BY DEF CoreInv
  <1>2. io.pc \notin DrainingInput \cup Reading
    BY DEF Stages, InDrain, DrainingInput, Reading
  <1>3. io.pc # "accept"
    BY <1>1 DEF Positions
  <1> QED
    BY <1>2, <1>3 DEF Input, Accept, ReadSession, Decode, ReadStops, Yield, DrainDisconnects,
       PushDisconnected, DrainSize, DrainReads, DrainReadsDecode, DrainReadsPop, DrainReadsError, ResumeReads,
       ResumeClosed, At, DrainingInput, Reading

LEMMA DrainedStays ==
  ASSUME CoreInv, Stages, IoThread, phase \notin {"Running", "DrainingInput"}, InputDrained
  PROVE  InputDrained'
  <1>1. CASE UNCHANGED deferredVars
    BY <1>1 DEF deferredVars, InputDrained
  <1>2. ASSUME NEW fd, NEW next, Disconnect(fd, next) PROVE InputDrained'
    BY <1>2, DisconnectPutsNothingOff DEF InputDrained
  <1>3. CASE Loop
    <2>1. CASE LoopTop \/ Wait \/ NextEvent \/ HandleWakeup
      BY <1>1, <2>1 DEF LoopTop, Wait, NextEvent, HandleWakeup, stable
    <2>2. CASE EndOfEvents \/ FlushEvent
      BY <1>1, <2>2 DEF EndOfEvents, FlushEvent, exceptIo
    <2>3. CASE HandleSession
      <3>1. \/ UNCHANGED deferredVars
            \/ \E fd, next : Disconnect(fd, next)
        BY <2>3 DEF HandleSession
      <3> QED
        BY <1>1, <1>2, <3>1
    <2>4. CASE ExpireIdle
      BY <1>1, <1>2, <2>4 DEF ExpireIdle
    <2> QED
      BY <1>3, <2>1, <2>2, <2>3, <2>4 DEF Loop
  <1>4. CASE Input
    BY <1>1, <1>4, NoInputLeft DEF AcceptEnd, exceptIo
  <1>5. CASE Output
    <2>1. CASE DrainOutbound
      <3>1. \/ UNCHANGED deferredVars
            \/ \E fd, next : Disconnect(fd, next)
        BY <2>1 DEF DrainOutbound
      <3> QED
        BY <1>1, <1>2, <3>1
    <2>2. CASE DrainOutboundEnd
      BY <1>1, <2>2 DEF DrainOutboundEnd, stable
    <2>3. CASE FlushSend \/ FlushEnd
      <3>1. \/ UNCHANGED deferredVars
            \/ \E fd, next : Disconnect(fd, next)
        BY <2>3 DEF FlushSend, FlushEnd
      <3> QED
        BY <1>1, <1>2, <3>1
    <2> QED
      BY <1>5, <2>1, <2>2, <2>3 DEF Output
  <1>6. CASE Shutdown
    <2>1. CASE Advance \/ AdvanceInput \/ AdvanceStop \/ AdvanceFinished \/ Fail
      BY <1>1, <2>1 DEF Advance, AdvanceInput, AdvanceStop, AdvanceFinished, Fail, stable
    <2>2. CASE Join \/ FlushAll
      BY <1>1, <2>2 DEF Join, FlushAll, exceptIo
    <2>3. CASE CloseResources
      BY <2>3 DEF CloseResources, InputDrained
    <2> QED
      BY <1>6, <2>1, <2>2, <2>3 DEF Shutdown
  <1> QED
    BY <1>3, <1>4, <1>5, <1>6 DEF IoThread

\* Sessions are only lost once the server no longer runs.
LEMMA SessionsOnlyLost ==
  ASSUME CoreInv, Stages, IoThread, phase \notin {"Running", "DrainingInput"}
  PROVE  \A fd \in Fds : sessionAt'[fd] \in {sessionAt[fd], 0}
  <1>0. sessionAt \in [Fds -> {0} \cup Ids]
    BY DEF CoreInv, Typed, MapTypes
  <1>1. CASE UNCHANGED maps
    BY <1>1 DEF maps
  <1>2. ASSUME NEW fd, NEW next, Disconnect(fd, next)
        PROVE  \A other \in Fds : sessionAt'[other] \in {sessionAt[other], 0}
    <2>1. sessionAt' = [sessionAt EXCEPT ![fd] = 0]
      BY <1>2 DEF Disconnect, Forget
    <2> QED
      BY <1>0, <2>1
  <1>3. CASE Loop
    <2>1. CASE LoopTop \/ Wait \/ NextEvent \/ HandleWakeup
      BY <1>1, <2>1 DEF LoopTop, Wait, NextEvent, HandleWakeup, stable
    <2>2. CASE EndOfEvents \/ FlushEvent
      BY <1>1, <2>2 DEF EndOfEvents, FlushEvent, exceptIo
    <2>3. CASE HandleSession
      <3>1. \/ UNCHANGED maps
            \/ \E fd, next : Disconnect(fd, next)
        BY <2>3 DEF HandleSession
      <3> QED
        BY <1>1, <1>2, <3>1
    <2>4. CASE ExpireIdle
      BY <1>1, <1>2, <2>4 DEF ExpireIdle
    <2> QED
      BY <1>3, <2>1, <2>2, <2>3, <2>4 DEF Loop
  <1>4. CASE Input
    BY <1>1, <1>4, NoInputLeft DEF AcceptEnd, exceptIo
  <1>5. CASE Output
    <2>1. CASE DrainOutbound
      <3>1. \/ UNCHANGED maps
            \/ \E fd, next : Disconnect(fd, next)
        BY <2>1 DEF DrainOutbound
      <3> QED
        BY <1>1, <1>2, <3>1
    <2>2. CASE DrainOutboundEnd
      BY <1>1, <2>2 DEF DrainOutboundEnd, stable
    <2>3. CASE FlushSend \/ FlushEnd
      <3>1. \/ UNCHANGED maps
            \/ \E fd, next : Disconnect(fd, next)
        BY <2>3 DEF FlushSend, FlushEnd
      <3> QED
        BY <1>1, <1>2, <3>1
    <2> QED
      BY <1>5, <2>1, <2>2, <2>3 DEF Output
  <1>6. CASE Shutdown
    <2>1. CASE Advance \/ AdvanceInput \/ AdvanceStop \/ AdvanceFinished \/ Fail
      BY <1>1, <2>1 DEF Advance, AdvanceInput, AdvanceStop, AdvanceFinished, Fail, stable
    <2>2. CASE Join \/ FlushAll
      BY <1>1, <2>2 DEF Join, FlushAll, exceptIo
    <2>3. CASE CloseResources
      BY <2>3 DEF CloseResources
    <2> QED
      BY <1>6, <2>1, <2>2, <2>3 DEF Shutdown
  <1> QED
    BY <1>3, <1>4, <1>5, <1>6 DEF IoThread

\* How the phase changes.
PhaseStep ==
    \/ UNCHANGED phaseVars
    \/ phase = "Running" /\ BeginShutdown
    \/ late /\ phase' = "Forced" /\ forcedShutdown' = TRUE
    \/ phase = "Forced" /\ phase' = "Complete" /\ forcedShutdown' = forcedShutdown
    \/ /\ io.pc = "advanceStop" /\ io.drained /\ phase' = "DrainingOutput"
       /\ UNCHANGED <<deferredVars, forcedShutdown>>
    \/ /\ io.pc = "advanceEnd" /\ outbox = <<>> /\ AllSessionWritesDrained
       /\ phase' = "Complete" /\ outboxClosed' = TRUE
       /\ UNCHANGED <<deferredVars, maps, writes, outbox, forcedShutdown>>

LEMMA PhaseSteps ==
  ASSUME IoThread
  PROVE  PhaseStep
  <1>1. CASE LoopTop \/ NextEvent
    BY <1>1 DEF LoopTop, NextEvent, ObserveStop, ForceShutdown, PhaseStep
  <1>2. CASE Wait \/ HandleWakeup \/ HandleSession
    BY <1>2 DEF Wait, HandleWakeup, HandleSession, PhaseStep
  <1>3. CASE EndOfEvents \/ FlushEvent \/ AcceptEnd \/ DrainSize \/ ResumeClosed \/ Join \/ FlushAll
    BY <1>3 DEF EndOfEvents, FlushEvent, AcceptEnd, DrainSize, ResumeClosed, Join, FlushAll,
       exceptIo, exceptDisconnect, PhaseStep
  <1>4. CASE \/ ExpireIdle \/ ReadStops \/ PushDisconnected \/ DrainReadsPop \/ DrainReadsError
             \/ ResumeReads \/ FlushEnd \/ CloseResources
    BY <1>4 DEF ExpireIdle, ReadStops, PushDisconnected, DrainReadsPop, DrainReadsError, ResumeReads,
       FlushEnd, CloseResources, exceptDisconnect, PhaseStep
  <1>5. CASE Accept \/ ReadSession \/ Decode \/ Yield
    BY <1>5 DEF Accept, ReadSession, Decode, Yield, PhaseStep
  <1>6. CASE DrainDisconnects \/ DrainReads \/ DrainReadsDecode \/ DrainOutbound \/ DrainOutboundEnd \/ FlushSend
    BY <1>6 DEF DrainDisconnects, DrainReads, DrainReadsDecode, DrainOutbound, DrainOutboundEnd, FlushSend, PhaseStep
  <1>7. CASE Advance \/ AdvanceInput
    <2>1. \/ UNCHANGED phaseVars
          \/ late /\ ForceShutdown
          \/ phase = "Forced" /\ phase' \in {"Complete", phase} /\ UNCHANGED forcedShutdown
      BY <1>7 DEF Advance, AdvanceInput
    <2> QED
      BY <2>1 DEF ForceShutdown, PhaseStep, phaseVars
  <1>8. CASE AdvanceStop
    <2>1. io.pc = "advanceStop" /\ UNCHANGED <<deferredVars, forcedShutdown>>
      BY <1>8 DEF AdvanceStop, At, stable
    <2> QED
      BY <1>8, <2>1 DEF AdvanceStop, PhaseStep, phaseVars
  <1>9. CASE AdvanceFinished
    <2>1. UNCHANGED <<deferredVars, maps, writes, outbox, forcedShutdown>>
      BY <1>9 DEF AdvanceFinished, stable, writeVars
    <2> QED
      BY <1>9, <2>1 DEF AdvanceFinished, At, PhaseStep, phaseVars
  <1>10. CASE Fail
    BY <1>10 DEF Fail, PhaseStep
  <1> QED
    BY <1>1, <1>2, <1>3, <1>4, <1>5, <1>6, <1>7, <1>8, <1>9, <1>10
    DEF IoThread, Loop, Input, Output, Shutdown

\* drainDeferredInput says that all is drained only when it is.
LEMMA DrainedMeans ==
  ASSUME CoreInv, Stages, IoThread, io'.pc = "advanceStop", io'.drained
  PROVE  InputDrained'
  <1>1. Calls /\ io \in IoType /\ CallsOK(io) /\ Positions
    BY DEF CoreInv, Calls
  <1>2. Staged
    BY LoopStages, InputStages, OutputStages, ShutdownStages DEF IoThread
  <1>3. io.pc \in DrainingInput /\ phase' = "DrainingInput"
    BY <1>2 DEF Staged, Stages, StopDrain
  <1>4. ~DrainReturn(FALSE).drained
    BY <1>1 DEF DrainReturn, IoType
  <1>5. io' # DrainReturn(FALSE)
    BY <1>4
  <1>6. \A l : [io EXCEPT !.pc = l].pc = l
    BY <1>1 DEF IoType
  <1>7. CASE Yield
    BY <1>5, <1>7 DEF Yield
  <1>8. CASE DrainDisconnects
    <2>1. CASE Goto("reads")
      BY <1>6, <2>1 DEF Goto
    <2>2. CASE EnqueueDecoded(Head(deferredDisconnects), TRUE,
                              "pushDisconnected", "yield", "pushDisconnected")
      <3>1. io'.pc \in {io.pc, "pushDisconnected", "yield", "pushDisconnected"}
        BY <1>1, <2>2, EnqueueGoes
      <3> QED
        BY <1>3, <3>1 DEF DrainingInput
    <2> QED
      BY <1>8, <2>1, <2>2 DEF DrainDisconnects
  <1>9. CASE PushDisconnected
    <2>1. [io EXCEPT !.work = @ - 1, !.pc = "disconnectsSize"].pc = "disconnectsSize"
      BY <1>1 DEF IoType
    <2> QED
      BY <1>5, <1>9, <2>1 DEF PushDisconnected
  <1>10. CASE DrainSize
    <2>1. \/ io' = DrainReturn(FALSE)
          \/ io' = [io EXCEPT !.pc = "reads"]
          \/ io' = [io EXCEPT !.pc = "disconnects"]
      BY <1>10 DEF DrainSize
    <2> QED
      BY <1>5, <1>6, <2>1
  <1>11. CASE DrainReads
    <2>1. CASE Goto("resume?")
      BY <1>6, <2>1 DEF Goto
    <2>2. CASE io' = io
      BY <1>3, <2>2 DEF DrainingInput
    <2>3. CASE Goto("readsDecode")
      BY <1>6, <2>3 DEF Goto
    <2> QED
      BY <1>11, <2>1, <2>2, <2>3 DEF DrainReads
  <1>17. CASE DrainReadsDecode
    <2>1. io'.pc \in {io.pc, "readsPop", "yield", "readsError"}
      BY <1>1, <1>17, EnqueueGoes DEF DrainReadsDecode
    <2> QED
      BY <1>3, <2>1 DEF DrainingInput
  <1>12. CASE DrainReadsPop
    <2>1. EnterRead(Head(deferredReads), TRUE, "reads").pc = "read"
      BY <1>1 DEF EnterRead, IoType
    <2> QED
      BY <1>6, <1>12, <2>1 DEF DrainReadsPop
  <1>13. CASE DrainReadsError
    <2>1. ASSUME NEW l, NEW fd PROVE [io EXCEPT !.pc = l, !.fd = fd].pc = l
      BY <1>1 DEF IoType
    <2>2. [io EXCEPT !.pc = "readsSize", !.fd = NoFd] \in IoType
      <3>1. "readsSize" \in Labels
        BY DEF Labels, DrainingInput
      <3> QED
        BY <1>1, <3>1 DEF IoType
    <2> QED
      BY <1>13, <2>1, <2>2, DisconnectGoes DEF DrainReadsError
  <1>14. CASE ResumeReads
    <2>1. ASSUME NEW fds PROVE [io EXCEPT !.pc = "resume", !.closed = fds].pc = "resume"
      BY <1>1 DEF IoType
    <2>2. io' = DrainReturn(deferredDisconnects = <<>>)
      BY <1>14, <2>1 DEF ResumeReads
    <2>3. io'.drained = (deferredDisconnects = <<>>)
      BY <1>1, <2>2 DEF DrainReturn, IoType
    <2>4. deferredReads = <<>> /\ UNCHANGED deferredVars
      BY <1>1, <1>14 DEF ResumeReads, At, Positions
    <2> QED
      BY <2>3, <2>4 DEF InputDrained, deferredVars
  <1>15. CASE ResumeClosed
    <2>1. phase = "Running"
      BY <1>15 DEF ResumeClosed, At, Stages
    <2>2. phase' = phase
      BY <1>15, OnlyIo DEF ResumeClosed
    <2> QED
      BY <1>3, <2>1, <2>2
  <1>16. \/ Yield \/ DrainDisconnects \/ PushDisconnected \/ DrainSize \/ DrainReads
         \/ DrainReadsDecode \/ DrainReadsPop \/ DrainReadsError \/ ResumeReads \/ ResumeClosed
    <2>1. ~Loop
      BY <1>3 DEF Loop, LoopTop, Wait, NextEvent, EndOfEvents, HandleWakeup, HandleSession, FlushEvent,
         ExpireIdle, At, DrainingInput
    <2>2. ~Output
      BY <1>3 DEF Output, DrainOutbound, DrainOutboundEnd, FlushSend, FlushEnd, At, DrainingInput
    <2>3. ~Shutdown
      BY <1>3 DEF Shutdown, Advance, AdvanceInput, AdvanceStop, AdvanceFinished, Join, FlushAll,
         CloseResources, Fail, At, DrainingInput
    <2>4. ~(AcceptEnd \/ Accept \/ ReadSession \/ Decode \/ ReadStops)
      BY <1>3 DEF AcceptEnd, Accept, ReadSession, Decode, ReadStops, At, DrainingInput
    <2> QED
      BY <2>1, <2>2, <2>3, <2>4 DEF IoThread, Input
  <1> QED
    BY <1>7, <1>8, <1>9, <1>10, <1>11, <1>12, <1>13, <1>14, <1>15, <1>16, <1>17

\* outbox_ is closed for good.
LEMMA ClosedStays ==
  ASSUME Next, outboxClosed
  PROVE  outboxClosed'
  <1>1. CASE Loop
    BY ZenonT(60), <1>1
    DEF Loop, LoopTop, Wait, NextEvent, EndOfEvents, HandleWakeup, HandleSession, FlushEvent,
       ExpireIdle, ForceShutdown, exceptIo, exceptDisconnect, outVars
  <1>2. CASE Input
    BY <1>2 DEF Input, AcceptEnd, Accept, ReadSession, Decode, ReadStops, Yield, DrainDisconnects,
       PushDisconnected, DrainSize, DrainReads, DrainReadsDecode, DrainReadsPop, DrainReadsError, ResumeReads,
       ResumeClosed, exceptIo, exceptDisconnect, outVars
  <1>3. CASE Output
    BY <1>3 DEF Output, DrainOutbound, DrainOutboundEnd, FlushSend, FlushEnd, exceptDisconnect, outVars
  <1>4. CASE Shutdown
    BY <1>4 DEF Shutdown, Advance, AdvanceInput, AdvanceStop, AdvanceFinished, Join, FlushAll,
       CloseResources, Fail, ForceShutdown, exceptIo, exceptDisconnect, outVars
  <1>5. CASE Stop \/ DeadlinePasses
    BY <1>5 DEF Stop, DeadlinePasses, outVars
  <1>6. CASE Pool \/ Peers
    BY <1>6 DEF Pool, WorkerPop, WorkerNotify, WorkerEmit, WorkerPush, WorkerEnd, PoolCompletes, PoolDone,
       unchangedByPool, Peers, PeerConnects, PeerSends, PeerLeaves, unchangedByPeers, outVars
  <1> QED
    BY <1>1, <1>2, <1>3, <1>4, <1>5, <1>6 DEF Next, IoThread

AllSent == outbox = <<>> /\ outboxClosed /\ AllSessionWritesDrained

\* With nothing to send and the outbox closed, nothing to send comes up again.
LEMMA SentStays ==
  ASSUME CoreInv, Stages, Next, phase \notin {"Running", "DrainingInput"}, AllSent
  PROVE  AllSent'
  <1>0. sessionAt \in [Fds -> {0} \cup Ids] /\ Positions
    BY DEF CoreInv, Typed, MapTypes
  <1>1. outboxClosed'
    BY ClosedStays DEF AllSent
  <1>2. CASE IoThread
    <2>1. SameOut
      <3>1. ~DrainOutbound
        BY DEF DrainOutbound, AllSent
      <3>2. ~FlushSend
        <4>1. io.pc = "flush" => writes[sessionAt[io.flushFd]] = <<>>
          BY <1>0 DEF Positions, AllSent, AllSessionWritesDrained
        <4> QED
          BY <4>1 DEF FlushSend, At
      <3>3. CASE DrainOutboundEnd \/ FlushEnd
        BY <3>3 DEF DrainOutboundEnd, FlushEnd, exceptDisconnect, stable, writeVars, outVars, SameOut
      <3> QED
        BY <1>2, <3>1, <3>2, <3>3, LoopOut, InputOut, ShutdownOut DEF IoThread, Output
    <2>2. \A fd \in Fds : sessionAt'[fd] \in {sessionAt[fd], 0}
      BY <1>2, SessionsOnlyLost
    <2>3. AllSessionWritesDrained'
      <3>1. ASSUME NEW fd \in Fds, sessionAt'[fd] # 0 PROVE writes'[sessionAt'[fd]] = <<>>
        BY <2>1, <2>2, <3>1 DEF SameOut, AllSent, AllSessionWritesDrained, OpenFds
      <3> QED
        BY <3>1 DEF AllSessionWritesDrained, OpenFds
    <2> QED
      BY <1>1, <2>1, <2>3 DEF AllSent, SameOut
  <1>3. CASE Stop \/ DeadlinePasses \/ Pool \/ Peers
    <2>1. UNCHANGED <<sessionAt, writes>>
      BY <1>3, OthersStay DEF maps
    <2>2. AllSessionWritesDrained'
      BY <2>1 DEF AllSent, AllSessionWritesDrained, OpenFds
    <2>3. outbox' = outbox
      <3>1. CASE Stop \/ DeadlinePasses \/ Peers
        BY <3>1 DEF Stop, DeadlinePasses, Peers, PeerConnects, PeerSends, PeerLeaves, unchangedByPeers,
           outVars
      <3>2. CASE Pool
        BY <3>2 DEF Pool, WorkerPop, WorkerNotify, WorkerEmit, WorkerPush, WorkerEnd, PoolCompletes, PoolDone, AllSent
      <3> QED
        BY <1>3, <3>1, <3>2
    <2> QED
      BY <1>1, <2>2, <2>3 DEF AllSent
  <1> QED
    BY <1>2, <1>3 DEF Next

LEMMA GracefulNext ==
  ASSUME CoreInv, Stages, FlagTypes, Graceful, Next
  PROVE  Graceful'
  <1>1. forcedShutdown \in BOOLEAN
    BY DEF FlagTypes
  <1>2. CASE IoThread
    <2>1. io'.pc = "advanceStop" /\ io'.drained => InputDrained'
      BY <1>2, DrainedMeans
    <2>2. CASE UNCHANGED phaseVars
      <3>1. phase' = phase /\ forcedShutdown' = forcedShutdown
        BY <2>2 DEF phaseVars
      <3>2. phase \in {"DrainingOutput", "Complete"} /\ ~forcedShutdown => InputDrained'
        BY <1>2, DrainedStays DEF Graceful
      <3>3. phase = "Complete" /\ ~forcedShutdown => AllSent'
        BY SentStays DEF Graceful, AllSent
      <3> QED
        BY <2>1, <3>1, <3>2, <3>3 DEF Graceful, AllSent
    <2>3. CASE phase = "Running" /\ BeginShutdown
      <3>1. phase' = "DrainingInput"
        BY <2>3 DEF BeginShutdown
      <3> QED
        BY <2>1, <3>1 DEF Graceful
    <2>4. CASE late /\ phase' = "Forced" /\ forcedShutdown' = TRUE
      BY <2>1, <2>4 DEF Graceful
    <2>5. CASE phase = "Forced" /\ phase' = "Complete" /\ forcedShutdown' = forcedShutdown
      BY <2>1, <2>5 DEF Graceful
    <2>6. CASE /\ io.pc = "advanceStop" /\ io.drained /\ phase' = "DrainingOutput"
               /\ UNCHANGED <<deferredVars, forcedShutdown>>
      <3>1. InputDrained'
        BY <2>6 DEF Graceful, InputDrained, deferredVars
      <3> QED
        BY <2>6, <3>1 DEF Graceful
    <2>7. CASE /\ io.pc = "advanceEnd" /\ outbox = <<>> /\ AllSessionWritesDrained
               /\ phase' = "Complete" /\ outboxClosed' = TRUE
               /\ UNCHANGED <<deferredVars, maps, writes, outbox, forcedShutdown>>
      <3>1. phase = "DrainingOutput"
        BY <2>7 DEF Stages, Ending
      <3>2. ~forcedShutdown => InputDrained'
        BY <2>7, <3>1 DEF Graceful, InputDrained, deferredVars
      <3>3. AllSessionWritesDrained'
        BY <2>7 DEF AllSessionWritesDrained, OpenFds, maps
      <3> QED
        BY <2>1, <2>7, <3>2, <3>3 DEF Graceful
    <2> QED
      BY <1>2, <2>2, <2>3, <2>4, <2>5, <2>6, <2>7, PhaseSteps DEF PhaseStep
  <1>3. CASE Stop \/ DeadlinePasses \/ Pool \/ Peers
    <2>1. UNCHANGED <<io, phase, forcedShutdown, deferredReads, deferredDisconnects>>
      BY <1>3, OthersStay DEF deferredVars
    <2>2. phase = "Complete" /\ ~forcedShutdown => AllSent'
      BY SentStays DEF Graceful, AllSent
    <2> QED
      BY <2>1, <2>2 DEF Graceful, AllSent, InputDrained
  <1> QED
    BY <1>2, <1>3 DEF Next

\* The phases follow each other as run() has them, and once the input is drained
\* nothing is put off again.
THEOREM StagesInvariant == Spec => [](Stages /\ Graceful)
  <1>1. Init => Stages /\ Graceful
    <2> SUFFICES ASSUME Init PROVE Stages /\ Graceful
      OBVIOUS
    <2>1. io.pc = "top" /\ phase = "Running"
      BY DEF Init, Start
    <2> QED
      BY <2>1 DEF Stages, Graceful, StopDrain, Ending, InDrain, Reading, DrainingInput, Outing
  <1>2. ServerInv /\ Stages /\ Graceful /\ [Next]_vars => (Stages /\ Graceful)'
    <2> SUFFICES ASSUME ServerInv, Stages, Graceful, [Next]_vars PROVE (Stages /\ Graceful)'
      OBVIOUS
    <2>1. CASE Next
      BY <2>1, StagesNext, GracefulNext DEF ServerInv, OutInv
    <2>2. CASE UNCHANGED vars
      <3>1. UNCHANGED <<io, phase, forcedShutdown, deferredReads, deferredDisconnects, outbox,
                        outboxClosed, sessionAt, writes>>
        BY <2>2 DEF vars, serverVars, maps, writeVars, deferredVars, phaseVars, loopVars, outVars
      <3>2. Stages'
        BY <3>1 DEF Stages
      <3>3. Graceful'
        BY <3>1 DEF Graceful, InputDrained, AllSessionWritesDrained, OpenFds
      <3> QED
        BY <3>2, <3>3
    <2> QED
      BY <2>1, <2>2
  <1> QED
    BY <1>1, <1>2, ServerInvariant, PTL DEF Spec

\* A shutdown that reaches Complete without force has pushed every packet it
\* decoded and every Disconnected that was put off, and has sent everything the
\* workers emitted for sessions still open (advanceShutdown, GracefulSendsAll).
THEOREM GracefulAlwaysSendsAll == Spec => []GracefulSendsAll
  <1>1. ServerInv /\ Stages /\ Graceful => GracefulSendsAll
    <2> SUFFICES ASSUME ServerInv, Stages, Graceful, phase = "Complete", ~forcedShutdown
                 PROVE  /\ outbox = <<>> /\ deferredDisconnects = <<>>
                        /\ \A fd \in OpenFds : writes[sessionAt[fd]] = <<>>
                        /\ \A fd \in OpenFds : ~HasPacket(sessionAt[fd])
      BY DEF GracefulSendsAll
    <2>1. outbox = <<>> /\ InputDrained /\ AllSessionWritesDrained
      BY DEF Graceful
    <2>2. io.pc \notin {"decode", "readDefer"}
      BY DEF Stages, InDrain, Reading
    <2>3. deferredReadSet = {}
      <3>1. DOMAIN deferredReads = {}
        BY <2>1 DEF InputDrained
      <3> QED
        BY <3>1 DEF ServerInv, CoreInv, ReadQueue
    <2> QED
      BY <2>1, <2>2, <2>3 DEF InputDrained, AllSessionWritesDrained, ServerInv, CoreInv, PutOff
  <1> QED
    BY <1>1, ServerInvariant, StagesInvariant, PTL

-----------------------------------------------------------------------------
\* A pause of reads ends.

\* The I/O thread only adds to the inbox, and pauses reads with the inbox above
\* the low watermark.
Grows == inbox' \in Nat /\ inbox' >= inbox /\ (paused' => paused \/ inbox' > Low)

LEMMA PushGrows ==
  ASSUME Typed, NEW kind, NEW id, NEW gone, PushEvent(kind, id, gone)
  PROVE  Grows
  <1>1. Low \in Nat /\ High \in Nat /\ Low < High /\ inbox \in Nat /\ inbox' = inbox + 1
    BY ConfigIs DEF Typed, EventTypes, PushEvent
  <1>2. paused' = paused \/ inbox + 1 >= High
    BY DEF PushEvent, ObservePush
  <1> QED
    BY <1>1, <1>2 DEF Grows

LEMMA FullGrows ==
  ASSUME Typed, inbox = Capacity, UNCHANGED inbox
  PROVE  Grows /\ inbox' > Low
  <1>1. Low \in Nat /\ Capacity \in Nat /\ Low < High /\ High <= Capacity /\ High \in Nat
    BY ConfigIs DEF Typed
  <1> QED
    BY <1>1 DEF Grows

LEMMA SameGrows ==
  ASSUME Typed, UNCHANGED inbox, paused' => paused
  PROVE  Grows
  <1>1. inbox \in Nat
    BY ConfigIs DEF Typed, EventTypes
  <1> QED
    BY <1>1 DEF Grows

LEMMA DisconnectGrows ==
  ASSUME Typed, NEW fd, NEW next, Disconnect(fd, next)
  PROVE  Grows
  <1>1. CASE PushEvent("Disconnected", sessionAt[fd], {fd})
    BY <1>1, PushGrows
  <1>2. CASE inbox = Capacity /\ UNCHANGED eventVars
    BY <1>2, FullGrows DEF eventVars
  <1>3. CASE UNCHANGED <<eventVars, paused>>
    BY <1>3, SameGrows DEF eventVars
  <1> QED
    BY <1>1, <1>2, <1>3 DEF Disconnect

LEMMA EnqueueGrows ==
  ASSUME Typed, NEW id, NEW counted, NEW onTrue, NEW onFalse, NEW onError,
         EnqueueDecoded(id, counted, onTrue, onFalse, onError)
  PROVE  Grows
  <1>1. CASE PushEvent("Packet", id, {})
    BY <1>1, PushGrows
  <1>2. CASE inbox = Capacity /\ UNCHANGED eventVars
    BY <1>2, FullGrows DEF eventVars
  <1>3. CASE UNCHANGED <<reading, eventVars>>
    BY <1>3, SameGrows DEF eventVars, reading
  <1> QED
    BY <1>1, <1>2, <1>3 DEF EnqueueDecoded

LEMMA IoGrows ==
  ASSUME Typed, IoThread
  PROVE  Grows \/ (phase' = "DrainingInput" /\ inbox' = inbox)
  <1>1. UNCHANGED <<reading, eventVars>> => Grows
    BY SameGrows DEF eventVars, reading
  <1>2. CASE Loop
    <2>1. CASE LoopTop \/ NextEvent
      BY <1>1, <2>1 DEF LoopTop, NextEvent, ObserveStop, BeginShutdown, stable, eventVars
    <2>2. CASE Wait \/ HandleWakeup
      BY <1>1, <2>2 DEF Wait, HandleWakeup, stable
    <2>3. CASE EndOfEvents \/ FlushEvent
      BY <1>1, <2>3 DEF EndOfEvents, FlushEvent, exceptIo
    <2>4. CASE HandleSession
      <3>1. \/ UNCHANGED <<reading, eventVars>>
            \/ \E fd, next : Disconnect(fd, next)
        BY <2>4 DEF HandleSession
      <3> QED
        BY <1>1, <3>1, DisconnectGrows
    <2>5. CASE ExpireIdle
      BY <1>1, <2>5, DisconnectGrows DEF ExpireIdle
    <2> QED
      BY <1>2, <2>1, <2>2, <2>3, <2>4, <2>5 DEF Loop
  <1>3. CASE Input
    <2>1. CASE AcceptEnd \/ DrainSize \/ ResumeClosed
      BY <1>1, <2>1 DEF AcceptEnd, DrainSize, ResumeClosed, exceptIo
    <2>2. CASE Accept
      BY <2>2, SameGrows DEF Accept, eventVars
    <2>3. CASE ReadSession
      <3>1. \/ UNCHANGED <<reading, eventVars>>
            \/ \E fd, next : Disconnect(fd, next)
        BY <2>3 DEF ReadSession
      <3> QED
        BY <1>1, <3>1, DisconnectGrows
    <2>4. CASE Decode
      BY <2>4, EnqueueGrows DEF Decode
    <2>5. CASE ReadStops
      BY <1>1, <2>5, DisconnectGrows DEF ReadStops
    <2>6. CASE Yield
      BY <1>1, <2>6 DEF Yield, stable
    <2>7. CASE DrainDisconnects
      BY <1>1, <2>7, EnqueueGrows DEF DrainDisconnects
    <2>8. CASE PushDisconnected
      BY <2>8, FullGrows, PushGrows DEF PushDisconnected, eventVars
    <2>9. CASE DrainReads
      BY <1>1, <2>9 DEF DrainReads
    <2>13. CASE DrainReadsDecode
      BY <2>13, EnqueueGrows DEF DrainReadsDecode
    <2>10. CASE DrainReadsPop
      BY <1>1, <2>10 DEF DrainReadsPop
    <2>11. CASE DrainReadsError
      BY <1>1, <2>11, DisconnectGrows DEF DrainReadsError
    <2>12. CASE ResumeReads
      <3>1. inbox' = inbox /\ (paused' = FALSE \/ paused' = paused)
        BY <2>12 DEF ResumeReads, ResumeAll, eventVars
      <3> QED
        BY <3>1, SameGrows
    <2> QED
      BY <1>3, <2>1, <2>2, <2>3, <2>4, <2>5, <2>6, <2>7, <2>8, <2>9, <2>10, <2>11, <2>12,
         <2>13 DEF Input
  <1>4. CASE Output
    <2>1. CASE DrainOutbound
      <3>1. \/ UNCHANGED <<paused, eventVars>>
            \/ \E fd, next : Disconnect(fd, next)
        BY <2>1 DEF DrainOutbound, reading
      <3> QED
        BY <3>1, SameGrows, DisconnectGrows DEF eventVars
    <2>2. CASE DrainOutboundEnd
      BY <1>1, <2>2 DEF DrainOutboundEnd, stable
    <2>3. CASE FlushSend \/ FlushEnd
      <3>1. \/ UNCHANGED <<paused, eventVars>>
            \/ \E fd, next : Disconnect(fd, next)
        BY <2>3 DEF FlushSend, FlushEnd, reading
      <3> QED
        BY <3>1, SameGrows, DisconnectGrows DEF eventVars
    <2> QED
      BY <1>4, <2>1, <2>2, <2>3 DEF Output
  <1>5. CASE Shutdown
    <2>1. CASE Advance \/ AdvanceInput \/ AdvanceStop \/ AdvanceFinished \/ Fail
      BY <1>1, <2>1 DEF Advance, AdvanceInput, AdvanceStop, AdvanceFinished, Fail, stable
    <2>2. CASE Join \/ FlushAll
      BY <1>1, <2>2 DEF Join, FlushAll, exceptIo
    <2>3. CASE CloseResources
      BY <2>3, SameGrows DEF CloseResources, eventVars
    <2> QED
      BY <1>5, <2>1, <2>2, <2>3 DEF Shutdown
  <1> QED
    BY <1>2, <1>3, <1>4, <1>5 DEF IoThread

\* Once the thread has left the loop it does not come back.
LEMMA LeftStays ==
  ASSUME io \in IoType, IoThread, io.pc \in Left
  PROVE  io'.pc \in Left
  <1>1. CASE Loop \/ Input \/ Output
    BY <1>1 DEF Loop, LoopTop, Wait, NextEvent, EndOfEvents, HandleWakeup, HandleSession, FlushEvent,
       ExpireIdle, Input, AcceptEnd, Accept, ReadSession, Decode, ReadStops, Yield, DrainDisconnects,
       PushDisconnected, DrainSize, DrainReads, DrainReadsDecode, DrainReadsPop, DrainReadsError, ResumeReads,
       ResumeClosed, Output, DrainOutbound, DrainOutboundEnd, FlushSend, FlushEnd, At, Left
  <1>2. CASE Advance \/ AdvanceInput \/ AdvanceStop \/ AdvanceFinished \/ Join \/ FlushAll
    BY <1>2 DEF Advance, AdvanceInput, AdvanceStop, AdvanceFinished, Join, FlushAll, At, Left
  <1>3. CASE CloseResources
    <2>1. [Start EXCEPT !.pc = "stopped"].pc = "stopped"
      BY DEF Start
    <2> QED
      BY <1>3, <2>1 DEF CloseResources, Left
  <1>4. CASE Fail
    BY ZenonT(60), <1>4 DEF Fail, Goto, Left, IoType
  <1> QED
    BY SMTT(40), <1>1, <1>2, <1>3, <1>4 DEF IoThread, Shutdown

\* Only the I/O thread's own handling of the wakeup clears it.
LEMMA WakeKept ==
  ASSUME IoThread, inWake, ~HandleWakeup
  PROVE  inWake'
  <1>1. CASE Loop
    BY ZenonT(60), <1>1 DEF Loop, LoopTop, Wait, NextEvent, EndOfEvents, HandleSession, FlushEvent,
       ExpireIdle, exceptIo, exceptDisconnect, wakeups
  <1>2. CASE Input
    BY <1>2 DEF Input, AcceptEnd, Accept, ReadSession, Decode, ReadStops, Yield, DrainDisconnects,
       PushDisconnected, DrainSize, DrainReads, DrainReadsDecode, DrainReadsPop, DrainReadsError, ResumeReads,
       ResumeClosed, exceptIo, exceptDisconnect, wakeups
  <1>3. CASE Output
    BY <1>3 DEF Output, DrainOutbound, DrainOutboundEnd, FlushSend, FlushEnd, exceptDisconnect, wakeups
  <1>4. CASE Shutdown
    BY <1>4 DEF Shutdown, Advance, AdvanceInput, AdvanceStop, AdvanceFinished, Join, FlushAll,
       CloseResources, Fail, exceptIo, exceptDisconnect, wakeups
  <1> QED
    BY <1>1, <1>2, <1>3, <1>4 DEF IoThread

\* What is due stays due until the I/O thread takes the wakeup.
LEMMA DueStays ==
  ASSUME Typed, PoolInv, IoThread, UNCHANGED config, Due, ~HandleWakeup
  PROVE  Due'
  <1>1. Low' = Low /\ Low \in Nat /\ inbox \in Nat
    BY ConfigIs DEF Typed, EventTypes, Low
  <1>2. inbox' \in Nat /\ inbox' >= inbox
    BY <1>1, IoGrows DEF Grows
  <1>3. pool'.owes = pool.owes
    BY IoPool DEF SamePool, PoolInv, PoolType
  <1>4. inbox > Low => inbox' > Low'
    BY <1>1, <1>2
  <1>5. inWake => inWake'
    BY WakeKept
  <1> QED
    BY <1>3, <1>4, <1>5 DEF Due

\* readSession(fd, true) is called from one place.
LEMMA NoDrain ==
  ASSUME CoreInv, IoThread, ~io.drain, ~DrainReadsPop, Calls'
  PROVE  ~io'.drain
  <1>1. io \in IoType /\ CallsOK(io') /\ config \in Configs
    BY DEF CoreInv, Calls, Typed
  <1>2. ASSUME NEW l PROVE ~[io EXCEPT !.pc = l].drain
    BY <1>1 DEF IoType
  <1>3. ASSUME NEW fd, NEW next \in IoType, Disconnect(fd, next), ~next.drain PROVE ~io'.drain
    <2>1. io' = next \/ io'.pc = "failed"
      BY <1>3, DisconnectGoes
    <2> QED
      BY <1>1, <1>3, <2>1 DEF CallsOK, Reading
  <1>4. ASSUME NEW ret
        PROVE  ~EnterOut(ret).drain /\ ~EnterDrain(ret).drain
    BY <1>1 DEF EnterOut, EnterDrain, IoType
  <1>5. ASSUME NEW ret, NEW fd
        PROVE  ~EnterRead(fd, FALSE, ret).drain /\ ~EnterFlush(fd, ret).drain
    BY <1>1 DEF EnterRead, EnterFlush, IoType
  <1>6. ~ReadReturn.drain /\ ~FlushReturn.drain /\ ~AdvanceReturn.drain
    BY <1>1 DEF ReadReturn, FlushReturn, AdvanceReturn, IoType
  <1>7. ASSUME NEW result PROVE ~DrainReturn(result).drain
    BY <1>1 DEF DrainReturn, IoType
  <1>8. CASE Loop
    <2>1. CASE LoopTop
      <3>1. ~[io EXCEPT !.pc = "advance", !.advanceRet = "wait"].drain
        BY <1>1 DEF IoType
      <3> QED
        BY <1>2, <2>1, <3>1 DEF LoopTop
    <2>2. CASE Wait \/ NextEvent \/ EndOfEvents
      BY <1>2, <1>4, <2>2 DEF Wait, NextEvent, EndOfEvents, Goto
    <2>3. CASE HandleWakeup
      <3>1. ~[io EXCEPT !.pc = "accept", !.slots = AcceptLimit].drain
        BY <1>1 DEF IoType
      <3> QED
        BY <1>2, <1>4, <2>3, <3>1 DEF HandleWakeup, Goto
    <2>4. CASE HandleSession
      <3>1. PICK e \in batch :
              LET id == e.token - 3
                  fd == fdByToken[id]
                  then == IF "OUT" \in e.flags THEN "flushEvent" ELSE "events"
                  seen == [io EXCEPT !.ev = IF "OUT" \in e.flags THEN e ELSE @]
                  after == [seen EXCEPT !.pc = then]
              IN  \/ Goto("events")
                  \/ Disconnect(fd, [io EXCEPT !.pc = "events"])
                  \/ io' = [EnterRead(fd, FALSE, then) EXCEPT !.ev = seen.ev]
                  \/ io' = after
        BY <2>4 DEF HandleSession
      <3> DEFINE ev == IF "OUT" \in e.flags THEN e ELSE io.ev
                 then == IF "OUT" \in e.flags THEN "flushEvent" ELSE "events"
                 seen == [io EXCEPT !.ev = ev]
      <3>2. \/ Goto("events")
            \/ \E fd : Disconnect(fd, [io EXCEPT !.pc = "events"])
            \/ \E fd : io' = [EnterRead(fd, FALSE, then) EXCEPT !.ev = seen.ev]
            \/ io' = [seen EXCEPT !.pc = then]
        BY <3>1
      <3> HIDE DEF ev, then
      <3>3. ~[seen EXCEPT !.pc = then].drain
        BY <1>1 DEF IoType
      <3>4. ASSUME NEW fd, NEW x PROVE ~[EnterRead(fd, FALSE, then) EXCEPT !.ev = x].drain
        BY <1>1 DEF EnterRead, IoType
      <3> HIDE DEF seen
      <3>5. [io EXCEPT !.pc = "events"] \in IoType
        <4>1. "events" \in Labels
          BY DEF Labels, Looping
        <4> QED
          BY <1>1, <4>1 DEF IoType
      <3> QED
        BY <1>2, <1>3, <3>2, <3>3, <3>4, <3>5 DEF Goto
    <2>5. CASE FlushEvent
      <3>1. ASSUME NEW fd PROVE ~[EnterFlush(fd, "events") EXCEPT !.ev = Start.ev].drain
        BY <1>1 DEF EnterFlush, IoType
      <3>2. ~[io EXCEPT !.pc = "events", !.ev = Start.ev].drain
        BY <1>1 DEF IoType
      <3> QED
        BY <2>5, <3>1, <3>2 DEF FlushEvent
    <2>6. CASE ExpireIdle
      <3>1. ~[io EXCEPT !.pc = "advance", !.advanceRet = "top"].drain
        BY <1>1 DEF IoType
      <3> QED
        BY <1>1, <1>2, <1>3, <2>6, <3>1 DEF ExpireIdle
    <2> QED
      BY <1>8, <2>1, <2>2, <2>3, <2>4, <2>5, <2>6 DEF Loop
  <1>9. CASE Input
    <2>1. CASE AcceptEnd \/ Accept
      <3>1. /\ ~[io EXCEPT !.pc = "events", !.slots = 0].drain
            /\ ~[io EXCEPT !.slots = @ - 1].drain
        BY <1>1 DEF IoType
      <3> QED
        BY <1>2, <2>1, <3>1 DEF AcceptEnd, Accept, Goto
    <2>2. ReadReturn \in IoType \/ ~(ReadSession \/ ReadStops)
      <3>1. io.pc \in Reading => io.readRet \in Labels
        BY DEF CoreInv, Calls, CallsOK, Labels, Looping, DrainingInput
      <3>2. "" \in Labels \cup {""}
        OBVIOUS
      <3>3. io.pc \in Reading => ReadReturn \in IoType
        BY ZenonT(60), <1>1, <3>1, <3>2 DEF ReadReturn, IoType
      <3> QED
        BY <3>3 DEF ReadSession, ReadStops, At, Reading
    <2>3. CASE ReadSession \/ ReadStops
      BY <1>2, <1>3, <1>6, <2>2, <2>3 DEF ReadSession, ReadStops, Goto
    <2>4. CASE Decode \/ DrainDisconnects \/ DrainReads \/ DrainReadsDecode
      BY <1>1, <1>2, <2>4, EnqueueGoes DEF Decode, DrainDisconnects, DrainReads, DrainReadsDecode, Goto
    <2>5. CASE Yield \/ PushDisconnected \/ DrainSize
      <3>1. ~[io EXCEPT !.work = @ - 1, !.pc = "disconnectsSize"].drain
        BY <1>1 DEF IoType
      <3> QED
        BY <1>2, <1>7, <2>5, <3>1 DEF Yield, PushDisconnected, DrainSize
    <2>6. CASE DrainReadsError
      <3>1. ASSUME NEW fd PROVE ~[io EXCEPT !.pc = "readsDisconnect", !.fd = fd].drain
        BY <1>1 DEF IoType
      <3>2. /\ [io EXCEPT !.pc = "readsSize", !.fd = NoFd] \in IoType
            /\ ~[io EXCEPT !.pc = "readsSize", !.fd = NoFd].drain
        <4>1. "readsSize" \in Labels
          BY DEF Labels, DrainingInput
        <4> QED
          BY <1>1, <4>1 DEF IoType
      <3> QED
        BY <1>3, <2>6, <3>1, <3>2 DEF DrainReadsError
    <2>7. CASE ResumeReads
      <3>1. ASSUME NEW fds PROVE ~[io EXCEPT !.pc = "resume", !.closed = fds].drain
        BY <1>1 DEF IoType
      <3> QED
        BY <1>7, <2>7, <3>1 DEF ResumeReads
    <2>8. CASE ResumeClosed
      <3>1. ASSUME NEW fd, NEW fds PROVE ~[EnterRead(fd, FALSE, "resume") EXCEPT !.closed = fds].drain
        BY <1>1 DEF EnterRead, IoType
      <3> QED
        BY <1>7, <2>8, <3>1 DEF ResumeClosed
    <2> QED
      BY <1>9, <2>1, <2>3, <2>4, <2>5, <2>6, <2>7, <2>8 DEF Input
  <1>10. CASE Output
    <2>1. [io EXCEPT !.popped = @ + 1] \in IoType /\ ~[io EXCEPT !.popped = @ + 1].drain
      <3> DEFINE n == io.popped + 1
      <3>0. io.popped \in Nat
        BY <1>1 DEF IoType
      <3>1. n \in Nat
        BY <3>0
      <3> HIDE DEF n
      <3>2. [io EXCEPT !.popped = n] \in IoType /\ ~[io EXCEPT !.popped = n].drain
        BY <1>1, <3>1 DEF IoType
      <3> QED
        BY <3>2 DEF n
    <2>2. CASE DrainOutbound
      BY <1>3, <2>1, <2>2 DEF DrainOutbound
    <2>3. CASE DrainOutboundEnd
      <3>1. ~[io EXCEPT !.pc = io.outRet, !.popped = 0, !.outRet = ""].drain
        BY <1>1 DEF IoType
      <3> QED
        BY <1>2, <2>3, <3>1 DEF DrainOutboundEnd, Goto
    <2>4. CASE FlushSend \/ FlushEnd
      <3>1. ASSUME NEW n PROVE ~[io EXCEPT !.sent = @ + n].drain
        BY <1>1 DEF IoType
      <3>2. io.pc = "flush" => FlushReturn \in IoType
        <4>1. io.pc = "flush" => io.flushRet \in Labels
          BY DEF CoreInv, Calls, CallsOK, Labels, Looping
        <4>2. "" \in Labels \cup {""}
          OBVIOUS
        <4> QED
          BY <1>1, <4>1, <4>2 DEF FlushReturn, IoType
      <3> QED
        BY <1>3, <1>6, <2>4, <3>1, <3>2 DEF FlushSend, FlushEnd, At
    <2> QED
      BY <1>10, <2>2, <2>3, <2>4 DEF Output
  <1>11. CASE Shutdown
    <2>1. CASE Advance \/ AdvanceInput
      <3>1. ~[AdvanceReturn EXCEPT !.pc = "join"].drain /\ ~[AdvanceReturn EXCEPT !.drained = FALSE].drain
        BY <1>1 DEF AdvanceReturn, IoType
      <3> QED
        BY <1>2, <1>4, <1>6, <2>1, <3>1 DEF Advance, AdvanceInput
    <2>2. CASE AdvanceStop \/ AdvanceFinished
      <3>1. ~[AdvanceReturn EXCEPT !.pc = "join"].drain
        BY <1>1 DEF AdvanceReturn, IoType
      <3> QED
        BY <1>2, <1>4, <1>6, <2>2, <3>1 DEF AdvanceStop, AdvanceFinished, Goto
    <2>3. CASE Join \/ FlushAll
      <3>1. ASSUME NEW fds PROVE ~[io EXCEPT !.pc = "flushNext", !.closed = fds].drain
        BY <1>1 DEF IoType
      <3>2. ASSUME NEW fd, NEW fds PROVE ~[EnterFlush(fd, "flushNext") EXCEPT !.closed = fds].drain
        BY <1>1 DEF EnterFlush, IoType
      <3> QED
        BY <1>2, <1>4, <2>3, <3>1, <3>2 DEF Join, FlushAll, Goto
    <2>4. CASE CloseResources \/ Fail
      <3>1. ~[Start EXCEPT !.pc = "stopped"].drain
        BY DEF Start
      <3> QED
        BY <1>2, <2>4, <3>1 DEF CloseResources, Fail, Goto
    <2> QED
      BY <1>11, <2>1, <2>2, <2>3, <2>4 DEF Shutdown
  <1> QED
    BY <1>8, <1>9, <1>10, <1>11 DEF IoThread

LEMMA ReadOnceNext ==
  ASSUME CoreInv, CoreInv', ReadOnce, Next
  PROVE  ReadOnce'
  <1>1. io \in IoType /\ CallsOK(io) /\ Calls' /\ config \in Configs
    BY DEF CoreInv, Calls, Typed
  <1>2. CASE IoThread /\ ~io.drain
    <2>1. CASE DrainReadsPop
      <3>1. deferredReadSet' = deferredReadSet \ {Head(deferredReads)}
        BY <2>1 DEF DrainReadsPop
      <3>2. /\ EnterRead(Head(deferredReads), TRUE, "reads").fd = Head(deferredReads)
            /\ ~[io EXCEPT !.pc = "reads"].drain
        BY <1>1, <1>2 DEF EnterRead, IoType
      <3> QED
        BY <2>1, <3>1, <3>2 DEF DrainReadsPop, ReadOnce
    <2> QED
      BY <1>1, <1>2, <2>1, NoDrain DEF ReadOnce
  <1>3. CASE IoThread /\ io.drain
    <2>1. io.pc \in Reading /\ ~ReadReturn.drain
      BY <1>1, <1>3 DEF CallsOK, ReadReturn, IoType
    <2>2. ReadSession \/ Decode \/ ReadStops
      <3>1. ~(Loop \/ Output \/ Shutdown)
        BY <2>1 DEF Loop, LoopTop, Wait, NextEvent, EndOfEvents, HandleWakeup, HandleSession, FlushEvent,
           ExpireIdle, Output, DrainOutbound, DrainOutboundEnd, FlushSend, FlushEnd, Shutdown, Advance,
           AdvanceInput, AdvanceStop, AdvanceFinished, Join, FlushAll, CloseResources, Fail, At, Reading
      <3>2. CASE Input
        BY <2>1, <3>2 DEF Input, AcceptEnd, Accept, Yield, DrainDisconnects, PushDisconnected, DrainSize,
           DrainReads, DrainReadsDecode, DrainReadsPop, DrainReadsError, ResumeReads, ResumeClosed, At, Reading
      <3> QED
        BY SMTT(40), <1>3, <3>1, <3>2 DEF IoThread
    <2>3. ASSUME NEW fd, Disconnect(fd, ReadReturn) PROVE ~io'.drain
      <3>1. ReadReturn \in IoType
        <4>1. io.readRet \in Labels
          BY <1>1, <2>1 DEF CallsOK, Labels, Looping, DrainingInput
        <4> QED
          BY ZenonT(60), <1>1, <4>1 DEF ReadReturn, IoType
      <3>2. io' = ReadReturn \/ io'.pc = "failed"
        BY <2>3, <3>1, DisconnectGoes
      <3> QED
        BY <1>1, <2>1, <3>2 DEF Calls, CallsOK, Reading
    <2>4. ASSUME Goto("decode"), UNCHANGED deferredVars PROVE ReadOnce'
      BY ZenonT(60), <1>1, <2>4 DEF Goto, IoType, ReadOnce, deferredVars
    <2>5. CASE ReadSession
      BY <2>1, <2>3, <2>4, <2>5 DEF ReadSession, ReadOnce
    <2>6. CASE Decode
      BY <1>1, <2>6, EnqueueGoes DEF Decode, ReadOnce, deferredVars
    <2>7. CASE ReadStops
      BY <2>1, <2>3, <2>7 DEF ReadStops, ReadOnce
    <2> QED
      BY <2>2, <2>5, <2>6, <2>7
  <1>4. CASE Stop \/ DeadlinePasses \/ Pool \/ Peers
    <2>1. UNCHANGED <<io, deferredReadSet>>
      BY <1>4, OthersStay DEF deferredVars
    <2> QED
      BY <2>1 DEF ReadOnce
  <1> QED
    BY <1>2, <1>3, <1>4 DEF Next

\* What one step of drainDeferredInput leaves: it is still under way, or what ends
\* the pause is due.
Ends == Due' \/ Resuming' \/ ~paused'

LEMMA HighIsDue ==
  ASSUME Typed, UNCHANGED config, inbox' > Low
  PROVE  Due'
  <1>1. Low' = Low
    BY DEF Low
  <1> QED
    BY <1>1 DEF Due

LEMMA FullIsDue ==
  ASSUME Typed, UNCHANGED config, inbox = Capacity, UNCHANGED eventVars
  PROVE  Due'
  <1>1. inbox' > Low
    BY FullGrows DEF eventVars
  <1> QED
    BY <1>1, HighIsDue

\* drainDeferredInput and readSession with no disconnect put off.
LEMMA StillResuming ==
  ASSUME io'.pc \in {"reads", "readsDecode", "readsPop", "readsError", "readsDisconnect", "readsSize",
                     "resume?"}
           \/ (io'.pc \in Reading /\ io'.drain),
         deferredDisconnects' = <<>>
  PROVE  Resuming'
  BY DEF Resuming, InReads

\* Without a packet of its own a session is disconnected at once.
LEMMA DisconnectEnds ==
  ASSUME CoreInv, UNCHANGED config, NEW fd \in OpenFds, NEW next, Disconnect(fd, next),
         phase = "Running", ~HasPacket(sessionAt[fd]), deferredDisconnects = <<>>,
         next.pc \in {"reads", "readsSize"}
  PROVE  Ends
  <1>1. CASE inbox = Capacity /\ UNCHANGED eventVars
    BY <1>1, FullIsDue DEF Ends, CoreInv
  <1>2. CASE io' = next /\ UNCHANGED deferredDisconnects
    BY <1>2, StillResuming DEF Ends
  <1> QED
    BY <1>1, <1>2 DEF Disconnect, PushesNow, PutsOff

\* A round of enqueueDecodedPackets that stops does so with the inbox full enough,
\* or with the budget used up.
LEMMA EnqueueEnds ==
  ASSUME CoreInv, UNCHANGED config, NEW id, NEW counted, NEW onTrue, NEW onFalse, NEW onError,
         EnqueueDecoded(id, counted, onTrue, onFalse, onError)
  PROVE  \/ Due'
         \/ io'.pc = io.pc
         \/ io'.pc \in {onTrue, onError}
         \/ io'.pc = onFalse /\ io.work = 0 /\ io'.work = 0
  <1>1. io \in IoType /\ Typed /\ inbox \in Nat /\ Low \in Nat /\ High \in Nat /\ Low < High
    BY ConfigIs DEF CoreInv, Calls, Typed, EventTypes
  <1>2. ASSUME NEW l, Goto(l) PROVE io'.pc = l /\ io'.work = io.work
    BY <1>1, <1>2 DEF Goto, IoType
  <1>3. CASE inbox = Capacity /\ UNCHANGED eventVars
    BY <1>1, <1>3, FullIsDue
  <1>4. CASE /\ PushEvent("Packet", id, {})
             /\ io' = [io EXCEPT !.work = IF counted THEN io.work - 1 ELSE io.work,
                                 !.pc = IF inbox + 1 >= High THEN onFalse ELSE @]
    <2>1. CASE inbox + 1 >= High
      <3>1. inbox' > Low
        BY <1>1, <1>4, <2>1 DEF PushEvent
      <3> QED
        BY <1>1, <3>1, HighIsDue
    <2>2. CASE ~(inbox + 1 >= High)
      BY <1>1, <1>4, <2>2 DEF IoType
    <2> QED
      BY <2>1, <2>2
  <1>5. CASE Goto(onTrue) \/ Goto(onError)
    BY <1>2, <1>5
  <1>6. CASE Goto(onFalse) /\ io.work = 0
    BY <1>2, <1>6
  <1> QED
    BY <1>3, <1>4, <1>5, <1>6 DEF EnqueueDecoded

LEMMA YieldEnds ==
  ASSUME Yield, phase = "Running", Resuming
  PROVE  Ends
  <1>1. io.work = 0
    BY DEF Yield, At, Resuming, InReads, Reading
  <1> QED
    BY <1>1 DEF Yield, Due, Ends

LEMMA DrainDisconnectsEnds ==
  ASSUME CoreInv, UNCHANGED config, DrainDisconnects
  PROVE  Ends
  <1>1. io \in IoType
    BY DEF CoreInv, Calls
  <1>2. CASE deferredDisconnects = <<>> /\ Goto("reads")
    <2>1. io'.pc = "reads"
      BY <1>1, <1>2 DEF Goto, IoType
    <2>2. deferredDisconnects' = <<>>
      BY <1>2 DEF DrainDisconnects, deferredVars
    <2> QED
      BY <2>1, <2>2, StillResuming DEF Ends
  <1>3. CASE EnqueueDecoded(Head(deferredDisconnects), TRUE,
                            "pushDisconnected", "yield", "pushDisconnected")
    <2>1. \/ Due'
          \/ io'.pc = io.pc
          \/ io'.pc \in {"pushDisconnected", "pushDisconnected"}
          \/ io'.pc = "yield" /\ io.work = 0 /\ io'.work = 0
      BY <1>3, EnqueueEnds
    <2>2. io.pc = "disconnects"
      BY DEF DrainDisconnects, At
    <2> QED
      BY <2>1, <2>2 DEF Ends, Resuming
  <1> QED
    BY <1>2, <1>3 DEF DrainDisconnects

LEMMA PushDisconnectedEnds ==
  ASSUME CoreInv, UNCHANGED config, PushDisconnected
  PROVE  Ends
  <1>1. io \in IoType /\ Typed
    BY DEF CoreInv, Calls
  <1>2. CASE inbox = Capacity /\ UNCHANGED eventVars
    BY <1>1, <1>2, FullIsDue DEF Ends
  <1>3. CASE io' = [io EXCEPT !.work = @ - 1, !.pc = "disconnectsSize"]
    <2>1. io'.pc = "disconnectsSize"
      BY <1>1, <1>3 DEF IoType
    <2> QED
      BY <2>1 DEF Ends, Resuming
  <1> QED
    BY <1>2, <1>3 DEF PushDisconnected

LEMMA DrainSizeEnds ==
  ASSUME CoreInv, UNCHANGED config, DrainSize, Resuming
  PROVE  Ends
  <1>1. io \in IoType /\ Typed /\ inbox \in Nat /\ Low \in Nat /\ High \in Nat /\ Low < High
    BY ConfigIs DEF CoreInv, Calls, Typed, EventTypes
  <1>2. UNCHANGED <<inbox, deferredDisconnects>>
    BY DEF DrainSize, exceptIo, eventVars, deferredVars
  <1>3. CASE inbox >= High
    <2>1. inbox' > Low
      BY <1>1, <1>2, <1>3
    <2> QED
      BY <1>1, <2>1, HighIsDue DEF Ends
  <1>4. CASE ~(inbox >= High) /\ io.pc = "readsSize"
    <2>1. io'.pc = "reads"
      BY <1>1, <1>4 DEF DrainSize, At, IoType
    <2>2. deferredDisconnects' = <<>>
      BY <1>2, <1>4 DEF Resuming
    <2> QED
      BY <2>1, <2>2, StillResuming DEF Ends
  <1>5. CASE ~(inbox >= High) /\ io.pc # "readsSize"
    <2>1. io'.pc = "disconnects"
      BY <1>1, <1>5 DEF DrainSize, At, IoType
    <2> QED
      BY <2>1 DEF Ends, Resuming
  <1> QED
    BY <1>3, <1>4, <1>5

LEMMA DrainReadsEnds ==
  ASSUME CoreInv, UNCHANGED config, DrainReads, Resuming
  PROVE  Ends
  <1>1. io \in IoType /\ io.pc = "reads"
    BY DEF CoreInv, Calls, DrainReads, At
  <1>2. deferredDisconnects' = <<>>
    BY <1>1 DEF Resuming, DrainReads, deferredVars
  <1>3. CASE Goto("resume?")
    <2>1. io'.pc = "resume?"
      BY <1>1, <1>3 DEF Goto, IoType
    <2> QED
      BY <1>2, <2>1, StillResuming DEF Ends
  <1>4. CASE io' = io
    BY <1>1, <1>2, <1>4, StillResuming DEF Ends
  <1>5. CASE Goto("readsDecode")
    <2>1. io'.pc = "readsDecode"
      BY <1>1, <1>5 DEF Goto, IoType
    <2> QED
      BY <1>2, <2>1, StillResuming DEF Ends
  <1> QED
    BY <1>3, <1>4, <1>5 DEF DrainReads

LEMMA DrainReadsDecodeEnds ==
  ASSUME CoreInv, UNCHANGED config, DrainReadsDecode, Resuming
  PROVE  Ends
  <1>1. io.pc = "readsDecode"
    BY DEF DrainReadsDecode, At
  <1>2. deferredDisconnects' = <<>>
    BY <1>1 DEF Resuming, DrainReadsDecode, deferredVars
  <1>3. \/ Due'
        \/ io'.pc = io.pc
        \/ io'.pc \in {"readsPop", "readsError"}
        \/ io'.pc = "yield" /\ io.work = 0 /\ io'.work = 0
    BY EnqueueEnds DEF DrainReadsDecode
  <1>4. CASE io'.pc = "yield" /\ io'.work = 0
    BY <1>4 DEF Ends, Resuming
  <1> QED
    BY <1>1, <1>2, <1>3, <1>4, StillResuming DEF Ends

LEMMA DrainReadsPopEnds ==
  ASSUME CoreInv, DrainReadsPop, Resuming
  PROVE  Ends
  <1>1. io \in IoType /\ io.pc = "readsPop"
    BY DEF CoreInv, Calls, DrainReadsPop, At
  <1>2. deferredDisconnects' = <<>>
    BY <1>1 DEF Resuming, DrainReadsPop
  <1>3. ASSUME NEW fd PROVE EnterRead(fd, TRUE, "reads").pc = "read" /\ EnterRead(fd, TRUE, "reads").drain
    BY <1>1 DEF EnterRead, IoType
  <1>4. [io EXCEPT !.pc = "reads"].pc = "reads"
    BY <1>1 DEF IoType
  <1>5. io'.pc = "reads" \/ (io'.pc \in Reading /\ io'.drain)
    BY <1>3, <1>4 DEF DrainReadsPop, Reading
  <1> QED
    BY <1>2, <1>5, StillResuming DEF Ends

LEMMA DrainReadsErrorEnds ==
  ASSUME CoreInv, UNCHANGED config, DrainReadsError, Resuming, phase = "Running"
  PROVE  Ends
  <1>1. io \in IoType /\ io.pc \in {"readsError", "readsDisconnect"} /\ Positions /\ PutOff
    BY DEF CoreInv, Calls, DrainReadsError, At
  <1>2. deferredDisconnects = <<>>
    BY <1>1 DEF Resuming
  <1>3. CASE /\ io' = [io EXCEPT !.pc = "readsDisconnect", !.fd = Head(deferredReads)]
             /\ UNCHANGED deferredDisconnects
    <2>1. io'.pc = "readsDisconnect"
      BY <1>1, <1>3 DEF IoType
    <2> QED
      BY <1>2, <1>3, <2>1, StillResuming DEF Ends
  <1>4. CASE At("readsDisconnect") /\ Disconnect(io.fd, [io EXCEPT !.pc = "readsSize", !.fd = NoFd])
    <2>1. io.fd \in OpenFds /\ ~HasPacket(sessionAt[io.fd])
      BY <1>1, <1>4 DEF Positions, PutOff, At
    <2>2. [io EXCEPT !.pc = "readsSize", !.fd = NoFd].pc = "readsSize"
      BY <1>1 DEF IoType
    <2> QED
      BY <1>2, <1>4, <2>1, <2>2, DisconnectEnds
  <1> QED
    BY <1>3, <1>4 DEF DrainReadsError

LEMMA ResumeReadsEnds ==
  ASSUME CoreInv, UNCHANGED config, ResumeReads, Resuming, phase = "Running", paused
  PROVE  Ends
  <1>1. io.pc = "resume?" /\ PausedWhile /\ Typed /\ inbox \in Nat /\ Low \in Nat
    BY ConfigIs DEF CoreInv, ResumeReads, At, Typed, EventTypes
  <1>2. deferredDisconnects = <<>> /\ ctlPaused
    BY <1>1 DEF Resuming, PausedWhile, Left
  <1>3. CASE CapacityAvailable
    BY <1>2, <1>3 DEF ResumeReads, ResumeAll, Ends
  <1>4. CASE ~CapacityAvailable
    <2>1. inbox' > Low
      BY <1>1, <1>2, <1>4 DEF CapacityAvailable, ResumeReads, eventVars
    <2> QED
      BY <1>1, <2>1, HighIsDue DEF Ends
  <1> QED
    BY <1>3, <1>4

\* Reading a session to its end, within drainDeferredInput.
LEMMA ReadEndsWell ==
  ASSUME CoreInv, ReadOnce, UNCHANGED config, ReadSession \/ Decode \/ ReadStops, Resuming,
         phase = "Running"
  PROVE  Ends
  <1>1. /\ io \in IoType /\ CallsOK(io) /\ Positions /\ PutOff /\ MapTypes
        /\ io.pc \in Reading
    BY DEF CoreInv, Calls, Typed, ReadSession, Decode, ReadStops, At, Reading
  <1>2. io.drain /\ deferredDisconnects = <<>>
    BY <1>1 DEF Resuming, InReads, Reading
  <1>3. ReadReturn.pc = "reads" /\ io.fd \in Fds
    BY <1>1, <1>2 DEF CallsOK, ReadReturn, IoType
  <1>4. ASSUME io' = ReadReturn, UNCHANGED deferredDisconnects PROVE Ends
    BY SMTT(40), <1>2, <1>3, <1>4, StillResuming DEF Ends
  <1>5. CASE ReadSession
    <2>1. CASE Disconnect(io.fd, ReadReturn) /\ ~ReadEnds(sessionAt[io.fd])
      <3>1. io.fd \in OpenFds
        BY SMTT(40), <1>3, <2>1 DEF ReadEnds, OpenFds
      <3>2. ~HasPacket(sessionAt[io.fd])
        BY <1>2, <1>5, <3>1, <1>1 DEF PutOff, ReadOnce, ReadSession, At
      <3> QED
        BY <1>2, <1>3, <2>1, <3>1, <3>2, DisconnectEnds
    <2>2. CASE Goto("decode") /\ UNCHANGED deferredVars
      <3>1. io'.pc = "decode" /\ io'.drain
        BY <1>1, <1>2, <2>2 DEF Goto, IoType
      <3> QED
        BY <1>2, <2>2, <3>1, StillResuming DEF Ends, Reading, deferredVars
    <2>3. CASE io' = ReadReturn /\ UNCHANGED deferredVars
      BY <1>4, <2>3 DEF deferredVars
    <2> QED
      BY <1>5, <2>1, <2>2, <2>3 DEF ReadSession
  <1>6. CASE Decode
    <2>1. EnqueueDecoded(sessionAt[io.fd], io.drain, "read", "readDefer", "readError")
      BY <1>6 DEF Decode
    <2>2. /\ io'.pc \in {io.pc, "read", "readDefer", "readError"}
          /\ io'.drain = io.drain
      BY <1>1, <2>1, EnqueueGoes
    <2>3. io'.pc \in Reading /\ io'.drain
      BY <1>1, <1>2, <2>2 DEF Reading
    <2>4. deferredDisconnects' = <<>>
      BY <1>2, <1>6 DEF Decode, deferredVars
    <2> QED
      BY <2>3, <2>4, StillResuming DEF Ends
  <1>7. CASE ReadStops
    <2>1. CASE io' = ReadReturn /\ DeferRead(io.fd)
      BY <1>4, <2>1 DEF DeferRead
    <2>2. CASE At("readError") /\ Disconnect(io.fd, ReadReturn)
      <3>1. io.fd \in OpenFds /\ ~HasPacket(sessionAt[io.fd])
        BY <1>1, <2>2 DEF Positions, PutOff, At
      <3> QED
        BY <1>2, <1>3, <2>2, <3>1, DisconnectEnds
    <2> QED
      BY <1>7, <2>1, <2>2 DEF ReadStops
  <1> QED
    BY SMTT(40), <1>5, <1>6, <1>7

LEMMA ResumingGoesOn ==
  ASSUME CoreInv, ReadOnce, UNCHANGED config, IoThread, Resuming, phase = "Running", paused
  PROVE  Ends
  <1>1. \/ io.pc \in {"disconnects", "pushDisconnected", "disconnectsSize", "yield", "reads",
                      "readsDecode", "readsPop", "readsError", "readsDisconnect", "readsSize",
                      "resume?"}
        \/ io.pc \in Reading
    BY DEF Resuming, InReads
  <1>2. ~(Loop \/ Output \/ Shutdown)
    BY <1>1 DEF Loop, LoopTop, Wait, NextEvent, EndOfEvents, HandleWakeup, HandleSession, FlushEvent,
       ExpireIdle, Output, DrainOutbound, DrainOutboundEnd, FlushSend, FlushEnd, Shutdown, Advance,
       AdvanceInput, AdvanceStop, AdvanceFinished, Join, FlushAll, CloseResources, Fail, At, Reading
  <1>3. ~(AcceptEnd \/ Accept \/ ResumeClosed)
    BY <1>1 DEF AcceptEnd, Accept, ResumeClosed, At, Reading
  <1> QED
    BY <1>2, <1>3, YieldEnds, DrainDisconnectsEnds, PushDisconnectedEnds, DrainSizeEnds, DrainReadsEnds,
       DrainReadsDecodeEnds,
       DrainReadsPopEnds, DrainReadsErrorEnds, ResumeReadsEnds, ReadEndsWell DEF IoThread, Input

\* The wakeup is taken: drainDeferredInput begins.
LEMMA WakeupEnds ==
  ASSUME CoreInv, UNCHANGED config, HandleWakeup, phase = "Running", Due
  PROVE  Ends
  <1>1. io \in IoType
    BY DEF CoreInv, Calls
  <1>2. CASE io' = EnterDrain("events")
    <2>1. io'.pc = "disconnects"
      BY <1>1, <1>2 DEF EnterDrain, IoType
    <2> QED
      BY <2>1 DEF Ends, Resuming
  <1>3. CASE UNCHANGED inWake
    <2>1. Low' = Low
      BY DEF Low
    <2>2. inbox' = inbox /\ pool' = pool
      BY DEF HandleWakeup, stable, eventVars
    <2> QED
      BY <1>3, <2>1, <2>2 DEF Due, Ends
  <1> QED
    BY <1>2, <1>3 DEF HandleWakeup, wakeups

\* The workers notify exactly when they pop to the low watermark, so what is due
\* stays due.
LEMMA OthersDue ==
  ASSUME Typed, PoolInv, UNCHANGED config, Stop \/ DeadlinePasses \/ Pool \/ Peers, Due
  PROVE  Due'
  <1>1. /\ Low' = Low /\ Low \in Nat /\ inbox \in Nat /\ pool \in PoolType
        /\ pool.owes \in Nat
    BY ConfigIs DEF Typed, EventTypes, Low, PoolInv, PoolType
  <1>2. CASE Stop \/ DeadlinePasses \/ Peers
    <2>1. UNCHANGED <<inbox, inWake, pool>>
      BY <1>2 DEF Stop, DeadlinePasses, Peers, PeerConnects, PeerSends, PeerLeaves, unchangedByPeers,
         eventVars, wakeups
    <2> QED
      BY <1>1, <2>1 DEF Due
  <1>3. CASE WorkerPop
    <2>1. inbox' = inbox - 1 /\ inWake' = inWake
      BY <1>3 DEF WorkerPop, wakeups
    <2>2. pool'.owes = IF inbox - 1 = Low THEN pool.owes + 1 ELSE pool.owes
      BY <1>1, <1>3 DEF WorkerPop, PoolType
    <2>3. CASE inbox - 1 = Low
      BY <1>1, <2>2, <2>3 DEF Due
    <2>4. CASE inbox - 1 # Low
      <3>1. inbox > Low => inbox' > Low
        BY <1>1, <2>1, <2>4
      <3> QED
        BY <1>1, <2>1, <2>2, <2>4, <3>1 DEF Due
    <2> QED
      BY <2>3, <2>4
  <1>4. CASE WorkerNotify
    <2>1. inbox' = inbox
      BY <1>4 DEF WorkerNotify
    <2>2. CASE inWake'
      BY <2>2 DEF Due
    <2>3. CASE UNCHANGED inWake /\ pool' = [pool EXCEPT !.owesOut = @ - 1]
      <3>1. pool'.owes = pool.owes
        BY <1>1, <2>3 DEF PoolType
      <3> QED
        BY <1>1, <2>1, <2>3, <3>1 DEF Due
    <2> QED
      BY <1>4, <2>2, <2>3 DEF WorkerNotify
  <1>5. CASE WorkerEmit \/ WorkerPush \/ WorkerEnd \/ PoolDone
    <2>1. UNCHANGED <<inbox, inWake>>
      BY <1>5 DEF WorkerEmit, WorkerPush, WorkerEnd, PoolDone, wakeups
    <2>2. pool'.owes = pool.owes
      BY <1>1, <1>5 DEF WorkerEmit, WorkerPush, WorkerEnd, PoolDone, PoolType
    <2> QED
      BY <1>1, <2>1, <2>2 DEF Due
  <1>6. CASE PoolCompletes
    <2>1. inbox' >= inbox /\ inbox' \in Nat
      BY <1>1, <1>6 DEF PoolCompletes
    <2>2. inWake' = inWake /\ pool'.owes = pool.owes
      BY <1>1, <1>6 DEF PoolCompletes, PoolType, wakeups
    <2> QED
      BY <1>1, <2>1, <2>2 DEF Due
  <1> QED
    BY <1>2, <1>3, <1>4, <1>5, <1>6 DEF Pool

LEMMA DueNext ==
  ASSUME CoreInv, PoolInv, ReadOnce, DueInv, Next
  PROVE  DueInv'
  <1> SUFFICES ASSUME phase' = "Running", paused', io'.pc \notin Left
               PROVE  Due' \/ Resuming'
    BY DEF DueInv
  <1>1. Typed /\ io \in IoType /\ UNCHANGED config
    BY DEF CoreInv, Calls, Next
  <1>2. CASE IoThread
    <2>1. phase = "Running"
      BY <1>2, PhaseSteps DEF PhaseStep, BeginShutdown, phaseVars
    <2>2. io.pc \notin Left
      BY <1>1, <1>2, LeftStays
    <2>3. CASE ~paused
      <3>1. inbox' > Low
        BY <1>1, <1>2, <2>3, IoGrows DEF Grows
      <3> QED
        BY <1>1, <3>1, HighIsDue
    <2>4. CASE paused /\ Due
      BY <1>1, <1>2, <2>1, <2>4, DueStays, WakeupEnds DEF Ends
    <2>5. CASE paused /\ Resuming
      BY <1>1, <1>2, <2>1, <2>5, ResumingGoesOn DEF Ends
    <2> QED
      BY <2>1, <2>2, <2>3, <2>4, <2>5 DEF DueInv
  <1>3. CASE Stop \/ DeadlinePasses \/ Pool \/ Peers
    <2>1. UNCHANGED <<io, phase, paused, deferredDisconnects>>
      BY <1>3, OthersStay DEF deferredVars, reading
    <2>2. Due \/ Resuming
      BY <2>1 DEF DueInv
    <2>3. Resuming => Resuming'
      BY <2>1 DEF Resuming
    <2> QED
      BY <1>1, <1>3, <2>2, <2>3, OthersDue
  <1> QED
    BY <1>2, <1>3 DEF Next

\* While the server runs with reads paused, the end of the pause is due or
\* drainDeferredInput is working at it.
THEOREM PauseInvariant == Spec => [](ReadOnce /\ DueInv)
  <1>1. Init => ReadOnce /\ DueInv
    BY DEF Init, Start, ReadOnce, DueInv
  <1>2. ServerInv /\ ServerInv' /\ ReadOnce /\ DueInv /\ [Next]_vars => (ReadOnce /\ DueInv)'
    <2> SUFFICES ASSUME ServerInv, ServerInv', ReadOnce, DueInv, [Next]_vars
                 PROVE  (ReadOnce /\ DueInv)'
      OBVIOUS
    <2>1. CASE Next
      BY <2>1, ReadOnceNext, DueNext DEF ServerInv, OutInv
    <2>2. CASE UNCHANGED vars
      <3>1. UNCHANGED <<io, phase, paused, deferredReadSet, deferredDisconnects, inbox, inWake, pool,
                        config>>
        BY <2>2 DEF vars, serverVars, reading, deferredVars, phaseVars, loopVars, eventVars, wakeups
      <3>2. ReadOnce'
        BY <3>1 DEF ReadOnce
      <3>3. DueInv'
        BY <3>1 DEF DueInv, Due, Resuming, Low
      <3> QED
        BY <3>2, <3>3
    <2> QED
      BY <2>1, <2>2
  <1> QED
    BY <1>1, <1>2, ServerInvariant, PTL DEF Spec

\* When the I/O thread goes to sleep with reads paused, the inbox is above the low
\* watermark or the wakeup is on its way, so that no pause is forgotten; and what
\* it has decoded and not pushed is queued for drainDeferredInput (WakeupDue).
THEOREM WakeupAlwaysDue == Spec => []WakeupDue
  <1>1. ServerInv /\ DueInv => WakeupDue
    <2> SUFFICES ASSUME ServerInv, DueInv, io.pc = "wait" PROVE WakeupDue
      BY DEF WakeupDue, At
    <2>1. ReadQueue /\ PutOff
      BY DEF ServerInv, CoreInv
    <2>2. phase = "Running" /\ paused => inbox > Low \/ inWake \/ pool.owes > 0
      BY DEF DueInv, Due, Resuming, InReads, Left, Reading
    <2>3. \A fd \in OpenFds : HasPacket(sessionAt[fd]) => fd \in deferredReadSet
      BY <2>1 DEF PutOff
    <2>4. \A fd \in deferredReadSet : \E i \in DOMAIN deferredReads : deferredReads[i] = fd
      BY <2>1 DEF ReadQueue
    <2> QED
      BY <2>2, <2>3, <2>4 DEF WakeupDue
  <1> QED
    BY <1>1, ServerInvariant, PauseInvariant, PTL

-----------------------------------------------------------------------------
\* What epoll watches.

\* The deadline is set once the server no longer runs.
LateInv == late => phase # "Running"

LEMMA LateNext ==
  ASSUME LateInv, Next
  PROVE  LateInv'
  <1>1. phase' = "Running" => phase = "Running"
    <2>1. CASE IoThread
      BY <2>1, PhaseSteps DEF PhaseStep, BeginShutdown, phaseVars
    <2>2. CASE Stop \/ DeadlinePasses \/ Pool \/ Peers
      BY <2>2, OthersStay
    <2> QED
      BY <2>1, <2>2 DEF Next
  <1>2. CASE DeadlinePasses
    BY <1>1, <1>2 DEF DeadlinePasses, Draining, LateInv
  <1>3. CASE Next /\ ~DeadlinePasses
    <2>1. ASSUME Loop PROVE late' = late
      BY ZenonT(60), <2>1
      DEF Loop, LoopTop, Wait, NextEvent, EndOfEvents, HandleWakeup, HandleSession, FlushEvent,
         ExpireIdle, exceptIo, exceptDisconnect, stable, control
    <2>2. ASSUME Input PROVE late' = late
      BY <2>2 DEF Input, AcceptEnd, Accept, ReadSession, Decode, ReadStops, Yield, DrainDisconnects,
         PushDisconnected, DrainSize, DrainReads, DrainReadsDecode, DrainReadsPop, DrainReadsError, ResumeReads,
         ResumeClosed, exceptIo, exceptDisconnect, stable, control
    <2>3. ASSUME Output PROVE late' = late
      BY <2>3 DEF Output, DrainOutbound, DrainOutboundEnd, FlushSend, FlushEnd, exceptDisconnect, stable,
         control
    <2>4. ASSUME Shutdown PROVE late' = late
      BY <2>4 DEF Shutdown, Advance, AdvanceInput, AdvanceStop, AdvanceFinished, Join, FlushAll,
         CloseResources, Fail, exceptIo, exceptDisconnect, stable, control
    <2>5. ASSUME Stop \/ Pool \/ Peers PROVE late' = late
      BY <2>5 DEF Stop, Pool, WorkerPop, WorkerNotify, WorkerEmit, WorkerPush, WorkerEnd, PoolCompletes, PoolDone,
         unchangedByPool, Peers, PeerConnects, PeerSends, PeerLeaves, unchangedByPeers, control
    <2>6. late' = late
      BY <1>3, <2>1, <2>2, <2>3, <2>4, <2>5 DEF Next, IoThread
    <2> QED
      BY <1>1, <2>6 DEF LateInv
  <1> QED
    BY <1>2, <1>3

AllWatched == \A fd \in OpenFds : Watched(fd)

\* reads_paused_ and the interests change together: pauseReads, or nothing but the
\* descriptors that are gone.
Steered(gone) ==
    \/ PauseReads(gone)
    \/ interest' = InterestWithout(gone) /\ UNCHANGED <<paused, listener>>

LEMMA SteeredKeeps ==
  ASSUME Typed, NEW gone, Steered(gone), UNCHANGED <<phase, closing, writes>>,
         \A fd \in OpenFds \ gone : Watched(fd) /\ sessionAt'[fd] = sessionAt[fd]
  PROVE  /\ \A fd \in OpenFds \ gone : Watched(fd)'
         /\ listener = ~paused => listener' = ~paused'
  <1>1. paused \in BOOLEAN /\ listener \in BOOLEAN
    BY DEF Typed, ReadingTypes
  <1>2. ASSUME NEW fd \in OpenFds \ gone PROVE Watched(fd)'
    <2>1. fd \in Fds /\ Watched(fd) /\ sessionAt'[fd] = sessionAt[fd]
      BY DEF OpenFds
    <2>2. Wanted(fd, paused, phase, closing, writes)' = Wanted(fd, paused', phase, closing, writes)
      BY <2>1 DEF Wanted
    <2>3. interest'[fd] = Wanted(fd, paused', phase, closing, writes)
      <3>1. CASE interest' = InterestWithout(gone) /\ paused' = paused
        BY <2>1, <3>1 DEF InterestWithout, Watched
      <3>2. CASE interest' = InterestAll(TRUE, phase, gone) /\ paused' = TRUE
        BY <2>1, <3>2 DEF InterestAll
      <3> QED
        BY <1>1, <3>1, <3>2 DEF Steered, PauseReads
    <2> QED
      BY <2>2, <2>3 DEF Watched
  <1>3. listener = ~paused => listener' = ~paused'
    BY <1>1 DEF Steered, PauseReads
  <1> QED
    BY <1>2, <1>3

LEMMA SameSteered ==
  ASSUME Typed, UNCHANGED reading
  PROVE  Steered({})
  <1>1. interest \in [Fds -> Interests]
    BY DEF Typed, ReadingTypes
  <1>2. InterestWithout({}) = interest
    BY <1>1 DEF InterestWithout
  <1> QED
    BY <1>2 DEF Steered, reading

LEMMA PushSteered ==
  ASSUME NEW kind, NEW id, NEW gone, PushEvent(kind, id, gone)
  PROVE  Steered(gone)
  BY DEF PushEvent, ObservePush, Steered

LEMMA DisconnectSteered ==
  ASSUME NEW fd, NEW next, Disconnect(fd, next)
  PROVE  Steered({fd}) /\ sessionAt' = [sessionAt EXCEPT ![fd] = 0]
  <1>1. CASE PushEvent("Disconnected", sessionAt[fd], {fd})
    BY <1>1, PushSteered DEF Disconnect, Forget
  <1>2. CASE ObserveFull({fd})
    BY <1>2 DEF Disconnect, Forget, ObserveFull, Steered
  <1>3. CASE interest' = InterestWithout({fd}) /\ UNCHANGED <<paused, listener>>
    BY <1>3 DEF Disconnect, Forget, Steered
  <1> QED
    BY <1>1, <1>2, <1>3 DEF Disconnect

LEMMA EnqueueSteered ==
  ASSUME Typed, NEW id, NEW counted, NEW onTrue, NEW onFalse, NEW onError,
         EnqueueDecoded(id, counted, onTrue, onFalse, onError)
  PROVE  Steered({})
  <1>1. CASE PushEvent("Packet", id, {})
    BY <1>1, PushSteered
  <1>2. CASE ObserveFull({})
    BY <1>2 DEF ObserveFull, Steered
  <1>3. CASE UNCHANGED reading
    BY <1>3, SameSteered
  <1> QED
    BY <1>1, <1>2, <1>3 DEF EnqueueDecoded

\* What each step of the I/O thread leaves.
Watches == AllWatched' /\ (phase = "Running" /\ listener = ~paused => listener' = ~paused')

LEMMA DisconnectWatches ==
  ASSUME CoreInv, NEW fd \in OpenFds, NEW next, Disconnect(fd, next),
         UNCHANGED <<phase, closing, writes>>, \A f \in OpenFds \ {fd} : Watched(f)
  PROVE  Watches
  <1>1. Typed /\ MapTypes
    BY DEF CoreInv, Typed
  <1>2. Steered({fd}) /\ sessionAt' = [sessionAt EXCEPT ![fd] = 0]
    BY DisconnectSteered
  <1>3. OpenFds' = OpenFds \ {fd} /\ \A f \in Fds \ {fd} : sessionAt'[f] = sessionAt[f]
    BY <1>1, <1>2, GoneIs
  <1>4. \A f \in OpenFds \ {fd} : Watched(f) /\ sessionAt'[f] = sessionAt[f]
    BY <1>3 DEF OpenFds
  <1>5. /\ \A f \in OpenFds \ {fd} : Watched(f)'
        /\ listener = ~paused => listener' = ~paused'
    BY <1>1, <1>2, <1>4, SteeredKeeps
  <1> QED
    BY <1>3, <1>5 DEF Watches, AllWatched

LEMMA SteeredWatches ==
  ASSUME Typed, Steered({}), AllWatched, UNCHANGED <<sessionAt, phase, closing, writes>>
  PROVE  Watches
  <1>1. OpenFds' = OpenFds
    BY DEF OpenFds
  <1>2. /\ \A f \in OpenFds \ {} : Watched(f)'
        /\ listener = ~paused => listener' = ~paused'
    BY SteeredKeeps DEF AllWatched
  <1> QED
    BY <1>1, <1>2 DEF Watches, AllWatched

\* The phases after Running watch for the same.
LEMMA QuietWatches ==
  ASSUME AllWatched, UNCHANGED <<sessionAt, reading, closing, writes>>,
         phase' = "Running" <=> phase = "Running"
  PROVE  Watches
  <1>1. OpenFds' = OpenFds /\ UNCHANGED <<interest, listener, paused>>
    BY DEF OpenFds, reading
  <1>2. ASSUME NEW fd \in OpenFds PROVE Watched(fd)'
    <2>1. Wanted(fd, paused, phase, closing, writes)' = Wanted(fd, paused, phase, closing, writes)
      BY <1>1 DEF Wanted
    <2> QED
      BY <1>1, <2>1 DEF AllWatched, Watched
  <1> QED
    BY <1>1, <1>2 DEF Watches, AllWatched

\* updateInterest for every session.
LEMMA AllAsked ==
  ASSUME MapTypes, NEW isPaused, NEW ph, interest' = InterestAll(isPaused, ph, {}),
         paused' = isPaused, phase' = ph, UNCHANGED <<sessionAt, closing, writes>>
  PROVE  AllWatched'
  <1>1. OpenFds' = OpenFds
    BY DEF OpenFds
  <1>2. ASSUME NEW fd \in OpenFds PROVE Watched(fd)'
    <2>1. Wanted(fd, paused, phase, closing, writes)' = Wanted(fd, isPaused, ph, closing, writes)
      BY DEF Wanted
    <2>2. interest'[fd] = Wanted(fd, isPaused, ph, closing, writes)
      BY DEF InterestAll, OpenFds
    <2> QED
      BY <2>1, <2>2 DEF Watched
  <1> QED
    BY <1>1, <1>2 DEF AllWatched

\* How the phase changes what is watched: not at all, unless beginShutdown asks for
\* everything anew.
PhaseClass ==
    \/ phase' = "Running" <=> phase = "Running"
    \/ phase = "Running" /\ BeginShutdown

LEMMA PhaseClasses ==
  ASSUME Stages, LateInv, IoThread
  PROVE  PhaseClass
  <1>1. io.pc = "advanceStop" => phase # "Running"
    BY DEF Stages, StopDrain
  <1>2. io.pc = "advanceEnd" => phase # "Running"
    BY DEF Stages, Ending
  <1> QED
    BY <1>1, <1>2, PhaseSteps DEF PhaseStep, PhaseClass, LateInv, phaseVars

LEMMA Calm ==
  ASSUME CoreInv, AllWatched, PhaseClass, UNCHANGED <<sessionAt, closing, writes>>,
         UNCHANGED reading \/ BeginShutdown
  PROVE  Watches
  <1>1. MapTypes
    BY DEF CoreInv, Typed
  <1>2. CASE BeginShutdown
    <2>1. AllWatched'
      BY <1>1, <1>2, AllAsked DEF BeginShutdown
    <2> QED
      BY <1>2, <2>1 DEF BeginShutdown, Watches
  <1>3. CASE UNCHANGED reading /\ (phase' = "Running" <=> phase = "Running")
    BY <1>3, QuietWatches
  <1> QED
    BY <1>2, <1>3 DEF PhaseClass

LEMMA LoopWatches ==
  ASSUME CoreInv, AllWatched, PhaseClass, Loop
  PROVE  Watches
  <1>1. closing' = closing /\ writes' = writes
    BY LoopOut DEF SameOut
  <1>2. ASSUME UNCHANGED maps, UNCHANGED reading \/ BeginShutdown PROVE Watches
    BY <1>1, <1>2, Calm DEF maps
  <1>3. ASSUME NEW fd \in OpenFds, NEW next, Disconnect(fd, next), UNCHANGED phaseVars PROVE Watches
    BY <1>1, <1>3, DisconnectWatches DEF AllWatched, phaseVars
  <1>4. CASE LoopTop \/ NextEvent
    BY <1>2, <1>4 DEF LoopTop, NextEvent, ObserveStop, stable
  <1>5. CASE Wait \/ HandleWakeup
    BY <1>2, <1>5 DEF Wait, HandleWakeup, stable
  <1>6. CASE EndOfEvents \/ FlushEvent
    BY <1>2, <1>6 DEF EndOfEvents, FlushEvent, exceptIo
  <1>7. CASE HandleSession
    <2>1. PICK e \in batch :
            /\ e.token > 3
            /\ \/ UNCHANGED <<maps, reading>>
               \/ /\ Current(e.token - 3)
                  /\ Disconnect(fdByToken[e.token - 3], [io EXCEPT !.pc = "events"])
      BY <1>7 DEF HandleSession
    <2>2. e.token - 3 \in Ids
      <3>1. e \in EventType /\ MaxConnections \in Nat
        BY TcpServerAssumption DEF CoreInv, Typed, BatchTypes
      <3> QED
        BY <2>1, <3>1 DEF EventType, Ids
    <2>3. Current(e.token - 3) => fdByToken[e.token - 3] \in OpenFds
      <3>1. MapTypes
        BY DEF CoreInv, Typed
      <3> QED
        BY <2>2, <3>1 DEF Current, MapTypes, OpenFds, Ids
    <2>4. UNCHANGED phaseVars
      BY <1>7 DEF HandleSession
    <2> QED
      BY <1>2, <1>3, <2>1, <2>3, <2>4
  <1>8. CASE ExpireIdle
    <2>1. UNCHANGED phaseVars
      BY <1>8 DEF ExpireIdle, exceptDisconnect
    <2> QED
      BY <1>2, <1>3, <1>8, <2>1 DEF ExpireIdle
  <1> QED
    BY <1>4, <1>5, <1>6, <1>7, <1>8 DEF Loop

LEMMA AcceptWatches ==
  ASSUME CoreInv, AllWatched, Fresh, PhaseClass, Accept
  PROVE  Watches
  <1>1. /\ UNCHANGED <<closing, writes, phase, paused, listener>>
        /\ io.pc = "accept" /\ phase = "Running" /\ ~paused /\ paused \in BOOLEAN /\ MapTypes
        /\ interest \in [Fds -> Interests]
    BY DEF Accept, writeVars, phaseVars, At, CoreInv, Positions, Typed, ReadingTypes
  <1>2. CASE UNCHANGED <<maps, interest>>
    <2>1. ctlPaused' = ctlPaused
      BY DEF Accept
    <2> QED
      BY <1>1, <1>2, <2>1, Calm DEF maps, reading
  <1>3. CASE /\ backlog > 0 /\ nextId' = nextId + 1
             /\ sessionAt' = [sessionAt EXCEPT ![Min(Fds \ OpenFds)] = nextId']
             /\ interest' = [interest EXCEPT ![Min(Fds \ OpenFds)] = {"IN", "RDHUP"}]
    <2> DEFINE fd == Min(Fds \ OpenFds)
    <2> HIDE DEF fd
    <2>1. nextId' \in Ids /\ nextId' > nextId
      <3>1. /\ nextId \in Nat /\ nextId + backlog <= connections /\ connections <= config.connections
            /\ config.connections \in Nat /\ config.connections <= MaxConnections /\ backlog \in Nat
            /\ connections \in Nat /\ MaxConnections \in Nat
        BY <1>1, ConfigIs DEF CoreInv, Typed, Connected, MapTypes
      <3> QED
        BY <1>3, <3>1 DEF Ids
    <2>2. ~closing[nextId'] /\ writes[nextId'] = <<>>
      BY <2>1 DEF Fresh
    <2>3. /\ sessionAt' = [sessionAt EXCEPT ![fd] = nextId']
          /\ interest' = [interest EXCEPT ![fd] = {"IN", "RDHUP"}]
      BY <1>3 DEF fd
    <2>4. ASSUME NEW f \in OpenFds' PROVE Watched(f)'
      <3>1. f \in Fds
        BY DEF OpenFds
      <3>2. CASE f = fd
        <4>1. sessionAt'[f] = nextId' /\ interest'[f] = {"IN", "RDHUP"}
          BY <1>1, <2>3, <3>1, <3>2 DEF MapTypes
        <4>2. Wanted(f, paused, phase, closing, writes)' = {"IN", "RDHUP"}
          BY <1>1, <2>2, <4>1 DEF Wanted
        <4> QED
          BY <4>1, <4>2 DEF Watched
      <3>3. CASE f # fd
        <4>1. sessionAt'[f] = sessionAt[f] /\ interest'[f] = interest[f]
          BY <1>1, <2>3, <3>1, <3>3 DEF MapTypes
        <4>2. f \in OpenFds
          BY <3>1, <4>1 DEF OpenFds
        <4>3. Wanted(f, paused, phase, closing, writes)' = Wanted(f, paused, phase, closing, writes)
          BY <1>1, <4>1 DEF Wanted
        <4> QED
          BY <4>1, <4>2, <4>3 DEF Watched, AllWatched
      <3> QED
        BY <3>2, <3>3
    <2> QED
      BY <1>1, <2>4 DEF Watches, AllWatched
  <1> QED
    BY <1>2, <1>3 DEF Accept

\* readSession is called for a descriptor.
LEMMA ReadsSession ==
  ASSUME Calls, ReadSession
  PROVE  io.fd \in Fds
  <1>1. io.pc = "read"
    BY DEF ReadSession, At
  <1>2. CallsOK(io)
    BY DEF Calls
  <1> QED
    BY <1>1, <1>2 DEF CallsOK, Reading

LEMMA InputWatches ==
  ASSUME CoreInv, AllWatched, Fresh, PhaseClass, Input
  PROVE  Watches
  <1>1. closing' = closing /\ writes' = writes /\ Typed /\ Calls /\ Positions /\ MapTypes
    BY InputOut DEF SameOut, CoreInv, Typed
  <1>2. ASSUME UNCHANGED <<maps, reading>> PROVE Watches
    BY <1>1, <1>2, Calm DEF maps
  <1>3. ASSUME NEW fd \in OpenFds, NEW next, Disconnect(fd, next), UNCHANGED phaseVars PROVE Watches
    BY <1>1, <1>3, DisconnectWatches DEF AllWatched, phaseVars
  <1>4. ASSUME Steered({}), UNCHANGED maps, UNCHANGED phaseVars PROVE Watches
    BY <1>1, <1>4, SteeredWatches DEF maps, phaseVars
  <1>5. CASE AcceptEnd \/ DrainSize \/ ResumeClosed
    BY <1>2, <1>5 DEF AcceptEnd, DrainSize, ResumeClosed, exceptIo
  <1>6. CASE Accept
    BY <1>6, AcceptWatches
  <1>7. CASE ReadSession
    <2>1. \/ UNCHANGED <<maps, reading>>
          \/ ~ReadEnds(sessionAt[io.fd]) /\ Disconnect(io.fd, ReadReturn)
      BY <1>7 DEF ReadSession
    <2>2. ~ReadEnds(sessionAt[io.fd]) => io.fd \in OpenFds
      <3>1. io.fd \in Fds
        BY <1>1, <1>7, ReadsSession
      <3> QED
        BY SMTT(40), <3>1 DEF ReadEnds, OpenFds
    <2>3. UNCHANGED phaseVars
      BY <1>7 DEF ReadSession
    <2> QED
      BY <1>2, <1>3, <2>1, <2>2, <2>3
  <1>8. CASE Decode
    <2>1. Steered({})
      BY <1>1, <1>8, EnqueueSteered DEF Decode
    <2> QED
      BY <1>4, <1>8, <2>1 DEF Decode
  <1>9. CASE ReadStops
    <2>1. io.pc = "readError" => io.fd \in OpenFds
      BY <1>1 DEF Positions
    <2>2. UNCHANGED phaseVars
      BY <1>9 DEF ReadStops, exceptDisconnect
    <2> QED
      BY <1>2, <1>3, <1>9, <2>1, <2>2 DEF ReadStops, At
  <1>10. CASE Yield
    BY <1>2, <1>10 DEF Yield, stable
  <1>11. CASE DrainDisconnects
    <2>1. Steered({})
      BY <1>1, <1>11, EnqueueSteered, SameSteered DEF DrainDisconnects
    <2> QED
      BY <1>4, <1>11, <2>1 DEF DrainDisconnects
  <1>12. CASE PushDisconnected
    <2>1. Steered({})
      BY <1>12, PushSteered DEF PushDisconnected, ObserveFull, Steered
    <2> QED
      BY <1>4, <1>12, <2>1 DEF PushDisconnected, exceptDisconnect
  <1>13. CASE DrainReads
    <2>1. Steered({})
      BY <1>1, <1>13, SameSteered DEF DrainReads
    <2> QED
      BY <1>4, <1>13, <2>1 DEF DrainReads
  <1>17. CASE DrainReadsDecode
    <2>1. Steered({})
      BY <1>1, <1>17, EnqueueSteered DEF DrainReadsDecode
    <2> QED
      BY <1>4, <1>17, <2>1 DEF DrainReadsDecode
  <1>14. CASE DrainReadsPop
    BY <1>2, <1>14 DEF DrainReadsPop
  <1>15. CASE DrainReadsError
    <2>1. io.pc = "readsDisconnect" => io.fd \in OpenFds
      BY <1>1 DEF Positions
    <2>2. UNCHANGED phaseVars
      BY <1>15 DEF DrainReadsError, exceptDisconnect
    <2> QED
      BY <1>2, <1>3, <1>15, <2>1, <2>2 DEF DrainReadsError, At
  <1>16. CASE ResumeReads
    <2>1. sessionAt' = sessionAt /\ phase' = phase
      BY <1>16 DEF ResumeReads, exceptDisconnect, phaseVars, maps
    <2>2. CASE ResumeAll
      <3>1. AllWatched'
        BY <1>1, <2>1, <2>2, AllAsked DEF ResumeAll
      <3> QED
        BY <2>2, <3>1 DEF ResumeAll, Watches
    <2>3. CASE UNCHANGED <<paused, listener, interest>>
      <3>1. Steered({})
        <4>1. interest \in [Fds -> Interests]
          BY <1>1 DEF Typed, ReadingTypes
        <4>2. InterestWithout({}) = interest
          BY <4>1 DEF InterestWithout
        <4> QED
          BY <2>3, <4>2 DEF Steered
      <3> QED
        BY <1>1, <2>1, <3>1, SteeredWatches
    <2> QED
      BY <1>16, <2>2, <2>3 DEF ResumeReads
  <1> QED
    BY <1>5, <1>6, <1>7, <1>8, <1>9, <1>10, <1>11, <1>12, <1>13, <1>14, <1>15, <1>16, <1>17 DEF Input

\* updateInterest for the one session that changed; no other descriptor has it.
LEMMA UpdateWatches ==
  ASSUME CoreInv, NEW fd \in OpenFds, \A f \in OpenFds \ {fd} : Watched(f),
         UpdateInterest(fd, closing', writes'), UNCHANGED <<sessionAt, phase, paused, listener>>,
         \A i \in Ids \ {sessionAt[fd]} : closing'[i] = closing[i] /\ writes'[i] = writes[i]
  PROVE  Watches
  <1>1. MapTypes /\ MapsAgree /\ interest \in [Fds -> Interests]
    BY DEF CoreInv, Typed, ReadingTypes
  <1>2. OpenFds' = OpenFds
    BY DEF OpenFds
  <1>3. ASSUME NEW f \in OpenFds PROVE Watched(f)'
    <2>1. f \in Fds /\ sessionAt[f] \in Ids
      BY <1>1 DEF OpenFds, MapTypes
    <2>2. Wanted(f, paused, phase, closing, writes)' = Wanted(f, paused, phase, closing', writes')
      BY DEF Wanted
    <2>3. CASE f = fd
      BY <1>1, <2>1, <2>2, <2>3 DEF UpdateInterest, Watched
    <2>4. CASE f # fd
      <3>1. sessionAt[f] # sessionAt[fd]
        BY <1>1, <2>4 DEF MapsAgree
      <3>2. Wanted(f, paused, phase, closing', writes') = Wanted(f, paused, phase, closing, writes)
        BY <2>1, <3>1 DEF Wanted
      <3>3. interest'[f] = interest[f]
        BY <1>1, <2>1, <2>4 DEF UpdateInterest
      <3> QED
        BY <2>2, <2>4, <3>2, <3>3 DEF Watched
    <2> QED
      BY <2>3, <2>4
  <1> QED
    BY <1>2, <1>3 DEF Watches, AllWatched

LEMMA DrainOutboundWatches ==
  ASSUME CoreInv, OutTypes, AllWatched, PhaseClass, DrainOutbound
  PROVE  Watches
  <1>1. /\ MapTypes /\ MapsAgree /\ config \in Configs /\ outbox # <<>> /\ phase' = phase
    BY DEF CoreInv, Typed, DrainOutbound, phaseVars
  <1> DEFINE m == Head(outbox)
             fd == fdBySession[m.session]
             id == sessionAt[fd]
             next == [io EXCEPT !.popped = @ + 1]
  <1>2. m.session \in Ids /\ (fd # NoFd => fd \in Fds /\ fd \in OpenFds /\ id = m.session)
    BY <1>1, Addressee
  <1>3. \/ UNCHANGED <<maps, writeVars, reading>>
        \/ fd # NoFd /\ Disconnect(fd, next) /\ UNCHANGED writeVars
        \/ /\ fd # NoFd /\ UpdateInterest(fd, closing', writes') /\ TryEnqueue(id, m)
           /\ closing' = [closing EXCEPT ![id] = m.kind = "SendBytesAndDisconnect"]
           /\ UNCHANGED <<maps, listener, paused>>
    BY DEF DrainOutbound
  <1>4. CASE UNCHANGED <<maps, writeVars, reading>>
    BY <1>4, Calm DEF maps, writeVars
  <1>5. CASE fd # NoFd /\ Disconnect(fd, next) /\ UNCHANGED writeVars
    <2> HIDE DEF next
    <2> QED
      BY <1>1, <1>2, <1>5, DisconnectWatches DEF AllWatched, writeVars
  <1>6. CASE /\ fd # NoFd /\ UpdateInterest(fd, closing', writes') /\ TryEnqueue(id, m)
             /\ closing' = [closing EXCEPT ![id] = m.kind = "SendBytesAndDisconnect"]
             /\ UNCHANGED <<maps, listener, paused>>
    <2>1. \A i \in Ids \ {id} : closing'[i] = closing[i] /\ writes'[i] = writes[i]
      <3> HIDE DEF id, m
      <3> QED
        BY <1>6 DEF TryEnqueue, OutTypes
    <2>2. sessionAt' = sessionAt
      BY <1>6 DEF maps
    <2> HIDE DEF fd, m
    <2> QED
      BY <1>1, <1>2, <1>6, <2>1, <2>2, UpdateWatches DEF AllWatched
  <1> QED
    BY <1>3, <1>4, <1>5, <1>6

\* A flush ends with the interest of its session exact again.
LEMMA FlushWatches ==
  ASSUME CoreInv, WatchInv, FlushSend \/ FlushEnd
  PROVE  \/ Watches
         \/ /\ io'.flushFd = io.flushFd /\ UNCHANGED <<sessionAt, reading, phase, closing>>
            /\ \A i \in Ids \ {sessionAt[io.flushFd]} : writes'[i] = writes[i]
  <1>1. /\ io.pc = "flush" /\ io \in IoType /\ io.flushFd \in OpenFds /\ phase' = phase
        /\ \A f \in OpenFds \ {io.flushFd} : Watched(f)
    BY DEF CoreInv, Calls, Positions, FlushSend, FlushEnd, At, exceptDisconnect, phaseVars, WatchInv
  <1>2. CASE Disconnect(io.flushFd, FlushReturn) /\ UNCHANGED writeVars
    BY <1>1, <1>2, DisconnectWatches DEF writeVars
  <1>3. CASE /\ UpdateInterest(io.flushFd, closing, writes) /\ UNCHANGED writeVars
             /\ UNCHANGED <<maps, listener, paused>>
    <2>1. closing' = closing /\ writes' = writes /\ sessionAt' = sessionAt
      BY <1>3 DEF writeVars, maps
    <2>2. UpdateInterest(io.flushFd, closing', writes')
      BY <1>3, <2>1
    <2> QED
      BY <1>1, <1>3, <2>1, <2>2, UpdateWatches
  <1>4. CASE \E n \in 1..Head(writes[sessionAt[io.flushFd]]).left :
               /\ ConsumeWrite(sessionAt[io.flushFd], n)
               /\ io' = [io EXCEPT !.sent = @ + n]
               /\ UNCHANGED <<maps, reading, closing>>
    <2>1. PICK n \in 1..Head(writes[sessionAt[io.flushFd]]).left :
               /\ ConsumeWrite(sessionAt[io.flushFd], n)
               /\ io' = [io EXCEPT !.sent = @ + n]
               /\ UNCHANGED <<maps, reading, closing>>
      BY <1>4
    <2>2. io'.flushFd = io.flushFd
      BY <1>1, <2>1 DEF IoType
    <2>3. \A i \in Ids \ {sessionAt[io.flushFd]} : writes'[i] = writes[i]
      BY <2>1 DEF ConsumeWrite
    <2> QED
      BY <1>1, <2>1, <2>2, <2>3 DEF maps
  <1>5. CASE FlushSend
    BY <1>2, <1>3, <1>4, <1>5 DEF FlushSend
  <1>6. CASE FlushEnd
    BY <1>2, <1>3, <1>6 DEF FlushEnd, exceptDisconnect
  <1> QED
    BY <1>5, <1>6

LEMMA ShutdownWatches ==
  ASSUME CoreInv, AllWatched, PhaseClass, Shutdown
  PROVE  AllWatched' /\ (io'.pc \notin Left => Watches)
  <1>1. closing' = closing /\ writes' = writes
    BY ShutdownOut DEF SameOut
  <1>2. ASSUME UNCHANGED <<maps, reading>> PROVE Watches
    BY <1>1, <1>2, Calm DEF maps
  <1>3. CASE Advance \/ AdvanceInput \/ AdvanceStop \/ AdvanceFinished \/ Fail
    BY <1>2, <1>3 DEF Advance, AdvanceInput, AdvanceStop, AdvanceFinished, Fail, stable, Watches
  <1>4. CASE Join \/ FlushAll
    BY <1>2, <1>4 DEF Join, FlushAll, exceptIo, Watches
  <1>5. CASE CloseResources
    <2>1. OpenFds' = {}
      BY <1>5 DEF CloseResources, OpenFds
    <2>2. io'.pc \in Left
      BY <1>5 DEF CloseResources, Start, Left
    <2> QED
      BY <2>1, <2>2 DEF AllWatched
  <1> QED
    BY <1>3, <1>4, <1>5 DEF Shutdown

\* Only accept gives out a new id, and only sessions that are open are written to.
LEMMA FreshNext ==
  ASSUME CoreInv, OutTypes, Fresh, IoThread
  PROVE  Fresh'
  <1>1. MapTypes /\ MapsAgree /\ config \in Configs /\ Positions
    BY DEF CoreInv, Typed
  <1>2. nextId' \in Nat /\ nextId' >= nextId
    <2>1. nextId \in Nat
      BY <1>1 DEF MapTypes
    <2>2. UNCHANGED maps => nextId' = nextId
      BY DEF maps
    <2>3. ASSUME NEW fd, NEW next, Disconnect(fd, next) PROVE nextId' = nextId
      BY <2>3 DEF Disconnect, Forget
    <2>4. ASSUME Loop PROVE nextId' = nextId
      BY ZenonT(60), <2>2, <2>3, <2>4
      DEF Loop, LoopTop, Wait, NextEvent, EndOfEvents, HandleWakeup, HandleSession,
         FlushEvent, ExpireIdle, stable, exceptIo
    <2>5. ASSUME Input PROVE nextId' \in {nextId, nextId + 1}
      BY <2>2, <2>3, <2>5 DEF Input, AcceptEnd, Accept, ReadSession, Decode, ReadStops, Yield,
         DrainDisconnects, PushDisconnected, DrainSize, DrainReads, DrainReadsDecode, DrainReadsPop, DrainReadsError,
         ResumeReads, ResumeClosed, stable, exceptIo
    <2>6. ASSUME Output PROVE nextId' = nextId
      BY <2>2, <2>3, <2>6 DEF Output, DrainOutbound, DrainOutboundEnd, FlushSend, FlushEnd, stable
    <2>7. ASSUME Shutdown PROVE nextId' = nextId
      BY <2>2, <2>7 DEF Shutdown, Advance, AdvanceInput, AdvanceStop, AdvanceFinished, Join, FlushAll,
         CloseResources, Fail, stable, exceptIo
    <2> QED
      BY <2>1, <2>4, <2>5, <2>6, <2>7 DEF IoThread
  <1>3. CASE UNCHANGED <<closing, writes>>
    <2>1. nextId \in Nat
      BY <1>1 DEF MapTypes
    <2>2. \A i \in Ids : i \in Nat
      BY DEF Ids
    <2> QED
      BY <1>2, <1>3, <2>1, <2>2 DEF Fresh
  <1>4. ASSUME NEW id \in Ids, ~(id > nextId),
               \A i \in Ids \ {id} : closing'[i] = closing[i] /\ writes'[i] = writes[i]
        PROVE  Fresh'
    <2>1. nextId \in Nat
      BY <1>1 DEF MapTypes
    <2>2. \A i \in Ids : i \in Nat
      BY DEF Ids
    <2> QED
      BY <1>2, <1>4, <2>1, <2>2 DEF Fresh
  <1>5. CASE DrainOutbound
    <2> DEFINE m == Head(outbox)
               fd == fdBySession[m.session]
               id == sessionAt[fd]
    <2>1. m.session \in Ids /\ (fd # NoFd => fd \in OpenFds /\ id = m.session)
      BY <1>1, <1>5, Addressee DEF DrainOutbound
    <2>2. \/ UNCHANGED writeVars
          \/ /\ fd # NoFd /\ TryEnqueue(id, m)
             /\ closing' = [closing EXCEPT ![id] = m.kind = "SendBytesAndDisconnect"]
      BY <1>5 DEF DrainOutbound
    <2>3. CASE /\ fd # NoFd /\ TryEnqueue(id, m)
               /\ closing' = [closing EXCEPT ![id] = m.kind = "SendBytesAndDisconnect"]
      <3>1. \A i \in Ids \ {id} : closing'[i] = closing[i] /\ writes'[i] = writes[i]
        <4> HIDE DEF id, m
        <4> QED
          BY <2>3 DEF TryEnqueue, OutTypes
      <3>2. id \in Ids /\ id <= nextId
        BY <1>1, <2>1, <2>3 DEF MapsAgree
      <3>3. ~(id > nextId)
        BY <1>1, <3>2 DEF MapTypes, Ids
      <3> HIDE DEF id
      <3> QED
        BY <1>4, <3>1, <3>2, <3>3
    <2> QED
      BY <1>3, <2>2, <2>3 DEF writeVars
  <1>6. CASE FlushSend
    <2> DEFINE id == sessionAt[io.flushFd]
    <2>1. io.flushFd \in OpenFds
      BY <1>1, <1>6 DEF FlushSend, At, Positions
    <2>2. id \in Ids /\ id <= nextId
      BY <1>1, <2>1 DEF MapsAgree, MapTypes, OpenFds
    <2>3. ~(id > nextId)
      BY <1>1, <2>2 DEF MapTypes, Ids
    <2>4. \/ UNCHANGED writeVars
          \/ closing' = closing /\ \E n : ConsumeWrite(id, n)
      BY <1>6 DEF FlushSend
    <2>5. CASE closing' = closing /\ \E n : ConsumeWrite(id, n)
      <3>1. \A i \in Ids \ {id} : closing'[i] = closing[i] /\ writes'[i] = writes[i]
        <4> HIDE DEF id
        <4> QED
          BY <2>5 DEF ConsumeWrite, OutTypes
      <3> HIDE DEF id
      <3> QED
        BY <1>4, <2>2, <2>3, <3>1
    <2> QED
      BY <1>3, <2>4, <2>5 DEF writeVars
  <1>7. CASE DrainOutboundEnd \/ FlushEnd
    BY <1>3, <1>7 DEF DrainOutboundEnd, FlushEnd, exceptDisconnect, stable, writeVars
  <1>8. CASE Loop \/ Input \/ Shutdown
    BY <1>3, <1>8, LoopOut, InputOut, ShutdownOut DEF SameOut
  <1> QED
    BY <1>5, <1>6, <1>7, <1>8 DEF IoThread, Output

LEMMA WatchNext ==
  ASSUME CoreInv, OutTypes, Stages, LateInv, WatchInv, Next
  PROVE  WatchInv'
  <1>1. io \in IoType /\ CallsOK(io) /\ Fresh /\ MapTypes
    BY DEF CoreInv, Calls, WatchInv, Typed
  <1>2. NoFd \notin Fds
    BY TcpServerAssumption DEF NoFd
  <1>3. CASE IoThread
    <2>1. PhaseClass /\ Fresh'
      BY <1>1, <1>3, PhaseClasses, FreshNext
    <2>2. phase' = "Running" /\ io'.pc \notin Left => phase = "Running" /\ listener = ~paused
      <3>1. io'.pc \notin Left => io.pc \notin Left
        BY <1>1, <1>3, LeftStays
      <3>2. phase' = "Running" => phase = "Running"
        BY <2>1 DEF PhaseClass, BeginShutdown
      <3> QED
        BY <3>1, <3>2 DEF WatchInv
    <2>3. ASSUME AllWatched', io'.pc \notin Left => Watches PROVE WatchInv'
      BY <2>1, <2>2, <2>3 DEF WatchInv, Watches, AllWatched
    <2>4. CASE FlushSend \/ FlushEnd
      <3>1. CASE Watches
        BY <2>3, <3>1 DEF Watches
      <3>2. CASE /\ io'.flushFd = io.flushFd /\ UNCHANGED <<sessionAt, reading, phase, closing>>
                 /\ \A i \in Ids \ {sessionAt[io.flushFd]} : writes'[i] = writes[i]
        <4>1. OpenFds' = OpenFds /\ MapsAgree /\ io.flushFd \in OpenFds
          BY <2>4, <3>2 DEF OpenFds, CoreInv, Positions, FlushSend, FlushEnd, At
        <4>2. ASSUME NEW f \in OpenFds \ {io.flushFd} PROVE Watched(f)'
          <5>1. sessionAt[f] \in Ids /\ sessionAt[f] # sessionAt[io.flushFd]
            BY <1>1, <4>1 DEF MapsAgree, OpenFds, MapTypes
          <5>2. Wanted(f, paused, phase, closing, writes)' = Wanted(f, paused, phase, closing, writes)
            BY <3>2, <5>1 DEF Wanted, reading
          <5> QED
            BY <3>2, <5>2 DEF Watched, WatchInv, reading
        <4> QED
          BY <2>1, <2>2, <3>2, <4>1, <4>2 DEF WatchInv, reading
      <3> QED
        BY <2>4, <3>1, <3>2, FlushWatches
    <2>5. CASE ~(FlushSend \/ FlushEnd)
      <3>1. Loop \/ Input \/ DrainOutbound \/ DrainOutboundEnd \/ Shutdown
        BY SMTT(40), <1>3, <2>5 DEF IoThread, Output
      <3>2. io.pc # "flush"
        BY <3>1 DEF Loop, LoopTop, Wait, NextEvent, EndOfEvents, HandleWakeup, HandleSession, FlushEvent,
           ExpireIdle, Input, AcceptEnd, Accept, ReadSession, Decode, ReadStops, Yield, DrainDisconnects,
           PushDisconnected, DrainSize, DrainReads, DrainReadsDecode, DrainReadsPop, DrainReadsError, ResumeReads,
           ResumeClosed, DrainOutbound, DrainOutboundEnd, Shutdown, Advance, AdvanceInput, AdvanceStop,
           AdvanceFinished, Join, FlushAll, CloseResources, Fail, At
      <3>3. AllWatched
        <4>1. io.flushFd = NoFd
          BY <1>1, <3>2 DEF CallsOK
        <4>2. OpenFds \ {io.flushFd} = OpenFds
          BY <1>2, <4>1 DEF OpenFds
        <4> QED
          BY <4>2 DEF WatchInv, AllWatched
      <3>4. CASE DrainOutboundEnd
        <4>1. UNCHANGED <<sessionAt, closing, writes, reading>>
          BY <3>4 DEF DrainOutboundEnd, stable, maps, writeVars
        <4>2. Watches
          BY <2>1, <3>3, <4>1, Calm
        <4> QED
          BY <2>3, <4>2 DEF Watches
      <3>5. CASE Loop \/ Input \/ DrainOutbound
        <4>1. Watches
          BY <1>1, <2>1, <3>3, <3>5, LoopWatches, InputWatches, DrainOutboundWatches
        <4> QED
          BY <2>3, <4>1 DEF Watches
      <3>6. CASE Shutdown
        BY <2>1, <2>3, <3>3, <3>6, ShutdownWatches
      <3> QED
        BY <3>1, <3>4, <3>5, <3>6
    <2> QED
      BY <2>4, <2>5
  <1>4. CASE Stop \/ DeadlinePasses \/ Pool \/ Peers
    <2>1. UNCHANGED <<io, phase, maps, reading, closing, writes>>
      BY <1>4, OthersStay
    <2>2. OpenFds' = OpenFds
      BY <2>1 DEF OpenFds, maps
    <2>3. ASSUME NEW f \in OpenFds PROVE Watched(f)' <=> Watched(f)
      BY <2>1 DEF Watched, Wanted, maps, reading
    <2> QED
      BY <2>1, <2>2, <2>3 DEF WatchInv, Fresh, maps, reading
  <1> QED
    BY <1>3, <1>4 DEF Next

\* What epoll is asked for follows the sessions' state.
THEOREM WatchInvariant == Spec => [](LateInv /\ WatchInv)
  <1>1. Init => LateInv /\ WatchInv
    <2> SUFFICES ASSUME Init PROVE LateInv /\ WatchInv
      OBVIOUS
    <2>1. LateInv
      BY DEF Init, LateInv
    <2>2. OpenFds = {}
      BY DEF Init, OpenFds
    <2>3. listener = ~paused
      BY DEF Init
    <2>4. Fresh
      BY DEF Init, Fresh
    <2> QED
      BY <2>1, <2>2, <2>3, <2>4 DEF WatchInv
  <1>2. ServerInv /\ Stages /\ LateInv /\ WatchInv /\ [Next]_vars => (LateInv /\ WatchInv)'
    <2> SUFFICES ASSUME ServerInv, Stages, LateInv, WatchInv, [Next]_vars PROVE (LateInv /\ WatchInv)'
      OBVIOUS
    <2>1. CASE Next
      BY <2>1, LateNext, WatchNext DEF ServerInv, OutInv
    <2>2. CASE UNCHANGED vars
      <3>1. UNCHANGED <<io, phase, sessionAt, nextId, interest, listener, paused, closing, writes, late>>
        BY <2>2 DEF vars, serverVars, maps, reading, writeVars, phaseVars, loopVars, control
      <3>2. OpenFds' = OpenFds
        BY <3>1 DEF OpenFds
      <3>3. ASSUME NEW f \in OpenFds PROVE Watched(f)' <=> Watched(f)
        BY <3>1 DEF Watched, Wanted
      <3>4. WatchInv'
        BY <3>1, <3>2, <3>3 DEF WatchInv, Fresh
      <3>5. LateInv'
        BY <3>1 DEF LateInv
      <3> QED
        BY <3>4, <3>5
    <2> QED
      BY <2>1, <2>2
  <1> QED
    BY <1>1, <1>2, ServerInvariant, StagesInvariant, PTL DEF Spec

\* What the server keeps twice agrees at every step: the interest of each session
\* with what updateInterest would compute, pending_write_bytes_ with the queued
\* writes, and reads_paused_ with the controller and the listener (InterestExact).
THEOREM InterestAlwaysExact == Spec => []InterestExact
  <1>1. ServerInv /\ WatchInv => InterestExact
    <2> SUFFICES ASSUME ServerInv, WatchInv PROVE InterestExact
      OBVIOUS
    <2>1. \A fd \in OpenFds \ {io.flushFd} : interest[fd] = Wanted(fd, paused, phase, closing, writes)
      BY DEF WatchInv, Watched
    <2>2. \A id \in Ids : pendingBytes[id] = Cardinality(BytesOf(writes[id]))
      BY DEF ServerInv, OutInv, WriteInv, Queued
    <2>3. phase = "Running" /\ io.pc \notin Left => paused = ctlPaused /\ listener = ~paused
      BY DEF ServerInv, CoreInv, PausedWhile, WatchInv
    <2> QED
      BY <2>1, <2>2, <2>3 DEF InterestExact
  <1> QED
    BY <1>1, ServerInvariant, WatchInvariant, PTL

-----------------------------------------------------------------------------
\* The events of a session.

LogEvent == [kind : {"Packet", "Disconnected"}, sequence : Nat]

\* The Disconnected of session id was pushed.
Over(id) == log[id] # <<>> /\ log[id][Len(log[id])].kind = "Disconnected"

\* The frames f are l packets and then the frames c.
Splits(f, l, c) ==
    /\ Len(f) = l + Len(c)
    /\ \A i \in 1..l : f[i] = "packet"
    /\ \A i \in 1..Len(c) : f[l + i] = c[i]

\* Until then, what was fed to the codec is the packets pushed, then what the
\* codec still has.
Buffered(id) == Splits(fed[id], Len(log[id]), codec[id])

\* The events of one session, numbered by next_event_sequence_.
Flow(id) ==
    /\ sequence[id] = Len(log[id])
    /\ ~Over(id) => Buffered(id)
    /\ id > nextId => log[id] = <<>>

FlowInv == log \in [Ids -> Seq(LogEvent)] /\ \A id \in Ids : Flow(id)

OverIds == {id \in Ids : Over(id)}

\* A Disconnected is pushed or put off once, for a session that is gone.
OnceGone(over, fds, put, n) ==
    /\ \A id \in over : fds[id] = NoFd
    /\ \A i \in DOMAIN put : fds[put[i]] = NoFd /\ put[i] \notin over /\ put[i] <= n
    /\ \A i, j \in DOMAIN put : put[i] = put[j] => i = j

Gone == OnceGone(OverIds, fdBySession, deferredDisconnects, nextId)

\* It is pushed behind the packets.
HeadDone == io.pc = "pushDisconnected" => ~HasPacket(Head(deferredDisconnects))

StreamInv == FlowInv /\ Gone /\ HeadDone

LEMMA LeastIs ==
  ASSUME NEW S, S \subseteq Nat, NEW m \in S, \A y \in S : m <= y
  PROVE  Min(S) = m
  <1>1. ASSUME NEW x \in S, \A y \in S : x <= y PROVE x = m
    BY <1>1
  <1> QED
    BY <1>1 DEF Min

Bad(frames) == {i \in DOMAIN frames : frames[i] = "bad"}

LEMMA BadAre ==
  ASSUME NEW f \in Seq(Frames), NEW c \in Seq(Frames), NEW l \in Nat, Splits(f, l, c)
  PROVE  /\ Len(f) \in Nat /\ Len(c) \in Nat /\ Len(f) = l + Len(c) /\ Bad(f) \subseteq Nat
         /\ \A i \in Bad(f) : i > l /\ i <= Len(f)
         /\ c # <<>> => /\ l + 1 \in Bad(f) <=> Head(c) = "bad"
                        /\ Head(c) \in {"packet", "bad"}
  <1>1. DOMAIN f = 1..Len(f) /\ Len(f) \in Nat /\ Len(c) \in Nat
    OBVIOUS
  <1>2. Len(f) = l + Len(c)
    BY DEF Splits
  <1>3. ASSUME NEW i \in 1..Len(f), f[i] = "bad" PROVE i > l
    <2>1. i \notin 1..l
      BY <1>3 DEF Splits
    <2> QED
      BY <1>1, <2>1
  <1>4. ASSUME c # <<>>
        PROVE  /\ l + 1 \in Bad(f) <=> Head(c) = "bad"
               /\ Head(c) \in {"packet", "bad"}
    <2>1. Head(c) = c[1] /\ 1 \in 1..Len(c) /\ c[1] \in Frames
      BY <1>4
    <2>2. l + 1 \in 1..Len(f)
      BY <1>1, <1>2, <2>1
    <2>3. f[l + 1] = c[1]
      BY <2>1 DEF Splits
    <2> QED
      BY <1>1, <2>1, <2>2, <2>3 DEF Bad, Frames
  <1>5. Bad(f) \subseteq Nat /\ \A i \in Bad(f) : i \in 1..Len(f) /\ f[i] = "bad"
    BY <1>1 DEF Bad
  <1>6. \A i \in Bad(f) : i > l /\ i <= Len(f)
    BY <1>1, <1>3, <1>5
  <1> QED
    BY <1>1, <1>2, <1>4, <1>5, <1>6

\* What Good counts.
LEMMA GoodIs ==
  ASSUME NEW s
  PROVE  Promise!Good(s) = IF Bad(s) = {} THEN Len(s) ELSE Min(Bad(s)) - 1
  BY DEF Promise!Good, Min, Bad

LEMMA GoodExact ==
  ASSUME NEW f \in Seq(Frames), NEW c \in Seq(Frames), NEW l \in Nat, Splits(f, l, c),
         c = <<>> \/ Head(c) # "packet"
  PROVE  Promise!Good(f) = l
  <1>1. CASE c = <<>>
    <2>0. Len(c) = 0
      BY <1>1
    <2>1. Len(f) = l
      BY <2>0 DEF Splits
    <2>2. Bad(f) = {}
      <3>1. ASSUME NEW i \in Bad(f) PROVE FALSE
        BY <2>1, <3>1, BadAre
      <3> QED
        BY <3>1
    <2> QED
      BY <2>1, <2>2, GoodIs
  <1>2. CASE c # <<>>
    <2>1. l + 1 \in Bad(f) /\ Bad(f) \subseteq Nat
      BY <1>2, BadAre
    <2>2. \A i \in Bad(f) : l + 1 <= i
      BY <2>1, BadAre
    <2>3. Min(Bad(f)) = l + 1
      BY <2>1, <2>2, LeastIs
    <2> QED
      BY <2>1, <2>3, GoodIs
  <1> QED
    BY <1>1, <1>2

LEMMA GoodBeyond ==
  ASSUME NEW f \in Seq(Frames), NEW c \in Seq(Frames), NEW l \in Nat, Splits(f, l, c),
         c # <<>>, Head(c) = "packet"
  PROVE  l < Promise!Good(f)
  <1>1. /\ Len(c) \in Nat /\ Len(c) # 0 /\ Len(f) = l + Len(c) /\ Bad(f) \subseteq Nat
    BY BadAre
  <1>2. CASE Bad(f) = {}
    BY <1>1, <1>2, GoodIs
  <1>3. CASE Bad(f) # {}
    <2>1. Min(Bad(f)) \in Bad(f)
      BY <1>1, <1>3, LowestFree
    <2>2. Min(Bad(f)) > l /\ Min(Bad(f)) # l + 1 /\ Min(Bad(f)) \in Nat
      BY <1>1, <2>1, BadAre
    <2> QED
      BY <1>3, <2>2, GoodIs
  <1> QED
    BY <1>2, <1>3

\* What a step does to the events of one session.
Untouched == UNCHANGED <<codec, fed, log, sequence>>
Arrives(id) ==
    /\ \E n \in 1..Len(wire[id]) :
         /\ codec' = [codec EXCEPT ![id] = @ \o SubSeq(wire[id], 1, n)]
         /\ fed' = [fed EXCEPT ![id] = @ \o SubSeq(wire[id], 1, n)]
    /\ UNCHANGED <<log, sequence>>
Pushes(kind, id) ==
    /\ log' = [log EXCEPT ![id] = Append(@, [kind |-> kind, sequence |-> sequence[id]])]
    /\ sequence' = [sequence EXCEPT ![id] = @ + 1]
Delivers(id) ==
    HasPacket(id) /\ Pushes("Packet", id) /\ codec' = [codec EXCEPT ![id] = Tail(@)] /\ fed' = fed
Finishes(id) == ~HasPacket(id) /\ Pushes("Disconnected", id) /\ UNCHANGED <<codec, fed>>

Same(id) == codec'[id] = codec[id] /\ fed'[id] = fed[id] /\ log'[id] = log[id] /\ sequence'[id] = sequence[id]

LEMMA SameFlow ==
  ASSUME NEW id \in Ids, Flow(id), Same(id), nextId \in Nat, nextId' \in Nat, nextId' >= nextId
  PROVE  Flow(id)'
  <1>1. Over(id)' = Over(id) /\ (Buffered(id) => Buffered(id)')
    BY DEF Over, Buffered, Same
  <1>2. id > nextId' => id > nextId
    BY DEF Ids
  <1> QED
    BY <1>1, <1>2 DEF Flow, Same

\* What is appended to both sequences, in the positions of the longer one.
LEMMA SplitsAppend ==
  ASSUME NEW f \in Seq(Frames), NEW c \in Seq(Frames), NEW t \in Seq(Frames), NEW l \in Nat,
         Splits(f, l, c)
  PROVE  Splits(f \o t, l, c \o t)
  <1>1. /\ Len(f) \in Nat /\ Len(c) \in Nat /\ Len(t) \in Nat
        /\ Len(f \o t) = Len(f) + Len(t) /\ Len(c \o t) = Len(c) + Len(t)
    OBVIOUS
  <1>2. ASSUME NEW i \in 1..Len(f) PROVE (f \o t)[i] = f[i]
    OBVIOUS
  <1>3. ASSUME NEW i \in 1..Len(c) PROVE (c \o t)[i] = c[i]
    OBVIOUS
  <1>4. ASSUME NEW i \in 1..Len(t) PROVE (f \o t)[Len(f) + i] = t[i]
    OBVIOUS
  <1>5. ASSUME NEW i \in 1..Len(t) PROVE (c \o t)[Len(c) + i] = t[i]
    OBVIOUS
  <1>0. Len(f) = l + Len(c)
    BY DEF Splits
  <1>6. ASSUME NEW i \in 1..l PROVE (f \o t)[i] = "packet"
    <2>1. i \in 1..Len(f)
      BY <1>0, <1>1
    <2>2. f[i] = "packet"
      BY DEF Splits
    <2> QED
      BY <1>2, <2>1, <2>2
  <1>7. ASSUME NEW i \in 1..Len(c \o t) PROVE (f \o t)[l + i] = (c \o t)[i]
    <2>0. i \in Nat /\ i >= 1 /\ i <= Len(c) + Len(t)
      BY <1>1
    <2>1. CASE i <= Len(c)
      <3>1. i \in 1..Len(c) /\ l + i \in 1..Len(f)
        BY <1>0, <1>1, <2>0, <2>1
      <3>2. f[l + i] = c[i]
        BY <3>1 DEF Splits
      <3> QED
        BY <1>2, <1>3, <3>1, <3>2
    <2>2. CASE i > Len(c)
      <3>1. PICK j \in 1..Len(t) : i = Len(c) + j
        <4>1. i - Len(c) \in 1..Len(t) /\ i = Len(c) + (i - Len(c))
          BY <1>1, <2>0, <2>2
        <4> QED
          BY <4>1
      <3>2. l + i = Len(f) + j
        BY <1>0, <1>1, <3>1
      <3> QED
        BY <1>4, <1>5, <3>1, <3>2
    <2>3. i <= Len(c) \/ i > Len(c)
      BY <1>1, <2>0
    <2> QED
      BY <2>1, <2>2, <2>3
  <1>8. Len(f \o t) = l + Len(c \o t)
    BY <1>0, <1>1
  <1> QED
    BY <1>6, <1>7, <1>8 DEF Splits

LEMMA SplitsNext ==
  ASSUME NEW f \in Seq(Frames), NEW c \in Seq(Frames), NEW l \in Nat, Splits(f, l, c),
         c # <<>>, Head(c) = "packet"
  PROVE  Splits(f, l + 1, Tail(c))
  <1>1. /\ Len(c) \in Nat /\ Len(c) >= 1 /\ Len(Tail(c)) = Len(c) - 1 /\ Head(c) = c[1]
    OBVIOUS
  <1>2. ASSUME NEW i \in 1..Len(Tail(c)) PROVE Tail(c)[i] = c[i + 1]
    OBVIOUS
  <1>3. Len(f) = l + Len(c)
    BY DEF Splits
  <1>4. Len(f) = (l + 1) + Len(Tail(c))
    BY <1>1, <1>3
  <1>5. ASSUME NEW i \in 1..(l + 1) PROVE f[i] = "packet"
    <2>1. CASE i \in 1..l
      BY <2>1 DEF Splits
    <2>2. CASE i = l + 1
      <3>1. 1 \in 1..Len(c)
        BY <1>1
      <3>2. f[l + 1] = c[1]
        BY <3>1 DEF Splits
      <3> QED
        BY <1>1, <2>2, <3>2
    <2> QED
      BY <2>1, <2>2
  <1>6. ASSUME NEW i \in 1..Len(Tail(c)) PROVE f[(l + 1) + i] = Tail(c)[i]
    <2>1. i + 1 \in 1..Len(c) /\ (l + 1) + i = l + (i + 1)
      BY <1>1
    <2>2. f[l + (i + 1)] = c[i + 1]
      BY <2>1 DEF Splits
    <2> QED
      BY <1>2, <2>1, <2>2
  <1> QED
    BY <1>4, <1>5, <1>6 DEF Splits

LEMMA ArriveFlow ==
  ASSUME Typed, FlowInv, NEW id \in Ids, Arrives(id), ~Over(id), UNCHANGED nextId
  PROVE  FlowInv' /\ Promise!Arrive(id)
  <1>1. /\ codec \in [Ids -> Seq(Frames)] /\ fed \in [Ids -> Seq(Frames)] /\ wire[id] \in Seq(Frames)
        /\ log \in [Ids -> Seq(LogEvent)] /\ nextId \in Nat
    BY DEF Typed, InputTypes, FlowInv, MapTypes
  <1>2. PICK n \in 1..Len(wire[id]) :
         /\ codec' = [codec EXCEPT ![id] = @ \o SubSeq(wire[id], 1, n)]
         /\ fed' = [fed EXCEPT ![id] = @ \o SubSeq(wire[id], 1, n)]
    BY DEF Arrives
  <1>3. PICK t : t = SubSeq(wire[id], 1, n)
    OBVIOUS
  <1>4. t \in Seq(Frames) /\ Len(t) \in Nat /\ Len(t) > 0
    BY <1>1, <1>2, <1>3
  <1>5. /\ codec' = [codec EXCEPT ![id] = codec[id] \o t] /\ fed' = [fed EXCEPT ![id] = fed[id] \o t]
        /\ log' = log /\ sequence' = sequence
    BY <1>2, <1>3 DEF Arrives
  <1>6. codec'[id] = codec[id] \o t /\ fed'[id] = fed[id] \o t
    BY <1>1, <1>5
  <1>7. ASSUME NEW other \in Ids, other # id PROVE Flow(other)'
    <2>1. Same(other)
      BY <1>1, <1>5, <1>7 DEF Same
    <2> QED
      BY <1>1, <2>1, SameFlow DEF FlowInv
  <1>8. /\ codec[id] \in Seq(Frames) /\ fed[id] \in Seq(Frames) /\ Len(log[id]) \in Nat
    BY <1>1
  <1>9. Buffered(id)'
    <2>1. Buffered(id)
      BY DEF FlowInv, Flow
    <2>2. Splits(fed[id] \o t, Len(log[id]), codec[id] \o t)
      BY <1>4, <1>8, <2>1, SplitsAppend DEF Buffered
    <2> QED
      BY <1>5, <1>6, <2>2 DEF Buffered
  <1>10. Flow(id)'
    <2>1. sequence[id] = Len(log[id]) /\ (id > nextId => log[id] = <<>>)
      BY DEF FlowInv, Flow
    <2> QED
      BY <1>5, <1>9, <2>1 DEF Flow
  <1>11. FlowInv'
    BY <1>1, <1>5, <1>7, <1>10 DEF FlowInv
  <1>12. Promise!Arrive(id)
    <2>1. SubSeq(fed[id] \o t, 1, Len(fed[id])) = fed[id]
      BY <1>4, <1>8
    <2>2. Len(fed[id] \o t) > Len(fed[id])
      BY <1>4, <1>8
    <2>3. fed' = [fed EXCEPT ![id] = fed'[id]]
      BY <1>5, <1>6
    <2>4. ~Promise!Ended(id)
      BY DEF Over, Promise!Ended
    <2> QED
      BY <1>5, <1>6, <2>1, <2>2, <2>3, <2>4 DEF Promise!Arrive
  <1> QED
    BY <1>11, <1>12

LEMMA AppendIs ==
  ASSUME NEW T, NEW q \in Seq(T), NEW x \in T
  PROVE  /\ Append(q, x) \in Seq(T) /\ Len(Append(q, x)) = Len(q) + 1
         /\ Append(q, x)[Len(q) + 1] = x /\ Append(q, x) # <<>>
         /\ \A i \in DOMAIN q : Append(q, x)[i] = q[i]
         /\ DOMAIN Append(q, x) = DOMAIN q \cup {Len(q) + 1}
  OBVIOUS

\* An event is pushed for a session that has not ended.
LEMMA PushFlow ==
  ASSUME Typed, FlowInv, NEW id \in Ids, NEW kind \in {"Packet", "Disconnected"}, ~Over(id),
         Pushes(kind, id), UNCHANGED <<nextId, fed>>, id <= nextId,
         kind = "Packet" => HasPacket(id) /\ codec' = [codec EXCEPT ![id] = Tail(codec[id])],
         kind = "Disconnected" => ~HasPacket(id) /\ codec' = codec
  PROVE  /\ FlowInv' /\ Promise!Next
         /\ OverIds' = OverIds \cup (IF kind = "Disconnected" THEN {id} ELSE {})
  <1>1. /\ codec \in [Ids -> Seq(Frames)] /\ fed \in [Ids -> Seq(Frames)]
        /\ log \in [Ids -> Seq(LogEvent)] /\ nextId \in Nat /\ sequence \in [Ids -> Nat]
    BY DEF Typed, InputTypes, FlowInv, MapTypes, EventTypes
  <1> DEFINE e == [kind |-> kind, sequence |-> sequence[id]]
  <1>2. /\ log' = [log EXCEPT ![id] = Append(log[id], e)]
        /\ sequence' = [sequence EXCEPT ![id] = sequence[id] + 1] /\ e \in LogEvent
        /\ e.kind = kind
    BY <1>1 DEF Pushes, LogEvent
  <1>3. /\ codec[id] \in Seq(Frames) /\ fed[id] \in Seq(Frames) /\ log[id] \in Seq(LogEvent)
        /\ sequence[id] = Len(log[id]) /\ Len(log[id]) \in Nat /\ Buffered(id)
    BY <1>1 DEF FlowInv, Flow
  <1> HIDE DEF e
  <1>4. /\ log'[id] = Append(log[id], e) /\ sequence'[id] = sequence[id] + 1
        /\ log' \in [Ids -> Seq(LogEvent)]
    BY <1>1, <1>2, <1>3
  <1>5. /\ Append(log[id], e) # <<>> /\ Len(Append(log[id], e)) = Len(log[id]) + 1
        /\ Append(log[id], e)[Len(log[id]) + 1] = e
    BY <1>2, <1>3, AppendIs
  <1>6. Over(id)' <=> kind = "Disconnected"
    BY <1>2, <1>4, <1>5 DEF Over
  <1>7. ASSUME NEW other \in Ids, other # id PROVE Same(other)
    BY <1>1, <1>2, <1>7 DEF Same
  <1>8. ASSUME NEW other \in Ids, other # id PROVE Flow(other)' /\ (Over(other)' <=> Over(other))
    <2>1. Flow(other)'
      BY <1>1, <1>7, <1>8, SameFlow DEF FlowInv
    <2>2. log'[other] = log[other]
      BY <1>7, <1>8 DEF Same
    <2> QED
      BY <2>1, <2>2 DEF Over
  <1>9. ASSUME kind = "Packet" PROVE Buffered(id)'
    <2>1. codec'[id] = Tail(codec[id]) /\ codec[id] # <<>> /\ Head(codec[id]) = "packet"
      BY <1>1, <1>9 DEF HasPacket
    <2>2. Splits(fed[id], Len(log[id]) + 1, Tail(codec[id]))
      BY <1>3, <2>1, SplitsNext DEF Buffered
    <2> QED
      BY <1>4, <1>5, <2>1, <2>2 DEF Buffered
  <1>10. Flow(id)'
    <2>1. sequence'[id] = Len(log'[id])
      BY <1>3, <1>4, <1>5
    <2>2. id \in Nat /\ ~(id > nextId)
      BY <1>1 DEF Ids
    <2> QED
      BY <1>6, <1>9, <2>1, <2>2 DEF Flow
  <1>11. FlowInv'
    BY <1>4, <1>8, <1>10 DEF FlowInv
  <1>12. ~Promise!Ended(id)
    BY DEF Over, Promise!Ended
  <1>13. log' = [log EXCEPT ![id] = Append(@, [kind |-> kind, sequence |-> Len(@)])]
    <2>1. e = [kind |-> kind, sequence |-> Len(log[id])]
      BY <1>3 DEF e
    <2> QED
      BY <1>1, <1>2, <2>1
  <1>16. OverIds' = OverIds \cup (IF kind = "Disconnected" THEN {id} ELSE {})
    BY <1>6, <1>8 DEF OverIds
  <1>14. CASE kind = "Packet"
    <2>1. Len(log[id]) < Promise!Good(fed[id])
      BY <1>3, <1>14, GoodBeyond DEF Buffered, HasPacket
    <2>2. Promise!Deliver(id)
      BY <1>12, <1>13, <1>14, <2>1 DEF Promise!Deliver
    <2> QED
      BY <1>11, <1>16, <2>2 DEF Promise!Next
  <1>15. CASE kind = "Disconnected"
    <2>1. Len(log[id]) = Promise!Good(fed[id])
      BY <1>3, <1>15, GoodExact DEF Buffered, HasPacket
    <2>2. Promise!End(id)
      BY <1>12, <1>13, <1>15, <2>1 DEF Promise!End
    <2> QED
      BY <1>11, <1>16, <2>2 DEF Promise!Next
  <1> QED
    BY <1>14, <1>15

\* The thread comes to push a deferred Disconnected from one place.
LEMMA OnlyFromDisconnects ==
  ASSUME CoreInv, IoThread, io'.pc = "pushDisconnected"
  PROVE  DrainDisconnects
  <1>1. io \in IoType /\ CallsOK(io) /\ config \in Configs
    BY DEF CoreInv, Calls, Typed
  <1>2. ASSUME NEW l PROVE [io EXCEPT !.pc = l].pc = l
    BY <1>1 DEF IoType
  <1>3. ASSUME NEW fd, NEW next, Disconnect(fd, next), [next EXCEPT !.pc = "failed"].pc = "failed"
        PROVE  next.pc = "pushDisconnected"
    <2>1. io' = next \/ io' = [next EXCEPT !.pc = "failed"]
      BY <1>3 DEF Disconnect, DeferDisconnected
    <2> QED
      BY <1>3, <2>1
  <1>4. ASSUME NEW ret
        PROVE  EnterOut(ret).pc = "out" /\ EnterDrain(ret).pc = "disconnects"
    BY <1>1 DEF EnterOut, EnterDrain, IoType
  <1>5. ASSUME NEW ret, NEW fd, NEW drain
        PROVE  EnterRead(fd, drain, ret).pc = "read" /\ EnterFlush(fd, ret).pc = "flush"
    BY <1>1 DEF EnterRead, EnterFlush, IoType
  <1>6. /\ io.pc \in Reading => ReadReturn.pc # "pushDisconnected"
        /\ io.pc = "flush" => FlushReturn.pc # "pushDisconnected"
        /\ io.pc \in Advancing => AdvanceReturn.pc # "pushDisconnected"
    <2>1. ReadReturn.pc = io.readRet /\ FlushReturn.pc = io.flushRet /\ AdvanceReturn.pc = io.advanceRet
      BY <1>1 DEF ReadReturn, FlushReturn, AdvanceReturn, IoType
    <2> QED
      BY <1>1, <2>1 DEF CallsOK, InAdvance
  <1>7. ASSUME NEW result, io.pc \in DrainingInput PROVE DrainReturn(result).pc # "pushDisconnected"
    <2>1. DrainReturn(result).pc = io.drainRet
      BY <1>1 DEF DrainReturn, IoType
    <2> QED
      BY <1>1, <1>7, <2>1 DEF CallsOK, InDrain
  <1>8. CASE Loop
    <2>1. CASE LoopTop
      <3>1. [io EXCEPT !.pc = "advance", !.advanceRet = "wait"].pc = "advance"
        BY <1>1 DEF IoType
      <3> QED
        BY <1>2, <2>1, <3>1 DEF LoopTop
    <2>2. CASE Wait \/ NextEvent \/ EndOfEvents
      BY <1>2, <1>4, <2>2 DEF Wait, NextEvent, EndOfEvents, Goto
    <2>3. CASE HandleWakeup
      <3>1. [io EXCEPT !.pc = "accept", !.slots = AcceptLimit].pc = "accept"
        BY <1>1 DEF IoType
      <3> QED
        BY <1>2, <1>4, <2>3, <3>1 DEF HandleWakeup, Goto
    <2>4. CASE HandleSession
      <3>1. PICK e \in batch :
              LET id == e.token - 3
                  fd == fdByToken[id]
                  then == IF "OUT" \in e.flags THEN "flushEvent" ELSE "events"
                  seen == [io EXCEPT !.ev = IF "OUT" \in e.flags THEN e ELSE @]
                  after == [seen EXCEPT !.pc = then]
              IN  \/ Goto("events")
                  \/ Disconnect(fd, [io EXCEPT !.pc = "events"])
                  \/ io' = [EnterRead(fd, FALSE, then) EXCEPT !.ev = seen.ev]
                  \/ io' = after
        BY <2>4 DEF HandleSession
      <3> DEFINE ev == IF "OUT" \in e.flags THEN e ELSE io.ev
                 then == IF "OUT" \in e.flags THEN "flushEvent" ELSE "events"
                 seen == [io EXCEPT !.ev = ev]
      <3>2. \/ Goto("events")
            \/ \E fd : Disconnect(fd, [io EXCEPT !.pc = "events"])
            \/ \E fd : io' = [EnterRead(fd, FALSE, then) EXCEPT !.ev = seen.ev]
            \/ io' = [seen EXCEPT !.pc = then]
        BY <3>1
      <3>0. then # "pushDisconnected"
        OBVIOUS
      <3> HIDE DEF ev, then
      <3>3. [seen EXCEPT !.pc = then].pc = then
        BY <1>1 DEF IoType
      <3>4. ASSUME NEW fd, NEW x PROVE [EnterRead(fd, FALSE, then) EXCEPT !.ev = x].pc = "read"
        BY <1>1 DEF EnterRead, IoType
      <3> HIDE DEF seen
      <3>5. CASE \E fd : Disconnect(fd, [io EXCEPT !.pc = "events"])
        <4>1. [[io EXCEPT !.pc = "events"] EXCEPT !.pc = "failed"].pc = "failed"
          BY <1>1 DEF IoType
        <4> QED
          BY <1>2, <1>3, <3>5, <4>1
      <3>6. CASE \E fd : io' = [EnterRead(fd, FALSE, then) EXCEPT !.ev = seen.ev]
        BY <3>4, <3>6
      <3>7. CASE Goto("events") \/ io' = [seen EXCEPT !.pc = then]
        BY <1>2, <3>0, <3>3, <3>7 DEF Goto
      <3> QED
        BY <3>2, <3>5, <3>6, <3>7
    <2>5. CASE FlushEvent
      <3>1. ASSUME NEW fd PROVE [EnterFlush(fd, "events") EXCEPT !.ev = Start.ev].pc = "flush"
        BY <1>1 DEF EnterFlush, IoType
      <3>2. [io EXCEPT !.pc = "events", !.ev = Start.ev].pc = "events"
        BY <1>1 DEF IoType
      <3> QED
        BY <2>5, <3>1, <3>2 DEF FlushEvent
    <2>6. CASE ExpireIdle
      <3>1. [io EXCEPT !.pc = "advance", !.advanceRet = "top"].pc = "advance"
        BY <1>1 DEF IoType
      <3> QED
        BY <1>2, <1>3, <2>6, <3>1 DEF ExpireIdle, At, Goto
    <2> QED
      BY <1>8, <2>1, <2>2, <2>3, <2>4, <2>5, <2>6 DEF Loop
  <1>9. CASE Input
    <2>1. CASE AcceptEnd \/ Accept
      <3>1. /\ [io EXCEPT !.pc = "events", !.slots = 0].pc = "events"
            /\ [io EXCEPT !.slots = @ - 1].pc = io.pc
        BY <1>1 DEF IoType
      <3> QED
        BY <1>2, <2>1, <3>1 DEF AcceptEnd, Accept, Goto, At
    <2>2. CASE ReadSession \/ ReadStops
      <3>1. [ReadReturn EXCEPT !.pc = "failed"].pc = "failed"
        BY ZenonT(60), <1>1 DEF ReadReturn, IoType
      <3>2. io.pc \in Reading /\ (io' = ReadReturn \/ Goto("decode") \/ Disconnect(io.fd, ReadReturn))
        BY <2>2 DEF ReadSession, ReadStops, At, Reading
      <3> QED
        BY <1>2, <1>3, <1>6, <3>1, <3>2 DEF Goto
    <2>3. CASE Decode
      BY <1>1, <1>2, <2>3, EnqueueGoes DEF Decode, At
    <2>4. CASE DrainReads \/ DrainReadsDecode
      <3>1. CASE DrainReads
        BY <1>2, <3>1 DEF DrainReads, At, Goto
      <3>2. CASE DrainReadsDecode
        <4>1. io.pc = "readsDecode" /\ io'.pc \in {io.pc, "readsPop", "yield", "readsError"}
          BY <1>1, <3>2, EnqueueGoes DEF DrainReadsDecode, At
        <4> QED
          BY <4>1
      <3> QED
        BY <2>4, <3>1, <3>2
    <2>5. CASE Yield \/ PushDisconnected \/ DrainSize
      <3>1. [io EXCEPT !.work = @ - 1, !.pc = "disconnectsSize"].pc = "disconnectsSize"
        BY <1>1 DEF IoType
      <3>2. /\ io.pc \in DrainingInput
            /\ \/ \E result : io' = DrainReturn(result)
               \/ io' = [io EXCEPT !.work = @ - 1, !.pc = "disconnectsSize"]
               \/ io' = [io EXCEPT !.pc = "reads"] \/ io' = [io EXCEPT !.pc = "disconnects"]
        <4>1. CASE Yield
          <5>1. io.pc \in DrainingInput /\ io' = DrainReturn(FALSE)
            BY <4>1 DEF Yield, At, DrainingInput
          <5> QED
            BY <5>1
        <4>3. CASE PushDisconnected
          <5>1. /\ io.pc \in DrainingInput
                /\ \/ io' = DrainReturn(FALSE)
                   \/ io' = [io EXCEPT !.work = @ - 1, !.pc = "disconnectsSize"]
            BY <4>3 DEF PushDisconnected, At, DrainingInput
          <5> QED
            BY <5>1
        <4>2. CASE DrainSize
          <5>1. CASE io.pc = "readsSize"
            BY <4>2, <5>1 DEF DrainSize, At, DrainingInput
          <5>2. CASE io.pc = "disconnectsSize"
            BY <4>2, <5>2 DEF DrainSize, At, DrainingInput
          <5> QED
            BY <4>2, <5>1, <5>2 DEF DrainSize, At
        <4> QED
          BY <2>5, <4>1, <4>2, <4>3
      <3> QED
        BY <1>2, <1>7, <3>1, <3>2
    <2>6. CASE DrainReadsError
      <3>1. ASSUME NEW fd PROVE [io EXCEPT !.pc = "readsDisconnect", !.fd = fd].pc = "readsDisconnect"
        BY <1>1 DEF IoType
      <3>2. [io EXCEPT !.pc = "readsSize", !.fd = NoFd].pc = "readsSize"
        BY <1>1 DEF IoType
      <3>3. [[io EXCEPT !.pc = "readsSize", !.fd = NoFd] EXCEPT !.pc = "failed"].pc = "failed"
        BY <1>1 DEF IoType
      <3> QED
        BY <1>3, <2>6, <3>1, <3>2, <3>3 DEF DrainReadsError
    <2>7. CASE DrainReadsPop
      BY <1>2, <1>5, <2>7 DEF DrainReadsPop
    <2>8. CASE ResumeReads
      <3>1. ASSUME NEW fds PROVE [io EXCEPT !.pc = "resume", !.closed = fds].pc = "resume"
        BY <1>1 DEF IoType
      <3>2. /\ io.pc \in DrainingInput
            /\ \/ \E result : io' = DrainReturn(result)
               \/ \E fds : io' = [io EXCEPT !.pc = "resume", !.closed = fds]
        BY <2>8 DEF ResumeReads, At, DrainingInput
      <3> QED
        BY <1>7, <3>1, <3>2
    <2>9. CASE ResumeClosed
      <3>1. ASSUME NEW fd, NEW fds PROVE [EnterRead(fd, FALSE, "resume") EXCEPT !.closed = fds].pc = "read"
        BY <1>1 DEF EnterRead, IoType
      <3>2. /\ io.pc \in DrainingInput
            /\ \/ \E result : io' = DrainReturn(result)
               \/ \E fd, fds : io' = [EnterRead(fd, FALSE, "resume") EXCEPT !.closed = fds]
        BY <2>9 DEF ResumeClosed, At, DrainingInput
      <3> QED
        BY <1>7, <3>1, <3>2
    <2> QED
      BY <1>9, <2>1, <2>2, <2>3, <2>4, <2>5, <2>6, <2>7, <2>8, <2>9 DEF Input
  <1>10. CASE Output
    <2>1. CASE DrainOutbound
      <3>1. [io EXCEPT !.popped = @ + 1].pc = io.pc
        BY <1>1 DEF IoType
      <3>2. [[io EXCEPT !.popped = @ + 1] EXCEPT !.pc = "failed"].pc = "failed"
        BY <1>1 DEF IoType
      <3> QED
        BY <1>3, <2>1, <3>1, <3>2 DEF DrainOutbound, At
    <2>2. CASE DrainOutboundEnd
      <3>1. [io EXCEPT !.pc = io.outRet, !.popped = 0, !.outRet = ""].pc = io.outRet
        BY <1>1 DEF IoType
      <3>2. io.pc = "outSize" => io.outRet # "pushDisconnected"
        BY <1>1 DEF CallsOK, Outing
      <3> QED
        BY <1>2, <2>2, <3>1, <3>2 DEF DrainOutboundEnd, Goto, At
    <2>3. CASE FlushSend \/ FlushEnd
      <3>1. ASSUME NEW n PROVE [io EXCEPT !.sent = @ + n].pc = io.pc
        BY <1>1 DEF IoType
      <3>2. [FlushReturn EXCEPT !.pc = "failed"].pc = "failed"
        BY <1>1 DEF FlushReturn, IoType
      <3> QED
        BY <1>3, <1>6, <2>3, <3>1, <3>2 DEF FlushSend, FlushEnd, At
    <2> QED
      BY <1>10, <2>1, <2>2, <2>3 DEF Output
  <1>11. CASE Shutdown
    <2>1. CASE Advance \/ AdvanceInput \/ AdvanceStop \/ AdvanceFinished
      <3>1. /\ [AdvanceReturn EXCEPT !.pc = "join"].pc = "join"
            /\ [AdvanceReturn EXCEPT !.drained = FALSE].pc = AdvanceReturn.pc
        BY <1>1 DEF AdvanceReturn, IoType
      <3> QED
        BY <1>2, <1>4, <1>6, <2>1, <3>1 DEF Advance, AdvanceInput, AdvanceStop, AdvanceFinished, Goto, At,
           Advancing
    <2>2. CASE Join \/ FlushAll
      <3>1. ASSUME NEW fds PROVE [io EXCEPT !.pc = "flushNext", !.closed = fds].pc = "flushNext"
        BY <1>1 DEF IoType
      <3>2. ASSUME NEW fd, NEW fds PROVE [EnterFlush(fd, "flushNext") EXCEPT !.closed = fds].pc = "flush"
        BY <1>1 DEF EnterFlush, IoType
      <3>3. \/ Goto("close") \/ io' = EnterOut("flushAll")
            \/ \E fds : io' = [io EXCEPT !.pc = "flushNext", !.closed = fds]
            \/ \E fd, fds : io' = [EnterFlush(fd, "flushNext") EXCEPT !.closed = fds]
        BY <2>2 DEF Join, FlushAll, Goto
      <3> QED
        BY ZenonT(60), <1>2, <1>4, <3>1, <3>2, <3>3 DEF Goto
    <2>3. CASE CloseResources \/ Fail
      <3>1. [Start EXCEPT !.pc = "stopped"].pc = "stopped"
        BY DEF Start
      <3> QED
        BY <1>2, <2>3, <3>1 DEF CloseResources, Fail, Goto
    <2> QED
      BY <1>11, <2>1, <2>2, <2>3 DEF Shutdown
  <1> QED
    BY <1>8, <1>9, <1>10, <1>11 DEF IoThread

\* A session leaves the maps: its Disconnected is pushed, put off, or dropped.
Loses(id) ==
    /\ fdBySession[id] # NoFd /\ id <= nextId
    /\ fdBySession' = [fdBySession EXCEPT ![id] = NoFd] /\ nextId' = nextId
    /\ \/ Finishes(id) /\ deferredDisconnects' = deferredDisconnects
       \/ Untouched /\ deferredDisconnects' = deferredDisconnects
       \/ Untouched /\ deferredDisconnects' = Append(deferredDisconnects, id)
Kept == UNCHANGED <<fdBySession, nextId, deferredDisconnects>>

StreamStep ==
    \/ Untouched /\ Kept
    \/ \E id \in Ids : fdBySession[id] # NoFd /\ Arrives(id) /\ Kept
    \/ \E id \in Ids : ~Over(id) /\ id <= nextId /\ Delivers(id) /\ Kept
    \/ /\ deferredDisconnects # <<>> /\ Finishes(Head(deferredDisconnects))
       /\ deferredDisconnects' = Tail(deferredDisconnects) /\ UNCHANGED <<fdBySession, nextId>>
    \/ \E id \in Ids : Loses(id)
    \/ /\ Untouched /\ UNCHANGED deferredDisconnects /\ nextId' = nextId + 1
       /\ \E fd : fdBySession' = [fdBySession EXCEPT ![nextId + 1] = fd]
    \/ /\ Untouched /\ deferredDisconnects' = <<>> /\ UNCHANGED nextId
       /\ fdBySession' = [id \in Ids |-> NoFd]

LEMMA UntouchedFlow ==
  ASSUME FlowInv, Untouched, nextId \in Nat, nextId' \in Nat, nextId' >= nextId
  PROVE  FlowInv' /\ UNCHANGED <<fed, log>> /\ OverIds' = OverIds
  <1>1. ASSUME NEW id \in Ids PROVE Flow(id)' /\ (Over(id)' <=> Over(id))
    <2>1. Same(id)
      BY DEF Untouched, Same
    <2>2. Flow(id)'
      BY <2>1, SameFlow DEF FlowInv
    <2> QED
      BY <2>2 DEF Untouched, Over
  <1> QED
    BY <1>1 DEF FlowInv, Untouched, OverIds

\* OnceGone, as sessions go, are put off and end.
LEMMA PopGone ==
  ASSUME NEW over \in SUBSET Ids, NEW fds, NEW put \in Seq(Ids), NEW n \in Nat, OnceGone(over, fds, put, n), put # <<>>
  PROVE  OnceGone(over \cup {Head(put)}, fds, Tail(put), n)
  <1>1. 1 \in DOMAIN put /\ Head(put) = put[1]
    OBVIOUS
  <1>2. ASSUME NEW i \in DOMAIN Tail(put)
        PROVE  i + 1 \in DOMAIN put /\ i \in Nat /\ i + 1 # 1 /\ Tail(put)[i] = put[i + 1]
    OBVIOUS
  <1>3. ASSUME NEW i \in DOMAIN Tail(put)
        PROVE  fds[Tail(put)[i]] = NoFd /\ Tail(put)[i] \notin over \cup {Head(put)} /\ Tail(put)[i] <= n
    BY <1>1, <1>2 DEF OnceGone
  <1>4. ASSUME NEW i \in DOMAIN Tail(put), NEW j \in DOMAIN Tail(put), Tail(put)[i] = Tail(put)[j] PROVE i = j
    <2>1. i + 1 = j + 1
      BY <1>2, <1>4 DEF OnceGone
    <2> QED
      BY <1>2, <2>1
  <1>5. \A id \in over \cup {Head(put)} : fds[id] = NoFd
    BY <1>1 DEF OnceGone
  <1> QED
    BY <1>3, <1>4, <1>5 DEF OnceGone

LEMMA LoseGone ==
  ASSUME NEW over \in SUBSET Ids, NEW fds \in [Ids -> Fds \cup {NoFd}], NEW put \in Seq(Ids), NEW n \in Nat,
         OnceGone(over, fds, put, n), NEW id \in Ids, fds[id] # NoFd, id <= n
  PROVE  /\ id \notin over
         /\ OnceGone(over, [fds EXCEPT ![id] = NoFd], put, n)
         /\ OnceGone(over \cup {id}, [fds EXCEPT ![id] = NoFd], put, n)
         /\ OnceGone(over, [fds EXCEPT ![id] = NoFd], Append(put, id), n)
  <1> DEFINE fds2 == [fds EXCEPT ![id] = NoFd]
  <1>1. \A other \in Ids : fds[other] = NoFd \/ other = id => fds2[other] = NoFd
    OBVIOUS
  <1>2. id \notin over /\ \A i \in DOMAIN put : put[i] # id /\ put[i] \in Ids
    BY DEF OnceGone
  <1> HIDE DEF fds2
  <1>3. OnceGone(over, fds2, put, n) /\ OnceGone(over \cup {id}, fds2, put, n)
    BY <1>1, <1>2 DEF OnceGone
  <1>4. /\ DOMAIN Append(put, id) = DOMAIN put \cup {Len(put) + 1} /\ Append(put, id)[Len(put) + 1] = id
        /\ \A i \in DOMAIN put : Append(put, id)[i] = put[i]
    BY AppendIs
  <1>5. PICK put2 : put2 = Append(put, id)
    OBVIOUS
  <1>6. OnceGone(over, fds2, put2, n)
    BY <1>1, <1>2, <1>4, <1>5 DEF OnceGone
  <1> QED
    BY <1>2, <1>3, <1>5, <1>6 DEF fds2

LEMMA AdmitGone ==
  ASSUME NEW over \in SUBSET Ids, NEW fds \in [Ids -> Fds \cup {NoFd}], NEW put \in Seq(Ids), NEW n \in Nat,
         OnceGone(over, fds, put, n), n + 1 \notin over, NEW fd
  PROVE  OnceGone(over, [fds EXCEPT ![n + 1] = fd], put, n + 1)
  <1> DEFINE fds2 == [fds EXCEPT ![n + 1] = fd]
  <1>1. \A other \in Ids : other # n + 1 => fds2[other] = fds[other]
    OBVIOUS
  <1> HIDE DEF fds2
  <1>2. ASSUME NEW i \in DOMAIN put PROVE put[i] \in Ids /\ put[i] # n + 1 /\ put[i] <= n + 1
    <2>1. put[i] \in Ids /\ put[i] <= n
      BY DEF OnceGone
    <2> QED
      BY <2>1 DEF Ids
  <1>3. ASSUME NEW i \in DOMAIN put PROVE fds2[put[i]] = NoFd /\ put[i] \notin over
    BY <1>1, <1>2 DEF OnceGone
  <1>4. \A id \in over : fds2[id] = NoFd
    BY <1>1 DEF OnceGone
  <1>5. \A i, j \in DOMAIN put : put[i] = put[j] => i = j
    BY DEF OnceGone
  <1> QED
    BY <1>2, <1>3, <1>4, <1>5 DEF OnceGone, fds2

LEMMA StreamStepKeeps ==
  ASSUME Typed, Typed', FlowInv, Gone, StreamStep
  PROVE  FlowInv' /\ Gone' /\ [Promise!Next]_<<fed, log>>
  <1> DEFINE dd == deferredDisconnects
  <1>1. /\ nextId \in Nat /\ nextId' \in Nat /\ nextId' <= MaxConnections /\ MaxConnections \in Nat
        /\ fdBySession \in [Ids -> Fds \cup {NoFd}] /\ dd \in Seq(Ids)
        /\ log \in [Ids -> Seq(LogEvent)] /\ OverIds \in SUBSET Ids
    BY TcpServerAssumption DEF Typed, MapTypes, DeferredTypes, FlowInv, OverIds
  <1>2. OnceGone(OverIds, fdBySession, dd, nextId)
    BY DEF Gone
  <1>3. Gone' <=> OnceGone(OverIds', fdBySession', dd', nextId')
    BY DEF Gone
  <1>4. ASSUME Kept, OverIds' = OverIds PROVE Gone'
    BY <1>2, <1>3, <1>4 DEF Kept
  <1>5. CASE Untouched /\ Kept
    <2>1. nextId' >= nextId
      BY <1>1, <1>5 DEF Kept
    <2> QED
      BY <1>1, <1>4, <1>5, <2>1, UntouchedFlow
  <1>6. CASE \E id \in Ids : fdBySession[id] # NoFd /\ Arrives(id) /\ Kept
    <2>1. PICK id \in Ids : fdBySession[id] # NoFd /\ Arrives(id) /\ Kept
      BY <1>6
    <2>2. ~Over(id) /\ UNCHANGED nextId
      BY <1>2, <2>1 DEF Kept, OnceGone, OverIds
    <2>3. FlowInv' /\ Promise!Arrive(id)
      BY <2>1, <2>2, ArriveFlow
    <2>4. OverIds' = OverIds
      BY <2>1 DEF Arrives, Over, OverIds
    <2> QED
      BY <1>4, <2>1, <2>3, <2>4 DEF Promise!Next
  <1>7. CASE \E id \in Ids : ~Over(id) /\ id <= nextId /\ Delivers(id) /\ Kept
    <2>1. PICK id \in Ids : ~Over(id) /\ id <= nextId /\ Delivers(id) /\ Kept
      BY <1>7
    <2>2. /\ Pushes("Packet", id) /\ UNCHANGED <<nextId, fed>>
          /\ HasPacket(id) /\ codec' = [codec EXCEPT ![id] = Tail(codec[id])]
      BY <2>1 DEF Delivers, Kept
    <2>3. /\ FlowInv' /\ Promise!Next
          /\ OverIds' = OverIds \cup (IF "Packet" = "Disconnected" THEN {id} ELSE {})
      BY <2>1, <2>2, PushFlow
    <2> QED
      BY <1>4, <2>1, <2>3
  <1>8. ASSUME NEW id \in Ids, ~Over(id), id <= nextId, Finishes(id), UNCHANGED nextId
        PROVE  FlowInv' /\ Promise!Next /\ OverIds' = OverIds \cup {id}
    <2>1. /\ Pushes("Disconnected", id) /\ UNCHANGED <<nextId, fed>> /\ ~HasPacket(id) /\ codec' = codec
      BY <1>8 DEF Finishes
    <2>2. /\ FlowInv' /\ Promise!Next
          /\ OverIds' = OverIds \cup (IF "Disconnected" = "Disconnected" THEN {id} ELSE {})
      BY <1>8, <2>1, PushFlow
    <2> QED
      BY <2>2
  <1>9. CASE /\ dd # <<>> /\ Finishes(Head(dd)) /\ dd' = Tail(dd) /\ UNCHANGED <<fdBySession, nextId>>
    <2>1. 1 \in DOMAIN dd /\ Head(dd) = dd[1] /\ dd[1] \in Ids
      BY <1>1, <1>9
    <2>2. ~Over(dd[1]) /\ dd[1] <= nextId
      BY <1>2, <2>1 DEF OnceGone, OverIds
    <2>3. FlowInv' /\ Promise!Next /\ OverIds' = OverIds \cup {Head(dd)}
      BY <1>8, <1>9, <2>1, <2>2
    <2>4. OnceGone(OverIds \cup {Head(dd)}, fdBySession, Tail(dd), nextId)
      BY <1>1, <1>2, <1>9, PopGone
    <2> QED
      BY <1>3, <1>9, <2>3, <2>4
  <1>10. CASE \E id \in Ids : Loses(id)
    <2>1. PICK id \in Ids : Loses(id)
      BY <1>10
    <2>2. /\ fdBySession[id] # NoFd /\ id <= nextId /\ nextId' = nextId
          /\ fdBySession' = [fdBySession EXCEPT ![id] = NoFd]
      BY <2>1 DEF Loses
    <2>3. /\ id \notin OverIds
          /\ OnceGone(OverIds, fdBySession', dd, nextId)
          /\ OnceGone(OverIds \cup {id}, fdBySession', dd, nextId)
          /\ OnceGone(OverIds, fdBySession', Append(dd, id), nextId)
      BY <1>1, <1>2, <2>2, LoseGone
    <2>4. ~Over(id)
      BY <2>3 DEF OverIds
    <2>5. CASE Finishes(id) /\ dd' = dd
      <3>1. FlowInv' /\ Promise!Next /\ OverIds' = OverIds \cup {id}
        BY <1>8, <2>2, <2>4, <2>5
      <3> QED
        BY <1>3, <2>2, <2>3, <2>5, <3>1
    <2>6. ASSUME Untouched PROVE FlowInv' /\ UNCHANGED <<fed, log>> /\ OverIds' = OverIds
      <3>1. nextId' >= nextId
        BY <1>1, <2>2
      <3> QED
        BY <1>1, <2>6, <3>1, UntouchedFlow
    <2>7. CASE Untouched /\ dd' = dd
      BY <1>3, <2>2, <2>3, <2>6, <2>7
    <2>8. CASE Untouched /\ dd' = Append(dd, id)
      BY <1>3, <2>2, <2>3, <2>6, <2>8
    <2> QED
      BY <2>1, <2>5, <2>7, <2>8 DEF Loses
  <1>11. CASE /\ Untouched /\ dd' = dd /\ nextId' = nextId + 1
              /\ \E fd : fdBySession' = [fdBySession EXCEPT ![nextId + 1] = fd]
    <2>1. nextId' >= nextId /\ nextId + 1 > nextId
      BY <1>1, <1>11
    <2>2. FlowInv' /\ UNCHANGED <<fed, log>> /\ OverIds' = OverIds
      BY <1>1, <1>11, <2>1, UntouchedFlow
    <2>3. nextId + 1 \notin OverIds
      BY <2>1 DEF FlowInv, Flow, Over, OverIds
    <2>4. PICK fd : fdBySession' = [fdBySession EXCEPT ![nextId + 1] = fd]
      BY <1>11
    <2>5. OnceGone(OverIds, [fdBySession EXCEPT ![nextId + 1] = fd], dd, nextId + 1)
      BY <1>1, <1>2, <2>3, AdmitGone
    <2> QED
      BY <1>3, <1>11, <2>2, <2>4, <2>5
  <1>12. CASE /\ Untouched /\ dd' = <<>> /\ UNCHANGED nextId
              /\ fdBySession' = [id \in Ids |-> NoFd]
    <2>1. nextId' >= nextId
      BY <1>1, <1>12
    <2>2. FlowInv' /\ UNCHANGED <<fed, log>> /\ OverIds' = OverIds
      BY <1>1, <1>12, <2>1, UntouchedFlow
    <2>3. OnceGone(OverIds, fdBySession', <<>>, nextId)
      BY <1>1, <1>12 DEF OnceGone
    <2> QED
      BY <1>3, <1>12, <2>2, <2>3
  <1> QED
    BY <1>5, <1>6, <1>7, <1>9, <1>10, <1>11, <1>12 DEF StreamStep

LEMMA DisconnectStreams ==
  ASSUME CoreInv, UNCHANGED config, NEW fd \in OpenFds, NEW next, Disconnect(fd, next), UNCHANGED <<codec, fed>>
  PROVE  StreamStep
  <1>1. MapTypes /\ MapsAgree /\ LosesSession(fd, next)
    BY DisconnectIs DEF CoreInv, Typed
  <1>2. PICK id \in Ids : id = sessionAt[fd]
    BY <1>1 DEF OpenFds, MapTypes
  <1>3. fdBySession[id] = fd /\ id <= nextId /\ fd # NoFd
    BY <1>1, <1>2, TcpServerAssumption DEF MapsAgree, OpenFds, NoFd
  <1>4. /\ fdBySession' = [fdBySession EXCEPT ![id] = NoFd] /\ nextId' = nextId
        /\ \/ deferredDisconnects' = deferredDisconnects
           \/ deferredDisconnects' = Append(deferredDisconnects, id)
    BY <1>1, <1>2 DEF LosesSession
  <1>5. CASE /\ PushesNow(id) /\ PushEvent("Disconnected", id, {fd}) /\ UNCHANGED deferredDisconnects
    BY <1>3, <1>4, <1>5 DEF PushesNow, PushEvent, Pushes, Finishes, Loses, StreamStep
  <1>6. CASE UNCHANGED eventVars
    BY <1>3, <1>4, <1>6 DEF eventVars, Untouched, Loses, StreamStep
  <1> QED
    BY <1>2, <1>5, <1>6 DEF Disconnect

LEMMA EnqueueStreams ==
  ASSUME NEW id \in Ids, ~Over(id), id <= nextId, NEW counted, NEW onTrue, NEW onFalse, NEW onError,
         EnqueueDecoded(id, counted, onTrue, onFalse, onError), UNCHANGED <<maps, fed, deferredVars>>
  PROVE  StreamStep
  <1>1. Kept
    BY DEF maps, deferredVars, Kept
  <1>2. CASE UNCHANGED <<codec, eventVars>>
    BY <1>1, <1>2 DEF eventVars, Untouched, StreamStep
  <1>3. CASE HasPacket(id) /\ PushEvent("Packet", id, {}) /\ codec' = [codec EXCEPT ![id] = Tail(@)]
    <2>1. Delivers(id)
      BY <1>3 DEF PushEvent, Pushes, Delivers
    <2> QED
      BY <1>1, <2>1 DEF StreamStep
  <1> QED
    BY <1>2, <1>3 DEF EnqueueDecoded

\* The session of a descriptor has not ended.
LEMMA OpenIs ==
  ASSUME CoreInv, Gone, NEW fd \in OpenFds
  PROVE  /\ sessionAt[fd] \in Ids /\ ~Over(sessionAt[fd]) /\ sessionAt[fd] <= nextId
         /\ fdBySession[sessionAt[fd]] # NoFd
  <1>1. sessionAt[fd] \in Ids /\ sessionAt[fd] <= nextId /\ fdBySession[sessionAt[fd]] = fd /\ fd # NoFd
    BY TcpServerAssumption DEF CoreInv, Typed, MapTypes, MapsAgree, OpenFds, NoFd
  <1> QED
    BY <1>1 DEF Gone, OnceGone, OverIds

LEMMA LoopStreams ==
  ASSUME CoreInv, Gone, Loop, UNCHANGED config
  PROVE  StreamStep
  <1>1. ASSUME UNCHANGED <<maps, deferredVars, codec, fed, eventVars>> PROVE StreamStep
    BY <1>1 DEF maps, deferredVars, eventVars, Untouched, Kept, StreamStep
  <1>2. CASE LoopTop \/ NextEvent \/ Wait \/ HandleWakeup
    <2>1. UNCHANGED stable
      BY <1>2 DEF LoopTop, NextEvent, Wait, HandleWakeup
    <2> QED
      BY <1>1, <2>1 DEF stable, input
  <1>3. CASE EndOfEvents \/ FlushEvent
    BY <1>1, <1>3 DEF EndOfEvents, FlushEvent, exceptIo, exceptDisconnect, input
  <1>4. CASE HandleSession
    <2>1. /\ UNCHANGED <<codec, fed>>
          /\ \E e \in batch :
              /\ e.token > 3
              /\ \/ UNCHANGED <<maps, eventVars, deferredDisconnects>>
                 \/ /\ Current(e.token - 3)
                    /\ Disconnect(fdByToken[e.token - 3], [io EXCEPT !.pc = "events"])
      BY <1>4 DEF HandleSession, DeferRead, deferredVars
    <2>2. CASE UNCHANGED <<maps, eventVars, deferredDisconnects>>
      BY <2>1, <2>2 DEF maps, eventVars, Untouched, Kept, StreamStep
    <2>3. ASSUME NEW e \in batch, e.token > 3, Current(e.token - 3),
                 Disconnect(fdByToken[e.token - 3], [io EXCEPT !.pc = "events"])
          PROVE  StreamStep
      <3>1. e.token - 3 \in Ids
        <4>1. e \in EventType /\ MaxConnections \in Nat
          BY TcpServerAssumption DEF CoreInv, Typed, BatchTypes
        <4> QED
          BY <2>3, <4>1 DEF EventType, Ids
      <3>2. fdByToken[e.token - 3] \in OpenFds
        <4>1. MapTypes
          BY DEF CoreInv, Typed
        <4> QED
          BY <2>3, <3>1, <4>1 DEF Current, MapTypes, OpenFds, Ids
      <3> QED
        BY <2>1, <2>3, <3>2, DisconnectStreams
    <2> QED
      BY <2>1, <2>2, <2>3
  <1>5. CASE ExpireIdle
    <2>1. UNCHANGED <<codec, fed>>
      BY <1>5 DEF ExpireIdle, exceptDisconnect, input
    <2> QED
      BY <1>1, <1>5, <2>1, DisconnectStreams DEF ExpireIdle
  <1> QED
    BY <1>2, <1>3, <1>4, <1>5 DEF Loop

LEMMA InputStreams ==
  ASSUME CoreInv, Gone, HeadDone, Input, UNCHANGED config
  PROVE  StreamStep
  <1>1. Typed /\ Calls /\ Positions /\ MapTypes /\ DeferredTypes
    BY DEF CoreInv, Typed
  <1>2. ASSUME UNCHANGED <<maps, deferredDisconnects, codec, fed, eventVars>> PROVE StreamStep
    BY <1>2 DEF maps, eventVars, Untouched, Kept, StreamStep
  <1>3. CASE AcceptEnd \/ DrainSize \/ ResumeClosed
    BY <1>2, <1>3 DEF AcceptEnd, DrainSize, ResumeClosed, exceptIo, exceptDisconnect, input, deferredVars
  <1>4. CASE Accept
    <2>1. Untouched /\ UNCHANGED deferredDisconnects
      BY <1>4 DEF Accept, input, eventVars, deferredVars, Untouched
    <2>2. CASE UNCHANGED maps
      BY <2>1, <2>2 DEF maps, Kept, StreamStep
    <2>3. CASE nextId' = nextId + 1 /\ fdBySession' = [fdBySession EXCEPT ![nextId'] = Min(Fds \ OpenFds)]
      BY <2>1, <2>3 DEF StreamStep
    <2> QED
      BY <1>4, <2>2, <2>3 DEF Accept
  <1>5. CASE ReadSession
    <2> DEFINE id == sessionAt[io.fd]
    <2>1. ~ReadEnds(id) => io.fd \in OpenFds
      <3>1. io.fd \in Fds
        BY <1>1, <1>5, ReadsSession
      <3> QED
        BY SMTT(40), <3>1 DEF ReadEnds, OpenFds
    <2>2. CASE UNCHANGED <<maps, codec, fed, deferredVars, eventVars>>
      BY <1>2, <2>2 DEF deferredVars
    <2>3. CASE ~ReadEnds(id) /\ Disconnect(io.fd, ReadReturn) /\ UNCHANGED <<codec, fed>>
      BY <2>1, <2>3, DisconnectStreams
    <2>4. CASE /\ ~ReadEnds(id) /\ UNCHANGED <<maps, deferredVars, eventVars>>
               /\ \E n \in 1..Len(wire[id]) :
                    /\ codec' = [codec EXCEPT ![id] = @ \o SubSeq(wire[id], 1, n)]
                    /\ fed' = [fed EXCEPT ![id] = @ \o SubSeq(wire[id], 1, n)]
      <3>1. id \in Ids /\ fdBySession[id] # NoFd
        BY <2>1, <2>4, OpenIs
      <3>2. Kept /\ UNCHANGED <<log, sequence>>
        BY <2>4 DEF maps, deferredVars, eventVars, Kept
      <3> HIDE DEF id
      <3>3. Arrives(id)
        BY <2>4, <3>2 DEF Arrives
      <3> QED
        BY <3>1, <3>2, <3>3 DEF StreamStep
    <2> QED
      BY <1>5, <2>2, <2>3, <2>4 DEF ReadSession
  <1>6. CASE Decode
    <2>1. io.fd \in OpenFds
      BY <1>1, <1>6 DEF Decode, At, Positions
    <2>2. /\ UNCHANGED <<maps, fed, deferredVars>>
          /\ EnqueueDecoded(sessionAt[io.fd], io.drain, "read", "readDefer", "readError")
      BY <1>6 DEF Decode
    <2> QED
      BY <2>1, <2>2, OpenIs, EnqueueStreams
  <1>7. CASE ReadStops
    <2>1. UNCHANGED <<codec, fed>>
      BY <1>7 DEF ReadStops, exceptDisconnect, input
    <2>2. CASE DeferRead(io.fd) /\ UNCHANGED <<maps, eventVars>>
      BY <1>2, <2>1, <2>2 DEF DeferRead
    <2>3. CASE io.pc = "readError" /\ Disconnect(io.fd, ReadReturn)
      BY <1>1, <2>1, <2>3, DisconnectStreams DEF Positions
    <2> QED
      BY <1>7, <2>2, <2>3 DEF ReadStops, At
  <1>8. CASE Yield
    BY <1>2, <1>8 DEF Yield, stable, input, deferredVars
  <1>9. CASE DrainDisconnects
    <2>1. UNCHANGED <<maps, fed, deferredVars>>
      BY <1>9 DEF DrainDisconnects
    <2>2. CASE UNCHANGED <<codec, eventVars>>
      BY <1>2, <2>1, <2>2 DEF deferredVars
    <2>3. CASE /\ deferredDisconnects # <<>>
               /\ EnqueueDecoded(Head(deferredDisconnects), TRUE, "pushDisconnected", "yield", "pushDisconnected")
      <3>1. /\ 1 \in DOMAIN deferredDisconnects /\ Head(deferredDisconnects) = deferredDisconnects[1]
            /\ deferredDisconnects[1] \in Ids
        BY <1>1, <2>3 DEF DeferredTypes
      <3>2. ~Over(deferredDisconnects[1]) /\ deferredDisconnects[1] <= nextId
        BY <3>1 DEF Gone, OnceGone, OverIds
      <3> QED
        BY <2>1, <2>3, <3>1, <3>2, EnqueueStreams
    <2> QED
      BY <1>9, <2>2, <2>3 DEF DrainDisconnects
  <1>10. CASE PushDisconnected
    <2>1. UNCHANGED <<codec, fed, maps>> /\ io.pc = "pushDisconnected"
      BY <1>10 DEF PushDisconnected, exceptDisconnect, input, At
    <2>2. CASE UNCHANGED <<deferredVars, eventVars>>
      BY <1>2, <2>1, <2>2 DEF deferredVars
    <2>3. CASE /\ PushEvent("Disconnected", Head(deferredDisconnects), {})
               /\ deferredDisconnects' = Tail(deferredDisconnects)
      <3>1. deferredDisconnects # <<>> /\ ~HasPacket(Head(deferredDisconnects))
        BY <1>1, <2>1 DEF Positions, HeadDone
      <3>2. Finishes(Head(deferredDisconnects))
        BY <2>1, <2>3, <3>1 DEF PushEvent, Pushes, Finishes
      <3> QED
        BY <2>1, <2>3, <3>1, <3>2 DEF maps, StreamStep
    <2> QED
      BY <1>10, <2>2, <2>3 DEF PushDisconnected
  <1>11. CASE DrainReads
    BY <1>2, <1>11 DEF DrainReads, deferredVars
  <1>15. CASE DrainReadsDecode
    <2>1. /\ UNCHANGED <<maps, fed, deferredVars>> /\ io.pc = "readsDecode"
          /\ EnqueueDecoded(sessionAt[Head(deferredReads)], TRUE, "readsPop", "yield", "readsError")
      BY <1>15 DEF DrainReadsDecode, At
    <2>2. Head(deferredReads) \in OpenFds
      BY <2>1 DEF CoreInv, Positions, ReadQueue
    <2> QED
      BY <2>1, <2>2, OpenIs, EnqueueStreams
  <1>12. CASE DrainReadsPop
    BY <1>2, <1>12 DEF DrainReadsPop, exceptDisconnect, input
  <1>13. CASE DrainReadsError
    <2>1. UNCHANGED <<codec, fed>>
      BY <1>13 DEF DrainReadsError, exceptDisconnect, input
    <2>2. CASE UNCHANGED <<maps, deferredDisconnects, eventVars>>
      BY <1>2, <2>1, <2>2
    <2>3. CASE io.pc = "readsDisconnect" /\ Disconnect(io.fd, [io EXCEPT !.pc = "readsSize", !.fd = NoFd])
      BY <1>1, <2>1, <2>3, DisconnectStreams DEF Positions
    <2> QED
      BY <1>13, <2>2, <2>3 DEF DrainReadsError, At
  <1>14. CASE ResumeReads
    BY <1>2, <1>14 DEF ResumeReads, exceptDisconnect, input, deferredVars
  <1> QED
    BY <1>3, <1>4, <1>5, <1>6, <1>7, <1>8, <1>9, <1>10, <1>11, <1>12, <1>13, <1>14, <1>15 DEF Input

LEMMA OutputStreams ==
  ASSUME CoreInv, OutTypes, Gone, Output, UNCHANGED config
  PROVE  StreamStep
  <1>1. /\ MapTypes /\ MapsAgree /\ config \in Configs /\ Positions
    BY DEF CoreInv, Typed
  <1>2. ASSUME UNCHANGED <<maps, deferredVars, codec, fed, eventVars>> PROVE StreamStep
    BY SMTT(40), <1>2 DEF maps, deferredVars, eventVars, Untouched, Kept, StreamStep
  <1>3. UNCHANGED <<codec, fed>>
    BY DEF Output, DrainOutbound, DrainOutboundEnd, FlushSend, FlushEnd, exceptDisconnect, stable, input
  <1>4. CASE DrainOutbound
    <2> DEFINE m == Head(outbox)
               fd == fdBySession[m.session]
               next == [io EXCEPT !.popped = @ + 1]
    <2>1. outbox # <<>>
      BY <1>4 DEF DrainOutbound
    <2>2. fd # NoFd => fd \in OpenFds
      BY <1>1, <2>1, Addressee
    <2>3. \/ UNCHANGED <<maps, deferredVars, eventVars>>
          \/ fd # NoFd /\ Disconnect(fd, next)
      BY <1>4 DEF DrainOutbound
    <2> HIDE DEF fd, next
    <2> QED
      BY <1>2, <1>3, <2>2, <2>3, DisconnectStreams
  <1>5. CASE DrainOutboundEnd
    BY <1>2, <1>3, <1>5 DEF DrainOutboundEnd, stable
  <1>6. CASE FlushSend \/ FlushEnd
    <2>1. io.flushFd \in OpenFds
      BY <1>1, <1>6 DEF FlushSend, FlushEnd, At, Positions
    <2>2. \/ UNCHANGED <<maps, deferredVars, eventVars>>
          \/ Disconnect(io.flushFd, FlushReturn)
      BY <1>6 DEF FlushSend, FlushEnd
    <2> QED
      BY <1>2, <1>3, <2>1, <2>2, DisconnectStreams
  <1> QED
    BY <1>4, <1>5, <1>6 DEF Output

LEMMA ShutdownStreams ==
  ASSUME Shutdown
  PROVE  StreamStep
  <1>1. ASSUME UNCHANGED <<maps, deferredVars, codec, fed, eventVars>> PROVE StreamStep
    BY <1>1 DEF maps, deferredVars, eventVars, Untouched, Kept, StreamStep
  <1>2. CASE Advance \/ AdvanceInput \/ AdvanceStop \/ AdvanceFinished \/ Fail
    <2>1. UNCHANGED stable
      BY <1>2 DEF Advance, AdvanceInput, AdvanceStop, AdvanceFinished, Fail
    <2> QED
      BY <1>1, <2>1 DEF stable, input
  <1>3. CASE Join \/ FlushAll
    BY <1>1, <1>3 DEF Join, FlushAll, exceptIo, exceptDisconnect, input
  <1>4. CASE CloseResources
    BY <1>4 DEF CloseResources, exceptDisconnect, input, eventVars, Untouched, StreamStep
  <1> QED
    BY <1>2, <1>3, <1>4 DEF Shutdown

\* A deferred Disconnected is pushed when its codec has no packet left.
LEMMA HeadDoneNext ==
  ASSUME CoreInv, IoThread
  PROVE  HeadDone'
  <1> SUFFICES ASSUME io'.pc = "pushDisconnected" PROVE ~HasPacket(Head(deferredDisconnects))'
    BY DEF HeadDone
  <1>1. DrainDisconnects /\ io \in IoType /\ io.pc = "disconnects"
    BY OnlyFromDisconnects DEF CoreInv, Calls, DrainDisconnects, At
  <1> DEFINE id == Head(deferredDisconnects)
  <1>2. ASSUME NEW l PROVE [io EXCEPT !.pc = l].pc = l
    BY <1>1 DEF IoType
  <1>3. deferredDisconnects' = deferredDisconnects
    BY <1>1 DEF DrainDisconnects, deferredVars
  <1>4. EnqueueDecoded(id, TRUE, "pushDisconnected", "yield", "pushDisconnected")
    BY <1>1, <1>2 DEF DrainDisconnects, Goto
  <1>5. ASSUME io' = [io EXCEPT !.work = io.work - 1, !.pc = IF inbox + 1 >= High THEN "yield" ELSE @]
        PROVE  FALSE
    <2> DEFINE l == IF inbox + 1 >= High THEN "yield" ELSE io.pc
    <2>1. io' = [io EXCEPT !.work = io.work - 1, !.pc = l]
      BY <1>5
    <2>2. l # "pushDisconnected"
      BY <1>1
    <2> HIDE DEF l
    <2>3. io'.pc = l
      BY <1>1, <2>1 DEF IoType
    <2> QED
      BY <2>2, <2>3
  <1> HIDE DEF id
  <1>6. (codec[id] = <<>> \/ ~HasPacket(id)) /\ codec' = codec
    BY <1>2, <1>4, <1>5 DEF EnqueueDecoded, Goto
  <1> QED
    BY <1>3, <1>6 DEF HasPacket, id

\* The events of every session are those of SessionEvents: each step of the I/O
\* thread that touches them is an Arrive, a Deliver or an End there, all others
\* leave them alone.  The workers so get the packets before a malformed frame, in
\* order and numbered, and one Disconnected behind them, whatever is put off.
THEOREM PromiseAlwaysKept == Spec => KeepsPromise
  <1>1. Init => StreamInv /\ Promise!Init
    <2> SUFFICES ASSUME Init PROVE StreamInv /\ Promise!Init
      OBVIOUS
    <2>1. /\ log = [id \in Ids |-> <<>>] /\ fed = [id \in Ids |-> <<>>] /\ codec = [id \in Ids |-> <<>>]
          /\ sequence = [id \in Ids |-> 0] /\ deferredDisconnects = <<>> /\ io = Start
      BY DEF Init
    <2>2. ASSUME NEW id \in Ids PROVE Flow(id) /\ ~Over(id)
      <3>1. log[id] = <<>> /\ fed[id] = <<>> /\ codec[id] = <<>> /\ sequence[id] = 0
        BY <2>1
      <3>2. Splits(<<>>, 0, <<>>) /\ Len(<<>>) = 0
        BY DEF Splits
      <3> QED
        BY <3>1, <3>2 DEF Flow, Over, Buffered
    <2>3. FlowInv
      BY <2>1, <2>2 DEF FlowInv
    <2>4. Gone
      BY <2>1, <2>2 DEF Gone, OnceGone, OverIds
    <2>5. HeadDone
      BY <2>1 DEF HeadDone, Start
    <2> QED
      BY <2>1, <2>3, <2>4, <2>5 DEF StreamInv, Promise!Init
  <1>2. /\ ServerInv /\ ServerInv' /\ StreamInv /\ [Next]_vars
        => StreamInv' /\ [Promise!Next]_<<fed, log>>
    <2> SUFFICES ASSUME ServerInv, ServerInv', StreamInv, [Next]_vars
                 PROVE  StreamInv' /\ [Promise!Next]_<<fed, log>>
      OBVIOUS
    <2>1. CoreInv /\ OutTypes /\ Typed /\ Typed' /\ FlowInv /\ Gone /\ HeadDone
      BY DEF ServerInv, CoreInv, OutInv, StreamInv
    <2>2. CASE IoThread /\ UNCHANGED config
      <3>1. StreamStep
        BY <2>1, <2>2, LoopStreams, InputStreams, OutputStreams, ShutdownStreams DEF IoThread
      <3>2. HeadDone'
        BY <2>1, <2>2, HeadDoneNext
      <3> QED
        BY <2>1, <3>1, <3>2, StreamStepKeeps DEF StreamInv
    <2>3. ASSUME UNCHANGED <<io, maps, deferredVars, codec, fed, sequence, log>>
          PROVE  StreamInv' /\ [Promise!Next]_<<fed, log>>
      <3>1. StreamStep /\ HeadDone'
        BY <2>1, <2>3 DEF maps, deferredVars, Untouched, Kept, StreamStep, HeadDone, HasPacket
      <3> QED
        BY <2>1, <3>1, StreamStepKeeps DEF StreamInv
    <2>4. CASE Stop \/ DeadlinePasses \/ Pool \/ Peers
      <3>1. CASE Stop \/ DeadlinePasses
        BY <2>3, <3>1 DEF Stop, DeadlinePasses, loopVars, input, eventVars
      <3>2. CASE Pool
        BY <2>3, <3>2 DEF Pool, WorkerPop, WorkerNotify, WorkerEmit, WorkerPush, WorkerEnd, PoolCompletes, PoolDone,
           unchangedByPool, loopVars, input
      <3>3. CASE Peers
        BY <2>3, <3>3 DEF Peers, PeerConnects, PeerSends, PeerLeaves, unchangedByPeers, loopVars, input,
           eventVars
      <3> QED
        BY <2>4, <3>1, <3>2, <3>3
    <2>5. CASE UNCHANGED vars
      BY <2>3, <2>5 DEF vars, serverVars, loopVars, input, eventVars
    <2> QED
      BY <2>2, <2>4, <2>5 DEF Next
  <1> QED
    BY <1>1, <1>2, ServerInvariant, PTL DEF Spec, KeepsPromise, Promise!Spec

-----------------------------------------------------------------------------
\* beginStop comes after the last event.

\* The thread may push an event.
MayPush == phase \in {"Running", "DrainingInput"} /\ io.pc \notin Left

Pushing == log' = log \/ MayPush

LEMMA DisconnectPushing ==
  ASSUME NEW fd, NEW next, Disconnect(fd, next), io.pc \notin Left
  PROVE  Pushing
  BY DEF Disconnect, PushesNow, eventVars, MayPush, Pushing

LEMMA PushPlaces ==
  ASSUME Stages, IoThread
  PROVE  Pushing
  <1>1. UNCHANGED eventVars => Pushing
    BY DEF eventVars, Pushing
  <1>2. CASE Loop
    <2>1. CASE LoopTop \/ Wait \/ NextEvent \/ HandleWakeup
      BY <1>1, <2>1 DEF LoopTop, Wait, NextEvent, HandleWakeup, stable
    <2>2. CASE EndOfEvents \/ FlushEvent
      BY <1>1, <2>2 DEF EndOfEvents, FlushEvent, exceptIo
    <2>3. CASE HandleSession \/ ExpireIdle
      <3>1. io.pc \notin Left
        BY <2>3 DEF HandleSession, ExpireIdle, At, Left
      <3>2. UNCHANGED eventVars \/ \E fd, next : Disconnect(fd, next)
        BY <2>3 DEF HandleSession, ExpireIdle
      <3> QED
        BY <1>1, <3>1, <3>2, DisconnectPushing
    <2> QED
      BY <1>2, <2>1, <2>2, <2>3 DEF Loop
  <1>3. CASE Input
    <2>1. CASE AcceptEnd \/ DrainSize \/ ResumeClosed
      BY <1>1, <2>1 DEF AcceptEnd, DrainSize, ResumeClosed, exceptIo
    <2>2. CASE Accept \/ Yield \/ DrainReadsPop \/ ResumeReads
      BY <1>1, <2>2, ZenonT(60) DEF Accept, Yield, DrainReadsPop, ResumeReads, stable
    <2>3. CASE ReadSession \/ ReadStops \/ DrainReadsError
      <3>1. io.pc \notin Left
        BY <2>3 DEF ReadSession, ReadStops, DrainReadsError, At, Left
      <3>2. UNCHANGED eventVars \/ \E fd, next : Disconnect(fd, next)
        BY <2>3 DEF ReadSession, ReadStops, DrainReadsError
      <3> QED
        BY <1>1, <3>1, <3>2, DisconnectPushing
    <2>4. CASE Decode \/ DrainDisconnects \/ PushDisconnected \/ DrainReads \/ DrainReadsDecode
      <3>1. io.pc \in {"decode", "disconnects", "pushDisconnected", "reads", "readsDecode"}
        BY <2>4 DEF Decode, DrainDisconnects, PushDisconnected, DrainReads, DrainReadsDecode, At
      <3>2. phase \in {"Running", "DrainingInput"}
        BY <3>1 DEF Stages, InDrain, Reading, DrainingInput
      <3> QED
        BY <3>1, <3>2 DEF MayPush, Pushing, Left
    <2> QED
      BY <1>3, <2>1, <2>2, <2>3, <2>4 DEF Input
  <1>4. CASE Output
    <2>1. io.pc \notin Left
      BY <1>4, SMTT(40) DEF Output, DrainOutbound, DrainOutboundEnd, FlushSend, FlushEnd, At, Left
    <2>2. UNCHANGED eventVars \/ \E fd, next : Disconnect(fd, next)
      BY <1>4 DEF Output, DrainOutbound, DrainOutboundEnd, FlushSend, FlushEnd, stable
    <2> QED
      BY <1>1, <2>1, <2>2, DisconnectPushing
  <1>5. CASE Shutdown
    <2>1. UNCHANGED eventVars
      BY <1>5 DEF Shutdown, Advance, AdvanceInput, AdvanceStop, AdvanceFinished, Fail, Join, FlushAll,
         CloseResources, stable, exceptIo
    <2> QED
      BY <1>1, <2>1
  <1> QED
    BY <1>2, <1>3, <1>4, <1>5 DEF IoThread

\* beginStop is called when the input phase ends, or behind an exception.
LEMMA DrainingStarts ==
  ASSUME io \in IoType, pool \in PoolType, IoThread
  PROVE  \/ pool'.draining = pool.draining
         \/ phase' = "DrainingOutput" \/ io'.pc \in Left
  <1>1. CASE AdvanceStop
    BY <1>1 DEF AdvanceStop
  <1>2. CASE Fail
    <2>1. CASE Goto("failedJoin")
      BY <2>1 DEF Goto, IoType, Left
    <2> QED
      BY <1>2, <2>1 DEF Fail
  <1>3. CASE ~AdvanceStop /\ ~Fail
    <2>1. pool' = pool \/ pool' = [pool EXCEPT !.forced = TRUE]
      <3>1. CASE Loop
        BY <3>1, ZenonT(60) DEF Loop, LoopTop, Wait, NextEvent, EndOfEvents, HandleWakeup, HandleSession,
           FlushEvent, ExpireIdle, ForceShutdown, exceptIo, exceptDisconnect
      <3>2. CASE Input
        BY <3>2, ZenonT(60) DEF Input, AcceptEnd, Accept, ReadSession, Decode, ReadStops, Yield, DrainDisconnects,
           PushDisconnected, DrainSize, DrainReads, DrainReadsDecode, DrainReadsPop, DrainReadsError, ResumeReads,
           ResumeClosed, exceptIo, exceptDisconnect
      <3>3. CASE Output
        BY <3>3 DEF Output, DrainOutbound, DrainOutboundEnd, FlushSend, FlushEnd, exceptDisconnect
      <3>4. CASE Shutdown
        BY <1>3, <3>4 DEF Shutdown, Advance, AdvanceInput, AdvanceFinished, Join, FlushAll,
           CloseResources, ForceShutdown, exceptIo, exceptDisconnect
      <3> QED
        BY <3>1, <3>2, <3>3, <3>4 DEF IoThread
    <2> QED
      BY <2>1 DEF PoolType
  <1> QED
    BY <1>1, <1>2, <1>3

\* After beginStop the thread is where it pushes nothing.
StopLast == pool.draining => ~MayPush

LEMMA StopLastNext ==
  ASSUME ServerInv, StopLast, Next
  PROVE  StopLast'
  <1>0. io \in IoType /\ pool \in PoolType
    BY DEF ServerInv, CoreInv, Calls, OutInv, PoolInv
  <1>1. CASE IoThread
    <2>1. \/ pool'.draining = pool.draining
          \/ phase' = "DrainingOutput" \/ io'.pc \in Left
      BY <1>0, <1>1, DrainingStarts
    <2>2. io.pc \in Left => io'.pc \in Left
      BY <1>0, <1>1, LeftStays
    <2>3. phase \notin {"Running", "DrainingInput"} => phase' \notin {"Running", "DrainingInput"}
      BY <1>1, PhaseSteps DEF PhaseStep, phaseVars
    <2> QED
      BY <2>1, <2>2, <2>3 DEF StopLast, MayPush
  <1>2. CASE Stop \/ DeadlinePasses \/ Pool \/ Peers
    <2>1. UNCHANGED <<io, phase>>
      BY <1>2, OthersStay
    <2>2. pool'.draining = pool.draining
      <3>1. CASE Stop \/ DeadlinePasses \/ Peers
        BY <3>1 DEF Stop, DeadlinePasses, Peers, PeerConnects, PeerSends, PeerLeaves, unchangedByPeers
      <3>2. CASE Pool
        BY <1>0, <3>2 DEF Pool, WorkerPop, WorkerNotify, WorkerEmit, WorkerPush, WorkerEnd, PoolCompletes, PoolDone,
           PoolType
      <3> QED
        BY <1>2, <3>1, <3>2
    <2> QED
      BY <2>1, <2>2 DEF StopLast, MayPush
  <1> QED
    BY <1>1, <1>2 DEF Next

\* Once WorkerPool::beginStop was called, at the end of the input phase or behind
\* an exception of run(), the I/O thread pushes no event, whatever sessions it
\* still disconnects.  It is what the proofs about a graceful stop of the pool
\* assume of its producer.
THEOREM StopIsLast == Spec => SilentAfterStop
  <1>1. Init => StopLast
    BY DEF Init, StopLast
  <1>2. ServerInv /\ Stages /\ StopLast /\ [Next]_vars
        => StopLast' /\ [pool.draining => log' = log]_vars
    <2> SUFFICES ASSUME ServerInv, Stages, StopLast, [Next]_vars
                 PROVE  StopLast' /\ [pool.draining => log' = log]_vars
      OBVIOUS
    <2>1. CASE UNCHANGED vars
      <3>1. UNCHANGED <<io, phase, pool>>
        BY <2>1 DEF vars, serverVars, phaseVars, loopVars
      <3> QED
        BY <2>1, <3>1 DEF StopLast, MayPush
    <2>2. CASE Next
      <3>1. pool.draining => log' = log
        <4>1. CASE IoThread
          BY <4>1, PushPlaces DEF Pushing, StopLast
        <4>2. CASE Stop \/ DeadlinePasses \/ Pool \/ Peers
          BY <4>2 DEF Stop, DeadlinePasses, Pool, WorkerPop, WorkerNotify, WorkerEmit, WorkerPush, WorkerEnd,
             PoolCompletes, PoolDone, Peers, PeerConnects, PeerSends, PeerLeaves,
             unchangedByPool, unchangedByPeers, eventVars
        <4> QED
          BY <2>2, <4>1, <4>2 DEF Next
      <3> QED
        BY <2>2, <3>1, StopLastNext
    <2> QED
      BY <2>1, <2>2
  <1> QED
    BY <1>1, <1>2, ServerInvariant, StagesInvariant, PTL DEF Spec, SilentAfterStop
=============================================================================
