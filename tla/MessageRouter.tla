--------------------------- MODULE MessageRouter ----------------------------
(***************************************************************************)
(* rss::service::MessageRouter (libs/server-core/src/service/               *)
(* MessageRouter.cpp) over RoomService: version negotiation, requests, a     *)
(* login that is answered later by a thread of the user repository, and the  *)
(* Disconnected event.                                                      *)
(*                                                                          *)
(* The worker pool gives each session one turn at a time (WorkerPool's       *)
(* TurnExclusion) and publishes the output of a turn, message by message,    *)
(* before the next one.  Turns of different sessions interleave: each locked *)
(* section of the router and of RoomService is one step, each push to the    *)
(* outbox another.  Every malformed payload is the packet "invalid".         *)
(***************************************************************************)
EXTENDS RoomService, Sequences, FiniteSets, SequencesExt

CONSTANT Setups    \* the configurations and inputs that are looked at

ASSUME RouterAssumption ==
    /\ IsFiniteSet(Sessions)
    /\ \A u \in Setups :
        /\ u.budget \in Nat \ {0}    \* max_outbound_messages_per_event
        /\ u.mayNotFit \in BOOLEAN   \* messages may exceed max_outbound_bytes_per_event
        /\ u.maxPackets \in Nat      \* bound: packets of a session, of the kinds
        /\ u.packets \subseteq {"version", "invalid", "login", "create", "join",
                               "leave", "chat", "position", "ping"}

VARIABLES
    setup,      \* the one of this behaviour
    version,    \* negotiated_versions_: "none" has no entry, "failed" is 0
    stage,      \* what the turn of each session is at
    out,        \* the messages its turn has emitted and not yet published
    logins,     \* sessions with a findOrCreateByNormalizedName under way
    failed,     \* sessions the pool has failed: only Disconnected is handled
    ended,      \* sessions whose Disconnected has been taken
    asked,      \* packets handled for each session
    delivered   \* messages the outbox has carried to each session, in order

turnVars == <<stage, out, logins, failed, ended, asked>>
routerVars == <<vars, setup, version, turnVars, delivered>>

\* A message to a session, caused by a request of session from.
Message(to, kind, from, r) == [to |-> to, kind |-> kind, from |-> from, room |-> r]
Answer(s, kind) == Message(s, kind, s, 0)
Disconnecting == {"ErrorAndDisconnect", "DisconnectSession"}

-----------------------------------------------------------------------------
\* How many of n messages context.emit takes in one event: no more than the
\* budget counts, and fewer where their bytes may not fit.
Budgeted(n) ==
    LET most == IF n < setup.budget THEN n ELSE setup.budget
    IN  IF setup.mayNotFit THEN 0..most ELSE {most}

\* Every handler stops at the first message that is refused, the answer to the
\* request included.
Emit(s, messages) ==
    \E k \in Budgeted(Len(messages)) : out' = [out EXCEPT ![s] = SubSeq(messages, 1, k)]

\* An answer, if there is one, and the loop over the recipients, which come in
\* any order.
ToEach(recipients, kind, s, r, first) ==
    \E order \in SetToSeqs(recipients) :
      Emit(s, first \o [i \in DOMAIN order |-> Message(order[i], kind, s, r)])

\* tryStartSessionTurn: a deferred turn lasts until its completion.
MayStart(s) == stage[s] = "idle" /\ ~ended[s]

TakesPacket(s) == MayStart(s) /\ ~failed[s] /\ asked[s] < setup.maxPackets

SelectedMutant(s, p) == p = "version"

\* negotiateVersion has found a version, for the first VersionReq.
Selected(s, p) == version[s] = "none" /\ p = "version"

\* handleNegotiation up to the first emit: only after an agreement are other
\* packets let through; a second VersionReq revokes it.
Negotiate(s, p) ==
    /\ TakesPacket(s)
    /\ version[s] # "agreed" \/ p = "version"
    /\ asked' = [asked EXCEPT ![s] = @ + 1]
    /\ \/ /\ version[s] = "failed"
          /\ UNCHANGED <<version, stage, out>>
       \/ /\ version[s] # "failed"
          /\ version' = [version EXCEPT ![s] =
                           IF Selected(s, p) THEN "agreed" ELSE "failed"]
          /\ \/ /\ out' = [out EXCEPT ![s] =
                             <<Answer(s, IF Selected(s, p) THEN "VersionRes"
                                         ELSE "ErrorAndDisconnect")>>]
                /\ stage' = [stage EXCEPT ![s] = "publish"]
             \/ /\ setup.mayNotFit
                /\ stage' = [stage EXCEPT ![s] = "refused"]
                /\ UNCHANGED out
    /\ UNCHANGED <<vars, logins, failed, ended, delivered>>

\* The answer was not taken: the version is revoked and the session cut.
TakeBack(s) ==
    /\ stage[s] = "refused"
    /\ version' = [version EXCEPT ![s] = "failed"]
    /\ out' = [out EXCEPT ![s] = <<Answer(s, "DisconnectSession")>>]
    /\ stage' = [stage EXCEPT ![s] = "publish"]
    /\ UNCHANGED <<vars, logins, failed, ended, asked, delivered>>

-----------------------------------------------------------------------------
RefusedMutant(s) == UNCHANGED <<out, vars>>

\* handlePacket.  A request RoomService refuses is answered with an error.
Refused(s) ==
    /\ Emit(s, <<Answer(s, "Error")>>)
    /\ UNCHANGED vars

CreateRoomReq(s) ==
    \/ /\ CreateRoom(s)
       /\ Emit(s, <<Message(s, "CreateRoomRes", s, result'.room)>>)
    \/ ~InLobby(s) /\ Refused(s)

JoinRoomReqMutant(s) ==
    \E r \in RoomIds :
      /\ JoinRoom(s, r) \/ (~(InLobby(s) /\ r \in open) /\ UNCHANGED vars)
      /\ ToEach(members'[r] \ {s}, "JOIN", s, r, <<Message(s, "JoinRoomRes", s, r)>>)

JoinRoomReq(s) ==
    \E r \in RoomIds :
      \/ /\ JoinRoom(s, r)
         /\ ToEach(result'.recipients \ {s}, "JOIN", s, r,
                   <<Message(s, "JoinRoomRes", s, r)>>)
      \/ ~(InLobby(s) /\ r \in open) /\ Refused(s)

LeaveRoomReq(s) ==
    \/ /\ LeaveRoom(s)
       /\ ToEach(result'.recipients \ {s}, "LEAVE", s, roomOf[s],
                 <<Message(s, "LeaveRoomRes", s, roomOf[s])>>)
    \/ ~InRoom(s) /\ Refused(s)

ChatReq(s) ==
    \/ Chat(s) /\ ToEach(result'.recipients, "CHAT", s, roomOf[s], <<>>)
    \/ ~InRoom(s) /\ Refused(s)

PositionUpdate(s) ==
    \/ /\ UpdatePosition(s)
       /\ ToEach(result'.recipients, "POSITION", s, roomOf[s], <<>>)
    \/ ~InRoom(s) /\ Refused(s)

Ping(s) ==
    Emit(s, <<Answer(s, "Pong")>>) /\ UNCHANGED vars

\* The requests that are answered in their turn.
Request(s, p) ==
    /\ TakesPacket(s)
    /\ version[s] = "agreed"
    /\ \/ p = "create" /\ CreateRoomReq(s)
       \/ p = "join" /\ JoinRoomReq(s)
       \/ p = "leave" /\ LeaveRoomReq(s)
       \/ p = "chat" /\ ChatReq(s)
       \/ p = "position" /\ PositionUpdate(s)
       \/ p = "ping" /\ Ping(s)
       \/ p = "invalid" /\ Refused(s)
    /\ stage' = [stage EXCEPT ![s] = "publish"]
    /\ asked' = [asked EXCEPT ![s] = @ + 1]
    /\ UNCHANGED <<version, logins, failed, ended, delivered>>

\* LoginReq defers its turn and asks the repository.
LoginReq(s) ==
    /\ TakesPacket(s)
    /\ version[s] = "agreed"
    /\ stage' = [stage EXCEPT ![s] = "deferred"]
    /\ logins' = logins \cup {s}
    /\ asked' = [asked EXCEPT ![s] = @ + 1]
    /\ UNCHANGED <<vars, version, out, failed, ended, delivered>>

\* The callback, on a thread of the repository; its completion is the rest of
\* the deferred turn, its message emitted within the budget too.  fail(), also
\* of an exception behind attachUser, makes the pool cut the session.
LoginCallback(s) ==
    /\ s \in logins
    /\ logins' = logins \ {s}
    /\ stage' = [stage EXCEPT ![s] = "publish"]
    /\ \/ /\ AttachUser(s)
          /\ Emit(s, <<Answer(s, "LoginRes")>>)
          /\ UNCHANGED failed
       \/ Refused(s) /\ UNCHANGED failed
       \/ /\ failed' = [failed EXCEPT ![s] = TRUE]
          /\ out' = [out EXCEPT ![s] = <<Answer(s, "DisconnectSession")>>]
          /\ AttachUser(s) \/ UNCHANGED vars
    /\ UNCHANGED <<version, ended, asked, delivered>>

DisconnectedMutant(s) ==
    /\ stage[s] \in {"idle", "deferred"} /\ ~ended[s]
    /\ ended' = [ended EXCEPT ![s] = TRUE]
    /\ version' = [version EXCEPT ![s] = "none"]
    /\ stage' = [stage EXCEPT ![s] = "leaving"]
    /\ UNCHANGED <<vars, out, logins, failed, asked, delivered>>

\* Disconnected, first lock: the version is forgotten.
Disconnected(s) ==
    /\ MayStart(s)
    /\ ended' = [ended EXCEPT ![s] = TRUE]
    /\ version' = [version EXCEPT ![s] = "none"]
    /\ stage' = [stage EXCEPT ![s] = "leaving"]
    /\ UNCHANGED <<vars, out, logins, failed, asked, delivered>>

\* Second lock: the user leaves its room, and the others are told.
Leaving(s) ==
    /\ stage[s] = "leaving"
    /\ \/ /\ Disconnect(s)
          /\ ToEach(result'.recipients \ {s}, "LEAVE", s, result'.room, <<>>)
       \/ s \notin users /\ UNCHANGED <<vars, out>>
    /\ stage' = [stage EXCEPT ![s] = "publish"]
    /\ UNCHANGED <<version, logins, failed, ended, asked, delivered>>

\* The I/O thread sends nothing more to a session it is closing.
Closed(s) ==
    delivered[s] # <<>> /\ Last(delivered[s]).kind \in Disconnecting

\* publishOutbound of one message; after the last one the turn is complete.
Publish(s) ==
    /\ stage[s] = "publish"
    /\ \/ /\ out[s] # <<>>
          /\ LET m == Head(out[s]) IN
             delivered' = IF Closed(m.to) \/ ended[m.to] THEN delivered
                          ELSE [delivered EXCEPT ![m.to] = Append(@, m)]
          /\ out' = [out EXCEPT ![s] = Tail(@)]
          /\ UNCHANGED stage
       \/ /\ out[s] = <<>>
          /\ stage' = [stage EXCEPT ![s] = "idle"]
          /\ UNCHANGED <<out, delivered>>
    /\ UNCHANGED <<vars, version, logins, failed, ended, asked>>

RouterInit ==
    /\ Init
    /\ setup \in Setups
    /\ version = [s \in Sessions |-> "none"]
    /\ stage = [s \in Sessions |-> "idle"]
    /\ out = [s \in Sessions |-> <<>>]
    /\ logins = {}
    /\ failed = [s \in Sessions |-> FALSE]
    /\ ended = [s \in Sessions |-> FALSE]
    /\ asked = [s \in Sessions |-> 0]
    /\ delivered = [s \in Sessions |-> <<>>]

RouterNext ==
    /\ \E s \in Sessions :
         \/ \E p \in setup.packets : Negotiate(s, p) \/ Request(s, p)
         \/ "login" \in setup.packets /\ LoginReq(s)
         \/ TakeBack(s) \/ LoginCallback(s)
         \/ Disconnected(s) \/ Leaving(s) \/ Publish(s)
    /\ UNCHANGED setup

RouterSpec == RouterInit /\ [][RouterNext]_routerVars

-----------------------------------------------------------------------------
\* The byte budget of an event is large enough for what it emits, and the
\* message budget holds a message for everyone.
Fits == ~setup.mayNotFit
Roomy == Fits /\ setup.budget >= Cardinality(Sessions)
Idle(s) == stage[s] = "idle" /\ ~ended[s]
\* The places of the answers to the session's own requests.
OwnAt(s) == {i \in DOMAIN delivered[s] : delivered[s][i].from = s}
Latest(places) == CHOOSE i \in places : \A j \in places : j <= i

\* The first a session hears is VersionRes, unless it is cut, and it hears it
\* once; a session whose answer could not be sent is never served
\* (handleNegotiation takes the version back in a second locked section).
VersionFirst ==
    \A s \in Sessions : \A i \in DOMAIN delivered[s] :
      delivered[s][i].kind \notin Disconnecting =>
        (i = 1 <=> delivered[s][i].kind = "VersionRes")

\* Nothing is kept for a session whose Disconnected has been handled, whenever
\* the repository answers its login.
NoGhosts ==
    \A s \in Sessions : ended[s] /\ stage[s] = "idle" =>
      s \notin users /\ roomOf[s] = 0 /\ version[s] = "none" /\ s \notin logins

\* Between its turns a session that is served has had at most one answer to each
\* of its requests, its own broadcasts included, and exactly one where the
\* budgets of an event refuse nothing: then a client that waits for an answer
\* does not wait in vain.  With a smaller budget the handlers drop the message
\* that emit refuses, and the answer may be missing.
EachRequestAnswered ==
    \A s \in Sessions :
      Idle(s) /\ version[s] = "agreed" /\ ~failed[s] /\ ~Closed(s) =>
        /\ Cardinality(OwnAt(s)) <= asked[s]
        /\ Roomy => Cardinality(OwnAt(s)) = asked[s]

\* The answers that say which room the session is in, and the room they say.
MovesAt(s) ==
    {i \in OwnAt(s) :
       delivered[s][i].kind \in {"CreateRoomRes", "JoinRoomRes", "LeaveRoomRes"}}
Told(m) == IF m.kind = "LeaveRoomRes" THEN NoRoom ELSE m.room

\* Between its turns the last such answer a session has been sent is true.
AnswersTellRoom ==
    \A s \in Sessions : Idle(s) /\ ~Closed(s) =>
      roomOf[s] = IF MovesAt(s) = {} THEN NoRoom
                  ELSE Told(delivered[s][Latest(MovesAt(s))])

\* The broadcasts about session t that s got since it entered its room.
Heard(s, t) ==
    LET entered == {i \in DOMAIN delivered[s] :
                      delivered[s][i].kind \in {"CreateRoomRes", "JoinRoomRes"}}
        since == {i \in DOMAIN delivered[s] : \A j \in entered : j < i}
    IN  {i \in since : /\ delivered[s][i].kind \in {"JOIN", "LEAVE"}
                       /\ delivered[s][i].from = t
                       /\ delivered[s][i].room = roomOf[s]}

\* The last JOIN or LEAVE about another session that a member got since it
\* entered its room is true, although calls and broadcasts of several workers
\* interleave: nobody who left or disconnected stays on a member's list.
BroadcastsTellMembers ==
    \A s, t \in Sessions :
      s # t /\ Idle(s) /\ roomOf[s] # 0 /\ stage[t] = "idle" /\ ~Closed(s)
        /\ Heard(s, t) # {} =>
          (delivered[s][Latest(Heard(s, t))].kind = "JOIN" <=> t \in members[roomOf[s]])

\* Nobody is sent word that another session has entered a room before that
\* session is: where emit refuses the answer the handler returns and tells no one.
JoinersToldFirst ==
    \A s \in Sessions : \A i \in DOMAIN delivered[s] :
      LET m == delivered[s][i] IN
      m.kind = "JOIN" =>
        \E j \in DOMAIN delivered[m.from] :
          delivered[m.from][j] = Message(m.from, "JoinRoomRes", m.from, m.room)

\* What a session has been told about rooms is what RoomService has, as far as
\* the budgets let it be told: the answers if their bytes fit, the broadcasts if
\* there is also a message for everyone; nobody is told of an entry its own
\* session has not heard of, whatever the budgets.  (An answer refused on its
\* bytes leaves the room changed and the session without word of it.)
TellsRooms ==
    /\ JoinersToldFirst
    /\ Fits => AnswersTellRoom
    /\ Roomy => BroadcastsTellMembers
=============================================================================
