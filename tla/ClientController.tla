-------------------------- MODULE ClientController --------------------------
(***************************************************************************)
(* The Qt client: rss::qt_client::ClientController (apps/qt-client/          *)
(* application) over QtSessionClient (apps/qt-client/network), its QTcpSocket *)
(* and a session of the server.                                             *)
(*                                                                          *)
(* All of the client runs in one thread; a step is one call of the user or   *)
(* one signal, with everything it calls: a signal emitted on the way (the    *)
(* disconnected of a disconnectFromHost, a fatal error of a write) is handled *)
(* within the step.  A server answers as MessageRouter does (Honest), or     *)
(* sends anything.  Of payloads the model keeps whether they are valid.      *)
(***************************************************************************)
EXTENDS Naturals, Sequences, FiniteSets

CONSTANTS MaxInFlight,   \* bound: packets on their way in each direction,
          MaxAny         \* from a server that sends anything

ASSUME ClientAssumption == {MaxInFlight, MaxAny} \subseteq Nat \ {0}

VARIABLES
    client,    \* state_, pending_request_, negotiating_, negotiation_timer_
               \* and whether session_id_ has a value
    socket,    \* QTcpSocket::state()
    wantClose, \* disconnectFromHost was called while it was connecting
    reported,  \* fatal_error_reported_
    toServer, toClient,  \* packets on their way
    server     \* what the server knows of the session, or "any"

linkVars == <<socket, wantClose, reported>>
vars == <<client, linkVars, toServer, toClient, server>>

\* The server keeps to the protocol.
Honest == server # "any"

\* The requests that are waited for, with the response and the state each needs.
Requests == {"Login", "CreateRoom", "JoinRoom", "LeaveRoom"}
ResponseTo == [Login |-> "LoginRes", CreateRoom |-> "CreateRoomRes",
               JoinRoom |-> "JoinRoomRes", LeaveRoom |-> "LeaveRoomRes"]
StateFor == [Login |-> "Connected", CreateRoom |-> "LoggedIn",
             JoinRoom |-> "LoggedIn", LeaveRoom |-> "InRoom"]
StateAfter == [Login |-> "LoggedIn", CreateRoom |-> "InRoom",
               JoinRoom |-> "InRoom", LeaveRoom |-> "LoggedIn"]
Responses == {ResponseTo[r] : r \in Requests}
Types == Responses \cup {"VersionRes", "RoomBroadcast", "Error", "Other"}

Idle == [state |-> "Disconnected", pending |-> "None", negotiating |-> FALSE,
         timer |-> FALSE, session |-> FALSE]

Init ==
    /\ client = Idle
    /\ socket = "Unconnected" /\ wantClose = FALSE /\ reported = FALSE
    /\ toServer = <<>> /\ toClient = <<>> /\ server = "new"

-----------------------------------------------------------------------------
\* The socket is closed, and what was on its way is lost.
Hangup ==
    /\ socket' = "Unconnected" /\ wantClose' = FALSE
    /\ toServer' = <<>> /\ toClient' = <<>> /\ server' = "new"

AfterFatalMutant(c) ==
    [c EXCEPT !.state = "Disconnected", !.pending = "None", !.negotiating = FALSE,
              !.session = FALSE]

\* onTransportError(Fatal).
AfterFatal(c) ==
    [c EXCEPT !.state = "Disconnected", !.pending = "None", !.negotiating = FALSE,
              !.timer = FALSE, !.session = FALSE]

\* onDisconnected.
AfterDisconnected(c) ==
    [c EXCEPT !.timer = FALSE, !.negotiating = FALSE, !.pending = "None",
              !.session = FALSE, !.state = "Disconnected"]

\* failConnection: abort with the signals blocked, then a fatal error.
FailConnection(c) ==
    /\ Hangup
    /\ reported' = TRUE
    /\ client' = AfterFatal(c)

\* disconnectFromHost: at once, after what is still to be written, or when the
\* connection is made.
DisconnectFromHost(c) ==
    \/ /\ socket \in {"Connected", "Closing"}
       /\ Hangup
       /\ client' = AfterDisconnected(c)
       /\ UNCHANGED reported
    \/ /\ socket \in {"Connected", "Closing"}
       /\ socket' = "Closing" /\ client' = c
       /\ UNCHANGED <<wantClose, reported, toServer, toClient, server>>
    \/ /\ socket = "Connecting"
       /\ wantClose' = TRUE /\ client' = c
       /\ UNCHANGED <<socket, reported, toServer, toClient, server>>

\* sendPacket of p.  If it is taken the client becomes sent, if it is not
\* (the socket is closing, the queue is full) unsent; a write may also fail.
SendPacket(p, sent, unsent) ==
    \/ /\ socket = "Connected" /\ Len(toServer) < MaxInFlight
       /\ toServer' = Append(toServer, p)
       /\ client' = sent
       /\ UNCHANGED <<linkVars, toClient, server>>
    \/ /\ client' = unsent
       /\ UNCHANGED <<linkVars, toServer, toClient, server>>
    \/ socket = "Connected" /\ ~reported /\ FailConnection(client)

\* connectToServer, with a valid address.
ConnectToServer ==
    /\ client.state = "Disconnected"
    /\ client' = [client EXCEPT !.state = "Connecting"]
    /\ socket' = "Connecting" /\ reported' = FALSE
    /\ server' \in {"new", "any"}
    /\ UNCHANGED <<wantClose, toServer, toClient>>

DisconnectFromServer ==
    /\ client.state # "Disconnected"
    /\ DisconnectFromHost(client)

RequireState(st) == client.state = st

RequireNoPendingMutant == TRUE
\* requireNoPendingRequest.
RequireNoPending == client.pending = "None"

\* login, createRoom, joinRoom and leaveRoom, with valid input.
Request(r) ==
    /\ RequireState(StateFor[r]) /\ RequireNoPending
    /\ SendPacket(r, [client EXCEPT !.pending = r], client)

SendChat ==
    /\ RequireState("InRoom") /\ RequireNoPending
    /\ SendPacket("Chat", client, client)

\* failNegotiation.
FailNegotiation(c) ==
    IF c.negotiating
    THEN DisconnectFromHost([c EXCEPT !.timer = FALSE, !.negotiating = FALSE])
    ELSE client' = c /\ UNCHANGED <<linkVars, toServer, toClient, server>>

\* The socket connects: onConnected, and the disconnectFromHost that waited.
Connected ==
    /\ socket = "Connecting"
    /\ LET c == [client EXCEPT !.negotiating = TRUE, !.timer = TRUE] IN
       \/ /\ client.state = "Connecting" /\ ~wantClose
          /\ socket' = "Connected"
          /\ toServer' = Append(toServer, "Version") /\ client' = c
          /\ UNCHANGED <<wantClose, reported, toClient, server>>
       \/ \* the request is not sent, or the connection is closed again
          /\ Hangup
          /\ client' = AfterDisconnected(c)
          /\ UNCHANGED reported
       \/ /\ socket' = "Closing"
          /\ client' = IF wantClose THEN c
                       ELSE [c EXCEPT !.timer = FALSE, !.negotiating = FALSE]
          /\ toServer' = IF wantClose THEN Append(toServer, "Version") ELSE toServer
          /\ UNCHANGED <<wantClose, reported, toClient, server>>
       \/ FailConnection(c)

\* errorOccurred, or a malformed frame in what was read.
SocketFails == socket # "Unconnected" /\ ~reported /\ FailConnection(client)

\* The server closes (RemoteHostClosedError is ignored), or the closing ends.
SocketCloses ==
    /\ socket \in {"Connected", "Closing"}
    /\ Hangup
    /\ client' = AfterDisconnected(client)
    /\ UNCHANGED reported

TimerFiresMutant == client.timer /\ UNCHANGED vars

TimerFires ==
    /\ client.timer
    /\ FailNegotiation([client EXCEPT !.timer = FALSE])

-----------------------------------------------------------------------------
\* isExpectedResponse.
IsExpected(c, type) == c.pending # "None" /\ type = ResponseTo[c.pending]

\* setPendingRequest(None).
Answered(c) == [c EXCEPT !.pending = "None"]

\* The switch of onPacketReceived, its exception handler included.
Received(c, m) ==
    CASE m.type \in Responses /\ IsExpected(c, m.type) /\ m.valid
           /\ c.state = StateFor[c.pending] ->
           [Answered(c) EXCEPT !.state = StateAfter[c.pending],
                               !.session = @ \/ m.type = "LoginRes"]
      [] m.type \in Responses /\ IsExpected(c, m.type)
           /\ ~(m.valid /\ c.state = StateFor[c.pending]) -> Answered(c)
      [] m.type = "Error" -> Answered(c)
      [] OTHER -> c

\* The early returns of onPacketReceived.
Ignores(c) ==
    c.state = "Disconnected" \/ (c.state = "Connecting" /\ ~c.negotiating)

OnPacketReceived ==
    /\ socket \in {"Connected", "Closing"} /\ toClient # <<>>
    /\ LET m == Head(toClient) IN
       IF client.negotiating /\ ~Ignores(client) /\ ~(m.type = "VersionRes" /\ m.valid)
       THEN FailNegotiation(client)
       ELSE /\ toClient' = Tail(toClient)
            /\ client' = IF Ignores(client) THEN client
                         ELSE IF client.negotiating
                         THEN [client EXCEPT !.timer = FALSE, !.negotiating = FALSE,
                                             !.state = "Connected"]
                         ELSE Received(client, m)
            /\ UNCHANGED <<linkVars, toServer, server>>

-----------------------------------------------------------------------------
\* The server's session: MessageRouter's answers, in the order of the requests.
ServerState == [new |-> "", agreed |-> "Connected", user |-> "LoggedIn",
                member |-> "InRoom"]
ServerAfter == [Login |-> "user", CreateRoom |-> "member", JoinRoom |-> "member",
                LeaveRoom |-> "user"]
Valid(type) == [type |-> type, valid |-> TRUE]

ServerAnswers ==
    /\ Honest /\ toServer # <<>> /\ Len(toClient) < MaxInFlight
    /\ toServer' = Tail(toServer)
    /\ LET p == Head(toServer) IN
       \/ /\ p = "Version" /\ server = "new"
          /\ server' = "agreed" /\ toClient' = Append(toClient, Valid("VersionRes"))
       \/ /\ p = "Chat" /\ server = "member"
          /\ toClient' = Append(toClient, Valid("RoomBroadcast")) /\ UNCHANGED server
       \/ /\ p \in Requests
          /\ \/ /\ ServerState[server] = StateFor[p]
                /\ server' = ServerAfter[p]
                /\ toClient' = Append(toClient, Valid(ResponseTo[p]))
             \/ toClient' = Append(toClient, Valid("Error")) /\ UNCHANGED server
    /\ UNCHANGED <<client, linkVars>>

\* A broadcast of another member, or whatever a server may send.
ServerSends ==
    /\ socket \in {"Connected", "Closing"} /\ Len(toClient) < MaxInFlight
    /\ \/ Honest /\ server = "member" /\ toClient' = Append(toClient, Valid("RoomBroadcast"))
       \/ /\ ~Honest /\ Len(toClient) < MaxAny
          /\ \E t \in Types, v \in BOOLEAN :
               toClient' = Append(toClient, [type |-> t, valid |-> v])
    /\ UNCHANGED <<client, linkVars, toServer, server>>

\* A dishonest server answers nothing in particular.
ServerDrops ==
    /\ ~Honest /\ toServer # <<>>
    /\ toServer' = Tail(toServer)
    /\ UNCHANGED <<client, linkVars, toClient, server>>

Next ==
    \/ ConnectToServer \/ DisconnectFromServer \/ SendChat
    \/ \E r \in Requests : Request(r)
    \/ Connected \/ SocketFails \/ SocketCloses \/ TimerFires \/ OnPacketReceived
    \/ ServerAnswers \/ ServerSends \/ ServerDrops

Spec == Init /\ [][Next]_vars

\* The event loop delivers packets and the timer; a socket that is connecting or
\* closing gets there or fails.  Neither the user nor a server need do anything.
FairSpec ==
    /\ Spec
    /\ WF_vars(OnPacketReceived) /\ WF_vars(TimerFires)
    /\ WF_vars(socket = "Connecting" /\ (Connected \/ SocketFails))
    /\ WF_vars(socket = "Closing" /\ SocketCloses)

-----------------------------------------------------------------------------
TypeOK ==
    /\ client \in [state : {"Disconnected", "Connecting", "Connected", "LoggedIn", "InRoom"},
                   pending : Requests \cup {"None"}, negotiating : BOOLEAN,
                   timer : BOOLEAN, session : BOOLEAN]
    /\ socket \in {"Unconnected", "Connecting", "Connected", "Closing"}
    /\ wantClose \in BOOLEAN /\ reported \in BOOLEAN
    /\ toServer \in Seq(Requests \cup {"Version", "Chat"}) /\ Len(toServer) <= MaxInFlight
    /\ toClient \in Seq([type : Types, valid : BOOLEAN]) /\ Len(toClient) <= MaxInFlight
    /\ server \in DOMAIN ServerState \cup {"any"}

\* Whatever the server sends and however connections end: the timer runs for the
\* current negotiation only, a request is pending only in the state it was made
\* in, the session id is known exactly while logged in, and the controller says
\* Disconnected exactly when the socket is gone, so that a new connection never
\* starts on an old socket; no buffer outgrows its bound.
Coherent ==
    /\ TypeOK
    /\ client.timer = client.negotiating
    /\ client.negotiating => client.state = "Connecting"
    /\ client.pending # "None" => client.state = StateFor[client.pending]
    /\ client.session <=> client.state \in {"LoggedIn", "InRoom"}
    /\ client.state = "Disconnected" <=> socket = "Unconnected"

\* A request reaches the server in a state that allows it: with an honest server
\* the client never asks out of order.
LegalRequests ==
    toServer # <<>> =>
      CASE Head(toServer) = "Version" -> server = "new"
        [] Head(toServer) = "Chat" -> server = "member"
        [] OTHER -> ServerState[server] = StateFor[Head(toServer)]

\* The places in the two streams of requests that are waited for, and of the
\* packets that end one.
RequestsUnderWay == {i \in DOMAIN toServer : toServer[i] \in Requests}
AnswersUnderWay ==
    {i \in DOMAIN toClient : toClient[i].type \in Responses \cup {"Error"}}

\* A request is pending exactly while it or its answer is on its way: no answer
\* ends another request than its own, an error of a chat least of all.
PendingIsOutstanding ==
    client.state \notin {"Disconnected", "Connecting"} =>
      Cardinality(RequestsUnderWay) + Cardinality(AnswersUnderWay)
        = IF client.pending = "None" THEN 0 ELSE 1

\* With nothing on its way, the client and the server agree on the room.
StatesAgree ==
    toServer = <<>> /\ toClient = <<>>
      /\ client.state \notin {"Disconnected", "Connecting"} =>
        client.state = ServerState[server]

\* With an honest server the client keeps in step with its session there.
InStep == Honest => LegalRequests /\ PendingIsOutstanding /\ StatesAgree

\* A negotiation ends, even if the server is silent.
NegotiationEnds == client.negotiating ~> ~client.negotiating
=============================================================================
