----------------------- MODULE ClientControllerProofs -----------------------
(***************************************************************************)
(* Proofs about ClientController, for every bound on what is on its way.     *)
(*                                                                          *)
(* Coherent is inductive once it is known what the streams hold while there  *)
(* is no connection (LinkInv).  InStep is not: that no answer ends another    *)
(* request than its own rests on the shape of both streams, which StreamInv   *)
(* describes (a negotiation, no request, a request behind the chats before    *)
(* it, or one answer among the broadcasts).                                  *)
(***************************************************************************)
EXTENDS ClientController, FiniteSetTheorems, TLAPS

ClientStates == {"Disconnected", "Connecting", "Connected", "LoggedIn", "InRoom"}
ClientType == [state : ClientStates, pending : Requests \cup {"None"},
               negotiating : BOOLEAN, timer : BOOLEAN, session : BOOLEAN]
Packets == Requests \cup {"Version", "Chat"}
Messages == [type : Types, valid : BOOLEAN]

\* What Coherent says of the controller alone.
ClientOK(c) ==
    /\ c \in ClientType
    /\ c.timer = c.negotiating
    /\ c.negotiating => c.state = "Connecting"
    /\ c.pending # "None" => c.state = StateFor[c.pending]
    /\ c.session <=> c.state \in {"LoggedIn", "InRoom"}

\* Without a connection nothing is on its way; a socket connects for a
\* controller that is Connecting.
LinkInv ==
    /\ socket = "Unconnected" => toServer = <<>> /\ toClient = <<>> /\ server = "new"
    /\ socket = "Connecting" =>
         /\ client.state = "Connecting"
         /\ toServer = <<>> /\ toClient = <<>> /\ server \in {"new", "any"}

ControllerInv == Coherent /\ LinkInv

-----------------------------------------------------------------------------
\* The streams of a connection to a server that keeps to the protocol.

Broadcast == Valid("RoomBroadcast")

\* The VersionReq is on its way, or its answer is, or neither is.
Negotiates ==
    \/ server = "new" /\ toServer \in {<<>>, <<"Version">>} /\ toClient = <<>>
    \/ server = "agreed" /\ toServer = <<>> /\ toClient \in {<<>>, <<Valid("VersionRes")>>}

OnlyChats(n) == \A i \in 1..n : toServer[i] = "Chat" /\ client.state = "InRoom"
OnlyBroadcasts(places) == \A i \in places : toClient[i] = Broadcast

\* No request is pending.
NothingAsked ==
    /\ client.pending = "None"
    /\ ServerState[server] = client.state
    /\ OnlyChats(Len(toServer)) /\ OnlyBroadcasts(DOMAIN toClient)

\* The pending request is the last packet on its way to the server.
AskedLast ==
    /\ client.pending # "None" /\ toServer # <<>>
    /\ ServerState[server] = client.state
    /\ toServer[Len(toServer)] = client.pending
    /\ OnlyChats(Len(toServer) - 1) /\ OnlyBroadcasts(DOMAIN toClient)

\* The answer to the pending request is at place k on its way to the client.
AnsweredAt(k) ==
    /\ client.pending # "None" /\ toServer = <<>>
    /\ OnlyBroadcasts(DOMAIN toClient \ {k})
    /\ \/ /\ toClient[k] = Valid("Error")
          /\ ServerState[server] = client.state
       \/ /\ toClient[k] = Valid(ResponseTo[client.pending])
          /\ ServerState[server] = StateAfter[client.pending]

Streams ==
    /\ client.state = "Connecting" => Negotiates
    /\ client.state \notin {"Disconnected", "Connecting"} =>
         NothingAsked \/ AskedLast \/ \E k \in DOMAIN toClient : AnsweredAt(k)

StreamInv == Honest => Streams

-----------------------------------------------------------------------------
\* The tables of the requests and the types, written out once.
LEMMA Tables ==
    /\ \A r \in Requests : /\ StateFor[r] \in {"Connected", "LoggedIn", "InRoom"}
                           /\ StateAfter[r] \in {"LoggedIn", "InRoom"}
                           /\ ResponseTo[r] \in Responses
                           /\ ServerAfter[r] \in {"user", "member"}
                           /\ ServerState[ServerAfter[r]] = StateAfter[r]
                           /\ r \notin {"None", "Version", "Chat"}
    /\ \A r \in Requests : ResponseTo[r] \in Types \ {"Error", "RoomBroadcast", "VersionRes", "Other"}
    /\ {"VersionRes", "RoomBroadcast", "Error", "Other"} \subseteq Types
    /\ "RoomBroadcast" \notin Responses
<1>1. \A r \in Requests : /\ StateFor[r] \in {"Connected", "LoggedIn", "InRoom"}
                          /\ StateAfter[r] \in {"LoggedIn", "InRoom"}
                          /\ r \notin {"None", "Version", "Chat"}
  BY DEF Requests, StateFor, StateAfter
<1>2. \A r \in Requests : ResponseTo[r] \in Responses
  BY DEF Responses
<1>3. \A r \in Requests : /\ ServerAfter[r] \in {"user", "member"}
                          /\ ServerState[ServerAfter[r]] = StateAfter[r]
  <2>1. /\ ServerAfter["Login"] = "user" /\ ServerAfter["CreateRoom"] = "member"
        /\ ServerAfter["JoinRoom"] = "member" /\ ServerAfter["LeaveRoom"] = "user"
    BY DEF ServerAfter
  <2>2. ServerState["user"] = "LoggedIn" /\ ServerState["member"] = "InRoom"
    BY DEF ServerState
  <2>3. /\ StateAfter["Login"] = "LoggedIn" /\ StateAfter["CreateRoom"] = "InRoom"
        /\ StateAfter["JoinRoom"] = "InRoom" /\ StateAfter["LeaveRoom"] = "LoggedIn"
    BY DEF StateAfter
  <2> QED
    BY <2>1, <2>2, <2>3 DEF Requests
<1>4. \A r \in Requests : ResponseTo[r] \notin {"Error", "RoomBroadcast", "VersionRes", "Other"}
  BY DEF Requests, ResponseTo
<1>5. \A t \in Responses : \E r \in Requests : t = ResponseTo[r]
  BY DEF Responses
<1> QED
  BY <1>1, <1>2, <1>3, <1>4, <1>5 DEF Types

\* The four states of the server's session.
LEMMA SessionStates ==
    /\ DOMAIN ServerState = {"new", "agreed", "user", "member"}
    /\ ServerState["new"] = "" /\ ServerState["agreed"] = "Connected"
    /\ ServerState["user"] = "LoggedIn" /\ ServerState["member"] = "InRoom"
BY DEF ServerState

\* A sequence of length 0.
LEMMA NothingLeft ==
  ASSUME NEW S, NEW q \in Seq(S), Len(q) = 0
  PROVE  q = <<>>
  OBVIOUS

\* A fatal error and the end of the connection leave the same controller.
LEMMA EndsIdle ==
    ASSUME NEW c \in ClientType
    PROVE  AfterFatal(c) = Idle /\ AfterDisconnected(c) = Idle
<1>1. AfterFatal(c) = AfterDisconnected(c)
  BY DEF AfterFatal, AfterDisconnected, ClientType
<1>2. /\ AfterFatal(c) \in ClientType
      /\ AfterFatal(c).state = "Disconnected" /\ AfterFatal(c).pending = "None"
      /\ AfterFatal(c).negotiating = FALSE /\ AfterFatal(c).timer = FALSE
      /\ AfterFatal(c).session = FALSE
  BY DEF AfterFatal, ClientType, ClientStates
<1>3. ASSUME NEW d \in ClientType, d.state = "Disconnected", d.pending = "None",
             d.negotiating = FALSE, d.timer = FALSE, d.session = FALSE
      PROVE  d = Idle
  BY <1>3 DEF Idle, ClientType
<1> QED
  BY <1>1, <1>2, <1>3

\* The controller that is back to Disconnected with its socket gone.
LEMMA AfterHangup ==
    ASSUME Hangup, client' = Idle, reported' \in BOOLEAN
    PROVE  ControllerInv' /\ StreamInv'
<1>1. ClientOK(Idle) /\ Idle.state = "Disconnected"
  BY DEF ClientOK, Idle, ClientType, ClientStates, Requests
<1>2. TypeOK'
  <2>1. client' \in ClientType
    BY <1>1 DEF ClientOK
  <2>2. /\ toServer' = <<>> /\ toClient' = <<>> /\ server' = "new"
        /\ socket' = "Unconnected" /\ wantClose' = FALSE
    BY DEF Hangup
  <2>3. 0 <= MaxInFlight
    BY ClientAssumption
  <2> QED
    <3>1. toServer' \in Seq(Requests \cup {"Version", "Chat"}) /\ Len(toServer') = 0
      BY <2>2
    <3>2. toClient' \in Seq([type : Types, valid : BOOLEAN]) /\ Len(toClient') = 0
      BY <2>2
    <3>3. server' \in DOMAIN ServerState \cup {"any"}
      BY <2>2, SessionStates
    <3> QED
      BY <2>1, <2>2, <2>3, <3>1, <3>2, <3>3 DEF TypeOK, ClientType, ClientStates
<1>3. Coherent'
  BY <1>1, <1>2 DEF Coherent, ClientOK, Hangup
<1> QED
  BY <1>1, <1>3 DEF ControllerInv, LinkInv, StreamInv, Streams, Hangup

\* What Coherent says of the streams, and of the socket.
WireOK ==
    /\ toServer \in Seq(Packets) /\ Len(toServer) <= MaxInFlight
    /\ toClient \in Seq(Messages) /\ Len(toClient) <= MaxInFlight
    /\ server \in DOMAIN ServerState \cup {"any"}
SocketOK ==
    /\ socket \in {"Unconnected", "Connecting", "Connected", "Closing"}
    /\ wantClose \in BOOLEAN /\ reported \in BOOLEAN
    /\ client.state = "Disconnected" <=> socket = "Unconnected"

\* Coherent is what is said of the three.
LEMMA CoherentIs == Coherent <=> ClientOK(client) /\ WireOK /\ SocketOK
BY DEF Coherent, TypeOK, ClientOK, WireOK, SocketOK, ClientType, ClientStates, Packets, Messages

\* The same of the next state.
LEMMA CoherentNext ==
    ASSUME ClientOK(client'), WireOK', SocketOK'
    PROVE  Coherent'
BY DEF Coherent, TypeOK, ClientOK, WireOK, SocketOK, ClientType, ClientStates, Packets, Messages

\* StreamInv depends on the controller's state and pending request only.
LEMMA SameStreams ==
    ASSUME StreamInv, client'.state = client.state, client'.pending = client.pending,
           UNCHANGED <<toServer, toClient, server>>
    PROVE  StreamInv'
BY DEF StreamInv, Honest, Streams, Negotiates, NothingAsked, AskedLast, AnsweredAt,
       OnlyChats, OnlyBroadcasts

\* failConnection.
LEMMA FailKeeps ==
    ASSUME NEW c \in ClientType, FailConnection(c)
    PROVE  ControllerInv' /\ StreamInv'
BY EndsIdle, AfterHangup DEF FailConnection

\* onDisconnected.
LEMMA CloseKeeps ==
    ASSUME NEW c \in ClientType, Hangup, client' = AfterDisconnected(c), reported' \in BOOLEAN
    PROVE  ControllerInv' /\ StreamInv'
BY EndsIdle, AfterHangup

\* A step of the controller that leaves the connection as it is, or begins to
\* close it.
LEMMA ControllerStep ==
    ASSUME ControllerInv, StreamInv, ClientOK(client'),
           client'.state = client.state, client'.pending = client.pending,
           socket' = socket \/ (socket \in {"Connected", "Closing"} /\ socket' = "Closing"),
           wantClose' \in BOOLEAN, UNCHANGED <<reported, toServer, toClient, server>>
    PROVE  ControllerInv' /\ StreamInv'
<1>1. ClientOK(client) /\ WireOK /\ SocketOK /\ LinkInv
  BY CoherentIs DEF ControllerInv
<1>2. WireOK' /\ SocketOK'
  BY <1>1 DEF WireOK, SocketOK
<1>3. LinkInv'
  BY <1>1 DEF LinkInv
<1>4. StreamInv'
  BY SameStreams
<1> QED
  BY <1>2, <1>3, <1>4, CoherentNext DEF ControllerInv

\* disconnectFromHost, for a controller that may have given up its negotiation.
LEMMA DisconnectKeeps ==
    ASSUME ControllerInv, StreamInv, NEW c, ClientOK(c), c.state = client.state,
           c.pending = client.pending, DisconnectFromHost(c)
    PROVE  ControllerInv' /\ StreamInv'
<1>1. reported \in BOOLEAN /\ c \in ClientType /\ wantClose \in BOOLEAN
  BY CoherentIs DEF ControllerInv, SocketOK, ClientOK
<1>2. CASE Hangup /\ client' = AfterDisconnected(c) /\ reported' = reported
  BY <1>1, <1>2, CloseKeeps
<1>3. CASE /\ socket \in {"Connected", "Closing"}
           /\ socket' = "Closing" /\ client' = c
           /\ UNCHANGED <<wantClose, reported, toServer, toClient, server>>
  BY <1>1, <1>3, ControllerStep
<1>4. CASE /\ socket = "Connecting"
           /\ wantClose' = TRUE /\ client' = c
           /\ UNCHANGED <<socket, reported, toServer, toClient, server>>
  BY <1>1, <1>4, ControllerStep
<1> QED
  BY <1>2, <1>3, <1>4 DEF DisconnectFromHost

\* failNegotiation, called with a controller whose timer may have fired.
LEMMA FailNegotiationKeeps ==
    ASSUME ControllerInv, StreamInv, NEW timer \in BOOLEAN,
           FailNegotiation([client EXCEPT !.timer = timer]),
           timer = client.timer \/ client.negotiating
    PROVE  ControllerInv' /\ StreamInv'
<1> DEFINE c == [client EXCEPT !.timer = timer]
           d == [c EXCEPT !.timer = FALSE, !.negotiating = FALSE]
<1>1. ClientOK(client)
  BY CoherentIs DEF ControllerInv
<1>2. c.negotiating = client.negotiating /\ c.state = client.state /\ c.pending = client.pending
  BY <1>1 DEF ClientOK, ClientType
<1>3. CASE client.negotiating
  <2>1. ClientOK(d) /\ d.state = client.state /\ d.pending = client.pending
    BY <1>1 DEF ClientOK, ClientType
  <2>2. DisconnectFromHost(d)
    BY <1>2, <1>3 DEF FailNegotiation
  <2> QED
    BY <2>1, <2>2, DisconnectKeeps
<1>4. CASE ~client.negotiating
  <2>1. client' = c /\ UNCHANGED <<linkVars, toServer, toClient, server>>
    BY <1>2, <1>4 DEF FailNegotiation
  <2>2. c = client
    BY <1>1, <1>4 DEF ClientOK, ClientType
  <2>3. wantClose \in BOOLEAN
    BY CoherentIs DEF ControllerInv, SocketOK
  <2> QED
    BY <1>1, <2>1, <2>2, <2>3, ControllerStep DEF linkVars
<1> QED
  BY <1>3, <1>4

-----------------------------------------------------------------------------
\* connectToServer.
LEMMA ConnectKeeps ==
    ASSUME ControllerInv, StreamInv, ConnectToServer
    PROVE  ControllerInv' /\ StreamInv'
<1>1. ClientOK(client) /\ WireOK /\ SocketOK /\ LinkInv
  BY CoherentIs DEF ControllerInv
<1>2. socket = "Unconnected" /\ toServer = <<>> /\ toClient = <<>>
  BY <1>1 DEF ConnectToServer, SocketOK, LinkInv
<1>3. client.pending = "None" /\ client.state = "Disconnected"
  BY <1>1, Tables DEF ConnectToServer, ClientOK, ClientType
<1>4. ClientOK(client') /\ client'.state = "Connecting"
  BY <1>1, <1>3 DEF ConnectToServer, ClientOK, ClientType, ClientStates
<1>5. WireOK'
  BY <1>1, SessionStates DEF ConnectToServer, WireOK
<1>6. SocketOK'
  BY <1>1, <1>4 DEF ConnectToServer, SocketOK
<1>7. LinkInv'
  BY <1>2, <1>4 DEF ConnectToServer, LinkInv
<1>8. StreamInv'
  BY <1>2, <1>4 DEF ConnectToServer, StreamInv, Honest, Streams, Negotiates
<1> QED
  BY <1>4, <1>5, <1>6, <1>7, <1>8, CoherentNext DEF ControllerInv

\* A packet is taken by the socket: what every request and chat has in common.
LEMMA SendCoheres ==
    ASSUME ControllerInv, NEW p \in Packets, socket = "Connected", Len(toServer) < MaxInFlight,
           toServer' = Append(toServer, p), ClientOK(client'), client'.state = client.state,
           UNCHANGED <<linkVars, toClient, server>>
    PROVE  ControllerInv'
<1>1. ClientOK(client) /\ WireOK /\ SocketOK /\ LinkInv
  BY CoherentIs DEF ControllerInv
<1>2. toServer' \in Seq(Packets) /\ Len(toServer') = Len(toServer) + 1
  BY <1>1 DEF WireOK
<1>3. Len(toServer') <= MaxInFlight
  BY <1>1, <1>2, ClientAssumption DEF WireOK
<1>4. WireOK'
  BY <1>1, <1>2, <1>3 DEF WireOK, linkVars
<1>5. SocketOK' /\ LinkInv'
  BY <1>1 DEF SocketOK, LinkInv, linkVars
<1> QED
  BY <1>4, <1>5, CoherentNext DEF ControllerInv

\* With no request pending, an honest server has none to answer.
LEMMA NothingPending ==
    ASSUME StreamInv, Honest, client.pending = "None",
           client.state \notin {"Disconnected", "Connecting"}
    PROVE  NothingAsked
BY DEF StreamInv, Streams, AskedLast, AnsweredAt

\* sendPacket of a request.
LEMMA RequestKeeps ==
    ASSUME ControllerInv, StreamInv, NEW r \in Requests, Request(r)
    PROVE  ControllerInv' /\ StreamInv'
<1> DEFINE sent == [client EXCEPT !.pending = r]
<1>1. ClientOK(client) /\ WireOK /\ SocketOK /\ LinkInv
  BY CoherentIs DEF ControllerInv
<1>2. client.state = StateFor[r] /\ client.pending = "None"
  BY DEF Request, RequireState, RequireNoPending
<1>3. ClientOK(sent) /\ sent.state = client.state /\ sent.pending = r
  BY <1>1, <1>2 DEF ClientOK, ClientType
<1>4. CASE /\ socket = "Connected" /\ Len(toServer) < MaxInFlight
           /\ toServer' = Append(toServer, r)
           /\ client' = sent
           /\ UNCHANGED <<linkVars, toClient, server>>
  <2>1. ControllerInv'
    BY <1>3, <1>4, SendCoheres DEF Packets
  <2>2. ASSUME Honest PROVE AskedLast'
    <3>1. NothingAsked
      BY <1>2, <2>2, NothingPending, Tables
    <3>2. /\ Len(toServer') = Len(toServer) + 1 /\ Len(toServer) \in Nat
          /\ toServer'[Len(toServer')] = r /\ toServer' # <<>>
          /\ \A i \in 1..Len(toServer) : toServer'[i] = toServer[i]
      BY SMTT(40), <1>1, <1>4 DEF WireOK, Packets
    <3>3. OnlyChats(Len(toServer) - 1)' 
      BY <3>1, <3>2, <1>3, <1>4 DEF NothingAsked, OnlyChats
    <3>4. OnlyBroadcasts(DOMAIN toClient)' /\ ServerState[server'] = client'.state
      BY <3>1, <1>3, <1>4 DEF NothingAsked, OnlyBroadcasts
    <3>5. client'.pending = r /\ client'.pending # "None"
      BY <1>3, <1>4, Tables
    <3> QED
      BY <3>2, <3>3, <3>4, <3>5 DEF AskedLast
  <2>3. client'.state \notin {"Disconnected", "Connecting"}
    BY <1>2, <1>3, <1>4, Tables
  <2> QED
    BY <1>4, <2>1, <2>2, <2>3 DEF StreamInv, Streams, Honest
<1>5. CASE client' = client /\ UNCHANGED <<linkVars, toServer, toClient, server>>
  <2>1. wantClose \in BOOLEAN
    BY <1>1 DEF SocketOK
  <2> QED
    BY <1>1, <1>5, <2>1, ControllerStep DEF linkVars
<1>6. CASE FailConnection(client)
  BY <1>1, <1>6, FailKeeps DEF ClientOK
<1> QED
  BY <1>4, <1>5, <1>6 DEF Request, SendPacket

\* sendPacket of a chat.
LEMMA ChatKeeps ==
    ASSUME ControllerInv, StreamInv, SendChat
    PROVE  ControllerInv' /\ StreamInv'
<1>1. ClientOK(client) /\ WireOK /\ SocketOK /\ LinkInv
  BY CoherentIs DEF ControllerInv
<1>2. client.state = "InRoom" /\ client.pending = "None"
  BY DEF SendChat, RequireState, RequireNoPending
<1>4. CASE /\ socket = "Connected" /\ Len(toServer) < MaxInFlight
           /\ toServer' = Append(toServer, "Chat")
           /\ client' = client
           /\ UNCHANGED <<linkVars, toClient, server>>
  <2>1. ControllerInv'
    BY <1>1, <1>4, SendCoheres DEF Packets
  <2>2. ASSUME Honest PROVE NothingAsked'
    <3>1. NothingAsked
      BY <1>2, <2>2, NothingPending
    <3>2. /\ Len(toServer') = Len(toServer) + 1 /\ Len(toServer) \in Nat
          /\ toServer'[Len(toServer')] = "Chat"
          /\ \A i \in 1..Len(toServer) : toServer'[i] = toServer[i]
      BY <1>1, <1>4 DEF WireOK, Packets
    <3>3. OnlyChats(Len(toServer))' 
      BY <3>1, <3>2, <1>2, <1>4 DEF NothingAsked, OnlyChats
    <3>4. OnlyBroadcasts(DOMAIN toClient)' /\ ServerState[server'] = client'.state
      BY <3>1, <1>4 DEF NothingAsked, OnlyBroadcasts
    <3> QED
      BY <1>2, <1>4, <3>3, <3>4 DEF NothingAsked
  <2> QED
    BY <1>2, <1>4, <2>1, <2>2 DEF StreamInv, Streams, Honest
<1>5. CASE client' = client /\ UNCHANGED <<linkVars, toServer, toClient, server>>
  <2>1. wantClose \in BOOLEAN
    BY <1>1 DEF SocketOK
  <2> QED
    BY <1>1, <1>5, <2>1, ControllerStep DEF linkVars
<1>6. CASE FailConnection(client)
  BY <1>1, <1>6, FailKeeps DEF ClientOK
<1> QED
  BY <1>4, <1>5, <1>6 DEF SendChat, SendPacket

\* onConnected.
LEMMA ConnectedKeeps ==
    ASSUME ControllerInv, StreamInv, Connected
    PROVE  ControllerInv' /\ StreamInv'
<1> DEFINE c == [client EXCEPT !.negotiating = TRUE, !.timer = TRUE]
           d == [c EXCEPT !.timer = FALSE, !.negotiating = FALSE]
<1>1. ClientOK(client) /\ WireOK /\ SocketOK /\ LinkInv
  BY CoherentIs DEF ControllerInv
<1>2. /\ client.state = "Connecting" /\ socket = "Connecting"
      /\ toServer = <<>> /\ toClient = <<>> /\ server \in {"new", "any"}
  BY <1>1 DEF Connected, LinkInv
<1>3. ClientOK(c) /\ c.state = "Connecting" /\ c \in ClientType
  BY <1>1, <1>2 DEF ClientOK, ClientType
<1>4. ClientOK(d) /\ d.state = "Connecting"
  BY <1>1, <1>2 DEF ClientOK, ClientType
<1>5. ASSUME socket' \in {"Connected", "Closing"}, client' = c \/ client' = d,
             toServer' = <<"Version">> \/ toServer' = <<>>,
             UNCHANGED <<wantClose, reported, toClient, server>>
      PROVE  ControllerInv' /\ StreamInv'
  <2>1. ClientOK(client') /\ client'.state = "Connecting"
    BY <1>3, <1>4, <1>5
  <2>2. toServer' \in Seq(Packets) /\ Len(toServer') <= 1
    <3>1. "Version" \in Packets
      BY DEF Packets
    <3>2. <<"Version">> \in Seq(Packets) /\ Len(<<"Version">>) = 1
      BY <3>1
    <3>3. <<>> \in Seq(Packets) /\ Len(<<>>) = 0
      OBVIOUS
    <3>4. CASE toServer' = <<"Version">>
      BY <3>2, <3>4
    <3>5. CASE toServer' = <<>>
      BY <3>3, <3>5
    <3> QED
      BY <1>5, <3>4, <3>5
  <2>3. Len(toServer') <= MaxInFlight
    BY <2>2, ClientAssumption
  <2>4. WireOK'
    BY <1>1, <1>5, <2>2, <2>3 DEF WireOK
  <2>5. SocketOK'
    BY <1>1, <1>5, <2>1 DEF SocketOK
  <2>6. LinkInv'
    BY <1>5 DEF LinkInv
  <2>7. StreamInv'
    BY <1>2, <1>5, <2>1 DEF StreamInv, Honest, Streams, Negotiates
  <2> QED
    BY <2>1, <2>4, <2>5, <2>6, <2>7, CoherentNext DEF ControllerInv
<1>6. Append(toServer, "Version") = <<"Version">>
  BY <1>2
<1>7. CASE /\ socket' = "Connected"
           /\ toServer' = Append(toServer, "Version") /\ client' = c
           /\ UNCHANGED <<wantClose, reported, toClient, server>>
  BY <1>5, <1>6, <1>7
<1>8. CASE /\ Hangup /\ client' = AfterDisconnected(c) /\ UNCHANGED reported
  BY <1>1, <1>3, <1>8, CloseKeeps DEF SocketOK
<1>9. CASE /\ socket' = "Closing"
           /\ client' = IF wantClose THEN c ELSE d
           /\ toServer' = IF wantClose THEN Append(toServer, "Version") ELSE toServer
           /\ UNCHANGED <<wantClose, reported, toClient, server>>
  <2>1. client' = c \/ client' = d
    BY <1>9
  <2>2. toServer' = <<"Version">> \/ toServer' = <<>>
    BY <1>2, <1>6, <1>9
  <2> QED
    BY <1>5, <1>9, <2>1, <2>2
<1>10. CASE FailConnection(c)
  BY <1>3, <1>10, FailKeeps
<1> QED
  BY <1>7, <1>8, <1>9, <1>10 DEF Connected

-----------------------------------------------------------------------------
\* onPacketReceived in a state where requests are made: it keeps the controller
\* coherent whatever arrives.
LEMMA ReceivedCoheres ==
    ASSUME NEW c, ClientOK(c), c.state \notin {"Disconnected", "Connecting"}, NEW m \in Messages
    PROVE  /\ ClientOK(Received(c, m))
           /\ Received(c, m).state \notin {"Disconnected", "Connecting"}
<1> DEFINE answered == Answered(c)
           moved == [Answered(c) EXCEPT !.state = StateAfter[c.pending],
                                        !.session = @ \/ m.type = "LoginRes"]
<1>1. ClientOK(answered) /\ answered.state = c.state
  BY DEF Answered, ClientOK, ClientType
<1>2. ASSUME c.pending # "None", m.type = ResponseTo[c.pending]
      PROVE  ClientOK(moved) /\ moved.state \notin {"Disconnected", "Connecting"}
  <2>1. c.pending \in Requests
    BY <1>2 DEF ClientOK, ClientType
  <2>2. StateAfter[c.pending] \in {"LoggedIn", "InRoom"}
    BY <2>1, Tables
  <2>3. c.negotiating = FALSE /\ c.timer = FALSE
    BY DEF ClientOK, ClientType
  <2>4. c.session \/ m.type = "LoginRes"
    <3>1. CASE c.pending = "Login"
      BY <1>2, <3>1 DEF ResponseTo
    <3>2. CASE c.pending # "Login"
      BY <1>2, <2>1, <3>2 DEF Requests, StateFor, ClientOK
    <3> QED
      BY <3>1, <3>2
  <2>5. c \in ClientType /\ c.session \in BOOLEAN
    BY DEF ClientOK, ClientType
  <2>6. moved = [Answered(c) EXCEPT !.state = StateAfter[c.pending], !.session = TRUE]
    BY <2>4, <2>5 DEF Answered, ClientType
  <2> QED
    BY <2>2, <2>3, <2>6 DEF Answered, ClientOK, ClientType, ClientStates
<1>3. \/ Received(c, m) = c \/ Received(c, m) = answered
      \/ (c.pending # "None" /\ m.type = ResponseTo[c.pending] /\ Received(c, m) = moved)
  BY DEF Received, IsExpected
<1> QED
  BY <1>1, <1>2, <1>3

\* What onPacketReceived makes of the packets of an honest server.
LEMMA ReceivedOf ==
    ASSUME NEW c
    PROVE  /\ Received(c, Broadcast) = c
           /\ Received(c, Valid("Error")) = Answered(c)
           /\ c.pending \in Requests /\ c.state = StateFor[c.pending] =>
                Received(c, Valid(ResponseTo[c.pending]))
                  = [Answered(c) EXCEPT
                       !.state = StateAfter[c.pending],
                       !.session = @ \/ ResponseTo[c.pending] = "LoginRes"]
<1>1. "RoomBroadcast" \notin Responses /\ "Error" \notin Responses
  BY DEF Responses, Requests, ResponseTo
<1>2. Received(c, Broadcast) = c
  BY <1>1 DEF Received, Broadcast, Valid
<1>3. Received(c, Valid("Error")) = Answered(c)
  BY <1>1 DEF Received, Valid
<1>4. ASSUME c.pending \in Requests, c.state = StateFor[c.pending]
      PROVE  Received(c, Valid(ResponseTo[c.pending]))
               = [Answered(c) EXCEPT
                    !.state = StateAfter[c.pending],
                    !.session = @ \/ ResponseTo[c.pending] = "LoginRes"]
  <2>1. c.pending # "None" /\ ResponseTo[c.pending] \in Responses /\ ResponseTo[c.pending] # "Error"
    BY <1>4, Tables
  <2> QED
    BY <1>4, <2>1 DEF Received, Valid, IsExpected
<1> QED
  BY <1>2, <1>3, <1>4

\* The first packet of the stream is taken from it.
LEMMA TakesFirst ==
    ASSUME WireOK, toClient # <<>>, toClient' = Tail(toClient)
    PROVE  /\ Head(toClient) = toClient[1] /\ Head(toClient) \in Messages
           /\ Len(toClient) \in Nat /\ Len(toClient) > 0
           /\ toClient' \in Seq(Messages) /\ Len(toClient') = Len(toClient) - 1
           /\ DOMAIN toClient = 1..Len(toClient) /\ DOMAIN toClient' = 1..(Len(toClient) - 1)
           /\ \A i \in 1..(Len(toClient) - 1) : toClient'[i] = toClient[i + 1]
BY DEF WireOK

\* The streams of an honest server after a packet in a state where requests are
\* made.
LEMMA ReceivedStreams ==
    ASSUME ControllerInv, Streams, Honest, client.state \notin {"Disconnected", "Connecting"},
           toClient # <<>>, toClient' = Tail(toClient),
           client' = Received(client, Head(toClient)), UNCHANGED <<toServer, server>>
    PROVE  NothingAsked' \/ AskedLast' \/ \E k \in DOMAIN toClient' : AnsweredAt(k)'
<1> DEFINE n == Len(toClient)
<1>1. ClientOK(client) /\ WireOK
  BY CoherentIs DEF ControllerInv
<1>2. /\ Head(toClient) = toClient[1] /\ n \in Nat /\ n > 0
      /\ DOMAIN toClient = 1..n /\ DOMAIN toClient' = 1..(n - 1)
      /\ \A i \in 1..(n - 1) : toClient'[i] = toClient[i + 1]
  BY <1>1, TakesFirst
<1>3. CASE OnlyBroadcasts(DOMAIN toClient) /\ (NothingAsked \/ AskedLast)
  <2>1. Head(toClient) = Broadcast
    BY <1>2, <1>3 DEF OnlyBroadcasts
  <2>2. client' = client
    BY <2>1, ReceivedOf
  <2>3. OnlyBroadcasts(DOMAIN toClient)'
    BY <1>2, <1>3 DEF OnlyBroadcasts
  <2>4. CASE NothingAsked
    BY <2>2, <2>3, <2>4 DEF NothingAsked, OnlyChats
  <2>5. CASE AskedLast
    BY <2>2, <2>3, <2>5 DEF AskedLast, OnlyChats
  <2> QED
    BY <1>3, <2>4, <2>5
<1>4. ASSUME NEW k \in DOMAIN toClient, AnsweredAt(k)
      PROVE  NothingAsked' \/ \E j \in DOMAIN toClient' : AnsweredAt(j)'
  <2>1. CASE k = 1
    <3>1. OnlyBroadcasts(DOMAIN toClient)'
      BY <1>2, <1>4, <2>1 DEF AnsweredAt, OnlyBroadcasts
    <3>2. OnlyChats(Len(toServer))'
      BY <1>4 DEF AnsweredAt, OnlyChats
    <3>3. CASE toClient[k] = Valid("Error") /\ ServerState[server] = client.state
      <4>1. client' = Answered(client)
        BY <1>2, <2>1, <3>3, ReceivedOf
      <4>2. client'.pending = "None" /\ client'.state = client.state
        BY <1>1, <4>1 DEF Answered, ClientOK, ClientType
      <4> QED
        BY <3>1, <3>2, <3>3, <4>2 DEF NothingAsked
    <3>4. CASE /\ toClient[k] = Valid(ResponseTo[client.pending])
               /\ ServerState[server] = StateAfter[client.pending]
      <4>1. client.pending \in Requests /\ client.state = StateFor[client.pending]
        BY <1>1, <1>4 DEF AnsweredAt, ClientOK, ClientType
      <4>2. client' = [Answered(client) EXCEPT
                         !.state = StateAfter[client.pending],
                         !.session = @ \/ ResponseTo[client.pending] = "LoginRes"]
        <5>1. Received(client, Valid(ResponseTo[client.pending]))
                = [Answered(client) EXCEPT
                     !.state = StateAfter[client.pending],
                     !.session = @ \/ ResponseTo[client.pending] = "LoginRes"]
          BY <4>1, ReceivedOf
        <5> QED
          BY <1>2, <2>1, <3>4, <5>1
      <4>3. client'.pending = "None" /\ client'.state = StateAfter[client.pending]
        BY <1>1, <4>2 DEF Answered, ClientOK, ClientType
      <4> QED
        BY <3>1, <3>2, <3>4, <4>3 DEF NothingAsked
    <3> QED
      BY <1>4, <3>3, <3>4 DEF AnsweredAt
  <2>2. CASE k # 1
    <3>1. k \in 2..n /\ k - 1 \in 1..(n - 1) /\ (k - 1) + 1 = k
      BY <1>2, <1>4, <2>2
    <3>2. Head(toClient) = Broadcast
      BY <1>2, <1>4, <2>2 DEF AnsweredAt, OnlyBroadcasts
    <3>3. client' = client
      BY <3>2, ReceivedOf
    <3>4. toClient'[k - 1] = toClient[k]
      BY <1>2, <3>1
    <3>5. \A i \in (1..(n - 1)) \ {k - 1} : toClient'[i] = Broadcast
      <4> TAKE i \in (1..(n - 1)) \ {k - 1}
      <4>1. i + 1 \in (1..n) \ {k}
        BY <1>2, <3>1
      <4> QED
        BY <1>2, <1>4, <4>1 DEF AnsweredAt, OnlyBroadcasts
    <3>6. AnsweredAt(k - 1)'
      BY <1>2, <1>4, <3>3, <3>4, <3>5 DEF AnsweredAt, OnlyBroadcasts
    <3> QED
      BY <1>2, <3>1, <3>6
  <2> QED
    BY <2>1, <2>2
<1> QED
  BY <1>3, <1>4 DEF Streams, NothingAsked, AskedLast

\* onPacketReceived.
LEMMA PacketKeeps ==
    ASSUME ControllerInv, StreamInv, OnPacketReceived
    PROVE  ControllerInv' /\ StreamInv'
<1> DEFINE m == Head(toClient)
<1>1. ClientOK(client) /\ WireOK /\ SocketOK /\ LinkInv
  BY CoherentIs DEF ControllerInv
<1>2. socket \in {"Connected", "Closing"} /\ toClient # <<>> /\ client.state # "Disconnected"
  BY <1>1 DEF OnPacketReceived, SocketOK
<1>3. CASE FailNegotiation(client)
  <2>1. client.timer \in BOOLEAN /\ [client EXCEPT !.timer = client.timer] = client
    BY <1>1 DEF ClientOK, ClientType
  <2> QED
    BY <1>3, <2>1, FailNegotiationKeeps
<1>4. ASSUME toClient' = Tail(toClient), UNCHANGED <<linkVars, toServer, server>>,
             ClientOK(client'), client'.state # "Disconnected",
             Honest => Streams'
      PROVE  ControllerInv' /\ StreamInv'
  <2>1. toClient' \in Seq(Messages) /\ Len(toClient') <= Len(toClient) - 1 /\ Len(toClient) \in Nat
    BY <1>1, <1>2, <1>4, TakesFirst
  <2>2. Len(toClient') <= MaxInFlight
    BY <1>1, <2>1, ClientAssumption DEF WireOK
  <2>3. WireOK'
    BY <1>1, <1>4, <2>1, <2>2 DEF WireOK
  <2>4. SocketOK' /\ LinkInv'
    BY <1>1, <1>2, <1>4 DEF SocketOK, LinkInv, linkVars
  <2>5. StreamInv'
    BY <1>4 DEF StreamInv, Honest
  <2> QED
    BY <1>4, <2>3, <2>4, <2>5, CoherentNext DEF ControllerInv
<1>5. ASSUME client.state = "Connecting", Honest
      PROVE  server = "agreed" /\ toServer = <<>> /\ toClient = <<Valid("VersionRes")>>
  BY <1>2, <1>5 DEF StreamInv, Streams, Negotiates
<1>6. CASE /\ toClient' = Tail(toClient) /\ UNCHANGED <<linkVars, toServer, server>>
           /\ Ignores(client) /\ client' = client
  <2>1. client.state = "Connecting"
    BY <1>2, <1>6 DEF Ignores
  <2>2. ASSUME Honest PROVE Streams'
    <3>1. toClient' = <<>>
      BY <1>5, <1>6, <2>1, <2>2
    <3> QED
      BY <1>5, <1>6, <2>1, <2>2, <3>1 DEF Streams, Negotiates
  <2> QED
    BY <1>1, <1>4, <1>6, <2>1, <2>2
<1>7. CASE /\ toClient' = Tail(toClient) /\ UNCHANGED <<linkVars, toServer, server>>
           /\ client.negotiating
           /\ client' = [client EXCEPT !.timer = FALSE, !.negotiating = FALSE,
                                       !.state = "Connected"]
  <2>1. client.state = "Connecting" /\ client.pending = "None"
    BY <1>1, <1>7, Tables DEF ClientOK, ClientType
  <2>2. ClientOK(client') /\ client'.state = "Connected" /\ client'.pending = "None"
    BY <1>1, <1>7, <2>1 DEF ClientOK, ClientType, ClientStates
  <2>3. ASSUME Honest PROVE Streams'
    <3>1. toClient' = <<>> /\ toServer' = <<>> /\ server' = "agreed"
      <4>1. server = "agreed" /\ toServer = <<>> /\ toClient = <<Valid("VersionRes")>>
        BY <1>5, <2>1, <2>3
      <4>2. Tail(toClient) = <<>>
        BY <4>1
      <4> QED
        BY <1>7, <4>1, <4>2
    <3>2. NothingAsked'
      <4>1. OnlyChats(Len(toServer))'
        BY <3>1 DEF OnlyChats
      <4>2. OnlyBroadcasts(DOMAIN toClient)'
        BY <3>1 DEF OnlyBroadcasts
      <4>3. ServerState[server'] = client'.state
        BY <2>2, <3>1, SessionStates
      <4> QED
        BY <2>2, <4>1, <4>2, <4>3 DEF NothingAsked
    <3> QED
      BY <2>2, <3>2 DEF Streams
  <2> QED
    BY <1>4, <1>7, <2>2, <2>3
<1>8. CASE /\ toClient' = Tail(toClient) /\ UNCHANGED <<linkVars, toServer, server>>
           /\ ~Ignores(client) /\ ~client.negotiating
           /\ client' = Received(client, m)
  <2>1. client.state \notin {"Disconnected", "Connecting"}
    BY <1>8 DEF Ignores
  <2>2. m \in Messages
    BY <1>1, <1>2, <1>8, TakesFirst
  <2>3. ClientOK(client') /\ client'.state \notin {"Disconnected", "Connecting"}
    BY <1>1, <1>8, <2>1, <2>2, ReceivedCoheres
  <2>4. ASSUME Honest PROVE Streams'
    <3>1. NothingAsked' \/ AskedLast' \/ \E k \in DOMAIN toClient' : AnsweredAt(k)'
      BY <1>2, <1>8, <2>1, <2>4, ReceivedStreams DEF StreamInv
    <3> QED
      BY <2>3, <3>1 DEF Streams
  <2> QED
    BY <1>4, <1>8, <2>3, <2>4
<1> QED
  BY <1>3, <1>6, <1>7, <1>8 DEF OnPacketReceived

-----------------------------------------------------------------------------
\* A step of the server: the controller and its socket stay as they are, a
\* packet may be taken from one stream and one may be put in the other.
LEMMA ServerCoheres ==
    ASSUME ControllerInv, UNCHANGED <<client, linkVars>>,
           toServer' = toServer \/ (toServer # <<>> /\ toServer' = Tail(toServer)),
           toClient' = toClient
             \/ (Len(toClient) < MaxInFlight /\ \E m \in Messages : toClient' = Append(toClient, m)),
           server' \in DOMAIN ServerState \cup {"any"},
           socket \in {"Connected", "Closing"}
    PROVE  ControllerInv'
<1>1. ClientOK(client) /\ WireOK /\ SocketOK /\ LinkInv
  BY CoherentIs DEF ControllerInv
<1>2. toServer' \in Seq(Packets) /\ Len(toServer') <= MaxInFlight
  <2>1. CASE toServer' = toServer
    BY <1>1, <2>1 DEF WireOK
  <2>2. CASE toServer # <<>> /\ toServer' = Tail(toServer)
    <3>1. toServer' \in Seq(Packets) /\ Len(toServer') = Len(toServer) - 1 /\ Len(toServer) \in Nat
      BY <1>1, <2>2 DEF WireOK
    <3> QED
      BY <1>1, <3>1, ClientAssumption DEF WireOK
  <2> QED
    BY <2>1, <2>2
<1>3. toClient' \in Seq(Messages) /\ Len(toClient') <= MaxInFlight
  <2>1. CASE toClient' = toClient
    BY <1>1, <2>1 DEF WireOK
  <2>2. CASE Len(toClient) < MaxInFlight /\ \E m \in Messages : toClient' = Append(toClient, m)
    <3>1. PICK m \in Messages : toClient' = Append(toClient, m)
      BY <2>2
    <3>2. toClient' \in Seq(Messages) /\ Len(toClient') = Len(toClient) + 1 /\ Len(toClient) \in Nat
      BY <1>1, <3>1 DEF WireOK
    <3> QED
      BY <2>2, <3>2, ClientAssumption
  <2> QED
    BY <2>1, <2>2
<1>4. WireOK'
  BY <1>2, <1>3 DEF WireOK
<1>5. SocketOK' /\ LinkInv'
  BY <1>1 DEF SocketOK, LinkInv, linkVars
<1> QED
  BY <1>1, <1>4, <1>5, CoherentNext DEF ControllerInv

\* While there is something on its way, the socket is connected or closing.
LEMMA OnlyConnected ==
    ASSUME ControllerInv, toServer # <<>>
    PROVE  socket \in {"Connected", "Closing"} /\ client.state # "Disconnected"
BY CoherentIs DEF ControllerInv, SocketOK, LinkInv

\* A packet is put at the end of the stream to the client.
LEMMA PutsLast ==
    ASSUME WireOK, NEW m \in Messages, toClient' = Append(toClient, m)
    PROVE  /\ Len(toClient) \in Nat /\ Len(toClient') = Len(toClient) + 1
           /\ DOMAIN toClient = 1..Len(toClient) /\ DOMAIN toClient' = 1..(Len(toClient) + 1)
           /\ toClient'[Len(toClient) + 1] = m
           /\ \A i \in 1..Len(toClient) : toClient'[i] = toClient[i]
BY DEF WireOK

\* The first packet is taken from the stream to the server.
LEMMA ServerTakesFirst ==
    ASSUME WireOK, toServer # <<>>, toServer' = Tail(toServer)
    PROVE  /\ Head(toServer) = toServer[1] /\ Head(toServer) \in Packets
           /\ Len(toServer) \in Nat /\ Len(toServer) > 0
           /\ Len(toServer') = Len(toServer) - 1
           /\ \A i \in 1..(Len(toServer) - 1) : toServer'[i] = toServer[i + 1]
BY DEF WireOK

\* A broadcast of a member's session goes behind whatever is on its way.
LEMMA BroadcastStreams ==
    ASSUME WireOK, toClient' = Append(toClient, Broadcast), UNCHANGED <<client, server>>
    PROVE  /\ OnlyBroadcasts(DOMAIN toClient) => OnlyBroadcasts(DOMAIN toClient)'
           /\ UNCHANGED toServer =>
                \A k \in DOMAIN toClient : AnsweredAt(k) => k \in DOMAIN toClient' /\ AnsweredAt(k)'
<1> DEFINE n == Len(toClient)
<1>1. Broadcast \in Messages
  BY Tables DEF Broadcast, Valid, Messages
<1>2. /\ n \in Nat /\ DOMAIN toClient = 1..n /\ DOMAIN toClient' = 1..(n + 1)
      /\ toClient'[n + 1] = Broadcast
      /\ \A i \in 1..n : toClient'[i] = toClient[i]
  BY <1>1, PutsLast
<1>3. \A i \in 1..(n + 1) : i \in 1..n \/ i = n + 1
  BY <1>2
<1>4. OnlyBroadcasts(DOMAIN toClient) => OnlyBroadcasts(DOMAIN toClient)'
  BY <1>2, <1>3 DEF OnlyBroadcasts
<1>5. ASSUME NEW k \in DOMAIN toClient, AnsweredAt(k), UNCHANGED toServer
      PROVE  k \in DOMAIN toClient' /\ AnsweredAt(k)'
  <2>1. k \in DOMAIN toClient' /\ toClient'[k] = toClient[k]
    BY <1>2, <1>5
  <2>2. \A i \in DOMAIN toClient' \ {k} : toClient'[i] = Broadcast
    BY <1>2, <1>3, <1>5 DEF AnsweredAt, OnlyBroadcasts
  <2> QED
    BY <1>5, <2>1, <2>2 DEF AnsweredAt, OnlyBroadcasts
<1> QED
  BY <1>4, <1>5

\* A server that answers in a state where requests are made answers the chats in
\* front with broadcasts, and the request behind them with its response or an
\* error.
LEMMA AnswersStreams ==
    ASSUME ControllerInv, Streams, client.state \notin {"Disconnected", "Connecting"},
           ServerAnswers
    PROVE  NothingAsked' \/ AskedLast' \/ \E k \in DOMAIN toClient' : AnsweredAt(k)'
<1> DEFINE n == Len(toClient)
<1>1. ClientOK(client) /\ WireOK
  BY CoherentIs DEF ControllerInv
<1>2. toServer # <<>> /\ toServer' = Tail(toServer) /\ client' = client
  BY DEF ServerAnswers
<1>3. /\ Head(toServer) = toServer[1] /\ Len(toServer) \in Nat /\ Len(toServer) > 0
      /\ Len(toServer') = Len(toServer) - 1
      /\ \A i \in 1..(Len(toServer) - 1) : toServer'[i] = toServer[i + 1]
  BY <1>1, <1>2, ServerTakesFirst
<1>4. ASSUME Head(toServer) = "Chat"
      PROVE  toClient' = Append(toClient, Broadcast) /\ server' = server
  BY <1>4, Tables DEF ServerAnswers, Broadcast
<1>5. NothingAsked \/ AskedLast
  BY <1>2 DEF Streams, AnsweredAt
<1>6. CASE NothingAsked
  <2>1. Head(toServer) = "Chat"
    BY <1>3, <1>6 DEF NothingAsked, OnlyChats
  <2>2. OnlyBroadcasts(DOMAIN toClient)'
    BY <1>1, <1>2, <1>4, <1>6, <2>1, BroadcastStreams DEF NothingAsked
  <2>3. OnlyChats(Len(toServer))'
    BY <1>2, <1>3, <1>6 DEF NothingAsked, OnlyChats
  <2> QED
    BY <1>2, <1>4, <1>6, <2>1, <2>2, <2>3 DEF NothingAsked
<1>7. CASE AskedLast /\ Len(toServer) > 1
  <2>1. Head(toServer) = "Chat"
    BY <1>3, <1>7 DEF AskedLast, OnlyChats
  <2>2. OnlyBroadcasts(DOMAIN toClient)'
    BY <1>1, <1>2, <1>4, <1>7, <2>1, BroadcastStreams DEF AskedLast
  <2>3. OnlyChats(Len(toServer) - 1)'
    BY <1>2, <1>3, <1>7 DEF AskedLast, OnlyChats
  <2>4. toServer' # <<>> /\ toServer'[Len(toServer')] = client'.pending
    <3>1. Len(toServer) - 1 \in 1..(Len(toServer) - 1) /\ (Len(toServer) - 1) + 1 = Len(toServer)
      BY <1>3, <1>7
    <3>2. toServer'[Len(toServer')] = toServer[Len(toServer)]
      BY <1>3, <3>1
    <3>3. Len(toServer') # 0
      BY <1>3, <1>7
    <3> QED
      BY <1>2, <1>7, <3>2, <3>3 DEF AskedLast
  <2> QED
    BY <1>2, <1>4, <1>7, <2>1, <2>2, <2>3, <2>4 DEF AskedLast
<1>8. CASE AskedLast /\ ~(Len(toServer) > 1)
  <2>1. Head(toServer) = client.pending /\ toServer' = <<>>
    <3>1. Len(toServer) = 1
      BY <1>3, <1>8
    <3>2. Tail(toServer) = <<>>
      <4>1. Tail(toServer) \in Seq(Packets) /\ Len(Tail(toServer)) = 0
        BY <1>1, <1>2, <3>1 DEF WireOK
      <4> QED
        BY <4>1, NothingLeft
    <3> QED
      BY <1>2, <1>3, <1>8, <3>1, <3>2 DEF AskedLast
  <2>2. /\ client.pending \in Requests /\ client.pending \notin {"None", "Version", "Chat"}
        /\ client.state = StateFor[client.pending]
    BY <1>1, <1>8, Tables DEF AskedLast, ClientOK, ClientType
  <2>3. ASSUME NEW m \in Messages, NEW k, k = n + 1, toClient' = Append(toClient, m),
               \/ m = Valid("Error") /\ ServerState[server'] = client.state
               \/ m = Valid(ResponseTo[client.pending])
                    /\ ServerState[server'] = StateAfter[client.pending]
        PROVE  k \in DOMAIN toClient' /\ AnsweredAt(k)'
    <3>1. /\ n \in Nat /\ DOMAIN toClient = 1..n /\ DOMAIN toClient' = 1..(n + 1)
          /\ toClient'[k] = m
          /\ \A i \in 1..n : toClient'[i] = toClient[i]
      BY <1>1, <2>3, PutsLast
    <3>2. \A i \in DOMAIN toClient' \ {k} : toClient'[i] = Broadcast
      <4>1. \A i \in (1..(n + 1)) \ {k} : i \in 1..n
        BY <2>3, <3>1
      <4> QED
        BY <1>8, <3>1, <4>1 DEF AskedLast, OnlyBroadcasts
    <3>3. k \in DOMAIN toClient'
      BY <2>3, <3>1
    <3> QED
      BY <1>2, <2>1, <2>2, <2>3, <3>1, <3>2, <3>3 DEF AnsweredAt, OnlyBroadcasts
  <2>4. \/ /\ server' = ServerAfter[client.pending]
           /\ toClient' = Append(toClient, Valid(ResponseTo[client.pending]))
        \/ toClient' = Append(toClient, Valid("Error")) /\ server' = server
    BY <2>1, <2>2 DEF ServerAnswers
  <2>5. Valid("Error") \in Messages /\ Valid(ResponseTo[client.pending]) \in Messages
    BY <2>2, Tables DEF Valid, Messages
  <2>6. ServerState[ServerAfter[client.pending]] = StateAfter[client.pending]
    BY <2>2, Tables
  <2>7. ServerState[server] = client.state
    BY <1>8 DEF AskedLast
  <2>8. \A k : k = n + 1 => k \in DOMAIN toClient' /\ AnsweredAt(k)'
    BY <2>3, <2>4, <2>5, <2>6, <2>7
  <2> QED
    BY <2>8
<1> QED
  BY <1>5, <1>6, <1>7, <1>8

\* The answers of a server that keeps to the protocol.
LEMMA ServerAnswersKeeps ==
    ASSUME ControllerInv, StreamInv, ServerAnswers
    PROVE  ControllerInv' /\ StreamInv'
<1>1. ClientOK(client) /\ WireOK /\ SocketOK /\ LinkInv
  BY CoherentIs DEF ControllerInv
<1>2. /\ Honest /\ toServer # <<>> /\ Len(toClient) < MaxInFlight /\ toServer' = Tail(toServer)
      /\ UNCHANGED <<client, linkVars>>
  BY DEF ServerAnswers
<1>3. socket \in {"Connected", "Closing"} /\ client.state # "Disconnected"
  BY <1>2, OnlyConnected
<1>4. /\ server' \in DOMAIN ServerState \cup {"any"}
      /\ \E m \in Messages : toClient' = Append(toClient, m)
  <2> DEFINE p == Head(toServer)
  <2>1. \A t \in Types : Valid(t) \in Messages
    BY DEF Valid, Messages
  <2>2. CASE /\ p = "Version" /\ server = "new"
             /\ server' = "agreed" /\ toClient' = Append(toClient, Valid("VersionRes"))
    BY <2>1, <2>2, Tables, SessionStates
  <2>3. CASE /\ p = "Chat" /\ server = "member"
             /\ toClient' = Append(toClient, Valid("RoomBroadcast")) /\ UNCHANGED server
    BY <2>1, <2>3, Tables, SessionStates
  <2>4. CASE /\ p \in Requests /\ server' = ServerAfter[p]
             /\ toClient' = Append(toClient, Valid(ResponseTo[p]))
    <3>1. ResponseTo[p] \in Types /\ ServerAfter[p] \in {"user", "member"}
      BY <2>4, Tables
    <3> QED
      BY <2>1, <2>4, <3>1, SessionStates
  <2>5. CASE toClient' = Append(toClient, Valid("Error")) /\ UNCHANGED server
    BY <1>1, <2>1, <2>5, Tables DEF WireOK
  <2> QED
    BY <2>2, <2>3, <2>4, <2>5 DEF ServerAnswers
<1>5. ControllerInv'
  BY <1>2, <1>3, <1>4, ServerCoheres
<1>6. CASE client.state = "Connecting"
  <2>1. server = "new" /\ toServer = <<"Version">> /\ toClient = <<>>
    BY <1>2, <1>6 DEF StreamInv, Streams, Negotiates
  <2>2. Head(toServer) = "Version" /\ Tail(toServer) = <<>>
    BY <2>1
  <2>3. server' = "agreed" /\ toClient' = Append(toClient, Valid("VersionRes"))
    BY <2>2, Tables DEF ServerAnswers
  <2>4. toClient' = <<Valid("VersionRes")>>
    BY <2>1, <2>3
  <2> QED
    BY <1>2, <1>5, <1>6, <2>2, <2>3, <2>4 DEF StreamInv, Streams, Negotiates
<1>7. CASE client.state # "Connecting"
  <2>1. Streams
    BY <1>2 DEF StreamInv
  <2>2. NothingAsked' \/ AskedLast' \/ \E k \in DOMAIN toClient' : AnsweredAt(k)'
    BY <1>3, <1>7, <2>1, AnswersStreams
  <2> QED
    BY <1>2, <1>5, <1>7, <2>2 DEF StreamInv, Streams
<1> QED
  BY <1>6, <1>7

\* A broadcast of another member, or what any server sends.
LEMMA ServerSendsKeeps ==
    ASSUME ControllerInv, StreamInv, ServerSends
    PROVE  ControllerInv' /\ StreamInv'
<1>1. ClientOK(client) /\ WireOK /\ SocketOK /\ LinkInv
  BY CoherentIs DEF ControllerInv
<1>2. /\ socket \in {"Connected", "Closing"} /\ Len(toClient) < MaxInFlight
      /\ UNCHANGED <<client, linkVars, toServer, server>>
  BY DEF ServerSends
<1>3. \E m \in Messages : toClient' = Append(toClient, m)
  <2>1. \A t \in Types, v \in BOOLEAN : [type |-> t, valid |-> v] \in Messages
    BY DEF Messages
  <2>2. Valid("RoomBroadcast") \in Messages
    BY <2>1, Tables DEF Valid
  <2> QED
    BY <2>1, <2>2 DEF ServerSends
<1>4. ControllerInv'
  BY <1>1, <1>2, <1>3, ServerCoheres DEF WireOK
<1>5. ASSUME Honest PROVE Streams'
  <2>1. toClient' = Append(toClient, Broadcast) /\ server = "member"
    BY <1>5 DEF ServerSends, Broadcast
  <2>2. Streams /\ client.state # "Connecting"
    BY <1>5, <2>1 DEF StreamInv, Streams, Negotiates
  <2>3. CASE client.state = "Disconnected"
    BY <1>2, <2>3 DEF Streams
  <2>4. CASE client.state # "Disconnected"
    <3>1. CASE NothingAsked
      BY <1>1, <1>2, <2>1, <2>2, <2>4, <3>1, BroadcastStreams DEF NothingAsked, OnlyChats, Streams
    <3>2. CASE AskedLast
      BY <1>1, <1>2, <2>1, <2>2, <2>4, <3>2, BroadcastStreams DEF AskedLast, OnlyChats, Streams
    <3>3. ASSUME NEW k \in DOMAIN toClient, AnsweredAt(k) PROVE Streams'
      <4>1. k \in DOMAIN toClient' /\ AnsweredAt(k)'
        BY <1>1, <1>2, <2>1, <3>3, BroadcastStreams
      <4> QED
        BY <1>2, <2>2, <2>4, <4>1 DEF Streams
    <3> QED
      BY <2>2, <2>4, <3>1, <3>2, <3>3 DEF Streams
  <2> QED
    BY <2>3, <2>4
<1> QED
  BY <1>2, <1>4, <1>5 DEF StreamInv, Honest

\* A server that answers nothing.
LEMMA ServerDropsKeeps ==
    ASSUME ControllerInv, StreamInv, ServerDrops
    PROVE  ControllerInv' /\ StreamInv'
<1>1. WireOK
  BY CoherentIs DEF ControllerInv
<1>2. ControllerInv'
  BY <1>1, OnlyConnected, ServerCoheres DEF ServerDrops, WireOK
<1> QED
  BY <1>2 DEF ServerDrops, StreamInv, Honest

-----------------------------------------------------------------------------
\* The two parts of the invariant are inductive.
LEMMA ControllerInductive ==
    ASSUME ControllerInv, StreamInv, [Next]_vars
    PROVE  ControllerInv' /\ StreamInv'
<1>1. ClientOK(client) /\ reported \in BOOLEAN /\ wantClose \in BOOLEAN
  BY CoherentIs DEF ControllerInv, SocketOK
<1>2. CASE ConnectToServer
  BY <1>2, ConnectKeeps
<1>3. CASE DisconnectFromServer
  BY <1>1, <1>3, DisconnectKeeps DEF DisconnectFromServer
<1>4. CASE SendChat
  BY <1>4, ChatKeeps
<1>5. ASSUME NEW r \in Requests, Request(r)
      PROVE  ControllerInv' /\ StreamInv'
  BY <1>5, RequestKeeps
<1>6. CASE Connected
  BY <1>6, ConnectedKeeps
<1>7. CASE SocketFails
  BY <1>1, <1>7, FailKeeps DEF SocketFails, ClientOK
<1>8. CASE SocketCloses
  BY <1>1, <1>8, CloseKeeps DEF SocketCloses, ClientOK
<1>9. CASE TimerFires
  <2>1. client.negotiating
    BY <1>1, <1>9 DEF TimerFires, ClientOK
  <2> QED
    BY <1>9, <2>1, FailNegotiationKeeps DEF TimerFires
<1>10. CASE OnPacketReceived
  BY <1>10, PacketKeeps
<1>11. CASE ServerAnswers
  BY <1>11, ServerAnswersKeeps
<1>12. CASE ServerSends
  BY <1>12, ServerSendsKeeps
<1>13. CASE ServerDrops
  BY <1>13, ServerDropsKeeps
<1>14. CASE UNCHANGED vars
  BY <1>1, <1>14, ControllerStep DEF vars, linkVars
<1> QED
  BY <1>2, <1>3, <1>4, <1>5, <1>6, <1>7, <1>8, <1>9, <1>10, <1>11, <1>12, <1>13, <1>14 DEF Next

\* What the streams hold at the first place of the way to the server.
LEMMA FirstIsLegal ==
    ASSUME ControllerInv, Streams, Honest
    PROVE  LegalRequests
<1>1. ClientOK(client) /\ WireOK
  BY CoherentIs DEF ControllerInv
<1> SUFFICES ASSUME toServer # <<>>
             PROVE  \/ Head(toServer) = "Version" /\ server = "new"
                    \/ Head(toServer) = "Chat" /\ server = "member"
                    \/ /\ Head(toServer) \in Requests
                       /\ ServerState[server] = StateFor[Head(toServer)]
  BY Tables DEF LegalRequests
<1>2. /\ Head(toServer) = toServer[1] /\ Len(toServer) \in Nat /\ Len(toServer) > 0
      /\ client.state # "Disconnected"
  BY <1>1, OnlyConnected DEF WireOK
<1>3. CASE client.state = "Connecting"
  BY <1>2, <1>3 DEF Streams, Negotiates
<1>4. CASE client.state # "Connecting"
  <2>1. NothingAsked \/ AskedLast
    BY <1>2, <1>4 DEF Streams, AnsweredAt
  <2>2. ServerState[server] = client.state
    BY <2>1 DEF NothingAsked, AskedLast
  <2>3. client.state = "InRoom" => server = "member"
    BY <1>1, <2>2, SessionStates DEF WireOK, Honest
  <2>4. CASE NothingAsked
    BY <1>2, <2>3, <2>4 DEF NothingAsked, OnlyChats
  <2>5. CASE AskedLast /\ Len(toServer) > 1
    BY <1>2, <2>3, <2>5 DEF AskedLast, OnlyChats
  <2>6. CASE AskedLast /\ Len(toServer) = 1
    <3>1. Head(toServer) = client.pending
      BY <1>2, <2>6 DEF AskedLast
    <3>2. client.pending \in Requests /\ client.state = StateFor[client.pending]
      BY <1>1, <2>6 DEF AskedLast, ClientOK, ClientType
    <3> QED
      BY <2>2, <3>1, <3>2
  <2>7. Len(toServer) > 1 \/ Len(toServer) = 1
    <3>1. \A k \in Nat : k > 0 => (k > 1 \/ k = 1)
      OBVIOUS
    <3> QED
      BY <1>2, <3>1
  <2> QED
    BY <2>1, <2>4, <2>5, <2>6, <2>7
<1> QED
  BY <1>3, <1>4

\* A request is pending exactly while it or its answer is on its way.
LEMMA OneUnderWay ==
    ASSUME ControllerInv, Streams
    PROVE  PendingIsOutstanding
<1>1. ClientOK(client) /\ WireOK
  BY CoherentIs DEF ControllerInv
<1> SUFFICES ASSUME client.state \notin {"Disconnected", "Connecting"}
             PROVE  Cardinality(RequestsUnderWay) + Cardinality(AnswersUnderWay)
                      = IF client.pending = "None" THEN 0 ELSE 1
  BY DEF PendingIsOutstanding
<1>2. /\ Len(toServer) \in Nat /\ DOMAIN toServer = 1..Len(toServer)
      /\ Len(toClient) \in Nat /\ DOMAIN toClient = 1..Len(toClient)
  BY <1>1 DEF WireOK
<1>3. "Chat" \notin Requests /\ Broadcast.type \notin Responses \cup {"Error"}
  BY Tables DEF Broadcast, Valid
<1>4. Cardinality({}) = 0 /\ \A k : Cardinality({k}) = 1
  BY FS_EmptySet, FS_Singleton
<1>5. 0 + 0 = 0 /\ 1 + 0 = 1 /\ 0 + 1 = 1
  OBVIOUS
<1>6. OnlyBroadcasts(DOMAIN toClient) => AnswersUnderWay = {}
  BY <1>3 DEF OnlyBroadcasts, AnswersUnderWay
<1>7. CASE NothingAsked
  <2>1. RequestsUnderWay = {}
    BY <1>2, <1>3, <1>7 DEF NothingAsked, OnlyChats, RequestsUnderWay
  <2> QED
    BY <1>4, <1>5, <1>6, <1>7, <2>1 DEF NothingAsked
<1>8. CASE AskedLast
  <2>1. client.pending \in Requests
    BY <1>1, <1>8 DEF AskedLast, ClientOK, ClientType
  <2>2. Len(toServer) \in DOMAIN toServer
    BY <1>1, <1>2, <1>8 DEF AskedLast, WireOK
  <2>3. \A i \in DOMAIN toServer : i # Len(toServer) => i \in 1..(Len(toServer) - 1)
    BY <1>2
  <2>4. RequestsUnderWay = {Len(toServer)}
    BY <1>3, <1>8, <2>1, <2>2, <2>3 DEF AskedLast, OnlyChats, RequestsUnderWay
  <2> QED
    BY <1>4, <1>5, <1>6, <1>8, <2>4 DEF AskedLast
<1>9. ASSUME NEW k \in DOMAIN toClient, AnsweredAt(k)
      PROVE  Cardinality(RequestsUnderWay) + Cardinality(AnswersUnderWay)
               = IF client.pending = "None" THEN 0 ELSE 1
  <2>1. client.pending \in Requests /\ client.pending # "None"
    BY <1>1, <1>9 DEF AnsweredAt, ClientOK, ClientType
  <2>2. toClient[k].type \in Responses \cup {"Error"}
    BY <1>9, <2>1, Tables DEF AnsweredAt, Valid
  <2>3. AnswersUnderWay = {k}
    BY <1>3, <1>9, <2>2 DEF AnsweredAt, OnlyBroadcasts, AnswersUnderWay
  <2>4. RequestsUnderWay = {}
    BY <1>9 DEF AnsweredAt, RequestsUnderWay
  <2> QED
    BY <1>4, <1>5, <2>1, <2>3, <2>4
<1> QED
  BY <1>7, <1>8, <1>9 DEF Streams

\* With both streams empty no request is pending and the states are the same.
LEMMA EmptyAgrees ==
    ASSUME ControllerInv, Streams
    PROVE  StatesAgree
BY DEF StatesAgree, Streams, NothingAsked, AskedLast, AnsweredAt

\* The controller starts disconnected, with its socket unconnected.
LEMMA ControllerStarts ==
    ASSUME Init
    PROVE  ControllerInv /\ StreamInv
<1>1. ClientOK(Idle) /\ Idle.state = "Disconnected"
  BY DEF ClientOK, Idle, ClientType, ClientStates, Requests
<1>2. ClientOK(client) /\ client.state = "Disconnected"
  BY <1>1 DEF Init
<1>3. WireOK
  <2>1. toServer \in Seq(Packets) /\ Len(toServer) = 0
    BY DEF Init
  <2>2. toClient \in Seq(Messages) /\ Len(toClient) = 0
    BY DEF Init
  <2>3. server \in DOMAIN ServerState \cup {"any"}
    BY SessionStates DEF Init
  <2>4. 0 <= MaxInFlight
    BY ClientAssumption
  <2> QED
    BY <2>1, <2>2, <2>3, <2>4 DEF WireOK
<1>4. SocketOK
  BY <1>2 DEF Init, SocketOK
<1> QED
  BY <1>2, <1>3, <1>4, CoherentIs DEF Init, ControllerInv, LinkInv, StreamInv, Streams

\* Coherent holds in every state, for any server and however the connection
\* ends: the timer, the pending request, the session id and the socket never
\* contradict the state that ClientController shows.
THEOREM AlwaysCoherent == Spec => []Coherent
<1>1. Init => ControllerInv /\ StreamInv
  BY ControllerStarts
<1>2. ControllerInv /\ StreamInv /\ [Next]_vars => (ControllerInv /\ StreamInv)'
  BY ControllerInductive
<1>3. ControllerInv => Coherent
  BY DEF ControllerInv
<1> QED
  BY <1>1, <1>2, <1>3, PTL DEF Spec

\* InStep holds in every state: with a server that keeps to the protocol, every
\* packet of ClientController reaches the session in a state that allows it, a
\* request is pending exactly while it or its answer is on its way, and the two
\* agree on the room when nothing is.
THEOREM AlwaysInStep == Spec => []InStep
<1>1. Init => ControllerInv /\ StreamInv
  BY ControllerStarts
<1>2. ControllerInv /\ StreamInv /\ [Next]_vars => (ControllerInv /\ StreamInv)'
  BY ControllerInductive
<1>3. ControllerInv /\ StreamInv => InStep
  BY FirstIsLegal, OneUnderWay, EmptyAgrees DEF InStep, StreamInv
<1> QED
  BY <1>1, <1>2, <1>3, PTL DEF Spec

=============================================================================
