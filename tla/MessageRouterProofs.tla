------------------------ MODULE MessageRouterProofs -------------------------
(***************************************************************************)
(* RoomService: the membership of rooms is consistent for any number of      *)
(* sessions and rooms.  The four invariants are inductive only together:     *)
(* that the id of a new room is unused follows from TypeOK (open ids are     *)
(* below the counter) and OpenIffOccupied (ids that are not open have no      *)
(* members), that nobody is left behind in it from MembershipConsistent.     *)
(*                                                                          *)
(* MessageRouter: it uses RoomService as RoomService allows: every step of   *)
(* RouterSpec is a step of RoomService's Spec or leaves it alone, so that    *)
(* what is shown of RoomService holds while the router runs.                 *)
(* And nothing is left of a session after its Disconnected, for any number   *)
(* of sessions: the invariant that makes it inductive says that a login is   *)
(* under way exactly during the deferred turn, so that a Disconnected, which  *)
(* needs a turn, never meets one.                                           *)
(*                                                                          *)
(* Nothing is sent before VersionRes: turns of other sessions broadcast only *)
(* to users, who have been sent something (Served), and what a turn has yet  *)
(* to publish keeps to that (Emitted in VersionInv).  And every request has   *)
(* at most one answer, exactly one where the budgets of an event refuse       *)
(* nothing: what was sent and what the turn still owes add up to what was     *)
(* asked (AnswerInv).                                                       *)
(*                                                                          *)
(* What a session is told about rooms is true: only its own turn moves it,   *)
(* so what that turn has yet to publish stays true until it ends, and what   *)
(* was delivered is true of everything nothing is pending about (RoomInv),   *)
(* as far as the budgets let it be sent.  Whatever they refuse, nobody hears  *)
(* of an entry before the session that entered: a session that is served is   *)
(* not cut, so its answer is not dropped and the JOINs come behind it          *)
(* (JoinInv).                                                               *)
(***************************************************************************)
EXTENDS MessageRouter, FiniteSetTheorems, TLAPS

-----------------------------------------------------------------------------
\* RoomService.

IInv ==
    /\ TypeOK
    /\ MembershipConsistent
    /\ OpenIffOccupied
    /\ PositionsOfMembers

\* The initial lobby is empty and satisfies the invariant.
LEMMA InitInv == Init => IInv
  BY RoomAssumption
  DEF Init, IInv, TypeOK, MembershipConsistent, OpenIffOccupied,
      PositionsOfMembers, RoomIds, NoRoom

\* Room::leave followed by eraseIfEmpty, with the entry of room_by_session_
\* erased, keeps rooms and members consistent.
LEMMA DepartInv ==
  ASSUME IInv, NEW s \in Sessions, roomOf[s] \in open, Depart(s, roomOf[s]),
         roomOf' = [roomOf EXCEPT ![s] = NoRoom],
         users' \in {users, users \ {s}}, nextRoomId' = nextRoomId
  PROVE  IInv'
  <1> DEFINE r0 == roomOf[s]
  <1>1. r0 \in RoomIds /\ r0 # NoRoom /\ s \in members[r0]
    BY DEF IInv, TypeOK, MembershipConsistent, RoomIds, NoRoom
  <1>2. TypeOK'
    BY <1>1 DEF IInv, TypeOK, Depart
  <1>3. MembershipConsistent'
    BY <1>1 DEF IInv, TypeOK, MembershipConsistent, Depart, RoomIds, NoRoom
  <1>4. OpenIffOccupied'
    BY <1>1 DEF IInv, TypeOK, OpenIffOccupied, Depart
  <1>5. PositionsOfMembers'
    BY <1>1 DEF IInv, TypeOK, PositionsOfMembers, Depart
  <1> QED BY <1>2, <1>3, <1>4, <1>5 DEF IInv

\* Every operation of the service preserves the invariant.
LEMMA NextInv == IInv /\ [Next]_vars => IInv'
  <1> SUFFICES ASSUME IInv, [Next]_vars PROVE IInv'
    OBVIOUS
  <1>1. CASE UNCHANGED vars
    BY <1>1 DEF IInv, TypeOK, MembershipConsistent, OpenIffOccupied,
                PositionsOfMembers, vars
  <1>2. ASSUME NEW s \in Sessions, AttachUser(s) PROVE IInv'
    BY <1>2 DEF IInv, TypeOK, MembershipConsistent, OpenIffOccupied,
                PositionsOfMembers, AttachUser
  <1>3. ASSUME NEW s \in Sessions, CreateRoom(s) PROVE IInv'
    <2> DEFINE n == nextRoomId
    <2>1. n \in RoomIds /\ n \notin open /\ members[n] = {} /\ n # NoRoom
      BY <1>3, RoomAssumption
      DEF CreateRoom, IInv, TypeOK, OpenIffOccupied, RoomIds, NoRoom
    <2>2. \A t \in Sessions : roomOf[t] # n
      BY <2>1 DEF IInv, MembershipConsistent
    <2>3. TypeOK'
      BY <1>3, <2>1, RoomAssumption
      DEF IInv, TypeOK, CreateRoom, OpenRoom, RoomIds
    <2>4. MembershipConsistent'
      BY <1>3, <2>1, <2>2
      DEF IInv, TypeOK, MembershipConsistent, CreateRoom, OpenRoom, InLobby,
          RoomIds, NoRoom
    <2>5. OpenIffOccupied'
      BY <1>3, <2>1 DEF IInv, TypeOK, OpenIffOccupied, CreateRoom, OpenRoom
    <2>6. PositionsOfMembers'
      BY <1>3, <2>1 DEF IInv, TypeOK, PositionsOfMembers, CreateRoom, OpenRoom
    <2> QED BY <2>3, <2>4, <2>5, <2>6 DEF IInv
  <1>4. ASSUME NEW s \in Sessions, NEW r \in RoomIds, JoinRoom(s, r)
        PROVE  IInv'
    <2>1. TypeOK'
      BY <1>4 DEF IInv, TypeOK, JoinRoom
    <2>2. MembershipConsistent'
      BY <1>4
      DEF IInv, TypeOK, MembershipConsistent, JoinRoom, InLobby, RoomIds, NoRoom
    <2>3. OpenIffOccupied'
      BY <1>4 DEF IInv, TypeOK, OpenIffOccupied, JoinRoom
    <2>4. PositionsOfMembers'
      BY <1>4 DEF IInv, TypeOK, PositionsOfMembers, JoinRoom
    <2> QED BY <2>1, <2>2, <2>3, <2>4 DEF IInv
  <1>5. ASSUME NEW s \in Sessions, InRoom(s) PROVE roomOf[s] \in open
    BY <1>5 DEF InRoom, IInv, TypeOK, MembershipConsistent, OpenIffOccupied
  <1>6. ASSUME NEW s \in Sessions, LeaveRoom(s) PROVE IInv'
    BY <1>5, <1>6, DepartInv DEF LeaveRoom
  <1>7. ASSUME NEW s \in Sessions, Chat(s) PROVE IInv'
    BY <1>7 DEF IInv, TypeOK, MembershipConsistent, OpenIffOccupied,
                PositionsOfMembers, Chat
  <1>8. ASSUME NEW s \in Sessions, UpdatePosition(s) PROVE IInv'
    BY <1>8 DEF IInv, TypeOK, MembershipConsistent, OpenIffOccupied,
                PositionsOfMembers, UpdatePosition
  <1>9. ASSUME NEW s \in Sessions, Disconnect(s) PROVE IInv'
    <2>1. CASE roomOf[s] \in open
      BY <1>9, <2>1, DepartInv DEF Disconnect
    <2>2. CASE roomOf[s] \notin open
      <3>1. roomOf[s] = NoRoom
        BY <1>5, <1>9, <2>2 DEF Disconnect, InRoom
      <3>2. roomOf' = roomOf
        BY <1>9, <3>1 DEF Disconnect, IInv, TypeOK
      <3> QED
        BY <1>9, <2>2, <3>1, <3>2
        DEF Disconnect, IInv, TypeOK, MembershipConsistent, OpenIffOccupied,
            PositionsOfMembers
    <2> QED BY <2>1, <2>2
  <1> QED
    BY <1>1, <1>2, <1>3, <1>4, <1>6, <1>7, <1>8, <1>9 DEF Next

THEOREM Invariance == Spec => []IInv
  BY InitInv, NextInv, PTL DEF Spec

\* room_by_session_ and the members of the rooms agree, in every reachable
\* state, for any number of sessions and rooms.
THEOREM MembershipAlwaysConsistent == Spec => []MembershipConsistent
  BY Invariance, PTL DEF IInv

\* The lobby lists exactly the rooms that have a member, so leaveRoom, chat and
\* updatePosition never find a session's room missing.
THEOREM OpenAlwaysOccupied == Spec => []OpenIffOccupied
  BY Invariance, PTL DEF IInv

\* Positions are kept for members only.
THEOREM PositionsAlwaysOfMembers == Spec => []PositionsOfMembers
  BY Invariance, PTL DEF IInv

\* Rooms, members and positions agree, for any number of sessions and rooms.
THEOREM RoomsAlwaysConsistent == Spec => []RoomsConsistent
  BY Invariance, PTL DEF IInv, RoomsConsistent

\* No step opens a room under an id that was handed out before.
THEOREM RoomIdsNeverReused == Spec => RoomIdsNotReused
  <1> DEFINE A == /\ nextRoomId' >= nextRoomId
                  /\ \A r \in open' \ open : r >= nextRoomId
  <1>1. ASSUME IInv, [Next]_vars PROVE A \/ UNCHANGED vars
    <2>1. nextRoomId \in Nat
      BY <1>1, RoomAssumption DEF IInv, TypeOK
    <2>2. ASSUME NEW s \in Sessions, CreateRoom(s) PROVE A
      BY <2>1, <2>2 DEF CreateRoom, OpenRoom
    <2>3. ASSUME nextRoomId' = nextRoomId, open' \subseteq open PROVE A
      BY <2>1, <2>3
    <2>4. ASSUME NEW s \in Sessions, LeaveRoom(s) \/ Disconnect(s) PROVE A
      BY <2>3, <2>4 DEF LeaveRoom, Disconnect, Depart
    <2>5. ASSUME NEW s \in Sessions, NEW r \in RoomIds,
                 \/ AttachUser(s) \/ JoinRoom(s, r) \/ Chat(s)
                 \/ UpdatePosition(s)
          PROVE  A
      BY <2>3, <2>5 DEF AttachUser, JoinRoom, Chat, UpdatePosition
    <2> QED
      BY <1>1, <2>2, <2>4, <2>5, RoomAssumption DEF Next, RoomIds
  <1> QED
    BY <1>1, Invariance, PTL DEF Spec, RoomIdsNotReused

\* A broadcast reaches nobody outside the room of its actor.
THEOREM BroadcastAlwaysInRoom == Spec => BroadcastStaysInRoom
  <1> DEFINE A == result' # result =>
                    \A t \in result'.recipients :
                        \/ t = result'.actor
                        \/ t \in users' /\ roomOf'[t] = result'.room
  <1>1. ASSUME IInv, [Next]_vars PROVE A \/ UNCHANGED vars
    <2>1. ASSUME NEW s \in Sessions, NEW r \in open,
                 NEW t \in members[r], t # s
          PROVE  t \in Sessions /\ t \in users /\ roomOf[t] = r
      BY <1>1, <2>1 DEF IInv, TypeOK, MembershipConsistent, RoomIds, NoRoom
    <2>2. ASSUME NEW s \in Sessions, NEW r \in RoomIds,
                 CreateRoom(s) \/ JoinRoom(s, r)
          PROVE  A
      BY <1>1, <2>1, <2>2
      DEF CreateRoom, OpenRoom, JoinRoom, Reply, IInv, TypeOK
    <2>3. ASSUME NEW s \in Sessions,
                 AttachUser(s) \/ Chat(s) \/ UpdatePosition(s)
          PROVE  A
      <3>1. AttachUser(s) => A
        BY DEF AttachUser
      <3>2. ASSUME Chat(s) \/ UpdatePosition(s) PROVE A
        <4>1. /\ result' = [actor |-> s, room |-> roomOf[s],
                            recipients |-> members[roomOf[s]]]
              /\ roomOf[s] \in open /\ users' = users /\ roomOf' = roomOf
          BY <3>2 DEF Chat, UpdatePosition, Reply
        <4> QED BY <2>1, <4>1
      <3> QED BY <2>3, <3>1, <3>2
    <2>4. ASSUME NEW s \in Sessions, LeaveRoom(s) \/ Disconnect(s)
          PROVE  A
      <3>1. \A t \in Sessions : t # s => (roomOf'[t] = roomOf[t]
                                          /\ (t \in users => t \in users'))
        BY <1>1, <2>4 DEF LeaveRoom, Disconnect, IInv, TypeOK
      <3>2. CASE roomOf[s] \in open
        <4>1. result' = [actor |-> s, room |-> roomOf[s],
                         recipients |-> members[roomOf[s]]]
          BY <2>4, <3>2 DEF LeaveRoom, Disconnect, Reply
        <4> QED BY <2>1, <3>1, <3>2, <4>1
      <3>3. CASE roomOf[s] \notin open
        BY <2>4, <3>3 DEF LeaveRoom, Disconnect, Reply
      <3> QED BY <3>2, <3>3
    <2> QED
      BY <1>1, <2>2, <2>3, <2>4, RoomAssumption DEF Next, RoomIds
  <1> QED
    BY <1>1, Invariance, PTL DEF Spec, BroadcastStaysInRoom

-----------------------------------------------------------------------------
\* MessageRouter.

\* What a request does to RoomService is one of its operations or nothing.
LEMMA RequestIsCall ==
  ASSUME NEW s \in Sessions, NEW p, Request(s, p)
  PROVE  [Next]_vars
  <1>1. CASE CreateRoomReq(s)
    BY <1>1 DEF CreateRoomReq, Refused, Next
  <1>2. CASE JoinRoomReq(s)
    BY <1>2 DEF JoinRoomReq, Refused, Next
  <1>3. CASE LeaveRoomReq(s)
    BY <1>3 DEF LeaveRoomReq, Refused, Next
  <1>4. CASE ChatReq(s)
    BY <1>4 DEF ChatReq, Refused, Next
  <1>5. CASE PositionUpdate(s)
    BY <1>5 DEF PositionUpdate, Refused, Next
  <1>6. CASE Ping(s) \/ Refused(s)
    BY <1>6 DEF Ping, Refused
  <1> QED
    BY <1>1, <1>2, <1>3, <1>4, <1>5, <1>6 DEF Request

\* Every step of the router is a step of RoomService or leaves it alone.
LEMMA StepIsCall == [RouterNext]_routerVars => [Next]_vars
  <1> SUFFICES ASSUME [RouterNext]_routerVars PROVE [Next]_vars
    OBVIOUS
  <1>1. CASE UNCHANGED routerVars
    BY <1>1 DEF routerVars
  <1>2. CASE RouterNext
    <2>1. PICK s \in Sessions :
            \/ \E p \in setup.packets : Negotiate(s, p) \/ Request(s, p)
            \/ LoginReq(s) \/ TakeBack(s) \/ LoginCallback(s)
            \/ Disconnected(s) \/ Leaving(s) \/ Publish(s)
      BY <1>2 DEF RouterNext
    <2>2. ASSUME NEW p, Negotiate(s, p) PROVE [Next]_vars
      BY <2>2 DEF Negotiate
    <2>3. CASE LoginReq(s) \/ TakeBack(s) \/ Disconnected(s) \/ Publish(s)
      BY <2>3 DEF LoginReq, TakeBack, Disconnected, Publish
    <2>4. CASE LoginCallback(s)
      BY <2>4 DEF LoginCallback, Refused, Next
    <2>5. CASE Leaving(s)
      BY <2>5 DEF Leaving, Next
    <2> QED
      BY <2>1, <2>2, <2>3, <2>4, <2>5, RequestIsCall
  <1> QED
    BY <1>1, <1>2

\* The router implements RoomService's specification: handlePacket and the
\* Disconnected event call it as a client of RoomService may.
THEOREM RouterUsesRooms == RouterSpec => Spec
  <1>1. RouterInit => Init
    BY DEF RouterInit
  <1> QED
    BY <1>1, StepIsCall, PTL DEF RouterSpec, Spec

\* While the router runs, rooms, members and positions agree (RoomService.cpp
\* under any interleaving of handlePacket and disconnects).
THEOREM RouterRoomsConsistent == RouterSpec => []RoomsConsistent
  BY RouterUsesRooms, RoomsAlwaysConsistent, PTL

\* While the router runs, a broadcast reaches the members of the actor's room
\* only.
THEOREM RouterBroadcasts == RouterSpec => BroadcastStaysInRoom
  BY RouterUsesRooms, BroadcastAlwaysInRoom, PTL

-----------------------------------------------------------------------------
Stages == {"idle", "publish", "refused", "deferred", "leaving"}

RouterTypeOK ==
    /\ version \in [Sessions -> {"none", "agreed", "failed"}]
    /\ stage \in [Sessions -> Stages]
    /\ ended \in [Sessions -> BOOLEAN]
    /\ logins \subseteq Sessions

\* A login is under way in a deferred turn only, ...
LoginsDeferred == \A s \in logins : stage[s] = "deferred"

\* ... after Disconnected no turn is left but its own, ...
EndedTurn ==
    \A s \in Sessions : ended[s] =>
      stage[s] \in {"leaving", "publish", "idle"} /\ version[s] = "none"

\* ... which is the only one that leaves, ...
LeavingEnded == \A s \in Sessions : stage[s] = "leaving" => ended[s]

\* ... and once RoomService::disconnect has returned the user is gone.
EndedUser ==
    \A s \in Sessions : ended[s] /\ stage[s] # "leaving" => s \notin users

GhostInv ==
    IInv /\ RouterTypeOK /\ LoginsDeferred /\ EndedTurn /\ LeavingEnded /\ EndedUser

\* The router starts without sessions.
LEMMA GhostInit == RouterInit => GhostInv
  BY InitInv
  DEF RouterInit, Init, GhostInv, RouterTypeOK, Stages, LoginsDeferred, EndedTurn,
      LeavingEnded, EndedUser

\* A RoomService operation of a session whose Disconnected has not been taken
\* adds no other user.
LEMMA RequestKeepsUsers ==
  ASSUME NEW s \in Sessions, NEW p, Request(s, p)
  PROVE  users' = users
  <1>1. CASE CreateRoomReq(s)
    BY <1>1 DEF CreateRoomReq, Refused, vars, CreateRoom, OpenRoom
  <1>2. CASE JoinRoomReq(s)
    BY <1>2 DEF JoinRoomReq, Refused, vars, JoinRoom
  <1>3. CASE LeaveRoomReq(s)
    BY <1>3 DEF LeaveRoomReq, Refused, vars, LeaveRoom
  <1>4. CASE ChatReq(s)
    BY <1>4 DEF ChatReq, Refused, vars, Chat
  <1>5. CASE PositionUpdate(s)
    BY <1>5 DEF PositionUpdate, Refused, vars, UpdatePosition
  <1>6. CASE Ping(s) \/ Refused(s)
    BY <1>6 DEF Ping, Refused, vars
  <1> QED
    BY <1>1, <1>2, <1>3, <1>4, <1>5, <1>6 DEF Request

\* Every step keeps the invariant; RoomService's part is NextInv's.
LEMMA GhostNext == GhostInv /\ [RouterNext]_routerVars => GhostInv'
  <1> SUFFICES ASSUME GhostInv, [RouterNext]_routerVars PROVE GhostInv'
    OBVIOUS
  <1>0. IInv'
    BY StepIsCall, NextInv DEF GhostInv
  <1> DEFINE Turns == /\ RouterTypeOK' /\ LoginsDeferred' /\ EndedTurn' /\ LeavingEnded'
                      /\ EndedUser'
  <1>1. CASE UNCHANGED routerVars
    BY <1>0, <1>1
    DEF GhostInv, routerVars, turnVars, vars, RouterTypeOK, LoginsDeferred, EndedTurn,
        LeavingEnded, EndedUser
  <1>2. CASE RouterNext
    <2>1. PICK s \in Sessions :
            \/ \E p \in setup.packets : Negotiate(s, p) \/ Request(s, p)
            \/ LoginReq(s) \/ TakeBack(s) \/ LoginCallback(s)
            \/ Disconnected(s) \/ Leaving(s) \/ Publish(s)
      BY <1>2 DEF RouterNext
    <2> USE DEF GhostInv, RouterTypeOK, Stages, LoginsDeferred, EndedTurn, LeavingEnded,
                EndedUser
    <2>2. ASSUME NEW p, Negotiate(s, p) PROVE Turns
      BY <2>2 DEF Negotiate, TakesPacket, MayStart, vars
    <2>3. ASSUME NEW p, Request(s, p) PROVE Turns
      <3>1. users' = users
        BY <2>3, RequestKeepsUsers
      <3> QED
        BY <2>3, <3>1 DEF Request, TakesPacket, MayStart
    <2>4. ASSUME LoginReq(s) PROVE Turns
      BY <2>4 DEF LoginReq, TakesPacket, MayStart, vars
    <2>5. ASSUME TakeBack(s) PROVE Turns
      BY <2>5 DEF TakeBack, vars
    <2>6. ASSUME LoginCallback(s) PROVE Turns
      <3>1. users' \subseteq users \cup {s}
        BY <2>6 DEF LoginCallback, AttachUser, Refused, vars
      <3>2. ~ended[s]
        BY <2>6 DEF LoginCallback
      <3> QED
        BY <2>6, <3>1, <3>2 DEF LoginCallback
    <2>7. ASSUME Disconnected(s) PROVE Turns
      BY <2>7 DEF Disconnected, MayStart, vars
    <2>8. ASSUME Leaving(s) PROVE Turns
      <3>1. users' = users \ {s}
        BY <2>8 DEF Leaving, Disconnect, vars
      <3> QED
        BY <2>8, <3>1 DEF Leaving
    <2>9. ASSUME Publish(s) PROVE Turns
      BY <2>9 DEF Publish, vars
    <2> QED
      BY <1>0, <2>1, <2>2, <2>3, <2>4, <2>5, <2>6, <2>7, <2>8, <2>9
  <1> QED
    BY <1>1, <1>2

\* Nothing is kept for a session after its Disconnected, whenever the repository
\* answers its login (MessageRouter.cpp:219), for any number of sessions.
THEOREM NeverGhosts == RouterSpec => []NoGhosts
  <1>1. GhostInv => NoGhosts
    BY DEF GhostInv, IInv, NoGhosts, LoginsDeferred, EndedTurn, EndedUser, RouterTypeOK,
           MembershipConsistent, TypeOK, NoRoom
  <1> QED
    BY <1>1, GhostInit, GhostNext, PTL DEF RouterSpec

-----------------------------------------------------------------------------
\* What the first message of a session rests on.

Kinds == Disconnecting \cup
         {"VersionRes", "Error", "CreateRoomRes", "JoinRoomRes", "LeaveRoomRes",
          "LoginRes", "Pong", "JOIN", "LEAVE", "CHAT", "POSITION"}
Messages == [to : Sessions, kind : Kinds, from : Sessions, room : Nat]

MessagesOK ==
    /\ setup \in Setups
    /\ out \in [Sessions -> Seq(Messages)]
    /\ delivered \in [Sessions -> Seq(Messages)]

\* A turn has something to publish at its end only.
Quiet == \A s \in Sessions : stage[s] # "publish" => out[s] = <<>>

\* Who has logged in, or is about to, has been sent something.
Served == \A s \in users \cup logins : delivered[s] # <<>>

\* Before its first packet a session has been sent nothing.
NotYet(s) == version[s] = "none" /\ ~ended[s] => stage[s] = "idle" /\ delivered[s] = <<>>

\* A session with a version has been sent it, or its turn is about to do so or
\* to take it back.
VersionSent(s) ==
    version[s] = "agreed" =>
      \/ delivered[s] # <<>> \/ stage[s] = "refused"
      \/ out[s] = <<Answer(s, "VersionRes")>>

\* A message of the turn of s that does not begin or end a connection goes to a
\* session that has been sent something.
MayGo(s, m) ==
    /\ m.from = s
    /\ m.kind \in Disconnecting => m.to = s
    /\ m.kind = "VersionRes" => m.to = s /\ delivered[s] = <<>> /\ ~ended[s]
    /\ m.kind \notin Disconnecting \cup {"VersionRes"} => delivered[m.to] # <<>>

Emitted(s) ==
    \A i \in DOMAIN out[s] :
      MayGo(s, out[s][i]) /\ (out[s][i].kind = "VersionRes" => Len(out[s]) = 1)

VersionInv ==
    /\ MessagesOK /\ Quiet /\ Served
    /\ \A s \in Sessions : NotYet(s) /\ VersionSent(s) /\ Emitted(s)
    /\ VersionFirst

\* The kinds of the messages the router sends.
LEMMA AnswerIs ==
  ASSUME NEW s \in Sessions, NEW t \in Sessions, NEW kind \in Kinds, NEW r \in Nat
  PROVE  /\ Message(t, kind, s, r) \in Messages /\ Answer(s, kind) \in Messages
         /\ Answer(s, kind).to = s /\ Answer(s, kind).kind = kind /\ Answer(s, kind).from = s
         /\ Message(t, kind, s, r).to = t /\ Message(t, kind, s, r).kind = kind
         /\ Message(t, kind, s, r).from = s
  BY DEF Message, Answer, Messages

\* The recipients of a set, each once, in some order.
LEMMA OrderIs ==
  ASSUME NEW S \in SUBSET Sessions, NEW order \in SetToSeqs(S)
  PROVE  /\ order \in Seq(S) /\ Len(order) = Cardinality(S) /\ Cardinality(S) \in Nat
         /\ Cardinality(S) <= Cardinality(Sessions) /\ Cardinality(Sessions) \in Nat
         /\ \A i, j \in DOMAIN order : i # j => order[i] # order[j]
         /\ \A t \in S : \E i \in DOMAIN order : order[i] = t
  <1>1. IsFiniteSet(S) /\ IsFiniteSet(Sessions)
    BY RouterAssumption, FS_Subset
  <1>2. /\ Cardinality(S) \in Nat /\ Cardinality(Sessions) \in Nat
        /\ Cardinality(S) <= Cardinality(Sessions)
    BY <1>1, FS_CardinalityType, FS_Subset
  <1>3. /\ order \in [1..Cardinality(S) -> S]
        /\ \A i, j \in 1..Cardinality(S) : i # j => order[i] # order[j]
    BY DEF SetToSeqs
  <1>4. ASSUME NEW t \in S, \A i \in 1..Cardinality(S) : order[i] # t
        PROVE  FALSE
    <2>1. order \in [1..Cardinality(S) -> S \ {t}]
      BY <1>3, <1>4
    <2>2. IsFiniteSet(S \ {t}) /\ Cardinality(S \ {t}) = Cardinality(S) - 1
      BY <1>1, FS_RemoveElement
    <2>3. IsFiniteSet(1..Cardinality(S)) /\ Cardinality(1..Cardinality(S)) = Cardinality(S)
      <3>1. 1 \in Int /\ Cardinality(S) \in Int /\ (1 > Cardinality(S) => Cardinality(S) = 0)
        BY <1>2
      <3>2. Cardinality(S) - 1 + 1 = Cardinality(S)
        BY <1>2
      <3> QED
        BY <3>1, <3>2, FS_Interval
    <2>4. Cardinality(S \ {t}) < Cardinality(1..Cardinality(S))
      BY <1>2, <2>2, <2>3
    <2> DEFINE D == 1..Cardinality(S)
               T == S \ {t}
    <2>5. /\ order \in [D -> T] /\ IsFiniteSet(D) /\ IsFiniteSet(T)
          /\ Cardinality(T) < Cardinality(D)
      BY <2>1, <2>2, <2>3, <2>4
    <2>6. \A i, j \in D : i # j => order[i] # order[j]
      BY <1>3
    <2> HIDE DEF D, T
    <2>7. \E i, j \in D : i # j /\ order[i] = order[j]
      BY <2>5, FS_PigeonHole
    <2> QED
      BY <2>6, <2>7
  <1>5. order \in Seq(S) /\ Len(order) = Cardinality(S) /\ DOMAIN order = 1..Cardinality(S)
    BY <1>2, <1>3
  <1> QED
    BY <1>2, <1>3, <1>4, <1>5

\* What context.emit takes of the messages of an event: the first ones, as far as
\* the budget goes, and fewer only where they may not fit.
Taken(b, s, all) ==
    /\ b \in Nat /\ b <= Len(all)
    /\ Fits => b = IF Len(all) < setup.budget THEN Len(all) ELSE setup.budget
    /\ out' = [out EXCEPT ![s] = SubSeq(all, 1, b)]

LEMMA EmitTakes ==
  ASSUME MessagesOK, NEW s, NEW all, Len(all) \in Nat, Emit(s, all)
  PROVE  \E b : Taken(b, s, all)
  <1>1. setup.budget \in Nat
    BY RouterAssumption DEF MessagesOK
  <1> DEFINE most == IF Len(all) < setup.budget THEN Len(all) ELSE setup.budget
  <1>2. PICK b \in Budgeted(Len(all)) : out' = [out EXCEPT ![s] = SubSeq(all, 1, b)]
    BY DEF Emit
  <1>3. most \in Nat /\ most <= Len(all)
    BY <1>1
  <1>4. Budgeted(Len(all)) = IF setup.mayNotFit THEN 0..most ELSE {most}
    BY DEF Budgeted
  <1> HIDE DEF most
  <1>5. b \in Nat /\ b <= Len(all) /\ (Fits => b = most)
    BY <1>2, <1>3, <1>4 DEF Fits
  <1> QED
    BY <1>2, <1>5 DEF Taken, most

\* A single message is taken or, where it may not fit, is not.
LEMMA EmitOne ==
  ASSUME MessagesOK, NEW s, NEW m, Emit(s, <<m>>)
  PROVE  \/ out' = [out EXCEPT ![s] = <<m>>]
         \/ ~Fits /\ out' = [out EXCEPT ![s] = <<>>]
  <1>1. Len(<<m>>) = 1 /\ setup.budget \in Nat \ {0}
    BY RouterAssumption DEF MessagesOK
  <1>2. PICK b : Taken(b, s, <<m>>)
    BY <1>1, EmitTakes
  <1>3. b \in {0, 1} /\ (Fits => b = 1)
    BY <1>1, <1>2 DEF Taken
  <1>4. SubSeq(<<m>>, 1, 1) = <<m>>
    <2>1. <<m>> \in Seq({m}) /\ <<m>>[1] = m
      OBVIOUS
    <2>2. \A q \in Seq({m}) : Len(q) = 1 => SubSeq(q, 1, 1) = q
      OBVIOUS
    <2> QED
      BY <1>1, <2>1, <2>2
  <1>5. SubSeq(<<m>>, 1, 0) = <<>>
    OBVIOUS
  <1> QED
    BY <1>2, <1>3, <1>4, <1>5 DEF Taken

BroadcastIs(S, kind, s, r, first) ==
    /\ out' \in [Sessions -> Seq(Messages)]
    /\ \A t \in Sessions \ {s} : out'[t] = out[t]
    /\ \A i \in DOMAIN out'[s] :
         \/ i \in DOMAIN first /\ out'[s][i] = first[i]
         \/ /\ i \notin DOMAIN first
            /\ \E t \in S : out'[s][i] = Message(t, kind, s, r)
    /\ \A i, j \in DOMAIN out'[s] \ DOMAIN first :
         out'[s][i].to = out'[s][j].to => i = j
    /\ Fits /\ 1 \in DOMAIN first => 1 \in DOMAIN out'[s]
    /\ Roomy /\ first = <<>> => \A t \in S : \E i \in DOMAIN out'[s] : out'[s][i].to = t

\* What the loop over recipients emits: what came before it, then a message for
\* each of them, up to the budget.
LEMMA ToEachIs ==
  ASSUME MessagesOK, NEW S \in SUBSET Sessions, NEW kind \in Kinds, NEW s \in Sessions,
         NEW r \in Nat, NEW first \in Seq(Messages), ToEach(S, kind, s, r, first)
  PROVE  BroadcastIs(S, kind, s, r, first)
  <1>1. PICK order \in SetToSeqs(S) :
          Emit(s, first \o [i \in DOMAIN order |-> Message(order[i], kind, s, r)])
    BY DEF ToEach
  <1>2. order \in Seq(S) /\ Len(order) \in Nat
    BY OrderIs
  <1> DEFINE rest == [i \in DOMAIN order |-> Message(order[i], kind, s, r)]
             all == first \o rest
             n == Len(all)
  <1>3. \A i \in DOMAIN order : order[i] \in S /\ rest[i] = Message(order[i], kind, s, r)
                                /\ rest[i] \in Messages
    BY <1>2, AnswerIs
  <1>4. rest \in Seq(Messages) /\ Len(rest) = Len(order) /\ DOMAIN rest = DOMAIN order
    BY <1>2, <1>3
  <1>5. all \in Seq(Messages) /\ n = Len(first) + Len(rest) /\ n \in Nat
    BY <1>4
  <1>6. PICK b : Taken(b, s, all)
    BY <1>1, <1>5, EmitTakes
  <1>7. /\ b \in Nat /\ b <= n
        /\ Fits => b = IF n < setup.budget THEN n ELSE setup.budget
        /\ SubSeq(all, 1, b) \in Seq(Messages) /\ Len(SubSeq(all, 1, b)) = b
        /\ \A i \in 1..b : SubSeq(all, 1, b)[i] = all[i]
    <2>1. b \in Nat /\ b <= Len(all) /\ all \in Seq(Messages)
      BY <1>5, <1>6 DEF Taken
    <2> HIDE DEF all
    <2>2. /\ SubSeq(all, 1, b) \in Seq(Messages) /\ Len(SubSeq(all, 1, b)) = b
          /\ \A i \in 1..b : SubSeq(all, 1, b)[i] = all[i]
      BY SMTT(40), <2>1
    <2> QED
      BY <1>6, <2>1, <2>2 DEF Taken
  <1>8. ASSUME NEW i \in 1..b
        PROVE  \/ i \in DOMAIN first /\ all[i] = first[i]
               \/ i \notin DOMAIN first /\ \E t \in S : all[i] = Message(t, kind, s, r)
    <2>1. CASE i <= Len(first)
      BY <1>4, <1>5, <1>7, <2>1
    <2>2. CASE i > Len(first)
      <3>1. i - Len(first) \in DOMAIN order /\ all[i] = rest[i - Len(first)]
        BY <1>2, <1>4, <1>5, <1>7, <2>2
      <3>2. order[i - Len(first)] \in S
                /\ all[i] = Message(order[i - Len(first)], kind, s, r)
        BY <1>3, <3>1
      <3>3. i \notin DOMAIN first
        BY <2>2
      <3> QED
        BY <3>2, <3>3
    <2> QED
      BY SMTT(40), <2>1, <2>2, <1>7
  <1>9. out' = [out EXCEPT ![s] = SubSeq(all, 1, b)]
    BY <1>6 DEF Taken
  <1>10. out'[s] = SubSeq(all, 1, b) /\ \A t \in Sessions \ {s} : out'[t] = out[t]
    BY <1>9 DEF MessagesOK
  <1>11. out' \in [Sessions -> Seq(Messages)]
    BY <1>7, <1>9 DEF MessagesOK
  <1>12. DOMAIN out'[s] = 1..b
    BY <1>7, <1>10
  <1>13. ASSUME NEW i \in (1..b) \ DOMAIN first, NEW j \in (1..b) \ DOMAIN first,
                all[i].to = all[j].to
         PROVE  i = j
    <2>1. /\ i > Len(first) /\ j > Len(first)
          /\ i - Len(first) \in DOMAIN order /\ j - Len(first) \in DOMAIN order
      BY <1>2, <1>4, <1>5, <1>7
    <2>2. all[i] = rest[i - Len(first)] /\ all[j] = rest[j - Len(first)]
      BY <1>4, <1>5, <1>7, <2>1
    <2>3. /\ order[i - Len(first)] \in Sessions /\ order[j - Len(first)] \in Sessions
          /\ all[i] = Message(order[i - Len(first)], kind, s, r)
          /\ all[j] = Message(order[j - Len(first)], kind, s, r)
      BY <1>3, <2>1, <2>2
    <2>4. order[i - Len(first)] = order[j - Len(first)]
      <3>1. \A x : Message(x, kind, s, r).to = x
        BY DEF Message
      <3>2. all[i].to = order[i - Len(first)] /\ all[j].to = order[j - Len(first)]
        BY <2>3, <3>1
      <3> QED
        BY <1>13, <3>2
    <2>5. i - Len(first) = j - Len(first)
      BY <2>1, <2>4, OrderIs
    <2> QED
      BY <2>5, <1>7
  <1>14. Fits /\ 1 \in DOMAIN first => 1 \in 1..b
    <2>1. setup.budget \in Nat \ {0}
      BY RouterAssumption DEF MessagesOK
    <2>2. 1 \in DOMAIN first => Len(first) >= 1
      OBVIOUS
    <2>3. Len(first) >= 1 => n >= 1
      BY <1>4, <1>5
    <2> QED
      BY <1>5, <1>7, <2>1, <2>2, <2>3
  <1>15. ASSUME Roomy, first = <<>>, NEW t \in S
         PROVE  \E i \in 1..b : all[i].to = t
    <2>1. PICK i \in DOMAIN order : order[i] = t
      BY OrderIs
    <2>2. Len(first) = 0 /\ n = Len(order)
      BY <1>4, <1>5, <1>15
    <2>3. Len(order) <= setup.budget
      <3>1. /\ Len(order) <= Cardinality(Sessions) /\ Cardinality(Sessions) \in Nat
        BY OrderIs
      <3>2. setup.budget \in Nat /\ setup.budget >= Cardinality(Sessions)
        BY <1>15, RouterAssumption DEF MessagesOK, Roomy
      <3> QED
        BY <1>2, <3>1, <3>2
    <2>4. setup.budget \in Nat
      BY RouterAssumption DEF MessagesOK
    <2>5. b = Len(order)
      <3>1. b = IF n < setup.budget THEN n ELSE setup.budget
        BY <1>7, <1>15 DEF Roomy
      <3> HIDE DEF n
      <3> QED
        BY <1>2, <2>2, <2>3, <2>4, <3>1
    <2>6. i \in 1..b /\ all[i] = rest[i]
      BY <1>2, <1>4, <1>5, <2>1, <2>2, <2>5
    <2>7. rest[i] = Message(t, kind, s, r) /\ t \in Sessions
      BY <1>3, <2>1
    <2>8. all[i].to = t
      <3>1. \A x : Message(x, kind, s, r).to = x
        BY DEF Message
      <3> QED
        BY <2>6, <2>7, <3>1
    <2> QED
      BY <2>6, <2>8
  <1> HIDE DEF all
  <1>16. \A i \in 1..b : out'[s][i] = all[i]
    BY <1>7, <1>10
  <1>17. \A i \in DOMAIN out'[s] :
           \/ i \in DOMAIN first /\ out'[s][i] = first[i]
           \/ i \notin DOMAIN first /\ \E t \in S : out'[s][i] = Message(t, kind, s, r)
    BY <1>8, <1>12, <1>16
  <1>18. \A i, j \in DOMAIN out'[s] \ DOMAIN first :
           out'[s][i].to = out'[s][j].to => i = j
    BY <1>12, <1>13, <1>16
  <1>19. Fits /\ 1 \in DOMAIN first => 1 \in DOMAIN out'[s]
    BY <1>12, <1>14
  <1>20. Roomy /\ first = <<>> => \A t \in S : \E i \in DOMAIN out'[s] : out'[s][i].to = t
    BY <1>12, <1>15, <1>16
  <1> QED
    BY <1>10, <1>11, <1>17, <1>18, <1>19, <1>20 DEF BroadcastIs

\* Whom an operation of RoomService names is a user.
LEMMA RecipientsAreUsers ==
  ASSUME IInv, NEW s \in Sessions
  PROVE  /\ CreateRoom(s) => result'.room \in Nat
         /\ \A r \in RoomIds : JoinRoom(s, r) => result'.recipients \subseteq users /\ s \in result'.recipients
         /\ LeaveRoom(s) => result'.recipients \subseteq users /\ roomOf[s] \in Nat
         /\ Chat(s) \/ UpdatePosition(s) =>
              result'.recipients \subseteq users /\ s \in result'.recipients /\ roomOf[s] \in Nat
         /\ Disconnect(s) => result'.recipients \subseteq users /\ result'.room \in Nat
  <1>1. ASSUME NEW r \in RoomIds PROVE members[r] \subseteq users
    BY DEF IInv, TypeOK, MembershipConsistent, RoomIds, NoRoom
  <1>2. RoomIds \subseteq Nat /\ open \subseteq RoomIds /\ roomOf[s] \in RoomIds \cup {NoRoom}
        /\ NoRoom \in Nat /\ nextRoomId \in Nat
    BY RoomAssumption DEF IInv, TypeOK, RoomIds, NoRoom
  <1>3. roomOf[s] # NoRoom => roomOf[s] \in open /\ s \in members[roomOf[s]]
    BY <1>2 DEF IInv, MembershipConsistent, OpenIffOccupied
  <1>4. CreateRoom(s) => result'.room \in Nat
    BY <1>2 DEF CreateRoom, OpenRoom, Reply
  <1>5. \A r \in RoomIds : JoinRoom(s, r) => result'.recipients \subseteq users /\ s \in result'.recipients
    BY <1>1, <1>2 DEF JoinRoom, InLobby, Reply
  <1>6. LeaveRoom(s) => result'.recipients \subseteq users /\ roomOf[s] \in Nat
    <2> SUFFICES ASSUME LeaveRoom(s)
                 PROVE  result'.recipients \subseteq users /\ roomOf[s] \in Nat
      OBVIOUS
    <2>1. roomOf[s] \in open
      BY <1>3 DEF LeaveRoom, InRoom
    <2>2. result'.recipients = members[roomOf[s]]
      BY <2>1 DEF LeaveRoom, Reply
    <2> QED
      BY <1>1, <1>2, <2>1, <2>2
  <1>7. Chat(s) \/ UpdatePosition(s) =>
              result'.recipients \subseteq users /\ s \in result'.recipients /\ roomOf[s] \in Nat
    <2> SUFFICES ASSUME Chat(s) \/ UpdatePosition(s)
                 PROVE  result'.recipients \subseteq users /\ s \in result'.recipients /\ roomOf[s] \in Nat
      OBVIOUS
    <2>1. roomOf[s] \in open /\ roomOf[s] # NoRoom /\ result'.recipients = members[roomOf[s]]
      BY DEF Chat, UpdatePosition, InRoom, Reply
    <2> QED
      BY <1>1, <1>2, <1>3, <2>1
  <1>8. Disconnect(s) => result'.recipients \subseteq users /\ result'.room \in Nat
    <2> SUFFICES ASSUME Disconnect(s)
                 PROVE  result'.recipients \subseteq users /\ result'.room \in Nat
      OBVIOUS
    <2>1. CASE roomOf[s] \in open
      <3>1. result'.recipients = members[roomOf[s]] /\ result'.room = roomOf[s]
        BY <2>1 DEF Disconnect, Reply
      <3> QED
        BY <1>1, <1>2, <2>1, <3>1
    <2>2. CASE roomOf[s] \notin open
      <3>1. result'.recipients = {} /\ result'.room = NoRoom
        BY <2>2 DEF Disconnect, Reply
      <3> QED
        BY <1>2, <3>1
    <2> QED
      BY <2>1, <2>2
  <1> QED
    BY <1>4, <1>5, <1>6, <1>7, <1>8

\* The messages of a turn that are neither the first nor the last of a session.
Ordinary(s, m) ==
    /\ m.from = s /\ m.kind \notin Disconnecting \cup {"VersionRes"}
    /\ m.to = s \/ m.to \in users

OutOrdinary(s) ==
    /\ out' \in [Sessions -> Seq(Messages)]
    /\ \A t \in Sessions \ {s} : out'[t] = out[t]
    /\ \A i \in DOMAIN out'[s] : Ordinary(s, out'[s][i])

\* A single answer is ordinary, ...
LEMMA OneOrdinary ==
  ASSUME MessagesOK, NEW s \in Sessions, NEW kind \in Kinds, NEW r \in Nat,
         kind \notin Disconnecting \cup {"VersionRes"}, Emit(s, <<Message(s, kind, s, r)>>)
  PROVE  OutOrdinary(s)
  <1> DEFINE m == Message(s, kind, s, r)
  <1>1. m \in Messages /\ m.from = s /\ m.kind = kind /\ m.to = s
    BY AnswerIs
  <1> HIDE DEF m
  <1>2. <<m>> \in Seq(Messages) /\ DOMAIN <<m>> = {1} /\ <<m>>[1] = m
    BY <1>1
  <1>3. out' = [out EXCEPT ![s] = <<m>>] \/ out' = [out EXCEPT ![s] = <<>>]
    BY EmitOne DEF m
  <1>4. <<>> \in Seq(Messages) /\ DOMAIN <<>> = {}
    OBVIOUS
  <1>5. /\ out' \in [Sessions -> Seq(Messages)] /\ \A t \in Sessions \ {s} : out'[t] = out[t]
        /\ out'[s] \in {<<m>>, <<>>}
    BY <1>2, <1>3, <1>4 DEF MessagesOK
  <1>6. \A i \in DOMAIN out'[s] : out'[s][i] = m
    BY <1>2, <1>4, <1>5
  <1> QED
    BY <1>1, <1>5, <1>6 DEF OutOrdinary, Ordinary

\* ... so is an error, ...
LEMMA RefusedOrdinary ==
  ASSUME MessagesOK, NEW s \in Sessions, Refused(s)
  PROVE  OutOrdinary(s)
  <1>1. "Error" \in Kinds /\ "Error" \notin Disconnecting \cup {"VersionRes"} /\ 0 \in Nat
    BY DEF Kinds, Disconnecting
  <1> QED
    BY <1>1, OneOrdinary DEF Refused, Answer

\* ... and a broadcast, with or without an answer before it.
LEMMA EachOrdinary ==
  ASSUME MessagesOK, IInv, NEW s \in Sessions, NEW S \in SUBSET users,
         NEW kind \in Kinds, kind \notin Disconnecting \cup {"VersionRes"}, NEW r \in Nat,
         NEW first \in Seq(Messages), \A i \in DOMAIN first : Ordinary(s, first[i]),
         ToEach(S, kind, s, r, first)
  PROVE  OutOrdinary(s)
  <1>1. S \in SUBSET Sessions
    BY DEF IInv, TypeOK
  <1>2. BroadcastIs(S, kind, s, r, first)
    BY <1>1, ToEachIs
  <1>3. \A t \in S : Ordinary(s, Message(t, kind, s, r))
    BY <1>1, AnswerIs DEF Ordinary
  <1> QED
    BY <1>2, <1>3 DEF OutOrdinary, BroadcastIs

\* A sequence of one answer.
LEMMA FirstOrdinary ==
  ASSUME NEW s \in Sessions, NEW kind \in Kinds, NEW r \in Nat,
         kind \notin Disconnecting \cup {"VersionRes"}
  PROVE  /\ <<Message(s, kind, s, r)>> \in Seq(Messages)
         /\ \A i \in DOMAIN <<Message(s, kind, s, r)>> :
              Ordinary(s, <<Message(s, kind, s, r)>>[i])
  <1> DEFINE m == Message(s, kind, s, r)
  <1>1. m \in Messages /\ m.from = s /\ m.kind = kind /\ m.to = s
    BY AnswerIs
  <1>2. Ordinary(s, m)
    BY <1>1 DEF Ordinary
  <1> HIDE DEF m
  <1>3. <<m>> \in Seq(Messages) /\ \A i \in DOMAIN <<m>> : <<m>>[i] = m
    BY <1>1
  <1>4. <<m>> \in Seq(Messages) /\ \A i \in DOMAIN <<m>> : Ordinary(s, <<m>>[i])
    BY <1>2, <1>3
  <1> QED
    BY <1>4 DEF m

\* Every request is answered with ordinary messages.
LEMMA RequestOrdinary ==
  ASSUME MessagesOK, IInv, NEW s \in Sessions, NEW p, Request(s, p)
  PROVE  OutOrdinary(s)
  <1>1. /\ {"Error", "CreateRoomRes", "JoinRoomRes", "LeaveRoomRes", "LoginRes", "Pong", "JOIN",
            "LEAVE", "CHAT", "POSITION"} \subseteq Kinds
        /\ \A k \in {"Error", "CreateRoomRes", "JoinRoomRes", "LeaveRoomRes", "LoginRes", "Pong",
                     "JOIN", "LEAVE", "CHAT", "POSITION"} :
             k \notin Disconnecting \cup {"VersionRes"}
        /\ 0 \in Nat /\ RoomIds \subseteq Nat
    BY RoomAssumption DEF Kinds, Disconnecting, RoomIds
  <1>2. <<>> \in Seq(Messages) /\ \A i \in DOMAIN <<>> : Ordinary(s, <<>>[i])
    OBVIOUS
  <1>3. CASE Refused(s)
    BY <1>3, RefusedOrdinary
  <1>4. CASE CreateRoomReq(s)
    <2>1. CASE CreateRoom(s) /\ Emit(s, <<Message(s, "CreateRoomRes", s, result'.room)>>)
      <3>1. result'.room \in Nat
        BY <2>1, RecipientsAreUsers
      <3> QED
        BY <1>1, <2>1, <3>1, OneOrdinary
    <2> QED
      BY <1>3, <1>4, <2>1 DEF CreateRoomReq
  <1>5. CASE JoinRoomReq(s)
    <2>1. ASSUME NEW r \in RoomIds, JoinRoom(s, r),
                 ToEach(result'.recipients \ {s}, "JOIN", s, r, <<Message(s, "JoinRoomRes", s, r)>>)
          PROVE  OutOrdinary(s)
      <3>1. result'.recipients \ {s} \in SUBSET users
        BY <2>1, RecipientsAreUsers
      <3>2. /\ <<Message(s, "JoinRoomRes", s, r)>> \in Seq(Messages)
            /\ \A i \in DOMAIN <<Message(s, "JoinRoomRes", s, r)>> :
                 Ordinary(s, <<Message(s, "JoinRoomRes", s, r)>>[i])
        BY <1>1, FirstOrdinary
      <3> QED
        BY <1>1, <2>1, <3>1, <3>2, EachOrdinary
    <2> QED
      BY <1>3, <1>5, <2>1 DEF JoinRoomReq
  <1>6. CASE LeaveRoomReq(s)
    <2>1. CASE LeaveRoom(s) /\ ToEach(result'.recipients \ {s}, "LEAVE", s, roomOf[s],
                 <<Message(s, "LeaveRoomRes", s, roomOf[s])>>)
      <3>1. result'.recipients \ {s} \in SUBSET users /\ roomOf[s] \in Nat
        BY <2>1, RecipientsAreUsers
      <3>2. /\ <<Message(s, "LeaveRoomRes", s, roomOf[s])>> \in Seq(Messages)
            /\ \A i \in DOMAIN <<Message(s, "LeaveRoomRes", s, roomOf[s])>> :
                 Ordinary(s, <<Message(s, "LeaveRoomRes", s, roomOf[s])>>[i])
        BY <1>1, <3>1, FirstOrdinary
      <3> QED
        BY <1>1, <2>1, <3>1, <3>2, EachOrdinary
    <2> QED
      BY <1>3, <1>6, <2>1 DEF LeaveRoomReq
  <1>7. CASE ChatReq(s)
    <2>1. CASE Chat(s) /\ ToEach(result'.recipients, "CHAT", s, roomOf[s], <<>>)
      <3>1. result'.recipients \in SUBSET users /\ roomOf[s] \in Nat
        BY <2>1, RecipientsAreUsers
      <3> QED
        BY <1>1, <1>2, <2>1, <3>1, EachOrdinary
    <2> QED
      BY <1>3, <1>7, <2>1 DEF ChatReq
  <1>8. CASE PositionUpdate(s)
    <2>1. CASE UpdatePosition(s) /\ ToEach(result'.recipients, "POSITION", s, roomOf[s], <<>>)
      <3>1. result'.recipients \in SUBSET users /\ roomOf[s] \in Nat
        BY <2>1, RecipientsAreUsers
      <3> QED
        BY <1>1, <1>2, <2>1, <3>1, EachOrdinary
    <2> QED
      BY <1>3, <1>8, <2>1 DEF PositionUpdate
  <1>9. CASE Ping(s)
    BY <1>1, <1>9, OneOrdinary DEF Ping, Answer
  <1> QED
    BY <1>3, <1>4, <1>5, <1>6, <1>7, <1>8, <1>9 DEF Request

\* A step of the turn of s that delivers nothing.
Elsewhere(s) ==
    \A t \in Sessions \ {s} :
      /\ out'[t] = out[t] /\ version'[t] = version[t]
      /\ stage'[t] = stage[t] /\ ended'[t] = ended[t]

LEMMA TurnKeeps ==
  ASSUME VersionInv, NEW s \in Sessions, UNCHANGED <<delivered, setup>>,
         out' \in [Sessions -> Seq(Messages)], Elsewhere(s),
         users' \cup logins' \subseteq users \cup logins \cup {s},
         s \in users' \cup logins' => delivered[s] # <<>>,
         stage'[s] # "publish" => out'[s] = <<>>,
         NotYet(s)', VersionSent(s)', Emitted(s)'
  PROVE  VersionInv'
  <1>1. MessagesOK' /\ VersionFirst'
    BY DEF VersionInv, MessagesOK, VersionFirst
  <1>2. Quiet'
    BY DEF VersionInv, Quiet, Elsewhere
  <1>3. Served'
    BY DEF VersionInv, Served
  <1>4. ASSUME NEW t \in Sessions, t # s
        PROVE  NotYet(t)' /\ VersionSent(t)' /\ Emitted(t)'
    <2>1. NotYet(t) /\ VersionSent(t) /\ Emitted(t)
      BY DEF VersionInv
    <2>2. /\ out'[t] = out[t] /\ version'[t] = version[t]
          /\ stage'[t] = stage[t] /\ ended'[t] = ended[t]
      BY <1>4 DEF Elsewhere
    <2>3. NotYet(t)' /\ VersionSent(t)'
      BY <2>1, <2>2 DEF NotYet, VersionSent
    <2>4. Emitted(t)'
      BY <2>1, <2>2 DEF Emitted, MayGo
    <2> QED
      BY <2>3, <2>4
  <1> QED
    BY <1>1, <1>2, <1>3, <1>4 DEF VersionInv

\* Ordinary messages may go out in the turn of a session that has been sent
\* something.
LEMMA OrdinaryMayGo ==
  ASSUME VersionInv, NEW s \in Sessions, OutOrdinary(s), delivered' = delivered,
         delivered[s] # <<>>
  PROVE  Emitted(s)'
  <1>1. \A t \in users : delivered[t] # <<>>
    BY DEF VersionInv, Served
  <1>2. \A i \in DOMAIN out'[s] : Ordinary(s, out'[s][i])
    BY DEF OutOrdinary
  <1> QED
    BY <1>1, <1>2 DEF Emitted, MayGo, Ordinary

\* Nothing is emitted.
LEMMA NothingMayGo ==
  ASSUME NEW s \in Sessions, out'[s] = <<>>
  PROVE  Emitted(s)'
  BY DEF Emitted

\* The turn of s has emitted one message, to s.
OneMessage(s, kind) ==
    /\ out' \in [Sessions -> Seq(Messages)] /\ out'[s] = <<Answer(s, kind)>>
    /\ \A t \in Sessions \ {s} : out'[t] = out[t]
    /\ Answer(s, kind).from = s /\ Answer(s, kind).kind = kind /\ Answer(s, kind).to = s
    /\ DOMAIN out'[s] = {1} /\ Len(out'[s]) = 1 /\ out'[s][1] = Answer(s, kind)

\* A single message is that.
LEMMA OneEmitted ==
  ASSUME MessagesOK, NEW s \in Sessions, NEW kind \in Kinds,
         out' = [out EXCEPT ![s] = <<Answer(s, kind)>>]
  PROVE  OneMessage(s, kind)
  <1> DEFINE m == Answer(s, kind)
  <1>1. m \in Messages /\ m.from = s /\ m.kind = kind /\ m.to = s
    <2>1. 0 \in Nat
      OBVIOUS
    <2> QED
      BY <2>1, AnswerIs
  <1> HIDE DEF m
  <1>2. <<m>> \in Seq(Messages) /\ DOMAIN <<m>> = {1} /\ <<m>>[1] = m /\ Len(<<m>>) = 1
    BY <1>1
  <1>3. out'[s] = <<m>> /\ \A t \in Sessions \ {s} : out'[t] = out[t]
    BY DEF MessagesOK, m
  <1>4. out' \in [Sessions -> Seq(Messages)]
    BY <1>2 DEF MessagesOK, m
  <1>5. OneMessage(s, kind) <=>
          /\ out' \in [Sessions -> Seq(Messages)] /\ out'[s] = <<m>>
          /\ \A t \in Sessions \ {s} : out'[t] = out[t]
          /\ m.from = s /\ m.kind = kind /\ m.to = s
          /\ DOMAIN out'[s] = {1} /\ Len(out'[s]) = 1 /\ out'[s][1] = m
    BY DEF OneMessage, m
  <1> QED
    BY <1>1, <1>2, <1>3, <1>4, <1>5

\* A message that ends the connection may go out in any turn.
LEMMA CutEmitted ==
  ASSUME MessagesOK, NEW s \in Sessions, NEW kind \in Disconnecting,
         out' = [out EXCEPT ![s] = <<Answer(s, kind)>>]
  PROVE  Emitted(s)'
  <1>1. kind \in Kinds /\ kind # "VersionRes"
    BY DEF Kinds, Disconnecting
  <1>2. OneMessage(s, kind)
    BY <1>1, OneEmitted
  <1>3. \A i \in DOMAIN out'[s] : out'[s][i] = Answer(s, kind)
    BY <1>2 DEF OneMessage
  <1> QED
    BY <1>1, <1>2, <1>3 DEF Emitted, MayGo, OneMessage

\* A session whose turn may begin has nothing left to publish, and has been
\* served if it has a version.
LEMMA IdleServed ==
  ASSUME VersionInv, NEW s \in Sessions, stage[s] = "idle", version[s] = "agreed"
  PROVE  delivered[s] # <<>>
  <1>1. out[s] = <<>> /\ VersionSent(s)
    BY DEF VersionInv, Quiet
  <1>2. <<Answer(s, "VersionRes")>> # <<>>
    OBVIOUS
  <1> QED
    BY <1>1, <1>2 DEF VersionSent

\* handleNegotiation.
LEMMA NegotiateKeeps ==
  ASSUME VersionInv, GhostInv, NEW s \in Sessions, NEW p, Negotiate(s, p), setup' = setup
  PROVE  VersionInv'
  <1>1. /\ stage[s] = "idle" /\ ~ended[s] /\ out[s] = <<>>
        /\ UNCHANGED <<vars, logins, failed, ended, delivered>>
    BY DEF Negotiate, TakesPacket, MayStart, VersionInv, Quiet
  <1>2. MessagesOK /\ RouterTypeOK /\ users' = users /\ logins' = logins
    BY <1>1 DEF VersionInv, GhostInv, vars
  <1>3. s \in users \cup logins => delivered[s] # <<>>
    BY DEF VersionInv, Served
  <1>4. CASE UNCHANGED <<version, stage, out>>
    <2>1. Elsewhere(s)
      BY <1>1, <1>4 DEF Elsewhere
    <2>2. NotYet(s)' /\ VersionSent(s)'
      BY <1>1, <1>4 DEF VersionInv, NotYet, VersionSent
    <2>3. Emitted(s)'
      BY <1>1, <1>4, NothingMayGo
    <2>4. out' \in [Sessions -> Seq(Messages)] /\ out'[s] = <<>>
      BY <1>1, <1>2, <1>4 DEF MessagesOK
    <2> QED
      BY <1>1, <1>2, <1>3, <2>1, <2>2, <2>3, <2>4, TurnKeeps
  <1>5. CASE /\ version[s] # "failed"
             /\ version' = [version EXCEPT ![s] =
                              IF Selected(s, p) THEN "agreed" ELSE "failed"]
    <2>1. version'[s] = IF Selected(s, p) THEN "agreed" ELSE "failed"
      BY <1>2, <1>5 DEF RouterTypeOK
    <2>2. \A t \in Sessions \ {s} : version'[t] = version[t]
      BY <1>2, <1>5 DEF RouterTypeOK
    <2>3. NotYet(s)'
      BY <2>1 DEF NotYet
    <2>4. Selected(s, p) => delivered[s] = <<>>
      BY <1>1 DEF Selected, VersionInv, NotYet
    <2>5. CASE /\ stage' = [stage EXCEPT ![s] = "refused"] /\ UNCHANGED out
      <3>1. stage'[s] = "refused" /\ \A t \in Sessions \ {s} : stage'[t] = stage[t]
        BY <1>2, <2>5 DEF RouterTypeOK
      <3>2. Elsewhere(s)
        BY <1>1, <2>2, <2>5, <3>1 DEF Elsewhere
      <3>3. VersionSent(s)'
        BY <3>1 DEF VersionSent
      <3>4. Emitted(s)' /\ out'[s] = <<>>
        BY <1>1, <2>5, NothingMayGo
      <3>5. out' \in [Sessions -> Seq(Messages)]
        BY <1>2, <2>5 DEF MessagesOK
      <3> QED
        BY <1>1, <1>2, <1>3, <2>3, <3>2, <3>3, <3>4, <3>5, TurnKeeps
    <2>6. CASE /\ out' = [out EXCEPT ![s] = <<Answer(s, IF Selected(s, p) THEN "VersionRes"
                                                        ELSE "ErrorAndDisconnect")>>]
               /\ stage' = [stage EXCEPT ![s] = "publish"]
      <3>1. stage'[s] = "publish" /\ \A t \in Sessions \ {s} : stage'[t] = stage[t]
        BY <1>2, <2>6 DEF RouterTypeOK
      <3>2. CASE Selected(s, p)
        <4>1. "VersionRes" \in Kinds /\ "VersionRes" \notin Disconnecting
          BY DEF Kinds, Disconnecting
        <4>2. out' = [out EXCEPT ![s] = <<Answer(s, "VersionRes")>>]
          BY <2>6, <3>2
        <4>a. OneMessage(s, "VersionRes")
          BY <1>2, <4>1, <4>2, OneEmitted
        <4>3. /\ out' \in [Sessions -> Seq(Messages)] /\ out'[s] = <<Answer(s, "VersionRes")>>
              /\ \A t \in Sessions \ {s} : out'[t] = out[t]
              /\ Answer(s, "VersionRes").from = s /\ Answer(s, "VersionRes").kind = "VersionRes"
              /\ Answer(s, "VersionRes").to = s
              /\ DOMAIN out'[s] = {1} /\ Len(out'[s]) = 1 /\ out'[s][1] = Answer(s, "VersionRes")
          BY <4>a DEF OneMessage
        <4>4. Elsewhere(s)
          BY <1>1, <2>2, <3>1, <4>3 DEF Elsewhere
        <4>5. VersionSent(s)'
          BY <4>3 DEF VersionSent
        <4>6. delivered'[s] = <<>> /\ ~ended'[s]
          BY <1>1, <2>4, <3>2
        <4>7. Emitted(s)'
          BY <4>1, <4>3, <4>6 DEF Emitted, MayGo
        <4> QED
          BY <1>1, <1>2, <1>3, <2>3, <3>1, <4>3, <4>4, <4>5, <4>7, TurnKeeps
      <3>3. CASE ~Selected(s, p)
        <4>1. "ErrorAndDisconnect" \in Kinds /\ "ErrorAndDisconnect" \in Disconnecting
          BY DEF Kinds, Disconnecting
        <4>2. out' = [out EXCEPT ![s] = <<Answer(s, "ErrorAndDisconnect")>>]
          BY <2>6, <3>3
        <4>3. out' \in [Sessions -> Seq(Messages)] /\ \A t \in Sessions \ {s} : out'[t] = out[t]
          BY <1>2, <4>1, <4>2, OneEmitted DEF OneMessage
        <4>4. Elsewhere(s)
          BY <1>1, <2>2, <3>1, <4>3 DEF Elsewhere
        <4>5. VersionSent(s)'
          BY <2>1, <3>3 DEF VersionSent
        <4>6. Emitted(s)'
          BY <1>2, <4>1, <4>2, CutEmitted
        <4> QED
          BY <1>1, <1>2, <1>3, <2>3, <3>1, <4>3, <4>4, <4>5, <4>6, TurnKeeps
      <3> QED
        BY <3>2, <3>3
    <2> QED
      BY <1>5, <2>5, <2>6 DEF Negotiate
  <1> QED
    BY <1>4, <1>5 DEF Negotiate

\* The second locked section of handleNegotiation.
LEMMA TakeBackKeeps ==
  ASSUME VersionInv, GhostInv, NEW s \in Sessions, TakeBack(s), setup' = setup
  PROVE  VersionInv'
  <1>1. UNCHANGED <<vars, logins, failed, ended, delivered>>
    BY DEF TakeBack
  <1>2. MessagesOK /\ RouterTypeOK /\ users' = users /\ logins' = logins
    BY <1>1 DEF VersionInv, GhostInv, vars
  <1>3. s \in users \cup logins => delivered[s] # <<>>
    BY DEF VersionInv, Served
  <1>4. /\ version'[s] = "failed" /\ stage'[s] = "publish"
        /\ \A t \in Sessions \ {s} : version'[t] = version[t] /\ stage'[t] = stage[t]
    BY <1>2 DEF TakeBack, RouterTypeOK
  <1>5. "DisconnectSession" \in Kinds /\ "DisconnectSession" \in Disconnecting
    BY DEF Kinds, Disconnecting
  <1>6. out' = [out EXCEPT ![s] = <<Answer(s, "DisconnectSession")>>]
    BY DEF TakeBack
  <1>7. out' \in [Sessions -> Seq(Messages)] /\ \A t \in Sessions \ {s} : out'[t] = out[t]
    BY <1>2, <1>5, <1>6, OneEmitted DEF OneMessage
  <1>8. Emitted(s)'
    BY <1>2, <1>5, <1>6, CutEmitted
  <1>9. Elsewhere(s)
    BY <1>1, <1>4, <1>7 DEF Elsewhere
  <1>10. NotYet(s)' /\ VersionSent(s)'
    BY <1>4 DEF NotYet, VersionSent
  <1> QED
    BY <1>1, <1>2, <1>3, <1>4, <1>7, <1>8, <1>9, <1>10, TurnKeeps

\* handlePacket of the requests that are answered in their turn.
LEMMA RequestServed ==
  ASSUME VersionInv, GhostInv, NEW s \in Sessions, NEW p, Request(s, p), setup' = setup
  PROVE  VersionInv'
  <1>1. /\ stage[s] = "idle" /\ version[s] = "agreed"
        /\ UNCHANGED <<version, logins, failed, ended, delivered>>
    BY DEF Request, TakesPacket, MayStart
  <1>2. MessagesOK /\ RouterTypeOK /\ IInv
    BY DEF VersionInv, GhostInv
  <1>3. users' = users /\ logins' = logins
    BY <1>1, RequestKeepsUsers
  <1>4. delivered[s] # <<>>
    BY <1>1, IdleServed
  <1>5. OutOrdinary(s)
    BY <1>2, RequestOrdinary
  <1>6. Emitted(s)'
    BY <1>1, <1>4, <1>5, OrdinaryMayGo
  <1>7. stage'[s] = "publish" /\ \A t \in Sessions \ {s} : stage'[t] = stage[t]
    BY <1>2 DEF Request, RouterTypeOK
  <1>8. Elsewhere(s) /\ out' \in [Sessions -> Seq(Messages)]
    BY <1>1, <1>5, <1>7 DEF Elsewhere, OutOrdinary
  <1>9. NotYet(s)' /\ VersionSent(s)'
    BY <1>1, <1>4 DEF NotYet, VersionSent
  <1> QED
    BY <1>1, <1>3, <1>4, <1>6, <1>7, <1>8, <1>9, TurnKeeps

\* LoginReq and its callback.
LEMMA LoginServed ==
  ASSUME VersionInv, GhostInv, NEW s \in Sessions, LoginReq(s) \/ LoginCallback(s),
         setup' = setup
  PROVE  VersionInv'
  <1>1. MessagesOK /\ RouterTypeOK /\ IInv /\ Served
    BY DEF VersionInv, GhostInv
  <1>2. UNCHANGED <<version, ended, delivered>>
    BY DEF LoginReq, LoginCallback
  <1>3. delivered[s] # <<>>
    <2>1. CASE LoginReq(s)
      BY <2>1, IdleServed DEF LoginReq, TakesPacket, MayStart
    <2>2. CASE LoginCallback(s)
      BY <1>1, <2>2 DEF LoginCallback, Served
    <2> QED
      BY <2>1, <2>2
  <1>4. users' \cup logins' \subseteq users \cup logins \cup {s}
    BY DEF LoginReq, LoginCallback, AttachUser, Refused, vars
  <1>5. /\ stage'[s] \in {"deferred", "publish"}
        /\ \A t \in Sessions \ {s} : stage'[t] = stage[t]
    BY <1>1 DEF LoginReq, LoginCallback, RouterTypeOK
  <1>6. ~(version[s] = "none" /\ ~ended[s])
    BY <1>3 DEF VersionInv, NotYet
  <1>7. NotYet(s)' /\ VersionSent(s)'
    BY <1>2, <1>3, <1>6 DEF NotYet, VersionSent
  <1>8. ASSUME out' \in [Sessions -> Seq(Messages)], \A t \in Sessions \ {s} : out'[t] = out[t],
               Emitted(s)', stage'[s] # "publish" => out'[s] = <<>>
        PROVE  VersionInv'
    <2>1. Elsewhere(s)
      BY <1>2, <1>5, <1>8 DEF Elsewhere
    <2> QED
      BY <1>2, <1>3, <1>4, <1>7, <1>8, <2>1, TurnKeeps
  <1>9. CASE LoginReq(s)
    <2>1. out' = out /\ out[s] = <<>>
      BY <1>9 DEF LoginReq, TakesPacket, MayStart, VersionInv, Quiet
    <2> QED
      BY <1>1, <1>8, <2>1, NothingMayGo DEF MessagesOK
  <1>10. CASE LoginCallback(s)
    <2>1. stage'[s] = "publish"
      BY <1>1, <1>10 DEF LoginCallback, RouterTypeOK
    <2>2. CASE Emit(s, <<Answer(s, "LoginRes")>>)
      <3>1. "LoginRes" \in Kinds /\ "LoginRes" \notin Disconnecting \cup {"VersionRes"} /\ 0 \in Nat
        BY DEF Kinds, Disconnecting
      <3>2. OutOrdinary(s)
        BY <1>1, <2>2, <3>1, OneOrdinary DEF Answer
      <3>3. Emitted(s)'
        BY <1>2, <1>3, <3>2, OrdinaryMayGo
      <3> QED
        BY <1>8, <2>1, <3>2, <3>3 DEF OutOrdinary
    <2>3. CASE Refused(s)
      <3>1. OutOrdinary(s)
        BY <1>1, <2>3, RefusedOrdinary
      <3>2. Emitted(s)'
        BY <1>2, <1>3, <3>1, OrdinaryMayGo
      <3> QED
        BY <1>8, <2>1, <3>1, <3>2 DEF OutOrdinary
    <2>4. CASE out' = [out EXCEPT ![s] = <<Answer(s, "DisconnectSession")>>]
      <3>1. "DisconnectSession" \in Kinds /\ "DisconnectSession" \in Disconnecting
        BY DEF Kinds, Disconnecting
      <3>2. out' \in [Sessions -> Seq(Messages)] /\ \A t \in Sessions \ {s} : out'[t] = out[t]
        BY <1>1, <2>4, <3>1, OneEmitted DEF OneMessage
      <3>3. Emitted(s)'
        BY <1>1, <2>4, <3>1, CutEmitted
      <3> QED
        BY <1>8, <2>1, <3>2, <3>3
    <2> QED
      BY <1>10, <2>2, <2>3, <2>4 DEF LoginCallback
  <1> QED
    BY <1>9, <1>10

\* Disconnected, its first and its second lock.
LEMMA DisconnectedServed ==
  ASSUME VersionInv, GhostInv, NEW s \in Sessions, Disconnected(s) \/ Leaving(s),
         setup' = setup
  PROVE  VersionInv'
  <1>1. MessagesOK /\ RouterTypeOK /\ IInv /\ Served
    BY DEF VersionInv, GhostInv
  <1>2. out[s] = <<>> /\ UNCHANGED <<logins, delivered>>
    BY DEF Disconnected, MayStart, Leaving, VersionInv, Quiet
  <1>4. /\ \A t \in Sessions \ {s} : /\ version'[t] = version[t] /\ stage'[t] = stage[t]
                                     /\ ended'[t] = ended[t]
    BY <1>1 DEF Disconnected, Leaving, RouterTypeOK
  <1>5. users' \subseteq users
    BY DEF Disconnected, Leaving, Disconnect, vars
  <1>6. NotYet(s)' /\ VersionSent(s)'
    <2>1. CASE Disconnected(s)
      <3>1. version'[s] = "none" /\ ended'[s]
        BY <1>1, <2>1 DEF Disconnected, RouterTypeOK
      <3> QED
        BY <3>1 DEF NotYet, VersionSent
    <2>2. CASE Leaving(s)
      <3>1. stage[s] = "leaving" /\ version' = version /\ ended' = ended
        BY <2>2 DEF Leaving
      <3>2. NotYet(s) /\ VersionSent(s) /\ <<Answer(s, "VersionRes")>> # <<>>
        BY DEF VersionInv
      <3>3. version[s] = "agreed" => delivered[s] # <<>>
        BY <1>2, <3>1, <3>2 DEF VersionSent
      <3> QED
        BY <1>2, <3>1, <3>2, <3>3 DEF NotYet, VersionSent
    <2> QED
      BY <2>1, <2>2
  <1>7. ASSUME out' \in [Sessions -> Seq(Messages)], \A t \in Sessions \ {s} : out'[t] = out[t],
               Emitted(s)', stage'[s] # "publish" => out'[s] = <<>>
        PROVE  VersionInv'
    <2>1. Elsewhere(s)
      BY <1>4, <1>7 DEF Elsewhere
    <2>2. s \in users' \cup logins' => delivered[s] # <<>>
      BY <1>1, <1>2, <1>5 DEF Served
    <2> QED
      BY <1>2, <1>5, <1>6, <1>7, <2>1, <2>2, TurnKeeps
  <1>8. CASE out' = out
    BY <1>1, <1>2, <1>7, <1>8, NothingMayGo DEF MessagesOK
  <1>9. CASE /\ Leaving(s) /\ Disconnect(s)
             /\ ToEach(result'.recipients \ {s}, "LEAVE", s, result'.room, <<>>)
    <2>1. result'.recipients \ {s} \in SUBSET users /\ result'.room \in Nat /\ s \in users
      BY <1>1, <1>9, RecipientsAreUsers DEF Disconnect
    <2>2. "LEAVE" \in Kinds /\ "LEAVE" \notin Disconnecting \cup {"VersionRes"}
      BY DEF Kinds, Disconnecting
    <2>3. <<>> \in Seq(Messages) /\ \A i \in DOMAIN <<>> : Ordinary(s, <<>>[i])
      OBVIOUS
    <2>4. OutOrdinary(s)
      BY <1>1, <1>9, <2>1, <2>2, <2>3, EachOrdinary
    <2>5. delivered[s] # <<>>
      BY <1>1, <2>1 DEF Served
    <2>6. Emitted(s)'
      BY <1>2, <2>4, <2>5, OrdinaryMayGo
    <2>7. stage'[s] = "publish"
      BY <1>1, <1>9 DEF Leaving, RouterTypeOK
    <2> QED
      BY <1>7, <2>4, <2>6, <2>7 DEF OutOrdinary
  <1> QED
    BY <1>8, <1>9 DEF Disconnected, Leaving

\* What is left of a turn when its first message is published.
LEMMA TailEmitted ==
  ASSUME VersionInv, NEW s \in Sessions, out[s] # <<>>, out' = [out EXCEPT ![s] = Tail(@)]
  PROVE  /\ out' \in [Sessions -> Seq(Messages)] /\ \A u \in Sessions \ {s} : out'[u] = out[u]
         /\ Head(out[s]) \in Messages /\ MayGo(s, Head(out[s]))
         /\ \A i \in DOMAIN out'[s] : /\ MayGo(s, out'[s][i]) /\ out'[s][i] \in Messages
                                      /\ out'[s][i].kind # "VersionRes"
  <1>1. out \in [Sessions -> Seq(Messages)] /\ Emitted(s)
    BY DEF VersionInv, MessagesOK
  <1>2. /\ out[s] \in Seq(Messages) /\ Len(out[s]) \in Nat /\ Len(out[s]) > 0
        /\ Head(out[s]) = out[s][1] /\ Head(out[s]) \in Messages /\ 1 \in DOMAIN out[s]
    BY <1>1
  <1>3. /\ Tail(out[s]) \in Seq(Messages) /\ DOMAIN Tail(out[s]) = 1..(Len(out[s]) - 1)
        /\ \A i \in 1..(Len(out[s]) - 1) : Tail(out[s])[i] = out[s][i + 1] /\ i + 1 \in DOMAIN out[s]
    BY <1>2
  <1>4. out'[s] = Tail(out[s]) /\ \A u \in Sessions \ {s} : out'[u] = out[u]
    BY <1>1
  <1>5. out' \in [Sessions -> Seq(Messages)]
    BY <1>1, <1>3
  <1>6. MayGo(s, Head(out[s]))
    BY <1>1, <1>2 DEF Emitted
  <1>7. ASSUME NEW i \in DOMAIN out'[s]
        PROVE  /\ MayGo(s, out'[s][i]) /\ out'[s][i] \in Messages
               /\ out'[s][i].kind # "VersionRes"
    <2>1. /\ out'[s][i] = out[s][i + 1] /\ i + 1 \in DOMAIN out[s] /\ Len(out[s]) # 1
      <3>1. i \in 1..(Len(out[s]) - 1)
        BY <1>3, <1>4
      <3>2. Len(out[s]) # 1
        <4>1. \A n \in Nat : n = 1 => 1..(n - 1) = {}
          OBVIOUS
        <4> QED
          BY <1>2, <3>1, <4>1
      <3> QED
        BY <1>3, <1>4, <3>1, <3>2
    <2>2. out[s][i + 1] \in Messages
      BY <1>2, <2>1
    <2> QED
      BY <1>1, <2>1, <2>2 DEF Emitted
  <1> QED
    BY <1>2, <1>4, <1>5, <1>6, <1>7

\* Sequence longer is q with m behind it.
Longer(longer, q, m) ==
    /\ longer \in Seq(Messages) /\ Len(longer) = Len(q) + 1
    /\ longer # <<>> /\ longer[Len(q) + 1] = m
    /\ DOMAIN longer = 1..(Len(q) + 1)
    /\ \A i \in 1..Len(q) : longer[i] = q[i]

\* What Append does.
LEMMA AppendIs ==
  ASSUME NEW q \in Seq(Messages), NEW m \in Messages
  PROVE  Longer(Append(q, m), q, m)
  <1>1. Append(q, m) \in Seq(Messages) /\ Len(Append(q, m)) = Len(q) + 1 /\ Len(q) \in Nat
    OBVIOUS
  <1>2. DOMAIN Append(q, m) = 1..(Len(q) + 1) /\ Append(q, m) # <<>>
    BY <1>1
  <1>3. Append(q, m)[Len(q) + 1] = m /\ \A i \in 1..Len(q) : Append(q, m)[i] = q[i]
    OBVIOUS
  <1> QED
    BY <1>1, <1>2, <1>3 DEF Longer

\* An index of the longer sequence is one of the shorter, or the last.
LEMMA LongerPlace ==
  ASSUME NEW S, NEW q \in Seq(S), NEW m \in S, NEW r, r = Append(q, m), NEW i \in DOMAIN r
  PROVE  /\ i \in 1..Len(q) \/ i = Len(q) + 1
         /\ i \in 1..Len(q) => (i \in DOMAIN q /\ r[i] = q[i])
  OBVIOUS

\* The message reaches its session.
LEMMA DeliverKeeps ==
  ASSUME VersionInv, GhostInv, NEW s \in Sessions, out[s] # <<>>,
         out' = [out EXCEPT ![s] = Tail(@)],
         stage[s] = "publish", NEW m, m = Head(out[s]),
         delivered' = [delivered EXCEPT ![m.to] = Append(@, m)],
         UNCHANGED <<users, logins, version, ended, stage, setup>>
  PROVE  VersionInv'
  <1> DEFINE t == m.to
  <1>0. delivered' = [delivered EXCEPT ![t] = Append(delivered[t], m)]
    OBVIOUS
  <1>1. /\ out' \in [Sessions -> Seq(Messages)] /\ \A u \in Sessions \ {s} : out'[u] = out[u]
        /\ m \in Messages /\ MayGo(s, m)
        /\ \A i \in DOMAIN out'[s] : /\ MayGo(s, out'[s][i]) /\ out'[s][i] \in Messages
                                     /\ out'[s][i].kind # "VersionRes"
    BY TailEmitted
  <1>2. t \in Sessions /\ delivered \in [Sessions -> Seq(Messages)]
    BY <1>1 DEF Messages, VersionInv, MessagesOK
  <1>6. t # s => delivered[t] # <<>>
    BY <1>1 DEF MayGo
  <1> HIDE DEF t
  <1>3. /\ delivered[t] \in Seq(Messages) /\ Len(delivered[t]) \in Nat
        /\ delivered'[t] = Append(delivered[t], m)
        /\ \A u \in Sessions \ {t} : delivered'[u] = delivered[u]
    BY SMTT(40), <1>0, <1>2
  <1>4. /\ delivered'[t] \in Seq(Messages) /\ Len(delivered'[t]) = Len(delivered[t]) + 1
        /\ delivered'[t] # <<>> /\ delivered'[t][Len(delivered[t]) + 1] = m
        /\ DOMAIN delivered'[t] = 1..(Len(delivered[t]) + 1)
        /\ \A i \in 1..Len(delivered[t]) : delivered'[t][i] = delivered[t][i]
    <2>1. Longer(delivered'[t], delivered[t], m)
      BY SMTT(40), <1>1, <1>3, AppendIs
    <2> QED
      BY <2>1 DEF Longer
  <1>5. \A u \in Sessions : delivered[u] # <<>> => delivered'[u] # <<>>
    BY <1>3, <1>4
  <1>7. MessagesOK'
    <2>1. delivered' \in [Sessions -> Seq(Messages)]
      BY <1>0, <1>2, <1>4, <1>3
    <2> QED
      BY SMTT(40), <1>1, <2>1 DEF MessagesOK, VersionInv
  <1>8. Quiet' /\ Served'
    <2>1. Quiet'
      BY <1>1 DEF VersionInv, Quiet
    <2>2. users \cup logins \subseteq Sessions
      BY DEF GhostInv, IInv, TypeOK, RouterTypeOK
    <2>3. Served'
      BY <1>5, <2>2 DEF VersionInv, Served
    <2> QED
      BY <2>1, <2>3
  <1>9. ASSUME NEW u \in Sessions
        PROVE  NotYet(u)' /\ VersionSent(u)' /\ Emitted(u)'
    <2>1. NotYet(u) /\ VersionSent(u) /\ Emitted(u)
      BY DEF VersionInv
    <2>2. NotYet(u)'
      BY <1>3, <1>6, <2>1 DEF NotYet
    <2>3. VersionSent(u)'
      <3>1. CASE u # s
        BY <1>1, <1>5, <2>1, <3>1 DEF VersionSent
      <3>2. CASE u = s
        <4>1. CASE out[s] = <<Answer(s, "VersionRes")>>
          <5>1. m = Answer(s, "VersionRes")
            BY <4>1
          <5>2. t = s
            BY <5>1 DEF Answer, Message, t
          <5> QED
            BY <1>4, <3>2, <5>2 DEF VersionSent
        <4>2. CASE delivered[s] # <<>> \/ version[s] # "agreed"
          BY <1>5, <3>2, <4>2 DEF VersionSent
        <4> QED
          BY SMTT(40), <2>1, <3>2, <4>1, <4>2 DEF VersionSent
      <3> QED
        BY <3>1, <3>2
    <2>4. Emitted(u)'
      <3>1. CASE u # s
        <4>1. out'[u] = out[u]
          BY <1>1, <3>1
        <4>2. delivered[u] = <<>> => delivered'[u] = <<>>
          BY <1>3, <1>6, <3>1
        <4>3. \A i \in DOMAIN out[u] : out[u][i].to \in Sessions
          <5>1. out[u] \in Seq(Messages)
            BY DEF VersionInv, MessagesOK
          <5>2. \A i \in DOMAIN out[u] : out[u][i] \in Messages
            BY <5>1
          <5> QED
            BY <5>2 DEF Messages
        <4> QED
          BY <1>5, <2>1, <4>1, <4>2, <4>3 DEF Emitted, MayGo
      <3>2. CASE u = s
        <4>1. \A i \in DOMAIN out'[s] : out'[s][i].to \in Sessions
          BY <1>1 DEF Messages
        <4> QED
          BY <1>1, <1>5, <3>2, <4>1 DEF Emitted, MayGo
      <3> QED
        BY <3>1, <3>2
    <2> QED
      BY <2>2, <2>3, <2>4
  <1>10. VersionFirst'
    <2> SUFFICES ASSUME NEW u \in Sessions, NEW i \in DOMAIN delivered'[u],
                        delivered'[u][i].kind \notin Disconnecting
                 PROVE  i = 1 <=> delivered'[u][i].kind = "VersionRes"
      BY DEF VersionFirst
    <2>1. VersionFirst
      BY DEF VersionInv
    <2>2. u = t => i \in DOMAIN delivered'[t]
      BY SMTT(40)
    <2>3. CASE u # t
      BY <1>3, <2>1, <2>3 DEF VersionFirst
    <2>4. CASE u = t /\ i \in 1..Len(delivered[t])
      <3>1. i \in DOMAIN delivered[t] /\ delivered'[t][i] = delivered[t][i]
        BY <1>1, <1>3, <2>4, <2>2, LongerPlace
      <3> QED
        BY <1>2, <2>1, <2>4, <3>1 DEF VersionFirst
    <2>5. CASE u = t /\ i = Len(delivered[t]) + 1
      <3>1. delivered'[u][i] = m
        BY SMTT(40), <1>4, <2>5
      <3>2. delivered[t] = <<>> <=> i = 1
        BY <1>3, <2>5
      <3>3. m.kind = "VersionRes" => delivered[t] = <<>>
        BY SMTT(40), <1>1 DEF MayGo, t
      <3>4. m.kind # "VersionRes" => delivered[t] # <<>>
        BY SMTT(40), <1>1, <3>1 DEF MayGo, t
      <3> QED
        BY SMTT(40), <3>1, <3>2, <3>3, <3>4
    <2>6. u = t => i \in 1..Len(delivered[t]) \/ i = Len(delivered[t]) + 1
      BY <1>1, <1>3, <2>2, LongerPlace
    <2> QED
      BY SMTT(40), <2>3, <2>4, <2>5, <2>6
  <1> QED
    BY <1>7, <1>8, <1>9, <1>10 DEF VersionInv

\* publishOutbound.
LEMMA PublishKeeps ==
  ASSUME VersionInv, GhostInv, NEW s \in Sessions, Publish(s), setup' = setup
  PROVE  VersionInv'
  <1>1. MessagesOK /\ RouterTypeOK /\ Served /\ NotYet(s) /\ VersionSent(s) /\ Emitted(s)
    BY DEF VersionInv, GhostInv
  <1>2. /\ stage[s] = "publish" /\ users' = users
        /\ UNCHANGED <<version, logins, failed, ended, asked>>
    BY DEF Publish, vars
  <1>3. s \in users' \cup logins' => delivered[s] # <<>>
    BY <1>1, <1>2 DEF Served
  <1>4. <<Answer(s, "VersionRes")>> # <<>>
    OBVIOUS
  <1>5. CASE out[s] = <<>>
    <2>1. stage' = [stage EXCEPT ![s] = "idle"] /\ UNCHANGED <<out, delivered>>
      BY <1>5 DEF Publish
    <2>2. stage'[s] = "idle" /\ \A t \in Sessions \ {s} : stage'[t] = stage[t]
      BY <1>1, <2>1 DEF RouterTypeOK
    <2>3. Elsewhere(s)
      BY <1>2, <2>1, <2>2 DEF Elsewhere
    <2>4. NotYet(s)' /\ VersionSent(s)'
      BY <1>1, <1>2, <1>4, <1>5, <2>1 DEF NotYet, VersionSent
    <2>5. Emitted(s)' /\ out' \in [Sessions -> Seq(Messages)]
      BY <1>1, <1>5, <2>1, NothingMayGo DEF MessagesOK
    <2> QED
      BY <1>2, <1>3, <1>5, <2>1, <2>3, <2>4, <2>5, TurnKeeps
  <1>6. CASE out[s] # <<>>
    <2> DEFINE m == Head(out[s])
    <2>1. out' = [out EXCEPT ![s] = Tail(@)] /\ stage' = stage
      BY <1>6 DEF Publish
    <2>2. \/ delivered' = [delivered EXCEPT ![m.to] = Append(@, m)]
          \/ delivered' = delivered /\ (Closed(m.to) \/ ended[m.to])
      BY <1>6 DEF Publish
    <2>3. CASE delivered' = [delivered EXCEPT ![m.to] = Append(@, m)]
      BY <1>2, <1>6, <2>1, <2>3, DeliverKeeps
    <2>4. CASE delivered' = delivered /\ (Closed(m.to) \/ ended[m.to])
      <3>1. /\ out' \in [Sessions -> Seq(Messages)] /\ \A u \in Sessions \ {s} : out'[u] = out[u]
            /\ MayGo(s, m)
            /\ \A i \in DOMAIN out'[s] : MayGo(s, out'[s][i]) /\ out'[s][i].kind # "VersionRes"
        BY <1>6, <2>1, TailEmitted
      <3>2. m.kind # "VersionRes"
        BY <2>4, <3>1 DEF MayGo, Closed
      <3>3. out[s] # <<Answer(s, "VersionRes")>>
        BY <3>2 DEF Answer, Message
      <3>4. NotYet(s)' /\ VersionSent(s)'
        BY <1>1, <1>2, <2>1, <2>4, <3>3 DEF NotYet, VersionSent
      <3>5. Emitted(s)'
        BY <1>2, <2>4, <3>1 DEF Emitted, MayGo
      <3>6. Elsewhere(s)
        BY <1>2, <2>1, <3>1 DEF Elsewhere
      <3> QED
        BY <1>2, <1>3, <2>1, <2>4, <3>1, <3>4, <3>5, <3>6, TurnKeeps
    <2> QED
      BY <2>2, <2>3, <2>4
  <1> QED
    BY <1>5, <1>6

\* Before the first session nothing has been sent.
LEMMA VersionStarts == RouterInit => VersionInv
  <1> SUFFICES ASSUME RouterInit PROVE VersionInv
    OBVIOUS
  <1>1. MessagesOK
    <2>1. <<>> \in Seq(Messages)
      OBVIOUS
    <2> QED
      BY <2>1 DEF RouterInit, MessagesOK
  <1>2. Quiet /\ Served
    BY DEF RouterInit, Init, Quiet, Served
  <1>3. \A s \in Sessions : NotYet(s) /\ VersionSent(s) /\ Emitted(s)
    <2>1. ASSUME NEW s \in Sessions
          PROVE  /\ version[s] = "none" /\ stage[s] = "idle" /\ delivered[s] = <<>>
                 /\ out[s] = <<>>
      BY DEF RouterInit
    <2>2. \A s \in Sessions : NotYet(s) /\ VersionSent(s)
      BY <2>1 DEF NotYet, VersionSent
    <2>3. ASSUME NEW s \in Sessions PROVE Emitted(s)
      <3>1. DOMAIN out[s] = {}
        BY <2>1
      <3> QED
        BY <3>1 DEF Emitted
    <2> QED
      BY <2>2, <2>3
  <1>4. VersionFirst
    BY DEF RouterInit, VersionFirst
  <1> QED
    BY <1>1, <1>2, <1>3, <1>4 DEF VersionInv

\* Every step of every turn keeps it.
LEMMA VersionNext == VersionInv /\ GhostInv /\ [RouterNext]_routerVars => VersionInv'
  <1> SUFFICES ASSUME VersionInv, GhostInv, [RouterNext]_routerVars PROVE VersionInv'
    OBVIOUS
  <1>1. CASE UNCHANGED routerVars
    <2>1. /\ users' = users /\ logins' = logins /\ out' = out /\ delivered' = delivered
          /\ version' = version /\ ended' = ended /\ stage' = stage /\ setup' = setup
      BY <1>1 DEF routerVars, turnVars, vars
    <2>2. MessagesOK' /\ Quiet' /\ Served' /\ VersionFirst'
      BY <2>1 DEF VersionInv, MessagesOK, Quiet, Served, VersionFirst
    <2>3. \A s \in Sessions : NotYet(s)' /\ VersionSent(s)' /\ Emitted(s)'
      BY <2>1 DEF VersionInv, NotYet, VersionSent, Emitted, MayGo
    <2> QED
      BY <2>2, <2>3 DEF VersionInv
  <1>2. CASE RouterNext
    <2>1. PICK s \in Sessions :
            \/ \E p \in setup.packets : Negotiate(s, p) \/ Request(s, p)
            \/ LoginReq(s) \/ TakeBack(s) \/ LoginCallback(s)
            \/ Disconnected(s) \/ Leaving(s) \/ Publish(s)
      BY <1>2 DEF RouterNext
    <2>2. setup' = setup
      BY <1>2 DEF RouterNext
    <2> QED
      BY <2>1, <2>2, NegotiateKeeps, RequestServed, LoginServed, TakeBackKeeps,
         DisconnectedServed, PublishKeeps
  <1> QED
    BY <1>1, <1>2

\* The first a session hears from MessageRouter is VersionRes, once, unless it is
\* cut: broadcasts of other sessions' turns, published by other workers, never
\* overtake it, and nobody is served whose version was taken back.
THEOREM VersionAlwaysFirst == RouterSpec => []VersionFirst
  <1>1. VersionInv => VersionFirst
    BY DEF VersionInv
  <1> QED
    BY <1>1, GhostInit, GhostNext, VersionStarts, VersionNext, PTL DEF RouterSpec

-----------------------------------------------------------------------------
\* One answer to each request.

\* The messages of the turn of s that go to s itself.
DueAt(s) == {i \in DOMAIN out[s] : out[s][i].to = s}

\* The turn of s still owes it an answer: its login is under way, or the answer
\* is not yet published.
Owed(s) == IF stage[s] = "deferred" \/ DueAt(s) # {} THEN 1 ELSE 0

SingleDue(s) == \A i, j \in DueAt(s) : i = j

Unasked(s) == version[s] = "none" /\ ~ended[s] => asked[s] = 0

\* The session is served: what it asked has been answered or is owed, unless the
\* budget has refused it.
Counted(s) ==
    ~ended[s] /\ version[s] = "agreed" /\ ~failed[s] /\ ~Closed(s) /\ stage[s] # "refused"
      => /\ Cardinality(OwnAt(s)) + Owed(s) <= asked[s]
         /\ Roomy => Cardinality(OwnAt(s)) + Owed(s) = asked[s]

AnswerInv ==
    /\ asked \in [Sessions -> Nat] /\ failed \in [Sessions -> BOOLEAN]
    /\ \A s \in Sessions : Unasked(s) /\ SingleDue(s) /\ Counted(s)

\* A step of the turn of s that delivers nothing, and what it must show.
LEMMA AnswerTurn ==
  ASSUME AnswerInv, NEW s \in Sessions, UNCHANGED <<delivered, setup>>, Elsewhere(s),
         \A t \in Sessions \ {s} : asked'[t] = asked[t] /\ failed'[t] = failed[t],
         asked' \in [Sessions -> Nat], failed' \in [Sessions -> BOOLEAN],
         Unasked(s)', SingleDue(s)', Counted(s)'
  PROVE  AnswerInv'
  <1>1. Roomy' <=> Roomy
    BY DEF Roomy, Fits
  <1>2. ASSUME NEW t \in Sessions, t # s
        PROVE  Unasked(t)' /\ SingleDue(t)' /\ Counted(t)'
    <2>1. Unasked(t) /\ SingleDue(t) /\ Counted(t)
      BY DEF AnswerInv
    <2>2. /\ out'[t] = out[t] /\ version'[t] = version[t] /\ stage'[t] = stage[t]
          /\ ended'[t] = ended[t] /\ asked'[t] = asked[t] /\ failed'[t] = failed[t]
      BY <1>2 DEF Elsewhere
    <2>3. DueAt(t)' = DueAt(t) /\ OwnAt(t)' = OwnAt(t) /\ (Closed(t)' <=> Closed(t))
      BY <2>2 DEF DueAt, OwnAt, Closed
    <2>4. Owed(t)' = Owed(t)
      BY <2>2, <2>3 DEF Owed
    <2>5. Unasked(t)' /\ SingleDue(t)'
      BY <2>1, <2>2, <2>3 DEF Unasked, SingleDue
    <2>6. Counted(t) => Counted(t)'
      BY <1>1, <2>2, <2>3, <2>4 DEF Counted
    <2> QED
      BY <2>1, <2>5, <2>6
  <1> QED
    BY <1>1, <1>2 DEF AnswerInv

\* The places of a session's answers are finitely many.
LEMMA OwnFinite ==
  ASSUME MessagesOK, NEW s \in Sessions
  PROVE  IsFiniteSet(OwnAt(s)) /\ Cardinality(OwnAt(s)) \in Nat
  <1>1. delivered[s] \in Seq(Messages)
    BY DEF MessagesOK
  <1>2. OwnAt(s) \subseteq 1..Len(delivered[s]) /\ Len(delivered[s]) \in Nat
    BY <1>1 DEF OwnAt
  <1>3. IsFiniteSet(1..Len(delivered[s]))
    BY <1>2, FS_Interval
  <1> QED
    BY <1>2, <1>3, FS_Subset, FS_CardinalityType

\* The turn has emitted exactly one message to its own session; a broadcast that
\* the budget cuts may have left it out.
OneDue(s) == SingleDue(s)' /\ (Roomy => DueAt(s)' # {})

LEMMA OneIsDue ==
  ASSUME MessagesOK, NEW s \in Sessions, NEW kind, NEW r,
         out' = [out EXCEPT ![s] = <<Message(s, kind, s, r)>>]
  PROVE  OneDue(s) /\ DueAt(s)' # {}
  <1> DEFINE m == Message(s, kind, s, r)
  <1>1. out'[s] = <<m>> /\ m.to = s
    BY DEF MessagesOK, Message
  <1>2. DueAt(s)' = {i \in DOMAIN out'[s] : out'[s][i].to = s}
    BY DEF DueAt
  <1> HIDE DEF m
  <1>3. DOMAIN out'[s] = {1} /\ out'[s][1].to = s
    BY <1>1
  <1>4. DueAt(s)' = {1}
    BY <1>2, <1>3
  <1> QED
    BY <1>4 DEF OneDue, SingleDue

\* A message the budget may refuse.
LEMMA EmittedIsDue ==
  ASSUME MessagesOK, NEW s \in Sessions, NEW kind, NEW r, Emit(s, <<Message(s, kind, s, r)>>)
  PROVE  OneDue(s)
  <1>1. CASE out' = [out EXCEPT ![s] = <<Message(s, kind, s, r)>>]
    BY <1>1, OneIsDue
  <1>2. CASE ~Fits /\ out' = [out EXCEPT ![s] = <<>>]
    <2>1. out'[s] = <<>>
      BY <1>2 DEF MessagesOK
    <2>2. DueAt(s)' = {}
      BY <2>1 DEF DueAt
    <2> QED
      BY <1>2, <2>2 DEF OneDue, SingleDue, Roomy
  <1> QED
    BY <1>1, <1>2, EmitOne

\* An answer followed by a broadcast to others.
LEMMA FirstIsDue ==
  ASSUME MessagesOK, NEW s \in Sessions, NEW S \in SUBSET (Sessions \ {s}), NEW kind \in Kinds,
         NEW r \in Nat, NEW first \in Seq(Messages), Len(first) = 1, first[1].to = s,
         ToEach(S, kind, s, r, first)
  PROVE  OneDue(s)
  <1>1. BroadcastIs(S, kind, s, r, first)
    <2>1. S \in SUBSET Sessions
      OBVIOUS
    <2> QED
      BY <2>1, ToEachIs
  <1>2. DOMAIN first = {1}
    OBVIOUS
  <1>3. \A t \in S : Message(t, kind, s, r).to = t /\ t # s
    BY DEF Message
  <1>4. ASSUME NEW i \in DOMAIN out'[s], out'[s][i].to = s PROVE i = 1
    <2>1. CASE i \in DOMAIN first
      BY <1>2, <2>1
    <2>2. CASE \E t \in S : out'[s][i] = Message(t, kind, s, r)
      BY <1>3, <1>4, <2>2
    <2> QED
      BY <1>1, <2>1, <2>2 DEF BroadcastIs
  <1>5. Roomy => 1 \in DOMAIN out'[s] /\ out'[s][1].to = s
    BY <1>1, <1>2 DEF BroadcastIs, Roomy
  <1>6. DueAt(s)' \subseteq {1} /\ (Roomy => 1 \in DueAt(s)')
    BY <1>4, <1>5 DEF DueAt
  <1> QED
    BY <1>6 DEF OneDue, SingleDue

\* A broadcast to a room with its actor.
LEMMA EachIsDue ==
  ASSUME MessagesOK, NEW s \in Sessions, NEW S \in SUBSET Sessions, s \in S, NEW kind \in Kinds,
         NEW r \in Nat, ToEach(S, kind, s, r, <<>>)
  PROVE  OneDue(s)
  <1>1. <<>> \in Seq(Messages) /\ DOMAIN <<>> = {}
    OBVIOUS
  <1>2. BroadcastIs(S, kind, s, r, <<>>)
    BY <1>1, ToEachIs
  <1>3. \A i, j \in DOMAIN out'[s] : out'[s][i].to = out'[s][j].to => i = j
    BY <1>1, <1>2 DEF BroadcastIs
  <1>4. Roomy => \E i \in DOMAIN out'[s] : out'[s][i].to = s
    BY <1>2 DEF BroadcastIs
  <1> QED
    BY <1>3, <1>4 DEF OneDue, SingleDue, DueAt

\* Every request leaves one answer to publish, or none that fits.
LEMMA RequestDue ==
  ASSUME MessagesOK, IInv, NEW s \in Sessions, NEW p, Request(s, p)
  PROVE  OneDue(s)
  <1>1. /\ {"JOIN", "LEAVE", "CHAT", "POSITION", "JoinRoomRes", "LeaveRoomRes"} \subseteq Kinds
        /\ RoomIds \subseteq Nat /\ users \subseteq Sessions
    BY RoomAssumption DEF Kinds, RoomIds, IInv, TypeOK
  <1>2. ASSUME NEW kind \in Kinds, NEW r \in Nat
        PROVE  /\ <<Message(s, kind, s, r)>> \in Seq(Messages)
               /\ Len(<<Message(s, kind, s, r)>>) = 1 /\ <<Message(s, kind, s, r)>>[1].to = s
    <2> DEFINE m == Message(s, kind, s, r)
    <2>1. m \in Messages /\ m.to = s
      BY <1>2, AnswerIs
    <2> HIDE DEF m
    <2>2. <<m>> \in Seq(Messages) /\ Len(<<m>>) = 1 /\ <<m>>[1].to = s
      BY <2>1
    <2> QED
      BY <2>2 DEF m
  <1>3. CASE Refused(s) \/ Ping(s)
    BY <1>3, EmittedIsDue DEF Refused, Ping, Answer
  <1>4. CASE CreateRoomReq(s)
    BY <1>3, <1>4, EmittedIsDue DEF CreateRoomReq
  <1>5. CASE JoinRoomReq(s)
    <2>1. ASSUME NEW r \in RoomIds, JoinRoom(s, r),
                 ToEach(result'.recipients \ {s}, "JOIN", s, r, <<Message(s, "JoinRoomRes", s, r)>>)
          PROVE  OneDue(s)
      <3>1. result'.recipients \ {s} \in SUBSET (Sessions \ {s}) /\ r \in Nat
        BY <1>1, <2>1, RecipientsAreUsers
      <3>2. /\ <<Message(s, "JoinRoomRes", s, r)>> \in Seq(Messages)
            /\ Len(<<Message(s, "JoinRoomRes", s, r)>>) = 1
            /\ <<Message(s, "JoinRoomRes", s, r)>>[1].to = s
        BY <1>1, <1>2, <3>1
      <3> QED
        BY <1>1, <2>1, <3>1, <3>2, FirstIsDue
    <2> QED
      BY <1>3, <1>5, <2>1 DEF JoinRoomReq
  <1>6. CASE LeaveRoomReq(s)
    <2>1. CASE LeaveRoom(s) /\ ToEach(result'.recipients \ {s}, "LEAVE", s, roomOf[s],
                 <<Message(s, "LeaveRoomRes", s, roomOf[s])>>)
      <3>1. result'.recipients \ {s} \in SUBSET (Sessions \ {s}) /\ roomOf[s] \in Nat
        BY <1>1, <2>1, RecipientsAreUsers
      <3>2. /\ <<Message(s, "LeaveRoomRes", s, roomOf[s])>> \in Seq(Messages)
            /\ Len(<<Message(s, "LeaveRoomRes", s, roomOf[s])>>) = 1
            /\ <<Message(s, "LeaveRoomRes", s, roomOf[s])>>[1].to = s
        BY <1>1, <1>2, <3>1
      <3> QED
        BY <1>1, <2>1, <3>1, <3>2, FirstIsDue
    <2> QED
      BY <1>3, <1>6, <2>1 DEF LeaveRoomReq
  <1>7. CASE ChatReq(s)
    <2>1. CASE Chat(s) /\ ToEach(result'.recipients, "CHAT", s, roomOf[s], <<>>)
      <3>1. result'.recipients \in SUBSET Sessions /\ s \in result'.recipients /\ roomOf[s] \in Nat
        BY <1>1, <2>1, RecipientsAreUsers
      <3> QED
        BY <1>1, <2>1, <3>1, EachIsDue
    <2> QED
      BY <1>3, <1>7, <2>1 DEF ChatReq
  <1>8. CASE PositionUpdate(s)
    <2>1. CASE UpdatePosition(s) /\ ToEach(result'.recipients, "POSITION", s, roomOf[s], <<>>)
      <3>1. result'.recipients \in SUBSET Sessions /\ s \in result'.recipients /\ roomOf[s] \in Nat
        BY <1>1, <2>1, RecipientsAreUsers
      <3> QED
        BY <1>1, <2>1, <3>1, EachIsDue
    <2> QED
      BY <1>3, <1>8, <2>1 DEF PositionUpdate
  <1> QED
    BY <1>3, <1>4, <1>5, <1>6, <1>7, <1>8 DEF Request

\* A turn that has nothing to publish owes nothing, unless it is deferred.
LEMMA QuietOwes ==
  ASSUME VersionInv, NEW s \in Sessions, stage[s] # "publish"
  PROVE  DueAt(s) = {} /\ out[s] = <<>>
  BY DEF VersionInv, Quiet, DueAt

\* handleNegotiation: the first packet is the first that is answered.
LEMMA NegotiateAnswers ==
  ASSUME AnswerInv, VersionInv, GhostInv, NEW s \in Sessions, NEW p, Negotiate(s, p),
         setup' = setup
  PROVE  AnswerInv'
  <1>1. MessagesOK /\ RouterTypeOK /\ NotYet(s) /\ Unasked(s)
    BY DEF VersionInv, GhostInv, AnswerInv
  <1>2. /\ stage[s] = "idle" /\ ~ended[s] /\ UNCHANGED <<failed, ended, delivered>>
        /\ asked' = [asked EXCEPT ![s] = @ + 1]
    BY DEF Negotiate, TakesPacket, MayStart
  <1>3. /\ asked' \in [Sessions -> Nat] /\ asked'[s] = asked[s] + 1
        /\ \A t \in Sessions \ {s} : asked'[t] = asked[t]
    BY <1>2 DEF AnswerInv
  <1>4. failed' \in [Sessions -> BOOLEAN]
    BY <1>2 DEF AnswerInv
  <1>5. DueAt(s) = {} /\ out[s] = <<>>
    BY <1>2, QuietOwes
  <1>6. ASSUME Elsewhere(s), Unasked(s)', SingleDue(s)', Counted(s)'
        PROVE  AnswerInv'
    BY <1>2, <1>3, <1>4, <1>6, AnswerTurn
  <1>7. CASE version[s] = "failed" /\ UNCHANGED <<version, stage, out>>
    <2>1. Elsewhere(s)
      BY <1>2, <1>7 DEF Elsewhere
    <2>2. Unasked(s)' /\ Counted(s)'
      BY <1>7 DEF Unasked, Counted
    <2>3. SingleDue(s)'
      BY <1>5, <1>7 DEF SingleDue, DueAt
    <2> QED
      BY <1>6, <2>1, <2>2, <2>3
  <1>8. CASE /\ version[s] # "failed"
             /\ version' = [version EXCEPT ![s] =
                              IF Selected(s, p) THEN "agreed" ELSE "failed"]
    <2>1. version'[s] = IF Selected(s, p) THEN "agreed" ELSE "failed"
      BY <1>1, <1>8 DEF RouterTypeOK
    <2>2. \A t \in Sessions \ {s} : version'[t] = version[t]
      BY <1>1, <1>8 DEF RouterTypeOK
    <2>3. Unasked(s)'
      BY <2>1 DEF Unasked
    <2>4. CASE stage' = [stage EXCEPT ![s] = "refused"] /\ UNCHANGED out
      <3>1. stage'[s] = "refused" /\ \A t \in Sessions \ {s} : stage'[t] = stage[t]
        BY <1>1, <2>4 DEF RouterTypeOK
      <3>2. Elsewhere(s)
        BY <1>2, <2>2, <2>4, <3>1 DEF Elsewhere
      <3>3. SingleDue(s)' /\ Counted(s)'
        BY <1>5, <2>4, <3>1 DEF SingleDue, DueAt, Counted
      <3> QED
        BY <1>6, <2>3, <3>2, <3>3
    <2>5. CASE /\ out' = [out EXCEPT ![s] = <<Answer(s, IF Selected(s, p) THEN "VersionRes"
                                                        ELSE "ErrorAndDisconnect")>>]
               /\ stage' = [stage EXCEPT ![s] = "publish"]
      <3>1. stage'[s] = "publish" /\ \A t \in Sessions \ {s} : stage'[t] = stage[t]
        BY <1>1, <2>5 DEF RouterTypeOK
      <3>2. OneDue(s) /\ DueAt(s)' # {}
        BY <1>1, <2>5, OneIsDue DEF Answer
      <3>3. \A t \in Sessions \ {s} : out'[t] = out[t]
        BY <1>1, <2>5 DEF MessagesOK
      <3>4. Elsewhere(s)
        BY <1>2, <2>2, <3>1, <3>3 DEF Elsewhere
      <3>5. Counted(s)'
        <4>1. CASE Selected(s, p)
          <5>1. version[s] = "none" /\ delivered'[s] = <<>> /\ asked[s] = 0
            BY <1>1, <1>2, <4>1 DEF Selected, NotYet, Unasked
          <5>2. OwnAt(s)' = {}
            BY <5>1 DEF OwnAt
          <5>3. Cardinality(OwnAt(s)') = 0
            BY <5>2, FS_EmptySet
          <5>4. Owed(s)' = 1
            BY <3>2 DEF Owed
          <5>5. asked'[s] = 0 + 1 /\ 0 + 1 = 1
            BY <1>3, <5>1
          <5> QED
            BY <1>2, <5>3, <5>4, <5>5 DEF Counted
        <4>2. CASE ~Selected(s, p)
          BY <2>1, <4>2 DEF Counted
        <4> QED
          BY <4>1, <4>2
      <3> QED
        BY <1>6, <2>3, <3>2, <3>4, <3>5 DEF OneDue
    <2> QED
      BY <1>8, <2>4, <2>5 DEF Negotiate
  <1> QED
    BY <1>7, <1>8 DEF Negotiate

\* The version is taken back.
LEMMA TakeBackAnswers ==
  ASSUME AnswerInv, VersionInv, GhostInv, NEW s \in Sessions, TakeBack(s), setup' = setup
  PROVE  AnswerInv'
  <1>1. MessagesOK /\ RouterTypeOK
    BY DEF VersionInv, GhostInv
  <1>2. UNCHANGED <<failed, ended, asked, delivered>>
    BY DEF TakeBack
  <1>3. /\ version'[s] = "failed"
        /\ \A t \in Sessions \ {s} : /\ version'[t] = version[t] /\ stage'[t] = stage[t]
                                     /\ out'[t] = out[t]
    BY <1>1 DEF TakeBack, RouterTypeOK, MessagesOK
  <1>4. OneDue(s)
    BY <1>1, OneIsDue DEF TakeBack, Answer
  <1>5. Elsewhere(s)
    BY <1>2, <1>3 DEF Elsewhere
  <1>6. Unasked(s)' /\ Counted(s)'
    BY <1>3 DEF Unasked, Counted
  <1> QED
    BY <1>2, <1>4, <1>5, <1>6, AnswerTurn DEF OneDue, AnswerInv

\* A request that is answered in its turn.
LEMMA RequestAnswers ==
  ASSUME AnswerInv, VersionInv, GhostInv, NEW s \in Sessions, NEW p, Request(s, p),
         setup' = setup
  PROVE  AnswerInv'
  <1>1. MessagesOK /\ RouterTypeOK /\ IInv /\ Counted(s)
    BY DEF VersionInv, GhostInv, AnswerInv
  <1>2. /\ stage[s] = "idle" /\ version[s] = "agreed" /\ ~ended[s]
        /\ UNCHANGED <<version, failed, ended, delivered>>
        /\ asked' = [asked EXCEPT ![s] = @ + 1]
    BY DEF Request, TakesPacket, MayStart
  <1>3. /\ asked' \in [Sessions -> Nat] /\ asked'[s] = asked[s] + 1 /\ asked[s] \in Nat
        /\ \A t \in Sessions \ {s} : asked'[t] = asked[t]
    BY <1>2 DEF AnswerInv
  <1>4. stage'[s] = "publish" /\ \A t \in Sessions \ {s} : stage'[t] = stage[t]
    BY <1>1 DEF Request, RouterTypeOK
  <1>5. OneDue(s)
    BY <1>1, RequestDue
  <1>6. Elsewhere(s)
    BY <1>1, <1>2, <1>4, RequestOrdinary DEF Elsewhere, OutOrdinary
  <1>7. Counted(s)'
    <2>1. Owed(s) = 0
      BY <1>2, QuietOwes DEF Owed
    <2>2. Owed(s)' \in {0, 1} /\ (Roomy => Owed(s)' = 1)
      BY <1>5 DEF Owed, OneDue
    <2>3. OwnAt(s)' = OwnAt(s) /\ (Closed(s)' <=> Closed(s)) /\ (Roomy' <=> Roomy)
      BY <1>2 DEF OwnAt, Closed, Roomy, Fits
    <2>4. Cardinality(OwnAt(s)) \in Nat
      BY <1>1, OwnFinite
    <2>5. CASE ~failed[s] /\ ~Closed(s)
      <3>1. /\ Cardinality(OwnAt(s)) + 0 <= asked[s]
            /\ Roomy => Cardinality(OwnAt(s)) + 0 = asked[s]
        BY <1>1, <1>2, <2>1, <2>5 DEF Counted
      <3>2. /\ Cardinality(OwnAt(s)) + Owed(s)' <= asked'[s]
            /\ Roomy => Cardinality(OwnAt(s)) + Owed(s)' = asked'[s]
        BY <1>3, <2>2, <2>4, <3>1
      <3> QED
        BY <2>3, <3>2 DEF Counted
    <2>6. CASE failed[s] \/ Closed(s)
      BY <1>2, <2>3, <2>6 DEF Counted
    <2> QED
      BY <2>5, <2>6
  <1>8. Unasked(s)'
    BY <1>2 DEF Unasked
  <1> QED
    BY <1>2, <1>3, <1>5, <1>6, <1>7, <1>8, AnswerTurn DEF OneDue, AnswerInv

\* LoginReq owes its answer, and the callback emits it.
LEMMA LoginAnswers ==
  ASSUME AnswerInv, VersionInv, GhostInv, NEW s \in Sessions, LoginReq(s) \/ LoginCallback(s),
         setup' = setup
  PROVE  AnswerInv'
  <1>1. MessagesOK /\ RouterTypeOK /\ Counted(s) /\ Unasked(s)
    BY DEF VersionInv, GhostInv, AnswerInv
  <1>2. UNCHANGED <<version, ended, delivered>>
    BY DEF LoginReq, LoginCallback
  <1>3. /\ OwnAt(s)' = OwnAt(s) /\ (Closed(s)' <=> Closed(s)) /\ Cardinality(OwnAt(s)) \in Nat
        /\ (Roomy' <=> Roomy)
    BY <1>1, <1>2, OwnFinite DEF OwnAt, Closed, Roomy, Fits
  <1>4. \A t \in Sessions \ {s} : stage'[t] = stage[t]
    BY <1>1 DEF LoginReq, LoginCallback, RouterTypeOK
  <1>5. CASE LoginReq(s)
    <2>1. /\ stage[s] = "idle" /\ version[s] = "agreed" /\ UNCHANGED <<out, failed>>
          /\ asked' = [asked EXCEPT ![s] = @ + 1]
      BY <1>5 DEF LoginReq, TakesPacket, MayStart
    <2>2. stage'[s] = "deferred"
      BY <1>1, <1>5 DEF LoginReq, RouterTypeOK
    <2>3. /\ asked' \in [Sessions -> Nat] /\ asked'[s] = asked[s] + 1 /\ asked[s] \in Nat
          /\ \A t \in Sessions \ {s} : asked'[t] = asked[t]
      BY <2>1 DEF AnswerInv
    <2>4. DueAt(s) = {} /\ DueAt(s)' = {}
      BY <2>1, QuietOwes DEF DueAt
    <2>5. Owed(s) = 0 /\ Owed(s)' = 1
      BY <2>1, <2>2, <2>4 DEF Owed
    <2>6. Counted(s)'
      <3>1. CASE ~ended[s] /\ ~failed[s] /\ ~Closed(s)
        <4>1. /\ Cardinality(OwnAt(s)) + 0 <= asked[s]
              /\ Roomy => Cardinality(OwnAt(s)) + 0 = asked[s]
          BY <1>1, <2>1, <2>5, <3>1 DEF Counted
        <4>2. /\ Cardinality(OwnAt(s)) + 1 <= asked'[s]
              /\ Roomy => Cardinality(OwnAt(s)) + 1 = asked'[s]
          BY <1>3, <2>3, <4>1
        <4> QED
          BY <1>3, <2>5, <4>2 DEF Counted
      <3>2. CASE ended[s] \/ failed[s] \/ Closed(s)
        BY <1>2, <1>3, <2>1, <3>2 DEF Counted
      <3> QED
        BY <3>1, <3>2
    <2>7. Unasked(s)' /\ SingleDue(s)'
      BY <1>2, <2>1, <2>4 DEF Unasked, SingleDue
    <2>8. Elsewhere(s)
      BY <1>2, <1>4, <2>1 DEF Elsewhere
    <2> QED
      BY <1>2, <2>1, <2>3, <2>6, <2>7, <2>8, AnswerTurn DEF AnswerInv
  <1>6. CASE LoginCallback(s)
    <2>1. stage[s] = "deferred" /\ asked' = asked
      BY <1>6 DEF LoginCallback, GhostInv, LoginsDeferred
    <2>2. stage'[s] = "publish"
      BY <1>1, <1>6 DEF LoginCallback, RouterTypeOK
    <2>3. PICK kind \in {"LoginRes", "Error", "DisconnectSession"} :
            \/ out' = [out EXCEPT ![s] = <<Message(s, kind, s, 0)>>]
            \/ Emit(s, <<Message(s, kind, s, 0)>>)
      BY <1>6 DEF LoginCallback, Refused, Answer
    <2>4. OneDue(s)
      BY <1>1, <2>3, OneIsDue, EmittedIsDue
    <2>5. \A t \in Sessions \ {s} : out'[t] = out[t]
      BY <1>1, <2>3, EmitOne DEF MessagesOK
    <2>6. \/ failed' = failed \/ failed' = [failed EXCEPT ![s] = TRUE]
      BY <1>6 DEF LoginCallback
    <2>7. /\ failed' \in [Sessions -> BOOLEAN] /\ (failed[s] => failed'[s])
          /\ \A t \in Sessions \ {s} : failed'[t] = failed[t]
      BY <2>6 DEF AnswerInv
    <2>8. Owed(s) = 1 /\ Owed(s)' \in {0, 1} /\ (Roomy => Owed(s)' = 1)
      BY <2>1, <2>2, <2>4 DEF Owed, OneDue
    <2>9. Counted(s)'
      <3>1. CASE ~ended[s] /\ version[s] = "agreed" /\ ~failed[s] /\ ~Closed(s)
        <4>1. /\ Cardinality(OwnAt(s)) + 1 <= asked[s]
              /\ Roomy => Cardinality(OwnAt(s)) + 1 = asked[s]
          BY <1>1, <2>1, <2>8, <3>1 DEF Counted
        <4>2. asked[s] \in Nat
          BY DEF AnswerInv
        <4>3. /\ Cardinality(OwnAt(s)) + Owed(s)' <= asked[s]
              /\ Roomy => Cardinality(OwnAt(s)) + Owed(s)' = asked[s]
          BY <1>3, <2>8, <4>1, <4>2
        <4> QED
          BY <1>3, <2>1, <4>3 DEF Counted
      <3>2. CASE ended[s] \/ version[s] # "agreed" \/ failed[s] \/ Closed(s)
        BY <1>2, <1>3, <2>7, <3>2 DEF Counted
      <3> QED
        BY <3>1, <3>2
    <2>10. Unasked(s)'
      BY <1>1, <1>2, <2>1 DEF Unasked
    <2>11. Elsewhere(s)
      BY <1>2, <1>4, <2>5 DEF Elsewhere
    <2> QED
      BY <1>2, <2>1, <2>4, <2>7, <2>9, <2>10, <2>11, AnswerTurn DEF OneDue, AnswerInv
  <1> QED
    BY <1>5, <1>6

\* After Disconnected nothing is owed.
LEMMA DisconnectedAnswers ==
  ASSUME AnswerInv, VersionInv, GhostInv, NEW s \in Sessions, Disconnected(s) \/ Leaving(s),
         setup' = setup
  PROVE  AnswerInv'
  <1>1. MessagesOK /\ RouterTypeOK /\ IInv /\ VersionSent(s) /\ NotYet(s)
    BY DEF VersionInv, GhostInv
  <1>2. UNCHANGED <<failed, asked, delivered>>
    BY DEF Disconnected, Leaving
  <1>3. \A t \in Sessions \ {s} : /\ version'[t] = version[t] /\ stage'[t] = stage[t]
                                  /\ ended'[t] = ended[t]
    BY <1>1 DEF Disconnected, Leaving, RouterTypeOK
  <1>4. ASSUME \A t \in Sessions \ {s} : out'[t] = out[t], SingleDue(s)', ended'[s]
        PROVE  AnswerInv'
    <2>1. Elsewhere(s)
      BY <1>3, <1>4 DEF Elsewhere
    <2>2. Unasked(s)' /\ Counted(s)'
      BY <1>4 DEF Unasked, Counted
    <2> QED
      BY <1>2, <1>4, <2>1, <2>2, AnswerTurn DEF AnswerInv
  <1>5. DueAt(s) = {} /\ out[s] = <<>>
    BY QuietOwes DEF Disconnected, MayStart, Leaving
  <1>6. CASE Disconnected(s)
    <2>1. ended'[s] /\ out' = out
      BY <1>1, <1>6 DEF Disconnected, RouterTypeOK
    <2>2. SingleDue(s)'
      BY <1>5, <2>1 DEF SingleDue, DueAt
    <2> QED
      BY <1>4, <2>1, <2>2
  <1>7. CASE Leaving(s)
    <2>1. ended'[s]
      BY <1>7 DEF Leaving, GhostInv, LeavingEnded
    <2>2. CASE out' = out
      <3>1. SingleDue(s)'
        BY <1>5, <2>2 DEF SingleDue, DueAt
      <3> QED
        BY <1>4, <2>1, <2>2, <3>1
    <2>3. CASE /\ Disconnect(s)
               /\ ToEach(result'.recipients \ {s}, "LEAVE", s, result'.room, <<>>)
      <3>1. result'.recipients \ {s} \in SUBSET Sessions /\ result'.room \in Nat
        BY <1>1, <2>3, RecipientsAreUsers DEF IInv, TypeOK
      <3>2. "LEAVE" \in Kinds /\ <<>> \in Seq(Messages) /\ DOMAIN <<>> = {}
        BY DEF Kinds
      <3>3. BroadcastIs(result'.recipients \ {s}, "LEAVE", s, result'.room, <<>>)
        BY <1>1, <2>3, <3>1, <3>2, ToEachIs
      <3>4. \A i, j \in DOMAIN out'[s] : out'[s][i].to = out'[s][j].to => i = j
        BY <3>2, <3>3 DEF BroadcastIs
      <3>5. SingleDue(s)'
        BY <3>4 DEF SingleDue, DueAt
      <3> QED
        BY <1>4, <2>1, <3>3, <3>5 DEF BroadcastIs
    <2> QED
      BY <1>7, <2>2, <2>3 DEF Leaving
  <1> QED
    BY <1>6, <1>7

\* What is owed when the first message of a turn has been published.
LEMMA TailDue ==
  ASSUME MessagesOK, NEW s \in Sessions, SingleDue(s), out[s] # <<>>,
         out' = [out EXCEPT ![s] = Tail(@)]
  PROVE  /\ SingleDue(s)'
         /\ Head(out[s]).to = s => DueAt(s)' = {} /\ DueAt(s) # {}
         /\ Head(out[s]).to # s => (DueAt(s)' # {} <=> DueAt(s) # {})
  <1> DEFINE n == Len(out[s])
  <1>1. out[s] \in Seq(Messages) /\ n \in Nat /\ n > 0 /\ DOMAIN out[s] = 1..n
        /\ Head(out[s]) = out[s][1] /\ out'[s] = Tail(out[s])
    BY DEF MessagesOK
  <1>2. DOMAIN out'[s] = 1..(n - 1) /\ \A i \in 1..(n - 1) : out'[s][i] = out[s][i + 1]
    <2>1. /\ DOMAIN Tail(out[s]) = 1..(Len(out[s]) - 1)
          /\ \A i \in 1..(Len(out[s]) - 1) : Tail(out[s])[i] = out[s][i + 1]
      <3>1. out[s] \in Seq(Messages) /\ Len(out[s]) \in Nat /\ Len(out[s]) > 0
        BY <1>1
      <3> QED
        BY ONLY <3>1
    <2>2. out'[s] = Tail(out[s])
      BY <1>1
    <2> QED
      BY ONLY <2>1, <2>2
  <1>3. 1 \in 1..n /\ \A i \in 1..(n - 1) : i + 1 \in 1..n /\ i + 1 # 1
    BY <1>1
  <1>4. \A i \in 1..n : i # 1 => i - 1 \in 1..(n - 1) /\ (i - 1) + 1 = i
    BY <1>1
  <1>5. \A i \in DueAt(s)' : i \in 1..(n - 1) /\ i + 1 \in DueAt(s)
    BY <1>1, <1>2, <1>3 DEF DueAt
  <1>6. \A i \in DueAt(s) : i # 1 => i - 1 \in DueAt(s)'
    BY <1>1, <1>2, <1>4 DEF DueAt
  <1>7. SingleDue(s)'
    <2> SUFFICES ASSUME NEW i \in DueAt(s)', NEW j \in DueAt(s)' PROVE i = j
      BY DEF SingleDue
    <2>1. i + 1 = j + 1
      BY <1>5 DEF SingleDue
    <2>2. i \in 1..(n - 1) /\ j \in 1..(n - 1)
      BY <1>5
    <2> QED
      BY <2>1, <2>2
  <1>8. ASSUME Head(out[s]).to = s PROVE DueAt(s)' = {} /\ DueAt(s) # {}
    <2>1. 1 \in DueAt(s)
      BY <1>1, <1>3, <1>8 DEF DueAt
    <2>2. ASSUME NEW i \in DueAt(s)' PROVE FALSE
      <3>1. i + 1 = 1
        BY <1>5, <2>1 DEF SingleDue
      <3> QED
        BY <1>3, <1>5, <3>1
    <2> QED
      BY <2>1, <2>2
  <1>9. ASSUME Head(out[s]).to # s PROVE DueAt(s)' # {} <=> DueAt(s) # {}
    <2>1. 1 \notin DueAt(s)
      BY <1>1, <1>9 DEF DueAt
    <2>2. DueAt(s) # {} => DueAt(s)' # {}
      BY <1>6, <2>1
    <2>3. DueAt(s)' # {} => DueAt(s) # {}
      BY <1>5
    <2> QED
      BY <2>2, <2>3
  <1> QED
    BY <1>7, <1>8, <1>9

\* A message of the turn of s reaches session t.
LEMMA DeliverAnswers ==
  ASSUME AnswerInv, VersionInv, GhostInv, NEW s \in Sessions, out[s] # <<>>,
         out' = [out EXCEPT ![s] = Tail(@)], stage[s] = "publish", NEW m, m = Head(out[s]),
         ~Closed(m.to), ~ended[m.to],
         delivered' = [delivered EXCEPT ![m.to] = Append(@, m)],
         UNCHANGED <<version, failed, asked, ended, stage, setup>>
  PROVE  AnswerInv'
  <1> DEFINE t == m.to
  <1>0. delivered' = [delivered EXCEPT ![t] = Append(delivered[t], m)] /\ ~Closed(t) /\ ~ended[t]
    OBVIOUS
  <1>1. m \in Messages /\ MayGo(s, m) /\ \A u \in Sessions \ {s} : out'[u] = out[u]
    BY TailEmitted
  <1>2. t \in Sessions /\ m.from = s /\ MessagesOK
    BY <1>1 DEF Messages, MayGo, VersionInv
  <1>3. /\ SingleDue(s)'
        /\ t = s => DueAt(s)' = {} /\ DueAt(s) # {}
        /\ t # s => (DueAt(s)' # {} <=> DueAt(s) # {})
    BY <1>2, TailDue DEF AnswerInv
  <1> HIDE DEF t
  <1>4. /\ delivered[t] \in Seq(Messages) /\ Len(delivered[t]) \in Nat
        /\ delivered'[t] = Append(delivered[t], m)
        /\ \A u \in Sessions \ {t} : delivered'[u] = delivered[u]
    BY <1>0, <1>2 DEF MessagesOK
  <1>5. Longer(delivered'[t], delivered[t], m)
    BY <1>1, <1>4, AppendIs
  <1>6. Roomy' <=> Roomy
    BY DEF Roomy, Fits
  <1>7. OwnAt(t)' = IF t = s THEN OwnAt(t) \cup {Len(delivered[t]) + 1} ELSE OwnAt(t)
    <2>1. DOMAIN delivered[t] = 1..Len(delivered[t])
      BY <1>4
    <2>2. \A i : i \in 1..(Len(delivered[t]) + 1) <=>
                   i \in 1..Len(delivered[t]) \/ i = Len(delivered[t]) + 1
      BY <1>4
    <2>3. \A i \in 1..Len(delivered[t]) : delivered'[t][i] = delivered[t][i]
      BY <1>5 DEF Longer
    <2>4. /\ delivered'[t][Len(delivered[t]) + 1] = m
          /\ DOMAIN delivered'[t] = 1..(Len(delivered[t]) + 1)
      BY <1>5 DEF Longer
    <2>5. \A i : i \in OwnAt(t)' <=> i \in OwnAt(t) \/ (t = s /\ i = Len(delivered[t]) + 1)
      BY <1>2, <2>1, <2>2, <2>3, <2>4 DEF OwnAt
    <2> QED
      BY <2>5
  <1>8. ASSUME NEW u \in Sessions
        PROVE  Unasked(u)' /\ SingleDue(u)' /\ Counted(u)'
    <2>1. Unasked(u) /\ SingleDue(u) /\ Counted(u)
      BY DEF AnswerInv
    <2>2. Unasked(u)'
      BY <2>1 DEF Unasked
    <2>3. SingleDue(u)'
      BY <1>1, <1>3, <2>1 DEF SingleDue, DueAt
    <2>4. ASSUME ~ended[u], version[u] = "agreed", ~failed[u], ~Closed(u)',
                 stage[u] # "refused"
          PROVE  /\ Cardinality(OwnAt(u)') + Owed(u)' <= asked[u]
                 /\ Roomy => Cardinality(OwnAt(u)') + Owed(u)' = asked[u]
      <3>1. ~Closed(u)
        BY <1>0, <1>4, <2>4 DEF Closed
      <3>2. /\ Cardinality(OwnAt(u)) + Owed(u) <= asked[u]
            /\ Roomy => Cardinality(OwnAt(u)) + Owed(u) = asked[u]
        BY <2>1, <2>4, <3>1 DEF Counted
      <3>3. CASE u = s /\ t = s
        <4>1. Owed(u) = 1 /\ Owed(u)' = 0
          BY <1>3, <3>3 DEF Owed
        <4>2. Len(delivered[t]) + 1 \notin OwnAt(t)
          BY <1>4 DEF OwnAt
        <4>3. IsFiniteSet(OwnAt(t)) /\ Cardinality(OwnAt(t)) \in Nat
          BY <1>2, OwnFinite
        <4>4. Cardinality(OwnAt(t) \cup {Len(delivered[t]) + 1}) = Cardinality(OwnAt(t)) + 1
          BY <4>2, <4>3, FS_AddElement
        <4>5. Cardinality(OwnAt(u)') = Cardinality(OwnAt(u)) + 1 /\ Cardinality(OwnAt(u)) \in Nat
          BY <1>7, <3>3, <4>3, <4>4
        <4> QED
          BY <3>2, <4>1, <4>5
      <3>4. CASE ~(u = s /\ t = s)
        <4>1. OwnAt(u)' = OwnAt(u)
          <5>1. CASE u = t
            BY SMTT(40), <1>7, <3>4, <5>1
          <5>2. CASE u # t
            BY <1>4, <5>2 DEF OwnAt
          <5> QED
            BY <5>1, <5>2
        <4>2. Owed(u)' = Owed(u)
          <5>1. CASE u # s
            <6>1. DueAt(u)' = DueAt(u)
              BY <1>1, <5>1 DEF DueAt
            <6> QED
              BY <6>1 DEF Owed
          <5>2. CASE u = s /\ t # s
            BY <1>3, <5>2 DEF Owed
          <5> QED
            BY <3>4, <5>1, <5>2
        <4> QED
          BY <3>2, <4>1, <4>2
      <3> QED
        BY SMTT(40), <3>3, <3>4
    <2>5. Counted(u)'
      BY <1>6, <2>4 DEF Counted
    <2> QED
      BY <2>2, <2>3, <2>5
  <1> QED
    BY <1>6, <1>8 DEF AnswerInv

\* publishOutbound.
LEMMA PublishAnswers ==
  ASSUME AnswerInv, VersionInv, GhostInv, NEW s \in Sessions, Publish(s), setup' = setup
  PROVE  AnswerInv'
  <1>1. MessagesOK /\ RouterTypeOK /\ Unasked(s) /\ SingleDue(s) /\ Counted(s)
    BY DEF VersionInv, GhostInv, AnswerInv
  <1>2. /\ stage[s] = "publish" /\ UNCHANGED <<version, failed, ended, asked>>
    BY DEF Publish
  <1>3. Unasked(s)'
    BY <1>1, <1>2 DEF Unasked
  <1>6. Roomy' <=> Roomy
    BY DEF Roomy, Fits
  <1>4. CASE out[s] = <<>>
    <2>1. stage' = [stage EXCEPT ![s] = "idle"] /\ UNCHANGED <<out, delivered>>
      BY <1>4 DEF Publish
    <2>2. stage'[s] = "idle" /\ \A t \in Sessions \ {s} : stage'[t] = stage[t]
      BY <1>1, <2>1 DEF RouterTypeOK
    <2>3. Elsewhere(s)
      BY <1>2, <2>1, <2>2 DEF Elsewhere
    <2>4. DueAt(s)' = DueAt(s) /\ OwnAt(s)' = OwnAt(s) /\ (Closed(s)' <=> Closed(s))
      BY <2>1 DEF DueAt, OwnAt, Closed
    <2>5. Owed(s)' = Owed(s) /\ SingleDue(s)'
      BY <1>1, <1>2, <2>2, <2>4 DEF Owed, SingleDue
    <2>6. Counted(s) => Counted(s)'
      BY <1>2, <1>6, <2>4, <2>5 DEF Counted
    <2> QED
      BY <1>1, <1>2, <1>3, <2>1, <2>3, <2>5, <2>6, AnswerTurn DEF AnswerInv
  <1>5. CASE out[s] # <<>>
    <2> DEFINE m == Head(out[s])
    <2>1. out' = [out EXCEPT ![s] = Tail(@)] /\ stage' = stage
      BY <1>5 DEF Publish
    <2>2. \/ delivered' = [delivered EXCEPT ![m.to] = Append(@, m)] /\ ~Closed(m.to) /\ ~ended[m.to]
          \/ delivered' = delivered /\ (Closed(m.to) \/ ended[m.to])
      BY <1>5 DEF Publish
    <2>3. CASE delivered' = [delivered EXCEPT ![m.to] = Append(@, m)] /\ ~Closed(m.to) /\ ~ended[m.to]
      BY <1>2, <1>5, <2>1, <2>3, DeliverAnswers
    <2>4. CASE delivered' = delivered /\ (Closed(m.to) \/ ended[m.to])
      <3>1. /\ SingleDue(s)'
            /\ m.to # s => (DueAt(s)' # {} <=> DueAt(s) # {})
        BY <1>1, <1>5, <2>1, TailDue
      <3>2. \A u \in Sessions \ {s} : out'[u] = out[u]
        BY <1>1, <2>1 DEF MessagesOK
      <3>3. Elsewhere(s)
        BY <1>2, <2>1, <3>2 DEF Elsewhere
      <3>4. OwnAt(s)' = OwnAt(s) /\ (Closed(s)' <=> Closed(s))
        BY <2>4 DEF OwnAt, Closed
      <3>5. CASE m.to = s
        <4>1. Counted(s)'
          BY <1>2, <2>4, <3>4, <3>5 DEF Counted
        <4> QED
          BY <1>2, <1>3, <2>4, <3>1, <3>3, <4>1, AnswerTurn DEF AnswerInv
      <3>6. CASE m.to # s
        <4>1. Owed(s)' = Owed(s)
          BY <2>1, <3>1, <3>6 DEF Owed
        <4>2. Counted(s) => Counted(s)'
          BY <1>2, <1>6, <2>1, <3>4, <4>1 DEF Counted
        <4> QED
          BY <1>1, <1>2, <1>3, <2>4, <3>1, <3>3, <4>2, AnswerTurn DEF AnswerInv
      <3> QED
        BY <3>5, <3>6
    <2> QED
      BY <2>2, <2>3, <2>4
  <1> QED
    BY <1>4, <1>5

\* At the start nothing has been asked.
LEMMA AnswerStarts == RouterInit => AnswerInv
  <1> SUFFICES ASSUME RouterInit PROVE AnswerInv
    OBVIOUS
  <1>1. asked \in [Sessions -> Nat] /\ failed \in [Sessions -> BOOLEAN]
    BY DEF RouterInit
  <1>2. ASSUME NEW s \in Sessions PROVE Unasked(s) /\ SingleDue(s) /\ Counted(s)
    <2>1. version[s] = "none" /\ out[s] = <<>> /\ asked[s] = 0
      BY DEF RouterInit
    <2>2. DueAt(s) = {}
      BY <2>1 DEF DueAt
    <2> QED
      BY <2>1, <2>2 DEF Unasked, SingleDue, Counted
  <1> QED
    BY <1>1, <1>2 DEF AnswerInv

\* Every step of every turn keeps the count.
LEMMA AnswerNext == AnswerInv /\ VersionInv /\ GhostInv /\ [RouterNext]_routerVars => AnswerInv'
  <1> SUFFICES ASSUME AnswerInv, VersionInv, GhostInv, [RouterNext]_routerVars
               PROVE  AnswerInv'
    OBVIOUS
  <1>1. CASE UNCHANGED routerVars
    <2>1. /\ out' = out /\ delivered' = delivered /\ version' = version /\ ended' = ended
          /\ stage' = stage /\ setup' = setup /\ asked' = asked /\ failed' = failed
      BY <1>1 DEF routerVars, turnVars
    <2>2. \A s \in Sessions : /\ DueAt(s)' = DueAt(s) /\ OwnAt(s)' = OwnAt(s)
                              /\ (Closed(s)' <=> Closed(s))
      BY <2>1 DEF DueAt, OwnAt, Closed
    <2>3. \A s \in Sessions : Owed(s)' = Owed(s)
      BY <2>1, <2>2 DEF Owed
    <2>4. ASSUME NEW s \in Sessions
          PROVE  Unasked(s)' /\ SingleDue(s)' /\ Counted(s)'
      <3>1. Unasked(s) /\ SingleDue(s) /\ Counted(s)
        BY DEF AnswerInv
      <3>2. Counted(s) => Counted(s)'
        BY <2>1, <2>2, <2>3 DEF Counted, Roomy, Fits
      <3> QED
        BY <2>1, <2>2, <3>1, <3>2 DEF Unasked, SingleDue
    <2> QED
      BY <2>1, <2>4 DEF AnswerInv
  <1>2. CASE RouterNext
    <2>1. PICK s \in Sessions :
            \/ \E p \in setup.packets : Negotiate(s, p) \/ Request(s, p)
            \/ LoginReq(s) \/ TakeBack(s) \/ LoginCallback(s)
            \/ Disconnected(s) \/ Leaving(s) \/ Publish(s)
      BY <1>2 DEF RouterNext
    <2>2. setup' = setup
      BY <1>2 DEF RouterNext
    <2> QED
      BY <2>1, <2>2, NegotiateAnswers, RequestAnswers, LoginAnswers, TakeBackAnswers,
         DisconnectedAnswers, PublishAnswers
  <1> QED
    BY <1>1, <1>2

\* Between its turns a session that is served has been sent at most one answer to
\* each of its requests (handlePacket, the login's callback and publishOutbound),
\* whatever other sessions' turns send it, and exactly one if the byte budget of
\* an event holds its messages and the message budget one for everyone.
THEOREM RequestsAlwaysAnswered == RouterSpec => []EachRequestAnswered
  <1>1. ASSUME AnswerInv, VersionInv PROVE EachRequestAnswered
    <2> SUFFICES ASSUME NEW s \in Sessions, Idle(s), version[s] = "agreed", ~failed[s], ~Closed(s)
                 PROVE  /\ Cardinality(OwnAt(s)) <= asked[s]
                        /\ Roomy => Cardinality(OwnAt(s)) = asked[s]
      BY DEF EachRequestAnswered
    <2>1. stage[s] = "idle" /\ ~ended[s]
      BY DEF Idle
    <2>2. Owed(s) = 0
      BY <1>1, <2>1, QuietOwes DEF Owed
    <2>3. /\ Cardinality(OwnAt(s)) + 0 <= asked[s]
          /\ Roomy => Cardinality(OwnAt(s)) + 0 = asked[s]
      BY <1>1, <2>1, <2>2 DEF AnswerInv, Counted
    <2>4. Cardinality(OwnAt(s)) \in Nat
      BY <1>1, OwnFinite DEF VersionInv
    <2> QED
      BY <2>3, <2>4
  <1> QED
    BY <1>1, GhostInit, GhostNext, VersionStarts, VersionNext, AnswerStarts, AnswerNext, PTL
    DEF RouterSpec

-----------------------------------------------------------------------------
\* What sessions are told about rooms.

Moves == {"CreateRoomRes", "JoinRoomRes", "LeaveRoomRes"}
Entries == {"CreateRoomRes", "JoinRoomRes"}
News == {"JOIN", "LEAVE"}

\* The answer of the turn of s that says which room it is in, not yet published.
MovesDue(s) == {i \in DOMAIN out[s] : out[s][i].kind \in Moves}

\* What the turn of t has yet to tell s about the room of s.
NewsDue(s, t) ==
    {i \in DOMAIN out[t] : /\ out[t][i].to = s /\ out[t][i].kind \in News
                           /\ out[t][i].room = roomOf[s]}

\* Such an answer is the first message of its turn, goes to its session, and is
\* true until the turn ends; ...
MoveTrue(s) ==
    \A i \in MovesDue(s) :
      i = 1 /\ out[s][i].to = s /\ Told(out[s][i]) = roomOf[s]

\* ... so is what the turn tells others.
NewsTrue(s) ==
    \A i \in DOMAIN out[s] : out[s][i].kind \in News =>
      /\ out[s][i].room # NoRoom
      /\ out[s][i].kind = "JOIN" <=> roomOf[s] = out[s][i].room

IsLast(i, places) == \A j \in places : j <= i

\* When no such answer is due, the last one that was delivered is true, if none
\* was refused on its bytes.
AnswerTold(s) ==
    Fits /\ ~Closed(s) /\ ~ended[s] /\ MovesDue(s) = {} =>
      \/ MovesAt(s) = {} /\ roomOf[s] = NoRoom
      \/ \E i \in MovesAt(s) : IsLast(i, MovesAt(s)) /\ Told(delivered[s][i]) = roomOf[s]

\* When nothing is due about t, the last that s heard of it is true.
NewsTold(s, t) ==
    /\ ~Closed(s) /\ ~ended[s] /\ roomOf[s] # NoRoom
    /\ MovesDue(s) = {} /\ NewsDue(s, t) = {}
    => \/ Heard(s, t) = {}
       \/ \E i \in Heard(s, t) :
            /\ IsLast(i, Heard(s, t))
            /\ delivered[s][i].kind = "JOIN" <=> roomOf[t] = roomOf[s]

RoomInv ==
    /\ \A s \in Sessions : MoveTrue(s) /\ NewsTrue(s) /\ AnswerTold(s)
    /\ Roomy => \A s, t \in Sessions : s # t => NewsTold(s, t)

\* A broadcast to others, with at most one answer before it, leaves nobody out
\* when the budget holds a message for everyone.
LEMMA NobodyLeftOut ==
  ASSUME MessagesOK, Roomy, NEW s \in Sessions, NEW S \in SUBSET (Sessions \ {s}),
         NEW kind \in Kinds, NEW r \in Nat, NEW first \in Seq(Messages), Len(first) <= 1,
         ToEach(S, kind, s, r, first)
  PROVE  \A t \in S : \E i \in DOMAIN out'[s] : out'[s][i] = Message(t, kind, s, r)
  <1>1. PICK order \in SetToSeqs(S) :
          Emit(s, first \o [i \in DOMAIN order |-> Message(order[i], kind, s, r)])
    BY DEF ToEach
  <1>2. order \in Seq(S) /\ Len(order) = Cardinality(S) /\ Cardinality(S) \in Nat
        /\ \A t \in S : \E i \in DOMAIN order : order[i] = t
    <2>1. S \in SUBSET Sessions
      OBVIOUS
    <2> QED
      BY <2>1, OrderIs
  <1> DEFINE rest == [i \in DOMAIN order |-> Message(order[i], kind, s, r)]
             all == first \o rest
             n == Len(all)
  <1>3. \A i \in DOMAIN order : rest[i] = Message(order[i], kind, s, r) /\ rest[i] \in Messages
    <2>1. \A i \in DOMAIN order : order[i] \in Sessions
      BY <1>2
    <2>2. \A t \in Sessions : Message(t, kind, s, r) \in Messages
      BY AnswerIs
    <2> QED
      BY <2>1, <2>2
  <1>4. rest \in Seq(Messages) /\ Len(rest) = Len(order) /\ DOMAIN rest = DOMAIN order
    <2>1. DOMAIN order = 1..Len(order) /\ Len(order) \in Nat /\ DOMAIN rest = DOMAIN order
      BY <1>2
    <2> HIDE DEF rest
    <2>2. rest = [i \in 1..Len(order) |-> rest[i]]
      BY <2>1 DEF rest
    <2> QED
      BY <1>3, <2>1, <2>2
  <1>5. /\ all \in Seq(Messages) /\ n = Len(first) + Len(rest) /\ n \in Nat
        /\ Len(first) \in Nat /\ DOMAIN all = 1..n
        /\ \A i \in DOMAIN order : Len(first) + i \in 1..n /\ all[Len(first) + i] = rest[i]
    BY SMTT(40), <1>4
  <1>6. n <= setup.budget /\ setup.budget \in Nat
    <2>1. IsFiniteSet(Sessions) /\ setup.budget \in Nat /\ setup.budget >= Cardinality(Sessions)
      BY RouterAssumption DEF MessagesOK, Roomy
    <2>2. /\ IsFiniteSet(Sessions \ {s}) /\ Cardinality(Sessions \ {s}) = Cardinality(Sessions) - 1
          /\ Cardinality(Sessions) \in Nat
      BY <2>1, FS_RemoveElement, FS_CardinalityType
    <2>3. Cardinality(S) <= Cardinality(Sessions \ {s})
      BY <2>2, FS_Subset
    <2>4. Cardinality(S) + 1 <= Cardinality(Sessions)
      BY <1>2, <2>2, <2>3
    <2>5. n = Len(first) + Cardinality(S)
      BY <1>2, <1>4, <1>5
    <2> QED
      BY <1>2, <1>5, <2>1, <2>2, <2>4, <2>5
  <1> HIDE DEF rest, all, n
  <1>7. PICK b : Taken(b, s, all)
    BY <1>1, <1>5, EmitTakes DEF all, rest, n
  <1>8. b = n
    <2>1. Len(all) = n
      BY DEF n
    <2> QED
      BY <1>5, <1>6, <1>7, <2>1 DEF Taken, Roomy
  <1>9. DOMAIN out'[s] = 1..n /\ \A i \in 1..n : out'[s][i] = all[i]
    <2>1. Len(all) = n
      BY DEF n
    <2>2. DOMAIN SubSeq(all, 1, n) = 1..n /\ \A i \in 1..n : SubSeq(all, 1, n)[i] = all[i]
      BY <1>5, <2>1
    <2>3. out'[s] = SubSeq(all, 1, n)
      BY <1>7, <1>8 DEF Taken, MessagesOK
    <2> QED
      BY <2>2, <2>3
  <1> SUFFICES ASSUME NEW t \in S
               PROVE  \E i \in DOMAIN out'[s] : out'[s][i] = Message(t, kind, s, r)
    OBVIOUS
  <1>10. PICK i \in DOMAIN order : order[i] = t
    BY <1>2
  <1>11. Len(first) + i \in 1..n /\ all[Len(first) + i] = Message(t, kind, s, r)
    BY <1>3, <1>5, <1>10
  <1> QED
    BY <1>9, <1>11

\* What the step of the turn of s emits says what it does to the room of s.
Says(s) ==
    /\ MoveTrue(s)' /\ NewsTrue(s)'
    /\ Fits /\ roomOf'[s] # roomOf[s] => ended'[s] \/ MovesDue(s)' # {}
    /\ Roomy => \A t \in Sessions \ {s} :
         roomOf[t] # NoRoom /\ roomOf'[s] # roomOf[s] /\ roomOf[t] \in {roomOf[s], roomOf'[s]}
           => \E i \in DOMAIN out'[s] :
                out'[s][i].to = t /\ out'[s][i].kind \in News /\ out'[s][i].room = roomOf[t]

\* A step of the turn of s that delivers nothing, and what it must show.
LEMMA TurnTells ==
  ASSUME RoomInv, NEW s \in Sessions, UNCHANGED <<delivered, setup>>, out[s] = <<>>,
         Elsewhere(s), \A t \in Sessions \ {s} : roomOf'[t] = roomOf[t],
         ended[s] => ended'[s], Says(s)
  PROVE  RoomInv'
  <1>1. MovesDue(s) = {} /\ \A t : NewsDue(t, s) = {}
    BY DEF MovesDue, NewsDue
  <1>2. /\ \A t \in Sessions : MovesAt(t)' = MovesAt(t) /\ (Closed(t)' <=> Closed(t))
        /\ (Fits' <=> Fits) /\ (Roomy => Fits)
    BY DEF MovesAt, OwnAt, Closed, Fits, Roomy
  <1>3. ASSUME NEW t \in Sessions, t # s
        PROVE  /\ out'[t] = out[t] /\ ended'[t] = ended[t] /\ roomOf'[t] = roomOf[t]
               /\ MovesDue(t)' = MovesDue(t)
    BY <1>3 DEF Elsewhere, MovesDue
  <1>4. ASSUME NEW t \in Sessions, t # s
        PROVE  MoveTrue(t)' /\ NewsTrue(t)' /\ AnswerTold(t)'
    <2>1. MoveTrue(t) /\ NewsTrue(t) /\ AnswerTold(t)
      BY DEF RoomInv
    <2> QED
      BY <1>2, <1>3, <1>4, <2>1 DEF MoveTrue, NewsTrue, AnswerTold
  <1>5. MoveTrue(s)' /\ NewsTrue(s)'
    BY DEF Says
  <1>6. AnswerTold(s)'
    <2>1. AnswerTold(s)
      BY DEF RoomInv
    <2>2. Fits /\ MovesDue(s)' = {} /\ ~ended'[s] => roomOf'[s] = roomOf[s]
      BY DEF Says
    <2> QED
      BY <1>1, <1>2, <2>1, <2>2 DEF AnswerTold
  <1>7. ASSUME Roomy, NEW t \in Sessions, NEW u \in Sessions, t # u,
               ~Closed(t)', ~ended'[t], roomOf'[t] # NoRoom, MovesDue(t)' = {}, NewsDue(t, u)' = {}
        PROVE  \/ Heard(t, u)' = {}
               \/ \E i \in Heard(t, u)' :
                    /\ IsLast(i, Heard(t, u)')
                    /\ delivered'[t][i].kind = "JOIN" <=> roomOf'[u] = roomOf'[t]
    <2>1. NewsTold(t, u)
      BY <1>7 DEF RoomInv
    <2>2. roomOf'[t] = roomOf[t] /\ ~ended[t] /\ MovesDue(t) = {} /\ ~Closed(t)
      <3>1. CASE t = s
        BY <1>1, <1>2, <1>7, <3>1 DEF Says
      <3>2. CASE t # s
        BY <1>2, <1>3, <1>7, <3>2
      <3> QED
        BY <3>1, <3>2
    <2>3. Heard(t, u)' = Heard(t, u)
      BY <2>2 DEF Heard
    <2>4. NewsDue(t, u) = {}
      <3>1. CASE u = s
        BY <1>1, <3>1
      <3>2. CASE u # s
        BY <1>3, <1>7, <2>2, <3>2 DEF NewsDue
      <3> QED
        BY <3>1, <3>2
    <2>5. roomOf'[u] = roomOf'[t] <=> roomOf[u] = roomOf[t]
      <3>1. CASE u # s
        BY <1>3, <2>2, <3>1
      <3>2. CASE u = s
        <4>1. ~\E i \in DOMAIN out'[s] :
                out'[s][i].to = t /\ out'[s][i].kind \in News /\ out'[s][i].room = roomOf[t]
          BY <1>7, <2>2, <3>2 DEF NewsDue
        <4>2. t \in Sessions \ {s} /\ roomOf[t] # NoRoom
          BY <1>7, <2>2, <3>2
        <4>3. roomOf'[s] = roomOf[s] \/ roomOf[t] \notin {roomOf[s], roomOf'[s]}
          BY <1>7, <4>1, <4>2 DEF Says
        <4> QED
          BY <2>2, <3>2, <4>3
      <3> QED
        BY <3>1, <3>2
    <2>6. \/ Heard(t, u) = {}
          \/ \E i \in Heard(t, u) :
               /\ IsLast(i, Heard(t, u))
               /\ delivered[t][i].kind = "JOIN" <=> roomOf[u] = roomOf[t]
      BY <1>7, <2>1, <2>2, <2>4 DEF NewsTold
    <2> QED
      BY <2>3, <2>5, <2>6
  <1>8. Roomy' => \A t, u \in Sessions : t # u => NewsTold(t, u)'
    <2>1. Roomy' => Roomy
      BY DEF Roomy, Fits
    <2>2. ASSUME Roomy, NEW t \in Sessions, NEW u \in Sessions, t # u PROVE NewsTold(t, u)'
      BY <1>7, <2>2 DEF NewsTold, IsLast
    <2> QED
      BY <2>1, <2>2
  <1> QED
    BY <1>4, <1>5, <1>6, <1>8 DEF RoomInv

\* A step that leaves the room alone has nothing to say about it.
LEMMA SaysNothing ==
  ASSUME NEW s \in Sessions, roomOf'[s] = roomOf[s],
         \A i \in DOMAIN out'[s] : out'[s][i].kind \notin Moves \cup News
  PROVE  Says(s)
  <1>1. MovesDue(s)' = {}
    BY DEF MovesDue
  <1> QED
    BY <1>1 DEF Says, MoveTrue, NewsTrue

\* Neither has a single message of another kind, ...
LEMMA OneSaysNothing ==
  ASSUME MessagesOK, NEW s \in Sessions, NEW kind \in Kinds \ (Moves \cup News),
         roomOf'[s] = roomOf[s],
         out' = [out EXCEPT ![s] = <<Answer(s, kind)>>] \/ Emit(s, <<Answer(s, kind)>>)
  PROVE  Says(s)
  <1>1. \/ out' = [out EXCEPT ![s] = <<Answer(s, kind)>>]
        \/ out' = [out EXCEPT ![s] = <<>>]
    BY EmitOne
  <1>2. \A i \in DOMAIN out'[s] : out'[s][i].kind = kind
    <2>1. CASE out' = [out EXCEPT ![s] = <<Answer(s, kind)>>]
      <3>1. OneMessage(s, kind)
        BY <2>1, OneEmitted
      <3> QED
        BY <3>1 DEF OneMessage
    <2>2. CASE out' = [out EXCEPT ![s] = <<>>]
      BY <2>2 DEF MessagesOK
    <2> QED
      BY <1>1, <2>1, <2>2
  <1> QED
    BY <1>2, SaysNothing

LEMMA RefusedSays ==
  ASSUME MessagesOK, NEW s \in Sessions, Refused(s)
  PROVE  Says(s)
  <1>1. "Error" \in Kinds \ (Moves \cup News)
    BY DEF Kinds, Disconnecting, Moves, News
  <1> QED
    BY <1>1, OneSaysNothing DEF Refused, vars

\* ... nor a broadcast of another kind.
LEMMA EachSaysNothing ==
  ASSUME MessagesOK, NEW s \in Sessions, NEW S \in SUBSET Sessions, NEW r \in Nat,
         NEW kind \in Kinds \ (Moves \cup News), roomOf'[s] = roomOf[s],
         ToEach(S, kind, s, r, <<>>)
  PROVE  Says(s)
  <1>1. <<>> \in Seq(Messages) /\ DOMAIN <<>> = {}
    OBVIOUS
  <1>2. BroadcastIs(S, kind, s, r, <<>>)
    BY <1>1, ToEachIs
  <1>3. \A t : Message(t, kind, s, r).kind = kind
    BY DEF Message
  <1>4. \A i \in DOMAIN out'[s] : out'[s][i].kind = kind
    BY <1>1, <1>2, <1>3 DEF BroadcastIs
  <1> QED
    BY <1>4, SaysNothing

\* The messages of a turn that moves the session: its answer, if it has one, and
\* then the news to others.
Moved(S, kind, answer, s, r, first) ==
    /\ \A i \in DOMAIN out'[s] :
         \/ /\ i = 1 /\ out'[s][i].kind = answer /\ out'[s][i].to = s /\ out'[s][i].room = r
            /\ first # <<>>
         \/ out'[s][i].kind = kind /\ out'[s][i].room = r
    /\ Fits /\ first # <<>> => 1 \in DOMAIN out'[s] /\ out'[s][1].kind = answer
    /\ Roomy => \A t \in S : \E i \in DOMAIN out'[s] :
         out'[s][i].to = t /\ out'[s][i].kind = kind /\ out'[s][i].room = r

LEMMA MoveIs ==
  ASSUME MessagesOK, NEW s \in Sessions, NEW S \in SUBSET (Sessions \ {s}), NEW kind \in News,
         NEW answer \in Moves, NEW r \in Nat, NEW first,
         first = <<>> \/ first = <<Message(s, answer, s, r)>>,
         ToEach(S, kind, s, r, first)
  PROVE  Moved(S, kind, answer, s, r, first)
  <1>1. kind \in Kinds /\ answer \in Kinds
    BY DEF News, Moves, Kinds
  <1>2. ASSUME NEW t, NEW k
        PROVE  /\ Message(t, k, s, r).to = t /\ Message(t, k, s, r).kind = k
               /\ Message(t, k, s, r).room = r
    BY DEF Message
  <1> DEFINE m == Message(s, answer, s, r)
  <1>3. m \in Messages
    BY <1>1, AnswerIs
  <1>4. m.kind = answer /\ m.to = s /\ m.room = r
    BY <1>2
  <1>5. first = <<>> \/ first = <<m>>
    OBVIOUS
  <1> HIDE DEF m
  <1>6. /\ first \in Seq(Messages) /\ Len(first) <= 1
        /\ \A i \in DOMAIN first : i = 1 /\ first[i] = m /\ first # <<>>
        /\ first # <<>> => 1 \in DOMAIN first
    <2>1. <<>> \in Seq(Messages) /\ Len(<<>>) <= 1 /\ DOMAIN <<>> = {}
      OBVIOUS
    <2>2. /\ <<m>> \in Seq(Messages) /\ Len(<<m>>) <= 1 /\ DOMAIN <<m>> = {1}
          /\ <<m>>[1] = m /\ <<m>> # <<>>
      BY <1>3
    <2> QED
      BY <1>5, <2>1, <2>2
  <1>7. BroadcastIs(S, kind, s, r, first)
    <2>1. S \in SUBSET Sessions
      OBVIOUS
    <2> QED
      BY <1>1, <1>6, <2>1, ToEachIs
  <1>8. ASSUME NEW i \in DOMAIN out'[s]
        PROVE  \/ /\ i = 1 /\ out'[s][i].kind = answer /\ out'[s][i].to = s
                  /\ out'[s][i].room = r /\ first # <<>>
               \/ out'[s][i].kind = kind /\ out'[s][i].room = r
    <2>1. CASE i \in DOMAIN first /\ out'[s][i] = first[i]
      BY <1>4, <1>6, <2>1
    <2>2. CASE \E t \in S : out'[s][i] = Message(t, kind, s, r)
      BY <1>2, <2>2
    <2> QED
      BY <1>7, <2>1, <2>2 DEF BroadcastIs
  <1>9. Fits /\ first # <<>> => 1 \in DOMAIN out'[s] /\ out'[s][1].kind = answer
    BY <1>4, <1>6, <1>7 DEF BroadcastIs
  <1>10. ASSUME Roomy, NEW t \in S
         PROVE  \E i \in DOMAIN out'[s] :
                  out'[s][i].to = t /\ out'[s][i].kind = kind /\ out'[s][i].room = r
    <2>1. \E i \in DOMAIN out'[s] : out'[s][i] = Message(t, kind, s, r)
      BY <1>1, <1>6, <1>10, NobodyLeftOut
    <2> QED
      BY <1>2, <2>1
  <1> QED
    BY <1>8, <1>9, <1>10 DEF Moved

\* Who is in a room, by room_by_session_.
LEMMA InSameRoom ==
  ASSUME IInv, NEW s \in Sessions
  PROVE  /\ roomOf[s] \in RoomIds \cup {NoRoom} /\ RoomIds \subseteq Nat /\ NoRoom \notin RoomIds
         /\ roomOf[s] # NoRoom => roomOf[s] \in open /\ roomOf[s] < nextRoomId
         /\ \A t \in Sessions : roomOf[s] # NoRoom /\ roomOf[t] = roomOf[s] => t \in members[roomOf[s]]
         /\ \A r \in RoomIds : members[r] \subseteq Sessions
  <1>1. roomOf[s] \in RoomIds \cup {NoRoom} /\ RoomIds \subseteq Nat /\ NoRoom \notin RoomIds
    BY RoomAssumption DEF IInv, TypeOK, RoomIds, NoRoom
  <1>2. \A t \in Sessions : roomOf[s] # NoRoom /\ roomOf[t] = roomOf[s] => t \in members[roomOf[s]]
    BY <1>1 DEF IInv, MembershipConsistent
  <1>3. roomOf[s] # NoRoom => roomOf[s] \in open
    BY <1>1, <1>2 DEF IInv, OpenIffOccupied
  <1>4. \A r \in open : r < nextRoomId
    BY DEF IInv, TypeOK
  <1>5. \A r \in RoomIds : members[r] \subseteq Sessions
    BY DEF IInv, TypeOK
  <1> QED
    BY <1>1, <1>2, <1>3, <1>4, <1>5

\* A new room has nobody to tell.
LEMMA CreateSays ==
  ASSUME MessagesOK, IInv, NEW s \in Sessions, CreateRoom(s),
         Emit(s, <<Message(s, "CreateRoomRes", s, result'.room)>>)
  PROVE  Says(s)
  <1> DEFINE m == Message(s, "CreateRoomRes", s, nextRoomId)
  <1>1. /\ m.kind = "CreateRoomRes" /\ m.to = s /\ m.room = nextRoomId
    BY DEF Message
  <1>2. /\ result'.room = nextRoomId /\ roomOf'[s] = nextRoomId /\ roomOf[s] = NoRoom
        /\ nextRoomId \in Nat
    BY RoomAssumption DEF CreateRoom, InLobby, OpenRoom, Reply, IInv, TypeOK
  <1>3. out'[s] = <<m>> \/ (~Fits /\ out'[s] = <<>>)
    BY <1>2, EmitOne DEF MessagesOK
  <1> HIDE DEF m
  <1>4. /\ \A i \in DOMAIN out'[s] : i = 1 /\ out'[s][i] = m
        /\ Fits => 1 \in DOMAIN out'[s]
    BY <1>3
  <1>5. MovesDue(s)' \subseteq {1} /\ (Fits => MovesDue(s)' # {})
    BY <1>1, <1>4 DEF MovesDue, Moves
  <1>6. Told(m) = nextRoomId
    BY <1>1 DEF Told
  <1>7. MoveTrue(s)'
    BY <1>1, <1>2, <1>4, <1>5, <1>6 DEF MoveTrue, MovesDue
  <1>8. NewsTrue(s)'
    BY <1>1, <1>4 DEF NewsTrue, News
  <1>9. ASSUME NEW t \in Sessions, roomOf[t] # NoRoom PROVE roomOf[t] \notin {roomOf[s], roomOf'[s]}
    <2>1. roomOf[t] < nextRoomId /\ roomOf[t] \in Nat
      BY <1>9, InSameRoom
    <2> QED
      BY <1>2, <1>9, <2>1
  <1> QED
    BY <1>5, <1>7, <1>8, <1>9 DEF Says

\* What joining and leaving say, and to whom.
LEMMA MoveSays ==
  ASSUME MessagesOK, IInv, NEW s \in Sessions, NEW S, NEW kind \in News, NEW answer \in Moves,
         NEW r \in RoomIds, NEW first, first = <<>> \/ first = <<Message(s, answer, s, r)>>,
         S = members[r] \ {s}, ToEach(S, kind, s, r, first),
         roomOf[s] \in {NoRoom, r}, roomOf'[s] \in {NoRoom, r},
         kind = "JOIN" <=> roomOf'[s] = r,
         first # <<>> => roomOf'[s] = (IF answer = "LeaveRoomRes" THEN NoRoom ELSE r),
         first = <<>> => ended'[s]
  PROVE  Says(s)
  <1>1. S \in SUBSET (Sessions \ {s}) /\ r \in Nat /\ r # NoRoom
    BY InSameRoom
  <1>2. Moved(S, kind, answer, s, r, first)
    BY <1>1, MoveIs
  <1>3. kind \notin Moves /\ answer \notin News
    BY DEF Moves, News
  <1>4. MoveTrue(s)'
    BY <1>2, <1>3 DEF MoveTrue, MovesDue, Told, Moved
  <1>5. NewsTrue(s)'
    BY <1>1, <1>2, <1>3 DEF NewsTrue, Moved
  <1>6. Fits => ended'[s] \/ MovesDue(s)' # {}
    BY <1>2 DEF MovesDue, Moved
  <1>7. ASSUME Roomy, NEW t \in Sessions \ {s}, roomOf[t] # NoRoom,
               roomOf[t] \in {roomOf[s], roomOf'[s]}
        PROVE  \E i \in DOMAIN out'[s] :
                 out'[s][i].to = t /\ out'[s][i].kind \in News /\ out'[s][i].room = roomOf[t]
    <2>1. roomOf[t] = r
      BY <1>7
    <2>2. t \in S
      BY <1>7, <2>1, InSameRoom
    <2> QED
      BY <1>2, <1>7, <2>1, <2>2 DEF Moved
  <1> QED
    BY <1>4, <1>5, <1>6, <1>7 DEF Says

\* Every request says what it does.
LEMMA RequestSays ==
  ASSUME MessagesOK, IInv, NEW s \in Sessions, NEW p, Request(s, p)
  PROVE  Says(s)
  <1>1. /\ {"CHAT", "POSITION", "Pong"} \subseteq Kinds \ (Moves \cup News)
        /\ {"JoinRoomRes", "LeaveRoomRes"} \subseteq Moves /\ {"JOIN", "LEAVE"} \subseteq News
    BY DEF Kinds, Disconnecting, Moves, News
  <1>2. /\ users \subseteq Sessions /\ roomOf \in [Sessions -> RoomIds \cup {NoRoom}]
        /\ RoomIds \subseteq Nat /\ NoRoom \notin RoomIds /\ NoRoom \in Nat
        /\ roomOf[s] # NoRoom => roomOf[s] \in open
    BY InSameRoom DEF IInv, TypeOK, NoRoom
  <1>3. CASE Refused(s)
    BY <1>3, RefusedSays
  <1>4. CASE CreateRoomReq(s)
    BY <1>3, <1>4, CreateSays DEF CreateRoomReq
  <1>5. CASE JoinRoomReq(s)
    <2>1. ASSUME NEW r \in RoomIds, JoinRoom(s, r),
                 ToEach(result'.recipients \ {s}, "JOIN", s, r, <<Message(s, "JoinRoomRes", s, r)>>)
          PROVE  Says(s)
      <3>1. result'.recipients \ {s} = members[r] \ {s}
        BY <2>1 DEF JoinRoom, Reply
      <3>2. roomOf[s] = NoRoom /\ roomOf'[s] = r
        BY <1>2, <2>1 DEF JoinRoom, InLobby
      <3>3. <<Message(s, "JoinRoomRes", s, r)>> # <<>> /\ "JoinRoomRes" # "LeaveRoomRes"
        OBVIOUS
      <3> QED
        BY <1>1, <2>1, <3>1, <3>2, <3>3, MoveSays
    <2> QED
      BY <1>3, <1>5, <2>1 DEF JoinRoomReq
  <1>6. CASE LeaveRoomReq(s)
    <2>1. CASE LeaveRoom(s) /\ ToEach(result'.recipients \ {s}, "LEAVE", s, roomOf[s],
                 <<Message(s, "LeaveRoomRes", s, roomOf[s])>>)
      <3>1. roomOf[s] \in open /\ roomOf[s] \in RoomIds
        BY <1>2, <2>1 DEF LeaveRoom, InRoom
      <3>2. result'.recipients \ {s} = members[roomOf[s]] \ {s} /\ roomOf'[s] = NoRoom
        BY <1>2, <2>1, <3>1 DEF LeaveRoom, Reply
      <3>3. <<Message(s, "LeaveRoomRes", s, roomOf[s])>> # <<>>
        OBVIOUS
      <3>4. /\ "LEAVE" = "JOIN" <=> roomOf'[s] = roomOf[s]
            /\ roomOf'[s] = (IF "LeaveRoomRes" = "LeaveRoomRes" THEN NoRoom ELSE roomOf[s])
        BY <1>2, <3>1, <3>2
      <3> QED
        BY <1>1, <2>1, <3>1, <3>2, <3>3, <3>4, MoveSays
    <2> QED
      BY <1>3, <1>6, <2>1 DEF LeaveRoomReq
  <1>7. CASE ChatReq(s)
    <2>1. CASE Chat(s) /\ ToEach(result'.recipients, "CHAT", s, roomOf[s], <<>>)
      <3>1. result'.recipients \in SUBSET Sessions /\ roomOf[s] \in Nat /\ roomOf' = roomOf
        BY <1>2, <2>1, RecipientsAreUsers DEF Chat
      <3> QED
        BY <1>1, <2>1, <3>1, EachSaysNothing
    <2> QED
      BY <1>3, <1>7, <2>1 DEF ChatReq
  <1>8. CASE PositionUpdate(s)
    <2>1. CASE UpdatePosition(s) /\ ToEach(result'.recipients, "POSITION", s, roomOf[s], <<>>)
      <3>1. result'.recipients \in SUBSET Sessions /\ roomOf[s] \in Nat /\ roomOf' = roomOf
        BY <1>2, <2>1, RecipientsAreUsers DEF UpdatePosition
      <3> QED
        BY <1>1, <2>1, <3>1, EachSaysNothing
    <2> QED
      BY <1>3, <1>8, <2>1 DEF PositionUpdate
  <1>9. CASE Ping(s)
    BY <1>1, <1>9, OneSaysNothing DEF Ping, vars
  <1> QED
    BY <1>3, <1>4, <1>5, <1>6, <1>7, <1>8, <1>9 DEF Request

\* handleNegotiation and taking the version back: no room is concerned.
LEMMA NegotiateTells ==
  ASSUME RoomInv, VersionInv, GhostInv, NEW s \in Sessions, NEW p,
         Negotiate(s, p) \/ TakeBack(s), setup' = setup
  PROVE  RoomInv'
  <1>1. MessagesOK /\ RouterTypeOK
    BY DEF VersionInv, GhostInv
  <1>2. UNCHANGED <<roomOf, ended, delivered>> /\ stage[s] # "publish"
    BY DEF Negotiate, TakesPacket, MayStart, TakeBack, vars
  <1>3. out[s] = <<>>
    BY <1>2, QuietOwes
  <1>4. /\ \A t \in Sessions \ {s} : version'[t] = version[t] /\ stage'[t] = stage[t]
    BY <1>1 DEF Negotiate, TakeBack, RouterTypeOK
  <1>5. ASSUME NEW kind \in {"VersionRes"} \cup Disconnecting,
               out' = [out EXCEPT ![s] = <<Answer(s, kind)>>]
        PROVE  RoomInv'
    <2>1. kind \in Kinds \ (Moves \cup News)
      BY <1>5 DEF Kinds, Disconnecting, Moves, News
    <2>2. Says(s)
      BY <1>1, <1>2, <1>5, <2>1, OneSaysNothing
    <2>3. Elsewhere(s)
      BY <1>1, <1>2, <1>4, <1>5 DEF Elsewhere, MessagesOK
    <2> QED
      BY <1>2, <1>3, <2>2, <2>3, TurnTells
  <1>6. CASE out' = out
    <2>1. Says(s)
      BY <1>2, <1>3, <1>6, SaysNothing
    <2>2. Elsewhere(s)
      BY <1>2, <1>4, <1>6 DEF Elsewhere
    <2> QED
      BY <1>2, <1>3, <2>1, <2>2, TurnTells
  <1> QED
    BY <1>5, <1>6 DEF Negotiate, TakeBack, Disconnecting

\* A request.
LEMMA RequestTells ==
  ASSUME RoomInv, VersionInv, GhostInv, NEW s \in Sessions, NEW p, Request(s, p),
         setup' = setup
  PROVE  RoomInv'
  <1>1. MessagesOK /\ RouterTypeOK /\ IInv
    BY DEF VersionInv, GhostInv
  <1>2. UNCHANGED <<version, ended, delivered>> /\ stage[s] # "publish"
    BY DEF Request, TakesPacket, MayStart
  <1>3. out[s] = <<>>
    BY <1>2, QuietOwes
  <1>4. \A t \in Sessions \ {s} : stage'[t] = stage[t]
    BY <1>1 DEF Request, RouterTypeOK
  <1>5. Elsewhere(s)
    BY <1>1, <1>2, <1>4, RequestOrdinary DEF Elsewhere, OutOrdinary
  <1>6. \A t \in Sessions \ {s} : roomOf'[t] = roomOf[t]
    <2>1. roomOf' = roomOf \/ \E r : roomOf' = [roomOf EXCEPT ![s] = r]
      BY DEF Request, CreateRoomReq, JoinRoomReq, LeaveRoomReq, ChatReq, PositionUpdate, Ping,
             Refused, vars, CreateRoom, OpenRoom, JoinRoom, LeaveRoom, Chat, UpdatePosition
    <2>2. roomOf \in [Sessions -> RoomIds \cup {NoRoom}]
      BY <1>1 DEF IInv, TypeOK
    <2> QED
      BY <2>1, <2>2
  <1>7. Says(s)
    BY <1>1, RequestSays
  <1> QED
    BY <1>2, <1>3, <1>5, <1>6, <1>7, TurnTells

\* A login.
LEMMA LoginTells ==
  ASSUME RoomInv, VersionInv, GhostInv, NEW s \in Sessions, LoginReq(s) \/ LoginCallback(s),
         setup' = setup
  PROVE  RoomInv'
  <1>1. MessagesOK /\ RouterTypeOK
    BY DEF VersionInv, GhostInv
  <1>2. UNCHANGED <<roomOf, version, ended, delivered>>
    BY DEF LoginReq, LoginCallback, AttachUser, Refused, vars
  <1>3. stage[s] # "publish"
    BY DEF LoginReq, TakesPacket, MayStart, LoginCallback, GhostInv, LoginsDeferred
  <1>4. out[s] = <<>>
    BY <1>3, QuietOwes
  <1>5. \A t \in Sessions \ {s} : stage'[t] = stage[t]
    BY <1>1 DEF LoginReq, LoginCallback, RouterTypeOK
  <1>6. ASSUME NEW kind \in {"LoginRes", "Error", "DisconnectSession"},
               out' = [out EXCEPT ![s] = <<Answer(s, kind)>>] \/ Emit(s, <<Answer(s, kind)>>)
        PROVE  RoomInv'
    <2>1. kind \in Kinds \ (Moves \cup News)
      BY <1>6 DEF Kinds, Disconnecting, Moves, News
    <2>2. Says(s)
      BY <1>1, <1>2, <1>6, <2>1, OneSaysNothing
    <2>3. Elsewhere(s)
      <3>1. \A t \in Sessions \ {s} : out'[t] = out[t]
        BY <1>1, <1>6, EmitOne DEF MessagesOK
      <3> QED
        BY <1>2, <1>5, <3>1 DEF Elsewhere
    <2> QED
      BY <1>2, <1>4, <2>2, <2>3, TurnTells
  <1>7. CASE out' = out
    <2>1. Says(s)
      BY <1>2, <1>4, <1>7, SaysNothing
    <2>2. Elsewhere(s)
      BY <1>2, <1>5, <1>7 DEF Elsewhere
    <2> QED
      BY <1>2, <1>4, <2>1, <2>2, TurnTells
  <1> QED
    BY <1>6, <1>7 DEF LoginReq, LoginCallback, Refused

\* Disconnected: who leaves its room by it is not told, the others are.
LEMMA DisconnectedTells ==
  ASSUME RoomInv, VersionInv, GhostInv, NEW s \in Sessions, Disconnected(s) \/ Leaving(s),
         setup' = setup
  PROVE  RoomInv'
  <1>1. MessagesOK /\ RouterTypeOK /\ IInv
    BY DEF VersionInv, GhostInv
  <1>2. delivered' = delivered /\ stage[s] # "publish" /\ (ended[s] => ended'[s])
    BY <1>1 DEF Disconnected, MayStart, Leaving, RouterTypeOK
  <1>3. out[s] = <<>>
    BY <1>2, QuietOwes
  <1>4. \A t \in Sessions \ {s} : /\ version'[t] = version[t] /\ stage'[t] = stage[t]
                                  /\ ended'[t] = ended[t]
    BY <1>1 DEF Disconnected, Leaving, RouterTypeOK
  <1>5. ASSUME out' = out, roomOf' = roomOf
        PROVE  RoomInv'
    <2>1. Says(s)
      BY <1>3, <1>5, SaysNothing
    <2>2. Elsewhere(s)
      BY <1>4, <1>5 DEF Elsewhere
    <2> QED
      BY <1>2, <1>3, <1>5, <2>1, <2>2, TurnTells
  <1>6. CASE Leaving(s) /\ Disconnect(s)
             /\ ToEach(result'.recipients \ {s}, "LEAVE", s, result'.room, <<>>)
    <2>1. ended'[s]
      BY <1>6 DEF Leaving, GhostInv, LeavingEnded
    <2>2. /\ roomOf[s] \in RoomIds \cup {NoRoom} /\ RoomIds \subseteq Nat /\ NoRoom \notin RoomIds
          /\ roomOf[s] # NoRoom => roomOf[s] \in open
      BY <1>1, InSameRoom
    <2>3. roomOf \in [Sessions -> RoomIds \cup {NoRoom}] /\ open \subseteq RoomIds
      BY <1>1 DEF IInv, TypeOK
    <2>4. roomOf'[s] = NoRoom /\ \A t \in Sessions \ {s} : roomOf'[t] = roomOf[t]
      BY <1>6, <2>3 DEF Disconnect
    <2>5. \A t \in Sessions \ {s} : out'[t] = out[t]
      BY <1>1, <1>6 DEF ToEach, Emit, MessagesOK
    <2>6. Elsewhere(s)
      BY <1>4, <2>5 DEF Elsewhere
    <2>7. Says(s)
      <3>1. CASE roomOf[s] \in open
        <4>1. /\ result'.recipients \ {s} = members[roomOf[s]] \ {s} /\ result'.room = roomOf[s]
              /\ roomOf[s] \in RoomIds
          BY <1>6, <2>3, <3>1 DEF Disconnect, Reply
        <4>2. "LEAVE" \in News /\ "LeaveRoomRes" \in Moves
          BY DEF News, Moves
        <4>3. "LEAVE" = "JOIN" <=> roomOf'[s] = roomOf[s]
          BY <2>2, <2>4, <4>1
        <4> QED
          BY <1>1, <1>6, <2>1, <2>4, <4>1, <4>2, <4>3, MoveSays
      <3>2. CASE roomOf[s] \notin open
        <4>1. result'.recipients \ {s} = {} /\ result'.room = NoRoom
          BY <1>6, <3>2 DEF Disconnect, Reply
        <4>2. roomOf'[s] = roomOf[s]
          BY <2>2, <2>4, <3>2
        <4>3. {} \in SUBSET Sessions /\ NoRoom \in Nat
              /\ <<>> \in Seq(Messages) /\ DOMAIN <<>> = {} /\ "LEAVE" \in Kinds
          BY DEF Kinds, NoRoom
        <4>4. BroadcastIs({}, "LEAVE", s, NoRoom, <<>>)
          BY <1>1, <1>6, <4>1, <4>3, ToEachIs
        <4>5. DOMAIN out'[s] = {}
          BY <4>3, <4>4 DEF BroadcastIs
        <4> QED
          BY <4>2, <4>5, SaysNothing
      <3> QED
        BY <3>1, <3>2
    <2> QED
      BY <1>2, <1>3, <2>4, <2>6, <2>7, TurnTells
  <1> QED
    BY <1>5, <1>6 DEF Disconnected, Leaving, vars

\* What a turn has yet to say when its first message is published.
LEMMA TailSays ==
  ASSUME RoomInv, MessagesOK, NEW s \in Sessions, out[s] # <<>>, UNCHANGED roomOf,
         out' = [out EXCEPT ![s] = Tail(@)]
  PROVE  /\ MovesDue(s)' = {} /\ NewsTrue(s)'
         /\ 1 \in DOMAIN out[s] /\ Head(out[s]) = out[s][1]
         /\ Head(out[s]).kind \notin Moves => MovesDue(s) = {}
         /\ \A t \in Sessions : NewsDue(t, s)' = {} =>
              \/ NewsDue(t, s) = {}
              \/ /\ Head(out[s]).to = t /\ Head(out[s]).kind \in News
                 /\ Head(out[s]).room = roomOf[t]
  <1> DEFINE n == Len(out[s])
  <1>1. out[s] \in Seq(Messages) /\ n \in Nat /\ n > 0 /\ DOMAIN out[s] = 1..n
        /\ Head(out[s]) = out[s][1] /\ out'[s] = Tail(out[s])
    BY DEF MessagesOK
  <1>2. DOMAIN out'[s] = 1..(n - 1) /\ \A i \in 1..(n - 1) : out'[s][i] = out[s][i + 1]
    <2>1. /\ DOMAIN Tail(out[s]) = 1..(Len(out[s]) - 1)
          /\ \A i \in 1..(Len(out[s]) - 1) : Tail(out[s])[i] = out[s][i + 1]
      <3>1. out[s] \in Seq(Messages) /\ Len(out[s]) \in Nat /\ Len(out[s]) > 0
        BY <1>1
      <3> QED
        BY ONLY <3>1
    <2>2. out'[s] = Tail(out[s])
      BY <1>1
    <2> QED
      BY ONLY <2>1, <2>2
  <1>3. 1 \in 1..n /\ \A i \in 1..(n - 1) : i + 1 \in 1..n /\ i + 1 # 1
    BY <1>1
  <1>4. \A i \in 1..n : i # 1 => i - 1 \in 1..(n - 1) /\ (i - 1) + 1 = i
    BY <1>1
  <1>5. MoveTrue(s) /\ NewsTrue(s)
    BY DEF RoomInv
  <1> HIDE DEF n
  <1>6. MovesDue(s)' = {}
    <2> SUFFICES ASSUME NEW i \in MovesDue(s)' PROVE FALSE
      OBVIOUS
    <2>1. i \in 1..(n - 1) /\ out'[s][i].kind \in Moves
      BY <1>2 DEF MovesDue
    <2>2. i + 1 \in MovesDue(s) /\ i + 1 # 1
      BY <1>1, <1>2, <1>3, <2>1 DEF MovesDue
    <2> QED
      BY <1>5, <2>2 DEF MoveTrue
  <1>7. NewsTrue(s)'
    BY <1>1, <1>2, <1>3, <1>5 DEF NewsTrue
  <1>8. Head(out[s]).kind \notin Moves => MovesDue(s) = {}
    BY <1>1, <1>5 DEF MovesDue, MoveTrue
  <1>9. ASSUME NEW t \in Sessions, NewsDue(t, s)' = {}, NEW i \in NewsDue(t, s)
        PROVE  /\ Head(out[s]).to = t /\ Head(out[s]).kind \in News
               /\ Head(out[s]).room = roomOf[t]
    <2>1. CASE i = 1
      BY <1>1, <1>9, <2>1 DEF NewsDue
    <2>2. CASE i # 1
      <3>1. i \in 1..n
        BY <1>1 DEF NewsDue
      <3>2. i - 1 \in DOMAIN out'[s] /\ out'[s][i - 1] = out[s][i]
        BY <1>2, <1>4, <2>2, <3>1
      <3>3. i - 1 \in NewsDue(t, s)'
        BY <1>9, <3>2 DEF NewsDue
      <3> QED
        BY <1>9, <3>3
    <2> QED
      BY <2>1, <2>2
  <1> QED
    BY <1>1, <1>3, <1>6, <1>7, <1>8, <1>9

\* What a session was told of rooms before and after a message to it.
ToldAfter(t, m, n) ==
    /\ \A i : i \in MovesAt(t)' <=>
                i \in MovesAt(t) \/ (i = n + 1 /\ m.from = t /\ m.kind \in Moves)
    /\ m.kind \in Entries => \A u : Heard(t, u)' = {}
    /\ m.kind \notin Entries => \A u : \A i : i \in Heard(t, u)' <=>
         \/ i \in Heard(t, u)
         \/ i = n + 1 /\ m.kind \in News /\ m.from = u /\ m.room = roomOf[t]
    /\ \A i \in MovesAt(t) : i <= n + 1 /\ delivered'[t][i] = delivered[t][i]
    /\ \A u : \A i \in Heard(t, u) : i <= n + 1 /\ delivered'[t][i] = delivered[t][i]
    /\ delivered'[t][n + 1] = m

LEMMA DeliveredPlaces ==
  ASSUME MessagesOK, NEW t \in Sessions, NEW m \in Messages, NEW n, n = Len(delivered[t]),
         UNCHANGED roomOf, Longer(delivered'[t], delivered[t], m)
  PROVE  ToldAfter(t, m, n)
  <1>1. delivered[t] \in Seq(Messages) /\ n \in Nat /\ DOMAIN delivered[t] = 1..n
    BY DEF MessagesOK
  <1>2. \A i : i \in 1..(n + 1) <=> i \in 1..n \/ i = n + 1
    BY <1>1
  <1>3. /\ DOMAIN delivered'[t] = 1..(n + 1) /\ delivered'[t][n + 1] = m
        /\ \A i \in 1..n : delivered'[t][i] = delivered[t][i]
    BY DEF Longer
  <1>4. \A i \in 1..n : i < n + 1 /\ i <= n + 1 /\ ~(n + 1 < i)
    BY <1>1
  <1>5. ~(n + 1 < n + 1) /\ n + 1 \notin 1..n
    BY <1>1
  <1>6. \A i : i \in MovesAt(t)' <=>
                 i \in MovesAt(t) \/ (i = n + 1 /\ m.from = t /\ m.kind \in Moves)
    BY <1>1, <1>2, <1>3 DEF MovesAt, OwnAt, Moves
  <1> DEFINE entered == {i \in DOMAIN delivered[t] : delivered[t][i].kind \in Entries}
             after == {i \in DOMAIN delivered'[t] : delivered'[t][i].kind \in Entries}
  <1>7. ASSUME NEW u
        PROVE  /\ Heard(t, u) = {i \in DOMAIN delivered[t] :
                     /\ \A j \in entered : j < i
                     /\ delivered[t][i].kind \in News /\ delivered[t][i].from = u
                     /\ delivered[t][i].room = roomOf[t]}
               /\ Heard(t, u)' = {i \in DOMAIN delivered'[t] :
                     /\ \A j \in after : j < i
                     /\ delivered'[t][i].kind \in News /\ delivered'[t][i].from = u
                     /\ delivered'[t][i].room = roomOf[t]}
    BY DEF Heard, Entries, News
  <1>8. \A i : i \in after <=> i \in entered \/ (i = n + 1 /\ m.kind \in Entries)
    BY <1>1, <1>2, <1>3
  <1>9. entered \subseteq 1..n
    BY <1>1
  <1> HIDE DEF entered, after
  <1>10. ASSUME m.kind \in Entries, NEW u PROVE Heard(t, u)' = {}
    <2>1. n + 1 \in after
      BY <1>8, <1>10
    <2>2. \A i \in 1..(n + 1) : ~(n + 1 < i)
      BY <1>2, <1>4, <1>5
    <2> QED
      BY <1>3, <1>7, <2>1, <2>2
  <1>11. ASSUME m.kind \notin Entries, NEW u, NEW i
         PROVE  i \in Heard(t, u)' <=>
                  \/ i \in Heard(t, u)
                  \/ i = n + 1 /\ m.kind \in News /\ m.from = u /\ m.room = roomOf[t]
    <2>1. after = entered
      BY <1>8, <1>11
    <2>2. CASE i \in 1..n
      BY <1>1, <1>2, <1>3, <1>5, <1>7, <2>1, <2>2
    <2>3. CASE i = n + 1
      <3>1. \A j \in entered : j < n + 1
        BY <1>4, <1>9
      <3> QED
        BY <1>1, <1>2, <1>3, <1>5, <1>7, <2>1, <2>3, <3>1
    <2>4. CASE i \notin 1..(n + 1)
      BY <1>1, <1>2, <1>3, <1>7, <2>4
    <2> QED
      BY <1>2, <2>2, <2>3, <2>4
  <1>12. \A i \in MovesAt(t) : i \in 1..n
    BY <1>1 DEF MovesAt, OwnAt
  <1>13. \A u : \A i \in Heard(t, u) : i \in 1..n
    BY <1>1, <1>7
  <1> QED
    BY <1>3, <1>4, <1>6, <1>10, <1>11, <1>12, <1>13 DEF ToldAfter

\* A message that its session gets.
LEMMA DeliverTells ==
  ASSUME RoomInv, VersionInv, NEW s \in Sessions, out[s] # <<>>,
         out' = [out EXCEPT ![s] = Tail(@)], NEW m, m = Head(out[s]),
         ~Closed(m.to), ~ended[m.to],
         delivered' = [delivered EXCEPT ![m.to] = Append(@, m)],
         UNCHANGED <<roomOf, ended, setup>>
  PROVE  RoomInv'
  <1> DEFINE t == m.to
             n == Len(delivered[t])
  <1>0. delivered' = [delivered EXCEPT ![t] = Append(delivered[t], m)] /\ ~Closed(t) /\ ~ended[t]
    OBVIOUS
  <1>1. m \in Messages /\ MayGo(s, m) /\ \A u \in Sessions \ {s} : out'[u] = out[u]
    BY TailEmitted
  <1>2. t \in Sessions /\ m.from = s /\ MessagesOK
    BY <1>1 DEF Messages, MayGo, VersionInv
  <1>3. /\ MovesDue(s)' = {} /\ NewsTrue(s)'
        /\ 1 \in DOMAIN out[s] /\ m = out[s][1]
        /\ m.kind \notin Moves => MovesDue(s) = {}
        /\ \A u \in Sessions : NewsDue(u, s)' = {} =>
             \/ NewsDue(u, s) = {}
             \/ t = u /\ m.kind \in News /\ m.room = roomOf[u]
    BY <1>2, TailSays
  <1>4. m.kind \in Moves => t = s /\ Told(m) = roomOf[s]
    <2>1. MoveTrue(s)
      BY DEF RoomInv
    <2> QED
      BY <1>3, <2>1 DEF MoveTrue, MovesDue
  <1>5. m.kind \in News => (m.kind = "JOIN" <=> roomOf[s] = m.room)
    <2>1. NewsTrue(s)
      BY DEF RoomInv
    <2> QED
      BY <1>3, <2>1 DEF NewsTrue
  <1> HIDE DEF t
  <1>6. /\ delivered[t] \in Seq(Messages) /\ n \in Nat
        /\ delivered'[t] = Append(delivered[t], m)
        /\ \A u \in Sessions \ {t} : delivered'[u] = delivered[u]
    BY <1>0, <1>2 DEF MessagesOK
  <1>7. Longer(delivered'[t], delivered[t], m)
    BY SMTT(40), <1>1, <1>6, AppendIs
  <1>8. /\ \A i : i \in MovesAt(t)' <=>
                    i \in MovesAt(t) \/ (i = n + 1 /\ m.from = t /\ m.kind \in Moves)
        /\ m.kind \in Entries => \A u : Heard(t, u)' = {}
        /\ m.kind \notin Entries => \A u : \A i : i \in Heard(t, u)' <=>
             \/ i \in Heard(t, u)
             \/ i = n + 1 /\ m.kind \in News /\ m.from = u /\ m.room = roomOf[t]
        /\ \A i \in MovesAt(t) : i <= n + 1 /\ delivered'[t][i] = delivered[t][i]
        /\ \A u : \A i \in Heard(t, u) : i <= n + 1 /\ delivered'[t][i] = delivered[t][i]
        /\ delivered'[t][n + 1] = m
    <2>1. ToldAfter(t, m, n)
      BY <1>1, <1>2, <1>7, DeliveredPlaces
    <2> HIDE DEF n
    <2> QED
      BY <2>1 DEF ToldAfter
  <1>9. n + 1 <= n + 1
    <2>1. n \in Nat
      BY <1>6, Zenon
    <2> QED
      BY ONLY <2>1
  <1> HIDE DEF n
  <1>10. ASSUME NEW u \in Sessions, u # t
         PROVE  /\ MovesAt(u)' = MovesAt(u) /\ (Closed(u)' <=> Closed(u))
                /\ delivered'[u] = delivered[u] /\ \A v : Heard(u, v)' = Heard(u, v)
    BY <1>6, <1>10 DEF MovesAt, OwnAt, Closed, Heard
  <1>11. ASSUME NEW u \in Sessions, u # s
         PROVE  MovesDue(u)' = MovesDue(u) /\ \A v : NewsDue(v, u)' = NewsDue(v, u)
    BY <1>1, <1>11 DEF MovesDue, NewsDue
  <1>12. ASSUME NEW u \in Sessions, ~Closed(u)' PROVE ~Closed(u)
    BY <1>0, <1>10, <1>12
  <1>13. ASSUME NEW u \in Sessions PROVE MoveTrue(u)' /\ NewsTrue(u)'
    <2>1. CASE u = s
      BY <1>3, <2>1 DEF MoveTrue
    <2>2. CASE u # s
      BY <1>1, <1>11, <2>2 DEF RoomInv, MoveTrue, NewsTrue
    <2> QED
      BY <2>1, <2>2
  <1>18. Fits' <=> Fits
    BY DEF Fits
  <1>14. ASSUME Fits, NEW u \in Sessions, ~Closed(u)', ~ended[u], MovesDue(u)' = {}
         PROVE  \/ MovesAt(u)' = {} /\ roomOf[u] = NoRoom
                \/ \E i \in MovesAt(u)' : /\ IsLast(i, MovesAt(u)')
                                          /\ Told(delivered'[u][i]) = roomOf[u]
    <2>1. CASE u = t /\ m.kind \in Moves
      <3>1. u = s /\ n + 1 \in MovesAt(u)' /\ Told(delivered'[u][n + 1]) = roomOf[u]
        BY <1>2, <1>4, <1>8, <2>1
      <3>2. IsLast(n + 1, MovesAt(u)')
        BY <1>8, <1>9, <2>1 DEF IsLast
      <3> QED
        BY <3>1, <3>2
    <2>2. CASE ~(u = t /\ m.kind \in Moves)
      <3>1. MovesDue(u) = {}
        BY <1>3, <1>4, <1>11, <1>14, <2>2
      <3>2. MovesAt(u)' = MovesAt(u) /\ \A i \in MovesAt(u) : delivered'[u][i] = delivered[u][i]
        <4>1. CASE u = t
          BY <1>8, <2>2, <4>1
        <4>2. CASE u # t
          BY <1>10, <4>2
        <4> QED
          BY <4>1, <4>2
      <3>3. AnswerTold(u)
        BY DEF RoomInv
      <3> QED
        BY <1>12, <1>14, <3>1, <3>2, <3>3 DEF AnswerTold
    <2> QED
      BY <2>1, <2>2
  <1>15. ASSUME Roomy, NEW u \in Sessions, NEW v \in Sessions, u # v, ~Closed(u)', ~ended[u],
                roomOf[u] # NoRoom, MovesDue(u)' = {}, NewsDue(u, v)' = {}
         PROVE  \/ Heard(u, v)' = {}
                \/ \E i \in Heard(u, v)' :
                     /\ IsLast(i, Heard(u, v)')
                     /\ delivered'[u][i].kind = "JOIN" <=> roomOf[v] = roomOf[u]
    <2>1. CASE u = t /\ m.kind \in Entries
      BY <1>8, <2>1
    <2>2. CASE u = t /\ v = s /\ m.kind \in News /\ m.room = roomOf[u]
      <3>1. m.kind \notin Entries
        BY <2>2 DEF News, Entries
      <3>2. n + 1 \in Heard(u, v)' /\ delivered'[u][n + 1] = m
        BY <1>2, <1>8, <2>2, <3>1
      <3>3. IsLast(n + 1, Heard(u, v)')
        BY <1>8, <1>9, <2>2, <3>1 DEF IsLast
      <3>4. m.kind = "JOIN" <=> roomOf[v] = roomOf[u]
        BY <1>5, <2>2
      <3> QED
        BY <3>2, <3>3, <3>4
    <2>3. CASE /\ ~(u = t /\ m.kind \in Entries)
               /\ ~(u = t /\ v = s /\ m.kind \in News /\ m.room = roomOf[u])
      <3>1. MovesDue(u) = {}
        <4>1. CASE u # s
          BY <1>11, <1>15, <4>1
        <4>2. CASE u = s /\ m.kind \notin Moves
          BY <1>3, <4>2
        <4>3. CASE u = s /\ m.kind \in Moves
          <5>1. m.kind = "LeaveRoomRes"
            BY <1>4, <2>3, <4>3 DEF Moves, Entries
          <5>2. roomOf[u] = NoRoom
            BY <1>4, <4>3, <5>1 DEF Told
          <5> QED
            BY <1>15, <5>2
        <4> QED
          BY <4>1, <4>2, <4>3
      <3>2. NewsDue(u, v) = {}
        BY <1>3, <1>11, <1>15, <2>3
      <3>3. /\ Heard(u, v)' = Heard(u, v)
            /\ \A i \in Heard(u, v) : delivered'[u][i] = delivered[u][i]
        <4>1. CASE u = t
          <5>1. m.kind \notin Entries /\ ~(m.kind \in News /\ m.from = v /\ m.room = roomOf[u])
            BY <1>2, <2>3, <4>1
          <5>2. \A i : i \in Heard(u, v)' <=> i \in Heard(u, v)
            BY <1>8, <4>1, <5>1
          <5>3. \A i \in Heard(u, v) : delivered'[u][i] = delivered[u][i]
            BY <1>8, <4>1
          <5> QED
            BY <5>2, <5>3
        <4>2. CASE u # t
          BY <1>10, <4>2
        <4> QED
          BY <4>1, <4>2
      <3>4. NewsTold(u, v)
        BY <1>15 DEF RoomInv
      <3>5. \/ Heard(u, v) = {}
            \/ \E i \in Heard(u, v) :
                 /\ IsLast(i, Heard(u, v))
                 /\ delivered[u][i].kind = "JOIN" <=> roomOf[v] = roomOf[u]
        BY <1>12, <1>15, <3>1, <3>2, <3>4 DEF NewsTold
      <3> QED
        BY <3>3, <3>5
    <2> QED
      BY <2>1, <2>2, <2>3
  <1>16. \A u \in Sessions : AnswerTold(u)'
    BY <1>14, <1>18 DEF AnswerTold, IsLast
  <1>17. Roomy' => \A u, v \in Sessions : u # v => NewsTold(u, v)'
    <2>1. Roomy' => Roomy
      BY DEF Roomy, Fits
    <2>2. ASSUME Roomy, NEW u \in Sessions, NEW v \in Sessions, u # v PROVE NewsTold(u, v)'
      BY <1>15, <2>2 DEF NewsTold, IsLast
    <2> QED
      BY <2>1, <2>2
  <1> QED
    BY <1>13, <1>16, <1>17 DEF RoomInv

\* publishOutbound.
LEMMA PublishTells ==
  ASSUME RoomInv, VersionInv, NEW s \in Sessions, Publish(s), setup' = setup
  PROVE  RoomInv'
  <1>1. UNCHANGED <<roomOf, ended>> /\ MessagesOK
    BY DEF Publish, vars, VersionInv
  <1>2. ASSUME delivered' = delivered,
               \A u \in Sessions : /\ MoveTrue(u)' /\ NewsTrue(u)'
                                   /\ ~Closed(u) /\ ~ended[u] /\ MovesDue(u)' = {} => MovesDue(u) = {},
               \A u, v \in Sessions :
                 ~Closed(u) /\ ~ended[u] /\ NewsDue(u, v)' = {} => NewsDue(u, v) = {}
        PROVE  RoomInv'
    <2>1. \A u \in Sessions : MovesAt(u)' = MovesAt(u) /\ (Closed(u)' <=> Closed(u))
      BY <1>2 DEF MovesAt, OwnAt, Closed
    <2>2. \A u, v \in Sessions : Heard(u, v)' = Heard(u, v)
      BY <1>1, <1>2 DEF Heard
    <2>3. ASSUME NEW u \in Sessions PROVE AnswerTold(u)'
      <3>1. AnswerTold(u)
        BY DEF RoomInv
      <3> QED
        BY <1>1, <1>2, <2>1, <3>1 DEF AnswerTold, Fits
    <2>4. ASSUME NEW u \in Sessions, NEW v \in Sessions, NewsTold(u, v) PROVE NewsTold(u, v)'
      BY <1>1, <1>2, <2>1, <2>2, <2>4 DEF NewsTold
    <2>5. Roomy' => Roomy
      BY DEF Roomy, Fits
    <2> QED
      BY <1>2, <2>3, <2>4, <2>5 DEF RoomInv
  <1>3. CASE out[s] = <<>>
    <2>1. UNCHANGED <<out, delivered>>
      BY <1>3 DEF Publish
    <2>2. /\ \A u \in Sessions : MovesDue(u)' = MovesDue(u)
          /\ \A u, v \in Sessions : NewsDue(u, v)' = NewsDue(u, v)
      BY <1>1, <2>1 DEF MovesDue, NewsDue
    <2>3. \A u \in Sessions : MoveTrue(u)' /\ NewsTrue(u)'
      BY <1>1, <2>1, <2>2 DEF RoomInv, MoveTrue, NewsTrue
    <2> QED
      BY <1>2, <2>1, <2>2, <2>3
  <1>4. CASE out[s] # <<>>
    <2> DEFINE m == Head(out[s])
    <2>1. out' = [out EXCEPT ![s] = Tail(@)]
      BY <1>4 DEF Publish
    <2>2. \/ delivered' = [delivered EXCEPT ![m.to] = Append(@, m)] /\ ~Closed(m.to) /\ ~ended[m.to]
          \/ delivered' = delivered /\ (Closed(m.to) \/ ended[m.to])
      BY <1>4 DEF Publish
    <2>3. CASE delivered' = [delivered EXCEPT ![m.to] = Append(@, m)] /\ ~Closed(m.to) /\ ~ended[m.to]
      BY <1>1, <1>4, <2>1, <2>3, DeliverTells
    <2>4. CASE delivered' = delivered /\ (Closed(m.to) \/ ended[m.to])
      <3>1. /\ MovesDue(s)' = {} /\ NewsTrue(s)'
            /\ 1 \in DOMAIN out[s] /\ m = out[s][1]
            /\ m.kind \notin Moves => MovesDue(s) = {}
            /\ \A u \in Sessions : NewsDue(u, s)' = {} =>
                 \/ NewsDue(u, s) = {}
                 \/ m.to = u /\ m.kind \in News /\ m.room = roomOf[u]
        BY <1>1, <1>4, <2>1, TailSays
      <3>2. \A u \in Sessions \ {s} : out'[u] = out[u]
        BY <1>1, <2>1 DEF MessagesOK
      <3>3. ASSUME NEW u \in Sessions, u # s
            PROVE  MovesDue(u)' = MovesDue(u) /\ \A v : NewsDue(v, u)' = NewsDue(v, u)
        BY <1>1, <3>2, <3>3 DEF MovesDue, NewsDue
      <3>4. m.kind \in Moves => m.to = s
        <4>1. MoveTrue(s)
          BY DEF RoomInv
        <4> QED
          BY <3>1, <4>1 DEF MoveTrue, MovesDue
      <3>5. ASSUME NEW u \in Sessions
            PROVE  /\ MoveTrue(u)' /\ NewsTrue(u)'
                   /\ ~Closed(u) /\ ~ended[u] /\ MovesDue(u)' = {} => MovesDue(u) = {}
        <4>1. CASE u = s
          <5>1. MoveTrue(s)' /\ NewsTrue(s)'
            BY <3>1 DEF MoveTrue
          <5>2. ~Closed(s) /\ ~ended[s] => MovesDue(s) = {}
            BY <2>4, <3>1, <3>4
          <5> QED
            BY <4>1, <5>1, <5>2
        <4>2. CASE u # s
          BY <1>1, <3>2, <3>3, <4>2 DEF RoomInv, MoveTrue, NewsTrue
        <4> QED
          BY <4>1, <4>2
      <3>6. ASSUME NEW u \in Sessions, NEW v \in Sessions, ~Closed(u), ~ended[u], NewsDue(u, v)' = {}
            PROVE  NewsDue(u, v) = {}
        BY <2>4, <3>1, <3>3, <3>6
      <3> QED
        BY <1>2, <2>4, <3>5, <3>6
    <2> QED
      BY <2>2, <2>3, <2>4
  <1> QED
    BY <1>3, <1>4

\* At the start nobody is in a room or has been told anything.
LEMMA RoomStarts == RouterInit => RoomInv
  <1> SUFFICES ASSUME RouterInit PROVE RoomInv
    OBVIOUS
  <1>1. \A s \in Sessions : out[s] = <<>> /\ delivered[s] = <<>> /\ roomOf[s] = NoRoom
    BY DEF RouterInit, Init
  <1>2. \A s \in Sessions : DOMAIN out[s] = {} /\ DOMAIN delivered[s] = {}
    <2>1. DOMAIN <<>> = {}
      OBVIOUS
    <2>2. ASSUME NEW s \in Sessions PROVE DOMAIN out[s] = {} /\ DOMAIN delivered[s] = {}
      BY <1>1, <2>1
    <2> QED
      BY <2>2
  <1>3. ASSUME NEW s \in Sessions PROVE MoveTrue(s) /\ NewsTrue(s) /\ AnswerTold(s)
    <2>1. MovesDue(s) = {} /\ MovesAt(s) = {}
      BY <1>2 DEF MovesDue, MovesAt, OwnAt
    <2> QED
      BY <1>1, <1>2, <2>1 DEF MoveTrue, NewsTrue, AnswerTold
  <1>4. \A s, t \in Sessions : NewsTold(s, t)
    BY <1>1 DEF NewsTold
  <1> QED
    BY <1>3, <1>4 DEF RoomInv

\* Every step of every turn keeps it.
LEMMA RoomNext == RoomInv /\ VersionInv /\ GhostInv /\ [RouterNext]_routerVars => RoomInv'
  <1> SUFFICES ASSUME RoomInv, VersionInv, GhostInv, [RouterNext]_routerVars
               PROVE  RoomInv'
    OBVIOUS
  <1>1. CASE UNCHANGED routerVars
    <2>1. /\ out' = out /\ delivered' = delivered /\ ended' = ended /\ setup' = setup
          /\ roomOf' = roomOf
      BY <1>1 DEF routerVars, turnVars, vars
    <2>2. \A s \in Sessions : /\ MovesDue(s)' = MovesDue(s) /\ MovesAt(s)' = MovesAt(s)
                              /\ (Closed(s)' <=> Closed(s))
      BY <2>1 DEF MovesDue, MovesAt, OwnAt, Closed
    <2>3. \A s, t \in Sessions : NewsDue(s, t)' = NewsDue(s, t) /\ Heard(s, t)' = Heard(s, t)
      BY <2>1 DEF NewsDue, Heard
    <2>4. ASSUME NEW s \in Sessions PROVE MoveTrue(s)' /\ NewsTrue(s)' /\ AnswerTold(s)'
      <3>1. MoveTrue(s) /\ NewsTrue(s) /\ AnswerTold(s)
        BY DEF RoomInv
      <3> QED
        BY <2>1, <2>2, <3>1 DEF MoveTrue, NewsTrue, AnswerTold, Fits
    <2>5. ASSUME NEW s \in Sessions, NEW t \in Sessions, NewsTold(s, t) PROVE NewsTold(s, t)'
      BY <2>1, <2>2, <2>3, <2>5 DEF NewsTold
    <2>6. Roomy' => Roomy
      BY <2>1 DEF Roomy, Fits
    <2> QED
      BY <2>4, <2>5, <2>6 DEF RoomInv
  <1>2. CASE RouterNext
    <2>1. PICK s \in Sessions :
            \/ \E p \in setup.packets : Negotiate(s, p) \/ Request(s, p)
            \/ LoginReq(s) \/ TakeBack(s) \/ LoginCallback(s)
            \/ Disconnected(s) \/ Leaving(s) \/ Publish(s)
      BY <1>2 DEF RouterNext
    <2>2. setup' = setup
      BY <1>2 DEF RouterNext
    <2> QED
      BY <2>1, <2>2, NegotiateTells, RequestTells, LoginTells, DisconnectedTells, PublishTells
  <1> QED
    BY <1>1, <1>2

-----------------------------------------------------------------------------
\* Nobody is told of an entry before the session that entered.

\* Session s has been sent the answer to its JoinRoomReq for room r.
Joined(s, r) ==
    \E j \in DOMAIN delivered[s] : delivered[s][j] = Message(s, "JoinRoomRes", s, r)

\* A session that is cut is not served any more, ...
CutOff(s) ==
    Closed(s) \/ (\E i \in DOMAIN out[s] : out[s][i].kind \in Disconnecting) =>
      failed[s] \/ version[s] # "agreed"

\* ... so that the answer of a turn it has is not dropped, ...
JoinDue(s) ==
    \A i \in DOMAIN out[s] : out[s][i].kind = "JoinRoomRes" =>
      version[s] = "agreed" /\ ~failed[s] /\ ~ended[s]

\* ... and the broadcast comes behind it.
JoinsFollow(s) ==
    \A i \in DOMAIN out[s] : out[s][i].kind = "JOIN" =>
      \/ Joined(s, out[s][i].room)
      \/ \E j \in DOMAIN out[s] :
           j < i /\ out[s][j] = Message(s, "JoinRoomRes", s, out[s][i].room)

JoinInv ==
    /\ failed \in [Sessions -> BOOLEAN]
    /\ \A s \in Sessions : CutOff(s) /\ JoinDue(s) /\ JoinsFollow(s)
    /\ JoinersToldFirst

\* A step of the turn of s that delivers nothing.
LEMMA JoinTurn ==
  ASSUME JoinInv, NEW s \in Sessions, delivered' = delivered, Elsewhere(s),
         failed' \in [Sessions -> BOOLEAN], \A t \in Sessions \ {s} : failed'[t] = failed[t],
         CutOff(s)', JoinDue(s)', JoinsFollow(s)'
  PROVE  JoinInv'
  <1>1. JoinersToldFirst'
    BY DEF JoinInv, JoinersToldFirst
  <1>2. ASSUME NEW t \in Sessions, t # s
        PROVE  CutOff(t)' /\ JoinDue(t)' /\ JoinsFollow(t)'
    <2>1. CutOff(t) /\ JoinDue(t) /\ JoinsFollow(t)
      BY DEF JoinInv
    <2>2. /\ out'[t] = out[t] /\ version'[t] = version[t]
          /\ failed'[t] = failed[t] /\ ended'[t] = ended[t]
      BY <1>2 DEF Elsewhere
    <2>3. CutOff(t)'
      BY <2>1, <2>2 DEF CutOff, Closed
    <2>4. JoinDue(t)'
      BY <2>1, <2>2 DEF JoinDue
    <2>5. JoinsFollow(t)'
      BY <2>1, <2>2 DEF JoinsFollow, Joined
    <2> QED
      BY <2>3, <2>4, <2>5
  <1> QED
    BY <1>1, <1>2 DEF JoinInv

\* The kinds of messages a turn has emitted.
Speaks(s, K) == \A i \in DOMAIN out'[s] : out'[s][i].kind \in K

LEMMA OneSpeaks ==
  ASSUME MessagesOK, NEW s \in Sessions, NEW kind \in Kinds, NEW r \in Nat,
         Emit(s, <<Message(s, kind, s, r)>>)
  PROVE  Speaks(s, {kind})
  <1> DEFINE m == Message(s, kind, s, r)
  <1>1. m.kind = kind
    BY AnswerIs
  <1> HIDE DEF m
  <1>2. out' = [out EXCEPT ![s] = <<m>>] \/ out' = [out EXCEPT ![s] = <<>>]
    BY EmitOne DEF m
  <1>3. out'[s] \in {<<m>>, <<>>}
    BY <1>2 DEF MessagesOK
  <1>4. \A i \in DOMAIN out'[s] : out'[s][i] = m
    BY <1>3
  <1> QED
    BY <1>1, <1>4 DEF Speaks

LEMMA EachSpeaks ==
  ASSUME MessagesOK, NEW S \in SUBSET Sessions, NEW kind \in Kinds, NEW s \in Sessions,
         NEW r \in Nat, NEW first \in Seq(Messages), NEW K, kind \in K,
         \A i \in DOMAIN first : first[i].kind \in K, ToEach(S, kind, s, r, first)
  PROVE  Speaks(s, K)
  <1>1. BroadcastIs(S, kind, s, r, first)
    BY ToEachIs
  <1>2. \A t \in S : Message(t, kind, s, r).kind = kind
    BY AnswerIs
  <1> QED
    BY <1>1, <1>2 DEF BroadcastIs, Speaks

\* A turn that emits no JOIN and no JoinRoomRes.
LEMMA SpeaksOfNoJoin ==
  ASSUME NEW s \in Sessions, NEW K, Speaks(s, K), "JOIN" \notin K, "JoinRoomRes" \notin K
  PROVE  JoinDue(s)' /\ JoinsFollow(s)'
  BY DEF Speaks, JoinDue, JoinsFollow

\* A JoinRoomRes comes before the JOINs of its turn, and no other request
\* broadcasts any.
LEMMA RequestJoins ==
  ASSUME MessagesOK, IInv, NEW s \in Sessions, NEW p, Request(s, p)
  PROVE  JoinsFollow(s)'
  <1>1. /\ {"Error", "CreateRoomRes", "JoinRoomRes", "LeaveRoomRes", "Pong", "JOIN",
            "LEAVE", "CHAT", "POSITION"} \subseteq Kinds
        /\ 0 \in Nat /\ RoomIds \subseteq Nat /\ users \subseteq Sessions
        /\ <<>> \in Seq(Messages) /\ \A K : \A i \in DOMAIN <<>> : <<>>[i].kind \in K
    BY RoomAssumption DEF Kinds, RoomIds, IInv, TypeOK
  <1>2. ASSUME NEW K, Speaks(s, K), "JOIN" \notin K PROVE JoinsFollow(s)'
    BY <1>2 DEF Speaks, JoinsFollow
  <1>3. CASE Refused(s)
    <2>1. Speaks(s, {"Error"})
      BY <1>1, <1>3, OneSpeaks DEF Refused, Answer
    <2> QED
      BY <1>2, <2>1
  <1>4. CASE CreateRoomReq(s)
    <2>1. CASE CreateRoom(s) /\ Emit(s, <<Message(s, "CreateRoomRes", s, result'.room)>>)
      <3>1. result'.room \in Nat
        BY <2>1, RecipientsAreUsers
      <3>2. Speaks(s, {"CreateRoomRes"})
        BY <1>1, <2>1, <3>1, OneSpeaks
      <3> QED
        BY <1>2, <3>2
    <2> QED
      BY <1>3, <1>4, <2>1 DEF CreateRoomReq
  <1>5. CASE JoinRoomReq(s)
    <2>1. ASSUME NEW r \in RoomIds, JoinRoom(s, r),
                 ToEach(result'.recipients \ {s}, "JOIN", s, r, <<Message(s, "JoinRoomRes", s, r)>>)
          PROVE  JoinsFollow(s)'
      <3> DEFINE m == Message(s, "JoinRoomRes", s, r)
                 S == result'.recipients \ {s}
      <3>1. S \in SUBSET Sessions
        BY <1>1, <2>1, RecipientsAreUsers
      <3>2. m \in Messages /\ m.kind = "JoinRoomRes"
        BY <1>1, AnswerIs
      <3> HIDE DEF m, S
      <3>3. <<m>> \in Seq(Messages) /\ DOMAIN <<m>> = {1} /\ <<m>>[1] = m
        BY <3>2
      <3>4. BroadcastIs(S, "JOIN", s, r, <<m>>)
        BY <1>1, <2>1, <3>1, <3>3, ToEachIs DEF m, S
      <3>5. /\ out'[s] \in Seq(Messages)
            /\ \A i \in DOMAIN out'[s] :
                 \/ i = 1 /\ out'[s][i] = m
                 \/ i # 1 /\ \E t \in S : out'[s][i] = Message(t, "JOIN", s, r)
        BY <3>3, <3>4 DEF BroadcastIs
      <3>6. \A t : Message(t, "JOIN", s, r).room = r
        BY DEF Message
      <3>7. ASSUME NEW i \in DOMAIN out'[s], out'[s][i].kind = "JOIN"
            PROVE  \E j \in DOMAIN out'[s] :
                     j < i /\ out'[s][j] = Message(s, "JoinRoomRes", s, out'[s][i].room)
        <4>1. i # 1 /\ out'[s][i].room = r
          BY <3>2, <3>5, <3>6, <3>7
        <4>2. 1 \in DOMAIN out'[s] /\ 1 < i
          BY <3>5, <4>1
        <4>3. out'[s][1] = m
          BY <3>5, <4>2
        <4> QED
          BY <4>1, <4>2, <4>3 DEF m
      <3> QED
        BY <3>7 DEF JoinsFollow
    <2> QED
      BY <1>3, <1>5, <2>1 DEF JoinRoomReq
  <1>6. CASE LeaveRoomReq(s)
    <2>1. CASE LeaveRoom(s) /\ ToEach(result'.recipients \ {s}, "LEAVE", s, roomOf[s],
                 <<Message(s, "LeaveRoomRes", s, roomOf[s])>>)
      <3> DEFINE m == Message(s, "LeaveRoomRes", s, roomOf[s])
      <3>1. result'.recipients \ {s} \in SUBSET Sessions /\ roomOf[s] \in Nat
        BY <1>1, <2>1, RecipientsAreUsers
      <3>2. m \in Messages /\ m.kind = "LeaveRoomRes"
        BY <1>1, <3>1, AnswerIs
      <3> HIDE DEF m
      <3>3. <<m>> \in Seq(Messages) /\ \A i \in DOMAIN <<m>> : <<m>>[i] = m
        BY <3>2
      <3>4. Speaks(s, {"LEAVE", "LeaveRoomRes"})
        <4>1. \A i \in DOMAIN <<m>> : <<m>>[i].kind \in {"LEAVE", "LeaveRoomRes"}
          BY <3>2, <3>3
        <4>2. ToEach(result'.recipients \ {s}, "LEAVE", s, roomOf[s], <<m>>)
          BY <2>1 DEF m
        <4> QED
          BY <1>1, <3>1, <3>3, <4>1, <4>2, EachSpeaks
      <3> QED
        BY <1>2, <3>4
    <2> QED
      BY <1>3, <1>6, <2>1 DEF LeaveRoomReq
  <1>7. CASE ChatReq(s)
    <2>1. CASE Chat(s) /\ ToEach(result'.recipients, "CHAT", s, roomOf[s], <<>>)
      <3>1. result'.recipients \in SUBSET Sessions /\ roomOf[s] \in Nat
        BY <1>1, <2>1, RecipientsAreUsers
      <3>2. Speaks(s, {"CHAT"})
        BY <1>1, <2>1, <3>1, EachSpeaks
      <3> QED
        BY <1>2, <3>2
    <2> QED
      BY <1>3, <1>7, <2>1 DEF ChatReq
  <1>8. CASE PositionUpdate(s)
    <2>1. CASE UpdatePosition(s) /\ ToEach(result'.recipients, "POSITION", s, roomOf[s], <<>>)
      <3>1. result'.recipients \in SUBSET Sessions /\ roomOf[s] \in Nat
        BY <1>1, <2>1, RecipientsAreUsers
      <3>2. Speaks(s, {"POSITION"})
        BY <1>1, <2>1, <3>1, EachSpeaks
      <3> QED
        BY <1>2, <3>2
    <2> QED
      BY <1>3, <1>8, <2>1 DEF PositionUpdate
  <1>9. CASE Ping(s)
    <2>1. Speaks(s, {"Pong"})
      BY <1>1, <1>9, OneSpeaks DEF Ping, Answer
    <2> QED
      BY <1>2, <2>1
  <1> QED
    BY <1>3, <1>4, <1>5, <1>6, <1>7, <1>8, <1>9 DEF Request

\* A turn that has been emitting nothing.
LEMMA SilentJoins ==
  ASSUME NEW s \in Sessions, out'[s] = <<>>
  PROVE  /\ JoinDue(s)' /\ JoinsFollow(s)'
         /\ ~(\E i \in DOMAIN out'[s] : out'[s][i].kind \in Disconnecting)
  <1>1. DOMAIN out'[s] = {}
    OBVIOUS
  <1> QED
    BY <1>1 DEF JoinDue, JoinsFollow

\* One answer of a turn, to its own session.
LEMMA OneJoins ==
  ASSUME NEW s \in Sessions, NEW kind, OneMessage(s, kind), kind \notin {"JOIN", "JoinRoomRes"}
  PROVE  /\ JoinDue(s)' /\ JoinsFollow(s)'
         /\ kind \notin Disconnecting =>
              ~(\E i \in DOMAIN out'[s] : out'[s][i].kind \in Disconnecting)
  <1>1. \A i \in DOMAIN out'[s] : out'[s][i].kind = kind
    BY DEF OneMessage
  <1> QED
    BY <1>1 DEF JoinDue, JoinsFollow

\* handleNegotiation, both locked sections.
LEMMA NegotiateJoins ==
  ASSUME JoinInv, VersionInv, GhostInv, NEW s \in Sessions, NEW p,
         Negotiate(s, p) \/ TakeBack(s)
  PROVE  JoinInv'
  <1>1. UNCHANGED <<failed, ended, delivered>> /\ stage[s] \in {"idle", "refused"}
    BY DEF Negotiate, TakeBack, TakesPacket, MayStart
  <1>2. /\ MessagesOK /\ RouterTypeOK /\ out[s] = <<>> /\ CutOff(s)
        /\ failed' \in [Sessions -> BOOLEAN] /\ \A t \in Sessions \ {s} : failed'[t] = failed[t]
    BY <1>1 DEF VersionInv, GhostInv, Quiet, JoinInv
  <1>3. \A t \in Sessions \ {s} : stage'[t] = stage[t] /\ version'[t] = version[t]
    BY <1>2 DEF Negotiate, TakeBack, RouterTypeOK
  <1>4. ASSUME \A t \in Sessions \ {s} : out'[t] = out[t], CutOff(s)', JoinDue(s)', JoinsFollow(s)'
        PROVE  JoinInv'
    <2>1. Elsewhere(s)
      BY <1>1, <1>3, <1>4 DEF Elsewhere
    <2> QED
      BY <1>1, <1>2, <1>4, <2>1, JoinTurn
  <1>5. Selected(s, p) /\ ~ended[s] => ~Closed(s)
    BY DEF Selected, VersionInv, NotYet, Closed
  <1>6. /\ {"VersionRes", "ErrorAndDisconnect", "DisconnectSession"} \subseteq Kinds
        /\ "VersionRes" \notin Disconnecting
    BY DEF Kinds, Disconnecting
  <1>7. CASE TakeBack(s)
    <2>1. version'[s] = "failed"
      BY <1>2, <1>7 DEF TakeBack, RouterTypeOK
    <2>2. OneMessage(s, "DisconnectSession")
      BY <1>2, <1>6, <1>7, OneEmitted DEF TakeBack
    <2>3. CutOff(s)' /\ JoinDue(s)' /\ JoinsFollow(s)'
      BY <2>1, <2>2, OneJoins DEF CutOff
    <2> QED
      BY <1>4, <2>2, <2>3 DEF OneMessage
  <1>8. CASE Negotiate(s, p) /\ UNCHANGED <<version, stage, out>>
    <2>1. JoinDue(s)' /\ JoinsFollow(s)'
      BY <1>2, <1>8, SilentJoins
    <2>2. CutOff(s)'
      BY <1>1, <1>2, <1>8 DEF CutOff, Closed
    <2> QED
      BY <1>4, <1>8, <2>1, <2>2
  <1>9. CASE /\ Negotiate(s, p)
             /\ version' = [version EXCEPT ![s] =
                              IF Selected(s, p) THEN "agreed" ELSE "failed"]
    <2>1. version'[s] = IF Selected(s, p) THEN "agreed" ELSE "failed"
      BY <1>2, <1>9 DEF RouterTypeOK
    <2>2. ~ended[s]
      BY <1>9 DEF Negotiate, TakesPacket, MayStart
    <2>3. ~Selected(s, p) => CutOff(s)'
      BY <2>1 DEF CutOff
    <2>4. Selected(s, p) => ~Closed(s)'
      BY <1>1, <1>5, <2>2 DEF Closed
    <2>5. CASE UNCHANGED out
      <3>1. /\ JoinDue(s)' /\ JoinsFollow(s)'
            /\ ~(\E i \in DOMAIN out'[s] : out'[s][i].kind \in Disconnecting)
        BY <1>2, <2>5, SilentJoins
      <3>2. CutOff(s)'
        BY <2>3, <2>4, <3>1 DEF CutOff
      <3> QED
        BY <1>4, <2>5, <3>1, <3>2
    <2>6. CASE Selected(s, p) /\ out' = [out EXCEPT ![s] = <<Answer(s, "VersionRes")>>]
      <3>1. OneMessage(s, "VersionRes")
        BY <1>2, <1>6, <2>6, OneEmitted
      <3>2. /\ JoinDue(s)' /\ JoinsFollow(s)'
            /\ ~(\E i \in DOMAIN out'[s] : out'[s][i].kind \in Disconnecting)
        BY <1>6, <3>1, OneJoins
      <3>3. CutOff(s)'
        BY <2>4, <2>6, <3>2 DEF CutOff
      <3> QED
        BY <1>4, <3>1, <3>2, <3>3 DEF OneMessage
    <2>7. CASE ~Selected(s, p) /\ out' = [out EXCEPT ![s] = <<Answer(s, "ErrorAndDisconnect")>>]
      <3>1. OneMessage(s, "ErrorAndDisconnect")
        BY <1>2, <1>6, <2>7, OneEmitted
      <3>2. JoinDue(s)' /\ JoinsFollow(s)'
        BY <3>1, OneJoins
      <3> QED
        BY <1>4, <2>3, <2>7, <3>1, <3>2 DEF OneMessage
    <2> QED
      BY <1>9, <2>5, <2>6, <2>7 DEF Negotiate
  <1> QED
    BY <1>7, <1>8, <1>9 DEF Negotiate

\* handlePacket of the requests that are answered in their turn.
LEMMA RequestKeepsJoins ==
  ASSUME JoinInv, VersionInv, GhostInv, NEW s \in Sessions, NEW p, Request(s, p)
  PROVE  JoinInv'
  <1>1. /\ UNCHANGED <<version, failed, ended, delivered>>
        /\ version[s] = "agreed" /\ ~failed[s] /\ ~ended[s]
    BY DEF Request, TakesPacket, MayStart
  <1>2. MessagesOK /\ RouterTypeOK /\ IInv /\ CutOff(s) /\ failed \in [Sessions -> BOOLEAN]
    BY DEF VersionInv, GhostInv, JoinInv
  <1>3. OutOrdinary(s) /\ JoinsFollow(s)'
    BY <1>2, RequestOrdinary, RequestJoins
  <1>4. JoinDue(s)'
    BY <1>1 DEF JoinDue
  <1>5. CutOff(s)'
    <2>1. ~Closed(s)'
      BY <1>1, <1>2 DEF CutOff, Closed
    <2>2. \A i \in DOMAIN out'[s] : out'[s][i].kind \notin Disconnecting
      BY <1>3 DEF OutOrdinary, Ordinary
    <2> QED
      BY <2>1, <2>2 DEF CutOff
  <1>6. \A t \in Sessions \ {s} : stage'[t] = stage[t]
    BY <1>2 DEF Request, RouterTypeOK
  <1>7. Elsewhere(s)
    BY <1>1, <1>3, <1>6 DEF Elsewhere, OutOrdinary
  <1> QED
    BY <1>1, <1>2, <1>3, <1>4, <1>5, <1>7, JoinTurn

\* LoginReq and its callback.
LEMMA LoginJoins ==
  ASSUME JoinInv, VersionInv, GhostInv, NEW s \in Sessions, LoginReq(s) \/ LoginCallback(s)
  PROVE  JoinInv'
  <1>1. UNCHANGED <<version, ended, delivered>>
    BY DEF LoginReq, LoginCallback
  <1>2. MessagesOK /\ RouterTypeOK /\ IInv /\ CutOff(s) /\ failed \in [Sessions -> BOOLEAN]
    BY DEF VersionInv, GhostInv, JoinInv
  <1>3. \A t \in Sessions \ {s} : stage'[t] = stage[t]
    BY <1>2 DEF LoginReq, LoginCallback, RouterTypeOK
  <1>4. ASSUME failed' \in [Sessions -> BOOLEAN], \A t \in Sessions \ {s} : failed'[t] = failed[t],
               \A t \in Sessions \ {s} : out'[t] = out[t], CutOff(s)', JoinDue(s)', JoinsFollow(s)'
        PROVE  JoinInv'
    <2>1. Elsewhere(s)
      BY <1>1, <1>3, <1>4 DEF Elsewhere
    <2> QED
      BY <1>1, <1>4, <2>1, JoinTurn
  <1>5. CASE LoginReq(s)
    <2>1. out' = out /\ failed' = failed /\ out[s] = <<>>
      BY <1>5 DEF LoginReq, TakesPacket, MayStart, VersionInv, Quiet
    <2>2. JoinDue(s)' /\ JoinsFollow(s)'
      BY <2>1, SilentJoins
    <2>3. CutOff(s)'
      BY <1>1, <1>2, <2>1 DEF CutOff, Closed
    <2> QED
      BY <1>2, <1>4, <2>1, <2>2, <2>3
  <1>6. ASSUME NEW kind \in {"Error", "LoginRes"}, Emit(s, <<Answer(s, kind)>>), failed' = failed
        PROVE  JoinInv'
    <2>1. kind \in Kinds /\ kind \notin Disconnecting \cup {"VersionRes"} /\ 0 \in Nat
      BY DEF Kinds, Disconnecting
    <2>2. OutOrdinary(s) /\ Speaks(s, {kind})
      BY <1>2, <1>6, <2>1, OneOrdinary, OneSpeaks DEF Answer
    <2>3. JoinDue(s)' /\ JoinsFollow(s)'
      BY <2>2, SpeaksOfNoJoin
    <2>4. \A i \in DOMAIN out'[s] : out'[s][i].kind \notin Disconnecting
      BY <2>2 DEF OutOrdinary, Ordinary
    <2>5. CutOff(s)'
      BY <1>1, <1>2, <1>6, <2>4 DEF CutOff, Closed
    <2> QED
      BY <1>2, <1>4, <1>6, <2>2, <2>3, <2>5 DEF OutOrdinary
  <1>7. ASSUME failed' = [failed EXCEPT ![s] = TRUE],
               out' = [out EXCEPT ![s] = <<Answer(s, "DisconnectSession")>>]
        PROVE  JoinInv'
    <2>1. "DisconnectSession" \in Kinds
      BY DEF Kinds, Disconnecting
    <2>2. OneMessage(s, "DisconnectSession")
      BY <1>2, <1>7, <2>1, OneEmitted
    <2>3. JoinDue(s)' /\ JoinsFollow(s)'
      BY <2>2, OneJoins
    <2>4. /\ failed' \in [Sessions -> BOOLEAN] /\ failed'[s]
          /\ \A t \in Sessions \ {s} : failed'[t] = failed[t]
      BY <1>2, <1>7
    <2>5. CutOff(s)'
      BY <2>4 DEF CutOff
    <2> QED
      BY <1>4, <2>2, <2>3, <2>4, <2>5 DEF OneMessage
  <1>8. CASE LoginCallback(s)
    BY <1>6, <1>7, <1>8 DEF LoginCallback, Refused
  <1> QED
    BY <1>5, <1>8

\* Disconnected, its first and its second lock: the session has no version.
LEMMA DisconnectedJoins ==
  ASSUME JoinInv, VersionInv, GhostInv, NEW s \in Sessions, Disconnected(s) \/ Leaving(s)
  PROVE  JoinInv'
  <1>1. MessagesOK /\ RouterTypeOK /\ IInv /\ failed \in [Sessions -> BOOLEAN]
    BY DEF VersionInv, GhostInv, JoinInv
  <1>2. out[s] = <<>> /\ UNCHANGED <<failed, delivered>>
    BY DEF Disconnected, MayStart, Leaving, VersionInv, Quiet
  <1>3. /\ \A t \in Sessions \ {s} : /\ version'[t] = version[t] /\ stage'[t] = stage[t]
                                     /\ ended'[t] = ended[t]
    BY <1>1 DEF Disconnected, Leaving, RouterTypeOK
  <1>4. version'[s] = "none"
    <2>1. CASE Disconnected(s)
      BY <1>1, <2>1 DEF Disconnected, RouterTypeOK
    <2>2. CASE Leaving(s)
      BY <2>2 DEF Leaving, GhostInv, LeavingEnded, EndedTurn
    <2> QED
      BY <2>1, <2>2
  <1>5. CutOff(s)'
    BY <1>4 DEF CutOff
  <1>6. ASSUME \A t \in Sessions \ {s} : out'[t] = out[t], JoinDue(s)', JoinsFollow(s)'
        PROVE  JoinInv'
    <2>1. Elsewhere(s)
      BY <1>3, <1>6 DEF Elsewhere
    <2> QED
      BY <1>1, <1>2, <1>5, <1>6, <2>1, JoinTurn
  <1>7. CASE out' = out
    BY <1>2, <1>6, <1>7, SilentJoins
  <1>8. CASE /\ Disconnect(s)
             /\ ToEach(result'.recipients \ {s}, "LEAVE", s, result'.room, <<>>)
    <2>1. result'.recipients \ {s} \in SUBSET Sessions /\ result'.room \in Nat
      BY <1>1, <1>8, RecipientsAreUsers DEF IInv, TypeOK
    <2>2. "LEAVE" \in Kinds
      BY DEF Kinds
    <2>3. <<>> \in Seq(Messages) /\ \A i \in DOMAIN <<>> : <<>>[i].kind \in {"LEAVE"}
      OBVIOUS
    <2>4. Speaks(s, {"LEAVE"})
      BY <1>1, <1>8, <2>1, <2>2, <2>3, EachSpeaks
    <2>5. BroadcastIs(result'.recipients \ {s}, "LEAVE", s, result'.room, <<>>)
      BY <1>1, <1>8, <2>1, <2>2, <2>3, ToEachIs
    <2>6. JoinDue(s)' /\ JoinsFollow(s)'
      BY <2>4, SpeaksOfNoJoin
    <2> QED
      BY <1>6, <2>5, <2>6 DEF BroadcastIs
  <1> QED
    BY <1>7, <1>8 DEF Disconnected, Leaving

\* What is left of a turn, by place.
LEMMA TailPlaces ==
  ASSUME MessagesOK, NEW s \in Sessions, out[s] # <<>>, out' = [out EXCEPT ![s] = Tail(@)]
  PROVE  /\ 1 \in DOMAIN out[s] /\ Head(out[s]) = out[s][1] /\ DOMAIN out[s] \subseteq Nat \ {0}
         /\ \A i \in DOMAIN out'[s] : i + 1 \in DOMAIN out[s] /\ out'[s][i] = out[s][i + 1]
         /\ \A i \in DOMAIN out[s] : i # 1 => i - 1 \in DOMAIN out'[s] /\ out'[s][i - 1] = out[s][i]
  <1>1. out[s] \in Seq(Messages) /\ out'[s] = Tail(out[s])
    BY DEF MessagesOK
  <1>2. /\ Len(out[s]) \in Nat /\ Len(out[s]) > 0 /\ DOMAIN out[s] = 1..Len(out[s])
        /\ Head(out[s]) = out[s][1]
    BY <1>1
  <1>3. /\ DOMAIN Tail(out[s]) = 1..(Len(out[s]) - 1)
        /\ \A i \in 1..(Len(out[s]) - 1) : Tail(out[s])[i] = out[s][i + 1]
    BY <1>1, <1>2
  <1>4. ASSUME NEW i \in DOMAIN out'[s]
        PROVE  i + 1 \in DOMAIN out[s] /\ out'[s][i] = out[s][i + 1]
    <2>1. i \in 1..(Len(out[s]) - 1)
      BY <1>1, <1>3
    <2>2. i + 1 \in 1..Len(out[s])
      BY <1>2, <2>1
    <2> QED
      BY <1>1, <1>2, <1>3, <2>1, <2>2
  <1>5. ASSUME NEW i \in DOMAIN out[s], i # 1
        PROVE  i - 1 \in DOMAIN out'[s] /\ out'[s][i - 1] = out[s][i]
    <2>1. i - 1 \in 1..(Len(out[s]) - 1) /\ (i - 1) + 1 = i
      BY <1>2, <1>5
    <2> QED
      BY <1>1, <1>3, <2>1
  <1> QED
    BY <1>2, <1>4, <1>5

\* publishOutbound of one message: a JoinRoomRes reaches its session, a JOIN
\* comes after it, and only its own turn cuts a session.
LEMMA DeliverJoins ==
  ASSUME JoinInv, VersionInv, GhostInv, NEW s \in Sessions, out[s] # <<>>,
         out' = [out EXCEPT ![s] = Tail(@)], NEW m, m = Head(out[s]),
         delivered' = IF Closed(m.to) \/ ended[m.to] THEN delivered
                      ELSE [delivered EXCEPT ![m.to] = Append(@, m)],
         UNCHANGED <<version, ended, failed>>
  PROVE  JoinInv'
  <1> DEFINE t == m.to
  <1>1. /\ \A u \in Sessions \ {s} : out'[u] = out[u]
        /\ m \in Messages /\ MayGo(s, m)
    BY TailEmitted
  <1>2. t \in Sessions /\ delivered \in [Sessions -> Seq(Messages)] /\ MessagesOK
    BY <1>1 DEF Messages, VersionInv, MessagesOK
  <1>3. /\ 1 \in DOMAIN out[s] /\ m = out[s][1] /\ DOMAIN out[s] \subseteq Nat \ {0}
        /\ \A i \in DOMAIN out'[s] : i + 1 \in DOMAIN out[s] /\ out'[s][i] = out[s][i + 1]
        /\ \A i \in DOMAIN out[s] : i # 1 => i - 1 \in DOMAIN out'[s] /\ out'[s][i - 1] = out[s][i]
    BY <1>2, TailPlaces
  <1>4. m.from = s /\ (m.kind \in Disconnecting => t = s)
    BY <1>1 DEF MayGo
  <1> DEFINE dropped == Closed(t) \/ ended[t]
  <1>5. dropped => delivered' = delivered
    OBVIOUS
  <1>6. ~dropped => delivered' = [delivered EXCEPT ![t] = Append(delivered[t], m)]
    OBVIOUS
  <1>7. CutOff(s) /\ JoinDue(s) /\ JoinsFollow(s) /\ JoinersToldFirst
    BY DEF JoinInv
  <1>8. m = Message(s, "JoinRoomRes", s, m.room) => ~dropped /\ t = s
    <2> SUFFICES ASSUME m = Message(s, "JoinRoomRes", s, m.room) PROVE ~dropped /\ t = s
      OBVIOUS
    <2>1. t = s /\ m.kind = "JoinRoomRes"
      BY DEF Message
    <2>2. version[s] = "agreed" /\ ~failed[s] /\ ~ended[s]
      BY <1>3, <1>7, <2>1 DEF JoinDue
    <2>3. ~Closed(s)
      BY <1>7, <2>2 DEF CutOff
    <2> QED
      BY <2>1, <2>2, <2>3
  <1> HIDE DEF t, dropped
  <1>9. ~dropped => /\ Longer(delivered'[t], delivered[t], m)
                    /\ \A u \in Sessions \ {t} : delivered'[u] = delivered[u]
    <2> SUFFICES ASSUME ~dropped
                 PROVE  /\ Longer(delivered'[t], delivered[t], m)
                        /\ \A u \in Sessions \ {t} : delivered'[u] = delivered[u]
      OBVIOUS
    <2>1. /\ delivered'[t] = Append(delivered[t], m) /\ delivered[t] \in Seq(Messages)
          /\ \A u \in Sessions \ {t} : delivered'[u] = delivered[u]
      BY <1>2, <1>6
    <2> QED
      BY <1>1, <2>1, AppendIs
  <1>10. \A u \in Sessions : /\ DOMAIN delivered[u] \subseteq DOMAIN delivered'[u]
                             /\ \A j \in DOMAIN delivered[u] : delivered'[u][j] = delivered[u][j]
    <2> SUFFICES ASSUME NEW u \in Sessions
                 PROVE  /\ DOMAIN delivered[u] \subseteq DOMAIN delivered'[u]
                        /\ \A j \in DOMAIN delivered[u] : delivered'[u][j] = delivered[u][j]
      OBVIOUS
    <2>1. CASE dropped \/ u # t
      BY <1>5, <1>9, <2>1
    <2>2. CASE ~dropped /\ u = t
      <3>1. delivered[t] \in Seq(Messages)
        BY <1>2
      <3>2. DOMAIN delivered[t] = 1..Len(delivered[t]) /\ Len(delivered[t]) \in Nat
        BY <3>1
      <3>3. /\ DOMAIN delivered'[t] = 1..(Len(delivered[t]) + 1)
            /\ \A i \in 1..Len(delivered[t]) : delivered'[t][i] = delivered[t][i]
        BY <1>9, <2>2 DEF Longer
      <3> QED
        BY <2>2, <3>2, <3>3
    <2> QED
      BY <2>1, <2>2
  <1>11. \A u \in Sessions : \A r : Joined(u, r) => Joined(u, r)'
    BY <1>10 DEF Joined
  <1>12. m = Message(s, "JoinRoomRes", s, m.room) => Joined(s, m.room)'
    <2> SUFFICES ASSUME m = Message(s, "JoinRoomRes", s, m.room) PROVE Joined(s, m.room)'
      OBVIOUS
    <2>1. Longer(delivered'[s], delivered[s], m)
      BY <1>8, <1>9
    <2>2. delivered[s] \in Seq(Messages) /\ Len(delivered[s]) \in Nat
      BY <1>2
    <2>3. Len(delivered[s]) + 1 \in DOMAIN delivered'[s] /\ delivered'[s][Len(delivered[s]) + 1] = m
      BY <2>1, <2>2 DEF Longer
    <2> QED
      BY <2>3 DEF Joined
  <1>13. ASSUME NEW u \in Sessions PROVE Closed(u)' => Closed(u) \/ (u = s /\ m.kind \in Disconnecting)
    <2>1. CASE delivered'[u] = delivered[u]
      BY <2>1 DEF Closed
    <2>2. CASE ~dropped /\ u = t
      <3>1. Longer(delivered'[t], delivered[t], m)
        BY <1>9, <2>2
      <3>2. Last(delivered'[t]) = m
        BY <3>1 DEF Longer, Last
      <3> QED
        BY <1>4, <2>2, <3>2 DEF Closed
    <2> QED
      BY <1>5, <1>9, <2>1, <2>2
  <1>14. ASSUME NEW u \in Sessions PROVE CutOff(u)'
    <2>1. CutOff(u)
      BY DEF JoinInv
    <2>2. (\E i \in DOMAIN out'[u] : out'[u][i].kind \in Disconnecting) =>
            \E i \in DOMAIN out[u] : out[u][i].kind \in Disconnecting
      BY <1>1, <1>3
    <2>3. u = s /\ m.kind \in Disconnecting => \E i \in DOMAIN out[u] : out[u][i].kind \in Disconnecting
      BY <1>3
    <2> QED
      BY <1>13, <2>1, <2>2, <2>3 DEF CutOff
  <1>15. ASSUME NEW u \in Sessions PROVE JoinDue(u)'
    <2>1. JoinDue(u)
      BY DEF JoinInv
    <2>2. CASE u # s
      BY <1>1, <2>1, <2>2 DEF JoinDue
    <2>3. CASE u = s
      BY <1>3, <2>1, <2>3 DEF JoinDue
    <2> QED
      BY <2>2, <2>3
  <1>16. ASSUME NEW u \in Sessions PROVE JoinsFollow(u)'
    <2>1. JoinsFollow(u)
      BY DEF JoinInv
    <2>2. CASE u # s
      <3>1. out'[u] = out[u]
        BY <1>1, <2>2
      <3> QED
        BY <1>11, <2>1, <3>1 DEF JoinsFollow
    <2>3. CASE u = s
      <3> SUFFICES ASSUME NEW i \in DOMAIN out'[s], out'[s][i].kind = "JOIN",
                          NEW r, r = out'[s][i].room
                   PROVE  \/ Joined(s, r)'
                          \/ \E j \in DOMAIN out'[s] :
                               j < i /\ out'[s][j] = Message(s, "JoinRoomRes", s, r)
        BY <2>3 DEF JoinsFollow, Joined
      <3>1. i + 1 \in DOMAIN out[s] /\ out'[s][i] = out[s][i + 1]
        BY <1>3
      <3>2. \/ Joined(s, r)
            \/ \E j \in DOMAIN out[s] : j < i + 1 /\ out[s][j] = Message(s, "JoinRoomRes", s, r)
        BY <1>7, <3>1 DEF JoinsFollow
      <3>3. ASSUME NEW j \in DOMAIN out[s], j < i + 1, out[s][j] = Message(s, "JoinRoomRes", s, r)
            PROVE  \/ Joined(s, r)'
                   \/ \E k \in DOMAIN out'[s] : k < i /\ out'[s][k] = Message(s, "JoinRoomRes", s, r)
        <4>1. CASE j = 1
          <5>1. m = Message(s, "JoinRoomRes", s, r)
            BY <1>3, <3>3, <4>1
          <5>2. m.room = r
            BY <5>1 DEF Message
          <5> QED
            BY <1>12, <5>1, <5>2
        <4>2. CASE j # 1
          <5>1. j - 1 \in DOMAIN out'[s] /\ out'[s][j - 1] = Message(s, "JoinRoomRes", s, r)
            BY <1>3, <3>3, <4>2
          <5>2. j \in Nat /\ i + 1 \in Nat
            BY <1>3, <3>1
          <5>3. i \in Nat
            <6>1. out'[s] \in Seq(Messages)
              BY TailEmitted
            <6> QED
              BY <6>1
          <5>4. j - 1 < i
            BY <3>3, <5>2, <5>3
          <5> QED
            BY <5>1, <5>4
        <4> QED
          BY <4>1, <4>2
      <3>4. Joined(s, r) => Joined(s, r)'
        BY <1>11
      <3> QED
        BY <3>2, <3>3, <3>4
    <2> QED
      BY <2>2, <2>3
  <1>17. m.kind = "JOIN" => Joined(s, m.room)
    <2> SUFFICES ASSUME m.kind = "JOIN" PROVE Joined(s, m.room)
      OBVIOUS
    <2>1. ~\E j \in DOMAIN out[s] : j < 1
      BY <1>3
    <2> QED
      BY <1>3, <1>7, <2>1 DEF JoinsFollow
  <1>18. JoinersToldFirst'
    <2>1. ASSUME NEW u \in Sessions, NEW i \in DOMAIN delivered[u], delivered[u][i].kind = "JOIN"
          PROVE  Joined(delivered[u][i].from, delivered[u][i].room)
      BY <1>7, <2>1 DEF JoinersToldFirst, Joined
    <2>2. ASSUME NEW u \in Sessions, NEW i \in DOMAIN delivered'[u],
                 delivered'[u][i].kind = "JOIN",
                 NEW f, f = delivered'[u][i].from, NEW r, r = delivered'[u][i].room
          PROVE  Joined(f, r)'
      <3>1. CASE i \in DOMAIN delivered[u]
        <4>1. delivered'[u][i] = delivered[u][i]
          BY <1>10, <3>1
        <4>2. delivered[u][i].from \in Sessions
          <5>1. delivered[u] \in Seq(Messages)
            BY <1>2
          <5>2. delivered[u][i] \in Messages
            BY <3>1, <5>1
          <5> QED
            BY <5>2 DEF Messages
        <4> QED
          BY <1>11, <2>1, <2>2, <3>1, <4>1, <4>2
      <3>2. CASE i \notin DOMAIN delivered[u]
        <4>1. ~dropped /\ u = t
          BY <1>5, <1>9, <3>2
        <4>2. delivered[t] \in Seq(Messages)
          BY <1>2
        <4>3. DOMAIN delivered[t] = 1..Len(delivered[t]) /\ Len(delivered[t]) \in Nat
          BY <4>2
        <4>4. /\ DOMAIN delivered'[t] = 1..(Len(delivered[t]) + 1)
              /\ delivered'[t][Len(delivered[t]) + 1] = m
          BY <1>9, <4>1 DEF Longer
        <4>5. i = Len(delivered[t]) + 1
          BY <2>2, <3>2, <4>1, <4>3, <4>4
        <4>6. delivered'[u][i] = m
          BY <4>1, <4>4, <4>5
        <4> QED
          BY <1>4, <1>11, <1>17, <2>2, <4>6
      <3> QED
        BY <3>1, <3>2
    <2>3. ASSUME NEW u \in Sessions, NEW i \in DOMAIN delivered'[u],
                 delivered'[u][i].kind = "JOIN"
          PROVE  \E j \in DOMAIN delivered'[delivered'[u][i].from] :
                   delivered'[delivered'[u][i].from][j] =
                     Message(delivered'[u][i].from, "JoinRoomRes", delivered'[u][i].from,
                             delivered'[u][i].room)
      <3>1. PICK f, r : f = delivered'[u][i].from /\ r = delivered'[u][i].room
        OBVIOUS
      <3>2. Joined(f, r)'
        BY <2>2, <2>3, <3>1
      <3> QED
        BY <3>1, <3>2 DEF Joined
    <2> QED
      BY <2>3 DEF JoinersToldFirst
  <1>19. failed' \in [Sessions -> BOOLEAN]
    BY DEF JoinInv
  <1> QED
    BY <1>14, <1>15, <1>16, <1>18, <1>19 DEF JoinInv

LEMMA PublishJoins ==
  ASSUME JoinInv, VersionInv, GhostInv, NEW s \in Sessions, Publish(s)
  PROVE  JoinInv'
  <1>1. UNCHANGED <<version, ended, failed>>
    BY DEF Publish
  <1>2. CASE out[s] = <<>>
    <2>1. UNCHANGED <<out, delivered>>
      BY <1>2 DEF Publish
    <2>2. \A u \in Sessions : CutOff(u)' /\ JoinDue(u)' /\ JoinsFollow(u)'
      BY <1>1, <2>1 DEF JoinInv, CutOff, JoinDue, JoinsFollow, Closed, Joined
    <2>3. JoinersToldFirst' /\ failed' \in [Sessions -> BOOLEAN]
      BY <1>1, <2>1 DEF JoinInv, JoinersToldFirst
    <2> QED
      BY <2>2, <2>3 DEF JoinInv
  <1>3. CASE out[s] # <<>>
    <2> DEFINE m == Head(out[s])
    <2>1. /\ out' = [out EXCEPT ![s] = Tail(@)]
          /\ delivered' = IF Closed(m.to) \/ ended[m.to] THEN delivered
                          ELSE [delivered EXCEPT ![m.to] = Append(@, m)]
      BY <1>3 DEF Publish
    <2> QED
      BY <1>1, <1>3, <2>1, DeliverJoins
  <1> QED
    BY <1>2, <1>3

LEMMA JoinStarts == RouterInit => JoinInv
  <1> SUFFICES ASSUME RouterInit PROVE JoinInv
    OBVIOUS
  <1>1. failed \in [Sessions -> BOOLEAN]
    BY DEF RouterInit
  <1>2. ASSUME NEW s \in Sessions PROVE delivered[s] = <<>> /\ out[s] = <<>>
    BY DEF RouterInit
  <1>3. ASSUME NEW s \in Sessions PROVE CutOff(s) /\ JoinDue(s) /\ JoinsFollow(s)
    <2>1. DOMAIN out[s] = {} /\ delivered[s] = <<>>
      BY <1>2
    <2> QED
      BY <2>1 DEF CutOff, JoinDue, JoinsFollow, Closed
  <1>4. JoinersToldFirst
    BY <1>2 DEF JoinersToldFirst
  <1> QED
    BY <1>1, <1>3, <1>4 DEF JoinInv

LEMMA JoinNext == JoinInv /\ VersionInv /\ GhostInv /\ [RouterNext]_routerVars => JoinInv'
  <1> SUFFICES ASSUME JoinInv, VersionInv, GhostInv, [RouterNext]_routerVars PROVE JoinInv'
    OBVIOUS
  <1>1. CASE UNCHANGED routerVars
    <2>1. /\ out' = out /\ delivered' = delivered /\ version' = version
          /\ ended' = ended /\ failed' = failed
      BY <1>1 DEF routerVars, turnVars
    <2>2. \A u \in Sessions : CutOff(u)' /\ JoinDue(u)' /\ JoinsFollow(u)'
      BY <2>1 DEF JoinInv, CutOff, JoinDue, JoinsFollow, Closed, Joined
    <2>3. JoinersToldFirst' /\ failed' \in [Sessions -> BOOLEAN]
      BY <2>1 DEF JoinInv, JoinersToldFirst
    <2> QED
      BY <2>2, <2>3 DEF JoinInv
  <1>2. CASE RouterNext
    <2>1. PICK s \in Sessions :
            \/ \E p \in setup.packets : Negotiate(s, p) \/ Request(s, p)
            \/ LoginReq(s) \/ TakeBack(s) \/ LoginCallback(s)
            \/ Disconnected(s) \/ Leaving(s) \/ Publish(s)
      BY <1>2 DEF RouterNext
    <2> QED
      BY <2>1, NegotiateJoins, RequestKeepsJoins, LoginJoins, DisconnectedJoins, PublishJoins
  <1> QED
    BY <1>1, <1>2

-----------------------------------------------------------------------------
\* What CHOOSE finds.
LEMMA LatestIs ==
  ASSUME NEW S \in SUBSET Nat, NEW i \in S, IsLast(i, S)
  PROVE  Latest(S) = i
  <1>1. \A j \in S : IsLast(j, S) => j = i
    BY DEF IsLast
  <1> QED
    BY <1>1 DEF Latest, IsLast

\* What a session has been told about rooms is what RoomService has, for any
\* number of sessions and rooms (CreateRoomReq, JoinRoomReq, LeaveRoomReq and
\* Disconnected of MessageRouter, in turns of several workers).  If the byte
\* budget of an event refuses nothing, its last CreateRoomRes, JoinRoomRes or
\* LeaveRoomRes names, between its turns, the room that room_by_session_ has; if
\* the message budget also holds a message for everyone, the last JOIN or LEAVE
\* it got about another session since is true.  Whatever the budgets, nobody is
\* sent word of an entry before the session that entered.
THEOREM RoomsAlwaysTold == RouterSpec => []TellsRooms
  <1>1. ASSUME RoomInv, JoinInv, VersionInv, GhostInv PROVE TellsRooms
    <2>1. ASSUME NEW s \in Sessions, Idle(s)
          PROVE  out[s] = <<>> /\ MovesDue(s) = {} /\ \A t : NewsDue(t, s) = {}
      <3>1. out[s] = <<>>
        BY <1>1, <2>1, QuietOwes DEF Idle
      <3> QED
        BY <3>1 DEF MovesDue, NewsDue
    <2>2. ASSUME NEW s \in Sessions
          PROVE  MovesAt(s) \in SUBSET Nat /\ \A t : Heard(s, t) \in SUBSET Nat
      <3>1. delivered[s] \in Seq(Messages)
        BY <1>1 DEF VersionInv, MessagesOK
      <3>2. DOMAIN delivered[s] \subseteq Nat
        BY <3>1
      <3> QED
        BY <3>2 DEF MovesAt, OwnAt, Heard
    <2>3. ASSUME Fits PROVE AnswersTellRoom
      <3> SUFFICES ASSUME NEW s \in Sessions, Idle(s), ~Closed(s)
                   PROVE  roomOf[s] = IF MovesAt(s) = {} THEN NoRoom
                                      ELSE Told(delivered[s][Latest(MovesAt(s))])
        BY DEF AnswersTellRoom
      <3>1. \/ MovesAt(s) = {} /\ roomOf[s] = NoRoom
            \/ \E i \in MovesAt(s) : IsLast(i, MovesAt(s)) /\ Told(delivered[s][i]) = roomOf[s]
        BY <1>1, <2>1, <2>3 DEF RoomInv, AnswerTold, Idle
      <3> QED
        BY <2>2, <3>1, LatestIs
    <2>4. ASSUME Roomy PROVE BroadcastsTellMembers
      <3> SUFFICES ASSUME NEW s \in Sessions, NEW t \in Sessions, s # t, Idle(s), roomOf[s] # 0,
                          stage[t] = "idle", ~Closed(s), Heard(s, t) # {}
                   PROVE  delivered[s][Latest(Heard(s, t))].kind = "JOIN" <=> t \in members[roomOf[s]]
        BY DEF BroadcastsTellMembers
      <3>1. MovesDue(s) = {} /\ NewsDue(s, t) = {}
        <4>1. out[t] = <<>>
          BY <1>1, QuietOwes
        <4> QED
          BY <2>1, <4>1 DEF NewsDue
      <3>2. PICK i \in Heard(s, t) :
              /\ IsLast(i, Heard(s, t))
              /\ delivered[s][i].kind = "JOIN" <=> roomOf[t] = roomOf[s]
        BY <1>1, <2>4, <3>1 DEF RoomInv, NewsTold, Idle, NoRoom
      <3>3. Latest(Heard(s, t)) = i
        BY <2>2, <3>2, LatestIs
      <3>4. roomOf[s] \in RoomIds
        BY <1>1, InSameRoom DEF GhostInv, NoRoom
      <3>5. t \in members[roomOf[s]] <=> roomOf[t] = roomOf[s]
        BY <1>1, <3>4 DEF GhostInv, IInv, MembershipConsistent
      <3> QED
        BY <3>2, <3>3, <3>5
    <2>5. JoinersToldFirst
      BY <1>1 DEF JoinInv
    <2> QED
      BY <2>3, <2>4, <2>5 DEF TellsRooms
  <1> QED
    BY <1>1, GhostInit, GhostNext, VersionStarts, VersionNext, RoomStarts, RoomNext,
       JoinStarts, JoinNext, PTL DEF RouterSpec
=============================================================================
