---------------------------- MODULE RoomService -----------------------------
(***************************************************************************)
(* rss::service::RoomService with the Lobby and the Rooms it owns           *)
(* (libs/server-core/src/service/RoomService.cpp, src/domain/Lobby.cpp,     *)
(* src/domain/Room.cpp).                                                    *)
(*                                                                          *)
(* Every operation runs under RoomService::mutex_ and is one step.  Workers *)
(* call it for different sessions in any order; attachUser is called by the *)
(* thread that completes a login.  Who is in a room is stored twice, in     *)
(* room_by_session_ and in Room::members_; a refused call changes nothing   *)
(* and is not a step.  Names and coordinates are left out.                  *)
(***************************************************************************)
EXTENDS Naturals

CONSTANTS Sessions,   \* session ids
          MaxRoomId   \* bound: rooms created (the counter has 32 bits)

ASSUME RoomAssumption == MaxRoomId \in Nat \ {0}

RoomIds == 1..MaxRoomId
NoRoom == 0

VARIABLES
    users,         \* keys of users_by_session_
    roomOf,        \* room_by_session_, NoRoom where it has no entry
    open,          \* keys of Lobby::rooms_
    members,       \* Room::members_ of each room
    positioned,    \* keys of Room::positions_ of each room
    nextRoomId,    \* Lobby::next_room_id_
    result         \* RoomActionResult of the last successful call

vars == <<users, roomOf, open, members, positioned, nextRoomId, result>>

NoResult == [actor |-> "none", room |-> NoRoom, recipients |-> {}]

\* Types; a room's id is below the counter.
TypeOK ==
    /\ users \subseteq Sessions
    /\ roomOf \in [Sessions -> RoomIds \cup {NoRoom}]
    /\ open \subseteq RoomIds
    /\ \A r \in open : r < nextRoomId
    /\ members \in [RoomIds -> SUBSET Sessions]
    /\ positioned \in [RoomIds -> SUBSET Sessions]
    /\ nextRoomId \in 1..MaxRoomId + 1

Init ==
    /\ users = {}
    /\ roomOf = [s \in Sessions |-> NoRoom]
    /\ open = {}
    /\ members = [r \in RoomIds |-> {}]
    /\ positioned = [r \in RoomIds |-> {}]
    /\ nextRoomId = 1
    /\ result = NoResult

-----------------------------------------------------------------------------
\* requireUserLocked and the entry in room_by_session_.
InLobby(s) == s \in users /\ roomOf[s] = NoRoom
InRoom(s) == s \in users /\ roomOf[s] # NoRoom

Reply(s, r, to) == result' = [actor |-> s, room |-> r, recipients |-> to]

AttachUser(s) ==
    /\ s \notin users
    /\ users' = users \cup {s}
    /\ UNCHANGED <<roomOf, open, members, positioned, nextRoomId, result>>

\* Room r is made with its creator as the only member.
OpenRoom(s, r) ==
    /\ open' = open \cup {r}
    /\ members' = [members EXCEPT ![r] = {s}]
    /\ positioned' = [positioned EXCEPT ![r] = {}]
    /\ roomOf' = [roomOf EXCEPT ![s] = r]
    /\ Reply(s, r, {s})
    /\ UNCHANGED users

\* createRoom, Lobby::createRoom and Room::join of the creator.
CreateRoom(s) ==
    /\ InLobby(s)
    /\ nextRoomId <= MaxRoomId
    /\ nextRoomId' = nextRoomId + 1
    /\ OpenRoom(s, nextRoomId)

JoinRoom(s, r) ==
    /\ InLobby(s)
    /\ r \in open
    /\ members' = [members EXCEPT ![r] = @ \cup {s}]
    /\ roomOf' = [roomOf EXCEPT ![s] = r]
    /\ Reply(s, r, members[r] \cup {s})
    /\ UNCHANGED <<users, open, positioned, nextRoomId>>

\* positions_.erase forgotten.
DepartMutant(s, r) ==
    /\ members' = [members EXCEPT ![r] = @ \ {s}]
    /\ open' = IF members[r] \ {s} = {} THEN open \ {r} ELSE open
    /\ UNCHANGED positioned

\* Room::leave, then Lobby::eraseIfEmpty.
Depart(s, r) ==
    /\ members' = [members EXCEPT ![r] = @ \ {s}]
    /\ positioned' = [positioned EXCEPT ![r] = @ \ {s}]
    /\ open' = IF members[r] \ {s} = {} THEN open \ {r} ELSE open

\* leaveRoom; the entry is also erased when findRoom does not know the room,
\* in which case the call is refused.
LeaveRoom(s) ==
    /\ InRoom(s)
    /\ IF roomOf[s] \in open
       THEN Depart(s, roomOf[s]) /\ Reply(s, roomOf[s], members[roomOf[s]])
       ELSE UNCHANGED <<open, members, positioned, result>>
    /\ roomOf' = [roomOf EXCEPT ![s] = NoRoom]
    /\ UNCHANGED <<users, nextRoomId>>

\* Everybody gets it.
ChatMutant(s) ==
    /\ InRoom(s) /\ roomOf[s] \in open
    /\ Reply(s, roomOf[s], users)
    /\ UNCHANGED <<users, roomOf, open, members, positioned, nextRoomId>>

\* chat: who gets the message.
Chat(s) ==
    /\ InRoom(s) /\ roomOf[s] \in open
    /\ Reply(s, roomOf[s], members[roomOf[s]])
    /\ UNCHANGED <<users, roomOf, open, members, positioned, nextRoomId>>

\* updatePosition; Room::setPosition ignores a session that is not a member.
UpdatePosition(s) ==
    /\ InRoom(s) /\ roomOf[s] \in open
    /\ positioned' = [positioned EXCEPT ![roomOf[s]] =
                        IF s \in members[roomOf[s]] THEN @ \cup {s} ELSE @]
    /\ Reply(s, roomOf[s], members[roomOf[s]])
    /\ UNCHANGED <<users, roomOf, open, members, nextRoomId>>

\* disconnect: out of the room, if any, and out of the users.
Disconnect(s) ==
    /\ s \in users
    /\ IF roomOf[s] \in open
       THEN Depart(s, roomOf[s]) /\ Reply(s, roomOf[s], members[roomOf[s]])
       ELSE UNCHANGED <<open, members, positioned>> /\ Reply(s, NoRoom, {})
    /\ roomOf' = [roomOf EXCEPT ![s] = NoRoom]
    /\ users' = users \ {s}
    /\ UNCHANGED nextRoomId

Next ==
    \E s \in Sessions :
        \/ AttachUser(s) \/ CreateRoom(s) \/ LeaveRoom(s) \/ Chat(s)
        \/ UpdatePosition(s) \/ Disconnect(s)
        \/ \E r \in RoomIds : JoinRoom(s, r)

Spec == Init /\ [][Next]_vars

-----------------------------------------------------------------------------
\* room_by_session_ and the members of the rooms say the same, and only users
\* are in rooms: no room keeps a session that left, moved or disconnected.
MembershipConsistent ==
    \A s \in Sessions :
        /\ \A r \in RoomIds : s \in members[r] <=> roomOf[s] = r
        /\ roomOf[s] # NoRoom => s \in users

\* The lobby has exactly the rooms somebody is in: a room goes with its last
\* member, and "room not found" is never the answer to someone in a room.
OpenIffOccupied ==
    open = {r \in RoomIds : members[r] # {}}

\* A position is kept only for a member: who comes back to a room does not come
\* back to an old position.
PositionsOfMembers ==
    \A r \in RoomIds : positioned[r] \subseteq members[r]

\* What is kept of rooms agrees: a room, its members and their positions live and
\* go together.
RoomsConsistent == MembershipConsistent /\ OpenIffOccupied /\ PositionsOfMembers

\* A broadcast goes to the sessions that are in the room of its actor, plus the
\* actor itself when it has just left: to nobody in another room or gone.
BroadcastStaysInRoom ==
    [][result' # result =>
          \A t \in result'.recipients :
              \/ t = result'.actor
              \/ t \in users' /\ roomOf'[t] = result'.room]_vars

\* A room id stands for one room for ever: a client that holds the id of a room
\* that closed cannot join another by it.
RoomIdsNotReused ==
    [][/\ nextRoomId' >= nextRoomId
       /\ \A r \in open' \ open : r >= nextRoomId]_vars
=============================================================================
