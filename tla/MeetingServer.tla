---------------------------- MODULE MeetingServer ----------------------------
(***************************************************************************)
(* The life cycle of connections and rooms in the message server: the      *)
(* service layer (MeetingService), the room table (RoomManager) and the    *)
(* Room objects.  The server runs one asio loop on one thread, so every    *)
(* completion handler is one atomic step, the close callbacks it calls     *)
(* synchronously included.  RoomTeardown opens that step up; what the      *)
(* handlers write to the other members is added by MeetingRelay.           *)
(*                                                                         *)
(* Room objects and room numbers are distinct: a number is free again once *)
(* its room is gone, while an expiry handler that was already queued still *)
(* holds the old object.                                                   *)
(***************************************************************************)
EXTENDS Integers, FiniteSets

CONSTANTS
  Conns,           \* connection ids, each used by one client connection
  Rooms,           \* Room objects, one per successful create
  NoRoom,          \* absence of a room in a map
  RoomIds,         \* room numbers
  RandomIds,       \* the room numbers random_room_id can draw
  MaxRooms,        \* config.max_rooms
  HardMax,         \* config.max_participants_per_room
  Requests,        \* option payloads of create packets
  NoOptions        \* a create packet without options

MinParticipants == 2
MinMinutes      == 1
MaxMinutes      == 24 * 60
DefaultMinutes  == 60

ASSUME FiniteIds == IsFiniteSet(Conns) /\ IsFiniteSet(RoomIds)
ASSUME NoRoomIsNoObject == NoRoom \notin Rooms \cup Conns
ASSUME RoomIdsArePositive == RoomIds \subseteq Nat \ {0} /\ RandomIds \subseteq RoomIds
ASSUME LimitsAreNaturals == MaxRooms \in Nat /\ HardMax \in Nat /\ HardMax >= MinParticipants
ASSUME RequestsHaveOptions ==
  \A q \in Requests : q = NoOptions \/ (q.participants \in Nat /\ q.minutes \in Nat)

VARIABLES
  conn,        \* state of each connection
  connRoom,    \* MeetingService::_connection_room
  rooms,       \* RoomManager::_rooms
  nextRoomId,  \* RoomManager::_next_room_id
  status,      \* state of each Room object ("closed" is Room::_closed)
  number,      \* Room::_room_id, 0 before the object exists
  members,     \* the keys of Room::_participants
  owner,       \* the participant with is_owner, chosen by the constructor
  cap,         \* Room::_options.max_participants
  timer        \* Room::_expire_timer and its handler

lookupVars == <<connRoom, rooms>>
optionVars == <<nextRoomId, number, owner, cap>>
vars == <<conn, lookupVars, status, members, timer, optionVars>>

ConnStates  == {"unborn", "handshake", "open", "closed"}
RoomStates  == {"unused", "live", "closed"}
TimerStates == {"idle", "armed", "queued"}

TypeOK ==
  /\ conn \in [Conns -> ConnStates]
  /\ connRoom \in [Conns -> Rooms \cup {NoRoom}]
  /\ rooms \in [RoomIds -> Rooms \cup {NoRoom}]
  /\ nextRoomId \in Nat \ {0}
  /\ status \in [Rooms -> RoomStates]
  /\ number \in [Rooms -> RoomIds \cup {0}]
  /\ members \in [Rooms -> SUBSET Conns]
  /\ owner \in [Rooms -> Conns \cup {NoRoom}]
  /\ cap \in [Rooms -> Nat]
  /\ timer \in [Rooms -> TimerStates]

Init ==
  /\ conn = [c \in Conns |-> "unborn"]
  /\ connRoom = [c \in Conns |-> NoRoom]
  /\ rooms = [id \in RoomIds |-> NoRoom]
  /\ nextRoomId = 1
  /\ status = [r \in Rooms |-> "unused"]
  /\ number = [r \in Rooms |-> 0]
  /\ members = [r \in Rooms |-> {}]
  /\ owner = [r \in Rooms |-> NoRoom]
  /\ cap = [r \in Rooms |-> 0]
  /\ timer = [r \in Rooms |-> "idle"]

-----------------------------------------------------------------------------
(* Connections: the acceptor, the handshake and close(). *)

IsOpen(c) == conn[c] \in {"handshake", "open"}

(* Faulty: a connection that is in a meeting may create or join another one. *)
InLobbyAnyRoom(c) == conn[c] = "open"

InLobby(c) == conn[c] = "open" /\ connRoom[c] = NoRoom

AcceptSocket(c) ==
  /\ conn[c] = "unborn"
  /\ conn' = [conn EXCEPT ![c] = "handshake"]
  /\ UNCHANGED <<lookupVars, status, members, timer, optionVars>>

HandshakeDone(c) ==
  /\ conn[c] = "handshake"
  /\ conn' = [conn EXCEPT ![c] = "open"]
  /\ UNCHANGED <<lookupVars, status, members, timer, optionVars>>

(* A connection that is in no room closes: a failed handshake, a read or    *)
(* write error, an invalid frame, or a packet the lobby refuses by closing. *)
CloseInLobby(c) ==
  /\ IsOpen(c) /\ connRoom[c] = NoRoom
  /\ conn' = [conn EXCEPT ![c] = "closed"]
  /\ UNCHANGED <<lookupVars, status, members, timer, optionVars>>

-----------------------------------------------------------------------------
(* RoomManager *)

UsedIds == {id \in RoomIds : rooms[id] # NoRoom}

CanCreate == Cardinality(UsedIds) < MaxRooms

(* Faulty: the number drawn is not looked up in the table. *)
DrawRandomIdUnchecked(id) == id \in RandomIds /\ UNCHANGED nextRoomId

(* Only when all 32 draws can hit rooms in use does the search fall back to *)
(* counting up from _next_room_id.                                          *)
DrawRandomId(id) ==
  /\ id \in RandomIds \ UsedIds
  /\ UNCHANGED nextRoomId

FallBackToSequence(id) ==
  /\ RandomIds \cap UsedIds # {}
  /\ id \in RoomIds \ UsedIds
  /\ id >= nextRoomId
  /\ nextRoomId .. (id - 1) \subseteq UsedIds
  /\ nextRoomId' = id + 1

Clamp(x, lo, hi) == IF x < lo THEN lo ELSE IF x > hi THEN hi ELSE x

CreateOptions(q) ==
  IF q = NoOptions
    THEN [participants |-> HardMax, minutes |-> DefaultMinutes]
    ELSE [participants |-> Clamp(q.participants, MinParticipants, HardMax),
          minutes |-> Clamp(q.minutes, MinMinutes, MaxMinutes)]

(* Faulty: off by one, one participant too many. *)
JoinResultOffByOne(id) ==
  IF id \notin UsedIds THEN "NotFound"
  ELSE IF status[rooms[id]] = "closed" THEN "Closed"
  ELSE IF Cardinality(members[rooms[id]]) > cap[rooms[id]] THEN "Full"
  ELSE "Ok"

JoinResult(id) ==
  IF id \notin UsedIds THEN "NotFound"
  ELSE IF status[rooms[id]] = "closed" THEN "Closed"
  ELSE IF Cardinality(members[rooms[id]]) >= cap[rooms[id]] THEN "Full"
  ELSE "Ok"

(* Faulty: the test for an unlimited room is inverted. *)
FirstTimerInverted(minutes) == IF minutes # 0 THEN "idle" ELSE "armed"

(* start_expire_timer: a room of zero minutes would never expire *)
FirstTimer(minutes) == IF minutes = 0 THEN "idle" ELSE "armed"

CreateMeeting(c, q, r, id) ==
  /\ InLobby(c) /\ CanCreate
  /\ status[r] = "unused"
  /\ DrawRandomId(id) \/ FallBackToSequence(id)
  /\ rooms' = [rooms EXCEPT ![id] = r]
  /\ connRoom' = [connRoom EXCEPT ![c] = r]
  /\ status' = [status EXCEPT ![r] = "live"]
  /\ number' = [number EXCEPT ![r] = id]
  /\ members' = [members EXCEPT ![r] = {c}]
  /\ owner' = [owner EXCEPT ![r] = c]
  /\ cap' = [cap EXCEPT ![r] = CreateOptions(q).participants]
  /\ timer' = [timer EXCEPT ![r] = FirstTimer(CreateOptions(q).minutes)]
  /\ UNCHANGED conn

JoinMeeting(c, id) ==
  /\ InLobby(c) /\ JoinResult(id) = "Ok"
  /\ members' = [members EXCEPT ![rooms[id]] = @ \cup {c}]
  /\ connRoom' = [connRoom EXCEPT ![c] = rooms[id]]
  /\ UNCHANGED <<conn, rooms, status, timer, optionVars>>

-----------------------------------------------------------------------------
(* Room *)

(* cleanup_room forgets connections by room number *)
InRoomNumber(c, id) == connRoom[c] # NoRoom /\ number[connRoom[c]] = id

(* close_room, with the close callback of every participant connection and  *)
(* the cleanup callback; `also` is the connection whose close started it.   *)
CloseRoom(r, also) ==
  LET closing == {c \in members[r] : IsOpen(c)} \cup also
  IN  /\ status' = [status EXCEPT ![r] = "closed"]
      /\ members' = [members EXCEPT ![r] = {}]
      /\ conn' = [c \in Conns |-> IF c \in closing THEN "closed" ELSE conn[c]]
      /\ connRoom' = [c \in Conns |->
                        IF c \in closing \/ InRoomNumber(c, number[r])
                          THEN NoRoom ELSE connRoom[c]]
      /\ rooms' = [rooms EXCEPT ![number[r]] = NoRoom]

(* _expire_timer->cancel() stops a pending wait, not a handler that asio    *)
(* has already queued.                                                      *)
CancelTimer(r) ==
  timer' = [timer EXCEPT ![r] = IF @ = "armed" THEN "idle" ELSE @]

(* Faulty: the owner leaves as any member does. *)
OwnerClosesNever(c) == FALSE

OwnerCloses(c) == connRoom[c] # NoRoom /\ status[connRoom[c]] = "live"
                  /\ c \in members[connRoom[c]] /\ owner[connRoom[c]] = c

OwnerLeaves(c) ==
  /\ IsOpen(c) /\ OwnerCloses(c)
  /\ CloseRoom(connRoom[c], {c})
  /\ CancelTimer(connRoom[c])
  /\ UNCHANGED optionVars

MemberLeaves(c) ==
  /\ IsOpen(c) /\ connRoom[c] # NoRoom /\ ~OwnerCloses(c)
  /\ conn' = [conn EXCEPT ![c] = "closed"]
  /\ connRoom' = [connRoom EXCEPT ![c] = NoRoom]
  /\ members' = [members EXCEPT ![connRoom[c]] =
                   IF status[connRoom[c]] = "closed" THEN @ ELSE @ \ {c}]
  /\ UNCHANGED <<rooms, status, timer, optionVars>>

(* The steady_timer runs out and asio queues its handler. *)
TimerExpires(r) ==
  /\ timer[r] = "armed"
  /\ timer' = [timer EXCEPT ![r] = "queued"]
  /\ UNCHANGED <<conn, lookupVars, status, members, optionVars>>

ExpireRoom(r) ==
  /\ timer[r] = "queued" /\ status[r] # "closed"
  /\ CloseRoom(r, {})
  /\ timer' = [timer EXCEPT ![r] = "idle"]
  /\ UNCHANGED optionVars

(* Faulty: the handler finds its room by number, not by object. *)
ExpireByNumber(r) ==
  /\ timer[r] = "queued" /\ status[r] = "closed"
  /\ timer' = [timer EXCEPT ![r] = "idle"]
  /\ IF rooms[number[r]] # NoRoom
       THEN CloseRoom(rooms[number[r]], {})
       ELSE UNCHANGED <<conn, lookupVars, status, members>>
  /\ UNCHANGED optionVars

(* The handler outlived its room: close_room returns at once. *)
ExpireClosedRoom(r) ==
  /\ timer[r] = "queued" /\ status[r] = "closed"
  /\ timer' = [timer EXCEPT ![r] = "idle"]
  /\ UNCHANGED <<conn, lookupVars, status, members, optionVars>>

-----------------------------------------------------------------------------

Next ==
  \/ \E c \in Conns :
       \/ AcceptSocket(c)
       \/ HandshakeDone(c)
       \/ CloseInLobby(c)
       \/ \E q \in Requests, r \in Rooms, id \in RoomIds : CreateMeeting(c, q, r, id)
       \/ \E id \in RoomIds : JoinMeeting(c, id)
       \/ OwnerLeaves(c)
       \/ MemberLeaves(c)
  \/ \E r \in Rooms :
       \/ TimerExpires(r)
       \/ ExpireRoom(r)
       \/ ExpireClosedRoom(r)

(* Time passes and the asio loop runs what is queued; nothing else is fair: *)
(* clients need not come, nor go.                                           *)
Fairness == \A r \in Rooms : WF_vars(TimerExpires(r)) /\ WF_vars(ExpireRoom(r))

Spec == Init /\ [][Next]_vars
FairSpec == Spec /\ Fairness

-----------------------------------------------------------------------------
(* Safety *)

(* The room table lists exactly the live rooms, each under its own number:   *)
(* no closed room can be found, and no live room is lost from the table when *)
(* another one is cleaned up.                                                *)
TableListsLiveRooms ==
  /\ \A id \in UsedIds : status[rooms[id]] = "live" /\ number[rooms[id]] = id
  /\ \A r \in Rooms : status[r] = "live" => number[r] \in RoomIds /\ rooms[number[r]] = r

(* MeetingService and Room keep the membership twice, in _connection_room    *)
(* and in _participants; between two handlers they agree, so a packet is     *)
(* never routed to a room that does not know its sender, and no participant  *)
(* is left behind in a room its connection has left.                         *)
MembershipAgrees ==
  \A c \in Conns, r \in Rooms : c \in members[r] <=> connRoom[c] = r

(* Every participant of a room has a working connection, and only a live     *)
(* room has participants: no ghosts after any order of closes and expiry.    *)
NoGhosts ==
  \A r \in Rooms : \A c \in members[r] : conn[c] = "open" /\ status[r] = "live"

(* A live room has its owner in it: when the owner goes, the room goes.      *)
OwnerIsPresent ==
  \A r \in Rooms : status[r] = "live" => owner[r] \in members[r]

(* Neither limit of the configuration is exceeded.                           *)
WithinLimits ==
  /\ Cardinality({r \in Rooms : status[r] = "live"}) <= MaxRooms
  /\ \A r \in Rooms : Cardinality(members[r]) <= cap[r] /\ cap[r] <= HardMax

(* Every live room has an expiry ahead of it, whatever its creator asked for.*)
LiveRoomsHaveTimers ==
  \A r \in Rooms : status[r] = "live" => timer[r] # "idle"

(* A live room is listed, has its owner and an expiry; a room that is not    *)
(* live is listed nowhere and holds nobody.  Five functions take rooms and   *)
(* people apart, and no order of closes and expiries may leave a half.       *)
RoomsAreWhole ==
  TableListsLiveRooms /\ NoGhosts /\ OwnerIsPresent /\ LiveRoomsHaveTimers

(* An expiry handler closes the room it was armed for or nothing, even when  *)
(* the number of that room names another room by now.                        *)
ExpiryHitsItsOwnRoom ==
  [][\A r, q \in Rooms :
       timer[r] = "queued" /\ timer'[r] = "idle" /\ q # r
         => status'[q] = status[q] /\ members'[q] = members[q]]_vars

(* Closing one connection closes others only when they shared a room with it *)
(* and that room is dissolved.                                               *)
NoCollateralClose ==
  [][\A c, d \in Conns :
       IsOpen(c) /\ conn'[c] = "closed" /\ IsOpen(d) /\ conn'[d] = "closed" /\ c # d
         => /\ connRoom[c] # NoRoom /\ connRoom[c] = connRoom[d]
            /\ status'[connRoom[c]] = "closed"]_vars

(* Once in a meeting, a connection can only stay there or close: it never    *)
(* returns to the lobby to create or join a second meeting.                  *)
OneMeetingPerConnection ==
  [][\A c \in Conns :
       connRoom[c] # NoRoom /\ connRoom'[c] # connRoom[c]
         => connRoom'[c] = NoRoom /\ conn'[c] = "closed"]_vars

(* The conjunction that is inductive: what keeps an expiry handler from      *)
(* running for a room that was never created is the last conjunct.           *)
Consistent ==
  /\ TypeOK
  /\ TableListsLiveRooms
  /\ MembershipAgrees
  /\ NoGhosts
  /\ OwnerIsPresent
  /\ LiveRoomsHaveTimers
  /\ \A r \in Rooms : status[r] = "unused" => timer[r] = "idle"

(* The server implements the abstract registry of meetings: each handler is  *)
(* one step of the registry or none.                                         *)
Registry == INSTANCE MeetingRegistry WITH
  attending <- [id \in RoomIds |->
                  IF id \in UsedIds THEN members[rooms[id]] ELSE {}],
  host <- [id \in RoomIds |-> IF id \in UsedIds THEN owner[rooms[id]] ELSE NoRoom],
  gone <- {c \in Conns : conn[c] = "closed"},
  NoHost <- NoRoom, MaxMeetings <- MaxRooms, MaxMembers <- HardMax

ImplementsRegistry == Registry!RegistrySpec

(* Every meeting ends: its owner leaves or its expiry handler runs. *)
MeetingsEnd == \A r \in Rooms : status[r] = "live" ~> status[r] = "closed"
=============================================================================
