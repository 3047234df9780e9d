------------------------- MODULE MeetingServerProofs -------------------------
(***************************************************************************)
(* Proofs about MeetingServer for any number of connections, rooms and     *)
(* room numbers.  Consistent is inductive; the membership, table, owner,   *)
(* ghost and timer invariants follow from it, the limits need counting on  *)
(* top of it.  With both, a handler of the server is one step of the       *)
(* registry of meetings or leaves it as it is.                             *)
(***************************************************************************)
EXTENDS MeetingServer, FiniteSetTheorems, TLAPS

USE NoRoomIsNoObject, RoomIdsArePositive DEF ConnStates, RoomStates, TimerStates

LEMMA CreateOptionsType ==
  ASSUME NEW q \in Requests
  PROVE  /\ CreateOptions(q).participants \in Nat
         /\ CreateOptions(q).participants <= HardMax
         /\ CreateOptions(q).participants >= MinParticipants
         /\ CreateOptions(q).minutes \in Nat
         /\ CreateOptions(q).minutes >= MinMinutes
BY LimitsAreNaturals, RequestsHaveOptions
   DEF CreateOptions, Clamp, MinParticipants, MinMinutes, MaxMinutes, DefaultMinutes

LEMMA InitConsistent == Init => Consistent
BY DEF Init, Consistent, TypeOK, TableListsLiveRooms, MembershipAgrees, NoGhosts,
       OwnerIsPresent, LiveRoomsHaveTimers, UsedIds

(* Actions that only move a connection that is in no room. *)
LEMMA LobbyStepConsistent ==
  ASSUME Consistent, NEW c \in Conns,
         AcceptSocket(c) \/ HandshakeDone(c) \/ CloseInLobby(c)
  PROVE  Consistent'
<1> USE DEF Consistent, lookupVars, optionVars
<1>1. TypeOK'
  BY DEF TypeOK, AcceptSocket, HandshakeDone, CloseInLobby
<1>2. \A r \in Rooms : c \notin members[r]
  BY DEF TypeOK, MembershipAgrees, NoGhosts, AcceptSocket, HandshakeDone, CloseInLobby
<1>3. NoGhosts'
  BY <1>2 DEF TypeOK, NoGhosts, AcceptSocket, HandshakeDone, CloseInLobby
<1>4. QED
  BY <1>1, <1>3 DEF TableListsLiveRooms, MembershipAgrees, OwnerIsPresent,
     LiveRoomsHaveTimers, UsedIds, AcceptSocket, HandshakeDone, CloseInLobby

LEMMA CreateConsistent ==
  ASSUME Consistent, NEW c \in Conns, NEW q \in Requests, NEW r \in Rooms,
         NEW id \in RoomIds, CreateMeeting(c, q, r, id)
  PROVE  Consistent'
<1> USE DEF Consistent
<1>1. TypeOK'
  <2>1. nextRoomId' \in Nat \ {0}
    BY DEF CreateMeeting, DrawRandomId, FallBackToSequence, TypeOK
  <2>2. timer' \in [Rooms -> TimerStates]
    BY DEF CreateMeeting, FirstTimer, TypeOK
  <2>3. QED
    BY <2>1, <2>2, CreateOptionsType DEF CreateMeeting, TypeOK
<1>2. rooms[id] = NoRoom /\ status[r] = "unused" /\ connRoom[c] = NoRoom /\ conn[c] = "open"
  BY DEF CreateMeeting, DrawRandomId, FallBackToSequence, UsedIds, InLobby
<1>3. members[r] = {}
  BY <1>2 DEF NoGhosts, TypeOK
<1>4. TableListsLiveRooms'
  BY <1>2 DEF TableListsLiveRooms, UsedIds, CreateMeeting, TypeOK
<1>5. MembershipAgrees'
  BY <1>2, <1>3 DEF MembershipAgrees, CreateMeeting, TypeOK
<1>6. NoGhosts'
  BY <1>2 DEF NoGhosts, CreateMeeting, TypeOK
<1>7. OwnerIsPresent'
  BY DEF OwnerIsPresent, CreateMeeting, TypeOK
<1>8. LiveRoomsHaveTimers' /\ \A x \in Rooms : status'[x] = "unused" => timer'[x] = "idle"
  <2>1. FirstTimer(CreateOptions(q).minutes) = "armed"
    BY CreateOptionsType DEF FirstTimer, MinMinutes
  <2>2. QED
    BY <2>1 DEF LiveRoomsHaveTimers, CreateMeeting, TypeOK
<1>9. QED
  BY <1>1, <1>4, <1>5, <1>6, <1>7, <1>8

LEMMA JoinConsistent ==
  ASSUME Consistent, NEW c \in Conns, NEW id \in RoomIds, JoinMeeting(c, id)
  PROVE  Consistent'
<1> USE DEF Consistent, optionVars
<1>1. id \in UsedIds /\ conn[c] = "open" /\ connRoom[c] = NoRoom
  BY DEF JoinMeeting, JoinResult, InLobby
<1>2. rooms[id] \in Rooms /\ status[rooms[id]] = "live"
  BY <1>1 DEF TableListsLiveRooms, UsedIds, TypeOK
<1>3. TypeOK'
  BY <1>2 DEF JoinMeeting, TypeOK
<1>4. MembershipAgrees'
  BY <1>1, <1>2 DEF MembershipAgrees, JoinMeeting, TypeOK
<1>5. NoGhosts'
  BY <1>1, <1>2 DEF NoGhosts, JoinMeeting, TypeOK
<1>6. OwnerIsPresent'
  BY <1>2 DEF OwnerIsPresent, JoinMeeting, TypeOK
<1>7. QED
  BY <1>3, <1>4, <1>5, <1>6 DEF TableListsLiveRooms, LiveRoomsHaveTimers, UsedIds, JoinMeeting

(* Closing a live room closes and forgets its members, and nobody else: the  *)
(* number cleanup_room goes by belongs to no other connection's room.        *)
LEMMA CloseRoomEffect ==
  ASSUME Consistent, NEW r \in Rooms, status[r] = "live",
         NEW also \in SUBSET members[r], CloseRoom(r, also)
  PROVE  /\ \A c \in Conns : conn'[c] = IF c \in members[r] THEN "closed" ELSE conn[c]
         /\ \A c \in Conns : connRoom'[c] = IF c \in members[r] THEN NoRoom ELSE connRoom[c]
<1> USE DEF Consistent
<1>1. \A c \in members[r] : IsOpen(c)
  BY DEF NoGhosts, IsOpen, TypeOK
<1>2. ASSUME NEW c \in Conns, InRoomNumber(c, number[r]) PROVE c \in members[r]
  <2>1. c \in members[connRoom[c]] /\ connRoom[c] \in Rooms
    BY <1>2 DEF InRoomNumber, MembershipAgrees, TypeOK
  <2>2. status[connRoom[c]] = "live"
    BY <2>1 DEF NoGhosts
  <2>3. connRoom[c] = r
    BY <1>2, <2>1, <2>2 DEF TableListsLiveRooms, InRoomNumber
  <2>4. QED
    BY <2>1, <2>3
<1>3. QED
  BY <1>1, <1>2 DEF CloseRoom

(* What close_room keeps, whoever starts it. *)
LEMMA CloseRoomConsistent ==
  ASSUME Consistent, NEW r \in Rooms, status[r] = "live",
         NEW also \in SUBSET members[r], CloseRoom(r, also),
         timer' \in [Rooms -> TimerStates],
         \A x \in Rooms : timer'[x] = timer[x] \/ x = r,
         UNCHANGED optionVars
  PROVE  Consistent'
<1> USE DEF Consistent, optionVars
<1>1. number[r] \in RoomIds /\ rooms[number[r]] = r
  BY DEF TableListsLiveRooms
<1>2. /\ \A c \in Conns : conn'[c] = IF c \in members[r] THEN "closed" ELSE conn[c]
      /\ \A c \in Conns : connRoom'[c] = IF c \in members[r] THEN NoRoom ELSE connRoom[c]
  BY CloseRoomEffect
<1>3. TypeOK'
  BY <1>1 DEF CloseRoom, TypeOK
<1>4. TableListsLiveRooms'
  BY <1>1 DEF TableListsLiveRooms, UsedIds, CloseRoom, TypeOK
<1>5. MembershipAgrees'
  BY <1>2 DEF MembershipAgrees, CloseRoom, TypeOK
<1>6. NoGhosts'
  <2>1. \A x \in Rooms : x # r => members[x] \cap members[r] = {}
    BY DEF MembershipAgrees, TypeOK
  <2>2. QED
    BY <1>2, <2>1 DEF NoGhosts, CloseRoom, TypeOK
<1>7. OwnerIsPresent'
  BY DEF OwnerIsPresent, CloseRoom, TypeOK
<1>8. LiveRoomsHaveTimers' /\ \A x \in Rooms : status'[x] = "unused" => timer'[x] = "idle"
  BY DEF LiveRoomsHaveTimers, CloseRoom, TypeOK
<1>9. QED
  BY <1>3, <1>4, <1>5, <1>6, <1>7, <1>8

LEMMA OwnerLeavesConsistent ==
  ASSUME Consistent, NEW c \in Conns, OwnerLeaves(c)
  PROVE  Consistent'
<1>1. PICK r \in Rooms : r = connRoom[c]
  BY DEF OwnerLeaves, OwnerCloses, Consistent, TypeOK
<1>2. status[r] = "live" /\ {c} \in SUBSET members[r]
  BY <1>1 DEF OwnerLeaves, OwnerCloses
<1>3. /\ timer' \in [Rooms -> TimerStates]
      /\ \A x \in Rooms : timer'[x] = timer[x] \/ x = r
  BY <1>1 DEF OwnerLeaves, CancelTimer, Consistent, TypeOK
<1>4. CloseRoom(r, {c}) /\ UNCHANGED optionVars
  BY <1>1 DEF OwnerLeaves
<1>5. QED
  BY <1>2, <1>3, <1>4, CloseRoomConsistent

LEMMA MemberLeavesConsistent ==
  ASSUME Consistent, NEW c \in Conns, MemberLeaves(c)
  PROVE  Consistent'
<1> USE DEF Consistent, optionVars
<1> DEFINE r == connRoom[c]
<1>1. r \in Rooms /\ c \in members[r] /\ status[r] = "live" /\ owner[r] # c
  BY DEF MemberLeaves, OwnerCloses, MembershipAgrees, NoGhosts, TypeOK
<1>2. /\ \A x \in Rooms : members'[x] = IF x = r THEN members[x] \ {c} ELSE members[x]
      /\ \A d \in Conns : connRoom'[d] = IF d = c THEN NoRoom ELSE connRoom[d]
      /\ \A d \in Conns : conn'[d] = IF d = c THEN "closed" ELSE conn[d]
  BY <1>1 DEF MemberLeaves, TypeOK
<1>3. TypeOK'
  BY <1>1 DEF MemberLeaves, TypeOK
<1>4. MembershipAgrees'
  <2> SUFFICES ASSUME NEW d \in Conns, NEW x \in Rooms
               PROVE  d \in members'[x] <=> connRoom'[d] = x
    BY DEF MembershipAgrees
  <2>1. CASE d = c
    <3>1. connRoom'[d] = NoRoom /\ NoRoom # x
      BY <1>2, <2>1
    <3>2. d \notin members'[x]
      <4>1. CASE x = r
        BY <1>2, <2>1, <4>1
      <4>2. CASE x # r
        BY <1>2, <2>1, <4>2 DEF MembershipAgrees
      <4>3. QED
        BY <4>1, <4>2
    <3>3. QED
      BY <3>1, <3>2
  <2>2. CASE d # c
    <3>1. d \in members[x] <=> connRoom[d] = x
      BY DEF MembershipAgrees
    <3>2. connRoom'[d] = connRoom[d]
      BY <1>2, <2>2
    <3>3. d \in members'[x] <=> d \in members[x]
      <4> HIDE DEF r
      <4>1. members'[x] = IF x = r THEN members[x] \ {c} ELSE members[x]
        BY <1>2
      <4>2. QED
        BY <2>2, <4>1
    <3>4. QED
      BY <3>1, <3>2, <3>3
  <2>3. QED
    BY <2>1, <2>2
<1>5. NoGhosts'
  BY <1>1, <1>2 DEF NoGhosts, MembershipAgrees, MemberLeaves, TypeOK
<1>6. OwnerIsPresent'
  BY <1>1, <1>2 DEF OwnerIsPresent, MemberLeaves
<1>7. QED
  BY <1>3, <1>4, <1>5, <1>6
     DEF TableListsLiveRooms, LiveRoomsHaveTimers, UsedIds, MemberLeaves

LEMMA TimerStepConsistent ==
  ASSUME Consistent, NEW r \in Rooms, TimerExpires(r) \/ ExpireRoom(r) \/ ExpireClosedRoom(r)
  PROVE  Consistent'
<1> USE DEF Consistent, lookupVars, optionVars
<1>1. CASE TimerExpires(r)
  BY <1>1 DEF TimerExpires, TypeOK, TableListsLiveRooms, MembershipAgrees, NoGhosts,
     OwnerIsPresent, LiveRoomsHaveTimers, UsedIds
<1>2. CASE ExpireClosedRoom(r)
  BY <1>2 DEF ExpireClosedRoom, TypeOK, TableListsLiveRooms, MembershipAgrees, NoGhosts,
     OwnerIsPresent, LiveRoomsHaveTimers, UsedIds
<1>3. CASE ExpireRoom(r)
  <2>1. status[r] = "live"
    BY <1>3 DEF ExpireRoom, TypeOK
  <2>2. /\ timer' \in [Rooms -> TimerStates]
        /\ \A x \in Rooms : timer'[x] = timer[x] \/ x = r
    BY <1>3 DEF ExpireRoom, TypeOK
  <2>3. {} \in SUBSET members[r] /\ CloseRoom(r, {}) /\ UNCHANGED optionVars
    BY <1>3 DEF ExpireRoom
  <2>4. QED
    BY <2>1, <2>2, <2>3, CloseRoomConsistent
<1>4. QED
  BY <1>1, <1>2, <1>3

LEMMA NextConsistent == Consistent /\ [Next]_vars => Consistent'
<1> SUFFICES ASSUME Consistent, [Next]_vars PROVE Consistent'
  OBVIOUS
<1>1. CASE UNCHANGED vars
  BY <1>1 DEF Consistent, vars, lookupVars, optionVars, TypeOK, TableListsLiveRooms,
     MembershipAgrees, NoGhosts, OwnerIsPresent, LiveRoomsHaveTimers, UsedIds
<1>2. CASE Next
  BY <1>2, LobbyStepConsistent, CreateConsistent, JoinConsistent, OwnerLeavesConsistent,
     MemberLeavesConsistent, TimerStepConsistent DEF Next
<1>3. QED
  BY <1>1, <1>2

(* The five consistency invariants hold for every size of server: every map  *)
(* of MeetingService, RoomManager and Room agrees with the others between    *)
(* any two handlers.                                                         *)
THEOREM ServerConsistent == Spec => []Consistent
BY InitConsistent, NextConsistent, PTL DEF Spec

(* Type correctness of the server state. *)
THEOREM ServerTypeOK == Spec => []TypeOK
BY ServerConsistent, PTL DEF Consistent

(* The two copies of the membership agree. *)
THEOREM ServerMembershipAgrees == Spec => []MembershipAgrees
BY ServerConsistent, PTL DEF Consistent

(* Live rooms are listed, owned and timed; the rest is empty and unlisted.   *)
THEOREM ServerRoomsAreWhole == Spec => []RoomsAreWhole
BY ServerConsistent, PTL DEF Consistent, RoomsAreWhole

-----------------------------------------------------------------------------
(* The limits *)

Live == {r \in Rooms : status[r] = "live"}

(* A join and a create only ever add; every other handler takes away.        *)
Shrinks ==
  /\ Live' \subseteq Live
  /\ \A r \in Rooms : members'[r] \subseteq members[r]
  /\ cap' = cap

LEMMA FiniteMembers ==
  ASSUME TypeOK, NEW r \in Rooms
  PROVE  IsFiniteSet(members[r]) /\ Cardinality(members[r]) \in Nat
<1>1. members[r] \in SUBSET Conns
  BY DEF TypeOK
<1>2. QED
  BY <1>1, FiniteIds, FS_Subset, FS_CardinalityType

(* The table names every live room once, so counting its entries, as        *)
(* can_create does, counts the live rooms.                                   *)
LEMMA LiveRoomsCount ==
  ASSUME Consistent
  PROVE  /\ IsFiniteSet(Live) /\ Cardinality(Live) \in Nat
         /\ Cardinality(Live) = Cardinality(UsedIds)
<1> USE DEF Consistent
<1>1. IsFiniteSet(UsedIds)
  BY FiniteIds, FS_Subset DEF UsedIds
<1> DEFINE f == [id \in UsedIds |-> rooms[id]]
<1>2. f \in [UsedIds -> Live]
  <2>1. \A id \in UsedIds : rooms[id] \in Rooms /\ status[rooms[id]] = "live"
    BY DEF UsedIds, TypeOK, TableListsLiveRooms
  <2>2. QED
    BY <2>1 DEF Live
<1>3. \A i, j \in UsedIds : f[i] = f[j] => i = j
  BY DEF TableListsLiveRooms
<1>4. \A r \in Live : number[r] \in UsedIds /\ f[number[r]] = r
  BY DEF TableListsLiveRooms, Live, UsedIds, TypeOK
<1>5. f \in Bijection(UsedIds, Live)
  BY <1>2, <1>3, <1>4, Zenon DEF Bijection, Injection, Surjection, IsInjective
<1>6. ExistsBijection(UsedIds, Live)
  BY <1>5 DEF ExistsBijection
<1>7. QED
  BY <1>1, <1>6, FS_Bijection, FS_CardinalityType

LEMMA InitWithinLimits == Init => WithinLimits
<1> SUFFICES ASSUME Init PROVE WithinLimits
  OBVIOUS
<1>1. Live = {}
  BY DEF Init, Live
<1>2. Cardinality(Live) <= MaxRooms
  BY <1>1, FS_EmptySet, LimitsAreNaturals
<1>3. \A r \in Rooms : Cardinality(members[r]) <= cap[r] /\ cap[r] <= HardMax
  BY FS_EmptySet, LimitsAreNaturals DEF Init
<1>4. QED
  BY <1>2, <1>3 DEF WithinLimits, Live

LEMMA ShrinksWithinLimits ==
  ASSUME Consistent, WithinLimits, Shrinks
  PROVE  WithinLimits'
<1>1. Cardinality(Live') <= Cardinality(Live) /\ Cardinality(Live') \in Nat
  BY LiveRoomsCount, FS_Subset, FS_CardinalityType DEF Shrinks
<1>2. Cardinality(Live') <= MaxRooms
  BY <1>1, LiveRoomsCount, LimitsAreNaturals DEF WithinLimits, Live
<1>3. ASSUME NEW r \in Rooms
      PROVE  Cardinality(members'[r]) <= cap[r] /\ cap[r] <= HardMax
  <2>1. cap[r] \in Nat /\ Cardinality(members[r]) <= cap[r] /\ cap[r] <= HardMax
    BY DEF WithinLimits, Consistent, TypeOK
  <2>2. IsFiniteSet(members[r]) /\ Cardinality(members[r]) \in Nat
    BY FiniteMembers DEF Consistent
  <2>3. members'[r] \in SUBSET members[r]
    BY DEF Shrinks
  <2>4. Cardinality(members'[r]) <= Cardinality(members[r]) /\ Cardinality(members'[r]) \in Nat
    BY <2>2, <2>3, FS_Subset, FS_CardinalityType
  <2>5. QED
    BY <2>1, <2>2, <2>4
<1>4. QED
  BY <1>2, <1>3 DEF WithinLimits, Live, Shrinks

LEMMA CreateWithinLimits ==
  ASSUME Consistent, WithinLimits, NEW c \in Conns, NEW q \in Requests, NEW r \in Rooms,
         NEW id \in RoomIds, CreateMeeting(c, q, r, id)
  PROVE  WithinLimits'
<1>1. Live' = Live \cup {r} /\ r \notin Live
  BY DEF Live, CreateMeeting, Consistent, TypeOK
<1>2. Cardinality(Live') = Cardinality(Live) + 1
  BY <1>1, LiveRoomsCount, FS_AddElement
<1>3. Cardinality(Live') <= MaxRooms
  BY <1>2, LiveRoomsCount, LimitsAreNaturals DEF CreateMeeting, CanCreate
<1>4. ASSUME NEW x \in Rooms
      PROVE  Cardinality(members'[x]) <= cap'[x] /\ cap'[x] <= HardMax
  <2>1. CASE x = r
    <3>1. members'[x] = {c} /\ cap'[x] = CreateOptions(q).participants
      BY <2>1 DEF CreateMeeting, Consistent, TypeOK
    <3>2. Cardinality({c}) = 1
      BY FS_Singleton
    <3>3. QED
      BY <3>1, <3>2, CreateOptionsType, LimitsAreNaturals DEF MinParticipants
  <2>2. CASE x # r
    BY <2>2 DEF CreateMeeting, WithinLimits, Consistent, TypeOK
  <2>3. QED
    BY <2>1, <2>2
<1>5. QED
  BY <1>3, <1>4 DEF WithinLimits, Live

LEMMA JoinWithinLimits ==
  ASSUME Consistent, WithinLimits, NEW c \in Conns, NEW id \in RoomIds, JoinMeeting(c, id)
  PROVE  WithinLimits'
<1>1. Live' = Live /\ cap' = cap
  BY DEF Live, JoinMeeting, optionVars
<1>2. rooms[id] \in Rooms /\ Cardinality(members[rooms[id]]) < cap[rooms[id]]
  <2>1. id \in UsedIds /\ ~(Cardinality(members[rooms[id]]) >= cap[rooms[id]])
    BY DEF JoinMeeting, JoinResult
  <2>2. rooms[id] \in Rooms
    BY <2>1 DEF UsedIds, Consistent, TypeOK
  <2>3. cap[rooms[id]] \in Nat /\ Cardinality(members[rooms[id]]) \in Nat
    BY <2>2, FiniteMembers DEF Consistent, TypeOK
  <2>4. QED
    BY <2>1, <2>2, <2>3
<1>3. ASSUME NEW x \in Rooms
      PROVE  Cardinality(members'[x]) <= cap[x] /\ cap[x] <= HardMax
  <2>1. IsFiniteSet(members[x]) /\ Cardinality(members[x]) \in Nat /\ cap[x] \in Nat
    BY FiniteMembers DEF Consistent, TypeOK
  <2>2. CASE x = rooms[id]
    <3>1. members'[x] = members[x] \cup {c}
      BY <2>2 DEF JoinMeeting, Consistent, TypeOK
    <3>2. Cardinality(members[x] \cup {c})
            = IF c \in members[x] THEN Cardinality(members[x]) ELSE Cardinality(members[x]) + 1
      BY <2>1, FS_AddElement
    <3>3. Cardinality(members'[x]) <= Cardinality(members[x]) + 1
          /\ Cardinality(members'[x]) \in Nat
      BY <2>1, <3>1, <3>2
    <3>4. QED
      BY <1>2, <2>1, <2>2, <3>3 DEF WithinLimits
  <2>3. CASE x # rooms[id]
    BY <2>3 DEF JoinMeeting, WithinLimits, Consistent, TypeOK
  <2>4. QED
    BY <2>2, <2>3
<1>4. QED
  BY <1>1, <1>3 DEF WithinLimits, Live

LEMMA OtherStepsShrink ==
  ASSUME Consistent,
         \/ UNCHANGED vars
         \/ \E c \in Conns : \/ AcceptSocket(c) \/ HandshakeDone(c) \/ CloseInLobby(c)
                             \/ OwnerLeaves(c) \/ MemberLeaves(c)
         \/ \E r \in Rooms : TimerExpires(r) \/ ExpireRoom(r) \/ ExpireClosedRoom(r)
  PROVE  Shrinks
<1> USE DEF Consistent, TypeOK, Shrinks, Live, optionVars
<1>1. CASE UNCHANGED vars
  BY <1>1 DEF vars
<1>2. ASSUME NEW c \in Conns, AcceptSocket(c) \/ HandshakeDone(c) \/ CloseInLobby(c)
      PROVE  Shrinks
  BY <1>2 DEF AcceptSocket, HandshakeDone, CloseInLobby
<1>3. ASSUME NEW c \in Conns, OwnerLeaves(c) PROVE Shrinks
  BY <1>3 DEF OwnerLeaves, CloseRoom
<1>4. ASSUME NEW c \in Conns, MemberLeaves(c) PROVE Shrinks
  BY <1>4 DEF MemberLeaves
<1>5. ASSUME NEW r \in Rooms, TimerExpires(r) \/ ExpireRoom(r) \/ ExpireClosedRoom(r)
      PROVE  Shrinks
  BY <1>5 DEF TimerExpires, ExpireRoom, ExpireClosedRoom, CloseRoom
<1>6. QED
  BY <1>1, <1>2, <1>3, <1>4, <1>5

LEMMA NextWithinLimits == Consistent /\ WithinLimits /\ [Next]_vars => WithinLimits'
<1> SUFFICES ASSUME Consistent, WithinLimits, [Next]_vars PROVE WithinLimits'
  OBVIOUS
<1>1. CASE \E c \in Conns, q \in Requests, r \in Rooms, id \in RoomIds : CreateMeeting(c, q, r, id)
  BY <1>1, CreateWithinLimits
<1>2. CASE \E c \in Conns, id \in RoomIds : JoinMeeting(c, id)
  BY <1>2, JoinWithinLimits
<1>3. CASE \/ UNCHANGED vars
           \/ \E c \in Conns : \/ AcceptSocket(c) \/ HandshakeDone(c) \/ CloseInLobby(c)
                               \/ OwnerLeaves(c) \/ MemberLeaves(c)
           \/ \E r \in Rooms : TimerExpires(r) \/ ExpireRoom(r) \/ ExpireClosedRoom(r)
  BY <1>3, OtherStepsShrink, ShrinksWithinLimits
<1>4. QED
  BY <1>1, <1>2, <1>3 DEF Next

(* Neither the number of live rooms nor the size of a room ever exceeds its  *)
(* limit, for any numbers of connections and rooms, and whatever the         *)
(* creators ask for.                                                         *)
THEOREM ServerWithinLimits == Spec => []WithinLimits
<1>1. Init => Consistent /\ WithinLimits
  BY InitConsistent, InitWithinLimits
<1>2. Consistent /\ WithinLimits /\ [Next]_vars => (Consistent /\ WithinLimits)'
  BY NextConsistent, NextWithinLimits
<1>3. QED
  BY <1>1, <1>2, PTL DEF Spec

-----------------------------------------------------------------------------
(* What a step may never do *)

LEMMA OneMeetingStep ==
  ASSUME Consistent, Next, NEW c \in Conns,
         connRoom[c] # NoRoom, connRoom'[c] # connRoom[c]
  PROVE  connRoom'[c] = NoRoom /\ conn'[c] = "closed"
<1> USE DEF Consistent, lookupVars, optionVars
<1>1. ASSUME NEW r \in Rooms, NEW also \in SUBSET members[r], status[r] = "live",
             CloseRoom(r, also)
      PROVE  connRoom'[c] = NoRoom /\ conn'[c] = "closed"
  BY <1>1, CloseRoomEffect
<1>2. ASSUME NEW d \in Conns,
             \/ AcceptSocket(d) \/ HandshakeDone(d) \/ CloseInLobby(d)
             \/ \E q \in Requests, r \in Rooms, id \in RoomIds : CreateMeeting(d, q, r, id)
             \/ \E id \in RoomIds : JoinMeeting(d, id)
      PROVE  FALSE
  BY <1>2 DEF AcceptSocket, HandshakeDone, CloseInLobby, CreateMeeting, JoinMeeting, InLobby,
     TypeOK
<1>3. ASSUME NEW d \in Conns, OwnerLeaves(d)
      PROVE  connRoom'[c] = NoRoom /\ conn'[c] = "closed"
  <2>1. connRoom[d] \in Rooms /\ {d} \in SUBSET members[connRoom[d]]
        /\ status[connRoom[d]] = "live" /\ CloseRoom(connRoom[d], {d})
    BY <1>3 DEF OwnerLeaves, OwnerCloses, TypeOK
  <2>2. QED
    BY <1>1, <2>1
<1>4. ASSUME NEW d \in Conns, MemberLeaves(d)
      PROVE  connRoom'[c] = NoRoom /\ conn'[c] = "closed"
  BY <1>4 DEF MemberLeaves, TypeOK
<1>5. ASSUME NEW r \in Rooms, TimerExpires(r) \/ ExpireRoom(r) \/ ExpireClosedRoom(r)
      PROVE  connRoom'[c] = NoRoom /\ conn'[c] = "closed"
  <2>1. ExpireRoom(r) /\ status[r] = "live"
    BY <1>5 DEF TimerExpires, ExpireClosedRoom, ExpireRoom, TypeOK
  <2>2. {} \in SUBSET members[r] /\ CloseRoom(r, {})
    BY <2>1 DEF ExpireRoom
  <2>3. QED
    BY <1>1, <2>1, <2>2
<1>6. QED
  BY <1>2, <1>3, <1>4, <1>5 DEF Next

(* A connection that has been in a meeting never returns to the lobby: it    *)
(* stays in that meeting until it is closed.                                 *)
THEOREM ServerOneMeeting == Spec => OneMeetingPerConnection
<1>1. Consistent /\ [Next]_vars
        => [\A c \in Conns :
              connRoom[c] # NoRoom /\ connRoom'[c] # connRoom[c]
                => connRoom'[c] = NoRoom /\ conn'[c] = "closed"]_vars
  BY OneMeetingStep
<1>2. QED
  BY <1>1, ServerConsistent, PTL DEF Spec, OneMeetingPerConnection

LEMMA ExpiryStep ==
  ASSUME Consistent, Next, NEW r \in Rooms, NEW q \in Rooms, q # r,
         timer[r] = "queued", timer'[r] = "idle"
  PROVE  status'[q] = status[q] /\ members'[q] = members[q]
<1> USE DEF Consistent, lookupVars, optionVars, TypeOK
<1>1. \/ ExpireRoom(r) \/ ExpireClosedRoom(r)
  <2>1. ASSUME NEW d \in Conns,
               \/ AcceptSocket(d) \/ HandshakeDone(d) \/ CloseInLobby(d)
               \/ \E id \in RoomIds : JoinMeeting(d, id)
               \/ OwnerLeaves(d) \/ MemberLeaves(d)
        PROVE  FALSE
    BY <2>1 DEF AcceptSocket, HandshakeDone, CloseInLobby, JoinMeeting, OwnerLeaves,
       CancelTimer, MemberLeaves
  <2>2. ASSUME NEW d \in Conns, NEW o \in Requests, NEW x \in Rooms, NEW id \in RoomIds,
               CreateMeeting(d, o, x, id)
        PROVE  FALSE
    BY <2>2 DEF CreateMeeting
  <2>3. ASSUME NEW x \in Rooms, TimerExpires(x) PROVE FALSE
    BY <2>3 DEF TimerExpires
  <2>4. ASSUME NEW x \in Rooms, x # r, ExpireRoom(x) \/ ExpireClosedRoom(x) PROVE FALSE
    BY <2>4 DEF ExpireRoom, ExpireClosedRoom
  <2>5. QED
    BY <2>1, <2>2, <2>3, <2>4 DEF Next
<1>2. QED
  BY <1>1 DEF ExpireRoom, ExpireClosedRoom, CloseRoom

(* An expiry handler that asio had queued when its room was closed touches   *)
(* no other room, not even one that has been given the same number.          *)
THEOREM ServerExpiry == Spec => ExpiryHitsItsOwnRoom
<1>1. Consistent /\ [Next]_vars
        => [\A r, q \in Rooms :
              timer[r] = "queued" /\ timer'[r] = "idle" /\ q # r
                => status'[q] = status[q] /\ members'[q] = members[q]]_vars
  BY ExpiryStep
<1>2. QED
  BY <1>1, ServerConsistent, PTL DEF Spec, ExpiryHitsItsOwnRoom

LEMMA CollateralStep ==
  ASSUME Consistent, Next, NEW c \in Conns, NEW d \in Conns, c # d,
         IsOpen(c), conn'[c] = "closed", IsOpen(d), conn'[d] = "closed"
  PROVE  /\ connRoom[c] # NoRoom /\ connRoom[c] = connRoom[d]
         /\ status'[connRoom[c]] = "closed"
<1> USE DEF Consistent, lookupVars, optionVars, TypeOK
<1>1. PICK r \in Rooms : /\ status[r] = "live"
                         /\ \E also \in SUBSET members[r] : CloseRoom(r, also)
  <2>1. ASSUME NEW x \in Conns, AcceptSocket(x) \/ HandshakeDone(x) \/ CloseInLobby(x)
        PROVE  FALSE
    BY <2>1 DEF AcceptSocket, HandshakeDone, CloseInLobby, IsOpen
  <2>2. ASSUME NEW x \in Conns,
               \/ \E q \in Requests, r \in Rooms, id \in RoomIds : CreateMeeting(x, q, r, id)
               \/ \E id \in RoomIds : JoinMeeting(x, id)
        PROVE  FALSE
    BY <2>2 DEF CreateMeeting, JoinMeeting, IsOpen
  <2>3. ASSUME NEW x \in Conns, MemberLeaves(x) PROVE FALSE
    BY <2>3 DEF MemberLeaves, IsOpen
  <2>4. ASSUME NEW x \in Rooms, TimerExpires(x) \/ ExpireClosedRoom(x) PROVE FALSE
    BY <2>4 DEF TimerExpires, ExpireClosedRoom, IsOpen
  <2>5. ASSUME NEW x \in Conns, OwnerLeaves(x)
        PROVE  /\ connRoom[x] \in Rooms /\ status[connRoom[x]] = "live"
               /\ {x} \in SUBSET members[connRoom[x]] /\ CloseRoom(connRoom[x], {x})
    BY <2>5 DEF OwnerLeaves, OwnerCloses
  <2>6. ASSUME NEW x \in Rooms, ExpireRoom(x)
        PROVE  status[x] = "live" /\ {} \in SUBSET members[x] /\ CloseRoom(x, {})
    BY <2>6 DEF ExpireRoom
  <2>7. QED
    BY <2>1, <2>2, <2>3, <2>4, <2>5, <2>6 DEF Next
<1>2. c \in members[r] /\ d \in members[r]
  BY <1>1, CloseRoomEffect DEF IsOpen
<1>3. QED
  BY <1>1, <1>2 DEF MembershipAgrees, CloseRoom

(* Two connections close in one handler only when they were in the same room *)
(* and that room is dissolved.                                               *)
THEOREM ServerNoCollateralClose == Spec => NoCollateralClose
<1>1. Consistent /\ [Next]_vars
        => [\A c, d \in Conns :
              IsOpen(c) /\ conn'[c] = "closed" /\ IsOpen(d) /\ conn'[d] = "closed" /\ c # d
                => /\ connRoom[c] # NoRoom /\ connRoom[c] = connRoom[d]
                   /\ status'[connRoom[c]] = "closed"]_vars
  BY CollateralStep
<1>2. QED
  BY <1>1, ServerConsistent, PTL DEF Spec, NoCollateralClose

-----------------------------------------------------------------------------
(* The registry's variables as the server shows them *)
Attending == [id \in RoomIds |-> IF id \in UsedIds THEN members[rooms[id]] ELSE {}]
Host == [id \in RoomIds |-> IF id \in UsedIds THEN owner[rooms[id]] ELSE NoRoom]
Gone == {c \in Conns : conn[c] = "closed"}

(* The registry counts as the server does. *)
LEMMA CardinalityInRegistry == \A S : Registry!Cardinality(S) = Cardinality(S)
BY Zenon DEF Registry!Cardinality, Cardinality

LEMMA AttendingOf ==
  ASSUME Consistent
  PROVE  /\ \A id \in RoomIds : Host[id] # NoRoom <=> id \in UsedIds
         /\ \A id \in RoomIds, c \in Conns :
              c \in Attending[id] <=> id \in UsedIds /\ connRoom[c] = rooms[id]
<1> USE DEF Consistent, TypeOK, UsedIds
<1>1. ASSUME NEW id \in RoomIds PROVE Host[id] # NoRoom <=> id \in UsedIds
  <2>1. ASSUME id \in UsedIds PROVE owner[rooms[id]] \in Conns
    BY <2>1 DEF TableListsLiveRooms, OwnerIsPresent
  <2>2. QED
    BY <2>1 DEF Host
<1>2. ASSUME NEW id \in RoomIds, NEW c \in Conns
      PROVE  c \in Attending[id] <=> id \in UsedIds /\ connRoom[c] = rooms[id]
  BY DEF Attending, MembershipAgrees
<1>3. QED
  BY <1>1, <1>2

LEMMA IdleInRegistry ==
  ASSUME Consistent, NEW c \in Conns, conn[c] # "closed", connRoom[c] = NoRoom
  PROVE  Registry!Idle(c)
<1>1. c \notin Gone
  BY DEF Gone
<1>2. \A id \in RoomIds : c \notin Attending[id]
  BY AttendingOf DEF UsedIds
<1>3. QED
  BY <1>1, <1>2 DEF Registry!Idle, Attending, Gone

LEMMA RunningInRegistry ==
  ASSUME Consistent
  PROVE  \A id \in RoomIds : Registry!Running(id) <=> id \in UsedIds
BY AttendingOf DEF Registry!Running, Host

LEMMA InitRefines == Init => Registry!RegistryInit
BY DEF Init, Registry!RegistryInit, UsedIds

LEMMA CloseInLobbyRefines ==
  ASSUME Consistent, NEW c \in Conns, CloseInLobby(c)
  PROVE  Registry!GoAway(c)
<1>1. Registry!Idle(c)
  BY IdleInRegistry DEF CloseInLobby, IsOpen
<1>2. Attending' = Attending /\ Host' = Host
  BY DEF CloseInLobby, Attending, Host, UsedIds, lookupVars, optionVars
<1>3. Gone' = Gone \cup {c}
  BY DEF CloseInLobby, Gone, Consistent, TypeOK
<1>4. QED
  BY <1>1, <1>2, <1>3 DEF Registry!GoAway, Attending, Host, Gone

LEMMA CreateRefines ==
  ASSUME Consistent, NEW c \in Conns, NEW q \in Requests, NEW r \in Rooms,
         NEW id \in RoomIds, CreateMeeting(c, q, r, id)
  PROVE  Registry!StartMeeting(id, c)
<1> USE DEF Consistent, TypeOK
<1>1. id \notin UsedIds
  BY DEF CreateMeeting, DrawRandomId, FallBackToSequence
<1>2. Registry!Idle(c)
  BY IdleInRegistry DEF CreateMeeting, InLobby
<1>3. Cardinality({i \in RoomIds : Registry!Running(i)}) < MaxRooms
  <2>1. {i \in RoomIds : Registry!Running(i)} = UsedIds
    BY RunningInRegistry DEF UsedIds
  <2>2. QED
    BY <2>1 DEF CreateMeeting, CanCreate
<1>4. r # NoRoom /\ UsedIds' = UsedIds \cup {id}
  BY DEF CreateMeeting, UsedIds
<1>5. \A i \in UsedIds : rooms[i] # r /\ i # id
  BY <1>1 DEF CreateMeeting, TableListsLiveRooms
<1>6. Attending' = [Attending EXCEPT ![id] = {c}]
  BY <1>1, <1>4, <1>5 DEF CreateMeeting, Attending, UsedIds
<1>7. Host' = [Host EXCEPT ![id] = c]
  BY <1>1, <1>4, <1>5 DEF CreateMeeting, Host, UsedIds
<1>8. Gone' = Gone
  BY DEF CreateMeeting, Gone
<1>9. ~Registry!Running(id)
  BY <1>1, RunningInRegistry
<1> HIDE DEF Consistent, TypeOK
<1>10. QED
  BY <1>2, <1>3, <1>6, <1>7, <1>8, <1>9, CardinalityInRegistry, Zenon
     DEF Registry!StartMeeting, Attending, Host, Gone

LEMMA JoinRefines ==
  ASSUME Consistent, WithinLimits, NEW c \in Conns, NEW id \in RoomIds, JoinMeeting(c, id)
  PROVE  Registry!EnterMeeting(id, c)
<1> USE DEF Consistent, TypeOK
<1>1. id \in UsedIds /\ rooms[id] \in Rooms
      /\ ~(Cardinality(members[rooms[id]]) >= cap[rooms[id]])
  BY DEF JoinMeeting, JoinResult, UsedIds
<1>2. Registry!Idle(c)
  BY IdleInRegistry DEF JoinMeeting, InLobby
<1>3. Cardinality(Attending[id]) < HardMax
  <2>1. cap[rooms[id]] \in Nat /\ cap[rooms[id]] <= HardMax
        /\ Cardinality(members[rooms[id]]) \in Nat
    BY <1>1, FiniteMembers DEF WithinLimits
  <2>2. QED
    BY <1>1, <2>1, LimitsAreNaturals DEF Attending
<1>4. UsedIds' = UsedIds
  BY DEF JoinMeeting, UsedIds
<1>5. \A i \in UsedIds : rooms[i] = rooms[id] => i = id
  BY <1>1 DEF TableListsLiveRooms
<1>6. Attending' = [Attending EXCEPT ![id] = @ \cup {c}]
  <2>1. /\ rooms' = rooms
        /\ \A x \in Rooms : members'[x] =
             IF x = rooms[id] THEN members[x] \cup {c} ELSE members[x]
    BY <1>1 DEF JoinMeeting
  <2>2. \A i \in UsedIds : rooms[i] \in Rooms
    BY DEF UsedIds
  <2>3. \A i \in UsedIds :
          members'[rooms'[i]] = IF i = id THEN members[rooms[i]] \cup {c} ELSE members[rooms[i]]
    BY <1>5, <2>1, <2>2
  <2> HIDE DEF Consistent, TypeOK
  <2>4. QED
    BY <1>1, <1>4, <2>3 DEF Attending
<1>7. Host' = Host /\ Gone' = Gone
  BY <1>4 DEF JoinMeeting, Host, Gone, optionVars
<1>8. Registry!Running(id)
  BY <1>1, RunningInRegistry
<1> HIDE DEF Consistent, TypeOK
<1>9. QED
  BY <1>2, <1>3, <1>6, <1>7, <1>8, CardinalityInRegistry, Zenon
     DEF Registry!EnterMeeting, Attending, Host, Gone

(* Closing a room, by its owner or its timer, ends the meeting of its number. *)
LEMMA CloseRoomRefines ==
  ASSUME Consistent, NEW r \in Rooms, status[r] = "live",
         NEW also \in SUBSET members[r], CloseRoom(r, also), owner' = owner
  PROVE  \E id \in RoomIds : Registry!EndMeeting(id)
<1> USE DEF Consistent, TypeOK
<1>1. PICK id \in RoomIds : id = number[r] /\ rooms[id] = r /\ id \in UsedIds
  <2>1. number[r] \in RoomIds /\ rooms[number[r]] = r
    BY DEF TableListsLiveRooms
  <2>2. number[r] \in UsedIds
    BY <2>1 DEF UsedIds
  <2>3. QED
    BY <2>1, <2>2
<1>2. UsedIds' = UsedIds \ {id}
  BY <1>1 DEF CloseRoom, UsedIds
<1>3. \A i \in UsedIds : i # id => rooms[i] # r /\ rooms'[i] = rooms[i]
  <2>1. \A i \in UsedIds : i \in RoomIds /\ number[rooms[i]] = i
    BY DEF TableListsLiveRooms, UsedIds
  <2>2. rooms' = [rooms EXCEPT ![id] = NoRoom]
    BY <1>1 DEF CloseRoom
  <2>3. QED
    BY <1>1, <2>1, <2>2
<1>4. Attending' = [Attending EXCEPT ![id] = {}]
  <2>1. \A i \in UsedIds : i # id => members'[rooms'[i]] = members[rooms[i]]
    BY <1>3 DEF CloseRoom, UsedIds
  <2>2. \A i \in RoomIds : Attending'[i] = IF i = id THEN {} ELSE Attending[i]
    BY <1>1, <1>2, <2>1 DEF Attending
  <2>3. QED
    BY <2>2 DEF Attending
<1>5. Host' = [Host EXCEPT ![id] = NoRoom]
  BY <1>1, <1>2, <1>3 DEF Host
<1>6. Gone' = Gone \cup Attending[id]
  <2>1. Attending[id] = members[r] /\ members[r] \subseteq Conns
    BY <1>1 DEF Attending
  <2>2. QED
    BY <2>1, CloseRoomEffect DEF Gone
<1>7. QED
  BY <1>1, <1>4, <1>5, <1>6, RunningInRegistry DEF Registry!EndMeeting, Attending, Host, Gone

LEMMA MemberLeavesRefines ==
  ASSUME Consistent, NEW c \in Conns, MemberLeaves(c)
  PROVE  \E id \in RoomIds : Registry!LeaveMeeting(id, c)
<1> USE DEF Consistent, TypeOK
<1>1. PICK r \in Rooms : /\ r = connRoom[c] /\ c \in members[r] /\ status[r] = "live"
                         /\ owner[r] # c
  BY DEF MemberLeaves, OwnerCloses, MembershipAgrees, NoGhosts
<1>2. PICK id \in RoomIds : id = number[r] /\ rooms[id] = r /\ id \in UsedIds
  <2>1. number[r] \in RoomIds /\ rooms[number[r]] = r
    BY <1>1 DEF TableListsLiveRooms
  <2>2. number[r] \in UsedIds
    BY <2>1 DEF UsedIds
  <2>3. QED
    BY <2>1, <2>2
<1>3. UsedIds' = UsedIds /\ \A i \in UsedIds : i # id => rooms[i] # r
  BY <1>1, <1>2 DEF TableListsLiveRooms, UsedIds, MemberLeaves
<1>4. c \in Attending[id] /\ c # Host[id]
  BY <1>1, <1>2 DEF Attending, Host
<1>5. Attending' = [Attending EXCEPT ![id] = @ \ {c}]
  <2>1. members' = [members EXCEPT ![r] = @ \ {c}] /\ rooms' = rooms
    BY <1>1 DEF MemberLeaves
  <2>2. \A i \in UsedIds : i # id => members'[rooms[i]] = members[rooms[i]]
    BY <1>3, <2>1
  <2>3. members'[rooms[id]] = members[rooms[id]] \ {c}
    BY <1>2, <2>1
  <2>4. \A i \in RoomIds : Attending'[i] = IF i = id THEN Attending[i] \ {c} ELSE Attending[i]
    BY <1>2, <1>3, <2>1, <2>2, <2>3 DEF Attending
  <2>5. QED
    BY <2>4 DEF Attending
<1>6. Host' = Host /\ Gone' = Gone \cup {c}
  BY <1>3 DEF MemberLeaves, Host, Gone, optionVars
<1>7. QED
  BY <1>2, <1>4, <1>5, <1>6 DEF Registry!LeaveMeeting, Attending, Host, Gone

(* Handlers the registry does not see *)
LEMMA HiddenSteps ==
  ASSUME Consistent,
         \/ UNCHANGED vars
         \/ \E c \in Conns : AcceptSocket(c) \/ HandshakeDone(c)
         \/ \E r \in Rooms : TimerExpires(r) \/ ExpireClosedRoom(r)
  PROVE  UNCHANGED <<Attending, Host, Gone>>
<1> USE DEF Consistent, TypeOK, lookupVars, optionVars, Attending, Host, Gone, UsedIds
<1>1. CASE UNCHANGED vars
  BY <1>1 DEF vars
<1>2. ASSUME NEW c \in Conns, AcceptSocket(c) \/ HandshakeDone(c)
      PROVE  UNCHANGED <<Attending, Host, Gone>>
  BY <1>2 DEF AcceptSocket, HandshakeDone
<1>3. ASSUME NEW r \in Rooms, TimerExpires(r) \/ ExpireClosedRoom(r)
      PROVE  UNCHANGED <<Attending, Host, Gone>>
  BY <1>3 DEF TimerExpires, ExpireClosedRoom
<1>4. QED
  BY <1>1, <1>2, <1>3

LEMMA NextRefines ==
  Consistent /\ WithinLimits /\ [Next]_vars
    => [Registry!RegistryNext]_(<<Attending, Host, Gone>>)
<1> SUFFICES ASSUME Consistent, WithinLimits, [Next]_vars
             PROVE  Registry!RegistryNext \/ UNCHANGED <<Attending, Host, Gone>>
  OBVIOUS
<1>1. ASSUME NEW c \in Conns, CloseInLobby(c) PROVE Registry!RegistryNext
  BY <1>1, CloseInLobbyRefines DEF Registry!RegistryNext
<1>2. ASSUME NEW c \in Conns, NEW q \in Requests, NEW r \in Rooms, NEW id \in RoomIds,
             CreateMeeting(c, q, r, id)
      PROVE  Registry!RegistryNext
  BY <1>2, CreateRefines DEF Registry!RegistryNext
<1>3. ASSUME NEW c \in Conns, NEW id \in RoomIds, JoinMeeting(c, id)
      PROVE  Registry!RegistryNext
  BY <1>3, JoinRefines DEF Registry!RegistryNext
<1>4. ASSUME NEW c \in Conns, OwnerLeaves(c) PROVE Registry!RegistryNext
  <2>1. PICK r \in Rooms : r = connRoom[c]
    BY <1>4 DEF OwnerLeaves, OwnerCloses, Consistent, TypeOK
  <2>2. status[r] = "live" /\ {c} \in SUBSET members[r] /\ CloseRoom(r, {c}) /\ owner' = owner
    BY <1>4, <2>1 DEF OwnerLeaves, OwnerCloses, optionVars
  <2>3. QED
    BY <2>2, CloseRoomRefines DEF Registry!RegistryNext
<1>5. ASSUME NEW c \in Conns, MemberLeaves(c) PROVE Registry!RegistryNext
  BY <1>5, MemberLeavesRefines DEF Registry!RegistryNext
<1>6. ASSUME NEW r \in Rooms, ExpireRoom(r) PROVE Registry!RegistryNext
  <2>1. status[r] = "live" /\ {} \in SUBSET members[r] /\ CloseRoom(r, {}) /\ owner' = owner
    BY <1>6 DEF ExpireRoom, optionVars, Consistent, TypeOK
  <2>2. QED
    BY <2>1, CloseRoomRefines DEF Registry!RegistryNext
<1>7. QED
  BY <1>1, <1>2, <1>3, <1>4, <1>5, <1>6, HiddenSteps DEF Next

(* Every behaviour of the server is a behaviour of the registry of meetings: *)
(* meetings start with their host alone, are entered while there is room,    *)
(* left for good, and end for everybody at once.                             *)
THEOREM ServerImplementsRegistry == Spec => ImplementsRegistry
<1>1. Init => Registry!RegistryInit
  BY InitRefines
<1>2. Consistent /\ WithinLimits /\ [Next]_vars
        => [Registry!RegistryNext]_(Registry!registryVars)
  BY NextRefines DEF Registry!registryVars, Attending, Host, Gone
<1>3. QED
  BY <1>1, <1>2, ServerConsistent, ServerWithinLimits, PTL
     DEF Spec, ImplementsRegistry, Registry!RegistrySpec
=============================================================================
