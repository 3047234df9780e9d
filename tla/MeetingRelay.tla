---------------------------- MODULE MeetingRelay ----------------------------
(***************************************************************************)
(* What the server's handlers write to the members of a room.  Every       *)
(* action is a handler of MeetingServer, or a packet handler that changes  *)
(* no membership, together with the participant data it stores and the     *)
(* frames it appends to the write queues of the connections.  A queue is   *)
(* drained in order, one frame per WebSocket message; what is left in the  *)
(* queue of a connection that closes is never written.                     *)
(***************************************************************************)
EXTENDS MeetingServer, Sequences

CONSTANTS
  Users,         \* account ids
  Flags,         \* values of the room switches
  Notices,       \* what is only forwarded: "TextRecv", "CloseCamera"
  DefaultFlags,  \* kRoomSettingsDefault
  MaxOutbox      \* bound on a write queue, to keep the model finite

ASSUME UsersArePositive == 0 \notin Users
ASSUME DefaultIsFlags == DefaultFlags \in Flags
ASSUME NoticesAreForwarded ==
  Notices \cap {"CreateMeeting", "CreateMeetingResponse", "JoinMeeting", "JoinMeetingResponse",
                "PartnerJoin", "PartnerJoin2", "PartnerExit", "RoomSettings",
                "RoomSettingsNotify", "UserProfile"} = {}

VARIABLES
  userId,     \* Participant::user_id
  profile,    \* Participant::display_name and avatar_url, as a version; 0 when both are empty
  settings,   \* Room::_settings
  outbox      \* Connection::_write_queue

relayVars == <<userId, profile, settings, outbox>>

Full     == -1
NotFound == 0

CreateResponse(id)  == [type |-> "CreateMeetingResponse", value |-> id]
JoinResponse(value) == [type |-> "JoinMeetingResponse", value |-> value]
PartnerJoin(u)      == [type |-> "PartnerJoin", user |-> u]
PartnerJoin2(us)    == [type |-> "PartnerJoin2", users |-> us]
PartnerExit(u)      == [type |-> "PartnerExit", user |-> u]
RoomSettingsNotify(f) == [type |-> "RoomSettingsNotify", flags |-> f]
UserProfile(u, v)   == [type |-> "UserProfile", user |-> u, version |-> v]
Notice(type, u)     == [type |-> type, user |-> u]

RelayInit ==
  /\ userId = [c \in Conns |-> 0]
  /\ profile = [c \in Conns |-> 0]
  /\ settings = [r \in Rooms |-> DefaultFlags]
  /\ outbox = [c \in Conns |-> <<>>]

-----------------------------------------------------------------------------
(* send_to, broadcast and the write queue *)

Nobody == [c \in Conns |-> <<>>]

Only(c, frames) == [Nobody EXCEPT ![c] = frames]

Broadcast(r, frame, exclude) ==
  [c \in Conns |-> IF c \in members[r] \ exclude THEN <<frame>> ELSE <<>>]

Send(frames) ==
  /\ outbox' = [c \in Conns |-> IF conn'[c] = "closed" THEN <<>> ELSE outbox[c] \o frames[c]]
  /\ \A c \in Conns : Len(outbox'[c]) <= MaxOutbox

-----------------------------------------------------------------------------
(* Lobby packets *)

HandleCreateMeeting(c, u, q, r, id) ==
  /\ u # 0 /\ CreateMeeting(c, q, r, id)
  /\ userId' = [userId EXCEPT ![c] = u]
  /\ Send(Only(c, <<CreateResponse(id)>>))
  /\ UNCHANGED <<profile, settings>>

RefuseCreateMeeting(c, u) ==
  /\ u # 0 /\ InLobby(c) /\ ~CanCreate
  /\ UNCHANGED <<vars, userId, profile, settings>>
  /\ Send(Only(c, <<CreateResponse(NotFound)>>))

(* The cached profiles that are sent again to a newcomer *)
ReplayedProfiles(r) == {<<userId[d], profile[d]>> : d \in {m \in members[r] :
                                                          userId[m] # 0 /\ profile[m] # 0}}

(* in any order: the participants are visited in hash order *)
ReplayOrders(r) ==
  LET replay == ReplayedProfiles(r)
  IN  {[i \in 1..Cardinality(replay) |-> UserProfile(f[i][1], f[i][2])] :
         f \in {g \in [1..Cardinality(replay) -> replay] : {g[i] : i \in DOMAIN g} = replay}}

(* Faulty: a newcomer starts with the default switches. *)
WelcomeWithoutSettings(id, others, f, replay) ==
  <<JoinResponse(id), PartnerJoin2(others)>> \o replay

(* What the newcomer is sent: the answer, then the state of the room *)
Welcome(id, others, f, replay) ==
  <<JoinResponse(id), PartnerJoin2(others), RoomSettingsNotify(f)>> \o replay

HandleJoinMeeting(c, u, id) ==
  LET r == rooms[id]
      others == {userId[d] : d \in members[r]}
  IN  /\ u # 0 /\ JoinMeeting(c, id)
      /\ userId' = [userId EXCEPT ![c] = u]
      /\ \E replay \in ReplayOrders(r) :
           Send([Broadcast(r, PartnerJoin(u), {}) EXCEPT
                   ![c] = Welcome(id, others, settings[r], replay)])
      /\ UNCHANGED <<profile, settings>>

RefuseJoinMeeting(c, u, id) ==
  /\ u # 0 /\ InLobby(c) /\ JoinResult(id) # "Ok"
  /\ UNCHANGED <<vars, userId, profile, settings>>
  /\ Send(Only(c, <<JoinResponse(IF JoinResult(id) = "Full" THEN Full ELSE NotFound)>>))

-----------------------------------------------------------------------------
(* Room::handle_packet *)

InLiveRoom(c) ==
  /\ conn[c] = "open" /\ connRoom[c] # NoRoom
  /\ status[connRoom[c]] # "closed" /\ c \in members[connRoom[c]]

Forward(c, frame) == Send(Broadcast(connRoom[c], frame, {c}))

(* Texts and camera notices are forwarded and change nothing. *)
HandleNotice(c, type) ==
  /\ InLiveRoom(c)
  /\ UNCHANGED <<vars, userId, profile, settings>>
  /\ Forward(c, Notice(type, userId[c]))

(* The packet names its user itself, and overwrites the id of the join.     *)
HandleUserProfile(c, u, v) ==
  /\ InLiveRoom(c)
  /\ userId' = [userId EXCEPT ![c] = u]
  /\ profile' = [profile EXCEPT ![c] = v]
  /\ UNCHANGED <<vars, settings>>
  /\ Forward(c, UserProfile(u, v))

(* Only the owner's settings count; those of others are ignored.            *)
HandleRoomSettings(c, f) ==
  /\ InLiveRoom(c) /\ owner[connRoom[c]] = c
  /\ settings' = [settings EXCEPT ![connRoom[c]] = f]
  /\ UNCHANGED <<vars, userId, profile>>
  /\ Send(Broadcast(connRoom[c], RoomSettingsNotify(f), {}))

-----------------------------------------------------------------------------
(* Closing: the others hear of a member that leaves; when the owner leaves  *)
(* or the room expires they are closed instead.                             *)

(* Participant and Room objects go with what they keep. *)
Forget ==
  /\ userId' = [c \in Conns |-> IF connRoom'[c] = NoRoom THEN 0 ELSE userId[c]]
  /\ profile' = [c \in Conns |-> IF connRoom'[c] = NoRoom THEN 0 ELSE profile[c]]
  /\ settings' = [r \in Rooms |-> IF status'[r] = "live" THEN settings[r] ELSE DefaultFlags]

(* Faulty: nobody is told of a member that leaves. *)
ConnectionClosesSilently(c) ==
  /\ CloseInLobby(c) \/ OwnerLeaves(c) \/ MemberLeaves(c)
  /\ Send(Nobody)
  /\ Forget

ConnectionCloses(c) ==
  /\ \/ CloseInLobby(c) /\ Send(Nobody)
     \/ OwnerLeaves(c) /\ Send(Nobody)
     \/ MemberLeaves(c) /\ Send(Broadcast(connRoom[c], PartnerExit(userId[c]), {c}))
  /\ Forget

ExpiryRuns(r) ==
  /\ TimerExpires(r) \/ ExpireRoom(r) \/ ExpireClosedRoom(r)
  /\ Send(Nobody)
  /\ Forget

(* do_write: the frame at the head of the queue is on the wire.             *)
WriteDone(c) ==
  /\ conn[c] = "open" /\ outbox[c] # <<>>
  /\ outbox' = [outbox EXCEPT ![c] = Tail(@)]
  /\ UNCHANGED <<vars, userId, profile, settings>>
=============================================================================
