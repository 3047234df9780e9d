---------------------------- MODULE MeetingView ----------------------------
(***************************************************************************)
(* The server with the clients of a meeting: what each client shows of the *)
(* others (members, profiles, room switches) as the frames reach it, and   *)
(* the packets it sends in answer.  Each connection belongs to one client  *)
(* session, from its request to create or join to its close; how sessions  *)
(* follow each other on one client is the subject of ClientSession.        *)
(***************************************************************************)
EXTENDS MeetingRelay

CONSTANTS
  Account,       \* the account each connection is logged in with
  MaxUplink,     \* bound on the packets a client has under way
  MaxVersion,    \* bound on the versions of a user's profile
  MaxActs        \* bound on what the users do in a meeting: notices, edits, switches

ASSUME AccountsAreUsers == Account \in [Conns -> Users]

VARIABLES
  uplink,     \* packets on their way to the server
  asked,      \* the create or join packet has been sent
  inMeeting,  \* _createmeet or _joinmeet
  shown,      \* ParticipantsController::_partners
  names,      \* the profile version of each shown partner, 0 for none
  flags,      \* RoomSettingsController::_flags
  version,    \* the profile version of the user (UserSession)
  acts        \* how much the users have done in the meeting

clientVars == <<uplink, asked, inMeeting, shown, names, flags, version, acts>>
viewVars == <<vars, relayVars, clientVars>>

(* Every client is connected and none has asked for a meeting yet.          *)
ViewInit ==
  /\ conn = [c \in Conns |-> "open"]
  /\ connRoom = [c \in Conns |-> NoRoom]
  /\ rooms = [id \in RoomIds |-> NoRoom]
  /\ nextRoomId = 1
  /\ status = [r \in Rooms |-> "unused"]
  /\ number = [r \in Rooms |-> 0]
  /\ members = [r \in Rooms |-> {}]
  /\ owner = [r \in Rooms |-> NoRoom]
  /\ cap = [r \in Rooms |-> 0]
  /\ timer = [r \in Rooms |-> "idle"]
  /\ RelayInit
  /\ uplink = [c \in Conns |-> <<>>]
  /\ asked = [c \in Conns |-> FALSE]
  /\ inMeeting = [c \in Conns |-> FALSE]
  /\ shown = [c \in Conns |-> {}]
  /\ names = [c \in Conns |-> [u \in Users |-> 0]]
  /\ flags = [c \in Conns |-> DefaultFlags]
  /\ version = [c \in Conns |-> 1]
  /\ acts = 0

-----------------------------------------------------------------------------
(* What the user does *)

Upload(c, packet) ==
  /\ Len(uplink[c]) < MaxUplink
  /\ uplink' = [uplink EXCEPT ![c] = Append(@, packet)]

ProfilePacket(c, v) == [type |-> "UserProfile", user |-> Account[c], version |-> v]

Ask(c, packet) ==
  /\ conn[c] = "open" /\ ~asked[c]
  /\ asked' = [asked EXCEPT ![c] = TRUE]
  /\ Upload(c, packet)
  /\ UNCHANGED <<vars, relayVars, inMeeting, shown, names, flags, version, acts>>

AskCreate(c) == Ask(c, [type |-> "CreateMeeting"])
AskJoin(c, id) == Ask(c, [type |-> "JoinMeeting", id |-> id])

UserActs(c) ==
  /\ conn[c] = "open" /\ inMeeting[c] /\ acts < MaxActs
  /\ acts' = acts + 1
  /\ UNCHANGED <<vars, relayVars, asked, inMeeting, shown, names>>

SendNotice(c, type) ==
  /\ UserActs(c)
  /\ Upload(c, [type |-> type])
  /\ UNCHANGED <<flags, version>>

(* The profile is edited in the main window and re-sent from the popup.     *)
EditProfile(c) ==
  /\ UserActs(c) /\ version[c] < MaxVersion
  /\ version' = [version EXCEPT ![c] = @ + 1]
  /\ Upload(c, ProfilePacket(c, version'[c]))
  /\ UNCHANGED flags

(* The host's switches act at home at once; the server's echo confirms them. *)
EditSettings(c, f) ==
  /\ UserActs(c) /\ connRoom[c] # NoRoom /\ owner[connRoom[c]] = c /\ f # flags[c]
  /\ flags' = [flags EXCEPT ![c] = f]
  /\ Upload(c, [type |-> "RoomSettings", flags |-> f])
  /\ UNCHANGED version

(* A client whose connection is closed, by whomever, clears its meeting.     *)
ClearMeetings ==
  LET Kept(f, initial) == [c \in Conns |-> IF conn'[c] = "closed" THEN initial ELSE f[c]]
  IN  /\ uplink' = Kept(uplink, <<>>)
      /\ inMeeting' = Kept(inMeeting, FALSE)
      /\ shown' = Kept(shown, {})
      /\ names' = Kept(names, [u \in Users |-> 0])
      /\ flags' = Kept(flags, DefaultFlags)
      /\ version' = Kept(version, 1)
      /\ asked' = Kept(asked, FALSE)
      /\ UNCHANGED acts

ConnectionLost(c) == ConnectionCloses(c) /\ ClearMeetings

-----------------------------------------------------------------------------
(* The server reads the next packet of a connection *)

ServerReads(c) ==
  /\ conn[c] = "open" /\ uplink[c] # <<>>
  /\ uplink' = [uplink EXCEPT ![c] = Tail(@)]
  /\ LET p == Head(uplink[c])
     IN  \/ /\ p.type = "CreateMeeting"
            /\ \E q \in Requests, r \in Rooms, id \in RoomIds :
                 HandleCreateMeeting(c, Account[c], q, r, id)
         \/ p.type = "CreateMeeting" /\ RefuseCreateMeeting(c, Account[c])
         \/ p.type = "JoinMeeting" /\ HandleJoinMeeting(c, Account[c], p.id)
         \/ p.type = "JoinMeeting" /\ RefuseJoinMeeting(c, Account[c], p.id)
         \/ p.type \in Notices /\ HandleNotice(c, p.type)
         \/ p.type = "UserProfile" /\ HandleUserProfile(c, p.user, p.version)
         \/ p.type = "RoomSettings" /\ HandleRoomSettings(c, p.flags)
  /\ UNCHANGED <<asked, inMeeting, shown, names, flags, version, acts>>

-----------------------------------------------------------------------------
(* The client handles the next frame *)

Receives(c, type) ==
  /\ WriteDone(c) /\ Head(outbox[c]).type = type
  /\ UNCHANGED <<asked, version, acts>>

Frame(c) == Head(outbox[c])

Show(c, us) == shown' = [shown EXCEPT ![c] = @ \cup us]

ResendProfile(c) ==
  IF inMeeting'[c] THEN Upload(c, ProfilePacket(c, version[c])) ELSE UNCHANGED uplink

OnMeetingResult(c) ==
  /\ Receives(c, "CreateMeetingResponse") \/ Receives(c, "JoinMeetingResponse")
  /\ Frame(c).value > 0
  /\ inMeeting' = [inMeeting EXCEPT ![c] = TRUE]
  /\ Show(c, {Account[c]})
  /\ names' = [names EXCEPT ![c][Account[c]] = version[c]]
  /\ ResendProfile(c)
  /\ UNCHANGED flags

(* No meeting: the window closes and the connection with it.                *)
OnMeetingRefused(c) ==
  /\ outbox[c] # <<>> /\ Frame(c).type \in {"CreateMeetingResponse", "JoinMeetingResponse"}
  /\ Frame(c).value <= 0
  /\ ConnectionLost(c)

OnPartnerJoined(c) ==
  /\ Receives(c, "PartnerJoin")
  /\ Show(c, {Frame(c).user})
  /\ UNCHANGED <<inMeeting, names, flags>>
  /\ ResendProfile(c)

OnPartnersSnapshot(c) ==
  /\ Receives(c, "PartnerJoin2")
  /\ Show(c, Frame(c).users)
  /\ UNCHANGED <<uplink, inMeeting, names, flags>>

OnPartnerExited(c) ==
  /\ Receives(c, "PartnerExit")
  /\ shown' = [shown EXCEPT ![c] = @ \ {Frame(c).user}]
  /\ names' = [names EXCEPT ![c][Frame(c).user] = 0]
  /\ UNCHANGED <<uplink, inMeeting, flags>>

(* apply_profile shows the user, known or not *)
OnUserProfile(c) ==
  /\ Receives(c, "UserProfile")
  /\ Show(c, {Frame(c).user})
  /\ names' = [names EXCEPT ![c][Frame(c).user] = Frame(c).version]
  /\ UNCHANGED <<uplink, inMeeting, flags>>

OnRoomSettings(c) ==
  /\ Receives(c, "RoomSettingsNotify")
  /\ flags' = [flags EXCEPT ![c] = Frame(c).flags]
  /\ UNCHANGED <<uplink, inMeeting, shown, names>>

OnNotice(c, type) ==
  /\ Receives(c, type)
  /\ UNCHANGED <<uplink, inMeeting, shown, names, flags>>

-----------------------------------------------------------------------------

ClientReads(c) ==
  \/ OnMeetingResult(c)
  \/ OnMeetingRefused(c)
  \/ OnPartnerJoined(c)
  \/ OnPartnersSnapshot(c)
  \/ OnPartnerExited(c)
  \/ OnUserProfile(c)
  \/ OnRoomSettings(c)
  \/ \E type \in Notices : OnNotice(c, type)

ViewNext ==
  \/ \E c \in Conns :
       \/ AskCreate(c)
       \/ \E id \in RoomIds : AskJoin(c, id)
       \/ \E type \in Notices : SendNotice(c, type)
       \/ EditProfile(c)
       \/ \E f \in Flags : EditSettings(c, f)
       \/ ConnectionLost(c)
       \/ ServerReads(c)
       \/ ClientReads(c)
  \/ \E r \in Rooms : ExpiryRuns(r) /\ ClearMeetings

ViewSpec == ViewInit /\ [][ViewNext]_viewVars

-----------------------------------------------------------------------------
(* What a client will show once it has read what the server has written.  A  *)
(* user is shown whom a frame adds, or who is shown already, unless a later  *)
(* frame removes it; switches and profiles are those of the last frame that  *)
(* is about them.                                                            *)

Adds(f, u) ==
  \/ f.type \in {"PartnerJoin", "UserProfile"} /\ f.user = u
  \/ f.type = "PartnerJoin2" /\ u \in f.users

Removes(f, u) == f.type = "PartnerExit" /\ f.user = u

(* ... the first n frames of q, when it shows the users us now               *)
ShownAfter(us, q, n) ==
  {u \in Users :
     \/ u \in us /\ \A j \in 1..n : ~Removes(q[j], u)
     \/ \E i \in 1..n : Adds(q[i], u) /\ \A j \in (i + 1)..n : ~Removes(q[j], u)}

WillShow(c) == ShownAfter(shown[c], outbox[c], Len(outbox[c])) \ {Account[c]}

WillApply(c, f) ==
  LET q == outbox[c]
      Settles(i) == q[i].type = "RoomSettingsNotify"
  IN  \/ flags[c] = f /\ \A i \in DOMAIN q : ~Settles(i)
      \/ \E i \in DOMAIN q : /\ Settles(i) /\ q[i].flags = f
                             /\ \A j \in DOMAIN q : j > i => ~Settles(j)

EditUnderWay(c) == \E i \in DOMAIN uplink[c] : uplink[c][i].type = "RoomSettings"

Others(c) == members[connRoom[c]] \ {c}

InRoom(c) == connRoom[c] # NoRoom

(* The member list of a client and the frames on their way to it always add  *)
(* up to the members the server has: whatever joins, leaves, profiles and    *)
(* snapshots cross, nobody is shown who has left and nobody is missing.  A   *)
(* text or a camera notice never comes from a user the client does not show  *)
(* at that moment.                                                           *)
(* (For clients of different accounts: the list is keyed by user id.)        *)
MemberListsConverge ==
  /\ \A c \in Conns : InRoom(c) => WillShow(c) = {Account[d] : d \in Others(c)}
  /\ \A c \in Conns : outbox[c] # <<>> /\ Frame(c).type \in Notices => Frame(c).user \in shown[c]

(* Nothing is under way in the room. *)
Settled(r) == \A c \in members[r] : outbox[c] = <<>> /\ uplink[c] = <<>> /\ inMeeting[c]

(* The switches too: every member ends with those of the room, the newcomer  *)
(* and the host whose edits are not on their way any more included.  And     *)
(* when nothing is under way each member shows the present profile of each   *)
(* other one, although a profile may be sent before, while or after somebody *)
(* joins, and changed at any time.                                           *)
RoomStateConverges ==
  /\ \A c \in Conns : InRoom(c) /\ ~EditUnderWay(c) => WillApply(c, settings[connRoom[c]])
  /\ \A r \in Rooms : Settled(r) =>
       \A c, d \in members[r] : c # d => names[c][Account[d]] = version[d]
=============================================================================
