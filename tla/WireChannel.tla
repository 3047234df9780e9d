---------------------------- MODULE WireChannel ----------------------------
(***************************************************************************)
(* One client's messages on their way to the message server, and what the  *)
(* server makes of them for that client and for a guest of its meeting,    *)
(* byte by byte where the code handles bytes.  Beside each frame the       *)
(* history says what it is meant to be.                                    *)
(***************************************************************************)
EXTENDS WireCodec

CONSTANTS
  Requests,        \* what the client may send
  RoomNumbers,     \* numbers of the rooms it may be given
  HostedRoom,      \* the number of the guest's own room
  HardMax,         \* max_participants_per_room
  InitBufferSize,
  MaxSent          \* bound on the requests

Me == 7
Guest == 300
Clients == {Me, Guest}
GuestName == <<71, 195, 188>>

VARIABLES
  up, down,        \* WebSocket messages under way
  buffer,          \* _read_buffer of the client's connection
  reading,         \* on_connection_read has not yet asked for more
  room,            \* the client's room and its Participant
  guestIn,
  received,        \* what each client has decoded
  sent,            \* number of requests sent
  \* history
  pending,         \* requests that the server has not handled
  intended,        \* what room would be without any codec
  meant            \* what each client is to decode

channelVars == <<sent, up, buffer, reading, pending>>
vars == <<channelVars, down, room, guestIn, received, intended, meant>>

Byte(b) == <<"byte", b>>
B == INSTANCE ReceiveBuffer WITH Zero <- Byte(0)

Outside ==
  [number |-> 0, owner |-> FALSE, participants |-> 0, minutes |-> 0, flags |-> 3,
   id |-> 0, name |-> <<>>, avatar |-> <<>>]

Init ==
  /\ sent = 0 /\ up = <<>> /\ down = [c \in Clients |-> <<>>]
  /\ buffer = B!EmptyBuffer(InitBufferSize) /\ reading = FALSE
  /\ room = Outside /\ guestIn = FALSE
  /\ received = [c \in Clients |-> <<>>]
  /\ pending = <<>> /\ intended = Outside /\ meant = [c \in Clients |-> <<>>]

-----------------------------------------------------------------------------
(* The client sends: create or join first, the rest once it is in.           *)

InMeeting ==
  \E i \in DOMAIN received[Me] :
    LET m == received[Me][i] IN
    \/ m.kind = "CreateMeetingResponse" /\ m.room # 0
    \/ m.kind = "JoinMeetingResponse" /\ m.code > 0

Entering(m) == m.kind \in {"CreateMeeting", "JoinMeeting"}

ClientSends(m) ==
  /\ sent < MaxSent /\ sent' = sent + 1
  /\ IF Entering(m) THEN sent = 0 ELSE InMeeting
  /\ up' = Append(up, EncodeWireFrame(m, Me))
  /\ pending' = Append(pending, m)
  /\ UNCHANGED <<buffer, reading, down, room, guestIn, received, intended, meant>>

-----------------------------------------------------------------------------
(* The server reads: a length and a text are appended for each message.      *)

TextSize(frame) ==
  2 + (IF "s" \in DOMAIN frame THEN Len(frame.s)
       ELSE IF "p" \in DOMAIN frame THEN Len(frame.p) ELSE 0)

TextOf(frame) == [k \in 1..TextSize(frame) |-> <<"text", frame, k>>]

LengthPrefix(n) == [k \in 1..4 |-> Byte(BigEndian(n, 4)[k])]

ServerReads ==
  /\ ~reading /\ up # <<>>
  /\ LET frame == Head(up) IN
     buffer' = B!Write(B!Write(buffer, LengthPrefix(TextSize(frame))), TextOf(frame))
  /\ up' = Tail(up) /\ reading' = TRUE
  /\ UNCHANGED <<sent, pending, down, room, guestIn, received, intended, meant>>

-----------------------------------------------------------------------------
(* The server answers: each reply has the packet, made from what was decoded,*)
(* and the message it stands for, made from what was sent.                   *)

Reply(to, type, user, payload, message) ==
  [to |-> to, frame |-> Encode([type |-> type, user |-> user, payload |-> payload]),
   message |-> message]

Deliver(replies) ==
  LET For(c) == SelectSeq(replies, LAMBDA r : r.to = c)
      Frames(c) == [i \in 1..Len(For(c)) |-> For(c)[i].frame]
      Messages(c) == [i \in 1..Len(For(c)) |-> For(c)[i].message]
  IN /\ down' = [c \in Clients |-> down[c] \o Frames(c)]
     /\ meant' = [c \in Clients |-> meant[c] \o Messages(c)]

ToGuest(reply) == IF guestIn THEN <<reply>> ELSE <<>>

Clamp(n, low, high) == IF n < low THEN low ELSE IF n > high THEN high ELSE n

Enter(place, number, owner, id) ==
  [place EXCEPT !.number = number, !.owner = owner, !.id = id]

Limits(place, participants, minutes) ==
  [place EXCEPT !.participants = Clamp(participants, 2, HardMax),
                !.minutes = Clamp(minutes, 1, 1440)]

HandleCreateMeeting(packet, m) ==
  /\ packet.type = "create_meeting"
  /\ \/ /\ UNCHANGED <<room, intended>>
        /\ Deliver(<<Reply(Me, "create_meeting_response", 0, BigEndian(0, 4),
                           [kind |-> "CreateMeetingResponse", room |-> 0])>>)
     \/ \E number \in RoomNumbers :
          /\ room' = Limits(Enter(room, number, TRUE, packet.user),
                            Unsigned(SubSeq(packet.payload, 1, 4)),
                            Unsigned(SubSeq(packet.payload, 5, 8)))
          /\ intended' = Limits(Enter(intended, number, TRUE, Me), m.participants, m.minutes)
          /\ Deliver(<<Reply(Me, "create_meeting_response", 0, BigEndian(number, 4),
                             [kind |-> "CreateMeetingResponse", room |-> number])>>)
  /\ UNCHANGED guestIn

JoinRefused(code) ==
  /\ UNCHANGED <<room, guestIn, intended>>
  /\ Deliver(<<Reply(Me, "join_meeting_response", 0, BigEndian(code, 4),
                     [kind |-> "JoinMeetingResponse", code |-> code])>>)

(* What Room::notify_user_joined tells a newcomer of the one other member.   *)
ToNewcomer(newcomer, other, flags, name, avatar, here) ==
  <<Reply(newcomer, "partner_join2", 0, UserIdsPayload(<<other>>),
          [kind |-> "PartnerJoin2", users |-> <<here.id>>]),
    Reply(newcomer, "room_settings_notify", 0, BigEndian(flags, 4),
          [kind |-> "RoomSettingsNotify", flags |-> here.flags])>>
  \o IF name = <<>> /\ avatar = <<>> THEN <<>>
     ELSE <<Reply(newcomer, "user_profile", other, ProfilePayload(other, name, avatar),
                  [kind |-> "UserProfileNotify", user |-> here.id, name |-> here.name,
                   avatar |-> here.avatar])>>

(* The guest's room has the default switches and the guest's profile.        *)
HandleJoinMeeting(packet, m) ==
  LET number == Unsigned(SubSeq(packet.payload, 1, 4)) IN
  /\ packet.type = "join_meeting"
  /\ IF number # HostedRoom THEN JoinRefused(0)
     ELSE \/ JoinRefused(-1)
          \/ /\ room' = Enter(room, number, FALSE, packet.user)
             /\ intended' = Enter(intended, m.room, FALSE, Me)
             /\ guestIn' = TRUE
             /\ Deliver(<<Reply(Me, "join_meeting_response", 0, BigEndian(number, 4),
                                [kind |-> "JoinMeetingResponse", code |-> m.room]),
                          Reply(Guest, "partner_join", packet.user, <<>>,
                                [kind |-> "PartnerJoin", user |-> Me])>>
                        \o ToNewcomer(Me, Guest, 3, GuestName, <<>>,
                                      [id |-> Guest, flags |-> 3, name |-> GuestName,
                                       avatar |-> <<>>]))

HandleText(packet, m) ==
  /\ packet.type = "text_send"
  /\ Deliver(ToGuest(Reply(Guest, "text_recv", room.id, packet.payload,
                           [kind |-> "RecvText", user |-> Me, text |-> m.text])))
  /\ UNCHANGED <<room, guestIn, intended>>

HandleCloseCamera(packet, m) ==
  /\ packet.type = "close_camera"
  /\ Deliver(ToGuest(Reply(Guest, "close_camera", room.id, <<>>,
                           [kind |-> "CloseCameraNotify", user |-> Me])))
  /\ UNCHANGED <<room, guestIn, intended>>

TakeProfile(place, payload) ==
  LET named == [place EXCEPT !.id = ProfileId(payload), !.name = ProfileName(payload)] IN
  IF ~HasName(payload) THEN place
  ELSE IF HasAvatar(payload) THEN [named EXCEPT !.avatar = ProfileAvatar(payload)]
  ELSE named

HandleUserProfile(packet, m) ==
  /\ packet.type = "user_profile"
  /\ room' = TakeProfile(room, packet.payload)
  /\ intended' = [intended EXCEPT !.id = m.id, !.name = m.name, !.avatar = m.avatar]
  /\ Deliver(ToGuest(Reply(Guest, "user_profile", room'.id, packet.payload,
                           [kind |-> "UserProfileNotify", user |-> m.id, name |-> m.name,
                            avatar |-> m.avatar])))
  /\ UNCHANGED guestIn

(* The owner's switches are sent to all, the owner included.                 *)
HandleRoomSettings(packet, m) ==
  LET Notice(to) == Reply(to, "room_settings_notify", room.id, BigEndian(room'.flags, 4),
                          [kind |-> "RoomSettingsNotify", flags |-> m.flags]) IN
  /\ packet.type = "room_settings"
  /\ IF room.owner
       THEN /\ room' = [room EXCEPT !.flags = Number(packet.payload, @)]
            /\ intended' = [intended EXCEPT !.flags = m.flags]
            /\ Deliver(<<Notice(Me)>> \o ToGuest(Notice(Guest)))
       ELSE UNCHANGED <<room, intended, down, meant>>
  /\ UNCHANGED guestIn

HandleIgnored(packet, m) ==
  /\ packet.type = "exit_meeting"
  /\ UNCHANGED <<room, intended, down, meant, guestIn>>

HandlePacket(packet, m) ==
  IF room.number = 0
    THEN HandleCreateMeeting(packet, m) \/ HandleJoinMeeting(packet, m)
    ELSE \/ HandleText(packet, m)
         \/ HandleCloseCamera(packet, m)
         \/ HandleUserProfile(packet, m)
         \/ HandleRoomSettings(packet, m)
         \/ HandleIgnored(packet, m)

-----------------------------------------------------------------------------
(* The server decodes what the buffer holds, one message after the other.    *)

PrefixedSize == Unsigned([k \in 1..4 |-> B!Unread(buffer)[k][2]])
PrefixedText == SubSeq(B!Unread(buffer), 5, 4 + PrefixedSize)

HasPrefix == B!Readable(buffer) >= 4
HasText == HasPrefix /\ B!Readable(buffer) >= 4 + PrefixedSize

Parses(text) == text[1][1] = "text" /\ text = TextOf(text[1][2])

Understood ==
  HasText /\ PrefixedSize > 0 /\ Parses(PrefixedText) /\ PrefixedText[1][2].t \in ServerTypes

(* The server closes the connection; nothing that a client sends is refused. *)
Refused == HasPrefix /\ (PrefixedSize = 0 \/ HasText) /\ ~Understood

NeedMore ==
  /\ reading /\ ~HasText /\ ~Refused
  /\ reading' = FALSE
  /\ UNCHANGED <<sent, up, buffer, pending, down, room, guestIn, received, intended, meant>>

DecodeOk ==
  /\ reading /\ Understood
  /\ buffer' = B!MoveReadPos(buffer, 4 + PrefixedSize)
  /\ HandlePacket(PacketOf(PrefixedText[1][2]), Head(pending))
  /\ pending' = Tail(pending)
  /\ UNCHANGED <<sent, up, reading, received>>

(* A guest joins the client's room. *)
GuestJoins ==
  /\ room.owner /\ ~guestIn /\ ~reading
  /\ guestIn' = TRUE
  /\ Deliver(<<Reply(Guest, "join_meeting_response", 0, BigEndian(room.number, 4),
                     [kind |-> "JoinMeetingResponse", code |-> intended.number]),
               Reply(Me, "partner_join", Guest, <<>>, [kind |-> "PartnerJoin", user |-> Guest])>>
             \o ToNewcomer(Guest, room.id, room.flags, room.name, room.avatar, intended))
  /\ UNCHANGED <<channelVars, room, received, intended>>

(* A WebSocket message is one frame: the stream parser never keeps a part.   *)
ClientHears(c) ==
  /\ down[c] # <<>>
  /\ down' = [down EXCEPT ![c] = Tail(@)]
  /\ LET m == DecodeJsonFrame(Head(down[c])) IN
     received' = IF m = NoMessage THEN received ELSE [received EXCEPT ![c] = Append(@, m)]
  /\ UNCHANGED <<channelVars, room, guestIn, intended, meant>>

Next ==
  \/ \E m \in Requests : ClientSends(m)
  \/ ServerReads
  \/ NeedMore
  \/ DecodeOk
  \/ GuestJoins
  \/ \E c \in Clients : ClientHears(c)

Spec == Init /\ [][Next]_vars

-----------------------------------------------------------------------------
(* Two codecs and six payload layouts, written twice in two languages, agree:*)
(* the server knows of a client what the client has told it, and each client *)
(* reads what the server has to say, in that order and nothing else.         *)
FramesKeepTheirMeaning ==
  /\ room = intended
  /\ \A c \in Clients :
       /\ IsPrefix(received[c], meant[c])
       /\ down[c] = <<>> => received[c] = meant[c]

(* The receive buffer holds what it should however often it is compacted or  *)
(* grown: no frame is refused, and none is left behind when the server waits *)
(* for the next one.                                                         *)
NothingIsLeftBehind ==
  /\ buffer.read <= buffer.write /\ buffer.write <= Len(buffer.store)
  /\ ~Refused
  /\ ~reading => B!Readable(buffer) = 0 /\ Len(pending) = Len(up)
=============================================================================
