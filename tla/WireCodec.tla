----------------------------- MODULE WireCodec -----------------------------
(***************************************************************************)
(* What goes over the WebSocket between client and message server, and how *)
(* either side writes and reads it: the client's MessageCodec, the         *)
(* server's Codec, and the payloads of MeetingService and Room.            *)
(* A frame is a JSON object with the fields t, u and perhaps s or p.  A    *)
(* type is its name on the wire, a text the sequence of its UTF-8 bytes.   *)
(* User ids are below 2^53, so that a JSON number keeps them.              *)
(***************************************************************************)
EXTENDS Integers, Sequences, SequencesExt

Bytes == 0..255

-----------------------------------------------------------------------------
(* Numbers and base64 *)

(* The code's shifts are of 32 and 64 bits; no number here is beyond 31. *)
BigEndian(n, width) ==
  [i \in 1..width |-> IF width - i > 3 THEN (IF n < 0 THEN 255 ELSE 0)
                      ELSE (n \div (256^(width - i))) % 256]

Unsigned(bytes) == FoldLeft(LAMBDA n, b : n * 256 + b, 0, bytes)

Signed(bytes) ==
  IF bytes[1] < 128 THEN Unsigned(bytes) ELSE Unsigned([bytes EXCEPT ![1] = @ - 256])

Pad == 64

Base64Encode(bytes) ==
  LET n == Len(bytes)
      At(k) == IF k <= n THEN bytes[k] ELSE 0
      Triple(g) == (At((3*g) + 1) * 256 + At((3*g) + 2)) * 256 + At((3*g) + 3)
      Character(g, k) ==
        IF (3*g) + k > n + 1 THEN Pad ELSE (Triple(g) \div (64^(4 - k))) % 64
  IN [i \in 1..(4 * ((n + 2) \div 3)) |-> Character((i - 1) \div 4, 1 + ((i - 1) % 4))]

(* The accumulator has 32 bits, of which 14 can matter. *)
DecodeCharacter(d, c) ==
  IF d.ended \/ c = Pad THEN [d EXCEPT !.ended = TRUE]
  ELSE LET acc  == (d.acc * 64 + c) % 16384
           bits == d.bits + 6
       IN IF bits < 8 THEN [d EXCEPT !.acc = acc, !.bits = bits]
          ELSE [d EXCEPT !.acc = acc, !.bits = bits - 8,
                         !.out = Append(@, (acc \div (2^(bits - 8))) % 256)]

Base64Decode(text) ==
  FoldLeft(DecodeCharacter, [acc |-> 0, bits |-> 0, ended |-> FALSE, out |-> <<>>], text).out

-----------------------------------------------------------------------------
(* Types *)

MediaTypes == {"img_send", "img_recv", "audio_send", "audio_recv"}
TextTypes  == {"text_send", "text_recv"}

ServerTypes == MediaTypes \cup TextTypes \cup
  {"create_meeting", "exit_meeting", "join_meeting", "close_camera", "room_settings",
   "create_meeting_response", "partner_exit", "partner_join", "join_meeting_response",
   "partner_join2", "user_profile", "room_settings_notify"}

ClientTypes == ServerTypes \cup {"remote_host_closed", "other_net_error"}

WireType(kind) ==
  CASE kind = "CreateMeeting"         -> "create_meeting"
    [] kind = "JoinMeeting"           -> "join_meeting"
    [] kind = "ExitMeeting"           -> "exit_meeting"
    [] kind = "SendText"              -> "text_send"
    [] kind = "RoomSettings"          -> "room_settings"
    [] kind = "CloseCamera"           -> "close_camera"
    [] kind = "SendUserProfile"       -> "user_profile"

-----------------------------------------------------------------------------
(* Payloads *)

(* Faulty: the length in the order of a little-endian machine. *)
LengthAsStored(text) == Reverse(BigEndian(Len(text) % 65536, 2))

LengthOf(text) == BigEndian(Len(text) % 65536, 2)

ProfilePayload(id, name, avatar) ==
  BigEndian(id, 8) \o LengthOf(name) \o name \o LengthOf(avatar) \o avatar

NameEnd(payload) == 10 + Unsigned(SubSeq(payload, 9, 10))
AvatarEnd(payload) ==
  NameEnd(payload) + 2 + Unsigned(SubSeq(payload, NameEnd(payload) + 1, NameEnd(payload) + 2))

(* How far the payload of a profile can be read: a name is read with the     *)
(* length of what follows it.                                                *)
HasName(payload)   == Len(payload) >= 12 /\ NameEnd(payload) + 2 <= Len(payload)
HasAvatar(payload) == HasName(payload) /\ AvatarEnd(payload) <= Len(payload)

ProfileId(payload)     == Unsigned(SubSeq(payload, 1, 8))
ProfileName(payload)   == SubSeq(payload, 11, NameEnd(payload))
ProfileAvatar(payload) == SubSeq(payload, NameEnd(payload) + 3, AvatarEnd(payload))

Number(payload, default) ==
  IF Len(payload) >= 4 THEN Unsigned(SubSeq(payload, 1, 4)) ELSE default

-----------------------------------------------------------------------------
(* The client *)

ClientPayload(m) ==
  CASE m.kind = "CreateMeeting"   -> BigEndian(m.participants, 4) \o BigEndian(m.minutes, 4)
    [] m.kind = "JoinMeeting"     -> BigEndian(m.room, 4)
    [] m.kind = "RoomSettings"    -> BigEndian(m.flags, 4)
    [] m.kind = "SendUserProfile" -> ProfilePayload(m.id, m.name, m.avatar)
    [] OTHER                      -> <<>>

TextFrame(type, user, text) == [t |-> type, u |-> user, s |-> text]

PayloadFrame(type, user, payload) ==
  IF payload = <<>> THEN [t |-> type, u |-> user]
  ELSE [t |-> type, u |-> user, p |-> Base64Encode(payload)]

EncodeWireFrame(m, me) ==
  IF m.kind = "SendText" THEN TextFrame(WireType(m.kind), me, m.text)
  ELSE PayloadFrame(WireType(m.kind), me, ClientPayload(m))

PayloadOf(frame) ==
  IF "s" \in DOMAIN frame THEN frame.s
  ELSE IF "p" \in DOMAIN frame THEN Base64Decode(frame.p)
  ELSE <<>>

UserIds(payload) ==
  [i \in 1..(Len(payload) \div 8) |-> Unsigned(SubSeq(payload, (8*i) - 7, 8*i))]

NoMessage == [kind |-> "None"]

DecodeUserProfile(payload, sender) ==
  IF ~HasAvatar(payload) THEN NoMessage
  ELSE [kind |-> "UserProfileNotify",
        user |-> IF sender # 0 THEN sender ELSE ProfileId(payload),
        name |-> ProfileName(payload), avatar |-> ProfileAvatar(payload)]

(* Requests, and the types of the former media, are not for clients. *)
DecodePayload(payload, user, type) ==
  CASE type = "create_meeting_response" ->
         [kind |-> "CreateMeetingResponse", room |-> Number(payload, 0)]
    [] type = "join_meeting_response" ->
         [kind |-> "JoinMeetingResponse",
          code |-> IF Len(payload) >= 4 THEN Signed(SubSeq(payload, 1, 4)) ELSE 0]
    [] type = "partner_join2" -> [kind |-> "PartnerJoin2", users |-> UserIds(payload)]
    [] type = "text_recv"     -> [kind |-> "RecvText", user |-> user, text |-> payload]
    [] type = "user_profile"  -> DecodeUserProfile(payload, user)
    [] type = "room_settings_notify" ->
         [kind |-> "RoomSettingsNotify", flags |-> Number(payload, 0)]
    [] type = "partner_join"  -> [kind |-> "PartnerJoin", user |-> user]
    [] type = "partner_exit"  -> [kind |-> "PartnerExit", user |-> user]
    [] type = "close_camera"  -> [kind |-> "CloseCameraNotify", user |-> user]
    [] OTHER -> NoMessage

DecodeJsonFrame(frame) ==
  IF frame.t \in ClientTypes THEN DecodePayload(PayloadOf(frame), frame.u, frame.t)
  ELSE NoMessage

-----------------------------------------------------------------------------
(* The server *)

Encode(packet) ==
  IF packet.type \in TextTypes THEN TextFrame(packet.type, packet.user, packet.payload)
  ELSE PayloadFrame(packet.type, packet.user, packet.payload)

PacketOf(frame) == [type |-> frame.t, user |-> frame.u, payload |-> PayloadOf(frame)]

UserIdsPayload(ids) == FlattenSeq([i \in 1..Len(ids) |-> BigEndian(ids[i], 8)])
=============================================================================
