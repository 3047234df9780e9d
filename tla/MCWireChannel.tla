--------------------------- MODULE MCWireChannel ---------------------------
(***************************************************************************)
(* WireChannel for TLC: requests whose numbers need more than one byte and *)
(* whose texts have every length modulo three; and base64 by itself.       *)
(***************************************************************************)
EXTENDS WireChannel

MCRequests ==
  {[kind |-> "CreateMeeting", participants |-> p, minutes |-> m] : p \in {1, 258}, m \in {90}}
  \cup {[kind |-> "JoinMeeting", room |-> n] : n \in {0, 123456789}}
  \cup {[kind |-> "RoomSettings", flags |-> f] : f \in {0, 2}}
  \cup {[kind |-> "SendText", text |-> t] : t \in {<<>>, <<104, 105>>}}
  \cup {[kind |-> "SendUserProfile", id |-> Me, name |-> n, avatar |-> a] :
          n \in {<<>>, <<65, 110, 110>>}, a \in {<<>>, <<47, 255>>}}
  \cup {[kind |-> "CloseCamera"], [kind |-> "ExitMeeting"]}

MCRoomNumbers == {987654321}

Samples == {0, 1, 63, 128, 255}

ASSUME Base64IsInverted ==
  \A n \in 0..4 : \A bytes \in [1..n -> Samples] : Base64Decode(Base64Encode(bytes)) = bytes

ASSUME NumbersAreInverted ==
  \A n \in {-1, 0, 1, 255, 256, 65536, 987654321, 2147483647} :
    /\ Signed(BigEndian(n, 4)) = n
    /\ n >= 0 => Unsigned(BigEndian(n, 4)) = n /\ Unsigned(BigEndian(n, 8)) = n
=============================================================================
