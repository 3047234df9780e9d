-------------------------- MODULE MeetingRoomsProofs --------------------------
(***************************************************************************)
(* Proofs about the meeting server's rooms seen from two sides, for any    *)
(* number of connections and rooms.                                        *)
(*                                                                         *)
(* MeetingView, with any number of packets and frames under way, when the  *)
(* clients are of different accounts: the lists of members, the room       *)
(* switches and the profiles of every client converge to what the server   *)
(* has.                                                                    *)
(*                                                                         *)
(* RoomTeardown implements MeetingServer: whatever chain of re-entrant     *)
(* callbacks a close or an expiry starts, in whatever order the            *)
(* participants are visited, its effect is that of one step.  The          *)
(* invariant says at each call what the chain has done so far, counted     *)
(* from the state in which it began; that this state was consistent is     *)
(* what keeps every nested call from finding work.                         *)
(***************************************************************************)
EXTENDS MeetingView, RoomTeardown, MeetingServerProofs

(***************************************************************************)
(* The clients' view                                                       *)
(***************************************************************************)
AccountsDiffer == \A c, d \in Conns : Account[c] = Account[d] => c = d

-----------------------------------------------------------------------------
(* Types *)

Responses == {"CreateMeetingResponse", "JoinMeetingResponse"}

Frames ==
  [type : Responses, value : Int] \cup [type : {"PartnerJoin", "PartnerExit"}, user : Users]
  \cup [type : {"PartnerJoin2"}, users : SUBSET Users]
  \cup [type : {"RoomSettingsNotify"}, flags : Flags]
  \cup [type : {"UserProfile"}, user : Users, version : Nat] \cup [type : Notices, user : Users]

Asks == [type : {"CreateMeeting"}] \cup [type : {"JoinMeeting"}, id : RoomIds]

ProfilePackets  == [type : {"UserProfile"}, user : Users, version : Nat \ {0}]
SettingsPackets == [type : {"RoomSettings"}, flags : Flags]

Packets == Asks \cup ProfilePackets \cup SettingsPackets \cup [type : Notices]

ViewTypeOK ==
  /\ userId \in [Conns -> Users \cup {0}] /\ profile \in [Conns -> Nat]
  /\ settings \in [Rooms -> Flags]
  /\ outbox \in [Conns -> Seq(Frames)] /\ uplink \in [Conns -> Seq(Packets)]
  /\ asked \in [Conns -> BOOLEAN] /\ inMeeting \in [Conns -> BOOLEAN]
  /\ shown \in [Conns -> SUBSET Users] /\ names \in [Conns -> [Users -> Nat]]
  /\ flags \in [Conns -> Flags] /\ version \in [Conns -> Nat \ {0}]
  /\ acts \in Nat

-----------------------------------------------------------------------------
(* The invariant *)

(* A client in no room has shown nobody, has at most its request under way   *)
(* and gets at most a refusal.                                               *)
LobbyIsBlank(c) ==
  ~InRoom(c) =>
    /\ profile[c] = 0 /\ shown[c] = {} /\ flags[c] = DefaultFlags /\ ~inMeeting[c]
    /\ \A i \in DOMAIN outbox[c] : outbox[c][i].type \in Responses /\ outbox[c][i].value <= 0
    /\ uplink[c] = <<>> \/ (outbox[c] = <<>> /\ \E p \in Asks : uplink[c] = <<p>>)
    /\ ~asked[c] => uplink[c] = <<>> /\ outbox[c] = <<>>
    /\ conn[c] = "closed" => outbox[c] = <<>>

(* The server knows a client in a room by its account, and the client has    *)
(* asked for it once.                                                        *)
MemberIsKnown(c) ==
  InRoom(c) =>
    /\ userId[c] = Account[c] /\ asked[c]
    /\ \A i \in DOMAIN uplink[c] : /\ uplink[c][i] \notin Asks
                                   /\ uplink[c][i] \in ProfilePackets => uplink[c][i].user = Account[c]

Basic ==
  /\ ViewTypeOK
  /\ \A c \in Conns : LobbyIsBlank(c) /\ MemberIsKnown(c)
  /\ \A r \in Rooms : status[r] # "live" => settings[r] = DefaultFlags

ListConverges(c) ==
  InRoom(c) => \A u \in Users \ {Account[c]} :
                 u \in ShownAfter(shown[c], outbox[c], Len(outbox[c]))
                   <=> \E d \in Others(c) : u = Account[d]

NoticesAreOfShown(c) ==
  \A i \in DOMAIN outbox[c] :
    outbox[c][i].type \in Notices =>
      /\ outbox[c][i].user # Account[c]
      /\ outbox[c][i].user \in ShownAfter(shown[c], outbox[c], i - 1)

(* f is the last one of q that is in S; q has none that is in S.             *)
LastIs(q, S, f) == f \in S /\ \E i \in DOMAIN q : q[i] = f /\ \A j \in DOMAIN q : j > i => q[j] \notin S
NoneIn(q, S) == \A i \in DOMAIN q : q[i] \notin S

SettingsFrames == [type : {"RoomSettingsNotify"}, flags : Flags]

FramesAbout(u) ==
  [type : {"UserProfile"}, user : {u}, version : Nat] \cup [type : {"PartnerExit"}, user : {u}]

WillApplyFlags(c, f) ==
  \/ flags[c] = f /\ NoneIn(outbox[c], SettingsFrames)
  \/ LastIs(outbox[c], SettingsFrames, RoomSettingsNotify(f))

SwitchesConverge(c) ==
  InRoom(c) /\ NoneIn(uplink[c], SettingsPackets) => WillApplyFlags(c, settings[connRoom[c]])

(* What d has sent last is its present profile.                              *)
PresentProfileIsSent(d) ==
  InRoom(d) =>
    \/ LastIs(uplink[d], ProfilePackets, ProfilePacket(d, version[d]))
    \/ NoneIn(uplink[d], ProfilePackets) /\ profile[d] \in {0, version[d]}

(* d will send its profile once c is in the room.                            *)
Owes(d, c) ==
  \/ ~inMeeting[d]
  \/ \E i \in DOMAIN outbox[d] : outbox[d][i] = PartnerJoin(Account[c])
  \/ ~NoneIn(uplink[d], ProfilePackets)

WillName(c, u, v) ==
  \/ names[c][u] = v /\ NoneIn(outbox[c], FramesAbout(u))
  \/ LastIs(outbox[c], FramesAbout(u), UserProfile(u, v))

ProfileReaches(c, d) ==
  InRoom(c) /\ connRoom[d] = connRoom[c] /\ c # d =>
    Owes(d, c) \/ (profile[d] # 0 /\ WillName(c, Account[d], profile[d]))

ViewInv ==
  /\ Consistent
  /\ Basic
  /\ \A c \in Conns : /\ ListConverges(c) /\ NoticesAreOfShown(c)
                      /\ SwitchesConverge(c) /\ PresentProfileIsSent(c)
  /\ \A c, d \in Conns : ProfileReaches(c, d)

-----------------------------------------------------------------------------
(* Queues: what a frame more at the end changes, and one less at the front.  *)

LEMMA AppendedQueue ==
  ASSUME NEW T, NEW q \in Seq(T), NEW e \in T
  PROVE  /\ q \o <<e>> \in Seq(T) /\ Len(q \o <<e>>) = Len(q) + 1
         /\ DOMAIN (q \o <<e>>) = 1..(Len(q) + 1) /\ DOMAIN q = 1..Len(q)
         /\ \A i \in 1..Len(q) : (q \o <<e>>)[i] = q[i]
         /\ (q \o <<e>>)[Len(q) + 1] = e
OBVIOUS

LEMMA AppendIsConcat ==
  ASSUME NEW T, NEW q \in Seq(T), NEW e \in T
  PROVE  Append(q, e) = q \o <<e>>
OBVIOUS

LEMMA TailQueue ==
  ASSUME NEW T, NEW q \in Seq(T), q # <<>>
  PROVE  /\ Tail(q) \in Seq(T) /\ Len(Tail(q)) = Len(q) - 1 /\ Head(q) = q[1] /\ Head(q) \in T
         /\ DOMAIN Tail(q) = 1..(Len(q) - 1) /\ DOMAIN q = 1..Len(q) /\ Len(q) \in Nat \ {0}
         /\ \A i \in 1..(Len(q) - 1) : Tail(q)[i] = q[i + 1]
OBVIOUS

LEMMA NoneInEmpty == \A S : NoneIn(<<>>, S)
BY DEF NoneIn

LEMMA AppendedNone ==
  ASSUME NEW T, NEW q \in Seq(T), NEW e \in T, NEW S
  PROVE  NoneIn(q \o <<e>>, S) <=> NoneIn(q, S) /\ e \notin S
<1> DEFINE s == q \o <<e>>
<1>1. /\ Len(q) \in Nat /\ DOMAIN s = 1..(Len(q) + 1) /\ DOMAIN q = 1..Len(q)
      /\ \A i \in 1..Len(q) : s[i] = q[i]
      /\ s[Len(q) + 1] = e
  BY AppendedQueue
<1> HIDE DEF s
<1>2. NoneIn(s, S) <=> NoneIn(q, S) /\ e \notin S
  BY <1>1 DEF NoneIn
<1>3. QED
  BY <1>2 DEF s

LEMMA AppendedLast ==
  ASSUME NEW T, NEW q \in Seq(T), NEW e \in T, NEW S, NEW f
  PROVE  LastIs(q \o <<e>>, S, f) <=> (e \in S /\ e = f) \/ (e \notin S /\ LastIs(q, S, f))
<1> DEFINE s == q \o <<e>>
           n == Len(q)
<1>1. /\ n \in Nat /\ DOMAIN s = 1..(n + 1) /\ DOMAIN q = 1..n
      /\ \A i \in 1..n : s[i] = q[i]
      /\ s[n + 1] = e
  BY AppendedQueue
<1> HIDE DEF s, n
<1>2. ASSUME LastIs(s, S, f) PROVE (e \in S /\ e = f) \/ (e \notin S /\ LastIs(q, S, f))
  <2>1. PICK i \in 1..(n + 1) : f \in S /\ s[i] = f /\ \A j \in 1..(n + 1) : j > i => s[j] \notin S
    BY <1>1, <1>2 DEF LastIs
  <2>2. CASE i = n + 1
    BY <1>1, <2>1, <2>2
  <2>3. CASE i # n + 1
    <3>1. i \in 1..n /\ n + 1 > i /\ e \notin S
      BY <1>1, <2>1, <2>3
    <3>2. q[i] = f /\ \A j \in 1..n : j > i => q[j] \notin S
      BY <1>1, <2>1, <3>1
    <3>3. QED
      BY <1>1, <2>1, <3>1, <3>2 DEF LastIs
  <2>4. QED
    BY <2>2, <2>3
<1>3. ASSUME e \in S, e = f PROVE LastIs(s, S, f)
  BY <1>1, <1>3 DEF LastIs
<1>4. ASSUME e \notin S, LastIs(q, S, f) PROVE LastIs(s, S, f)
  <2>1. PICK i \in 1..n : f \in S /\ q[i] = f /\ \A j \in 1..n : j > i => q[j] \notin S
    BY <1>1, <1>4 DEF LastIs
  <2>2. i \in 1..(n + 1) /\ s[i] = f /\ \A j \in 1..(n + 1) : j > i => s[j] \notin S
    BY <1>1, <1>4, <2>1
  <2>3. QED
    BY <1>1, <2>1, <2>2 DEF LastIs
<1>5. LastIs(s, S, f) <=> (e \in S /\ e = f) \/ (e \notin S /\ LastIs(q, S, f))
  BY <1>2, <1>3, <1>4
<1>6. QED
  BY <1>5 DEF s

LEMMA TailNone ==
  ASSUME NEW T, NEW q \in Seq(T), q # <<>>, NEW S
  PROVE  NoneIn(q, S) <=> Head(q) \notin S /\ NoneIn(Tail(q), S)
<1> DEFINE s == Tail(q)
           n == Len(q)
<1>1. /\ n \in Nat \ {0} /\ DOMAIN s = 1..(n - 1) /\ DOMAIN q = 1..n
      /\ \A i \in 1..(n - 1) : s[i] = q[i + 1]
      /\ Head(q) = q[1]
  BY TailQueue
<1> HIDE DEF s, n
<1>2. ASSUME NoneIn(q, S) PROVE Head(q) \notin S /\ NoneIn(s, S)
  <2>1. 1 \in 1..n /\ \A i \in 1..(n - 1) : i + 1 \in 1..n
    BY <1>1
  <2>2. q[1] \notin S /\ \A i \in 1..(n - 1) : q[i + 1] \notin S
    BY <1>1, <1>2, <2>1 DEF NoneIn
  <2>3. QED
    BY <1>1, <2>2 DEF NoneIn
<1>3. ASSUME Head(q) \notin S, NoneIn(s, S), NEW i \in 1..n PROVE q[i] \notin S
  <2>1. CASE i = 1
    BY <1>1, <1>3, <2>1
  <2>2. CASE i # 1
    <3>1. i - 1 \in 1..(n - 1) /\ s[i - 1] = q[(i - 1) + 1] /\ (i - 1) + 1 = i
      BY <1>1, <2>2
    <3>2. QED
      BY <1>1, <1>3, <3>1 DEF NoneIn
  <2>3. QED
    BY <2>1, <2>2
<1>4. NoneIn(q, S) <=> Head(q) \notin S /\ NoneIn(s, S)
  BY <1>1, <1>2, <1>3 DEF NoneIn
<1>5. QED
  BY <1>4 DEF s

LEMMA TailLast ==
  ASSUME NEW T, NEW q \in Seq(T), q # <<>>, NEW S, NEW f
  PROVE  LastIs(q, S, f) <=> \/ LastIs(Tail(q), S, f)
                             \/ Head(q) = f /\ f \in S /\ NoneIn(Tail(q), S)
<1> DEFINE s == Tail(q)
           n == Len(q)
<1>1. /\ n \in Nat \ {0} /\ DOMAIN s = 1..(n - 1) /\ DOMAIN q = 1..n
      /\ \A i \in 1..(n - 1) : s[i] = q[i + 1]
      /\ Head(q) = q[1]
  BY TailQueue
<1> HIDE DEF s, n
<1>2. \A j \in 2..n : j - 1 \in 1..(n - 1) /\ s[j - 1] = q[j]
  <2> TAKE j \in 2..n
  <2>1. j - 1 \in 1..(n - 1) /\ s[j - 1] = q[(j - 1) + 1] /\ (j - 1) + 1 = j
    BY <1>1
  <2>2. QED
    BY <2>1
<1>3. ASSUME LastIs(q, S, f)
      PROVE  LastIs(s, S, f) \/ (Head(q) = f /\ f \in S /\ NoneIn(s, S))
  <2>1. PICK i \in 1..n : f \in S /\ q[i] = f /\ \A j \in 1..n : j > i => q[j] \notin S
    BY <1>1, <1>3 DEF LastIs
  <2>2. CASE i = 1
    BY <1>1, <2>1, <2>2 DEF NoneIn
  <2>3. CASE i # 1
    <3>1. i - 1 \in 1..(n - 1) /\ s[i - 1] = f
      BY <1>1, <1>2, <2>1, <2>3
    <3>2. \A j \in 1..(n - 1) : j > i - 1 => s[j] \notin S
      BY <1>1, <2>1
    <3>3. QED
      BY <1>1, <2>1, <3>1, <3>2 DEF LastIs
  <2>4. QED
    BY <2>2, <2>3
<1>4. ASSUME LastIs(s, S, f) PROVE LastIs(q, S, f)
  <2>1. PICK i \in 1..(n - 1) : f \in S /\ s[i] = f /\ \A j \in 1..(n - 1) : j > i => s[j] \notin S
    BY <1>1, <1>4 DEF LastIs
  <2>2. i + 1 \in 1..n /\ q[i + 1] = f
    BY <1>1, <2>1
  <2>3. ASSUME NEW j \in 1..n, j > i + 1 PROVE q[j] \notin S
    <3>1. j \in 2..n /\ j - 1 > i
      BY <1>1, <2>1, <2>3
    <3>2. QED
      BY <1>2, <2>1, <3>1
  <2>4. QED
    BY <1>1, <2>1, <2>2, <2>3 DEF LastIs
<1>5. ASSUME Head(q) = f, f \in S, NoneIn(s, S) PROVE LastIs(q, S, f)
  <2>1. 1 \in 1..n /\ q[1] = f
    BY <1>1, <1>5
  <2>2. ASSUME NEW j \in 1..n, j > 1 PROVE q[j] \notin S
    <3>1. j \in 2..n
      BY <1>1, <2>2
    <3>2. j - 1 \in DOMAIN s /\ s[j - 1] = q[j]
      BY <1>1, <1>2, <3>1
    <3>3. QED
      BY <1>5, <3>2 DEF NoneIn
  <2>3. QED
    BY <1>1, <1>5, <2>1, <2>2 DEF LastIs
<1>6. QED
  BY <1>3, <1>4, <1>5 DEF s

(* Nobody is shown by the first frames that was not before them ...           *)
LEMMA ShownAfterNone ==
  ASSUME NEW us \in SUBSET Users, NEW q
  PROVE  ShownAfter(us, q, 0) = us
BY DEF ShownAfter

LEMMA AppendedShown ==
  ASSUME NEW T, NEW q \in Seq(T), NEW e \in T, NEW us
  PROVE  /\ \A n \in 0..Len(q) : ShownAfter(us, q \o <<e>>, n) = ShownAfter(us, q, n)
         /\ \A u \in Users : u \in ShownAfter(us, q \o <<e>>, Len(q) + 1)
              <=> Adds(e, u) \/ (u \in ShownAfter(us, q, Len(q)) /\ ~Removes(e, u))
<1> DEFINE s == q \o <<e>>
           m == Len(q)
<1>1. /\ m \in Nat /\ \A i \in 1..m : s[i] = q[i]
      /\ s[m + 1] = e
  BY AppendedQueue
<1> HIDE DEF s, m
<1>2. ASSUME NEW n \in 0..m PROVE ShownAfter(us, s, n) = ShownAfter(us, q, n)
  <2>1. \A i \in 1..n : s[i] = q[i] /\ \A j \in (i + 1)..n : s[j] = q[j]
    BY <1>1, <1>2
  <2>2. QED
    BY <2>1 DEF ShownAfter
<1>3. ASSUME NEW u \in Users
      PROVE  u \in ShownAfter(us, s, m + 1)
               <=> Adds(e, u) \/ (u \in ShownAfter(us, q, m) /\ ~Removes(e, u))
  <2>1. ASSUME u \in ShownAfter(us, s, m + 1), ~Adds(e, u)
        PROVE  u \in ShownAfter(us, q, m) /\ ~Removes(e, u)
    <3>1. CASE u \in us /\ \A j \in 1..(m + 1) : ~Removes(s[j], u)
      <4>1. ~Removes(s[m + 1], u) /\ \A j \in 1..m : ~Removes(s[j], u)
        BY <1>1, <3>1
      <4>2. QED
        BY <1>1, <3>1, <4>1 DEF ShownAfter
    <3>2. CASE \E i \in 1..(m + 1) : Adds(s[i], u) /\ \A j \in (i + 1)..(m + 1) : ~Removes(s[j], u)
      <4>1. PICK i \in 1..(m + 1) : Adds(s[i], u) /\ \A j \in (i + 1)..(m + 1) : ~Removes(s[j], u)
        BY <3>2
      <4>2. i \in 1..m
        BY <1>1, <2>1, <4>1
      <4>3. ~Removes(s[m + 1], u) /\ \A j \in (i + 1)..m : ~Removes(s[j], u)
        BY <1>1, <4>1, <4>2
      <4>4. Adds(q[i], u) /\ \A j \in (i + 1)..m : ~Removes(q[j], u)
        BY <1>1, <4>1, <4>2, <4>3
      <4>5. QED
        BY <1>1, <4>2, <4>3, <4>4 DEF ShownAfter
    <3>3. QED
      BY <2>1, <3>1, <3>2 DEF ShownAfter
  <2>2. ASSUME Adds(e, u) PROVE u \in ShownAfter(us, s, m + 1)
    <3>1. m + 1 \in 1..(m + 1) /\ Adds(s[m + 1], u) /\ ((m + 1) + 1)..(m + 1) = {}
      BY <1>1, <2>2
    <3>2. QED
      BY <3>1 DEF ShownAfter
  <2>3. ASSUME u \in ShownAfter(us, q, m), ~Removes(e, u) PROVE u \in ShownAfter(us, s, m + 1)
    <3>1. CASE u \in us /\ \A j \in 1..m : ~Removes(q[j], u)
      <4>1. \A j \in 1..(m + 1) : ~Removes(s[j], u)
        <5>1. \A j \in 1..(m + 1) : j \in 1..m \/ j = m + 1
          BY <1>1
        <5>2. QED
          BY <1>1, <2>3, <3>1, <5>1
      <4>2. QED
        BY <3>1, <4>1 DEF ShownAfter
    <3>2. CASE \E i \in 1..m : Adds(q[i], u) /\ \A j \in (i + 1)..m : ~Removes(q[j], u)
      <4>1. PICK i \in 1..m : Adds(q[i], u) /\ \A j \in (i + 1)..m : ~Removes(q[j], u)
        BY <3>2
      <4>2. \A j \in (i + 1)..(m + 1) : j \in (i + 1)..m \/ j = m + 1
        BY <1>1, <4>1
      <4>3. \A j \in (i + 1)..m : j \in 1..m
        BY <1>1, <4>1
      <4>4. i \in 1..(m + 1) /\ Adds(s[i], u) /\ \A j \in (i + 1)..(m + 1) : ~Removes(s[j], u)
        BY <1>1, <2>3, <4>1, <4>2, <4>3
      <4>5. QED
        BY <4>4 DEF ShownAfter
    <3>3. QED
      BY <2>3, <3>1, <3>2 DEF ShownAfter
  <2>4. QED
    BY <2>1, <2>2, <2>3
<1>4. QED
  BY <1>2, <1>3 DEF s, m

(* ... and reading a frame is what the frame was going to do.                *)
LEMMA TailShown ==
  ASSUME NEW T, NEW q \in Seq(T), q # <<>>, NEW us, NEW vs, NEW u \in Users,
         u \in vs <=> Adds(Head(q), u) \/ (u \in us /\ ~Removes(Head(q), u))
  PROVE  \A n \in 1..Len(q) : u \in ShownAfter(vs, Tail(q), n - 1) <=> u \in ShownAfter(us, q, n)
<1> DEFINE s == Tail(q)
           m == Len(q)
<1>1. /\ m \in Nat \ {0} /\ \A i \in 1..(m - 1) : s[i] = q[i + 1]
      /\ Head(q) = q[1]
  BY TailQueue
<1> HIDE DEF s, m
<1>2. \A j \in 2..m : j - 1 \in 1..(m - 1) /\ s[j - 1] = q[j]
  <2> TAKE j \in 2..m
  <2>1. j - 1 \in 1..(m - 1) /\ s[j - 1] = q[(j - 1) + 1] /\ (j - 1) + 1 = j
    BY <1>1
  <2>2. QED
    BY <2>1
<1>3. ASSUME NEW n \in 1..m
      PROVE  u \in ShownAfter(vs, s, n - 1) <=> u \in ShownAfter(us, q, n)
  <2>1. ASSUME NEW i \in 0..(n - 1)
        PROVE  (\A j \in (i + 1)..(n - 1) : ~Removes(s[j], u))
                 <=> (\A j \in (i + 2)..n : ~Removes(q[j], u))
    <3>1. \A j \in (i + 1)..(n - 1) : j + 1 \in (i + 2)..n /\ s[j] = q[j + 1]
      BY <1>1, <1>3, <2>1
    <3>2. \A j \in (i + 2)..n : j - 1 \in (i + 1)..(n - 1) /\ s[j - 1] = q[j]
      BY <1>1, <1>2, <1>3, <2>1
    <3>3. QED
      BY <3>1, <3>2
  <2>2. ASSUME u \in ShownAfter(vs, s, n - 1) PROVE u \in ShownAfter(us, q, n)
    <3>1. CASE u \in vs /\ \A j \in 1..(n - 1) : ~Removes(s[j], u)
      <4>1. \A j \in 2..n : ~Removes(q[j], u)
        <5>1. 0 \in 0..(n - 1) /\ 0 + 1 = 1 /\ 0 + 2 = 2
          BY <1>1, <1>3
        <5>2. QED
          BY <2>1, <3>1, <5>1
      <4>2. CASE Adds(Head(q), u)
        BY <1>1, <1>3, <4>1, <4>2 DEF ShownAfter
      <4>3. CASE u \in us /\ ~Removes(Head(q), u)
        <5>1. \A j \in 1..n : j = 1 \/ j \in 2..n
          BY <1>1, <1>3
        <5>2. \A j \in 1..n : ~Removes(q[j], u)
          BY <1>1, <4>1, <4>3, <5>1
        <5>3. QED
          BY <4>3, <5>2 DEF ShownAfter
      <4>4. QED
        BY <3>1, <4>2, <4>3
    <3>2. CASE \E i \in 1..(n - 1) : Adds(s[i], u) /\ \A j \in (i + 1)..(n - 1) : ~Removes(s[j], u)
      <4>1. PICK i \in 1..(n - 1) : Adds(s[i], u) /\ \A j \in (i + 1)..(n - 1) : ~Removes(s[j], u)
        BY <3>2
      <4>2. i \in 0..(n - 1) /\ i \in 1..(m - 1) /\ i + 1 \in 1..n /\ i + 2 = (i + 1) + 1
        BY <1>1, <1>3, <4>1
      <4>3. Adds(q[i + 1], u) /\ \A j \in ((i + 1) + 1)..n : ~Removes(q[j], u)
        BY <1>1, <2>1, <4>1, <4>2
      <4>4. QED
        BY <4>2, <4>3 DEF ShownAfter
    <3>3. QED
      BY <2>2, <3>1, <3>2 DEF ShownAfter
  <2>3. ASSUME u \in ShownAfter(us, q, n) PROVE u \in ShownAfter(vs, s, n - 1)
    <3>1. ASSUME u \in vs, \A j \in 2..n : ~Removes(q[j], u) PROVE u \in ShownAfter(vs, s, n - 1)
      <4>1. 0 \in 0..(n - 1) /\ 0 + 1 = 1 /\ 0 + 2 = 2
        BY <1>1, <1>3
      <4>2. \A j \in 1..(n - 1) : ~Removes(s[j], u)
        BY <2>1, <3>1, <4>1
      <4>3. QED
        BY <3>1, <4>2 DEF ShownAfter
    <3>2. CASE u \in us /\ \A j \in 1..n : ~Removes(q[j], u)
      <4>1. ~Removes(q[1], u) /\ \A j \in 2..n : ~Removes(q[j], u)
        BY <1>1, <1>3, <3>2
      <4>2. QED
        BY <1>1, <3>1, <3>2, <4>1
    <3>3. CASE \E i \in 1..n : Adds(q[i], u) /\ \A j \in (i + 1)..n : ~Removes(q[j], u)
      <4>1. PICK i \in 1..n : Adds(q[i], u) /\ \A j \in (i + 1)..n : ~Removes(q[j], u)
        BY <3>3
      <4>2. CASE i = 1
        BY <1>1, <3>1, <4>1, <4>2
      <4>3. CASE i # 1
        <5>1. /\ i - 1 \in 1..(n - 1) /\ i - 1 \in 0..(n - 1) /\ i \in 2..m
              /\ (i - 1) + 2 = i + 1 /\ (i - 1) + 1 = i
          BY <1>1, <1>3, <4>1, <4>3
        <5>2. Adds(s[i - 1], u)
          BY <1>2, <4>1, <5>1
        <5>3. \A j \in ((i - 1) + 1)..(n - 1) : ~Removes(s[j], u)
          BY <2>1, <4>1, <5>1
        <5>4. QED
          BY <5>1, <5>2, <5>3 DEF ShownAfter
      <4>4. QED
        BY <4>2, <4>3
    <3>4. QED
      BY <2>3, <3>2, <3>3 DEF ShownAfter
  <2>4. QED
    BY <2>2, <2>3
<1>4. QED
  BY <1>3 DEF s, m

-----------------------------------------------------------------------------
(* The server's part of a step *)

LEMMA ReadsAreServerSteps ==
  ASSUME NEW c \in Conns, ServerReads(c)
  PROVE  [Next]_vars
<1> USE DEF ServerReads, Next
<1>1. CASE \E q \in Requests, r \in Rooms, id \in RoomIds :
             HandleCreateMeeting(c, Account[c], q, r, id)
  BY <1>1 DEF HandleCreateMeeting
<1>2. ASSUME NEW id, HandleJoinMeeting(c, Account[c], id) PROVE Next
  <2>1. JoinMeeting(c, id) /\ id \in RoomIds
    BY <1>2 DEF HandleJoinMeeting, JoinMeeting, JoinResult, UsedIds
  <2>2. QED
    BY <2>1
<1>3. ASSUME \/ RefuseCreateMeeting(c, Account[c])
             \/ \E id : RefuseJoinMeeting(c, Account[c], id)
             \/ \E type : HandleNotice(c, type)
             \/ \E u, v : HandleUserProfile(c, u, v)
             \/ \E f : HandleRoomSettings(c, f)
      PROVE  UNCHANGED vars
  BY <1>3 DEF RefuseCreateMeeting, RefuseJoinMeeting, HandleNotice, HandleUserProfile,
     HandleRoomSettings
<1>4. QED
  BY <1>1, <1>2, <1>3

LEMMA ClosesAreServerSteps ==
  ASSUME (\E c \in Conns : ConnectionCloses(c)) \/ (\E r \in Rooms : ExpiryRuns(r))
  PROVE  Next
BY DEF ConnectionCloses, ExpiryRuns, Next

LEMMA ClientStepsKeepServer ==
  ASSUME NEW c \in Conns,
         \/ AskCreate(c) \/ \E id \in RoomIds : AskJoin(c, id)
         \/ UserActs(c)
         \/ ClientReads(c) /\ ~OnMeetingRefused(c)
  PROVE  UNCHANGED vars
BY DEF AskCreate, AskJoin, Ask, UserActs, ClientReads, OnMeetingResult,
   OnPartnerJoined, OnPartnersSnapshot, OnPartnerExited, OnUserProfile, OnRoomSettings,
   OnNotice, Receives, WriteDone

(* Every step of the view is one of these.                                   *)
LEMMA ViewSteps ==
  ASSUME [ViewNext]_viewVars
  PROVE  \/ UNCHANGED viewVars
         \/ \E c \in Conns, p \in Asks : Ask(c, p)
         \/ \E c \in Conns : \/ \E type \in Notices : SendNotice(c, type)
                             \/ EditProfile(c)
                             \/ \E f \in Flags : EditSettings(c, f)
                             \/ ServerReads(c)
                             \/ ClientReads(c) /\ ~OnMeetingRefused(c)
         \/ (\/ \E c \in Conns : ConnectionCloses(c)
             \/ \E r \in Rooms : ExpiryRuns(r)) /\ ClearMeetings
<1>1. \A c \in Conns : AskCreate(c) => \E p \in Asks : Ask(c, p)
  BY DEF AskCreate, Asks
<1>2. \A c \in Conns, id \in RoomIds : AskJoin(c, id) => \E p \in Asks : Ask(c, p)
  BY DEF AskJoin, Asks
<1>3. QED
  BY <1>1, <1>2 DEF ViewNext, ConnectionLost, OnMeetingRefused, ClientReads

LEMMA ViewNextConsistent == Consistent /\ [ViewNext]_viewVars => Consistent'
<1> SUFFICES ASSUME Consistent, [ViewNext]_viewVars PROVE Consistent'
  OBVIOUS
<1>1. [Next]_vars
  <2>1. UNCHANGED viewVars => UNCHANGED vars
    BY DEF viewVars
  <2>2. \A c \in Conns, p \in Asks : Ask(c, p) => UNCHANGED vars
    BY DEF Ask
  <2>3. \A c \in Conns : \/ \E type \in Notices : SendNotice(c, type)
                         \/ EditProfile(c)
                         \/ \E f \in Flags : EditSettings(c, f)
          => UserActs(c)
    BY DEF SendNotice, EditProfile, EditSettings
  <2>4. QED
    BY <2>1, <2>2, <2>3, ViewSteps, ReadsAreServerSteps, ClosesAreServerSteps,
       ClientStepsKeepServer
<1>2. QED
  BY <1>1, NextConsistent

LEMMA ViewInitConsistent == ViewInit => Consistent
BY NoRoomIsNoObject, RoomIdsArePositive DEF ViewInit, Consistent, TypeOK, TableListsLiveRooms, MembershipAgrees, NoGhosts,
       OwnerIsPresent, LiveRoomsHaveTimers, UsedIds, ConnStates, RoomStates, TimerStates

-----------------------------------------------------------------------------
(* What the server sends is made of frames. *)

LEMMA FrameTypes ==
  /\ \A id \in Int : CreateResponse(id) \in Frames /\ JoinResponse(id) \in Frames
  /\ \A u \in Users : PartnerJoin(u) \in Frames /\ PartnerExit(u) \in Frames
  /\ \A us \in SUBSET Users : PartnerJoin2(us) \in Frames
  /\ \A f \in Flags : RoomSettingsNotify(f) \in Frames
  /\ \A u \in Users, v \in Nat : UserProfile(u, v) \in Frames
  /\ \A u \in Users, type \in Notices : Notice(type, u) \in Frames
BY DEF Frames, Responses, CreateResponse, JoinResponse, PartnerJoin, PartnerExit, PartnerJoin2,
   RoomSettingsNotify, UserProfile, Notice

(* Members are connected, and are members of the room they are in. *)
LEMMA Members ==
  ASSUME Consistent
  PROVE  /\ \A r \in Rooms : members[r] \subseteq Conns
         /\ \A c \in Conns : InRoom(c) => /\ connRoom[c] \in Rooms /\ c \in members[connRoom[c]]
                                          /\ status[connRoom[c]] = "live" /\ conn[c] = "open"
         /\ \A r \in Rooms, c \in Conns : c \in members[r] => InRoom(c) /\ connRoom[c] = r
         /\ \A c \in Conns : \A d : InRoom(c) =>
              (d \in Others(c) <=> d \in Conns /\ connRoom[d] = connRoom[c] /\ d # c)
BY NoRoomIsNoObject DEF Consistent, TypeOK, MembershipAgrees, NoGhosts, InRoom, Others

LEMMA ReplayType ==
  ASSUME Consistent, Basic, NEW r \in Rooms, NEW replay \in ReplayOrders(r)
  PROVE  /\ replay \in Seq(Frames)
         /\ \A i \in DOMAIN replay : \E d \in members[r] : replay[i] = UserProfile(Account[d], profile[d])
<1> DEFINE R == ReplayedProfiles(r)
           K == {m \in members[r] : userId[m] # 0 /\ profile[m] # 0}
<1>1. members[r] \in SUBSET Conns /\ \A d \in members[r] : userId[d] = Account[d]
  BY Members DEF Basic, MemberIsKnown
<1>2. IsFiniteSet(R)
  <2>1. IsFiniteSet(K)
    BY <1>1, FiniteIds, FS_Subset
  <2>2. R = {<<userId[d], profile[d]>> : d \in K}
    BY DEF ReplayedProfiles
  <2>3. [d \in K |-> <<userId[d], profile[d]>>] \in Surjection(K, R)
    BY <2>2 DEF Surjection
  <2>4. QED
    BY <2>1, <2>3, FS_Surjection
<1>3. Cardinality(R) \in Nat
  BY <1>2, FS_CardinalityType
<1>4. PICK f \in [1..Cardinality(R) -> R] :
        replay = [i \in 1..Cardinality(R) |-> UserProfile(f[i][1], f[i][2])]
  BY DEF ReplayOrders
<1>5. \A i \in 1..Cardinality(R) :
        \E d \in members[r] : f[i] = <<userId[d], profile[d]>>
  BY DEF ReplayedProfiles
<1>6. \A i \in 1..Cardinality(R) :
        \E d \in members[r] : replay[i] = UserProfile(Account[d], profile[d])
  BY <1>1, <1>4, <1>5
<1>7. \A d \in members[r] : UserProfile(Account[d], profile[d]) \in Frames
  BY <1>1, FrameTypes, AccountsAreUsers DEF Basic, ViewTypeOK
<1>8. replay \in Seq(Frames)
  BY <1>3, <1>4, <1>6, <1>7
<1>9. QED
  BY <1>4, <1>6, <1>8

-----------------------------------------------------------------------------
(* What a step does, as far as the clients can tell *)

ClientKept(x) ==
  /\ inMeeting'[x] = inMeeting[x] /\ shown'[x] = shown[x] /\ names'[x] = names[x]
  /\ flags'[x] = flags[x] /\ version'[x] = version[x]

(* A frame is put at the end of the queues of X. *)
Queued(X, f) == outbox' = [x \in Conns |-> IF x \in X THEN outbox[x] \o <<f>> ELSE outbox[x]]

RoomsKept == UNCHANGED <<conn, connRoom, members, status, owner>>

Creates(c, r, id) ==
  /\ ~InRoom(c) /\ r \in Rooms /\ id \in RoomIds /\ status[r] = "unused" /\ conn[c] = "open"
  /\ connRoom' = [connRoom EXCEPT ![c] = r] /\ members' = [members EXCEPT ![r] = {c}]
  /\ status' = [status EXCEPT ![r] = "live"] /\ UNCHANGED conn
  /\ Head(uplink[c]) \in Asks
  /\ userId' = [userId EXCEPT ![c] = Account[c]] /\ UNCHANGED <<profile, settings>>
  /\ outbox' = [outbox EXCEPT ![c] = <<CreateResponse(id)>>]

Joins(c, r, id, replay) ==
  /\ ~InRoom(c) /\ r \in Rooms /\ id \in RoomIds /\ replay \in ReplayOrders(r)
  /\ status[r] = "live" /\ c \notin members[r] /\ conn[c] = "open"
  /\ connRoom' = [connRoom EXCEPT ![c] = r] /\ members' = [members EXCEPT ![r] = @ \cup {c}]
  /\ UNCHANGED <<conn, status>>
  /\ Head(uplink[c]) \in Asks
  /\ userId' = [userId EXCEPT ![c] = Account[c]] /\ UNCHANGED <<profile, settings>>
  /\ outbox' = [x \in Conns |->
       IF x = c THEN Welcome(id, {Account[d] : d \in members[r]}, settings[r], replay)
       ELSE IF x \in members[r] THEN outbox[x] \o <<PartnerJoin(Account[c])>> ELSE outbox[x]]

Refuses(c, f) ==
  /\ ~InRoom(c) /\ RoomsKept /\ f \in Frames /\ f.type \in Responses /\ f.value <= 0
  /\ Head(uplink[c]) \in Asks /\ conn[c] = "open"
  /\ UNCHANGED <<userId, profile, settings>> /\ Queued({c}, f)

Notifies(c, type) ==
  /\ InRoom(c) /\ RoomsKept /\ type \in Notices
  /\ Head(uplink[c]) \notin ProfilePackets \cup SettingsPackets
  /\ UNCHANGED <<userId, profile, settings>>
  /\ Queued(Others(c), Notice(type, Account[c]))

Profiles(c, v) ==
  /\ InRoom(c) /\ RoomsKept /\ v \in Nat \ {0}
  /\ Head(uplink[c]) = ProfilePacket(c, v)
  /\ profile' = [profile EXCEPT ![c] = v] /\ UNCHANGED <<userId, settings>>
  /\ Queued(Others(c), UserProfile(Account[c], v))

Switches(c, f) ==
  /\ InRoom(c) /\ RoomsKept /\ f \in Flags
  /\ Head(uplink[c]) \notin ProfilePackets
  /\ settings' = [settings EXCEPT ![connRoom[c]] = f] /\ UNCHANGED <<userId, profile>>
  /\ Queued(members[connRoom[c]], RoomSettingsNotify(f))

LEMMA SendsToSome ==
  ASSUME Consistent, Basic, NEW X \in SUBSET Conns, NEW f, NEW frames,
         \A x \in Conns : conn[x] = "closed" => x \notin X, UNCHANGED conn,
         \A x \in Conns : frames[x] = IF x \in X THEN <<f>> ELSE <<>>,
         Send(frames)
  PROVE  Queued(X, f)
<1>1. \A x \in Conns : conn[x] = "closed" => outbox[x] = <<>>
  BY Members DEF Basic, LobbyIsBlank
<1>2. \A x \in Conns : outbox[x] \o <<>> = outbox[x]
  BY DEF Basic, ViewTypeOK
<1>3. QED
  BY <1>1, <1>2 DEF Send, Queued

LEMMA ReadsEffect ==
  ASSUME Consistent, Basic, NEW c \in Conns, ServerReads(c)
  PROVE  /\ uplink[c] # <<>> /\ uplink' = [uplink EXCEPT ![c] = Tail(@)]
         /\ UNCHANGED <<asked, inMeeting, shown, names, flags, version, acts>>
         /\ \/ \E r \in Rooms, id \in RoomIds : Creates(c, r, id)
            \/ \E r \in Rooms, id \in RoomIds : \E replay \in ReplayOrders(r) : Joins(c, r, id, replay)
            \/ \E f \in Frames : Refuses(c, f)
            \/ \E type \in Notices : Notifies(c, type)
            \/ \E v \in Nat \ {0} : Profiles(c, v)
            \/ \E f \in Flags : Switches(c, f)
<1> DEFINE p == Head(uplink[c])
<1>1. uplink[c] # <<>> /\ uplink' = [uplink EXCEPT ![c] = Tail(@)]
      /\ UNCHANGED <<asked, inMeeting, shown, names, flags, version, acts>>
      /\ conn[c] = "open"
  BY DEF ServerReads
<1>2. p \in Packets
  BY <1>1 DEF Basic, ViewTypeOK
<1>3. /\ p.type = "CreateMeeting" \/ p.type = "JoinMeeting" => p \in Asks
      /\ p.type = "UserProfile" <=> p \in ProfilePackets
      /\ p.type = "RoomSettings" <=> p \in SettingsPackets
  BY <1>2, NoticesAreForwarded DEF Packets, Asks, ProfilePackets, SettingsPackets
<1>4. \A x \in Conns : InRoom(x) => conn[x] = "open"
  BY Members
<1>5. Account[c] \in Users
  BY AccountsAreUsers
<1>6. \A id \in Int : \A x \in Conns :
        Only(c, <<CreateResponse(id)>>)[x] = IF x \in {c} THEN <<CreateResponse(id)>> ELSE <<>>
  BY DEF Only, Nobody
<1>7. \A id \in Int : \A x \in Conns :
        Only(c, <<JoinResponse(id)>>)[x] = IF x \in {c} THEN <<JoinResponse(id)>> ELSE <<>>
  BY DEF Only, Nobody
<1>8. InRoom(c) => /\ connRoom[c] \in Rooms /\ members[connRoom[c]] \subseteq Conns
                   /\ Others(c) \subseteq Conns
                   /\ \A x \in Conns : conn[x] = "closed" => x \notin members[connRoom[c]]
                   /\ \A x \in Conns : conn[x] = "closed" => x \notin Others(c)
  BY <1>4, Members DEF Others
<1>9. UNCHANGED vars => RoomsKept
  BY DEF vars, lookupVars, optionVars, RoomsKept
<1>10. InLiveRoom(c) => InRoom(c)
  BY DEF InLiveRoom, InRoom
<1>11. \A f : InRoom(c) /\ UNCHANGED conn /\ Forward(c, f) => Queued(Others(c), f)
  <2>1. ASSUME NEW f, InRoom(c), UNCHANGED conn, Forward(c, f) PROVE Queued(Others(c), f)
    <3>1. \A x \in Conns : Broadcast(connRoom[c], f, {c})[x] = IF x \in Others(c) THEN <<f>> ELSE <<>>
      BY DEF Broadcast, Others
    <3>2. QED
      BY <1>8, <2>1, <3>1, SendsToSome DEF Forward
  <2>2. QED
    BY <2>1
<1>12. InLobby(c) => ~InRoom(c)
  BY DEF InLobby, InRoom
<1>13. InRoom(c) => userId[c] = Account[c]
  BY DEF Basic, MemberIsKnown
<1>14. ~InRoom(c) => outbox[c] = <<>>
  BY <1>1 DEF Basic, LobbyIsBlank
<1>15. ASSUME NEW q \in Requests, NEW r \in Rooms, NEW id \in RoomIds, p.type = "CreateMeeting",
              HandleCreateMeeting(c, Account[c], q, r, id)
       PROVE  Creates(c, r, id)
  <2>1. CreateMeeting(c, q, r, id) /\ Send(Only(c, <<CreateResponse(id)>>))
        /\ userId' = [userId EXCEPT ![c] = Account[c]] /\ UNCHANGED <<profile, settings>>
    BY <1>15 DEF HandleCreateMeeting
  <2>2. ~InRoom(c) /\ UNCHANGED conn /\ status[r] = "unused"
        /\ connRoom' = [connRoom EXCEPT ![c] = r] /\ members' = [members EXCEPT ![r] = {c}]
        /\ status' = [status EXCEPT ![r] = "live"]
    BY <1>12, <2>1 DEF CreateMeeting
  <2>3. Queued({c}, CreateResponse(id))
    BY <1>1, <1>6, <2>1, <2>2, SendsToSome, RoomIdsArePositive
  <2>4. outbox' = [outbox EXCEPT ![c] = <<CreateResponse(id)>>]
    <3>1. <<>> \o <<CreateResponse(id)>> = <<CreateResponse(id)>>
      OBVIOUS
    <3>2. outbox[c] \o <<CreateResponse(id)>> = <<CreateResponse(id)>>
      BY <1>14, <2>2, <3>1
    <3>3. outbox \in [Conns -> Seq(Frames)]
      BY DEF Basic, ViewTypeOK
    <3>4. QED
      BY <2>3, <3>2, <3>3 DEF Queued
  <2>5. QED
    BY <1>1, <1>3, <1>15, <2>1, <2>2, <2>4 DEF Creates
<1>16. ASSUME p.type = "JoinMeeting", HandleJoinMeeting(c, Account[c], p.id)
       PROVE  \E r \in Rooms, id \in RoomIds : \E replay \in ReplayOrders(r) : Joins(c, r, id, replay)
  <2> DEFINE id == p.id
             r == rooms[id]
  <2>1. JoinMeeting(c, id) /\ userId' = [userId EXCEPT ![c] = Account[c]]
        /\ UNCHANGED <<profile, settings>>
    BY <1>16 DEF HandleJoinMeeting
  <2>2. id \in RoomIds /\ r \in Rooms /\ status[r] = "live" /\ ~InRoom(c)
    BY <1>12, <2>1, NoRoomIsNoObject
    DEF JoinMeeting, JoinResult, UsedIds, Consistent, TypeOK, TableListsLiveRooms
  <2>3. c \notin members[r]
    BY <2>2, Members
  <2>4. /\ connRoom' = [connRoom EXCEPT ![c] = r] /\ members' = [members EXCEPT ![r] = @ \cup {c}]
        /\ UNCHANGED <<conn, status>>
    BY <2>1 DEF JoinMeeting
  <2>5. {userId[d] : d \in members[r]} = {Account[d] : d \in members[r]}
    BY <2>2, Members DEF Basic, MemberIsKnown
  <2>6. PICK replay \in ReplayOrders(r) :
          Send([Broadcast(r, PartnerJoin(Account[c]), {}) EXCEPT
                  ![c] = Welcome(id, {Account[d] : d \in members[r]}, settings[r], replay)])
    BY <1>16, <2>5 DEF HandleJoinMeeting
  <2> DEFINE W == Welcome(id, {Account[d] : d \in members[r]}, settings[r], replay)
             frames == [Broadcast(r, PartnerJoin(Account[c]), {}) EXCEPT ![c] = W]
  <2>7. \A x \in Conns : frames[x] = IF x = c THEN W ELSE IF x \in members[r] THEN <<PartnerJoin(Account[c])>>
                                                     ELSE <<>>
    BY DEF Broadcast
  <2>8. \A x \in Conns : conn[x] = "closed" => outbox[x] = <<>> /\ x \notin members[r] /\ x # c
    BY <1>1, <2>2, Members DEF Basic, LobbyIsBlank
  <2>9. W \in Seq(Frames)
    <3>1. /\ JoinResponse(id) \in Frames /\ RoomSettingsNotify(settings[r]) \in Frames
          /\ PartnerJoin2({Account[d] : d \in members[r]}) \in Frames
      <4>1. id \in Int
        <5>1. \A i \in RoomIds : i \in Int
          BY RoomIdsArePositive
        <5>2. QED
          BY <2>2, <5>1
      <4>2. settings[r] \in Flags
        BY <2>2 DEF Basic, ViewTypeOK
      <4>3. {Account[d] : d \in members[r]} \in SUBSET Users
        BY <2>2, Members, AccountsAreUsers
      <4>4. QED
        BY <4>1, <4>2, <4>3, FrameTypes
    <3>2. replay \in Seq(Frames)
      BY <2>2, ReplayType
    <3>3. QED
      BY <3>1, <3>2 DEF Welcome
  <2>10. \A x \in Conns : outbox[x] \o <<>> = outbox[x]
    BY DEF Basic, ViewTypeOK
  <2>11. outbox[c] \o W = W
    <3> HIDE DEF W
    <3>1. <<>> \o W = W
      BY <2>9
    <3>2. QED
      BY <1>14, <2>2, <3>1
  <2>12. Send(frames)
    BY <2>6
  <2> HIDE DEF W, frames
  <2>13. outbox' = [x \in Conns |->
          IF x = c THEN W ELSE IF x \in members[r] THEN outbox[x] \o <<PartnerJoin(Account[c])>>
          ELSE outbox[x]]
    BY <2>4, <2>7, <2>8, <2>10, <2>11, <2>12 DEF Send
  <2>14. Joins(c, r, id, replay)
    BY <1>1, <1>3, <1>16, <2>1, <2>2, <2>3, <2>4, <2>6, <2>13 DEF Joins, W
  <2>15. QED
    BY <2>2, <2>6, <2>14
<1>17. ASSUME \/ p.type = "CreateMeeting" /\ RefuseCreateMeeting(c, Account[c])
              \/ p.type = "JoinMeeting" /\ RefuseJoinMeeting(c, Account[c], p.id)
       PROVE  \E f \in Frames : Refuses(c, f)
  <2>1. UNCHANGED vars /\ UNCHANGED <<userId, profile, settings>> /\ ~InRoom(c) /\ p \in Asks
    BY <1>3, <1>12, <1>17 DEF RefuseCreateMeeting, RefuseJoinMeeting
  <2>2. UNCHANGED conn
    BY <2>1 DEF vars
  <2>3. PICK id \in {-1, 0} : Queued({c}, CreateResponse(id)) \/ Queued({c}, JoinResponse(id))
    <3>1. \/ \E id \in {-1, 0} : Send(Only(c, <<CreateResponse(id)>>))
          \/ \E id \in {-1, 0} : Send(Only(c, <<JoinResponse(id)>>))
      BY <1>17 DEF RefuseCreateMeeting, RefuseJoinMeeting, NotFound, Full
    <3>2. QED
      BY <1>1, <1>6, <1>7, <2>2, <3>1, SendsToSome
  <2>4. /\ CreateResponse(id) \in Frames /\ JoinResponse(id) \in Frames
        /\ CreateResponse(id).type \in Responses /\ JoinResponse(id).type \in Responses
        /\ CreateResponse(id).value <= 0 /\ JoinResponse(id).value <= 0
    BY FrameTypes DEF CreateResponse, JoinResponse, Responses
  <2>5. QED
    BY <1>1, <1>9, <2>1, <2>3, <2>4 DEF Refuses
<1>18. ASSUME p.type \in Notices, HandleNotice(c, p.type)
       PROVE  Notifies(c, p.type)
  <2>1. InRoom(c) /\ UNCHANGED vars /\ UNCHANGED <<userId, profile, settings>>
    BY <1>10, <1>18 DEF HandleNotice
  <2>2. Queued(Others(c), Notice(p.type, Account[c]))
    BY <1>11, <1>13, <1>18, <2>1 DEF HandleNotice, vars
  <2>3. p \notin ProfilePackets \cup SettingsPackets
    BY <1>3, <1>18, NoticesAreForwarded
  <2>4. QED
    BY <1>9, <1>18, <2>1, <2>2, <2>3 DEF Notifies
<1>19. ASSUME p.type = "UserProfile", HandleUserProfile(c, p.user, p.version)
       PROVE  Profiles(c, p.version) /\ p.version \in Nat \ {0}
  <2>1. /\ InRoom(c) /\ UNCHANGED vars /\ UNCHANGED settings
        /\ userId' = [userId EXCEPT ![c] = p.user]
        /\ profile' = [profile EXCEPT ![c] = p.version]
    BY <1>10, <1>19 DEF HandleUserProfile
  <2>2. p \in ProfilePackets /\ p.version \in Nat \ {0}
    BY <1>3, <1>19 DEF ProfilePackets
  <2>3. p.user = Account[c] /\ p = ProfilePacket(c, p.version)
    <3>1. 1 \in DOMAIN uplink[c] /\ uplink[c][1] = p
      BY <1>1 DEF Basic, ViewTypeOK
    <3>2. p.user = Account[c]
      BY <2>1, <2>2, <3>1 DEF Basic, MemberIsKnown
    <3>3. QED
      BY <2>2, <3>2 DEF ProfilePackets, ProfilePacket
  <2>4. Queued(Others(c), UserProfile(Account[c], p.version))
    BY <1>11, <1>19, <2>1, <2>3 DEF HandleUserProfile, vars
  <2>5. userId' = userId
    BY <1>13, <2>1, <2>3 DEF Basic, ViewTypeOK
  <2>6. QED
    BY <1>9, <2>1, <2>2, <2>3, <2>4, <2>5 DEF Profiles
<1>20. ASSUME p.type = "RoomSettings", HandleRoomSettings(c, p.flags)
       PROVE  Switches(c, p.flags) /\ p.flags \in Flags
  <2>1. /\ InRoom(c) /\ UNCHANGED vars /\ UNCHANGED <<userId, profile>>
        /\ settings' = [settings EXCEPT ![connRoom[c]] = p.flags]
        /\ Send(Broadcast(connRoom[c], RoomSettingsNotify(p.flags), {}))
    BY <1>10, <1>20 DEF HandleRoomSettings
  <2>2. p.flags \in Flags /\ p \notin ProfilePackets
    BY <1>3, <1>20 DEF SettingsPackets
  <2>3. Queued(members[connRoom[c]], RoomSettingsNotify(p.flags))
    <3>1. \A x \in Conns : Broadcast(connRoom[c], RoomSettingsNotify(p.flags), {})[x]
             = IF x \in members[connRoom[c]] THEN <<RoomSettingsNotify(p.flags)>> ELSE <<>>
      BY DEF Broadcast
    <3>2. UNCHANGED conn
      BY <2>1 DEF vars
    <3>3. QED
      BY <1>8, <2>1, <3>1, <3>2, SendsToSome
  <2>4. QED
    BY <1>9, <2>1, <2>2, <2>3 DEF Switches
<1>21. QED
  BY <1>1, <1>15, <1>16, <1>17, <1>18, <1>19, <1>20 DEF ServerReads

(* A close or an expiry: who is closed is blank again, and the others in a   *)
(* room keep everything, but may be sent the exit of one who has left.       *)
Remains(x) ==
  /\ InRoom(x) /\ connRoom'[x] = connRoom[x]
  /\ ClientKept(x) /\ uplink'[x] = uplink[x] /\ asked'[x] = asked[x]
  /\ userId'[x] = userId[x] /\ profile'[x] = profile[x]
  /\ settings'[connRoom[x]] = settings[connRoom[x]]
  /\ \/ outbox'[x] = outbox[x] /\ members'[connRoom[x]] = members[connRoom[x]]
     \/ \E c \in Others(x) : /\ members'[connRoom[x]] = members[connRoom[x]] \ {c}
                             /\ outbox'[x] = outbox[x] \o <<PartnerExit(Account[c])>>

LEMMA CloseRoomOpens ==
  ASSUME Consistent, NEW r \in Rooms, NEW also \in SUBSET members[r], CloseRoom(r, also)
  PROVE  /\ status[r] = "live" =>
              \A x \in Conns : /\ conn'[x] = IF x \in members[r] THEN "closed" ELSE conn[x]
                               /\ connRoom'[x] = IF x \in members[r] THEN NoRoom ELSE connRoom[x]
         /\ status' = [status EXCEPT ![r] = "closed"] /\ members' = [members EXCEPT ![r] = {}]
BY CloseRoomEffect DEF CloseRoom

LEMMA ClosesServer ==
  ASSUME Consistent, (\E c \in Conns : ConnectionCloses(c)) \/ (\E r \in Rooms : ExpiryRuns(r))
  PROVE  /\ \A x \in Conns : /\ connRoom'[x] \in {NoRoom, connRoom[x]}
                             /\ conn'[x] \in {"closed", conn[x]}
                             /\ ~InRoom(x)' => ~InRoom(x) \/ conn'[x] = "closed"
         /\ \A r \in Rooms : status'[r] \in {"closed", status[r]}
         /\ \/ Send(Nobody) /\ \A x \in Conns : InRoom(x)' => members'[connRoom[x]] = members[connRoom[x]]
            \/ \E c \in Conns : /\ InRoom(c) /\ members' = [members EXCEPT ![connRoom[c]] = @ \ {c}]
                                /\ ~InRoom(c)' /\ status' = status
                                /\ Send(Broadcast(connRoom[c], PartnerExit(userId[c]), {c}))
<1> USE DEF Consistent, TypeOK
<1>1. Next
  BY ClosesAreServerSteps
<1>2. ASSUME NEW x \in Conns, ~InRoom(x)' PROVE ~InRoom(x) \/ conn'[x] = "closed"
  BY <1>1, <1>2, OneMeetingStep DEF InRoom
<1>3. ASSUME NEW r \in Rooms, NEW also \in SUBSET members[r], CloseRoom(r, also), status[r] = "live"
      PROVE  /\ \A x \in Conns : connRoom'[x] \in {NoRoom, connRoom[x]} /\ conn'[x] \in {"closed", conn[x]}
             /\ \A s \in Rooms : status'[s] \in {"closed", status[s]}
             /\ \A x \in Conns : InRoom(x)' => members'[connRoom[x]] = members[connRoom[x]]
  <2>1. /\ \A x \in Conns : /\ conn'[x] = IF x \in members[r] THEN "closed" ELSE conn[x]
                            /\ connRoom'[x] = IF x \in members[r] THEN NoRoom ELSE connRoom[x]
        /\ status' = [status EXCEPT ![r] = "closed"] /\ members' = [members EXCEPT ![r] = {}]
    BY <1>3, CloseRoomOpens
  <2>2. \A x \in Conns : InRoom(x)' => connRoom[x] # r
    BY <2>1 DEF InRoom, MembershipAgrees
  <2>3. QED
    BY <2>1, <2>2 DEF InRoom
<1>4. ASSUME NEW c \in Conns, CloseInLobby(c), Send(Nobody)
      PROVE  /\ \A x \in Conns : connRoom'[x] \in {NoRoom, connRoom[x]} /\ conn'[x] \in {"closed", conn[x]}
             /\ members' = members /\ status' = status
  BY <1>4 DEF CloseInLobby, lookupVars
<1>5. ASSUME NEW c \in Conns, MemberLeaves(c)
      PROVE  /\ \A x \in Conns : connRoom'[x] \in {NoRoom, connRoom[x]} /\ conn'[x] \in {"closed", conn[x]}
             /\ InRoom(c) /\ ~InRoom(c)' /\ members' = [members EXCEPT ![connRoom[c]] = @ \ {c}]
             /\ status' = status
  <2>1. InRoom(c) /\ status[connRoom[c]] = "live"
    BY <1>5, Members DEF MemberLeaves, InRoom
  <2>2. QED
    BY <1>5, <2>1 DEF MemberLeaves, InRoom
<1>6. ASSUME NEW r \in Rooms, TimerExpires(r) \/ ExpireClosedRoom(r)
      PROVE  conn' = conn /\ connRoom' = connRoom /\ members' = members /\ status' = status
  BY <1>6 DEF TimerExpires, ExpireClosedRoom, lookupVars
<1>7. ASSUME NEW c \in Conns, OwnerLeaves(c)
      PROVE  \E r \in Rooms : \E also \in SUBSET members[r] : CloseRoom(r, also) /\ status[r] = "live"
  BY <1>7 DEF OwnerLeaves, OwnerCloses
<1>8. ASSUME NEW r \in Rooms, ExpireRoom(r)
      PROVE  CloseRoom(r, {}) /\ status[r] = "live"
  BY <1>8 DEF ExpireRoom, RoomStates
<1>9. CASE \E c \in Conns : ConnectionCloses(c)
  <2>1. PICK c \in Conns : \/ CloseInLobby(c) /\ Send(Nobody)
                           \/ OwnerLeaves(c) /\ Send(Nobody)
                           \/ /\ MemberLeaves(c)
                              /\ Send(Broadcast(connRoom[c], PartnerExit(userId[c]), {c}))
    BY <1>9 DEF ConnectionCloses
  <2>2. CASE CloseInLobby(c) /\ Send(Nobody)
    BY <1>2, <1>4, <2>2
  <2>3. CASE OwnerLeaves(c) /\ Send(Nobody)
    BY <1>2, <1>3, <1>7, <2>3
  <2>4. CASE MemberLeaves(c) /\ Send(Broadcast(connRoom[c], PartnerExit(userId[c]), {c}))
    BY <1>2, <1>5, <2>4
  <2>5. QED
    BY <2>1, <2>2, <2>3, <2>4
<1>10. CASE \E r \in Rooms : ExpiryRuns(r)
  <2>1. PICK r \in Rooms : (TimerExpires(r) \/ ExpireRoom(r) \/ ExpireClosedRoom(r)) /\ Send(Nobody)
    BY <1>10 DEF ExpiryRuns
  <2>2. CASE TimerExpires(r) \/ ExpireClosedRoom(r)
    BY <1>2, <1>6, <2>1, <2>2
  <2>3. CASE ExpireRoom(r)
    BY <1>2, <1>3, <1>8, <2>1, <2>3
  <2>4. QED
    BY <2>1, <2>2, <2>3
<1>11. QED
  BY <1>9, <1>10

LEMMA ClosesEffect ==
  ASSUME Consistent, Consistent', Basic, ClearMeetings,
         (\E c \in Conns : ConnectionCloses(c)) \/ (\E r \in Rooms : ExpiryRuns(r))
  PROVE  /\ ViewTypeOK'
         /\ \A x \in Conns : (InRoom(x)' => Remains(x)) /\ (~InRoom(x)' => LobbyIsBlank(x)')
         /\ \A r \in Rooms : status'[r] # "live" => settings'[r] = DefaultFlags
<1> USE DEF Basic
<1>1. Forget
  BY DEF ConnectionCloses, ExpiryRuns
<1>2. /\ \A x \in Conns : /\ connRoom'[x] \in {NoRoom, connRoom[x]}
                          /\ conn'[x] \in {"closed", conn[x]}
                          /\ ~InRoom(x)' => ~InRoom(x) \/ conn'[x] = "closed"
      /\ \A r \in Rooms : status'[r] \in {"closed", status[r]}
  BY ClosesServer
<1>3. PICK frames :
        /\ Send(frames) /\ frames \in [Conns -> Seq(Frames)]
        /\ \A x \in Conns : ~InRoom(x) => frames[x] = <<>>
        /\ \A x \in Conns : InRoom(x)' =>
             \/ frames[x] = <<>> /\ members'[connRoom[x]] = members[connRoom[x]]
             \/ \E c \in Others(x) : /\ members'[connRoom[x]] = members[connRoom[x]] \ {c}
                                     /\ frames[x] = <<PartnerExit(Account[c])>>
  <2>1. CASE Send(Nobody) /\ \A x \in Conns : InRoom(x)' => members'[connRoom[x]] = members[connRoom[x]]
    <3>1. Nobody \in [Conns -> Seq(Frames)] /\ \A x \in Conns : Nobody[x] = <<>>
      BY DEF Nobody
    <3>2. QED
      BY <2>1, <3>1
  <2>2. ASSUME NEW c \in Conns, InRoom(c), members' = [members EXCEPT ![connRoom[c]] = @ \ {c}],
               ~InRoom(c)', Send(Broadcast(connRoom[c], PartnerExit(userId[c]), {c}))
        PROVE  \E frames :
                 /\ Send(frames) /\ frames \in [Conns -> Seq(Frames)]
                 /\ \A x \in Conns : ~InRoom(x) => frames[x] = <<>>
                 /\ \A x \in Conns : InRoom(x)' =>
                      \/ frames[x] = <<>> /\ members'[connRoom[x]] = members[connRoom[x]]
                      \/ \E d \in Others(x) : /\ members'[connRoom[x]] = members[connRoom[x]] \ {d}
                                              /\ frames[x] = <<PartnerExit(Account[d])>>
    <3> DEFINE e == PartnerExit(Account[c])
               F == Broadcast(connRoom[c], PartnerExit(userId[c]), {c})
    <3>1. userId[c] = Account[c] /\ e \in Frames /\ connRoom[c] \in Rooms
      BY <2>2, FrameTypes, Members, AccountsAreUsers DEF MemberIsKnown
    <3>2. \A x \in Conns : F[x] = IF x \in Others(c) THEN <<e>> ELSE <<>>
      BY <3>1 DEF Broadcast, Others
    <3>3. F \in [Conns -> Seq(Frames)]
      BY <3>1, <3>2 DEF Broadcast
    <3>4. ASSUME NEW x \in Conns, InRoom(x)'
          PROVE  \/ F[x] = <<>> /\ members'[connRoom[x]] = members[connRoom[x]]
                 \/ \E d \in Others(x) : /\ members'[connRoom[x]] = members[connRoom[x]] \ {d}
                                         /\ F[x] = <<PartnerExit(Account[d])>>
      <4>1. InRoom(x) /\ x # c /\ connRoom'[x] = connRoom[x]
        BY <1>2, <2>2, <3>4 DEF InRoom
      <4>2. CASE connRoom[x] = connRoom[c]
        <5>1. x \in Others(c) /\ c \in Others(x)
          BY <2>2, <4>1, <4>2, Members
        <5>2. members'[connRoom[x]] = members[connRoom[x]] \ {c}
          BY <2>2, <3>1, <4>2 DEF Consistent, TypeOK
        <5>3. QED
          BY <3>2, <5>1, <5>2
      <4>3. CASE connRoom[x] # connRoom[c]
        <5>1. x \notin Others(c)
          BY <2>2, <4>1, <4>3, Members
        <5>2. members'[connRoom[x]] = members[connRoom[x]]
          BY <2>2, <4>3 DEF Consistent, TypeOK
        <5>3. QED
          BY <3>2, <5>1, <5>2
      <4>4. QED
        BY <4>2, <4>3
    <3>5. \A x \in Conns : ~InRoom(x) => F[x] = <<>>
      BY <2>2, <3>2, Members DEF InRoom
    <3>6. Send(F)
      BY <2>2
    <3> HIDE DEF F
    <3> WITNESS F
    <3>7. QED
      BY <3>3, <3>4, <3>5, <3>6
  <2>3. QED
    BY <2>1, <2>2, ClosesServer
<1>4. \A x \in Conns : /\ outbox[x] \in Seq(Frames)
                       /\ outbox'[x] = IF conn'[x] = "closed" THEN <<>> ELSE outbox[x] \o frames[x]
                       /\ outbox[x] \o <<>> = outbox[x]
  BY <1>3 DEF Send, ViewTypeOK
<1>5. ASSUME NEW x \in Conns, InRoom(x)' PROVE Remains(x)
  <2>1. conn'[x] # "closed" /\ connRoom'[x] = connRoom[x] /\ InRoom(x)
        /\ connRoom[x] \in Rooms /\ status'[connRoom[x]] = "live"
    BY <1>2, <1>5, Members DEF InRoom, Consistent, TypeOK, NoGhosts, MembershipAgrees
  <2>2. ClientKept(x) /\ uplink'[x] = uplink[x] /\ asked'[x] = asked[x]
    BY <2>1 DEF ClearMeetings, ClientKept
  <2>3. userId'[x] = userId[x] /\ profile'[x] = profile[x]
        /\ settings'[connRoom[x]] = settings[connRoom[x]]
    BY <1>1, <2>1 DEF Forget, InRoom
  <2>4. \/ outbox'[x] = outbox[x] /\ members'[connRoom[x]] = members[connRoom[x]]
        \/ \E c \in Others(x) : /\ members'[connRoom[x]] = members[connRoom[x]] \ {c}
                                /\ outbox'[x] = outbox[x] \o <<PartnerExit(Account[c])>>
    BY <1>3, <1>4, <1>5, <2>1
  <2>5. QED
    BY <2>1, <2>2, <2>3, <2>4 DEF Remains
<1>6. ASSUME NEW x \in Conns, ~InRoom(x)' PROVE LobbyIsBlank(x)'
  <2>1. profile'[x] = 0
    BY <1>1, <1>6 DEF Forget, InRoom
  <2>2. CASE conn'[x] = "closed"
    BY <1>4, <2>1, <2>2 DEF ClearMeetings, LobbyIsBlank
  <2>3. CASE conn'[x] # "closed"
    <3>1. ~InRoom(x) /\ conn'[x] = conn[x] /\ outbox'[x] = outbox[x]
      BY <1>2, <1>3, <1>4, <1>6, <2>3
    <3>2. /\ uplink'[x] = uplink[x] /\ inMeeting'[x] = inMeeting[x] /\ shown'[x] = shown[x]
          /\ flags'[x] = flags[x] /\ asked'[x] = asked[x]
      BY <2>3 DEF ClearMeetings
    <3>3. QED
      BY <2>1, <3>1, <3>2 DEF LobbyIsBlank
  <2>4. QED
    BY <2>2, <2>3
<1>7. ViewTypeOK'
  <2>1. outbox' \in [Conns -> Seq(Frames)]
    <3>1. \A x \in Conns : outbox[x] \o frames[x] \in Seq(Frames) /\ <<>> \in Seq(Frames)
      BY <1>3, <1>4
    <3>2. QED
      BY <1>3, <3>1 DEF Send
  <2>2. /\ userId' \in [Conns -> Users \cup {0}] /\ profile' \in [Conns -> Nat]
        /\ settings' \in [Rooms -> Flags]
    BY <1>1, DefaultIsFlags DEF ViewTypeOK, Forget
  <2>3. /\ uplink' \in [Conns -> Seq(Packets)]
        /\ asked' \in [Conns -> BOOLEAN] /\ inMeeting' \in [Conns -> BOOLEAN]
    <3>1. <<>> \in Seq(Packets) /\ FALSE \in BOOLEAN
      OBVIOUS
    <3>2. uplink' \in [Conns -> Seq(Packets)]
      BY <3>1 DEF ViewTypeOK, ClearMeetings
    <3>3. asked' \in [Conns -> BOOLEAN]
      BY <3>1, Zenon DEF ViewTypeOK, ClearMeetings
    <3>4. inMeeting' \in [Conns -> BOOLEAN]
      BY <3>1, Zenon DEF ViewTypeOK, ClearMeetings
    <3>5. QED
      BY <3>2, <3>3, <3>4
  <2>4. /\ shown' \in [Conns -> SUBSET Users] /\ names' \in [Conns -> [Users -> Nat]]
        /\ flags' \in [Conns -> Flags] /\ version' \in [Conns -> Nat \ {0}] /\ acts' \in Nat
    BY DefaultIsFlags DEF ViewTypeOK, ClearMeetings
  <2>5. QED
    BY <2>1, <2>2, <2>3, <2>4 DEF ViewTypeOK
<1>8. ASSUME NEW r \in Rooms, status'[r] # "live" PROVE settings'[r] = DefaultFlags
  BY <1>1, <1>8 DEF Forget
<1>9. QED
  BY <1>5, <1>6, <1>7, <1>8

LEMMA FrameKinds ==
  ASSUME NEW f \in Frames
  PROVE  /\ f.type \in {"PartnerJoin", "PartnerExit", "UserProfile"} \cup Notices => f.user \in Users
         /\ f.type = "PartnerJoin2" => f.users \in SUBSET Users
         /\ f.type = "RoomSettingsNotify" <=> f \in SettingsFrames
         /\ f.type = "UserProfile" => f.version \in Nat /\ f = UserProfile(f.user, f.version)
         /\ f.type = "PartnerJoin" => f = PartnerJoin(f.user)
         /\ f \in SettingsFrames => f = RoomSettingsNotify(f.flags) /\ f.flags \in Flags
         /\ \A u \in Users : /\ f \in FramesAbout(u) <=> /\ f.type \in {"UserProfile", "PartnerExit"}
                                                         /\ f.user = u
                             /\ f.type = "UserProfile" \/ f.type = "PartnerExit"
                                  => (f \in FramesAbout(u) <=> f.user = u)
<1>1. /\ f.type = "PartnerJoin" => f \in [type : {"PartnerJoin", "PartnerExit"}, user : Users]
      /\ f.type = "PartnerExit" => f \in [type : {"PartnerJoin", "PartnerExit"}, user : Users]
      /\ f.type = "UserProfile" => f \in [type : {"UserProfile"}, user : Users, version : Nat]
      /\ f.type \in Notices => f \in [type : Notices, user : Users]
      /\ f.type = "PartnerJoin2" => f \in [type : {"PartnerJoin2"}, users : SUBSET Users]
      /\ f.type = "RoomSettingsNotify" => f \in SettingsFrames
  BY NoticesAreForwarded DEF Frames, Responses, SettingsFrames
<1>2. f \in SettingsFrames => f.type = "RoomSettingsNotify" /\ f = RoomSettingsNotify(f.flags) /\ f.flags \in Flags
  BY DEF SettingsFrames, RoomSettingsNotify
<1>3. f.type = "UserProfile" => f.version \in Nat /\ f = UserProfile(f.user, f.version)
  BY <1>1 DEF UserProfile
<1>4. f.type = "PartnerJoin" => f = PartnerJoin(f.user)
  BY <1>1 DEF PartnerJoin
<1>5. ASSUME NEW u \in Users
      PROVE  f \in FramesAbout(u) <=> f.type \in {"UserProfile", "PartnerExit"} /\ f.user = u
  BY <1>1 DEF FramesAbout
<1>6. QED
  BY <1>1, <1>2, <1>3, <1>4, <1>5

(* A client reads a frame: it does what the frame tells it, and may send its *)
(* profile.                                                                  *)
ReadsFrame(c) ==
  /\ InRoom(c) /\ outbox[c] # <<>> /\ outbox' = [outbox EXCEPT ![c] = Tail(@)]
  /\ UNCHANGED <<vars, userId, profile, settings, asked, version>>
  /\ \A x \in Conns \ {c} : ClientKept(x) /\ uplink'[x] = uplink[x]
  /\ \A u \in Users \ {Account[c]} :
       /\ u \in shown'[c] <=> Adds(Frame(c), u) \/ (u \in shown[c] /\ ~Removes(Frame(c), u))
       /\ names'[c][u] = IF Frame(c) \notin FramesAbout(u) THEN names[c][u]
                         ELSE IF Frame(c).type = "UserProfile" THEN Frame(c).version ELSE 0
  /\ flags'[c] = IF Frame(c) \in SettingsFrames THEN Frame(c).flags ELSE flags[c]
  /\ \/ /\ uplink'[c] = uplink[c] /\ inMeeting'[c] = inMeeting[c]
        /\ inMeeting[c] => Frame(c).type # "PartnerJoin"
     \/ uplink'[c] = uplink[c] \o <<ProfilePacket(c, version[c])>>

LEMMA ProfilePacketType ==
  ASSUME NEW c \in Conns, NEW v \in Nat \ {0}
  PROVE  /\ ProfilePacket(c, v) \in ProfilePackets /\ ProfilePacket(c, v) \in Packets
         /\ ProfilePacket(c, v) \notin Asks /\ ProfilePacket(c, v) \notin SettingsPackets
         /\ ProfilePacket(c, v).user = Account[c]
BY AccountsAreUsers DEF ProfilePacket, ProfilePackets, Packets, Asks, SettingsPackets

LEMMA ClientReadsEffect ==
  ASSUME Consistent, Basic, NEW c \in Conns, ClientReads(c), ~OnMeetingRefused(c)
  PROVE  ReadsFrame(c) /\ ViewTypeOK'
<1> DEFINE f == Head(outbox[c])
           resend == ProfilePacket(c, version[c])
<1> USE DEF Basic
<1>1. /\ outbox[c] # <<>> /\ outbox' = [outbox EXCEPT ![c] = Tail(@)]
      /\ UNCHANGED <<vars, userId, profile, settings, asked, version, acts>>
      /\ f.type \in Responses => f.value > 0
  <2>1. OnMeetingResult(c) => f.value > 0
    BY DEF OnMeetingResult, Frame
  <2>2. PICK type : Receives(c, type) /\ (OnMeetingResult(c) \/ type \notin Responses)
    BY NoticesAreForwarded
    DEF ClientReads, OnMeetingResult, OnPartnerJoined, OnPartnersSnapshot, OnPartnerExited,
        OnUserProfile, OnRoomSettings, OnNotice, Responses
  <2>3. QED
    BY <2>1, <2>2 DEF Receives, WriteDone
<1>2. f \in Frames /\ outbox[c] \in Seq(Frames) /\ Tail(outbox[c]) \in Seq(Frames)
      /\ 1 \in DOMAIN outbox[c] /\ f = outbox[c][1] /\ Frame(c) = f
  BY <1>1 DEF ViewTypeOK, Frame
<1>3. InRoom(c)
  <2>1. SUFFICES ASSUME ~InRoom(c) PROVE FALSE
    OBVIOUS
  <2>2. f.type \in Responses /\ f.value <= 0
    BY <1>2, <2>1 DEF LobbyIsBlank
  <2>3. f \in [type : Responses, value : Int]
    BY <1>2, <2>2, NoticesAreForwarded DEF Frames, Responses
  <2>4. QED
    BY <1>1, <2>2, <2>3
<1>4. outbox' \in [Conns -> Seq(Frames)]
  BY <1>1, <1>2 DEF ViewTypeOK
<1>5. /\ Account[c] \in Users /\ version[c] \in Nat \ {0} /\ uplink[c] \in Seq(Packets)
      /\ shown[c] \in SUBSET Users /\ names[c] \in [Users -> Nat]
      /\ version[c] \in Nat
  BY AccountsAreUsers DEF ViewTypeOK
<1>6. resend \in Packets /\ Append(uplink[c], resend) = uplink[c] \o <<resend>>
      /\ uplink[c] \o <<resend>> \in Seq(Packets)
  <2>1. resend \in Packets
    BY <1>5, ProfilePacketType
  <2>2. QED
    BY <1>5, <2>1
<1>7. Upload(c, resend) => uplink' = [uplink EXCEPT ![c] = uplink[c] \o <<resend>>]
  BY <1>6 DEF Upload
<1>8. userId' \in [Conns -> Users \cup {0}] /\ profile' \in [Conns -> Nat]
      /\ settings' \in [Rooms -> Flags] /\ asked' \in [Conns -> BOOLEAN]
      /\ version' \in [Conns -> Nat \ {0}] /\ acts' \in Nat
  BY <1>1 DEF ViewTypeOK
<1> HIDE DEF resend
<1>9. uplink' = uplink \/ uplink' = [uplink EXCEPT ![c] = uplink[c] \o <<resend>>]
      => uplink' \in [Conns -> Seq(Packets)] /\ \A x \in Conns \ {c} : uplink'[x] = uplink[x]
  <2>1. uplink \in [Conns -> Seq(Packets)]
    BY DEF ViewTypeOK
  <2> DEFINE s == uplink[c] \o <<resend>>
  <2>2. s \in Seq(Packets)
    BY <1>6
  <2> HIDE DEF s
  <2>3. uplink' = [uplink EXCEPT ![c] = s] => uplink' \in [Conns -> Seq(Packets)]
    BY <2>1, <2>2
  <2>4. uplink' = [uplink EXCEPT ![c] = s] => \A x \in Conns \ {c} : uplink'[x] = uplink[x]
    BY <2>1
  <2>5. QED
    BY <2>1, <2>3, <2>4 DEF s
<1>10. CASE OnMeetingResult(c)
  <2>1. /\ f.type \in Responses /\ inMeeting' = [inMeeting EXCEPT ![c] = TRUE]
        /\ shown' = [shown EXCEPT ![c] = @ \cup {Account[c]}]
        /\ names' = [names EXCEPT ![c][Account[c]] = version[c]]
        /\ flags' = flags /\ ResendProfile(c)
    BY <1>10 DEF OnMeetingResult, Receives, Frame, Responses, Show
  <2>2. inMeeting'[c] = TRUE
    BY <2>1 DEF ViewTypeOK
  <2>3. uplink' = [uplink EXCEPT ![c] = uplink[c] \o <<resend>>]
    BY <1>7, <2>1, <2>2 DEF ResendProfile, resend
  <2>4. \A u \in Users : ~Adds(f, u) /\ ~Removes(f, u) /\ f \notin FramesAbout(u)
    BY <2>1 DEF Adds, Removes, FramesAbout, Responses
  <2>5. f \notin SettingsFrames
    BY <2>1 DEF SettingsFrames, Responses
  <2>6. ViewTypeOK'
    <3>1. shown' \in [Conns -> SUBSET Users] /\ names' \in [Conns -> [Users -> Nat]]
          /\ inMeeting' \in [Conns -> BOOLEAN] /\ flags' \in [Conns -> Flags]
      BY <1>5, <2>1 DEF ViewTypeOK
    <3>2. QED
      BY <1>4, <1>8, <1>9, <2>3, <3>1 DEF ViewTypeOK
  <2>7. \A u \in Users \ {Account[c]} :
          /\ u \in shown'[c] <=> u \in shown[c]
          /\ names'[c][u] = names[c][u]
    BY <1>5, <2>1 DEF ViewTypeOK
  <2>8. flags'[c] = flags[c] /\ uplink'[c] = uplink[c] \o <<resend>>
    BY <2>1, <2>3 DEF ViewTypeOK
  <2>9. \A x \in Conns \ {c} : ClientKept(x) /\ uplink'[x] = uplink[x]
    BY <1>1, <2>1, <2>3 DEF ClientKept
  <2>10. QED
    BY <1>1, <1>2, <1>3, <2>4, <2>5, <2>6, <2>7, <2>8, <2>9 DEF ReadsFrame, resend
<1>11. CASE OnPartnerJoined(c)
  <2>1. /\ f.type = "PartnerJoin" /\ shown' = [shown EXCEPT ![c] = @ \cup {f.user}]
        /\ UNCHANGED <<inMeeting, names, flags>> /\ ResendProfile(c)
    BY <1>11 DEF OnPartnerJoined, Receives, Frame, Show
  <2>2. \/ uplink' = [uplink EXCEPT ![c] = uplink[c] \o <<resend>>]
        \/ ~inMeeting[c] /\ uplink' = uplink
    BY <1>7, <2>1 DEF ResendProfile, resend
  <2>3. \A u \in Users : /\ Adds(f, u) <=> u = f.user
                         /\ ~Removes(f, u) /\ f \notin FramesAbout(u)
    BY <2>1 DEF Adds, Removes, FramesAbout
  <2>4. f \notin SettingsFrames
    BY <2>1 DEF SettingsFrames
  <2>5. ViewTypeOK'
    <3>1. shown' \in [Conns -> SUBSET Users] /\ names' \in [Conns -> [Users -> Nat]]
          /\ inMeeting' \in [Conns -> BOOLEAN] /\ flags' \in [Conns -> Flags]
      BY <1>2, <2>1, FrameKinds DEF ViewTypeOK
    <3>2. QED
      BY <1>4, <1>8, <1>9, <2>2, <3>1 DEF ViewTypeOK
  <2>6. \A u \in Users : u \in shown'[c] <=> u = f.user \/ u \in shown[c]
    BY <2>1 DEF ViewTypeOK
  <2>7. names'[c] = names[c] /\ flags'[c] = flags[c] /\ inMeeting'[c] = inMeeting[c]
        /\ \A x \in Conns \ {c} : ClientKept(x) /\ uplink'[x] = uplink[x]
    BY <1>1, <1>9, <2>1, <2>2 DEF ClientKept
  <2>8. uplink'[c] = uplink[c] \o <<resend>> \/ (~inMeeting[c] /\ uplink'[c] = uplink[c])
    BY <2>2 DEF ViewTypeOK
  <2>9. QED
    BY <1>1, <1>2, <1>3, <2>3, <2>4, <2>5, <2>6, <2>7, <2>8 DEF ReadsFrame, resend
<1>12. CASE OnPartnersSnapshot(c)
  <2>1. /\ f.type = "PartnerJoin2" /\ shown' = [shown EXCEPT ![c] = @ \cup f.users]
        /\ UNCHANGED <<uplink, inMeeting, names, flags>>
    BY <1>12 DEF OnPartnersSnapshot, Receives, Frame, Show
  <2>2. \A u \in Users : /\ Adds(f, u) <=> u \in f.users
                         /\ ~Removes(f, u) /\ f \notin FramesAbout(u)
    BY <2>1 DEF Adds, Removes, FramesAbout
  <2>3. f \notin SettingsFrames
    BY <2>1 DEF SettingsFrames
  <2>4. ViewTypeOK'
    <3>1. shown' \in [Conns -> SUBSET Users] /\ names' \in [Conns -> [Users -> Nat]]
          /\ inMeeting' \in [Conns -> BOOLEAN] /\ flags' \in [Conns -> Flags]
      BY <1>2, <2>1, FrameKinds DEF ViewTypeOK
    <3>2. QED
      BY <1>4, <1>8, <1>9, <2>1, <3>1 DEF ViewTypeOK
  <2>5. \A u \in Users : u \in shown'[c] <=> u \in f.users \/ u \in shown[c]
    BY <2>1 DEF ViewTypeOK
  <2>6. names'[c] = names[c] /\ flags'[c] = flags[c] /\ inMeeting'[c] = inMeeting[c]
        /\ \A x \in Conns \ {c} : ClientKept(x) /\ uplink'[x] = uplink[x]
    BY <1>1, <2>1 DEF ClientKept
  <2>7. QED
    BY <1>1, <1>2, <1>3, <2>1, <2>2, <2>3, <2>4, <2>5, <2>6 DEF ReadsFrame
<1>13. CASE OnPartnerExited(c)
  <2>1. /\ f.type = "PartnerExit" /\ shown' = [shown EXCEPT ![c] = @ \ {f.user}]
        /\ names' = [names EXCEPT ![c][f.user] = 0]
        /\ UNCHANGED <<uplink, inMeeting, flags>>
    BY <1>13 DEF OnPartnerExited, Receives, Frame
  <2>2. f.user \in Users /\ \A u \in Users : /\ Removes(f, u) <=> u = f.user
                                             /\ ~Adds(f, u) /\ (f \in FramesAbout(u) <=> u = f.user)
    BY <1>2, <2>1, FrameKinds DEF Adds, Removes
  <2>3. f \notin SettingsFrames
    BY <2>1 DEF SettingsFrames
  <2>4. ViewTypeOK'
    <3>1. shown' \in [Conns -> SUBSET Users] /\ names' \in [Conns -> [Users -> Nat]]
          /\ inMeeting' \in [Conns -> BOOLEAN] /\ flags' \in [Conns -> Flags]
      BY <1>5, <2>1, <2>2 DEF ViewTypeOK
    <3>2. QED
      BY <1>4, <1>8, <1>9, <2>1, <3>1 DEF ViewTypeOK
  <2>5. \A u \in Users : /\ u \in shown'[c] <=> u # f.user /\ u \in shown[c]
                         /\ names'[c][u] = IF u = f.user THEN 0 ELSE names[c][u]
    BY <1>5, <2>1, <2>2 DEF ViewTypeOK
  <2>6. flags'[c] = flags[c] /\ inMeeting'[c] = inMeeting[c]
        /\ \A x \in Conns \ {c} : ClientKept(x) /\ uplink'[x] = uplink[x]
    BY <1>1, <2>1 DEF ClientKept
  <2>7. QED
    BY <1>1, <1>2, <1>3, <2>1, <2>2, <2>3, <2>4, <2>5, <2>6 DEF ReadsFrame
<1>14. CASE OnUserProfile(c)
  <2>1. /\ f.type = "UserProfile" /\ shown' = [shown EXCEPT ![c] = @ \cup {f.user}]
        /\ names' = [names EXCEPT ![c][f.user] = f.version]
        /\ UNCHANGED <<uplink, inMeeting, flags>>
    BY <1>14 DEF OnUserProfile, Receives, Frame, Show
  <2>2. f.user \in Users /\ f.version \in Nat
        /\ \A u \in Users : /\ Adds(f, u) <=> u = f.user
                            /\ ~Removes(f, u) /\ (f \in FramesAbout(u) <=> u = f.user)
    BY <1>2, <2>1, FrameKinds DEF Adds, Removes
  <2>3. f \notin SettingsFrames
    BY <2>1 DEF SettingsFrames
  <2>4. ViewTypeOK'
    <3>1. shown' \in [Conns -> SUBSET Users] /\ names' \in [Conns -> [Users -> Nat]]
          /\ inMeeting' \in [Conns -> BOOLEAN] /\ flags' \in [Conns -> Flags]
      BY <1>5, <2>1, <2>2 DEF ViewTypeOK
    <3>2. QED
      BY <1>4, <1>8, <1>9, <2>1, <3>1 DEF ViewTypeOK
  <2>5. \A u \in Users : /\ u \in shown'[c] <=> u = f.user \/ u \in shown[c]
                         /\ names'[c][u] = IF u = f.user THEN f.version ELSE names[c][u]
    BY <1>5, <2>1, <2>2 DEF ViewTypeOK
  <2>6. flags'[c] = flags[c] /\ inMeeting'[c] = inMeeting[c]
        /\ \A x \in Conns \ {c} : ClientKept(x) /\ uplink'[x] = uplink[x]
    BY <1>1, <2>1 DEF ClientKept
  <2>7. QED
    BY <1>1, <1>2, <1>3, <2>1, <2>2, <2>3, <2>4, <2>5, <2>6 DEF ReadsFrame
<1>15. CASE OnRoomSettings(c)
  <2>1. /\ f.type = "RoomSettingsNotify" /\ flags' = [flags EXCEPT ![c] = f.flags]
        /\ UNCHANGED <<uplink, inMeeting, shown, names>>
    BY <1>15 DEF OnRoomSettings, Receives, Frame
  <2>2. f \in SettingsFrames /\ f.flags \in Flags
        /\ \A u \in Users : ~Adds(f, u) /\ ~Removes(f, u) /\ f \notin FramesAbout(u)
    BY <1>2, <2>1, FrameKinds DEF Adds, Removes
  <2>3. ViewTypeOK'
    <3>1. shown' \in [Conns -> SUBSET Users] /\ names' \in [Conns -> [Users -> Nat]]
          /\ inMeeting' \in [Conns -> BOOLEAN] /\ flags' \in [Conns -> Flags]
      BY <2>1, <2>2 DEF ViewTypeOK
    <3>2. QED
      BY <1>4, <1>8, <1>9, <2>1, <3>1 DEF ViewTypeOK
  <2>4. flags'[c] = f.flags /\ inMeeting'[c] = inMeeting[c]
        /\ \A x \in Conns \ {c} : ClientKept(x) /\ uplink'[x] = uplink[x]
    BY <1>1, <2>1 DEF ClientKept, ViewTypeOK
  <2>5. QED
    BY <1>1, <1>2, <1>3, <2>1, <2>2, <2>3, <2>4 DEF ReadsFrame
<1>16. CASE \E type \in Notices : OnNotice(c, type)
  <2>1. f.type \in Notices /\ UNCHANGED <<uplink, inMeeting, shown, names, flags>>
    BY <1>16 DEF OnNotice, Receives, Frame
  <2>2. f.type \notin {"PartnerJoin", "PartnerJoin2", "UserProfile", "PartnerExit", "RoomSettingsNotify"}
    BY <2>1, NoticesAreForwarded
  <2>3. f \notin SettingsFrames
        /\ \A u \in Users : ~Adds(f, u) /\ ~Removes(f, u) /\ f \notin FramesAbout(u)
    BY <1>2, <2>2, FrameKinds DEF Adds, Removes
  <2>4. ViewTypeOK'
    BY <1>4, <1>8, <1>9, <2>1 DEF ViewTypeOK
  <2>5. \A x \in Conns \ {c} : ClientKept(x) /\ uplink'[x] = uplink[x]
    BY <1>1, <2>1 DEF ClientKept
  <2>6. QED
    BY <1>1, <1>2, <1>3, <2>1, <2>2, <2>3, <2>4, <2>5 DEF ReadsFrame
<1>17. QED
  BY <1>10, <1>11, <1>12, <1>13, <1>14, <1>15, <1>16 DEF ClientReads

(* What a user does in a meeting sends one packet. *)
UserUploads(c, p) ==
  /\ InRoom(c) /\ p \in Packets \ Asks /\ uplink' = [uplink EXCEPT ![c] = @ \o <<p>>]
  /\ UNCHANGED <<vars, relayVars, asked, inMeeting, shown, names>>
  /\ \/ p \notin ProfilePackets \cup SettingsPackets /\ UNCHANGED <<flags, version>>
     \/ /\ p = ProfilePacket(c, version'[c]) /\ UNCHANGED flags
        /\ \A x \in Conns \ {c} : version'[x] = version[x]
     \/ /\ p \in SettingsPackets /\ UNCHANGED version
        /\ \A x \in Conns \ {c} : flags'[x] = flags[x]

LEMMA UserActsEffect ==
  ASSUME Consistent, Basic, NEW c \in Conns,
         \/ \E type \in Notices : SendNotice(c, type)
         \/ EditProfile(c)
         \/ \E f \in Flags : EditSettings(c, f)
  PROVE  /\ \E p \in Packets \ Asks : UserUploads(c, p)
         /\ flags' \in [Conns -> Flags] /\ version' \in [Conns -> Nat \ {0}] /\ acts' \in Nat
<1> USE DEF Basic
<1>1. /\ UNCHANGED <<vars, relayVars, asked, inMeeting, shown, names>>
      /\ InRoom(c) /\ acts' \in Nat
  <2>1. UserActs(c)
    BY DEF SendNotice, EditProfile, EditSettings
  <2>2. inMeeting[c] /\ acts' = acts + 1 /\ UNCHANGED <<vars, relayVars, asked, inMeeting, shown, names>>
    BY <2>1 DEF UserActs
  <2>3. InRoom(c) /\ acts \in Nat
    BY <2>2 DEF LobbyIsBlank, ViewTypeOK
  <2>4. QED
    BY <2>2, <2>3
<1>2. flags \in [Conns -> Flags] /\ version \in [Conns -> Nat \ {0}] /\ uplink[c] \in Seq(Packets)
  BY DEF ViewTypeOK
<1>3. \A p \in Packets : Upload(c, p) => uplink' = [uplink EXCEPT ![c] = @ \o <<p>>]
  <2>1. \A p \in Packets : Append(uplink[c], p) = uplink[c] \o <<p>>
    BY <1>2
  <2>2. QED
    BY <2>1 DEF Upload
<1>4. CASE \E type \in Notices : SendNotice(c, type)
  <2>1. PICK type \in Notices : Upload(c, [type |-> type]) /\ UNCHANGED <<flags, version>>
    BY <1>4 DEF SendNotice
  <2> DEFINE p == [type |-> type]
  <2>2. p \in Packets /\ p \notin Asks /\ p \notin ProfilePackets /\ p \notin SettingsPackets
    BY NoticesAreForwarded DEF Packets, Asks, ProfilePackets, SettingsPackets
  <2>3. UserUploads(c, p)
    BY <1>1, <1>3, <2>1, <2>2 DEF UserUploads
  <2>4. QED
    BY <1>1, <1>2, <2>1, <2>2, <2>3
<1>5. CASE EditProfile(c)
  <2>1. /\ version' = [version EXCEPT ![c] = @ + 1] /\ Upload(c, ProfilePacket(c, version'[c]))
        /\ UNCHANGED flags
    BY <1>5 DEF EditProfile
  <2>2. version' \in [Conns -> Nat \ {0}]
    BY <1>2, <2>1
  <2> DEFINE p == ProfilePacket(c, version'[c])
  <2>3. p \in Packets /\ p \notin Asks
    BY <2>2, ProfilePacketType
  <2>4. \A x \in Conns \ {c} : version'[x] = version[x]
    BY <1>2, <2>1
  <2>5. UserUploads(c, p)
    BY <1>1, <1>3, <2>1, <2>3, <2>4 DEF UserUploads
  <2>6. QED
    BY <1>1, <1>2, <2>1, <2>2, <2>3, <2>5
<1>6. CASE \E f \in Flags : EditSettings(c, f)
  <2>1. PICK f \in Flags : /\ flags' = [flags EXCEPT ![c] = f] /\ UNCHANGED version
                           /\ Upload(c, [type |-> "RoomSettings", flags |-> f])
    BY <1>6 DEF EditSettings
  <2> DEFINE p == [type |-> "RoomSettings", flags |-> f]
  <2>2. p \in Packets /\ p \notin Asks /\ p \in SettingsPackets
    BY DEF Packets, Asks, SettingsPackets
  <2>3. flags' \in [Conns -> Flags] /\ \A x \in Conns \ {c} : flags'[x] = flags[x]
    BY <1>2, <2>1
  <2>4. UserUploads(c, p)
    BY <1>1, <1>3, <2>1, <2>2, <2>3 DEF UserUploads
  <2>5. QED
    BY <1>1, <1>2, <2>1, <2>2, <2>3, <2>4
<1>7. QED
  BY <1>4, <1>5, <1>6

-----------------------------------------------------------------------------
(* The basic facts are kept. *)

(* The same state, for one client *)
SameState(x) ==
  /\ connRoom'[x] = connRoom[x] /\ conn'[x] = conn[x] /\ outbox'[x] = outbox[x]
  /\ uplink'[x] = uplink[x] /\ asked'[x] = asked[x] /\ ClientKept(x)
  /\ profile'[x] = profile[x] /\ userId'[x] = userId[x]

LEMMA SameStateIsBasic ==
  ASSUME NEW x \in Conns, SameState(x), LobbyIsBlank(x), MemberIsKnown(x)
  PROVE  LobbyIsBlank(x)' /\ MemberIsKnown(x)'
BY DEF SameState, ClientKept, LobbyIsBlank, MemberIsKnown, InRoom

LEMMA AskIsBasic ==
  ASSUME Consistent, Basic, NEW c \in Conns, NEW p \in Asks, Ask(c, p)
  PROVE  Basic'
<1> USE DEF Basic
<1>1. /\ conn[c] = "open" /\ ~asked[c] /\ asked' = [asked EXCEPT ![c] = TRUE]
      /\ uplink' = [uplink EXCEPT ![c] = Append(@, p)]
      /\ UNCHANGED <<vars, relayVars, inMeeting, shown, names, flags, version, acts>>
  BY DEF Ask, Upload
<1>2. ~InRoom(c) /\ uplink[c] = <<>> /\ outbox[c] = <<>>
  BY <1>1 DEF LobbyIsBlank, MemberIsKnown
<1>3. Append(uplink[c], p) = <<p>> /\ <<p>> \in Seq(Packets)
  BY <1>2 DEF Packets
<1>4. ViewTypeOK'
  BY <1>1, <1>3 DEF ViewTypeOK, relayVars
<1>5. uplink'[c] = <<p>> /\ asked'[c] = TRUE
  BY <1>1, <1>3 DEF ViewTypeOK
<1>6. \A x \in Conns : /\ x # c => uplink'[x] = uplink[x] /\ asked'[x] = asked[x]
                       /\ ClientKept(x)
  BY <1>1 DEF ClientKept, ViewTypeOK
<1>7. UNCHANGED <<conn, connRoom, outbox, profile, userId, settings, status>>
  BY <1>1 DEF vars, lookupVars, relayVars
<1>8. \A x \in Conns \ {c} : LobbyIsBlank(x)' /\ MemberIsKnown(x)'
  BY <1>6, <1>7, SameStateIsBasic DEF SameState
<1>9. LobbyIsBlank(c)' /\ MemberIsKnown(c)'
  BY <1>1, <1>2, <1>5, <1>6, <1>7 DEF LobbyIsBlank, MemberIsKnown, InRoom, ClientKept
<1>10. QED
  BY <1>4, <1>7, <1>8, <1>9

LEMMA MemberUploadKnown ==
  ASSUME Basic, NEW c \in Conns, InRoom(c), NEW p \in Packets \ Asks,
         p \in ProfilePackets => p.user = Account[c],
         uplink'[c] = uplink[c] \o <<p>>, connRoom'[c] = connRoom[c],
         userId'[c] = userId[c], asked'[c] = asked[c]
  PROVE  LobbyIsBlank(c)' /\ MemberIsKnown(c)'
<1> DEFINE q == uplink[c]
<1>1. q \in Seq(Packets)
  BY DEF Basic, ViewTypeOK
<1>2. /\ Len(q) \in Nat /\ DOMAIN (q \o <<p>>) = 1..(Len(q) + 1) /\ DOMAIN q = 1..Len(q)
      /\ \A i \in 1..Len(q) : (q \o <<p>>)[i] = q[i]
      /\ (q \o <<p>>)[Len(q) + 1] = p
  BY <1>1, AppendedQueue
<1>3. \A i \in 1..(Len(q) + 1) : i \in 1..Len(q) \/ i = Len(q) + 1
  BY <1>2
<1>4. userId[c] = Account[c] /\ asked[c]
      /\ \A i \in 1..Len(q) : /\ q[i] \notin Asks
                              /\ q[i] \in ProfilePackets => q[i].user = Account[c]
  BY <1>2 DEF Basic, MemberIsKnown
<1> HIDE DEF q
<1>5. \A i \in DOMAIN (q \o <<p>>) : /\ (q \o <<p>>)[i] \notin Asks
                                     /\ (q \o <<p>>)[i] \in ProfilePackets
                                          => (q \o <<p>>)[i].user = Account[c]
  BY <1>2, <1>3, <1>4
<1>6. uplink'[c] = q \o <<p>>
  BY DEF q
<1>7. InRoom(c)'
  BY DEF InRoom
<1>8. MemberIsKnown(c)'
  BY <1>4, <1>5, <1>6 DEF MemberIsKnown
<1>9. QED
  BY <1>7, <1>8 DEF LobbyIsBlank

LEMMA UserUploadsBasic ==
  ASSUME Consistent, Basic, NEW c \in Conns, NEW p \in Packets \ Asks, UserUploads(c, p),
         flags' \in [Conns -> Flags], version' \in [Conns -> Nat \ {0}], acts' \in Nat
  PROVE  Basic'
<1> USE DEF Basic
<1>1. /\ InRoom(c) /\ uplink' = [uplink EXCEPT ![c] = @ \o <<p>>]
      /\ UNCHANGED <<vars, relayVars, asked, inMeeting, shown, names>>
      /\ \A x \in Conns \ {c} : version'[x] = version[x] /\ flags'[x] = flags[x]
  BY DEF UserUploads
<1>2. UNCHANGED <<conn, connRoom, outbox, profile, userId, settings, status>>
  BY <1>1 DEF vars, lookupVars, relayVars
<1>3. p \in ProfilePackets => p.user = Account[c]
  <2>1. p \in SettingsPackets => p \notin ProfilePackets
    BY DEF SettingsPackets, ProfilePackets
  <2>2. p = ProfilePacket(c, version'[c]) => p.user = Account[c]
    BY DEF ProfilePacket
  <2>3. QED
    BY <2>1, <2>2 DEF UserUploads
<1>4. uplink[c] \o <<p>> \in Seq(Packets) /\ uplink \in [Conns -> Seq(Packets)]
  BY DEF ViewTypeOK
<1>5. ViewTypeOK'
  BY <1>1, <1>2, <1>4 DEF ViewTypeOK
<1>6. \A x \in Conns \ {c} : LobbyIsBlank(x)' /\ MemberIsKnown(x)'
  <2>1. \A x \in Conns \ {c} : uplink'[x] = uplink[x]
    BY <1>1, <1>4
  <2>2. \A x \in Conns \ {c} : SameState(x)
    BY <1>1, <1>2, <2>1 DEF SameState, ClientKept
  <2>3. QED
    BY <2>2, SameStateIsBasic
<1>7. uplink'[c] = uplink[c] \o <<p>>
  BY <1>1, <1>4
<1>8. LobbyIsBlank(c)' /\ MemberIsKnown(c)'
  BY <1>1, <1>2, <1>3, <1>7, MemberUploadKnown
<1>9. QED
  BY <1>2, <1>5, <1>6, <1>8

LEMMA ReadsFrameBasic ==
  ASSUME Consistent, Basic, NEW c \in Conns, ReadsFrame(c), ViewTypeOK'
  PROVE  Basic'
<1> USE DEF Basic
<1>1. UNCHANGED <<conn, connRoom, profile, userId, settings, status, asked, version>>
  BY DEF ReadsFrame, vars, lookupVars
<1>2. \A x \in Conns \ {c} : SameState(x)
  BY <1>1 DEF ReadsFrame, SameState, ViewTypeOK
<1>3. version[c] \in Nat \ {0}
  BY DEF ViewTypeOK
<1>4. LobbyIsBlank(c)' /\ MemberIsKnown(c)'
  <2>1. CASE uplink'[c] = uplink[c]
    BY <1>1, <2>1 DEF ReadsFrame, LobbyIsBlank, MemberIsKnown, InRoom
  <2>2. CASE uplink'[c] = uplink[c] \o <<ProfilePacket(c, version[c])>>
    <3>1. InRoom(c) /\ connRoom'[c] = connRoom[c] /\ userId'[c] = userId[c] /\ asked'[c] = asked[c]
      BY <1>1 DEF ReadsFrame
    <3>2. QED
      BY <1>3, <2>2, <3>1, ProfilePacketType, MemberUploadKnown
  <2>3. QED
    BY <2>1, <2>2 DEF ReadsFrame
<1>5. QED
  BY <1>1, <1>2, <1>4, SameStateIsBasic

LEMMA TailKnown ==
  ASSUME Basic, NEW c \in Conns, uplink[c] # <<>>, InRoom(c)
  PROVE  \A i \in DOMAIN Tail(uplink[c]) :
           /\ Tail(uplink[c])[i] \notin Asks
           /\ Tail(uplink[c])[i] \in ProfilePackets => Tail(uplink[c])[i].user = Account[c]
<1> DEFINE q == uplink[c]
           s == Tail(q)
<1>1. q \in Seq(Packets)
  BY DEF Basic, ViewTypeOK
<1>2. /\ DOMAIN s = 1..(Len(q) - 1) /\ DOMAIN q = 1..Len(q) /\ Len(q) \in Nat \ {0}
      /\ \A i \in 1..(Len(q) - 1) : s[i] = q[i + 1]
  BY <1>1, TailQueue
<1>3. \A i \in 1..(Len(q) - 1) : i + 1 \in DOMAIN q /\ s[i] = q[i + 1]
  BY <1>2
<1>4. \A i \in DOMAIN q : q[i] \notin Asks /\ (q[i] \in ProfilePackets => q[i].user = Account[c])
  BY DEF Basic, MemberIsKnown
<1> HIDE DEF s, q
<1>5. \A i \in DOMAIN s : s[i] \notin Asks /\ (s[i] \in ProfilePackets => s[i].user = Account[c])
  BY <1>2, <1>3, <1>4
<1>6. QED
  BY <1>5 DEF s, q

(* What becomes of the request of a client once it is answered. *)
LEMMA AskIsAnswered ==
  ASSUME Basic, NEW c \in Conns, ~InRoom(c), uplink[c] # <<>>
  PROVE  Tail(uplink[c]) = <<>> /\ outbox[c] = <<>> /\ asked[c]
<1>1. outbox[c] = <<>> /\ asked[c] /\ \E p \in Asks : uplink[c] = <<p>>
  BY DEF Basic, LobbyIsBlank, ViewTypeOK
<1>2. \A p \in Asks : Tail(<<p>>) = <<>>
  OBVIOUS
<1>3. QED
  BY <1>1, <1>2

LEMMA QueuedType ==
  ASSUME Basic, NEW X, NEW f \in Frames, Queued(X, f)
  PROVE  outbox' \in [Conns -> Seq(Frames)]
<1>1. \A x \in Conns : outbox[x] \in Seq(Frames) /\ outbox[x] \o <<f>> \in Seq(Frames)
  BY DEF Basic, ViewTypeOK
<1>2. QED
  BY <1>1 DEF Queued

LEMMA WelcomeType ==
  ASSUME Consistent, Basic, NEW id \in RoomIds, NEW r \in Rooms, NEW replay \in ReplayOrders(r)
  PROVE  Welcome(id, {Account[d] : d \in members[r]}, settings[r], replay) \in Seq(Frames)
<1>1. \A i \in RoomIds : i \in Int
  BY RoomIdsArePositive
<1>2. settings[r] \in Flags
  BY DEF Basic, ViewTypeOK
<1>3. {Account[d] : d \in members[r]} \in SUBSET Users
  BY Members, AccountsAreUsers
<1>4. /\ JoinResponse(id) \in Frames /\ RoomSettingsNotify(settings[r]) \in Frames
      /\ PartnerJoin2({Account[d] : d \in members[r]}) \in Frames
  BY <1>1, <1>2, <1>3, FrameTypes
<1>5. replay \in Seq(Frames)
  BY ReplayType
<1>6. QED
  BY <1>4, <1>5 DEF Welcome

LEMMA ReadsBasic ==
  ASSUME Consistent, Basic, NEW c \in Conns, ServerReads(c)
  PROVE  Basic'
<1> USE DEF Basic
<1>1. /\ uplink[c] # <<>> /\ uplink' = [uplink EXCEPT ![c] = Tail(@)]
      /\ UNCHANGED <<asked, inMeeting, shown, names, flags, version, acts>>
  BY ReadsEffect
<1>2. /\ uplink'[c] = Tail(uplink[c]) /\ uplink' \in [Conns -> Seq(Packets)]
      /\ \A x \in Conns \ {c} : uplink'[x] = uplink[x]
  BY <1>1 DEF ViewTypeOK
<1>3. \A x \in Conns : ClientKept(x) /\ asked'[x] = asked[x]
  BY <1>1 DEF ClientKept
<1>4. Account[c] \in Users
  BY AccountsAreUsers
<1>5. ASSUME userId' \in [Conns -> Users \cup {0}], profile' \in [Conns -> Nat],
             settings' \in [Rooms -> Flags], outbox' \in [Conns -> Seq(Frames)]
      PROVE  ViewTypeOK'
  <2>1. UNCHANGED <<asked, inMeeting, shown, names, flags, version, acts>>
    BY <1>1
  <2>2. /\ shown' \in [Conns -> SUBSET Users] /\ names' \in [Conns -> [Users -> Nat]]
        /\ flags' \in [Conns -> Flags] /\ version' \in [Conns -> Nat \ {0}] /\ acts' \in Nat
        /\ asked' \in [Conns -> BOOLEAN] /\ inMeeting' \in [Conns -> BOOLEAN]
    BY <2>1 DEF ViewTypeOK
  <2>3. uplink' \in [Conns -> Seq(Packets)]
    BY <1>2
  <2>4. QED
    BY <1>5, <2>2, <2>3, Zenon DEF ViewTypeOK
(* everybody else, whatever the server sends to the members of a room        *)
<1>6. ASSUME NEW x \in Conns \ {c}, connRoom'[x] = connRoom[x], conn'[x] = conn[x],
             profile'[x] = profile[x], userId'[x] = userId[x],
             ~InRoom(x) => outbox'[x] = outbox[x]
      PROVE  LobbyIsBlank(x)' /\ MemberIsKnown(x)'
  <2>1. /\ uplink'[x] = uplink[x] /\ asked'[x] = asked[x] /\ inMeeting'[x] = inMeeting[x]
        /\ shown'[x] = shown[x] /\ flags'[x] = flags[x]
    BY <1>2, <1>3, <1>6 DEF ClientKept
  <2>2. LobbyIsBlank(x) /\ MemberIsKnown(x)
    BY <1>6
  <2>3. CASE InRoom(x)
    BY <1>6, <2>1, <2>2, <2>3 DEF LobbyIsBlank, MemberIsKnown, InRoom
  <2>4. CASE ~InRoom(x)
    BY <1>6, <2>1, <2>2, <2>4 DEF LobbyIsBlank, MemberIsKnown, InRoom
  <2>5. QED
    BY <2>3, <2>4
<1>7. ASSUME connRoom'[c] # NoRoom, userId'[c] = Account[c], ~InRoom(c)
      PROVE  LobbyIsBlank(c)' /\ MemberIsKnown(c)'
  <2>1. uplink'[c] = <<>> /\ asked'[c]
    BY <1>1, <1>2, <1>3, <1>7, AskIsAnswered
  <2>2. QED
    BY <1>7, <2>1 DEF LobbyIsBlank, MemberIsKnown, InRoom
<1>8. ASSUME connRoom'[c] = connRoom[c], userId'[c] = userId[c], InRoom(c)
      PROVE  LobbyIsBlank(c)' /\ MemberIsKnown(c)'
  <2>1. userId[c] = Account[c] /\ asked[c]
    BY <1>8 DEF MemberIsKnown
  <2>2. QED
    BY <1>1, <1>2, <1>3, <1>8, <2>1, TailKnown DEF LobbyIsBlank, MemberIsKnown, InRoom
<1>9. ASSUME NEW r \in Rooms, NEW id \in RoomIds, Creates(c, r, id)
      PROVE  Basic'
  <2>1. ~InRoom(c) /\ UNCHANGED <<conn, profile, settings>> /\ id \in Int /\ r # NoRoom
    BY <1>9, NoRoomIsNoObject, RoomIdsArePositive DEF Creates
  <2>2. /\ connRoom' = [connRoom EXCEPT ![c] = r] /\ userId' = [userId EXCEPT ![c] = Account[c]]
        /\ outbox' = [outbox EXCEPT ![c] = <<CreateResponse(id)>>]
        /\ status' = [status EXCEPT ![r] = "live"]
    BY <1>9 DEF Creates
  <2>3. <<CreateResponse(id)>> \in Seq(Frames)
    BY <2>1, FrameTypes
  <2>4. connRoom'[c] = r /\ userId'[c] = Account[c]
        /\ \A x \in Conns \ {c} : connRoom'[x] = connRoom[x] /\ userId'[x] = userId[x]
                                  /\ outbox'[x] = outbox[x]
    BY <2>2 DEF ViewTypeOK, Consistent, TypeOK
  <2>5. userId' \in [Conns -> Users \cup {0}] /\ outbox' \in [Conns -> Seq(Frames)]
    BY <1>4, <2>2, <2>3 DEF ViewTypeOK
  <2>6. ViewTypeOK'
    BY <1>5, <2>1, <2>5 DEF ViewTypeOK
  <2>7. \A x \in Conns : LobbyIsBlank(x)' /\ MemberIsKnown(x)'
    BY <1>6, <1>7, <2>1, <2>4
  <2>8. \A s \in Rooms : status'[s] # "live" => settings'[s] = DefaultFlags
    BY <2>1, <2>2 DEF Consistent, TypeOK
  <2>9. QED
    BY <2>6, <2>7, <2>8
<1>10. ASSUME NEW r \in Rooms, NEW id \in RoomIds, NEW replay \in ReplayOrders(r),
              Joins(c, r, id, replay)
       PROVE  Basic'
  <2> DEFINE W == Welcome(id, {Account[d] : d \in members[r]}, settings[r], replay)
  <2>1. ~InRoom(c) /\ UNCHANGED <<conn, profile, settings, status>> /\ r # NoRoom
    BY <1>10, NoRoomIsNoObject DEF Joins
  <2>2. /\ connRoom' = [connRoom EXCEPT ![c] = r] /\ userId' = [userId EXCEPT ![c] = Account[c]]
        /\ outbox' = [x \in Conns |->
             IF x = c THEN W
             ELSE IF x \in members[r] THEN outbox[x] \o <<PartnerJoin(Account[c])>> ELSE outbox[x]]
    BY <1>10 DEF Joins
  <2>3. W \in Seq(Frames)
    BY WelcomeType
  <2> HIDE DEF W
  <2>4. connRoom'[c] = r /\ userId'[c] = Account[c]
        /\ \A x \in Conns \ {c} : connRoom'[x] = connRoom[x] /\ userId'[x] = userId[x]
                                  /\ (~InRoom(x) => outbox'[x] = outbox[x])
    BY <2>2, Members DEF ViewTypeOK, Consistent, TypeOK
  <2>5. outbox' \in [Conns -> Seq(Frames)]
    <3>1. \A x \in Conns : outbox[x] \in Seq(Frames)
                           /\ outbox[x] \o <<PartnerJoin(Account[c])>> \in Seq(Frames)
      BY <1>4, FrameTypes DEF ViewTypeOK
    <3>2. QED
      BY <2>2, <2>3, <3>1
  <2>6. userId' \in [Conns -> Users \cup {0}]
    BY <1>4, <2>2 DEF ViewTypeOK
  <2>7. ViewTypeOK'
    BY <1>5, <2>1, <2>5, <2>6 DEF ViewTypeOK
  <2>8. \A x \in Conns : LobbyIsBlank(x)' /\ MemberIsKnown(x)'
    BY <1>6, <1>7, <2>1, <2>4
  <2>9. QED
    BY <2>1, <2>7, <2>8
<1>11. ASSUME NEW f \in Frames, Refuses(c, f)
       PROVE  Basic'
  <2>1. /\ ~InRoom(c) /\ UNCHANGED <<conn, connRoom, status, userId, profile, settings>>
        /\ f.type \in Responses /\ f.value <= 0 /\ Queued({c}, f) /\ conn[c] = "open"
    BY <1>11 DEF Refuses, RoomsKept
  <2>2. outbox'[c] = <<f>> /\ \A x \in Conns \ {c} : outbox'[x] = outbox[x]
    <3>1. outbox[c] = <<>> /\ <<>> \o <<f>> = <<f>>
      BY <1>1, <2>1, AskIsAnswered
    <3>2. QED
      BY <2>1, <3>1 DEF Queued
  <2>3. ViewTypeOK'
    BY <1>5, <2>1, QueuedType DEF ViewTypeOK
  <2>4. LobbyIsBlank(c)' /\ MemberIsKnown(c)'
    <3>1. uplink'[c] = <<>> /\ asked'[c]
      BY <1>1, <1>2, <1>3, <2>1, AskIsAnswered
    <3>2. \A i \in DOMAIN <<f>> : <<f>>[i].type \in Responses /\ <<f>>[i].value <= 0
      BY <2>1
    <3>3. QED
      BY <1>3, <2>1, <2>2, <3>1, <3>2 DEF LobbyIsBlank, MemberIsKnown, InRoom, ClientKept
  <2>5. QED
    BY <1>6, <2>1, <2>2, <2>3, <2>4
<1>12. ASSUME NEW X, NEW f \in Frames, RoomsKept, InRoom(c), Queued(X, f), UNCHANGED userId,
              \A x \in X : x \in members[connRoom[c]],
              \A x \in Conns \ {c} : profile'[x] = profile[x],
              profile' \in [Conns -> Nat], settings' \in [Rooms -> Flags],
              \A s \in Rooms : status[s] # "live" => settings'[s] = settings[s]
       PROVE  Basic'
  <2>1. ViewTypeOK'
    BY <1>5, <1>12, QueuedType DEF ViewTypeOK
  <2>2. LobbyIsBlank(c)' /\ MemberIsKnown(c)'
    BY <1>8, <1>12 DEF RoomsKept
  <2>3. \A x \in Conns : ~InRoom(x) => outbox'[x] = outbox[x]
    BY <1>12, Members DEF Queued
  <2>4. \A x \in Conns \ {c} : LobbyIsBlank(x)' /\ MemberIsKnown(x)'
    BY <1>6, <1>12, <2>3 DEF RoomsKept
  <2>5. \A s \in Rooms : status'[s] # "live" => settings'[s] = DefaultFlags
    BY <1>12 DEF RoomsKept
  <2>6. QED
    BY <2>1, <2>2, <2>4, <2>5
<1>13. ASSUME NEW type \in Notices, Notifies(c, type)
       PROVE  Basic'
  <2>1. Notice(type, Account[c]) \in Frames
    BY <1>4, FrameTypes
  <2>2. /\ RoomsKept /\ InRoom(c) /\ Queued(Others(c), Notice(type, Account[c]))
        /\ UNCHANGED userId /\ profile' = profile /\ settings' = settings
    BY <1>13 DEF Notifies
  <2>3. profile' \in [Conns -> Nat] /\ settings' \in [Rooms -> Flags]
    BY <2>2 DEF ViewTypeOK
  <2>4. \A x \in Others(c) : x \in members[connRoom[c]]
    BY DEF Others
  <2>5. QED
    BY <1>12, <2>1, <2>2, <2>3, <2>4
<1>14. ASSUME NEW v \in Nat \ {0}, Profiles(c, v)
       PROVE  Basic'
  <2>1. UserProfile(Account[c], v) \in Frames
    BY <1>4, FrameTypes
  <2>2. profile' \in [Conns -> Nat] /\ \A x \in Conns \ {c} : profile'[x] = profile[x]
    BY <1>14 DEF Profiles, ViewTypeOK
  <2>3. /\ RoomsKept /\ InRoom(c) /\ Queued(Others(c), UserProfile(Account[c], v))
        /\ UNCHANGED userId /\ settings' = settings
    BY <1>14 DEF Profiles
  <2>4. settings' \in [Rooms -> Flags]
    BY <2>3 DEF ViewTypeOK
  <2>5. \A x \in Others(c) : x \in members[connRoom[c]]
    BY DEF Others
  <2>6. QED
    BY <1>12, <2>1, <2>2, <2>3, <2>4, <2>5
<1>15. ASSUME NEW f \in Flags, Switches(c, f)
       PROVE  Basic'
  <2>1. RoomSettingsNotify(f) \in Frames
    BY FrameTypes
  <2>2. status[connRoom[c]] = "live"
    BY <1>15, Members DEF Switches
  <2>3. settings' \in [Rooms -> Flags]
        /\ \A s \in Rooms : status[s] # "live" => settings'[s] = settings[s]
    BY <1>15, <2>2 DEF Switches, ViewTypeOK
  <2>4. QED
    BY <1>12, <1>15, <2>1, <2>3 DEF Switches, ViewTypeOK
<1>16. QED
  BY <1>9, <1>10, <1>11, <1>13, <1>14, <1>15, ReadsEffect

LEMMA ClosesBasic ==
  ASSUME Consistent, Consistent', Basic, ClearMeetings,
         (\E c \in Conns : ConnectionCloses(c)) \/ (\E r \in Rooms : ExpiryRuns(r))
  PROVE  Basic'
<1>1. \A x \in Conns : Remains(x) => LobbyIsBlank(x)' /\ MemberIsKnown(x)'
  BY DEF Basic, Remains, LobbyIsBlank, MemberIsKnown, InRoom
<1>2. \A x \in Conns : ~InRoom(x)' => MemberIsKnown(x)'
  BY DEF MemberIsKnown
<1>3. QED
  BY <1>1, <1>2, ClosesEffect DEF Basic

LEMMA StutterBasic == Basic /\ UNCHANGED viewVars => Basic'
BY DEF Basic, viewVars, vars, lookupVars, optionVars, relayVars, clientVars, ViewTypeOK,
   LobbyIsBlank, MemberIsKnown, InRoom

LEMMA InitBasic == ViewInit => Basic
<1> SUFFICES ASSUME ViewInit PROVE Basic
  OBVIOUS
<1>1. /\ conn = [c \in Conns |-> "open"] /\ connRoom = [c \in Conns |-> NoRoom] /\ RelayInit
      /\ uplink = [c \in Conns |-> <<>>] /\ asked = [c \in Conns |-> FALSE]
      /\ inMeeting = [c \in Conns |-> FALSE] /\ shown = [c \in Conns |-> {}]
      /\ names = [c \in Conns |-> [u \in Users |-> 0]] /\ flags = [c \in Conns |-> DefaultFlags]
      /\ version = [c \in Conns |-> 1] /\ acts = 0
  BY DEF ViewInit
<1>2. asked \in [Conns -> BOOLEAN] /\ inMeeting \in [Conns -> BOOLEAN]
  BY <1>1, Zenon
<1>3. ViewTypeOK
  BY <1>1, <1>2, DefaultIsFlags DEF RelayInit, ViewTypeOK
<1>4. \A c \in Conns : LobbyIsBlank(c) /\ MemberIsKnown(c)
  BY <1>1 DEF RelayInit, LobbyIsBlank, MemberIsKnown, InRoom
<1>5. QED
  BY <1>1, <1>3, <1>4 DEF RelayInit, Basic

LEMMA NextBasic == Consistent /\ Basic /\ [ViewNext]_viewVars => Basic'
<1> SUFFICES ASSUME Consistent, Basic, [ViewNext]_viewVars PROVE Basic'
  OBVIOUS
<1>1. Consistent'
  BY ViewNextConsistent
<1>2. ASSUME NEW c \in Conns, \/ \E type \in Notices : SendNotice(c, type)
                              \/ EditProfile(c)
                              \/ \E f \in Flags : EditSettings(c, f)
      PROVE  Basic'
  BY <1>2, UserActsEffect, UserUploadsBasic
<1>3. ASSUME NEW c \in Conns, ClientReads(c), ~OnMeetingRefused(c) PROVE Basic'
  BY <1>3, ClientReadsEffect, ReadsFrameBasic
<1>4. QED
  BY <1>1, <1>2, <1>3, ViewSteps, AskIsBasic, ReadsBasic, ClosesBasic, StutterBasic

-----------------------------------------------------------------------------
(* The lists of members *)

ListIsRight(c) == ListConverges(c) /\ NoticesAreOfShown(c)

ShowsAll(c) == ShownAfter(shown[c], outbox[c], Len(outbox[c]))

LEMMA LobbyList ==
  ASSUME Basic', NEW x \in Conns, ~InRoom(x)'
  PROVE  ListIsRight(x)'
<1>1. \A i \in DOMAIN outbox'[x] : outbox'[x][i].type \notin Notices
  BY NoticesAreForwarded DEF Basic, LobbyIsBlank, Responses
<1>2. QED
  BY <1>1 DEF ListIsRight, ListConverges, NoticesAreOfShown

LEMMA KeptList ==
  ASSUME NEW x \in Conns, ListIsRight(x), connRoom'[x] = connRoom[x], outbox'[x] = outbox[x],
         shown'[x] = shown[x], Others(x)' = Others(x)
  PROVE  ListIsRight(x)'
BY DEF ListIsRight, ListConverges, NoticesAreOfShown, InRoom, ShownAfter, Others

(* A frame is sent that says what becomes of the room.                       *)
LEMMA AppendedList ==
  ASSUME Basic, NEW x \in Conns, ListIsRight(x), InRoom(x), NEW f \in Frames,
         connRoom'[x] = connRoom[x], outbox'[x] = outbox[x] \o <<f>>, shown'[x] = shown[x],
         \A u \in Users \ {Account[x]} :
           (\E d \in Others(x)' : u = Account[d])
             <=> Adds(f, u) \/ ((\E d \in Others(x) : u = Account[d]) /\ ~Removes(f, u)),
         f.type \in Notices => f.user # Account[x] /\ \E d \in Others(x) : f.user = Account[d]
  PROVE  ListIsRight(x)'
<1> DEFINE q == outbox[x]
           us == shown[x]
           s == q \o <<f>>
<1>1. q \in Seq(Frames)
  BY DEF Basic, ViewTypeOK
<1>2. /\ Len(q) \in Nat /\ DOMAIN s = 1..(Len(q) + 1) /\ Len(s) = Len(q) + 1
      /\ DOMAIN q = 1..Len(q) /\ s[Len(q) + 1] = f
      /\ \A i \in 1..Len(q) : s[i] = q[i]
  BY <1>1, AppendedQueue
<1>3. /\ \A n \in 0..Len(q) : ShownAfter(us, s, n) = ShownAfter(us, q, n)
      /\ \A u \in Users : u \in ShownAfter(us, s, Len(q) + 1)
           <=> Adds(f, u) \/ (u \in ShownAfter(us, q, Len(q)) /\ ~Removes(f, u))
  BY <1>1, AppendedShown
<1>4. \A u \in Users \ {Account[x]} : u \in ShownAfter(us, q, Len(q)) <=> \E d \in Others(x) : u = Account[d]
  BY DEF ListIsRight, ListConverges
<1>5. \A i \in 1..Len(q) : q[i].type \in Notices =>
         q[i].user # Account[x] /\ q[i].user \in ShownAfter(us, q, i - 1)
  BY <1>2 DEF ListIsRight, NoticesAreOfShown
<1>6. outbox'[x] = s /\ shown'[x] = us
  OBVIOUS
<1> HIDE DEF q, us, s
<1>7. ListConverges(x)'
  <2>1. \A u \in Users \ {Account[x]} :
           u \in ShownAfter(us, s, Len(s)) <=> \E d \in Others(x)' : u = Account[d]
    BY <1>2, <1>3, <1>4
  <2>2. ShownAfter(shown[x], outbox[x], Len(outbox[x]))' = ShownAfter(us, s, Len(s))
    BY <1>6 DEF ShownAfter
  <2>3. QED
    BY <2>1, <2>2 DEF ListConverges
<1>8. NoticesAreOfShown(x)'
  <2>1. ASSUME NEW i \in 1..(Len(q) + 1), s[i].type \in Notices
        PROVE  s[i].user # Account[x] /\ s[i].user \in ShownAfter(us, s, i - 1)
    <3>1. CASE i = Len(q) + 1
      <4>1. i - 1 = Len(q) /\ Len(q) \in 0..Len(q) /\ s[i] = f
        BY <1>2, <3>1
      <4>2. f.user \in Users \ {Account[x]}
        BY <2>1, <4>1, FrameKinds
      <4>3. QED
        BY <1>3, <1>4, <2>1, <4>1, <4>2
    <3>2. CASE i # Len(q) + 1
      <4>1. i \in 1..Len(q) /\ i - 1 \in 0..Len(q)
        BY <1>2, <3>2
      <4>2. QED
        BY <1>2, <1>3, <1>5, <2>1, <4>1
    <3>3. QED
      BY <3>1, <3>2
  <2>2. \A i : ShownAfter(shown[x], outbox[x], i - 1)' = ShownAfter(us, s, i - 1)
    BY <1>6 DEF ShownAfter
  <2>3. QED
    BY <1>2, <1>6, <2>1, <2>2 DEF NoticesAreOfShown
<1>9. QED
  BY <1>7, <1>8 DEF ListIsRight

LEMMA ReadList ==
  ASSUME Basic, NEW x \in Conns, ListIsRight(x), ReadsFrame(x)
  PROVE  ListIsRight(x)'
<1> DEFINE q == outbox[x]
           us == shown[x]
           vs == shown'[x]
           s == Tail(q)
           n == Len(q)
<1>1. q \in Seq(Frames) /\ q # <<>> /\ outbox'[x] = s /\ UNCHANGED <<connRoom, members>> /\ InRoom(x)
  BY DEF Basic, ViewTypeOK, ReadsFrame, vars, lookupVars
<1>2. /\ n \in Nat \ {0} /\ DOMAIN s = 1..(n - 1) /\ Len(s) = n - 1 /\ DOMAIN q = 1..n
      /\ \A i \in 1..(n - 1) : s[i] = q[i + 1]
  BY <1>1, TailQueue
<1>3. \A u \in Users \ {Account[x]} : \A k \in 1..n :
        u \in ShownAfter(vs, s, k - 1) <=> u \in ShownAfter(us, q, k)
  <2> SUFFICES ASSUME NEW u \in Users \ {Account[x]}
               PROVE  \A k \in 1..n : u \in ShownAfter(vs, s, k - 1) <=> u \in ShownAfter(us, q, k)
    OBVIOUS
  <2>1. u \in vs <=> Adds(Head(q), u) \/ (u \in us /\ ~Removes(Head(q), u))
    BY DEF ReadsFrame, Frame
  <2> HIDE DEF q, us, vs
  <2>2. QED
    BY <1>1, <2>1, TailShown
<1>4. \A u \in Users \ {Account[x]} : u \in ShownAfter(us, q, n) <=> \E d \in Others(x) : u = Account[d]
  BY <1>1 DEF ListIsRight, ListConverges
<1>5. \A i \in 1..n : q[i].type \in Notices =>
         q[i].user # Account[x] /\ q[i].user \in ShownAfter(us, q, i - 1)
  BY <1>2 DEF ListIsRight, NoticesAreOfShown
<1>6. \A i \in 1..n : q[i] \in Frames
  BY <1>1, <1>2
<1>7. \A k : ShownAfter(shown[x], outbox[x], k)' = ShownAfter(vs, s, k)
  BY <1>1 DEF ShownAfter
<1>8. outbox'[x] = s /\ Others(x)' = Others(x)
  BY <1>1 DEF Others
<1> HIDE DEF q, us, vs, s, n
<1>9. ListConverges(x)'
  <2>1. n \in 1..n /\ ShownAfter(shown[x], outbox[x], Len(outbox[x]))' = ShownAfter(vs, s, n - 1)
    BY <1>2, <1>7, <1>8
  <2>2. QED
    BY <1>3, <1>4, <1>8, <2>1 DEF ListConverges
<1>10. NoticesAreOfShown(x)'
  <2>1. ASSUME NEW i \in 1..(n - 1), s[i].type \in Notices
        PROVE  s[i].user # Account[x] /\ s[i].user \in ShownAfter(vs, s, i - 1)
    <3>1. i \in 1..n /\ i + 1 \in 1..n /\ (i + 1) - 1 = i /\ s[i] = q[i + 1]
      BY <1>2
    <3>2. q[i + 1].user \in Users
      BY <1>6, <2>1, <3>1, FrameKinds
    <3>3. QED
      BY <1>3, <1>5, <2>1, <3>1, <3>2
  <2>2. QED
    BY <1>2, <1>7, <1>8, <2>1 DEF NoticesAreOfShown
<1>11. QED
  BY <1>9, <1>10 DEF ListIsRight

(* The frames of a newcomer list the others.                                 *)
LEMMA WelcomeShows ==
  ASSUME Consistent, Basic, NEW c \in Conns, NEW r \in Rooms, NEW id, NEW replay \in ReplayOrders(r)
  PROVE  LET W == Welcome(id, {Account[d] : d \in members[r]}, settings[r], replay)
         IN  /\ \A u \in Users : u \in ShownAfter({}, W, Len(W)) <=> \E d \in members[r] : u = Account[d]
             /\ \A i \in DOMAIN W : W[i].type \notin Notices
<1> DEFINE A == {Account[d] : d \in members[r]}
           F == <<JoinResponse(id), PartnerJoin2(A), RoomSettingsNotify(settings[r])>>
           W == F \o replay
           m == Len(replay)
<1>1. /\ replay \in Seq(Frames)
      /\ \A i \in DOMAIN replay : \E d \in members[r] : replay[i] = UserProfile(Account[d], profile[d])
  BY ReplayType
<1>2. /\ m \in Nat /\ Len(W) = m + 3 /\ DOMAIN W = 1..(m + 3) /\ DOMAIN replay = 1..m
      /\ W[1] = JoinResponse(id) /\ W[2] = PartnerJoin2(A) /\ W[3] = RoomSettingsNotify(settings[r])
      /\ \A i \in 1..m : W[i + 3] = replay[i]
  BY <1>1
<1> HIDE DEF W, A
<1>3. ASSUME NEW i \in 1..(m + 3)
      PROVE  i \in {1, 2, 3} \/ \E d \in members[r] : W[i] = UserProfile(Account[d], profile[d])
  <2>1. i \in {1, 2, 3} \/ (i - 3 \in 1..m /\ (i - 3) + 3 = i)
    BY <1>2
  <2>2. ASSUME i - 3 \in 1..m, (i - 3) + 3 = i
        PROVE  \E d \in members[r] : W[i] = UserProfile(Account[d], profile[d])
    <3>1. W[i] = replay[i - 3]
      BY <1>2, <2>2
    <3>2. QED
      BY <1>1, <1>2, <2>2, <3>1
  <2>3. QED
    BY <2>1, <2>2
<1>4. ASSUME NEW i \in 1..(m + 3)
      PROVE  /\ W[i].type \notin Notices
             /\ \A u \in Users : /\ ~Removes(W[i], u)
                                 /\ Adds(W[i], u) => \E d \in members[r] : u = Account[d]
  <2>1. CASE i \in {1, 3}
    BY <1>2, <2>1, NoticesAreForwarded DEF JoinResponse, RoomSettingsNotify, Adds, Removes
  <2>2. CASE i = 2
    BY <1>2, <2>2, NoticesAreForwarded DEF PartnerJoin2, Adds, Removes, A
  <2>3. CASE \E d \in members[r] : W[i] = UserProfile(Account[d], profile[d])
    BY <2>3, NoticesAreForwarded DEF UserProfile, Adds, Removes
  <2>4. QED
    BY <1>3, <2>1, <2>2, <2>3
<1>5. \A u \in Users : (\E d \in members[r] : u = Account[d]) => Adds(W[2], u)
  BY <1>2 DEF PartnerJoin2, Adds, A
<1>6. 2 \in 1..(m + 3) /\ \A j \in (2 + 1)..(m + 3) : j \in 1..(m + 3)
  BY <1>2
<1>7. \A u \in Users : u \in ShownAfter({}, W, m + 3) <=> \E d \in members[r] : u = Account[d]
  <2>1. ASSUME NEW u \in Users, \E d \in members[r] : u = Account[d]
        PROVE  \E i \in 1..(m + 3) : Adds(W[i], u) /\ \A j \in (i + 1)..(m + 3) : ~Removes(W[j], u)
    BY <1>4, <1>5, <1>6, <2>1
  <2>2. QED
    BY <1>4, <2>1 DEF ShownAfter
<1>8. QED
  BY <1>2, <1>4, <1>7 DEF W, A, Welcome

LEMMA NewcomerList ==
  ASSUME Consistent, Consistent', Basic, AccountsDiffer, NEW c \in Conns, ServerReads(c),
         ~InRoom(c), InRoom(c)'
  PROVE  ListIsRight(c)'
<1>1. shown'[c] = {}
  BY ReadsEffect DEF Basic, LobbyIsBlank
<1>2. CASE \E r \in Rooms, id \in RoomIds : Creates(c, r, id)
  <2>1. PICK r \in Rooms, id \in RoomIds : Creates(c, r, id)
    BY <1>2
  <2>2. outbox'[c] = <<CreateResponse(id)>> /\ connRoom'[c] = r /\ members'[r] = {c}
    BY <2>1 DEF Creates, Basic, ViewTypeOK, Consistent, TypeOK
  <2>3. Others(c)' = {}
    BY <2>2 DEF Others
  <2> DEFINE q == <<CreateResponse(id)>>
  <2>4. Len(q) = 1 /\ DOMAIN q = 1..1 /\ q[1] = CreateResponse(id) /\ q[1].type \notin Notices
    BY NoticesAreForwarded DEF CreateResponse
  <2>5. \A i \in 1..1, u \in Users : ~Adds(q[i], u) /\ q[i].type \notin Notices
    BY <2>4 DEF Adds, CreateResponse
  <2> HIDE DEF q
  <2>6. ShownAfter({}, q, 1) = {}
    BY <2>5 DEF ShownAfter
  <2>7. outbox'[c] = q
    BY <2>2 DEF q
  <2>8. ShownAfter(shown[c], outbox[c], Len(outbox[c]))' = {}
    BY <1>1, <2>4, <2>6, <2>7 DEF ShownAfter
  <2>9. QED
    BY <2>3, <2>4, <2>5, <2>7, <2>8 DEF ListIsRight, ListConverges, NoticesAreOfShown
<1>3. CASE \E r \in Rooms, id \in RoomIds : \E replay \in ReplayOrders(r) : Joins(c, r, id, replay)
  <2>1. PICK r \in Rooms, id \in RoomIds : \E replay \in ReplayOrders(r) : Joins(c, r, id, replay)
    BY <1>3
  <2>2. PICK replay \in ReplayOrders(r) : Joins(c, r, id, replay)
    BY <2>1
  <2> DEFINE W == Welcome(id, {Account[d] : d \in members[r]}, settings[r], replay)
  <2>3. outbox'[c] = W /\ connRoom'[c] = r /\ members'[r] = members[r] \cup {c} /\ c \notin members[r]
    BY <2>2 DEF Joins, Basic, ViewTypeOK, Consistent, TypeOK
  <2>4. Others(c)' = members[r]
    BY <2>3 DEF Others
  <2>5. /\ \A u \in Users : u \in ShownAfter({}, W, Len(W)) <=> \E d \in members[r] : u = Account[d]
        /\ \A i \in DOMAIN W : W[i].type \notin Notices
    BY WelcomeShows
  <2> HIDE DEF W
  <2>6. ShownAfter(shown[c], outbox[c], Len(outbox[c]))' = ShownAfter({}, W, Len(W))
    BY <1>1, <2>3 DEF ShownAfter
  <2>7. QED
    BY <2>3, <2>4, <2>5, <2>6 DEF ListIsRight, ListConverges, NoticesAreOfShown
<1>4. QED
  BY <1>2, <1>3, ReadsEffect DEF Refuses, Notifies, Profiles, Switches, RoomsKept, InRoom

LEMMA ReadsList ==
  ASSUME Consistent, Consistent', Basic, Basic', AccountsDiffer, NEW c \in Conns, ServerReads(c),
         \A x \in Conns : ListIsRight(x), NEW x \in Conns
  PROVE  ListIsRight(x)'
<1>1. shown' = shown /\ Account[c] \in Users /\ Account[x] \in Users
  BY ReadsEffect, AccountsAreUsers
<1>2. CASE x = c /\ ~InRoom(c) /\ InRoom(c)'
  BY <1>2, NewcomerList
<1>3. CASE ~InRoom(x)'
  BY <1>3, LobbyList
<1>4. ASSUME connRoom'[x] = connRoom[x], Others(x)' = Others(x), outbox'[x] = outbox[x]
      PROVE  ListIsRight(x)'
  BY <1>1, <1>4, KeptList
<1>5. ASSUME NEW r \in Rooms, NEW id \in RoomIds, Creates(c, r, id), InRoom(x)', x # c
      PROVE  ListIsRight(x)'
  <2>1. connRoom'[x] = connRoom[x] /\ outbox'[x] = outbox[x]
    BY <1>5 DEF Creates, Basic, ViewTypeOK, Consistent, TypeOK
  <2>2. connRoom[x] # r
    BY <1>5, <2>1, Members DEF Creates, InRoom
  <2>3. Others(x)' = Others(x)
    BY <1>5, <2>1, <2>2 DEF Creates, Others, Consistent, TypeOK
  <2>4. QED
    BY <1>4, <2>1, <2>3
<1>6. ASSUME NEW r \in Rooms, NEW id \in RoomIds, NEW replay \in ReplayOrders(r),
             Joins(c, r, id, replay), InRoom(x)', x # c
      PROVE  ListIsRight(x)'
  <2>1. connRoom'[x] = connRoom[x] /\ InRoom(x)
        /\ members' = [members EXCEPT ![r] = @ \cup {c}] /\ c \notin members[r]
        /\ outbox'[x] = IF x \in members[r] THEN outbox[x] \o <<PartnerJoin(Account[c])>> ELSE outbox[x]
    BY <1>6 DEF Joins, Consistent, TypeOK, InRoom
  <2>2. CASE x \notin members[r]
    <3>1. Others(x)' = Others(x)
      BY <2>1, <2>2, Members DEF Others, Consistent, TypeOK
    <3>2. QED
      BY <1>4, <2>1, <2>2, <3>1
  <2>3. CASE x \in members[r]
    <3>1. Others(x)' = Others(x) \cup {c}
      BY <1>6, <2>1, <2>3, Members DEF Others, Consistent, TypeOK
    <3> DEFINE f == PartnerJoin(Account[c])
    <3>2. f \in Frames /\ f.type \notin Notices
          /\ \A u \in Users : (Adds(f, u) <=> u = Account[c]) /\ ~Removes(f, u)
      BY <1>1, FrameTypes, NoticesAreForwarded DEF PartnerJoin, Adds, Removes
    <3> HIDE DEF f
    <3>3. \A u \in Users \ {Account[x]} :
            (\E d \in Others(x)' : u = Account[d])
              <=> Adds(f, u) \/ ((\E d \in Others(x) : u = Account[d]) /\ ~Removes(f, u))
      BY <3>1, <3>2
    <3>4. outbox'[x] = outbox[x] \o <<f>>
      BY <2>1, <2>3 DEF f
    <3>5. QED
      BY <1>1, <2>1, <3>2, <3>3, <3>4, AppendedList
  <2>4. QED
    BY <2>2, <2>3
<1>7. ASSUME NEW X, NEW f \in Frames, RoomsKept, Queued(X, f), InRoom(x),
             \A u \in Users : ~Removes(f, u),
             x \in X => \A u \in Users : Adds(f, u) => \E d \in Others(x) : u = Account[d],
             x \in X /\ f.type \in Notices =>
               f.user # Account[x] /\ \E d \in Others(x) : f.user = Account[d]
      PROVE  ListIsRight(x)'
  <2>1. connRoom'[x] = connRoom[x] /\ Others(x)' = Others(x)
    BY <1>7 DEF RoomsKept, Others
  <2>2. CASE x \notin X
    BY <1>4, <1>7, <2>1, <2>2 DEF Queued
  <2>3. CASE x \in X
    <3>1. outbox'[x] = outbox[x] \o <<f>>
      BY <1>7, <2>3 DEF Queued
    <3>2. \A u \in Users \ {Account[x]} :
            (\E d \in Others(x)' : u = Account[d])
              <=> Adds(f, u) \/ ((\E d \in Others(x) : u = Account[d]) /\ ~Removes(f, u))
      BY <1>7, <2>1, <2>3
    <3>3. QED
      BY <1>1, <1>7, <2>1, <2>3, <3>1, <3>2, AppendedList
  <2>4. QED
    BY <2>2, <2>3
(* what a member sends the others is about itself                            *)
<1>8. ASSUME InRoom(c), x \in Others(c)
      PROVE  InRoom(x) /\ c \in Others(x) /\ Account[c] # Account[x]
  <2>1. connRoom[x] = connRoom[c] /\ x # c
    BY <1>8, Members
  <2>2. InRoom(x)
    BY <1>8, <2>1 DEF InRoom
  <2>3. c \in Others(x)
    BY <2>1, <2>2, Members
  <2>4. QED
    BY <2>1, <2>2, <2>3 DEF AccountsDiffer
<1>9. ASSUME NEW type \in Notices, Notifies(c, type), InRoom(x)
      PROVE  ListIsRight(x)'
  <2> DEFINE f == Notice(type, Account[c])
  <2>1. f \in Frames /\ f.type \in Notices /\ f.user = Account[c]
    BY <1>1, FrameTypes DEF Notice
  <2>2. \A u \in Users : ~Removes(f, u) /\ ~Adds(f, u)
    BY <2>1, NoticesAreForwarded DEF Adds, Removes
  <2>3. RoomsKept /\ Queued(Others(c), f) /\ InRoom(c)
    BY <1>9 DEF Notifies
  <2> HIDE DEF f
  <2>4. QED
    BY <1>7, <1>8, <1>9, <2>1, <2>2, <2>3
<1>10. ASSUME NEW v \in Nat \ {0}, Profiles(c, v), InRoom(x)
       PROVE  ListIsRight(x)'
  <2> DEFINE f == UserProfile(Account[c], v)
  <2>1. f \in Frames /\ f.type \notin Notices
        /\ \A u \in Users : ~Removes(f, u) /\ (Adds(f, u) <=> u = Account[c])
    BY <1>1, FrameTypes, NoticesAreForwarded DEF UserProfile, Adds, Removes
  <2>2. RoomsKept /\ Queued(Others(c), f) /\ InRoom(c)
    BY <1>10 DEF Profiles
  <2> HIDE DEF f
  <2>3. QED
    BY <1>7, <1>8, <1>10, <2>1, <2>2
<1>11. ASSUME NEW g \in Flags, Switches(c, g), InRoom(x)
       PROVE  ListIsRight(x)'
  <2> DEFINE f == RoomSettingsNotify(g)
  <2>1. f \in Frames /\ f.type \notin Notices /\ \A u \in Users : ~Removes(f, u) /\ ~Adds(f, u)
    BY FrameTypes, NoticesAreForwarded DEF RoomSettingsNotify, Adds, Removes
  <2>2. RoomsKept /\ Queued(members[connRoom[c]], f)
    BY <1>11 DEF Switches
  <2> HIDE DEF f
  <2>3. QED
    BY <1>7, <1>11, <2>1, <2>2
<1>12. CASE InRoom(x)' /\ ~(x = c /\ ~InRoom(c))
  <2>1. ASSUME (\E f \in Frames : Refuses(c, f)) \/ (\E type \in Notices : Notifies(c, type))
               \/ (\E v \in Nat \ {0} : Profiles(c, v)) \/ (\E f \in Flags : Switches(c, f))
        PROVE  InRoom(x)
    BY <1>12, <2>1 DEF Refuses, Notifies, Profiles, Switches, RoomsKept, InRoom
  <2>2. ASSUME NEW f \in Frames, Refuses(c, f) PROVE ListIsRight(x)'
    <3>1. InRoom(x) /\ x # c /\ RoomsKept /\ outbox'[x] = outbox[x]
      BY <2>1, <2>2 DEF Refuses, Queued
    <3>2. QED
      BY <1>4, <3>1 DEF RoomsKept, Others
  <2>3. (\E r \in Rooms, id \in RoomIds : Creates(c, r, id))
        \/ (\E r \in Rooms, id \in RoomIds : \E replay \in ReplayOrders(r) : Joins(c, r, id, replay))
          => x # c
    BY <1>12 DEF Creates, Joins
  <2>4. QED
    BY <1>5, <1>6, <1>9, <1>10, <1>11, <1>12, <2>1, <2>2, <2>3, ReadsEffect
<1>13. QED
  BY <1>2, <1>3, <1>12

LEMMA ClosesList ==
  ASSUME Consistent, Consistent', Basic, Basic', AccountsDiffer, ClearMeetings,
         (\E c \in Conns : ConnectionCloses(c)) \/ (\E r \in Rooms : ExpiryRuns(r)),
         NEW x \in Conns, ListIsRight(x)
  PROVE  ListIsRight(x)'
<1>1. CASE ~InRoom(x)'
  BY <1>1, LobbyList
<1>2. CASE InRoom(x)'
  <2>1. Remains(x)
    BY <1>2, ClosesEffect
  <2>2. InRoom(x) /\ connRoom'[x] = connRoom[x] /\ shown'[x] = shown[x]
    BY <2>1 DEF Remains, ClientKept
  <2>3. CASE outbox'[x] = outbox[x] /\ members'[connRoom[x]] = members[connRoom[x]]
    BY <2>2, <2>3, KeptList DEF Others
  <2>4. ASSUME NEW d \in Others(x), members'[connRoom[x]] = members[connRoom[x]] \ {d},
               outbox'[x] = outbox[x] \o <<PartnerExit(Account[d])>>
        PROVE  ListIsRight(x)'
    <3> DEFINE f == PartnerExit(Account[d])
    <3>1. d \in Conns /\ d # x /\ Others(x) \subseteq Conns /\ Others(x)' = Others(x) \ {d}
      BY <2>2, <2>4, Members DEF Others
    <3>2. Account[d] \in Users /\ Account[d] # Account[x]
      BY <3>1, AccountsAreUsers DEF AccountsDiffer
    <3>3. f \in Frames /\ f.type \notin Notices
          /\ \A u \in Users : (Removes(f, u) <=> u = Account[d]) /\ ~Adds(f, u)
      BY <3>2, FrameTypes, NoticesAreForwarded DEF PartnerExit, Adds, Removes
    <3>4. outbox'[x] = outbox[x] \o <<f>>
      BY <2>4
    <3> HIDE DEF f
    <3>5. \A u \in Users \ {Account[x]} :
            (\E e \in Others(x)' : u = Account[e])
              <=> Adds(f, u) \/ ((\E e \in Others(x) : u = Account[e]) /\ ~Removes(f, u))
      BY <3>1, <3>3 DEF AccountsDiffer
    <3>6. QED
      BY <2>2, <3>3, <3>4, <3>5, AppendedList
  <2>5. QED
    BY <2>1, <2>3, <2>4 DEF Remains
<1>3. QED
  BY <1>1, <1>2

LEMMA NextList ==
  ASSUME Consistent, Consistent', Basic, Basic', AccountsDiffer, [ViewNext]_viewVars,
         \A x \in Conns : ListIsRight(x)
  PROVE  \A x \in Conns : ListIsRight(x)'
<1> SUFFICES ASSUME NEW x \in Conns PROVE ListIsRight(x)'
  OBVIOUS
<1>1. ASSUME connRoom' = connRoom, members' = members, outbox' = outbox, shown' = shown
      PROVE  ListIsRight(x)'
  BY <1>1, KeptList DEF Others
<1>2. UNCHANGED viewVars \/ (\E c \in Conns, p \in Asks : Ask(c, p)) => ListIsRight(x)'
  BY <1>1 DEF viewVars, vars, lookupVars, relayVars, clientVars, Ask
<1>3. ASSUME NEW c \in Conns, \/ \E type \in Notices : SendNotice(c, type)
                              \/ EditProfile(c)
                              \/ \E f \in Flags : EditSettings(c, f)
      PROVE  ListIsRight(x)'
  BY <1>1, <1>3, UserActsEffect DEF UserUploads, vars, lookupVars, relayVars
<1>4. ASSUME NEW c \in Conns, ClientReads(c), ~OnMeetingRefused(c)
      PROVE  ListIsRight(x)'
  <2>1. ReadsFrame(c)
    BY <1>4, ClientReadsEffect
  <2>2. CASE x = c
    BY <2>1, <2>2, ReadList
  <2>3. CASE x # c
    BY <2>1, <2>3, KeptList DEF ReadsFrame, ClientKept, vars, lookupVars, Others, Basic, ViewTypeOK
  <2>4. QED
    BY <2>2, <2>3
<1>5. QED
  BY <1>2, <1>3, <1>4, ViewSteps, ReadsList, ClosesList

-----------------------------------------------------------------------------
(* The room switches *)

LEMMA AppendedFlags ==
  ASSUME Basic, NEW x \in Conns, NEW f \in Frames, NEW g \in Flags,
         outbox'[x] = outbox[x] \o <<f>>, flags'[x] = flags[x],
         f = RoomSettingsNotify(g) \/ (f \notin SettingsFrames /\ WillApplyFlags(x, g))
  PROVE  WillApplyFlags(x, g)'
<1> DEFINE q == outbox[x]
<1>1. q \in Seq(Frames)
  BY DEF Basic, ViewTypeOK
<1>2. NoneIn(q \o <<f>>, SettingsFrames) <=> NoneIn(q, SettingsFrames) /\ f \notin SettingsFrames
  BY <1>1, AppendedNone
<1>3. LastIs(q \o <<f>>, SettingsFrames, RoomSettingsNotify(g))
        <=> \/ f \in SettingsFrames /\ f = RoomSettingsNotify(g)
            \/ f \notin SettingsFrames /\ LastIs(q, SettingsFrames, RoomSettingsNotify(g))
  BY <1>1, AppendedLast
<1>4. RoomSettingsNotify(g) \in SettingsFrames
  BY DEF RoomSettingsNotify, SettingsFrames
<1> HIDE DEF q
<1>5. \/ flags[x] = g /\ NoneIn(q \o <<f>>, SettingsFrames)
      \/ LastIs(q \o <<f>>, SettingsFrames, RoomSettingsNotify(g))
  BY <1>2, <1>3, <1>4 DEF WillApplyFlags, q
<1>6. outbox'[x] = q \o <<f>> /\ RoomSettingsNotify(g)' = RoomSettingsNotify(g)
  BY DEF q
<1>7. QED
  BY <1>5, <1>6 DEF WillApplyFlags, NoneIn, LastIs, SettingsFrames

LEMMA ReadFlags ==
  ASSUME Basic, NEW x \in Conns, ReadsFrame(x), NEW g \in Flags, WillApplyFlags(x, g)
  PROVE  WillApplyFlags(x, g)'
<1> DEFINE q == outbox[x]
           n == RoomSettingsNotify(g)
<1>1. q \in Seq(Frames) /\ q # <<>> /\ outbox'[x] = Tail(q) /\ Head(q) = Frame(x)
  BY DEF Basic, ViewTypeOK, ReadsFrame, Frame
<1>2. /\ NoneIn(q, SettingsFrames) <=> Head(q) \notin SettingsFrames /\ NoneIn(Tail(q), SettingsFrames)
      /\ LastIs(q, SettingsFrames, n)
           <=> \/ LastIs(Tail(q), SettingsFrames, n)
               \/ Head(q) = n /\ n \in SettingsFrames /\ NoneIn(Tail(q), SettingsFrames)
  BY <1>1, TailNone, TailLast
<1>3. flags'[x] = IF Head(q) \in SettingsFrames THEN Head(q).flags ELSE flags[x]
  BY <1>1 DEF ReadsFrame
<1>4. n.flags = g
  BY DEF RoomSettingsNotify
<1> HIDE DEF q, n
<1>5. \/ flags'[x] = g /\ NoneIn(Tail(q), SettingsFrames)
      \/ LastIs(Tail(q), SettingsFrames, n)
  BY <1>2, <1>3, <1>4 DEF WillApplyFlags, q, n
<1>6. outbox'[x] = Tail(q)
  BY <1>1
<1>7. QED
  BY <1>5, <1>6 DEF WillApplyFlags, NoneIn, LastIs, SettingsFrames, n, RoomSettingsNotify

LEMMA KeptSwitches ==
  ASSUME Basic, NEW x \in Conns, SwitchesConverge(x), InRoom(x),
         connRoom'[x] = connRoom[x], flags'[x] = flags[x],
         settings'[connRoom[x]] = settings[connRoom[x]], connRoom[x] \in Rooms,
         NoneIn(uplink[x], SettingsPackets)' => NoneIn(uplink[x], SettingsPackets),
         \/ outbox'[x] = outbox[x]
         \/ \E f \in Frames \ SettingsFrames : outbox'[x] = outbox[x] \o <<f>>
  PROVE  SwitchesConverge(x)'
<1>1. SUFFICES ASSUME NoneIn(uplink[x], SettingsPackets)' PROVE SwitchesConverge(x)'
  BY DEF SwitchesConverge
<1>2. PICK g \in Flags : g = settings[connRoom[x]] /\ g = settings'[connRoom'[x]]
  BY DEF Basic, ViewTypeOK
<1>3. WillApplyFlags(x, g)
  BY <1>1, <1>2 DEF SwitchesConverge
<1>4. WillApplyFlags(x, g)'
  <2>1. CASE outbox'[x] = outbox[x]
    BY <1>3, <2>1 DEF WillApplyFlags, NoneIn, LastIs, SettingsFrames, RoomSettingsNotify
  <2>2. CASE \E f \in Frames \ SettingsFrames : outbox'[x] = outbox[x] \o <<f>>
    BY <1>3, <2>2, AppendedFlags
  <2>3. QED
    BY <2>1, <2>2
<1>5. QED
  BY <1>2, <1>4 DEF SwitchesConverge, WillApplyFlags

(* A newcomer starts with the default switches and is told those of the room. *)
LEMMA WelcomeSettles ==
  ASSUME Consistent, Basic, NEW r \in Rooms, NEW id, NEW replay \in ReplayOrders(r), NEW us
  PROVE  LastIs(Welcome(id, us, settings[r], replay), SettingsFrames, RoomSettingsNotify(settings[r]))
<1> DEFINE F == <<JoinResponse(id), PartnerJoin2(us), RoomSettingsNotify(settings[r])>>
           W == F \o replay
           m == Len(replay)
<1>1. /\ replay \in Seq(Frames)
      /\ \A i \in DOMAIN replay : \E d \in members[r] : replay[i] = UserProfile(Account[d], profile[d])
  BY ReplayType
<1>2. /\ m \in Nat /\ DOMAIN W = 1..(m + 3) /\ DOMAIN replay = 1..m
      /\ W[3] = RoomSettingsNotify(settings[r])
      /\ \A i \in 1..m : W[i + 3] = replay[i]
  BY <1>1
<1> HIDE DEF W
<1>3. ASSUME NEW j \in 1..(m + 3), j > 3 PROVE W[j] \notin SettingsFrames
  <2>1. j - 3 \in 1..m /\ (j - 3) + 3 = j
    BY <1>2, <1>3
  <2>2. W[j] = replay[j - 3]
    BY <1>2, <2>1
  <2>3. QED
    BY <1>1, <1>2, <2>1, <2>2 DEF UserProfile, SettingsFrames
<1>4. settings[r] \in Flags
  BY DEF Basic, ViewTypeOK
<1>5. RoomSettingsNotify(settings[r]) \in SettingsFrames /\ 3 \in 1..(m + 3)
  BY <1>2, <1>4 DEF RoomSettingsNotify, SettingsFrames
<1>6. LastIs(W, SettingsFrames, RoomSettingsNotify(settings[r]))
  BY <1>2, <1>3, <1>5 DEF LastIs
<1>7. QED
  BY <1>6 DEF W, Welcome

LEMMA NewcomerSwitches ==
  ASSUME Consistent, Basic, NEW c \in Conns, ServerReads(c), ~InRoom(c), InRoom(c)'
  PROVE  SwitchesConverge(c)'
<1>1. flags'[c] = DefaultFlags
  BY ReadsEffect DEF Basic, LobbyIsBlank
<1>2. CASE \E r \in Rooms, id \in RoomIds : Creates(c, r, id)
  <2>1. PICK r \in Rooms, id \in RoomIds : Creates(c, r, id)
    BY <1>2
  <2>2. /\ outbox'[c] = <<CreateResponse(id)>> /\ connRoom'[c] = r /\ status[r] = "unused"
        /\ settings' = settings
    BY <2>1 DEF Creates, Basic, ViewTypeOK, Consistent, TypeOK
  <2>3. settings'[connRoom'[c]] = DefaultFlags
    BY <2>2 DEF Basic
  <2>4. NoneIn(<<CreateResponse(id)>>, SettingsFrames)
    BY DEF NoneIn, SettingsFrames, CreateResponse
  <2>5. WillApplyFlags(c, settings[connRoom[c]])'
    BY <1>1, <2>2, <2>3, <2>4 DEF WillApplyFlags
  <2>6. QED
    BY <2>5 DEF SwitchesConverge
<1>3. CASE \E r \in Rooms, id \in RoomIds : \E replay \in ReplayOrders(r) : Joins(c, r, id, replay)
  <2>1. PICK r \in Rooms, id \in RoomIds : \E replay \in ReplayOrders(r) : Joins(c, r, id, replay)
    BY <1>3
  <2>2. PICK replay \in ReplayOrders(r) : Joins(c, r, id, replay)
    BY <2>1
  <2> DEFINE W == Welcome(id, {Account[d] : d \in members[r]}, settings[r], replay)
  <2>3. outbox'[c] = W /\ connRoom'[c] = r /\ settings' = settings
    BY <2>2 DEF Joins, Basic, ViewTypeOK, Consistent, TypeOK
  <2>4. LastIs(W, SettingsFrames, RoomSettingsNotify(settings[r]))
    BY WelcomeSettles
  <2> HIDE DEF W
  <2>5. LastIs(outbox'[c], SettingsFrames, RoomSettingsNotify(settings'[connRoom'[c]]))
    BY <2>3, <2>4
  <2>6. QED
    BY <2>5 DEF SwitchesConverge, WillApplyFlags, LastIs, SettingsFrames, RoomSettingsNotify
<1>4. QED
  BY <1>2, <1>3, ReadsEffect DEF Refuses, Notifies, Profiles, Switches, RoomsKept, InRoom

(* Packets leave the uplink one by one.                                       *)
LEMMA ReadUplink ==
  ASSUME Basic, NEW c \in Conns, uplink[c] # <<>>, uplink' = [uplink EXCEPT ![c] = Tail(@)]
  PROVE  /\ \A x \in Conns \ {c} : uplink'[x] = uplink[x]
         /\ \A S : NoneIn(uplink[c], S) <=> Head(uplink[c]) \notin S /\ NoneIn(uplink'[c], S)
         /\ \A S, f : LastIs(uplink[c], S, f)
              <=> \/ LastIs(uplink'[c], S, f)
                  \/ Head(uplink[c]) = f /\ f \in S /\ NoneIn(uplink'[c], S)
<1> DEFINE q == uplink[c]
<1>1. q \in Seq(Packets) /\ q # <<>> /\ uplink'[c] = Tail(q)
  BY DEF Basic, ViewTypeOK
<1>2. \A S : NoneIn(q, S) <=> Head(q) \notin S /\ NoneIn(Tail(q), S)
  BY <1>1, TailNone
<1>3. \A S, f : LastIs(q, S, f) <=> \/ LastIs(Tail(q), S, f)
                                    \/ Head(q) = f /\ f \in S /\ NoneIn(Tail(q), S)
  BY <1>1, TailLast
<1>4. \A x \in Conns \ {c} : uplink'[x] = uplink[x]
  BY DEF Basic, ViewTypeOK
<1> HIDE DEF q
<1>5. /\ \A S : NoneIn(q, S) <=> Head(q) \notin S /\ NoneIn(uplink'[c], S)
      /\ \A S, f : LastIs(q, S, f) <=> \/ LastIs(uplink'[c], S, f)
                                       \/ Head(q) = f /\ f \in S /\ NoneIn(uplink'[c], S)
  BY <1>1, <1>2, <1>3
<1>6. QED
  BY <1>4, <1>5 DEF q

LEMMA OtherFrames ==
  /\ \A u : PartnerJoin(u) \notin SettingsFrames /\ PartnerExit(u) \notin SettingsFrames
  /\ \A u, v : UserProfile(u, v) \notin SettingsFrames
  /\ \A u : \A type \in Notices : Notice(type, u) \notin SettingsFrames
  /\ \A u, w : PartnerJoin(w) \notin FramesAbout(u)
  /\ \A u, f : RoomSettingsNotify(f) \notin FramesAbout(u)
  /\ \A u, w : \A type \in Notices : Notice(type, w) \notin FramesAbout(u)
  /\ \A u, w, v : w # u => UserProfile(w, v) \notin FramesAbout(u) /\ PartnerExit(w) \notin FramesAbout(u)
  /\ \A u, v : v \in Nat => UserProfile(u, v) \in FramesAbout(u)
BY NoticesAreForwarded DEF PartnerJoin, PartnerExit, UserProfile, Notice, RoomSettingsNotify,
   SettingsFrames, FramesAbout

LEMMA ReadsSwitches ==
  ASSUME Consistent, Basic, NEW c \in Conns, ServerReads(c),
         NEW x \in Conns, SwitchesConverge(x)
  PROVE  SwitchesConverge(x)'
<1>1. /\ uplink[c] # <<>> /\ uplink' = [uplink EXCEPT ![c] = Tail(@)] /\ flags' = flags
      /\ Account[c] \in Users
  BY ReadsEffect, AccountsAreUsers
<1>2. Head(uplink[c]) \notin SettingsPackets \/ x # c
        => (NoneIn(uplink[x], SettingsPackets)' => NoneIn(uplink[x], SettingsPackets))
  <2>1. CASE x = c
    <3>1. NoneIn(uplink[c], SettingsPackets)
            <=> Head(uplink[c]) \notin SettingsPackets /\ NoneIn(uplink'[c], SettingsPackets)
      BY <1>1, ReadUplink
    <3>2. QED
      BY <2>1, <3>1 DEF NoneIn, SettingsPackets
  <2>2. CASE x # c
    <3>1. uplink'[x] = uplink[x]
      BY <1>1, <2>2, ReadUplink
    <3>2. QED
      BY <3>1 DEF NoneIn, SettingsPackets
  <2>3. QED
    BY <2>1, <2>2
<1>3. CASE x = c /\ ~InRoom(c) /\ InRoom(c)'
  BY <1>3, NewcomerSwitches
<1>4. CASE ~InRoom(x)'
  BY <1>4 DEF SwitchesConverge
<1>5. CASE InRoom(x)' /\ ~(x = c /\ ~InRoom(c))
  <2>1. ASSUME InRoom(x), connRoom'[x] = connRoom[x], settings'[connRoom[x]] = settings[connRoom[x]],
               Head(uplink[c]) \notin SettingsPackets \/ x # c,
               \/ outbox'[x] = outbox[x]
               \/ \E f \in Frames \ SettingsFrames : outbox'[x] = outbox[x] \o <<f>>
        PROVE  SwitchesConverge(x)'
    <3>1. connRoom[x] \in Rooms
      BY <2>1, Members
    <3>2. QED
      BY <1>1, <1>2, <2>1, <3>1, KeptSwitches
  <2>2. ASSUME NEW r \in Rooms, NEW id \in RoomIds, Creates(c, r, id) PROVE SwitchesConverge(x)'
    <3>1. x # c /\ connRoom'[x] = connRoom[x] /\ outbox'[x] = outbox[x] /\ settings' = settings
      BY <1>5, <2>2 DEF Creates, Basic, ViewTypeOK, Consistent, TypeOK
    <3>2. QED
      BY <1>5, <2>1, <3>1 DEF InRoom
  <2>3. ASSUME NEW r \in Rooms, NEW id \in RoomIds, NEW replay \in ReplayOrders(r),
               Joins(c, r, id, replay)
        PROVE  SwitchesConverge(x)'
    <3>1. x # c /\ connRoom'[x] = connRoom[x] /\ settings' = settings
      BY <1>5, <2>3 DEF Joins, Consistent, TypeOK
    <3>2. outbox'[x] = outbox[x] \/ outbox'[x] = outbox[x] \o <<PartnerJoin(Account[c])>>
      BY <2>3, <3>1 DEF Joins
    <3>3. PartnerJoin(Account[c]) \in Frames \ SettingsFrames
      BY <1>1, FrameTypes, OtherFrames
    <3>4. QED
      BY <1>5, <2>1, <3>1, <3>2, <3>3 DEF InRoom
  <2>4. ASSUME NEW f \in Frames, Refuses(c, f) PROVE SwitchesConverge(x)'
    <3>1. InRoom(x) /\ x # c /\ connRoom' = connRoom /\ settings' = settings /\ outbox'[x] = outbox[x]
      BY <1>5, <2>4 DEF Refuses, RoomsKept, Queued, InRoom
    <3>2. QED
      BY <2>1, <3>1
  <2>5. ASSUME NEW type \in Notices, Notifies(c, type) PROVE SwitchesConverge(x)'
    <3>1. /\ InRoom(x) /\ connRoom' = connRoom /\ settings' = settings
          /\ Head(uplink[c]) \notin SettingsPackets
          /\ outbox'[x] = outbox[x] \/ outbox'[x] = outbox[x] \o <<Notice(type, Account[c])>>
      BY <1>5, <2>5 DEF Notifies, RoomsKept, Queued, InRoom
    <3>2. Notice(type, Account[c]) \in Frames \ SettingsFrames
      BY <1>1, FrameTypes, OtherFrames
    <3>3. QED
      BY <2>1, <3>1, <3>2
  <2>6. ASSUME NEW v \in Nat \ {0}, Profiles(c, v) PROVE SwitchesConverge(x)'
    <3>1. /\ InRoom(x) /\ connRoom' = connRoom /\ settings' = settings
          /\ Head(uplink[c]) = ProfilePacket(c, v)
          /\ outbox'[x] = outbox[x] \/ outbox'[x] = outbox[x] \o <<UserProfile(Account[c], v)>>
      BY <1>5, <2>6 DEF Profiles, RoomsKept, Queued, InRoom
    <3>2. UserProfile(Account[c], v) \in Frames \ SettingsFrames
      BY <1>1, FrameTypes, OtherFrames
    <3>3. QED
      BY <2>1, <3>1, <3>2, ProfilePacketType
  <2>7. ASSUME NEW g \in Flags, Switches(c, g) PROVE SwitchesConverge(x)'
    <3>1. /\ InRoom(x) /\ InRoom(c) /\ connRoom' = connRoom
          /\ settings' = [settings EXCEPT ![connRoom[c]] = g]
          /\ outbox'[x] = IF x \in members[connRoom[c]] THEN outbox[x] \o <<RoomSettingsNotify(g)>>
                          ELSE outbox[x]
      BY <1>5, <2>7 DEF Switches, RoomsKept, Queued, InRoom
    <3>2. connRoom[x] \in Rooms /\ connRoom[c] \in Rooms /\ x \in members[connRoom[x]]
      BY <3>1, Members
    <3>3. CASE connRoom[x] = connRoom[c]
      <4>1. settings'[connRoom'[x]] = g /\ RoomSettingsNotify(g) \in Frames
        BY <3>1, <3>2, <3>3, FrameTypes DEF Basic, ViewTypeOK
      <4>2. WillApplyFlags(x, g)'
        BY <1>1, <3>1, <3>2, <3>3, <4>1, AppendedFlags
      <4>3. QED
        BY <4>1, <4>2 DEF SwitchesConverge, WillApplyFlags
    <3>4. CASE connRoom[x] # connRoom[c]
      <4>1. x \notin members[connRoom[c]] /\ x # c
        BY <3>1, <3>2, <3>4, Members
      <4>2. settings'[connRoom[x]] = settings[connRoom[x]]
        BY <3>1, <3>2, <3>4 DEF Basic, ViewTypeOK
      <4>3. QED
        BY <2>1, <3>1, <4>1, <4>2
    <3>5. QED
      BY <3>3, <3>4
  <2>8. QED
    BY <2>2, <2>3, <2>4, <2>5, <2>6, <2>7, ReadsEffect
<1>6. QED
  BY <1>3, <1>4, <1>5

LEMMA ClosesSwitches ==
  ASSUME Consistent, Consistent', Basic, ClearMeetings,
         (\E c \in Conns : ConnectionCloses(c)) \/ (\E r \in Rooms : ExpiryRuns(r)),
         NEW x \in Conns, SwitchesConverge(x)
  PROVE  SwitchesConverge(x)'
<1>1. CASE ~InRoom(x)'
  BY <1>1 DEF SwitchesConverge
<1>2. CASE InRoom(x)'
  <2>1. Remains(x)
    BY <1>2, ClosesEffect
  <2>2. \A d \in Others(x) : PartnerExit(Account[d]) \in Frames \ SettingsFrames
    BY <2>1, Members, AccountsAreUsers, FrameTypes, OtherFrames DEF Remains
  <2>3. \/ outbox'[x] = outbox[x]
        \/ \E f \in Frames \ SettingsFrames : outbox'[x] = outbox[x] \o <<f>>
    BY <2>1, <2>2 DEF Remains
  <2>4. InRoom(x) /\ connRoom[x] \in Rooms /\ uplink'[x] = uplink[x]
        /\ connRoom'[x] = connRoom[x] /\ flags'[x] = flags[x]
        /\ settings'[connRoom[x]] = settings[connRoom[x]]
    BY <2>1, Members DEF Remains, ClientKept
  <2>5. NoneIn(uplink[x], SettingsPackets)' => NoneIn(uplink[x], SettingsPackets)
    BY <2>4 DEF NoneIn, SettingsPackets
  <2>6. QED
    BY <2>3, <2>4, <2>5, KeptSwitches
<1>3. QED
  BY <1>1, <1>2

LEMMA NextSwitches ==
  ASSUME Consistent, Consistent', Basic, Basic', [ViewNext]_viewVars,
         NEW x \in Conns, SwitchesConverge(x)
  PROVE  SwitchesConverge(x)'
<1>1. ASSUME InRoom(x), connRoom' = connRoom, settings' = settings, outbox'[x] = outbox[x],
             flags'[x] = flags[x],
             NoneIn(uplink[x], SettingsPackets)' => NoneIn(uplink[x], SettingsPackets)
      PROVE  SwitchesConverge(x)'
  BY <1>1, KeptSwitches, Members
<1>2. ASSUME ~InRoom(x), connRoom' = connRoom PROVE SwitchesConverge(x)'
  BY <1>2 DEF SwitchesConverge, InRoom
<1>3. ASSUME uplink'[x] = uplink[x]
      PROVE  NoneIn(uplink[x], SettingsPackets)' => NoneIn(uplink[x], SettingsPackets)
  BY <1>3 DEF NoneIn, SettingsPackets
<1>4. ASSUME NEW p \in Packets, uplink'[x] = uplink[x] \o <<p>>
      PROVE  NoneIn(uplink[x], SettingsPackets)'
               => NoneIn(uplink[x], SettingsPackets) /\ p \notin SettingsPackets
  <2>1. uplink[x] \in Seq(Packets)
    BY DEF Basic, ViewTypeOK
  <2>2. NoneIn(uplink[x] \o <<p>>, SettingsPackets)
          <=> NoneIn(uplink[x], SettingsPackets) /\ p \notin SettingsPackets
    BY <2>1, AppendedNone
  <2>3. NoneIn(uplink[x], SettingsPackets)' => NoneIn(uplink'[x], SettingsPackets)
    BY DEF NoneIn, SettingsPackets
  <2>4. QED
    BY <1>4, <2>2, <2>3
<1>5. UNCHANGED viewVars => SwitchesConverge(x)'
  BY DEF viewVars, vars, lookupVars, relayVars, clientVars, SwitchesConverge, WillApplyFlags, InRoom
<1>6. ASSUME NEW c \in Conns, NEW p \in Asks, Ask(c, p) PROVE SwitchesConverge(x)'
  <2>1. UNCHANGED <<connRoom, settings, outbox, flags>> /\ conn[c] = "open" /\ ~asked[c]
        /\ uplink' = [uplink EXCEPT ![c] = Append(@, p)]
    BY <1>6 DEF Ask, Upload, vars, lookupVars, relayVars
  <2>2. CASE InRoom(x)
    <3>1. x # c
      BY <2>1, <2>2 DEF Basic, MemberIsKnown
    <3>2. uplink'[x] = uplink[x]
      BY <2>1, <3>1 DEF Basic, ViewTypeOK
    <3>3. QED
      BY <1>1, <1>3, <2>1, <2>2, <3>2
  <2>3. QED
    BY <1>2, <2>1, <2>2
<1>7. ASSUME NEW c \in Conns, NEW p \in Packets \ Asks, UserUploads(c, p)
      PROVE  SwitchesConverge(x)'
  <2>1. UNCHANGED <<connRoom, settings, outbox>> /\ InRoom(c)
        /\ uplink' = [uplink EXCEPT ![c] = @ \o <<p>>]
    BY <1>7 DEF UserUploads, vars, lookupVars, relayVars
  <2>2. CASE x # c
    <3>1. uplink'[x] = uplink[x] /\ flags'[x] = flags[x]
      BY <1>7, <2>1, <2>2 DEF UserUploads, Basic, ViewTypeOK
    <3>2. QED
      BY <1>1, <1>2, <1>3, <2>1, <3>1
  <2>3. CASE x = c
    <3>1. uplink'[x] = uplink[x] \o <<p>>
      BY <2>1, <2>3 DEF Basic, ViewTypeOK
    <3>2. CASE p \in SettingsPackets
      BY <1>4, <3>1, <3>2 DEF SwitchesConverge
    <3>3. CASE p \notin SettingsPackets
      <4>1. flags' = flags
        BY <1>7, <3>3 DEF UserUploads
      <4>2. QED
        BY <1>1, <1>4, <2>1, <2>3, <3>1, <4>1
    <3>4. QED
      BY <3>2, <3>3
  <2>4. QED
    BY <2>2, <2>3
<1>8. ASSUME NEW c \in Conns, ReadsFrame(c) PROVE SwitchesConverge(x)'
  <2>1. UNCHANGED <<connRoom, settings>>
    BY <1>8 DEF ReadsFrame, vars, lookupVars
  <2>2. CASE x # c
    <3>1. uplink'[x] = uplink[x] /\ flags'[x] = flags[x] /\ outbox'[x] = outbox[x]
      BY <1>8, <2>2 DEF ReadsFrame, ClientKept, Basic, ViewTypeOK
    <3>2. QED
      BY <1>1, <1>2, <1>3, <2>1, <3>1
  <2>3. CASE x = c /\ NoneIn(uplink[x], SettingsPackets)'
    <3>1. version[x] \in Nat \ {0} /\ InRoom(x)
      BY <1>8, <2>3 DEF Basic, ViewTypeOK, ReadsFrame
    <3>2. NoneIn(uplink[x], SettingsPackets)
      BY <1>3, <1>4, <1>8, <2>3, <3>1, ProfilePacketType DEF ReadsFrame
    <3>3. PICK g \in Flags : g = settings[connRoom[x]] /\ g = settings'[connRoom'[x]]
      BY <2>1, <3>1, Members DEF Basic, ViewTypeOK
    <3>4. WillApplyFlags(x, g)
      BY <3>1, <3>2, <3>3 DEF SwitchesConverge
    <3>5. WillApplyFlags(x, g)'
      BY <1>8, <2>3, <3>4, ReadFlags
    <3>6. QED
      BY <3>3, <3>5 DEF SwitchesConverge, WillApplyFlags
  <2>4. QED
    BY <2>2, <2>3 DEF SwitchesConverge
<1>9. QED
  BY <1>5, <1>6, <1>7, <1>8, ViewSteps, ReadsSwitches, ClosesSwitches, UserActsEffect,
     ClientReadsEffect

-----------------------------------------------------------------------------
(* The profiles: what a member has sent *)

LEMMA KeptSent ==
  ASSUME NEW d \in Conns, PresentProfileIsSent(d), connRoom'[d] = connRoom[d],
         uplink'[d] = uplink[d], version'[d] = version[d], profile'[d] = profile[d]
  PROVE  PresentProfileIsSent(d)'
BY DEF PresentProfileIsSent, InRoom, LastIs, NoneIn, ProfilePackets, ProfilePacket

LEMMA UploadedSent ==
  ASSUME Basic, NEW d \in Conns, PresentProfileIsSent(d), connRoom'[d] = connRoom[d],
         NEW p \in Packets, uplink'[d] = uplink[d] \o <<p>>, profile'[d] = profile[d],
         version'[d] \in Nat \ {0},
         p = ProfilePacket(d, version'[d]) \/ (p \notin ProfilePackets /\ version'[d] = version[d])
  PROVE  PresentProfileIsSent(d)'
<1>1. SUFFICES ASSUME InRoom(d) PROVE PresentProfileIsSent(d)'
  BY DEF PresentProfileIsSent, InRoom
<1> DEFINE q == uplink[d]
           PP == ProfilePackets
<1>2. PICK v \in Nat \ {0} : v = version'[d]
  OBVIOUS
<1> DEFINE f == ProfilePacket(d, v)
<1>3. q \in Seq(Packets) /\ uplink'[d] = q \o <<p>> /\ f \in PP
  BY ProfilePacketType DEF Basic, ViewTypeOK
<1>4. /\ NoneIn(q \o <<p>>, PP) <=> NoneIn(q, PP) /\ p \notin PP
      /\ LastIs(q \o <<p>>, PP, f) <=> (p \in PP /\ p = f) \/ (p \notin PP /\ LastIs(q, PP, f))
  BY <1>3, AppendedNone, AppendedLast
<1>5. p = f \/ (p \notin PP /\ version[d] = v)
  BY <1>2
<1>6. version[d] = v => LastIs(q, PP, f) \/ (NoneIn(q, PP) /\ profile[d] \in {0, v})
  BY <1>1 DEF PresentProfileIsSent
<1> HIDE DEF q, PP, f
<1>7. LastIs(q \o <<p>>, PP, f) \/ (NoneIn(q \o <<p>>, PP) /\ profile'[d] \in {0, v})
  BY <1>3, <1>4, <1>5, <1>6
<1>8. LastIs(uplink'[d], PP, f) \/ (NoneIn(uplink'[d], PP) /\ profile'[d] \in {0, v})
  BY <1>3, <1>7
<1>9. QED
  BY <1>2, <1>8 DEF PresentProfileIsSent, LastIs, NoneIn, ProfilePackets, ProfilePacket, PP, f

LEMMA ReadsSent ==
  ASSUME Consistent, Basic, NEW c \in Conns, ServerReads(c),
         NEW d \in Conns, PresentProfileIsSent(d)
  PROVE  PresentProfileIsSent(d)'
<1>1. /\ uplink[c] # <<>> /\ uplink' = [uplink EXCEPT ![c] = Tail(@)] /\ version' = version
  BY ReadsEffect
<1>2. ASSUME d # c PROVE PresentProfileIsSent(d)'
  <2>1. uplink'[d] = uplink[d]
    BY <1>1, <1>2, ReadUplink
  <2>2. connRoom'[d] = connRoom[d] /\ profile'[d] = profile[d]
    <3>1. /\ \/ connRoom' = connRoom
             \/ \E r \in Rooms : connRoom' = [connRoom EXCEPT ![c] = r]
          /\ \/ profile' = profile
             \/ \E v \in Nat \ {0} : profile' = [profile EXCEPT ![c] = v]
      BY ReadsEffect DEF Creates, Joins, Refuses, Notifies, Profiles, Switches, RoomsKept
    <3>2. QED
      BY <1>2, <3>1 DEF Basic, ViewTypeOK, Consistent, TypeOK
  <2>3. QED
    BY <1>1, <2>1, <2>2, KeptSent
<1>3. ASSUME d = c, ~InRoom(c) PROVE PresentProfileIsSent(d)'
  <2>1. uplink'[d] = <<>>
    BY <1>1, <1>3, AskIsAnswered DEF Basic, ViewTypeOK
  <2>2. profile'[d] = 0
    <3>1. profile[d] = 0
      BY <1>3 DEF Basic, LobbyIsBlank
    <3>2. profile' = profile
      BY <1>3, ReadsEffect DEF Creates, Joins, Refuses, Notifies, Profiles, Switches
    <3>3. QED
      BY <3>1, <3>2
  <2>3. NoneIn(<<>>, ProfilePackets)
    BY NoneInEmpty
  <2>4. QED
    BY <2>1, <2>2, <2>3 DEF PresentProfileIsSent, NoneIn, ProfilePackets
<1>4. ASSUME d = c, InRoom(c) PROVE PresentProfileIsSent(d)'
  <2> DEFINE q == uplink[d]
             PP == ProfilePackets
  <2>1. PICK v \in Nat \ {0} : v = version[d] /\ v = version'[d]
    BY <1>1 DEF Basic, ViewTypeOK
  <2> DEFINE f == ProfilePacket(d, v)
  <2>2. /\ NoneIn(q, PP) <=> Head(q) \notin PP /\ NoneIn(uplink'[d], PP)
        /\ LastIs(q, PP, f) <=> \/ LastIs(uplink'[d], PP, f)
                                \/ Head(q) = f /\ f \in PP /\ NoneIn(uplink'[d], PP)
    BY <1>1, <1>4, ReadUplink
  <2>3. LastIs(q, PP, f) \/ (NoneIn(q, PP) /\ profile[d] \in {0, v})
    BY <1>4, <2>1 DEF PresentProfileIsSent
  <2>4. Head(q) = f => profile'[d] = v
    <3>1. SUFFICES ASSUME Head(q) = f PROVE profile'[d] = v
      OBVIOUS
    <3>2. Head(q) \in ProfilePackets /\ Head(q) \notin Asks /\ Head(q) \notin SettingsPackets
      BY <3>1, ProfilePacketType
    <3>3. PICK w \in Nat \ {0} : Profiles(c, w)
      <4>1. ~(\E g \in Flags : Switches(c, g)) /\ ~(\E type \in Notices : Notifies(c, type))
        BY <1>4, <3>2 DEF Switches, Notifies
      <4>2. QED
        BY <1>4, <4>1, ReadsEffect DEF Creates, Joins, Refuses
    <3>4. ProfilePacket(c, w) = ProfilePacket(c, v)
      BY <1>4, <3>1, <3>3 DEF Profiles
    <3>5. w = v
      BY <3>4 DEF ProfilePacket
    <3>6. QED
      BY <1>4, <3>3, <3>5 DEF Profiles, Basic, ViewTypeOK
  <2>5. Head(q) \notin PP => profile'[d] = profile[d]
    <3>1. SUFFICES ASSUME Head(q) \notin PP PROVE profile'[d] = profile[d]
      OBVIOUS
    <3>2. ~(\E w \in Nat \ {0} : Profiles(c, w))
      BY <1>4, <3>1, ProfilePacketType DEF Profiles
    <3>3. profile' = profile
      BY <3>2, ReadsEffect DEF Creates, Joins, Refuses, Notifies, Switches
    <3>4. QED
      BY <3>3
  <2> HIDE DEF q, PP, f
  <2>6. LastIs(uplink'[d], PP, f) \/ (NoneIn(uplink'[d], PP) /\ profile'[d] \in {0, v})
    BY <2>2, <2>3, <2>4, <2>5
  <2>7. QED
    BY <2>1, <2>6 DEF PresentProfileIsSent, LastIs, NoneIn, ProfilePackets, ProfilePacket, PP, f
<1>5. QED
  BY <1>2, <1>3, <1>4

LEMMA NextSent ==
  ASSUME Consistent, Consistent', Basic, [ViewNext]_viewVars,
         NEW d \in Conns, PresentProfileIsSent(d)
  PROVE  PresentProfileIsSent(d)'
<1>1. UNCHANGED viewVars => PresentProfileIsSent(d)'
  BY KeptSent DEF viewVars, vars, lookupVars, relayVars, clientVars
<1>2. ASSUME NEW c \in Conns, NEW p \in Asks, Ask(c, p) PROVE PresentProfileIsSent(d)'
  <2>1. UNCHANGED <<connRoom, profile, version>> /\ ~asked[c]
        /\ uplink' = [uplink EXCEPT ![c] = Append(@, p)]
    BY <1>2 DEF Ask, Upload, vars, lookupVars, relayVars
  <2>2. CASE InRoom(d)
    <3>1. d # c
      BY <2>1, <2>2 DEF Basic, MemberIsKnown
    <3>2. uplink'[d] = uplink[d]
      BY <2>1, <3>1 DEF Basic, ViewTypeOK
    <3>3. QED
      BY <2>1, <3>2, KeptSent
  <2>3. CASE ~InRoom(d)
    BY <2>1, <2>3 DEF PresentProfileIsSent, InRoom
  <2>4. QED
    BY <2>2, <2>3
<1>3. ASSUME NEW c \in Conns, NEW p \in Packets \ Asks, UserUploads(c, p),
             version' \in [Conns -> Nat \ {0}]
      PROVE  PresentProfileIsSent(d)'
  <2>1. UNCHANGED <<connRoom, profile>> /\ uplink' = [uplink EXCEPT ![c] = @ \o <<p>>]
    BY <1>3 DEF UserUploads, vars, lookupVars, relayVars
  <2>2. \A x \in Conns \ {c} : version'[x] = version[x]
    BY <1>3 DEF UserUploads
  <2>3. CASE d # c
    <3>1. uplink'[d] = uplink[d]
      BY <2>1, <2>3 DEF Basic, ViewTypeOK
    <3>2. QED
      BY <2>1, <2>2, <2>3, <3>1, KeptSent
  <2>4. CASE d = c
    <3>1. uplink'[d] = uplink[d] \o <<p>> /\ version'[d] \in Nat \ {0}
      BY <1>3, <2>1, <2>4 DEF Basic, ViewTypeOK
    <3>2. p \in SettingsPackets => p \notin ProfilePackets
      BY DEF SettingsPackets, ProfilePackets
    <3>3. p = ProfilePacket(d, version'[d]) \/ (p \notin ProfilePackets /\ version'[d] = version[d])
      BY <1>3, <2>4, <3>2 DEF UserUploads
    <3>4. QED
      BY <2>1, <3>1, <3>3, UploadedSent
  <2>5. QED
    BY <2>3, <2>4
<1>4. ASSUME NEW c \in Conns, ReadsFrame(c) PROVE PresentProfileIsSent(d)'
  <2>1. UNCHANGED <<connRoom, profile, version>>
    BY <1>4 DEF ReadsFrame, vars, lookupVars
  <2>2. CASE uplink'[d] = uplink[d]
    BY <2>1, <2>2, KeptSent
  <2>3. CASE uplink'[d] # uplink[d]
    <3>1. d = c /\ uplink'[d] = uplink[d] \o <<ProfilePacket(d, version[d])>>
      BY <1>4, <2>3 DEF ReadsFrame
    <3>2. PICK v \in Nat \ {0} : v = version[d] /\ v = version'[d]
      BY <2>1 DEF Basic, ViewTypeOK
    <3>3. ProfilePacket(d, v) \in Packets /\ uplink'[d] = uplink[d] \o <<ProfilePacket(d, v)>>
          /\ ProfilePacket(d, v) = ProfilePacket(d, version'[d])
      BY <3>1, <3>2, ProfilePacketType
    <3>4. connRoom'[d] = connRoom[d] /\ profile'[d] = profile[d] /\ version'[d] \in Nat \ {0}
      BY <2>1, <3>2
    <3>5. QED
      BY <3>3, <3>4, UploadedSent
  <2>4. QED
    BY <2>2, <2>3
<1>5. ASSUME ClearMeetings, (\E c \in Conns : ConnectionCloses(c)) \/ (\E r \in Rooms : ExpiryRuns(r))
      PROVE  PresentProfileIsSent(d)'
  <2>1. InRoom(d)' => Remains(d)
    BY <1>5, ClosesEffect
  <2>2. Remains(d) => PresentProfileIsSent(d)'
    BY KeptSent DEF Remains, ClientKept
  <2>3. ~InRoom(d)' => PresentProfileIsSent(d)'
    BY DEF PresentProfileIsSent
  <2>4. QED
    BY <2>1, <2>2, <2>3
<1>6. QED
  BY <1>1, <1>2, <1>3, <1>4, <1>5, ViewSteps, ReadsSent, UserActsEffect, ClientReadsEffect

-----------------------------------------------------------------------------
(* The profiles: what reaches the others *)

LEMMA AppendedName ==
  ASSUME Basic, NEW c \in Conns, NEW u \in Users, NEW v \in Nat, NEW f \in Frames,
         outbox'[c] = outbox[c] \o <<f>>, names'[c] = names[c],
         f = UserProfile(u, v) \/ (f \notin FramesAbout(u) /\ WillName(c, u, v))
  PROVE  WillName(c, u, v)'
<1> DEFINE q == outbox[c]
           S == FramesAbout(u)
           n == UserProfile(u, v)
<1>1. q \in Seq(Frames) /\ n \in S
  BY OtherFrames DEF Basic, ViewTypeOK
<1>2. /\ NoneIn(q \o <<f>>, S) <=> NoneIn(q, S) /\ f \notin S
      /\ LastIs(q \o <<f>>, S, n) <=> (f \in S /\ f = n) \/ (f \notin S /\ LastIs(q, S, n))
  BY <1>1, AppendedNone, AppendedLast
<1>3. f = n \/ (f \notin S /\ ((names[c][u] = v /\ NoneIn(q, S)) \/ LastIs(q, S, n)))
  BY DEF WillName
<1> HIDE DEF q, S, n
<1>4. (names[c][u] = v /\ NoneIn(q \o <<f>>, S)) \/ LastIs(q \o <<f>>, S, n)
  BY <1>1, <1>2, <1>3
<1>5. outbox'[c] = q \o <<f>>
  BY DEF q
<1>6. QED
  BY <1>4, <1>5 DEF WillName, LastIs, NoneIn, FramesAbout, UserProfile, S, n

LEMMA KeptName ==
  ASSUME NEW c \in Conns, NEW u \in Users, NEW v \in Nat, WillName(c, u, v),
         outbox'[c] = outbox[c], names'[c] = names[c]
  PROVE  WillName(c, u, v)'
BY DEF WillName, LastIs, NoneIn, FramesAbout, UserProfile

LEMMA ReadName ==
  ASSUME Basic, NEW c \in Conns, ReadsFrame(c), NEW u \in Users \ {Account[c]}, NEW v \in Nat,
         WillName(c, u, v)
  PROVE  WillName(c, u, v)'
<1> DEFINE q == outbox[c]
           S == FramesAbout(u)
           n == UserProfile(u, v)
<1>1. q \in Seq(Frames) /\ q # <<>> /\ outbox'[c] = Tail(q) /\ Head(q) = Frame(c)
  BY DEF Basic, ViewTypeOK, ReadsFrame, Frame
<1>2. /\ NoneIn(q, S) <=> Head(q) \notin S /\ NoneIn(Tail(q), S)
      /\ LastIs(q, S, n) <=> \/ LastIs(Tail(q), S, n)
                             \/ Head(q) = n /\ n \in S /\ NoneIn(Tail(q), S)
  BY <1>1, TailNone, TailLast
<1>3. names'[c][u] = IF Head(q) \notin S THEN names[c][u]
                     ELSE IF Head(q).type = "UserProfile" THEN Head(q).version ELSE 0
  BY <1>1 DEF ReadsFrame
<1>4. n.type = "UserProfile" /\ n.version = v
  BY DEF UserProfile
<1>5. (names[c][u] = v /\ NoneIn(q, S)) \/ LastIs(q, S, n)
  BY DEF WillName
<1> HIDE DEF q, S, n
<1>6. (names'[c][u] = v /\ NoneIn(Tail(q), S)) \/ LastIs(Tail(q), S, n)
  BY <1>2, <1>3, <1>4, <1>5
<1>7. outbox'[c] = Tail(q)
  BY <1>1
<1>8. QED
  BY <1>6, <1>7 DEF WillName, LastIs, NoneIn, FramesAbout, UserProfile, S, n

(* A debt stays until the profile is sent. *)
LEMMA AppendedOwes ==
  ASSUME Basic, NEW c \in Conns, NEW d \in Conns, Owes(d, c), inMeeting'[d] = inMeeting[d],
         outbox'[d] = outbox[d] \/ \E f \in Frames : outbox'[d] = outbox[d] \o <<f>>,
         NoneIn(uplink[d], ProfilePackets)' => NoneIn(uplink[d], ProfilePackets)
  PROVE  Owes(d, c)'
<1>1. CASE ~inMeeting[d] \/ ~NoneIn(uplink[d], ProfilePackets)
  BY <1>1 DEF Owes
<1>2. ASSUME NEW i \in DOMAIN outbox[d], outbox[d][i] = PartnerJoin(Account[c])
      PROVE  \E j \in DOMAIN outbox'[d] : outbox'[d][j] = PartnerJoin(Account[c])
  <2>1. CASE outbox'[d] = outbox[d]
    BY <1>2, <2>1
  <2>2. ASSUME NEW f \in Frames, outbox'[d] = outbox[d] \o <<f>>
        PROVE  \E j \in DOMAIN outbox'[d] : outbox'[d][j] = PartnerJoin(Account[c])
    <3> DEFINE q == outbox[d]
    <3>1. q \in Seq(Frames)
      BY DEF Basic, ViewTypeOK
    <3>2. /\ DOMAIN (q \o <<f>>) = 1..(Len(q) + 1) /\ DOMAIN q = 1..Len(q) /\ Len(q) \in Nat
          /\ \A j \in 1..Len(q) : (q \o <<f>>)[j] = q[j]
      BY <3>1, AppendedQueue
    <3>3. i \in DOMAIN (q \o <<f>>) /\ (q \o <<f>>)[i] = PartnerJoin(Account[c])
      BY <1>2, <3>2
    <3>4. QED
      BY <2>2, <3>3
  <2>3. QED
    BY <2>1, <2>2
<1>3. QED
  BY <1>1, <1>2 DEF Owes, PartnerJoin

LEMMA ReadOwes ==
  ASSUME Basic, NEW c \in Conns, NEW d \in Conns, Owes(d, c), ReadsFrame(d)
  PROVE  Owes(d, c)'
<1> DEFINE q == outbox[d]
           e == PartnerJoin(Account[c])
<1>1. q \in Seq(Frames) /\ q # <<>> /\ outbox'[d] = Tail(q) /\ Head(q) = Frame(d)
      /\ uplink[d] \in Seq(Packets) /\ version[d] \in Nat \ {0}
  BY DEF Basic, ViewTypeOK, ReadsFrame, Frame
<1>2. CASE uplink'[d] = uplink[d] \o <<ProfilePacket(d, version[d])>>
  <2> DEFINE p == ProfilePacket(d, version[d])
  <2>1. p \in Packets /\ p \in ProfilePackets
    BY <1>1, ProfilePacketType
  <2> HIDE DEF p
  <2>2. ~NoneIn(uplink[d] \o <<p>>, ProfilePackets)
    BY <1>1, <2>1, AppendedNone
  <2>3. ~NoneIn(uplink'[d], ProfilePackets)
    BY <1>2, <2>2 DEF p
  <2>4. QED
    BY <2>3 DEF Owes, NoneIn, ProfilePackets
<1>3. CASE uplink'[d] = uplink[d] /\ inMeeting'[d] = inMeeting[d]
           /\ (inMeeting[d] => Frame(d).type # "PartnerJoin")
  <2>1. CASE ~inMeeting[d] \/ ~NoneIn(uplink[d], ProfilePackets)
    BY <1>3, <2>1 DEF Owes, NoneIn, ProfilePackets
  <2>2. CASE inMeeting[d] /\ \E i \in DOMAIN outbox[d] : outbox[d][i] = e
    <3>1. PICK i \in DOMAIN q : q[i] = e
      BY <2>2
    <3>2. Head(q) # e
      BY <1>1, <1>3, <2>2 DEF PartnerJoin
    <3>3. /\ DOMAIN Tail(q) = 1..(Len(q) - 1) /\ DOMAIN q = 1..Len(q) /\ Len(q) \in Nat \ {0}
          /\ \A j \in 1..(Len(q) - 1) : Tail(q)[j] = q[j + 1]
          /\ Head(q) = q[1]
      BY <1>1, TailQueue
    <3> HIDE DEF q, e
    <3>4. i - 1 \in 1..(Len(q) - 1) /\ (i - 1) + 1 = i
      BY <3>1, <3>2, <3>3
    <3>5. Tail(q)[i - 1] = e
      BY <3>1, <3>3, <3>4
    <3>6. \E j \in DOMAIN outbox'[d] : outbox'[d][j] = e
      BY <1>1, <3>3, <3>4, <3>5
    <3>7. QED
      BY <3>6 DEF Owes, PartnerJoin, e
  <2>3. QED
    BY <2>1, <2>2 DEF Owes
<1>4. QED
  BY <1>2, <1>3 DEF ReadsFrame

(* Frames that are not about d leave what c will know of d.                  *)
LEMMA KeptReaches ==
  ASSUME Basic, NEW c \in Conns, NEW d \in Conns, ProfileReaches(c, d),
         InRoom(c), connRoom[d] = connRoom[c], c # d,
         names'[c] = names[c], profile'[d] = profile[d], inMeeting'[d] = inMeeting[d],
         \/ outbox'[c] = outbox[c]
         \/ \E f \in Frames \ FramesAbout(Account[d]) : outbox'[c] = outbox[c] \o <<f>>,
         outbox'[d] = outbox[d] \/ \E f \in Frames : outbox'[d] = outbox[d] \o <<f>>,
         NoneIn(uplink[d], ProfilePackets)' => NoneIn(uplink[d], ProfilePackets)
  PROVE  ProfileReaches(c, d)'
<1>1. CASE Owes(d, c)
  BY <1>1, AppendedOwes DEF ProfileReaches
<1>2. CASE profile[d] # 0 /\ WillName(c, Account[d], profile[d])
  <2>1. PICK v \in Nat : v = profile[d] /\ v = profile'[d]
    BY DEF Basic, ViewTypeOK
  <2>2. Account[d] \in Users
    BY AccountsAreUsers
  <2>3. WillName(c, Account[d], v)'
    BY <1>2, <2>1, <2>2, KeptName, AppendedName
  <2>4. QED
    BY <1>2, <2>1, <2>3 DEF ProfileReaches, WillName, UserProfile
<1>3. QED
  BY <1>1, <1>2 DEF ProfileReaches

LEMMA NewcomerReaches ==
  ASSUME Consistent, Basic, NEW e \in Conns, ServerReads(e), ~InRoom(e),
         NEW c \in Conns, NEW d \in Conns, c # d, e \in {c, d},
         InRoom(c)', connRoom'[d] = connRoom'[c]
  PROVE  ProfileReaches(c, d)'
<1>1. CASE e = d
  <2>1. ~inMeeting'[d]
    BY <1>1, ReadsEffect DEF Basic, LobbyIsBlank
  <2>2. QED
    BY <2>1 DEF ProfileReaches, Owes
<1>2. CASE e = c
  <2>1. ASSUME NEW r \in Rooms, NEW id \in RoomIds, Creates(e, r, id) PROVE FALSE
    <3>1. status[r] = "unused" /\ connRoom'[c] = r /\ connRoom'[d] = connRoom[d]
      BY <1>2, <2>1 DEF Creates, Consistent, TypeOK
    <3>2. connRoom[d] = r /\ r # NoRoom
      BY <3>1, NoRoomIsNoObject
    <3>3. QED
      BY <3>1, <3>2, Members DEF InRoom
  <2>2. ASSUME NEW r \in Rooms, NEW id \in RoomIds, NEW replay \in ReplayOrders(r), Joins(e, r, id, replay)
        PROVE  Owes(d, c)'
    <3>1. connRoom'[c] = r /\ connRoom'[d] = connRoom[d] /\ r # NoRoom
      BY <1>2, <2>2, NoRoomIsNoObject DEF Joins, Consistent, TypeOK
    <3>2. d \in members[r]
      BY <3>1, Members DEF InRoom
    <3>3. outbox'[d] = outbox[d] \o <<PartnerJoin(Account[c])>>
      BY <1>2, <2>2, <3>2 DEF Joins
    <3> DEFINE q == outbox[d]
               f == PartnerJoin(Account[c])
    <3>4. q \in Seq(Frames) /\ f \in Frames
      BY FrameTypes, AccountsAreUsers DEF Basic, ViewTypeOK
    <3>5. Len(q) + 1 \in DOMAIN (q \o <<f>>) /\ (q \o <<f>>)[Len(q) + 1] = f
      BY <3>4, AppendedQueue
    <3>6. QED
      BY <3>3, <3>5 DEF Owes, PartnerJoin
  <2>3. QED
    BY <1>2, <2>1, <2>2, ReadsEffect
    DEF ProfileReaches, Refuses, Notifies, Profiles, Switches, RoomsKept, InRoom
<1>3. QED
  BY <1>1, <1>2

LEMMA ReadsReaches ==
  ASSUME Consistent, Basic, AccountsDiffer, NEW e \in Conns, ServerReads(e),
         NEW c \in Conns, NEW d \in Conns, ProfileReaches(c, d)
  PROVE  ProfileReaches(c, d)'
<1>1. SUFFICES ASSUME c # d, InRoom(c)', connRoom'[d] = connRoom'[c] PROVE ProfileReaches(c, d)'
  BY DEF ProfileReaches
<1>2. /\ uplink[e] # <<>> /\ uplink' = [uplink EXCEPT ![e] = Tail(@)]
      /\ names' = names /\ inMeeting' = inMeeting
      /\ Account[e] \in Users /\ Account[d] \in Users
  BY ReadsEffect, AccountsAreUsers
<1>3. CASE ~InRoom(e) /\ e \in {c, d}
  BY <1>1, <1>3, NewcomerReaches
<1>4. CASE InRoom(e) \/ e \notin {c, d}
  <2>1. connRoom'[c] = connRoom[c] /\ connRoom'[d] = connRoom[d]
    <3>1. connRoom' = connRoom \/ (~InRoom(e) /\ \E r \in Rooms : connRoom' = [connRoom EXCEPT ![e] = r])
      BY ReadsEffect DEF Creates, Joins, Refuses, Notifies, Profiles, Switches, RoomsKept
    <3>2. QED
      BY <1>4, <3>1 DEF Consistent, TypeOK
  <2>2. InRoom(c) /\ InRoom(d) /\ connRoom[d] = connRoom[c]
    BY <1>1, <2>1 DEF InRoom
  <2>3. Head(uplink[e]) \notin ProfilePackets \/ e # d
          => (NoneIn(uplink[d], ProfilePackets)' => NoneIn(uplink[d], ProfilePackets))
    <3>1. /\ \A x \in Conns \ {e} : uplink'[x] = uplink[x]
          /\ NoneIn(uplink[e], ProfilePackets)
               <=> Head(uplink[e]) \notin ProfilePackets /\ NoneIn(uplink'[e], ProfilePackets)
      BY <1>2, ReadUplink
    <3>2. CASE e = d
      BY <3>1, <3>2 DEF NoneIn, ProfilePackets
    <3>3. CASE e # d
      <4>1. uplink'[d] = uplink[d]
        BY <3>1, <3>3
      <4>2. QED
        BY <4>1 DEF NoneIn, ProfilePackets
    <3>4. QED
      BY <3>2, <3>3
  <2>4. ASSUME Head(uplink[e]) \notin ProfilePackets \/ e # d, profile'[d] = profile[d],
               \/ outbox'[c] = outbox[c]
               \/ \E f \in Frames \ FramesAbout(Account[d]) : outbox'[c] = outbox[c] \o <<f>>,
               outbox'[d] = outbox[d] \/ \E f \in Frames : outbox'[d] = outbox[d] \o <<f>>
        PROVE  ProfileReaches(c, d)'
    BY <1>1, <1>2, <2>2, <2>3, <2>4, KeptReaches
  <2>5. ASSUME NEW r \in Rooms, NEW id \in RoomIds, Creates(e, r, id) PROVE ProfileReaches(c, d)'
    <3>1. e # c /\ e # d
      BY <2>2, <2>5 DEF Creates
    <3>2. outbox'[c] = outbox[c] /\ outbox'[d] = outbox[d] /\ profile' = profile
      BY <2>5, <3>1 DEF Creates, Basic, ViewTypeOK
    <3>3. QED
      BY <2>4, <3>1, <3>2
  <2>6. ASSUME NEW r \in Rooms, NEW id \in RoomIds, NEW replay \in ReplayOrders(r), Joins(e, r, id, replay)
        PROVE  ProfileReaches(c, d)'
    <3> DEFINE f == PartnerJoin(Account[e])
    <3>1. e # c /\ e # d /\ profile' = profile
      BY <2>2, <2>6 DEF Joins
    <3>2. /\ outbox'[c] = outbox[c] \/ outbox'[c] = outbox[c] \o <<f>>
          /\ outbox'[d] = outbox[d] \/ outbox'[d] = outbox[d] \o <<f>>
      BY <2>6, <3>1 DEF Joins
    <3>3. f \in Frames \ FramesAbout(Account[d])
      BY <1>2, FrameTypes, OtherFrames
    <3> HIDE DEF f
    <3>4. QED
      BY <2>4, <3>1, <3>2, <3>3
  <2>7. ASSUME NEW X, NEW f \in Frames \ FramesAbout(Account[d]), Queued(X, f), profile'[d] = profile[d],
               Head(uplink[e]) \notin ProfilePackets \/ e # d
        PROVE  ProfileReaches(c, d)'
    <3>1. /\ outbox'[c] = outbox[c] \/ outbox'[c] = outbox[c] \o <<f>>
          /\ outbox'[d] = outbox[d] \/ outbox'[d] = outbox[d] \o <<f>>
      BY <2>7 DEF Queued
    <3>2. QED
      BY <2>4, <2>7, <3>1
  <2>8. ASSUME NEW f \in Frames, Refuses(e, f) PROVE ProfileReaches(c, d)'
    <3>1. e # c /\ e # d /\ profile' = profile /\ outbox'[c] = outbox[c] /\ outbox'[d] = outbox[d]
      BY <2>2, <2>8 DEF Refuses, Queued
    <3>2. QED
      BY <2>4, <3>1
  <2>9. ASSUME NEW type \in Notices, Notifies(e, type) PROVE ProfileReaches(c, d)'
    <3>1. Notice(type, Account[e]) \in Frames \ FramesAbout(Account[d])
      BY <1>2, FrameTypes, OtherFrames
    <3>2. QED
      BY <2>7, <2>9, <3>1 DEF Notifies
  <2>10. ASSUME NEW g \in Flags, Switches(e, g) PROVE ProfileReaches(c, d)'
    <3>1. RoomSettingsNotify(g) \in Frames \ FramesAbout(Account[d])
      BY <1>2, FrameTypes, OtherFrames
    <3>2. QED
      BY <2>7, <2>10, <3>1 DEF Switches
  <2>11. ASSUME NEW v \in Nat \ {0}, Profiles(e, v) PROVE ProfileReaches(c, d)'
    <3> DEFINE f == UserProfile(Account[e], v)
    <3>1. f \in Frames /\ Queued(Others(e), f) /\ profile' = [profile EXCEPT ![e] = v]
      BY <1>2, <2>11, FrameTypes DEF Profiles
    <3>2. CASE e # d
      <4>1. Account[e] # Account[d]
        BY <3>2 DEF AccountsDiffer
      <4>2. f \in Frames \ FramesAbout(Account[d])
        BY <3>1, <4>1, OtherFrames
      <4>3. profile'[d] = profile[d]
        BY <3>1, <3>2 DEF Basic, ViewTypeOK
      <4> HIDE DEF f
      <4>4. QED
        BY <2>7, <3>1, <3>2, <4>2, <4>3
    <3>3. CASE e = d
      <4>1. c \in Others(d)
        BY <1>1, <2>2, Members
      <4>2. outbox'[c] = outbox[c] \o <<UserProfile(Account[d], v)>>
        BY <3>1, <3>3, <4>1 DEF Queued
      <4>3. UserProfile(Account[d], v) \in Frames /\ names'[c] = names[c]
        BY <1>2, FrameTypes
      <4>4. WillName(c, Account[d], v)'
        BY <1>2, <4>2, <4>3, AppendedName
      <4>5. profile'[d] = v
        BY <3>1, <3>3 DEF Basic, ViewTypeOK
      <4>6. QED
        BY <4>4, <4>5 DEF ProfileReaches, WillName, UserProfile
    <3>4. QED
      BY <3>2, <3>3
  <2>12. QED
    BY <2>5, <2>6, <2>8, <2>9, <2>10, <2>11, ReadsEffect
<1>5. QED
  BY <1>3, <1>4

LEMMA ClosesReaches ==
  ASSUME Consistent, Consistent', Basic, AccountsDiffer, ClearMeetings,
         (\E e \in Conns : ConnectionCloses(e)) \/ (\E r \in Rooms : ExpiryRuns(r)),
         NEW c \in Conns, NEW d \in Conns, ProfileReaches(c, d)
  PROVE  ProfileReaches(c, d)'
<1>1. SUFFICES ASSUME c # d, InRoom(c)', connRoom'[d] = connRoom'[c] PROVE ProfileReaches(c, d)'
  BY DEF ProfileReaches
<1>2. InRoom(d)'
  BY <1>1 DEF InRoom
<1>3. Remains(c) /\ Remains(d)
  BY <1>1, <1>2, ClosesEffect
<1>4. InRoom(c) /\ connRoom[d] = connRoom[c] /\ connRoom[c] \in Rooms /\ connRoom'[d] = connRoom[c]
  BY <1>1, <1>3, Members DEF Remains
<1>5. d \in members'[connRoom[c]]
  BY <1>4 DEF Consistent, MembershipAgrees
<1>6. Account[d] \in Users /\ \A e \in Conns : Account[e] \in Users
  BY AccountsAreUsers
<1>7. /\ \A e \in Others(c) : e \in Conns
      /\ \A e \in Others(d) : e \in Conns
  BY <1>3, Members DEF Remains
<1>8. \/ outbox'[c] = outbox[c]
      \/ \E f \in Frames \ FramesAbout(Account[d]) : outbox'[c] = outbox[c] \o <<f>>
  <2>1. ASSUME NEW e \in Others(c), members'[connRoom[c]] = members[connRoom[c]] \ {e}
        PROVE  PartnerExit(Account[e]) \in Frames \ FramesAbout(Account[d])
    <3>1. e \in Conns /\ e # d
      BY <1>5, <1>7, <2>1
    <3>2. Account[e] # Account[d]
      BY <3>1 DEF AccountsDiffer
    <3>3. QED
      BY <1>6, <3>1, <3>2, FrameTypes, OtherFrames
  <2>2. QED
    BY <1>3, <2>1 DEF Remains
<1>9. outbox'[d] = outbox[d] \/ \E f \in Frames : outbox'[d] = outbox[d] \o <<f>>
  BY <1>3, <1>6, <1>7, FrameTypes DEF Remains
<1>10. /\ names'[c] = names[c] /\ profile'[d] = profile[d] /\ inMeeting'[d] = inMeeting[d]
       /\ uplink'[d] = uplink[d]
  BY <1>3 DEF Remains, ClientKept
<1>11. NoneIn(uplink[d], ProfilePackets)' => NoneIn(uplink[d], ProfilePackets)
  BY <1>10 DEF NoneIn, ProfilePackets
<1>12. QED
  BY <1>1, <1>4, <1>8, <1>9, <1>10, <1>11, KeptReaches

LEMMA NextReaches ==
  ASSUME Consistent, Consistent', Basic, AccountsDiffer, [ViewNext]_viewVars,
         NEW c \in Conns, NEW d \in Conns, ProfileReaches(c, d)
  PROVE  ProfileReaches(c, d)'
<1>1. ASSUME UNCHANGED <<connRoom, names, profile, inMeeting, outbox>>,
             \/ uplink'[d] = uplink[d]
             \/ \E p \in Packets : uplink'[d] = uplink[d] \o <<p>>
      PROVE  ProfileReaches(c, d)'
  <2>1. NoneIn(uplink[d], ProfilePackets)' => NoneIn(uplink[d], ProfilePackets)
    <3>1. CASE uplink'[d] = uplink[d]
      BY <3>1 DEF NoneIn, ProfilePackets
    <3>2. ASSUME NEW p \in Packets, uplink'[d] = uplink[d] \o <<p>>
          PROVE  NoneIn(uplink[d], ProfilePackets)' => NoneIn(uplink[d], ProfilePackets)
      <4>1. uplink[d] \in Seq(Packets)
        BY DEF Basic, ViewTypeOK
      <4>2. NoneIn(uplink[d] \o <<p>>, ProfilePackets) => NoneIn(uplink[d], ProfilePackets)
        BY <4>1, AppendedNone
      <4>3. NoneIn(uplink[d], ProfilePackets)' => NoneIn(uplink'[d], ProfilePackets)
        BY DEF NoneIn, ProfilePackets
      <4>4. QED
        BY <3>2, <4>2, <4>3
    <3>3. QED
      BY <1>1, <3>1, <3>2
  <2>2. CASE InRoom(c) /\ connRoom[d] = connRoom[c] /\ c # d
    BY <1>1, <2>1, <2>2, KeptReaches
  <2>3. CASE ~(InRoom(c) /\ connRoom[d] = connRoom[c] /\ c # d)
    BY <1>1, <2>3 DEF ProfileReaches, InRoom
  <2>4. QED
    BY <2>2, <2>3
<1>2. UNCHANGED viewVars => ProfileReaches(c, d)'
  BY <1>1 DEF viewVars, vars, lookupVars, relayVars, clientVars
<1>3. ASSUME NEW e \in Conns, NEW p \in Asks, Ask(e, p) PROVE ProfileReaches(c, d)'
  <2>1. UNCHANGED <<connRoom, names, profile, inMeeting, outbox>> /\ uplink' = [uplink EXCEPT ![e] = Append(@, p)]
    BY <1>3 DEF Ask, Upload, vars, lookupVars, relayVars
  <2>2. p \in Packets /\ Append(uplink[e], p) = uplink[e] \o <<p>>
    BY DEF Packets, Basic, ViewTypeOK
  <2>3. uplink'[d] = uplink[d] \/ uplink'[d] = uplink[d] \o <<p>>
    BY <2>1, <2>2 DEF Basic, ViewTypeOK
  <2>4. QED
    BY <1>1, <2>1, <2>2, <2>3
<1>4. ASSUME NEW e \in Conns, NEW p \in Packets \ Asks, UserUploads(e, p) PROVE ProfileReaches(c, d)'
  <2>1. UNCHANGED <<connRoom, names, profile, inMeeting, outbox>> /\ uplink' = [uplink EXCEPT ![e] = @ \o <<p>>]
    BY <1>4 DEF UserUploads, vars, lookupVars, relayVars
  <2>2. uplink'[d] = uplink[d] \/ uplink'[d] = uplink[d] \o <<p>>
    BY <2>1 DEF Basic, ViewTypeOK
  <2>3. QED
    BY <1>1, <2>1, <2>2
<1>5. ASSUME NEW e \in Conns, ReadsFrame(e) PROVE ProfileReaches(c, d)'
  <2>1. SUFFICES ASSUME InRoom(c), connRoom[d] = connRoom[c], c # d PROVE ProfileReaches(c, d)'
    BY <1>5 DEF ProfileReaches, ReadsFrame, vars, lookupVars, InRoom
  <2>2. UNCHANGED <<connRoom, profile>> /\ outbox' = [outbox EXCEPT ![e] = Tail(@)]
        /\ \A x \in Conns \ {e} : ClientKept(x) /\ uplink'[x] = uplink[x]
    BY <1>5 DEF ReadsFrame, vars, lookupVars
  <2>3. \A x \in Conns \ {e} : outbox'[x] = outbox[x]
    BY <2>2 DEF Basic, ViewTypeOK
  <2>4. PICK v \in Nat : v = profile[d] /\ v = profile'[d]
    BY <2>2 DEF Basic, ViewTypeOK
  <2>5. Account[d] \in Users \ {Account[c]}
    BY <2>1, AccountsAreUsers DEF AccountsDiffer
  <2>6. Owes(d, c) => Owes(d, c)'
    <3>1. CASE e = d
      BY <1>5, <3>1, ReadOwes
    <3>2. CASE e # d
      <4>1. inMeeting'[d] = inMeeting[d] /\ outbox'[d] = outbox[d] /\ uplink'[d] = uplink[d]
        BY <2>2, <2>3, <3>2 DEF ClientKept
      <4>2. QED
        BY <4>1 DEF Owes, NoneIn, ProfilePackets, PartnerJoin
    <3>3. QED
      BY <3>1, <3>2
  <2>7. WillName(c, Account[d], v) => WillName(c, Account[d], v)'
    <3>1. CASE e = c
      BY <1>5, <2>5, <3>1, ReadName
    <3>2. CASE e # c
      <4>1. outbox'[c] = outbox[c] /\ names'[c] = names[c]
        BY <2>2, <2>3, <3>2 DEF ClientKept
      <4>2. QED
        BY <2>5, <4>1, KeptName
    <3>3. QED
      BY <3>1, <3>2
  <2>8. Owes(d, c) \/ (v # 0 /\ WillName(c, Account[d], v))
    BY <2>1, <2>4 DEF ProfileReaches
  <2>9. QED
    BY <2>4, <2>6, <2>7, <2>8 DEF ProfileReaches, WillName, UserProfile
<1>6. QED
  BY <1>2, <1>3, <1>4, <1>5, ViewSteps, ReadsReaches, ClosesReaches, UserActsEffect, ClientReadsEffect

-----------------------------------------------------------------------------
(* The invariant, and what it says *)

LEMMA InitViewInv == ViewInit => ViewInv
<1> SUFFICES ASSUME ViewInit PROVE ViewInv
  OBVIOUS
<1>1. Consistent /\ Basic
  BY ViewInitConsistent, InitBasic
<1>2. connRoom = [c \in Conns |-> NoRoom] /\ outbox = [c \in Conns |-> <<>>]
  BY DEF ViewInit, RelayInit
<1>3. \A c \in Conns : ~InRoom(c) /\ NoticesAreOfShown(c)
  BY <1>2 DEF InRoom, NoticesAreOfShown
<1>4. QED
  BY <1>1, <1>3 DEF ViewInv, ListConverges, SwitchesConverge, PresentProfileIsSent, ProfileReaches

LEMMA NextViewInv == AccountsDiffer /\ ViewInv /\ [ViewNext]_viewVars => ViewInv'
<1> SUFFICES ASSUME AccountsDiffer, ViewInv, [ViewNext]_viewVars PROVE ViewInv'
  OBVIOUS
<1>1. Consistent /\ Consistent' /\ Basic /\ Basic'
  BY ViewNextConsistent, NextBasic DEF ViewInv
<1>2. \A x \in Conns : ListIsRight(x)'
  BY <1>1, NextList DEF ViewInv, ListIsRight
<1>3. \A x \in Conns : SwitchesConverge(x)'
  BY <1>1, NextSwitches DEF ViewInv
<1>4. \A x \in Conns : PresentProfileIsSent(x)'
  BY <1>1, NextSent DEF ViewInv
<1>5. \A x, y \in Conns : ProfileReaches(x, y)'
  BY <1>1, NextReaches DEF ViewInv
<1>6. QED
  BY <1>1, <1>2, <1>3, <1>4, <1>5 DEF ViewInv, ListIsRight

LEMMA ListsOfInvariant ==
  ASSUME AccountsDiffer, ViewInv
  PROVE  MemberListsConverge
<1> USE DEF ViewInv
<1>1. ASSUME NEW c \in Conns, InRoom(c) PROVE WillShow(c) = {Account[d] : d \in Others(c)}
  <2>1. \A d \in Others(c) : Account[d] \in Users \ {Account[c]}
    BY <1>1, Members, AccountsAreUsers DEF AccountsDiffer
  <2>2. \A u \in Users \ {Account[c]} :
          u \in ShownAfter(shown[c], outbox[c], Len(outbox[c])) <=> \E d \in Others(c) : u = Account[d]
    BY <1>1 DEF ListConverges
  <2>3. ShownAfter(shown[c], outbox[c], Len(outbox[c])) \subseteq Users
    BY DEF ShownAfter
  <2>4. QED
    BY <2>1, <2>2, <2>3 DEF WillShow
<1>2. ASSUME NEW c \in Conns, outbox[c] # <<>>, Frame(c).type \in Notices
      PROVE  Frame(c).user \in shown[c]
  <2> DEFINE q == outbox[c]
  <2>1. q \in Seq(Frames) /\ shown[c] \in SUBSET Users
    BY DEF Basic, ViewTypeOK
  <2>2. 1 \in DOMAIN q /\ Frame(c) = q[1] /\ 1 - 1 = 0
    BY <1>2, <2>1 DEF Frame
  <2>3. q[1].user \in ShownAfter(shown[c], q, 0)
    BY <1>2, <2>2 DEF NoticesAreOfShown
  <2>4. QED
    BY <2>1, <2>2, <2>3, ShownAfterNone
<1>3. QED
  BY <1>1, <1>2 DEF MemberListsConverge

LEMMA StateOfInvariant ==
  ASSUME AccountsDiffer, ViewInv
  PROVE  RoomStateConverges
<1> USE DEF ViewInv
<1>1. ASSUME NEW c \in Conns, InRoom(c), ~EditUnderWay(c) PROVE WillApply(c, settings[connRoom[c]])
  <2> DEFINE q == outbox[c]
             g == settings[connRoom[c]]
             S == SettingsFrames
  <2>1. q \in Seq(Frames) /\ uplink[c] \in Seq(Packets)
    BY DEF Basic, ViewTypeOK
  <2>2. NoneIn(uplink[c], SettingsPackets)
    <3>1. \A i \in DOMAIN uplink[c] : uplink[c][i].type # "RoomSettings"
      BY <1>1 DEF EditUnderWay
    <3>2. QED
      BY <3>1 DEF NoneIn, SettingsPackets
  <2>3. \A i \in DOMAIN q : /\ q[i].type = "RoomSettingsNotify" <=> q[i] \in S
                            /\ q[i] = RoomSettingsNotify(g) => q[i].flags = g
    <3>1. \A i \in DOMAIN q : q[i] \in Frames
      BY <2>1
    <3>2. RoomSettingsNotify(g).flags = g
      BY DEF RoomSettingsNotify
    <3>3. \A i \in DOMAIN q : q[i].type = "RoomSettingsNotify" <=> q[i] \in S
      BY <3>1, FrameKinds
    <3> HIDE DEF g, q
    <3>4. QED
      BY <3>2, <3>3
  <2>4. (flags[c] = g /\ NoneIn(q, S)) \/ LastIs(q, S, RoomSettingsNotify(g))
    BY <1>1, <2>2 DEF SwitchesConverge, WillApplyFlags
  <2> HIDE DEF q, g, S
  <2>5. \/ flags[c] = g /\ \A i \in DOMAIN q : q[i].type # "RoomSettingsNotify"
        \/ \E i \in DOMAIN q : /\ q[i].type = "RoomSettingsNotify" /\ q[i].flags = g
                               /\ \A j \in DOMAIN q : j > i => q[j].type # "RoomSettingsNotify"
    BY <2>3, <2>4 DEF NoneIn, LastIs
  <2>6. QED
    BY <2>5 DEF WillApply, q, g
<1>2. ASSUME NEW r \in Rooms, Settled(r), NEW c \in members[r], NEW d \in members[r], c # d
      PROVE  names[c][Account[d]] = version[d]
  <2>1. c \in Conns /\ d \in Conns /\ InRoom(c) /\ InRoom(d) /\ connRoom[d] = connRoom[c]
    BY <1>2, Members
  <2>2. /\ outbox[c] = <<>> /\ outbox[d] = <<>> /\ uplink[d] = <<>> /\ inMeeting[d]
    BY <1>2 DEF Settled
  <2>3. ~Owes(d, c)
    BY <2>2, NoneInEmpty DEF Owes
  <2>4. profile[d] # 0 /\ WillName(c, Account[d], profile[d])
    BY <1>2, <2>1, <2>3 DEF ProfileReaches
  <2>5. names[c][Account[d]] = profile[d]
    BY <2>2, <2>4 DEF WillName, LastIs
  <2>6. profile[d] \in {0, version[d]}
    BY <2>1, <2>2 DEF PresentProfileIsSent, LastIs
  <2>7. QED
    BY <2>4, <2>5, <2>6
<1>3. QED
  BY <1>1, <1>2 DEF RoomStateConverges

(* The invariant of the server with its clients, when no two clients are     *)
(* logged in with one account: the frames and packets under way make up for  *)
(* every difference between what a client has and what the server has.       *)
THEOREM ViewInvariant ==
  ASSUME AccountsDiffer
  PROVE  ViewSpec => []ViewInv
<1>1. ViewInit => ViewInv
  BY InitViewInv
<1>2. ViewInv /\ [ViewNext]_viewVars => ViewInv'
  BY NextViewInv
<1>3. QED
  BY <1>1, <1>2, PTL DEF ViewSpec

(* Type correctness of the participants' data, of the queues both ways and   *)
(* of what the clients keep, whoever is logged in.                           *)
THEOREM ViewTypes == ViewSpec => []ViewTypeOK
<1>1. ViewInit => Consistent /\ Basic
  BY ViewInitConsistent, InitBasic
<1>2. (Consistent /\ Basic) /\ [ViewNext]_viewVars => (Consistent /\ Basic)'
  BY ViewNextConsistent, NextBasic
<1>3. Consistent /\ Basic => ViewTypeOK
  BY DEF Basic
<1>4. QED
  BY <1>1, <1>2, <1>3, PTL DEF ViewSpec

(* Nobody is shown who has left and nobody who is there is missing, once the *)
(* frames under way are read; and no text or camera notice is handled that   *)
(* comes from a user who is not shown.                                       *)
THEOREM ViewListsConverge ==
  ASSUME AccountsDiffer
  PROVE  ViewSpec => []MemberListsConverge
<1>1. ViewInv => MemberListsConverge
  BY ListsOfInvariant
<1>2. QED
  BY <1>1, ViewInvariant, PTL

(* Every member ends with the switches of its room, and in a room that has   *)
(* settled every member shows the present profile of every other one.        *)
THEOREM ViewStateConverges ==
  ASSUME AccountsDiffer
  PROVE  ViewSpec => []RoomStateConverges
<1>1. ViewInv => RoomStateConverges
  BY StateOfInvariant
<1>2. QED
  BY <1>1, ViewInvariant, PTL

(***************************************************************************)
(* The teardown of a room, call by call                                    *)
(***************************************************************************)
USE NoRoomIsNoObject

(* The proofs about MeetingServer, for the state AtomicServer is about.      *)
Whole == INSTANCE MeetingServerProofs WITH
  conn <- Shown(conn, before.conn),
  connRoom <- Shown(connRoom, before.connRoom),
  rooms <- Shown(rooms, before.rooms),
  status <- Shown(status, before.status),
  members <- Shown(members, before.members),
  timer <- Shown(timer, before.timer)

-----------------------------------------------------------------------------
(* The invariant *)

Shut(f, K)   == [x \in Conns |-> IF x \in K THEN "closed" ELSE f[x]]
Forgot(f, K) == [x \in Conns |-> IF x \in K THEN NoRoom ELSE f[x]]

(* The connections in K are closed and those in L forgotten so far.          *)
Apart(K, L) ==
  conn = Shut(before.conn, K) /\ connRoom = Forgot(before.connRoom, L) /\ rooms = before.rooms

RoomsAsBefore ==
  status = before.status /\ members = before.members /\ timer = before.timer

Leaves(c) == c \in Conns /\ before.conn[c] \in {"handshake", "open"}

HostLeaves(c, r) == Leaves(c) /\ r \in Rooms /\ before.connRoom[c] = r /\ owner[r] = c

Expires(r) == r \in Rooms /\ before.timer[r] = "queued"

(* close_room has marked r as closed and taken its participants away.        *)
Dissolving(r) ==
  /\ r \in Rooms /\ before.status[r] = "live"
  /\ status = [before.status EXCEPT ![r] = "closed"]
  /\ members = [before.members EXCEPT ![r] = {}]
  /\ \/ /\ \E c \in Conns : HostLeaves(c, r)
        /\ timer = [before.timer EXCEPT ![r] = IF @ = "armed" THEN "idle" ELSE @]
     \/ /\ Expires(r)
        /\ timer = [before.timer EXCEPT ![r] = "idle"]

LeftAlready(r, todo) == before.members[r] \ todo

(* The calls of a connection that leaves ...                                 *)
Closing(c) ==
  stack = <<CallClose(c)>> /\ Leaves(c) /\ Apart({}, {}) /\ RoomsAsBefore

Reporting(c) ==
  stack = <<CallOnClose(c)>> /\ Leaves(c) /\ Apart({c}, {}) /\ RoomsAsBefore

Removing(c, r) ==
  /\ stack = <<CallRemove(r, c)>> /\ Leaves(c) /\ r \in Rooms /\ before.connRoom[c] = r
  /\ Apart({c}, {c}) /\ RoomsAsBefore

(* ... the two ways to close_room ...                                        *)
HostGone(c, r) ==
  /\ stack = <<CallCloseRoom(r)>> /\ HostLeaves(c, r) /\ Apart({c}, {c})
  /\ status = before.status /\ timer = before.timer
  /\ members = [before.members EXCEPT ![r] = @ \ {c}]

Expired(r) ==
  /\ stack = <<CallCloseRoom(r)>> /\ Expires(r) /\ Apart({}, {})
  /\ status = before.status /\ members = before.members
  /\ timer = [before.timer EXCEPT ![r] = "idle"]

(* ... its loop, the calls it makes for participant d ...                    *)
Looping(r, todo) ==
  /\ stack = <<CloseLoop(r, todo)>> /\ Dissolving(r) /\ todo \subseteq before.members[r]
  /\ Apart(LeftAlready(r, todo), LeftAlready(r, todo))

InLoop(call, r, todo, d) ==
  /\ stack = <<call, CloseLoop(r, todo)>> /\ Dissolving(r)
  /\ todo \subseteq before.members[r] /\ d \in before.members[r] /\ d \notin todo

ClosingOther(r, todo, d) ==
  /\ InLoop(CallClose(d), r, todo, d)
  /\ Apart(LeftAlready(r, todo \cup {d}), LeftAlready(r, todo \cup {d}))

ReportingOther(r, todo, d) ==
  InLoop(CallOnClose(d), r, todo, d) /\ Apart(LeftAlready(r, todo), LeftAlready(r, todo \cup {d}))

RemovingOther(r, todo, d) ==
  InLoop(CallRemove(r, d), r, todo, d) /\ Apart(LeftAlready(r, todo), LeftAlready(r, todo))

(* ... and the end.                                                          *)
Cleaning(r) ==
  stack = <<CallCleanup(r)>> /\ Dissolving(r) /\ Apart(before.members[r], before.members[r])

Chain ==
  \/ \E c \in Conns : Closing(c) \/ Reporting(c)
  \/ \E c \in Conns, r \in Rooms : Removing(c, r) \/ HostGone(c, r)
  \/ \E r \in Rooms : Expired(r) \/ Cleaning(r)
  \/ \E r \in Rooms, todo \in SUBSET Conns : Looping(r, todo)
  \/ \E r \in Rooms, todo \in SUBSET Conns, d \in Conns :
        ClosingOther(r, todo, d) \/ ReportingOther(r, todo, d) \/ RemovingOther(r, todo, d)

TeardownInv == Whole!Consistent /\ (stack = <<>> \/ Chain)

-----------------------------------------------------------------------------
(* What AtomicServer says of a step is what the proofs about MeetingServer   *)
(* say of it.                                                                *)

LEMMA SameCounts ==
  /\ \A S : Atomic!Cardinality(S) = Cardinality(S)
  /\ \A S : Whole!Cardinality(S) = Cardinality(S)
  /\ \A S : Whole!IsFiniteSet(S) = IsFiniteSet(S)
<1>1. \A S : Atomic!Cardinality(S) = Cardinality(S)
  BY Zenon DEF Atomic!Cardinality, Cardinality
<1>2. \A S : Whole!Cardinality(S) = Cardinality(S)
  BY Zenon DEF Whole!Cardinality, Cardinality
<1>3. \A S : Whole!IsFiniteSet(S) = IsFiniteSet(S)
  BY Zenon DEF Whole!IsFiniteSet, IsFiniteSet
<1>4. QED
  BY <1>1, <1>2, <1>3

LEMMA SameTables ==
  /\ Atomic!UsedIds = Whole!UsedIds
  /\ Atomic!CanCreate <=> Whole!CanCreate
  /\ \A id \in RoomIds : Atomic!JoinResult(id) = Whole!JoinResult(id)
<1>1. Atomic!UsedIds = Whole!UsedIds
  BY DEF Atomic!UsedIds, Whole!UsedIds
<1>2. Atomic!CanCreate <=> Whole!CanCreate
  BY <1>1, SameCounts DEF Atomic!CanCreate, Whole!CanCreate
<1>3. \A id \in RoomIds : Atomic!JoinResult(id) = Whole!JoinResult(id)
  BY <1>1, SameCounts DEF Atomic!JoinResult, Whole!JoinResult
<1>4. QED
  BY <1>1, <1>2, <1>3

LEMMA SameSteps == Atomic!Next => Whole!Next
<1>1. ASSUME NEW c \in Conns
      PROVE  /\ Atomic!AcceptSocket(c) => Whole!AcceptSocket(c)
             /\ Atomic!HandshakeDone(c) => Whole!HandshakeDone(c)
             /\ Atomic!CloseInLobby(c) => Whole!CloseInLobby(c)
  BY DEF Atomic!AcceptSocket, Whole!AcceptSocket, Atomic!HandshakeDone, Whole!HandshakeDone,
   Atomic!CloseInLobby, Whole!CloseInLobby, Atomic!IsOpen, Whole!IsOpen, Atomic!lookupVars,
   Whole!lookupVars, Atomic!optionVars, Whole!optionVars
<1>2. ASSUME NEW c \in Conns, NEW q \in Requests, NEW r \in Rooms, NEW id \in RoomIds,
             Atomic!CreateMeeting(c, q, r, id)
      PROVE  Whole!CreateMeeting(c, q, r, id)
  BY <1>2, SameTables DEF Atomic!CreateMeeting, Whole!CreateMeeting, Atomic!InLobby, Whole!InLobby,
   Atomic!DrawRandomId, Whole!DrawRandomId, Atomic!FallBackToSequence,
   Whole!FallBackToSequence, Atomic!CreateOptions, Whole!CreateOptions, Atomic!FirstTimer,
   Whole!FirstTimer, Atomic!Clamp, Whole!Clamp, Atomic!MinParticipants,
   Whole!MinParticipants, Atomic!MinMinutes, Whole!MinMinutes, Atomic!MaxMinutes,
   Whole!MaxMinutes, Atomic!DefaultMinutes, Whole!DefaultMinutes
<1>3. ASSUME NEW c \in Conns, NEW id \in RoomIds, Atomic!JoinMeeting(c, id)
      PROVE  Whole!JoinMeeting(c, id)
  BY <1>3, SameTables DEF Atomic!JoinMeeting, Whole!JoinMeeting, Atomic!InLobby, Whole!InLobby,
   Atomic!optionVars, Whole!optionVars
<1>4. ASSUME NEW c \in Conns
      PROVE  /\ Atomic!OwnerLeaves(c) => Whole!OwnerLeaves(c)
             /\ Atomic!MemberLeaves(c) => Whole!MemberLeaves(c)
  BY DEF Atomic!OwnerLeaves, Whole!OwnerLeaves, Atomic!MemberLeaves, Whole!MemberLeaves,
   Atomic!IsOpen, Whole!IsOpen, Atomic!OwnerCloses, Whole!OwnerCloses, Atomic!CloseRoom,
   Whole!CloseRoom, Atomic!InRoomNumber, Whole!InRoomNumber, Atomic!CancelTimer,
   Whole!CancelTimer, Atomic!optionVars, Whole!optionVars
<1>5. ASSUME NEW r \in Rooms
      PROVE  /\ Atomic!TimerExpires(r) => Whole!TimerExpires(r)
             /\ Atomic!ExpireRoom(r) => Whole!ExpireRoom(r)
             /\ Atomic!ExpireClosedRoom(r) => Whole!ExpireClosedRoom(r)
  BY DEF Atomic!TimerExpires, Whole!TimerExpires, Atomic!ExpireRoom, Whole!ExpireRoom,
   Atomic!ExpireClosedRoom, Whole!ExpireClosedRoom, Atomic!CloseRoom, Whole!CloseRoom,
   Atomic!IsOpen, Whole!IsOpen, Atomic!InRoomNumber, Whole!InRoomNumber, Atomic!lookupVars,
   Whole!lookupVars, Atomic!optionVars, Whole!optionVars
<1>6. QED
  BY <1>1, <1>2, <1>3, <1>4, <1>5 DEF Atomic!Next, Whole!Next

LEMMA StepIsConsistent ==
  ASSUME Whole!Consistent, Atomic!Next \/ UNCHANGED Atomic!vars
  PROVE  Whole!Consistent'
<1>1. Atomic!vars = Whole!vars
  BY DEF Atomic!vars, Whole!vars, Atomic!lookupVars, Whole!lookupVars, Atomic!optionVars,
   Whole!optionVars
<1>2. [Whole!Next]_(Whole!vars)
  <2>1. CASE Atomic!Next
    BY <2>1, SameSteps
  <2>2. CASE UNCHANGED Atomic!vars
    <3>1. Atomic!vars' = Whole!vars'
      BY DEF Atomic!vars, Whole!vars, Atomic!lookupVars, Whole!lookupVars, Atomic!optionVars,
       Whole!optionVars
    <3>2. Whole!vars' = Whole!vars
      BY <1>1, <2>2, <3>1
    <3>3. QED
      BY <3>2
  <2>3. QED
    BY <2>1, <2>2
<1>3. QED
  BY <1>2, Whole!NextConsistent, SameCounts, FiniteIds, NoRoomIsNoObject, RoomIdsArePositive,
     LimitsAreNaturals, RequestsHaveOptions DEF Whole!MinParticipants, MinParticipants

-----------------------------------------------------------------------------
(* The call stack *)

LEMMA StackFrames ==
  /\ \A c : CallClose(c).fn = "close" /\ CallClose(c).c = c
  /\ \A c : CallOnClose(c).fn = "on_connection_close" /\ CallOnClose(c).c = c
  /\ \A r, c : /\ CallRemove(r, c).fn = "remove_participant"
               /\ CallRemove(r, c).r = r /\ CallRemove(r, c).c = c
  /\ \A r : CallCloseRoom(r).fn = "close_room" /\ CallCloseRoom(r).r = r
  /\ \A r, todo : /\ CloseLoop(r, todo).fn = "close_loop"
                  /\ CloseLoop(r, todo).r = r /\ CloseLoop(r, todo).todo = todo
  /\ \A r : CallCleanup(r).fn = "cleanup_room" /\ CallCleanup(r).r = r
BY DEF Call, CallClose, CallOnClose, CallRemove, CallCloseRoom, CloseLoop, CallCleanup

LEMMA OneFrame ==
  ASSUME NEW call, stack = <<call>>
  PROVE  /\ stack # <<>> /\ Top = call /\ Tail(stack) = <<>>
         /\ Return => stack' = <<>>
         /\ \A k : TailCall(k) => stack' = <<k>>
BY DEF Top, Return, TailCall

LEMMA TwoFrames ==
  ASSUME NEW call, NEW caller, stack = <<call, caller>>
  PROVE  /\ stack # <<>> /\ Top = call
         /\ Return => stack' = <<caller>>
         /\ \A k : TailCall(k) => stack' = <<k, caller>>
BY DEF Top, Return, TailCall

LEMMA Joined ==
  ASSUME NEW a, NEW b
  PROVE  <<a>> \o <<>> = <<a>> /\ <<a>> \o <<b>> = <<a, b>>
<1>1. <<a>> \in Seq({a, b}) /\ <<b>> \in Seq({a, b})
  OBVIOUS
<1>2. Len(<<a>> \o <<b>>) = 2 /\ (<<a>> \o <<b>>)[1] = a /\ (<<a>> \o <<b>>)[2] = b
  BY <1>1
<1>3. <<a>> \o <<b>> \in Seq({a, b})
  BY <1>1
<1>4. <<a>> \o <<b>> = <<a, b>>
  <2> DEFINE s == <<a>> \o <<b>>
  <2>1. s = [i \in 1 .. 2 |-> s[i]]
    BY <1>2, <1>3
  <2>2. <<a, b>> = [i \in 1 .. 2 |-> <<a, b>>[i]]
    OBVIOUS
  <2>3. \A i \in 1 .. 2 : s[i] = <<a, b>>[i]
    BY <1>2
  <2> HIDE DEF s
  <2>4. s = <<a, b>>
    BY <2>1, <2>2, <2>3
  <2>5. QED
    BY <2>4 DEF s
<1>5. <<a>> \o <<>> = <<a>>
  OBVIOUS
<1>6. QED
  BY <1>4, <1>5

(* While a chain runs, the function on top of the stack is all that runs.    *)
LEMMA OneCall ==
  ASSUME stack # <<>>, TeardownNext
  PROVE  /\ before' = IF stack' = <<>> THEN <<>> ELSE before
         /\ UNCHANGED optionVars
         /\ Top.fn = "close" => Close
         /\ Top.fn = "on_connection_close" => OnConnectionClose
         /\ Top.fn = "remove_participant" => RemoveParticipant
         /\ Top.fn = "close_room" => CloseRoomBegins
         /\ Top.fn = "close_loop" => CloseNextParticipant \/ CloseLoopEnds
         /\ Top.fn = "cleanup_room" => CleanupRoom
<1>1. Calls
  BY DEF TeardownNext, OtherHandlers, StartClose, StartExpire
<1>2. UNCHANGED optionVars
  BY <1>1 DEF Calls, Close, OnConnectionClose, RemoveParticipant, CloseRoomBegins,
     CloseNextParticipant, CloseLoopEnds, CleanupRoom, serverVars, vars
<1>3. QED
  BY <1>1, <1>2 DEF Calls, Close, OnConnectionClose, RemoveParticipant, CloseRoomBegins,
     CloseNextParticipant, CloseLoopEnds, CleanupRoom, Running, Top

-----------------------------------------------------------------------------
(* The state in which the chain began *)

BeforeOK ==
  /\ before.conn \in [Conns -> ConnStates]
  /\ before.connRoom \in [Conns -> Rooms \cup {NoRoom}]
  /\ before.rooms \in [RoomIds -> Rooms \cup {NoRoom}]
  /\ before.status \in [Rooms -> RoomStates]
  /\ before.members \in [Rooms -> SUBSET Conns]
  /\ before.timer \in [Rooms -> TimerStates]
  /\ \A c \in Conns, r \in Rooms : c \in before.members[r] <=> before.connRoom[c] = r
  /\ \A r \in Rooms : \A c \in before.members[r] :
        before.conn[c] = "open" /\ before.status[r] = "live"
  /\ \A r \in Rooms : before.status[r] = "unused" => before.timer[r] = "idle"

LEMMA BeforeIsOK ==
  ASSUME Whole!Consistent, stack # <<>>
  PROVE  BeforeOK
<1>1. /\ Shown(conn, before.conn) = before.conn
      /\ Shown(connRoom, before.connRoom) = before.connRoom
      /\ Shown(rooms, before.rooms) = before.rooms
      /\ Shown(status, before.status) = before.status
      /\ Shown(members, before.members) = before.members
      /\ Shown(timer, before.timer) = before.timer
  BY DEF Shown
<1>2. QED
  BY <1>1 DEF BeforeOK, Whole!Consistent, Whole!TypeOK, Whole!MembershipAgrees, Whole!NoGhosts,
     ConnStates, RoomStates, TimerStates, Whole!ConnStates, Whole!RoomStates, Whole!TimerStates

LEMMA NowIsOK ==
  ASSUME Whole!Consistent, stack = <<>>
  PROVE  Consistent
<1>1. /\ Shown(conn, before.conn) = conn
      /\ Shown(connRoom, before.connRoom) = connRoom
      /\ Shown(rooms, before.rooms) = rooms
      /\ Shown(status, before.status) = status
      /\ Shown(members, before.members) = members
      /\ Shown(timer, before.timer) = timer
  BY DEF Shown
<1>2. QED
  BY <1>1 DEF Consistent, TypeOK, MembershipAgrees, NoGhosts, TableListsLiveRooms,
     OwnerIsPresent, LiveRoomsHaveTimers, UsedIds, ConnStates, RoomStates, TimerStates,
     Whole!Consistent, Whole!TypeOK, Whole!MembershipAgrees, Whole!NoGhosts,
     Whole!TableListsLiveRooms, Whole!OwnerIsPresent, Whole!LiveRoomsHaveTimers,
     Whole!UsedIds, Whole!ConnStates, Whole!RoomStates, Whole!TimerStates

-----------------------------------------------------------------------------
(* The calls of a connection that leaves *)

(* A call that does not end the chain changes nothing that AtomicServer sees.*)
LEMMA CallIsHidden ==
  ASSUME stack # <<>>, stack' # <<>>, before' = before, UNCHANGED optionVars
  PROVE  UNCHANGED Atomic!vars
BY DEF Shown, Atomic!vars, Atomic!lookupVars, Atomic!optionVars, optionVars

(* When the chain ends, AtomicServer sees it all at once. *)
LEMMA ChainIsShown ==
  ASSUME stack # <<>>, stack' = <<>>
  PROVE  /\ Shown(conn, before.conn) = before.conn
         /\ Shown(connRoom, before.connRoom) = before.connRoom
         /\ Shown(rooms, before.rooms) = before.rooms
         /\ Shown(status, before.status) = before.status
         /\ Shown(members, before.members) = before.members
         /\ Shown(timer, before.timer) = before.timer
         /\ (Shown(conn, before.conn))' = conn'
         /\ (Shown(connRoom, before.connRoom))' = connRoom'
         /\ (Shown(rooms, before.rooms))' = rooms'
         /\ (Shown(status, before.status))' = status'
         /\ (Shown(members, before.members))' = members'
         /\ (Shown(timer, before.timer))' = timer'
BY DEF Shown

LEMMA ShutNone ==
  ASSUME BeforeOK
  PROVE  Shut(before.conn, {}) = before.conn /\ Forgot(before.connRoom, {}) = before.connRoom
BY DEF Shut, Forgot, BeforeOK

LEMMA ShutOne ==
  ASSUME BeforeOK, NEW c \in Conns
  PROVE  /\ [before.conn EXCEPT ![c] = "closed"] = Shut(before.conn, {c})
         /\ [before.connRoom EXCEPT ![c] = NoRoom] = Forgot(before.connRoom, {c})
BY DEF Shut, Forgot, BeforeOK

LEMMA ShutOneMore ==
  ASSUME NEW c \in Conns, NEW K
  PROVE  /\ [Shut(before.conn, K) EXCEPT ![c] = "closed"] = Shut(before.conn, K \cup {c})
         /\ [Forgot(before.connRoom, K) EXCEPT ![c] = NoRoom] = Forgot(before.connRoom, K \cup {c})
BY DEF Shut, Forgot

LEMMA ClosingStep ==
  ASSUME BeforeOK, NEW c \in Conns, Closing(c), TeardownNext
  PROVE  Reporting(c)' /\ before' = before
<1>1. Top = CallClose(c) /\ stack # <<>>
  BY OneFrame DEF Closing
<1>2. Close /\ Top.c = c
  BY <1>1, OneCall, StackFrames
<1>3. conn = before.conn /\ IsOpen(c)
  BY ShutNone DEF Closing, Apart, Leaves, IsOpen
<1>4. stack' = <<CallOnClose(c)>>
  BY <1>2, <1>3, OneFrame DEF Close, Closing
<1>5. before' = before /\ UNCHANGED optionVars
  BY <1>1, <1>4, OneCall
<1>6. conn' = Shut(before.conn, {c})
  BY <1>2, <1>3, ShutOne DEF Close
<1>7. UNCHANGED <<connRoom, rooms, status, members, timer>>
  BY <1>2 DEF Close, lookupVars
<1>8. QED
  BY <1>4, <1>5, <1>6, <1>7 DEF Closing, Reporting, Leaves, Apart, RoomsAsBefore

LEMMA ReportingStep ==
  ASSUME BeforeOK, NEW c \in Conns, Reporting(c), TeardownNext
  PROVE  \/ /\ \E r \in Rooms : Removing(c, r)'
            /\ before' = before
         \/ stack' = <<>> /\ Atomic!CloseInLobby(c)
<1>1. Top = CallOnClose(c) /\ stack # <<>>
  BY OneFrame DEF Reporting
<1>2. OnConnectionClose /\ Top.c = c /\ UNCHANGED optionVars
  BY <1>1, OneCall, StackFrames
<1>3. connRoom = before.connRoom
  BY ShutNone DEF Reporting, Apart
<1>4. UNCHANGED <<conn, rooms, status, members, timer>>
  BY <1>2 DEF OnConnectionClose
<1>5. connRoom' = Forgot(before.connRoom, {c})
  BY <1>2, <1>3, ShutOne DEF OnConnectionClose
<1>6. CASE connRoom[c] = NoRoom
  <2>1. stack' = <<>>
    BY <1>2, <1>6, OneFrame DEF OnConnectionClose, Reporting
  <2>2. connRoom' = before.connRoom
    BY <1>3, <1>5, <1>6 DEF Forgot, BeforeOK
  <2>3. conn' = [before.conn EXCEPT ![c] = "closed"]
    BY <1>4, ShutOne DEF Reporting, Apart
  <2>4. Atomic!CloseInLobby(c)
    BY <1>1, <1>2, <1>3, <1>4, <1>6, <2>1, <2>2, <2>3, ChainIsShown
       DEF Reporting, Leaves, Apart, RoomsAsBefore, Atomic!CloseInLobby, Atomic!IsOpen,
       Atomic!lookupVars, Atomic!optionVars, optionVars
  <2>5. QED
    BY <2>1, <2>4
<1>7. CASE connRoom[c] # NoRoom
  <2>1. PICK r \in Rooms : connRoom[c] = r
    BY <1>3, <1>7 DEF BeforeOK
  <2>2. stack' = <<CallRemove(r, c)>>
    BY <1>2, <1>7, <2>1, OneFrame DEF OnConnectionClose, Reporting
  <2>3. before' = before
    BY <1>1, <2>2, OneCall
  <2>4. Removing(c, r)'
    BY <1>2, <1>3, <1>4, <1>5, <2>1, <2>2, <2>3
       DEF Reporting, Removing, Leaves, Apart, RoomsAsBefore
  <2>5. QED
    BY <2>1, <2>3, <2>4
<1>8. QED
  BY <1>6, <1>7

LEMMA RemovingStep ==
  ASSUME BeforeOK, NEW c \in Conns, NEW r \in Rooms, Removing(c, r), TeardownNext
  PROVE  \/ HostGone(c, r)' /\ before' = before
         \/ stack' = <<>> /\ Atomic!MemberLeaves(c)
<1>1. Top = CallRemove(r, c) /\ stack # <<>>
  BY OneFrame DEF Removing
<1>2. RemoveParticipant /\ Top.c = c /\ Top.r = r /\ UNCHANGED optionVars
  BY <1>1, OneCall, StackFrames
<1>3. /\ c \in before.members[r] /\ before.status[r] = "live" /\ before.connRoom[c] = r
      /\ members = before.members /\ status = before.status
  BY DEF BeforeOK, Removing, RoomsAsBefore
<1>4. UNCHANGED <<conn, connRoom, rooms, status, timer>>
  BY <1>2 DEF RemoveParticipant, lookupVars
<1>5. members' = [before.members EXCEPT ![r] = @ \ {c}]
  BY <1>2, <1>3 DEF RemoveParticipant
<1>6. CASE owner[r] = c
  <2>1. stack' = <<CallCloseRoom(r)>>
    BY <1>2, <1>3, <1>6, OneFrame DEF RemoveParticipant, Removing
  <2>2. before' = before
    BY <1>1, <2>1, OneCall
  <2>3. HostGone(c, r)'
    BY <1>2, <1>3, <1>4, <1>5, <1>6, <2>1, <2>2
       DEF Removing, HostGone, HostLeaves, Leaves, Apart, RoomsAsBefore, optionVars
  <2>4. QED
    BY <2>2, <2>3
<1>7. CASE owner[r] # c
  <2>1. stack' = <<>>
    BY <1>2, <1>3, <1>7, OneFrame DEF RemoveParticipant, Removing
  <2>2. /\ conn' = [before.conn EXCEPT ![c] = "closed"]
        /\ connRoom' = [before.connRoom EXCEPT ![c] = NoRoom]
    BY <1>4, ShutOne DEF Removing, Apart
  <2>3. /\ before.conn[c] \in {"handshake", "open"} /\ rooms' = before.rooms
        /\ status' = before.status /\ timer' = before.timer
        /\ members' = [before.members EXCEPT ![before.connRoom[c]] =
                         IF before.status[before.connRoom[c]] = "closed" THEN @ ELSE @ \ {c}]
    BY <1>3, <1>4, <1>5 DEF Removing, Leaves, Apart, RoomsAsBefore
  <2>4. Atomic!IsOpen(c) /\ ~Atomic!OwnerCloses(c)
    BY <1>1, <1>3, <1>7, <2>1, <2>3, ChainIsShown DEF Atomic!IsOpen, Atomic!OwnerCloses
  <2>5. Atomic!MemberLeaves(c)
    BY <1>1, <1>2, <1>3, <2>1, <2>2, <2>3, <2>4, ChainIsShown
       DEF Atomic!MemberLeaves, Atomic!optionVars, optionVars
  <2>6. QED
    BY <2>1, <2>5
<1>8. QED
  BY <1>6, <1>7

-----------------------------------------------------------------------------
(* close_room and its loop *)

LEMMA HostGoneStep ==
  ASSUME BeforeOK, NEW c \in Conns, NEW r \in Rooms, HostGone(c, r), TeardownNext
  PROVE  Looping(r, before.members[r] \ {c})' /\ before' = before
<1>1. Top = CallCloseRoom(r) /\ stack # <<>>
  BY OneFrame DEF HostGone
<1>2. CloseRoomBegins /\ Top.r = r /\ UNCHANGED optionVars
  BY <1>1, OneCall, StackFrames
<1>3. /\ c \in before.members[r] /\ before.status[r] = "live"
      /\ status = before.status /\ timer = before.timer
      /\ members = [before.members EXCEPT ![r] = @ \ {c}]
  BY DEF BeforeOK, HostGone, HostLeaves
<1>4. /\ status' = [before.status EXCEPT ![r] = "closed"]
      /\ timer' = [before.timer EXCEPT ![r] = IF @ = "armed" THEN "idle" ELSE @]
      /\ members' = [members EXCEPT ![r] = {}]
      /\ UNCHANGED <<conn, connRoom, rooms>>
  BY <1>2, <1>3 DEF CloseRoomBegins, CancelTimer, lookupVars
<1>5. members' = [before.members EXCEPT ![r] = {}]
  BY <1>3, <1>4 DEF BeforeOK
<1>6. stack' = <<CloseLoop(r, before.members[r] \ {c})>>
  <2>1. members[r] = before.members[r] \ {c}
    BY <1>3 DEF BeforeOK
  <2>2. TailCall(CloseLoop(r, members[r]))
    BY <1>2, <1>3 DEF CloseRoomBegins
  <2>3. QED
    BY <2>1, <2>2, OneFrame DEF HostGone
<1>7. before' = before
  BY <1>1, <1>6, OneCall
<1>8. LeftAlready(r, before.members[r] \ {c}) = {c}
  BY <1>3 DEF LeftAlready
<1>9. HostLeaves(c, r)'
  BY <1>2, <1>7 DEF HostGone, HostLeaves, Leaves, optionVars
<1>10. Dissolving(r)'
  BY <1>3, <1>4, <1>5, <1>7, <1>9 DEF Dissolving
<1>11. Apart({c}, {c})'
  BY <1>4, <1>7 DEF HostGone, Apart
<1>12. QED
  BY <1>6, <1>7, <1>8, <1>10, <1>11 DEF Looping, LeftAlready

LEMMA ExpiredStep ==
  ASSUME BeforeOK, NEW r \in Rooms, Expired(r), TeardownNext
  PROVE  \/ Looping(r, before.members[r])' /\ before' = before
         \/ stack' = <<>> /\ Atomic!ExpireClosedRoom(r)
<1>1. Top = CallCloseRoom(r) /\ stack # <<>>
  BY OneFrame DEF Expired
<1>2. CloseRoomBegins /\ Top.r = r /\ UNCHANGED optionVars
  BY <1>1, OneCall, StackFrames
<1>3. /\ before.timer[r] = "queued" /\ status = before.status /\ members = before.members
      /\ conn = before.conn /\ connRoom = before.connRoom /\ rooms = before.rooms
      /\ timer = [before.timer EXCEPT ![r] = "idle"]
  BY ShutNone DEF Expired, Expires, Apart
<1>4. UNCHANGED <<conn, connRoom, rooms>>
  BY <1>2 DEF CloseRoomBegins, lookupVars
<1>5. CASE status[r] = "closed"
  <2>1. stack' = <<>> /\ UNCHANGED <<status, members, timer>>
    BY <1>2, <1>5, OneFrame DEF CloseRoomBegins, Expired
  <2>2. Atomic!ExpireClosedRoom(r)
    BY <1>1, <1>2, <1>3, <1>4, <1>5, <2>1, ChainIsShown
       DEF Atomic!ExpireClosedRoom, Atomic!lookupVars, Atomic!optionVars, optionVars
  <2>3. QED
    BY <2>1, <2>2
<1>6. CASE status[r] # "closed"
  <2>1. before.status[r] = "live"
    BY <1>3, <1>6 DEF BeforeOK, RoomStates
  <2>2. /\ status' = [before.status EXCEPT ![r] = "closed"]
        /\ members' = [before.members EXCEPT ![r] = {}]
        /\ timer' = [timer EXCEPT ![r] = IF @ = "armed" THEN "idle" ELSE @]
        /\ TailCall(CloseLoop(r, before.members[r]))
    BY <1>2, <1>3, <1>6 DEF CloseRoomBegins, CancelTimer
  <2>3. timer' = [before.timer EXCEPT ![r] = "idle"]
    BY <1>3, <2>2 DEF BeforeOK
  <2>4. stack' = <<CloseLoop(r, before.members[r])>>
    BY <2>2, OneFrame DEF Expired
  <2>5. before' = before
    BY <1>1, <2>4, OneCall
  <2>6. Dissolving(r)'
    BY <1>3, <2>1, <2>2, <2>3, <2>5 DEF Dissolving, Expires
  <2>7. Apart({}, {})'
    BY <1>4, <2>5 DEF Expired, Apart
  <2>8. LeftAlready(r, before.members[r]) = {}
    BY DEF LeftAlready
  <2>9. QED
    BY <2>4, <2>5, <2>6, <2>7, <2>8 DEF Looping, LeftAlready
<1>7. QED
  BY <1>5, <1>6

(* What a step of the loop keeps. *)
LEMMA DissolvingStays ==
  ASSUME NEW r \in Rooms, Dissolving(r), before' = before,
         UNCHANGED <<status, members, timer, optionVars>>
  PROVE  Dissolving(r)'
<1>1. \A c \in Conns : HostLeaves(c, r) => HostLeaves(c, r)'
  BY DEF HostLeaves, Leaves, optionVars
<1>2. QED
  BY <1>1 DEF Dissolving, Expires

LEMMA LoopingStep ==
  ASSUME BeforeOK, NEW r \in Rooms, NEW todo \in SUBSET Conns, Looping(r, todo), TeardownNext
  PROVE  /\ before' = before
         /\ \/ \E d \in Conns : ClosingOther(r, todo \ {d}, d)'
            \/ Cleaning(r)'
<1>1. Top = CloseLoop(r, todo) /\ stack # <<>> /\ Tail(stack) = <<>>
  BY OneFrame DEF Looping
<1>2. /\ CloseNextParticipant \/ CloseLoopEnds
      /\ Top.r = r /\ Top.todo = todo /\ UNCHANGED optionVars
  BY <1>1, OneCall, StackFrames
<1>3. UNCHANGED <<conn, connRoom, rooms, status, members, timer>>
  BY <1>2 DEF CloseNextParticipant, CloseLoopEnds, serverVars, vars, lookupVars
<1>4. CASE CloseNextParticipant
  <2>1. PICK d \in todo : stack' = LET rest == <<CloseLoop(r, todo \ {d})>> \o <<>>
                                   IN  IF IsOpen(d) THEN <<CallClose(d)>> \o rest ELSE rest
    BY <1>1, <1>2, <1>4 DEF CloseNextParticipant
  <2>2. d \in Conns /\ d \in before.members[r] /\ d \notin LeftAlready(r, todo)
    BY DEF Looping, LeftAlready
  <2>3. IsOpen(d)
    BY <2>2 DEF Looping, Apart, Shut, IsOpen, BeforeOK
  <2>4. stack' = <<CallClose(d), CloseLoop(r, todo \ {d})>>
    BY <2>1, <2>3, Joined
  <2>5. before' = before
    BY <1>1, <2>4, OneCall
  <2>6. Dissolving(r)'
    BY <1>2, <1>3, <2>5, DissolvingStays DEF Looping
  <2>7. (todo \ {d}) \cup {d} = todo
    OBVIOUS
  <2>8. Apart(LeftAlready(r, todo), LeftAlready(r, todo))'
    BY <1>3, <2>5 DEF Looping, Apart, LeftAlready
  <2>9. ClosingOther(r, todo \ {d}, d)'
    BY <2>2, <2>4, <2>5, <2>6, <2>7, <2>8 DEF Looping, ClosingOther, InLoop
  <2>10. QED
    BY <2>2, <2>5, <2>9
<1>5. CASE CloseLoopEnds
  <2>1. stack' = <<CallCleanup(r)>> /\ todo = {}
    BY <1>2, <1>5, OneFrame DEF CloseLoopEnds, Looping
  <2>2. before' = before
    BY <1>1, <2>1, OneCall
  <2>3. Dissolving(r)'
    BY <1>2, <1>3, <2>2, DissolvingStays DEF Looping
  <2>4. LeftAlready(r, todo) = before.members[r]
    BY <2>1 DEF LeftAlready
  <2>5. QED
    BY <1>3, <2>1, <2>2, <2>3, <2>4 DEF Looping, Apart, Cleaning
<1>6. QED
  BY <1>2, <1>4, <1>5

LEMMA ClosingOtherStep ==
  ASSUME BeforeOK, NEW r \in Rooms, NEW todo \in SUBSET Conns, NEW d \in Conns,
         ClosingOther(r, todo, d), TeardownNext
  PROVE  ReportingOther(r, todo, d)' /\ before' = before
<1>1. Top = CallClose(d) /\ stack # <<>>
  BY TwoFrames DEF ClosingOther, InLoop
<1>2. Close /\ Top.c = d /\ UNCHANGED optionVars
  BY <1>1, OneCall, StackFrames
<1>3. /\ d \in before.members[r] /\ d \notin todo /\ d \notin LeftAlready(r, todo \cup {d})
      /\ LeftAlready(r, todo \cup {d}) \cup {d} = LeftAlready(r, todo)
  BY DEF ClosingOther, InLoop, LeftAlready
<1>4. IsOpen(d)
  BY <1>3 DEF ClosingOther, Apart, Shut, IsOpen, BeforeOK
<1>5. stack' = <<CallOnClose(d), CloseLoop(r, todo)>>
  BY <1>2, <1>4, TwoFrames DEF Close, ClosingOther, InLoop
<1>6. before' = before
  BY <1>1, <1>5, OneCall
<1>7. UNCHANGED <<connRoom, rooms, status, members, timer>>
  BY <1>2 DEF Close, lookupVars
<1>8. Dissolving(r)'
  BY <1>2, <1>6, <1>7, DissolvingStays DEF ClosingOther, InLoop
<1>9. conn' = Shut(before.conn, LeftAlready(r, todo))
  BY <1>2, <1>3, ShutOneMore DEF Close, ClosingOther, Apart
<1>10. Apart(LeftAlready(r, todo), LeftAlready(r, todo \cup {d}))'
  BY <1>6, <1>7, <1>9 DEF ClosingOther, Apart, LeftAlready, Shut, Forgot
<1>11. QED
  BY <1>3, <1>5, <1>6, <1>8, <1>10 DEF ClosingOther, ReportingOther, InLoop

LEMMA ReportingOtherStep ==
  ASSUME BeforeOK, NEW r \in Rooms, NEW todo \in SUBSET Conns, NEW d \in Conns,
         ReportingOther(r, todo, d), TeardownNext
  PROVE  RemovingOther(r, todo, d)' /\ before' = before
<1>1. Top = CallOnClose(d) /\ stack # <<>>
  BY TwoFrames DEF ReportingOther, InLoop
<1>2. OnConnectionClose /\ Top.c = d /\ UNCHANGED optionVars
  BY <1>1, OneCall, StackFrames
<1>3. /\ d \in before.members[r] /\ d \notin todo /\ d \notin LeftAlready(r, todo \cup {d})
      /\ LeftAlready(r, todo \cup {d}) \cup {d} = LeftAlready(r, todo)
  BY DEF ReportingOther, InLoop, LeftAlready
<1>4. connRoom[d] = r
  BY <1>3 DEF ReportingOther, Apart, Forgot, BeforeOK
<1>5. stack' = <<CallRemove(r, d), CloseLoop(r, todo)>>
  BY <1>2, <1>4, TwoFrames DEF OnConnectionClose, ReportingOther, InLoop
<1>6. before' = before
  BY <1>1, <1>5, OneCall
<1>7. UNCHANGED <<conn, rooms, status, members, timer>>
  BY <1>2 DEF OnConnectionClose
<1>8. Dissolving(r)'
  BY <1>2, <1>6, <1>7, DissolvingStays DEF ReportingOther, InLoop
<1>9. connRoom' = Forgot(before.connRoom, LeftAlready(r, todo))
  BY <1>2, <1>3, ShutOneMore DEF OnConnectionClose, ReportingOther, Apart
<1>10. Apart(LeftAlready(r, todo), LeftAlready(r, todo))'
  BY <1>6, <1>7, <1>9 DEF ReportingOther, Apart, LeftAlready, Shut, Forgot
<1>11. QED
  BY <1>3, <1>5, <1>6, <1>8, <1>10 DEF ReportingOther, RemovingOther, InLoop

(* The room is closed already: remove_participant returns at once. *)
LEMMA RemovingOtherStep ==
  ASSUME BeforeOK, NEW r \in Rooms, NEW todo \in SUBSET Conns, NEW d \in Conns,
         RemovingOther(r, todo, d), TeardownNext
  PROVE  Looping(r, todo)' /\ before' = before
<1>1. Top = CallRemove(r, d) /\ stack # <<>>
  BY TwoFrames DEF RemovingOther, InLoop
<1>2. RemoveParticipant /\ Top.r = r /\ UNCHANGED optionVars
  BY <1>1, OneCall, StackFrames
<1>3. status[r] = "closed"
  BY DEF RemovingOther, InLoop, Dissolving, BeforeOK
<1>4. stack' = <<CloseLoop(r, todo)>> /\ UNCHANGED members
  BY <1>2, <1>3, TwoFrames DEF RemoveParticipant, RemovingOther, InLoop
<1>5. before' = before
  BY <1>1, <1>4, OneCall
<1>6. UNCHANGED <<conn, connRoom, rooms, status, timer>>
  BY <1>2 DEF RemoveParticipant, lookupVars
<1>7. Dissolving(r)'
  BY <1>2, <1>4, <1>5, <1>6, DissolvingStays DEF RemovingOther, InLoop
<1>8. Apart(LeftAlready(r, todo), LeftAlready(r, todo))'
  BY <1>5, <1>6 DEF RemovingOther, Apart, LeftAlready, Shut, Forgot
<1>9. QED
  BY <1>4, <1>5, <1>7, <1>8 DEF RemovingOther, InLoop, Looping

-----------------------------------------------------------------------------
(* cleanup_room, and the chain as a whole *)

(* Forgetting who left and then whoever goes by the room's number is         *)
(* forgetting them at once, as MeetingServer does.                           *)
LEMMA CleaningStep ==
  ASSUME BeforeOK, NEW r \in Rooms, Cleaning(r), TeardownNext
  PROVE  /\ stack' = <<>>
         /\ (\E c \in Conns : Atomic!OwnerLeaves(c)) \/ Atomic!ExpireRoom(r)
<1>1. Top = CallCleanup(r) /\ stack # <<>>
  BY OneFrame DEF Cleaning
<1>2. CleanupRoom /\ Top.r = r /\ UNCHANGED optionVars
  BY <1>1, OneCall, StackFrames
<1>3. stack' = <<>>
  BY <1>2, OneFrame DEF CleanupRoom, Cleaning
<1>4. /\ UNCHANGED <<conn, status, members, timer>>
      /\ rooms' = [before.rooms EXCEPT ![number[r]] = NoRoom]
      /\ connRoom' = [x \in Conns |->
                        IF InRoomNumber(x, number[r]) THEN NoRoom ELSE connRoom[x]]
  BY <1>2 DEF CleanupRoom, Cleaning, Apart
<1>5. /\ conn' = [x \in Conns |-> IF x \in before.members[r] THEN "closed" ELSE before.conn[x]]
      /\ status' = [before.status EXCEPT ![r] = "closed"]
      /\ members' = [before.members EXCEPT ![r] = {}]
      /\ timer' = timer /\ before.status[r] = "live"
  BY <1>4 DEF Cleaning, Dissolving, Apart, Shut
<1>6. \A x \in Conns : Atomic!InRoomNumber(x, number[r])
                         <=> before.connRoom[x] # NoRoom /\ number[before.connRoom[x]] = number[r]
  BY <1>1, <1>3, ChainIsShown DEF Atomic!InRoomNumber
<1>7. connRoom' = [x \in Conns |->
                    IF x \in before.members[r] \/ Atomic!InRoomNumber(x, number[r])
                      THEN NoRoom ELSE before.connRoom[x]]
  <2>1. \A x \in Conns : connRoom[x] = IF x \in before.members[r] THEN NoRoom
                                        ELSE before.connRoom[x]
    BY DEF Cleaning, Apart, Forgot
  <2>2. QED
    BY <1>4, <1>6, <2>1 DEF InRoomNumber
<1>8. \A x \in before.members[r] : x \in Conns /\ Atomic!IsOpen(x)
  BY <1>1, <1>3, ChainIsShown DEF Atomic!IsOpen, BeforeOK
<1>9. ASSUME NEW also \in SUBSET before.members[r]
      PROVE  Atomic!CloseRoom(r, also)
  <2>1. {x \in before.members[r] : Atomic!IsOpen(x)} \cup also = before.members[r]
    BY <1>8
  <2>2. /\ Shown(conn, before.conn) = before.conn /\ Shown(conn, before.conn)' = conn'
        /\ Shown(connRoom, before.connRoom) = before.connRoom
        /\ Shown(connRoom, before.connRoom)' = connRoom'
        /\ Shown(rooms, before.rooms) = before.rooms /\ Shown(rooms, before.rooms)' = rooms'
        /\ Shown(status, before.status) = before.status
        /\ Shown(status, before.status)' = status'
        /\ Shown(members, before.members) = before.members
        /\ Shown(members, before.members)' = members'
    BY <1>1, <1>3, ChainIsShown
  <2>3. QED
    BY <1>4, <1>5, <1>7, <2>1, <2>2 DEF Atomic!CloseRoom
<1>10. CASE /\ \E c \in Conns : HostLeaves(c, r)
            /\ timer = [before.timer EXCEPT ![r] = IF @ = "armed" THEN "idle" ELSE @]
  <2>1. PICK c \in Conns : HostLeaves(c, r)
    BY <1>10
  <2>2. c \in before.members[r] /\ before.connRoom[c] = r /\ owner[r] = c
    BY <2>1 DEF HostLeaves, BeforeOK
  <2>3. Atomic!IsOpen(c) /\ Atomic!OwnerCloses(c)
    BY <1>1, <1>3, <1>5, <1>8, <2>2, ChainIsShown DEF Atomic!OwnerCloses
  <2>4. Atomic!CancelTimer(r)
    BY <1>1, <1>3, <1>5, <1>10, ChainIsShown DEF Atomic!CancelTimer
  <2>5. Shown(connRoom, before.connRoom)[c] = r
    BY <1>1, <1>3, <2>2, ChainIsShown
  <2>6. Atomic!CloseRoom(r, {c})
    BY <1>9, <2>2
  <2>7. Atomic!OwnerLeaves(c)
    BY <1>2, <2>3, <2>4, <2>5, <2>6 DEF Atomic!OwnerLeaves, Atomic!optionVars, optionVars
  <2>8. QED
    BY <1>3, <2>7
<1>11. CASE Expires(r) /\ timer = [before.timer EXCEPT ![r] = "idle"]
  <2>1. Atomic!CloseRoom(r, {})
    BY <1>9
  <2>2. Atomic!ExpireRoom(r)
    BY <1>1, <1>2, <1>3, <1>5, <1>11, <2>1, ChainIsShown
       DEF Expires, Atomic!ExpireRoom, Atomic!optionVars, optionVars
  <2>3. QED
    BY <1>3, <2>2
<1>12. QED
  BY <1>10, <1>11 DEF Cleaning, Dissolving

LEMMA ChainStep ==
  ASSUME Whole!Consistent, stack # <<>>, Chain, TeardownNext
  PROVE  /\ stack' = <<>> \/ Chain'
         /\ Atomic!Next \/ UNCHANGED Atomic!vars
<1>1. BeforeOK
  BY BeforeIsOK
<1>2. SUFFICES \/ Chain' /\ before' = before
               \/ stack' = <<>> /\ Atomic!Next
  <2>1. CASE stack' = <<>> /\ Atomic!Next
    BY <2>1
  <2>2. CASE Chain' /\ before' = before /\ stack' # <<>>
    BY <2>2, CallIsHidden, OneCall
  <2>3. Chain' => stack' # <<>>
    <3>1. ASSUME NEW a, NEW b PROVE <<a>> # <<>> /\ <<a, b>> # <<>>
      OBVIOUS
    <3>2. /\ \A c \in Conns : (Closing(c) \/ Reporting(c))' => stack' # <<>>
          /\ \A c \in Conns, r \in Rooms : (Removing(c, r) \/ HostGone(c, r))' => stack' # <<>>
          /\ \A r \in Rooms : (Expired(r) \/ Cleaning(r))' => stack' # <<>>
          /\ \A r \in Rooms, todo \in SUBSET Conns : Looping(r, todo)' => stack' # <<>>
      BY <3>1 DEF Closing, Reporting, Removing, HostGone, Expired, Cleaning, Looping
    <3>3. \A call, r, todo, d : InLoop(call, r, todo, d)' => stack' # <<>>
      BY <3>1 DEF InLoop
    <3>4. \A r, todo, d :
            (ClosingOther(r, todo, d) \/ ReportingOther(r, todo, d) \/ RemovingOther(r, todo, d))'
              => stack' # <<>>
      BY <3>3 DEF ClosingOther, ReportingOther, RemovingOther
    <3>5. QED
      BY <3>2, <3>4 DEF Chain
  <2>4. QED
    BY <1>2, <2>1, <2>2, <2>3
<1>3. ASSUME NEW c \in Conns, Closing(c)
      PROVE  Chain' /\ before' = before
  BY <1>1, <1>3, ClosingStep DEF Chain
<1>4. ASSUME NEW c \in Conns, Reporting(c)
      PROVE  (Chain' /\ before' = before) \/ (stack' = <<>> /\ Atomic!Next)
  <2>1. CASE (\E r \in Rooms : Removing(c, r)') /\ before' = before
    <3>1. \E x \in Conns, r \in Rooms : Removing(x, r)'
      BY <2>1
    <3>2. QED
      BY <2>1, <3>1 DEF Chain
  <2>2. CASE stack' = <<>> /\ Atomic!CloseInLobby(c)
    BY <2>2 DEF Atomic!Next
  <2>3. QED
    BY <1>1, <1>4, <2>1, <2>2, ReportingStep
<1>5. ASSUME NEW c \in Conns, NEW r \in Rooms, Removing(c, r)
      PROVE  (Chain' /\ before' = before) \/ (stack' = <<>> /\ Atomic!Next)
  <2>1. CASE HostGone(c, r)' /\ before' = before
    <3>1. \E x \in Conns, y \in Rooms : HostGone(x, y)'
      BY <2>1
    <3>2. QED
      BY <2>1, <3>1 DEF Chain
  <2>2. CASE stack' = <<>> /\ Atomic!MemberLeaves(c)
    BY <2>2 DEF Atomic!Next
  <2>3. QED
    BY <1>1, <1>5, <2>1, <2>2, RemovingStep
<1>6. ASSUME NEW c \in Conns, NEW r \in Rooms, HostGone(c, r)
      PROVE  Chain' /\ before' = before
  <2>1. before.members[r] \ {c} \in SUBSET Conns
    BY <1>1 DEF BeforeOK
  <2>2. Looping(r, before.members[r] \ {c})' /\ before' = before
    BY <1>1, <1>6, HostGoneStep
  <2>3. \E todo \in SUBSET Conns : Looping(r, todo)'
    <3>1. (before.members[r] \ {c})' = before.members[r] \ {c}
      BY <2>2
    <3>2. QED
      BY <2>1, <2>2, <3>1 DEF Looping, Apart, LeftAlready
  <2>4. QED
    BY <2>2, <2>3 DEF Chain
<1>7. ASSUME NEW r \in Rooms, Expired(r)
      PROVE  (Chain' /\ before' = before) \/ (stack' = <<>> /\ Atomic!Next)
  <2>1. CASE Looping(r, before.members[r])' /\ before' = before
    <3>1. before.members[r] \in SUBSET Conns
      BY <1>1 DEF BeforeOK
    <3>2. \E todo \in SUBSET Conns : Looping(r, todo)'
      BY <2>1, <3>1 DEF Looping, Apart, LeftAlready
    <3>3. Chain'
      BY <3>2 DEF Chain
    <3>4. QED
      BY <2>1, <3>3
  <2>2. CASE stack' = <<>> /\ Atomic!ExpireClosedRoom(r)
    BY <2>2 DEF Atomic!Next
  <2>3. QED
    BY <1>1, <1>7, <2>1, <2>2, ExpiredStep
<1>8. ASSUME NEW r \in Rooms, NEW todo \in SUBSET Conns, Looping(r, todo)
      PROVE  Chain' /\ before' = before
  <2>1. CASE \E d \in Conns : ClosingOther(r, todo \ {d}, d)'
    BY <1>1, <1>8, <2>1, LoopingStep DEF Chain
  <2>2. CASE Cleaning(r)'
    BY <1>1, <1>8, <2>2, LoopingStep DEF Chain
  <2>3. QED
    BY <1>1, <1>8, <2>1, <2>2, LoopingStep
<1>9. ASSUME NEW r \in Rooms, NEW todo \in SUBSET Conns, NEW d \in Conns,
             \/ ClosingOther(r, todo, d)
             \/ ReportingOther(r, todo, d)
             \/ RemovingOther(r, todo, d)
      PROVE  Chain' /\ before' = before
  BY <1>1, <1>9, ClosingOtherStep, ReportingOtherStep, RemovingOtherStep DEF Chain
<1>10. ASSUME NEW r \in Rooms, Cleaning(r)
       PROVE  stack' = <<>> /\ Atomic!Next
  BY <1>1, <1>10, CleaningStep DEF Atomic!Next
<1>11. QED
  BY <1>3, <1>4, <1>5, <1>6, <1>7, <1>8, <1>9, <1>10 DEF Chain

-----------------------------------------------------------------------------
(* Between chains *)

LEMMA ShownNow ==
  ASSUME stack = <<>>
  PROVE  /\ Shown(conn, before.conn) = conn
         /\ Shown(connRoom, before.connRoom) = connRoom
         /\ Shown(rooms, before.rooms) = rooms
         /\ Shown(status, before.status) = status
         /\ Shown(members, before.members) = members
         /\ Shown(timer, before.timer) = timer
BY DEF Shown

(* A handler that starts a chain changes nothing yet. *)
LEMMA StartIsHidden ==
  ASSUME stack = <<>>, stack' # <<>>, before' = Snapshot, UNCHANGED optionVars
  PROVE  UNCHANGED Atomic!vars
<1>1. /\ before'.conn = conn /\ before'.connRoom = connRoom /\ before'.rooms = rooms
      /\ before'.status = status /\ before'.members = members /\ before'.timer = timer
  BY DEF Snapshot
<1>2. QED
  BY <1>1 DEF Shown, Atomic!vars, Atomic!lookupVars, Atomic!optionVars, optionVars

LEMMA StartStep ==
  ASSUME Consistent, (\E c \in Conns : StartClose(c)) \/ (\E r \in Rooms : StartExpire(r))
  PROVE  Chain' /\ UNCHANGED Atomic!vars
<1>1. ASSUME before' = Snapshot
      PROVE  /\ before'.conn = conn /\ before'.connRoom = connRoom /\ before'.rooms = rooms
             /\ before'.status = status /\ before'.members = members /\ before'.timer = timer
             /\ conn = Shut(before'.conn, {}) /\ connRoom = Forgot(before'.connRoom, {})
  BY <1>1 DEF Snapshot, Shut, Forgot, Consistent, TypeOK
<1>2. ASSUME NEW c \in Conns, StartClose(c)
      PROVE  Chain' /\ UNCHANGED Atomic!vars
  <2>1. /\ stack = <<>> /\ stack' = <<CallClose(c)>> /\ before' = Snapshot
        /\ conn[c] \in {"handshake", "open"}
        /\ UNCHANGED <<conn, connRoom, rooms, status, members, timer, optionVars>>
    BY <1>2 DEF StartClose, IsOpen, serverVars, vars, lookupVars
  <2>2. stack' # <<>>
    BY <2>1
  <2>3. Closing(c)'
    BY <1>1, <2>1 DEF Closing, Leaves, Apart, RoomsAsBefore, Shut, Forgot
  <2>4. QED
    BY <2>1, <2>2, <2>3, StartIsHidden DEF Chain
<1>3. ASSUME NEW r \in Rooms, StartExpire(r)
      PROVE  Chain' /\ UNCHANGED Atomic!vars
  <2>1. /\ stack = <<>> /\ stack' = <<CallCloseRoom(r)>> /\ before' = Snapshot
        /\ timer[r] = "queued" /\ timer' = [timer EXCEPT ![r] = "idle"]
        /\ UNCHANGED <<conn, connRoom, rooms, status, members, optionVars>>
    BY <1>3 DEF StartExpire, lookupVars
  <2>2. stack' # <<>>
    BY <2>1
  <2>3. Expired(r)'
    BY <1>1, <2>1 DEF Expired, Expires, Apart, Shut, Forgot
  <2>4. QED
    BY <2>1, <2>2, <2>3, StartIsHidden DEF Chain
<1>4. QED
  BY <1>2, <1>3

(* The other handlers are the same on both sides. *)
LEMMA OtherStep ==
  ASSUME OtherHandlers
  PROVE  stack' = <<>> /\ Atomic!Next
<1>1. stack = <<>> /\ stack' = <<>>
  BY DEF OtherHandlers
<1>2. /\ Shown(conn, before.conn) = conn
      /\ Shown(connRoom, before.connRoom) = connRoom
      /\ Shown(rooms, before.rooms) = rooms
      /\ Shown(status, before.status) = status
      /\ Shown(members, before.members) = members
      /\ Shown(timer, before.timer) = timer
  BY <1>1, ShownNow
<1>3. /\ (Shown(conn, before.conn))' = conn'
      /\ (Shown(connRoom, before.connRoom))' = connRoom'
      /\ (Shown(rooms, before.rooms))' = rooms'
      /\ (Shown(status, before.status))' = status'
      /\ (Shown(members, before.members))' = members'
      /\ (Shown(timer, before.timer))' = timer'
  BY <1>1 DEF Shown
<1>4. Atomic!UsedIds = UsedIds
  BY <1>2 DEF Atomic!UsedIds, UsedIds
<1>5. ASSUME NEW c \in Conns
      PROVE  /\ AcceptSocket(c) => Atomic!AcceptSocket(c)
             /\ HandshakeDone(c) => Atomic!HandshakeDone(c)
  BY <1>2, <1>3 DEF Atomic!AcceptSocket, AcceptSocket, Atomic!HandshakeDone, HandshakeDone,
     Atomic!lookupVars, lookupVars, Atomic!optionVars, optionVars
<1>6. ASSUME NEW c \in Conns, NEW q \in Requests, NEW r \in Rooms, NEW id \in RoomIds,
             CreateMeeting(c, q, r, id)
      PROVE  Atomic!CreateMeeting(c, q, r, id)
  <2>1. Atomic!CanCreate
    BY <1>4, <1>6, SameCounts DEF CreateMeeting, CanCreate, Atomic!CanCreate
  <2>2. Atomic!DrawRandomId(id) \/ Atomic!FallBackToSequence(id)
    BY <1>4, <1>6 DEF CreateMeeting, DrawRandomId, FallBackToSequence, Atomic!DrawRandomId,
       Atomic!FallBackToSequence
  <2>3. Atomic!CreateOptions(q) = CreateOptions(q)
    BY DEF Atomic!CreateOptions, CreateOptions, Atomic!Clamp, Clamp, Atomic!MinParticipants,
       MinParticipants, Atomic!MinMinutes, MinMinutes, Atomic!MaxMinutes, MaxMinutes,
       Atomic!DefaultMinutes, DefaultMinutes
  <2>4. Atomic!FirstTimer(CreateOptions(q).minutes) = FirstTimer(CreateOptions(q).minutes)
    BY DEF Atomic!FirstTimer, FirstTimer
  <2>5. QED
    BY <1>2, <1>3, <1>6, <2>1, <2>2, <2>3, <2>4
       DEF CreateMeeting, Atomic!CreateMeeting, InLobby, Atomic!InLobby
<1>7. ASSUME NEW c \in Conns, NEW id \in RoomIds, JoinMeeting(c, id)
      PROVE  Atomic!JoinMeeting(c, id)
  <2>1. Atomic!JoinResult(id) = JoinResult(id)
    BY <1>2, <1>4, SameCounts DEF Atomic!JoinResult, JoinResult
  <2>2. QED
    BY <1>2, <1>3, <1>7, <2>1 DEF JoinMeeting, Atomic!JoinMeeting, InLobby, Atomic!InLobby,
       optionVars, Atomic!optionVars
<1>8. ASSUME NEW r \in Rooms, TimerExpires(r)
      PROVE  Atomic!TimerExpires(r)
  BY <1>2, <1>3, <1>8 DEF TimerExpires, Atomic!TimerExpires, Atomic!lookupVars, lookupVars,
     Atomic!optionVars, optionVars
<1>9. QED
  BY <1>1, <1>5, <1>6, <1>7, <1>8 DEF OtherHandlers, Atomic!Next

-----------------------------------------------------------------------------

LEMMA TeardownStart == TeardownInit => Atomic!Init /\ TeardownInv
<1> SUFFICES ASSUME TeardownInit PROVE Atomic!Init /\ TeardownInv
  OBVIOUS
<1>2. stack = <<>>
  BY DEF TeardownInit
<1>3. Atomic!Init
  BY <1>2, ShownNow DEF TeardownInit, Init, Atomic!Init
<1>4. Whole!Init
  BY <1>3 DEF Atomic!Init, Whole!Init
<1>5. Whole!Consistent
  BY <1>4, Whole!InitConsistent, SameCounts, FiniteIds, NoRoomIsNoObject, RoomIdsArePositive,
     LimitsAreNaturals, RequestsHaveOptions DEF Whole!MinParticipants, MinParticipants
<1>6. QED
  BY <1>2, <1>3, <1>5 DEF TeardownInv

LEMMA TeardownStep ==
  ASSUME TeardownInv, [TeardownNext]_teardownVars
  PROVE  TeardownInv' /\ [Atomic!Next]_(Atomic!vars)
<1>1. SUFFICES /\ stack' = <<>> \/ Chain'
               /\ Atomic!Next \/ UNCHANGED Atomic!vars
  BY <1>1, StepIsConsistent DEF TeardownInv
<1>2. CASE UNCHANGED teardownVars
  <2>1. UNCHANGED <<conn, connRoom, rooms, status, members, timer, optionVars, stack, before>>
    BY <1>2 DEF teardownVars, serverVars, vars, lookupVars
  <2>2. UNCHANGED Atomic!vars
    BY <2>1 DEF Shown, Atomic!vars, Atomic!lookupVars, Atomic!optionVars, optionVars
  <2>3. Chain => Chain'
    <3>1. \A r \in Rooms, todo \in SUBSET Conns :
            /\ Dissolving(r) => Dissolving(r)'
            /\ Looping(r, todo) => Looping(r, todo)'
            /\ Cleaning(r) => Cleaning(r)'
            /\ Expired(r) => Expired(r)'
      BY <2>1 DEF Dissolving, HostLeaves, Leaves, Expires, Looping, Cleaning, Expired, Apart, LeftAlready,
         Shut, Forgot, optionVars
    <3>2. \A c \in Conns : /\ Closing(c) => Closing(c)'
                           /\ Reporting(c) => Reporting(c)'
                           /\ \A r \in Rooms : /\ Removing(c, r) => Removing(c, r)'
                                               /\ HostGone(c, r) => HostGone(c, r)'
      BY <2>1 DEF Closing, Reporting, Removing, HostGone, HostLeaves, Leaves, Apart, RoomsAsBefore,
         Shut, Forgot, optionVars
    <3>3. \A r \in Rooms, todo \in SUBSET Conns, d \in Conns :
            /\ ClosingOther(r, todo, d) => ClosingOther(r, todo, d)'
            /\ ReportingOther(r, todo, d) => ReportingOther(r, todo, d)'
            /\ RemovingOther(r, todo, d) => RemovingOther(r, todo, d)'
      BY <2>1, <3>1 DEF ClosingOther, ReportingOther, RemovingOther, InLoop, Apart, LeftAlready, Shut, Forgot
    <3>4. CASE \E r \in Rooms, todo \in SUBSET Conns : Looping(r, todo)
      BY <3>1, <3>4 DEF Chain
    <3>5. CASE \E r \in Rooms : Expired(r) \/ Cleaning(r)
      BY <3>1, <3>5 DEF Chain
    <3>6. CASE \E c \in Conns : Closing(c) \/ Reporting(c)
      BY <3>2, <3>6 DEF Chain
    <3>7. CASE \E c \in Conns, r \in Rooms : Removing(c, r) \/ HostGone(c, r)
      <4>1. \E c \in Conns, r \in Rooms : Removing(c, r)' \/ HostGone(c, r)'
        BY <3>2, <3>7
      <4>2. QED
        BY <4>1 DEF Chain
    <3>8. CASE \E r \in Rooms, todo \in SUBSET Conns, d \in Conns :
                 ClosingOther(r, todo, d) \/ ReportingOther(r, todo, d) \/ RemovingOther(r, todo, d)
      BY <3>3, <3>8 DEF Chain
    <3>9. QED
      BY <3>4, <3>5, <3>6, <3>7, <3>8 DEF Chain
  <2>4. QED
    BY <2>1, <2>2, <2>3 DEF TeardownInv
<1>3. CASE stack # <<>> /\ TeardownNext
  BY <1>3, ChainStep DEF TeardownInv
<1>4. CASE stack = <<>> /\ TeardownNext
  <2>1. CASE OtherHandlers
    BY <2>1, OtherStep
  <2>2. CASE (\E c \in Conns : StartClose(c)) \/ (\E r \in Rooms : StartExpire(r))
    <3>1. Consistent
      BY <1>4, NowIsOK DEF TeardownInv
    <3>2. QED
      BY <2>2, <3>1, StartStep
  <2>3. ~Calls
    BY <1>4 DEF Calls, Close, OnConnectionClose, RemoveParticipant, CloseRoomBegins,
       CloseNextParticipant, CloseLoopEnds, CleanupRoom, Running
  <2>4. QED
    BY <1>4, <2>1, <2>2, <2>3 DEF TeardownNext
<1>5. QED
  BY <1>2, <1>3, <1>4

(* AtomicServer: close(), on_connection_close, remove_participant,           *)
(* close_room and cleanup_room call each other while they are running, over  *)
(* the very maps they are taking apart; still a closed connection or an      *)
(* expired room has the effect of one handler of MeetingServer, for any      *)
(* number of participants and whatever order they are closed in.  All that   *)
(* is proved of MeetingServer therefore holds of the nested calls.           *)
THEOREM TeardownIsAtomic == TeardownSpec => AtomicServer
<1>1. TeardownInit => Atomic!Init /\ TeardownInv
  BY TeardownStart
<1>2. TeardownInv /\ [TeardownNext]_teardownVars => TeardownInv' /\ [Atomic!Next]_(Atomic!vars)
  BY TeardownStep
<1>3. QED
  BY <1>1, <1>2, PTL DEF TeardownSpec, AtomicServer, Atomic!Spec

=============================================================================
