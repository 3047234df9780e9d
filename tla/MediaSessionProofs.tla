-------------------------- MODULE MediaSessionProofs --------------------------
(***************************************************************************)
(* Proofs about MediaSession for any number of users, meetings and queued  *)
(* calls.  What an engine has posted is handled before the next one is     *)
(* created, because the grant that creates it comes through the same queue *)
(* (OneEngineAtATime); the rest of the invariant says what the buttons,    *)
(* the pictures and the boxes may rely on because of it.                   *)
(***************************************************************************)
EXTENDS MediaSession, TLAPS

USE NoUserIsNoUser

Kinds == {"granted", "joined", "failed", "lost", "remote", "userLeft"}
EventSet == [kind : Kinds, from : Nat, user : Users \cup {NoUser}]

WindowOK ==
  /\ asking \in BOOLEAN /\ inMeeting \in BOOLEAN /\ meetings \in Nat
  /\ ui \in {"free", "ending"} /\ boxes \in Seq(Nat)
  /\ rtcJoined \in BOOLEAN /\ allowed \in BOOLEAN /\ local \in SUBSET Tracks
  /\ tiles \in SUBSET Users /\ pictures \in SUBSET Users
  /\ inbox \in Seq(EventSet)

MediaOK ==
  /\ joined \in BOOLEAN /\ on \in SUBSET Tracks
  /\ feedToUser \in SUBSET Users /\ pending \in SUBSET Users /\ scheduled \in BOOLEAN
  /\ engine \in Nat /\ result \in {"none", "joining", "joined", "failed"} /\ lost \in BOOLEAN
  /\ captured \in SUBSET Tracks /\ frames \in {"idle", "stored", "posting"}
  /\ stale \in BOOLEAN

TypeOK == WindowOK /\ MediaOK

-----------------------------------------------------------------------------
(* The invariant *)

IsQueued(kind) == \E i \in 1 .. Len(inbox) : inbox[i].kind = kind
ExitQueued(u)  == \E i \in 1 .. Len(inbox) : inbox[i].kind = "userLeft" /\ inbox[i].user = u

(* An engine exists in a meeting only, and a meeting begins when everything  *)
(* the last engine has posted is handled: the grant is the last in the queue.*)
OneEngineAtATime ==
  /\ engine # None => inMeeting /\ engine = meetings
  /\ asking => ~inMeeting
  /\ \A i \in 1 .. Len(inbox) :
       IF inbox[i].kind = "granted" THEN i = Len(inbox) /\ ~inMeeting
       ELSE inbox[i].from # None /\ (inMeeting => inbox[i].from = engine)

(* The result of the join of the present engine: it comes once.              *)
ResultComesOnce ==
  /\ engine = None <=> result = "none"
  /\ inMeeting => \A i \in 1 .. Len(inbox) :
       /\ inbox[i].kind = "failed" => result = "failed"
       /\ inbox[i].kind = "joined" =>
            /\ result = "joined"
            /\ \A j \in 1 .. Len(inbox) : inbox[j].kind = "joined" => i = j

(* Who is joined, or has been until a loss was reported, is it in the engine *)
(* of the present meeting, as long as no join result of an earlier engine    *)
(* was handled.                                                              *)
JoinedIsReal ==
  /\ rtcJoined => boxes = <<>> /\ inMeeting /\ result = "joined" /\ ~IsQueued("joined")
  /\ boxes # <<>> => /\ Len(boxes) = 1 /\ boxes[1] = engine /\ engine # None
                     /\ ui = "free" /\ inMeeting /\ result = "joined" /\ ~IsQueued("joined")

(* The switches of the window and of the controller, and what is captured.   *)
TracksAgree ==
  /\ engine = None => captured = {}
  /\ ui = "ending" => on = {} /\ local = {} /\ ~rtcJoined /\ ~joined
  /\ ui = "free" => on = captured
  /\ IF boxes = <<>> THEN local = on ELSE local = {}
  /\ ~({"video", "screen"} \subseteq captured)
  /\ captured # {} /\ ui = "free" => joined /\ (rtcJoined \/ boxes # <<>>)
  /\ "screen" \in captured /\ ui = "free" /\ boxes = <<>> => allowed

(* The frames between the engine's thread and the window.                    *)
FramesFlow ==
  /\ scheduled => frames = "posting" \/ IsQueued("remote")
  /\ pending # {} => scheduled \/ frames = "stored"
  /\ pending \subseteq feedToUser
  /\ ~inMeeting => tiles = {}
  /\ \A u \in pictures \cap tiles : u \in feedToUser \/ ExitQueued(u) \/ ui = "ending"

MediaInv ==
  /\ TypeOK
  /\ OneEngineAtATime
  /\ ResultComesOnce
  /\ ~stale => JoinedIsReal
  /\ TracksAgree
  /\ FramesFlow

-----------------------------------------------------------------------------
(* What is in the queue after a call is posted or taken                      *)

LEMMA Appended ==
  ASSUME NEW S, NEW s \in Seq(S), NEW e \in S
  PROVE  /\ Append(s, e) \in Seq(S) /\ Len(Append(s, e)) = Len(s) + 1 /\ Len(s) \in Nat
         /\ \A i \in 1 .. Len(s) : Append(s, e)[i] = s[i]
         /\ Append(s, e)[Len(s) + 1] = e
         /\ Append(s, e) # <<>>
OBVIOUS

LEMMA Tailed ==
  ASSUME NEW S, NEW s \in Seq(S), s # <<>>
  PROVE  /\ Tail(s) \in Seq(S) /\ Len(Tail(s)) = Len(s) - 1 /\ Len(s) \in Nat \ {0}
         /\ \A i \in 1 .. Len(Tail(s)) : i + 1 \in 1 .. Len(s) /\ Tail(s)[i] = s[i + 1]
         /\ Head(s) = s[1] /\ s[1] \in S /\ 1 \in 1 .. Len(s)
OBVIOUS

LEMMA Fronted ==
  ASSUME NEW S, NEW s \in Seq(S), s # <<>>
  PROVE  /\ Front(s) \in Seq(S) /\ Len(Front(s)) = Len(s) - 1 /\ Len(s) \in Nat \ {0}
         /\ Last(s) = s[Len(s)]
         /\ Len(s) = 1 => Front(s) = <<>>
<1>1. Len(s) \in Nat \ {0} /\ Last(s) = s[Len(s)]
  BY DEF Last
<1>2. Front(s) \in Seq(S) /\ Len(Front(s)) = Len(s) - 1
  <2>2. \A i \in 1 .. Len(s) - 1 : i \in 1 .. Len(s) /\ s[i] \in S
    <3>1. \A i \in 1 .. Len(s) - 1 : i \in 1 .. Len(s)
      BY <1>1
    <3>2. \A i \in 1 .. Len(s) : s[i] \in S
      OBVIOUS
    <3>3. QED
      BY <3>1, <3>2
  <2>3. Front(s) = [i \in 1 .. Len(s) - 1 |-> s[i]]
    BY <1>1 DEF Front
  <2>4. Front(s) \in Seq(S)
    BY <1>1, <2>2, <2>3
  <2>5. Len(s) - 1 \in Nat
    BY <1>1
  <2>6. Len(Front(s)) = Len(s) - 1
    BY <2>3, <2>4, <2>5
  <2>7. QED
    BY <2>4, <2>6
<1>3. Len(s) = 1 => Front(s) = <<>>
  BY <1>1 DEF Front
<1>4. QED
  BY <1>1, <1>2, <1>3

LEMMA Posted ==
  ASSUME TypeOK, NEW e \in EventSet, inbox' = Append(inbox, e)
  PROVE  /\ inbox' \in Seq(EventSet) /\ Len(inbox') = Len(inbox) + 1 /\ Len(inbox) \in Nat
         /\ \A i \in 1 .. Len(inbox) : inbox'[i] = inbox[i]
         /\ inbox'[Len(inbox) + 1] = e
         /\ \A i \in 1 .. Len(inbox') : i \in 1 .. Len(inbox) \/ i = Len(inbox) + 1
         /\ \A kind : IsQueued(kind)' <=> IsQueued(kind) \/ e.kind = kind
         /\ \A u : ExitQueued(u)' <=> ExitQueued(u) \/ (e.kind = "userLeft" /\ e.user = u)
<1>1. /\ inbox' \in Seq(EventSet) /\ Len(inbox') = Len(inbox) + 1 /\ Len(inbox) \in Nat
      /\ \A i \in 1 .. Len(inbox) : inbox'[i] = inbox[i]
      /\ inbox'[Len(inbox) + 1] = e
      /\ \A i \in 1 .. Len(inbox') : i \in 1 .. Len(inbox) \/ i = Len(inbox) + 1
  BY Appended DEF TypeOK, WindowOK
<1>2. \A kind : IsQueued(kind)' <=> IsQueued(kind) \/ e.kind = kind
  BY <1>1 DEF IsQueued
<1>3. \A u : ExitQueued(u)' <=> ExitQueued(u) \/ (e.kind = "userLeft" /\ e.user = u)
  BY <1>1 DEF ExitQueued
<1>4. QED
  BY <1>1, <1>2, <1>3

LEMMA Taken ==
  ASSUME TypeOK, NEW kind, Handles(kind)
  PROVE  /\ ui = "free" /\ inbox # <<>> /\ inbox[1].kind = kind /\ Head(inbox) = inbox[1]
         /\ inbox[1] \in EventSet /\ 1 \in 1 .. Len(inbox)
         /\ inbox' \in Seq(EventSet) /\ Len(inbox') = Len(inbox) - 1 /\ Len(inbox) \in Nat \ {0}
         /\ \A i \in 1 .. Len(inbox') :
              i + 1 \in 1 .. Len(inbox) /\ i + 1 # 1 /\ inbox'[i] = inbox[i + 1]
         /\ \A i, j \in 1 .. Len(inbox') :
              (i + 1 = j + 1 => i = j) /\ (i + 1 = Len(inbox) => i = Len(inbox'))
         /\ IsQueued(kind)
         /\ \A k : k # kind => (IsQueued(k)' <=> IsQueued(k))
         /\ \A k : IsQueued(k)' => IsQueued(k)
         /\ kind = "userLeft" => \A u : u # inbox[1].user => (ExitQueued(u)' <=> ExitQueued(u))
         /\ kind # "userLeft" => \A u : ExitQueued(u)' <=> ExitQueued(u)
<1>1. /\ ui = "free" /\ inbox # <<>> /\ Head(inbox).kind = kind /\ inbox' = Tail(inbox)
  BY DEF Handles
<1>2. /\ inbox' \in Seq(EventSet) /\ Len(inbox') = Len(inbox) - 1 /\ Len(inbox) \in Nat \ {0}
      /\ \A i \in 1 .. Len(inbox') : i + 1 \in 1 .. Len(inbox) /\ inbox'[i] = inbox[i + 1]
      /\ Head(inbox) = inbox[1] /\ inbox[1] \in EventSet /\ 1 \in 1 .. Len(inbox)
  BY <1>1, Tailed DEF TypeOK, WindowOK
<1>3. \A i \in 1 .. Len(inbox') : i + 1 # 1
  BY <1>2
<1>4. \A i, j \in 1 .. Len(inbox') :
        (i + 1 = j + 1 => i = j) /\ (i + 1 = Len(inbox) => i = Len(inbox'))
  BY <1>2
<1>5. \A i \in 1 .. Len(inbox) : i # 1 => i - 1 \in 1 .. Len(inbox') /\ inbox'[i - 1] = inbox[i]
  BY <1>2
<1>6. \A k : IsQueued(k) <=> IsQueued(k)' \/ inbox[1].kind = k
  BY <1>2, <1>5 DEF IsQueued
<1>7. \A u : ExitQueued(u) <=> ExitQueued(u)' \/ (inbox[1].kind = "userLeft" /\ inbox[1].user = u)
  BY <1>2, <1>5 DEF ExitQueued
<1>8. QED
  BY <1>1, <1>2, <1>3, <1>4, <1>6, <1>7

LEMMA QueueIsKept ==
  ASSUME inbox' = inbox
  PROVE  /\ \A kind : IsQueued(kind)' <=> IsQueued(kind)
         /\ \A u : ExitQueued(u)' <=> ExitQueued(u)
BY DEF IsQueued, ExitQueued

-----------------------------------------------------------------------------
(* The actions, taken apart                                                  *)

(* What the engine's threads post is about the engine they belong to.        *)
LEMMA PostedByEngine ==
  ASSUME TypeOK, EngineRuns,
         \/ \E kind \in {"joined", "failed", "lost", "remote"} : Post(Event(kind))
         \/ \E u \in Users : Post(UserLeft(u))
  PROVE  \E e \in EventSet : /\ inbox' = Append(inbox, e) /\ e.kind # "granted"
                             /\ e.from = engine /\ engine # None
<1>1. engine \in Nat /\ engine # None
  BY DEF EngineRuns, TypeOK, MediaOK
<1>2. ASSUME NEW kind \in {"joined", "failed", "lost", "remote"}
      PROVE  Event(kind) \in EventSet /\ Event(kind).kind = kind /\ Event(kind).from = engine
  BY <1>1 DEF Event, EventSet, Kinds
<1>3. ASSUME NEW u \in Users
      PROVE  /\ UserLeft(u) \in EventSet /\ UserLeft(u).kind = "userLeft"
             /\ UserLeft(u).from = engine /\ UserLeft(u).user = u
  BY <1>1 DEF UserLeft, EventSet, Kinds
<1>4. QED
  BY <1>1, <1>2, <1>3 DEF Post

LEMMA EventIs ==
  ASSUME TypeOK
  PROVE  /\ \A kind \in Kinds : Event(kind) \in EventSet /\ Event(kind).kind = kind
                                /\ Event(kind).from = engine
         /\ \A u \in Users : /\ UserLeft(u) \in EventSet /\ UserLeft(u).kind = "userLeft"
                             /\ UserLeft(u).from = engine /\ UserLeft(u).user = u
BY DEF Event, UserLeft, EventSet, Kinds, TypeOK, MediaOK

Grant == [kind |-> "granted", from |-> None, user |-> NoUser]

LEMMA GrantIs == Grant \in EventSet /\ Grant.kind = "granted" /\ Grant.from = None
BY DEF Grant, EventSet, Kinds, None

(* The start or stop of a track in the controller.                           *)
LEMMA TrackIsSet ==
  ASSUME TypeOK, NEW t \in Tracks, NEW want \in BOOLEAN, SetTrack(t, want)
  PROVE  /\ captured' \in SUBSET Tracks /\ on' \in SUBSET Tracks /\ local' \in SUBSET Tracks
         /\ on = captured => on' = captured'
         /\ local = on => local' = on'
         /\ ~({"video", "screen"} \subseteq captured) => ~({"video", "screen"} \subseteq captured')
         /\ captured' \subseteq captured \cup {t}
         /\ ~want => captured' \subseteq captured
         /\ engine = None => captured' = captured
         /\ ~joined => captured' = captured
         /\ engine # None /\ joined /\ ~want => t \notin on'
<1>1. captured \subseteq Tracks /\ on \subseteq Tracks /\ local \subseteq Tracks /\ Excluded(t) \subseteq Tracks
  BY DEF TypeOK, MediaOK, WindowOK, Excluded, Tracks
<1>2. CASE UNCHANGED <<captured, on, local>> /\ (engine = None \/ ~joined \/ want = (t \in on))
  BY <1>1, <1>2
<1>3. CASE engine # None /\ joined /\ want /\ StartTrack(t)
  <2>1. CASE captured' = (captured \ Excluded(t)) \cup {t} /\ on' = (on \ Excluded(t)) \cup {t} /\ local' = on'
    BY <1>1, <1>3, <2>1 DEF Excluded, Tracks
  <2>2. CASE local' = on /\ UNCHANGED <<captured, on>>
    BY <1>1, <1>3, <2>2
  <2>3. QED
    BY <1>3, <2>1, <2>2 DEF StartTrack
<1>4. CASE engine # None /\ joined /\ ~want /\ StopTrack(t)
  BY <1>1, <1>4 DEF StopTrack
<1>5. QED
  BY <1>2, <1>3, <1>4 DEF SetTrack

EngineActs ==
  \/ EngineJoins
  \/ EngineLosesConnection
  \/ \E u \in Users : RemoteUserJoined(u)
  \/ \E u \in Users : RemoteUserLeft(u)
  \/ \E u \in Users : FrameArrives(u)
  \/ ScheduleEmit
  \/ PostEmit

RoomActs ==
  \/ \E u \in Users : TileAdded(u) \/ TileRemoved(u)
  \/ \E t \in Tracks : UserToggles(t)
  \/ SharingIsSwitched

(* What a step of the engine's threads leaves alone, and what it posts.      *)
LEMMA EngineDoes ==
  ASSUME TypeOK, EngineActs
  PROVE  /\ engine # None /\ UNCHANGED <<asking, inMeeting, meetings, ui, boxes, rtcJoined, local, allowed,
                                         tiles, pictures, joined, on, engine, captured, stale>>
         /\ \/ inbox' = inbox
            \/ \E e \in EventSet : /\ inbox' = Append(inbox, e) /\ e.kind # "granted"
                                   /\ e.from = engine
<1>1. EngineRuns
  BY DEF EngineActs, EngineJoins, EngineLosesConnection, RemoteUserJoined, RemoteUserLeft, FrameArrives,
     ScheduleEmit, PostEmit
<1>2. \/ inbox' = inbox
      \/ \E kind \in {"joined", "failed", "lost", "remote"} : Post(Event(kind))
      \/ \E u \in Users : Post(UserLeft(u))
  BY DEF EngineActs, EngineJoins, EngineLosesConnection, RemoteUserJoined, RemoteUserLeft, FrameArrives,
     ScheduleEmit, PostEmit
<1>3. QED
  BY <1>1, <1>2, PostedByEngine DEF EngineRuns, requestVars, windowVars, pictureVars

(* What a step about the room and the user's buttons leaves alone.           *)
LEMMA RoomDoes ==
  ASSUME TypeOK, RoomActs
  PROVE  /\ ui = "free" /\ inMeeting
         /\ UNCHANGED <<asking, inMeeting, meetings, ui, boxes, rtcJoined, inbox, joined, feedToUser,
                        pending, scheduled, engine, result, lost, frames, stale>>
BY DEF RoomActs, TileAdded, TileRemoved, UserToggles, SharingIsSwitched, MeetingGoesOn, requestVars,
   observerVars, engineVars

LEMMA RoomTracks ==
  ASSUME TypeOK, RoomActs
  PROVE  \/ UNCHANGED <<captured, on, local, allowed>>
         \/ /\ boxes = <<>> /\ engine # None /\ rtcJoined /\ allowed' = allowed
            /\ UNCHANGED <<tiles, pictures>>
            /\ \E t \in Tracks : Enabled(t) /\ SetTrack(t, t \notin local)
         \/ /\ UNCHANGED <<tiles, pictures>> /\ allowed' \in BOOLEAN
            /\ \/ UNCHANGED <<captured, on, local>> /\ (allowed' \/ "screen" \notin local)
               \/ ~allowed' /\ "screen" \in local /\ SetTrack("screen", FALSE)
<1>1. CASE \E u \in Users : TileAdded(u) \/ TileRemoved(u)
  BY <1>1 DEF TileAdded, TileRemoved
<1>2. CASE \E t \in Tracks : UserToggles(t)
  BY <1>2 DEF UserToggles, Enabled, pictureVars
<1>3. CASE SharingIsSwitched
  <2>1. allowed' \in BOOLEAN
    BY <1>3 DEF SharingIsSwitched
  <2>2. QED
    BY <1>3, <2>1 DEF SharingIsSwitched, pictureVars
<1>4. QED
  BY <1>1, <1>2, <1>3 DEF RoomActs

LEMMA TypeInit == Init => TypeOK
<1> SUFFICES ASSUME Init PROVE TypeOK
  OBVIOUS
<1>1. WindowOK
  <2>1. /\ asking \in BOOLEAN /\ inMeeting \in BOOLEAN /\ rtcJoined \in BOOLEAN /\ allowed \in BOOLEAN
    BY DEF Init
  <2>2. /\ meetings \in Nat /\ ui \in {"free", "ending"} /\ boxes \in Seq(Nat) /\ inbox \in Seq(EventSet)
        /\ local \in SUBSET Tracks /\ tiles \in SUBSET Users /\ pictures \in SUBSET Users
    BY DEF Init
  <2>3. QED
    BY <2>1, <2>2 DEF WindowOK
<1>2. MediaOK
  <2>1. joined \in BOOLEAN /\ scheduled \in BOOLEAN /\ lost \in BOOLEAN /\ stale \in BOOLEAN
    BY DEF Init
  <2>2. /\ on \in SUBSET Tracks /\ captured \in SUBSET Tracks
        /\ feedToUser \in SUBSET Users /\ pending \in SUBSET Users
    BY DEF Init
  <2>3. /\ engine \in Nat /\ result \in {"none", "joining", "joined", "failed"}
        /\ frames \in {"idle", "stored", "posting"}
    BY DEF Init, None
  <2>4. QED
    BY <2>1, <2>2, <2>3 DEF MediaOK
<1>3. QED
  BY <1>1, <1>2 DEF TypeOK

(* end_meeting_session, wherever it begins                                   *)
LEMMA EndBegins ==
  ASSUME TypeOK, BeginEnd
  PROVE  /\ local' = {} /\ on' = {} /\ rtcJoined' = FALSE /\ joined' = FALSE
         /\ feedToUser' = {} /\ pending' = {} /\ scheduled' = FALSE /\ ui' = "ending"
         /\ UNCHANGED <<asking, inMeeting, meetings, allowed, tiles, pictures, engine, result, lost,
                        captured, frames>>
BY DEF BeginEnd, AllOff, ResetObserver, requestVars, pictureVars, engineVars

LEMMA EndDone ==
  ASSUME TypeOK, EngineDestroyed
  PROVE  /\ ui = "ending" /\ ui' = "free" /\ frames = "idle"
         /\ engine' = None /\ result' = "none" /\ lost' = FALSE /\ captured' = {}
         /\ pictures' = {} /\ tiles' = {} /\ asking' = FALSE /\ inMeeting' = FALSE /\ allowed' = TRUE
         /\ UNCHANGED <<meetings, boxes, rtcJoined, local, joined, on, feedToUser, pending,
                        scheduled, frames, stale>>
         /\ \/ inbox' = inbox
            \/ \E e \in EventSet : /\ inbox' = Append(inbox, e) /\ e.kind = "lost"
                                   /\ e.from = engine /\ engine # None
<1>1. Event("lost") \in EventSet /\ Event("lost").kind = "lost" /\ Event("lost").from = engine
  BY EventIs DEF Kinds
<1>2. QED
  BY <1>1 DEF EngineDestroyed, DestroyEngine, Post, observerVars

LEMMA GrantedDoes ==
  ASSUME TypeOK, OnGranted
  PROVE  /\ Handles("granted")
         /\ asking' = FALSE /\ inMeeting' = TRUE /\ meetings' = meetings + 1
         /\ local' = {} /\ on' = {} /\ rtcJoined' = FALSE /\ joined' = FALSE
         /\ feedToUser' = {} /\ pending' = {} /\ scheduled' = FALSE
         /\ \/ engine' = meetings' /\ result' = "joining"
            \/ engine' = None /\ result' = "none"
         /\ UNCHANGED <<ui, boxes, allowed, tiles, pictures, lost, captured, frames, stale>>
BY DEF OnGranted, StartEngine, AllOff, ResetObserver, pictureVars

LEMMA EngineType ==
  ASSUME TypeOK, EngineActs
  PROVE  TypeOK'
<1>1. inbox' \in Seq(EventSet)
  BY EngineDoes, Posted DEF TypeOK, WindowOK
<1>2. WindowOK'
  BY <1>1, EngineDoes DEF TypeOK, WindowOK
<1>3. /\ feedToUser' \in SUBSET Users /\ pending' \in SUBSET Users /\ scheduled' \in BOOLEAN
      /\ result' \in {"none", "joining", "joined", "failed"} /\ lost' \in BOOLEAN
      /\ frames' \in {"idle", "stored", "posting"}
  <2>1. CASE EngineJoins \/ EngineLosesConnection
    BY <2>1 DEF EngineJoins, EngineLosesConnection, observerVars, TypeOK, MediaOK
  <2>2. CASE \E u \in Users : RemoteUserJoined(u) \/ RemoteUserLeft(u) \/ FrameArrives(u)
    BY <2>2 DEF RemoteUserJoined, RemoteUserLeft, FrameArrives, TypeOK, MediaOK
  <2>3. CASE ScheduleEmit \/ PostEmit
    BY <2>3 DEF ScheduleEmit, PostEmit, observerVars, TypeOK, MediaOK
  <2>4. QED
    BY <2>1, <2>2, <2>3 DEF EngineActs
<1>4. MediaOK'
  BY <1>3, EngineDoes DEF TypeOK, MediaOK
<1>5. QED
  BY <1>2, <1>4 DEF TypeOK

LEMMA RoomType ==
  ASSUME TypeOK, RoomActs
  PROVE  TypeOK'
<1>1. captured' \in SUBSET Tracks /\ on' \in SUBSET Tracks /\ local' \in SUBSET Tracks /\ allowed' \in BOOLEAN
  <2>1. "screen" \in Tracks
    BY DEF Tracks
  <2>2. CASE UNCHANGED <<captured, on, local, allowed>>
    BY <2>2 DEF TypeOK, WindowOK, MediaOK
  <2>3. CASE allowed' = allowed /\ \E t \in Tracks : SetTrack(t, t \notin local)
    BY <2>3, TrackIsSet DEF TypeOK, WindowOK
  <2>4. CASE allowed' \in BOOLEAN /\ (UNCHANGED <<captured, on, local>> \/ SetTrack("screen", FALSE))
    BY <2>1, <2>4, TrackIsSet DEF TypeOK, WindowOK, MediaOK
  <2>5. QED
    BY <2>2, <2>3, <2>4, RoomTracks
<1>2. tiles' \in SUBSET Users /\ pictures' \in SUBSET Users
  BY DEF RoomActs, TileAdded, TileRemoved, UserToggles, SharingIsSwitched, pictureVars, TypeOK, WindowOK
<1>3. QED
  BY <1>1, <1>2, RoomDoes DEF TypeOK, WindowOK, MediaOK

LEMMA QueueType ==
  ASSUME TypeOK,
         \/ EngineDestroyed \/ UserAsksForMeeting \/ UserClosesWindow \/ ServerGrants \/ OnGranted
         \/ OnJoined \/ OnJoinFailed \/ OnLost \/ BoxDismissed \/ OnRemoteFrames \/ OnRemoteUserLeft
  PROVE  TypeOK'
<1>1. CASE EngineDestroyed
  <2>1. inbox' \in Seq(EventSet)
    BY <1>1, EndDone, Posted DEF TypeOK, WindowOK
  <2>2. WindowOK'
    BY <1>1, <2>1, EndDone DEF TypeOK, WindowOK
  <2>3. MediaOK'
    <3>1. /\ engine' = None /\ result' = "none" /\ lost' = FALSE /\ captured' = {}
          /\ UNCHANGED <<joined, on, feedToUser, pending, scheduled, frames, stale>>
      BY <1>1, EndDone
    <3>2. engine' \in Nat /\ lost' \in BOOLEAN /\ captured' \in SUBSET Tracks
      BY <3>1 DEF None
    <3>3. QED
      BY <3>1, <3>2 DEF TypeOK, MediaOK
  <2>4. QED
    BY <2>2, <2>3 DEF TypeOK
<1>2. CASE UserAsksForMeeting
  BY <1>2 DEF UserAsksForMeeting, UserActs, windowVars, pictureVars, observerVars, engineVars,
     TypeOK, WindowOK, MediaOK
<1>3. CASE UserClosesWindow
  <2>1. BeginEnd /\ UNCHANGED <<boxes, stale, inbox>>
    BY <1>3 DEF UserClosesWindow, UserActs
  <2>2. QED
    BY <2>1, EndBegins DEF TypeOK, WindowOK, MediaOK
<1>4. CASE ServerGrants
  <2>1. inbox' \in Seq(EventSet)
    BY <1>4, GrantIs, Posted DEF ServerGrants, Post, Grant
  <2>2. QED
    BY <1>4, <2>1 DEF ServerGrants, requestVars, windowVars, pictureVars, observerVars, engineVars,
       TypeOK, WindowOK, MediaOK
<1>5. CASE OnGranted
  <2>1. inbox' \in Seq(EventSet)
    BY <1>5, GrantedDoes, Taken
  <2>2. /\ asking' \in BOOLEAN /\ inMeeting' \in BOOLEAN /\ rtcJoined' \in BOOLEAN
        /\ joined' \in BOOLEAN /\ scheduled' \in BOOLEAN
    BY <1>5, GrantedDoes
  <2>3. /\ meetings' \in Nat /\ local' = {} /\ on' = {} /\ feedToUser' = {} /\ pending' = {}
        /\ UNCHANGED <<ui, boxes, allowed, tiles, pictures, lost, captured, frames, stale>>
    <3>1. /\ meetings' = meetings + 1 /\ local' = {} /\ on' = {} /\ feedToUser' = {} /\ pending' = {}
          /\ UNCHANGED <<ui, boxes, allowed, tiles, pictures, lost, captured, frames, stale>>
      BY <1>5, GrantedDoes
    <3>2. meetings' \in Nat
      BY <3>1 DEF TypeOK, WindowOK
    <3>3. QED
      BY <3>1, <3>2
  <2>4. engine' \in Nat /\ result' \in {"none", "joining", "joined", "failed"}
    BY <1>5, <2>3, GrantedDoes DEF None
  <2>5. WindowOK'
    BY <2>1, <2>2, <2>3 DEF TypeOK, WindowOK
  <2>6. MediaOK'
    BY <2>2, <2>3, <2>4 DEF TypeOK, MediaOK
  <2>7. QED
    BY <2>5, <2>6 DEF TypeOK
<1>6. CASE OnJoined
  <2>1. inbox' \in Seq(EventSet) /\ stale' \in BOOLEAN
    BY <1>6, Taken DEF OnJoined
  <2>2. QED
    BY <1>6, <2>1 DEF OnJoined, requestVars, pictureVars, observerVars, engineVars,
       TypeOK, WindowOK, MediaOK
<1>7. CASE OnJoinFailed
  <2>1. inbox' \in Seq(EventSet) /\ BeginEnd /\ UNCHANGED <<boxes, stale>>
    BY <1>7, Taken DEF OnJoinFailed
  <2>2. QED
    BY <2>1, EndBegins DEF TypeOK, WindowOK, MediaOK
<1>8. CASE OnLost
  <2>1. inbox' \in Seq(EventSet) /\ Head(inbox).from \in Nat
    BY <1>8, Taken DEF OnLost, EventSet
  <2>2. rtcJoined' \in BOOLEAN /\ local' \in SUBSET Tracks /\ boxes' \in Seq(Nat)
    <3>1. boxes \in Seq(Nat) /\ Append(boxes, Head(inbox).from) \in Seq(Nat)
      BY <2>1, Appended DEF TypeOK, WindowOK
    <3>2. CASE rtcJoined
      BY <1>8, <3>1, <3>2 DEF OnLost
    <3>3. CASE ~rtcJoined
      BY <1>8, <3>1, <3>3 DEF OnLost, TypeOK, WindowOK
    <3>4. QED
      BY <3>2, <3>3
  <2>3. QED
    BY <1>8, <2>1, <2>2 DEF OnLost, requestVars, pictureVars, observerVars, engineVars,
       TypeOK, WindowOK, MediaOK
<1>9. CASE BoxDismissed
  <2>1. boxes' \in Seq(Nat) /\ BeginEnd /\ UNCHANGED <<inbox, stale>>
    BY <1>9, Fronted DEF BoxDismissed, TypeOK, WindowOK
  <2>2. QED
    BY <2>1, EndBegins DEF TypeOK, WindowOK, MediaOK
<1>10. CASE OnRemoteFrames
  <2>1. inbox' \in Seq(EventSet) /\ pictures' \in SUBSET Users
    BY <1>10, Taken DEF OnRemoteFrames, TypeOK, WindowOK, MediaOK
  <2>2. WindowOK'
    BY <1>10, <2>1 DEF OnRemoteFrames, requestVars, windowVars, TypeOK, WindowOK
  <2>3. MediaOK'
    BY <1>10 DEF OnRemoteFrames, engineVars, TypeOK, MediaOK
  <2>4. QED
    BY <2>2, <2>3 DEF TypeOK
<1>11. CASE OnRemoteUserLeft
  <2>1. inbox' \in Seq(EventSet) /\ pictures' \in SUBSET Users
    BY <1>11, Taken DEF OnRemoteUserLeft, TypeOK, WindowOK
  <2>2. QED
    BY <1>11, <2>1 DEF OnRemoteUserLeft, requestVars, windowVars, observerVars, engineVars,
       TypeOK, WindowOK, MediaOK
<1>12. QED
  BY <1>1, <1>2, <1>3, <1>4, <1>5, <1>6, <1>7, <1>8, <1>9, <1>10, <1>11

LEMMA TypeNext == TypeOK /\ [Next]_vars => TypeOK'
<1> SUFFICES ASSUME TypeOK, [Next]_vars PROVE TypeOK'
  OBVIOUS
<1>1. CASE UNCHANGED vars
  BY <1>1 DEF vars, requestVars, windowVars, pictureVars, observerVars, engineVars,
     TypeOK, WindowOK, MediaOK
<1>2. CASE Next
  BY <1>2, EngineType, RoomType, QueueType DEF Next, EngineActs, RoomActs
<1>3. QED
  BY <1>1, <1>2

-----------------------------------------------------------------------------
(* One engine at a time                                                      *)

LEMMA EngineQueues ==
  ASSUME TypeOK, OneEngineAtATime, UNCHANGED <<asking, inMeeting, meetings, engine>>,
         NEW e \in EventSet, inbox' = Append(inbox, e), e.kind # "granted", e.from = engine,
         engine # None
  PROVE  OneEngineAtATime'
<1>1. /\ Len(inbox') = Len(inbox) + 1 /\ Len(inbox) \in Nat
      /\ \A i \in 1 .. Len(inbox) : inbox'[i] = inbox[i]
      /\ inbox'[Len(inbox) + 1] = e
      /\ \A i \in 1 .. Len(inbox') : i \in 1 .. Len(inbox) \/ i = Len(inbox) + 1
  BY Posted
<1>2. inMeeting
  BY DEF OneEngineAtATime
<1>3. ASSUME NEW i \in 1 .. Len(inbox')
      PROVE  inbox'[i].kind # "granted" /\ inbox'[i].from = engine
  BY <1>1, <1>2 DEF OneEngineAtATime
<1>4. QED
  BY <1>3 DEF OneEngineAtATime, None

LEMMA CallTaken ==
  ASSUME TypeOK, OneEngineAtATime, NEW kind, Handles(kind),
         UNCHANGED <<asking, inMeeting, meetings, engine>>
  PROVE  OneEngineAtATime'
<1>1. ASSUME NEW i \in 1 .. Len(inbox')
      PROVE  IF inbox'[i].kind = "granted" THEN i = Len(inbox') /\ ~inMeeting'
             ELSE inbox'[i].from # None /\ (inMeeting' => inbox'[i].from = engine')
  <2>1. /\ i + 1 \in 1 .. Len(inbox) /\ inbox'[i] = inbox[i + 1]
        /\ i + 1 = Len(inbox) => i = Len(inbox')
    BY Taken
  <2>2. QED
    BY <2>1 DEF OneEngineAtATime
<1>2. QED
  BY <1>1 DEF OneEngineAtATime, None

LEMMA NothingQueued ==
  ASSUME OneEngineAtATime, UNCHANGED <<asking, inMeeting, meetings, engine, inbox>>
  PROVE  OneEngineAtATime'
BY DEF OneEngineAtATime, None

LEMMA EngineNext ==
  ASSUME TypeOK, OneEngineAtATime, Next
  PROVE  OneEngineAtATime'
<1>1. CASE EngineActs
  BY <1>1, EngineDoes, EngineQueues, NothingQueued
<1>2. CASE RoomActs
  BY <1>2, RoomDoes, NothingQueued
<1>3. CASE EngineDestroyed
  <2>1. /\ engine' = None /\ asking' = FALSE /\ inMeeting' = FALSE
        /\ \/ inbox' = inbox
           \/ \E e \in EventSet : /\ inbox' = Append(inbox, e) /\ e.kind = "lost"
                                  /\ e.from = engine /\ engine # None
    BY <1>3, EndDone
  <2>2. CASE inbox' = inbox
    BY <2>1, <2>2 DEF OneEngineAtATime
  <2>3. CASE \E e \in EventSet : /\ inbox' = Append(inbox, e) /\ e.kind = "lost"
                                 /\ e.from = engine /\ engine # None
    <3>1. PICK e \in EventSet : /\ inbox' = Append(inbox, e) /\ e.kind = "lost"
                                /\ e.from = engine /\ engine # None
      BY <2>3
    <3>2. /\ \A i \in 1 .. Len(inbox) : inbox'[i] = inbox[i]
          /\ inbox'[Len(inbox) + 1] = e
          /\ \A i \in 1 .. Len(inbox') : i \in 1 .. Len(inbox) \/ i = Len(inbox) + 1
      BY <3>1, Posted
    <3>3. \A i \in 1 .. Len(inbox') : inbox'[i].kind # "granted" /\ inbox'[i].from # None
      BY <3>1, <3>2 DEF OneEngineAtATime
    <3>4. QED
      BY <2>1, <3>3 DEF OneEngineAtATime, None
  <2>4. QED
    BY <2>1, <2>2, <2>3
<1>4. CASE UserAsksForMeeting
  BY <1>4 DEF UserAsksForMeeting, UserActs, engineVars, OneEngineAtATime, None
<1>5. CASE UserClosesWindow \/ OnJoinFailed \/ BoxDismissed
  <2>1. UNCHANGED <<asking, inMeeting, meetings, engine>>
    BY <1>5, EndBegins DEF UserClosesWindow, OnJoinFailed, BoxDismissed
  <2>2. inbox' = inbox \/ Handles("failed")
    BY <1>5 DEF UserClosesWindow, OnJoinFailed, BoxDismissed
  <2>3. QED
    BY <2>1, <2>2, CallTaken, NothingQueued
<1>6. CASE ServerGrants
  <2>1. /\ asking /\ ~IsAnswered /\ inbox' = Append(inbox, Grant)
        /\ UNCHANGED <<asking, inMeeting, meetings, engine>>
    BY <1>6 DEF ServerGrants, Post, Grant, requestVars, engineVars
  <2>2. /\ Len(inbox') = Len(inbox) + 1 /\ Len(inbox) \in Nat
        /\ \A i \in 1 .. Len(inbox) : inbox'[i] = inbox[i]
        /\ inbox'[Len(inbox) + 1] = Grant
        /\ \A i \in 1 .. Len(inbox') : i \in 1 .. Len(inbox) \/ i = Len(inbox) + 1
    BY <2>1, GrantIs, Posted
  <2>3. ~inMeeting /\ \A i \in 1 .. Len(inbox) : inbox[i].kind # "granted"
    <3>1. DOMAIN inbox = 1 .. Len(inbox)
      BY DEF TypeOK, WindowOK
    <3>2. QED
      BY <2>1, <3>1 DEF IsAnswered, OneEngineAtATime
  <2>4. ASSUME NEW i \in 1 .. Len(inbox')
        PROVE  IF inbox'[i].kind = "granted" THEN i = Len(inbox') ELSE inbox'[i].from # None
    BY <2>2, <2>3, GrantIs DEF OneEngineAtATime
  <2>5. QED
    BY <2>1, <2>3, <2>4 DEF OneEngineAtATime, None
<1>7. CASE OnGranted
  <2>1. /\ asking' = FALSE /\ inMeeting' = TRUE /\ (engine' = meetings' \/ engine' = None)
        /\ Handles("granted")
    BY <1>7, GrantedDoes
  <2>2. Len(inbox) = 1 /\ Len(inbox') = Len(inbox) - 1
    BY <2>1, Taken DEF OneEngineAtATime
  <2>3. Len(inbox') = 0
    BY <2>2
  <2>4. QED
    BY <2>1, <2>3 DEF OneEngineAtATime, None
<1>8. CASE OnJoined \/ OnLost \/ OnRemoteFrames \/ OnRemoteUserLeft
  <2>1. UNCHANGED <<asking, inMeeting, meetings, engine>> /\ \E kind : Handles(kind)
    BY <1>8 DEF OnJoined, OnLost, OnRemoteFrames, OnRemoteUserLeft, requestVars, engineVars
  <2>2. QED
    BY <2>1, CallTaken
<1>9. QED
  BY <1>1, <1>2, <1>3, <1>4, <1>5, <1>6, <1>7, <1>8 DEF Next, EngineActs, RoomActs

(* When a meeting is granted no engine exists and nothing else is queued.    *)
LEMMA GrantIsAlone ==
  ASSUME TypeOK, OneEngineAtATime, Handles("granted")
  PROVE  Len(inbox') = 0 /\ ~inMeeting /\ engine = None
<1>1. Len(inbox) = 1 /\ Len(inbox') = Len(inbox) - 1 /\ ~inMeeting
  BY Taken DEF OneEngineAtATime
<1>2. QED
  BY <1>1 DEF OneEngineAtATime

-----------------------------------------------------------------------------
(* The result of the join                                                    *)

LEMMA ResultKept ==
  ASSUME TypeOK, ResultComesOnce, UNCHANGED <<inMeeting, engine, result>>,
         \/ inbox' = inbox
         \/ \E kind : Handles(kind)
         \/ \E e \in EventSet : inbox' = Append(inbox, e) /\ e.kind \notin {"joined", "failed"}
  PROVE  ResultComesOnce'
<1> SUFFICES ASSUME inMeeting, NEW i \in 1 .. Len(inbox'), NEW j \in 1 .. Len(inbox')
             PROVE  /\ inbox'[i].kind = "failed" => result = "failed"
                    /\ inbox'[i].kind = "joined" => result = "joined"
                    /\ inbox'[i].kind = "joined" /\ inbox'[j].kind = "joined" => i = j
  BY DEF ResultComesOnce, None
<1>1. CASE inbox' = inbox
  BY <1>1 DEF ResultComesOnce
<1>2. CASE \E kind : Handles(kind)
  <2>1. /\ i + 1 \in 1 .. Len(inbox) /\ inbox'[i] = inbox[i + 1]
        /\ j + 1 \in 1 .. Len(inbox) /\ inbox'[j] = inbox[j + 1]
        /\ i + 1 = j + 1 => i = j
    BY <1>2, Taken
  <2>2. QED
    BY <2>1 DEF ResultComesOnce
<1>3. CASE \E e \in EventSet : inbox' = Append(inbox, e) /\ e.kind \notin {"joined", "failed"}
  <2>1. PICK e \in EventSet : inbox' = Append(inbox, e) /\ e.kind \notin {"joined", "failed"}
    BY <1>3
  <2>2. /\ \A k \in 1 .. Len(inbox) : inbox'[k] = inbox[k]
        /\ inbox'[Len(inbox) + 1] = e
        /\ \A k \in 1 .. Len(inbox') : k \in 1 .. Len(inbox) \/ k = Len(inbox) + 1
    BY <2>1, Posted
  <2>3. QED
    BY <2>1, <2>2 DEF ResultComesOnce
<1>4. QED
  BY <1>1, <1>2, <1>3

LEMMA ResultNext ==
  ASSUME TypeOK, OneEngineAtATime, ResultComesOnce, Next
  PROVE  ResultComesOnce'
<1>1. CASE EngineJoins
  <2>1. /\ result = "joining" /\ engine # None /\ UNCHANGED <<engine, inMeeting>>
    BY <1>1, EngineDoes DEF EngineJoins, EngineActs
  <2>2. PICK kind \in {"joined", "failed"} : result' = kind /\ inbox' = Append(inbox, Event(kind))
    BY <1>1 DEF EngineJoins, Post
  <2>3. Event(kind) \in EventSet /\ Event(kind).kind = kind
    BY EventIs DEF Kinds
  <2>4. /\ \A i \in 1 .. Len(inbox) : inbox'[i] = inbox[i]
        /\ inbox'[Len(inbox) + 1] = Event(kind)
        /\ \A i \in 1 .. Len(inbox') : i \in 1 .. Len(inbox) \/ i = Len(inbox) + 1
    BY <2>2, <2>3, Posted
  <2>5. \A i \in 1 .. Len(inbox) : inbox[i].kind \notin {"joined", "failed"}
    BY <2>1 DEF ResultComesOnce, OneEngineAtATime
  <2>6. \A i \in 1 .. Len(inbox') :
          inbox'[i].kind \in {"joined", "failed"} => i = Len(inbox) + 1 /\ inbox'[i].kind = kind
    BY <2>3, <2>4, <2>5
  <2>7. QED
    BY <2>1, <2>2, <2>6 DEF ResultComesOnce, None
<1>2. CASE /\ EngineActs /\ ~EngineJoins
  <2>1. UNCHANGED <<inMeeting, engine, result>>
    BY <1>2, EngineDoes DEF EngineActs, EngineLosesConnection, RemoteUserJoined, RemoteUserLeft,
       FrameArrives, ScheduleEmit, PostEmit
  <2>2. \/ inbox' = inbox
        \/ \E kind \in {"lost", "remote"} : inbox' = Append(inbox, Event(kind))
        \/ \E u \in Users : inbox' = Append(inbox, UserLeft(u))
    BY <1>2 DEF EngineActs, EngineLosesConnection, RemoteUserJoined, RemoteUserLeft,
       FrameArrives, ScheduleEmit, PostEmit, Post
  <2>3. \/ inbox' = inbox
        \/ \E e \in EventSet : inbox' = Append(inbox, e) /\ e.kind \notin {"joined", "failed"}
    BY <2>2, EventIs DEF Kinds
  <2>4. QED
    BY <2>1, <2>3, ResultKept
<1>3. CASE RoomActs
  BY <1>3, RoomDoes, ResultKept
<1>4. CASE EngineDestroyed
  BY <1>4, EndDone DEF ResultComesOnce
<1>5. CASE UserAsksForMeeting \/ OnJoined \/ OnLost \/ OnRemoteFrames \/ OnRemoteUserLeft
  <2>1. /\ UNCHANGED <<inMeeting, engine, result>>
        /\ inbox' = inbox \/ \E kind : Handles(kind)
    BY <1>5 DEF UserAsksForMeeting, OnJoined, OnLost, OnRemoteFrames, OnRemoteUserLeft, requestVars,
       engineVars
  <2>2. QED
    BY <2>1, ResultKept
<1>6. CASE UserClosesWindow \/ OnJoinFailed \/ BoxDismissed
  <2>1. /\ UNCHANGED <<inMeeting, engine, result>>
        /\ inbox' = inbox \/ Handles("failed")
    BY <1>6, EndBegins DEF UserClosesWindow, OnJoinFailed, BoxDismissed
  <2>2. QED
    BY <2>1, ResultKept
<1>7. CASE ServerGrants
  <2>1. /\ UNCHANGED <<inMeeting, engine, result>> /\ inbox' = Append(inbox, Grant)
    BY <1>7 DEF ServerGrants, Post, Grant, requestVars, engineVars
  <2>2. QED
    BY <2>1, GrantIs, ResultKept
<1>8. CASE OnGranted
  <2>1. Len(inbox') = 0
    BY <1>8, GrantedDoes, GrantIsAlone
  <2>2. engine' = None <=> result' = "none"
    <3>1. meetings' = meetings + 1
      BY <1>8, GrantedDoes
    <3>2. meetings' # None
      BY <3>1 DEF TypeOK, WindowOK, None
    <3>3. QED
      BY <1>8, <3>2, GrantedDoes
  <2>3. QED
    BY <2>1, <2>2 DEF ResultComesOnce, None
<1>9. QED
  BY <1>1, <1>2, <1>3, <1>4, <1>5, <1>6, <1>7, <1>8 DEF Next, EngineActs, RoomActs

-----------------------------------------------------------------------------
(* Who is joined, and the boxes                                              *)

LEMMA JoinedKept ==
  ASSUME JoinedIsReal, UNCHANGED <<rtcJoined, boxes, inMeeting, result, engine, ui>>,
         IsQueued("joined")' => IsQueued("joined")
  PROVE  JoinedIsReal'
BY DEF JoinedIsReal, None

LEMMA NobodyJoined ==
  ASSUME rtcJoined' = FALSE, boxes' = <<>>
  PROVE  JoinedIsReal'
BY DEF JoinedIsReal

(* The other members' part of the engine's steps.                            *)
LEMMA EngineGoesOn ==
  ASSUME TypeOK, EngineActs, ~EngineJoins
  PROVE  /\ result' = result
         /\ \/ inbox' = inbox
            \/ \E e \in EventSet : inbox' = Append(inbox, e) /\ e.kind \notin {"joined", "failed"}
<1>1. \/ inbox' = inbox
      \/ \E kind \in {"lost", "remote"} : inbox' = Append(inbox, Event(kind))
      \/ \E u \in Users : inbox' = Append(inbox, UserLeft(u))
  BY DEF EngineActs, EngineLosesConnection, RemoteUserJoined, RemoteUserLeft,
     FrameArrives, ScheduleEmit, PostEmit, Post
<1>2. result' = result
  BY DEF EngineActs, EngineLosesConnection, RemoteUserJoined, RemoteUserLeft,
     FrameArrives, ScheduleEmit, PostEmit
<1>3. QED
  BY <1>1, <1>2, EventIs DEF Kinds

LEMMA JoinedNext ==
  ASSUME TypeOK, OneEngineAtATime, ResultComesOnce, TracksAgree, ~stale => JoinedIsReal,
         Next, ~stale'
  PROVE  JoinedIsReal'
<1>0. ~stale /\ JoinedIsReal
  <2>1. stale => stale'
    BY DEF Next, EngineRuns, EngineJoins, EngineLosesConnection, RemoteUserJoined, RemoteUserLeft,
       FrameArrives, ScheduleEmit, PostEmit, EngineDestroyed, UserAsksForMeeting, UserClosesWindow,
       UserActs, ServerGrants, OnGranted, OnJoined, OnJoinFailed, OnLost, BoxDismissed,
       OnRemoteFrames, OnRemoteUserLeft, TileAdded, TileRemoved, UserToggles, SharingIsSwitched,
       MeetingGoesOn
  <2>2. QED
    BY <2>1
<1>1. CASE EngineJoins
  <2>1. result = "joining" /\ UNCHANGED <<rtcJoined, boxes>>
    BY <1>1, EngineDoes DEF EngineJoins, EngineActs
  <2>2. ~rtcJoined /\ boxes = <<>>
    BY <1>0, <2>1 DEF JoinedIsReal
  <2>3. QED
    BY <2>1, <2>2, NobodyJoined DEF TypeOK, WindowOK
<1>2. CASE EngineActs /\ ~EngineJoins
  <2>1. UNCHANGED <<rtcJoined, boxes, inMeeting, result, engine, ui>>
    BY <1>2, EngineDoes, EngineGoesOn
  <2>2. IsQueued("joined")' => IsQueued("joined")
    BY <1>2, EngineGoesOn, QueueIsKept, Posted
  <2>3. QED
    BY <1>0, <2>1, <2>2, JoinedKept
<1>3. CASE RoomActs
  BY <1>0, <1>3, RoomDoes, QueueIsKept, JoinedKept
<1>4. CASE EngineDestroyed
  <2>1. ui = "ending" /\ UNCHANGED <<boxes, rtcJoined>>
    BY <1>4, EndDone
  <2>2. boxes = <<>> /\ ~rtcJoined
    BY <1>0, <2>1 DEF JoinedIsReal, TracksAgree
  <2>3. QED
    BY <2>1, <2>2, NobodyJoined DEF TypeOK, WindowOK
<1>5. CASE UserAsksForMeeting
  <2>1. UNCHANGED <<rtcJoined, boxes, inMeeting, result, engine, ui, inbox>>
    BY <1>5 DEF UserAsksForMeeting, UserActs, windowVars, engineVars
  <2>2. QED
    BY <1>0, <2>1, QueueIsKept, JoinedKept
<1>6. CASE UserClosesWindow
  BY <1>6, EndBegins, NobodyJoined DEF UserClosesWindow, UserActs
<1>7. CASE ServerGrants
  <2>1. UNCHANGED <<rtcJoined, boxes, inMeeting, result, engine, ui>> /\ inbox' = Append(inbox, Grant)
    BY <1>7 DEF ServerGrants, Post, Grant, requestVars, windowVars, engineVars
  <2>2. IsQueued("joined")' => IsQueued("joined")
    BY <2>1, GrantIs, Posted
  <2>3. QED
    BY <1>0, <2>1, <2>2, JoinedKept
<1>8. CASE OnGranted
  <2>1. ~inMeeting /\ rtcJoined' = FALSE /\ boxes' = boxes
    BY <1>8, GrantedDoes, GrantIsAlone
  <2>2. boxes = <<>>
    BY <1>0, <2>1 DEF JoinedIsReal
  <2>3. QED
    BY <2>1, <2>2, NobodyJoined
<1>9. CASE OnJoined
  <2>1. /\ Handles("joined") /\ UNCHANGED <<boxes, inMeeting, result, engine, ui>>
        /\ Head(inbox).from = engine
    BY <1>9 DEF OnJoined, requestVars, engineVars
  <2>2. inbox[1].kind = "joined" /\ inbox[1].from = engine /\ 1 \in 1 .. Len(inbox)
    BY <2>1, Taken
  <2>3. inMeeting
    BY <2>2 DEF OneEngineAtATime
  <2>4. result = "joined"
    BY <2>2, <2>3 DEF ResultComesOnce
  <2>5. ~IsQueued("joined")'
    <3>1. SUFFICES ASSUME NEW i \in 1 .. Len(inbox'), inbox'[i].kind = "joined" PROVE FALSE
      BY DEF IsQueued
    <3>2. i + 1 \in 1 .. Len(inbox) /\ i + 1 # 1 /\ inbox'[i] = inbox[i + 1]
      BY <2>1, Taken
    <3>3. QED
      BY <2>2, <2>3, <3>1, <3>2 DEF ResultComesOnce
  <2>6. boxes = <<>>
    BY <1>0, <2>1, Taken DEF JoinedIsReal
  <2>7. QED
    BY <2>1, <2>3, <2>4, <2>5, <2>6 DEF JoinedIsReal
<1>10. CASE OnJoinFailed
  <2>1. Handles("failed") /\ rtcJoined' = FALSE /\ boxes' = boxes
    BY <1>10, EndBegins DEF OnJoinFailed
  <2>2. inbox[1].kind = "failed" /\ 1 \in 1 .. Len(inbox)
    BY <2>1, Taken
  <2>3. boxes = <<>>
    BY <1>0, <2>2 DEF JoinedIsReal, ResultComesOnce
  <2>4. QED
    BY <2>1, <2>3, NobodyJoined
<1>11. CASE OnLost
  <2>1. /\ Handles("lost") /\ UNCHANGED <<inMeeting, result, engine, ui>>
        /\ \/ /\ rtcJoined /\ rtcJoined' = FALSE /\ boxes' = Append(boxes, Head(inbox).from)
           \/ UNCHANGED <<rtcJoined, boxes>>
    BY <1>11 DEF OnLost, requestVars, engineVars
  <2>2. /\ inbox[1].kind = "lost" /\ Head(inbox) = inbox[1] /\ 1 \in 1 .. Len(inbox) /\ ui = "free"
        /\ IsQueued("joined")' => IsQueued("joined")
    BY <2>1, Taken
  <2>3. CASE rtcJoined /\ rtcJoined' = FALSE /\ boxes' = Append(boxes, Head(inbox).from)
    <3>1. boxes = <<>> /\ inMeeting /\ result = "joined" /\ ~IsQueued("joined")
      BY <1>0, <2>3 DEF JoinedIsReal
    <3>2. Head(inbox).from = engine /\ engine # None
      BY <2>2, <3>1 DEF OneEngineAtATime
    <3>3. boxes' = <<engine>>
      BY <2>3, <3>1, <3>2
    <3>4. Len(boxes') = 1 /\ boxes'[1] = engine
      BY <3>3
    <3>5. QED
      BY <2>1, <2>2, <2>3, <3>1, <3>2, <3>4 DEF JoinedIsReal, None
  <2>4. CASE UNCHANGED <<rtcJoined, boxes>>
    BY <1>0, <2>1, <2>2, <2>4, JoinedKept
  <2>5. QED
    BY <2>1, <2>3, <2>4
<1>12. CASE BoxDismissed
  <2>1. boxes # <<>> /\ boxes' = Front(boxes) /\ rtcJoined' = FALSE
    BY <1>12, EndBegins DEF BoxDismissed
  <2>2. Len(boxes) = 1
    BY <1>0, <2>1 DEF JoinedIsReal
  <2>3. boxes' = <<>>
    BY <2>1, <2>2, Fronted DEF TypeOK, WindowOK
  <2>4. QED
    BY <2>1, <2>3, NobodyJoined
<1>13. CASE OnRemoteFrames \/ OnRemoteUserLeft
  <2>1. /\ UNCHANGED <<rtcJoined, boxes, inMeeting, result, engine, ui>>
        /\ \E kind : Handles(kind)
    BY <1>13 DEF OnRemoteFrames, OnRemoteUserLeft, requestVars, windowVars, engineVars
  <2>2. IsQueued("joined")' => IsQueued("joined")
    BY <2>1, Taken
  <2>3. QED
    BY <1>0, <2>1, <2>2, JoinedKept
<1>14. QED
  BY <1>1, <1>2, <1>3, <1>4, <1>5, <1>6, <1>7, <1>8, <1>9, <1>10, <1>11, <1>12, <1>13
  DEF Next, EngineActs, RoomActs

-----------------------------------------------------------------------------
(* The switches and what is captured                                         *)

LEMMA TracksKept ==
  ASSUME TracksAgree,
         UNCHANGED <<engine, captured, ui, on, local, rtcJoined, joined, boxes, allowed>>
  PROVE  TracksAgree'
BY DEF TracksAgree, None

LEMMA RoomTracksNext ==
  ASSUME TypeOK, TracksAgree, RoomActs
  PROVE  TracksAgree'
<1>1. ui = "free" /\ UNCHANGED <<ui, boxes, rtcJoined, joined, engine>>
  BY RoomDoes
<1>2. on = captured
  BY <1>1 DEF TracksAgree
<1>3. CASE UNCHANGED <<captured, on, local, allowed>>
  BY <1>1, <1>3, TracksKept
<1>4. CASE /\ boxes = <<>> /\ engine # None /\ rtcJoined /\ allowed' = allowed
           /\ \E t \in Tracks : Enabled(t) /\ SetTrack(t, t \notin local)
  <2>1. PICK t \in Tracks : Enabled(t) /\ SetTrack(t, t \notin local)
    BY <1>4
  <2>2. local = on
    BY <1>4 DEF TracksAgree
  <2>3. /\ on' = captured' /\ local' = on'
        /\ ~({"video", "screen"} \subseteq captured')
        /\ captured' \subseteq captured \cup {t}
        /\ ~joined => captured' = captured
    BY <1>2, <2>1, <2>2, TrackIsSet DEF TracksAgree
  <2>4. captured' # {} => joined
    BY <1>1, <2>3 DEF TracksAgree
  <2>5. "screen" \in captured' => allowed
    BY <1>1, <1>4, <2>1, <2>3 DEF TracksAgree, Enabled
  <2>6. QED
    BY <1>1, <1>4, <2>3, <2>4, <2>5 DEF TracksAgree, None
<1>5. CASE UNCHANGED <<captured, on, local>> /\ (allowed' \/ "screen" \notin local)
  BY <1>1, <1>2, <1>5 DEF TracksAgree, None
<1>6. CASE ~allowed' /\ "screen" \in local /\ SetTrack("screen", FALSE)
  <2>1. boxes = <<>> /\ local = on
    BY <1>6 DEF TracksAgree
  <2>2. engine # None /\ joined /\ rtcJoined
    BY <1>1, <1>2, <1>6, <2>1 DEF TracksAgree
  <2>3. "screen" \in Tracks
    BY DEF Tracks
  <2>4. /\ on' = captured' /\ local' = on' /\ "screen" \notin on'
        /\ ~({"video", "screen"} \subseteq captured')
    BY <1>2, <1>6, <2>1, <2>2, <2>3, TrackIsSet DEF TracksAgree
  <2>5. QED
    BY <1>1, <2>1, <2>2, <2>4 DEF TracksAgree, None
<1>7. QED
  BY <1>3, <1>4, <1>5, <1>6, RoomTracks

LEMMA TracksNext ==
  ASSUME TypeOK, OneEngineAtATime, TracksAgree, Next
  PROVE  TracksAgree'
<1>1. CASE EngineActs
  BY <1>1, EngineDoes, TracksKept
<1>2. CASE RoomActs
  BY <1>2, RoomTracksNext
<1>3. CASE EngineDestroyed
  BY <1>3, EndDone DEF TracksAgree, None
<1>4. CASE UserAsksForMeeting \/ ServerGrants \/ OnRemoteFrames \/ OnRemoteUserLeft
  <2>1. UNCHANGED <<engine, captured, ui, on, local, rtcJoined, joined, boxes, allowed>>
    BY <1>4 DEF UserAsksForMeeting, UserActs, ServerGrants, OnRemoteFrames, OnRemoteUserLeft,
       windowVars, engineVars
  <2>2. QED
    BY <2>1, TracksKept
<1>5. CASE UserClosesWindow \/ OnJoinFailed \/ BoxDismissed
  <2>1. BeginEnd
    BY <1>5 DEF UserClosesWindow, OnJoinFailed, BoxDismissed
  <2>2. /\ local' = {} /\ on' = {} /\ rtcJoined' = FALSE /\ joined' = FALSE /\ ui' = "ending"
        /\ UNCHANGED <<engine, captured>>
    BY <2>1, EndBegins
  <2>3. QED
    BY <2>2 DEF TracksAgree, None
<1>6. CASE OnGranted
  <2>1. engine = None
    BY <1>6, GrantedDoes, GrantIsAlone
  <2>2. /\ captured' = {} /\ local' = {} /\ on' = {} /\ ui' = "free"
    BY <1>6, <2>1, GrantedDoes, Taken DEF TracksAgree
  <2>3. QED
    BY <2>2 DEF TracksAgree, None
<1>7. CASE OnJoined
  BY <1>7 DEF OnJoined, Handles, engineVars, TracksAgree, None
<1>8. CASE OnLost
  <2>1. /\ UNCHANGED <<engine, captured, ui, on, joined, allowed>>
        /\ \/ /\ local' = {} /\ boxes' = Append(boxes, Head(inbox).from)
           \/ UNCHANGED <<rtcJoined, local, boxes>>
    BY <1>8 DEF OnLost, engineVars
  <2>2. CASE local' = {} /\ boxes' = Append(boxes, Head(inbox).from)
    <3>1. Head(inbox).from \in Nat
      BY <1>8, Taken DEF OnLost, EventSet
    <3>2. boxes' # <<>>
      BY <2>2, <3>1, Appended DEF TypeOK, WindowOK
    <3>3. ui = "free"
      BY <1>8 DEF OnLost, Handles
    <3>4. QED
      BY <2>1, <2>2, <3>2, <3>3 DEF TracksAgree, None
  <2>3. CASE UNCHANGED <<rtcJoined, local, boxes>>
    BY <2>1, <2>3, TracksKept
  <2>4. QED
    BY <2>1, <2>2, <2>3
<1>9. QED
  BY <1>1, <1>2, <1>3, <1>4, <1>5, <1>6, <1>7, <1>8 DEF Next, EngineActs, RoomActs

-----------------------------------------------------------------------------
(* Frames and pictures                                                       *)

LEMMA FramesKept ==
  ASSUME FramesFlow,
         UNCHANGED <<feedToUser, pending, scheduled, frames, tiles, pictures, inMeeting, ui>>,
         IsQueued("remote") => IsQueued("remote")',
         \A u : ExitQueued(u) => ExitQueued(u)'
  PROVE  FramesFlow'
<1>1. \A u \in pictures' \cap tiles' : u \in feedToUser' \/ ExitQueued(u)' \/ ui' = "ending"
  BY DEF FramesFlow
<1>2. QED
  BY <1>1 DEF FramesFlow

LEMMA EngineFrames ==
  ASSUME TypeOK, FramesFlow, EngineActs
  PROVE  FramesFlow'
<1>1. /\ UNCHANGED <<tiles, pictures, inMeeting, ui>>
      /\ \A kind : IsQueued(kind) => IsQueued(kind)'
      /\ \A u : ExitQueued(u) => ExitQueued(u)'
  BY EngineDoes, Posted, QueueIsKept
<1>2. ~inMeeting => tiles = {}
  BY DEF FramesFlow
<1>3. CASE EngineJoins \/ EngineLosesConnection
  <2>1. UNCHANGED <<feedToUser, pending, scheduled, frames>>
    BY <1>3 DEF EngineJoins, EngineLosesConnection, observerVars
  <2>2. QED
    BY <1>1, <2>1, FramesKept
<1>4. CASE \E u \in Users : RemoteUserJoined(u)
  <2>1. PICK u \in Users : RemoteUserJoined(u)
    BY <1>4
  <2>2. feedToUser' = feedToUser \cup {u} /\ UNCHANGED <<pending, scheduled, frames>>
    BY <2>1 DEF RemoteUserJoined
  <2>3. \A v \in pictures' \cap tiles' : v \in feedToUser' \/ ExitQueued(v)' \/ ui' = "ending"
    BY <1>1, <2>2 DEF FramesFlow
  <2>4. QED
    BY <1>1, <2>2, <2>3 DEF FramesFlow
<1>5. CASE \E u \in Users : RemoteUserLeft(u)
  <2>1. PICK u \in Users : RemoteUserLeft(u)
    BY <1>5
  <2>2. /\ feedToUser' = feedToUser \ {u} /\ pending' = pending \ {u}
        /\ inbox' = Append(inbox, UserLeft(u)) /\ UNCHANGED <<scheduled, frames>>
    BY <2>1 DEF RemoteUserLeft, Post
  <2>3. ExitQueued(u)'
    BY <2>2, EventIs, Posted
  <2>4. \A v \in pictures' \cap tiles' : v \in feedToUser' \/ ExitQueued(v)' \/ ui' = "ending"
    BY <1>1, <2>2, <2>3 DEF FramesFlow
  <2>5. QED
    BY <1>1, <2>2, <2>4 DEF FramesFlow
<1>6. CASE \E u \in Users : FrameArrives(u)
  <2>1. PICK u \in Users : FrameArrives(u)
    BY <1>6
  <2>2. /\ u \in feedToUser /\ pending' = pending \cup {u} /\ frames = "idle" /\ frames' = "stored"
        /\ UNCHANGED <<feedToUser, scheduled>>
    BY <2>1 DEF FrameArrives
  <2>3. \A v \in pictures' \cap tiles' : v \in feedToUser' \/ ExitQueued(v)' \/ ui' = "ending"
    BY <1>1, <2>2 DEF FramesFlow
  <2>4. scheduled' => IsQueued("remote")'
    BY <1>1, <2>2 DEF FramesFlow
  <2>5. QED
    BY <1>1, <2>2, <2>3, <2>4 DEF FramesFlow
<1>7. CASE ScheduleEmit
  <2>1. /\ scheduled' = TRUE /\ frames = "stored"
        /\ (scheduled /\ frames' = "idle") \/ frames' = "posting"
        /\ UNCHANGED <<feedToUser, pending>>
    BY <1>7 DEF ScheduleEmit
  <2>2. frames' = "posting" \/ IsQueued("remote")'
    BY <1>1, <2>1 DEF FramesFlow
  <2>3. \A v \in pictures' \cap tiles' : v \in feedToUser' \/ ExitQueued(v)' \/ ui' = "ending"
    BY <1>1, <2>1 DEF FramesFlow
  <2>4. QED
    BY <1>1, <2>1, <2>2, <2>3 DEF FramesFlow
<1>8. CASE PostEmit
  <2>1. /\ inbox' = Append(inbox, Event("remote")) /\ frames = "posting" /\ frames' = "idle"
        /\ UNCHANGED <<feedToUser, pending, scheduled>>
    BY <1>8 DEF PostEmit, Post, observerVars
  <2>2. IsQueued("remote")'
    BY <2>1, EventIs, Posted DEF Kinds
  <2>3. \A v \in pictures' \cap tiles' : v \in feedToUser' \/ ExitQueued(v)' \/ ui' = "ending"
    BY <1>1, <2>1 DEF FramesFlow
  <2>4. QED
    BY <1>1, <2>1, <2>2, <2>3 DEF FramesFlow
<1>9. QED
  BY <1>3, <1>4, <1>5, <1>6, <1>7, <1>8 DEF EngineActs

LEMMA FramesNext ==
  ASSUME TypeOK, OneEngineAtATime, FramesFlow, Next
  PROVE  FramesFlow'
<1>1. CASE EngineActs
  BY <1>1, EngineFrames
<1>2. CASE RoomActs
  <2>1. /\ inMeeting /\ UNCHANGED <<feedToUser, pending, scheduled, frames, inMeeting, ui, inbox>>
    BY <1>2, RoomDoes
  <2>2. pictures' \cap tiles' \subseteq pictures \cap tiles
    BY <1>2 DEF RoomActs, TileAdded, TileRemoved, UserToggles, SharingIsSwitched, pictureVars
  <2>3. \A u \in pictures' \cap tiles' : u \in feedToUser' \/ ExitQueued(u)' \/ ui' = "ending"
    BY <2>1, <2>2, QueueIsKept DEF FramesFlow
  <2>4. QED
    BY <2>1, <2>3, QueueIsKept DEF FramesFlow
<1>3. CASE EngineDestroyed
  <2>1. \A kind : IsQueued(kind) => IsQueued(kind)'
    BY <1>3, EndDone, Posted, QueueIsKept
  <2>2. QED
    BY <1>3, <2>1, EndDone DEF FramesFlow
<1>4. CASE UserAsksForMeeting
  <2>1. UNCHANGED <<feedToUser, pending, scheduled, frames, tiles, pictures, inMeeting, ui, inbox>>
    BY <1>4 DEF UserAsksForMeeting, UserActs, pictureVars, observerVars
  <2>2. QED
    BY <2>1, QueueIsKept, FramesKept
<1>5. CASE UserClosesWindow \/ OnJoinFailed \/ BoxDismissed
  <2>1. BeginEnd
    BY <1>5 DEF UserClosesWindow, OnJoinFailed, BoxDismissed
  <2>2. QED
    BY <2>1, EndBegins DEF FramesFlow
<1>6. CASE ServerGrants
  <2>1. /\ UNCHANGED <<feedToUser, pending, scheduled, frames, tiles, pictures, inMeeting, ui>>
        /\ inbox' = Append(inbox, Grant)
    BY <1>6 DEF ServerGrants, Post, Grant, requestVars, pictureVars, observerVars
  <2>2. /\ IsQueued("remote") => IsQueued("remote")'
        /\ \A u : ExitQueued(u) => ExitQueued(u)'
    BY <2>1, GrantIs, Posted
  <2>3. QED
    BY <2>1, <2>2, FramesKept
<1>7. CASE OnGranted
  <2>1. tiles = {}
    BY <1>7, GrantedDoes, GrantIsAlone DEF FramesFlow
  <2>2. QED
    BY <1>7, <2>1, GrantedDoes DEF FramesFlow
<1>8. CASE OnJoined \/ OnLost
  <2>1. /\ UNCHANGED <<feedToUser, pending, scheduled, frames, tiles, pictures, inMeeting, ui>>
        /\ \E kind \in {"joined", "lost"} : Handles(kind)
    BY <1>8 DEF OnJoined, OnLost, requestVars, pictureVars, observerVars
  <2>2. /\ IsQueued("remote") => IsQueued("remote")'
        /\ \A u : ExitQueued(u) => ExitQueued(u)'
    BY <2>1, Taken
  <2>3. QED
    BY <2>1, <2>2, FramesKept
<1>9. CASE OnRemoteFrames
  <2>1. /\ Handles("remote") /\ pictures' = pictures \cup pending /\ pending' = {}
        /\ scheduled' = FALSE /\ UNCHANGED <<feedToUser, frames, tiles, inMeeting, ui>>
    BY <1>9 DEF OnRemoteFrames, requestVars
  <2>2. \A u : ExitQueued(u)' <=> ExitQueued(u)
    BY <2>1, Taken
  <2>3. \A u \in pictures' \cap tiles' : u \in feedToUser' \/ ExitQueued(u)' \/ ui' = "ending"
    BY <2>1, <2>2 DEF FramesFlow
  <2>4. QED
    BY <2>1, <2>3 DEF FramesFlow
<1>10. CASE OnRemoteUserLeft
  <2>1. /\ Handles("userLeft") /\ pictures' = pictures \ ({Head(inbox).user} \cap tiles)
        /\ UNCHANGED <<feedToUser, pending, scheduled, frames, tiles, inMeeting, ui>>
    BY <1>10 DEF OnRemoteUserLeft, requestVars, observerVars
  <2>2. /\ Head(inbox) = inbox[1]
        /\ \A u : u # inbox[1].user => (ExitQueued(u)' <=> ExitQueued(u))
        /\ IsQueued("remote") => IsQueued("remote")'
    BY <2>1, Taken
  <2>3. \A u \in pictures' \cap tiles' : u \in feedToUser' \/ ExitQueued(u)' \/ ui' = "ending"
    BY <2>1, <2>2 DEF FramesFlow
  <2>4. QED
    BY <2>1, <2>2, <2>3 DEF FramesFlow
<1>11. QED
  BY <1>1, <1>2, <1>3, <1>4, <1>5, <1>6, <1>7, <1>8, <1>9, <1>10 DEF Next, EngineActs, RoomActs

-----------------------------------------------------------------------------
(* The invariant holds                                                       *)

LEMMA MediaInit == Init => MediaInv
<1> SUFFICES ASSUME Init PROVE MediaInv
  OBVIOUS
<1>1. TypeOK
  BY TypeInit
<1>2. Len(inbox) = 0
  BY DEF Init
<1>3. OneEngineAtATime /\ ResultComesOnce
  BY <1>2 DEF Init, OneEngineAtATime, ResultComesOnce, None
<1>4. JoinedIsReal /\ TracksAgree
  BY DEF Init, JoinedIsReal, TracksAgree, None
<1>5. FramesFlow
  BY DEF Init, FramesFlow
<1>6. QED
  BY <1>1, <1>3, <1>4, <1>5 DEF MediaInv

LEMMA MediaNext == MediaInv /\ [Next]_vars => MediaInv'
<1> SUFFICES ASSUME MediaInv, [Next]_vars PROVE MediaInv'
  OBVIOUS
<1>1. TypeOK /\ OneEngineAtATime /\ ResultComesOnce /\ (~stale => JoinedIsReal) /\ TracksAgree /\ FramesFlow
  BY DEF MediaInv
<1>2. TypeOK'
  BY <1>1, TypeNext
<1>3. CASE UNCHANGED vars
  <2>1. /\ UNCHANGED <<asking, inMeeting, meetings, ui, boxes, rtcJoined, local, allowed, tiles,
                       pictures, inbox, joined, on, feedToUser, pending, scheduled, engine, result,
                       lost, captured, frames, stale>>
    BY <1>3 DEF vars, requestVars, windowVars, pictureVars, observerVars, engineVars
  <2>2. OneEngineAtATime'
    BY <1>1, <2>1, NothingQueued
  <2>3. ResultComesOnce'
    BY <1>1, <2>1, ResultKept
  <2>4. ~stale' => JoinedIsReal'
    BY <1>1, <2>1, QueueIsKept, JoinedKept
  <2>5. TracksAgree'
    BY <1>1, <2>1, TracksKept
  <2>6. FramesFlow'
    BY <1>1, <2>1, QueueIsKept, FramesKept
  <2>7. QED
    BY <1>2, <2>2, <2>3, <2>4, <2>5, <2>6 DEF MediaInv
<1>4. CASE Next
  BY <1>1, <1>2, <1>4, EngineNext, ResultNext, JoinedNext, TracksNext, FramesNext DEF MediaInv
<1>5. QED
  BY <1>3, <1>4

LEMMA MediaInvariant == Spec => []MediaInv
BY MediaInit, MediaNext, PTL DEF Spec

(* The buttons of the window, the controller's flags and the tracks that are *)
(* captured agree whatever starts fail, is lost or is revoked (              *)
(* sync_av_button_ui, flags_applied, set_video_on, set_screen_on), for any   *)
(* number of meetings one after another.                                     *)
THEOREM MediaButtons == Spec => []ButtonsTellTheTruth
<1>1. MediaInv => ButtonsTellTheTruth
  <2>1. SUFFICES ASSUME TypeOK, OneEngineAtATime, TracksAgree, ui = "free", boxes = <<>>
                 PROVE  /\ local = on /\ on = captured
                        /\ ~({"video", "screen"} \subseteq captured)
                        /\ captured # {} => inMeeting /\ rtcJoined
                        /\ "screen" \in captured => allowed
    BY DEF MediaInv, ButtonsTellTheTruth
  <2>2. captured # {} => engine # None
    BY <2>1 DEF TracksAgree
  <2>3. QED
    BY <2>1, <2>2 DEF TracksAgree, OneEngineAtATime
<1>2. QED
  BY <1>1, MediaInvariant, PTL

(* Every received frame is on its way to the window, and who has left the    *)
(* media session is not shown with a last picture (on_remote_video_frame,    *)
(* schedule_remote_emit, emit_remote, on_rtc_remote_user_left), for any      *)
(* number of users.                                                          *)
THEOREM MediaPictures == Spec => []PicturesAreLive
<1>1. MediaInv => PicturesAreLive
  <2>1. SUFFICES ASSUME TypeOK, FramesFlow PROVE PicturesAreLive
    BY DEF MediaInv
  <2>2. DOMAIN inbox = 1 .. Len(inbox)
    BY <2>1 DEF TypeOK, WindowOK
  <2>3. QED
    BY <2>1, <2>2 DEF FramesFlow, PicturesAreLive, IsQueued, ExitQueued
<1>2. QED
  BY <1>1, MediaInvariant, PTL

(* A meeting is ended by the reports of its own engine only, not by what an  *)
(* earlier engine has left behind, as long as no late join result was        *)
(* handled (on_rtc_join_failed, handle_rtc_session_lost).                    *)
THEOREM MediaEnds == Spec => EndedByOwnMedia
<1>1. MediaInv /\ [Next]_vars =>
        [inMeeting /\ ui = "free" /\ ui' = "ending" /\ ~stale
           => /\ inbox' # inbox => Head(inbox).from = engine
              /\ boxes' # boxes => Last(boxes) = engine]_vars
  <2>1. SUFFICES ASSUME MediaInv, Next, inMeeting, ui = "free", ui' = "ending", ~stale
                 PROVE  /\ inbox' # inbox => Head(inbox).from = engine
                        /\ boxes' # boxes => Last(boxes) = engine
    OBVIOUS
  <2>2. TypeOK /\ OneEngineAtATime /\ JoinedIsReal
    BY <2>1 DEF MediaInv
  <2>3. CASE EngineActs
    BY <2>1, <2>2, <2>3, EngineDoes
  <2>4. CASE RoomActs
    BY <2>1, <2>2, <2>4, RoomDoes
  <2>5. CASE EngineDestroyed
    BY <2>1, <2>2, <2>5, EndDone
  <2>6. CASE UserAsksForMeeting \/ ServerGrants \/ OnGranted \/ OnJoined \/ OnLost \/ OnRemoteFrames
             \/ OnRemoteUserLeft
    <3>1. ui' = ui
      BY <2>6 DEF UserAsksForMeeting, ServerGrants, OnGranted, OnJoined, OnLost, OnRemoteFrames,
         OnRemoteUserLeft
    <3>2. QED
      BY <2>1, <3>1
  <2>7. CASE UserClosesWindow
    BY <2>7 DEF UserClosesWindow, UserActs
  <2>8. CASE OnJoinFailed
    <3>1. Handles("failed") /\ boxes' = boxes
      BY <2>8 DEF OnJoinFailed
    <3>2. inbox[1].kind = "failed" /\ 1 \in 1 .. Len(inbox) /\ Head(inbox) = inbox[1]
      BY <2>2, <3>1, Taken
    <3>3. QED
      BY <2>1, <2>2, <3>1, <3>2 DEF OneEngineAtATime
  <2>9. CASE BoxDismissed
    <3>1. inbox' = inbox /\ boxes # <<>>
      BY <2>9 DEF BoxDismissed
    <3>2. Last(boxes) = boxes[1] /\ boxes[1] = engine
      BY <2>2, <3>1 DEF JoinedIsReal, Last
    <3>3. QED
      BY <3>1, <3>2
  <2>10. QED
    BY <2>1, <2>3, <2>4, <2>5, <2>6, <2>7, <2>8, <2>9 DEF Next, EngineActs, RoomActs
<1>2. QED
  BY <1>1, MediaInvariant, PTL DEF Spec, EndedByOwnMedia

=============================================================================
