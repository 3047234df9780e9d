---------------------------- MODULE MediaSession ----------------------------
(***************************************************************************)
(* The media session of a meeting on the client: the window and            *)
(* MeetingMediaController on the UI thread, MeetingRtcObserver between it  *)
(* and the threads of the WebRTC engine.  What the engine reports is       *)
(* queued for the UI thread and may be handled when the meeting it is      *)
(* about has ended and another one has begun.                              *)
(*                                                                         *)
(* A meeting is granted by the server through the same queue; that the     *)
(* answer to a request may come after the window was closed is the matter  *)
(* of ClientSession and left out here.                                     *)
(***************************************************************************)
EXTENDS Integers, Sequences, SequencesExt

CONSTANTS
  Users,         \* the other members
  NoUser,        \* what _feedToUser gives for a feed it does not know
  MaxMeetings,   \* bound on the meetings
  MaxInbox       \* bound on the queue of the UI thread

ASSUME BoundsAreNaturals == MaxMeetings \in Nat /\ MaxInbox \in Nat
ASSUME NoUserIsNoUser == NoUser \notin Users

None == 0

VARIABLES
  \* MeetingWidget
  asking,      \* a meeting has been asked for
  inMeeting,   \* _createmeet or _joinmeet
  meetings,    \* meetings so far
  ui,          \* "ending" while stop() is destroying the engine
  boxes,       \* open message boxes, by the engine whose loss they report
  rtcJoined,   \* _rtcJoined
  local,       \* _localVideoOn, _localAudioOn, _localScreenOn
  allowed,     \* can_share_screen()
  tiles,       \* _partners
  pictures,    \* CameraVideo::_lastFrames
  inbox,       \* the queue of the UI thread
  \* MeetingMediaController
  joined,      \* _joined
  on,          \* _videoOn, _audioOn, _screenOn
  \* MeetingRtcObserver
  feedToUser,  \* users with a feed in _feedToUser
  pending,     \* users with a frame in _pendingRemote
  scheduled,   \* _remoteScheduled
  \* the engine
  engine,      \* the meeting it was created for, or None
  result,      \* what has become of its join
  lost,        \* it has reported the loss of its connection
  captured,    \* the local tracks it captures
  frames,      \* where its thread is in on_remote_video_frame
  \* history
  stale        \* a join result was handled after its engine was destroyed

requestVars  == <<asking, inMeeting, meetings>>
windowVars   == <<rtcJoined, local, allowed>>
pictureVars  == <<tiles, pictures>>
observerVars == <<feedToUser, pending, scheduled>>
engineVars   == <<engine, result, lost>>
vars == <<requestVars, ui, boxes, windowVars, pictureVars, inbox, joined, on, observerVars,
          engineVars, captured, frames, stale>>

Tracks == {"video", "audio", "screen"}

Event(kind) == [kind |-> kind, from |-> engine, user |-> NoUser]
UserLeft(u) == [kind |-> "userLeft", from |-> engine, user |-> u]
Events == [kind : {"granted", "joined", "failed", "lost", "remote", "userLeft"},
           from : 0..MaxMeetings, user : Users \cup {NoUser}]

Post(e) == Len(inbox) < MaxInbox /\ inbox' = Append(inbox, e)

Init ==
  /\ asking = FALSE /\ inMeeting = FALSE /\ meetings = 0
  /\ ui = "free" /\ boxes = <<>>
  /\ rtcJoined = FALSE /\ local = {} /\ allowed = TRUE
  /\ tiles = {} /\ pictures = {} /\ inbox = <<>>
  /\ joined = FALSE /\ on = {}
  /\ feedToUser = {} /\ pending = {} /\ scheduled = FALSE
  /\ engine = None /\ result = "none" /\ lost = FALSE
  /\ captured = {} /\ frames = "idle"
  /\ stale = FALSE

-----------------------------------------------------------------------------
(* The threads of the engine, as long as it is not destroyed *)

EngineRuns ==
  /\ engine # None
  /\ UNCHANGED <<requestVars, ui, boxes, windowVars, pictureVars, joined, on, engine, captured,
                 stale>>

(* on_join_result *)
EngineJoins ==
  /\ EngineRuns /\ result = "joining"
  /\ \/ result' = "joined" /\ Post(Event("joined"))
     \/ result' = "failed" /\ Post(Event("failed"))
  /\ UNCHANGED <<observerVars, lost, frames>>

(* on_connection_state with kFailed or kClosed, or on_leave with an error *)
EngineLosesConnection ==
  /\ EngineRuns /\ ~lost
  /\ lost' = TRUE /\ Post(Event("lost"))
  /\ UNCHANGED <<observerVars, result, frames>>

(* on_remote_user_joined *)
RemoteUserJoined(u) ==
  /\ EngineRuns /\ result = "joined" /\ u \notin feedToUser
  /\ feedToUser' = feedToUser \cup {u}
  /\ UNCHANGED <<inbox, pending, scheduled, result, lost, frames>>

(* Faulty: the frame that waits for the UI thread is kept. *)
RemoteUserLeftKeepsFrame(u) ==
  /\ EngineRuns /\ u \in feedToUser
  /\ feedToUser' = feedToUser \ {u}
  /\ Post(UserLeft(u))
  /\ UNCHANGED <<pending, scheduled, result, lost, frames>>

(* on_remote_user_left *)
RemoteUserLeft(u) ==
  /\ EngineRuns /\ u \in feedToUser
  /\ feedToUser' = feedToUser \ {u}
  /\ pending' = pending \ {u}
  /\ Post(UserLeft(u))
  /\ UNCHANGED <<scheduled, result, lost, frames>>

(* on_remote_video_frame: the frame replaces the user's last one ... *)
FrameArrives(u) ==
  /\ EngineRuns /\ result = "joined" /\ frames = "idle"
  /\ u \in feedToUser
  /\ pending' = pending \cup {u}
  /\ frames' = "stored"
  /\ UNCHANGED <<inbox, feedToUser, scheduled, result, lost>>

(* ... and schedule_remote_emit posts a call unless one is under way. *)
ScheduleEmit ==
  /\ EngineRuns /\ frames = "stored"
  /\ scheduled' = TRUE
  /\ frames' = IF scheduled THEN "idle" ELSE "posting"
  /\ UNCHANGED <<inbox, feedToUser, pending, result, lost>>

PostEmit ==
  /\ EngineRuns /\ frames = "posting"
  /\ Post(Event("remote"))
  /\ frames' = "idle"
  /\ UNCHANGED <<observerVars, result, lost>>

-----------------------------------------------------------------------------
(* Starting and ending a meeting *)

ResetObserver == feedToUser' = {} /\ pending' = {} /\ scheduled' = FALSE

AllOff == local' = {} /\ on' = {} /\ rtcJoined' = FALSE /\ joined' = FALSE

(* end_meeting_session, up to the destruction of the engine in stop() *)
BeginEnd ==
  /\ AllOff /\ ResetObserver
  /\ ui' = "ending"
  /\ UNCHANGED <<requestVars, allowed, pictureVars, engineVars, captured, frames>>

(* stop: the engine is destroyed, which its threads outlive with what they   *)
(* have posted; leaving may be reported as a closed connection.              *)
DestroyEngine ==
  /\ engine' = None /\ result' = "none" /\ lost' = FALSE /\ captured' = {}
  /\ \/ engine # None /\ ~lost /\ Post(Event("lost"))
     \/ UNCHANGED inbox

(* The rest of end_meeting_session: the pictures and the tiles are cleared   *)
(* and the switches are back at their defaults.                              *)
EngineDestroyed ==
  /\ ui = "ending" /\ frames = "idle"
  /\ ui' = "free"
  /\ DestroyEngine
  /\ pictures' = {} /\ tiles' = {}
  /\ asking' = FALSE /\ inMeeting' = FALSE /\ allowed' = TRUE
  /\ UNCHANGED <<meetings, boxes, rtcJoined, local, joined, on, observerVars, frames, stale>>

UserActs == ui = "free" /\ boxes = <<>> /\ UNCHANGED <<boxes, stale, meetings>>

UserAsksForMeeting ==
  /\ UserActs /\ ~inMeeting /\ ~asking /\ meetings < MaxMeetings
  /\ asking' = TRUE
  /\ UNCHANGED <<inMeeting, ui, windowVars, pictureVars, inbox, joined, on, observerVars,
                 engineVars, captured, frames>>

IsAnswered == \E i \in DOMAIN inbox : inbox[i].kind = "granted"

(* The answer is not on its way already. *)
UserClosesWindow ==
  /\ UserActs /\ (inMeeting \/ (asking /\ ~IsAnswered))
  /\ BeginEnd
  /\ UNCHANGED inbox

ServerGrants ==
  /\ asking /\ ~IsAnswered
  /\ Post([kind |-> "granted", from |-> None, user |-> NoUser])
  /\ UNCHANGED <<requestVars, ui, boxes, windowVars, pictureVars, joined, on, observerVars,
                 engineVars, captured, frames, stale>>

-----------------------------------------------------------------------------
(* What the UI thread does with its queue, also while a box is open *)

Handles(kind) ==
  /\ ui = "free" /\ inbox # <<>> /\ Head(inbox).kind = kind
  /\ inbox' = Tail(inbox)

(* start: when the engine refuses to join it stops again, and the meeting    *)
(* goes on without media.                                                    *)
StartEngine ==
  /\ AllOff /\ ResetObserver
  /\ \/ engine' = meetings' /\ result' = "joining"
     \/ engine' = None /\ result' = "none"

(* on_create_meeting_result, on_join_meeting_result: start_meeting_media     *)
OnGranted ==
  /\ Handles("granted")
  /\ asking' = FALSE /\ inMeeting' = TRUE /\ meetings' = meetings + 1
  /\ StartEngine
  /\ UNCHANGED <<ui, boxes, allowed, pictureVars, lost, captured, frames, stale>>

(* on_rtc_joined *)
OnJoined ==
  /\ Handles("joined")
  /\ rtcJoined' = TRUE /\ joined' = TRUE
  /\ stale' = (stale \/ Head(inbox).from # engine)
  /\ UNCHANGED <<requestVars, ui, boxes, local, allowed, pictureVars, on, observerVars,
                 engineVars, captured, frames>>

(* on_rtc_join_failed: the window is closed *)
OnJoinFailed ==
  /\ Handles("failed")
  /\ BeginEnd
  /\ UNCHANGED <<boxes, stale>>

(* Faulty: a loss is handled in any state. *)
OnLostAlways ==
  /\ Handles("lost")
  /\ rtcJoined' = FALSE /\ local' = {}
  /\ boxes' = Append(boxes, Head(inbox).from)
  /\ UNCHANGED <<requestVars, ui, allowed, pictureVars, joined, on, observerVars, engineVars,
                 captured, frames, stale>>

(* handle_rtc_session_lost: a box, and behind it the end of the meeting *)
OnLost ==
  /\ Handles("lost")
  /\ IF rtcJoined
       THEN rtcJoined' = FALSE /\ local' = {} /\ boxes' = Append(boxes, Head(inbox).from)
       ELSE UNCHANGED <<rtcJoined, local, boxes>>
  /\ UNCHANGED <<requestVars, ui, allowed, pictureVars, joined, on, observerVars, engineVars,
                 captured, frames, stale>>

(* The last box that was opened is the first that can be dismissed. *)
BoxDismissed ==
  /\ ui = "free" /\ boxes # <<>>
  /\ boxes' = Front(boxes)
  /\ BeginEnd
  /\ UNCHANGED <<inbox, stale>>

(* emit_remote and on_remote_frame *)
OnRemoteFrames ==
  /\ Handles("remote")
  /\ pictures' = pictures \cup pending
  /\ pending' = {} /\ scheduled' = FALSE
  /\ UNCHANGED <<requestVars, ui, boxes, windowVars, tiles, joined, on, feedToUser, engineVars,
                 captured, frames, stale>>

(* on_rtc_remote_user_left: close_video, for a user that has a tile *)
OnRemoteUserLeft ==
  /\ Handles("userLeft")
  /\ pictures' = pictures \ ({Head(inbox).user} \cap tiles)
  /\ UNCHANGED <<requestVars, ui, boxes, windowVars, tiles, joined, on, observerVars, engineVars,
                 captured, frames, stale>>

(* ParticipantsController::add and remove, when the room says so *)
MeetingGoesOn ==
  /\ ui = "free" /\ inMeeting
  /\ UNCHANGED <<requestVars, ui, boxes, rtcJoined, inbox, joined, observerVars, engineVars,
                 frames, stale>>

TileAdded(u) ==
  /\ MeetingGoesOn /\ u \notin tiles
  /\ tiles' = tiles \cup {u} /\ pictures' = pictures \ {u}
  /\ UNCHANGED <<local, allowed, on, captured>>

TileRemoved(u) ==
  /\ MeetingGoesOn /\ u \in tiles
  /\ tiles' = tiles \ {u} /\ pictures' = pictures \ {u}
  /\ UNCHANGED <<local, allowed, on, captured>>

-----------------------------------------------------------------------------
(* Local tracks: the camera and the screen share one in the engine.  A start *)
(* the engine refuses changes nothing.                                       *)

Excluded(t) == CASE t = "video" -> {"screen"} [] t = "screen" -> {"video"} [] OTHER -> {}

(* Faulty: the other capture is taken to go on. *)
StartTrackBeside(t) ==
  \/ /\ captured' = (captured \ Excluded(t)) \cup {t}
     /\ on' = on \cup {t}
     /\ local' = on'
  \/ local' = on /\ UNCHANGED <<captured, on>>

StartTrack(t) ==
  \/ /\ captured' = (captured \ Excluded(t)) \cup {t}
     /\ on' = (on \ Excluded(t)) \cup {t}
     /\ local' = on'
  \/ local' = on /\ UNCHANGED <<captured, on>>

StopTrack(t) == captured' = captured \ {t} /\ on' = on \ {t} /\ local' = on'

(* set_video_on, set_audio_on, set_screen_on with `want` *)
SetTrack(t, want) ==
  IF engine = None \/ ~joined \/ want = (t \in on)
    THEN UNCHANGED <<captured, on, local>>
    ELSE IF want THEN StartTrack(t) ELSE StopTrack(t)

(* sync_av_button_ui: which of the three buttons can be pressed *)
Enabled(t) == inMeeting /\ rtcJoined /\ (t = "screen" => allowed)

UserToggles(t) ==
  /\ boxes = <<>> /\ MeetingGoesOn
  /\ engine # None /\ Enabled(t)
  /\ SetTrack(t, t \notin local)
  /\ UNCHANGED <<allowed, pictureVars>>

(* flags_applied: a member that shares must stop when sharing is forbidden *)
SharingIsSwitched ==
  /\ MeetingGoesOn
  /\ allowed' = ~allowed
  /\ IF ~allowed' /\ "screen" \in local THEN SetTrack("screen", FALSE)
     ELSE UNCHANGED <<captured, on, local>>
  /\ UNCHANGED pictureVars

Next ==
  \/ EngineJoins
  \/ EngineLosesConnection
  \/ \E u \in Users : RemoteUserJoined(u)
  \/ \E u \in Users : RemoteUserLeft(u)
  \/ \E u \in Users : FrameArrives(u)
  \/ ScheduleEmit
  \/ PostEmit
  \/ EngineDestroyed
  \/ UserAsksForMeeting
  \/ UserClosesWindow
  \/ ServerGrants
  \/ OnGranted
  \/ OnJoined
  \/ OnJoinFailed
  \/ OnLost
  \/ BoxDismissed
  \/ OnRemoteFrames
  \/ OnRemoteUserLeft
  \/ \E u \in Users : TileAdded(u) \/ TileRemoved(u)
  \/ \E t \in Tracks : UserToggles(t)
  \/ SharingIsSwitched

Spec == Init /\ [][Next]_vars

-----------------------------------------------------------------------------
(* The buttons, the controller and the engine agree on what is captured,     *)
(* whatever starts fail and whatever is revoked: never camera and screen at  *)
(* once, nothing outside a meeting, no screen without permission.  Only      *)
(* behind the box that reports a loss do the buttons go off before the       *)
(* capture ends.                                                             *)
ButtonsTellTheTruth ==
  ui = "free" /\ boxes = <<>> =>
    /\ local = on /\ on = captured
    /\ ~({"video", "screen"} \subseteq captured)
    /\ captured # {} => inMeeting /\ rtcJoined
    /\ "screen" \in captured => allowed

(* A frame that has been received reaches the window: the flag that holds    *)
(* calls back, two locks and a reset in between never leave one behind.  And *)
(* who has left the media session is not shown with a last picture, although *)
(* frames and the report of the exit take different ways.                    *)
PicturesAreLive ==
  /\ scheduled => frames = "posting" \/ \E i \in DOMAIN inbox : inbox[i].kind = "remote"
  /\ pending # {} => scheduled \/ frames = "stored"
  /\ \A u \in pictures \cap tiles :
       \/ u \in feedToUser
       \/ \E i \in DOMAIN inbox : inbox[i].kind = "userLeft" /\ inbox[i].user = u
       \/ ui = "ending"

(* A meeting is ended by its own engine's reports only, not by what an       *)
(* earlier one has left in the queue or in a box, unless that was a join     *)
(* result.                                                                   *)
EndedByOwnMedia ==
  [][inMeeting /\ ui = "free" /\ ui' = "ending" /\ ~stale
       => /\ inbox' # inbox => Head(inbox).from = engine
          /\ boxes' # boxes => Last(boxes) = engine]_vars
=============================================================================
