--------------------------- MODULE MeetingScreen ---------------------------
(***************************************************************************)
(* The pictures of the meeting window: a tile for every member and the     *)
(* main picture of the member that was selected, each a video frame, an    *)
(* avatar or nothing.  ParticipantsController keeps the members,           *)
(* CameraVideo what their widgets show, AvatarImageLoader fetches avatars  *)
(* over HTTP.  Notices of the message server, frames of the media session  *)
(* and replies of the avatar server reach the UI thread on three ways that *)
(* know nothing of each other.                                             *)
(***************************************************************************)
EXTENDS Integers, Sequences

CONSTANTS
  Me,            \* the local user
  Users,         \* the others
  Nobody,        \* the user id 0
  MaxMeetings,   \* bound on the meetings of the window
  MaxVersion,    \* bound on the avatars a user has had
  MaxNotices,    \* bound on the notices under way
  MaxActs        \* bound on what the users do

ASSUME PeopleAreDistinct == Me \notin Users /\ Nobody \notin Users \cup {Me}

People == Users \cup {Me}

VARIABLES
  inMeeting,   \* _createmeet or _joinmeet
  meetings,    \* meetings so far
  pics,        \* what ParticipantsController and CameraVideo hold
  notices,     \* frames of the message server for the UI thread
  frames,      \* users with a frame of the media session under way
  leaving,     \* users whose leaving the media session is to be reported
  room,        \* the other members, as the server has them
  filming,     \* who has the camera on or shares the screen
  version,     \* the avatar each user has now
  acts,        \* how much the users have done
  late         \* users with a frame handled after its camera's notice

screenVars ==
  <<inMeeting, meetings, pics, notices, frames, leaving, room, filming, version, acts, late>>

(* What a widget shows; the avatar 0 is the default one.                    *)
Blank == <<"blank", 0>>
Video == <<"video", 0>>
Avatar(v) == <<"avatar", v>>

NoPics ==
  [shown  |-> {},                       \* _partners, _partnerDisplays
   url    |-> [u \in People |-> 0],     \* _avatarUrls, 0 when empty
   live   |-> {},                       \* _lastFrames
   gen    |-> [u \in People |-> 0],     \* _avatarLoadGen, 0 when absent
   loads  |-> {},                       \* replies the loader waits for; history: whether
                                        \* the user has been removed since
   main   |-> Nobody,                   \* CameraVideo::_mainUserId, main_user_id_
   chosen |-> Nobody,                   \* ParticipantsController::_mainUserId
   tile   |-> [u \in People |-> Blank],
   screen |-> <<Nobody, Blank>>,        \* whose picture the main widget shows
   failed |-> {},                       \* history: no avatar came for the last load
   mixed  |-> {}]                       \* history: shown the reply of an earlier stay

Notice(kind, u, v) == [kind |-> kind, user |-> u, url |-> v, users |-> {}]
Snapshot(us) == [kind |-> "snapshot", user |-> Nobody, url |-> 0, users |-> us]

ScreenInit ==
  /\ inMeeting = FALSE /\ meetings = 0
  /\ pics = NoPics
  /\ notices = <<>> /\ frames = {} /\ leaving = {}
  /\ room = {} /\ filming = {}
  /\ version = [u \in People |-> 1]
  /\ acts = 0 /\ late = {}

-----------------------------------------------------------------------------
(* CameraVideo *)

(* What is done for one user is stated for a set of them, us, each of whom   *)
(* the code takes in turn: what it does for one concerns no other.           *)

At(f, us, x) == [u \in People |-> IF u \in us THEN x ELSE f[u]]

(* A picture of a user goes to its tile and, if it is selected, to the main *)
(* widget; a widget shows what it was given last.                           *)
Put(p, us, picture) ==
  [p EXCEPT !.tile   = At(At(@, us, Blank), us \cap p.shown, picture),
            !.screen = IF p.main \in us THEN <<p.main, picture>> ELSE @]

Asked(p, u, n) == [user |-> u, gen |-> n, url |-> p.url[u], old |-> FALSE]

(* Faulty: the loads of a user all have the same number.                     *)
LoadUncounted(p, us) ==
  [p EXCEPT !.gen = At(@, us, 1),
            !.loads = @ \cup {Asked(p, u, 1) : u \in us},
            !.failed = @ \ us]

(* loadAndShowAvatar asks for the avatar of the user's present URL.  A reply *)
(* that an earlier load of this stay still waits for will change nothing in  *)
(* it and is left out; that of the last load of an earlier stay is kept, as  *)
(* the count starts anew.                                                    *)
Load(p, us) ==
  LET earlier == {l \in p.loads : l.user \in us /\ ~l.old}
  IN  [p EXCEPT !.gen = [u \in People |-> IF u \in us THEN @[u] + 1 ELSE @[u]],
                !.loads = (@ \ earlier) \cup {Asked(p, u, p.gen[u] + 1) : u \in us},
                !.failed = @ \ us]

ClearVideo(p, us) == Put([p EXCEPT !.live = @ \ us], us, Blank)

ShowAvatar(p, us) == Load(ClearVideo(p, us), us)

ShowMainAvatar(p) ==
  CASE p.main = Nobody   -> p
    [] p.main \in p.live -> [p EXCEPT !.screen = <<p.main, Video>>]
    [] OTHER             -> Load(p, {p.main})

ShowVideo(p, u) == Put([p EXCEPT !.live = @ \cup {u}], {u}, Video)

EndVideo(p) ==
  [p EXCEPT !.live = {}, !.tile = [u \in People |-> Blank], !.screen = <<Nobody, Blank>>]

(* The loader's callback: the picture counts only if no later load has been  *)
(* asked for and no video has come meanwhile.                                *)
Reply(p, l, picture) ==
  LET q == [p EXCEPT !.loads = @ \ {l}]
      u == l.user
  IN  IF l.gen # p.gen[u] \/ u \in p.live THEN q
      ELSE IF picture = Blank THEN [q EXCEPT !.failed = @ \cup {u}]
      ELSE [Put(q, {u}, picture) EXCEPT
              !.failed = @ \ {u},
              !.mixed = IF l.old THEN @ \cup {u} ELSE @ \ {u}]

-----------------------------------------------------------------------------
(* ParticipantsController *)

Add(p, us) == ShowAvatar([p EXCEPT !.shown = @ \cup us], us \ p.shown)

(* What removePartnerDisplay and clearAllPartnerDisplays forget of users.    *)
Forget(p, us) ==
  [p EXCEPT !.shown = @ \ us, !.live = @ \ us,
            !.url = At(@, us, 0), !.gen = At(@, us, 0), !.tile = At(@, us, Blank),
            !.loads = {[l EXCEPT !.old = @ \/ l.user \in us] : l \in @},
            !.mixed = @ \ us]

RemovePartner(p, u) == IF u \in p.shown THEN Forget(p, {u}) ELSE p

Clear(p) == IF p.shown = {} THEN p ELSE [Forget(p, People) EXCEPT !.chosen = Nobody]

ApplyProfile(p, u, v) ==
  LET q == [Add(p, {u}) EXCEPT !.url[u] = v]
  IN  IF u \in q.live THEN q
      ELSE IF u = q.chosen THEN ShowMainAvatar(ShowAvatar(q, {u}))
      ELSE ShowAvatar(q, {u})

SelectMain(p, u) == ShowMainAvatar([p EXCEPT !.main = u, !.chosen = u])

(* Faulty: the tile is cleared and nothing takes the place of the video.     *)
CloseVideoOnly(p, u) == IF u \in p.shown THEN ClearVideo(p, {u}) ELSE p

CloseVideo(p, u) == IF u \in p.shown THEN ShowAvatar(p, {u}) ELSE p

-----------------------------------------------------------------------------
(* The other members and the local user *)

Act == acts < MaxActs /\ acts' = acts + 1

Announce(n) == Len(notices) < MaxNotices /\ notices' = Append(notices, n)

UserJoins(u) ==
  /\ inMeeting /\ u \notin room /\ Act
  /\ room' = room \cup {u}
  /\ Announce(Notice("joined", u, 0))
  /\ UNCHANGED <<inMeeting, meetings, pics, frames, leaving, filming, version, late>>

UserLeaves(u) ==
  /\ u \in room /\ Act
  /\ room' = room \ {u} /\ filming' = filming \ {u} /\ leaving' = leaving \cup {u}
  /\ Announce(Notice("exited", u, 0))
  /\ UNCHANGED <<inMeeting, meetings, pics, frames, version, late>>

(* After joining, after an edit and whenever someone else has joined.        *)
UserSendsProfile(u) ==
  /\ u \in room /\ Act
  /\ \E v \in {version[u], version[u] + 1} \cap 1..MaxVersion :
       /\ version' = [version EXCEPT ![u] = v]
       /\ Announce(Notice("profile", u, v))
  /\ UNCHANGED <<inMeeting, meetings, pics, frames, leaving, room, filming, late>>

UserStartsFilming(u) ==
  /\ u \in room \ filming
  /\ filming' = filming \cup {u} /\ late' = late \ {u}
  /\ UNCHANGED <<inMeeting, meetings, pics, notices, frames, leaving, room, version, acts>>

UserStopsFilming(u) ==
  /\ u \in room \cap filming /\ Act
  /\ filming' = filming \ {u}
  /\ Announce(Notice("closed", u, 0))
  /\ UNCHANGED <<inMeeting, meetings, pics, frames, leaving, room, version, late>>

MemberFrameArrives(u) ==
  /\ inMeeting /\ u \in filming
  /\ frames' = frames \cup {u}
  /\ UNCHANGED <<inMeeting, meetings, pics, notices, leaving, room, filming, version, acts, late>>

IStartFilming ==
  /\ inMeeting /\ Me \notin filming
  /\ filming' = filming \cup {Me}
  /\ UNCHANGED <<inMeeting, meetings, pics, notices, frames, leaving, room, version, acts, late>>

(* local_camera_stopped; a frame may have left the camera already.           *)
IStopFilming ==
  /\ inMeeting /\ Me \in filming /\ Act
  /\ filming' = filming \ {Me}
  /\ pics' = CloseVideo(pics, Me)
  /\ UNCHANGED <<inMeeting, meetings, notices, frames, leaving, room, version, late>>

(* A click on a tile *)
OnMemberClicked(u) ==
  /\ inMeeting /\ u \in pics.shown /\ Act
  /\ pics' = SelectMain(pics, u)
  /\ UNCHANGED <<inMeeting, meetings, notices, frames, leaving, room, filming, version, late>>

-----------------------------------------------------------------------------
(* A meeting begins and ends *)

(* on_create_meeting_result, on_join_meeting_result: alone or among others,  *)
(* who are sent as a snapshot.                                               *)
OnMeetingResult ==
  /\ ~inMeeting /\ meetings < MaxMeetings
  /\ inMeeting' = TRUE /\ meetings' = meetings + 1
  /\ room' \in SUBSET Users /\ filming' = {}
  /\ IF room' = {} THEN UNCHANGED notices ELSE Announce(Snapshot(room'))
  /\ pics' = ShowMainAvatar(ApplyProfile([pics EXCEPT !.main = Me], Me, version[Me]))
  /\ UNCHANGED <<frames, leaving, version, acts, late>>

(* end_meeting_session.  MeetingRtcObserver::reset drops the frames; notices *)
(* that have been read from the socket still come.                           *)
EndMeeting ==
  /\ inMeeting
  /\ inMeeting' = FALSE
  /\ pics' = Clear(EndVideo(pics))
  /\ frames' = {} /\ room' = {} /\ filming' = {} /\ late' = {}
  /\ UNCHANGED <<meetings, notices, leaving, version, acts>>

-----------------------------------------------------------------------------
(* What the UI thread handles, in a meeting or not *)

Handles(kind) ==
  /\ notices # <<>> /\ Head(notices).kind = kind
  /\ notices' = Tail(notices)
  /\ UNCHANGED <<inMeeting, meetings, frames, leaving, room, filming, version, acts>>

Subject == Head(notices).user

LateEnds == late' = late \cap pics'.live

OnPartnerJoined ==
  /\ Handles("joined")
  /\ pics' = ShowAvatar(Add(pics, {Subject}), {Subject})
  /\ LateEnds

OnPartnersSnapshot ==
  /\ Handles("snapshot")
  /\ LET us == Head(notices).users
     IN  pics' = ShowAvatar(Add(pics, us), us)
  /\ LateEnds

OnPartnerExited ==
  /\ Handles("exited")
  /\ pics' = IF pics.main = Subject THEN ShowMainAvatar(RemovePartner(pics, Subject))
             ELSE RemovePartner(pics, Subject)
  /\ LateEnds

OnCameraClosed ==
  /\ Handles("closed")
  /\ pics' = CloseVideo(pics, Subject)
  /\ LateEnds

OnUserProfile ==
  /\ Handles("profile")
  /\ pics' = ApplyProfile(pics, Subject, Head(notices).url)
  /\ LateEnds

(* A notice, or for a member with a tile the report, that will take the      *)
(* user's frame away is still to come.                                       *)
Announced(u) ==
  \/ u \in leaving \cap pics.shown
  \/ \E i \in DOMAIN notices :
       \/ notices[i].user = u /\ notices[i].kind \in {"joined", "exited", "closed"}
       \/ u \in notices[i].users

(* on_remote_frame shows what comes ...                                      *)
OnRemoteFrame(u) ==
  /\ u \in frames \cap Users
  /\ frames' = frames \ {u}
  /\ pics' = ShowVideo(pics, u)
  /\ late' = IF u \in filming \/ Announced(u) THEN late ELSE late \cup {u}
  /\ UNCHANGED <<inMeeting, meetings, notices, leaving, room, filming, version, acts>>

(* Faulty: what comes is shown.                                              *)
OnPreviewFrameAlways ==
  /\ Me \in frames
  /\ frames' = frames \ {Me}
  /\ pics' = ShowVideo(pics, Me)
  /\ UNCHANGED <<inMeeting, meetings, notices, leaving, room, filming, version, acts, late>>

(* ... and on_preview_frame what comes while the switch is on.               *)
OnPreviewFrame ==
  /\ Me \in frames
  /\ frames' = frames \ {Me}
  /\ pics' = IF Me \in filming THEN ShowVideo(pics, Me) ELSE pics
  /\ UNCHANGED <<inMeeting, meetings, notices, leaving, room, filming, version, acts, late>>

(* on_remote_user_left drops the frame, on_rtc_remote_user_left the picture. *)
OnRtcRemoteUserLeft(u) ==
  /\ u \in leaving
  /\ leaving' = leaving \ {u} /\ frames' = frames \ {u}
  /\ pics' = CloseVideo(pics, u)
  /\ LateEnds
  /\ UNCHANGED <<inMeeting, meetings, notices, room, filming, version, acts>>

(* The avatar that was asked for, the default one instead, or neither.       *)
LoadEnds(l) ==
  /\ l \in pics.loads
  /\ \E picture \in {Avatar(l.url), Avatar(0), Blank} : pics' = Reply(pics, l, picture)
  /\ UNCHANGED <<inMeeting, meetings, notices, frames, leaving, room, filming, version, acts,
                 late>>

ScreenNext ==
  \/ \E u \in Users : \/ UserJoins(u) \/ UserLeaves(u) \/ UserSendsProfile(u)
                      \/ UserStartsFilming(u) \/ UserStopsFilming(u)
  \/ \E u \in People : MemberFrameArrives(u) \/ OnMemberClicked(u)
  \/ IStartFilming
  \/ IStopFilming
  \/ OnMeetingResult
  \/ EndMeeting
  \/ OnPartnerJoined
  \/ OnPartnersSnapshot
  \/ OnPartnerExited
  \/ OnCameraClosed
  \/ OnUserProfile
  \/ \E u \in Users : OnRemoteFrame(u) \/ OnRtcRemoteUserLeft(u)
  \/ OnPreviewFrame
  \/ \E l \in pics.loads : LoadEnds(l)

(* Every request for an avatar is answered, if only with an error.           *)
ScreenSpec ==
  /\ ScreenInit /\ [][ScreenNext]_screenVars
  /\ WF_screenVars(\E l \in pics.loads : LoadEnds(l))

-----------------------------------------------------------------------------
Awaited(u) ==
  \E l \in pics.loads : l.user = u /\ l.gen = pics.gen[u] /\ ~l.old

(* The main widget shows the member that was selected last, and that member  *)
(* and every other on its tile with the frame that came last or the avatar   *)
(* of the last profile, in whatever order replies, frames and profiles came. *)
(* It may be otherwise only while a reply is awaited, when the avatar server *)
(* had no picture, or when a reply of an earlier stay is taken for one of    *)
(* this stay because the count of loads starts anew.                         *)
ScreenIsCurrent ==
  LET p == pics
      Settled(u) == ~Awaited(u) /\ u \notin p.failed \cup p.mixed
  IN  inMeeting =>
        /\ Settled(p.main) => p.screen[1] = p.main
        /\ \A u \in p.shown :
             /\ u \in p.live => p.tile[u] = Video
             /\ u \notin p.live /\ Settled(u) => p.tile[u] \in {Avatar(p.url[u]), Avatar(0)}
             /\ u = p.main /\ (u \in p.live \/ Settled(u)) => p.screen = <<u, p.tile[u]>>

(* Who has stopped filming or has left is not shown with a last frame, once  *)
(* the notices and reports of it are handled.  For the local user a frame    *)
(* that was under way does no harm; for the others it does, if it comes      *)
(* after the notice.                                                         *)
NoFrozenPicture ==
  \A u \in pics.live : u \in filming \/ u \in late \/ Announced(u)

(* No tile stays empty unless the avatar server fails.                       *)
TilesAreFilled ==
  \A u \in People :
    u \in pics.shown ~> \/ u \notin pics.shown
                        \/ pics.tile[u] # Blank
                        \/ u \in pics.failed
=============================================================================
