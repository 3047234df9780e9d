------------------------ MODULE ClientPagesProofs ------------------------
(***************************************************************************)
(* Proofs about the two pages of the client that show pictures.            *)
(*                                                                         *)
(* SettingsPage, for any number of cameras, formats, clicks, refreshes and *)
(* boxes: a preview is wanted in one place at most: by the timer, by a job *)
(* or an event of the present generation, or by the camera that runs.      *)
(* Whatever changes the lists or hides the page takes it back from all     *)
(* four at once.                                                           *)
(*                                                                         *)
(* MeetingScreen, for any users, avatars and numbers of meetings, notices  *)
(* and acts: PicturesInv says of every user separately what its tile shows *)
(* and which avatar its last load asked for; NewsInv says in which order   *)
(* the notices of a user can wait, and with it that a frame is never       *)
(* waiting, or shown, without a notice that will take it away.  Each of    *)
(* the two is inductive with the types.                                    *)
(***************************************************************************)
EXTENDS SettingsPage, MeetingScreen, FiniteSetTheorems, TLAPS

(***************************************************************************)
(* The settings page                                                       *)
(***************************************************************************)
USE FormatsAreNaturals

Devices == Cameras \cup {NoCamera}

(* The formats of the lists, and those a job has chosen from a camera's.     *)
Formats == Nat \cup {Best(d, f) : d \in Cameras, f \in Nat}

Jobs   == [fresh : BOOLEAN, device : Cameras, format : Nat]
Events == [kind : {"apply", "cleanup"}, fresh : BOOLEAN, device : Devices, format : Formats]
InUse  == [device : Devices, format : Formats]

FormOK ==
  /\ plugged \in SUBSET Cameras /\ visible \in BOOLEAN /\ row \in Rows /\ enabled \in BOOLEAN
  /\ listed \in BOOLEAN /\ combo \in SUBSET Cameras /\ device \in Devices
  /\ offered \in SUBSET Nat /\ format \in Nat /\ saved \in [device : Devices, format : Nat]

PreviewOK ==
  /\ timer \in BOOLEAN /\ jobs \in SUBSET Jobs /\ posted \in Seq(Events)
  /\ camera \in SUBSET InUse /\ opening \in BOOLEAN

CountsOK ==
  refreshes \in Nat /\ micTesting \in BOOLEAN /\ boxes \in Nat /\ clicks \in Nat /\ plugs \in Nat

TypeOK == FormOK /\ PreviewOK /\ CountsOK

-----------------------------------------------------------------------------
(* The invariant *)

Wants == visible /\ row = "video" /\ enabled

NoFreshJob   == \A j \in jobs : ~j.fresh
NoFreshEvent == \A i \in 1 .. Len(posted) : ~posted[i].fresh

(* The timer is all there is of the present generation.                      *)
TimerAlone == timer => Wants /\ camera = {} /\ NoFreshJob /\ NoFreshEvent

(* A job of the present generation is for what the lists say.                *)
FreshJobs ==
  \A j \in jobs : j.fresh => /\ Wants /\ camera = {} /\ NoFreshEvent
                             /\ j.device = device /\ j.format = format

(* So is an event, and no camera is stopped after it.                        *)
FreshEvents ==
  \A i \in 1 .. Len(posted) :
    posted[i].fresh =>
      /\ Wants /\ camera = {} /\ posted[i].kind = "apply"
      /\ posted[i].device # NoCamera =>
           posted[i].device = device /\ posted[i].format = Best(device, format)
      /\ \A k \in 1 .. Len(posted) : k > i => posted[k].kind = "apply" /\ ~posted[k].fresh

(* The camera that runs shows what the lists say, and all earlier ones are   *)
(* stopped.                                                                  *)
CameraRuns ==
  /\ camera # {} => Wants /\ \A i \in 1 .. Len(posted) : posted[i].kind = "apply"
  /\ \A c \in camera : c.device = device /\ c.format = Best(device, format)

PreviewInv ==
  /\ TypeOK
  /\ TimerAlone
  /\ FreshJobs
  /\ FreshEvents
  /\ CameraRuns
  /\ micTesting => visible /\ row = "audio"

-----------------------------------------------------------------------------
(* Events *)

LEMMA JobParts ==
  ASSUME NEW j \in Jobs
  PROVE  /\ j.fresh \in BOOLEAN /\ j.device \in Cameras /\ j.format \in Nat
         /\ Late(j) \in Jobs /\ ~Late(j).fresh
BY DEF Jobs, Late

LEMMA EventParts ==
  ASSUME NEW e \in Events
  PROVE  /\ e.kind \in {"apply", "cleanup"} /\ e.fresh \in BOOLEAN
         /\ e.device \in Devices /\ e.format \in Formats
         /\ Late(e) \in Events /\ ~Late(e).fresh /\ Late(e).kind = e.kind
BY DEF Events, Late

LEMMA CleanupParts ==
  ASSUME NEW c \in InUse
  PROVE  Cleanup(c) \in Events /\ Cleanup(c).kind = "cleanup" /\ ~Cleanup(c).fresh
BY DEF InUse, Events, Cleanup

LEMMA SeqOfNone == SetToSeq({}) = <<>>
<1>1. Cardinality({}) = 0
  BY FS_EmptySet
<1>2. <<>> \in [1 .. 0 -> {}] /\ IsInjective(<<>>)
  BY DEF IsInjective
<1>3. \A f \in [1 .. 0 -> {}] : f = <<>>
  OBVIOUS
<1>4. QED
  BY <1>1, <1>2, <1>3 DEF SetToSeq

LEMMA SeqOfOne ==
  ASSUME NEW e
  PROVE  SetToSeq({e}) = <<e>>
<1>1. Cardinality({e}) = 1
  BY FS_Singleton
<1>2. <<e>> \in [1 .. 1 -> {e}] /\ IsInjective(<<e>>)
  BY DEF IsInjective
<1>3. \A f \in [1 .. 1 -> {e}] : f = <<e>>
  OBVIOUS
<1>4. QED
  BY <1>1, <1>2, <1>3 DEF SetToSeq

Stops == SetToSeq({Cleanup(c) : c \in camera})

(* Two cameras never run: those of the set show the same device and format.  *)
LEMMA OneCameraRuns ==
  ASSUME PreviewInv
  PROVE  camera = {} \/ \E c \in InUse : camera = {c}
<1>1. \A c, d \in camera : c = d
  BY DEF PreviewInv, CameraRuns, TypeOK, PreviewOK, InUse
<1>2. camera \subseteq InUse
  BY DEF PreviewInv, TypeOK, PreviewOK
<1>3. CASE camera # {}
  <2>1. PICK c \in camera : TRUE
    BY <1>3
  <2>2. camera = {c}
    BY <1>1, <2>1
  <2>3. QED
    BY <1>2, <2>2
<1>4. QED
  BY <1>3

LEMMA StopsAre ==
  ASSUME PreviewInv
  PROVE  /\ Stops \in Seq(Events)
         /\ camera = {} => Stops = <<>>
         /\ \A i \in 1 .. Len(Stops) : Stops[i].kind = "cleanup" /\ ~Stops[i].fresh
<1>1. CASE camera = {}
  <2>1. {Cleanup(c) : c \in camera} = {}
    BY <1>1
  <2>2. Stops = <<>>
    BY <2>1, SeqOfNone DEF Stops
  <2>3. QED
    BY <2>2
<1>2. CASE \E c \in InUse : camera = {c}
  <2>1. PICK c \in InUse : camera = {c}
    BY <1>2
  <2>2. {Cleanup(d) : d \in camera} = {Cleanup(c)}
    BY <2>1
  <2>3. Stops = <<Cleanup(c)>>
    BY <2>2, SeqOfOne DEF Stops
  <2>4. Cleanup(c) \in Events /\ Cleanup(c).kind = "cleanup" /\ ~Cleanup(c).fresh
    BY CleanupParts
  <2>5. QED
    BY <2>1, <2>3, <2>4
<1>3. QED
  BY <1>1, <1>2, OneCameraRuns

(* releasePreviewHardware: the camera is gone, its stop is the last event.   *)
LEMMA ReleaseEffect ==
  ASSUME PreviewInv, NEW events \in Seq(Events), Release(events)
  PROVE  /\ camera' = {}
         /\ posted' \in Seq(Events)
         /\ (\A i \in 1 .. Len(events) : ~events[i].fresh) => NoFreshEvent'
<1>1. camera' = {} /\ posted' = events \o Stops
  BY DEF Release, Stops
<1>2. /\ Stops \in Seq(Events)
      /\ \A i \in 1 .. Len(Stops) : ~Stops[i].fresh
  BY StopsAre
<1>3. posted' \in Seq(Events)
  BY <1>1, <1>2
<1>4. ASSUME \A i \in 1 .. Len(events) : ~events[i].fresh, NEW i \in 1 .. Len(posted')
      PROVE  ~posted'[i].fresh
  <2>1. Len(posted') = Len(events) + Len(Stops) /\ Len(events) \in Nat /\ Len(Stops) \in Nat
    BY <1>1, <1>2
  <2>2. CASE i <= Len(events)
    <3>1. posted'[i] = events[i]
      BY <1>1, <1>2, <2>1, <2>2
    <3>2. QED
      BY <1>4, <2>1, <2>2, <3>1
  <2>3. CASE i > Len(events)
    <3>1. posted'[i] = Stops[i - Len(events)]
      BY <1>1, <1>2, <2>1, <2>3
    <3>2. i - Len(events) \in 1 .. Len(Stops)
      BY <2>1, <2>3
    <3>3. QED
      BY <1>2, <3>1, <3>2
  <2>4. QED
    BY <2>1, <2>2, <2>3
<1>5. QED
  BY <1>1, <1>3, <1>4 DEF NoFreshEvent

LEMMA LateEventsAre ==
  ASSUME PreviewInv
  PROVE  /\ LateEvents \in Seq(Events)
         /\ \A i \in 1 .. Len(LateEvents) : ~LateEvents[i].fresh
<1>1. posted \in Seq(Events)
  BY DEF PreviewInv, TypeOK, PreviewOK
<1>2. \A i \in 1 .. Len(posted) : Late(posted[i]) \in Events /\ ~Late(posted[i]).fresh
  BY <1>1, EventParts
<1>3. LateEvents = [i \in 1 .. Len(posted) |-> Late(posted[i])]
  BY <1>1 DEF LateEvents
<1>4. LateEvents \in Seq(Events) /\ Len(LateEvents) = Len(posted)
  BY <1>1, <1>2, <1>3
<1>5. QED
  BY <1>2, <1>3, <1>4

-----------------------------------------------------------------------------
(* What takes the preview back *)

(* No preview of the present generation is left anywhere but in the timer.   *)
Silent == PreviewOK /\ NoFreshJob /\ NoFreshEvent /\ camera = {}

LEMMA ScheduleSilences ==
  ASSUME PreviewInv, Schedule \/ Stop
  PROVE  Silent' /\ (Stop => ~timer')
<1>1. jobs' = {Late(j) : j \in jobs} /\ Release(LateEvents)
  BY DEF Schedule, Stop
<1>2. timer' \in BOOLEAN /\ opening' \in BOOLEAN
  BY DEF Schedule, Stop
<1>3. jobs' \in SUBSET Jobs /\ NoFreshJob'
  BY <1>1, JobParts DEF NoFreshJob, PreviewInv, TypeOK, PreviewOK
<1>4. camera' = {} /\ posted' \in Seq(Events) /\ NoFreshEvent'
  BY <1>1, LateEventsAre, ReleaseEffect
<1>5. Stop => ~timer'
  BY DEF Stop
<1>6. QED
  BY <1>2, <1>3, <1>4, <1>5 DEF Silent, PreviewOK

(* A page that does not want the preview has none under way. *)
LEMMA UnwantedIsSilent ==
  ASSUME PreviewInv, ~Wants
  PROVE  Silent /\ ~timer
BY DEF PreviewInv, TypeOK, TimerAlone, FreshJobs, FreshEvents, CameraRuns, Silent, NoFreshJob,
   NoFreshEvent

LEMMA SilentStays ==
  ASSUME Silent, UNCHANGED previewVars
  PROVE  Silent'
BY DEF Silent, PreviewOK, NoFreshJob, NoFreshEvent, previewVars

LEMMA SilentIsEnough ==
  ASSUME Silent', FormOK', CountsOK', timer' => Wants', micTesting' => visible' /\ row' = "audio"
  PROVE  PreviewInv'
BY DEF Silent, PreviewInv, TypeOK, TimerAlone, FreshJobs, FreshEvents, CameraRuns, NoFreshJob,
   NoFreshEvent

-----------------------------------------------------------------------------
(* The user and the lists *)

LEMMA FormatsInType ==
  ASSUME plugged \in SUBSET Cameras, NEW d
  PROVE  FormatsIn(d) \in SUBSET Nat
BY DEF FormatsIn

LEMMA RebuildType ==
  ASSUME plugged \in SUBSET Cameras, NEW d, NEW f \in Nat, RebuildFormats(d, f)
  PROVE  offered' \in SUBSET Nat /\ format' \in Nat
BY FormatsInType DEF RebuildFormats

LEMMA RefreshType ==
  ASSUME plugged \in SUBSET Cameras, NEW s \in [device : Devices, format : Nat],
         RefreshVideoDevices(s)
  PROVE  /\ listed' \in BOOLEAN /\ combo' \in SUBSET Cameras /\ device' \in Devices
         /\ offered' \in SUBSET Nat /\ format' \in Nat
<1>1. listed' \in BOOLEAN /\ combo' \in SUBSET Cameras /\ device' \in Devices
  BY DEF RefreshVideoDevices, Devices
<1>2. RebuildFormats(device', s.format) /\ s.format \in Nat
  BY DEF RefreshVideoDevices
<1>3. QED
  BY <1>1, <1>2, RebuildType

LEMMA ShowStep ==
  ASSUME PreviewInv, Show
  PROVE  PreviewInv'
<1>1. ~Wants /\ ~micTesting
  BY DEF PreviewInv, TypeOK, CountsOK, Wants, Show
<1>2. Silent' /\ ~timer'
  BY <1>1, UnwantedIsSilent, SilentStays DEF Show, previewVars
<1>3. FormOK'
  BY DEF PreviewInv, TypeOK, FormOK, Show, formVars
<1>4. CountsOK'
  BY DEF PreviewInv, TypeOK, CountsOK, Show
<1>5. QED
  BY <1>1, <1>2, <1>3, <1>4, SilentIsEnough DEF Show

LEMMA HideStep ==
  ASSUME PreviewInv, Hide
  PROVE  PreviewInv'
<1>1. Silent' /\ ~timer'
  BY ScheduleSilences DEF Hide
<1>2. FormOK'
  BY DEF PreviewInv, TypeOK, FormOK, Hide, formVars
<1>3. CountsOK'
  <2>1. micTesting' = FALSE /\ clicks' = clicks + 1 /\ UNCHANGED <<refreshes, boxes, plugs>>
    BY DEF Hide, Click
  <2>2. QED
    <3>1. clicks' \in Nat
      BY <2>1 DEF PreviewInv, TypeOK, CountsOK
    <3>2. micTesting' \in BOOLEAN
      BY <2>1
    <3>3. QED
      BY <2>1, <3>1, <3>2 DEF PreviewInv, TypeOK, CountsOK
<1>4. QED
  BY <1>1, <1>2, <1>3, SilentIsEnough DEF Hide

LEMMA CategoryStep ==
  ASSUME PreviewInv, NEW r \in Rows, CategoryChanged(r)
  PROVE  PreviewInv'
<1>1. /\ visible' = visible /\ visible /\ row' = r /\ enabled' = enabled
      /\ micTesting' = (micTesting /\ r = "audio")
  BY DEF CategoryChanged, Click, Sync, pageVars
<1>2. (r = "video" /\ enabled /\ Schedule) \/ Stop
  BY DEF CategoryChanged, Sync
<1>3. Silent' /\ (timer' => Wants')
  BY <1>1, <1>2, ScheduleSilences DEF Wants
<1>4. FormOK'
  BY <1>1 DEF PreviewInv, TypeOK, FormOK, CategoryChanged, formVars
<1>5. CountsOK'
  BY <1>1 DEF PreviewInv, TypeOK, CountsOK, CategoryChanged, Click
<1>6. QED
  BY <1>1, <1>3, <1>4, <1>5, SilentIsEnough

LEMMA ToggleStep ==
  ASSUME PreviewInv, PreviewToggleClicked
  PROVE  PreviewInv'
<1>1. /\ visible' = visible /\ visible /\ row' = row /\ row = "video" /\ enabled' = ~enabled
      /\ micTesting' = micTesting
  BY DEF PreviewToggleClicked, Click, pageVars
<1>2. (enabled' /\ Schedule) \/ Stop
  BY DEF PreviewToggleClicked
<1>3. Silent' /\ (timer' => Wants')
  BY <1>1, <1>2, ScheduleSilences DEF Wants
<1>4. FormOK'
  BY <1>1 DEF PreviewInv, TypeOK, FormOK, PreviewToggleClicked, formVars
<1>5. CountsOK'
  BY <1>1 DEF PreviewInv, TypeOK, CountsOK, PreviewToggleClicked, Click
<1>6. QED
  BY <1>1, <1>3, <1>4, <1>5, SilentIsEnough DEF PreviewInv

(* Choosing another camera or format: the preview starts anew, or there is   *)
(* none to start.                                                            *)
LEMMA ChoiceSilences ==
  ASSUME PreviewInv, row = "video", visible, ScheduleIf(enabled),
         UNCHANGED <<visible, row, enabled>>
  PROVE  Silent' /\ (timer' => Wants')
<1>1. CASE enabled /\ Schedule
  BY <1>1, ScheduleSilences DEF Wants
<1>2. CASE ~enabled /\ UNCHANGED previewVars
  BY <1>2, UnwantedIsSilent, SilentStays DEF Wants, previewVars
<1>3. QED
  BY <1>1, <1>2 DEF ScheduleIf

LEMMA DeviceStep ==
  ASSUME PreviewInv, NEW d \in combo, DeviceChanged(d)
  PROVE  PreviewInv'
<1>1. /\ visible /\ row = "video" /\ UNCHANGED <<visible, row, enabled, micTesting>>
      /\ ScheduleIf(enabled) /\ RebuildFormats(d, saved.format)
  BY DEF DeviceChanged, Click, pageVars
<1>2. d \in Devices /\ saved.format \in Nat
  BY DEF PreviewInv, TypeOK, FormOK, Devices
<1>3. offered' \in SUBSET Nat /\ format' \in Nat
  BY <1>1, <1>2, RebuildType DEF PreviewInv, TypeOK, FormOK
<1>4. FormOK'
  BY <1>1, <1>2, <1>3 DEF PreviewInv, TypeOK, FormOK, DeviceChanged
<1>5. CountsOK'
  BY <1>1 DEF PreviewInv, TypeOK, CountsOK, DeviceChanged, Click
<1>6. Silent' /\ (timer' => Wants')
  BY <1>1, ChoiceSilences
<1>7. QED
  BY <1>1, <1>4, <1>5, <1>6, SilentIsEnough DEF PreviewInv

LEMMA FormatStep ==
  ASSUME PreviewInv, NEW f \in offered, FormatChanged(f)
  PROVE  PreviewInv'
<1>1. /\ visible /\ row = "video" /\ UNCHANGED <<visible, row, enabled, micTesting>>
      /\ ScheduleIf(enabled)
  BY DEF FormatChanged, Click, pageVars
<1>2. f \in Nat
  BY DEF PreviewInv, TypeOK, FormOK
<1>3. FormOK'
  BY <1>1, <1>2 DEF PreviewInv, TypeOK, FormOK, FormatChanged
<1>4. CountsOK'
  BY <1>1 DEF PreviewInv, TypeOK, CountsOK, FormatChanged, Click
<1>5. Silent' /\ (timer' => Wants')
  BY <1>1, ChoiceSilences
<1>6. QED
  BY <1>1, <1>3, <1>4, <1>5, SilentIsEnough DEF PreviewInv

LEMMA ResetStep ==
  ASSUME PreviewInv, ResetClicked
  PROVE  PreviewInv'
<1>1. /\ visible /\ UNCHANGED <<visible, row, enabled, plugged>> /\ micTesting' = FALSE
      /\ saved' = [device |-> NoCamera, format |-> Default] /\ RefreshVideoDevices(saved')
      /\ (row = "video" /\ enabled /\ Schedule) \/ Stop
  BY DEF ResetClicked, Click, pageVars
<1>2. saved' \in [device : Devices, format : Nat]
  BY <1>1 DEF Devices
<1>3. /\ listed' \in BOOLEAN /\ combo' \in SUBSET Cameras /\ device' \in Devices
      /\ offered' \in SUBSET Nat /\ format' \in Nat
  BY <1>1, <1>2, RefreshType DEF PreviewInv, TypeOK, FormOK
<1>4. FormOK'
  BY <1>1, <1>2, <1>3 DEF PreviewInv, TypeOK, FormOK
<1>5. CountsOK'
  <2>1. clicks' = clicks + 1 /\ UNCHANGED <<refreshes, boxes, plugs>>
    BY DEF ResetClicked, Click
  <2>2. QED
    <3>1. clicks' \in Nat
      BY <2>1 DEF PreviewInv, TypeOK, CountsOK
    <3>2. micTesting' \in BOOLEAN
      BY <1>1
    <3>3. QED
      BY <2>1, <3>1, <3>2 DEF PreviewInv, TypeOK, CountsOK
<1>6. Silent' /\ (timer' => Wants')
  BY <1>1, ScheduleSilences DEF Wants
<1>7. QED
  BY <1>1, <1>4, <1>5, <1>6, SilentIsEnough

LEMMA RefreshStep ==
  ASSUME PreviewInv, RefreshDue, visible
  PROVE  PreviewInv'
<1>1. /\ UNCHANGED <<visible, row, enabled, plugged, saved>>
      /\ RefreshVideoDevices(saved) /\ Sync(row, enabled)
  BY DEF RefreshDue, pageVars
<1>2. /\ micTesting' = (micTesting /\ row = "audio")
      /\ (row = "video" /\ enabled /\ Schedule) \/ Stop
  BY <1>1 DEF Sync
<1>3. /\ listed' \in BOOLEAN /\ combo' \in SUBSET Cameras /\ device' \in Devices
      /\ offered' \in SUBSET Nat /\ format' \in Nat
  BY <1>1, RefreshType DEF PreviewInv, TypeOK, FormOK
<1>4. FormOK'
  BY <1>1, <1>3 DEF PreviewInv, TypeOK, FormOK
<1>5. CountsOK'
  <2>1. refreshes' \in Nat
    BY DEF PreviewInv, TypeOK, CountsOK, RefreshDue
  <2>2. QED
    BY <1>2, <2>1 DEF PreviewInv, TypeOK, CountsOK, RefreshDue
<1>6. Silent' /\ (timer' => Wants')
  BY <1>1, <1>2, ScheduleSilences DEF Wants
<1>7. QED
  BY <1>1, <1>2, <1>4, <1>5, <1>6, SilentIsEnough

LEMMA DismissStep ==
  ASSUME PreviewInv, DismissBox
  PROVE  PreviewInv'
<1>1. Silent' /\ ~timer'
  BY ScheduleSilences DEF DismissBox
<1>2. FormOK'
  BY DEF PreviewInv, TypeOK, FormOK, DismissBox, pageVars, formVars
<1>3. CountsOK'
  <2>1. boxes' \in Nat
    BY DEF PreviewInv, TypeOK, CountsOK, DismissBox
  <2>2. QED
    BY <2>1 DEF PreviewInv, TypeOK, CountsOK, DismissBox
<1>4. QED
  BY <1>1, <1>2, <1>3, SilentIsEnough DEF PreviewInv, DismissBox, pageVars

(* Steps that leave the preview, and all it depends on, alone. *)
LEMMA PreviewUntouched ==
  ASSUME PreviewInv, FormOK', CountsOK',
         UNCHANGED <<visible, row, enabled, device, format, timer, jobs, posted, camera>>,
         opening' \in BOOLEAN, micTesting' => visible /\ row = "audio"
  PROVE  PreviewInv'
<1>1. PreviewOK'
  BY DEF PreviewInv, TypeOK, PreviewOK
<1>2. TimerAlone' /\ FreshJobs'
  BY DEF PreviewInv, TimerAlone, FreshJobs, Wants, NoFreshJob, NoFreshEvent
<1>3. FreshEvents'
  BY DEF PreviewInv, FreshEvents, Wants
<1>4. CameraRuns'
  BY DEF PreviewInv, CameraRuns, Wants
<1>5. QED
  BY <1>1, <1>2, <1>3, <1>4 DEF PreviewInv, TypeOK

LEMMA UntouchedSteps ==
  ASSUME PreviewInv,
         \/ MicTestClicked \/ SaveClicked \/ (\E c \in Cameras : Plug(c))
         \/ (RefreshDue /\ ~visible) \/ FrameArrives \/ CameraFails
  PROVE  PreviewInv'
<1>1. UNCHANGED <<visible, row, enabled, device, format, timer, jobs, posted, camera>>
  BY DEF MicTestClicked, SaveClicked, Plug, RefreshDue, FrameArrives, CameraFails, previewVars,
     pageVars, formVars
<1>2. UNCHANGED <<listed, combo, offered>>
  BY DEF MicTestClicked, SaveClicked, Plug, RefreshDue, FrameArrives, CameraFails, previewVars,
     pageVars, formVars
<1>3. plugged' \in SUBSET Cameras
  BY DEF MicTestClicked, SaveClicked, Plug, RefreshDue, FrameArrives, CameraFails, PreviewInv,
     TypeOK, FormOK
<1>4. saved' \in [device : Devices, format : Nat]
  <2>1. saved \in [device : Devices, format : Nat] /\ saved.device \in Devices
        /\ device \in Devices /\ format \in Nat
    BY DEF PreviewInv, TypeOK, FormOK
  <2>2. CASE SaveClicked
    BY <2>1, <2>2 DEF SaveClicked
  <2>3. CASE UNCHANGED saved
    BY <2>1, <2>3
  <2>4. QED
    BY <2>2, <2>3 DEF MicTestClicked, Plug, RefreshDue, FrameArrives, CameraFails
<1>5. FormOK'
  BY <1>1, <1>2, <1>3, <1>4 DEF PreviewInv, TypeOK, FormOK
<1>6. opening' \in BOOLEAN
  BY DEF MicTestClicked, SaveClicked, Plug, RefreshDue, FrameArrives, CameraFails, PreviewInv,
     TypeOK, PreviewOK, previewVars
<1>7. micTesting' \in BOOLEAN /\ (micTesting' => visible /\ row = "audio")
  <2>1. CASE MicTestClicked
    <3>1. visible /\ row = "audio" /\ micTesting' \in BOOLEAN
      BY <2>1 DEF MicTestClicked, Click
    <3>2. QED
      BY <3>1
  <2>2. CASE UNCHANGED micTesting
    BY <2>2 DEF PreviewInv, TypeOK, CountsOK
  <2>3. QED
    BY <2>1, <2>2 DEF SaveClicked, Plug, RefreshDue, FrameArrives, CameraFails
<1>8. refreshes' \in Nat /\ boxes' \in Nat /\ clicks' \in Nat /\ plugs' \in Nat
  <2>1. refreshes \in Nat /\ boxes \in Nat /\ clicks \in Nat /\ plugs \in Nat
    BY DEF PreviewInv, TypeOK, CountsOK
  <2>2. clicks' = clicks \/ clicks' = clicks + 1
    BY DEF MicTestClicked, SaveClicked, Plug, RefreshDue, FrameArrives, CameraFails, Click
  <2>3. plugs' = plugs \/ plugs' = plugs + 1
    BY DEF MicTestClicked, SaveClicked, Plug, RefreshDue, FrameArrives, CameraFails
  <2>4. boxes' = boxes \/ boxes' = boxes + 1
    BY DEF MicTestClicked, SaveClicked, Plug, RefreshDue, FrameArrives, CameraFails
  <2>5. refreshes' = refreshes \/ (refreshes > 0 /\ refreshes' = refreshes - 1)
    BY DEF MicTestClicked, SaveClicked, Plug, RefreshDue, FrameArrives, CameraFails
  <2>6. QED
    BY <2>1, <2>2, <2>3, <2>4, <2>5
<1>9. QED
  BY <1>1, <1>5, <1>6, <1>7, <1>8, PreviewUntouched DEF CountsOK

-----------------------------------------------------------------------------
(* The timer, the pool and the posted events *)

LEMMA BeginStep ==
  ASSUME PreviewInv, BeginPreview
  PROVE  PreviewInv'
<1>1. /\ timer /\ timer' = FALSE
      /\ UNCHANGED <<plugged, visible, row, enabled, listed, combo, device, offered, format, saved,
                    refreshes, posted, camera, micTesting, boxes, clicks, plugs>>
  BY DEF BeginPreview, pageVars, formVars
<1>2. Wants /\ camera = {} /\ NoFreshJob /\ NoFreshEvent
  BY <1>1 DEF PreviewInv, TimerAlone
<1>3. FormOK' /\ CountsOK'
  <2>1. FormOK'
    BY <1>1 DEF PreviewInv, TypeOK, FormOK
  <2>2. CountsOK'
    BY <1>1 DEF PreviewInv, TypeOK, CountsOK
  <2>3. QED
    BY <2>1, <2>2
<1>4. opening' \in BOOLEAN
  BY DEF BeginPreview, PreviewInv, TypeOK, PreviewOK
<1>5. CASE device # NoCamera
  <2> DEFINE j == [fresh |-> TRUE, device |-> device, format |-> format]
  <2>1. j \in Jobs
    BY <1>5 DEF Jobs, Devices, PreviewInv, TypeOK, FormOK
  <2>2. jobs' = jobs \cup {j}
    BY <1>2, <1>5 DEF BeginPreview, Wants
  <2>3. PreviewOK'
    BY <1>1, <1>4, <2>1, <2>2 DEF PreviewInv, TypeOK, PreviewOK
  <2>4. \A x \in jobs' : x.fresh => x.device = device /\ x.format = format
    BY <1>2, <2>2 DEF NoFreshJob
  <2>5. FreshJobs'
    BY <1>1, <1>2, <2>4 DEF FreshJobs, Wants, NoFreshEvent
  <2>6. TimerAlone' /\ FreshEvents' /\ CameraRuns'
    BY <1>1, <1>2 DEF TimerAlone, FreshEvents, CameraRuns, NoFreshEvent
  <2>7. QED
    BY <1>1, <1>3, <2>3, <2>5, <2>6 DEF PreviewInv, TypeOK
<1>6. CASE device = NoCamera
  <2>1. jobs' = jobs
    BY <1>6 DEF BeginPreview
  <2>2. Silent'
    BY <1>1, <1>2, <1>4, <2>1 DEF Silent, PreviewOK, NoFreshJob, NoFreshEvent, PreviewInv, TypeOK
  <2>3. QED
    BY <1>1, <1>3, <2>2, SilentIsEnough DEF PreviewInv
<1>7. QED
  BY <1>5, <1>6

LEMMA JobStep ==
  ASSUME PreviewInv, NEW j \in jobs, JobEnds(j)
  PROVE  PreviewInv'
<1> DEFINE e == [kind |-> "apply", fresh |-> j.fresh,
                 device |-> IF j.device \in plugged THEN j.device ELSE NoCamera,
                 format |-> IF j.device \in plugged THEN Best(j.device, j.format) ELSE j.format]
<1>1. /\ jobs' = jobs \ {j} /\ posted' = Append(posted, e)
      /\ UNCHANGED <<plugged, visible, row, enabled, listed, combo, device, offered, format, saved,
                    refreshes, timer, camera, opening, micTesting, boxes, clicks, plugs>>
  BY DEF JobEnds, pageVars, formVars
<1>2. FormOK' /\ CountsOK'
  <2>1. FormOK'
    BY <1>1 DEF PreviewInv, TypeOK, FormOK
  <2>2. CountsOK'
    BY <1>1 DEF PreviewInv, TypeOK, CountsOK
  <2>3. QED
    BY <2>1, <2>2
<1>3. j \in Jobs /\ jobs \subseteq Jobs /\ posted \in Seq(Events)
  BY DEF PreviewInv, TypeOK, PreviewOK
<1>4. e \in Events /\ e.kind = "apply" /\ e.fresh = j.fresh
  <2>1. e.device \in Devices
    BY <1>3, JobParts DEF Devices
  <2>2. e.format \in Formats
    BY <1>3, JobParts DEF Formats
  <2>3. QED
    BY <1>3, <2>1, <2>2, JobParts DEF Events
<1> HIDE DEF e
<1>5. PreviewOK'
  <2>1. posted' \in Seq(Events)
    BY <1>1, <1>3, <1>4
  <2>2. QED
    BY <1>1, <2>1 DEF PreviewInv, TypeOK, PreviewOK
<1>6. /\ Len(posted') = Len(posted) + 1 /\ Len(posted) \in Nat
      /\ \A i \in 1 .. Len(posted) : posted'[i] = posted[i]
      /\ posted'[Len(posted) + 1] = e
  BY <1>1, <1>3, <1>4
<1>7. CASE j.fresh
  <2>1. Wants /\ camera = {} /\ NoFreshEvent /\ j.device = device /\ j.format = format
    BY <1>7 DEF PreviewInv, FreshJobs
  <2>2. ~timer
    BY <1>7 DEF PreviewInv, TimerAlone, NoFreshJob
  <2>3. \A x \in jobs : x.fresh => x = j
    <3>1. ASSUME NEW x \in jobs, x.fresh
          PROVE  x = j
      <4>1. x.device = device /\ x.format = format
        BY <3>1 DEF PreviewInv, FreshJobs
      <4>2. x.fresh = TRUE /\ j.fresh = TRUE
        BY <1>3, <1>7, <3>1, JobParts
      <4>3. QED
        BY <1>3, <2>1, <4>1, <4>2 DEF Jobs
    <3>2. QED
      BY <3>1
  <2>4. e.device # NoCamera => e.device = device /\ e.format = Best(device, format)
    BY <2>1 DEF e
  <2>5. TimerAlone' /\ FreshJobs' /\ CameraRuns'
    BY <1>1, <2>1, <2>2, <2>3 DEF TimerAlone, FreshJobs, CameraRuns
  <2>6. FreshEvents'
    <3>1. ASSUME NEW i \in 1 .. Len(posted'), posted'[i].fresh
          PROVE  i = Len(posted) + 1
      BY <1>6, <2>1, <3>1 DEF NoFreshEvent
    <3>2. \A k \in 1 .. Len(posted') : ~(k > Len(posted) + 1)
      BY <1>6
    <3>3. QED
      BY <1>1, <1>4, <1>6, <2>1, <2>4, <3>1, <3>2 DEF FreshEvents, Wants
  <2>7. QED
    BY <1>1, <1>2, <1>5, <2>5, <2>6 DEF PreviewInv, TypeOK
<1>8. CASE ~j.fresh
  <2>1. NoFreshEvent => NoFreshEvent'
    BY <1>4, <1>6, <1>8 DEF NoFreshEvent
  <2>2. NoFreshJob => NoFreshJob'
    BY <1>1 DEF NoFreshJob
  <2>3. TimerAlone'
    BY <1>1, <2>1, <2>2 DEF PreviewInv, TimerAlone, Wants
  <2>4. FreshJobs'
    BY <1>1, <2>1 DEF PreviewInv, FreshJobs, Wants
  <2>5. FreshEvents'
    <3>1. ASSUME NEW i \in 1 .. Len(posted'), posted'[i].fresh
          PROVE  i \in 1 .. Len(posted) /\ posted[i].fresh
      BY <1>4, <1>6, <1>8, <3>1
    <3>2. ASSUME NEW i \in 1 .. Len(posted), posted[i].fresh
          PROVE  \A k \in 1 .. Len(posted') :
                   k > i => posted'[k].kind = "apply" /\ ~posted'[k].fresh
      BY <1>4, <1>6, <1>8, <3>2 DEF PreviewInv, FreshEvents
    <3>3. QED
      BY <1>1, <1>6, <3>1, <3>2 DEF PreviewInv, FreshEvents, Wants
  <2>6. CameraRuns'
    BY <1>1, <1>4, <1>6 DEF PreviewInv, CameraRuns, Wants
  <2>7. QED
    BY <1>1, <1>2, <1>5, <2>3, <2>4, <2>5, <2>6 DEF PreviewInv, TypeOK
<1>9. QED
  BY <1>7, <1>8

(* What is left after the first event. *)
LEMMA TailParts ==
  ASSUME posted \in Seq(Events), posted # <<>>
  PROVE  /\ Tail(posted) \in Seq(Events) /\ Head(posted) = posted[1] /\ posted[1] \in Events
         /\ Len(posted) \in Nat /\ Len(posted) >= 1 /\ Len(Tail(posted)) = Len(posted) - 1
         /\ \A i \in 1 .. Len(Tail(posted)) :
               Tail(posted)[i] = posted[i + 1] /\ i + 1 \in 1 .. Len(posted)
<1>1. Len(posted) \in Nat /\ Len(posted) >= 1
  OBVIOUS
<1>2. QED
  BY <1>1

LEMMA EventStep ==
  ASSUME PreviewInv, HandleEvent
  PROVE  PreviewInv'
<1> DEFINE e == Head(posted)
<1>1. /\ posted # <<>>
      /\ UNCHANGED <<plugged, visible, row, enabled, listed, combo, device, offered, format, saved,
                    refreshes, timer, jobs, micTesting, boxes, clicks, plugs>>
  BY DEF HandleEvent, pageVars, formVars
<1>2. FormOK' /\ CountsOK'
  <2>1. FormOK'
    BY <1>1 DEF PreviewInv, TypeOK, FormOK
  <2>2. CountsOK'
    BY <1>1 DEF PreviewInv, TypeOK, CountsOK
  <2>3. QED
    BY <2>1, <2>2
<1>3. posted \in Seq(Events)
  BY DEF PreviewInv, TypeOK, PreviewOK
<1>4. /\ Tail(posted) \in Seq(Events) /\ e = posted[1] /\ e \in Events
      /\ Len(posted) \in Nat /\ Len(posted) >= 1 /\ Len(Tail(posted)) = Len(posted) - 1
      /\ \A i \in 1 .. Len(Tail(posted)) :
            Tail(posted)[i] = posted[i + 1] /\ i + 1 \in 1 .. Len(posted)
  BY <1>1, <1>3, TailParts
<1> HIDE DEF e
<1>5. CASE Wanted(e)
  <2>1. e.fresh /\ 1 \in 1 .. Len(posted)
    BY <1>4, <1>5 DEF Wanted
  <2>2. /\ Wants /\ camera = {}
        /\ e.device # NoCamera => e.device = device /\ e.format = Best(device, format)
        /\ \A k \in 1 .. Len(posted) : k > 1 => posted[k].kind = "apply" /\ ~posted[k].fresh
    BY <1>4, <2>1 DEF PreviewInv, FreshEvents
  <2>3. ~NoFreshEvent
    BY <1>4, <2>1 DEF NoFreshEvent
  <2>4. ~timer /\ NoFreshJob
    BY <2>3 DEF PreviewInv, TimerAlone, FreshJobs, NoFreshJob
  <2>5. \A i \in 1 .. Len(Tail(posted)) :
          Tail(posted)[i].kind = "apply" /\ ~Tail(posted)[i].fresh
    BY <1>4, <2>2
  <2>6. CASE e.device = NoCamera /\ Release(Tail(posted)) /\ opening' = FALSE
    <3>1. camera' = {} /\ posted' \in Seq(Events) /\ NoFreshEvent'
      BY <1>4, <2>5, <2>6, ReleaseEffect
    <3>2. Silent'
      BY <1>1, <2>4, <2>6, <3>1 DEF Silent, PreviewOK, NoFreshJob, PreviewInv, TypeOK
    <3>3. QED
      BY <1>1, <1>2, <2>4, <3>2, SilentIsEnough DEF PreviewInv
  <2>7. CASE e.device # NoCamera /\ StartCamera(e)
    <3>1. posted' = Tail(posted) /\ opening' = opening
      <4>1. Stops = <<>>
        BY <2>2, StopsAre
      <4>2. posted' = Tail(posted) \o Stops
        BY <2>7 DEF StartCamera, Stops
      <4>3. Tail(posted) \o <<>> = Tail(posted)
        BY <1>4
      <4>4. QED
        BY <2>7, <4>1, <4>2, <4>3 DEF StartCamera
    <3>2. camera' = {[device |-> device, format |-> Best(device, format)]}
      BY <2>2, <2>7 DEF StartCamera
    <3>3. camera' \in SUBSET InUse
      <4>1. e.device \in Devices /\ e.format \in Formats
        BY <1>4, EventParts
      <4>2. QED
        BY <2>7, <4>1 DEF StartCamera, InUse
    <3>4. PreviewOK'
      BY <1>1, <1>4, <3>1, <3>3 DEF PreviewInv, TypeOK, PreviewOK
    <3>5. TimerAlone' /\ FreshJobs'
      BY <1>1, <2>4 DEF TimerAlone, FreshJobs, NoFreshJob
    <3>6. FreshEvents'
      BY <2>5, <3>1 DEF FreshEvents
    <3>7. CameraRuns'
      BY <1>1, <2>2, <2>5, <3>1, <3>2 DEF CameraRuns, Wants
    <3>8. QED
      BY <1>1, <1>2, <3>4, <3>5, <3>6, <3>7 DEF PreviewInv, TypeOK
  <2>8. Apply(e)
    BY <1>5 DEF HandleEvent, e
  <2>9. QED
    BY <2>6, <2>7, <2>8 DEF Apply
<1>6. CASE ~Wanted(e)
  <2>1. posted' = Tail(posted) /\ UNCHANGED <<camera, opening>>
    BY <1>6 DEF HandleEvent, e
  <2>2. ~e.fresh
    <3>1. ASSUME e.fresh PROVE FALSE
      <4>1. 1 \in 1 .. Len(posted) /\ posted[1].fresh
        BY <1>4, <3>1
      <4>2. Wants /\ e.kind = "apply"
        BY <1>4, <4>1 DEF PreviewInv, FreshEvents
      <4>3. QED
        BY <1>6, <3>1, <4>2 DEF Wanted, Wants
    <3>2. QED
      BY <3>1
  <2>3. NoFreshEvent => NoFreshEvent'
    BY <1>4, <2>1 DEF NoFreshEvent
  <2>4. PreviewOK'
    BY <1>1, <1>4, <2>1 DEF PreviewInv, TypeOK, PreviewOK
  <2>5. TimerAlone' /\ FreshJobs'
    <3>1. TimerAlone'
      BY <1>1, <2>1, <2>3 DEF PreviewInv, TimerAlone, Wants, NoFreshJob
    <3>2. FreshJobs'
      BY <1>1, <2>1, <2>3 DEF PreviewInv, FreshJobs, Wants
    <3>3. QED
      BY <3>1, <3>2
  <2>6. FreshEvents'
    <3>1. ASSUME NEW i \in 1 .. Len(posted'), posted'[i].fresh
          PROVE  /\ i + 1 \in 1 .. Len(posted) /\ posted[i + 1].fresh
                 /\ posted'[i] = posted[i + 1]
      BY <1>4, <2>1, <3>1
    <3>2. ASSUME NEW i \in 1 .. Len(posted'), posted'[i].fresh,
                 NEW k \in 1 .. Len(posted'), k > i
          PROVE  posted'[k].kind = "apply" /\ ~posted'[k].fresh
      <4>1. /\ i + 1 \in 1 .. Len(posted) /\ k + 1 \in 1 .. Len(posted) /\ k + 1 > i + 1
            /\ posted'[k] = posted[k + 1] /\ posted[i + 1].fresh
        BY <1>4, <2>1, <3>1, <3>2
      <4>2. QED
        BY <4>1 DEF PreviewInv, FreshEvents
    <3>3. ASSUME NEW i \in 1 .. Len(posted'), posted'[i].fresh
          PROVE  /\ Wants /\ camera = {} /\ posted'[i].kind = "apply"
                 /\ posted'[i].device # NoCamera =>
                      posted'[i].device = device /\ posted'[i].format = Best(device, format)
      BY <3>1, <3>3 DEF PreviewInv, FreshEvents
    <3>4. QED
      BY <1>1, <2>1, <3>2, <3>3 DEF FreshEvents, Wants
  <2>7. CameraRuns'
    <3>1. camera # {} => \A i \in 1 .. Len(posted') : posted'[i].kind = "apply"
      BY <1>4, <2>1 DEF PreviewInv, CameraRuns
    <3>2. QED
      BY <1>1, <2>1, <3>1 DEF PreviewInv, CameraRuns, Wants
  <2>8. QED
    BY <1>1, <1>2, <2>4, <2>5, <2>6, <2>7 DEF PreviewInv, TypeOK
<1>7. QED
  BY <1>5, <1>6

-----------------------------------------------------------------------------

LEMMA InitPreview == Init => PreviewInv
<1> SUFFICES ASSUME Init PROVE PreviewInv
  OBVIOUS
<1>1. FormOK
  BY DEF Init, FormOK, Devices, Rows
<1>2. PreviewOK /\ CountsOK
  <2>1. <<>> \in Seq(Events)
    OBVIOUS
  <2>2. PreviewOK
    BY <2>1 DEF Init, PreviewOK
  <2>3. CountsOK
    BY DEF Init, CountsOK
  <2>4. QED
    BY <2>2, <2>3
<1>3. QED
  BY <1>1, <1>2 DEF Init, PreviewInv, TypeOK, TimerAlone, FreshJobs, FreshEvents, CameraRuns

LEMMA NextPreview ==
  ASSUME PreviewInv, [Next]_vars
  PROVE  PreviewInv'
<1>1. CASE Show \/ Hide \/ PreviewToggleClicked \/ ResetClicked \/ DismissBox
  BY <1>1, ShowStep, HideStep, ToggleStep, ResetStep, DismissStep
<1>2. ASSUME NEW r \in Rows, CategoryChanged(r) PROVE PreviewInv'
  BY <1>2, CategoryStep
<1>3. ASSUME NEW d \in combo, DeviceChanged(d) PROVE PreviewInv'
  BY <1>3, DeviceStep
<1>4. ASSUME NEW f \in offered, FormatChanged(f) PROVE PreviewInv'
  BY <1>4, FormatStep
<1>5. CASE \/ MicTestClicked \/ SaveClicked \/ (\E c \in Cameras : Plug(c))
           \/ (RefreshDue /\ ~visible) \/ FrameArrives \/ CameraFails
  BY <1>5, UntouchedSteps
<1>6. CASE RefreshDue /\ visible
  BY <1>6, RefreshStep
<1>7. CASE BeginPreview
  BY <1>7, BeginStep
<1>8. ASSUME NEW j \in jobs, JobEnds(j) PROVE PreviewInv'
  BY <1>8, JobStep
<1>9. CASE HandleEvent
  BY <1>9, EventStep
<1>10. CASE UNCHANGED vars
  <2>1. UNCHANGED <<plugged, visible, row, enabled, listed, combo, device, offered, format, saved,
                    refreshes, timer, jobs, posted, camera, opening, micTesting, boxes, clicks,
                    plugs>>
    BY <1>10 DEF vars, pageVars, formVars, previewVars
  <2>2. FormOK'
    BY <2>1 DEF PreviewInv, TypeOK, FormOK
  <2>3. CountsOK' /\ opening' \in BOOLEAN /\ (micTesting' => visible /\ row = "audio")
    BY <2>1 DEF PreviewInv, TypeOK, CountsOK, PreviewOK
  <2>4. QED
    BY <2>1, <2>2, <2>3, PreviewUntouched
<1>11. QED
  BY <1>1, <1>2, <1>3, <1>4, <1>5, <1>6, <1>7, <1>8, <1>9, <1>10 DEF Next

LEMMA PreviewIsKept == Spec => []PreviewInv
<1>1. Init => PreviewInv
  BY InitPreview
<1>2. PreviewInv /\ [Next]_vars => PreviewInv'
  BY NextPreview
<1>3. QED
  BY <1>1, <1>2, PTL DEF Spec

(* HardwareIsWanted: a camera that runs is one the user is looking at and    *)
(* wants, with the device and format the lists name at this moment; the      *)
(* three steps of opening it may be overtaken by any other choice, refresh,  *)
(* page or error in between.  The microphone is on only on its own page.     *)
THEOREM SettingsHardware == Spec => []HardwareIsWanted
<1>1. PreviewInv => HardwareIsWanted
  BY DEF PreviewInv, CameraRuns, Wants, HardwareIsWanted
<1>2. QED
  BY <1>1, PreviewIsKept, PTL

(* OneUserPerCamera: when a camera is started, whatever was started before   *)
(* it has been stopped, though the stop is only posted.                      *)
THEOREM SettingsOneUser == Spec => []OneUserPerCamera
<1>1. PreviewInv => OneUserPerCamera
  <2> SUFFICES ASSUME PreviewInv PROVE OneUserPerCamera
    OBVIOUS
  <2>1. DOMAIN posted = 1 .. Len(posted)
    BY DEF PreviewInv, TypeOK, PreviewOK
  <2>2. QED
    BY <2>1 DEF PreviewInv, CameraRuns, OneUserPerCamera
<1>2. QED
  BY <1>1, PreviewIsKept, PTL

HIDE FormatsAreNaturals

(***************************************************************************)
(* The meeting window                                                      *)
(***************************************************************************)
Picture == {"blank", "video", "avatar"} \X Nat

LoadSet == [user : People, gen : Nat, url : Nat, old : BOOLEAN]

Pics ==
  [shown : SUBSET People, url : [People -> Nat], live : SUBSET People, gen : [People -> Nat],
   loads : SUBSET LoadSet, main : People \cup {Nobody}, chosen : People \cup {Nobody},
   tile : [People -> Picture], screen : (People \cup {Nobody}) \X Picture,
   failed : SUBSET People, mixed : SUBSET People]

OfUser == {"joined", "exited", "closed", "profile"}
NoticeSet ==
  [kind : OfUser, user : Users, url : Nat, users : {{}}] \cup
  [kind : {"snapshot"}, user : {Nobody}, url : Nat, users : SUBSET Users]

ScreenTypeOK ==
  /\ inMeeting \in BOOLEAN /\ meetings \in Nat /\ acts \in Nat
  /\ pics \in Pics
  /\ notices \in Seq(NoticeSet)
  /\ frames \in SUBSET People /\ leaving \in SUBSET Users /\ late \in SUBSET People
  /\ room \in SUBSET Users /\ filming \in SUBSET (room \cup {Me})
  /\ version \in [People -> Nat]

-----------------------------------------------------------------------------
(* The pictures *)

HasNews(p, u) == \E l \in p.loads : l.user = u /\ l.gen = p.gen[u] /\ ~l.old

IsSettled(p, u) == ~HasNews(p, u) /\ u \notin p.failed /\ u \notin p.mixed

(* While a user is shown by its video a new profile loads nothing, and the   *)
(* load that is under way may be of an earlier avatar.                       *)
TileOK(p, u) ==
  /\ u \in p.shown /\ u \in p.live => p.tile[u] = Video
  /\ u \in p.shown /\ u \notin p.live /\ IsSettled(p, u) => p.tile[u] \in {Avatar(p.url[u]), Avatar(0)}
  /\ ~(u \in p.shown /\ u \in p.live) =>
       \A l \in p.loads : l.user = u /\ l.gen = p.gen[u] /\ ~l.old => l.url = p.url[u]

MainOK(p) ==
  p.main \in p.live \/ IsSettled(p, p.main) =>
    /\ p.screen[1] = p.main
    /\ p.main \in p.shown => p.screen = <<p.main, p.tile[p.main]>>

TilesOK(p) == \A u \in People : TileOK(p, u)

PicturesInv ==
  /\ TilesOK(pics)
  /\ inMeeting => pics.main \in People /\ MainOK(pics)

-----------------------------------------------------------------------------
(* The notices *)

Enters(n, u) == (n.kind = "joined" /\ n.user = u) \/ u \in n.users
Exits(n, u)  == n.kind = "exited" /\ n.user = u
Ends(n, u)   == n.kind \in {"exited", "closed"} /\ n.user = u

(* The last word about a member of the room is that it has come.             *)
HasCome(s, u) ==
  \E i \in DOMAIN s : Enters(s[i], u) /\ \A j \in DOMAIN s : j > i => ~Exits(s[j], u)

NoneExits(s, u) == \A i \in DOMAIN s : ~Exits(s[i], u)
NoneEnds(s, u)  == \A i \in DOMAIN s : ~Ends(s[i], u)
SomeEnters(s, u) == \E i \in DOMAIN s : Enters(s[i], u)

MemberIsKnown(s, shown, members) ==
  \A u \in members : (u \in shown /\ NoneExits(s, u)) \/ HasCome(s, u)

(* After its exit a user comes again before anything of it ends.             *)
EndsAreInOrder(s) ==
  \A u \in Users : \A i, k \in DOMAIN s :
    i < k /\ Exits(s[i], u) /\ Ends(s[k], u) =>
      \E j \in DOMAIN s : i < j /\ j < k /\ Enters(s[j], u)

(* A frame is of a user with a tile, or who will have one, or is gone and    *)
(* done with.                                                                *)
FramesAreKnown(s, shown, members, pending) ==
  \A u \in pending :
    u \in shown \/ SomeEnters(s, u) \/ (NoneEnds(s, u) /\ u \notin members)

NewsInv ==
  /\ MemberIsKnown(notices, pics.shown, room)
  /\ EndsAreInOrder(notices)
  /\ FramesAreKnown(notices, pics.shown, room, (frames \cup (pics.live \ late)) \ {Me})
  /\ inMeeting => Me \in pics.shown
  /\ ~inMeeting => frames = {} /\ pics.live = {} /\ room = {} /\ filming = {}
  /\ NoFrozenPicture

-----------------------------------------------------------------------------
(* What the operations do to the fields of the pictures *)

LEMMA Pictures == Blank \in Picture /\ Video \in Picture /\ \A v \in Nat : Avatar(v) \in Picture
  BY DEF Blank, Video, Avatar, Picture

(* The type of every field, and back again.                                  *)
LEMMA PicsFields ==
  ASSUME NEW p \in Pics
  PROVE  /\ p.shown \in SUBSET People /\ p.url \in [People -> Nat] /\ p.live \in SUBSET People
         /\ p.gen \in [People -> Nat] /\ p.loads \in SUBSET LoadSet
         /\ p.main \in People \cup {Nobody} /\ p.chosen \in People \cup {Nobody}
         /\ p.tile \in [People -> Picture] /\ p.screen \in (People \cup {Nobody}) \X Picture
         /\ p.failed \in SUBSET People /\ p.mixed \in SUBSET People
  BY DEF Pics

(* What Put, Load and ShowAvatar make of p, as far as it matters: after a     *)
(* load its users are awaited, and of the others nothing changes.            *)
PutMakes(p, us, x, q) ==
  /\ q \in Pics
  /\ q.shown = p.shown /\ q.url = p.url /\ q.live = p.live /\ q.gen = p.gen
  /\ q.loads = p.loads /\ q.main = p.main /\ q.chosen = p.chosen
  /\ q.failed = p.failed /\ q.mixed = p.mixed
  /\ \A u \in People : u \notin us => q.tile[u] = p.tile[u]
  /\ \A u \in us \cap p.shown : q.tile[u] = x
  /\ p.main \notin us => q.screen = p.screen
  /\ p.main \in us => q.screen = <<p.main, x>>

LoadMakes(p, us, q) ==
  /\ q \in Pics
  /\ q.shown = p.shown /\ q.url = p.url /\ q.live = p.live /\ q.tile = p.tile
  /\ q.main = p.main /\ q.chosen = p.chosen /\ q.screen = p.screen /\ q.mixed = p.mixed
  /\ q.failed = p.failed \ us
  /\ \A u \in People \ us : q.gen[u] = p.gen[u]
  /\ \A l \in q.loads : /\ l.user \notin us => l \in p.loads
                        /\ l.user \in us /\ ~l.old => l.url = p.url[l.user]
  /\ \A l \in p.loads : l.user \notin us => l \in q.loads
  /\ \A u \in us : HasNews(q, u)

ShowAvatarMakes(p, us, q) ==
  /\ q \in Pics
  /\ q.shown = p.shown /\ q.url = p.url /\ q.live = p.live \ us
  /\ q.main = p.main /\ q.chosen = p.chosen /\ q.mixed = p.mixed
  /\ q.failed = p.failed \ us
  /\ p.main \notin us => q.screen = p.screen
  /\ \A u \in People \ us : q.tile[u] = p.tile[u] /\ q.gen[u] = p.gen[u]
  /\ \A l \in q.loads : /\ l.user \notin us => l \in p.loads
                        /\ l.user \in us /\ ~l.old => l.url = p.url[l.user]
  /\ \A l \in p.loads : l.user \notin us => l \in q.loads
  /\ \A u \in us : HasNews(q, u)

LEMMA PutLemma ==
  ASSUME NEW p \in Pics, NEW us \in SUBSET People, NEW x \in Picture
  PROVE  PutMakes(p, us, x, Put(p, us, x))
<1> DEFINE t == At(At(p.tile, us, Blank), us \cap p.shown, x)
           s == IF p.main \in us THEN <<p.main, x>> ELSE p.screen
           q == Put(p, us, x)
<1>1. t \in [People -> Picture]
  BY Pictures, PicsFields DEF At
<1>2. /\ \A u \in People : u \notin us => t[u] = p.tile[u]
      /\ \A u \in us \cap p.shown : t[u] = x
  BY DEF At
<1>3. s \in (People \cup {Nobody}) \X Picture
  BY PicsFields
<1>4. /\ p.main \notin us => s = p.screen
      /\ p.main \in us => s = <<p.main, x>>
  OBVIOUS
<1>5. q = [p EXCEPT !.tile = t, !.screen = s]
  BY DEF Put
<1> HIDE DEF t, s, q
<1>6. /\ q \in Pics
      /\ q.shown = p.shown /\ q.url = p.url /\ q.live = p.live /\ q.gen = p.gen
      /\ q.loads = p.loads /\ q.main = p.main /\ q.chosen = p.chosen
      /\ q.failed = p.failed /\ q.mixed = p.mixed
      /\ q.tile = t /\ q.screen = s
  BY <1>1, <1>3, <1>5 DEF Pics
<1>7. PutMakes(p, us, x, q)
  BY <1>2, <1>4, <1>6 DEF PutMakes
<1> QED
  BY <1>7 DEF q

LEMMA LoadLemma ==
  ASSUME NEW p \in Pics, NEW us \in SUBSET People
  PROVE  LoadMakes(p, us, Load(p, us))
<1> DEFINE g == [u \in People |-> IF u \in us THEN p.gen[u] + 1 ELSE p.gen[u]]
           new == {Asked(p, u, p.gen[u] + 1) : u \in us}
           ls == (p.loads \ {l \in p.loads : l.user \in us /\ ~l.old}) \cup new
           f == p.failed \ us
           q == Load(p, us)
<1>1. g \in [People -> Nat]
  BY PicsFields
<1>2. \A u \in us : Asked(p, u, p.gen[u] + 1) \in LoadSet
  BY PicsFields DEF Asked, LoadSet
<1>3. ls \in SUBSET LoadSet
  BY <1>2, PicsFields
<1>4. f \in SUBSET People
  BY PicsFields
<1>5. q = [p EXCEPT !.gen = g, !.loads = ls, !.failed = f]
  BY DEF Load
<1>6. \A l \in new : l.user \in us /\ ~l.old /\ l.url = p.url[l.user] /\ l.gen = g[l.user]
  <2> TAKE l \in new
  <2>1. PICK u \in us : l = Asked(p, u, p.gen[u] + 1)
    OBVIOUS
  <2>2. l.user = u /\ ~l.old /\ l.url = p.url[u] /\ l.gen = p.gen[u] + 1
    BY <2>1 DEF Asked
  <2>3. g[u] = p.gen[u] + 1
    OBVIOUS
  <2> QED
    BY <2>2, <2>3
<1>7. \A u \in us : \E l \in new : l.user = u
  <2> TAKE u \in us
  <2>1. Asked(p, u, p.gen[u] + 1).user = u
    BY DEF Asked
  <2> QED
    BY <2>1
<1>8. \A l \in ls : l \in new \/ (l \in p.loads /\ ~(l.user \in us /\ ~l.old))
  OBVIOUS
<1>9. \A l \in p.loads : l.user \notin us => l \in ls
  OBVIOUS
<1>10. new \subseteq ls
  OBVIOUS
<1>11. \A u \in People \ us : g[u] = p.gen[u]
  OBVIOUS
<1> HIDE DEF g, new, ls, f, q
<1>12. q \in Pics /\ q.gen = g /\ q.loads = ls /\ q.failed = f
  BY <1>1, <1>3, <1>4, <1>5 DEF Pics
<1>13. \A u \in us : HasNews(q, u)
  BY <1>6, <1>7, <1>10, <1>12 DEF HasNews
<1>14. /\ \A l \in q.loads : /\ l.user \notin us => l \in p.loads
                             /\ l.user \in us /\ ~l.old => l.url = p.url[l.user]
       /\ \A l \in p.loads : l.user \notin us => l \in q.loads
  BY <1>6, <1>8, <1>9, <1>12
<1>15. /\ q.shown = p.shown /\ q.url = p.url /\ q.live = p.live /\ q.tile = p.tile
       /\ q.main = p.main /\ q.chosen = p.chosen /\ q.screen = p.screen /\ q.mixed = p.mixed
  BY <1>5 DEF Pics
<1>16. \A u \in People \ us : q.gen[u] = p.gen[u]
  BY <1>11, <1>12
<1>17. LoadMakes(p, us, q)
  BY <1>12, <1>13, <1>14, <1>15, <1>16 DEF LoadMakes, f
<1> QED
  BY <1>17 DEF q

LEMMA ShowAvatarLemma ==
  ASSUME NEW p \in Pics, NEW us \in SUBSET People
  PROVE  ShowAvatarMakes(p, us, ShowAvatar(p, us))
<1> DEFINE v == [p EXCEPT !.live = @ \ us]
           c == Put(v, us, Blank)
           q == Load(c, us)
<1>1. /\ v.live = p.live \ us /\ v.shown = p.shown /\ v.url = p.url
      /\ v.main = p.main /\ v.chosen = p.chosen /\ v.mixed = p.mixed /\ v.failed = p.failed
      /\ v.screen = p.screen /\ v.tile = p.tile /\ v.gen = p.gen /\ v.loads = p.loads
  BY DEF Pics
<1>2. v \in Pics
  BY DEF Pics
<1>3. q = ShowAvatar(p, us)
  BY DEF ShowAvatar, ClearVideo
<1> HIDE DEF v
<1>4. PutMakes(v, us, Blank, c)
  BY <1>2, PutLemma, Pictures
<1> HIDE DEF c
<1>5. c \in Pics
  BY <1>4 DEF PutMakes
<1>6. LoadMakes(c, us, q)
  BY <1>5, LoadLemma
<1> HIDE DEF q
<1>7. ShowAvatarMakes(p, us, q)
  BY <1>1, <1>4, <1>6 DEF PutMakes, LoadMakes, ShowAvatarMakes
<1> QED
  BY <1>3, <1>7

(* A user of whom nothing has changed is shown as before.                    *)
SameOf(p, q, u) ==
  /\ (u \in q.shown) = (u \in p.shown) /\ (u \in q.live) = (u \in p.live)
  /\ (u \in q.failed) = (u \in p.failed) /\ (u \in q.mixed) = (u \in p.mixed)
  /\ q.url[u] = p.url[u] /\ q.tile[u] = p.tile[u] /\ q.gen[u] = p.gen[u]
  /\ \A l : l.user = u => (l \in q.loads) = (l \in p.loads)

LEMMA SameTile ==
  ASSUME NEW p, NEW q, NEW u, SameOf(p, q, u)
  PROVE  (TileOK(p, u) => TileOK(q, u)) /\ IsSettled(q, u) = IsSettled(p, u)
<1>1. \A l : l.user = u => ((l \in q.loads) = (l \in p.loads))
  BY DEF SameOf
<1>2. HasNews(q, u) <=> HasNews(p, u)
  BY <1>1 DEF SameOf, HasNews
<1>3. IsSettled(q, u) <=> IsSettled(p, u)
  BY <1>2 DEF SameOf, IsSettled
<1>4. IsSettled(q, u) \in BOOLEAN /\ IsSettled(p, u) \in BOOLEAN
  BY DEF IsSettled, HasNews
<1> QED
  BY <1>1, <1>3, <1>4 DEF SameOf, TileOK

-----------------------------------------------------------------------------
(* What the operations do to tiles and the main picture *)

LEMMA ShowAvatarOK ==
  ASSUME NEW p \in Pics, NEW us \in SUBSET People, NEW q, ShowAvatarMakes(p, us, q),
         \A u \in People \ us : TileOK(p, u)
  PROVE  TilesOK(q) /\ (MainOK(p) \/ p.main \in us => MainOK(q))
<1>1. ShowAvatarMakes(p, us, q)
  OBVIOUS
<1>2. \A u \in People \ us : SameOf(p, q, u)
  BY <1>1 DEF ShowAvatarMakes, SameOf
<1>3. \A u \in us : u \notin q.live /\ ~IsSettled(q, u)
  BY <1>1 DEF ShowAvatarMakes, IsSettled
<1>4. \A u \in us : TileOK(q, u)
  BY <1>1, <1>3 DEF ShowAvatarMakes, TileOK
<1>5. TilesOK(q)
  BY <1>2, <1>4, SameTile DEF TilesOK
<1>6. CASE p.main \in us
  BY <1>1, <1>3, <1>5, <1>6 DEF ShowAvatarMakes, MainOK
<1>7. CASE p.main \notin us /\ MainOK(p)
  <2>1. CASE p.main \in People
    <3>1. /\ SameOf(p, q, p.main) /\ IsSettled(q, p.main) = IsSettled(p, p.main)
      BY <1>2, <1>7, <2>1, SameTile
    <3>2. /\ p.main \in q.live \/ IsSettled(q, q.main) => p.main \in p.live \/ IsSettled(p, p.main)
          /\ q.tile[p.main] = p.tile[p.main]
      BY <1>1, <3>1 DEF ShowAvatarMakes, SameOf
    <3>3. p.main \in p.live \/ IsSettled(p, p.main) =>
            p.screen[1] = p.main /\ (p.main \in p.shown => p.screen = <<p.main, p.tile[p.main]>>)
      BY <1>7 DEF MainOK
    <3>4. p.main \in q.live \/ IsSettled(q, p.main) =>
            q.screen[1] = p.main /\ (p.main \in q.shown => q.screen = <<p.main, q.tile[p.main]>>)
      BY <1>1, <1>7, <3>2, <3>3 DEF ShowAvatarMakes
    <3> QED
      BY <1>1, <1>5, <3>4 DEF ShowAvatarMakes, MainOK
  <2>2. CASE p.main \notin People
    <3>1. \A l \in q.loads \cup p.loads : l.user \in People
      BY <1>1, PicsFields DEF ShowAvatarMakes, LoadSet
    <3>2. ~HasNews(q, p.main) /\ ~HasNews(p, p.main)
      BY <2>2, <3>1 DEF HasNews
    <3>3. p.main \notin q.live \cup q.shown \cup q.failed \cup q.mixed \cup p.failed \cup p.mixed
      BY <1>1, <2>2, PicsFields DEF ShowAvatarMakes
    <3>4. IsSettled(p, p.main)
      BY <3>2, <3>3 DEF IsSettled
    <3>5. q.screen[1] = q.main /\ q.main \notin q.shown
      BY <1>1, <1>7, <3>3, <3>4 DEF ShowAvatarMakes, MainOK
    <3> QED
      BY <1>5, <3>5 DEF MainOK
  <2> QED
    BY <2>1, <2>2
<1> QED
  BY <1>5, <1>6, <1>7

(* ShowMainAvatar puts the main picture right, whatever it was.              *)
LEMMA ShowMainOK ==
  ASSUME NEW p \in Pics, NEW q, q = ShowMainAvatar(p), TilesOK(p)
  PROVE  /\ q \in Pics /\ TilesOK(q) /\ (p.main \in People => MainOK(q))
         /\ q.shown = p.shown /\ q.live = p.live /\ q.main = p.main
<1>1. CASE p.main = Nobody
  <2>1. q = p
    BY <1>1, PicsFields, PeopleAreDistinct DEF ShowMainAvatar, People
  <2> QED
    BY <1>1, <2>1, PeopleAreDistinct DEF People
<1>2. CASE p.main # Nobody /\ p.main \in p.live
  <2>1. q = [p EXCEPT !.screen = <<p.main, Video>>]
    BY <1>2 DEF ShowMainAvatar
  <2>2. <<p.main, Video>> \in (People \cup {Nobody}) \X Picture
    BY Pictures, PicsFields
  <2>3. /\ q \in Pics /\ q.shown = p.shown /\ q.url = p.url /\ q.live = p.live /\ q.gen = p.gen
        /\ q.loads = p.loads /\ q.main = p.main /\ q.chosen = p.chosen
        /\ q.failed = p.failed /\ q.mixed = p.mixed /\ q.tile = p.tile
        /\ q.screen = <<p.main, Video>>
    BY <2>1, <2>2 DEF Pics
  <2>4. \A u \in People : SameOf(p, q, u)
    BY <2>3 DEF SameOf
  <2>5. TilesOK(q)
    BY <2>4, SameTile DEF TilesOK
  <2>6. TileOK(p, p.main)
    BY <1>2, PicsFields DEF TilesOK
  <2>7. MainOK(q)
    BY <1>2, <2>3, <2>6 DEF MainOK, TileOK
  <2> QED
    BY <2>3, <2>5, <2>7
<1>3. CASE p.main # Nobody /\ p.main \notin p.live
  <2> DEFINE us == {p.main}
  <2>1. us \in SUBSET People
    BY <1>3, PicsFields
  <2>2. q = Load(p, us)
    BY <1>3, PicsFields, PeopleAreDistinct DEF ShowMainAvatar, People
  <2> HIDE DEF us
  <2>3. LoadMakes(p, us, q)
    BY <2>1, <2>2, LoadLemma
  <2>4. \A u \in People \ us : SameOf(p, q, u)
    BY <2>3 DEF LoadMakes, SameOf
  <2>5. \A u \in us : u \notin q.live /\ ~IsSettled(q, u)
    BY <1>3, <2>3 DEF LoadMakes, IsSettled, us
  <2>6. \A u \in us : TileOK(q, u)
    BY <2>3, <2>5 DEF LoadMakes, TileOK
  <2>7. TilesOK(q)
    BY <2>4, <2>6, SameTile DEF TilesOK
  <2>8. MainOK(q)
    BY <2>3, <2>5 DEF LoadMakes, MainOK, us
  <2> QED
    BY <2>3, <2>7, <2>8 DEF LoadMakes
<1> QED
  BY <1>1, <1>2, <1>3

LEMMA AddOK ==
  ASSUME NEW p \in Pics, NEW us \in SUBSET People, NEW q, q = Add(p, us), TilesOK(p)
  PROVE  /\ q \in Pics /\ TilesOK(q) /\ (MainOK(p) => MainOK(q))
         /\ q.shown = p.shown \cup us /\ q.live = p.live \ (us \ p.shown) /\ q.main = p.main
         /\ q.chosen = p.chosen
<1> DEFINE v == [p EXCEPT !.shown = @ \cup us]
           new == us \ p.shown
<1>1. /\ v \in Pics /\ v.live = p.live /\ v.shown = p.shown \cup us /\ v.url = p.url
      /\ v.main = p.main /\ v.chosen = p.chosen /\ v.mixed = p.mixed /\ v.failed = p.failed
      /\ v.screen = p.screen /\ v.tile = p.tile /\ v.gen = p.gen /\ v.loads = p.loads
  BY DEF Pics
<1>2. q = ShowAvatar(v, new) /\ new \in SUBSET People
  BY DEF Add
<1> HIDE DEF v, new
<1>3. \A u \in People \ new : SameOf(p, v, u)
  BY <1>1 DEF SameOf, new
<1>4. \A u \in People \ new : TileOK(v, u)
  BY <1>3, SameTile DEF TilesOK
<1>8. v \in Pics
  BY <1>1
<1>5. ShowAvatarMakes(v, new, q)
  BY <1>8, <1>2, ShowAvatarLemma
<1>6. TilesOK(q) /\ (MainOK(v) \/ v.main \in new => MainOK(q))
  BY <1>8, <1>2, <1>4, <1>5, ShowAvatarOK
<1>7. ASSUME MainOK(p), v.main \notin new
      PROVE  MainOK(v)
  <2>1. HasNews(p, p.main) <=> HasNews(v, v.main)
    BY <1>1 DEF HasNews
  <2>2. IsSettled(p, p.main) <=> IsSettled(v, v.main)
    BY <1>1, <2>1 DEF IsSettled
  <2>3. p.main \in v.shown => p.main \in p.shown
    BY <1>1, <1>7 DEF new
  <2> QED
    BY <1>1, <1>7, <2>2, <2>3 DEF MainOK
<1> QED
  BY <1>1, <1>5, <1>6, <1>7 DEF new, ShowAvatarMakes

(* What a window forgets of users concerns nobody else, and the users it     *)
(* forgets are not shown.                                                    *)
LEMMA ForgetFields ==
  ASSUME NEW p \in Pics, NEW us \in SUBSET People, NEW q, q = Forget(p, us)
  PROVE  /\ q \in Pics
         /\ q.shown = p.shown \ us /\ q.live = p.live \ us
         /\ q.main = p.main /\ q.screen = p.screen /\ q.failed = p.failed
         /\ q.mixed = p.mixed \ us
         /\ \A u \in People \ us : /\ q.url[u] = p.url[u] /\ q.gen[u] = p.gen[u]
                                   /\ q.tile[u] = p.tile[u]
         /\ \A l \in q.loads : l.user \in us => l.old
         /\ \A l : l.user \notin us => ((l \in q.loads) <=> (l \in p.loads))
<1> DEFINE Aged(l) == [l EXCEPT !.old = @ \/ l.user \in us]
           ls == {Aged(l) : l \in p.loads}
           url == At(p.url, us, 0)
           gen == At(p.gen, us, 0)
           tile == At(p.tile, us, Blank)
<1>1. \A l \in p.loads : /\ Aged(l) \in LoadSet /\ Aged(l).user = l.user
                         /\ l.user \in us => Aged(l).old
                         /\ l.user \notin us => Aged(l) = l
  <2> TAKE l \in p.loads
  <2>1. l \in LoadSet
    BY PicsFields
  <2>2. Aged(l) = [l EXCEPT !.old = l.old \/ l.user \in us]
    OBVIOUS
  <2>3. (l.old \/ l.user \in us) \in BOOLEAN
    OBVIOUS
  <2>4. Aged(l) \in LoadSet /\ Aged(l).user = l.user /\ Aged(l).old = (l.old \/ l.user \in us)
    BY <2>1, <2>2, <2>3 DEF LoadSet
  <2>5. l.user \notin us => Aged(l) = l
    BY <2>1, <2>2 DEF LoadSet
  <2> QED
    BY <2>4, <2>5
<1> HIDE DEF Aged
<1>2. ls \in SUBSET LoadSet
  BY <1>1
<1>3. \A l \in ls : l.user \in us => l.old
  BY <1>1
<1>4. \A l : l.user \notin us => ((l \in ls) <=> (l \in p.loads))
  BY <1>1
<1>5. /\ url \in [People -> Nat] /\ gen \in [People -> Nat] /\ tile \in [People -> Picture]
      /\ \A u \in People \ us : url[u] = p.url[u] /\ gen[u] = p.gen[u] /\ tile[u] = p.tile[u]
  BY PicsFields, Pictures DEF At
<1>6. q = [p EXCEPT !.shown = p.shown \ us, !.live = p.live \ us, !.url = url, !.gen = gen,
                    !.tile = tile, !.loads = ls, !.mixed = p.mixed \ us]
  BY DEF Forget, Aged
<1> HIDE DEF ls, url, gen, tile
<1> DEFINE shown == p.shown \ us
           live == p.live \ us
           mixed == p.mixed \ us
<1>8. shown \in SUBSET People /\ live \in SUBSET People /\ mixed \in SUBSET People
  BY PicsFields
<1>9. q = [p EXCEPT !.shown = shown, !.live = live, !.url = url, !.gen = gen,
                    !.tile = tile, !.loads = ls, !.mixed = mixed]
  BY <1>6
<1> HIDE DEF shown, live, mixed
<1> DEFINE v == [p EXCEPT !.shown = shown, !.live = live, !.mixed = mixed]
<1>10. /\ v.shown = shown /\ v.live = live /\ v.mixed = mixed
       /\ v.main = p.main /\ v.screen = p.screen /\ v.failed = p.failed
  BY DEF Pics
<1>11. v \in Pics
  BY <1>8 DEF Pics
<1>12. q = [v EXCEPT !.url = url, !.gen = gen, !.tile = tile, !.loads = ls]
  BY <1>9, Zenon
<1> HIDE DEF v
<1>13. /\ url \in [People -> Nat] /\ gen \in [People -> Nat] /\ tile \in [People -> Picture]
  BY <1>5
<1>14. q \in Pics
  BY <1>2, <1>11, <1>12, <1>13 DEF Pics
<1>15. /\ q.shown = v.shown /\ q.live = v.live
       /\ q.main = v.main /\ q.screen = v.screen /\ q.failed = v.failed /\ q.mixed = v.mixed
       /\ q.url = url /\ q.gen = gen /\ q.tile = tile /\ q.loads = ls
  BY <1>11, <1>12 DEF Pics
<1> QED
  BY <1>3, <1>4, <1>5, <1>10, <1>14, <1>15 DEF shown, live, mixed

LEMMA ForgetOK ==
  ASSUME NEW p \in Pics, NEW us \in SUBSET People, NEW q, q = Forget(p, us), TilesOK(p)
  PROVE  TilesOK(q) /\ (MainOK(p) /\ p.main \notin us => MainOK(q))
<1>1. /\ q.shown = p.shown \ us /\ q.live = p.live \ us
      /\ q.main = p.main /\ q.screen = p.screen /\ q.failed = p.failed
      /\ q.mixed = p.mixed \ us
      /\ \A u \in People \ us : /\ q.url[u] = p.url[u] /\ q.gen[u] = p.gen[u]
                                /\ q.tile[u] = p.tile[u]
      /\ \A l \in q.loads : l.user \in us => l.old
      /\ \A l : l.user \notin us => ((l \in q.loads) <=> (l \in p.loads))
  BY ForgetFields
<1>2. \A u \in People \ us : SameOf(p, q, u)
  BY <1>1 DEF SameOf
<1>3. \A u \in us : TileOK(q, u)
  BY <1>1 DEF TileOK
<1>4. TilesOK(q)
  BY <1>2, <1>3, SameTile DEF TilesOK
<1>5. ASSUME MainOK(p), p.main \notin us
      PROVE  MainOK(q)
  <2>1. HasNews(q, q.main) <=> \E l \in q.loads : l.user = p.main /\ l.gen = q.gen[p.main] /\ ~l.old
    BY <1>1 DEF HasNews
  <2>2. CASE p.main \in People
    <3>1. SameOf(p, q, p.main) /\ IsSettled(q, p.main) = IsSettled(p, p.main)
      BY <1>2, <1>5, <2>2, SameTile
    <3>2. /\ p.main \in q.live \/ IsSettled(q, q.main) => p.main \in p.live \/ IsSettled(p, p.main)
          /\ q.tile[p.main] = p.tile[p.main]
      BY <1>1, <3>1 DEF SameOf
    <3>3. p.main \in p.live \/ IsSettled(p, p.main) =>
            p.screen[1] = p.main /\ (p.main \in p.shown => p.screen = <<p.main, p.tile[p.main]>>)
      BY <1>5 DEF MainOK
    <3> QED
      BY <1>1, <1>5, <3>2, <3>3 DEF MainOK
  <2>3. CASE p.main \notin People
    <3>1. \A l \in p.loads : l.user # p.main
      BY <2>3, PicsFields DEF LoadSet
    <3>2. ~HasNews(p, p.main)
      BY <3>1 DEF HasNews
    <3>3. p.main \notin p.failed \cup p.mixed
      BY <2>3, PicsFields
    <3>4. IsSettled(p, p.main) /\ p.main \notin q.shown
      BY <1>1, <2>3, <3>2, <3>3, PicsFields DEF IsSettled
    <3> QED
      BY <1>1, <1>5, <3>4 DEF MainOK
  <2> QED
    BY <2>2, <2>3
<1> QED
  BY <1>4, <1>5

LEMMA ShowVideoOK ==
  ASSUME NEW p \in Pics, NEW u \in People, NEW q, q = ShowVideo(p, u), TilesOK(p)
  PROVE  /\ q \in Pics /\ TilesOK(q) /\ (MainOK(p) => MainOK(q))
         /\ q.shown = p.shown /\ q.live = p.live \cup {u} /\ q.main = p.main
<1> DEFINE v == [p EXCEPT !.live = @ \cup {u}]
           us == {u}
<1>1. /\ v \in Pics /\ v.live = p.live \cup us /\ v.shown = p.shown /\ v.url = p.url
      /\ v.main = p.main /\ v.chosen = p.chosen /\ v.mixed = p.mixed /\ v.failed = p.failed
      /\ v.screen = p.screen /\ v.tile = p.tile /\ v.gen = p.gen /\ v.loads = p.loads
  BY DEF Pics
<1>2. q = Put(v, us, Video) /\ us \in SUBSET People
  BY DEF ShowVideo
<1> HIDE DEF v
<1>8. v \in Pics
  BY <1>1
<1>3. PutMakes(v, us, Video, q)
  BY <1>8, <1>2, PutLemma, Pictures
<1>4. \A w \in People \ us : SameOf(p, q, w)
  BY <1>1, <1>3 DEF PutMakes, SameOf
<1>5. TileOK(q, u)
  <2>1. TileOK(p, u)
    BY DEF TilesOK
  <2>2. u \in q.live
    BY <1>1, <1>3 DEF PutMakes
  <2>3. u \in q.shown => q.tile[u] = Video
    BY <1>1, <1>3 DEF PutMakes
  <2>4. CASE u \in q.shown
    BY <2>2, <2>3, <2>4 DEF TileOK
  <2>5. CASE u \notin q.shown
    <3>1. u \notin p.shown /\ q.loads = p.loads /\ q.gen = p.gen /\ q.url = p.url
      BY <1>1, <1>3, <2>5 DEF PutMakes
    <3> QED
      BY <2>1, <2>5, <3>1 DEF TileOK
  <2> QED
    BY <2>4, <2>5
<1>6. TilesOK(q)
  BY <1>4, <1>5, SameTile DEF TilesOK
<1>7. ASSUME MainOK(p)
      PROVE  MainOK(q)
  <2>1. CASE p.main = u
    BY <1>1, <1>3, <2>1 DEF PutMakes, MainOK
  <2>2. CASE p.main # u
    <3>1. HasNews(p, p.main) <=> HasNews(q, q.main)
      BY <1>1, <1>3 DEF PutMakes, HasNews
    <3>2. IsSettled(p, p.main) <=> IsSettled(q, q.main)
      BY <1>1, <1>3, <3>1 DEF PutMakes, IsSettled
    <3>3. q.screen = p.screen /\ ((q.main \in q.live) <=> (p.main \in p.live))
      BY <1>1, <1>3, <2>2 DEF PutMakes
    <3>4. q.main \in q.shown => q.tile[q.main] = p.tile[p.main]
      BY <1>1, <1>3, <2>2, PicsFields DEF PutMakes
    <3> QED
      BY <1>1, <1>3, <1>7, <3>2, <3>3, <3>4 DEF PutMakes, MainOK
  <2> QED
    BY <2>1, <2>2
<1> QED
  BY <1>1, <1>3, <1>6, <1>7 DEF PutMakes

LEMMA CloseVideoOK ==
  ASSUME NEW p \in Pics, NEW u \in People, NEW q, q = CloseVideo(p, u), TilesOK(p)
  PROVE  /\ q \in Pics /\ TilesOK(q) /\ (MainOK(p) => MainOK(q))
         /\ q.shown = p.shown /\ q.live = p.live \ ({u} \cap p.shown) /\ q.main = p.main
<1>1. CASE u \in p.shown
  <2>1. ShowAvatarMakes(p, {u}, q) /\ {u} \in SUBSET People
    <3>1. q = ShowAvatar(p, {u}) /\ {u} \in SUBSET People
      BY <1>1 DEF CloseVideo
    <3> QED
      BY <3>1, ShowAvatarLemma
  <2>2. \A w \in People \ {u} : TileOK(p, w)
    BY DEF TilesOK
  <2>3. TilesOK(q) /\ (MainOK(p) => MainOK(q))
    BY <2>1, <2>2, ShowAvatarOK
  <2> QED
    BY <1>1, <2>1, <2>3 DEF ShowAvatarMakes
<1>2. CASE u \notin p.shown
  <2>1. q = p
    BY <1>2 DEF CloseVideo
  <2> QED
    BY <1>2, <2>1
<1> QED
  BY <1>1, <1>2

(* Who is given a new avatar and shown by it, or has the window's video.     *)
LEMMA ProfileOK ==
  ASSUME NEW p \in Pics, NEW u \in People, NEW v \in Nat, NEW q, q = ApplyProfile(p, u, v),
         TilesOK(p)
  PROVE  /\ q \in Pics /\ TilesOK(q) /\ (MainOK(p) => MainOK(q))
         /\ q.shown = p.shown \cup {u} /\ q.live \subseteq p.live /\ q.main = p.main
         /\ p.live \ {u} \subseteq q.live
<1> DEFINE a == Add(p, {u})
           b == [a EXCEPT !.url[u] = v]
<1>1. /\ a \in Pics /\ TilesOK(a) /\ (MainOK(p) => MainOK(a))
      /\ a.shown = p.shown \cup {u} /\ a.live = p.live \ ({u} \ p.shown) /\ a.main = p.main
      /\ a.chosen = p.chosen
  BY AddOK
<1>2. q = IF u \in b.live THEN b
          ELSE IF u = b.chosen THEN ShowMainAvatar(ShowAvatar(b, {u}))
          ELSE ShowAvatar(b, {u})
  BY DEF ApplyProfile
<1> HIDE DEF a
<1>3. /\ b \in Pics /\ b.live = a.live /\ b.shown = a.shown
      /\ b.main = a.main /\ b.chosen = a.chosen /\ b.mixed = a.mixed /\ b.failed = a.failed
      /\ b.screen = a.screen /\ b.tile = a.tile /\ b.gen = a.gen /\ b.loads = a.loads
      /\ \A w \in People \ {u} : b.url[w] = a.url[w]
  BY <1>1 DEF Pics
<1> HIDE DEF b
<1>4. \A w \in People \ {u} : TileOK(b, w)
  <2>1. \A w \in People \ {u} : SameOf(a, b, w)
    BY <1>3 DEF SameOf
  <2> QED
    BY <1>1, <2>1, SameTile DEF TilesOK
<1>5. MainOK(p) => MainOK(b)
  <2> HAVE MainOK(p)
  <2>1. HasNews(b, b.main) <=> HasNews(a, a.main)
    BY <1>3 DEF HasNews
  <2>2. IsSettled(b, b.main) <=> IsSettled(a, a.main)
    BY <1>3, <2>1 DEF IsSettled
  <2> QED
    BY <1>1, <1>3, <2>2 DEF MainOK
<1>6. CASE u \in b.live
  <2>1. q = b
    BY <1>2, <1>6
  <2>2. TileOK(a, u) /\ u \in a.shown
    BY <1>1 DEF TilesOK
  <2>3. TileOK(b, u)
    BY <1>3, <1>6, <2>2 DEF TileOK
  <2> QED
    BY <1>1, <1>3, <1>4, <1>5, <2>1, <2>3 DEF TilesOK
<1>7. CASE u \notin b.live
  <2>1. PICK c : c = ShowAvatar(b, {u})
    OBVIOUS
  <2>6. b \in Pics /\ {u} \in SUBSET People
    BY <1>3
  <2>7. ShowAvatarMakes(b, {u}, c)
    BY <2>1, <2>6, ShowAvatarLemma
  <2>2. TilesOK(c) /\ (MainOK(b) => MainOK(c))
    BY <1>4, <2>6, <2>7, ShowAvatarOK
  <2>3. c \in Pics /\ c.shown = b.shown /\ c.live = b.live \ {u} /\ c.main = b.main
    BY <2>7 DEF ShowAvatarMakes
  <2>4. CASE u = b.chosen
    <3>1. q = ShowMainAvatar(c)
      BY <1>2, <1>7, <2>1, <2>4
    <3>2. /\ q \in Pics /\ TilesOK(q) /\ (c.main \in People => MainOK(q))
          /\ q.shown = c.shown /\ q.live = c.live /\ q.main = c.main
      BY <2>2, <2>3, <3>1, ShowMainOK
    <3>3. MainOK(c) /\ c.main \notin People => MainOK(q)
      <4> HAVE MainOK(c) /\ c.main \notin People
      <4>1. c.main = Nobody
        BY <2>3, PicsFields
      <4>2. q = c
        BY <2>3, <3>1, <4>1, PicsFields, PeopleAreDistinct DEF ShowMainAvatar, People
      <4> QED
        BY <4>2
    <3> QED
      BY <1>1, <1>3, <1>5, <2>2, <2>3, <3>2, <3>3
  <2>5. CASE u # b.chosen
    <3>1. q = c
      BY <1>2, <1>7, <2>1, <2>5
    <3> QED
      BY <1>1, <1>3, <1>5, <2>2, <2>3, <3>1
  <2> QED
    BY <2>4, <2>5
<1> QED
  BY <1>6, <1>7

(* The reply that counts is of the load that was asked for last, and brings  *)
(* the present avatar unless it is of an earlier stay.                       *)
LEMMA ReplyOK ==
  ASSUME NEW p \in Pics, NEW l \in p.loads, NEW x \in {Avatar(l.url), Avatar(0), Blank}, NEW q,
         q = Reply(p, l, x), TilesOK(p)
  PROVE  /\ q \in Pics /\ TilesOK(q) /\ (MainOK(p) => MainOK(q))
         /\ q.shown = p.shown /\ q.live = p.live /\ q.main = p.main
<1> DEFINE r == [p EXCEPT !.loads = @ \ {l}]
           u == l.user
<1>1. l \in LoadSet /\ u \in People /\ u # Nobody /\ {u} \in SUBSET People
  BY PicsFields, PeopleAreDistinct DEF LoadSet, People
<1>2. x \in Picture
  BY <1>1, Pictures DEF LoadSet
<1>3. /\ r.live = p.live /\ r.shown = p.shown /\ r.url = p.url
      /\ r.main = p.main /\ r.chosen = p.chosen /\ r.mixed = p.mixed /\ r.failed = p.failed
      /\ r.screen = p.screen /\ r.tile = p.tile /\ r.gen = p.gen /\ r.loads = p.loads \ {l}
  BY DEF Pics
<1>4. r \in Pics
  BY DEF Pics
<1>5. q = IF l.gen # p.gen[u] \/ u \in p.live THEN r
          ELSE IF x = Blank THEN [r EXCEPT !.failed = @ \cup {u}]
          ELSE [Put(r, {u}, x) EXCEPT
                  !.failed = @ \ {u},
                  !.mixed = IF l.old THEN @ \cup {u} ELSE @ \ {u}]
  BY DEF Reply
<1>6. \A k : k.user # u => ((k \in p.loads \ {l}) <=> (k \in p.loads))
  OBVIOUS
<1> HIDE DEF r
<1>7. CASE l.gen # p.gen[u] \/ u \in p.live
  <2>1. q = r
    BY <1>5, <1>7
  <2>2. \A w \in People \ {u} : SameOf(p, q, w)
    BY <1>3, <1>6, <2>1 DEF SameOf
  <2>3. TileOK(p, u)
    BY <1>1 DEF TilesOK
  <2>4. (HasNews(q, u) <=> HasNews(p, u)) \/ u \in p.live
    BY <1>3, <1>7, <2>1 DEF HasNews
  <2>5. (IsSettled(q, u) <=> IsSettled(p, u)) \/ u \in p.live
    BY <1>3, <2>1, <2>4 DEF IsSettled
  <2>6. TileOK(q, u)
    BY <1>3, <2>1, <2>3, <2>5 DEF TileOK
  <2>7. TilesOK(q)
    BY <2>2, <2>6, SameTile DEF TilesOK
  <2>8. MainOK(p) => MainOK(q)
    <3>1. CASE p.main = u
      BY <1>3, <2>1, <2>5, <3>1 DEF MainOK
    <3>2. CASE p.main # u
      <4>1. HasNews(q, p.main) <=> HasNews(p, p.main)
        BY <1>3, <1>6, <2>1, <3>2 DEF HasNews
      <4>2. IsSettled(q, p.main) <=> IsSettled(p, p.main)
        BY <1>3, <2>1, <4>1 DEF IsSettled
      <4> QED
        BY <1>3, <2>1, <4>2 DEF MainOK
    <3> QED
      BY <3>1, <3>2
  <2> QED
    BY <1>3, <1>4, <2>1, <2>7, <2>8
<1>8. CASE l.gen = p.gen[u] /\ u \notin p.live /\ x = Blank
  <2>1. q = [r EXCEPT !.failed = r.failed \cup {u}]
    BY <1>5, <1>8
  <2>2. r.failed \cup {u} \in SUBSET People
    BY <1>1, <1>4, PicsFields
  <2>3. /\ q \in Pics /\ q.live = r.live /\ q.shown = r.shown /\ q.url = r.url
        /\ q.main = r.main /\ q.mixed = r.mixed /\ q.failed = r.failed \cup {u}
        /\ q.screen = r.screen /\ q.tile = r.tile /\ q.gen = r.gen /\ q.loads = r.loads
    BY <1>4, <2>1, <2>2 DEF Pics
  <2>4. \A w \in People \ {u} : SameOf(p, q, w)
    BY <1>3, <1>6, <2>3 DEF SameOf
  <2>5. TileOK(p, u)
    BY <1>1 DEF TilesOK
  <2>6. ~IsSettled(q, u)
    BY <2>3 DEF IsSettled
  <2>7. TileOK(q, u)
    BY <1>3, <1>8, <2>3, <2>5, <2>6 DEF TileOK
  <2>8. TilesOK(q)
    BY <2>4, <2>7, SameTile DEF TilesOK
  <2>9. MainOK(p) => MainOK(q)
    <3>1. CASE p.main = u
      <4>1. q.main = u /\ u \notin q.live
        BY <1>3, <1>8, <2>3, <3>1
      <4> QED
        BY <2>6, <4>1 DEF MainOK
    <3>2. CASE p.main # u
      <4>1. HasNews(q, p.main) <=> HasNews(p, p.main)
        BY <1>3, <1>6, <2>3, <3>2 DEF HasNews
      <4>2. IsSettled(q, p.main) <=> IsSettled(p, p.main)
        BY <1>3, <2>3, <3>2, <4>1 DEF IsSettled
      <4> QED
        BY <1>3, <2>3, <4>2 DEF MainOK
    <3> QED
      BY <3>1, <3>2
  <2> QED
    BY <1>3, <2>3, <2>8, <2>9
<1>9. CASE l.gen = p.gen[u] /\ u \notin p.live /\ x # Blank
  <2> DEFINE c == Put(r, {u}, x)
             mixed == IF l.old THEN c.mixed \cup {u} ELSE c.mixed \ {u}
             failed == c.failed \ {u}
  <2>1. q = [c EXCEPT !.failed = failed, !.mixed = mixed]
    BY <1>5, <1>9
  <2>2. PutMakes(r, {u}, x, c)
    BY <1>1, <1>2, <1>4, PutLemma
  <2> HIDE DEF c
  <2>3. failed \in SUBSET People /\ mixed \in SUBSET People /\ c \in Pics
    BY <1>1, <2>2, PicsFields DEF PutMakes
  <2>4. /\ (u \in mixed) = l.old /\ u \notin failed
        /\ \A w \in People \ {u} : /\ (w \in mixed) = (w \in c.mixed)
                                   /\ (w \in failed) = (w \in c.failed)
    BY <1>1 DEF LoadSet
  <2> HIDE DEF mixed, failed
  <2>5. /\ q \in Pics /\ q.live = c.live /\ q.shown = c.shown /\ q.url = c.url
        /\ q.main = c.main /\ q.mixed = mixed /\ q.failed = failed
        /\ q.screen = c.screen /\ q.tile = c.tile /\ q.gen = c.gen /\ q.loads = c.loads
    BY <2>1, <2>3 DEF Pics
  <2>6. \A w \in People \ {u} : SameOf(p, q, w)
    <3>1. \A w \in People \ {u} : q.tile[w] = p.tile[w]
      BY <1>3, <2>2, <2>5 DEF PutMakes
    <3> QED
      BY <1>3, <1>6, <2>2, <2>4, <2>5, <3>1 DEF SameOf, PutMakes
  <2>7. TileOK(p, u)
    BY <1>1 DEF TilesOK
  <2>8. ~l.old => l.url = p.url[u]
    BY <1>9, <2>7 DEF TileOK
  <2>9. ~l.old => x \in {Avatar(p.url[u]), Avatar(0)}
    BY <1>9, <2>8
  <2>10. IsSettled(q, u) => ~l.old
    BY <2>4, <2>5 DEF IsSettled
  <2>11. u \in q.shown => q.tile[u] = x
    BY <1>3, <2>2, <2>5 DEF PutMakes
  <2>12. /\ q.shown = p.shown /\ q.live = p.live /\ q.url = p.url /\ q.gen = p.gen
         /\ q.loads = p.loads \ {l} /\ q.main = p.main
    BY <1>3, <2>2, <2>5 DEF PutMakes
  <2>13. TileOK(q, u)
    BY <1>9, <2>7, <2>9, <2>10, <2>11, <2>12 DEF TileOK
  <2>14. TilesOK(q)
    BY <2>6, <2>13, SameTile DEF TilesOK
  <2>15. MainOK(p) => MainOK(q)
    <3>1. CASE p.main = u
      <4>1. q.screen = <<u, x>> /\ q.main = u
        BY <1>3, <2>2, <2>5, <3>1 DEF PutMakes
      <4> QED
        BY <2>11, <4>1 DEF MainOK
    <3>2. CASE p.main # u
      <4>1. q.screen = p.screen
        BY <1>3, <2>2, <2>5, <3>2 DEF PutMakes
      <4>2. CASE p.main \in People
        <5>1. SameOf(p, q, p.main) /\ IsSettled(q, p.main) = IsSettled(p, p.main)
          BY <2>6, <3>2, <4>2, SameTile
        <5>2. q.tile[p.main] = p.tile[p.main]
          BY <5>1 DEF SameOf
        <5> QED
          BY <2>12, <4>1, <5>1, <5>2 DEF MainOK
      <4>3. CASE p.main \notin People
        <5>1. \A k \in p.loads : k.user # p.main
          BY <4>3, PicsFields DEF LoadSet
        <5>2. ~HasNews(p, p.main)
          BY <5>1 DEF HasNews
        <5>3. IsSettled(p, p.main) /\ p.main \notin p.shown
          BY <4>3, <5>2, PicsFields DEF IsSettled
        <5> QED
          BY <2>12, <4>1, <5>3 DEF MainOK
      <4> QED
        BY <4>2, <4>3
    <3> QED
      BY <3>1, <3>2
  <2> QED
    BY <2>5, <2>12, <2>14, <2>15
<1> QED
  BY <1>7, <1>8, <1>9

LEMMA RemoveOK ==
  ASSUME NEW p \in Pics, NEW u \in People, NEW q, q = RemovePartner(p, u), TilesOK(p)
  PROVE  /\ q \in Pics /\ TilesOK(q) /\ (MainOK(p) /\ p.main # u => MainOK(q))
         /\ q.shown = p.shown \ {u} /\ q.live = p.live \ ({u} \cap p.shown) /\ q.main = p.main
<1>1. CASE u \in p.shown
  <2>1. q = Forget(p, {u}) /\ {u} \in SUBSET People
    BY <1>1 DEF RemovePartner
  <2>2. TilesOK(q) /\ (MainOK(p) /\ p.main \notin {u} => MainOK(q))
    BY <2>1, ForgetOK
  <2>3. q \in Pics /\ q.shown = p.shown \ {u} /\ q.live = p.live \ {u} /\ q.main = p.main
    BY <2>1, ForgetFields
  <2> QED
    BY <1>1, <2>2, <2>3
<1>2. CASE u \notin p.shown
  <2>1. q = p
    BY <1>2 DEF RemovePartner
  <2> QED
    BY <1>2, <2>1
<1> QED
  BY <1>1, <1>2

(* The end of a meeting leaves nothing on the screen.                        *)
LEMMA EndOK ==
  ASSUME NEW p \in Pics, NEW q, q = Clear(EndVideo(p)), TilesOK(p)
  PROVE  q \in Pics /\ TilesOK(q) /\ q.shown = {} /\ q.live = {}
<1> DEFINE e == EndVideo(p)
           t == [u \in People |-> Blank]
<1>1. t \in [People -> Picture] /\ <<Nobody, Blank>> \in (People \cup {Nobody}) \X Picture
  BY Pictures
<1>2. e = [p EXCEPT !.live = {}, !.tile = t, !.screen = <<Nobody, Blank>>]
  BY DEF EndVideo
<1> HIDE DEF e, t
<1>3. /\ e \in Pics /\ e.live = {} /\ e.shown = p.shown /\ e.loads = p.loads /\ e.gen = p.gen
      /\ e.url = p.url
  BY <1>1, <1>2 DEF Pics
<1>4. q = Clear(e)
  BY DEF e
<1>5. CASE e.shown = {}
  <2>1. q = e
    BY <1>4, <1>5 DEF Clear
  <2>2. \A u \in People : TileOK(e, u)
    BY <1>3, <1>5 DEF TilesOK, TileOK
  <2> QED
    BY <1>3, <1>5, <2>1, <2>2 DEF TilesOK
<1>6. CASE e.shown # {}
  <2> DEFINE f == Forget(e, People)
  <2>1. PICK g : g = f
    OBVIOUS
  <2>2. People \in SUBSET People
    OBVIOUS
  <2>3. /\ g \in Pics
        /\ g.shown = e.shown \ People /\ g.live = e.live \ People
        /\ \A l \in g.loads : l.user \in People => l.old
    BY <1>3, <2>1, <2>2, ForgetFields
  <2>4. q = [g EXCEPT !.chosen = Nobody]
    BY <1>4, <1>6, <2>1 DEF Clear
  <2>5. /\ q \in Pics /\ q.shown = g.shown /\ q.live = g.live /\ q.loads = g.loads
    BY <2>3, <2>4 DEF Pics
  <2>6. q.shown = {} /\ q.live = {}
    BY <1>3, <2>3, <2>5, PicsFields
  <2>7. \A u \in People : TileOK(q, u)
    BY <2>3, <2>5, <2>6 DEF TileOK
  <2> QED
    BY <2>5, <2>6, <2>7 DEF TilesOK
<1> QED
  BY <1>5, <1>6

LEMMA ComersOK ==
  ASSUME NEW p \in Pics, NEW us \in SUBSET People, NEW q, q = ShowAvatar(Add(p, us), us),
         TilesOK(p)
  PROVE  /\ q \in Pics /\ TilesOK(q) /\ (MainOK(p) => MainOK(q))
         /\ q.shown = p.shown \cup us /\ q.live = p.live \ us /\ q.main = p.main
<1>1. PICK a : a = Add(p, us)
  OBVIOUS
<1>2. /\ a \in Pics /\ TilesOK(a) /\ (MainOK(p) => MainOK(a))
      /\ a.shown = p.shown \cup us /\ a.live = p.live \ (us \ p.shown) /\ a.main = p.main
  BY <1>1, AddOK
<1>3. ShowAvatarMakes(a, us, q)
  BY <1>1, <1>2, ShowAvatarLemma
<1>4. TilesOK(q) /\ (MainOK(a) => MainOK(q))
  BY <1>2, <1>3, ShowAvatarOK DEF TilesOK
<1> QED
  BY <1>2, <1>3, <1>4 DEF ShowAvatarMakes

(* Only the main picture depends on which member is selected.                *)
LEMMA SelectedOK ==
  ASSUME NEW p \in Pics, NEW q \in Pics, TilesOK(p),
         q.shown = p.shown, q.url = p.url, q.live = p.live, q.gen = p.gen, q.loads = p.loads,
         q.tile = p.tile, q.failed = p.failed, q.mixed = p.mixed
  PROVE  TilesOK(q)
<1>1. \A u \in People : SameOf(p, q, u)
  BY DEF SameOf
<1> QED
  BY <1>1, SameTile DEF TilesOK

LEMMA SelectMainOK ==
  ASSUME NEW p \in Pics, NEW u \in People, NEW q, q = SelectMain(p, u), TilesOK(p)
  PROVE  /\ q \in Pics /\ TilesOK(q) /\ MainOK(q)
         /\ q.shown = p.shown /\ q.live = p.live /\ q.main = u
<1> DEFINE v == [p EXCEPT !.main = u, !.chosen = u]
<1>1. /\ v.live = p.live /\ v.shown = p.shown /\ v.url = p.url /\ v.main = u
      /\ v.mixed = p.mixed /\ v.failed = p.failed /\ v.tile = p.tile /\ v.gen = p.gen
      /\ v.loads = p.loads
  BY DEF Pics
<1>2. v \in Pics
  BY DEF Pics
<1>3. q = ShowMainAvatar(v)
  BY DEF SelectMain
<1> HIDE DEF v
<1>4. TilesOK(v)
  BY <1>1, <1>2, SelectedOK
<1> QED
  BY <1>1, <1>2, <1>3, <1>4, ShowMainOK

LEMMA MeetingStartsOK ==
  ASSUME NEW p \in Pics, NEW v \in Nat, NEW q,
         q = ShowMainAvatar(ApplyProfile([p EXCEPT !.main = Me], Me, v)), TilesOK(p)
  PROVE  /\ q \in Pics /\ TilesOK(q) /\ MainOK(q)
         /\ q.shown = p.shown \cup {Me} /\ q.live \subseteq p.live /\ q.main = Me
<1> DEFINE m == [p EXCEPT !.main = Me]
<1>1. Me \in People
  BY DEF People
<1>2. /\ m.live = p.live /\ m.shown = p.shown /\ m.url = p.url /\ m.main = Me
      /\ m.mixed = p.mixed /\ m.failed = p.failed /\ m.tile = p.tile /\ m.gen = p.gen
      /\ m.loads = p.loads
  BY DEF Pics
<1>3. m \in Pics
  BY <1>1 DEF Pics
<1>4. PICK a : a = ApplyProfile(m, Me, v)
  OBVIOUS
<1>5. q = ShowMainAvatar(a)
  BY <1>4
<1> HIDE DEF m
<1>6. TilesOK(m)
  BY <1>2, <1>3, SelectedOK
<1>7. /\ a \in Pics /\ TilesOK(a)
      /\ a.shown = m.shown \cup {Me} /\ a.live \subseteq m.live /\ a.main = m.main
  BY <1>1, <1>3, <1>4, <1>6, ProfileOK
<1>8. /\ q \in Pics /\ TilesOK(q) /\ (a.main \in People => MainOK(q))
      /\ q.shown = a.shown /\ q.live = a.live /\ q.main = a.main
  BY <1>5, <1>7, ShowMainOK
<1> QED
  BY <1>1, <1>2, <1>7, <1>8

LEMMA ExitOK ==
  ASSUME NEW p \in Pics, NEW u \in People, NEW q, TilesOK(p),
         q = IF p.main = u THEN ShowMainAvatar(RemovePartner(p, u)) ELSE RemovePartner(p, u)
  PROVE  /\ q \in Pics /\ TilesOK(q) /\ (MainOK(p) => MainOK(q))
         /\ q.shown = p.shown \ {u} /\ q.live = p.live \ ({u} \cap p.shown) /\ q.main = p.main
<1>1. PICK a : a = RemovePartner(p, u)
  OBVIOUS
<1>2. /\ a \in Pics /\ TilesOK(a) /\ (MainOK(p) /\ p.main # u => MainOK(a))
      /\ a.shown = p.shown \ {u} /\ a.live = p.live \ ({u} \cap p.shown) /\ a.main = p.main
  BY <1>1, RemoveOK
<1>3. CASE p.main = u
  <2>1. q = ShowMainAvatar(a)
    BY <1>1, <1>3
  <2>2. /\ q \in Pics /\ TilesOK(q) /\ (a.main \in People => MainOK(q))
        /\ q.shown = a.shown /\ q.live = a.live /\ q.main = a.main
    BY <1>2, <2>1, ShowMainOK
  <2> QED
    BY <1>2, <1>3, <2>2
<1>4. CASE p.main # u
  <2>1. q = a
    BY <1>1, <1>4
  <2> QED
    BY <1>2, <1>4, <2>1
<1> QED
  BY <1>3, <1>4

-----------------------------------------------------------------------------
(* The types and the pictures, action by action, and what an action does to  *)
(* the members with a tile and to those shown by their video                 *)

LEMMA NoticeFields ==
  ASSUME NEW n \in NoticeSet
  PROVE  /\ n.url \in Nat /\ n.users \in SUBSET Users
         /\ n.kind \in OfUser \/ n.kind = "snapshot"
         /\ n.kind \in OfUser => n.user \in Users /\ n.users = {}
         /\ n.kind = "snapshot" => n.user = Nobody
  BY DEF NoticeSet, OfUser

LEMMA NewNotices ==
  /\ \A k \in OfUser, u \in Users, v \in Nat : Notice(k, u, v) \in NoticeSet
  /\ \A us \in SUBSET Users : Snapshot(us) \in NoticeSet
  BY DEF Notice, Snapshot, NoticeSet

LEMMA Announcing ==
  ASSUME notices \in Seq(NoticeSet), NEW n \in NoticeSet, Announce(n)
  PROVE  notices' \in Seq(NoticeSet)
  BY DEF Announce

LEMMA Handling ==
  ASSUME ScreenTypeOK, NEW k, Handles(k)
  PROVE  /\ Head(notices) \in NoticeSet /\ Head(notices).kind = k
         /\ notices' \in Seq(NoticeSet)
         /\ UNCHANGED <<inMeeting, meetings, frames, leaving, room, filming, version, acts>>
<1>1. notices \in Seq(NoticeSet) /\ notices # <<>>
  BY DEF ScreenTypeOK, Handles
<1> QED
  BY <1>1 DEF Handles

LEMMA HandledType ==
  ASSUME ScreenTypeOK, NEW k, Handles(k), pics' \in Pics, LateEnds
  PROVE  ScreenTypeOK'
<1>1. late' \in SUBSET People
  BY DEF LateEnds, ScreenTypeOK
<1> QED
  BY <1>1, Handling DEF ScreenTypeOK

(* Steps of the users, of the server and of the media session.               *)
QuietNext ==
  \/ \E u \in Users : \/ UserJoins(u) \/ UserLeaves(u) \/ UserSendsProfile(u)
                      \/ UserStartsFilming(u) \/ UserStopsFilming(u)
  \/ \E u \in People : MemberFrameArrives(u)
  \/ IStartFilming

LEMMA QuietStep ==
  ASSUME ScreenTypeOK, PicturesInv, QuietNext
  PROVE  ScreenTypeOK' /\ PicturesInv' /\ pics' = pics /\ inMeeting' = inMeeting
<1>1. ASSUME NEW u \in Users, UserJoins(u)
      PROVE  ScreenTypeOK' /\ pics' = pics /\ inMeeting' = inMeeting
  <2>1. Notice("joined", u, 0) \in NoticeSet
    BY NewNotices DEF OfUser
  <2>2. notices' \in Seq(NoticeSet)
    BY <1>1, <2>1, Announcing DEF UserJoins, ScreenTypeOK
  <2> QED
    BY <1>1, <2>2 DEF UserJoins, ScreenTypeOK, Act
<1>2. ASSUME NEW u \in Users, UserLeaves(u)
      PROVE  ScreenTypeOK' /\ pics' = pics /\ inMeeting' = inMeeting
  <2>1. Notice("exited", u, 0) \in NoticeSet
    BY NewNotices DEF OfUser
  <2>2. notices' \in Seq(NoticeSet)
    BY <1>2, <2>1, Announcing DEF UserLeaves, ScreenTypeOK
  <2> QED
    BY <1>2, <2>2 DEF UserLeaves, ScreenTypeOK, Act
<1>3. ASSUME NEW u \in Users, UserSendsProfile(u)
      PROVE  ScreenTypeOK' /\ pics' = pics /\ inMeeting' = inMeeting
  <2>1. version[u] \in Nat
    BY DEF ScreenTypeOK, People
  <2>2. PICK v \in {version[u], version[u] + 1} \cap 1 .. MaxVersion :
          version' = [version EXCEPT ![u] = v] /\ Announce(Notice("profile", u, v))
    BY <1>3 DEF UserSendsProfile
  <2>3. v \in Nat
    BY <2>1, <2>2
  <2>4. Notice("profile", u, v) \in NoticeSet
    BY <2>3, NewNotices DEF OfUser
  <2>5. notices' \in Seq(NoticeSet)
    BY <2>2, <2>4, Announcing DEF ScreenTypeOK
  <2>6. version' \in [People -> Nat]
    BY <2>2, <2>3 DEF ScreenTypeOK
  <2> QED
    BY <1>3, <2>5, <2>6 DEF UserSendsProfile, ScreenTypeOK, Act
<1>4. ASSUME NEW u \in Users, UserStartsFilming(u)
      PROVE  ScreenTypeOK' /\ pics' = pics /\ inMeeting' = inMeeting
  BY <1>4 DEF UserStartsFilming, ScreenTypeOK
<1>5. ASSUME NEW u \in Users, UserStopsFilming(u)
      PROVE  ScreenTypeOK' /\ pics' = pics /\ inMeeting' = inMeeting
  <2>1. Notice("closed", u, 0) \in NoticeSet
    BY NewNotices DEF OfUser
  <2>2. notices' \in Seq(NoticeSet)
    BY <1>5, <2>1, Announcing DEF UserStopsFilming, ScreenTypeOK
  <2> QED
    BY <1>5, <2>2 DEF UserStopsFilming, ScreenTypeOK, Act
<1>6. ASSUME NEW u \in People, MemberFrameArrives(u)
      PROVE  ScreenTypeOK' /\ pics' = pics /\ inMeeting' = inMeeting
  BY <1>6 DEF MemberFrameArrives, ScreenTypeOK
<1>7. IStartFilming => ScreenTypeOK' /\ pics' = pics /\ inMeeting' = inMeeting
  BY DEF IStartFilming, ScreenTypeOK
<1>8. ScreenTypeOK' /\ pics' = pics /\ inMeeting' = inMeeting
  BY <1>1, <1>2, <1>3, <1>4, <1>5, <1>6, <1>7 DEF QuietNext
<1> QED
  BY <1>8 DEF PicturesInv

(* A step of the window that keeps the selected member.                      *)
LEMMA KeepsPictures ==
  ASSUME PicturesInv, inMeeting' = inMeeting, TilesOK(pics'),
         MainOK(pics) => MainOK(pics'), pics'.main = pics.main
  PROVE  PicturesInv'
  BY DEF PicturesInv

LEMMA ShutterStep ==
  ASSUME ScreenTypeOK, PicturesInv, IStopFilming
  PROVE  /\ ScreenTypeOK' /\ PicturesInv'
         /\ pics'.shown = pics.shown /\ pics'.live = pics.live \ ({Me} \cap pics.shown)
<1>1. pics \in Pics /\ TilesOK(pics) /\ Me \in People /\ pics' = CloseVideo(pics, Me)
  BY DEF ScreenTypeOK, PicturesInv, IStopFilming, People
<1>2. /\ pics' \in Pics /\ TilesOK(pics') /\ (MainOK(pics) => MainOK(pics'))
      /\ pics'.shown = pics.shown /\ pics'.live = pics.live \ ({Me} \cap pics.shown)
      /\ pics'.main = pics.main
  BY <1>1, CloseVideoOK
<1>3. inMeeting' = inMeeting
  BY DEF IStopFilming
<1>4. PicturesInv'
  BY <1>2, <1>3, KeepsPictures
<1>5. ScreenTypeOK'
  BY <1>2 DEF IStopFilming, ScreenTypeOK, Act
<1> QED
  BY <1>2, <1>4, <1>5

LEMMA ClickStep ==
  ASSUME ScreenTypeOK, PicturesInv, NEW u \in People, OnMemberClicked(u)
  PROVE  /\ ScreenTypeOK' /\ PicturesInv'
         /\ pics'.shown = pics.shown /\ pics'.live = pics.live
<1>1. pics \in Pics /\ TilesOK(pics) /\ pics' = SelectMain(pics, u)
  BY DEF ScreenTypeOK, PicturesInv, OnMemberClicked
<1>2. /\ pics' \in Pics /\ TilesOK(pics') /\ MainOK(pics')
      /\ pics'.shown = pics.shown /\ pics'.live = pics.live /\ pics'.main = u
  BY <1>1, SelectMainOK
<1>3. PicturesInv'
  BY <1>2 DEF PicturesInv
<1>4. ScreenTypeOK'
  BY <1>2 DEF OnMemberClicked, ScreenTypeOK, Act
<1> QED
  BY <1>2, <1>3, <1>4

LEMMA StartStep ==
  ASSUME ScreenTypeOK, PicturesInv, OnMeetingResult
  PROVE  /\ ScreenTypeOK' /\ PicturesInv'
         /\ pics'.shown = pics.shown \cup {Me} /\ pics'.live \subseteq pics.live
<1>1. /\ pics \in Pics /\ TilesOK(pics) /\ version[Me] \in Nat /\ Me \in People
      /\ pics' = ShowMainAvatar(ApplyProfile([pics EXCEPT !.main = Me], Me, version[Me]))
  BY DEF ScreenTypeOK, PicturesInv, OnMeetingResult, People
<1>2. /\ pics' \in Pics /\ TilesOK(pics') /\ MainOK(pics')
      /\ pics'.shown = pics.shown \cup {Me} /\ pics'.live \subseteq pics.live /\ pics'.main = Me
  BY <1>1, MeetingStartsOK
<1>3. PicturesInv'
  BY <1>1, <1>2 DEF PicturesInv
<1>4. room' \in SUBSET Users /\ notices \in Seq(NoticeSet)
  BY DEF OnMeetingResult, ScreenTypeOK
<1>5. notices' \in Seq(NoticeSet)
  <2>1. CASE room' = {}
    BY <1>4, <2>1 DEF OnMeetingResult
  <2>2. CASE room' # {}
    <3>1. Snapshot(room') \in NoticeSet
      BY <1>4, NewNotices
    <3>2. Announce(Snapshot(room'))
      BY <2>2 DEF OnMeetingResult
    <3> QED
      BY <1>4, <3>1, <3>2 DEF Announce
  <2> QED
    BY <2>1, <2>2
<1>6. ScreenTypeOK'
  BY <1>2, <1>4, <1>5 DEF OnMeetingResult, ScreenTypeOK
<1> QED
  BY <1>2, <1>3, <1>6

LEMMA EndStep ==
  ASSUME ScreenTypeOK, PicturesInv, EndMeeting
  PROVE  ScreenTypeOK' /\ PicturesInv' /\ pics'.shown = {} /\ pics'.live = {}
<1>1. pics \in Pics /\ TilesOK(pics) /\ pics' = Clear(EndVideo(pics))
  BY DEF ScreenTypeOK, PicturesInv, EndMeeting
<1>2. pics' \in Pics /\ TilesOK(pics') /\ pics'.shown = {} /\ pics'.live = {}
  BY <1>1, EndOK
<1>3. PicturesInv'
  BY <1>2 DEF PicturesInv, EndMeeting
<1>4. ScreenTypeOK'
  BY <1>2 DEF EndMeeting, ScreenTypeOK
<1> QED
  BY <1>2, <1>3, <1>4

LEMMA JoinedStep ==
  ASSUME ScreenTypeOK, PicturesInv, OnPartnerJoined
  PROVE  /\ ScreenTypeOK' /\ PicturesInv' /\ Subject \in Users
         /\ pics'.shown = pics.shown \cup {Subject} /\ pics'.live = pics.live \ {Subject}
<1>1. Handles("joined") /\ LateEnds
  BY DEF OnPartnerJoined
<1>2. Head(notices) \in NoticeSet /\ Head(notices).kind = "joined" /\ inMeeting' = inMeeting
  BY <1>1, Handling
<1>3. Subject \in Users
  BY <1>2, NoticeFields DEF Subject, OfUser
<1>4. /\ pics \in Pics /\ TilesOK(pics) /\ {Subject} \in SUBSET People
      /\ pics' = ShowAvatar(Add(pics, {Subject}), {Subject})
  BY <1>3 DEF ScreenTypeOK, PicturesInv, OnPartnerJoined, People
<1> HIDE DEF Subject
<1>5. /\ pics' \in Pics /\ TilesOK(pics') /\ (MainOK(pics) => MainOK(pics'))
      /\ pics'.shown = pics.shown \cup {Subject} /\ pics'.live = pics.live \ {Subject}
      /\ pics'.main = pics.main
  BY <1>4, ComersOK
<1> QED
  BY <1>1, <1>2, <1>3, <1>5, HandledType, KeepsPictures

LEMMA SnapshotStep ==
  ASSUME ScreenTypeOK, PicturesInv, OnPartnersSnapshot
  PROVE  LET us == Head(notices).users
         IN  /\ ScreenTypeOK' /\ PicturesInv' /\ us \in SUBSET Users /\ Subject = Nobody
             /\ pics'.shown = pics.shown \cup us /\ pics'.live = pics.live \ us
<1> DEFINE us == Head(notices).users
<1>1. Handles("snapshot") /\ LateEnds
  BY DEF OnPartnersSnapshot
<1>2. Head(notices) \in NoticeSet /\ Head(notices).kind = "snapshot" /\ inMeeting' = inMeeting
  BY <1>1, Handling
<1>3. us \in SUBSET Users /\ Subject = Nobody
  BY <1>2, NoticeFields DEF Subject
<1>4. /\ pics \in Pics /\ TilesOK(pics) /\ us \in SUBSET People
      /\ pics' = ShowAvatar(Add(pics, us), us)
  BY <1>3 DEF ScreenTypeOK, PicturesInv, OnPartnersSnapshot, People
<1> HIDE DEF us
<1>5. /\ pics' \in Pics /\ TilesOK(pics') /\ (MainOK(pics) => MainOK(pics'))
      /\ pics'.shown = pics.shown \cup us /\ pics'.live = pics.live \ us
      /\ pics'.main = pics.main
  BY <1>4, ComersOK
<1>6. ScreenTypeOK' /\ PicturesInv'
  BY <1>1, <1>2, <1>5, HandledType, KeepsPictures
<1> QED
  BY <1>3, <1>5, <1>6 DEF us

LEMMA ExitedStep ==
  ASSUME ScreenTypeOK, PicturesInv, OnPartnerExited
  PROVE  /\ ScreenTypeOK' /\ PicturesInv' /\ Subject \in Users
         /\ pics'.shown = pics.shown \ {Subject}
         /\ pics'.live = pics.live \ ({Subject} \cap pics.shown)
<1>1. Handles("exited") /\ LateEnds
  BY DEF OnPartnerExited
<1>2. Head(notices) \in NoticeSet /\ Head(notices).kind = "exited" /\ inMeeting' = inMeeting
  BY <1>1, Handling
<1>3. Subject \in Users
  BY <1>2, NoticeFields DEF Subject, OfUser
<1>4. /\ pics \in Pics /\ TilesOK(pics) /\ Subject \in People
      /\ pics' = IF pics.main = Subject THEN ShowMainAvatar(RemovePartner(pics, Subject))
                 ELSE RemovePartner(pics, Subject)
  BY <1>3 DEF ScreenTypeOK, PicturesInv, OnPartnerExited, People
<1> HIDE DEF Subject
<1>5. /\ pics' \in Pics /\ TilesOK(pics') /\ (MainOK(pics) => MainOK(pics'))
      /\ pics'.shown = pics.shown \ {Subject}
      /\ pics'.live = pics.live \ ({Subject} \cap pics.shown) /\ pics'.main = pics.main
  BY <1>4, ExitOK
<1> QED
  BY <1>1, <1>2, <1>3, <1>5, HandledType, KeepsPictures

LEMMA ClosedStep ==
  ASSUME ScreenTypeOK, PicturesInv, OnCameraClosed
  PROVE  /\ ScreenTypeOK' /\ PicturesInv' /\ Subject \in Users
         /\ pics'.shown = pics.shown
         /\ pics'.live = pics.live \ ({Subject} \cap pics.shown)
<1>1. Handles("closed") /\ LateEnds
  BY DEF OnCameraClosed
<1>2. Head(notices) \in NoticeSet /\ Head(notices).kind = "closed" /\ inMeeting' = inMeeting
  BY <1>1, Handling
<1>3. Subject \in Users
  BY <1>2, NoticeFields DEF Subject, OfUser
<1>4. /\ pics \in Pics /\ TilesOK(pics) /\ Subject \in People
      /\ pics' = CloseVideo(pics, Subject)
  BY <1>3 DEF ScreenTypeOK, PicturesInv, OnCameraClosed, People
<1> HIDE DEF Subject
<1>5. /\ pics' \in Pics /\ TilesOK(pics') /\ (MainOK(pics) => MainOK(pics'))
      /\ pics'.shown = pics.shown
      /\ pics'.live = pics.live \ ({Subject} \cap pics.shown) /\ pics'.main = pics.main
  BY <1>4, CloseVideoOK
<1> QED
  BY <1>1, <1>2, <1>3, <1>5, HandledType, KeepsPictures

LEMMA ProfileStep ==
  ASSUME ScreenTypeOK, PicturesInv, OnUserProfile
  PROVE  /\ ScreenTypeOK' /\ PicturesInv' /\ Subject \in Users
         /\ pics'.shown = pics.shown \cup {Subject} /\ pics'.live \subseteq pics.live
<1>1. Handles("profile") /\ LateEnds
  BY DEF OnUserProfile
<1>2. Head(notices) \in NoticeSet /\ Head(notices).kind = "profile" /\ inMeeting' = inMeeting
  BY <1>1, Handling
<1>3. Subject \in Users /\ Head(notices).url \in Nat
  BY <1>2, NoticeFields DEF Subject, OfUser
<1>4. /\ pics \in Pics /\ TilesOK(pics) /\ Subject \in People
      /\ pics' = ApplyProfile(pics, Subject, Head(notices).url)
  BY <1>3 DEF ScreenTypeOK, PicturesInv, OnUserProfile, People
<1> HIDE DEF Subject
<1>5. /\ pics' \in Pics /\ TilesOK(pics') /\ (MainOK(pics) => MainOK(pics'))
      /\ pics'.shown = pics.shown \cup {Subject} /\ pics'.live \subseteq pics.live
      /\ pics'.main = pics.main
  BY <1>3, <1>4, ProfileOK
<1> QED
  BY <1>1, <1>2, <1>3, <1>5, HandledType, KeepsPictures

LEMMA FrameStep ==
  ASSUME ScreenTypeOK, PicturesInv, NEW u \in Users, OnRemoteFrame(u)
  PROVE  /\ ScreenTypeOK' /\ PicturesInv'
         /\ pics'.shown = pics.shown /\ pics'.live = pics.live \cup {u}
<1>1. pics \in Pics /\ TilesOK(pics) /\ u \in People /\ pics' = ShowVideo(pics, u)
  BY DEF ScreenTypeOK, PicturesInv, OnRemoteFrame, People
<1>2. /\ pics' \in Pics /\ TilesOK(pics') /\ (MainOK(pics) => MainOK(pics'))
      /\ pics'.shown = pics.shown /\ pics'.live = pics.live \cup {u} /\ pics'.main = pics.main
  BY <1>1, ShowVideoOK
<1>3. PicturesInv'
  BY <1>2, KeepsPictures DEF OnRemoteFrame
<1>4. ScreenTypeOK'
  BY <1>1, <1>2 DEF OnRemoteFrame, ScreenTypeOK
<1> QED
  BY <1>2, <1>3, <1>4

LEMMA PreviewStep ==
  ASSUME ScreenTypeOK, PicturesInv, OnPreviewFrame
  PROVE  /\ ScreenTypeOK' /\ PicturesInv' /\ pics'.shown = pics.shown
         /\ pics'.live = pics.live \cup ({Me} \cap filming)
<1>1. pics \in Pics /\ TilesOK(pics) /\ Me \in People
  BY DEF ScreenTypeOK, PicturesInv, People
<1>2. /\ pics' \in Pics /\ TilesOK(pics') /\ (MainOK(pics) => MainOK(pics'))
      /\ pics'.shown = pics.shown /\ pics'.live = pics.live \cup ({Me} \cap filming)
      /\ pics'.main = pics.main
  <2>1. CASE Me \in filming
    <3>1. pics' = ShowVideo(pics, Me)
      BY <2>1 DEF OnPreviewFrame
    <3>2. /\ pics' \in Pics /\ TilesOK(pics') /\ (MainOK(pics) => MainOK(pics'))
          /\ pics'.shown = pics.shown /\ pics'.live = pics.live \cup {Me}
          /\ pics'.main = pics.main
      BY <1>1, <3>1, ShowVideoOK
    <3> QED
      BY <2>1, <3>2
  <2>2. CASE Me \notin filming
    <3>1. pics' = pics
      BY <2>2 DEF OnPreviewFrame
    <3> QED
      BY <1>1, <2>2, <3>1
  <2> QED
    BY <2>1, <2>2
<1>3. PicturesInv'
  BY <1>2, KeepsPictures DEF OnPreviewFrame
<1>4. ScreenTypeOK'
  BY <1>2 DEF OnPreviewFrame, ScreenTypeOK
<1> QED
  BY <1>2, <1>3, <1>4

LEMMA LeftStep ==
  ASSUME ScreenTypeOK, PicturesInv, NEW u \in Users, OnRtcRemoteUserLeft(u)
  PROVE  /\ ScreenTypeOK' /\ PicturesInv'
         /\ pics'.shown = pics.shown /\ pics'.live = pics.live \ ({u} \cap pics.shown)
<1>1. pics \in Pics /\ TilesOK(pics) /\ u \in People /\ pics' = CloseVideo(pics, u)
  BY DEF ScreenTypeOK, PicturesInv, OnRtcRemoteUserLeft, People
<1>2. /\ pics' \in Pics /\ TilesOK(pics') /\ (MainOK(pics) => MainOK(pics'))
      /\ pics'.shown = pics.shown /\ pics'.live = pics.live \ ({u} \cap pics.shown)
      /\ pics'.main = pics.main
  BY <1>1, CloseVideoOK
<1>3. PicturesInv'
  BY <1>2, KeepsPictures DEF OnRtcRemoteUserLeft
<1>4. ScreenTypeOK'
  BY <1>2 DEF OnRtcRemoteUserLeft, ScreenTypeOK, LateEnds
<1> QED
  BY <1>2, <1>3, <1>4

LEMMA LoadStep ==
  ASSUME ScreenTypeOK, PicturesInv, NEW l \in pics.loads, LoadEnds(l)
  PROVE  /\ ScreenTypeOK' /\ PicturesInv'
         /\ pics'.shown = pics.shown /\ pics'.live = pics.live
<1>1. pics \in Pics /\ TilesOK(pics)
  BY DEF ScreenTypeOK, PicturesInv
<1>2. PICK x \in {Avatar(l.url), Avatar(0), Blank} : pics' = Reply(pics, l, x)
  BY DEF LoadEnds
<1>3. /\ pics' \in Pics /\ TilesOK(pics') /\ (MainOK(pics) => MainOK(pics'))
      /\ pics'.shown = pics.shown /\ pics'.live = pics.live /\ pics'.main = pics.main
  BY <1>1, <1>2, ReplyOK
<1>4. PicturesInv'
  BY <1>3, KeepsPictures DEF LoadEnds
<1>5. ScreenTypeOK'
  BY <1>3 DEF LoadEnds, ScreenTypeOK
<1> QED
  BY <1>3, <1>4, <1>5

-----------------------------------------------------------------------------
(* The screen is current                                                     *)

LEMMA PicturesMeanCurrent == PicturesInv /\ ScreenTypeOK => ScreenIsCurrent
<1> SUFFICES ASSUME PicturesInv, ScreenTypeOK, inMeeting
             PROVE  ScreenIsCurrent
  BY DEF ScreenIsCurrent
<1> DEFINE p == pics
           Settled(u) == ~Awaited(u) /\ u \notin p.failed \cup p.mixed
<1>1. \A u : Settled(u) <=> IsSettled(p, u)
  BY DEF Awaited, IsSettled, HasNews
<1>2. MainOK(p) /\ p.main \in People
  BY DEF PicturesInv
<1>3. \A u \in p.shown : TileOK(p, u)
  BY PicsFields DEF PicturesInv, TilesOK, ScreenTypeOK
<1>4. Settled(p.main) => p.screen[1] = p.main
  BY <1>1, <1>2 DEF MainOK
<1>5. \A u \in p.shown : /\ u \in p.live => p.tile[u] = Video
                         /\ u \notin p.live /\ Settled(u) => p.tile[u] \in {Avatar(p.url[u]), Avatar(0)}
  BY <1>1, <1>3 DEF TileOK
<1>6. \A u \in p.shown : u = p.main /\ (u \in p.live \/ Settled(u)) => p.screen = <<u, p.tile[u]>>
  BY <1>1, <1>2 DEF MainOK
<1> QED
  BY <1>4, <1>5, <1>6 DEF ScreenIsCurrent

-----------------------------------------------------------------------------
(* Notices that are put at the end of the queue, and taken from its head     *)

LEMMA AtTheEnd ==
  ASSUME NEW s \in Seq(NoticeSet), NEW n \in NoticeSet, NEW t, t = Append(s, n)
  PROVE  /\ t \in Seq(NoticeSet)
         /\ Len(s) + 1 \in DOMAIN t /\ t[Len(s) + 1] = n
         /\ \A i \in DOMAIN s : i \in DOMAIN t /\ t[i] = s[i] /\ i < Len(s) + 1 /\ i \in Int
         /\ \A i \in DOMAIN t : i = Len(s) + 1 \/ i \in DOMAIN s
         /\ Len(s) \in Nat
<1>1. Len(s) \in Nat /\ DOMAIN s = 1 .. Len(s)
  OBVIOUS
<1>2. t \in Seq(NoticeSet) /\ Len(t) = Len(s) + 1 /\ DOMAIN t = 1 .. Len(t)
  OBVIOUS
<1>3. t[Len(s) + 1] = n /\ \A i \in 1 .. Len(s) : t[i] = s[i]
  OBVIOUS
<1> QED
  BY <1>1, <1>2, <1>3

LEMMA AfterTheHead ==
  ASSUME NEW s \in Seq(NoticeSet), s # <<>>, NEW t, t = Tail(s)
  PROVE  /\ t \in Seq(NoticeSet) /\ Head(s) \in NoticeSet
         /\ 1 \in DOMAIN s /\ s[1] = Head(s)
         /\ \A i \in DOMAIN t : i + 1 \in DOMAIN s /\ t[i] = s[i + 1] /\ i \in Int /\ 1 < i + 1
         /\ \A i \in DOMAIN s : i \in Int /\ (i = 1 \/ (i - 1 \in DOMAIN t /\ t[i - 1] = s[i]))
<1>1. Len(s) \in Nat /\ DOMAIN s = 1 .. Len(s) /\ Len(s) >= 1
  OBVIOUS
<1>2. t \in Seq(NoticeSet) /\ Len(t) = Len(s) - 1 /\ DOMAIN t = 1 .. Len(t)
  OBVIOUS
<1>3. \A i \in 1 .. Len(s) - 1 : t[i] = s[i + 1]
  OBVIOUS
<1>4. s[1] = Head(s) /\ Head(s) \in NoticeSet
  BY <1>1
<1>5. \A i \in 2 .. Len(s) : i - 1 \in 1 .. Len(s) - 1 /\ t[i - 1] = s[(i - 1) + 1]
  BY <1>1, <1>3
<1>6. \A i \in 2 .. Len(s) : (i - 1) + 1 = i
  BY <1>1
<1>7. \A i \in DOMAIN s : i \in Int /\ (i = 1 \/ (i - 1 \in DOMAIN t /\ t[i - 1] = s[i]))
  <2> TAKE i \in DOMAIN s
  <2>1. i \in Int /\ (i = 1 \/ i \in 2 .. Len(s))
    BY <1>1
  <2> QED
    BY <1>2, <1>5, <1>6, <2>1
<1>8. \A i \in DOMAIN t : i + 1 \in DOMAIN s /\ i \in Int /\ 1 < i + 1
  BY <1>1, <1>2
<1>9. \A i \in DOMAIN t : t[i] = s[i + 1]
  BY <1>2, <1>3
<1> QED
  BY <1>1, <1>2, <1>4, <1>7, <1>8, <1>9

LEMMA WhoExitsDoesNotEnter ==
  ASSUME NEW n \in NoticeSet, NEW u
  PROVE  Ends(n, u) => ~Enters(n, u)
  BY NoticeFields DEF Ends, Enters, OfUser

(* With a new notice n at the end ...                                        *)
LEMMA NewsAppended ==
  ASSUME NEW s \in Seq(NoticeSet), NEW n \in NoticeSet, NEW t, t = Append(s, n), NEW u
  PROVE  /\ SomeEnters(s, u) \/ Enters(n, u) => SomeEnters(t, u)
         /\ NoneEnds(s, u) /\ ~Ends(n, u) => NoneEnds(t, u)
         /\ ~NoneEnds(s, u) \/ Ends(n, u) => ~NoneEnds(t, u)
         /\ NoneExits(s, u) /\ ~Exits(n, u) => NoneExits(t, u)
         /\ Enters(n, u) \/ (HasCome(s, u) /\ ~Exits(n, u)) => HasCome(t, u)
<1>1. /\ Len(s) + 1 \in DOMAIN t /\ t[Len(s) + 1] = n
      /\ \A i \in DOMAIN s : i \in DOMAIN t /\ t[i] = s[i] /\ i < Len(s) + 1 /\ i \in Int
      /\ \A i \in DOMAIN t : i = Len(s) + 1 \/ i \in DOMAIN s
      /\ Len(s) \in Nat
  BY AtTheEnd
<1> DEFINE e == Len(s) + 1
<1>2. /\ e \in DOMAIN t /\ t[e] = n /\ e \in Int
      /\ \A i \in DOMAIN s : i \in DOMAIN t /\ t[i] = s[i] /\ i < e /\ i \in Int
      /\ \A i \in DOMAIN t : i = e \/ i \in DOMAIN s
  BY <1>1
<1> HIDE DEF e
<1>3. SomeEnters(s, u) \/ Enters(n, u) => SomeEnters(t, u)
  BY <1>2 DEF SomeEnters
<1>4. /\ NoneEnds(s, u) /\ ~Ends(n, u) => NoneEnds(t, u)
      /\ ~NoneEnds(s, u) \/ Ends(n, u) => ~NoneEnds(t, u)
  BY <1>2 DEF NoneEnds
<1>5. NoneExits(s, u) /\ ~Exits(n, u) => NoneExits(t, u)
  BY <1>2 DEF NoneExits
<1>6. ASSUME Enters(n, u)
      PROVE  HasCome(t, u)
  <2>1. \A j \in DOMAIN t : ~(j > e)
    BY <1>2
  <2> QED
    BY <1>2, <1>6, <2>1 DEF HasCome
<1>7. ASSUME HasCome(s, u), ~Exits(n, u)
      PROVE  HasCome(t, u)
  <2>1. PICK i \in DOMAIN s : Enters(s[i], u) /\ \A j \in DOMAIN s : j > i => ~Exits(s[j], u)
    BY <1>7 DEF HasCome
  <2>2. i \in DOMAIN t /\ Enters(t[i], u)
    BY <1>2, <2>1
  <2>3. \A j \in DOMAIN t : j > i => ~Exits(t[j], u)
    BY <1>2, <1>7, <2>1
  <2> QED
    BY <2>2, <2>3 DEF HasCome
<1> QED
  BY <1>3, <1>4, <1>5, <1>6, <1>7

LEMMA OrderAppended ==
  ASSUME NEW s \in Seq(NoticeSet), NEW n \in NoticeSet, NEW t, t = Append(s, n),
         EndsAreInOrder(s),
         \A u \in Users : Ends(n, u) => NoneExits(s, u) \/ HasCome(s, u)
  PROVE  EndsAreInOrder(t)
<1> DEFINE e == Len(s) + 1
<1>1. /\ t[e] = n /\ e \in DOMAIN t /\ e \in Int
      /\ \A i \in DOMAIN s : i \in DOMAIN t /\ t[i] = s[i] /\ i < e /\ i \in Int /\ s[i] \in NoticeSet
      /\ \A i \in DOMAIN t : i = e \/ i \in DOMAIN s
  BY AtTheEnd
<1> HIDE DEF e
<1> SUFFICES ASSUME NEW u \in Users, NEW i \in DOMAIN t, NEW k \in DOMAIN t,
                    i < k, Exits(t[i], u), Ends(t[k], u)
             PROVE  \E j \in DOMAIN t : i < j /\ j < k /\ Enters(t[j], u)
  BY DEF EndsAreInOrder
<1>2. i \in DOMAIN s
  BY <1>1
<1>3. CASE k \in DOMAIN s
  <2>1. PICK j \in DOMAIN s : i < j /\ j < k /\ Enters(s[j], u)
    BY <1>1, <1>2, <1>3 DEF EndsAreInOrder
  <2> QED
    BY <1>1, <2>1
<1>4. CASE k = e
  <2>1. Exits(s[i], u)
    BY <1>1, <1>2
  <2>2. HasCome(s, u)
    BY <1>1, <1>2, <1>4, <2>1 DEF NoneExits
  <2>3. PICK j \in DOMAIN s : Enters(s[j], u) /\ \A m \in DOMAIN s : m > j => ~Exits(s[m], u)
    BY <2>2 DEF HasCome
  <2>4. ~Enters(s[i], u)
    BY <1>1, <1>2, <2>1, WhoExitsDoesNotEnter DEF Exits, Ends
  <2>5. i # j /\ ~(i > j)
    BY <1>2, <2>1, <2>3, <2>4
  <2>6. i \in Int /\ j \in Int
    BY <1>1, <1>2
  <2>7. i < j /\ j < e
    BY <1>1, <2>5, <2>6
  <2> QED
    BY <1>1, <1>4, <2>3, <2>7
<1> QED
  BY <1>1, <1>3, <1>4

(* ... and without the first.                                                *)
LEMMA NewsTaken ==
  ASSUME NEW s \in Seq(NoticeSet), s # <<>>, NEW t, t = Tail(s), NEW h, h = Head(s), NEW u
  PROVE  /\ SomeEnters(s, u) => Enters(h, u) \/ SomeEnters(t, u)
         /\ NoneEnds(s, u) => NoneEnds(t, u) /\ ~Ends(h, u)
         /\ ~NoneEnds(s, u) => Ends(h, u) \/ ~NoneEnds(t, u)
         /\ NoneExits(s, u) => NoneExits(t, u) /\ ~Exits(h, u)
         /\ HasCome(s, u) => HasCome(t, u) \/ (Enters(h, u) /\ NoneExits(t, u))
         /\ HasCome(t, u) => SomeEnters(t, u)
<1>1. /\ 1 \in DOMAIN s /\ s[1] = h
      /\ \A i \in DOMAIN t : i + 1 \in DOMAIN s /\ t[i] = s[i + 1] /\ i \in Int /\ 1 < i + 1
      /\ \A i \in DOMAIN s : i \in Int /\ (i = 1 \/ (i - 1 \in DOMAIN t /\ t[i - 1] = s[i]))
  BY AfterTheHead
<1>2. SomeEnters(s, u) => Enters(h, u) \/ SomeEnters(t, u)
  BY <1>1 DEF SomeEnters
<1>3. NoneEnds(s, u) => NoneEnds(t, u) /\ ~Ends(h, u)
  BY <1>1 DEF NoneEnds
<1>4. ~NoneEnds(s, u) => Ends(h, u) \/ ~NoneEnds(t, u)
  BY <1>1 DEF NoneEnds
<1>5. NoneExits(s, u) => NoneExits(t, u) /\ ~Exits(h, u)
  BY <1>1 DEF NoneExits
<1>6. ASSUME HasCome(s, u)
      PROVE  HasCome(t, u) \/ (Enters(h, u) /\ NoneExits(t, u))
  <2>1. PICK i \in DOMAIN s : Enters(s[i], u) /\ \A j \in DOMAIN s : j > i => ~Exits(s[j], u)
    BY <1>6 DEF HasCome
  <2>2. CASE i = 1
    <3>1. \A j \in DOMAIN t : ~Exits(t[j], u)
      BY <1>1, <2>1, <2>2
    <3> QED
      BY <1>1, <2>1, <2>2, <3>1 DEF NoneExits
  <2>3. CASE i # 1
    <3> DEFINE b == i - 1
    <3>1. b \in DOMAIN t /\ t[b] = s[i] /\ i \in Int
      BY <1>1, <2>3
    <3>2. \A j \in DOMAIN t : j > b => j + 1 > i
      BY <1>1, <3>1
    <3>3. \A j \in DOMAIN t : j > b => ~Exits(t[j], u)
      BY <1>1, <2>1, <3>2
    <3> QED
      BY <2>1, <3>1, <3>3 DEF HasCome
  <2> QED
    BY <2>2, <2>3
<1>7. HasCome(t, u) => SomeEnters(t, u)
  BY DEF HasCome, SomeEnters
<1> QED
  BY <1>2, <1>3, <1>4, <1>5, <1>6, <1>7

LEMMA OrderTaken ==
  ASSUME NEW s \in Seq(NoticeSet), s # <<>>, NEW t, t = Tail(s), NEW h, h = Head(s),
         EndsAreInOrder(s)
  PROVE  /\ EndsAreInOrder(t)
         /\ \A u \in Users : Exits(h, u) => NoneEnds(t, u) \/ SomeEnters(t, u)
<1>1. /\ 1 \in DOMAIN s /\ s[1] = h
      /\ \A i \in DOMAIN t : i + 1 \in DOMAIN s /\ t[i] = s[i + 1] /\ i \in Int /\ 1 < i + 1
      /\ \A i \in DOMAIN s : i \in Int /\ (i = 1 \/ (i - 1 \in DOMAIN t /\ t[i - 1] = s[i]))
  BY AfterTheHead
<1>2. ASSUME NEW u \in Users, NEW i \in DOMAIN t, NEW k \in DOMAIN t,
             i < k, Exits(t[i], u), Ends(t[k], u)
      PROVE  \E j \in DOMAIN t : i < j /\ j < k /\ Enters(t[j], u)
  <2> DEFINE i1 == i + 1
             k1 == k + 1
  <2>1. /\ i1 \in DOMAIN s /\ k1 \in DOMAIN s /\ t[i] = s[i1] /\ t[k] = s[k1]
        /\ i1 < k1 /\ 1 < i1 /\ i1 \in Int /\ k1 \in Int
    BY <1>1, <1>2
  <2>2. PICK j \in DOMAIN s : i1 < j /\ j < k1 /\ Enters(s[j], u)
    <3> HIDE DEF i1, k1
    <3> QED
      BY <1>2, <2>1 DEF EndsAreInOrder
  <2> DEFINE j0 == j - 1
  <2>3. j \in Int /\ j # 1
    BY <1>1, <2>1, <2>2
  <2>4. j0 \in DOMAIN t /\ t[j0] = s[j]
    BY <1>1, <2>3
  <2>5. i < j0 /\ j0 < k
    BY <1>1, <2>1, <2>2, <2>3
  <2> QED
    BY <2>2, <2>4, <2>5
<1>3. ASSUME NEW u \in Users, Exits(h, u), ~NoneEnds(t, u)
      PROVE  SomeEnters(t, u)
  <2>1. PICK k \in DOMAIN t : Ends(t[k], u)
    BY <1>3 DEF NoneEnds
  <2> DEFINE k1 == k + 1
  <2>2. k1 \in DOMAIN s /\ 1 < k1 /\ Ends(s[k1], u) /\ k1 \in Int
    BY <1>1, <2>1
  <2>3. PICK j \in DOMAIN s : 1 < j /\ j < k1 /\ Enters(s[j], u)
    <3> HIDE DEF k1
    <3> QED
      BY <1>1, <1>3, <2>2 DEF EndsAreInOrder
  <2> DEFINE j0 == j - 1
  <2>4. j0 \in DOMAIN t /\ t[j0] = s[j]
    BY <1>1, <2>3
  <2> QED
    BY <2>3, <2>4 DEF SomeEnters
<1> QED
  BY <1>2, <1>3 DEF EndsAreInOrder

-----------------------------------------------------------------------------
(* The notices, action by action                                             *)

LEMMA AnnouncedIs ==
  ASSUME NEW u
  PROVE  /\ Announced(u) <=> \/ u \in leaving \cap pics.shown
                             \/ SomeEnters(notices, u) \/ ~NoneEnds(notices, u)
         /\ Announced(u)' <=> \/ u \in leaving' \cap pics'.shown
                              \/ SomeEnters(notices', u) \/ ~NoneEnds(notices', u)
  BY DEF Announced, SomeEnters, NoneEnds, Enters, Ends

Pending == (frames \cup (pics.live \ late)) \ {Me}

LEMMA NewKinds ==
  ASSUME NEW u \in Users, NEW v \in Nat, NEW w
  PROVE  /\ Enters(Notice("joined", u, v), w) <=> w = u
         /\ ~Ends(Notice("joined", u, v), w) /\ ~Exits(Notice("joined", u, v), w)
         /\ Exits(Notice("exited", u, v), w) <=> w = u
         /\ Ends(Notice("exited", u, v), w) <=> w = u
         /\ Ends(Notice("closed", u, v), w) <=> w = u
         /\ ~Exits(Notice("closed", u, v), w)
         /\ ~Ends(Notice("profile", u, v), w) /\ ~Exits(Notice("profile", u, v), w)
         /\ ~Exits(Snapshot({}), w)
  BY DEF Notice, Snapshot, Enters, Ends, Exits

(* A user of the room does something that others are told.                   *)
LEMMA NoticeSent ==
  ASSUME ScreenTypeOK, NewsInv, NEW n \in NoticeSet, Announce(n),
         UNCHANGED <<pics, frames, late, inMeeting>>, leaving \subseteq leaving',
         inMeeting,
         \A u \in room' : (u \in room /\ ~Exits(n, u)) \/ Enters(n, u),
         \A u : Ends(n, u) => u \in room,
         \A u \in filming : u \in filming' \/ Ends(n, u)
  PROVE  NewsInv'
<1> DEFINE s == notices
           t == notices'
<1>1. s \in Seq(NoticeSet) /\ t = Append(s, n)
  BY DEF ScreenTypeOK, Announce
<1> HIDE DEF s, t
<1>2. \A u : /\ SomeEnters(s, u) \/ Enters(n, u) => SomeEnters(t, u)
             /\ NoneEnds(s, u) /\ ~Ends(n, u) => NoneEnds(t, u)
             /\ ~NoneEnds(s, u) \/ Ends(n, u) => ~NoneEnds(t, u)
             /\ NoneExits(s, u) /\ ~Exits(n, u) => NoneExits(t, u)
             /\ Enters(n, u) \/ (HasCome(s, u) /\ ~Exits(n, u)) => HasCome(t, u)
  BY <1>1, NewsAppended
<1>3. /\ MemberIsKnown(s, pics.shown, room) /\ EndsAreInOrder(s)
      /\ FramesAreKnown(s, pics.shown, room, Pending) /\ NoFrozenPicture
      /\ inMeeting => Me \in pics.shown
      /\ ~inMeeting => frames = {} /\ pics.live = {} /\ room = {} /\ filming = {}
  BY DEF NewsInv, Pending, s
<1>4. MemberIsKnown(t, pics.shown, room')
  BY <1>2, <1>3 DEF MemberIsKnown
<1>5. \A u \in Users : Ends(n, u) => NoneExits(s, u) \/ HasCome(s, u)
  BY <1>3 DEF MemberIsKnown
<1>6. EndsAreInOrder(t)
  BY <1>1, <1>3, <1>5, OrderAppended
<1>7. \A u \in Pending : u \in pics.shown \/ SomeEnters(t, u) \/ (NoneEnds(t, u) /\ u \notin room')
  BY <1>2, <1>3 DEF FramesAreKnown
<1>8. FramesAreKnown(t, pics.shown, room', Pending)
  BY <1>7 DEF FramesAreKnown
<1>9. NoFrozenPicture'
  <2> SUFFICES ASSUME NEW u \in pics.live
               PROVE  u \in filming' \/ u \in late \/ Announced(u)'
    BY DEF NoFrozenPicture
  <2>1. u \in filming \/ u \in late \/ Announced(u)
    BY <1>3 DEF NoFrozenPicture
  <2>2. CASE u \in filming /\ u \notin filming'
    <3>1. ~NoneEnds(t, u)
      BY <1>2, <2>2
    <3> QED
      BY <3>1, AnnouncedIs DEF t
  <2>3. CASE Announced(u)
    <3>1. u \in leaving \cap pics.shown \/ SomeEnters(s, u) \/ ~NoneEnds(s, u)
      BY <2>3, AnnouncedIs DEF s
    <3>2. u \in leaving' \cap pics'.shown \/ SomeEnters(t, u) \/ ~NoneEnds(t, u)
      BY <1>2, <3>1
    <3> QED
      BY <3>2, AnnouncedIs DEF t
  <2> QED
    BY <2>1, <2>2, <2>3
<1>10. Pending' = Pending
  BY DEF Pending
<1> QED
  BY <1>3, <1>4, <1>6, <1>8, <1>9, <1>10 DEF NewsInv, Pending, t

LEMMA QuietNews ==
  ASSUME ScreenTypeOK, NewsInv, QuietNext
  PROVE  NewsInv'
<1>1. ASSUME NEW u \in Users, UserJoins(u)
      PROVE  NewsInv'
  <2> DEFINE n == Notice("joined", u, 0)
  <2>1. n \in NoticeSet
    BY NewNotices DEF OfUser
  <2>2. \A w : (Enters(n, w) <=> w = u) /\ ~Ends(n, w) /\ ~Exits(n, w)
    BY NewKinds
  <2>3. /\ Announce(n) /\ room' = room \cup {u} /\ inMeeting
        /\ UNCHANGED <<pics, frames, late, inMeeting, filming, leaving>>
    BY <1>1 DEF UserJoins
  <2> HIDE DEF n
  <2>8. /\ \A w \in room' : (w \in room /\ ~Exits(n, w)) \/ Enters(n, w)
        /\ \A w : Ends(n, w) => w \in room
        /\ \A w \in filming : w \in filming' \/ Ends(n, w)
    BY <2>2, <2>3
  <2> QED
    BY <2>1, <2>3, <2>8, NoticeSent
<1>2. ASSUME NEW u \in Users, UserLeaves(u)
      PROVE  NewsInv'
  <2> DEFINE n == Notice("exited", u, 0)
  <2>1. n \in NoticeSet
    BY NewNotices DEF OfUser
  <2>2. \A w : (Ends(n, w) <=> w = u) /\ (Exits(n, w) <=> w = u)
    BY NewKinds
  <2>3. /\ Announce(n) /\ room' = room \ {u} /\ u \in room /\ filming' = filming \ {u}
        /\ leaving \subseteq leaving'
        /\ UNCHANGED <<pics, frames, late, inMeeting>>
    BY <1>2 DEF UserLeaves
  <2>4. inMeeting
    BY <2>3 DEF NewsInv, ScreenTypeOK
  <2> HIDE DEF n
  <2>8. /\ \A w \in room' : (w \in room /\ ~Exits(n, w)) \/ Enters(n, w)
        /\ \A w : Ends(n, w) => w \in room
        /\ \A w \in filming : w \in filming' \/ Ends(n, w)
    BY <2>2, <2>3
  <2>9. /\ Announce(n) /\ leaving \subseteq leaving'
        /\ UNCHANGED <<pics, frames, late, inMeeting>>
    BY <2>3
  <2> QED
    BY <2>1, <2>4, <2>8, <2>9, NoticeSent
<1>3. ASSUME NEW u \in Users, UserSendsProfile(u)
      PROVE  NewsInv'
  <2>1. version[u] \in Nat
    BY DEF ScreenTypeOK, People
  <2>2. PICK v \in {version[u], version[u] + 1} \cap 1 .. MaxVersion :
          version' = [version EXCEPT ![u] = v] /\ Announce(Notice("profile", u, v))
    BY <1>3 DEF UserSendsProfile
  <2>3. v \in Nat
    BY <2>1, <2>2
  <2> DEFINE n == Notice("profile", u, v)
  <2>4. n \in NoticeSet
    BY <2>3, NewNotices DEF OfUser
  <2>5. \A w : ~Ends(n, w) /\ ~Exits(n, w)
    BY <2>3, NewKinds
  <2>6. Announce(n) /\ u \in room /\ UNCHANGED <<pics, frames, late, inMeeting, room, filming, leaving>>
    BY <1>3, <2>2 DEF UserSendsProfile
  <2>7. inMeeting
    BY <2>6 DEF NewsInv, ScreenTypeOK
  <2> HIDE DEF n
  <2>8. /\ \A w \in room' : (w \in room /\ ~Exits(n, w)) \/ Enters(n, w)
        /\ \A w : Ends(n, w) => w \in room
        /\ \A w \in filming : w \in filming' \/ Ends(n, w)
    BY <2>5, <2>6
  <2> QED
    BY <2>4, <2>6, <2>7, <2>8, NoticeSent
<1>4. ASSUME NEW u \in Users, UserStopsFilming(u)
      PROVE  NewsInv'
  <2> DEFINE n == Notice("closed", u, 0)
  <2>1. n \in NoticeSet
    BY NewNotices DEF OfUser
  <2>2. \A w : (Ends(n, w) <=> w = u) /\ ~Exits(n, w)
    BY NewKinds
  <2>3. /\ Announce(n) /\ room' = room /\ u \in room /\ filming' = filming \ {u}
        /\ UNCHANGED <<pics, frames, late, inMeeting, leaving>>
    BY <1>4 DEF UserStopsFilming
  <2>4. inMeeting
    BY <2>3 DEF NewsInv, ScreenTypeOK
  <2> HIDE DEF n
  <2>8. /\ \A w \in room' : (w \in room /\ ~Exits(n, w)) \/ Enters(n, w)
        /\ \A w : Ends(n, w) => w \in room
        /\ \A w \in filming : w \in filming' \/ Ends(n, w)
    BY <2>2, <2>3
  <2>9. /\ Announce(n) /\ leaving \subseteq leaving'
        /\ UNCHANGED <<pics, frames, late, inMeeting>>
    BY <2>3
  <2> QED
    BY <2>1, <2>4, <2>8, <2>9, NoticeSent
<1>5. ASSUME NEW u \in Users, UserStartsFilming(u)
      PROVE  NewsInv'
  <2>1. /\ u \in room /\ filming' = filming \cup {u} /\ late' = late \ {u}
        /\ UNCHANGED <<inMeeting, pics, notices, frames, leaving, room>>
    BY <1>5 DEF UserStartsFilming
  <2>2. u \in pics.shown \/ SomeEnters(notices, u)
    BY <2>1 DEF NewsInv, MemberIsKnown, HasCome, SomeEnters
  <2>3. Pending' \subseteq Pending \cup {u}
    BY <2>1 DEF Pending
  <2>4. FramesAreKnown(notices, pics.shown, room, Pending')
    BY <2>2, <2>3 DEF NewsInv, FramesAreKnown, Pending
  <2>5. NoFrozenPicture'
    BY <2>1, AnnouncedIs DEF NewsInv, NoFrozenPicture
  <2> QED
    BY <2>1, <2>4, <2>5 DEF NewsInv, Pending
<1>6. ASSUME NEW u \in People, MemberFrameArrives(u)
      PROVE  NewsInv'
  <2>1. /\ inMeeting /\ u \in filming /\ frames' = frames \cup {u}
        /\ UNCHANGED <<inMeeting, pics, notices, leaving, room, filming, late>>
    BY <1>6 DEF MemberFrameArrives
  <2>2. u = Me \/ u \in pics.shown \/ SomeEnters(notices, u)
    BY <2>1 DEF NewsInv, MemberIsKnown, HasCome, SomeEnters, ScreenTypeOK
  <2>3. Pending' \subseteq Pending \cup ({u} \ {Me})
    BY <2>1 DEF Pending
  <2>4. FramesAreKnown(notices, pics.shown, room, Pending')
    BY <2>2, <2>3 DEF NewsInv, FramesAreKnown, Pending
  <2>5. NoFrozenPicture'
    BY <2>1, AnnouncedIs DEF NewsInv, NoFrozenPicture
  <2> QED
    BY <2>1, <2>4, <2>5 DEF NewsInv, Pending
<1>7. ASSUME IStartFilming
      PROVE  NewsInv'
  <2>1. /\ inMeeting /\ filming' = filming \cup {Me}
        /\ UNCHANGED <<inMeeting, pics, notices, frames, leaving, room, late>>
    BY <1>7 DEF IStartFilming
  <2>2. NoFrozenPicture'
    BY <2>1, AnnouncedIs DEF NewsInv, NoFrozenPicture
  <2> QED
    BY <2>1, <2>2 DEF NewsInv
<1> QED
  BY <1>1, <1>2, <1>3, <1>4, <1>5, <1>6, <1>7 DEF QuietNext

(* The window handles the first notice, h, and then the frames of some users *)
(* are gone from the screen.  Who has entered by h has a tile now, and who   *)
(* has a tile no more has exited.                                            *)
LEMMA NoticeTaken ==
  ASSUME ScreenTypeOK, NewsInv, NEW h, h = Head(notices),
         notices # <<>>, notices' = Tail(notices), LateEnds,
         UNCHANGED <<inMeeting, frames, leaving, room, filming>>,
         pics'.live \subseteq pics.live,
         \A u : u \in pics.shown => u \in pics'.shown \/ (Exits(h, u) /\ u \in Users),
         \A u : Enters(h, u) => u \in pics'.shown /\ u \notin pics'.live,
         \A u : Ends(h, u) /\ u \in pics.shown => u \notin pics'.live
  PROVE  NewsInv'
<1> DEFINE s == notices
           t == notices'
<1>1. s \in Seq(NoticeSet) /\ s # <<>> /\ t = Tail(s) /\ h = Head(s)
  BY DEF ScreenTypeOK
<1> HIDE DEF s, t
<1>2. \A u : /\ SomeEnters(s, u) => Enters(h, u) \/ SomeEnters(t, u)
             /\ NoneEnds(s, u) => NoneEnds(t, u) /\ ~Ends(h, u)
             /\ ~NoneEnds(s, u) => Ends(h, u) \/ ~NoneEnds(t, u)
             /\ NoneExits(s, u) => NoneExits(t, u) /\ ~Exits(h, u)
             /\ HasCome(s, u) => HasCome(t, u) \/ (Enters(h, u) /\ NoneExits(t, u))
             /\ HasCome(t, u) => SomeEnters(t, u)
  BY <1>1, NewsTaken
<1>3. /\ EndsAreInOrder(s) => EndsAreInOrder(t)
      /\ EndsAreInOrder(s) => \A u \in Users : Exits(h, u) => NoneEnds(t, u) \/ SomeEnters(t, u)
  BY <1>1, OrderTaken
<1>4. /\ MemberIsKnown(s, pics.shown, room) /\ EndsAreInOrder(s)
      /\ FramesAreKnown(s, pics.shown, room, Pending) /\ NoFrozenPicture
      /\ inMeeting => Me \in pics.shown
      /\ ~inMeeting => frames = {} /\ pics.live = {} /\ room = {} /\ filming = {}
  BY DEF NewsInv, Pending, s
<1>5. /\ pics'.live \subseteq pics.live
      /\ \A u : u \in pics.shown => u \in pics'.shown \/ (Exits(h, u) /\ u \in Users)
      /\ \A u : Enters(h, u) => u \in pics'.shown /\ u \notin pics'.live
      /\ \A u : Ends(h, u) /\ u \in pics.shown => u \notin pics'.live
  OBVIOUS
<1>6. \A u \in room : (u \in pics'.shown /\ NoneExits(t, u)) \/ HasCome(t, u)
  BY <1>2, <1>4, <1>5 DEF MemberIsKnown
<1>7. MemberIsKnown(t, pics'.shown, room)
  BY <1>6 DEF MemberIsKnown
<1>8. \A u \in Pending :
        u \in pics'.shown \/ SomeEnters(t, u) \/ (NoneEnds(t, u) /\ u \notin room)
  <2> TAKE u \in Pending
  <2>1. u \in pics.shown \/ SomeEnters(s, u) \/ (NoneEnds(s, u) /\ u \notin room)
    BY <1>4 DEF FramesAreKnown
  <2>2. CASE u \in pics.shown /\ u \notin pics'.shown
    <3>1. Exits(h, u) /\ u \in Users
      BY <1>5, <2>2
    <3>2. NoneEnds(t, u) \/ SomeEnters(t, u)
      BY <1>3, <1>4, <3>1
    <3>3. u \in room => SomeEnters(t, u)
      BY <1>2, <1>6, <2>2
    <3> QED
      BY <3>2, <3>3
  <2> QED
    BY <1>2, <1>5, <2>1, <2>2
<1>9. Pending' \subseteq Pending
  BY <1>5 DEF Pending, LateEnds
<1>10. FramesAreKnown(t, pics'.shown, room, Pending')
  BY <1>8, <1>9 DEF FramesAreKnown
<1>11. inMeeting => Me \in pics'.shown
  BY <1>4, <1>5, PeopleAreDistinct
<1>12. NoFrozenPicture'
  <2> SUFFICES ASSUME NEW u \in pics'.live
               PROVE  u \in filming' \/ u \in late' \/ Announced(u)'
    BY DEF NoFrozenPicture
  <2>1. u \in pics.live /\ (u \in filming \/ u \in late \/ Announced(u))
    BY <1>4, <1>5 DEF NoFrozenPicture
  <2>2. u \in late => u \in late'
    BY DEF LateEnds
  <2>3. CASE Announced(u) /\ u \notin filming /\ u \notin late
    <3>1. u \in leaving \cap pics.shown \/ SomeEnters(s, u) \/ ~NoneEnds(s, u)
      BY <2>3, AnnouncedIs DEF s
    <3>2. CASE u \in leaving \cap pics.shown
      <4>1. CASE u \in pics'.shown
        BY <3>2, <4>1, AnnouncedIs
      <4>2. CASE u \notin pics'.shown
        <5>1. Exits(h, u)
          BY <1>5, <3>2, <4>2
        <5>2. Ends(h, u)
          BY <5>1 DEF Ends, Exits
        <5> QED
          BY <1>5, <3>2, <5>2
      <4> QED
        BY <4>1, <4>2
    <3>3. CASE SomeEnters(s, u)
      <4>1. ~Enters(h, u)
        BY <1>5
      <4>2. SomeEnters(t, u)
        BY <1>2, <3>3, <4>1
      <4> QED
        BY <4>2, AnnouncedIs DEF t
    <3>4. CASE ~NoneEnds(s, u) /\ ~SomeEnters(s, u)
      <4>1. CASE ~NoneEnds(t, u)
        BY <4>1, AnnouncedIs DEF t
      <4>2. CASE NoneEnds(t, u)
        <5>1. Ends(h, u)
          BY <1>2, <3>4, <4>2
        <5>2. u \notin pics.shown
          BY <1>5, <5>1
        <5>3. u # Me
          <6>1. inMeeting
            BY <1>4, <2>1 DEF ScreenTypeOK
          <6> QED
            BY <1>4, <5>2, <6>1
        <5>4. u \in Pending
          BY <2>1, <2>3, <5>3 DEF Pending
        <5>5. SomeEnters(s, u) \/ NoneEnds(s, u)
          BY <1>4, <5>2, <5>4 DEF FramesAreKnown
        <5> QED
          BY <3>4, <5>5
      <4> QED
        BY <4>1, <4>2
    <3> QED
      BY <3>1, <3>2, <3>3, <3>4
  <2> QED
    BY <2>1, <2>2, <2>3
<1>13. ~inMeeting => frames = {} /\ pics'.live = {} /\ room = {} /\ filming = {}
  BY <1>4, <1>5
<1> QED
  BY <1>3, <1>4, <1>7, <1>10, <1>11, <1>12, <1>13 DEF NewsInv, Pending, t

LEMMA HeadKinds ==
  ASSUME ScreenTypeOK, NEW k, Handles(k), NEW u
  PROVE  LET h == Head(notices)
         IN  /\ k \in OfUser => /\ Enters(h, u) <=> k = "joined" /\ u = Subject
                                /\ Exits(h, u) <=> k = "exited" /\ u = Subject
                                /\ Ends(h, u) <=> k \in {"exited", "closed"} /\ u = Subject
             /\ k = "snapshot" => /\ Enters(h, u) <=> u \in h.users
                                  /\ ~Exits(h, u) /\ ~Ends(h, u)
<1>1. Head(notices) \in NoticeSet /\ Head(notices).kind = k
  BY Handling
<1> QED
  BY <1>1, NoticeFields DEF Enters, Exits, Ends, Subject, OfUser

LEMMA TakenBy ==
  ASSUME NEW k, Handles(k)
  PROVE  /\ notices # <<>> /\ notices' = Tail(notices)
         /\ UNCHANGED <<inMeeting, frames, leaving, room, filming>>
  BY DEF Handles

LEMMA HandlersNews ==
  ASSUME ScreenTypeOK, PicturesInv, NewsInv,
         \/ OnPartnerJoined \/ OnPartnersSnapshot \/ OnPartnerExited
         \/ OnCameraClosed \/ OnUserProfile
  PROVE  NewsInv'
<1> DEFINE h == Head(notices)
<1>1. CASE OnPartnerJoined
  <2>1. Handles("joined") /\ LateEnds
    BY <1>1 DEF OnPartnerJoined
  <2>2. \A u : (Enters(h, u) <=> u = Subject) /\ ~Exits(h, u) /\ ~Ends(h, u)
    BY <2>1, HeadKinds DEF OfUser
  <2>3. pics'.shown = pics.shown \cup {Subject} /\ pics'.live = pics.live \ {Subject}
    BY <1>1, JoinedStep
  <2> HIDE DEF Subject
  <2>4. /\ pics'.live \subseteq pics.live
        /\ \A u : u \in pics.shown => u \in pics'.shown \/ (Exits(h, u) /\ u \in Users)
        /\ \A u : Enters(h, u) => u \in pics'.shown /\ u \notin pics'.live
        /\ \A u : Ends(h, u) /\ u \in pics.shown => u \notin pics'.live
    BY <2>2, <2>3
  <2>5. PICK g : g = h
    OBVIOUS
  <2> QED
    BY <2>1, <2>4, TakenBy, NoticeTaken
<1>2. CASE OnPartnersSnapshot
  <2> DEFINE us == h.users
  <2>1. Handles("snapshot") /\ LateEnds
    BY <1>2 DEF OnPartnersSnapshot
  <2>2. \A u : (Enters(h, u) <=> u \in us) /\ ~Exits(h, u) /\ ~Ends(h, u)
    BY <2>1, HeadKinds
  <2>3. pics'.shown = pics.shown \cup us /\ pics'.live = pics.live \ us
    BY <1>2, SnapshotStep
  <2> HIDE DEF us
  <2>4. /\ pics'.live \subseteq pics.live
        /\ \A u : u \in pics.shown => u \in pics'.shown \/ (Exits(h, u) /\ u \in Users)
        /\ \A u : Enters(h, u) => u \in pics'.shown /\ u \notin pics'.live
        /\ \A u : Ends(h, u) /\ u \in pics.shown => u \notin pics'.live
    BY <2>2, <2>3
  <2> QED
    BY <2>1, <2>4, TakenBy, NoticeTaken
<1>3. CASE OnPartnerExited
  <2>1. Handles("exited") /\ LateEnds
    BY <1>3 DEF OnPartnerExited
  <2>2. \A u : ~Enters(h, u) /\ (Exits(h, u) <=> u = Subject) /\ (Ends(h, u) <=> u = Subject)
    BY <2>1, HeadKinds DEF OfUser
  <2>3. /\ pics'.shown = pics.shown \ {Subject} /\ Subject \in Users
        /\ pics'.live = pics.live \ ({Subject} \cap pics.shown)
    BY <1>3, ExitedStep
  <2> HIDE DEF Subject
  <2>4. /\ pics'.live \subseteq pics.live
        /\ \A u : u \in pics.shown => u \in pics'.shown \/ (Exits(h, u) /\ u \in Users)
        /\ \A u : Enters(h, u) => u \in pics'.shown /\ u \notin pics'.live
        /\ \A u : Ends(h, u) /\ u \in pics.shown => u \notin pics'.live
    BY <2>2, <2>3
  <2> QED
    BY <2>1, <2>4, TakenBy, NoticeTaken
<1>4. CASE OnCameraClosed
  <2>1. Handles("closed") /\ LateEnds
    BY <1>4 DEF OnCameraClosed
  <2>2. \A u : ~Enters(h, u) /\ ~Exits(h, u) /\ (Ends(h, u) <=> u = Subject)
    BY <2>1, HeadKinds DEF OfUser
  <2>3. pics'.shown = pics.shown /\ pics'.live = pics.live \ ({Subject} \cap pics.shown)
    BY <1>4, ClosedStep
  <2> HIDE DEF Subject
  <2>4. /\ pics'.live \subseteq pics.live
        /\ \A u : u \in pics.shown => u \in pics'.shown \/ (Exits(h, u) /\ u \in Users)
        /\ \A u : Enters(h, u) => u \in pics'.shown /\ u \notin pics'.live
        /\ \A u : Ends(h, u) /\ u \in pics.shown => u \notin pics'.live
    BY <2>2, <2>3
  <2> QED
    BY <2>1, <2>4, TakenBy, NoticeTaken
<1>5. CASE OnUserProfile
  <2>1. Handles("profile") /\ LateEnds
    BY <1>5 DEF OnUserProfile
  <2>2. \A u : ~Enters(h, u) /\ ~Exits(h, u) /\ ~Ends(h, u)
    BY <2>1, HeadKinds DEF OfUser
  <2>3. pics'.shown = pics.shown \cup {Subject} /\ pics'.live \subseteq pics.live
    BY <1>5, ProfileStep
  <2> HIDE DEF Subject
  <2>4. /\ pics'.live \subseteq pics.live
        /\ \A u : u \in pics.shown => u \in pics'.shown \/ (Exits(h, u) /\ u \in Users)
        /\ \A u : Enters(h, u) => u \in pics'.shown /\ u \notin pics'.live
        /\ \A u : Ends(h, u) /\ u \in pics.shown => u \notin pics'.live
    BY <2>2, <2>3
  <2> QED
    BY <2>1, <2>4, TakenBy, NoticeTaken
<1> QED
  BY <1>1, <1>2, <1>3, <1>4, <1>5

(* The steps that take no notice: the window's own, those of the media       *)
(* session and the replies of the avatar server.                             *)
LEMMA StartNews ==
  ASSUME ScreenTypeOK, PicturesInv, NewsInv, OnMeetingResult
  PROVE  NewsInv'
<1> DEFINE s == notices
           t == notices'
<1>1. /\ ~inMeeting /\ inMeeting' /\ room' \in SUBSET Users /\ filming' = {}
      /\ frames' = frames /\ leaving' = leaving /\ late' = late
  BY DEF OnMeetingResult
<1>2. frames = {} /\ pics.live = {} /\ EndsAreInOrder(s)
  BY <1>1 DEF NewsInv
<1>3. pics'.shown = pics.shown \cup {Me} /\ pics'.live = {}
  BY <1>2, StartStep
<1>4. EndsAreInOrder(t) /\ \A u \in room' : HasCome(t, u)
  <2>1. CASE room' = {}
    BY <1>2, <2>1 DEF OnMeetingResult
  <2>2. CASE room' # {}
    <3>1. PICK n : n = Snapshot(room')
      OBVIOUS
    <3>2. s \in Seq(NoticeSet) /\ n \in NoticeSet /\ t = Append(s, n)
      BY <1>1, <2>2, <3>1, NewNotices DEF OnMeetingResult, Announce, ScreenTypeOK
    <3>3. \A u : ~Ends(n, u) /\ (Enters(n, u) <=> u \in room')
      BY <3>1 DEF Snapshot, Ends, Enters
    <3> HIDE DEF s, t
    <3>4. EndsAreInOrder(t)
      BY <1>2, <3>2, <3>3, OrderAppended
    <3>5. \A u \in room' : HasCome(t, u)
      BY <3>2, <3>3, NewsAppended
    <3> QED
      BY <3>4, <3>5
  <2> QED
    BY <2>1, <2>2
<1>5. MemberIsKnown(t, pics'.shown, room')
  BY <1>4 DEF MemberIsKnown
<1>6. Pending' = {}
  BY <1>1, <1>2, <1>3 DEF Pending
<1>7. FramesAreKnown(t, pics'.shown, room', Pending')
  BY <1>6 DEF FramesAreKnown
<1>8. NoFrozenPicture'
  BY <1>3 DEF NoFrozenPicture
<1> QED
  BY <1>1, <1>3, <1>4, <1>5, <1>7, <1>8 DEF NewsInv, Pending

LEMMA EndNews ==
  ASSUME ScreenTypeOK, PicturesInv, NewsInv, EndMeeting
  PROVE  NewsInv'
<1>1. /\ ~inMeeting' /\ room' = {} /\ filming' = {} /\ frames' = {} /\ notices' = notices
  BY DEF EndMeeting
<1>2. pics'.shown = {} /\ pics'.live = {}
  BY EndStep
<1>3. Pending' = {}
  BY <1>1, <1>2 DEF Pending
<1> QED
  BY <1>1, <1>2, <1>3 DEF NewsInv, Pending, NoFrozenPicture, MemberIsKnown, FramesAreKnown

(* A step that leaves the notices and the room and takes no tile away.       *)
LEMMA ScreenNews ==
  ASSUME ScreenTypeOK, NewsInv, UNCHANGED <<inMeeting, notices, room>>, pics'.shown = pics.shown,
         Pending' \subseteq Pending, inMeeting \/ (frames' = frames /\ pics'.live \subseteq pics.live),
         inMeeting \/ filming' = filming, NoFrozenPicture'
  PROVE  NewsInv'
<1>1. FramesAreKnown(notices, pics.shown, room, Pending')
  BY DEF NewsInv, FramesAreKnown, Pending
<1>2. FramesAreKnown(notices', pics'.shown, room', Pending')
  BY <1>1
<1> QED
  BY <1>2 DEF NewsInv, Pending, ScreenTypeOK

LEMMA WindowNews ==
  ASSUME ScreenTypeOK, PicturesInv, NewsInv
  PROVE  /\ IStopFilming => NewsInv'
         /\ \A u \in People : OnMemberClicked(u) => NewsInv'
         /\ \A u \in Users : OnRemoteFrame(u) => NewsInv'
         /\ OnPreviewFrame => NewsInv'
         /\ \A u \in Users : OnRtcRemoteUserLeft(u) => NewsInv'
         /\ \A l \in pics.loads : LoadEnds(l) => NewsInv'
<1>1. ASSUME IStopFilming
      PROVE  NewsInv'
  <2>1. /\ inMeeting /\ filming' = filming \ {Me}
        /\ UNCHANGED <<inMeeting, notices, frames, leaving, room, late>>
    BY <1>1 DEF IStopFilming
  <2>2. pics'.shown = pics.shown /\ pics'.live = pics.live \ ({Me} \cap pics.shown)
    BY <1>1, ShutterStep
  <2>3. Me \in pics.shown
    BY <2>1 DEF NewsInv
  <2>4. NoFrozenPicture'
    BY <2>1, <2>2, <2>3, AnnouncedIs DEF NewsInv, NoFrozenPicture
  <2>5. Pending' \subseteq Pending
    BY <2>1, <2>2 DEF Pending
  <2> QED
    BY <2>1, <2>2, <2>4, <2>5, ScreenNews
<1>2. ASSUME NEW u \in People, OnMemberClicked(u)
      PROVE  NewsInv'
  <2>1. UNCHANGED <<inMeeting, notices, frames, leaving, room, filming, late>>
    BY <1>2 DEF OnMemberClicked
  <2>2. pics'.shown = pics.shown /\ pics'.live = pics.live
    BY <1>2, ClickStep
  <2>3. NoFrozenPicture'
    BY <2>1, <2>2, AnnouncedIs DEF NewsInv, NoFrozenPicture
  <2>4. Pending' \subseteq Pending
    BY <2>1, <2>2 DEF Pending
  <2> QED
    BY <2>1, <2>2, <2>3, <2>4, ScreenNews
<1>3. ASSUME NEW u \in Users, OnRemoteFrame(u)
      PROVE  NewsInv'
  <2>1. /\ UNCHANGED <<inMeeting, notices, leaving, room, filming>>
        /\ u \in frames /\ frames' = frames \ {u}
        /\ late' = IF u \in filming \/ Announced(u) THEN late ELSE late \cup {u}
    BY <1>3 DEF OnRemoteFrame
  <2>2. pics'.shown = pics.shown /\ pics'.live = pics.live \cup {u}
    BY <1>3, FrameStep
  <2>3. inMeeting
    BY <2>1 DEF NewsInv, ScreenTypeOK
  <2>4. \A w : Announced(w) => Announced(w)'
    BY <2>1, <2>2, AnnouncedIs
  <2>5. NoFrozenPicture'
    BY <2>1, <2>2, <2>4 DEF NewsInv, NoFrozenPicture
  <2>6. Pending' \subseteq Pending
    BY <2>1, <2>2 DEF Pending
  <2> QED
    BY <2>1, <2>2, <2>3, <2>5, <2>6, ScreenNews
<1>4. ASSUME OnPreviewFrame
      PROVE  NewsInv'
  <2>1. /\ UNCHANGED <<inMeeting, notices, leaving, room, filming, late>>
        /\ Me \in frames /\ frames' = frames \ {Me}
    BY <1>4 DEF OnPreviewFrame
  <2>2. pics'.shown = pics.shown /\ pics'.live = pics.live \cup ({Me} \cap filming)
    BY <1>4, PreviewStep
  <2>3. inMeeting
    BY <2>1 DEF NewsInv, ScreenTypeOK
  <2>4. \A w : Announced(w) => Announced(w)'
    BY <2>1, <2>2, AnnouncedIs
  <2>5. NoFrozenPicture'
    BY <2>1, <2>2, <2>4 DEF NewsInv, NoFrozenPicture
  <2>6. Pending' \subseteq Pending
    BY <2>1, <2>2 DEF Pending
  <2> QED
    BY <2>1, <2>2, <2>3, <2>5, <2>6, ScreenNews
<1>5. ASSUME NEW u \in Users, OnRtcRemoteUserLeft(u)
      PROVE  NewsInv'
  <2>1. /\ UNCHANGED <<inMeeting, notices, room, filming>>
        /\ leaving' = leaving \ {u} /\ frames' = frames \ {u}
        /\ late' = late \cap pics'.live
    BY <1>5 DEF OnRtcRemoteUserLeft, LateEnds
  <2>2. pics'.shown = pics.shown /\ pics'.live = pics.live \ ({u} \cap pics.shown)
    BY <1>5, LeftStep
  <2>3. \A w \in pics'.live : Announced(w) => Announced(w)'
    BY <2>1, <2>2, AnnouncedIs
  <2>4. NoFrozenPicture'
    BY <2>1, <2>2, <2>3 DEF NewsInv, NoFrozenPicture
  <2>5. Pending' \subseteq Pending
    BY <2>1, <2>2 DEF Pending
  <2>6. inMeeting \/ (frames' = frames /\ pics'.live \subseteq pics.live)
    BY <2>1, <2>2 DEF NewsInv
  <2> QED
    BY <2>1, <2>2, <2>4, <2>5, <2>6, ScreenNews
<1>6. ASSUME NEW l \in pics.loads, LoadEnds(l)
      PROVE  NewsInv'
  <2>1. UNCHANGED <<inMeeting, notices, frames, leaving, room, filming, late>>
    BY <1>6 DEF LoadEnds
  <2>2. pics'.shown = pics.shown /\ pics'.live = pics.live
    BY <1>6, LoadStep
  <2>3. NoFrozenPicture'
    BY <2>1, <2>2, AnnouncedIs DEF NewsInv, NoFrozenPicture
  <2>4. Pending' \subseteq Pending
    BY <2>1, <2>2 DEF Pending
  <2> QED
    BY <2>1, <2>2, <2>3, <2>4, ScreenNews
<1> QED
  BY <1>1, <1>2, <1>3, <1>4, <1>5, <1>6

-----------------------------------------------------------------------------
(* The theorems *)

ScreenInv == ScreenTypeOK /\ PicturesInv /\ NewsInv

LEMMA ScreenBegins == ScreenInit => ScreenInv
<1> SUFFICES ASSUME ScreenInit
             PROVE  ScreenInv
  OBVIOUS
<1>1. NoPics \in Pics
  BY Pictures DEF NoPics, Pics
<1>2. ScreenTypeOK
  <2>1. inMeeting \in BOOLEAN /\ meetings \in Nat /\ acts \in Nat
    BY DEF ScreenInit
  <2>3. pics \in Pics
    BY <1>1 DEF ScreenInit
  <2>4. version \in [People -> Nat]
    BY DEF ScreenInit
  <2>5. notices \in Seq(NoticeSet)
    BY DEF ScreenInit
  <2>2. /\ frames \in SUBSET People /\ leaving \in SUBSET Users /\ late \in SUBSET People
        /\ room \in SUBSET Users /\ filming \in SUBSET (room \cup {Me})
    BY DEF ScreenInit
  <2> QED
    BY <2>1, <2>2, <2>3, <2>4, <2>5 DEF ScreenTypeOK
<1>3. \A u \in People : TileOK(NoPics, u)
  BY DEF TileOK, NoPics
<1>4. PicturesInv
  BY <1>3 DEF ScreenInit, PicturesInv, TilesOK
<1>5. DOMAIN notices = {} /\ room = {} /\ ~inMeeting /\ frames = {} /\ filming = {}
  BY DEF ScreenInit
<1>6. pics.live = {}
  BY DEF ScreenInit, NoPics
<1>7. NewsInv
  BY <1>5, <1>6 DEF NewsInv, MemberIsKnown, EndsAreInOrder, FramesAreKnown, NoFrozenPicture
<1> QED
  BY <1>2, <1>4, <1>7 DEF ScreenInv

LEMMA ScreenStep == ScreenInv /\ [ScreenNext]_screenVars => ScreenInv'
<1> SUFFICES ASSUME ScreenInv, [ScreenNext]_screenVars
             PROVE  ScreenInv'
  OBVIOUS
<1>1. ScreenTypeOK /\ PicturesInv /\ NewsInv
  BY DEF ScreenInv
<1>2. CASE QuietNext
  BY <1>1, <1>2, QuietStep, QuietNews DEF ScreenInv
<1>3. CASE IStopFilming
  BY <1>1, <1>3, ShutterStep, WindowNews DEF ScreenInv
<1>4. ASSUME NEW u \in People, OnMemberClicked(u)
      PROVE  ScreenInv'
  BY <1>1, <1>4, ClickStep, WindowNews DEF ScreenInv
<1>5. CASE OnMeetingResult
  BY <1>1, <1>5, StartStep, StartNews DEF ScreenInv
<1>6. CASE EndMeeting
  BY <1>1, <1>6, EndStep, EndNews DEF ScreenInv
<1>7. CASE OnPartnerJoined
  BY <1>1, <1>7, JoinedStep, HandlersNews DEF ScreenInv
<1>8. CASE OnPartnersSnapshot
  BY <1>1, <1>8, SnapshotStep, HandlersNews DEF ScreenInv
<1>9. CASE OnPartnerExited
  BY <1>1, <1>9, ExitedStep, HandlersNews DEF ScreenInv
<1>10. CASE OnCameraClosed
  BY <1>1, <1>10, ClosedStep, HandlersNews DEF ScreenInv
<1>11. CASE OnUserProfile
  BY <1>1, <1>11, ProfileStep, HandlersNews DEF ScreenInv
<1>12. ASSUME NEW u \in Users, OnRemoteFrame(u)
       PROVE  ScreenInv'
  BY <1>1, <1>12, FrameStep, WindowNews DEF ScreenInv
<1>13. ASSUME NEW u \in Users, OnRtcRemoteUserLeft(u)
       PROVE  ScreenInv'
  BY <1>1, <1>13, LeftStep, WindowNews DEF ScreenInv
<1>14. CASE OnPreviewFrame
  BY <1>1, <1>14, PreviewStep, WindowNews DEF ScreenInv
<1>15. ASSUME NEW l \in pics.loads, LoadEnds(l)
       PROVE  ScreenInv'
  BY <1>1, <1>15, LoadStep, WindowNews DEF ScreenInv
<1>16. CASE UNCHANGED screenVars
  <2>1. ScreenTypeOK' /\ PicturesInv'
    BY <1>1, <1>16 DEF screenVars, ScreenTypeOK, PicturesInv
  <2>2. NoFrozenPicture'
    BY <1>1, <1>16 DEF screenVars, NewsInv, NoFrozenPicture, Announced
  <2>3. NewsInv'
    BY <1>1, <1>16, <2>2 DEF screenVars, NewsInv
  <2> QED
    BY <2>1, <2>3 DEF ScreenInv
<1>17. CASE ScreenNext
  BY <1>2, <1>3, <1>4, <1>5, <1>6, <1>7, <1>8, <1>9, <1>10, <1>11, <1>12, <1>13, <1>14, <1>15,
     <1>17 DEF ScreenNext, QuietNext
<1> QED
  BY <1>16, <1>17

(* The invariant, for any users, avatars and bounds.                         *)
THEOREM ScreenInvariant == ScreenSpec => []ScreenInv
<1> QED
  BY ScreenBegins, ScreenStep, PTL DEF ScreenSpec

(* In a meeting the main picture is of the member that was selected last,    *)
(* and every picture is the last frame or the last avatar of its member,     *)
(* unless a reply of CameraVideo::loadAndShowAvatar is awaited or failed.    *)
THEOREM ScreenStaysCurrent == ScreenSpec => []ScreenIsCurrent
<1>1. ScreenInv => ScreenIsCurrent
  BY PicturesMeanCurrent DEF ScreenInv
<1> QED
  BY <1>1, ScreenInvariant, PTL

(* Who no longer films is not shown with its last frame once all that was    *)
(* sent about it is handled, unless that frame came after its notice.        *)
THEOREM ScreenDoesNotFreeze == ScreenSpec => []NoFrozenPicture
<1>1. ScreenInv => NoFrozenPicture
  BY DEF ScreenInv, NewsInv
<1> QED
  BY <1>1, ScreenInvariant, PTL
=============================================================================
