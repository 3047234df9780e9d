---------------------------- MODULE SettingsPage ----------------------------
(***************************************************************************)
(* The settings page (stack_setting): its lists of cameras and formats,    *)
(* the preview of the camera they name, the microphone test and the saved  *)
(* preferences.  A preview is opened in three steps: a 16 ms timer of the  *)
(* UI thread, a job of the thread pool that picks a format, and an event   *)
(* posted back that starts the camera; anything may change in between, and *)
(* preview_generation_ tells the late ones.  Stopping a camera is posted   *)
(* too.  The error of a camera brings up a modal box, under which timers   *)
(* and posted events go on.                                                *)
(*                                                                         *)
(* Instead of its generation a job carries whether that is still the       *)
(* present one.  A resolution and its frame rates are one format, a        *)
(* number; the nearest format a camera has is the best.                    *)
(***************************************************************************)
EXTENDS Integers, Sequences, FiniteSets, SequencesExt

CONSTANTS
  Cameras,     \* cameras that may be plugged in
  FormatsOf,   \* [Cameras -> the formats the camera has]
  Fallback,    \* the formats offered when there is no camera
  Default,     \* the format of the built-in configuration
  NoCamera,    \* no camera: the null QCameraDevice, the empty id
  MaxClicks,   \* bound on what the user does
  MaxBoxes,    \* bound on the error boxes shown at once
  MaxPlugs     \* bound on the cameras plugged and unplugged

ASSUME FormatsAreNaturals ==
  /\ NoCamera \notin Cameras
  /\ Default \in Nat /\ Fallback \in SUBSET Nat \ {{}}
  /\ FormatsOf \in [Cameras -> SUBSET Nat \ {{}}]

VARIABLES
  plugged,    \* QMediaDevices::videoInputs
  visible,    \* isVisible
  row,        \* the row of categoryList
  enabled,    \* video_preview_enabled_
  listed,     \* videoDeviceCombo is enabled: it lists cameras
  combo,      \* its cameras
  device,     \* currentVideoDeviceId
  offered,    \* the formats videoResolution and videoFps list
  format,     \* currentResolution and currentFps
  saved,      \* the preferences in Storage
  refreshes,  \* device refreshes whose 50 ms have not passed
  timer,      \* preview_start_timer_ is running
  jobs,       \* jobs of the pool
  posted,     \* events posted to the UI thread, in order
  camera,     \* camera_ and its format, {} when it is null
  opening,    \* the preview says that the camera is being opened
  micTesting, \* mic_testing_
  boxes,      \* modal boxes of camera errors, one within the other
  clicks, plugs

formVars == <<listed, combo, device, offered, format>>
pageVars == <<visible, row>>
previewVars == <<timer, jobs, posted, camera, opening>>
vars == <<plugged, pageVars, enabled, formVars, saved, refreshes, previewVars, micTesting, boxes,
          clicks, plugs>>

Rows == {"video", "audio", "general"}

Init ==
  /\ plugged \in SUBSET Cameras
  /\ visible = FALSE /\ row = "video"
  /\ enabled \in BOOLEAN
  /\ listed = FALSE /\ combo = {} /\ device = NoCamera /\ format = Default
  /\ offered = {}
  /\ saved = [device |-> NoCamera, format |-> Default]
  /\ refreshes = 0
  /\ timer = FALSE /\ jobs = {} /\ posted = <<>> /\ camera = {} /\ opening = FALSE
  /\ micTesting = FALSE /\ boxes = 0
  /\ clicks = 0 /\ plugs = 0

-----------------------------------------------------------------------------
(* The preview *)

Late(job) == [job EXCEPT !.fresh = FALSE]

Cleanup(c) == [kind |-> "cleanup", fresh |-> FALSE, device |-> c.device, format |-> c.format]

LateEvents == [i \in DOMAIN posted |-> Late(posted[i])]

(* releasePreviewHardware(true): the camera is let go and its stop posted   *)
Release(events) ==
  /\ camera' = {}
  /\ posted' = events \o SetToSeq({Cleanup(c) : c \in camera})

(* Faulty: the generation stays. *)
ScheduleWithinGeneration ==
  /\ jobs' = jobs
  /\ timer' = TRUE
  /\ Release(posted)
  /\ opening' = TRUE

Schedule ==
  /\ jobs' = {Late(j) : j \in jobs}
  /\ timer' = TRUE
  /\ Release(LateEvents)
  /\ opening' = TRUE

Stop ==
  /\ jobs' = {Late(j) : j \in jobs}
  /\ timer' = FALSE
  /\ Release(LateEvents)
  /\ opening' = FALSE

ScheduleIf(on) == (on /\ Schedule) \/ (~on /\ UNCHANGED previewVars)

(* syncPreviewForCategory *)
Sync(r, on) ==
  /\ micTesting' = (micTesting /\ r = "audio")
  /\ \/ r = "video" /\ on /\ Schedule
     \/ ~(r = "video" /\ on) /\ Stop

-----------------------------------------------------------------------------
(* The lists *)

FormatsIn(d) == IF d \in plugged THEN FormatsOf[d] ELSE Fallback

(* rebuildResolutionList and rebuildFpsList: the saved format when it is     *)
(* offered, else the first one                                               *)
RebuildFormats(d, f) ==
  /\ offered' = FormatsIn(d)
  /\ format' \in IF f \in FormatsIn(d) THEN {f} ELSE FormatsIn(d)

(* refreshVideoDevices: the saved camera when it is there, else the first    *)
RefreshVideoDevices(s) ==
  /\ listed' = (plugged # {})
  /\ combo' = plugged
  /\ device' \in IF plugged = {} THEN {NoCamera}
                 ELSE IF s.device \in plugged THEN {s.device} ELSE plugged
  /\ RebuildFormats(device', s.format)

-----------------------------------------------------------------------------
(* The user *)

Click ==
  /\ visible /\ boxes = 0 /\ clicks < MaxClicks
  /\ clicks' = clicks + 1

Show ==
  /\ ~visible /\ clicks < MaxClicks
  /\ clicks' = clicks + 1
  /\ visible' = TRUE
  /\ refreshes' = refreshes + 1
  /\ UNCHANGED <<plugged, row, enabled, formVars, saved, previewVars, micTesting, boxes, plugs>>

Hide ==
  /\ Click
  /\ visible' = FALSE
  /\ micTesting' = FALSE
  /\ Stop
  /\ UNCHANGED <<plugged, row, enabled, formVars, saved, refreshes, boxes, plugs>>

CategoryChanged(r) ==
  /\ r # row
  /\ Click
  /\ row' = r
  /\ Sync(r, enabled)
  /\ UNCHANGED <<plugged, visible, enabled, formVars, saved, refreshes, boxes, plugs>>

PreviewToggleClicked ==
  /\ row = "video"
  /\ Click
  /\ enabled' = ~enabled
  /\ (enabled' /\ Schedule) \/ (~enabled' /\ Stop)
  /\ UNCHANGED <<plugged, pageVars, formVars, saved, refreshes, micTesting, boxes, plugs>>

DeviceChanged(d) ==
  /\ row = "video" /\ listed /\ d # device
  /\ Click
  /\ device' = d
  /\ RebuildFormats(d, saved.format)
  /\ ScheduleIf(enabled)
  /\ UNCHANGED <<plugged, pageVars, enabled, listed, combo, saved, refreshes, micTesting, boxes,
                 plugs>>

FormatChanged(f) ==
  /\ row = "video" /\ f # format
  /\ Click
  /\ format' = f
  /\ ScheduleIf(enabled)
  /\ UNCHANGED <<plugged, pageVars, enabled, listed, combo, device, offered, saved, refreshes,
                 micTesting, boxes, plugs>>

(* The test starts when there is a microphone that opens. *)
MicTestClicked ==
  /\ row = "audio"
  /\ Click
  /\ micTesting' \in IF micTesting THEN {FALSE} ELSE BOOLEAN
  /\ UNCHANGED <<plugged, pageVars, enabled, formVars, saved, refreshes, previewVars, boxes, plugs>>

(* saveUiPrefs: the camera only when cameras are listed, the format always  *)
SaveClicked ==
  /\ Click
  /\ saved' = [device |-> IF listed THEN device ELSE saved.device, format |-> format]
  /\ UNCHANGED <<plugged, pageVars, enabled, formVars, refreshes, previewVars, micTesting, boxes,
                 plugs>>

(* onResetClicked stops the preview, stores the defaults and lists again.   *)
ResetClicked ==
  /\ Click
  /\ saved' = [device |-> NoCamera, format |-> Default]
  /\ RefreshVideoDevices(saved')
  /\ micTesting' = FALSE
  /\ (row = "video" /\ enabled /\ Schedule) \/ (~(row = "video" /\ enabled) /\ Stop)
  /\ UNCHANGED <<plugged, pageVars, enabled, refreshes, boxes, plugs>>

Plug(c) ==
  /\ plugs < MaxPlugs
  /\ plugs' = plugs + 1
  /\ plugged' = IF c \in plugged THEN plugged \ {c} ELSE plugged \cup {c}
  /\ UNCHANGED <<pageVars, enabled, formVars, saved, refreshes, previewVars, micTesting, boxes,
                 clicks>>

-----------------------------------------------------------------------------
(* Timers, the pool, posted events and the camera *)

RefreshDue ==
  /\ refreshes > 0
  /\ refreshes' = refreshes - 1
  /\ \/ /\ visible
        /\ RefreshVideoDevices(saved)
        /\ Sync(row, enabled)
     \/ ~visible /\ UNCHANGED <<formVars, previewVars, micTesting>>
  /\ UNCHANGED <<plugged, pageVars, enabled, saved, boxes, clicks, plugs>>

BeginPreview ==
  /\ timer
  /\ timer' = FALSE
  /\ IF visible /\ row = "video" /\ device # NoCamera
     THEN /\ jobs' = jobs \cup {[fresh |-> TRUE, device |-> device, format |-> format]}
          /\ opening' = opening
     ELSE /\ jobs' = jobs
          /\ opening' = (opening /\ ~(visible /\ row = "video"))
  /\ UNCHANGED <<plugged, pageVars, enabled, formVars, saved, refreshes, posted, camera, micTesting,
                 boxes, clicks, plugs>>

Abs(n) == IF n < 0 THEN -n ELSE n

Best(d, f) == CHOOSE g \in FormatsOf[d] : \A h \in FormatsOf[d] : Abs(g - f) <= Abs(h - f)

(* The job looks the camera up again and takes its nearest format. *)
JobEnds(j) ==
  /\ jobs' = jobs \ {j}
  /\ posted' = Append(posted,
       [kind |-> "apply", fresh |-> j.fresh,
        device |-> IF j.device \in plugged THEN j.device ELSE NoCamera,
        format |-> IF j.device \in plugged THEN Best(j.device, j.format) ELSE j.format])
  /\ UNCHANGED <<plugged, pageVars, enabled, formVars, saved, refreshes, timer, camera, opening,
                 micTesting, boxes, clicks, plugs>>

StartCamera(e) ==
  /\ camera' = {[device |-> e.device, format |-> e.format]}
  /\ posted' = Tail(posted) \o SetToSeq({Cleanup(c) : c \in camera})
  /\ opening' = opening

(* Faulty: a camera that has gone is passed over in silence. *)
ApplyIfThere(e) ==
  \/ e.device = NoCamera /\ Release(Tail(posted)) /\ opening' = opening
  \/ e.device # NoCamera /\ StartCamera(e)

(* applyVideoPreview *)
Apply(e) ==
  \/ e.device = NoCamera /\ Release(Tail(posted)) /\ opening' = FALSE
  \/ e.device # NoCamera /\ StartCamera(e)

(* Faulty: late jobs are applied as well. *)
WantedAlways(e) == e.kind = "apply" /\ visible /\ row = "video"

Wanted(e) == e.kind = "apply" /\ e.fresh /\ visible /\ row = "video"

HandleEvent ==
  /\ posted # <<>>
  /\ \/ Wanted(Head(posted)) /\ Apply(Head(posted))
     \/ ~Wanted(Head(posted)) /\ posted' = Tail(posted) /\ UNCHANGED <<camera, opening>>
  /\ UNCHANGED <<plugged, pageVars, enabled, formVars, saved, refreshes, timer, jobs, micTesting,
                 boxes, clicks, plugs>>

FrameArrives ==
  /\ camera # {} /\ opening
  /\ opening' = FALSE
  /\ UNCHANGED <<plugged, pageVars, enabled, formVars, saved, refreshes, timer, jobs, posted, camera,
                 micTesting, boxes, clicks, plugs>>

(* The handler shows its box, and stops the preview when that is dismissed. *)
CameraFails ==
  /\ camera # {} /\ boxes < MaxBoxes
  /\ boxes' = boxes + 1
  /\ UNCHANGED <<plugged, pageVars, enabled, formVars, saved, refreshes, previewVars, micTesting,
                 clicks, plugs>>

DismissBox ==
  /\ boxes > 0
  /\ boxes' = boxes - 1
  /\ Stop
  /\ UNCHANGED <<plugged, pageVars, enabled, formVars, saved, refreshes, micTesting, clicks, plugs>>

-----------------------------------------------------------------------------

Next ==
  \/ Show
  \/ Hide
  \/ \E r \in Rows : CategoryChanged(r)
  \/ PreviewToggleClicked
  \/ \E d \in combo : DeviceChanged(d)
  \/ \E f \in offered : FormatChanged(f)
  \/ MicTestClicked
  \/ SaveClicked
  \/ ResetClicked
  \/ \E c \in Cameras : Plug(c)
  \/ RefreshDue
  \/ BeginPreview
  \/ \E j \in jobs : JobEnds(j)
  \/ HandleEvent
  \/ FrameArrives
  \/ CameraFails
  \/ DismissBox

(* Timers fire, the pool runs its jobs and the event loop its events; the    *)
(* user and the cameras owe nothing.                                         *)
Spec ==
  /\ Init /\ [][Next]_vars
  /\ WF_vars(BeginPreview)
  /\ WF_vars(\E j \in jobs : JobEnds(j))
  /\ WF_vars(HandleEvent)

-----------------------------------------------------------------------------
(* The camera is on only while the page shows the preview and the user wants *)
(* it, and what it shows is what the lists say, whatever changed while it    *)
(* was being opened; the microphone only while its own page is shown.        *)
HardwareIsWanted ==
  /\ \A c \in camera : /\ visible /\ row = "video" /\ enabled
                       /\ c.device = device /\ c.format = Best(device, format)
  /\ micTesting => visible /\ row = "audio"

(* A camera is never started while it is still to be stopped for an earlier  *)
(* preview (which would fail: a camera has one user).                        *)
OneUserPerCamera ==
  \A c \in camera : \A i \in DOMAIN posted :
    posted[i].kind = "cleanup" => posted[i].device # c.device

(* The preview does not say for ever that the camera is being opened: it is  *)
(* started, or the text goes.                                                *)
OpeningEnds == opening ~> (~opening \/ camera # {})
=============================================================================
