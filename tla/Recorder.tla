------------------------------ MODULE Recorder ------------------------------
(***************************************************************************)
(* Recording a meeting: RoomSettingsController, which permits it, and      *)
(* MeetingRecorder, which drives a QMediaRecorder.  All of it runs on the  *)
(* UI thread; the backend reports through signals, in its own time or not  *)
(* at all, and each stop leaves a 300 ms timer that finalizes whatever     *)
(* recording is there when it fires.  A take is one call of start.         *)
(***************************************************************************)
EXTENDS Naturals

CONSTANTS
  MaxTakes    \* bound on the recordings

ASSUME TakesAreNaturals == MaxTakes \in Nat

None == 0
Takes == 1 .. MaxTakes

VARIABLES
  sessionActive,  \* RoomSettingsController::_sessionActive
  allowed,        \* ROOM_SETTINGS_ALLOW_RECORD in _flags
  take,           \* calls of start so far, the take of _outputPath
  recording,      \* _recording
  finalized,      \* _finalized
  retried,        \* _retriedWithMjpeg
  pipeline,       \* the take of _recorder and _frameInput, None when they are null
  backend,        \* the state of the QMediaRecorder
  timers,         \* 300 ms timers running
  filed           \* how often the metadata of each take has been written

roomVars == <<sessionActive, allowed>>
takeVars == <<take, retried>>
vars == <<roomVars, takeVars, recording, finalized, pipeline, backend, timers, filed>>

FlagsOK ==
  /\ sessionActive \in BOOLEAN /\ allowed \in BOOLEAN
  /\ recording \in BOOLEAN /\ finalized \in BOOLEAN /\ retried \in BOOLEAN

TakesOK ==
  /\ take \in 0..MaxTakes /\ pipeline \in {None, take}
  /\ backend \in {"recording", "stopping", "stopped"}
  /\ timers \in Nat /\ filed \in [Takes -> Nat]

TypeOK == FlagsOK /\ TakesOK

Init ==
  /\ sessionActive = FALSE /\ allowed = TRUE
  /\ take = 0 /\ recording = FALSE /\ finalized = TRUE /\ retried = FALSE
  /\ pipeline = None /\ backend = "stopped" /\ timers = 0
  /\ filed = [t \in Takes |-> 0]

-----------------------------------------------------------------------------
(* MeetingRecorder *)

(* Faulty: every caller finalizes. *)
FinalizeAgain ==
  /\ finalized' = TRUE
  /\ filed' = IF take = 0 THEN filed ELSE [filed EXCEPT ![take] = @ + 1]
  /\ pipeline' = None

(* finalize: at most once for a take, then the pipeline is released *)
Finalize ==
  IF finalized THEN UNCHANGED <<finalized, filed, pipeline>>
  ELSE /\ finalized' = TRUE
       /\ filed' = [filed EXCEPT ![take] = @ + 1]
       /\ pipeline' = None

(* Faulty: no timer makes up for a backend that does not answer. *)
StopWithoutFallback ==
  /\ recording' = FALSE
  /\ backend' = IF backend = "recording" THEN "stopping" ELSE backend
  /\ UNCHANGED <<timers, finalized, filed, pipeline>>

(* stop: the backend answers at once, later, or never *)
Stop ==
  /\ recording' = FALSE
  /\ timers' = timers + 1
  /\ \/ /\ pipeline # None /\ backend = "recording"
        /\ backend' = "stopping"
        /\ UNCHANGED <<finalized, filed, pipeline>>
     \/ /\ pipeline # None /\ backend = "stopped"
        /\ UNCHANGED <<backend, finalized, filed, pipeline>>
     \/ /\ backend' = "stopped"
        /\ Finalize

(* Faulty: a recording goes on when it is no longer allowed. *)
StopNothing == UNCHANGED <<recording, timers, backend, finalized, filed, pipeline>>

StopIfRecording ==
  \/ recording /\ Stop
  \/ ~recording /\ UNCHANGED <<recording, timers, backend, finalized, filed, pipeline>>

StartAllowed == ~recording /\ sessionActive /\ allowed /\ take < MaxTakes

StartRecording ==
  /\ StartAllowed
  /\ take' = take + 1
  /\ retried' = FALSE
  /\ finalized' = FALSE
  /\ pipeline' = take'
  /\ backend' = "recording"
  /\ recording' = TRUE
  /\ UNCHANGED <<roomVars, timers, filed>>

(* The error handler runs inside record(), before _recording is set. *)
StartWithError ==
  /\ StartAllowed
  /\ take' = take + 1
  /\ retried' = FALSE
  /\ finalized' = TRUE
  /\ filed' = [filed EXCEPT ![take'] = @ + 1]
  /\ pipeline' = None
  /\ backend' = "stopped"
  /\ recording' = TRUE
  /\ UNCHANGED <<roomVars, timers>>

StopRecording ==
  /\ recording /\ Stop
  /\ UNCHANGED <<roomVars, takeVars>>

FallbackFires ==
  /\ timers > 0
  /\ timers' = timers - 1
  /\ Finalize
  /\ UNCHANGED <<roomVars, takeVars, recording, backend>>

-----------------------------------------------------------------------------
(* Signals of the backend; those of a released QMediaRecorder are cut off   *)

BackendStops ==
  /\ pipeline # None /\ backend # "stopped"
  /\ backend' = "stopped"
  /\ IF recording THEN UNCHANGED <<finalized, filed, pipeline>> ELSE Finalize
  /\ UNCHANGED <<roomVars, takeVars, recording, timers>>

(* The first format error is answered by another pipeline for the take. *)
RetryWithMjpeg ==
  /\ pipeline # None /\ recording /\ ~retried
  /\ retried' = TRUE
  /\ pipeline' = take
  /\ backend' = "recording"
  /\ UNCHANGED <<roomVars, take, recording, finalized, timers, filed>>

BackendFails ==
  /\ pipeline # None
  /\ recording' = FALSE
  /\ Finalize
  /\ UNCHANGED <<roomVars, takeVars, backend, timers>>

-----------------------------------------------------------------------------
(* The room: switches and the session *)

RevokeRecording ==
  /\ allowed
  /\ allowed' = FALSE
  /\ StopIfRecording
  /\ UNCHANGED <<sessionActive, takeVars>>

PermitRecording ==
  /\ ~allowed
  /\ allowed' = TRUE
  /\ UNCHANGED <<sessionActive, takeVars, recording, finalized, pipeline, backend, timers, filed>>

EnterMeeting ==
  /\ ~sessionActive
  /\ sessionActive' = TRUE
  /\ UNCHANGED <<allowed, takeVars, recording, finalized, pipeline, backend, timers, filed>>

LeaveMeeting ==
  /\ sessionActive
  /\ StopIfRecording
  /\ sessionActive' = FALSE
  /\ allowed' = TRUE
  /\ UNCHANGED takeVars

-----------------------------------------------------------------------------

Next ==
  \/ StartRecording
  \/ StartWithError
  \/ StopRecording
  \/ FallbackFires
  \/ BackendStops
  \/ RetryWithMjpeg
  \/ BackendFails
  \/ RevokeRecording
  \/ PermitRecording
  \/ EnterMeeting
  \/ LeaveMeeting

(* Timers fire; nothing is promised of the backend. *)
Spec == Init /\ [][Next]_vars /\ WF_vars(FallbackFires)

-----------------------------------------------------------------------------
(* Nothing is recorded outside a meeting or against the host's switch.       *)
RevokedStops == recording => sessionActive /\ allowed

(* The metadata of a recording is written once, whichever of the backend,    *)
(* the timers of this and earlier takes and an error comes first.            *)
FiledOnce == \A t \in Takes : filed[t] <= 1

(* What makes FiledOnce inductive: only the present take can still be filed, *)
(* and it is unfiled exactly while it is not finalized.                      *)
FilingInv ==
  /\ TakesOK
  /\ FiledOnce
  /\ \A t \in Takes : t > take => filed[t] = 0
  /\ ~finalized => take \in Takes /\ filed[take] = 0
=============================================================================
