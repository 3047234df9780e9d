---------------------------- MODULE ClientSession ----------------------------
(***************************************************************************)
(* One client from meeting to meeting: the window (MeetingWidget, on the   *)
(* UI thread), MeetingController on its thread and Connection on the IO    *)
(* thread, which reach each other through queued calls only.  A session is *)
(* the number of a connect request; what is posted in one session may be   *)
(* handled in a later one.                                                 *)
(*                                                                         *)
(* The send worker is the session it was started for; what happens between *)
(* its threads is the subject of SendWorker.  The server answers at will.  *)
(***************************************************************************)
EXTENDS Integers, Sequences

CONSTANT
  MaxSessions       \* bound on the connect requests

ASSUME SessionsAreNaturals == MaxSessions \in Nat

None == 0
Sessions == 1 .. MaxSessions

VARIABLES
  visible,     \* the meeting window is shown
  boxes,       \* modal message boxes on the screen, each with a close of the window to follow
  inMeeting,   \* _createmeet or _joinmeet
  active,      \* _sessionActive
  ending,      \* _sessionEnding
  connecting,  \* _connecting
  pending,     \* _hasPendingConnect
  session,     \* the number of connects asked for
  fallbacks,   \* 800 ms timers running
  hurried,     \* such a timer has ended an ending before its disconnect was over
  quit,        \* how far shutdown_all_workers is
  inbox,       \* events queued for the UI thread
  calls,       \* calls queued for the controller
  controller,  \* what the controller does, and for which session
  io,          \* calls queued for the IO thread
  socket,      \* the session of m_socket, None when null
  link,        \* whether that WebSocket is up
  asked,       \* the server has a request of that socket to answer
  outgoing,    \* MessageHub::send_queue_, the requests in it by session
  sender       \* the session of the running send worker, None when stopped

windowVars == <<visible, boxes, inMeeting, active, ending, connecting, pending, session,
                fallbacks, hurried>>
ioVars     == <<io, socket, link, asked>>
hubVars    == <<outgoing, sender>>
vars == <<windowVars, quit, inbox, calls, controller, ioVars, hubVars>>

Controller(state, n) == [state |-> state, session |-> n]
Idle == Controller("idle", None)

Connect(n) == [call |-> "connect", session |-> n]
Disconnect == [call |-> "disconnect", session |-> None]
Request(n) == [call |-> "request", session |-> n]
Send(n)    == [call |-> "sendWireData", session |-> n]
Destroy    == [call |-> "destroySocket", session |-> None]

Event(type, n) == [type |-> type, session |-> n, hops |-> 1]
(* frames and disconnects reach the window through the hub or the network manager *)
Routed(type, n) == [type |-> type, session |-> n, hops |-> 2]

Init ==
  /\ visible = FALSE /\ boxes = 0 /\ inMeeting = FALSE
  /\ active = FALSE /\ ending = FALSE /\ connecting = FALSE /\ pending = FALSE
  /\ session = 0 /\ fallbacks = 0 /\ hurried = FALSE /\ quit = "no"
  /\ inbox = <<>> /\ calls = <<>> /\ controller = Idle
  /\ io = <<>> /\ socket = None /\ link = FALSE /\ asked = FALSE
  /\ outgoing = <<>> /\ sender = None

-----------------------------------------------------------------------------
(* MeetingWidget: what its slots have in common *)

(* Faulty: an ending session is not waited for. *)
RequestConnectAtOnce(isEnding, isConnecting, wasPending) ==
  /\ session < MaxSessions
  /\ IF isConnecting
       THEN pending' = TRUE /\ connecting' = TRUE /\ UNCHANGED <<session, calls>>
       ELSE /\ pending' = wasPending
            /\ connecting' = TRUE
            /\ session' = session + 1
            /\ calls' = Append(calls, Connect(session'))

(* request_connect_to_server_slot *)
RequestConnect(isEnding, isConnecting, wasPending) ==
  /\ session < MaxSessions
  /\ IF isEnding \/ isConnecting
       THEN /\ pending' = TRUE
            /\ connecting' = isConnecting
            /\ UNCHANGED <<session, calls>>
       ELSE /\ pending' = wasPending
            /\ connecting' = TRUE
            /\ session' = session + 1
            /\ calls' = Append(calls, Connect(session'))

(* flush_pending_connect, once nothing is ending or connecting *)
FlushPendingConnect ==
  IF pending THEN RequestConnect(FALSE, FALSE, FALSE)
  ELSE connecting' = FALSE /\ UNCHANGED <<pending, session, calls>>

(* Faulty: _sessionEnding is not set. *)
CloseWindowWithoutEnding(isConnecting) ==
  /\ pending' = FALSE /\ visible' = FALSE
  /\ inMeeting' = FALSE /\ connecting' = FALSE
  /\ IF active \/ isConnecting
       THEN /\ active' = FALSE
            /\ calls' = Append(calls, Disconnect)
            /\ fallbacks' = fallbacks + 1
       ELSE UNCHANGED <<active, calls, fallbacks>>
  /\ UNCHANGED <<ending, session>>

(* close_meeting_window with end_meeting_session; isConnecting is the value *)
(* of _connecting when it is called.                                        *)
CloseWindow(isConnecting) ==
  /\ pending' = FALSE
  /\ visible' = FALSE
  /\ IF ending
       THEN connecting' = isConnecting /\ UNCHANGED <<inMeeting, active, ending, calls, fallbacks>>
       ELSE /\ inMeeting' = FALSE
            /\ connecting' = FALSE
            /\ IF active \/ isConnecting
                 THEN /\ ending' = TRUE
                      /\ active' = FALSE
                      /\ calls' = Append(calls, Disconnect)
                      /\ fallbacks' = fallbacks + 1
                 ELSE UNCHANGED <<active, ending, calls, fallbacks>>
  /\ UNCHANGED session

-----------------------------------------------------------------------------
(* The user *)

UserOpensMeeting ==
  /\ ~visible /\ boxes = 0 /\ quit = "no"
  /\ visible' = TRUE
  /\ RequestConnect(ending, connecting, pending)
  /\ UNCHANGED <<boxes, inMeeting, active, ending, fallbacks, hurried, quit, inbox,
                 controller, ioVars, hubVars>>

UserClosesWindow ==
  /\ visible /\ boxes = 0
  /\ CloseWindow(connecting)
  /\ UNCHANGED <<boxes, hurried, quit, inbox, controller, ioVars, hubVars>>

(* The media session breaks: a message boxes, then the window closes. *)
MediaIsLost ==
  /\ inMeeting /\ boxes = 0
  /\ boxes' = 1
  /\ UNCHANGED <<visible, inMeeting, active, ending, connecting, pending, session, fallbacks,
                 hurried, quit, inbox, calls, controller, ioVars, hubVars>>

DismissBox ==
  /\ boxes > 0
  /\ boxes' = boxes - 1
  /\ CloseWindow(connecting)
  /\ UNCHANGED <<hurried, quit, inbox, controller, ioVars, hubVars>>

-----------------------------------------------------------------------------
(* Events of the UI thread *)

Handles(type) ==
  /\ inbox # <<>> /\ Head(inbox).type = type /\ Head(inbox).hops = 1 /\ quit = "no"
  /\ inbox' = Tail(inbox)
  /\ UNCHANGED <<hurried, quit, controller, ioVars>>

(* The hub emits a frame, the network manager a disconnect, after it has     *)
(* stopped the send worker; the slots of the window are queued once more.    *)
PassOn ==
  /\ inbox # <<>> /\ Head(inbox).hops = 2 /\ quit = "no"
  /\ inbox' = Append(Tail(inbox), [Head(inbox) EXCEPT !.hops = 1])
  /\ sender' = IF Head(inbox).type = "disconnected" THEN None ELSE sender
  /\ UNCHANGED <<windowVars, quit, calls, controller, ioVars, outgoing>>

OnConnected ==
  /\ Handles("connect_ok")
  /\ connecting' = FALSE
  /\ active' = TRUE
  /\ calls' = Append(calls, Request(Head(inbox).session))
  /\ UNCHANGED <<visible, boxes, inMeeting, ending, pending, session, fallbacks, hubVars>>

(* The room number typed in is not one: the window stays, without a meeting. *)
OnConnectedForNothing ==
  /\ Handles("connect_ok")
  /\ connecting' = FALSE
  /\ active' = TRUE
  /\ UNCHANGED <<visible, boxes, inMeeting, ending, pending, session, fallbacks, calls, hubVars>>

(* The main window hides the meeting window and shows a message box; behind  *)
(* it waits the close of the window.                                         *)
OnConnectFailed ==
  /\ Handles("connect_failed")
  /\ connecting' = FALSE
  /\ visible' = FALSE
  /\ boxes' = boxes + 1
  /\ UNCHANGED <<inMeeting, active, ending, pending, session, fallbacks, calls, hubVars>>

OnMeetingGranted ==
  /\ Handles("granted")
  /\ inMeeting' = TRUE
  /\ UNCHANGED <<visible, boxes, active, ending, connecting, pending, session, fallbacks,
                 calls, hubVars>>

OnMeetingRefused ==
  /\ Handles("refused")
  /\ CloseWindow(connecting)
  /\ UNCHANGED <<boxes, hubVars>>

OnNetError ==
  /\ Handles("net_error")
  /\ IF ending THEN UNCHANGED <<windowVars, calls>> ELSE CloseWindow(connecting) /\ UNCHANGED boxes
  /\ UNCHANGED hubVars

OnNetworkDisconnected ==
  /\ Handles("disconnected")
  /\ active' = FALSE
  /\ ending' = FALSE
  /\ FlushPendingConnect
  /\ UNCHANGED <<visible, boxes, inMeeting, fallbacks, hubVars>>

DisconnectUnderWay ==
  \/ \E i \in DOMAIN calls : calls[i] = Disconnect
  \/ \E i \in DOMAIN io : io[i] = Disconnect
  \/ \E i \in DOMAIN inbox : inbox[i].type = "disconnected"

(* The single shot of end_meeting_session is not tied to the ending that     *)
(* started it.                                                               *)
FallbackFires ==
  /\ fallbacks > 0
  /\ fallbacks' = fallbacks - 1
  /\ hurried' = (hurried \/ (ending /\ DisconnectUnderWay))
  /\ IF ending
       THEN ending' = FALSE /\ active' = FALSE /\ FlushPendingConnect
       ELSE UNCHANGED <<ending, active, connecting, pending, session, calls>>
  /\ UNCHANGED <<visible, boxes, inMeeting, quit, inbox, controller, ioVars, hubVars>>

-----------------------------------------------------------------------------
(* The controller thread *)

Takes(call) ==
  /\ controller = Idle /\ calls # <<>> /\ Head(calls).call = call
  /\ calls' = Tail(calls)
  /\ UNCHANGED <<windowVars, quit, inbox, socket, link, asked>>

(* connect_to_server: the old worker is stopped and joined, then the IO      *)
(* thread is called and waited for.                                          *)
ControllerConnects ==
  /\ Takes("connect")
  /\ sender' = None
  /\ io' = Append(io, Head(calls))
  /\ controller' = Controller("blocked", Head(calls).session)
  /\ UNCHANGED outgoing

ControllerDisconnects ==
  /\ Takes("disconnect")
  /\ sender' = None
  /\ io' = Append(io, Disconnect)
  /\ UNCHANGED <<controller, outgoing>>

ControllerRequests ==
  /\ Takes("request")
  /\ outgoing' = Append(outgoing, Head(calls).session)
  /\ UNCHANGED <<controller, io, sender>>

(* back from the IO thread *)
ControllerFinishes ==
  /\ \/ /\ controller.state = "connected"
        /\ sender' = controller.session
        /\ inbox' = Append(inbox, Event("connect_ok", controller.session))
     \/ /\ controller.state = "failed"
        /\ inbox' = Append(inbox, Event("connect_failed", controller.session))
        /\ UNCHANGED sender
  /\ controller' = Idle
  /\ UNCHANGED <<windowVars, quit, calls, ioVars, outgoing>>

-----------------------------------------------------------------------------
(* The IO thread, the send worker and the server *)

Runs(call) ==
  /\ io # <<>> /\ Head(io).call = call
  /\ io' = Tail(io)
  /\ UNCHANGED <<windowVars, calls, sender>>
  /\ quit' = IF call = "destroySocket" THEN "done" ELSE quit

(* Faulty: the queue of the last session is kept. *)
IoConnectsWithOldQueue ==
  /\ Runs("connect")
  /\ socket' = Head(io).session /\ link' = TRUE
  /\ controller' = Controller("connected", Head(io).session)
  /\ asked' = FALSE
  /\ UNCHANGED <<inbox, outgoing>>

IoConnects ==
  /\ Runs("connect")
  /\ \/ /\ socket' = Head(io).session /\ link' = TRUE
        /\ controller' = Controller("connected", Head(io).session)
     \/ /\ socket' = None /\ link' = FALSE
        /\ controller' = Controller("failed", Head(io).session)
  /\ asked' = FALSE
  /\ outgoing' = <<>>
  /\ UNCHANGED inbox

(* Faulty: nothing is reported when there was no socket to close. *)
IoDisconnectsQuietly ==
  /\ Runs("disconnect")
  /\ socket' = None /\ link' = FALSE /\ asked' = FALSE
  /\ outgoing' = <<>>
  /\ inbox' = IF socket = None THEN inbox ELSE Append(inbox, Routed("disconnected", None))
  /\ UNCHANGED controller

IoDisconnects ==
  /\ Runs("disconnect")
  /\ socket' = None /\ link' = FALSE /\ asked' = FALSE
  /\ outgoing' = <<>>
  /\ inbox' = Append(inbox, Routed("disconnected", None))
  /\ UNCHANGED controller

IoSends ==
  /\ Runs("sendWireData")
  /\ asked' = (link \/ asked)
  /\ UNCHANGED <<inbox, controller, socket, link, outgoing>>

(* called by stopImmediately, which waits for it *)
IoDestroys ==
  /\ Runs("destroySocket")
  /\ socket' = None /\ link' = FALSE /\ asked' = FALSE
  /\ UNCHANGED <<inbox, controller, outgoing>>

WorkerSends ==
  /\ sender # None /\ outgoing # <<>>
  /\ outgoing' = Tail(outgoing)
  /\ io' = Append(io, Send(Head(outgoing)))
  /\ UNCHANGED <<windowVars, quit, inbox, calls, controller, socket, link, asked, sender>>

ServerAnswers ==
  /\ link /\ asked
  /\ asked' = FALSE
  /\ \E answer \in {"granted", "refused"} : inbox' = Append(inbox, Routed(answer, socket))
  /\ UNCHANGED <<windowVars, quit, calls, controller, io, socket, link, hubVars>>

LinkBreaks ==
  /\ link
  /\ link' = FALSE
  /\ inbox' = Append(inbox, Routed("net_error", socket))
  /\ UNCHANGED <<windowVars, quit, calls, controller, io, socket, asked, hubVars>>

-----------------------------------------------------------------------------
(* shutdown_all_workers, when the main window is closed: the UI thread takes *)
(* no event any more, so what is queued for the window is as good as gone.   *)

UserQuits ==
  /\ quit = "no" /\ boxes = 0
  /\ quit' = "waiting"
  /\ calls' = IF active \/ connecting THEN Append(calls, Disconnect) ELSE calls
  /\ ending' = (ending \/ active \/ connecting)
  /\ visible' = FALSE /\ inMeeting' = FALSE /\ connecting' = FALSE /\ active' = FALSE
  /\ pending' = FALSE /\ fallbacks' = 0 /\ inbox' = <<>>
  /\ UNCHANGED <<boxes, session, hurried, controller, ioVars, hubVars>>

(* quit ends the controller's loop between two calls; what it has not begun  *)
(* is dropped.                                                               *)
ControllerEnds ==
  /\ quit = "waiting" /\ controller = Idle
  /\ controller' = Controller("ended", None) /\ calls' = <<>>
  /\ UNCHANGED <<windowVars, quit, inbox, ioVars, hubVars>>

(* A handshake may take five seconds, the window waits for three: destroying *)
(* the QThread while it runs ends the process.                               *)
WaitTimesOut ==
  /\ quit = "waiting" /\ controller.state \notin {"idle", "ended"}
  /\ quit' = "aborted"
  /\ controller' = Controller("ended", None) /\ calls' = <<>>
  /\ io' = <<>> /\ socket' = None /\ link' = FALSE /\ asked' = FALSE
  /\ outgoing' = <<>> /\ sender' = None
  /\ UNCHANGED <<windowVars, inbox>>

(* NetworkManager::stop *)
NetworkStops ==
  /\ quit = "waiting" /\ controller.state = "ended"
  /\ quit' = "stopping"
  /\ sender' = None
  /\ io' = Append(io, Destroy)
  /\ UNCHANGED <<windowVars, inbox, calls, controller, socket, link, asked, outgoing>>

-----------------------------------------------------------------------------

UiRuns ==
  \/ NetworkStops
  \/ PassOn
  \/ OnConnected
  \/ OnConnectedForNothing
  \/ OnConnectFailed
  \/ OnMeetingGranted
  \/ OnMeetingRefused
  \/ OnNetError
  \/ OnNetworkDisconnected

ControllerRuns ==
  \/ ControllerConnects
  \/ ControllerDisconnects
  \/ ControllerRequests
  \/ ControllerFinishes
  \/ ControllerEnds

IoRuns == IoConnects \/ IoDisconnects \/ IoSends \/ IoDestroys

Next ==
  \/ UserOpensMeeting
  \/ UserClosesWindow
  \/ MediaIsLost
  \/ DismissBox
  \/ UserQuits
  \/ WaitTimesOut
  \/ UiRuns
  \/ FallbackFires
  \/ ControllerRuns
  \/ IoRuns
  \/ WorkerSends
  \/ ServerAnswers
  \/ LinkBreaks

(* The three event loops run what is queued for them; a message box is       *)
(* dismissed at some time.  Nothing is promised of the user, the server, the *)
(* network or the timer.                                                     *)
Spec ==
  /\ Init /\ [][Next]_vars
  /\ WF_vars(UiRuns) /\ WF_vars(ControllerRuns) /\ WF_vars(IoRuns) /\ WF_vars(DismissBox)

-----------------------------------------------------------------------------
(* As long as every disconnect takes less than the fallback timer, a new     *)
(* connect is handed to the controller only when the disconnect of the last  *)
(* session is over on all three threads, whatever is closed, answered,       *)
(* dismissed or pending in between: otherwise the window would reconnect     *)
(* while the old session can still be torn down behind its back.             *)
ConnectAfterTimelyDisconnect ==
  [][session' # session /\ ~hurried' => ~DisconnectUnderWay']_vars

(* A request to create or join goes out on the connection it was made for,   *)
(* never on that of a later session, unless a slow disconnect was given up.  *)
RequestsStayInSession ==
  io # <<>> /\ Head(io).call = "sendWireData" /\ link /\ ~hurried
    => Head(io).session = socket

AtRest ==
  inbox = <<>> /\ calls = <<>> /\ io = <<>> /\ controller = Idle /\ boxes = 0 /\ quit = "no"

(* Window, socket and send worker belong together, unless a slow disconnect *)
(* was once given up.  While the window takes its session for active, that   *)
(* session's socket and worker are there: no late event of an earlier one    *)
(* has taken them away.  When it is closed and the threads have come to      *)
(* rest, there are none and nothing is still ending.  And when the program   *)
(* has shut down, that holds whatever was given up or under way, and no call *)
(* waits for the connection that is about to be deleted.                     *)
SocketFollowsWindow ==
  /\ active /\ ~ending /\ ~hurried => socket = session /\ sender = session
  /\ ~visible /\ AtRest /\ ~hurried => socket = None /\ sender = None /\ ~active /\ ~ending
  /\ quit = "done" => socket = None /\ sender = None /\ io = <<>>

(* No ending lasts, waiting for a disconnect; a request put aside is taken   *)
(* up or dropped; and shutting down ends, in whatever state it begins: again *)
(* and again there is a moment with nothing outstanding.                     *)
NothingWaitsForEver ==
  []<>(~pending /\ (ending => quit # "no") /\ quit \notin {"waiting", "stopping"})
=============================================================================
