------------------------- MODULE ClientSessionProofs -------------------------
(***************************************************************************)
(* Proofs about ClientSession for any number of sessions.  Four queues lie *)
(* between the window and the server, so the invariant says what each of   *)
(* them may hold: ThreadInv for the controller, the IO thread and the send *)
(* worker, at any time; WindowInv for what the window may conclude from    *)
(* its flags, until the program shuts down.  Both end with the first       *)
(* disconnect that is given up (hurried); ShutDown and ClosedWindow do not.*)
(***************************************************************************)
EXTENDS ClientSession, TLAPS

USE SessionsAreNaturals

CallSet  == [call : {"connect", "request"}, session : Nat] \cup {Disconnect}
IoSet    == [call : {"connect", "sendWireData"}, session : Nat] \cup {Disconnect, Destroy}
EventSet ==
  [type : {"connect_ok", "connect_failed", "granted", "refused", "net_error", "disconnected"},
   session : Nat, hops : {1, 2}]

States == {"idle", "blocked", "connected", "failed", "ended"}

WindowOK ==
  /\ visible \in BOOLEAN /\ inMeeting \in BOOLEAN /\ active \in BOOLEAN /\ ending \in BOOLEAN
  /\ connecting \in BOOLEAN /\ pending \in BOOLEAN /\ hurried \in BOOLEAN

CountersOK ==
  /\ boxes \in Nat /\ session \in Nat /\ fallbacks \in Nat
  /\ quit \in {"no", "waiting", "stopping", "done", "aborted"}

QueuesOK ==
  /\ inbox \in Seq(EventSet) /\ calls \in Seq(CallSet) /\ io \in Seq(IoSet)
  /\ outgoing \in Seq(Nat)

ThreadsOK ==
  /\ controller \in [state : States, session : Nat]
  /\ socket \in Nat /\ sender \in Nat
  /\ link \in BOOLEAN /\ asked \in BOOLEAN

TypeOK == WindowOK /\ CountersOK /\ QueuesOK /\ ThreadsOK

-----------------------------------------------------------------------------
(* The invariant *)

Has(s, kind) == \E i \in 1 .. Len(s) : s[i].call = kind

InCalls(kind) == Has(calls, kind)
InIo(kind)    == Has(io, kind)
InInbox(type) == \E i \in 1 .. Len(inbox) : inbox[i].type = type

Answer(e) == e.type \in {"connect_ok", "connect_failed"}
Answered == \E i \in 1 .. Len(inbox) : Answer(inbox[i])

(* A connect holds the controller until the IO thread has answered.          *)
ControllerKnows ==
  /\ controller.state = "idle" => controller = Idle
  /\ controller.state = "ended" => calls = <<>> /\ quit # "no"
  /\ controller.state = "blocked" => sender = None
  /\ \A i \in 1 .. Len(io) : io[i].call = "connect" => i = Len(io) /\ controller.state = "blocked"

(* Nothing follows destroySocket.                                            *)
StopIsLast ==
  /\ quit \in {"stopping", "done", "aborted"} => controller.state = "ended" /\ sender = None
  /\ \A i \in 1 .. Len(io) : io[i].call = "destroySocket" => i = Len(io) /\ quit = "stopping"
  /\ quit = "stopping" => InIo("destroySocket")
  /\ quit = "done" => socket = None /\ io = <<>>

ShutDown == ControllerKnows /\ StopIsLast

ClosedWindow ==
  quit # "no" => /\ ~visible /\ boxes = 0 /\ ~inMeeting
                 /\ ~active /\ ~connecting /\ ~pending /\ fallbacks = 0

(* A connect is asked for when the threads have nothing else left to do but  *)
(* requests of sessions that are over.                                       *)
ConnectIsFirst ==
  \A i \in 1 .. Len(calls) : calls[i].call = "connect" =>
    /\ calls[i].session = session
    /\ \A j \in 1 .. Len(calls) :
         (j < i => calls[j].call = "request") /\ (j > i => calls[j].call = "disconnect")

ConnectIsAlone ==
  /\ InCalls("connect") => controller = Idle
  /\ InCalls("connect") \/ controller.state \in {"connected", "failed"} => io = <<>>
  /\ controller.state = "blocked" =>
       Len(io) = 1 /\ io[1].call = "connect" /\ io[1].session = session
  /\ InCalls("connect") \/ controller.state \in {"blocked", "failed"} => socket = None
  /\ InCalls("connect") \/ controller.state \in {"blocked", "connected", "failed"} => sender = None
  /\ controller.state \in {"blocked", "connected", "failed"} =>
       controller.session = session /\ ~InCalls("request")
  /\ controller.state = "connected" => socket = session /\ outgoing = <<>>

SenderIsOfSession ==
  sender # None =>
    /\ sender = session /\ socket = session
    /\ \A i \in 1 .. Len(io) : io[i].call = "sendWireData"
    /\ \A i \in 1 .. Len(outgoing) : outgoing[i] = session

SendsAreOfSession ==
  \A i \in 1 .. Len(io) : io[i].call = "sendWireData" =>
    /\ io[i].session = session /\ socket = session /\ socket # None
    /\ \A j \in 1 .. Len(io) : j < i => io[j].call = "sendWireData"

(* What is queued is of this session, unless it is to be cleared before the  *)
(* next worker starts.                                                       *)
RequestsAreOfSession ==
  ~InCalls("connect") /\ controller.state \notin {"blocked", "ended"} =>
    /\ \A i \in 1 .. Len(calls) : calls[i].call = "request" => calls[i].session = session
    /\ \A i \in 1 .. Len(outgoing) : outgoing[i] = session

ThreadInv ==
  /\ ConnectIsFirst
  /\ ConnectIsAlone
  /\ SenderIsOfSession
  /\ SendsAreOfSession
  /\ RequestsAreOfSession

(* A connect is in one place only, from the window's call to its answer.     *)
UnderConnect == InCalls("connect") \/ controller # Idle \/ Answered

OneConnect == Answered => ~InCalls("connect") /\ controller = Idle /\ ~InCalls("request")

(* So is a disconnect, and it stays behind the connect it ends.              *)
UnderDisconnect == InCalls("disconnect") \/ InIo("disconnect") \/ InInbox("disconnected")

OneDisconnect ==
  /\ InCalls("disconnect") => ~InIo("disconnect") /\ ~InInbox("disconnected")
  /\ InIo("disconnect") => ~InInbox("disconnected")
  /\ InIo("disconnect") \/ InInbox("disconnected") => ~InCalls("connect") /\ controller = Idle

HasOne(s) ==
  \A i, j \in 1 .. Len(s) : s[i].call = "disconnect" /\ s[j].call = "disconnect" => i = j

QueuesHaveOne == HasOne(calls) /\ HasOne(io)

InboxIsOrdered ==
  \A i, j \in 1 .. Len(inbox) :
    /\ Answer(inbox[i]) => inbox[i].session = session /\ inbox[i].hops = 1
    /\ Answer(inbox[i]) /\ Answer(inbox[j]) => i = j
    /\ inbox[i].type = "disconnected" /\ inbox[j].type = "disconnected" => i = j
    /\ Answer(inbox[i]) /\ inbox[j].type = "disconnected" => i < j

WindowKnows ==
  /\ ending <=> UnderDisconnect
  /\ connecting <=> UnderConnect /\ ~ending
  /\ active => ~UnderConnect
  /\ (active \/ connecting) /\ ~ending => visible \/ boxes > 0
  /\ pending => visible \/ boxes > 0

Down == socket = None /\ sender = None
Up   == socket = session /\ sender = session

LinkIsKnown ==
  /\ ~UnderConnect /\ ~ending /\ ~active => Down
  /\ (active \/ InInbox("connect_ok")) /\ ~ending => Up
  /\ InInbox("connect_failed") \/ InInbox("disconnected") => Down
  /\ InIo("disconnect") => sender = None

WindowInv ==
  /\ OneConnect
  /\ OneDisconnect
  /\ QueuesHaveOne
  /\ InboxIsOrdered
  /\ WindowKnows
  /\ LinkIsKnown

ClientInv ==
  /\ TypeOK
  /\ ShutDown
  /\ ClosedWindow
  /\ ~hurried => ThreadInv
  /\ ~hurried /\ quit = "no" => WindowInv

-----------------------------------------------------------------------------
(* What is in a queue after a call is appended or taken                      *)

LEMMA Appended ==
  ASSUME NEW S, NEW s \in Seq(S), NEW e \in S
  PROVE  /\ Append(s, e) \in Seq(S) /\ Len(Append(s, e)) = Len(s) + 1 /\ Len(s) \in Nat
         /\ \A i \in 1 .. Len(s) : Append(s, e)[i] = s[i]
         /\ Append(s, e)[Len(s) + 1] = e
OBVIOUS

LEMMA Tailed ==
  ASSUME NEW S, NEW s \in Seq(S), s # <<>>
  PROVE  /\ Tail(s) \in Seq(S) /\ Len(Tail(s)) = Len(s) - 1 /\ Len(s) \in Nat \ {0}
         /\ \A i \in 1 .. Len(Tail(s)) : i + 1 \in 1 .. Len(s) /\ Tail(s)[i] = s[i + 1]
         /\ Head(s) = s[1] /\ s[1] \in S /\ 1 \in 1 .. Len(s)
OBVIOUS

LEMMA AppendedHas ==
  ASSUME NEW S, NEW s \in Seq(S), NEW e \in S
  PROVE  \A kind : Has(Append(s, e), kind) <=> Has(s, kind) \/ e.call = kind
BY Appended DEF Has

LEMMA TailedHas ==
  ASSUME NEW S, NEW s \in Seq(S), s # <<>>
  PROVE  \A kind : Has(s, kind) <=> Has(Tail(s), kind) \/ s[1].call = kind
<1> DEFINE t == Tail(s)
<1>1. /\ Len(t) = Len(s) - 1 /\ Len(s) \in Nat \ {0}
      /\ \A i \in 1 .. Len(s) - 1 : t[i] = s[i + 1]
  BY Tailed
<1> HIDE DEF t
<1>2. ASSUME NEW kind, NEW i \in 1 .. Len(s), s[i].call = kind, i # 1 PROVE Has(t, kind)
  <2>1. i - 1 \in 1 .. Len(t) /\ t[i - 1] = s[i]
    BY <1>1, <1>2
  <2>2. QED
    BY <1>2, <2>1 DEF Has
<1>3. ASSUME NEW kind, NEW i \in 1 .. Len(t), t[i].call = kind PROVE Has(s, kind)
  <2>1. i + 1 \in 1 .. Len(s) /\ t[i] = s[i + 1]
    BY <1>1
  <2>2. QED
    BY <1>3, <2>1 DEF Has
<1>4. ASSUME NEW kind PROVE Has(s, kind) <=> Has(t, kind) \/ s[1].call = kind
  BY <1>1, <1>2, <1>3 DEF Has
<1>5. QED
  BY <1>4 DEF t

LEMMA CallAppended ==
  ASSUME TypeOK, NEW e \in CallSet, calls' = Append(calls, e)
  PROVE  /\ calls' \in Seq(CallSet) /\ Len(calls') = Len(calls) + 1 /\ Len(calls) \in Nat
         /\ \A i \in 1 .. Len(calls) : calls'[i] = calls[i]
         /\ calls'[Len(calls) + 1] = e
         /\ \A kind : InCalls(kind)' <=> InCalls(kind) \/ e.call = kind
BY Appended, AppendedHas DEF TypeOK, QueuesOK, InCalls

LEMMA CallTaken ==
  ASSUME TypeOK, calls # <<>>, calls' = Tail(calls)
  PROVE  /\ calls' \in Seq(CallSet) /\ Len(calls') = Len(calls) - 1 /\ Len(calls) \in Nat \ {0}
         /\ \A i \in 1 .. Len(calls') : i + 1 \in 1 .. Len(calls) /\ calls'[i] = calls[i + 1]
         /\ Head(calls) = calls[1] /\ calls[1] \in CallSet /\ 1 \in 1 .. Len(calls)
         /\ \A kind : InCalls(kind) <=> InCalls(kind)' \/ calls[1].call = kind
BY Tailed, TailedHas DEF TypeOK, QueuesOK, InCalls

LEMMA IoAppended ==
  ASSUME TypeOK, NEW e \in IoSet, io' = Append(io, e)
  PROVE  /\ io' \in Seq(IoSet) /\ Len(io') = Len(io) + 1 /\ Len(io) \in Nat
         /\ \A i \in 1 .. Len(io) : io'[i] = io[i]
         /\ io'[Len(io) + 1] = e
         /\ \A kind : InIo(kind)' <=> InIo(kind) \/ e.call = kind
BY Appended, AppendedHas DEF TypeOK, QueuesOK, InIo

LEMMA IoTaken ==
  ASSUME TypeOK, io # <<>>, io' = Tail(io)
  PROVE  /\ io' \in Seq(IoSet) /\ Len(io') = Len(io) - 1 /\ Len(io) \in Nat \ {0}
         /\ \A i \in 1 .. Len(io') : i + 1 \in 1 .. Len(io) /\ io'[i] = io[i + 1]
         /\ Head(io) = io[1] /\ io[1] \in IoSet /\ 1 \in 1 .. Len(io)
         /\ \A kind : InIo(kind) <=> InIo(kind)' \/ io[1].call = kind
BY Tailed, TailedHas DEF TypeOK, QueuesOK, InIo

LEMMA EventAppended ==
  ASSUME TypeOK, NEW e \in EventSet, inbox' = Append(inbox, e)
  PROVE  /\ inbox' \in Seq(EventSet) /\ Len(inbox') = Len(inbox) + 1 /\ Len(inbox) \in Nat
         /\ \A i \in 1 .. Len(inbox) : inbox'[i] = inbox[i]
         /\ inbox'[Len(inbox) + 1] = e
         /\ \A type : InInbox(type)' <=> InInbox(type) \/ e.type = type
         /\ Answered' <=> Answered \/ Answer(e)
<1>1. /\ inbox' \in Seq(EventSet) /\ Len(inbox') = Len(inbox) + 1 /\ Len(inbox) \in Nat
      /\ \A i \in 1 .. Len(inbox) : inbox'[i] = inbox[i]
      /\ inbox'[Len(inbox) + 1] = e
  BY Appended DEF TypeOK, QueuesOK
<1>2. \A type : InInbox(type)' <=> InInbox(type) \/ e.type = type
  BY <1>1 DEF InInbox
<1>3. Answered' <=> Answered \/ Answer(e)
  BY <1>1 DEF Answered, Answer
<1>4. QED
  BY <1>1, <1>2, <1>3

LEMMA EventTaken ==
  ASSUME TypeOK, inbox # <<>>, inbox' = Tail(inbox)
  PROVE  /\ inbox' \in Seq(EventSet) /\ Len(inbox') = Len(inbox) - 1 /\ Len(inbox) \in Nat \ {0}
         /\ \A i \in 1 .. Len(inbox') : i + 1 \in 1 .. Len(inbox) /\ inbox'[i] = inbox[i + 1]
         /\ Head(inbox) = inbox[1] /\ inbox[1] \in EventSet /\ 1 \in 1 .. Len(inbox)
         /\ \A type : InInbox(type) <=> InInbox(type)' \/ inbox[1].type = type
         /\ Answered <=> Answered' \/ Answer(inbox[1])
<1>1. /\ inbox' \in Seq(EventSet) /\ Len(inbox') = Len(inbox) - 1 /\ Len(inbox) \in Nat \ {0}
      /\ \A i \in 1 .. Len(inbox) - 1 : inbox'[i] = inbox[i + 1]
      /\ Head(inbox) = inbox[1] /\ inbox[1] \in EventSet
  BY Tailed DEF TypeOK, QueuesOK
<1>2. \A i \in 1 .. Len(inbox') : i + 1 \in 1 .. Len(inbox) /\ inbox'[i] = inbox[i + 1]
  BY <1>1
<1>3. \A i \in 1 .. Len(inbox) : i # 1 =>
        i - 1 \in 1 .. Len(inbox') /\ inbox'[i - 1] = inbox[i]
  BY <1>1
<1>4. \A type : InInbox(type) <=> InInbox(type)' \/ inbox[1].type = type
  BY <1>1, <1>2, <1>3 DEF InInbox
<1>5. Answered <=> Answered' \/ Answer(inbox[1])
  <2> DEFINE t == inbox'
  <2>1. (\E i \in 1 .. Len(inbox) : Answer(inbox[i]))
          <=> (\E i \in 1 .. Len(t) : Answer(t[i])) \/ Answer(inbox[1])
    <3> HIDE DEF Answer
    <3>1. ASSUME NEW i \in 1 .. Len(t), Answer(t[i]) PROVE i + 1 \in 1 .. Len(inbox) /\ Answer(inbox[i + 1])
      BY <1>2, <3>1
    <3>2. ASSUME NEW i \in 1 .. Len(inbox), Answer(inbox[i]), i # 1
          PROVE  i - 1 \in 1 .. Len(t) /\ Answer(t[i - 1])
      BY <1>3, <3>2
    <3>3. 1 \in 1 .. Len(inbox)
      BY <1>1
    <3>4. QED
      BY <3>1, <3>2, <3>3
  <2>2. QED
    BY <2>1 DEF Answered, Answer
<1>6. QED
  BY <1>1, <1>2, <1>4, <1>5

-----------------------------------------------------------------------------
(* The actions, taken apart.  What the window's slots do to its flags and to *)
(* the controller's queue:                                                   *)

(* close_meeting_window posts a disconnect exactly when there is a session   *)
(* and it is not ending.                                                     *)
LEMMA CloseWindowDoes ==
  ASSUME TypeOK, CloseWindow(connecting)
  PROVE  /\ ~visible' /\ ~pending' /\ session' = session
         /\ inMeeting' \in BOOLEAN /\ active' \in BOOLEAN /\ ending' \in BOOLEAN
         /\ connecting' \in BOOLEAN /\ fallbacks' \in Nat
         /\ \/ /\ ~ending /\ (active \/ connecting)
               /\ ending' /\ ~active' /\ ~connecting' /\ calls' = Append(calls, Disconnect)
            \/ /\ ending \/ ~(active \/ connecting)
               /\ (ending' <=> ending) /\ (active' <=> active) /\ (connecting' <=> connecting)
               /\ calls' = calls
         /\ ~inMeeting => ~inMeeting'
         /\ ~active /\ ~connecting => ~active' /\ ~connecting' /\ fallbacks' = fallbacks
<1> USE DEF CloseWindow
<1>1. ~visible' /\ ~pending' /\ session' = session
  OBVIOUS
<1>2. CASE ending
  BY <1>1, <1>2 DEF TypeOK, WindowOK, CountersOK
<1>3. CASE ~ending /\ (active \/ connecting)
  <2>1. /\ inMeeting' = FALSE /\ connecting' = FALSE /\ ending' = TRUE /\ active' = FALSE
        /\ calls' = Append(calls, Disconnect) /\ fallbacks' = fallbacks + 1
    BY <1>3
  <2>2. fallbacks' \in Nat
    BY <2>1 DEF TypeOK, CountersOK
  <2> HIDE DEF CloseWindow
  <2>3. QED
    BY <1>1, <1>3, <2>1, <2>2
<1>4. CASE ~ending /\ ~(active \/ connecting)
  BY <1>1, <1>4 DEF TypeOK, WindowOK, CountersOK
<1>5. QED
  BY <1>2, <1>3, <1>4

LEMMA RequestConnectDoes ==
  ASSUME TypeOK, RequestConnect(ending, connecting, pending)
  PROVE  \/ /\ ending \/ connecting
            /\ pending' = TRUE /\ (connecting' <=> connecting)
            /\ session' = session /\ calls' = calls /\ connecting' \in BOOLEAN
         \/ /\ ~ending /\ ~connecting
            /\ (pending' <=> pending) /\ pending' \in BOOLEAN /\ connecting' = TRUE
            /\ session' = session + 1 /\ calls' = Append(calls, Connect(session + 1))
BY DEF RequestConnect, TypeOK, WindowOK

LEMMA FlushDoes ==
  ASSUME TypeOK, FlushPendingConnect
  PROVE  \/ /\ pending /\ pending' = FALSE /\ connecting' = TRUE
            /\ session' = session + 1 /\ calls' = Append(calls, Connect(session + 1))
         \/ ~pending /\ ~pending' /\ ~connecting' /\ session' = session /\ calls' = calls
             /\ pending' \in BOOLEAN /\ connecting' \in BOOLEAN
BY DEF FlushPendingConnect, RequestConnect, TypeOK, WindowOK

LEMMA CallTypes ==
  ASSUME TypeOK
  PROVE  /\ Disconnect \in CallSet /\ Disconnect.call = "disconnect"
         /\ Connect(session + 1) \in CallSet /\ Connect(session + 1).call = "connect"
         /\ Connect(session + 1).session = session + 1
         /\ \A n \in Nat : /\ Request(n) \in CallSet /\ Request(n).call = "request"
                           /\ Request(n).session = n
         /\ Disconnect \in IoSet /\ Destroy \in IoSet /\ Destroy.call = "destroySocket"
         /\ \A n \in Nat : Send(n) \in IoSet /\ Send(n).call = "sendWireData" /\ Send(n).session = n
BY DEF CallSet, IoSet, Disconnect, Connect, Request, Send, Destroy, TypeOK, CountersOK

(* The queue of the controller after a slot of the window.                   *)
LEMMA WindowCalls ==
  ASSUME TypeOK,
         \/ calls' = calls
         \/ calls' = Append(calls, Disconnect)
         \/ calls' = Append(calls, Connect(session + 1))
         \/ \E n \in Nat : calls' = Append(calls, Request(n))
  PROVE  calls' \in Seq(CallSet)
<1>1. calls \in Seq(CallSet)
  BY DEF TypeOK, QueuesOK
<1>2. \A e \in CallSet : Append(calls, e) \in Seq(CallSet)
  BY <1>1, Appended
<1>3. QED
  BY <1>1, <1>2, CallTypes

LEMMA HandlesDoes ==
  ASSUME TypeOK, NEW type, Handles(type)
  PROVE  /\ inbox # <<>> /\ inbox[1].type = type /\ inbox[1].hops = 1 /\ inbox' = Tail(inbox)
         /\ quit = "no" /\ quit' = "no" /\ (hurried' <=> hurried) /\ hurried' \in BOOLEAN
         /\ controller' = controller /\ io' = io /\ socket' = socket
         /\ link' = link /\ asked' = asked
         /\ Head(inbox) = inbox[1] /\ inbox[1] \in EventSet /\ inbox[1].session \in Nat
<1>1. /\ inbox # <<>> /\ Head(inbox).type = type /\ Head(inbox).hops = 1 /\ inbox' = Tail(inbox)
      /\ quit = "no" /\ quit' = "no" /\ controller' = controller
      /\ io' = io /\ socket' = socket /\ link' = link /\ asked' = asked
  BY DEF Handles, ioVars
<1>2. (hurried' <=> hurried) /\ hurried' \in BOOLEAN
  BY DEF Handles, TypeOK, WindowOK
<1>3. Head(inbox) = inbox[1] /\ inbox[1] \in EventSet
  BY <1>1, Tailed DEF TypeOK, QueuesOK
<1>4. QED
  BY <1>1, <1>2, <1>3 DEF EventSet

LEMMA TypeInit == Init => TypeOK
<1> SUFFICES ASSUME Init PROVE TypeOK
  OBVIOUS
<1> USE DEF Init, None
<1>1. WindowOK /\ CountersOK
  BY DEF WindowOK, CountersOK
<1>2. QueuesOK
  BY DEF QueuesOK
<1>3. ThreadsOK
  BY DEF ThreadsOK, Idle, Controller, States
<1>4. QED
  BY <1>1, <1>2, <1>3 DEF TypeOK

LEMMA UserType ==
  ASSUME TypeOK,
         UserOpensMeeting \/ UserClosesWindow \/ MediaIsLost \/ DismissBox \/ UserQuits \/ FallbackFires
  PROVE  TypeOK'
<1> USE DEF TypeOK
<1>1. calls' \in Seq(CallSet)
  <2>1. CASE UserOpensMeeting
    BY <2>1, RequestConnectDoes, WindowCalls DEF UserOpensMeeting
  <2>2. CASE UserClosesWindow \/ DismissBox
    BY <2>2, CloseWindowDoes, WindowCalls DEF UserClosesWindow, DismissBox
  <2>3. CASE MediaIsLost \/ UserQuits
    BY <2>3, WindowCalls DEF MediaIsLost, UserQuits
  <2>4. CASE FallbackFires
    BY <2>4, FlushDoes, WindowCalls DEF FallbackFires
  <2>5. QED
    BY <2>1, <2>2, <2>3, <2>4
<1>2. QueuesOK' /\ ThreadsOK'
  <2>1. /\ inbox' \in {inbox, <<>>} /\ io' = io /\ outgoing' = outgoing
        /\ controller' = controller /\ socket' = socket /\ sender' = sender
        /\ link' = link /\ asked' = asked
    BY DEF UserOpensMeeting, UserClosesWindow, MediaIsLost, DismissBox, UserQuits, FallbackFires,
       ioVars, hubVars
  <2>2. QueuesOK'
    <3>1. <<>> \in Seq(EventSet)
      OBVIOUS
    <3>2. inbox' \in Seq(EventSet)
      BY <2>1, <3>1 DEF QueuesOK
    <3>3. QED
      BY <1>1, <2>1, <3>2 DEF QueuesOK
  <2>3. ThreadsOK'
    BY <2>1 DEF ThreadsOK
  <2>4. QED
    BY <2>2, <2>3
<1>3. WindowOK'
  <2>1. CASE UserOpensMeeting
    BY <2>1, RequestConnectDoes DEF UserOpensMeeting, WindowOK
  <2>2. CASE UserClosesWindow \/ DismissBox
    <3>1. CloseWindow(connecting) /\ hurried' = hurried
      BY <2>2 DEF UserClosesWindow, DismissBox
    <3>2. visible' = FALSE /\ pending' = FALSE
      BY <3>1 DEF CloseWindow
    <3>3. QED
      BY <3>1, <3>2, CloseWindowDoes DEF WindowOK
  <2>3. CASE MediaIsLost \/ UserQuits
    BY <2>3 DEF MediaIsLost, UserQuits, WindowOK
  <2>4. CASE FallbackFires
    BY <2>4, FlushDoes DEF FallbackFires, WindowOK
  <2>5. QED
    BY <2>1, <2>2, <2>3, <2>4
<1>4. CountersOK'
  <2>1. CASE UserOpensMeeting
    <3>1. session' \in {session, session + 1}
      BY <2>1 DEF UserOpensMeeting, RequestConnect
    <3>2. QED
      BY <2>1, <3>1 DEF UserOpensMeeting, CountersOK
  <2>2. CASE UserClosesWindow \/ DismissBox
    BY <2>2, CloseWindowDoes DEF UserClosesWindow, DismissBox, CountersOK
  <2>3. CASE MediaIsLost \/ UserQuits
    BY <2>3 DEF MediaIsLost, UserQuits, CountersOK
  <2>4. CASE FallbackFires
    <3>1. session' \in {session, session + 1} /\ fallbacks' = fallbacks - 1 /\ fallbacks > 0
      BY <2>4 DEF FallbackFires, FlushPendingConnect, RequestConnect
    <3>2. QED
      BY <2>4, <3>1 DEF FallbackFires, CountersOK
  <2>5. QED
    BY <2>1, <2>2, <2>3, <2>4
<1>5. QED
  BY <1>2, <1>3, <1>4

EventHandled ==
  \/ OnConnected \/ OnConnectedForNothing \/ OnConnectFailed \/ OnMeetingGranted
  \/ OnMeetingRefused \/ OnNetError \/ OnNetworkDisconnected

LEMMA EventType ==
  ASSUME TypeOK, EventHandled
  PROVE  TypeOK'
<1>1. PICK type : Handles(type)
  BY DEF EventHandled, OnConnected, OnConnectedForNothing, OnConnectFailed, OnMeetingGranted,
     OnMeetingRefused, OnNetError, OnNetworkDisconnected
<1>2. /\ inbox # <<>> /\ inbox' = Tail(inbox) /\ quit' = quit /\ quit = "no"
      /\ hurried' \in BOOLEAN /\ controller' = controller /\ io' = io /\ socket' = socket
      /\ link' = link /\ asked' = asked
      /\ Head(inbox).session \in Nat
  BY <1>1, HandlesDoes
<1>3. inbox' \in Seq(EventSet)
  BY <1>2, EventTaken
<1>4. outgoing' = outgoing /\ sender' = sender
  BY DEF EventHandled, OnConnected, OnConnectedForNothing, OnConnectFailed, OnMeetingGranted,
     OnMeetingRefused, OnNetError, OnNetworkDisconnected, hubVars
<1>5. calls' \in Seq(CallSet)
  <2>1. CASE OnConnected
    BY <1>2, <2>1, WindowCalls DEF OnConnected
  <2>2. CASE OnConnectedForNothing \/ OnConnectFailed \/ OnMeetingGranted
    BY <2>2, WindowCalls DEF OnConnectedForNothing, OnConnectFailed, OnMeetingGranted
  <2>3. CASE OnMeetingRefused \/ OnNetError
    BY <2>3, CloseWindowDoes, WindowCalls DEF OnMeetingRefused, OnNetError
  <2>4. CASE OnNetworkDisconnected
    BY <2>4, FlushDoes, WindowCalls DEF OnNetworkDisconnected
  <2>5. QED
    BY <2>1, <2>2, <2>3, <2>4 DEF EventHandled
<1>6. QueuesOK' /\ ThreadsOK'
  BY <1>2, <1>3, <1>4, <1>5 DEF TypeOK, QueuesOK, ThreadsOK
<1>7. WindowOK' /\ CountersOK'
  <2>1. CASE OnConnected \/ OnConnectedForNothing \/ OnConnectFailed \/ OnMeetingGranted
    <3>1. CountersOK'
      BY <1>2, <2>1 DEF OnConnected, OnConnectedForNothing, OnConnectFailed, OnMeetingGranted,
         TypeOK, CountersOK
    <3>2. CASE OnConnected \/ OnConnectedForNothing
      BY <1>2, <3>1, <3>2 DEF OnConnected, OnConnectedForNothing, TypeOK, WindowOK
    <3>3. CASE OnConnectFailed \/ OnMeetingGranted
      BY <1>2, <3>1, <3>3 DEF OnConnectFailed, OnMeetingGranted, TypeOK, WindowOK
    <3>4. QED
      BY <2>1, <3>2, <3>3
  <2>2. CASE CloseWindow(connecting) /\ boxes' = boxes
    <3>1. visible' = FALSE /\ pending' = FALSE
      BY <2>2 DEF CloseWindow
    <3>2. QED
      BY <1>2, <2>2, <3>1, CloseWindowDoes DEF TypeOK, WindowOK, CountersOK
  <2>3. CASE OnMeetingRefused \/ OnNetError
    BY <1>2, <2>2, <2>3 DEF OnMeetingRefused, OnNetError, windowVars, TypeOK, WindowOK, CountersOK
  <2>4. CASE OnNetworkDisconnected
    <3>1. session' \in {session, session + 1} /\ pending' \in BOOLEAN /\ connecting' \in BOOLEAN
      BY <2>4, FlushDoes DEF OnNetworkDisconnected
    <3>2. QED
      <4>1. WindowOK'
        BY <1>2, <2>4, <3>1 DEF OnNetworkDisconnected, TypeOK, WindowOK
      <4>2. CountersOK'
        BY <1>2, <2>4, <3>1 DEF OnNetworkDisconnected, TypeOK, CountersOK
      <4>3. QED
        BY <4>1, <4>2
  <2>5. QED
    BY <2>1, <2>3, <2>4 DEF EventHandled
<1>8. QED
  BY <1>6, <1>7 DEF TypeOK

(* What a step of the controller, of the IO thread or of the others leaves   *)
(* of the window.                                                            *)
WindowIsLeft ==
  /\ UNCHANGED <<visible, boxes, inMeeting, pending, session, fallbacks>>
  /\ (active' <=> active) /\ (ending' <=> ending) /\ (connecting' <=> connecting)
  /\ (hurried' <=> hurried)

LEMMA LeftType ==
  ASSUME TypeOK, UNCHANGED windowVars
  PROVE  WindowOK' /\ boxes' \in Nat /\ session' \in Nat /\ fallbacks' \in Nat /\ WindowIsLeft
BY DEF windowVars, TypeOK, WindowOK, CountersOK, WindowIsLeft

LEMMA TakesDoes ==
  ASSUME TypeOK, NEW call, Takes(call)
  PROVE  /\ UNCHANGED windowVars
         /\ controller = Idle /\ calls # <<>> /\ calls[1].call = call /\ calls' = Tail(calls)
         /\ quit' = quit /\ inbox' = inbox /\ socket' = socket /\ link' = link /\ asked' = asked
         /\ Head(calls) = calls[1] /\ calls[1] \in CallSet
         /\ call # "disconnect" =>
              /\ Head(calls).session \in Nat
              /\ call = "connect" => Head(calls) \in IoSet
<1>1. /\ UNCHANGED windowVars
      /\ controller = Idle /\ calls # <<>> /\ Head(calls).call = call /\ calls' = Tail(calls)
      /\ quit' = quit /\ inbox' = inbox /\ socket' = socket /\ link' = link /\ asked' = asked
  BY DEF Takes
<1>2. Head(calls) = calls[1] /\ calls[1] \in CallSet
  BY <1>1, Tailed DEF TypeOK, QueuesOK
<1>3. QED
  BY <1>1, <1>2 DEF CallSet, IoSet, Disconnect

LEMMA RunsDoes ==
  ASSUME TypeOK, NEW call, Runs(call)
  PROVE  /\ UNCHANGED windowVars
         /\ io # <<>> /\ io[1].call = call /\ io' = Tail(io) /\ calls' = calls /\ sender' = sender
         /\ quit' = IF call = "destroySocket" THEN "done" ELSE quit
         /\ Head(io) = io[1] /\ io[1] \in IoSet
         /\ call \in {"connect", "sendWireData"} => Head(io).session \in Nat
<1>1. /\ UNCHANGED windowVars
      /\ io # <<>> /\ Head(io).call = call /\ io' = Tail(io) /\ calls' = calls /\ sender' = sender
      /\ quit' = IF call = "destroySocket" THEN "done" ELSE quit
  BY DEF Runs
<1>2. Head(io) = io[1] /\ io[1] \in IoSet
  BY <1>1, Tailed DEF TypeOK, QueuesOK
<1>3. QED
  BY <1>1, <1>2 DEF IoSet, Disconnect, Destroy

LEMMA ThreadsType ==
  ASSUME TypeOK,
         ControllerRuns \/ IoRuns \/ WorkerSends \/ ServerAnswers \/ LinkBreaks \/ NetworkStops
           \/ WaitTimesOut \/ PassOn
  PROVE  TypeOK'
<1>1. UNCHANGED windowVars
  BY DEF ControllerRuns, ControllerConnects, ControllerDisconnects, ControllerRequests,
     ControllerFinishes, ControllerEnds, IoRuns, IoConnects, IoDisconnects, IoSends, IoDestroys,
     Takes, Runs, WorkerSends, ServerAnswers, LinkBreaks, NetworkStops, WaitTimesOut, PassOn
<1>2. quit' \in {quit, "done", "aborted", "stopping"}
  BY DEF ControllerRuns, ControllerConnects, ControllerDisconnects, ControllerRequests,
     ControllerFinishes, ControllerEnds, IoRuns, IoConnects, IoDisconnects, IoSends, IoDestroys,
     Takes, Runs, WorkerSends, ServerAnswers, LinkBreaks, NetworkStops, WaitTimesOut, PassOn
<1>3. WindowOK' /\ CountersOK'
  BY <1>1, <1>2, LeftType DEF TypeOK, CountersOK
<1>4. QueuesOK' /\ ThreadsOK'
  <2> USE DEF None, Controller, Idle, States
  <2>0. /\ inbox \in Seq(EventSet) /\ calls \in Seq(CallSet) /\ io \in Seq(IoSet)
        /\ outgoing \in Seq(Nat)
        /\ controller \in [state : States, session : Nat] /\ controller.session \in Nat
        /\ socket \in Nat /\ sender \in Nat
        /\ <<>> \in Seq(Nat) /\ <<>> \in Seq(CallSet) /\ <<>> \in Seq(IoSet)
    BY DEF TypeOK, QueuesOK, ThreadsOK
  <2>1. CASE ControllerConnects
    <3>1. /\ calls' \in Seq(CallSet) /\ Head(calls) \in IoSet /\ Head(calls).session \in Nat
          /\ inbox' = inbox /\ socket' = socket /\ link' = link /\ asked' = asked
      BY <2>1, TakesDoes, CallTaken DEF ControllerConnects
    <3>2. io' \in Seq(IoSet)
      BY <2>0, <2>1, <3>1, Appended DEF ControllerConnects
    <3>3. QED
      BY <2>0, <2>1, <3>1, <3>2 DEF ControllerConnects, TypeOK, QueuesOK, ThreadsOK
  <2>2. CASE ControllerDisconnects
    <3>1. /\ calls' \in Seq(CallSet)
          /\ inbox' = inbox /\ socket' = socket /\ link' = link /\ asked' = asked
      BY <2>2, TakesDoes, CallTaken DEF ControllerDisconnects
    <3>2. io' \in Seq(IoSet)
      BY <2>0, <2>2, CallTypes, Appended DEF ControllerDisconnects
    <3>3. QED
      BY <2>0, <2>2, <3>1, <3>2 DEF ControllerDisconnects, TypeOK, QueuesOK, ThreadsOK
  <2>3. CASE ControllerRequests
    <3>1. /\ calls' \in Seq(CallSet) /\ Head(calls).session \in Nat
          /\ inbox' = inbox /\ socket' = socket /\ link' = link /\ asked' = asked
      BY <2>3, TakesDoes, CallTaken DEF ControllerRequests
    <3>2. outgoing' \in Seq(Nat)
      BY <2>0, <2>3, <3>1, Appended DEF ControllerRequests
    <3>3. QED
      BY <2>0, <2>3, <3>1, <3>2 DEF ControllerRequests, TypeOK, QueuesOK, ThreadsOK
  <2>4. CASE ControllerFinishes
    <3>1. \A n \in Nat : Event("connect_ok", n) \in EventSet /\ Event("connect_failed", n) \in EventSet
      BY DEF Event, EventSet
    <3>2. inbox' \in Seq(EventSet)
      <4>1. \E e \in EventSet : inbox' = Append(inbox, e)
        BY <2>0, <2>4, <3>1 DEF ControllerFinishes
      <4>2. QED
        BY <2>0, <4>1, Appended
    <3>3. QED
      BY <2>0, <2>4, <3>2 DEF ControllerFinishes, ioVars, TypeOK, QueuesOK, ThreadsOK
  <2>5. CASE ControllerEnds
    BY <2>0, <2>5 DEF ControllerEnds, ioVars, hubVars, TypeOK, QueuesOK, ThreadsOK
  <2>6. CASE IoConnects
    <3>1. io' \in Seq(IoSet) /\ Head(io).session \in Nat /\ calls' = calls /\ sender' = sender
      BY <2>6, RunsDoes, IoTaken DEF IoConnects
    <3>2. QED
      <4>1. QueuesOK'
        BY <2>0, <2>6, <3>1 DEF IoConnects, TypeOK, QueuesOK
      <4>2. ThreadsOK'
        <5>1. controller' \in [state : States, session : Nat] /\ socket' \in Nat
          BY <2>6, <3>1 DEF IoConnects
        <5>2. link' \in BOOLEAN /\ asked' = FALSE
          BY <2>6 DEF IoConnects
        <5>3. QED
          BY <2>0, <3>1, <5>1, <5>2 DEF ThreadsOK
      <4>3. QED
        BY <4>1, <4>2
  <2>7. CASE IoDisconnects
    <3>1. io' \in Seq(IoSet) /\ calls' = calls /\ sender' = sender
      BY <2>7, RunsDoes, IoTaken DEF IoDisconnects
    <3>2. inbox' \in Seq(EventSet)
      BY <2>0, <2>7, Appended DEF IoDisconnects, Routed, EventSet
    <3>3. QED
      BY <2>0, <2>7, <3>1, <3>2 DEF IoDisconnects, TypeOK, QueuesOK, ThreadsOK
  <2>8. CASE IoSends \/ IoDestroys
    <3>1. io' \in Seq(IoSet) /\ calls' = calls /\ sender' = sender
      BY <2>8, RunsDoes, IoTaken DEF IoSends, IoDestroys
    <3>2. QED
      <4>1. QueuesOK'
        BY <2>0, <2>8, <3>1 DEF IoSends, IoDestroys, TypeOK, QueuesOK
      <4>2. CASE IoSends
        BY <2>0, <3>1, <4>1, <4>2 DEF IoSends, TypeOK, ThreadsOK
      <4>3. CASE IoDestroys
        BY <2>0, <3>1, <4>1, <4>3 DEF IoDestroys, TypeOK, ThreadsOK
      <4>4. QED
        BY <2>8, <4>2, <4>3
  <2>9. CASE WorkerSends
    <3>1. outgoing # <<>> /\ outgoing' = Tail(outgoing) /\ Head(outgoing) \in Nat /\ outgoing' \in Seq(Nat)
      BY <2>0, <2>9, Tailed DEF WorkerSends
    <3>2. io' \in Seq(IoSet)
      BY <2>0, <2>9, <3>1, CallTypes, Appended DEF WorkerSends
    <3>3. QED
      BY <2>0, <2>9, <3>1, <3>2 DEF WorkerSends, TypeOK, QueuesOK, ThreadsOK
  <2>10. CASE ServerAnswers \/ LinkBreaks
    <3>1. \A type \in {"granted", "refused", "net_error"} : Routed(type, socket) \in EventSet
      BY <2>0 DEF Routed, EventSet
    <3>2. inbox' \in Seq(EventSet)
      <4>1. \E e \in EventSet : inbox' = Append(inbox, e)
        BY <2>0, <2>10, <3>1 DEF ServerAnswers, LinkBreaks
      <4>2. QED
        BY <2>0, <4>1, Appended
    <3>3. QED
      BY <2>0, <2>10, <3>2 DEF ServerAnswers, LinkBreaks, hubVars, TypeOK, QueuesOK, ThreadsOK
  <2>11. CASE NetworkStops
    <3>1. io' \in Seq(IoSet)
      BY <2>0, <2>11, CallTypes, Appended DEF NetworkStops
    <3>2. QED
      BY <2>0, <2>11, <3>1 DEF NetworkStops, TypeOK, QueuesOK, ThreadsOK
  <2>12. CASE WaitTimesOut
    BY <2>0, <2>12 DEF WaitTimesOut, TypeOK, QueuesOK, ThreadsOK
  <2>13. CASE PassOn
    <3>1. inbox # <<>> /\ Tail(inbox) \in Seq(EventSet) /\ Head(inbox) \in EventSet
      BY <2>0, <2>13, Tailed DEF PassOn
    <3>2. [Head(inbox) EXCEPT !.hops = 1] \in EventSet
      BY <3>1 DEF EventSet
    <3>3. inbox' \in Seq(EventSet)
      BY <2>13, <3>1, <3>2, Appended DEF PassOn
    <3>4. QED
      BY <2>0, <2>13, <3>3 DEF PassOn, ioVars, TypeOK, QueuesOK, ThreadsOK
  <2>14. QED
    BY <2>1, <2>2, <2>3, <2>4, <2>5, <2>6, <2>7, <2>8, <2>9, <2>10, <2>11, <2>12, <2>13
       DEF ControllerRuns, IoRuns
<1>5. QED
  BY <1>3, <1>4 DEF TypeOK

LEMMA TypeNext == TypeOK /\ [Next]_vars => TypeOK'
<1> SUFFICES ASSUME TypeOK, [Next]_vars PROVE TypeOK'
  OBVIOUS
<1>1. CASE UNCHANGED vars
  BY <1>1 DEF vars, windowVars, ioVars, hubVars, TypeOK, WindowOK, CountersOK, QueuesOK, ThreadsOK
<1>2. CASE Next
  BY <1>2, UserType, EventType, ThreadsType DEF Next, UiRuns, EventHandled
<1>3. QED
  BY <1>1, <1>2

-----------------------------------------------------------------------------
(* ClientInv is inductive: shutting down, whatever was hurried before        *)

LEMMA ClosedNext ==
  ASSUME TypeOK, ShutDown, ClosedWindow, [Next]_vars
  PROVE  ClosedWindow'
<1>1. CASE UNCHANGED windowVars /\ (quit' = "no" \/ quit # "no")
  BY <1>1 DEF ClosedWindow, windowVars
<1>2. CASE UNCHANGED vars
  BY <1>1, <1>2 DEF vars
<1>3. CASE EventHandled
  <2>1. quit' = "no"
    BY <1>3, HandlesDoes DEF EventHandled, OnConnected, OnConnectedForNothing, OnConnectFailed,
       OnMeetingGranted, OnMeetingRefused, OnNetError, OnNetworkDisconnected
  <2>2. QED
    BY <2>1 DEF ClosedWindow
<1>4. CASE UserOpensMeeting \/ MediaIsLost
  BY <1>4 DEF UserOpensMeeting, MediaIsLost, ClosedWindow
<1>5. CASE UserClosesWindow \/ DismissBox
  BY <1>5 DEF UserClosesWindow, DismissBox, ClosedWindow, TypeOK, CountersOK
<1>6. CASE UserQuits
  BY <1>6 DEF UserQuits, ClosedWindow
<1>7. CASE FallbackFires
  BY <1>7 DEF FallbackFires, ClosedWindow
<1>8. CASE PassOn \/ ServerAnswers \/ LinkBreaks \/ WorkerSends \/ WaitTimesOut \/ NetworkStops
  BY <1>1, <1>8 DEF PassOn, ServerAnswers, LinkBreaks, WorkerSends, WaitTimesOut, NetworkStops
<1>9. CASE ControllerRuns
  BY <1>1, <1>9 DEF ControllerRuns, ControllerConnects, ControllerDisconnects, ControllerRequests,
     ControllerFinishes, ControllerEnds, Takes
<1>10. CASE IoConnects \/ IoDisconnects \/ IoSends
  BY <1>1, <1>10 DEF IoConnects, IoDisconnects, IoSends, Runs
<1>11. CASE IoDestroys
  <2>1. quit = "stopping" /\ UNCHANGED windowVars
    <3>1. io # <<>> /\ io[1].call = "destroySocket" /\ UNCHANGED windowVars
      BY <1>11, RunsDoes DEF IoDestroys
    <3>2. 1 \in 1 .. Len(io)
      BY <3>1, Tailed DEF TypeOK, QueuesOK
    <3>3. QED
      BY <3>1, <3>2 DEF ShutDown, StopIsLast
  <2>2. QED
    BY <1>1, <2>1
<1>12. QED
  BY <1>2, <1>3, <1>4, <1>5, <1>6, <1>7, <1>8, <1>9, <1>10, <1>11 DEF Next, UiRuns, EventHandled, IoRuns

LEMMA ShutDownKept ==
  ASSUME TypeOK, ShutDown, UNCHANGED <<controller, io, sender, socket>>,
         quit' = quit \/ (quit = "no" /\ quit' = "waiting" /\ controller.state # "ended"),
         controller.state = "ended" => calls' = calls
  PROVE  ShutDown'
<1>1. ControllerKnows'
  BY DEF ShutDown, ControllerKnows
<1>2. StopIsLast'
  BY DEF ShutDown, StopIsLast, InIo
<1>3. QED
  BY <1>1, <1>2 DEF ShutDown

LEMMA UiShutDown ==
  ASSUME TypeOK, ShutDown, ClosedWindow,
         UserOpensMeeting \/ UserClosesWindow \/ MediaIsLost \/ DismissBox \/ UserQuits
           \/ FallbackFires \/ EventHandled \/ ServerAnswers \/ LinkBreaks
  PROVE  ShutDown'
<1>1. controller.state = "ended" => quit # "no"
  BY DEF ShutDown, ControllerKnows
<1>2. CASE EventHandled
  <2>1. quit = "no" /\ quit' = "no" /\ UNCHANGED <<controller, io, sender, socket>>
    BY <1>2, HandlesDoes DEF EventHandled, OnConnected, OnConnectedForNothing, OnConnectFailed,
       OnMeetingGranted, OnMeetingRefused, OnNetError, OnNetworkDisconnected, hubVars
  <2>2. QED
    BY <1>1, <2>1, ShutDownKept
<1>3. CASE UserQuits
  BY <1>1, <1>3, ShutDownKept DEF UserQuits, ioVars, hubVars
<1>4. CASE ServerAnswers \/ LinkBreaks \/ MediaIsLost
  BY <1>4, ShutDownKept DEF ServerAnswers, LinkBreaks, MediaIsLost, ioVars, hubVars
<1>5. CASE UserOpensMeeting
  BY <1>1, <1>5, ShutDownKept DEF UserOpensMeeting, ioVars, hubVars
<1>6. CASE UserClosesWindow
  BY <1>1, <1>6, ShutDownKept DEF UserClosesWindow, ioVars, hubVars, ClosedWindow
<1>7. CASE DismissBox
  BY <1>1, <1>7, ShutDownKept DEF DismissBox, ioVars, hubVars, ClosedWindow, TypeOK, CountersOK
<1>8. CASE FallbackFires
  BY <1>1, <1>8, ShutDownKept DEF FallbackFires, ioVars, hubVars, ClosedWindow
<1>9. QED
  BY <1>2, <1>3, <1>4, <1>5, <1>6, <1>7, <1>8

(* What StopIsLast says of a controller that still runs.                     *)
LEMMA RunningController ==
  ASSUME TypeOK, ShutDown, controller.state # "ended"
  PROVE  /\ quit \in {"no", "waiting"}
         /\ \A i \in 1 .. Len(io) : io[i].call # "destroySocket"
         /\ controller.state # "blocked" => \A i \in 1 .. Len(io) : io[i].call # "connect"
BY DEF TypeOK, CountersOK, ShutDown, StopIsLast, ControllerKnows

LEMMA IdleIs == Idle.state = "idle" /\ Idle.session = None
BY DEF Idle, Controller

LEMMA ControllerShutDown ==
  ASSUME TypeOK, ShutDown, ControllerRuns
  PROVE  ShutDown'
<1> USE DEF Controller
<1>1. CASE ControllerConnects
  <2>1. /\ controller.state = "idle" /\ quit' = quit /\ socket' = socket
        /\ Head(calls) \in IoSet /\ Head(calls).call = "connect"
        /\ controller'.state = "blocked" /\ sender' = None /\ io' = Append(io, Head(calls))
    BY <1>1, TakesDoes, IdleIs DEF ControllerConnects
  <2>2. /\ Len(io') = Len(io) + 1 /\ Len(io) \in Nat
        /\ \A i \in 1 .. Len(io) : io'[i] = io[i]
        /\ io'[Len(io) + 1].call = "connect"
    BY <2>1, IoAppended
  <2>3. \A i \in 1 .. Len(io') : io'[i].call # "destroySocket"
                                /\ (io'[i].call = "connect" => i = Len(io'))
    BY <2>1, <2>2, RunningController
  <2>4. QED
    BY <2>1, <2>3, RunningController DEF ShutDown, ControllerKnows, StopIsLast
<1>2. CASE ControllerDisconnects
  <2>1. /\ controller.state = "idle" /\ quit' = quit /\ socket' = socket /\ controller' = controller
        /\ sender' = None /\ io' = Append(io, Disconnect)
    BY <1>2, TakesDoes, IdleIs DEF ControllerDisconnects
  <2>2. /\ Len(io') = Len(io) + 1 /\ Len(io) \in Nat
        /\ \A i \in 1 .. Len(io) : io'[i] = io[i]
        /\ io'[Len(io) + 1].call = "disconnect"
    BY <2>1, IoAppended, CallTypes
  <2>3. \A i \in 1 .. Len(io') : io'[i].call # "destroySocket" /\ io'[i].call # "connect"
    BY <2>1, <2>2, RunningController
  <2>4. QED
    BY <2>1, <2>3, RunningController DEF ShutDown, ControllerKnows, StopIsLast
<1>3. CASE ControllerRequests
  <2>1. /\ controller.state = "idle"
        /\ UNCHANGED <<quit, socket, controller, io, sender>>
    BY <1>3, TakesDoes, IdleIs DEF ControllerRequests
  <2>2. QED
    BY <2>1, ShutDownKept
<1>4. CASE ControllerFinishes
  <2>1. /\ controller.state \in {"connected", "failed"} /\ controller' = Idle
        /\ quit' = quit /\ io' = io /\ socket' = socket
    BY <1>4 DEF ControllerFinishes, ioVars
  <2>2. QED
    BY <2>1, RunningController, IdleIs DEF ShutDown, ControllerKnows, StopIsLast
<1>5. CASE ControllerEnds
  <2>1. /\ controller.state = "idle" /\ quit = "waiting" /\ quit' = quit
        /\ controller'.state = "ended" /\ calls' = <<>>
        /\ UNCHANGED <<io, socket, sender>>
    BY <1>5, IdleIs DEF ControllerEnds, ioVars, hubVars
  <2>2. QED
    BY <2>1, RunningController DEF ShutDown, ControllerKnows, StopIsLast
<1>6. QED
  BY <1>1, <1>2, <1>3, <1>4, <1>5 DEF ControllerRuns

LEMMA IoShutDown ==
  ASSUME TypeOK, ShutDown, IoRuns
  PROVE  ShutDown'
<1> USE DEF Controller
<1>1. /\ io # <<>> /\ io' = Tail(io) /\ calls' = calls /\ sender' = sender
      /\ Len(io') = Len(io) - 1 /\ Len(io) \in Nat \ {0} /\ 1 \in 1 .. Len(io)
      /\ \A i \in 1 .. Len(io') : i + 1 \in 1 .. Len(io) /\ io'[i] = io[i + 1]
      /\ \A kind : InIo(kind) <=> InIo(kind)' \/ io[1].call = kind
  <2>1. PICK call : Runs(call)
    BY DEF IoRuns, IoConnects, IoDisconnects, IoSends, IoDestroys
  <2>2. QED
    BY <2>1, RunsDoes, IoTaken
<1>2. CASE IoConnects
  <2>1. /\ io[1].call = "connect" /\ quit' = quit
        /\ controller'.state \in {"connected", "failed"}
    BY <1>2, RunsDoes DEF IoConnects
  <2>2. Len(io) = 1 /\ controller.state = "blocked"
    BY <1>1, <2>1 DEF ShutDown, ControllerKnows
  <2>3. Len(io') = 0
    BY <1>1, <2>2
  <2>4. QED
    BY <2>1, <2>2, <2>3, RunningController DEF ShutDown, ControllerKnows, StopIsLast
<1>3. CASE IoDisconnects \/ IoSends
  <2>1. /\ io[1].call \in {"disconnect", "sendWireData"} /\ quit' = quit
        /\ controller' = controller /\ quit # "done"
    <3>1. quit # "done"
      BY <1>1 DEF ShutDown, StopIsLast
    <3>2. QED
      BY <1>3, <3>1, RunsDoes DEF IoDisconnects, IoSends
  <2>2. ASSUME NEW i \in 1 .. Len(io')
        PROVE  /\ i + 1 \in 1 .. Len(io) /\ io'[i] = io[i + 1]
               /\ i + 1 = Len(io) => i = Len(io')
    <3>1. i \in Nat /\ Len(io) \in Nat /\ Len(io') = Len(io) - 1
      BY <1>1
    <3>2. i + 1 = Len(io) => i = Len(io')
      BY <3>1
    <3>3. QED
      BY <1>1, <3>2
  <2>3. ControllerKnows'
    <3>1. \A i \in 1 .. Len(io') : io'[i].call = "connect" => i = Len(io') /\ controller.state = "blocked"
      BY <2>2 DEF ShutDown, ControllerKnows
    <3>2. QED
      BY <1>1, <2>1, <3>1 DEF ShutDown, ControllerKnows
  <2>4. StopIsLast'
    <3>1. \A i \in 1 .. Len(io') :
            io'[i].call = "destroySocket" => i = Len(io') /\ quit = "stopping"
      BY <2>2 DEF ShutDown, StopIsLast
    <3>2. InIo("destroySocket") => InIo("destroySocket")'
      BY <1>1, <2>1
    <3>3. QED
      BY <1>1, <2>1, <3>1, <3>2 DEF ShutDown, StopIsLast
  <2>5. QED
    BY <2>3, <2>4 DEF ShutDown
<1>4. CASE IoDestroys
  <2>1. /\ io[1].call = "destroySocket" /\ quit' = "done" /\ controller' = controller
        /\ socket' = None
    BY <1>4, RunsDoes DEF IoDestroys
  <2>2. Len(io) = 1 /\ quit = "stopping"
    BY <1>1, <2>1 DEF ShutDown, StopIsLast
  <2>3. Len(io') = 0 /\ io' = <<>>
    BY <1>1, <2>2 DEF TypeOK, QueuesOK
  <2>4. QED
    BY <1>1, <2>1, <2>2, <2>3 DEF ShutDown, ControllerKnows, StopIsLast
<1>5. QED
  BY <1>2, <1>3, <1>4 DEF IoRuns

LEMMA OtherShutDown ==
  ASSUME TypeOK, ShutDown, WorkerSends \/ NetworkStops \/ WaitTimesOut \/ PassOn
  PROVE  ShutDown'
<1> USE DEF Controller
<1>1. CASE WorkerSends
  <2>1. PICK e \in IoSet : e.call = "sendWireData" /\ io' = Append(io, e)
    <3>1. outgoing # <<>> /\ Head(outgoing) \in Nat
      BY <1>1, Tailed DEF WorkerSends, TypeOK, QueuesOK
    <3>2. QED
      BY <1>1, <3>1, CallTypes DEF WorkerSends
  <2>2. /\ Len(io') = Len(io) + 1 /\ Len(io) \in Nat
        /\ \A i \in 1 .. Len(io) : io'[i] = io[i]
        /\ io'[Len(io) + 1].call = "sendWireData"
    BY <2>1, IoAppended
  <2>3. /\ sender # None /\ UNCHANGED <<quit, calls, controller, socket, sender>>
        /\ controller.state # "blocked" /\ quit \in {"no", "waiting"}
    BY <1>1 DEF WorkerSends, ShutDown, ControllerKnows, StopIsLast, TypeOK, CountersOK
  <2>4. \A i \in 1 .. Len(io') : io'[i].call # "connect" /\ io'[i].call # "destroySocket"
    BY <2>2, <2>3 DEF ShutDown, ControllerKnows, StopIsLast
  <2>5. QED
    BY <2>3, <2>4 DEF ShutDown, ControllerKnows, StopIsLast
<1>2. CASE NetworkStops
  <2>1. /\ quit = "waiting" /\ quit' = "stopping" /\ sender' = None /\ io' = Append(io, Destroy)
        /\ controller.state = "ended" /\ UNCHANGED <<calls, controller, socket>>
    BY <1>2 DEF NetworkStops
  <2>2. /\ Len(io') = Len(io) + 1 /\ Len(io) \in Nat
        /\ \A i \in 1 .. Len(io) : io'[i] = io[i]
        /\ io'[Len(io) + 1] = Destroy /\ Destroy.call = "destroySocket"
        /\ InIo("destroySocket")'
    BY <2>1, CallTypes, IoAppended
  <2>3. \A i \in 1 .. Len(io') : io'[i].call # "connect"
                               /\ (io'[i].call = "destroySocket" => i = Len(io'))
    BY <2>1, <2>2 DEF ShutDown, ControllerKnows, StopIsLast
  <2>4. QED
    BY <2>1, <2>2, <2>3 DEF ShutDown, ControllerKnows, StopIsLast
<1>3. CASE WaitTimesOut
  <2>1. /\ quit' = "aborted" /\ controller'.state = "ended" /\ calls' = <<>> /\ Len(io') = 0
        /\ sender' = None
    BY <1>3 DEF WaitTimesOut
  <2>2. QED
    BY <2>1 DEF ShutDown, ControllerKnows, StopIsLast
<1>4. CASE PassOn
  <2>1. UNCHANGED <<quit, calls, controller, io, socket>> /\ sender' \in {sender, None}
    BY <1>4 DEF PassOn, ioVars
  <2>2. QED
    BY <2>1 DEF ShutDown, ControllerKnows, StopIsLast, InIo
<1>5. QED
  BY <1>1, <1>2, <1>3, <1>4

LEMMA ShutDownNext ==
  ASSUME TypeOK, ShutDown, ClosedWindow, [Next]_vars
  PROVE  ShutDown'
<1>1. CASE UNCHANGED vars
  BY <1>1, ShutDownKept DEF vars, ioVars, hubVars
<1>2. CASE Next
  BY <1>2, UiShutDown, ControllerShutDown, IoShutDown, OtherShutDown DEF Next, UiRuns, EventHandled
<1>3. QED
  BY <1>1, <1>2

-----------------------------------------------------------------------------
(* The threads, as long as no disconnect was given up                        *)

LEMMA HurriedStays ==
  ASSUME TypeOK, [Next]_vars, ~hurried'
  PROVE  ~hurried
<1>1. CASE UNCHANGED hurried
  BY <1>1
<1>2. CASE FallbackFires
  BY <1>2 DEF FallbackFires, TypeOK, WindowOK
<1>3. CASE EventHandled
  BY <1>1, <1>3 DEF EventHandled, OnConnected, OnConnectedForNothing, OnConnectFailed,
     OnMeetingGranted, OnMeetingRefused, OnNetError, OnNetworkDisconnected, Handles
<1>4. CASE UserOpensMeeting \/ UserClosesWindow \/ MediaIsLost \/ DismissBox \/ UserQuits
  BY <1>1, <1>4 DEF UserOpensMeeting, UserClosesWindow, MediaIsLost, DismissBox, UserQuits
<1>5. CASE UNCHANGED windowVars
  BY <1>1, <1>5 DEF windowVars
<1>6. CASE ControllerRuns \/ IoRuns
  BY <1>5, <1>6 DEF ControllerRuns, ControllerConnects, ControllerDisconnects, ControllerRequests,
     ControllerFinishes, ControllerEnds, IoRuns, IoConnects, IoDisconnects, IoSends, IoDestroys,
     Takes, Runs
<1>7. CASE WorkerSends \/ ServerAnswers \/ LinkBreaks \/ NetworkStops \/ WaitTimesOut \/ PassOn
  BY <1>5, <1>7 DEF WorkerSends, ServerAnswers, LinkBreaks, NetworkStops, WaitTimesOut, PassOn
<1>8. CASE UNCHANGED vars
  BY <1>5, <1>8 DEF vars
<1>9. QED
  BY <1>2, <1>3, <1>4, <1>6, <1>7, <1>8 DEF Next, UiRuns, EventHandled

LEMMA DisconnectIs == TypeOK => (UnderDisconnect <=> DisconnectUnderWay)
<1> SUFFICES ASSUME TypeOK PROVE UnderDisconnect <=> DisconnectUnderWay
  OBVIOUS
<1>1. /\ DOMAIN calls = 1 .. Len(calls) /\ DOMAIN io = 1 .. Len(io) /\ DOMAIN inbox = 1 .. Len(inbox)
      /\ \A i \in 1 .. Len(calls) : calls[i] \in CallSet
      /\ \A i \in 1 .. Len(io) : io[i] \in IoSet
  BY DEF TypeOK, QueuesOK
<1>2. /\ \A c \in CallSet : c.call = "disconnect" <=> c = Disconnect
      /\ \A c \in IoSet : c.call = "disconnect" <=> c = Disconnect
  BY DEF CallSet, IoSet, Disconnect, Destroy
<1>3. QED
  BY <1>1, <1>2 DEF UnderDisconnect, DisconnectUnderWay, InCalls, InIo, Has, InInbox

LEMMA ThreadUntouched ==
  ASSUME ThreadInv, UNCHANGED <<session, calls, controller, io, socket, sender, outgoing>>
  PROVE  ThreadInv'
BY DEF ThreadInv, ConnectIsFirst, ConnectIsAlone, SenderIsOfSession, SendsAreOfSession,
   RequestsAreOfSession, InCalls, InIo

LEMMA DisconnectPosted ==
  ASSUME TypeOK, ThreadInv, calls' = Append(calls, Disconnect),
         UNCHANGED <<session, controller, io, socket, sender, outgoing>>
  PROVE  ThreadInv'
<1>1. /\ Len(calls') = Len(calls) + 1 /\ Len(calls) \in Nat
      /\ \A i \in 1 .. Len(calls) : calls'[i] = calls[i]
      /\ calls'[Len(calls) + 1].call = "disconnect"
      /\ \A kind : InCalls(kind)' <=> InCalls(kind) \/ kind = "disconnect"
  BY CallAppended, CallTypes
<1>2. \A i \in 1 .. Len(calls') :
        \/ i \in 1 .. Len(calls) /\ calls'[i] = calls[i]
        \/ i = Len(calls) + 1 /\ calls'[i].call = "disconnect"
  BY <1>1
<1>3. ConnectIsFirst'
  <2> SUFFICES ASSUME NEW i \in 1 .. Len(calls'), calls'[i].call = "connect"
               PROVE  /\ calls'[i].session = session
                      /\ \A j \in 1 .. Len(calls') :
                           (j < i => calls'[j].call = "request") /\ (j > i => calls'[j].call = "disconnect")
    BY DEF ConnectIsFirst
  <2>1. i \in 1 .. Len(calls) /\ calls[i].call = "connect" /\ calls'[i] = calls[i]
    BY <1>2
  <2>2. QED
    BY <1>1, <1>2, <2>1 DEF ThreadInv, ConnectIsFirst
<1>4. ConnectIsAlone' /\ SenderIsOfSession' /\ SendsAreOfSession'
  BY <1>1 DEF ThreadInv, ConnectIsAlone, SenderIsOfSession, SendsAreOfSession, InIo
<1>5. RequestsAreOfSession'
  BY <1>1, <1>2 DEF ThreadInv, RequestsAreOfSession
<1>6. QED
  BY <1>3, <1>4, <1>5 DEF ThreadInv

LEMMA RequestPosted ==
  ASSUME TypeOK, ThreadInv, ~InCalls("connect"), controller = Idle,
         calls' = Append(calls, Request(session)),
         UNCHANGED <<session, controller, io, socket, sender, outgoing>>
  PROVE  ThreadInv'
<1>1. /\ Len(calls') = Len(calls) + 1 /\ Len(calls) \in Nat
      /\ \A i \in 1 .. Len(calls) : calls'[i] = calls[i]
      /\ calls'[Len(calls) + 1] = Request(session)
      /\ Request(session).call = "request" /\ Request(session).session = session
      /\ \A kind : InCalls(kind)' <=> InCalls(kind) \/ kind = "request"
  <2>1. session \in Nat
    BY DEF TypeOK, CountersOK
  <2>2. QED
    BY <2>1, CallAppended, CallTypes
<1>2. \A i \in 1 .. Len(calls') :
        \/ i \in 1 .. Len(calls) /\ calls'[i] = calls[i]
        \/ calls'[i].call = "request" /\ calls'[i].session = session
  BY <1>1
<1>3. ~InCalls("connect")' /\ ConnectIsFirst'
  BY <1>1 DEF ConnectIsFirst, InCalls, Has
<1>4. ConnectIsAlone' /\ SenderIsOfSession' /\ SendsAreOfSession'
  BY <1>3, IdleIs DEF ThreadInv, ConnectIsAlone, SenderIsOfSession, SendsAreOfSession, InIo
<1>5. RequestsAreOfSession'
  BY <1>2, IdleIs DEF ThreadInv, RequestsAreOfSession
<1>6. QED
  BY <1>3, <1>4, <1>5 DEF ThreadInv

(* Where the window posts a connect, nothing is left of earlier sessions but *)
(* their requests.                                                           *)
Quiet ==
  /\ ~InCalls("connect") /\ ~InCalls("disconnect") /\ ~InIo("disconnect")
  /\ controller = Idle /\ Down

LEMMA QuietIo ==
  ASSUME TypeOK, ShutDown, ThreadInv, Quiet
  PROVE  io = <<>>
<1>1. \A i \in 1 .. Len(io) : io[i].call \in {"connect", "sendWireData", "disconnect", "destroySocket"}
  BY DEF TypeOK, QueuesOK, IoSet, Disconnect, Destroy
<1>2. \A i \in 1 .. Len(io) : FALSE
  BY <1>1, RunningController, IdleIs DEF Quiet, Down, ThreadInv, SendsAreOfSession, InIo, Has
<1>3. QED
  BY <1>2 DEF TypeOK, QueuesOK

LEMMA ConnectPosted ==
  ASSUME TypeOK, ShutDown, ThreadInv, Quiet,
         session' = session + 1, calls' = Append(calls, Connect(session + 1)),
         UNCHANGED <<controller, io, socket, sender, outgoing>>
  PROVE  ThreadInv'
<1>1. /\ Len(calls') = Len(calls) + 1 /\ Len(calls) \in Nat
      /\ \A i \in 1 .. Len(calls) : calls'[i] = calls[i]
      /\ calls'[Len(calls) + 1] = Connect(session + 1)
      /\ Connect(session + 1).call = "connect" /\ Connect(session + 1).session = session + 1
      /\ \A kind : InCalls(kind)' <=> InCalls(kind) \/ kind = "connect"
  BY CallAppended, CallTypes
<1>2. \A i \in 1 .. Len(calls) : calls[i].call = "request"
  <2>1. \A i \in 1 .. Len(calls) : calls[i].call \in {"connect", "disconnect", "request"}
    BY DEF TypeOK, QueuesOK, CallSet, Disconnect
  <2>2. QED
    BY <2>1 DEF Quiet, InCalls, Has
<1>3. io = <<>> /\ Len(io) = 0 /\ socket = None /\ sender = None
  BY QuietIo DEF Quiet, Down
<1>4. ConnectIsFirst'
  BY <1>1, <1>2 DEF ConnectIsFirst
<1>5. ConnectIsAlone'
  BY <1>3, IdleIs DEF Quiet, ConnectIsAlone
<1>6. SenderIsOfSession' /\ SendsAreOfSession' /\ RequestsAreOfSession'
  BY <1>1, <1>3 DEF SenderIsOfSession, SendsAreOfSession, RequestsAreOfSession
<1>7. QED
  BY <1>4, <1>5, <1>6 DEF ThreadInv

(* The state in which the window posts a connect, seen from the window.      *)
LEMMA WindowIsQuiet ==
  ASSUME WindowInv, ~ending, ~connecting, ~active
  PROVE  Quiet
BY DEF WindowInv, WindowKnows, UnderConnect, UnderDisconnect, LinkIsKnown, Quiet

LEMMA UserIsQuiet ==
  ASSUME WindowInv, ~visible, boxes = 0, ~ending, ~connecting
  PROVE  Quiet /\ ~active
<1>1. ~active
  BY DEF WindowInv, WindowKnows
<1>2. QED
  BY <1>1, WindowIsQuiet

LEMMA DisconnectedIsQuiet ==
  ASSUME TypeOK, WindowInv, Handles("disconnected")
  PROVE  /\ Quiet /\ ~Answered /\ ~InInbox("disconnected")' /\ ~UnderConnect
<1>1. /\ inbox # <<>> /\ inbox[1].type = "disconnected" /\ inbox' = Tail(inbox)
  BY HandlesDoes
<1>2. /\ 1 \in 1 .. Len(inbox) /\ Len(inbox') = Len(inbox) - 1 /\ Len(inbox) \in Nat
      /\ \A i \in 1 .. Len(inbox') : i + 1 \in 1 .. Len(inbox) /\ inbox'[i] = inbox[i + 1]
  BY <1>1, EventTaken
<1>3. InInbox("disconnected")
  BY <1>1, <1>2 DEF InInbox
<1>4. Quiet
  BY <1>3 DEF WindowInv, OneDisconnect, LinkIsKnown, Quiet
<1>5. ~Answered
  <2> SUFFICES ASSUME NEW i \in 1 .. Len(inbox), Answer(inbox[i]) PROVE FALSE
    BY DEF Answered
  <2>1. i < 1
    BY <1>1, <1>2 DEF WindowInv, InboxIsOrdered
  <2>2. QED
    BY <2>1
<1>6. ~InInbox("disconnected")'
  <2> SUFFICES ASSUME NEW i \in 1 .. Len(inbox'), inbox'[i].type = "disconnected" PROVE FALSE
    BY DEF InInbox
  <2>1. i + 1 \in 1 .. Len(inbox) /\ inbox[i + 1].type = "disconnected" /\ i + 1 # 1
    BY <1>2
  <2>2. QED
    BY <1>1, <1>2, <2>1 DEF WindowInv, InboxIsOrdered
<1>7. QED
  BY <1>4, <1>5, <1>6 DEF Quiet, UnderConnect

LEMMA AnsweredIs ==
  ASSUME TypeOK, WindowInv, NEW type \in {"connect_ok", "connect_failed"}, Handles(type)
  PROVE  /\ Answered /\ InInbox(type) /\ ~Answered' /\ inbox[1].session = session
         /\ ~InCalls("connect") /\ controller = Idle /\ ~InCalls("request")
<1>1. inbox # <<>> /\ inbox[1].type = type /\ inbox' = Tail(inbox)
  BY HandlesDoes
<1>2. /\ 1 \in 1 .. Len(inbox) /\ Len(inbox') = Len(inbox) - 1 /\ Len(inbox) \in Nat
      /\ \A i \in 1 .. Len(inbox') : i + 1 \in 1 .. Len(inbox) /\ inbox'[i] = inbox[i + 1]
  BY <1>1, EventTaken
<1>3. Answer(inbox[1]) /\ Answered /\ InInbox(type)
  BY <1>1, <1>2 DEF Answer, Answered, InInbox
<1>4. ~Answered'
  <2> SUFFICES ASSUME NEW i \in 1 .. Len(inbox'), Answer(inbox'[i]) PROVE FALSE
    BY DEF Answered, Answer
  <2>1. i + 1 \in 1 .. Len(inbox) /\ Answer(inbox[i + 1]) /\ i + 1 # 1
    BY <1>2
  <2>2. QED
    BY <1>2, <1>3, <2>1 DEF WindowInv, InboxIsOrdered
<1>5. QED
  BY <1>2, <1>3, <1>4 DEF WindowInv, OneConnect, InboxIsOrdered

LEMMA UiThread ==
  ASSUME TypeOK, ShutDown, ClosedWindow, ThreadInv, quit = "no" => WindowInv, ~hurried',
         UserOpensMeeting \/ UserClosesWindow \/ MediaIsLost \/ DismissBox \/ UserQuits
           \/ FallbackFires \/ EventHandled \/ ServerAnswers \/ LinkBreaks
  PROVE  ThreadInv'
<1>1. UNCHANGED <<controller, io, socket, sender, outgoing>>
  <2>1. CASE EventHandled
    BY <2>1, HandlesDoes DEF EventHandled, OnConnected, OnConnectedForNothing, OnConnectFailed,
       OnMeetingGranted, OnMeetingRefused, OnNetError, OnNetworkDisconnected, hubVars
  <2>2. QED
    BY <2>1 DEF UserOpensMeeting, UserClosesWindow, MediaIsLost, DismissBox, UserQuits,
       FallbackFires, ServerAnswers, LinkBreaks, ioVars, hubVars
<1>2. CASE UNCHANGED <<session, calls>>
  BY <1>1, <1>2, ThreadUntouched
<1>3. CASE session' = session /\ calls' = Append(calls, Disconnect)
  BY <1>1, <1>3, DisconnectPosted
<1>4. CASE Quiet /\ session' = session + 1 /\ calls' = Append(calls, Connect(session + 1))
  BY <1>1, <1>4, ConnectPosted
<1>5. CASE UserOpensMeeting
  <2>1. quit = "no" /\ ~visible /\ boxes = 0 /\ RequestConnect(ending, connecting, pending)
    BY <1>5 DEF UserOpensMeeting
  <2>2. QED
    BY <1>2, <1>4, <2>1, RequestConnectDoes, UserIsQuiet
<1>6. CASE UserClosesWindow \/ DismissBox \/ OnMeetingRefused
  BY <1>2, <1>3, <1>6, CloseWindowDoes DEF UserClosesWindow, DismissBox, OnMeetingRefused
<1>7. CASE OnNetError
  BY <1>2, <1>3, <1>7, CloseWindowDoes DEF OnNetError, windowVars
<1>8. CASE MediaIsLost \/ ServerAnswers \/ LinkBreaks
  BY <1>2, <1>8 DEF MediaIsLost, ServerAnswers, LinkBreaks, windowVars
<1>9. CASE OnConnectedForNothing \/ OnConnectFailed \/ OnMeetingGranted
  BY <1>2, <1>9 DEF OnConnectedForNothing, OnConnectFailed, OnMeetingGranted
<1>10. CASE UserQuits
  BY <1>2, <1>3, <1>10 DEF UserQuits
<1>11. CASE OnConnected
  <2>1. Handles("connect_ok") /\ calls' = Append(calls, Request(Head(inbox).session)) /\ session' = session
    BY <1>11 DEF OnConnected
  <2>2. quit = "no" /\ Head(inbox) = inbox[1]
    BY <2>1, HandlesDoes
  <2>3. inbox[1].session = session /\ ~InCalls("connect") /\ controller = Idle
    BY <2>1, <2>2, AnsweredIs
  <2>4. QED
    BY <1>1, <2>1, <2>2, <2>3, RequestPosted
<1>12. CASE OnNetworkDisconnected
  <2>1. Handles("disconnected") /\ FlushPendingConnect
    BY <1>12 DEF OnNetworkDisconnected
  <2>2. Quiet
    BY <2>1, HandlesDoes, DisconnectedIsQuiet
  <2>3. QED
    BY <1>2, <1>4, <2>1, <2>2, FlushDoes
<1>13. CASE FallbackFires
  <2>1. quit = "no"
    BY <1>13 DEF FallbackFires, ClosedWindow, TypeOK, CountersOK
  <2>2. ~ending
    <3>1. ending => UnderDisconnect
      BY <2>1 DEF WindowInv, WindowKnows
    <3>2. QED
      BY <1>13, <3>1, DisconnectIs DEF FallbackFires
  <2>3. QED
    BY <1>2, <1>13, <2>2 DEF FallbackFires
<1>14. QED
  BY <1>5, <1>6, <1>7, <1>8, <1>9, <1>10, <1>11, <1>12, <1>13 DEF EventHandled

LEMMA ControllerThread ==
  ASSUME TypeOK, ShutDown, ThreadInv, ControllerRuns
  PROVE  ThreadInv'
<1> USE DEF Controller
<1>1. UNCHANGED windowVars /\ session' = session
  BY DEF ControllerRuns, ControllerConnects, ControllerDisconnects, ControllerRequests,
     ControllerFinishes, ControllerEnds, Takes, windowVars
<1>2. ASSUME NEW call, Takes(call)
      PROVE  /\ controller = Idle /\ controller.state = "idle" /\ socket' = socket
             /\ calls[1].call = call /\ 1 \in 1 .. Len(calls) /\ Head(calls) = calls[1]
             /\ Len(calls) \in Nat /\ Len(calls') = Len(calls) - 1
             /\ \A i \in 1 .. Len(calls') : i + 1 \in 1 .. Len(calls) /\ calls'[i] = calls[i + 1]
             /\ \A kind : InCalls(kind) <=> InCalls(kind)' \/ kind = call
  BY <1>2, TakesDoes, CallTaken, IdleIs
<1>3. ASSUME NEW call, Takes(call) PROVE ConnectIsFirst'
  <2> SUFFICES ASSUME NEW i \in 1 .. Len(calls'), calls'[i].call = "connect"
               PROVE  /\ calls'[i].session = session
                      /\ \A j \in 1 .. Len(calls') :
                           (j < i => calls'[j].call = "request") /\ (j > i => calls'[j].call = "disconnect")
    BY <1>1 DEF ConnectIsFirst
  <2>1. i + 1 \in 1 .. Len(calls) /\ calls'[i] = calls[i + 1]
    BY <1>2, <1>3
  <2>2. ASSUME NEW j \in 1 .. Len(calls')
        PROVE  /\ j + 1 \in 1 .. Len(calls) /\ calls'[j] = calls[j + 1]
               /\ (j < i => j + 1 < i + 1) /\ (j > i => j + 1 > i + 1)
    BY <1>2, <1>3
  <2>3. QED
    BY <2>1, <2>2 DEF ThreadInv, ConnectIsFirst
<1>4. CASE ControllerConnects
  <2>1. Takes("connect") /\ sender' = None /\ io' = Append(io, Head(calls)) /\ outgoing' = outgoing
        /\ controller'.state = "blocked" /\ controller'.session = Head(calls).session
    BY <1>4 DEF ControllerConnects
  <2>2. InCalls("connect") /\ calls[1].session = session
        /\ \A j \in 1 .. Len(calls) : j > 1 => calls[j].call = "disconnect"
    BY <1>2, <2>1 DEF ThreadInv, ConnectIsFirst
  <2>3. \A i \in 1 .. Len(calls') : calls'[i].call = "disconnect"
    <3>1. ASSUME NEW i \in 1 .. Len(calls') PROVE i + 1 \in 1 .. Len(calls) /\ i + 1 > 1 /\ calls'[i] = calls[i + 1]
      BY <1>2, <2>1
    <3>2. QED
      BY <2>2, <3>1
  <2>4. ~InCalls("connect")' /\ ~InCalls("request")'
    BY <2>3 DEF InCalls, Has
  <2>5. io = <<>> /\ socket = None
    BY <2>2 DEF ThreadInv, ConnectIsAlone
  <2>6. Len(io') = 1 /\ io'[1] = Head(calls)
    BY <2>1, <2>5
  <2>7. ConnectIsAlone' /\ SenderIsOfSession'
    BY <1>1, <1>2, <2>1, <2>2, <2>4, <2>5, <2>6 DEF ConnectIsAlone, SenderIsOfSession
  <2>8. SendsAreOfSession' /\ RequestsAreOfSession'
    BY <1>2, <2>1, <2>6 DEF SendsAreOfSession, RequestsAreOfSession
  <2>9. QED
    BY <1>3, <2>1, <2>7, <2>8 DEF ThreadInv
<1>5. CASE ControllerDisconnects
  <2>1. Takes("disconnect") /\ sender' = None /\ io' = Append(io, Disconnect)
        /\ outgoing' = outgoing /\ controller' = controller
    BY <1>5 DEF ControllerDisconnects
  <2>2. ~InCalls("connect")
    <3> SUFFICES ASSUME NEW i \in 1 .. Len(calls), calls[i].call = "connect" PROVE FALSE
      BY DEF InCalls, Has
    <3>1. i # 1 /\ 1 < i
      BY <1>2, <2>1
    <3>2. QED
      BY <1>2, <2>1, <3>1 DEF ThreadInv, ConnectIsFirst
  <2>3. /\ Len(io') = Len(io) + 1 /\ Len(io) \in Nat
        /\ \A i \in 1 .. Len(io) : io'[i] = io[i]
        /\ io'[Len(io) + 1].call = "disconnect"
    BY <2>1, IoAppended, CallTypes
  <2>4. ~InCalls("connect")' /\ ConnectIsAlone' /\ SenderIsOfSession'
    BY <1>2, <2>1, <2>2 DEF ConnectIsAlone, SenderIsOfSession
  <2>5. SendsAreOfSession'
    <3> SUFFICES ASSUME NEW i \in 1 .. Len(io'), io'[i].call = "sendWireData"
                 PROVE  /\ io'[i].session = session /\ socket = session /\ socket # None
                        /\ \A j \in 1 .. Len(io') : j < i => io'[j].call = "sendWireData"
      BY <1>1, <1>2, <2>1 DEF SendsAreOfSession
    <3>1. i \in 1 .. Len(io) /\ io'[i] = io[i]
      BY <2>3
    <3>2. \A j \in 1 .. Len(io') : j < i => j \in 1 .. Len(io) /\ io'[j] = io[j]
      BY <2>3, <3>1
    <3>3. QED
      BY <3>1, <3>2 DEF ThreadInv, SendsAreOfSession
  <2>6. RequestsAreOfSession'
    BY <1>1, <1>2, <2>1, <2>2 DEF ThreadInv, RequestsAreOfSession
  <2>7. QED
    BY <1>3, <2>1, <2>4, <2>5, <2>6 DEF ThreadInv
<1>6. CASE ControllerRequests
  <2>1. Takes("request") /\ outgoing' = Append(outgoing, Head(calls).session)
        /\ UNCHANGED <<controller, io, sender>>
    BY <1>6 DEF ControllerRequests
  <2>2. /\ Len(outgoing') = Len(outgoing) + 1 /\ Len(outgoing) \in Nat
        /\ \A i \in 1 .. Len(outgoing) : outgoing'[i] = outgoing[i]
        /\ outgoing'[Len(outgoing) + 1] = Head(calls).session
    <3>1. outgoing \in Seq(Nat) /\ Head(calls).session \in Nat
      BY <2>1, TakesDoes DEF TypeOK, QueuesOK
    <3>2. QED
      BY <2>1, <3>1, Appended
  <2>3. ConnectIsAlone' /\ SendsAreOfSession'
    BY <1>1, <1>2, <2>1 DEF ThreadInv, ConnectIsAlone, SendsAreOfSession, InIo
  <2>4. ~InCalls("connect") => Head(calls).session = session
    BY <1>2, <2>1 DEF ThreadInv, RequestsAreOfSession
  <2>5. SenderIsOfSession'
    BY <1>1, <1>2, <2>1, <2>2, <2>4 DEF ThreadInv, SenderIsOfSession, ConnectIsAlone
  <2>6. RequestsAreOfSession'
    <3>1. SUFFICES ASSUME ~InCalls("connect")
                   PROVE  /\ \A i \in 1 .. Len(calls') :
                               calls'[i].call = "request" => calls'[i].session = session
                          /\ \A i \in 1 .. Len(outgoing') : outgoing'[i] = session
      BY <1>1, <1>2, <2>1 DEF RequestsAreOfSession
    <3>2. /\ \A i \in 1 .. Len(calls) : calls[i].call = "request" => calls[i].session = session
          /\ \A i \in 1 .. Len(outgoing) : outgoing[i] = session
      BY <1>2, <2>1, <3>1 DEF ThreadInv, RequestsAreOfSession
    <3>3. \A i \in 1 .. Len(calls') : calls'[i].call = "request" => calls'[i].session = session
      BY <1>2, <2>1, <3>2
    <3>4. \A i \in 1 .. Len(outgoing') : outgoing'[i] = session
      BY <2>2, <2>4, <3>1, <3>2
    <3>5. QED
      BY <3>3, <3>4
  <2>7. QED
    BY <1>3, <2>1, <2>3, <2>5, <2>6 DEF ThreadInv
<1>7. CASE ControllerFinishes
  <2>1. /\ controller' = Idle /\ calls' = calls /\ io' = io /\ socket' = socket /\ outgoing' = outgoing
        /\ \/ controller.state = "connected" /\ sender' = controller.session
           \/ controller.state = "failed" /\ sender' = sender
    BY <1>7 DEF ControllerFinishes, ioVars
  <2>2. ~InCalls("connect") /\ io = <<>>
    BY <2>1, IdleIs DEF ThreadInv, ConnectIsAlone
  <2>3. ConnectIsFirst' /\ SendsAreOfSession'
    BY <1>1, <2>1 DEF ThreadInv, ConnectIsFirst, SendsAreOfSession
  <2>4. ConnectIsAlone'
    BY <2>1, <2>2, IdleIs DEF ConnectIsAlone, InCalls
  <2>5. SenderIsOfSession' /\ RequestsAreOfSession'
    BY <1>1, <2>1, <2>2, IdleIs DEF ThreadInv, ConnectIsAlone, SenderIsOfSession, RequestsAreOfSession,
       InCalls
  <2>6. QED
    BY <2>3, <2>4, <2>5 DEF ThreadInv
<1>8. CASE ControllerEnds
  <2>1. /\ controller = Idle /\ controller'.state = "ended" /\ calls' = <<>> /\ Len(calls') = 0
        /\ UNCHANGED <<io, socket, sender, outgoing>>
    BY <1>8 DEF ControllerEnds, ioVars, hubVars
  <2>2. ~InCalls("connect")' /\ ~InCalls("request")'
    BY <2>1 DEF InCalls, Has
  <2>3. QED
    BY <1>1, <2>1, <2>2 DEF ThreadInv, ConnectIsFirst, ConnectIsAlone, SenderIsOfSession,
       SendsAreOfSession, RequestsAreOfSession
<1>9. QED
  BY <1>4, <1>5, <1>6, <1>7, <1>8 DEF ControllerRuns

LEMMA IoThread ==
  ASSUME TypeOK, ShutDown, ThreadInv, IoRuns
  PROVE  ThreadInv'
<1> USE DEF Controller
<1>1. /\ UNCHANGED <<session, calls, sender>>
      /\ Len(io') = Len(io) - 1 /\ Len(io) \in Nat \ {0} /\ 1 \in 1 .. Len(io)
      /\ \A i \in 1 .. Len(io') : i + 1 \in 1 .. Len(io) /\ io'[i] = io[i + 1]
      /\ \A kind : InIo(kind) <=> InIo(kind)' \/ io[1].call = kind
      /\ Head(io) = io[1] /\ io # <<>>
  <2>1. PICK call : Runs(call)
    BY DEF IoRuns, IoConnects, IoDisconnects, IoSends, IoDestroys
  <2>2. QED
    BY <2>1, RunsDoes, IoTaken DEF windowVars
<1>2. ConnectIsFirst' /\ ~InCalls("connect") /\ controller.state \notin {"connected", "failed"}
      /\ (InCalls("connect")' <=> InCalls("connect")) /\ (InCalls("request")' <=> InCalls("request"))
  BY <1>1 DEF ThreadInv, ConnectIsFirst, ConnectIsAlone, InCalls
<1>3. CASE IoConnects
  <2>1. /\ io[1].call = "connect"
        /\ \/ socket' = Head(io).session /\ controller' = Controller("connected", Head(io).session)
           \/ socket' = None /\ controller' = Controller("failed", Head(io).session)
        /\ outgoing' = <<>> /\ Len(outgoing') = 0
    BY <1>3, RunsDoes DEF IoConnects
  <2>2. /\ controller.state = "blocked" /\ Len(io) = 1 /\ io[1].session = session
        /\ sender = None /\ ~InCalls("request")
    BY <1>1, <2>1 DEF ShutDown, ControllerKnows, ThreadInv, ConnectIsAlone
  <2>3. Len(io') = 0 /\ io' = <<>>
    BY <1>1, <2>2, IoTaken, RunsDoes, <1>3 DEF IoConnects
  <2>4. ConnectIsAlone'
    BY <1>1, <1>2, <2>1, <2>2, <2>3 DEF ConnectIsAlone
  <2>5. RequestsAreOfSession'
    BY <1>1, <1>2, <2>1, <2>2 DEF RequestsAreOfSession, InCalls, Has
  <2>6. SenderIsOfSession' /\ SendsAreOfSession'
    BY <1>1, <2>2, <2>3 DEF SenderIsOfSession, SendsAreOfSession
  <2>7. QED
    BY <1>2, <2>4, <2>5, <2>6 DEF ThreadInv
<1>4. CASE IoDisconnects \/ IoDestroys
  <2>1. /\ io[1].call \in {"disconnect", "destroySocket"} /\ socket' = None /\ controller' = controller
        /\ outgoing' \in {outgoing, <<>>}
    BY <1>4, RunsDoes DEF IoDisconnects, IoDestroys
  <2>2. sender = None /\ controller.state # "blocked"
    BY <1>1, <2>1 DEF ThreadInv, SenderIsOfSession, ConnectIsAlone
  <2>3. \A i \in 1 .. Len(io') : io'[i].call # "sendWireData"
    <3> SUFFICES ASSUME NEW i \in 1 .. Len(io'), io'[i].call = "sendWireData" PROVE FALSE
      OBVIOUS
    <3>1. i + 1 \in 1 .. Len(io) /\ io[i + 1].call = "sendWireData" /\ 1 < i + 1
      BY <1>1
    <3>2. QED
      BY <1>1, <2>1, <3>1 DEF ThreadInv, SendsAreOfSession
  <2>4. ConnectIsAlone'
    BY <1>1, <1>2, <2>1, <2>2 DEF ConnectIsAlone
  <2>5. RequestsAreOfSession'
    BY <1>1, <1>2, <2>1 DEF ThreadInv, RequestsAreOfSession
  <2>6. SenderIsOfSession' /\ SendsAreOfSession'
    BY <1>1, <2>2, <2>3 DEF SenderIsOfSession, SendsAreOfSession
  <2>7. QED
    BY <1>2, <2>4, <2>5, <2>6 DEF ThreadInv
<1>5. CASE IoSends
  <2>1. /\ io[1].call = "sendWireData" /\ UNCHANGED <<socket, controller, outgoing>>
    BY <1>5, RunsDoes DEF IoSends
  <2>2. controller.state # "blocked"
    BY <1>1, <2>1 DEF ThreadInv, ConnectIsAlone
  <2>3. ConnectIsAlone'
    BY <1>1, <1>2, <2>1, <2>2 DEF ConnectIsAlone
  <2>4. SenderIsOfSession' /\ RequestsAreOfSession'
    BY <1>1, <1>2, <2>1 DEF ThreadInv, SenderIsOfSession, RequestsAreOfSession
  <2>5. SendsAreOfSession'
    <3> SUFFICES ASSUME NEW i \in 1 .. Len(io'), io'[i].call = "sendWireData"
                 PROVE  /\ io'[i].session = session /\ socket = session /\ socket # None
                        /\ \A j \in 1 .. Len(io') : j < i => io'[j].call = "sendWireData"
      BY <1>1, <2>1 DEF SendsAreOfSession
    <3>1. i + 1 \in 1 .. Len(io) /\ io'[i] = io[i + 1]
      BY <1>1
    <3>2. ASSUME NEW j \in 1 .. Len(io'), j < i
          PROVE  j + 1 \in 1 .. Len(io) /\ io'[j] = io[j + 1] /\ j + 1 < i + 1
      BY <1>1, <3>2
    <3>3. QED
      BY <3>1, <3>2 DEF ThreadInv, SendsAreOfSession
  <2>6. QED
    BY <1>2, <2>3, <2>4, <2>5 DEF ThreadInv
<1>6. QED
  BY <1>3, <1>4, <1>5 DEF IoRuns

LEMMA OtherThread ==
  ASSUME TypeOK, ShutDown, ThreadInv, WorkerSends \/ NetworkStops \/ WaitTimesOut \/ PassOn
  PROVE  ThreadInv'
<1> USE DEF Controller
<1>1. CASE WorkerSends
  <2>1. /\ sender # None /\ outgoing # <<>> /\ outgoing' = Tail(outgoing)
        /\ io' = Append(io, Send(Head(outgoing)))
        /\ UNCHANGED <<session, calls, controller, socket, sender>>
    BY <1>1 DEF WorkerSends, windowVars
  <2>2. /\ Len(outgoing') = Len(outgoing) - 1 /\ Len(outgoing) \in Nat /\ Head(outgoing) \in Nat
        /\ \A i \in 1 .. Len(outgoing') : i + 1 \in 1 .. Len(outgoing) /\ outgoing'[i] = outgoing[i + 1]
        /\ Head(outgoing) = outgoing[1] /\ 1 \in 1 .. Len(outgoing)
    <3>1. outgoing \in Seq(Nat)
      BY DEF TypeOK, QueuesOK
    <3>2. QED
      BY <2>1, <3>1, Tailed
  <2>3. /\ sender = session /\ socket = session
        /\ \A i \in 1 .. Len(io) : io[i].call = "sendWireData"
        /\ \A i \in 1 .. Len(outgoing) : outgoing[i] = session
        /\ ~InCalls("connect") /\ controller.state \notin {"blocked", "connected", "failed"}
    BY <2>1 DEF ThreadInv, SenderIsOfSession, ConnectIsAlone
  <2>4. /\ Len(io') = Len(io) + 1 /\ Len(io) \in Nat
        /\ \A i \in 1 .. Len(io) : io'[i] = io[i]
        /\ io'[Len(io) + 1].call = "sendWireData" /\ io'[Len(io) + 1].session = session
    BY <2>1, <2>2, <2>3, CallTypes, IoAppended
  <2>5. \A i \in 1 .. Len(io') : io'[i].call = "sendWireData" /\ io'[i].session = session
    <3>1. \A i \in 1 .. Len(io) : io[i].call = "sendWireData" /\ io[i].session = session
      BY <2>3 DEF ThreadInv, SendsAreOfSession
    <3>2. QED
      BY <2>4, <3>1
  <2>6. \A i \in 1 .. Len(outgoing') : outgoing'[i] = session
    BY <2>2, <2>3
  <2>7. ConnectIsFirst' /\ ConnectIsAlone'
    BY <2>1, <2>3 DEF ThreadInv, ConnectIsFirst, ConnectIsAlone, InCalls
  <2>8. SenderIsOfSession' /\ SendsAreOfSession'
    BY <2>1, <2>3, <2>5, <2>6 DEF SenderIsOfSession, SendsAreOfSession
  <2>9. RequestsAreOfSession'
    BY <2>1, <2>6 DEF ThreadInv, RequestsAreOfSession, InCalls
  <2>10. QED
    BY <2>7, <2>8, <2>9 DEF ThreadInv
<1>2. CASE NetworkStops
  <2>1. /\ controller.state = "ended" /\ sender' = None /\ io' = Append(io, Destroy)
        /\ UNCHANGED <<session, calls, controller, socket, outgoing>>
    BY <1>2 DEF NetworkStops, windowVars
  <2>2. calls = <<>> /\ Len(calls) = 0
    BY <2>1 DEF ShutDown, ControllerKnows
  <2>3. ~InCalls("connect") /\ ~InCalls("connect")'
    BY <2>1, <2>2 DEF InCalls, Has
  <2>4. /\ Len(io') = Len(io) + 1 /\ Len(io) \in Nat
        /\ \A i \in 1 .. Len(io) : io'[i] = io[i]
        /\ io'[Len(io) + 1] = Destroy /\ Destroy.call = "destroySocket"
    BY <2>1, CallTypes, IoAppended
  <2>5. SendsAreOfSession'
    <3> SUFFICES ASSUME NEW i \in 1 .. Len(io'), io'[i].call = "sendWireData"
                 PROVE  /\ io'[i].session = session /\ socket = session /\ socket # None
                        /\ \A j \in 1 .. Len(io') : j < i => io'[j].call = "sendWireData"
      BY <2>1 DEF SendsAreOfSession
    <3>1. i \in 1 .. Len(io) /\ io'[i] = io[i]
      BY <2>4
    <3>2. \A j \in 1 .. Len(io') : j < i => j \in 1 .. Len(io) /\ io'[j] = io[j]
      BY <2>4, <3>1
    <3>3. QED
      BY <3>1, <3>2 DEF ThreadInv, SendsAreOfSession
  <2>6. ConnectIsFirst' /\ ConnectIsAlone' /\ SenderIsOfSession' /\ RequestsAreOfSession'
    BY <2>1, <2>2, <2>3 DEF ConnectIsFirst, ConnectIsAlone, SenderIsOfSession, RequestsAreOfSession
  <2>7. QED
    BY <2>5, <2>6 DEF ThreadInv
<1>3. CASE WaitTimesOut
  <2>1. /\ controller'.state = "ended" /\ calls' = <<>> /\ Len(calls') = 0 /\ Len(io') = 0
        /\ sender' = None
    BY <1>3 DEF WaitTimesOut
  <2>2. ~InCalls("connect")' /\ ~InCalls("request")'
    BY <2>1 DEF InCalls, Has
  <2>3. QED
    BY <2>1, <2>2 DEF ThreadInv, ConnectIsFirst, ConnectIsAlone, SenderIsOfSession,
       SendsAreOfSession, RequestsAreOfSession
<1>4. CASE PassOn
  <2>1. UNCHANGED <<session, calls, controller, io, socket, outgoing>> /\ sender' \in {sender, None}
    BY <1>4 DEF PassOn, windowVars, ioVars
  <2>2. ConnectIsFirst' /\ SendsAreOfSession' /\ RequestsAreOfSession'
    BY <2>1 DEF ThreadInv, ConnectIsFirst, SendsAreOfSession, RequestsAreOfSession, InCalls
  <2>3. ConnectIsAlone' /\ SenderIsOfSession'
    BY <2>1 DEF ThreadInv, ConnectIsAlone, SenderIsOfSession, InCalls
  <2>4. QED
    BY <2>2, <2>3 DEF ThreadInv
<1>5. QED
  BY <1>1, <1>2, <1>3, <1>4

LEMMA ThreadNext ==
  ASSUME TypeOK, ShutDown, ClosedWindow, ThreadInv, quit = "no" => WindowInv, ~hurried', [Next]_vars
  PROVE  ThreadInv'
<1>1. CASE UNCHANGED vars
  BY <1>1, ThreadUntouched DEF vars, windowVars, ioVars, hubVars
<1>2. CASE Next
  BY <1>2, UiThread, ControllerThread, IoThread, OtherThread DEF Next, UiRuns, EventHandled
<1>3. QED
  BY <1>1, <1>2

-----------------------------------------------------------------------------
(* The window, as long as no disconnect was given up and it is not shut down *)

(* An event that says nothing of connects and disconnects is taken; what the *)
(* hub or the network manager passes on goes to the end of the queue.        *)
SameInbox ==
  /\ Answered' <=> Answered
  /\ \A type \in {"connect_ok", "connect_failed", "disconnected"} : InInbox(type)' <=> InInbox(type)
  /\ InboxIsOrdered'

LEMMA TailIsOrdered ==
  ASSUME TypeOK, InboxIsOrdered, inbox # <<>>, inbox' = Tail(inbox), session' = session
  PROVE  InboxIsOrdered'
<1> SUFFICES ASSUME NEW i \in 1 .. Len(inbox'), NEW j \in 1 .. Len(inbox')
             PROVE  /\ Answer(inbox'[i]) => inbox'[i].session = session /\ inbox'[i].hops = 1
                    /\ Answer(inbox'[i]) /\ Answer(inbox'[j]) => i = j
                    /\ inbox'[i].type = "disconnected" /\ inbox'[j].type = "disconnected" => i = j
                    /\ Answer(inbox'[i]) /\ inbox'[j].type = "disconnected" => i < j
  BY DEF InboxIsOrdered, Answer
<1>1. /\ i + 1 \in 1 .. Len(inbox) /\ inbox'[i] = inbox[i + 1]
      /\ j + 1 \in 1 .. Len(inbox) /\ inbox'[j] = inbox[j + 1]
  BY EventTaken
<1>2. (i + 1 = j + 1 => i = j) /\ (i + 1 < j + 1 => i < j)
  BY EventTaken
<1>3. QED
  BY <1>1, <1>2 DEF InboxIsOrdered

LEMMA OtherTaken ==
  ASSUME TypeOK, InboxIsOrdered, NEW type \in {"granted", "refused", "net_error"}, Handles(type),
         session' = session
  PROVE  SameInbox
<1>1. inbox # <<>> /\ inbox[1].type = type /\ inbox' = Tail(inbox)
  BY HandlesDoes
<1>2. ~Answer(inbox[1])
  BY <1>1 DEF Answer
<1>3. QED
  BY <1>1, <1>2, EventTaken, TailIsOrdered DEF SameInbox

LEMMA OtherAppended ==
  ASSUME TypeOK, InboxIsOrdered, session' = session, NEW e \in EventSet,
         e.type \in {"granted", "refused", "net_error"}, inbox' = Append(inbox, e)
  PROVE  SameInbox
<1>1. /\ Len(inbox') = Len(inbox) + 1 /\ Len(inbox) \in Nat
      /\ \A i \in 1 .. Len(inbox) : inbox'[i] = inbox[i]
      /\ inbox'[Len(inbox) + 1] = e /\ ~Answer(e)
      /\ \A type : InInbox(type)' <=> InInbox(type) \/ e.type = type
      /\ Answered' <=> Answered
  BY EventAppended DEF Answer
<1>2. \A i \in 1 .. Len(inbox') : Answer(inbox'[i]) \/ inbox'[i].type = "disconnected" =>
        i \in 1 .. Len(inbox) /\ inbox'[i] = inbox[i]
  BY <1>1
<1>3. InboxIsOrdered'
  <2> SUFFICES ASSUME NEW i \in 1 .. Len(inbox'), NEW j \in 1 .. Len(inbox')
               PROVE  /\ Answer(inbox'[i]) => inbox'[i].session = session /\ inbox'[i].hops = 1
                      /\ Answer(inbox'[i]) /\ Answer(inbox'[j]) => i = j
                      /\ inbox'[i].type = "disconnected" /\ inbox'[j].type = "disconnected" => i = j
                      /\ Answer(inbox'[i]) /\ inbox'[j].type = "disconnected" => i < j
    BY DEF InboxIsOrdered, Answer
  <2>1. QED
    BY <1>2 DEF InboxIsOrdered
<1>4. QED
  BY <1>1, <1>3 DEF SameInbox

LEMMA PassedOn ==
  ASSUME TypeOK, InboxIsOrdered, PassOn
  PROVE  SameInbox
<1>1. /\ inbox # <<>> /\ Head(inbox).hops = 2 /\ session' = session
      /\ inbox' = Append(Tail(inbox), [Head(inbox) EXCEPT !.hops = 1])
  BY DEF PassOn, windowVars
<1> DEFINE t == Tail(inbox)
           e == [Head(inbox) EXCEPT !.hops = 1]
<1>2. /\ Len(t) = Len(inbox) - 1 /\ Len(inbox) \in Nat \ {0} /\ t \in Seq(EventSet)
      /\ \A i \in 1 .. Len(t) : i + 1 \in 1 .. Len(inbox) /\ t[i] = inbox[i + 1]
      /\ Head(inbox) = inbox[1] /\ inbox[1] \in EventSet /\ 1 \in 1 .. Len(inbox)
  BY <1>1, Tailed DEF TypeOK, QueuesOK
<1>3. e \in EventSet /\ e.type = inbox[1].type /\ inbox[1].hops = 2
  BY <1>1, <1>2 DEF EventSet
<1>4. ~Answer(inbox[1]) /\ ~Answer(e)
  BY <1>2, <1>3 DEF InboxIsOrdered, Answer
<1> HIDE DEF t, e
<1>5. /\ Len(inbox') = Len(inbox) /\ inbox'[Len(inbox)] = e
      /\ \A i \in 1 .. Len(inbox) - 1 : inbox'[i] = inbox[i + 1]
  <2>1. /\ Len(inbox') = Len(t) + 1 /\ inbox'[Len(t) + 1] = e
        /\ \A i \in 1 .. Len(t) : inbox'[i] = t[i]
    BY <1>1, <1>2, <1>3, Appended DEF t, e
  <2>2. QED
    BY <1>2, <2>1
<1>6. \A i \in 1 .. Len(inbox) : i = Len(inbox) \/ i \in 1 .. Len(inbox) - 1
  BY <1>2
<1>7. \A i \in 1 .. Len(inbox) : i = 1 \/ (i - 1 \in 1 .. Len(inbox) - 1 /\ inbox'[i - 1] = inbox[i])
  BY <1>2, <1>5
<1>8. ASSUME NEW type PROVE InInbox(type)' <=> InInbox(type)
  <2>1. ASSUME NEW i \in 1 .. Len(inbox), inbox'[i].type = type
        PROVE  \E k \in 1 .. Len(inbox) : inbox[k].type = type
    <3>1. CASE i = Len(inbox)
      BY <1>2, <1>3, <1>5, <2>1, <3>1
    <3>2. CASE i \in 1 .. Len(inbox) - 1
      <4>1. i + 1 \in 1 .. Len(inbox) /\ inbox[i + 1].type = type
        BY <1>2, <1>5, <2>1, <3>2
      <4>2. QED
        BY <4>1
    <3>3. QED
      BY <1>6, <3>1, <3>2
  <2>2. ASSUME NEW i \in 1 .. Len(inbox), inbox[i].type = type
        PROVE  \E k \in 1 .. Len(inbox) : inbox'[k].type = type
    <3>1. CASE i = 1
      BY <1>2, <1>3, <1>5, <2>2, <3>1
    <3>2. CASE i # 1
      <4>1. i - 1 \in 1 .. Len(inbox) /\ inbox'[i - 1].type = type
        BY <1>7, <2>2, <3>2
      <4>2. QED
        BY <4>1
    <3>3. QED
      BY <3>1, <3>2
  <2>3. QED
    BY <1>5, <2>1, <2>2 DEF InInbox
<1>9. Answered' <=> Answered
  <2>1. Answered <=> InInbox("connect_ok") \/ InInbox("connect_failed")
    BY DEF Answered, Answer, InInbox
  <2>2. Answered' <=> InInbox("connect_ok")' \/ InInbox("connect_failed")'
    BY DEF Answered, Answer, InInbox
  <2>3. QED
    BY <1>8, <2>1, <2>2
<1>10. InboxIsOrdered'
  <2> SUFFICES ASSUME NEW i \in 1 .. Len(inbox), NEW j \in 1 .. Len(inbox)
               PROVE  /\ Answer(inbox'[i]) => inbox'[i].session = session /\ inbox'[i].hops = 1
                      /\ Answer(inbox'[i]) /\ Answer(inbox'[j]) => i = j
                      /\ inbox'[i].type = "disconnected" /\ inbox'[j].type = "disconnected" => i = j
                      /\ Answer(inbox'[i]) /\ inbox'[j].type = "disconnected" => i < j
    <3>1. 1 .. Len(inbox') = 1 .. Len(inbox)
      BY <1>5
    <3>2. QED
      BY <1>1, <3>1 DEF InboxIsOrdered, Answer
  <2>1. CASE i \in 1 .. Len(inbox) - 1 /\ j \in 1 .. Len(inbox) - 1
    <3>1. /\ i + 1 \in 1 .. Len(inbox) /\ inbox'[i] = inbox[i + 1]
          /\ j + 1 \in 1 .. Len(inbox) /\ inbox'[j] = inbox[j + 1]
          /\ (i + 1 = j + 1 => i = j) /\ (i + 1 < j + 1 => i < j)
      BY <1>2, <1>5, <2>1
    <3>2. QED
      BY <3>1 DEF InboxIsOrdered
  <2>2. CASE i = Len(inbox) /\ j = Len(inbox)
    BY <1>4, <1>5, <2>2
  <2>3. CASE i = Len(inbox) /\ j \in 1 .. Len(inbox) - 1
    <3>1. /\ j + 1 \in 1 .. Len(inbox) /\ inbox'[j] = inbox[j + 1] /\ j + 1 # 1
      BY <1>2, <1>5, <2>3
    <3>2. ~(inbox'[i].type = "disconnected" /\ inbox'[j].type = "disconnected")
      BY <1>2, <1>3, <1>5, <2>3, <3>1 DEF InboxIsOrdered
    <3>3. QED
      BY <1>4, <1>5, <2>3, <3>2
  <2>4. CASE i \in 1 .. Len(inbox) - 1 /\ j = Len(inbox)
    <3>1. /\ i + 1 \in 1 .. Len(inbox) /\ inbox'[i] = inbox[i + 1] /\ i + 1 # 1 /\ i < j
      BY <1>2, <1>5, <2>4
    <3>2. ~(inbox'[i].type = "disconnected" /\ inbox'[j].type = "disconnected")
      BY <1>2, <1>3, <1>5, <2>4, <3>1 DEF InboxIsOrdered
    <3>3. QED
      BY <1>4, <1>5, <2>4, <3>1, <3>2 DEF InboxIsOrdered
  <2>5. QED
    BY <1>6, <2>1, <2>2, <2>3, <2>4
<1>11. QED
  BY <1>8, <1>9, <1>10 DEF SameInbox

LEMMA OneLeft ==
  ASSUME NEW S, NEW s \in Seq(S), s # <<>>, HasOne(s)
  PROVE  HasOne(Tail(s)) /\ (s[1].call = "disconnect" => ~Has(Tail(s), "disconnect"))
<1> DEFINE t == Tail(s)
<1>1. /\ Len(t) = Len(s) - 1 /\ Len(s) \in Nat \ {0} /\ 1 \in 1 .. Len(s)
      /\ \A i \in 1 .. Len(t) : i + 1 \in 1 .. Len(s) /\ t[i] = s[i + 1]
  BY Tailed
<1> HIDE DEF t
<1>2. \A i, j \in 1 .. Len(t) : (i + 1 = j + 1 => i = j) /\ i + 1 # 1
  BY <1>1
<1>3. HasOne(t)
  BY <1>1, <1>2 DEF HasOne
<1>4. ASSUME s[1].call = "disconnect", NEW i \in 1 .. Len(t), t[i].call = "disconnect" PROVE FALSE
  BY <1>1, <1>2, <1>4 DEF HasOne
<1>5. QED
  BY <1>3, <1>4 DEF t, Has

LEMMA OneMore ==
  ASSUME NEW S, NEW s \in Seq(S), NEW e \in S, HasOne(s),
         e.call # "disconnect" \/ ~Has(s, "disconnect")
  PROVE  HasOne(Append(s, e))
<1> DEFINE t == Append(s, e)
<1>1. /\ Len(t) = Len(s) + 1 /\ Len(s) \in Nat
      /\ \A i \in 1 .. Len(s) : t[i] = s[i]
      /\ t[Len(s) + 1] = e
  BY Appended
<1> HIDE DEF t
<1>2. \A i \in 1 .. Len(t) : i \in 1 .. Len(s) \/ i = Len(s) + 1
  BY <1>1
<1>3. HasOne(t)
  BY <1>1, <1>2 DEF HasOne, Has
<1>4. QED
  BY <1>3 DEF t

LEMMA CallsAreKept == calls' = calls => \A kind : InCalls(kind)' <=> InCalls(kind)
BY DEF InCalls

LEMMA IoIsKept == io' = io => \A kind : InIo(kind)' <=> InIo(kind)
BY DEF InIo

(* A slot that only touches what is shown.                                   *)
LEMMA OnlyShown ==
  ASSUME WindowInv, SameInbox, UNCHANGED <<session, calls, controller, io, socket, sender>>,
         active' <=> active, ending' <=> ending, connecting' <=> connecting,
         (active \/ connecting) /\ ~ending => visible' \/ boxes' > 0,
         pending' => visible' \/ boxes' > 0
  PROVE  WindowInv'
<1>1. (Answered' <=> Answered) /\ InboxIsOrdered'
  BY DEF SameInbox
<1>2. \A type \in {"connect_ok", "connect_failed", "disconnected"} : InInbox(type)' <=> InInbox(type)
  BY DEF SameInbox
<1>3. /\ \A kind : InCalls(kind)' <=> InCalls(kind)
      /\ \A kind : InIo(kind)' <=> InIo(kind)
  BY CallsAreKept, IoIsKept
<1>4. OneConnect' /\ OneDisconnect'
  BY <1>1, <1>2, <1>3 DEF WindowInv, OneConnect, OneDisconnect
<1>5. QueuesHaveOne'
  BY DEF WindowInv, QueuesHaveOne
<1>6. (UnderConnect' <=> UnderConnect) /\ (UnderDisconnect' <=> UnderDisconnect)
  BY <1>1, <1>2, <1>3 DEF UnderConnect, UnderDisconnect
<1>7. WindowKnows'
  BY <1>6 DEF WindowInv, WindowKnows
<1>8. LinkIsKnown'
  BY <1>2, <1>3, <1>6 DEF WindowInv, LinkIsKnown, Up, Down, None
<1>9. QED
  BY <1>1, <1>4, <1>5, <1>7, <1>8 DEF WindowInv

(* The window posts a disconnect.                                            *)
LEMMA OnlyDisconnected ==
  ASSUME TypeOK, WindowInv, SameInbox, UNCHANGED <<session, controller, io, socket, sender>>,
         ~ending, active \/ connecting, calls' = Append(calls, Disconnect),
         ending', ~active', ~connecting', ~pending'
  PROVE  WindowInv'
<1>1. (Answered' <=> Answered) /\ InboxIsOrdered'
  BY DEF SameInbox
<1>2. \A type \in {"connect_ok", "connect_failed", "disconnected"} : InInbox(type)' <=> InInbox(type)
  BY DEF SameInbox
<1>3. /\ \A kind : InCalls(kind)' <=> InCalls(kind) \/ kind = "disconnect"
      /\ \A kind : InIo(kind)' <=> InIo(kind)
  BY CallAppended, CallTypes, IoIsKept
<1>4. ~UnderDisconnect
  BY DEF WindowInv, WindowKnows
<1>5. OneConnect' /\ OneDisconnect'
  BY <1>1, <1>2, <1>3, <1>4 DEF WindowInv, OneConnect, OneDisconnect, UnderDisconnect
<1>6. QueuesHaveOne'
  BY <1>4, CallTypes, OneMore DEF WindowInv, QueuesHaveOne, UnderDisconnect, InCalls, TypeOK, QueuesOK
<1>7. WindowKnows'
  BY <1>3 DEF WindowKnows, UnderDisconnect
<1>8. LinkIsKnown'
  BY <1>2, <1>3 DEF WindowInv, LinkIsKnown, Up, Down, None
<1>9. QED
  BY <1>1, <1>5, <1>6, <1>7, <1>8 DEF WindowInv

LEMMA OnlyClosed ==
  ASSUME TypeOK, WindowInv, SameInbox, UNCHANGED <<controller, io, socket, sender>>,
         CloseWindow(connecting)
  PROVE  WindowInv'
<1>1. ~pending' /\ session' = session
  BY CloseWindowDoes
<1>2. CASE /\ ~ending /\ (active \/ connecting)
           /\ ending' /\ ~active' /\ ~connecting' /\ calls' = Append(calls, Disconnect)
  BY <1>1, <1>2, OnlyDisconnected
<1>3. CASE /\ ending \/ ~(active \/ connecting)
           /\ (ending' <=> ending) /\ (active' <=> active) /\ (connecting' <=> connecting)
           /\ calls' = calls
  BY <1>1, <1>3, OnlyShown
<1>4. QED
  BY <1>2, <1>3, CloseWindowDoes

(* Nothing of an earlier session is under way any more.                      *)
LEMMA OnlyQuiet ==
  ASSUME ~InCalls("disconnect")', ~InIo("disconnect")', ~InInbox("disconnected")', ~Answered',
         controller' = Idle, socket' = None, sender' = None, ~ending', ~active',
         connecting' <=> InCalls("connect")',
         connecting' \/ pending' => visible' \/ boxes' > 0
  PROVE  WindowInv'
<1>1. \A i \in 1 .. Len(inbox') : ~Answer(inbox'[i]) /\ inbox'[i].type # "disconnected"
  BY DEF Answered, InInbox, Answer
<1>2. InboxIsOrdered'
  BY <1>1 DEF InboxIsOrdered, Answer
<1>3. QueuesHaveOne'
  BY DEF QueuesHaveOne, HasOne, InCalls, InIo, Has
<1>4. ~InInbox("connect_ok")' /\ ~InInbox("connect_failed")'
  BY DEF InInbox, Answered, Answer
<1>6. OneConnect' /\ OneDisconnect'
  BY DEF OneConnect, OneDisconnect
<1>7. (UnderConnect' <=> InCalls("connect")') /\ ~UnderDisconnect'
  BY DEF UnderConnect, UnderDisconnect
<1>8. WindowKnows'
  BY <1>7 DEF WindowKnows
<1>9. LinkIsKnown'
  BY <1>4 DEF LinkIsKnown, Down, None
<1>10. QED
  BY <1>2, <1>3, <1>6, <1>8, <1>9 DEF WindowInv

LEMMA InboxIsKept ==
  ASSUME InboxIsOrdered, inbox' = inbox, session' = session
  PROVE  SameInbox
BY DEF SameInbox, InboxIsOrdered, Answered, InInbox, Answer

LEMMA UserWindow ==
  ASSUME TypeOK, WindowInv, ~hurried',
         UserOpensMeeting \/ UserClosesWindow \/ MediaIsLost \/ DismissBox \/ FallbackFires
  PROVE  WindowInv'
<1>1. InboxIsOrdered
  BY DEF WindowInv
<1>2. UNCHANGED <<controller, io, socket, sender, inbox>>
  BY DEF UserOpensMeeting, UserClosesWindow, MediaIsLost, DismissBox, FallbackFires, ioVars, hubVars
<1>3. CASE UserOpensMeeting
  <2>1. /\ ~visible /\ boxes = 0 /\ visible' /\ RequestConnect(ending, connecting, pending)
        /\ (active' <=> active) /\ (ending' <=> ending)
    BY <1>3 DEF UserOpensMeeting
  <2>2. CASE (connecting' <=> connecting) /\ session' = session /\ calls' = calls
    BY <1>1, <1>2, <2>1, <2>2, InboxIsKept, OnlyShown
  <2>3. CASE /\ ~ending /\ ~connecting /\ connecting' = TRUE
             /\ calls' = Append(calls, Connect(session + 1))
    <3>1. Quiet /\ ~active
      BY <2>1, <2>3, UserIsQuiet
    <3>2. ~UnderConnect /\ ~UnderDisconnect
      BY <2>3 DEF WindowInv, WindowKnows
    <3>3. \A kind : InCalls(kind)' <=> InCalls(kind) \/ kind = "connect"
      BY <2>3, CallAppended, CallTypes
    <3>4. ~InCalls("disconnect")' /\ ~InIo("disconnect")' /\ InCalls("connect")'
      BY <1>2, <3>1, <3>3, IoIsKept DEF Quiet
    <3>5. ~InInbox("disconnected")' /\ ~Answered'
      BY <1>2, <3>2 DEF UnderConnect, UnderDisconnect, InInbox, Answered, Answer
    <3>6. QED
      BY <1>2, <2>1, <2>3, <3>1, <3>4, <3>5, OnlyQuiet DEF Quiet, Down
  <2>4. QED
    BY <2>1, <2>2, <2>3, RequestConnectDoes
<1>4. CASE UserClosesWindow \/ DismissBox
  <2>1. CloseWindow(connecting)
    BY <1>4 DEF UserClosesWindow, DismissBox
  <2>2. session' = session
    BY <2>1, CloseWindowDoes
  <2>3. QED
    BY <1>1, <1>2, <2>1, <2>2, InboxIsKept, OnlyClosed
<1>5. CASE MediaIsLost
  <2>1. /\ boxes' = 1 /\ UNCHANGED <<session, calls>>
        /\ (active' <=> active) /\ (ending' <=> ending) /\ (connecting' <=> connecting)
    BY <1>5 DEF MediaIsLost
  <2>2. QED
    BY <1>1, <1>2, <2>1, InboxIsKept, OnlyShown
<1>6. CASE FallbackFires
  <2>1. ~ending
    <3>1. ending => UnderDisconnect
      BY DEF WindowInv, WindowKnows
    <3>2. QED
      BY <1>6, <3>1, DisconnectIs DEF FallbackFires
  <2>2. /\ UNCHANGED <<session, calls, boxes>>
        /\ (active' <=> active) /\ (ending' <=> ending) /\ (connecting' <=> connecting)
        /\ (visible' <=> visible) /\ (pending' <=> pending)
    BY <1>6, <2>1 DEF FallbackFires
  <2>3. (active \/ connecting) /\ ~ending => visible' \/ boxes' > 0
    BY <2>2 DEF WindowInv, WindowKnows
  <2>4. pending' => visible' \/ boxes' > 0
    BY <2>2 DEF WindowInv, WindowKnows
  <2>5. QED
    BY <1>1, <1>2, <2>2, <2>3, <2>4, InboxIsKept, OnlyShown
<1>7. QED
  BY <1>3, <1>4, <1>5, <1>6

(* A connect is answered: the window leaves connecting.                      *)
LEMMA AnswerWindow ==
  ASSUME TypeOK, WindowInv, OnConnected \/ OnConnectedForNothing \/ OnConnectFailed
  PROVE  WindowInv'
<1>1. PICK type \in {"connect_ok", "connect_failed"} : Handles(type)
  BY DEF OnConnected, OnConnectedForNothing, OnConnectFailed
<1>2. /\ inbox # <<>> /\ inbox[1].type = type /\ inbox' = Tail(inbox) /\ Head(inbox) = inbox[1]
      /\ inbox[1].session \in Nat
      /\ controller' = controller /\ io' = io /\ socket' = socket
  BY <1>1, HandlesDoes
<1>3. /\ Answered /\ InInbox(type) /\ ~Answered'
      /\ ~InCalls("connect") /\ controller = Idle /\ ~InCalls("request")
  BY <1>1, AnsweredIs
<1>4. UNCHANGED <<session, sender>> /\ ~connecting' /\ (ending' <=> ending) /\ (pending' <=> pending)
  BY DEF OnConnected, OnConnectedForNothing, OnConnectFailed, hubVars
<1>5. /\ InInbox("disconnected")' <=> InInbox("disconnected")
      /\ InInbox("connect_ok")' => FALSE
      /\ InInbox("connect_failed")' => FALSE
      /\ InboxIsOrdered'
  <2>1. InInbox("disconnected")' <=> InInbox("disconnected")
    BY <1>2, EventTaken
  <2>2. ~InInbox("connect_ok")' /\ ~InInbox("connect_failed")'
    BY <1>3 DEF InInbox, Answered, Answer
  <2>3. QED
    BY <1>2, <1>4, <2>1, <2>2, TailIsOrdered DEF WindowInv
<1>6. \/ calls' = calls
      \/ calls' = Append(calls, Request(inbox[1].session))
  BY <1>2 DEF OnConnected, OnConnectedForNothing, OnConnectFailed
<1>7. /\ \A kind : kind # "request" => (InCalls(kind)' <=> InCalls(kind))
      /\ HasOne(calls')
  <2>1. CASE calls' = calls
    BY <2>1, CallsAreKept DEF WindowInv, QueuesHaveOne
  <2>2. CASE calls' = Append(calls, Request(inbox[1].session))
    <3>1. Request(inbox[1].session) \in CallSet /\ Request(inbox[1].session).call = "request"
      BY <1>2, CallTypes
    <3>2. \A kind : InCalls(kind)' <=> InCalls(kind) \/ kind = "request"
      BY <2>2, <3>1, CallAppended
    <3>3. HasOne(calls')
      BY <2>2, <3>1, OneMore DEF WindowInv, QueuesHaveOne, TypeOK, QueuesOK
    <3>4. QED
      BY <3>2, <3>3
  <2>3. QED
    BY <1>6, <2>1, <2>2
<1>8. OneConnect' /\ OneDisconnect'
  BY <1>2, <1>3, <1>5, <1>7, IoIsKept DEF WindowInv, OneConnect, OneDisconnect
<1>9. QueuesHaveOne'
  BY <1>2, <1>7 DEF WindowInv, QueuesHaveOne
<1>10. ~UnderConnect' /\ (UnderDisconnect' <=> UnderDisconnect) /\ UnderConnect
  BY <1>2, <1>3, <1>5, <1>7, IoIsKept DEF UnderConnect, UnderDisconnect
<1>11. ~active /\ (ending <=> UnderDisconnect) /\ (ending \/ visible \/ boxes > 0)
  BY <1>10 DEF WindowInv, WindowKnows
<1>12. boxes \in Nat
  BY DEF TypeOK, CountersOK
<1>13. CASE OnConnected \/ OnConnectedForNothing
  <2>1. /\ active' /\ (visible' <=> visible) /\ boxes' = boxes /\ type = "connect_ok"
    <3>1. Handles("connect_ok")
      BY <1>13 DEF OnConnected, OnConnectedForNothing
    <3>2. inbox[1].type = "connect_ok"
      BY <3>1, HandlesDoes
    <3>3. QED
      BY <1>2, <1>13, <3>2 DEF OnConnected, OnConnectedForNothing
  <2>2. WindowKnows'
    BY <1>4, <1>10, <1>11, <2>1 DEF WindowInv, WindowKnows
  <2>3. LinkIsKnown'
    BY <1>2, <1>3, <1>4, <1>5, <2>1, IoIsKept DEF WindowInv, LinkIsKnown, Up, Down, None
  <2>4. QED
    BY <1>5, <1>8, <1>9, <2>2, <2>3 DEF WindowInv
<1>14. CASE OnConnectFailed
  <2>1. /\ ~active' /\ boxes' > 0 /\ type = "connect_failed"
    <3>1. Handles("connect_failed") /\ (active' <=> active) /\ boxes' = boxes + 1
      BY <1>14 DEF OnConnectFailed
    <3>2. inbox[1].type = "connect_failed"
      BY <3>1, HandlesDoes
    <3>3. QED
      BY <1>2, <1>11, <1>12, <3>1, <3>2
  <2>2. WindowKnows'
    BY <1>4, <1>10, <1>11, <2>1 DEF WindowKnows
  <2>3. LinkIsKnown'
    BY <1>2, <1>3, <1>4, <1>5, <2>1, IoIsKept DEF WindowInv, LinkIsKnown, Up, Down, None
  <2>4. QED
    BY <1>5, <1>8, <1>9, <2>2, <2>3 DEF WindowInv
<1>15. QED
  BY <1>13, <1>14

(* The IO thread's queue changes, but not the disconnect in it.              *)
LEMMA OnlySent ==
  ASSUME WindowInv, SameInbox, UNCHANGED <<session, calls, controller, socket, sender, boxes>>,
         active' <=> active, ending' <=> ending, connecting' <=> connecting,
         visible' <=> visible, pending' <=> pending,
         InIo("disconnect")' <=> InIo("disconnect"), HasOne(io')
  PROVE  WindowInv'
<1>1. (Answered' <=> Answered) /\ InboxIsOrdered'
  BY DEF SameInbox
<1>2. \A type \in {"connect_ok", "connect_failed", "disconnected"} : InInbox(type)' <=> InInbox(type)
  BY DEF SameInbox
<1>3. \A kind : InCalls(kind)' <=> InCalls(kind)
  BY CallsAreKept
<1>4. OneConnect' /\ OneDisconnect'
  BY <1>1, <1>2, <1>3 DEF WindowInv, OneConnect, OneDisconnect
<1>5. QueuesHaveOne'
  BY DEF WindowInv, QueuesHaveOne
<1>6. (UnderConnect' <=> UnderConnect) /\ (UnderDisconnect' <=> UnderDisconnect)
  BY <1>1, <1>2, <1>3 DEF UnderConnect, UnderDisconnect
<1>7. WindowKnows'
  BY <1>6 DEF WindowInv, WindowKnows
<1>8. LinkIsKnown'
  BY <1>2, <1>6 DEF WindowInv, LinkIsKnown, Up, Down, None
<1>9. QED
  BY <1>1, <1>4, <1>5, <1>7, <1>8 DEF WindowInv

LEMMA EventWindow ==
  ASSUME TypeOK, WindowInv,
         OnMeetingGranted \/ OnMeetingRefused \/ OnNetError \/ OnNetworkDisconnected
  PROVE  WindowInv'
<1>1. UNCHANGED <<controller, io, socket, sender>>
  <2>1. PICK type : Handles(type)
    BY DEF OnMeetingGranted, OnMeetingRefused, OnNetError, OnNetworkDisconnected
  <2>2. QED
    BY <2>1, HandlesDoes DEF OnMeetingGranted, OnMeetingRefused, OnNetError, OnNetworkDisconnected, hubVars
<1>2. InboxIsOrdered
  BY DEF WindowInv
<1>3. CASE OnMeetingGranted
  <2>1. /\ Handles("granted") /\ UNCHANGED <<session, calls, boxes>>
        /\ (active' <=> active) /\ (ending' <=> ending) /\ (connecting' <=> connecting)
        /\ (visible' <=> visible) /\ (pending' <=> pending)
    BY <1>3 DEF OnMeetingGranted
  <2>2. SameInbox
    BY <1>2, <2>1, OtherTaken
  <2>3. QED
    BY <1>1, <2>1, <2>2, OnlyShown DEF WindowInv, WindowKnows
<1>4. CASE OnMeetingRefused
  <2>1. Handles("refused") /\ CloseWindow(connecting)
    BY <1>4 DEF OnMeetingRefused
  <2>2. SameInbox
    BY <1>2, <2>1, OtherTaken, CloseWindowDoes
  <2>3. QED
    BY <1>1, <2>1, <2>2, OnlyClosed
<1>5. CASE OnNetError
  <2>1. CASE ending
    <3>1. /\ Handles("net_error") /\ UNCHANGED <<session, calls, boxes>>
          /\ (active' <=> active) /\ (ending' <=> ending) /\ (connecting' <=> connecting)
          /\ (visible' <=> visible) /\ (pending' <=> pending)
      BY <1>5, <2>1 DEF OnNetError, windowVars
    <3>2. SameInbox
      BY <1>2, <3>1, OtherTaken
    <3>3. QED
      BY <1>1, <3>1, <3>2, OnlyShown DEF WindowInv, WindowKnows
  <2>2. CASE ~ending
    <3>1. Handles("net_error") /\ CloseWindow(connecting)
      BY <1>5, <2>2 DEF OnNetError
    <3>2. SameInbox
      BY <1>2, <3>1, OtherTaken, CloseWindowDoes
    <3>3. QED
      BY <1>1, <3>1, <3>2, OnlyClosed
  <2>3. QED
    BY <2>1, <2>2
<1>6. CASE OnNetworkDisconnected
  <2>1. /\ Handles("disconnected") /\ FlushPendingConnect /\ ~active' /\ ~ending'
        /\ (visible' <=> visible) /\ boxes' = boxes
    BY <1>6 DEF OnNetworkDisconnected
  <2>2. /\ Quiet /\ ~Answered /\ ~InInbox("disconnected")'
    BY <2>1, DisconnectedIsQuiet
  <2>3. ~Answered'
    BY <2>1, <2>2, HandlesDoes, EventTaken
  <2>4. /\ ~InIo("disconnect")' /\ ~InCalls("disconnect")
        /\ controller' = Idle /\ socket' = None /\ sender' = None /\ ~InCalls("connect")
    BY <1>1, <2>2, IoIsKept DEF Quiet, Down, None
  <2>5. pending => visible' \/ boxes' > 0
    BY <2>1 DEF WindowInv, WindowKnows
  <2>6. CASE pending /\ pending' = FALSE /\ connecting' = TRUE /\ calls' = Append(calls, Connect(session + 1))
    <3>1. \A kind : InCalls(kind)' <=> InCalls(kind) \/ kind = "connect"
      BY <2>6, CallAppended, CallTypes
    <3>2. ~InCalls("disconnect")' /\ InCalls("connect")'
      BY <2>4, <3>1
    <3>3. QED
      BY <2>1, <2>2, <2>3, <2>4, <2>5, <2>6, <3>2, OnlyQuiet
  <2>7. CASE ~pending /\ ~pending' /\ ~connecting' /\ calls' = calls
    <3>1. ~InCalls("disconnect")' /\ ~InCalls("connect")'
      BY <2>4, <2>7, CallsAreKept
    <3>2. QED
      BY <2>1, <2>2, <2>3, <2>4, <2>7, <3>1, OnlyQuiet
  <2>8. QED
    BY <2>1, <2>6, <2>7, FlushDoes
<1>7. QED
  BY <1>3, <1>4, <1>5, <1>6

LEMMA OtherWindow ==
  ASSUME TypeOK, ShutDown, ThreadInv, WindowInv,
         PassOn \/ ServerAnswers \/ LinkBreaks \/ WorkerSends
  PROVE  WindowInv'
<1>1. /\ UNCHANGED <<session, calls, controller, socket, boxes>>
      /\ (active' <=> active) /\ (ending' <=> ending) /\ (connecting' <=> connecting)
      /\ (visible' <=> visible) /\ (pending' <=> pending)
  BY DEF PassOn, ServerAnswers, LinkBreaks, WorkerSends, windowVars, ioVars
<1>2. InboxIsOrdered
  BY DEF WindowInv
<1>3. CASE PassOn
  <2>1. io' = io /\ SameInbox
    BY <1>2, <1>3, PassedOn DEF PassOn, ioVars
  <2>2. sender' = sender
    <3>1. CASE Head(inbox).type = "disconnected"
      <4>1. inbox # <<>> /\ sender' = None
        BY <1>3, <3>1 DEF PassOn
      <4>2. Head(inbox) = inbox[1] /\ 1 \in 1 .. Len(inbox)
        BY <4>1, Tailed DEF TypeOK, QueuesOK
      <4>3. InInbox("disconnected")
        BY <3>1, <4>2 DEF InInbox
      <4>4. QED
        BY <4>1, <4>3 DEF WindowInv, LinkIsKnown, Down
    <3>2. QED
      BY <1>3, <3>1 DEF PassOn
  <2>3. QED
    BY <1>1, <2>1, <2>2, OnlyShown DEF WindowInv, WindowKnows
<1>4. CASE ServerAnswers \/ LinkBreaks
  <2>1. io' = io /\ sender' = sender
    BY <1>4 DEF ServerAnswers, LinkBreaks, hubVars
  <2>2. socket \in Nat
    BY DEF TypeOK, ThreadsOK
  <2>3. \E e \in EventSet : e.type \in {"granted", "refused", "net_error"} /\ inbox' = Append(inbox, e)
    <3>1. ASSUME NEW type \in {"granted", "refused", "net_error"}
          PROVE  Routed(type, socket) \in EventSet /\ Routed(type, socket).type = type
      BY <2>2 DEF Routed, EventSet
    <3>2. \E type \in {"granted", "refused", "net_error"} : inbox' = Append(inbox, Routed(type, socket))
      BY <1>4 DEF ServerAnswers, LinkBreaks
    <3>3. QED
      BY <3>1, <3>2
  <2>4. SameInbox
    BY <1>1, <1>2, <2>3, OtherAppended
  <2>5. QED
    BY <1>1, <2>1, <2>4, OnlyShown DEF WindowInv, WindowKnows
<1>5. CASE WorkerSends
  <2>1. inbox' = inbox /\ sender' = sender
    BY <1>5 DEF WorkerSends
  <2>2. SameInbox
    BY <1>1, <1>2, <2>1, InboxIsKept
  <2>3. PICK e \in IoSet : e.call = "sendWireData" /\ io' = Append(io, e)
    <3>1. outgoing # <<>> /\ Head(outgoing) \in Nat
      BY <1>5, Tailed DEF WorkerSends, TypeOK, QueuesOK
    <3>2. QED
      BY <1>5, <3>1, CallTypes DEF WorkerSends
  <2>4. InIo("disconnect")' <=> InIo("disconnect")
    BY <2>3, IoAppended
  <2>5. HasOne(io')
    BY <2>3, OneMore DEF WindowInv, QueuesHaveOne, TypeOK, QueuesOK
  <2>6. QED
    BY <1>1, <2>1, <2>2, <2>4, <2>5, OnlySent
<1>6. QED
  BY <1>3, <1>4, <1>5

LEMMA ControllerWindow ==
  ASSUME TypeOK, ShutDown, ThreadInv, WindowInv, quit = "no", ControllerRuns
  PROVE  WindowInv'
<1> USE DEF Controller
<1>1. WindowIsLeft
  <2>1. UNCHANGED windowVars
    BY DEF ControllerRuns, ControllerConnects, ControllerDisconnects, ControllerRequests,
       ControllerFinishes, ControllerEnds, Takes
  <2>2. QED
    BY <2>1, LeftType
<1>2. ASSUME NEW call, Takes(call)
      PROVE  /\ controller = Idle /\ socket' = socket /\ inbox' = inbox
             /\ calls[1].call = call /\ Head(calls) = calls[1]
             /\ calls # <<>> /\ calls' = Tail(calls) /\ Head(calls) \in CallSet
             /\ InCalls(call)
             /\ \A kind : kind # call => (InCalls(kind)' <=> InCalls(kind))
             /\ HasOne(calls')
             /\ call = "disconnect" => ~InCalls("disconnect")'
  <2>1. /\ controller = Idle /\ socket' = socket /\ inbox' = inbox
        /\ calls # <<>> /\ calls[1].call = call /\ Head(calls) = calls[1] /\ calls' = Tail(calls)
        /\ calls[1] \in CallSet
    BY <1>2, TakesDoes
  <2>2. \A kind : InCalls(kind) <=> InCalls(kind)' \/ call = kind
    BY <2>1, CallTaken
  <2>3. HasOne(calls') /\ (call = "disconnect" => ~Has(calls', "disconnect"))
    BY <2>1, OneLeft DEF WindowInv, QueuesHaveOne, TypeOK, QueuesOK
  <2>4. QED
    BY <2>1, <2>2, <2>3 DEF InCalls
<1>3. ASSUME inbox' = inbox PROVE SameInbox
  BY <1>1, <1>3, InboxIsKept DEF WindowInv, WindowIsLeft
<1>4. CASE ControllerConnects
  <2>1. Takes("connect") /\ sender' = None /\ io' = Append(io, Head(calls))
        /\ controller'.state = "blocked"
    BY <1>4 DEF ControllerConnects
  <2>2. InCalls("connect") /\ ~Answered /\ ~InIo("disconnect") /\ ~InInbox("disconnected") /\ UnderConnect
    BY <1>2, <2>1 DEF WindowInv, OneConnect, OneDisconnect, UnderConnect
  <2>3. ~InCalls("connect")' /\ (InCalls("disconnect")' <=> InCalls("disconnect"))
    <3>1. calls # <<>> /\ calls' = Tail(calls) /\ calls[1].call = "connect"
      BY <1>2, <2>1
    <3>2. /\ 1 \in 1 .. Len(calls)
          /\ \A i \in 1 .. Len(calls') : i + 1 \in 1 .. Len(calls) /\ i + 1 > 1 /\ calls'[i] = calls[i + 1]
      BY <3>1, CallTaken
    <3>3. \A i \in 1 .. Len(calls') : calls'[i].call = "disconnect"
      BY <3>1, <3>2 DEF ThreadInv, ConnectIsFirst
    <3>4. ~InCalls("connect")'
      BY <3>3 DEF InCalls, Has
    <3>5. QED
      BY <1>2, <2>1, <3>4
  <2>4. Head(calls) \in IoSet /\ Head(calls).call = "connect"
    BY <1>2, <2>1, TakesDoes
  <2>5. ~InIo("disconnect")'
    BY <2>1, <2>2, <2>4, IoAppended
  <2>6. ~Answered' /\ InboxIsOrdered' /\ ~InInbox("disconnected")'
        /\ ~InInbox("connect_ok")' /\ ~InInbox("connect_failed")'
    BY <1>2, <1>3, <2>1, <2>2 DEF SameInbox, InInbox, Answered, Answer
  <2>7. controller' # Idle
    BY <2>1, IdleIs
  <2>8. OneConnect' /\ OneDisconnect'
    BY <2>5, <2>6 DEF OneConnect, OneDisconnect
  <2>9. QueuesHaveOne'
    BY <1>2, <2>1, <2>4, OneMore DEF WindowInv, QueuesHaveOne, TypeOK, QueuesOK
  <2>10. UnderConnect' /\ (UnderDisconnect' <=> UnderDisconnect)
    BY <2>2, <2>3, <2>5, <2>6, <2>7 DEF UnderConnect, UnderDisconnect
  <2>11. WindowKnows'
    BY <1>1, <2>2, <2>10 DEF WindowInv, WindowKnows, WindowIsLeft
  <2>12. LinkIsKnown'
    BY <1>1, <2>2, <2>5, <2>6, <2>10 DEF WindowInv, WindowKnows, LinkIsKnown, WindowIsLeft
  <2>13. QED
    BY <2>6, <2>8, <2>9, <2>11, <2>12 DEF WindowInv
<1>5. CASE ControllerDisconnects
  <2>1. Takes("disconnect") /\ sender' = None /\ io' = Append(io, Disconnect)
        /\ controller' = controller
    BY <1>5 DEF ControllerDisconnects
  <2>2. /\ InCalls("disconnect") /\ ~InIo("disconnect") /\ ~InInbox("disconnected")
        /\ UnderDisconnect /\ controller = Idle /\ ending
    BY <1>2, <2>1 DEF WindowInv, OneDisconnect, UnderDisconnect, WindowKnows
  <2>3. ~InCalls("connect")
    <3> SUFFICES ASSUME NEW i \in 1 .. Len(calls), calls[i].call = "connect" PROVE FALSE
      BY DEF InCalls, Has
    <3>1. calls # <<>> /\ calls' = Tail(calls) /\ calls[1].call = "disconnect"
      BY <1>2, <2>1
    <3>2. 1 \in 1 .. Len(calls) /\ i # 1 /\ 1 < i
      BY <3>1, CallTaken
    <3>3. QED
      BY <3>1, <3>2 DEF ThreadInv, ConnectIsFirst
  <2>4. /\ ~InCalls("connect")' /\ ~InCalls("disconnect")'
        /\ (InCalls("request")' <=> InCalls("request"))
    BY <1>2, <2>1, <2>3
  <2>5. InIo("disconnect")'
    BY <2>1, CallTypes, IoAppended
  <2>6. /\ (Answered' <=> Answered) /\ InboxIsOrdered'
        /\ \A type \in {"connect_ok", "connect_failed", "disconnected"} : InInbox(type)' <=> InInbox(type)
    BY <1>2, <1>3, <2>1 DEF SameInbox
  <2>7. OneConnect' /\ OneDisconnect'
    BY <2>1, <2>2, <2>4, <2>6 DEF WindowInv, OneConnect, OneDisconnect
  <2>8. HasOne(io')
    BY <2>1, <2>2, CallTypes, OneMore DEF WindowInv, QueuesHaveOne, TypeOK, QueuesOK, InIo
  <2>9. QueuesHaveOne'
    BY <1>2, <2>1, <2>8 DEF QueuesHaveOne
  <2>10. (UnderConnect' <=> UnderConnect) /\ UnderDisconnect'
    BY <2>1, <2>3, <2>4, <2>5, <2>6 DEF UnderConnect, UnderDisconnect
  <2>11. WindowKnows'
    BY <1>1, <2>2, <2>10 DEF WindowInv, WindowKnows, WindowIsLeft
  <2>12. LinkIsKnown'
    <3>1. ending' /\ session' = session /\ socket' = socket
      BY <1>1, <1>2, <2>1, <2>2 DEF WindowIsLeft
    <3>2. QED
      BY <2>1, <2>6, <3>1 DEF WindowInv, LinkIsKnown, Down
  <2>13. QED
    BY <2>6, <2>7, <2>9, <2>11, <2>12 DEF WindowInv
<1>6. CASE ControllerRequests
  <2>1. Takes("request") /\ UNCHANGED <<controller, io, sender>>
    BY <1>6 DEF ControllerRequests
  <2>2. /\ \A kind \in {"connect", "disconnect"} : InCalls(kind)' <=> InCalls(kind)
        /\ InCalls("request")
    BY <1>2, <2>1
  <2>3. /\ (Answered' <=> Answered) /\ InboxIsOrdered'
        /\ \A type \in {"connect_ok", "connect_failed", "disconnected"} : InInbox(type)' <=> InInbox(type)
    BY <1>2, <1>3, <2>1 DEF SameInbox
  <2>4. \A kind : InIo(kind)' <=> InIo(kind)
    BY <2>1, IoIsKept
  <2>5. OneConnect' /\ OneDisconnect'
    BY <2>1, <2>2, <2>3, <2>4 DEF WindowInv, OneConnect, OneDisconnect
  <2>6. QueuesHaveOne'
    BY <1>2, <2>1 DEF WindowInv, QueuesHaveOne
  <2>7. (UnderConnect' <=> UnderConnect) /\ (UnderDisconnect' <=> UnderDisconnect)
    BY <2>1, <2>2, <2>3, <2>4 DEF UnderConnect, UnderDisconnect
  <2>8. WindowKnows'
    BY <1>1, <2>7 DEF WindowInv, WindowKnows, WindowIsLeft
  <2>9. LinkIsKnown'
    <3>1. session' = session /\ socket' = socket /\ sender' = sender
      BY <1>1, <1>2, <2>1 DEF WindowIsLeft
    <3>2. QED
      BY <1>1, <2>3, <2>4, <2>7, <3>1 DEF WindowInv, LinkIsKnown, Up, Down, None, WindowIsLeft
  <2>10. QED
    BY <2>3, <2>5, <2>6, <2>8, <2>9 DEF WindowInv
<1>7. CASE ControllerFinishes
  <2>1. /\ controller.state \in {"connected", "failed"} /\ controller' = Idle
        /\ calls' = calls /\ io' = io /\ socket' = socket /\ controller # Idle
    BY <1>7, IdleIs DEF ControllerFinishes, ioVars
  <2>2. /\ controller.session = session /\ sender = None /\ ~InCalls("request") /\ ~InCalls("connect")
        /\ (controller.state = "connected" => socket = session)
        /\ (controller.state = "failed" => socket = None)
    BY <2>1 DEF ThreadInv, ConnectIsAlone
  <2>3. /\ ~Answered /\ ~InIo("disconnect") /\ ~InInbox("disconnected") /\ UnderConnect
        /\ ~InInbox("connect_ok") /\ ~InInbox("connect_failed")
    <3>1. ~Answered /\ ~InIo("disconnect") /\ ~InInbox("disconnected") /\ UnderConnect
      BY <2>1 DEF WindowInv, OneConnect, OneDisconnect, UnderConnect
    <3>2. QED
      BY <3>1 DEF Answered, Answer, InInbox
  <2>4. PICK e \in EventSet :
          /\ inbox' = Append(inbox, e) /\ e.session = session /\ e.hops = 1
          /\ \/ e.type = "connect_ok" /\ socket = session /\ sender' = session
             \/ e.type = "connect_failed" /\ socket = None /\ sender' = None
    <3>1. session \in Nat
      BY DEF TypeOK, CountersOK
    <3>2. ASSUME NEW type \in {"connect_ok", "connect_failed"}
          PROVE  /\ Event(type, session) \in EventSet /\ Event(type, session).type = type
                 /\ Event(type, session).session = session /\ Event(type, session).hops = 1
      BY <3>1 DEF Event, EventSet
    <3>3. CASE controller.state = "connected" /\ sender' = session
               /\ inbox' = Append(inbox, Event("connect_ok", session))
      BY <2>2, <3>2, <3>3
    <3>4. CASE controller.state = "failed" /\ sender' = None
               /\ inbox' = Append(inbox, Event("connect_failed", session))
      BY <2>2, <3>2, <3>4
    <3>5. QED
      BY <1>7, <2>2, <3>3, <3>4 DEF ControllerFinishes
  <2>5. /\ Len(inbox') = Len(inbox) + 1 /\ Len(inbox) \in Nat
        /\ \A i \in 1 .. Len(inbox) : inbox'[i] = inbox[i]
        /\ inbox'[Len(inbox) + 1] = e
        /\ \A type : InInbox(type)' <=> InInbox(type) \/ e.type = type
        /\ Answered'
    BY <2>4, EventAppended DEF Answer
  <2>6. InboxIsOrdered'
    <3>1. \A i \in 1 .. Len(inbox) : ~Answer(inbox[i]) /\ inbox[i].type # "disconnected"
      BY <2>3 DEF Answered, InInbox, Answer
    <3>2. \A i \in 1 .. Len(inbox') :
            \/ i = Len(inbox) + 1 /\ inbox'[i] = e
            \/ ~Answer(inbox'[i]) /\ inbox'[i].type # "disconnected"
      BY <2>5, <3>1 DEF Answer
    <3>3. e.type # "disconnected" /\ session' = session
      BY <1>1, <2>4 DEF WindowIsLeft
    <3>4. QED
      BY <2>4, <3>2, <3>3 DEF InboxIsOrdered, Answer
  <2>7. \A kind : (InCalls(kind)' <=> InCalls(kind)) /\ (InIo(kind)' <=> InIo(kind))
    BY <2>1, CallsAreKept, IoIsKept
  <2>8. ~InInbox("disconnected")'
    BY <2>3, <2>4, <2>5
  <2>9. OneConnect' /\ OneDisconnect'
    BY <2>1, <2>2, <2>3, <2>7, <2>8 DEF WindowInv, OneConnect, OneDisconnect
  <2>10. QueuesHaveOne'
    BY <2>1 DEF WindowInv, QueuesHaveOne
  <2>11. UnderConnect' /\ (UnderDisconnect' <=> UnderDisconnect)
    BY <2>3, <2>5, <2>7, <2>8 DEF UnderConnect, UnderDisconnect
  <2>12. WindowKnows'
    BY <1>1, <2>3, <2>11 DEF WindowInv, WindowKnows, WindowIsLeft
  <2>13. ~active'
    BY <1>1, <2>3 DEF WindowInv, WindowKnows, WindowIsLeft
  <2>14. LinkIsKnown'
    <3>1. CASE e.type = "connect_ok"
      <4>1. Up' /\ ~InInbox("connect_failed")'
        BY <1>1, <2>1, <2>3, <2>4, <2>5, <3>1 DEF Up, WindowIsLeft
      <4>2. QED
        BY <2>3, <2>7, <2>8, <2>11, <2>13, <4>1 DEF LinkIsKnown
    <3>2. CASE e.type = "connect_failed"
      <4>1. Down' /\ ~InInbox("connect_ok")'
        BY <2>1, <2>3, <2>4, <2>5, <3>2 DEF Down, None
      <4>2. QED
        BY <2>3, <2>7, <2>8, <2>11, <2>13, <4>1 DEF LinkIsKnown
    <3>3. QED
      BY <2>4, <3>1, <3>2
  <2>15. QED
    BY <2>6, <2>9, <2>10, <2>12, <2>14 DEF WindowInv
<1>8. CASE ControllerEnds
  BY <1>8 DEF ControllerEnds
<1>9. QED
  BY <1>4, <1>5, <1>6, <1>7, <1>8 DEF ControllerRuns

LEMMA IoWindow ==
  ASSUME TypeOK, ShutDown, ThreadInv, WindowInv, quit = "no", IoRuns
  PROVE  WindowInv'
<1> USE DEF Controller
<1>1. /\ WindowIsLeft /\ calls' = calls /\ sender' = sender
      /\ \A kind : InCalls(kind)' <=> InCalls(kind)
  <2>1. PICK call : Runs(call)
    BY DEF IoRuns, IoConnects, IoDisconnects, IoSends, IoDestroys
  <2>2. QED
    BY <2>1, RunsDoes, LeftType, CallsAreKept
<1>2. ASSUME NEW call, Runs(call)
      PROVE  /\ io # <<>> /\ io[1].call = call /\ io' = Tail(io) /\ 1 \in 1 .. Len(io)
             /\ InIo(call)
             /\ \A kind : kind # call => (InIo(kind)' <=> InIo(kind))
             /\ HasOne(io')
             /\ call = "disconnect" => ~InIo("disconnect")'
  <2>1. io # <<>> /\ io[1].call = call /\ io' = Tail(io)
    BY <1>2, RunsDoes
  <2>2. (\A kind : InIo(kind) <=> InIo(kind)' \/ call = kind) /\ 1 \in 1 .. Len(io)
    BY <2>1, IoTaken
  <2>3. HasOne(io') /\ (call = "disconnect" => ~Has(io', "disconnect"))
    BY <2>1, OneLeft DEF WindowInv, QueuesHaveOne, TypeOK, QueuesOK
  <2>4. QED
    BY <2>1, <2>2, <2>3 DEF InIo
<1>3. ASSUME inbox' = inbox PROVE SameInbox
  BY <1>1, <1>3, InboxIsKept DEF WindowInv, WindowIsLeft
<1>4. CASE IoConnects
  <2>1. Runs("connect") /\ inbox' = inbox /\ controller'.state \in {"connected", "failed"}
    BY <1>4 DEF IoConnects
  <2>2. controller # Idle /\ controller' # Idle
    BY <1>2, <2>1, IdleIs DEF ShutDown, ControllerKnows
  <2>3. ~Answered /\ ~InIo("disconnect") /\ ~InInbox("disconnected")
    BY <2>2 DEF WindowInv, OneConnect, OneDisconnect
  <2>4. /\ ~Answered' /\ ~InIo("disconnect")' /\ ~InInbox("disconnected")' /\ InboxIsOrdered'
        /\ ~InInbox("connect_ok")' /\ ~InInbox("connect_failed")'
    BY <1>2, <1>3, <2>1, <2>3 DEF SameInbox, InInbox, Answered, Answer
  <2>5. OneConnect' /\ OneDisconnect'
    BY <2>4 DEF OneConnect, OneDisconnect
  <2>6. QueuesHaveOne'
    BY <1>1, <1>2, <2>1 DEF WindowInv, QueuesHaveOne
  <2>7. UnderConnect /\ UnderConnect' /\ (UnderDisconnect' <=> UnderDisconnect)
    BY <1>1, <2>2, <2>3, <2>4 DEF UnderConnect, UnderDisconnect
  <2>8. WindowKnows'
    BY <1>1, <2>7 DEF WindowInv, WindowKnows, WindowIsLeft
  <2>9. LinkIsKnown'
    <3>1. ~active'
      BY <1>1, <2>7 DEF WindowInv, WindowKnows, WindowIsLeft
    <3>2. QED
      BY <2>4, <2>7, <3>1 DEF LinkIsKnown
  <2>10. QED
    BY <2>4, <2>5, <2>6, <2>8, <2>9 DEF WindowInv
<1>5. CASE IoDisconnects
  <2>1. /\ Runs("disconnect") /\ inbox' = Append(inbox, Routed("disconnected", None))
        /\ controller' = controller /\ socket' = None
    BY <1>5 DEF IoDisconnects
  <2>2. /\ InIo("disconnect") /\ ~InCalls("disconnect") /\ ~InInbox("disconnected")
        /\ ~InCalls("connect") /\ controller = Idle /\ sender = None /\ UnderDisconnect
    BY <1>2, <2>1 DEF WindowInv, OneDisconnect, LinkIsKnown, UnderDisconnect
  <2>3. PICK e \in EventSet : e.type = "disconnected" /\ inbox' = Append(inbox, e)
    <3>1. Routed("disconnected", None) \in EventSet /\ Routed("disconnected", None).type = "disconnected"
      BY DEF Routed, EventSet, None
    <3>2. QED
      BY <2>1, <3>1
  <2>4. /\ Len(inbox') = Len(inbox) + 1 /\ Len(inbox) \in Nat
        /\ \A i \in 1 .. Len(inbox) : inbox'[i] = inbox[i]
        /\ inbox'[Len(inbox) + 1] = e /\ ~Answer(e)
        /\ \A type : InInbox(type)' <=> InInbox(type) \/ e.type = type
        /\ Answered' <=> Answered
    BY <2>3, EventAppended DEF Answer
  <2>5. InboxIsOrdered'
    <3>1. \A i \in 1 .. Len(inbox') :
            \/ i \in 1 .. Len(inbox) /\ inbox'[i] = inbox[i] /\ inbox[i].type # "disconnected"
            \/ i = Len(inbox) + 1 /\ inbox'[i] = e
      BY <2>2, <2>4 DEF InInbox
    <3>2. session' = session
      BY <1>1 DEF WindowIsLeft
    <3> SUFFICES ASSUME NEW i \in 1 .. Len(inbox'), NEW j \in 1 .. Len(inbox')
                 PROVE  /\ Answer(inbox'[i]) => inbox'[i].session = session /\ inbox'[i].hops = 1
                        /\ Answer(inbox'[i]) /\ Answer(inbox'[j]) => i = j
                        /\ inbox'[i].type = "disconnected" /\ inbox'[j].type = "disconnected" => i = j
                        /\ Answer(inbox'[i]) /\ inbox'[j].type = "disconnected" => i < j
      BY <3>2 DEF InboxIsOrdered, Answer
    <3>3. Answer(inbox'[i]) => i \in 1 .. Len(inbox) /\ inbox'[i] = inbox[i]
      BY <2>4, <3>1
    <3>4. Answer(inbox'[j]) => j \in 1 .. Len(inbox) /\ inbox'[j] = inbox[j]
      BY <2>4, <3>1
    <3>5. /\ inbox'[i].type = "disconnected" => i = Len(inbox) + 1
          /\ inbox'[j].type = "disconnected" => j = Len(inbox) + 1
      BY <3>1
    <3>6. i \in 1 .. Len(inbox) => i < Len(inbox) + 1
      BY <2>4
    <3>7. QED
      BY <3>3, <3>4, <3>5, <3>6 DEF WindowInv, InboxIsOrdered
  <2>6. /\ ~InIo("disconnect")' /\ InInbox("disconnected")'
        /\ (InInbox("connect_ok")' <=> InInbox("connect_ok"))
    BY <1>2, <2>1, <2>3, <2>4
  <2>7. OneConnect' /\ OneDisconnect'
    BY <1>1, <2>1, <2>2, <2>4, <2>6 DEF WindowInv, OneConnect, OneDisconnect
  <2>8. QueuesHaveOne'
    BY <1>1, <1>2, <2>1 DEF WindowInv, QueuesHaveOne
  <2>9. (UnderConnect' <=> UnderConnect) /\ UnderDisconnect'
    BY <1>1, <2>1, <2>4, <2>6 DEF UnderConnect, UnderDisconnect
  <2>10. WindowKnows'
    BY <1>1, <2>2, <2>9 DEF WindowInv, WindowKnows, WindowIsLeft
  <2>11. LinkIsKnown'
    <3>1. ending' /\ Down'
      BY <1>1, <2>1, <2>2 DEF WindowInv, WindowKnows, WindowIsLeft, Down, None
    <3>2. QED
      BY <2>6, <3>1 DEF LinkIsKnown
  <2>12. QED
    BY <2>5, <2>7, <2>8, <2>10, <2>11 DEF WindowInv
<1>6. CASE IoSends
  <2>1. Runs("sendWireData") /\ inbox' = inbox /\ controller' = controller /\ socket' = socket
    BY <1>6 DEF IoSends
  <2>2. (InIo("disconnect")' <=> InIo("disconnect")) /\ HasOne(io')
    BY <1>2, <2>1
  <2>3. QED
    BY <1>1, <1>3, <2>1, <2>2, OnlySent DEF WindowIsLeft
<1>7. CASE IoDestroys
  <2>1. io[1].call = "destroySocket" /\ 1 \in 1 .. Len(io)
    BY <1>2, <1>7 DEF IoDestroys
  <2>2. QED
    BY <2>1 DEF ShutDown, StopIsLast
<1>8. QED
  BY <1>4, <1>5, <1>6, <1>7 DEF IoRuns

LEMMA WindowNext ==
  ASSUME TypeOK, ShutDown, ThreadInv, WindowInv, ~hurried', quit = "no", quit' = "no", [Next]_vars
  PROVE  WindowInv'
<1>1. CASE UNCHANGED vars
  <2>1. /\ UNCHANGED <<session, calls, controller, io, socket, sender, inbox, boxes>>
        /\ (active' <=> active) /\ (ending' <=> ending) /\ (connecting' <=> connecting)
        /\ (visible' <=> visible) /\ (pending' <=> pending)
    BY <1>1 DEF vars, windowVars, ioVars, hubVars
  <2>2. SameInbox
    BY <2>1, InboxIsKept DEF WindowInv
  <2>3. QED
    BY <2>1, <2>2, OnlyShown DEF WindowInv, WindowKnows
<1>2. CASE UserQuits \/ WaitTimesOut \/ NetworkStops
  BY <1>2 DEF UserQuits, WaitTimesOut, NetworkStops
<1>3. CASE Next
  BY <1>2, <1>3, UserWindow, AnswerWindow, EventWindow, OtherWindow, ControllerWindow, IoWindow
     DEF Next, UiRuns
<1>4. QED
  BY <1>1, <1>3

-----------------------------------------------------------------------------
(* The invariant *)

LEMMA ClientInit == Init => ClientInv
<1> SUFFICES ASSUME Init PROVE ClientInv
  OBVIOUS
<1>1. TypeOK
  BY TypeInit
<1>2. Len(calls) = 0 /\ Len(io) = 0 /\ Len(inbox) = 0 /\ Len(outgoing) = 0
  BY DEF Init
<1>3. /\ \A kind : ~InCalls(kind) /\ ~InIo(kind) /\ ~InInbox(kind)
      /\ ~Answered
  BY <1>2 DEF InCalls, InIo, InInbox, Has, Answered
<1>4. /\ quit = "no" /\ controller = Idle /\ socket = None /\ sender = None /\ ~active /\ ~ending
      /\ ~connecting /\ ~pending
  BY DEF Init
<1>5. ShutDown /\ ClosedWindow
  BY <1>2, <1>4, IdleIs DEF ShutDown, ControllerKnows, StopIsLast, ClosedWindow
<1>6. ConnectIsFirst /\ SenderIsOfSession /\ SendsAreOfSession /\ RequestsAreOfSession
  BY <1>2, <1>4 DEF ConnectIsFirst, SenderIsOfSession, SendsAreOfSession, RequestsAreOfSession
<1>7. ConnectIsAlone
  BY <1>3, <1>4, IdleIs DEF ConnectIsAlone
<1>8. OneConnect /\ OneDisconnect /\ WindowKnows /\ LinkIsKnown
  BY <1>3, <1>4 DEF OneConnect, OneDisconnect, WindowKnows, LinkIsKnown, UnderConnect,
     UnderDisconnect, Down
<1>9. QueuesHaveOne /\ InboxIsOrdered
  BY <1>2 DEF QueuesHaveOne, HasOne, InboxIsOrdered
<1>10. QED
  BY <1>1, <1>5, <1>6, <1>7, <1>8, <1>9 DEF ClientInv, ThreadInv, WindowInv

(* A program that shuts down does not start again.                           *)
LEMMA QuitStays ==
  ASSUME TypeOK, ShutDown, [Next]_vars, quit' = "no"
  PROVE  quit = "no"
<1>1. CASE UNCHANGED quit
  BY <1>1
<1>2. CASE EventHandled
  BY <1>2 DEF EventHandled, OnConnected, OnConnectedForNothing, OnConnectFailed,
     OnMeetingGranted, OnMeetingRefused, OnNetError, OnNetworkDisconnected, Handles
<1>3. CASE UserOpensMeeting \/ UserQuits \/ WaitTimesOut \/ NetworkStops
  BY <1>3 DEF UserOpensMeeting, UserQuits, WaitTimesOut, NetworkStops
<1>4. CASE UserClosesWindow \/ MediaIsLost \/ DismissBox \/ FallbackFires \/ WorkerSends
             \/ ServerAnswers \/ LinkBreaks \/ PassOn
  BY <1>1, <1>4 DEF UserClosesWindow, MediaIsLost, DismissBox, FallbackFires, WorkerSends,
     ServerAnswers, LinkBreaks, PassOn
<1>5. CASE ControllerRuns
  BY <1>1, <1>5 DEF ControllerRuns, ControllerConnects, ControllerDisconnects, ControllerRequests,
     ControllerFinishes, ControllerEnds, Takes
<1>6. CASE IoRuns
  <2>1. PICK call : quit' = IF call = "destroySocket" THEN "done" ELSE quit
    BY <1>6 DEF IoRuns, IoConnects, IoDisconnects, IoSends, IoDestroys, Runs
  <2>2. QED
    BY <2>1
<1>7. CASE UNCHANGED vars
  BY <1>1, <1>7 DEF vars
<1>8. QED
  BY <1>2, <1>3, <1>4, <1>5, <1>6, <1>7 DEF Next, UiRuns, EventHandled

LEMMA ClientNext == ClientInv /\ [Next]_vars => ClientInv'
<1> SUFFICES ASSUME ClientInv, [Next]_vars PROVE ClientInv'
  OBVIOUS
<1>1. TypeOK /\ ShutDown /\ ClosedWindow
  BY DEF ClientInv
<1>2. TypeOK'
  BY <1>1, TypeNext
<1>3. ShutDown'
  BY <1>1, ShutDownNext
<1>4. ClosedWindow'
  BY <1>1, ClosedNext
<1>5. ASSUME ~hurried'
      PROVE  /\ ~hurried /\ ThreadInv
             /\ quit = "no" => WindowInv
  <2>1. ~hurried
    BY <1>1, <1>5, HurriedStays
  <2>2. QED
    BY <2>1 DEF ClientInv
<1>6. ASSUME ~hurried' PROVE ThreadInv'
  BY <1>1, <1>5, <1>6, ThreadNext
<1>7. ASSUME ~hurried', quit' = "no" PROVE WindowInv'
  <2>1. quit = "no"
    BY <1>1, <1>7, QuitStays
  <2>2. QED
    BY <1>1, <1>5, <1>7, <2>1, WindowNext
<1>8. QED
  BY <1>2, <1>3, <1>4, <1>6, <1>7 DEF ClientInv

LEMMA SpecClientInv == Spec => []ClientInv
<1>1. Init => ClientInv
  BY ClientInit
<1>2. ClientInv /\ [Next]_vars => ClientInv'
  BY ClientNext
<1>3. QED
  BY <1>1, <1>2, PTL DEF Spec

(* A session that the window takes for active has its socket and its send    *)
(* worker; a closed window whose threads have come to rest has neither, and  *)
(* nothing is still ending; a program that has shut down has no socket, no   *)
(* worker and no call that waits for the connection: whatever was opened,    *)
(* closed, granted, refused, broken or put aside before, in any number of    *)
(* sessions, unless a disconnect was given up after 800 ms.                  *)
THEOREM ClientSocketFollows == Spec => []SocketFollowsWindow
<1>1. ASSUME ClientInv, active, ~ending, ~hurried PROVE Up
  <2>1. quit = "no"
    BY <1>1 DEF ClientInv, ClosedWindow
  <2>2. QED
    BY <1>1, <2>1 DEF ClientInv, WindowInv, LinkIsKnown
<1>2. ASSUME ClientInv, ~visible, AtRest, ~hurried PROVE Down /\ ~active /\ ~ending
  <2>1. /\ WindowInv /\ controller = Idle /\ boxes = 0
        /\ Len(inbox) = 0 /\ Len(calls) = 0 /\ Len(io) = 0
    BY <1>2 DEF ClientInv, AtRest
  <2>2. /\ \A kind : ~InCalls(kind) /\ ~InIo(kind) /\ ~InInbox(kind)
        /\ ~Answered
    BY <2>1 DEF InCalls, InIo, InInbox, Has, Answered
  <2>3. ~UnderConnect /\ ~UnderDisconnect
    BY <2>1, <2>2 DEF UnderConnect, UnderDisconnect
  <2>4. ~ending /\ ~active
    BY <1>2, <2>1, <2>3 DEF WindowInv, WindowKnows
  <2>5. QED
    BY <2>1, <2>3, <2>4 DEF WindowInv, LinkIsKnown
<1>3. ASSUME ClientInv, quit = "done" PROVE socket = None /\ sender = None /\ io = <<>>
  BY <1>3 DEF ClientInv, ShutDown, StopIsLast
<1>4. ClientInv => SocketFollowsWindow
  BY <1>1, <1>2, <1>3 DEF SocketFollowsWindow, Up, Down
<1>5. QED
  BY <1>4, SpecClientInv, PTL

(* The request to create or to join that was made in one session is never    *)
(* sent on the connection of a later one, unless a disconnect was given up.  *)
THEOREM ClientRequestsStay == Spec => []RequestsStayInSession
<1>1. ASSUME ClientInv, ~hurried, io # <<>>, Head(io).call = "sendWireData"
      PROVE  Head(io).session = socket
  <2>1. Head(io) = io[1] /\ 1 \in 1 .. Len(io)
    BY <1>1, Tailed DEF ClientInv, TypeOK, QueuesOK
  <2>2. QED
    BY <1>1, <2>1 DEF ClientInv, ThreadInv, SendsAreOfSession
<1>2. ClientInv => RequestsStayInSession
  BY <1>1 DEF RequestsStayInSession
<1>3. QED
  BY <1>2, SpecClientInv, PTL

(* Where the window asks for a connect, the disconnect of the session before *)
(* is over on all three threads, unless it was given up: the user, the event *)
(* that ends a session and the fallback timer are the only ones to do so.    *)
LEMMA ConnectIsLate ==
  ASSUME ClientInv, [Next]_vars, ~hurried', session' # session
  PROVE  ~DisconnectUnderWay'
<1>1. TypeOK /\ ShutDown /\ ClientInv'
  BY ClientNext DEF ClientInv
<1>1a. TypeOK' => (UnderDisconnect' <=> DisconnectUnderWay')
  BY DisconnectIs, PTL
<1>2. CASE UserOpensMeeting
  <2>1. quit' = "no" /\ ~ending'
    BY <1>1, <1>2, RequestConnectDoes DEF UserOpensMeeting
  <2>2. ~UnderDisconnect'
    BY <1>1, <2>1 DEF ClientInv, WindowInv, WindowKnows
  <2>3. QED
    BY <1>1, <1>1a, <2>2 DEF ClientInv
<1>3. CASE OnNetworkDisconnected
  <2>1. quit' = "no" /\ ~ending'
    BY <1>1, <1>3, HandlesDoes DEF OnNetworkDisconnected
  <2>2. ~UnderDisconnect'
    BY <1>1, <2>1 DEF ClientInv, WindowInv, WindowKnows
  <2>3. QED
    BY <1>1, <1>1a, <2>2 DEF ClientInv
<1>4. CASE FallbackFires
  <2>1. ending /\ ~DisconnectUnderWay /\ ~hurried
    BY <1>4 DEF FallbackFires
  <2>2. quit = "no"
    BY <1>4 DEF ClientInv, ClosedWindow, FallbackFires, TypeOK, CountersOK
  <2>3. UnderDisconnect
    BY <2>1, <2>2 DEF ClientInv, WindowInv, WindowKnows
  <2>4. QED
    BY <1>1, <2>1, <2>3, DisconnectIs
<1>5. CASE UserClosesWindow \/ DismissBox \/ OnMeetingRefused \/ OnNetError
  BY <1>1, <1>5, CloseWindowDoes DEF UserClosesWindow, DismissBox, OnMeetingRefused, OnNetError, windowVars
<1>6. CASE UserQuits \/ MediaIsLost \/ OnConnected \/ OnConnectedForNothing \/ OnConnectFailed
             \/ OnMeetingGranted
  BY <1>6 DEF UserQuits, MediaIsLost, OnConnected, OnConnectedForNothing, OnConnectFailed, OnMeetingGranted
<1>7. CASE PassOn \/ NetworkStops \/ WaitTimesOut \/ WorkerSends \/ ServerAnswers \/ LinkBreaks
  BY <1>7 DEF PassOn, NetworkStops, WaitTimesOut, WorkerSends, ServerAnswers, LinkBreaks, windowVars
<1>8. CASE ControllerRuns
  BY <1>8 DEF ControllerRuns, ControllerConnects, ControllerDisconnects, ControllerRequests,
     ControllerFinishes, ControllerEnds, Takes, windowVars
<1>9. CASE IoRuns
  BY <1>9 DEF IoRuns, IoConnects, IoDisconnects, IoSends, IoDestroys, Runs, windowVars
<1>10. CASE UNCHANGED vars
  BY <1>10 DEF vars, windowVars
<1>11. QED
  BY <1>2, <1>3, <1>4, <1>5, <1>6, <1>7, <1>8, <1>9, <1>10 DEF Next, UiRuns

(* A new connect is handed to the controller only after the disconnect of    *)
(* the last session has been carried out and reported, in every behaviour in *)
(* which no disconnect takes longer than the fallback timer.                 *)
THEOREM ClientConnectsLate == Spec => ConnectAfterTimelyDisconnect
<1>1. ClientInv /\ [Next]_vars => [session' # session /\ ~hurried' => ~DisconnectUnderWay']_vars
  BY ConnectIsLate
<1>2. QED
  BY <1>1, SpecClientInv, PTL DEF Spec, ConnectAfterTimelyDisconnect

=============================================================================
