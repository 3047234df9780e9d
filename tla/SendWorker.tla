----------------------------- MODULE SendWorker -----------------------------
(***************************************************************************)
(* MessageHub's send thread: the queue with its two priorities, the        *)
(* workers that drain it, and the operations that stop, join and start     *)
(* them.  The controller thread connects and disconnects; the UI thread    *)
(* stops the worker once more when it hears of a disconnect; packets come  *)
(* from both.  An operation is a program of steps, each as much as happens *)
(* under one lock or on one atomic, so that the threads interleave there.  *)
(***************************************************************************)
EXTENDS Integers, Sequences, FiniteSets

CONSTANTS
  MaxSessions,     \* bound on the connects
  MaxPackets,      \* bound on the packets enqueued
  MaxQueue,        \* QUEUE_MAXSIZE
  Kinds            \* the packets used, of the kinds below

Control == {"CreateMeeting", "CloseCamera", "RoomSettings", "SendUserProfile"}
Text    == {"SendText"}
PutBack == {"CreateMeeting", "CloseCamera", "SendText"}

ASSUME KindsAreKnown == Kinds \subseteq Control \cup Text
ASSUME BoundsAreNaturals == MaxSessions \in Nat /\ MaxPackets \in Nat /\ MaxQueue \in Nat \ {0}

Threads == {"controller", "ui"}
Workers == 1 .. MaxSessions     \* a worker is named by the session that starts it
None == 0
Buckets == {"control", "text"}

VARIABLES
  todo,        \* the rest of the operation each thread is in
  joining,     \* the workers an operation of the controller waits for
  claimed,     \* the epoch start_send_worker has drawn
  session,     \* connects tried so far
  connected,   \* the last one succeeded and is not torn down
  hurried,     \* a connect began before the UI thread had heard of the last disconnect
  epoch,       \* send_epoch_
  running,     \* send_running_
  sendThread,  \* send_thread_
  joiner,      \* the workers pending_joiner_ waits for
  worker,      \* each worker: where it is, its epoch, the packet it holds
  queue,       \* the two buckets
  produced,    \* packets enqueued so far
  sent         \* packets posted to the IO thread, each with its worker

threadVars == <<todo, joining, claimed, session, connected, hurried>>
hubVars    == <<epoch, running, sendThread, joiner>>
vars == <<threadVars, hubVars, worker, queue, produced, sent>>

NoPacket == [kind |-> "none", session |-> 0, serial |-> 0]
NotStarted == [pc |-> "none", epoch |-> 0, held |-> NoPacket]

Init ==
  /\ todo = [t \in Threads |-> <<>>]
  /\ joining = {} /\ claimed = 0 /\ session = 0
  /\ connected = FALSE /\ hurried = FALSE
  /\ epoch = 0 /\ running = FALSE /\ sendThread = None /\ joiner = {}
  /\ worker = [w \in Workers |-> NotStarted]
  /\ queue = [b \in Buckets |-> <<>>]
  /\ produced = 0 /\ sent = <<>>

Live == {w \in Workers : worker[w].pc \notin {"none", "done"}}

-----------------------------------------------------------------------------
(* PriorityMessageQueue *)

Bucket(p) == IF p.kind \in Text THEN "text" ELSE "control"

(* push_bounded drops the oldest packet of a full bucket. *)
PushBounded(s, p) ==
  Append(IF Len(s) >= MaxQueue THEN SubSeq(s, Len(s) - MaxQueue + 2, Len(s)) ELSE s, p)

Push(p) == queue' = [queue EXCEPT ![Bucket(p)] = PushBounded(@, p)]

Poppable == {b \in Buckets :
               queue[b] # <<>> /\ (b = "text" => queue["control"] = <<>>)}

(* A packet may be enqueued at any time, in a session or between two. *)
Enqueue(kind) ==
  /\ produced < MaxPackets
  /\ produced' = produced + 1
  /\ Push([kind |-> kind, session |-> session, serial |-> produced'])
  /\ UNCHANGED <<threadVars, hubVars, worker, sent>>

(* Faulty: the queue is kept from one session to the next. *)
ClearNothing == UNCHANGED queue

Clear == queue' = [b \in Buckets |-> <<>>]

-----------------------------------------------------------------------------
(* The operations of the threads *)

StopSync  == <<"stop", "bump", "take", "wait">>
StopAsync == <<"stop", "bump", "detach">>
StartOp   == StopSync \o <<"claim", "run", "spawn">>

Free(t) == todo[t] = <<>>

Begin(t, steps) ==
  /\ Free(t)
  /\ todo' = [todo EXCEPT ![t] = steps]
  /\ UNCHANGED <<joining, claimed, session, connected, hubVars, worker, queue, produced, sent>>

ConnectToServer ==
  /\ ~connected /\ session < MaxSessions
  /\ hurried' = (hurried \/ ~Free("ui"))
  /\ \/ Begin("controller", StopSync \o <<"connect">> \o StartOp)
     \/ Begin("controller", StopSync \o <<"fail">>)

DisconnectFromHost ==
  /\ connected /\ Begin("controller", StopAsync \o <<"disconnect">>)
  /\ UNCHANGED hurried

At(t, step) ==
  /\ ~Free(t) /\ Head(todo[t]) = step
  /\ UNCHANGED <<hurried, worker, produced, sent>>

Advance(t) == todo' = [todo EXCEPT ![t] = Tail(@)]

(* signal_send_stop, an atomic at a time *)
StopRunning(t) ==
  /\ At(t, "stop") /\ Advance(t)
  /\ running' = FALSE
  /\ UNCHANGED <<joining, claimed, session, connected, epoch, sendThread, joiner, queue>>

BumpEpoch(t) ==
  /\ At(t, "bump") /\ Advance(t)
  /\ epoch' = epoch + 1
  /\ UNCHANGED <<joining, claimed, session, connected, running, sendThread, joiner, queue>>

Present(w) == IF w = None THEN {} ELSE {w}

(* join_send_thread takes both threads under the lock, then waits. *)
TakeThreads(t) ==
  /\ At(t, "take") /\ Advance(t)
  /\ joining' = joiner \cup Present(sendThread)
  /\ joiner' = {} /\ sendThread' = None
  /\ UNCHANGED <<claimed, session, connected, epoch, running, queue>>

(* Faulty: the old worker is not waited for. *)
WaitForNobody(t) ==
  /\ At(t, "wait") /\ Advance(t)
  /\ joining' = {}
  /\ UNCHANGED <<claimed, session, connected, hubVars, queue>>

WaitForThreads(t) ==
  /\ At(t, "wait") /\ Advance(t)
  /\ joining \cap Live = {}
  /\ joining' = {}
  /\ UNCHANGED <<claimed, session, connected, hubVars, queue>>

(* Faulty: no joiner keeps the detached worker. *)
DetachAndForget(t) ==
  /\ At(t, "detach") /\ Advance(t)
  /\ sendThread' = None
  /\ UNCHANGED <<joining, claimed, session, connected, epoch, running, joiner, queue>>

(* stop_send_worker_async hands the worker to the joiner thread. *)
DetachThread(t) ==
  /\ At(t, "detach") /\ Advance(t)
  /\ joiner' = joiner \cup Present(sendThread)
  /\ sendThread' = None
  /\ UNCHANGED <<joining, claimed, session, connected, epoch, running, queue>>

(* The IO thread clears the queue before it opens a socket. *)
IoConnects(t) ==
  /\ At(t, "connect") /\ Advance(t)
  /\ session' = session + 1
  /\ connected' = TRUE
  /\ Clear
  /\ UNCHANGED <<joining, claimed, hubVars>>

IoFails(t) ==
  /\ At(t, "fail") /\ Advance(t)
  /\ session' = session + 1
  /\ Clear
  /\ UNCHANGED <<joining, claimed, connected, hubVars>>

(* It clears the queue when it has closed the socket, and tells the UI.      *)
IoDisconnects(t) ==
  /\ At(t, "disconnect")
  /\ todo' = [todo EXCEPT ![t] = Tail(@), !["ui"] = @ \o StopAsync]
  /\ connected' = FALSE
  /\ Clear
  /\ UNCHANGED <<joining, claimed, session, hubVars>>

(* start_send_worker: a new epoch, the flag, the thread *)
ClaimEpoch(t) ==
  /\ At(t, "claim") /\ Advance(t)
  /\ epoch' = epoch + 1
  /\ claimed' = epoch'
  /\ UNCHANGED <<joining, session, connected, running, sendThread, joiner, queue>>

SetRunning(t) ==
  /\ At(t, "run") /\ Advance(t)
  /\ running' = TRUE
  /\ UNCHANGED <<joining, claimed, session, connected, epoch, sendThread, joiner, queue>>

SpawnWorker(t) ==
  /\ ~Free(t) /\ Head(todo[t]) = "spawn" /\ Advance(t)
  /\ sendThread' = session
  /\ worker' = [worker EXCEPT ![session] = [pc |-> "loop", epoch |-> claimed, held |-> NoPacket]]
  /\ UNCHANGED <<joining, claimed, session, connected, hurried, epoch, running, joiner, queue,
                 produced, sent>>

-----------------------------------------------------------------------------
(* send_loop *)

Current(w) == worker[w].epoch = epoch

Goes(w, from, to) ==
  /\ worker[w].pc = from
  /\ worker' = [worker EXCEPT ![w].pc = to]
  /\ UNCHANGED <<threadVars, hubVars, produced>>

EnterLoop(w) ==
  /\ Goes(w, "loop", IF running /\ Current(w) THEN "pop" ELSE "done")
  /\ UNCHANGED <<queue, sent>>

PopPacket(w) ==
  /\ worker[w].pc = "pop"
  /\ \E b \in Poppable :
       /\ worker' = [worker EXCEPT ![w].pc = "check", ![w].held = Head(queue[b])]
       /\ queue' = [queue EXCEPT ![b] = Tail(@)]
  /\ UNCHANGED <<threadVars, hubVars, produced, sent>>

(* Faulty: the wait for a packet has no end. *)
PopNeverTimesOut(w) == FALSE

(* After 100 ms without a packet the epoch is looked at again. *)
PopTimesOut(w) ==
  /\ Poppable = {}
  /\ Goes(w, "pop", "check")
  /\ UNCHANGED <<queue, sent>>

(* A worker of a past epoch puts back what it holds, if it is of a kind not  *)
(* to be lost.                                                               *)
Retire(w) ==
  /\ ~Current(w) /\ Goes(w, "check", "done")
  /\ IF worker[w].held.kind \in PutBack THEN Push(worker[w].held) ELSE UNCHANGED queue
  /\ UNCHANGED sent

CarryOn(w) ==
  /\ Current(w)
  /\ Goes(w, "check", IF worker[w].held = NoPacket THEN "loop" ELSE "send")
  /\ UNCHANGED <<queue, sent>>

PostPacket(w) ==
  /\ worker[w].pc = "send"
  /\ sent' = Append(sent, [packet |-> worker[w].held, by |-> w])
  /\ worker' = [worker EXCEPT ![w].pc = "loop", ![w].held = NoPacket]
  /\ UNCHANGED <<threadVars, hubVars, queue, produced>>

-----------------------------------------------------------------------------

ThreadStep(t) ==
  \/ StopRunning(t)
  \/ BumpEpoch(t)
  \/ TakeThreads(t)
  \/ WaitForThreads(t)
  \/ DetachThread(t)
  \/ IoConnects(t)
  \/ IoFails(t)
  \/ IoDisconnects(t)
  \/ ClaimEpoch(t)
  \/ SetRunning(t)
  \/ SpawnWorker(t)

WorkerStep(w) ==
  \/ EnterLoop(w)
  \/ PopPacket(w)
  \/ PopTimesOut(w)
  \/ Retire(w)
  \/ CarryOn(w)
  \/ PostPacket(w)

Next ==
  \/ \E kind \in Kinds : Enqueue(kind)
  \/ ConnectToServer
  \/ DisconnectFromHost
  \/ \E t \in Threads : ThreadStep(t)
  \/ \E w \in Workers : WorkerStep(w)

(* Threads run.  Nobody need connect, disconnect or send. *)
Spec ==
  /\ Init /\ [][Next]_vars
  /\ \A t \in Threads : WF_vars(ThreadStep(t))
  /\ \A w \in Workers : WF_vars(WorkerStep(w))

-----------------------------------------------------------------------------
(* Two send threads never run at once, whoever stops and starts them: a      *)
(* thread that is detached is joined before the next one is created.  And    *)
(* once a session is established it has a worker that will not stop by       *)
(* itself, until the controller disconnects: provided that no connect was    *)
(* made before the UI thread had stopped the last session's worker.          *)
OneWorkerPerSession ==
  /\ Cardinality(Live) <= 1
  /\ connected /\ Free("controller") /\ ~hurried
       => sendThread = session /\ session \in Live /\ running /\ Current(session)

(* A packet leaves on the connection it was enqueued for, or not at all,     *)
(* although a stopped worker may still hold one and put it back.             *)
PacketsStayInSession == \A i \in DOMAIN sent : sent[i].packet.session = sent[i].by

(* Packets of one priority leave in the order they were enqueued in: none is *)
(* overtaken by being put back at the tail.                                  *)
OrderIsKept ==
  \A i, j \in DOMAIN sent :
    i < j /\ Bucket(sent[i].packet) = Bucket(sent[j].packet)
      => sent[i].packet.serial < sent[j].packet.serial

(* Every connect and disconnect comes to its end, since the worker it waits  *)
(* for does stop; and in an established session what is enqueued leaves the  *)
(* queue.                                                                    *)
NothingHangs ==
  /\ \A t \in Threads : ~Free(t) ~> Free(t)
  /\ (connected /\ Free("controller") /\ ~hurried /\ Poppable # {})
       ~> (Poppable = {} \/ ~connected \/ hurried)
=============================================================================
