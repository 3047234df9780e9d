-------------------------- MODULE SendWorkerProofs --------------------------
(***************************************************************************)
(* Proofs about SendWorker for any number of sessions and packets and any  *)
(* size of the queue.  HubInv says where the controller is in its          *)
(* operation and what that operation has already taken apart; it is        *)
(* inductive by itself.  PacketInv follows the packets from the queue      *)
(* through a worker's hands to the IO thread, and is inductive with it.    *)
(***************************************************************************)
EXTENDS SendWorker, SequenceTheorems, FiniteSetTheorems, TLAPS

USE BoundsAreNaturals

Steps == {"stop", "bump", "take", "wait", "connect", "fail", "detach", "disconnect",
          "claim", "run", "spawn"}
UiSteps == {"stop", "bump", "detach"}

Packet == [kind : Control \cup Text, session : Nat, serial : Nat]

WorkerStates ==
  [pc : {"none", "loop", "pop", "check", "send", "done"}, epoch : Nat,
   held : Packet \cup {NoPacket}]

TypeOK ==
  /\ todo \in [Threads -> Seq(Steps)] /\ todo["ui"] \in Seq(UiSteps)
  /\ joining \in SUBSET Workers /\ joiner \in SUBSET Workers
  /\ sendThread \in Workers \cup {None}
  /\ claimed \in Nat /\ epoch \in Nat /\ session \in 0 .. MaxSessions
  /\ connected \in BOOLEAN /\ hurried \in BOOLEAN /\ running \in BOOLEAN
  /\ worker \in [Workers -> WorkerStates]
  /\ queue \in [Buckets -> Seq(Packet)]
  /\ produced \in Nat
  /\ sent \in Seq([packet : Packet \cup {NoPacket}, by : Workers])

-----------------------------------------------------------------------------
(* The operations of the controller, and how far one of them has come *)

ConnectOp    == <<"stop", "bump", "take", "wait", "connect",
                  "stop", "bump", "take", "wait", "claim", "run", "spawn">>
FailOp       == <<"stop", "bump", "take", "wait", "fail">>
DisconnectOp == <<"stop", "bump", "detach", "disconnect">>

Rest(op, k) == SubSeq(op, k, Len(op))

(* join_send_thread has taken both threads (step 4), and waited for them.    *)
Taken(k) ==
  /\ k >= 4 => joiner = {} /\ sendThread = None
  /\ k # 4 => joining = {}

Connecting(k) ==
  /\ todo["controller"] = Rest(ConnectOp, k) /\ Taken(k)
  /\ k <= 5 => session < MaxSessions
  /\ k >= 6 => session # 0 /\ worker[session].pc = "none"
  /\ ~hurried => Free("ui") /\ (k >= 11 => claimed = epoch) /\ (k >= 12 => running)

Failing(k) ==
  /\ todo["controller"] = Rest(FailOp, k) /\ Taken(k)
  /\ session < MaxSessions /\ ~connected

Disconnecting(k) == todo["controller"] = Rest(DisconnectOp, k) /\ joining = {}

Established ==
  sendThread = session /\ session \in Live /\ running /\ Current(session) /\ Free("ui")

Idle ==
  /\ Free("controller") /\ joining = {}
  /\ connected /\ ~hurried => Established

ControllerOK ==
  \/ Idle
  \/ \E k \in 1 .. 12 : Connecting(k)
  \/ \E k \in 1 .. 5 : Failing(k)
  \/ \E k \in 1 .. 4 : Disconnecting(k)

(* Every live worker is known to whoever may have to wait for it, and is the *)
(* worker of the current session; sessions to come have none.                *)
LiveIsKnown ==
  /\ Live \subseteq joining \cup joiner \cup Present(sendThread)
  /\ Live \subseteq {session}
  /\ \A w \in Workers : w > session => worker[w].pc = "none"

HubInv == TypeOK /\ ControllerOK /\ LiveIsKnown

-----------------------------------------------------------------------------
(* The packets *)

Held(w) == worker[w].pc \in {"check", "send"} /\ worker[w].held # NoPacket

Retired == session # 0 /\ worker[session].pc = "done"

(* A worker holds a packet between a pop and a send, of its own session.     *)
HeldOK ==
  \A w \in Workers :
    /\ worker[w].pc \in {"loop", "pop"} => worker[w].held = NoPacket
    /\ worker[w].pc = "send" => worker[w].held # NoPacket
    /\ Held(w) => worker[w].held.session = w /\ worker[w].held.serial <= produced

QueueOK ==
  \A b \in Buckets : \A i \in 1 .. Len(queue[b]) :
    /\ Bucket(queue[b][i]) = b
    /\ queue[b][i].session = session
    /\ queue[b][i].serial <= produced

(* A put-back packet is out of order in the queue, but then no worker of its *)
(* session is left to pop anything.                                          *)
QueueIsOrdered ==
  ~Retired => \A b \in Buckets : \A i, j \in 1 .. Len(queue[b]) :
                i < j => queue[b][i].serial < queue[b][j].serial

HeldIsNext ==
  \A w \in Workers : Held(w) =>
    \A i \in 1 .. Len(queue[Bucket(worker[w].held)]) :
      worker[w].held.serial < queue[Bucket(worker[w].held)][i].serial

SentIsPast ==
  \A n \in 1 .. Len(sent) :
    /\ sent[n].packet.serial <= produced
    /\ \A i \in 1 .. Len(queue[Bucket(sent[n].packet)]) :
         sent[n].packet.serial < queue[Bucket(sent[n].packet)][i].serial
    /\ \A w \in Workers :
         Held(w) /\ Bucket(worker[w].held) = Bucket(sent[n].packet)
           => sent[n].packet.serial < worker[w].held.serial

PacketInv ==
  /\ HeldOK
  /\ QueueOK
  /\ QueueIsOrdered
  /\ HeldIsNext
  /\ SentIsPast
  /\ PacketsStayInSession
  /\ OrderIsKept

-----------------------------------------------------------------------------
(* What the model's operators do *)

LEMMA OpTypes ==
  /\ ConnectOp \in Seq(Steps) /\ Len(ConnectOp) = 12
  /\ FailOp \in Seq(Steps) /\ Len(FailOp) = 5
  /\ DisconnectOp \in Seq(Steps) /\ Len(DisconnectOp) = 4
  /\ ConnectOp # DisconnectOp /\ FailOp # DisconnectOp
  /\ StopAsync \in Seq(UiSteps)
BY DEF ConnectOp, FailOp, DisconnectOp, StopAsync, Steps, UiSteps

LEMMA ConcatIs ==
  ASSUME NEW S, NEW s \in Seq(S), NEW t \in Seq(S), NEW u \in Seq(S),
         Len(u) = Len(s) + Len(t),
         \A i \in 1 .. Len(s) : u[i] = s[i],
         \A i \in 1 .. Len(t) : u[Len(s) + i] = t[i]
  PROVE  s \o t = u
<1>1. /\ s \o t \in Seq(S) /\ Len(s \o t) = Len(u)
      /\ \A i \in 1 .. Len(s) + Len(t) :
           (s \o t)[i] = IF i <= Len(s) THEN s[i] ELSE t[i - Len(s)]
  BY ConcatProperties
<1>2. ASSUME NEW i \in 1 .. Len(u) PROVE (s \o t)[i] = u[i]
  <2>1. CASE i <= Len(s)
    BY <1>1, <2>1
  <2>2. CASE ~(i <= Len(s))
    <3>1. i - Len(s) \in 1 .. Len(t) /\ Len(s) + (i - Len(s)) = i
      BY <2>2
    <3>2. QED
      BY <1>1, <2>2, <3>1
  <2>3. QED
    BY <2>1, <2>2
<1>3. QED
  BY <1>1, <1>2, SeqEqual

(* The programs of the model are the operations above. *)
LEMMA Programs ==
  /\ StopSync \o <<"connect">> \o StartOp = ConnectOp
  /\ StopSync \o <<"fail">> = FailOp
  /\ StopAsync \o <<"disconnect">> = DisconnectOp
<1> DEFINE sync       == <<"stop", "bump", "take", "wait">>
           connect    == <<"connect">>
           fail       == <<"fail">>
           disconnect == <<"disconnect">>
           claim      == <<"claim", "run", "spawn">>
           syncTo     == <<"stop", "bump", "take", "wait", "connect">>
           start      == <<"stop", "bump", "take", "wait", "claim", "run", "spawn">>
<1>1. sync \o fail = FailOp
  <2>1. sync \in Seq(Steps) /\ fail \in Seq(Steps) /\ FailOp \in Seq(Steps)
    BY DEF Steps, FailOp
  <2>2. /\ Len(FailOp) = Len(sync) + Len(fail)
        /\ \A i \in 1 .. Len(sync) : FailOp[i] = sync[i]
        /\ \A i \in 1 .. Len(fail) : FailOp[Len(sync) + i] = fail[i]
    BY DEF FailOp
  <2> HIDE DEF sync, syncTo, claim, start, fail, connect, disconnect
  <2>3. QED
    BY <2>1, <2>2, ConcatIs
<1>2. StopAsync \o disconnect = DisconnectOp
  <2>1. StopAsync \in Seq(Steps) /\ disconnect \in Seq(Steps) /\ DisconnectOp \in Seq(Steps)
    BY DEF Steps, StopAsync, DisconnectOp
  <2>2. /\ Len(DisconnectOp) = Len(StopAsync) + Len(disconnect)
        /\ \A i \in 1 .. Len(StopAsync) : DisconnectOp[i] = StopAsync[i]
        /\ \A i \in 1 .. Len(disconnect) : DisconnectOp[Len(StopAsync) + i] = disconnect[i]
    BY DEF StopAsync, DisconnectOp
  <2> HIDE DEF sync, syncTo, claim, start, fail, connect, disconnect
  <2>3. QED
    BY <2>1, <2>2, ConcatIs
<1>3. sync \o connect = syncTo
  <2>1. sync \in Seq(Steps) /\ connect \in Seq(Steps) /\ syncTo \in Seq(Steps)
    BY DEF Steps
  <2>2. /\ Len(syncTo) = Len(sync) + Len(connect)
        /\ \A i \in 1 .. Len(sync) : syncTo[i] = sync[i]
        /\ \A i \in 1 .. Len(connect) : syncTo[Len(sync) + i] = connect[i]
    OBVIOUS
  <2> HIDE DEF sync, syncTo, claim, start, fail, connect, disconnect
  <2>3. QED
    BY <2>1, <2>2, ConcatIs
<1>4. sync \o claim = start
  <2>1. sync \in Seq(Steps) /\ claim \in Seq(Steps) /\ start \in Seq(Steps)
    BY DEF Steps
  <2>2. /\ Len(start) = Len(sync) + Len(claim)
        /\ \A i \in 1 .. Len(sync) : start[i] = sync[i]
        /\ \A i \in 1 .. Len(claim) : start[Len(sync) + i] = claim[i]
    OBVIOUS
  <2> HIDE DEF sync, syncTo, claim, start, fail, connect, disconnect
  <2>3. QED
    BY <2>1, <2>2, ConcatIs
<1>5. syncTo \o start = ConnectOp
  <2>1. syncTo \in Seq(Steps) /\ start \in Seq(Steps) /\ ConnectOp \in Seq(Steps)
    BY DEF Steps, ConnectOp
  <2>2. /\ Len(ConnectOp) = Len(syncTo) + Len(start)
        /\ \A i \in 1 .. Len(syncTo) : ConnectOp[i] = syncTo[i]
        /\ \A i \in 1 .. Len(start) : ConnectOp[Len(syncTo) + i] = start[i]
    BY DEF ConnectOp
  <2> HIDE DEF sync, syncTo, claim, start, fail, connect, disconnect
  <2>3. QED
    BY <2>1, <2>2, ConcatIs
<1>6. QED
  BY <1>1, <1>2, <1>3, <1>4, <1>5 DEF StopSync, StartOp

(* An operation is carried out a step at a time. *)
LEMMA RestProperties ==
  ASSUME NEW op \in Seq(Steps), NEW k \in 1 .. Len(op)
  PROVE  /\ Rest(op, 1) = op
         /\ Rest(op, k) # <<>> /\ Head(Rest(op, k)) = op[k]
         /\ Tail(Rest(op, k)) = IF k = Len(op) THEN <<>> ELSE Rest(op, k + 1)
<1>1. Rest(op, 1) = op
  BY SubSeqFull DEF Rest
<1>2. Head(Rest(op, k)) = op[k] /\ Tail(Rest(op, k)) = SubSeq(op, k + 1, Len(op))
  BY HeadTailOfSubSeq DEF Rest
<1>3. Len(Rest(op, k)) # 0
  BY SubSeqProperties, ElementOfSeq DEF Rest
<1>4. QED
  <2>1. k = Len(op) => SubSeq(op, k + 1, Len(op)) = <<>>
    BY SubSeqEmpty
  <2>2. Rest(op, k) # <<>>
    BY <1>3
  <2>3. QED
    BY <1>1, <1>2, <2>1, <2>2 DEF Rest

(* Which step of which operation a step of the model can be. *)
LEMMA OpSteps ==
  /\ \A k \in 1 .. 12 :
       /\ ConnectOp[k] = "stop" => k \in {1, 6}
       /\ ConnectOp[k] = "bump" => k \in {2, 7}
       /\ ConnectOp[k] = "take" => k \in {3, 8}
       /\ ConnectOp[k] = "wait" => k \in {4, 9}
       /\ ConnectOp[k] = "connect" => k = 5
       /\ ConnectOp[k] = "claim" => k = 10
       /\ ConnectOp[k] = "run" => k = 11
       /\ ConnectOp[k] = "spawn" => k = 12
       /\ ConnectOp[k] \notin {"fail", "detach", "disconnect"}
  /\ \A k \in 1 .. 5 :
       /\ FailOp[k] = "stop" => k = 1
       /\ FailOp[k] = "bump" => k = 2
       /\ FailOp[k] = "take" => k = 3
       /\ FailOp[k] = "wait" => k = 4
       /\ FailOp[k] = "fail" => k = 5
       /\ FailOp[k] \notin {"connect", "detach", "disconnect", "claim", "run", "spawn"}
  /\ \A k \in 1 .. 4 :
       /\ DisconnectOp[k] = "stop" => k = 1
       /\ DisconnectOp[k] = "bump" => k = 2
       /\ DisconnectOp[k] = "detach" => k = 3
       /\ DisconnectOp[k] = "disconnect" => k = 4
       /\ DisconnectOp[k] \notin {"take", "wait", "connect", "fail", "claim", "run", "spawn"}
<1>1. \A k \in 1 .. 12 : k \in {1, 2, 3, 4, 5, 6, 7, 8, 9, 10, 11, 12}
  OBVIOUS
<1>2. \A k \in 1 .. 5 : k \in {1, 2, 3, 4, 5}
  OBVIOUS
<1>3. \A k \in 1 .. 4 : k \in {1, 2, 3, 4}
  OBVIOUS
<1>4. QED
  BY <1>1, <1>2, <1>3 DEF ConnectOp, FailOp, DisconnectOp

(* push_bounded appends the packet and may have dropped some of the oldest;  *)
(* the rest keeps its order.                                                 *)
LEMMA PushProperties ==
  ASSUME NEW s \in Seq(Packet), NEW p \in Packet
  PROVE  /\ PushBounded(s, p) \in Seq(Packet)
         /\ \E drop \in 0 .. Len(s) :
              /\ Len(PushBounded(s, p)) = Len(s) - drop + 1
              /\ \A i \in 1 .. Len(s) - drop : PushBounded(s, p)[i] = s[i + drop]
              /\ PushBounded(s, p)[Len(s) - drop + 1] = p
<1>1. CASE Len(s) < MaxQueue
  <2>1. PushBounded(s, p) = Append(s, p)
    BY <1>1 DEF PushBounded
  <2>2. 0 \in 0 .. Len(s)
    OBVIOUS
  <2>3. QED
    BY <2>1, <2>2, AppendProperties
<1>2. CASE Len(s) >= MaxQueue
  <2> DEFINE drop == Len(s) - MaxQueue + 1
             t == SubSeq(s, Len(s) - MaxQueue + 2, Len(s))
  <2>1. PushBounded(s, p) = Append(t, p) /\ drop \in 0 .. Len(s)
    BY <1>2 DEF PushBounded
  <2>2. \A i \in Len(s) - MaxQueue + 2 .. Len(s) : s[i] \in Packet
    BY <1>2, ElementOfSeq
  <2>3. t \in Seq(Packet) /\ Len(t) = Len(s) - drop
        /\ \A i \in 1 .. Len(s) - drop : t[i] = s[i + drop]
    BY <1>2, <2>2, SubSeqProperties
  <2> HIDE DEF t, drop
  <2>4. /\ Append(t, p) \in Seq(Packet) /\ Len(Append(t, p)) = Len(t) + 1
        /\ \A i \in 1 .. Len(t) : Append(t, p)[i] = t[i]
        /\ Append(t, p)[Len(t) + 1] = p
    BY <2>3, AppendProperties
  <2>5. QED
    BY <2>1, <2>3, <2>4
<1>3. QED
  BY <1>1, <1>2

LEMMA PushType ==
  ASSUME TypeOK, NEW p \in Packet, Push(p)
  PROVE  /\ queue' \in [Buckets -> Seq(Packet)] /\ Bucket(p) \in Buckets
         /\ queue'[Bucket(p)] = PushBounded(queue[Bucket(p)], p)
         /\ \A b \in Buckets : b # Bucket(p) => queue'[b] = queue[b]
<1>1. Bucket(p) \in Buckets
  BY DEF Bucket, Buckets
<1>2. PushBounded(queue[Bucket(p)], p) \in Seq(Packet)
  BY <1>1, PushProperties DEF TypeOK
<1>3. QED
  BY <1>1, <1>2 DEF Push, TypeOK

LEMMA ClearType ==
  ASSUME Clear
  PROVE  queue' \in [Buckets -> Seq(Packet)] /\ \A b \in Buckets : queue'[b] = <<>>
<1>1. <<>> \in Seq(Packet)
  BY EmptySeq
<1>2. QED
  BY <1>1 DEF Clear

-----------------------------------------------------------------------------
(* HubInv is inductive *)

LEMMA HubInit == Init => HubInv
<1> SUFFICES ASSUME Init PROVE HubInv
  OBVIOUS
<1>1. /\ <<>> \in Seq(Steps) /\ <<>> \in Seq(UiSteps) /\ <<>> \in Seq(Packet)
      /\ <<>> \in Seq([packet : Packet \cup {NoPacket}, by : Workers])
      /\ todo["ui"] = <<>> /\ todo["controller"] = <<>>
  BY EmptySeq DEF Init, Threads
<1>2. NotStarted \in WorkerStates /\ NotStarted.pc = "none"
  BY DEF NotStarted, WorkerStates
<1>3. TypeOK
  <2>1. todo \in [Threads -> Seq(Steps)] /\ todo["ui"] \in Seq(UiSteps)
    BY <1>1 DEF Init
  <2>2. worker \in [Workers -> WorkerStates]
    BY <1>2 DEF Init
  <2>3. queue \in [Buckets -> Seq(Packet)] /\ sent \in Seq([packet : Packet \cup {NoPacket}, by : Workers])
    BY <1>1 DEF Init
  <2>4. /\ joining \in SUBSET Workers /\ joiner \in SUBSET Workers
        /\ sendThread \in Workers \cup {None}
        /\ claimed \in Nat /\ epoch \in Nat /\ produced \in Nat
    BY DEF Init
  <2>5. connected \in BOOLEAN /\ hurried \in BOOLEAN /\ running \in BOOLEAN
    BY DEF Init
  <2>6. session \in 0 .. MaxSessions
    BY DEF Init
  <2>7. QED
    BY <2>1, <2>2, <2>3, <2>4, <2>5, <2>6 DEF TypeOK
<1>4. Live = {}
  BY <1>2 DEF Live, Init
<1>5. Idle
  BY <1>1 DEF Idle, Free, Init
<1>6. \A w \in Workers : worker[w].pc = "none"
  BY <1>2 DEF Init
<1>7. QED
  BY <1>3, <1>4, <1>5, <1>6 DEF HubInv, ControllerOK, LiveIsKnown

LEMMA EnqueueHub ==
  ASSUME HubInv, NEW kind \in Kinds, Enqueue(kind)
  PROVE  HubInv'
<1> DEFINE p == [kind |-> kind, session |-> session, serial |-> produced']
<1>1. p \in Packet /\ Push(p) /\ produced' \in Nat
  BY KindsAreKnown DEF Enqueue, HubInv, TypeOK, Packet
<1>2. queue' \in [Buckets -> Seq(Packet)]
  BY <1>1, PushType DEF HubInv
<1>3. TypeOK'
  BY <1>1, <1>2 DEF HubInv, TypeOK, Enqueue, threadVars, hubVars
<1>4. QED
  BY <1>3 DEF HubInv, ControllerOK, Idle, Connecting, Failing, Disconnecting, Established, Taken,
     LiveIsKnown, Live, Current, Free, Enqueue, threadVars, hubVars

LEMMA ControllerIdle ==
  ASSUME ControllerOK, Free("controller")
  PROVE  Idle
<1>1. todo["controller"] = <<>>
  BY DEF Free
<1>2. /\ \A k \in 1 .. 12 : Rest(ConnectOp, k) # <<>>
      /\ \A k \in 1 .. 5 : Rest(FailOp, k) # <<>>
      /\ \A k \in 1 .. 4 : Rest(DisconnectOp, k) # <<>>
  BY OpTypes, RestProperties
<1>3. QED
  BY <1>1, <1>2 DEF ControllerOK, Connecting, Failing, Disconnecting

LEMMA BeginHub ==
  ASSUME HubInv, ConnectToServer \/ DisconnectFromHost
  PROVE  HubInv'
<1> USE DEF Begin
<1>1. PICK op \in {ConnectOp, FailOp, DisconnectOp} :
        /\ Begin("controller", op)
        /\ op # DisconnectOp => ~connected /\ session < MaxSessions /\ (~hurried' => Free("ui"))
        /\ hurried' \in BOOLEAN
  BY Programs DEF HubInv, TypeOK, ConnectToServer, DisconnectFromHost, ConnectOp, FailOp, DisconnectOp
<1>2. /\ op \in Seq(Steps) /\ Rest(op, 1) = op
      /\ 1 \in 1 .. 12 /\ 1 \in 1 .. 5 /\ 1 \in 1 .. 4
  BY OpTypes, SubSeqFull DEF Rest
<1>3. todo'["controller"] = op /\ todo'["ui"] = todo["ui"] /\ todo' \in [Threads -> Seq(Steps)]
  BY <1>1, <1>2 DEF HubInv, TypeOK, Threads
<1>4. Idle
  BY <1>1, ControllerIdle DEF HubInv
<1>5. TypeOK'
  BY <1>1, <1>3 DEF HubInv, TypeOK, hubVars
<1>6. LiveIsKnown'
  BY <1>1 DEF HubInv, LiveIsKnown, Live, hubVars
<1>7. ControllerOK'
  <2>1. CASE op = ConnectOp
    <3>1. Connecting(1)'
      BY <1>1, <1>2, <1>3, <1>4, <2>1, OpTypes DEF Connecting, Taken, Idle, Free
    <3>2. QED
      BY <1>2, <3>1 DEF ControllerOK
  <2>2. CASE op = FailOp
    <3>1. Failing(1)'
      BY <1>1, <1>2, <1>3, <1>4, <2>2, OpTypes DEF Failing, Taken, Idle, Free
    <3>2. QED
      BY <1>2, <3>1 DEF ControllerOK
  <2>3. CASE op = DisconnectOp
    <3>1. Disconnecting(1)'
      BY <1>1, <1>2, <1>3, <1>4, <2>3 DEF Disconnecting, Idle
    <3>2. QED
      BY <1>2, <3>1 DEF ControllerOK
  <2>4. QED
    BY <2>1, <2>2, <2>3
<1>8. QED
  BY <1>5, <1>6, <1>7 DEF HubInv

LEMMA AdvanceType ==
  ASSUME TypeOK, NEW t \in Threads, ~Free(t), Advance(t)
  PROVE  /\ todo' \in [Threads -> Seq(Steps)] /\ todo'["ui"] \in Seq(UiSteps)
         /\ todo'[t] = Tail(todo[t])
         /\ \A u \in Threads : u # t => todo'[u] = todo[u]
<1>1. todo[t] \in Seq(Steps) /\ todo[t] # <<>>
  BY DEF TypeOK, Free
<1>2. Tail(todo[t]) \in Seq(Steps)
  BY <1>1, HeadTailProperties
<1>3. t = "ui" => Tail(todo[t]) \in Seq(UiSteps)
  BY <1>1, HeadTailProperties DEF TypeOK
<1>4. QED
  BY <1>2, <1>3 DEF Advance, TypeOK, Threads

(* The steps of the UI thread are those of stop_send_worker_async. *)
LEMMA UiIsStopping ==
  ASSUME TypeOK, ~Free("ui")
  PROVE  Head(todo["ui"]) \in UiSteps
BY HeadTailProperties DEF TypeOK, Free

LEMMA ControllerIsAt ==
  ASSUME HubInv, ~Free("controller")
  PROVE  \/ \E k \in 1 .. 12 :
              /\ Connecting(k) /\ Head(todo["controller"]) = ConnectOp[k]
              /\ Tail(todo["controller"]) = IF k = 12 THEN <<>> ELSE Rest(ConnectOp, k + 1)
         \/ \E k \in 1 .. 5 :
              /\ Failing(k) /\ Head(todo["controller"]) = FailOp[k]
              /\ Tail(todo["controller"]) = IF k = 5 THEN <<>> ELSE Rest(FailOp, k + 1)
         \/ \E k \in 1 .. 4 :
              /\ Disconnecting(k) /\ Head(todo["controller"]) = DisconnectOp[k]
              /\ Tail(todo["controller"]) = IF k = 4 THEN <<>> ELSE Rest(DisconnectOp, k + 1)
<1>1. ~Idle
  BY DEF Idle
<1>2. ASSUME NEW k \in 1 .. 12, Connecting(k)
      PROVE  /\ Head(todo["controller"]) = ConnectOp[k]
             /\ Tail(todo["controller"]) = IF k = 12 THEN <<>> ELSE Rest(ConnectOp, k + 1)
  <2>1. ConnectOp \in Seq(Steps) /\ k \in 1 .. Len(ConnectOp) /\ Len(ConnectOp) = 12
    BY OpTypes
  <2>2. /\ Head(Rest(ConnectOp, k)) = ConnectOp[k]
        /\ Tail(Rest(ConnectOp, k)) = IF k = Len(ConnectOp) THEN <<>> ELSE Rest(ConnectOp, k + 1)
    BY <2>1, RestProperties, Zenon
  <2>3. QED
    BY <1>2, <2>1, <2>2 DEF Connecting
<1>3. ASSUME NEW k \in 1 .. 5, Failing(k)
      PROVE  /\ Head(todo["controller"]) = FailOp[k]
             /\ Tail(todo["controller"]) = IF k = 5 THEN <<>> ELSE Rest(FailOp, k + 1)
  <2>1. FailOp \in Seq(Steps) /\ k \in 1 .. Len(FailOp) /\ Len(FailOp) = 5
    BY OpTypes
  <2>2. /\ Head(Rest(FailOp, k)) = FailOp[k]
        /\ Tail(Rest(FailOp, k)) = IF k = Len(FailOp) THEN <<>> ELSE Rest(FailOp, k + 1)
    BY <2>1, RestProperties, Zenon
  <2>3. QED
    BY <1>3, <2>1, <2>2 DEF Failing
<1>4. ASSUME NEW k \in 1 .. 4, Disconnecting(k)
      PROVE  /\ Head(todo["controller"]) = DisconnectOp[k]
             /\ Tail(todo["controller"]) = IF k = 4 THEN <<>> ELSE Rest(DisconnectOp, k + 1)
  <2>1. DisconnectOp \in Seq(Steps) /\ k \in 1 .. Len(DisconnectOp) /\ Len(DisconnectOp) = 4
    BY OpTypes
  <2>2. /\ Head(Rest(DisconnectOp, k)) = DisconnectOp[k]
        /\ Tail(Rest(DisconnectOp, k)) = IF k = Len(DisconnectOp) THEN <<>> ELSE Rest(DisconnectOp, k + 1)
    BY <2>1, RestProperties, Zenon
  <2>3. QED
    BY <1>4, <2>1, <2>2 DEF Disconnecting
<1>5. QED
  BY <1>1, <1>2, <1>3, <1>4 DEF HubInv, ControllerOK

(* The same by step: where in its operation the controller is when it takes  *)
(* a step, and what is left then.                                            *)
LEMMA ControllerSteps ==
  ASSUME HubInv, ~Free("controller")
  PROVE  LET head == Head(todo["controller"])
             rest == Tail(todo["controller"])
         IN  /\ head \in {"stop", "bump"} =>
                  \/ \E k \in {1, 2, 6, 7} : Connecting(k) /\ rest = Rest(ConnectOp, k + 1)
                  \/ \E k \in {1, 2} : Failing(k) /\ rest = Rest(FailOp, k + 1)
                  \/ \E k \in {1, 2} : Disconnecting(k) /\ rest = Rest(DisconnectOp, k + 1)
             /\ head = "take" =>
                  \/ \E k \in {3, 8} : Connecting(k) /\ rest = Rest(ConnectOp, k + 1)
                  \/ Failing(3) /\ rest = Rest(FailOp, 4)
             /\ head = "wait" =>
                  \/ \E k \in {4, 9} : Connecting(k) /\ rest = Rest(ConnectOp, k + 1)
                  \/ Failing(4) /\ rest = Rest(FailOp, 5)
             /\ head = "connect" => Connecting(5) /\ rest = Rest(ConnectOp, 6)
             /\ head = "fail" => Failing(5) /\ rest = <<>>
             /\ head = "detach" => Disconnecting(3) /\ rest = Rest(DisconnectOp, 4)
             /\ head = "disconnect" => Disconnecting(4) /\ rest = <<>>
             /\ head = "claim" => Connecting(10) /\ rest = Rest(ConnectOp, 11)
             /\ head = "run" => Connecting(11) /\ rest = Rest(ConnectOp, 12)
             /\ head = "spawn" => Connecting(12) /\ rest = <<>>
<1> DEFINE head == Head(todo["controller"])
           rest == Tail(todo["controller"])
<1> HIDE DEF head, rest
<1>1. ASSUME NEW k \in 1 .. 12, Connecting(k), head = ConnectOp[k],
             rest = IF k = 12 THEN <<>> ELSE Rest(ConnectOp, k + 1)
      PROVE  /\ head \in {"stop", "bump"} => k \in {1, 2, 6, 7} /\ rest = Rest(ConnectOp, k + 1)
             /\ head = "take" => k \in {3, 8} /\ rest = Rest(ConnectOp, k + 1)
             /\ head = "wait" => k \in {4, 9} /\ rest = Rest(ConnectOp, k + 1)
             /\ head = "connect" => k = 5 /\ rest = Rest(ConnectOp, 6)
             /\ head = "claim" => k = 10 /\ rest = Rest(ConnectOp, 11)
             /\ head = "run" => k = 11 /\ rest = Rest(ConnectOp, 12)
             /\ head = "spawn" => k = 12 /\ rest = <<>>
             /\ head \notin {"fail", "detach", "disconnect"}
  BY <1>1, OpSteps
<1>2. ASSUME NEW k \in 1 .. 5, Failing(k), head = FailOp[k],
             rest = IF k = 5 THEN <<>> ELSE Rest(FailOp, k + 1)
      PROVE  /\ head \in {"stop", "bump"} => k \in {1, 2} /\ rest = Rest(FailOp, k + 1)
             /\ head = "take" => k = 3 /\ rest = Rest(FailOp, 4)
             /\ head = "wait" => k = 4 /\ rest = Rest(FailOp, 5)
             /\ head = "fail" => k = 5 /\ rest = <<>>
             /\ head \notin {"connect", "detach", "disconnect", "claim", "run", "spawn"}
  BY <1>2, OpSteps
<1>3. ASSUME NEW k \in 1 .. 4, Disconnecting(k), head = DisconnectOp[k],
             rest = IF k = 4 THEN <<>> ELSE Rest(DisconnectOp, k + 1)
      PROVE  /\ head \in {"stop", "bump"} => k \in {1, 2} /\ rest = Rest(DisconnectOp, k + 1)
             /\ head = "detach" => k = 3 /\ rest = Rest(DisconnectOp, 4)
             /\ head = "disconnect" => k = 4 /\ rest = <<>>
             /\ head \notin {"take", "wait", "connect", "fail", "claim", "run", "spawn"}
  BY <1>3, OpSteps
<1>4. \/ \E k \in 1 .. 12 : /\ Connecting(k) /\ head = ConnectOp[k]
                            /\ rest = IF k = 12 THEN <<>> ELSE Rest(ConnectOp, k + 1)
      \/ \E k \in 1 .. 5 : /\ Failing(k) /\ head = FailOp[k]
                           /\ rest = IF k = 5 THEN <<>> ELSE Rest(FailOp, k + 1)
      \/ \E k \in 1 .. 4 : /\ Disconnecting(k) /\ head = DisconnectOp[k]
                           /\ rest = IF k = 4 THEN <<>> ELSE Rest(DisconnectOp, k + 1)
  BY ControllerIsAt DEF head, rest
<1>5. QED
  BY <1>1, <1>2, <1>3, <1>4 DEF head, rest

(* What the UI thread does on its own leaves the controller where it is: it  *)
(* only stops and detaches, and never while an unhurried connect is under    *)
(* way.                                                                      *)
LEMMA UiKeepsController ==
  ASSUME HubInv, ~Free("ui"),
         todo'["controller"] = todo["controller"],
         UNCHANGED <<joining, session, connected, hurried, worker>>,
         \/ joiner' = joiner /\ sendThread' = sendThread
         \/ joiner' = joiner \cup Present(sendThread) /\ sendThread' = None
  PROVE  ControllerOK'
<1>1. sendThread = None /\ joiner = {} => sendThread' = None /\ joiner' = {}
  BY DEF Present
<1>2. ASSUME NEW k \in 1 .. 12, Connecting(k) PROVE Connecting(k)'
  BY <1>1, <1>2 DEF Connecting, Taken
<1>3. ASSUME NEW k \in 1 .. 5, Failing(k) PROVE Failing(k)'
  BY <1>1, <1>3 DEF Failing, Taken
<1>4. ASSUME NEW k \in 1 .. 4, Disconnecting(k) PROVE Disconnecting(k)'
  BY <1>4 DEF Disconnecting
<1>5. ASSUME Idle PROVE Idle'
  BY <1>5 DEF Idle, Established, Free
<1>6. QED
  BY <1>2, <1>3, <1>4, <1>5 DEF HubInv, ControllerOK

LEMMA StopOrBumpHub ==
  ASSUME HubInv, NEW t \in Threads, StopRunning(t) \/ BumpEpoch(t)
  PROVE  HubInv'
<1> USE DEF At
<1>1. ~Free(t) /\ Advance(t)
      /\ UNCHANGED <<joining, session, connected, hurried, sendThread, joiner, worker>>
  BY DEF StopRunning, BumpEpoch
<1>2. TypeOK'
  <2>1. todo' \in [Threads -> Seq(Steps)] /\ todo'["ui"] \in Seq(UiSteps)
    BY <1>1, AdvanceType DEF HubInv
  <2>2. running' \in BOOLEAN
    BY DEF HubInv, TypeOK, StopRunning, BumpEpoch
  <2>3. epoch' \in Nat
    BY DEF HubInv, TypeOK, StopRunning, BumpEpoch
  <2>4. UNCHANGED <<claimed, queue, produced, sent>>
    BY DEF StopRunning, BumpEpoch
  <2>5. QED
    BY <1>1, <2>1, <2>2, <2>3, <2>4 DEF HubInv, TypeOK
<1>3. LiveIsKnown'
  BY <1>1 DEF HubInv, LiveIsKnown, Live
<1>4. ControllerOK'
  <2>1. CASE t = "ui"
    <3>1. todo'["controller"] = todo["controller"]
      BY <1>1, <2>1, AdvanceType DEF HubInv, Threads
    <3>2. QED
      BY <1>1, <2>1, <3>1, UiKeepsController
  <2>2. CASE t = "controller"
    <3>1. todo'["controller"] = Tail(todo["controller"]) /\ todo'["ui"] = todo["ui"]
      BY <1>1, <2>2, AdvanceType DEF HubInv, Threads
    <3>2. Head(todo["controller"]) \in {"stop", "bump"} /\ ~Free("controller")
      BY <2>2 DEF StopRunning, BumpEpoch
    <3>3. ASSUME NEW k \in {1, 2, 6, 7}, Connecting(k), todo'["controller"] = Rest(ConnectOp, k + 1)
          PROVE  Connecting(k + 1)'
      BY <1>1, <3>1, <3>3 DEF Connecting, Taken, Free
    <3>4. ASSUME NEW k \in {1, 2}, Failing(k), todo'["controller"] = Rest(FailOp, k + 1)
          PROVE  Failing(k + 1)'
      BY <1>1, <3>4 DEF Failing, Taken
    <3>5. ASSUME NEW k \in {1, 2}, Disconnecting(k),
                 todo'["controller"] = Rest(DisconnectOp, k + 1)
          PROVE  Disconnecting(k + 1)'
      BY <1>1, <3>5 DEF Disconnecting
    <3>6. QED
      BY <3>1, <3>2, <3>3, <3>4, <3>5, ControllerSteps DEF ControllerOK
  <2>3. QED
    BY <2>1, <2>2 DEF Threads
<1>5. QED
  BY <1>2, <1>3, <1>4 DEF HubInv

(* Only the controller takes and waits for threads, connects, and starts a   *)
(* worker.                                                                   *)
LEMMA ControllerOnly ==
  ASSUME HubInv, NEW t \in Threads, ~Free(t), Head(todo[t]) \notin UiSteps
  PROVE  t = "controller"
BY UiIsStopping DEF HubInv, Threads

LEMMA ControllerAdvances ==
  ASSUME HubInv, ~Free("controller"), Advance("controller")
  PROVE  /\ todo' \in [Threads -> Seq(Steps)] /\ todo'["ui"] \in Seq(UiSteps)
         /\ todo'["controller"] = Tail(todo["controller"]) /\ todo'["ui"] = todo["ui"]
<1>1. TypeOK /\ "controller" \in Threads /\ "ui" \in Threads
  BY DEF HubInv, Threads
<1>2. QED
  BY <1>1, AdvanceType

LEMMA TakeHub ==
  ASSUME HubInv, NEW t \in Threads, TakeThreads(t)
  PROVE  HubInv'
<1> USE DEF At, TakeThreads
<1>1. t = "controller" /\ ~Free("controller") /\ Head(todo["controller"]) = "take"
  BY ControllerOnly DEF UiSteps
<1>2. /\ todo' \in [Threads -> Seq(Steps)] /\ todo'["ui"] \in Seq(UiSteps)
      /\ todo'["controller"] = Tail(todo["controller"]) /\ todo'["ui"] = todo["ui"]
  BY <1>1, ControllerAdvances
<1>3. TypeOK'
  BY <1>2 DEF HubInv, TypeOK, Present
<1>4. ASSUME NEW k \in {3, 8}, Connecting(k), todo'["controller"] = Rest(ConnectOp, k + 1)
      PROVE  Connecting(k + 1)' /\ joining = {}
  BY <1>2, <1>4 DEF Connecting, Taken, Free, Present
<1>5. ASSUME Failing(3), todo'["controller"] = Rest(FailOp, 4)
      PROVE  Failing(4)' /\ joining = {}
  BY <1>5 DEF Failing, Taken
<1>6. ControllerOK' /\ joining = {}
  BY <1>1, <1>2, <1>4, <1>5, ControllerSteps DEF ControllerOK
<1>7. LiveIsKnown'
  BY <1>6 DEF HubInv, LiveIsKnown, Live, Present, None
<1>8. QED
  BY <1>3, <1>6, <1>7 DEF HubInv

LEMMA WaitHub ==
  ASSUME HubInv, NEW t \in Threads, WaitForThreads(t)
  PROVE  HubInv'
<1> USE DEF At, WaitForThreads, hubVars
<1>1. t = "controller" /\ ~Free("controller") /\ Head(todo["controller"]) = "wait"
  BY ControllerOnly DEF UiSteps
<1>2. /\ todo' \in [Threads -> Seq(Steps)] /\ todo'["ui"] \in Seq(UiSteps)
      /\ todo'["controller"] = Tail(todo["controller"]) /\ todo'["ui"] = todo["ui"]
  BY <1>1, ControllerAdvances
<1>3. TypeOK'
  BY <1>2 DEF HubInv, TypeOK
<1>4. ASSUME NEW k \in {4, 9}, Connecting(k), todo'["controller"] = Rest(ConnectOp, k + 1)
      PROVE  Connecting(k + 1)'
  BY <1>2, <1>4 DEF Connecting, Taken, Free
<1>5. ASSUME Failing(4), todo'["controller"] = Rest(FailOp, 5)
      PROVE  Failing(5)'
  BY <1>5 DEF Failing, Taken
<1>6. ControllerOK'
  BY <1>1, <1>2, <1>4, <1>5, ControllerSteps DEF ControllerOK
<1>7. LiveIsKnown'
  BY DEF HubInv, LiveIsKnown, Live
<1>8. QED
  BY <1>3, <1>6, <1>7 DEF HubInv

(* Between the wait and the start of the next worker none is live: that is   *)
(* what lets a session begin without looking at the last one's worker.       *)
LEMMA NobodyLives ==
  ASSUME LiveIsKnown, joining = {}, joiner = {}, sendThread = None
  PROVE  Live = {} /\ \A w \in Workers : worker[w].pc \in {"none", "done"}
BY DEF LiveIsKnown, Present, Live

LEMMA DetachHub ==
  ASSUME HubInv, NEW t \in Threads, DetachThread(t)
  PROVE  HubInv'
<1> USE DEF At, DetachThread
<1>1. ~Free(t) /\ Advance(t) /\ Head(todo[t]) = "detach"
  OBVIOUS
<1>2. TypeOK'
  <2>1. todo' \in [Threads -> Seq(Steps)] /\ todo'["ui"] \in Seq(UiSteps)
    BY <1>1, AdvanceType DEF HubInv
  <2>2. QED
    BY <2>1 DEF HubInv, TypeOK, Present
<1>3. LiveIsKnown'
  BY DEF HubInv, LiveIsKnown, Live, Present, None
<1>4. ControllerOK'
  <2>1. CASE t = "ui"
    <3>1. todo'["controller"] = todo["controller"]
      BY <1>1, <2>1, AdvanceType DEF HubInv, Threads
    <3>2. QED
      BY <1>1, <2>1, <3>1, UiKeepsController
  <2>2. CASE t = "controller"
    <3>1. todo'["controller"] = Tail(todo["controller"])
      BY <1>1, <2>2, ControllerAdvances
    <3>2. ASSUME Disconnecting(3), todo'["controller"] = Rest(DisconnectOp, 4)
          PROVE  Disconnecting(4)'
      BY <3>2 DEF Disconnecting
    <3>3. QED
      BY <1>1, <2>2, <3>1, <3>2, ControllerSteps DEF ControllerOK
  <2>3. QED
    BY <2>1, <2>2 DEF Threads
<1>5. QED
  BY <1>2, <1>3, <1>4 DEF HubInv

LEMMA IoConnectHub ==
  ASSUME HubInv, NEW t \in Threads, IoConnects(t) \/ IoFails(t)
  PROVE  HubInv'
<1> USE DEF At, IoConnects, IoFails, hubVars
<1>1. t = "controller" /\ ~Free("controller") /\ Head(todo["controller"]) \in {"connect", "fail"}
  BY ControllerOnly DEF UiSteps
<1>2. /\ todo' \in [Threads -> Seq(Steps)] /\ todo'["ui"] \in Seq(UiSteps)
      /\ todo'["controller"] = Tail(todo["controller"]) /\ todo'["ui"] = todo["ui"]
  BY <1>1, ControllerAdvances
<1>3. \/ Connecting(5) /\ IoConnects(t) /\ todo'["controller"] = Rest(ConnectOp, 6)
      \/ Failing(5) /\ IoFails(t) /\ todo'["controller"] = <<>>
  BY <1>1, <1>2, ControllerSteps
<1>4. session < MaxSessions /\ joining = {} /\ joiner = {} /\ sendThread = None
  BY <1>3 DEF Connecting, Failing, Taken
<1>5. TypeOK'
  <2>1. session' \in 0 .. MaxSessions /\ connected' \in BOOLEAN
    <3>1. session' = session + 1 /\ session \in 0 .. MaxSessions /\ connected \in BOOLEAN
      BY DEF HubInv, TypeOK
    <3>2. connected' \in BOOLEAN
      BY <3>1
    <3>3. QED
      BY <1>4, <3>1, <3>2
  <2>2. queue' \in [Buckets -> Seq(Packet)]
    BY ClearType
  <2>3. QED
    BY <1>2, <2>1, <2>2 DEF HubInv, TypeOK
<1>6. Live' = {} /\ \A w \in Workers : w > session' => worker'[w].pc = "none"
  <2>1. Live' = Live /\ Live = {}
    BY <1>4, NobodyLives DEF HubInv, Live
  <2>2. session \in Nat /\ session' = session + 1 /\ worker' = worker
    BY DEF HubInv, TypeOK
  <2>3. QED
    BY <2>1, <2>2 DEF HubInv, LiveIsKnown, Workers
<1>7. ControllerOK'
  <2>1. CASE Connecting(5) /\ IoConnects(t) /\ todo'["controller"] = Rest(ConnectOp, 6)
    <3>1. session' \in Workers /\ session' > session /\ session' # 0
      BY <1>4 DEF HubInv, TypeOK, Workers
    <3>2. worker'[session'].pc = "none"
      BY <3>1 DEF HubInv, LiveIsKnown
    <3>3. Connecting(6)'
      BY <1>2, <2>1, <3>1, <3>2 DEF Connecting, Taken, Free
    <3>4. QED
      BY <3>3 DEF ControllerOK
  <2>2. CASE Failing(5) /\ IoFails(t) /\ todo'["controller"] = <<>>
    <3>1. Idle'
      BY <1>4, <2>2 DEF Idle, Failing, Free
    <3>2. QED
      BY <3>1 DEF ControllerOK
  <2>3. QED
    BY <1>3, <2>1, <2>2
<1>8. QED
  BY <1>5, <1>6, <1>7 DEF HubInv, LiveIsKnown

LEMMA IoDisconnectHub ==
  ASSUME HubInv, NEW t \in Threads, IoDisconnects(t)
  PROVE  HubInv'
<1> USE DEF At, IoDisconnects, hubVars
<1>1. t = "controller" /\ ~Free("controller") /\ Head(todo["controller"]) = "disconnect"
  BY ControllerOnly DEF UiSteps
<1>2. Disconnecting(4) /\ Tail(todo["controller"]) = <<>>
  BY <1>1, ControllerSteps
<1>3. /\ todo'["controller"] = <<>>
      /\ todo' \in [Threads -> Seq(Steps)] /\ todo'["ui"] \in Seq(UiSteps)
  <2>1. todo["ui"] \o StopAsync \in Seq(UiSteps)
    BY OpTypes, ConcatProperties DEF HubInv, TypeOK
  <2>2. todo["ui"] \o StopAsync \in Seq(Steps) /\ <<>> \in Seq(Steps)
    BY <2>1, SeqMonotonic, EmptySeq DEF UiSteps, Steps
  <2>3. QED
    BY <1>1, <1>2, <2>1, <2>2 DEF HubInv, TypeOK, Threads
<1>4. TypeOK'
  <2>1. queue' \in [Buckets -> Seq(Packet)]
    BY ClearType
  <2>2. QED
    BY <1>3, <2>1 DEF HubInv, TypeOK
<1>5. Idle'
  BY <1>2, <1>3 DEF Idle, Disconnecting, Free
<1>6. LiveIsKnown'
  BY DEF HubInv, LiveIsKnown, Live
<1>7. QED
  BY <1>4, <1>5, <1>6 DEF HubInv, ControllerOK

LEMMA StartHub ==
  ASSUME HubInv, NEW t \in Threads, ClaimEpoch(t) \/ SetRunning(t)
  PROVE  HubInv'
<1> USE DEF At, ClaimEpoch, SetRunning
<1>1. t = "controller" /\ ~Free("controller") /\ Head(todo["controller"]) \in {"claim", "run"}
  BY ControllerOnly DEF UiSteps
<1>2. /\ todo' \in [Threads -> Seq(Steps)] /\ todo'["ui"] \in Seq(UiSteps)
      /\ todo'["controller"] = Tail(todo["controller"]) /\ todo'["ui"] = todo["ui"]
  BY <1>1, ControllerAdvances
<1>3. UNCHANGED <<joining, session, connected, hurried, sendThread, joiner, worker, queue,
                  produced, sent>>
  OBVIOUS
<1>4. TypeOK'
  <2>1. running' \in BOOLEAN
    BY DEF HubInv, TypeOK
  <2>2. epoch' \in Nat /\ claimed' \in Nat
    BY DEF HubInv, TypeOK
  <2>3. QED
    BY <1>2, <1>3, <2>1, <2>2 DEF HubInv, TypeOK
<1>5. CASE Connecting(10) /\ ClaimEpoch(t) /\ todo'["controller"] = Rest(ConnectOp, 11)
  <2>1. Connecting(11)'
    BY <1>2, <1>3, <1>5 DEF Connecting, Taken, Free
  <2>2. QED
    BY <1>3, <1>4, <2>1 DEF HubInv, ControllerOK, LiveIsKnown, Live
<1>6. CASE Connecting(11) /\ SetRunning(t) /\ todo'["controller"] = Rest(ConnectOp, 12)
  <2>1. Connecting(12)'
    BY <1>2, <1>3, <1>6 DEF Connecting, Taken, Free
  <2>2. QED
    BY <1>3, <1>4, <2>1 DEF HubInv, ControllerOK, LiveIsKnown, Live
<1>7. QED
  BY <1>1, <1>2, <1>5, <1>6, ControllerSteps

LEMMA SpawnHub ==
  ASSUME HubInv, NEW t \in Threads, SpawnWorker(t)
  PROVE  HubInv'
<1> USE DEF SpawnWorker
<1>1. t = "controller" /\ ~Free("controller") /\ Head(todo["controller"]) = "spawn"
  BY ControllerOnly DEF UiSteps
<1>2. /\ todo' \in [Threads -> Seq(Steps)] /\ todo'["ui"] \in Seq(UiSteps)
      /\ todo'["controller"] = Tail(todo["controller"]) /\ todo'["ui"] = todo["ui"]
  BY <1>1, ControllerAdvances
<1>3. Connecting(12) /\ todo'["controller"] = <<>>
  BY <1>1, <1>2, ControllerSteps
<1>4. session \in Workers /\ joining = {} /\ joiner = {} /\ sendThread = None
  BY <1>3 DEF Connecting, Taken, HubInv, TypeOK, Workers
<1>5. Live = {}
  BY <1>4, NobodyLives DEF HubInv
<1>6. /\ worker' \in [Workers -> WorkerStates]
      /\ worker'[session].pc = "loop" /\ worker'[session].epoch = claimed
      /\ \A w \in Workers : w # session => worker'[w] = worker[w]
  <2>1. [pc |-> "loop", epoch |-> claimed, held |-> NoPacket] \in WorkerStates
    BY DEF HubInv, TypeOK, WorkerStates
  <2>2. QED
    BY <1>4, <2>1 DEF HubInv, TypeOK
<1>7. TypeOK'
  BY <1>2, <1>4, <1>6 DEF HubInv, TypeOK
<1>8. Live' = {session}
  BY <1>4, <1>5, <1>6 DEF Live
<1>9. LiveIsKnown'
  <2>1. session \in Present(sendThread')
    BY <1>4 DEF Present, Workers, None
  <2>2. \A w \in Workers : w > session => worker'[w].pc = "none"
    BY <1>6 DEF HubInv, LiveIsKnown, TypeOK
  <2>3. QED
    BY <1>8, <2>1, <2>2 DEF LiveIsKnown
<1>10. Idle'
  <2>1. ~hurried => Established'
    BY <1>2, <1>3, <1>6, <1>8 DEF Connecting, Established, Current, Free
  <2>2. QED
    BY <1>3, <1>4, <2>1 DEF Idle, Free
<1>11. QED
  BY <1>7, <1>9, <1>10 DEF HubInv, ControllerOK

LEMMA WorkerStepHub ==
  ASSUME HubInv, NEW w \in Workers, WorkerStep(w)
  PROVE  HubInv'
<1> DEFINE pcs == {"none", "loop", "pop", "check", "send", "done"}
<1>1. UNCHANGED <<threadVars, hubVars, produced>>
  BY DEF WorkerStep, EnterLoop, PopPacket, PopTimesOut, Retire, CarryOn, PostPacket, Goes
<1>2. /\ worker[w].pc \notin {"none", "done"}
      /\ \E pc \in pcs, held \in Packet \cup {NoPacket} :
           /\ worker' = [worker EXCEPT ![w].pc = pc, ![w].held = held]
           /\ pc # "none" /\ (running /\ Current(w) => pc # "done")
  <2>1. worker[w] \in WorkerStates /\ worker[w].held \in Packet \cup {NoPacket}
    BY DEF HubInv, TypeOK, WorkerStates
  <2>2. CASE EnterLoop(w) \/ PopTimesOut(w) \/ Retire(w) \/ CarryOn(w)
    <3>1. PICK pc \in pcs : worker' = [worker EXCEPT ![w].pc = pc]
                            /\ pc # "none" /\ (running /\ Current(w) => pc # "done")
      BY <2>2 DEF EnterLoop, PopTimesOut, Retire, CarryOn, Goes
    <3>2. worker' = [worker EXCEPT ![w].pc = pc, ![w].held = worker[w].held]
      BY <2>1, <3>1 DEF HubInv, TypeOK, WorkerStates
    <3>3. QED
      BY <2>1, <2>2, <3>1, <3>2 DEF EnterLoop, PopTimesOut, Retire, CarryOn, Goes
  <2>3. CASE PopPacket(w)
    BY <2>3, HeadTailProperties DEF PopPacket, Poppable, HubInv, TypeOK
  <2>4. CASE PostPacket(w)
    BY <2>4 DEF PostPacket
  <2>5. QED
    BY <2>2, <2>3, <2>4 DEF WorkerStep
<1>3. PICK pc \in pcs, held \in Packet \cup {NoPacket} :
        /\ worker' = [worker EXCEPT ![w].pc = pc, ![w].held = held]
        /\ pc # "none" /\ (running /\ Current(w) => pc # "done")
  BY <1>2
<1>4. /\ worker' \in [Workers -> WorkerStates]
      /\ worker'[w].pc = pc /\ worker'[w].epoch = worker[w].epoch
      /\ \A v \in Workers : v # w => worker'[v] = worker[v]
  BY <1>3 DEF HubInv, TypeOK, WorkerStates
<1>5. queue' \in [Buckets -> Seq(Packet)] /\ sent' \in Seq([packet : Packet \cup {NoPacket}, by : Workers])
  <2>1. CASE UNCHANGED <<queue, sent>>
    BY <2>1 DEF HubInv, TypeOK
  <2>2. CASE PopPacket(w)
    <3>1. PICK b \in Buckets : queue[b] # <<>> /\ queue' = [queue EXCEPT ![b] = Tail(@)]
      BY <2>2 DEF PopPacket, Poppable
    <3>2. Tail(queue[b]) \in Seq(Packet)
      BY <3>1, HeadTailProperties DEF HubInv, TypeOK
    <3>3. QED
      BY <2>2, <3>1, <3>2 DEF PopPacket, HubInv, TypeOK
  <2>3. CASE worker[w].held \in Packet /\ Push(worker[w].held) /\ UNCHANGED sent
    BY <2>3, PushType DEF HubInv, TypeOK
  <2>4. CASE PostPacket(w)
    <3>1. [packet |-> worker[w].held, by |-> w] \in [packet : Packet \cup {NoPacket}, by : Workers]
      BY DEF HubInv, TypeOK, WorkerStates
    <3>2. QED
      BY <2>4, <3>1, AppendProperties DEF PostPacket, HubInv, TypeOK
  <2>5. worker[w].held \in Packet \/ worker[w].held.kind \notin PutBack
    BY DEF HubInv, TypeOK, WorkerStates, NoPacket, PutBack
  <2>6. QED
    BY <2>1, <2>2, <2>3, <2>4, <2>5
       DEF WorkerStep, EnterLoop, PopTimesOut, Retire, CarryOn
<1>6. TypeOK'
  BY <1>1, <1>4, <1>5 DEF HubInv, TypeOK, threadVars, hubVars
<1>7. Live' \subseteq Live /\ (running /\ Current(w) => w \in Live')
  BY <1>2, <1>3, <1>4 DEF Live
<1>8. LiveIsKnown'
  <2>1. \A v \in Workers : v > session => worker'[v].pc = "none"
    BY <1>2, <1>4 DEF HubInv, LiveIsKnown
  <2>2. QED
    BY <1>1, <1>7, <2>1 DEF HubInv, LiveIsKnown, threadVars, hubVars
<1>9. Established => Established'
  <2> HIDE DEF pcs
  <2>1. ASSUME Established PROVE session \in Live' /\ worker'[session].epoch = worker[session].epoch
    BY <1>3, <1>4, <2>1 DEF Established, Live
  <2>2. QED
    BY <1>1, <2>1 DEF Established, Current, Free, threadVars, hubVars
<1>10. ControllerOK'
  <2>1. ASSUME NEW k \in 1 .. 12, Connecting(k) PROVE Connecting(k)'
    <3>1. k >= 6 => worker'[session].pc = "none"
      BY <1>2, <1>4, <2>1 DEF Connecting, HubInv, TypeOK, Workers
    <3>2. QED
      BY <1>1, <2>1, <3>1 DEF Connecting, Taken, Free, threadVars, hubVars
  <2>2. ASSUME NEW k \in 1 .. 5, Failing(k) PROVE Failing(k)'
    BY <1>1, <2>2 DEF Failing, Taken, threadVars, hubVars
  <2>3. ASSUME NEW k \in 1 .. 4, Disconnecting(k) PROVE Disconnecting(k)'
    BY <1>1, <2>3 DEF Disconnecting, threadVars, hubVars
  <2>4. ASSUME Idle PROVE Idle'
    BY <1>1, <1>9, <2>4 DEF Idle, Free, threadVars, hubVars
  <2>5. QED
    BY <2>1, <2>2, <2>3, <2>4 DEF HubInv, ControllerOK
<1>11. QED
  BY <1>6, <1>8, <1>10 DEF HubInv

LEMMA HubNext == HubInv /\ [Next]_vars => HubInv'
<1> SUFFICES ASSUME HubInv, [Next]_vars PROVE HubInv'
  OBVIOUS
<1>1. CASE UNCHANGED vars
  BY <1>1 DEF vars, threadVars, hubVars, HubInv, TypeOK, ControllerOK, Idle, Connecting, Failing,
     Disconnecting, Established, Taken, LiveIsKnown, Live, Current, Free
<1>2. ASSUME NEW t \in Threads, ThreadStep(t) PROVE HubInv'
  BY <1>2, StopOrBumpHub, TakeHub, WaitHub, DetachHub, IoConnectHub, IoDisconnectHub, StartHub,
     SpawnHub DEF ThreadStep
<1>3. CASE Next
  BY <1>2, <1>3, EnqueueHub, BeginHub, WorkerStepHub DEF Next
<1>4. QED
  BY <1>1, <1>3

LEMMA SpecHubInv == Spec => []HubInv
BY HubInit, HubNext, PTL DEF Spec

(* Two send threads never run at once, and an established session has its    *)
(* worker, for any number of connects, packets and interleavings of the      *)
(* controller, the UI thread and the workers.                                *)
THEOREM SendOneWorker == Spec => []OneWorkerPerSession
<1>1. HubInv => OneWorkerPerSession
  <2> SUFFICES ASSUME HubInv PROVE OneWorkerPerSession
    OBVIOUS
  <2>1. Cardinality(Live) <= 1
    <3>1. Live \in SUBSET {session}
      BY DEF HubInv, LiveIsKnown
    <3>2. IsFiniteSet({session}) /\ Cardinality({session}) = 1
      BY FS_Singleton
    <3>3. QED
      BY <3>1, <3>2, FS_Subset
  <2>2. ASSUME connected, Free("controller"), ~hurried PROVE Established
    BY <2>2, ControllerIdle DEF HubInv, Idle
  <2>3. QED
    BY <2>1, <2>2 DEF OneWorkerPerSession, Established
<1>2. QED
  BY <1>1, SpecHubInv, PTL

-----------------------------------------------------------------------------
(* PacketInv is inductive with HubInv *)

LEMMA PacketInit == Init => PacketInv
<1> SUFFICES ASSUME Init PROVE PacketInv
  OBVIOUS
<1>1. /\ \A w \in Workers : worker[w] = NotStarted
      /\ \A b \in Buckets : Len(queue[b]) = 0
      /\ sent = <<>> /\ Len(sent) = 0 /\ DOMAIN sent = {}
  BY DEF Init
<1>2. HeldOK /\ HeldIsNext
  BY <1>1 DEF HeldOK, HeldIsNext, Held, NotStarted
<1>3. QueueOK /\ QueueIsOrdered
  BY <1>1 DEF QueueOK, QueueIsOrdered
<1>4. SentIsPast /\ PacketsStayInSession /\ OrderIsKept
  BY <1>1 DEF SentIsPast, PacketsStayInSession, OrderIsKept
<1>5. QED
  BY <1>2, <1>3, <1>4 DEF PacketInv

LEMMA PacketUntouched ==
  ASSUME PacketInv, UNCHANGED <<session, worker, queue, produced, sent>>
  PROVE  PacketInv'
BY DEF PacketInv, HeldOK, QueueOK, QueueIsOrdered, HeldIsNext, SentIsPast, PacketsStayInSession,
   OrderIsKept, Held, Retired

LEMMA PacketCleared ==
  ASSUME PacketInv, Clear, UNCHANGED <<worker, produced, sent>>
  PROVE  PacketInv'
<1>1. \A b \in Buckets : Len(queue'[b]) = 0
  BY ClearType
<1>2. \A p : Bucket(p) \in Buckets
  BY DEF Bucket, Buckets
<1>3. HeldOK' /\ HeldIsNext'
  BY <1>1, <1>2 DEF PacketInv, HeldOK, HeldIsNext, Held
<1>4. QueueOK' /\ QueueIsOrdered'
  BY <1>1 DEF QueueOK, QueueIsOrdered
<1>5. SentIsPast'
  BY <1>1, <1>2 DEF PacketInv, SentIsPast, Held
<1>6. PacketsStayInSession' /\ OrderIsKept'
  BY DEF PacketInv, PacketsStayInSession, OrderIsKept
<1>7. QED
  BY <1>3, <1>4, <1>5, <1>6 DEF PacketInv

LEMMA SpawnPacket ==
  ASSUME HubInv, PacketInv, NEW t \in Threads, SpawnWorker(t)
  PROVE  PacketInv'
<1> USE DEF SpawnWorker
<1>1. t = "controller" /\ ~Free("controller") /\ Head(todo["controller"]) = "spawn"
  BY ControllerOnly DEF UiSteps
<1>2. session \in Workers /\ worker[session].pc = "none"
  BY <1>1, ControllerSteps DEF Connecting, HubInv, TypeOK, Workers
<1>3. /\ worker'[session] = [pc |-> "loop", epoch |-> claimed, held |-> NoPacket]
      /\ \A w \in Workers : w # session => worker'[w] = worker[w]
  BY <1>2 DEF HubInv, TypeOK
<1>4. ~Held(session)' /\ \A w \in Workers : w # session => (Held(w)' <=> Held(w))
  BY <1>3 DEF Held
<1>5. HeldOK' /\ HeldIsNext'
  BY <1>2, <1>3, <1>4 DEF PacketInv, HeldOK, HeldIsNext
<1>6. QueueOK' /\ QueueIsOrdered'
  BY <1>2 DEF PacketInv, QueueOK, QueueIsOrdered, Retired
<1>7. SentIsPast'
  BY <1>2, <1>3, <1>4 DEF PacketInv, SentIsPast
<1>8. PacketsStayInSession' /\ OrderIsKept'
  BY DEF PacketInv, PacketsStayInSession, OrderIsKept
<1>9. QED
  BY <1>5, <1>6, <1>7, <1>8 DEF PacketInv

LEMMA ThreadPacket ==
  ASSUME HubInv, PacketInv, NEW t \in Threads, ThreadStep(t)
  PROVE  PacketInv'
<1> USE DEF At
<1>1. CASE IoConnects(t) \/ IoFails(t) \/ IoDisconnects(t)
  BY <1>1, PacketCleared DEF IoConnects, IoFails, IoDisconnects
<1>2. CASE SpawnWorker(t)
  BY <1>2, SpawnPacket
<1>3. CASE StopRunning(t) \/ BumpEpoch(t) \/ TakeThreads(t) \/ WaitForThreads(t)
           \/ DetachThread(t) \/ ClaimEpoch(t) \/ SetRunning(t)
  BY <1>3, PacketUntouched DEF StopRunning, BumpEpoch, TakeThreads, WaitForThreads, DetachThread,
     ClaimEpoch, SetRunning
<1>4. QED
  BY <1>1, <1>2, <1>3 DEF ThreadStep

(* What a push leaves in the queue, element by element and pair by pair.     *)
LEMMA PushElements ==
  ASSUME TypeOK, NEW p \in Packet, Push(p), NEW b \in Buckets
  PROVE  /\ \A i \in 1 .. Len(queue'[b]) :
              \/ \E n \in 1 .. Len(queue[b]) : queue'[b][i] = queue[b][n]
              \/ b = Bucket(p) /\ queue'[b][i] = p
         /\ \A i, j \in 1 .. Len(queue'[b]) : i < j =>
              \E m \in 1 .. Len(queue[b]) :
                /\ queue'[b][i] = queue[b][m]
                /\ \/ \E n \in 1 .. Len(queue[b]) : m < n /\ queue'[b][j] = queue[b][n]
                   \/ b = Bucket(p) /\ queue'[b][j] = p
<1>1. CASE b # Bucket(p)
  <2>1. queue'[b] = queue[b]
    BY <1>1, PushType
  <2>2. QED
    BY <2>1
<1>2. CASE b = Bucket(p)
  <2> DEFINE s == queue[b]
             t == queue'[b]
  <2>1. s \in Seq(Packet) /\ Len(s) \in Nat
    BY DEF TypeOK
  <2>2. t = PushBounded(s, p)
    BY <1>2, PushType
  <2>3. PICK drop \in 0 .. Len(s) :
          /\ Len(t) = Len(s) - drop + 1
          /\ \A i \in 1 .. Len(s) - drop : t[i] = s[i + drop]
          /\ t[Len(s) - drop + 1] = p
    <3> HIDE DEF s, t
    <3>1. QED
      BY <2>1, <2>2, PushProperties, Zenon
  <2> HIDE DEF s, t
  <2>4. \A i \in 1 .. Len(t) : i # Len(t) => i + drop \in 1 .. Len(s) /\ t[i] = s[i + drop]
    BY <2>1, <2>3
  <2>5. t[Len(t)] = p
    BY <2>3
  <2>6. \A i \in 1 .. Len(t) : (\E n \in 1 .. Len(s) : t[i] = s[n]) \/ t[i] = p
    BY <2>4, <2>5
  <2>7. ASSUME NEW i \in 1 .. Len(t), NEW j \in 1 .. Len(t), i < j
        PROVE  \E m \in 1 .. Len(s) :
                 t[i] = s[m] /\ ((\E n \in 1 .. Len(s) : m < n /\ t[j] = s[n]) \/ t[j] = p)
    <3>1. i + drop \in 1 .. Len(s) /\ t[i] = s[i + drop]
      BY <2>1, <2>3, <2>4, <2>7
    <3>2. CASE j = Len(t)
      BY <2>5, <3>1, <3>2
    <3>3. CASE j # Len(t)
      <4>1. j + drop \in 1 .. Len(s) /\ t[j] = s[j + drop] /\ i + drop < j + drop
        BY <2>4, <2>7, <3>3
      <4>2. QED
        BY <3>1, <4>1
    <3>4. QED
      BY <3>2, <3>3
  <2>8. \A i \in 1 .. Len(queue'[b]) :
          \/ \E n \in 1 .. Len(queue[b]) : queue'[b][i] = queue[b][n]
          \/ b = Bucket(p) /\ queue'[b][i] = p
    BY <1>2, <2>6, Zenon DEF s, t
  <2>9. \A i, j \in 1 .. Len(queue'[b]) : i < j =>
          \E m \in 1 .. Len(queue[b]) :
            /\ queue'[b][i] = queue[b][m]
            /\ \/ \E n \in 1 .. Len(queue[b]) : m < n /\ queue'[b][j] = queue[b][n]
               \/ b = Bucket(p) /\ queue'[b][j] = p
    <3> SUFFICES ASSUME NEW i \in 1 .. Len(t), NEW j \in 1 .. Len(t), i < j
                 PROVE  \E m \in 1 .. Len(s) :
                          /\ t[i] = s[m]
                          /\ \/ \E n \in 1 .. Len(s) : m < n /\ t[j] = s[n]
                             \/ b = Bucket(p) /\ t[j] = p
      BY Zenon DEF s, t
    <3>1. QED
      BY <1>2, <2>7
  <2>10. QED
    BY <2>8, <2>9
<1>3. QED
  BY <1>1, <1>2

LEMMA EnqueuePacket ==
  ASSUME HubInv, PacketInv, NEW kind \in Kinds, Enqueue(kind)
  PROVE  PacketInv'
<1> DEFINE p == [kind |-> kind, session |-> session, serial |-> produced']
<1>1. /\ p \in Packet /\ Push(p) /\ produced' = produced + 1 /\ produced \in Nat
      /\ p.session = session /\ p.serial = produced + 1
      /\ session' = session /\ worker' = worker /\ sent' = sent
  BY KindsAreKnown DEF Enqueue, HubInv, TypeOK, Packet, threadVars, hubVars
<1> HIDE DEF p
<1>2. \A b \in Buckets : queue[b] \in Seq(Packet)
  BY DEF HubInv, TypeOK
<1>3. \A b \in Buckets : \A i \in 1 .. Len(queue[b]) :
        queue[b][i].serial \in Nat /\ queue[b][i].serial <= produced
  <2>1. \A b \in Buckets : \A i \in 1 .. Len(queue[b]) : queue[b][i] \in Packet
    BY <1>2, ElementOfSeq
  <2>2. QED
    BY <2>1 DEF PacketInv, QueueOK, Packet
<1>4. /\ \A w \in Workers : Held(w) => worker[w].held \in Packet /\ worker[w].held.serial <= produced
      /\ \A q : Bucket(q) \in Buckets
  BY DEF PacketInv, HeldOK, Held, HubInv, TypeOK, WorkerStates, Bucket, Buckets
<1>5. \A n \in 1 .. Len(sent) :
        sent[n].packet.serial \in Nat /\ sent[n].packet.serial <= produced
  <2>1. \A n \in 1 .. Len(sent) : sent[n] \in [packet : Packet \cup {NoPacket}, by : Workers]
    BY ElementOfSeq DEF HubInv, TypeOK
  <2>2. QED
    BY <2>1 DEF Packet, NoPacket, PacketInv, SentIsPast
<1>6. HeldOK'
  BY <1>1, <1>4 DEF PacketInv, HeldOK, Held, Packet
<1>7. ASSUME NEW b \in Buckets, NEW i \in 1 .. Len(queue'[b])
      PROVE  \/ \E n \in 1 .. Len(queue[b]) : queue'[b][i] = queue[b][n]
             \/ b = Bucket(p) /\ queue'[b][i] = p
  BY <1>1, PushElements DEF HubInv
<1>8. QueueOK'
  <2> SUFFICES ASSUME NEW b \in Buckets, NEW i \in 1 .. Len(queue'[b])
               PROVE  /\ Bucket(queue'[b][i]) = b /\ queue'[b][i].session = session
                      /\ queue'[b][i].serial <= produced + 1
    BY <1>1 DEF QueueOK
  <2>1. ASSUME NEW n \in 1 .. Len(queue[b]), queue'[b][i] = queue[b][n]
        PROVE  /\ Bucket(queue'[b][i]) = b /\ queue'[b][i].session = session
               /\ queue'[b][i].serial <= produced + 1
    BY <1>1, <1>3, <2>1 DEF PacketInv, QueueOK
  <2>2. QED
    BY <1>1, <1>7, <2>1
<1>9. QueueIsOrdered'
  <2> SUFFICES ASSUME ~Retired, NEW b \in Buckets,
                      NEW i \in 1 .. Len(queue'[b]), NEW j \in 1 .. Len(queue'[b]), i < j
               PROVE  queue'[b][i].serial < queue'[b][j].serial
    BY <1>1 DEF QueueIsOrdered, Retired
  <2>1. PICK m \in 1 .. Len(queue[b]) :
          /\ queue'[b][i] = queue[b][m]
          /\ \/ \E n \in 1 .. Len(queue[b]) : m < n /\ queue'[b][j] = queue[b][n]
             \/ b = Bucket(p) /\ queue'[b][j] = p
    <3>1. TypeOK
      BY DEF HubInv
    <3>2. \A k, l \in 1 .. Len(queue'[b]) : k < l =>
            \E m \in 1 .. Len(queue[b]) :
              /\ queue'[b][k] = queue[b][m]
              /\ \/ \E n \in 1 .. Len(queue[b]) : m < n /\ queue'[b][l] = queue[b][n]
                 \/ b = Bucket(p) /\ queue'[b][l] = p
      BY <1>1, <3>1, PushElements, Zenon
    <3>3. QED
      BY <3>2
  <2>2. CASE queue'[b][j] = p
    BY <1>1, <1>3, <2>1, <2>2
  <2>3. ASSUME NEW n \in 1 .. Len(queue[b]), m < n, queue'[b][j] = queue[b][n]
        PROVE  queue'[b][i].serial < queue'[b][j].serial
    BY <2>1, <2>3 DEF PacketInv, QueueIsOrdered
  <2>4. QED
    BY <2>1, <2>2, <2>3
<1>10. HeldIsNext'
  <2> SUFFICES ASSUME NEW w \in Workers, Held(w), NEW i \in 1 .. Len(queue'[Bucket(worker[w].held)])
               PROVE  worker[w].held.serial < queue'[Bucket(worker[w].held)][i].serial
    BY <1>1 DEF HeldIsNext, Held
  <2> DEFINE b == Bucket(worker[w].held)
  <2>1. b \in Buckets /\ worker[w].held.serial \in Nat /\ worker[w].held.serial <= produced
    BY <1>4 DEF Packet
  <2>2. ASSUME NEW n \in 1 .. Len(queue[b]), queue'[b][i] = queue[b][n]
        PROVE  worker[w].held.serial < queue'[b][i].serial
    BY <2>2 DEF PacketInv, HeldIsNext
  <2> HIDE DEF b
  <2>3. ASSUME queue'[b][i] = p PROVE worker[w].held.serial < queue'[b][i].serial
    BY <1>1, <2>1, <2>3
  <2>4. worker[w].held.serial < queue'[b][i].serial
    BY <1>7, <2>1, <2>2, <2>3 DEF b
  <2>5. QED
    BY <2>4 DEF b
<1>11. SentIsPast'
  <2> SUFFICES ASSUME NEW n \in 1 .. Len(sent)
               PROVE  /\ sent[n].packet.serial <= produced + 1
                      /\ \A i \in 1 .. Len(queue'[Bucket(sent[n].packet)]) :
                           sent[n].packet.serial < queue'[Bucket(sent[n].packet)][i].serial
                      /\ \A w \in Workers :
                           Held(w) /\ Bucket(worker[w].held) = Bucket(sent[n].packet)
                             => sent[n].packet.serial < worker[w].held.serial
    BY <1>1 DEF SentIsPast, Held
  <2> DEFINE b == Bucket(sent[n].packet)
  <2>1. b \in Buckets /\ sent[n].packet.serial \in Nat /\ sent[n].packet.serial <= produced
    BY <1>4, <1>5
  <2>2. ASSUME NEW i \in 1 .. Len(queue'[b]) PROVE sent[n].packet.serial < queue'[b][i].serial
    <3>1. ASSUME NEW m \in 1 .. Len(queue[b]), queue'[b][i] = queue[b][m]
          PROVE  sent[n].packet.serial < queue'[b][i].serial
      BY <3>1 DEF PacketInv, SentIsPast
    <3> HIDE DEF b
    <3>2. ASSUME queue'[b][i] = p PROVE sent[n].packet.serial < queue'[b][i].serial
      BY <1>1, <2>1, <3>2
    <3>3. QED
      BY <1>7, <2>1, <3>1, <3>2
  <2>3. QED
    BY <1>1, <2>1, <2>2 DEF PacketInv, SentIsPast
<1>12. PacketsStayInSession' /\ OrderIsKept'
  BY <1>1 DEF PacketInv, PacketsStayInSession, OrderIsKept
<1>13. QED
  BY <1>6, <1>8, <1>9, <1>10, <1>11, <1>12 DEF PacketInv

(* What one worker's step leaves of the others.  A live worker is the        *)
(* session's, and it has not retired.                                        *)
LEMMA LiveIsSession ==
  ASSUME HubInv, NEW w \in Workers, worker[w].pc \notin {"none", "done"}
  PROVE  w = session /\ ~Retired
BY DEF HubInv, LiveIsKnown, Live, Retired

(* What holds of each packet in a worker's hands, in the queue and sent.     *)
LEMMA PacketTypes ==
  ASSUME TypeOK
  PROVE  /\ \A b \in Buckets : queue[b] \in Seq(Packet) /\ Len(queue[b]) \in Nat
         /\ \A b \in Buckets : \A i \in 1 .. Len(queue[b]) :
              queue[b][i] \in Packet /\ queue[b][i].serial \in Nat
         /\ \A w \in Workers : worker[w] \in WorkerStates /\ worker[w].held.serial \in Nat
         /\ \A n \in 1 .. Len(sent) : sent[n].packet.serial \in Nat
         /\ Len(sent) \in Nat
         /\ \A q : Bucket(q) \in Buckets
<1>1. \A b \in Buckets : queue[b] \in Seq(Packet) /\ Len(queue[b]) \in Nat
  BY DEF TypeOK
<1>2. \A b \in Buckets : \A i \in 1 .. Len(queue[b]) : queue[b][i] \in Packet
  BY <1>1, ElementOfSeq
<1>3. \A w \in Workers : worker[w] \in WorkerStates /\ worker[w].held.serial \in Nat
  BY DEF TypeOK, WorkerStates, Packet, NoPacket
<1>4. \A n \in 1 .. Len(sent) : sent[n] \in [packet : Packet \cup {NoPacket}, by : Workers]
  BY ElementOfSeq DEF TypeOK
<1>5. Len(sent) \in Nat /\ \A q : Bucket(q) \in Buckets
  BY DEF TypeOK, Bucket, Buckets
<1>6. \A b \in Buckets : \A i \in 1 .. Len(queue[b]) : queue[b][i].serial \in Nat
  BY <1>2 DEF Packet
<1>7. \A n \in 1 .. Len(sent) : sent[n].packet.serial \in Nat
  BY <1>4 DEF Packet, NoPacket
<1>8. QED
  BY <1>1, <1>2, <1>3, <1>5, <1>6, <1>7

(* A step of a worker that holds nothing before or after it, or that leaves  *)
(* its packet where it is.                                                   *)
LEMMA PacketKept ==
  ASSUME HubInv, PacketInv, NEW w \in Workers,
         worker[w].pc \notin {"none", "done"},
         NEW to, worker' = [worker EXCEPT ![w].pc = to],
         to \in {"loop", "pop"} => worker[w].held = NoPacket,
         to = "send" => worker[w].held # NoPacket /\ worker[w].pc = "check",
         to = "check" => worker[w].held = NoPacket,
         UNCHANGED <<session, queue, produced, sent>>
  PROVE  PacketInv'
<1>1. /\ worker'[w].pc = to /\ worker'[w].held = worker[w].held
      /\ \A v \in Workers : v # w => worker'[v] = worker[v]
  BY DEF HubInv, TypeOK, WorkerStates
<1>2. \A v \in Workers : worker'[v].held = worker[v].held /\ (Held(v)' => Held(v))
  BY <1>1 DEF Held
<1>3. HeldOK'
  BY <1>1, <1>2 DEF PacketInv, HeldOK
<1>4. HeldIsNext' /\ SentIsPast'
  BY <1>2 DEF PacketInv, HeldIsNext, SentIsPast
<1>5. QueueOK' /\ QueueIsOrdered'
  BY LiveIsSession DEF PacketInv, QueueOK, QueueIsOrdered
<1>6. PacketsStayInSession' /\ OrderIsKept'
  BY DEF PacketInv, PacketsStayInSession, OrderIsKept
<1>7. QED
  BY <1>3, <1>4, <1>5, <1>6 DEF PacketInv

LEMMA PopPacketInv ==
  ASSUME HubInv, PacketInv, NEW w \in Workers, PopPacket(w)
  PROVE  PacketInv'
<1>1. PICK b \in Buckets :
        /\ queue[b] # <<>>
        /\ worker' = [worker EXCEPT ![w].pc = "check", ![w].held = Head(queue[b])]
        /\ queue' = [queue EXCEPT ![b] = Tail(@)]
  BY DEF PopPacket, Poppable
<1>2. /\ session' = session /\ produced' = produced /\ sent' = sent
      /\ worker[w].pc = "pop"
  BY DEF PopPacket, threadVars, hubVars
<1>3. w = session /\ ~Retired
  BY <1>2, LiveIsSession
<1> DEFINE p == queue[b][1]
<1>4. TypeOK
  BY DEF HubInv
<1>5. /\ 1 \in 1 .. Len(queue[b]) /\ Len(queue'[b]) = Len(queue[b]) - 1
      /\ \A i \in 1 .. Len(queue'[b]) : i + 1 \in 1 .. Len(queue[b]) /\ queue'[b][i] = queue[b][i + 1]
      /\ Head(queue[b]) = p
      /\ \A a \in Buckets : a # b => queue'[a] = queue[a]
  BY <1>1, <1>4, PacketTypes DEF TypeOK
<1>6. /\ p \in Packet /\ p.serial \in Nat /\ Bucket(p) = b /\ p.session = session
      /\ p.serial <= produced
  BY <1>4, <1>5, PacketTypes DEF PacketInv, QueueOK
<1>7. /\ worker'[w].pc = "check" /\ worker'[w].held = p
      /\ \A v \in Workers : v # w => worker'[v] = worker[v] /\ ~Held(v)' /\ ~Held(v)
      /\ worker'[session].pc # "done"
  <2>1. ASSUME NEW v \in Workers, v # w PROVE ~Held(v)
    BY <1>3, <2>1, LiveIsSession DEF Held
  <2>2. /\ worker'[w].pc = "check" /\ worker'[w].held = p
        /\ \A v \in Workers : v # w => worker'[v] = worker[v]
    BY <1>1, <1>4, <1>5 DEF TypeOK, WorkerStates
  <2>3. QED
    BY <1>3, <2>1, <2>2 DEF Held
<1>8. ASSUME NEW i \in 1 .. Len(queue[b]), NEW j \in 1 .. Len(queue[b]), i < j
       PROVE  queue[b][i].serial < queue[b][j].serial
  BY <1>3, <1>8 DEF PacketInv, QueueIsOrdered
<1>9. \A i \in 1 .. Len(queue'[b]) : p.serial < queue'[b][i].serial
  <2> SUFFICES ASSUME NEW i \in 1 .. Len(queue'[b]) PROVE p.serial < queue'[b][i].serial
    OBVIOUS
  <2>1. 1 < i + 1
    BY <1>4, <1>5, PacketTypes
  <2>2. QED
    BY <1>5, <1>8, <2>1
<1>10. \A n \in 1 .. Len(sent) : Bucket(sent[n].packet) = b => sent[n].packet.serial < p.serial
  BY <1>5 DEF PacketInv, SentIsPast
<1> HIDE DEF p
<1>11. HeldOK'
  BY <1>2, <1>3, <1>6, <1>7 DEF PacketInv, HeldOK, Held
<1>12. QueueOK'
  <2> SUFFICES ASSUME NEW a \in Buckets, NEW i \in 1 .. Len(queue'[a])
               PROVE  /\ Bucket(queue'[a][i]) = a /\ queue'[a][i].session = session
                      /\ queue'[a][i].serial <= produced
    BY <1>2 DEF QueueOK
  <2>1. CASE a = b
    BY <1>5, <2>1 DEF PacketInv, QueueOK
  <2>2. CASE a # b
    BY <1>5, <2>2 DEF PacketInv, QueueOK
  <2>3. QED
    BY <2>1, <2>2
<1>13. QueueIsOrdered'
  <2> SUFFICES ASSUME NEW a \in Buckets,
                      NEW i \in 1 .. Len(queue'[a]), NEW j \in 1 .. Len(queue'[a]), i < j
               PROVE  queue'[a][i].serial < queue'[a][j].serial
    BY DEF QueueIsOrdered
  <2>1. CASE a = b
    <3>1. i + 1 < j + 1
      BY <1>4, <1>5, <2>1, PacketTypes
    <3>2. QED
      BY <1>5, <1>8, <2>1, <3>1
  <2>2. CASE a # b
    BY <1>3, <1>5, <2>2 DEF PacketInv, QueueIsOrdered
  <2>3. QED
    BY <2>1, <2>2
<1>14. HeldIsNext'
  BY <1>6, <1>7, <1>9 DEF HeldIsNext
<1>15. SentIsPast'
  <2> SUFFICES ASSUME NEW n \in 1 .. Len(sent)
               PROVE  /\ sent[n].packet.serial <= produced
                      /\ \A i \in 1 .. Len(queue'[Bucket(sent[n].packet)]) :
                           sent[n].packet.serial < queue'[Bucket(sent[n].packet)][i].serial
                      /\ \A v \in Workers :
                           Held(v)' /\ Bucket(worker'[v].held) = Bucket(sent[n].packet)
                             => sent[n].packet.serial < worker'[v].held.serial
    BY <1>2 DEF SentIsPast
  <2>1. \A i \in 1 .. Len(queue'[Bucket(sent[n].packet)]) :
          sent[n].packet.serial < queue'[Bucket(sent[n].packet)][i].serial
    <3>1. CASE Bucket(sent[n].packet) = b
      BY <1>5, <3>1 DEF PacketInv, SentIsPast
    <3>2. CASE Bucket(sent[n].packet) # b
      BY <1>4, <1>5, <3>2, PacketTypes DEF PacketInv, SentIsPast
    <3>3. QED
      BY <3>1, <3>2
  <2>2. QED
    BY <1>6, <1>7, <1>10, <2>1 DEF PacketInv, SentIsPast
<1>16. PacketsStayInSession' /\ OrderIsKept'
  BY <1>2 DEF PacketInv, PacketsStayInSession, OrderIsKept
<1>17. QED
  BY <1>11, <1>12, <1>13, <1>14, <1>15, <1>16 DEF PacketInv

(* The retired worker's packet is put back behind the others.  No worker of  *)
(* the session is left to take it out, and the next session starts with an   *)
(* empty queue.                                                              *)
LEMMA PutBackPacket ==
  ASSUME HubInv, PacketInv, NEW w \in Workers, Retire(w), worker[w].held \in Packet,
         Push(worker[w].held)
  PROVE  PacketInv'
<1> DEFINE p == worker[w].held
<1>1. /\ worker[w].pc = "check" /\ worker' = [worker EXCEPT ![w].pc = "done"]
      /\ session' = session /\ produced' = produced /\ sent' = sent
  BY DEF Retire, Goes, threadVars, hubVars
<1>2. w = session /\ TypeOK
  BY <1>1, LiveIsSession DEF HubInv
<1>3. /\ worker'[w].pc = "done"
      /\ \A v \in Workers : v # w => worker'[v] = worker[v]
  BY <1>1, <1>2 DEF TypeOK, WorkerStates
<1>4. /\ Held(w) /\ p.session = session /\ p.serial <= produced
      /\ \A v \in Workers : ~Held(v)'
  <2>1. Held(w)
    BY <1>1 DEF Held, NoPacket, Packet, Control, Text
  <2>2. \A v \in Workers : v # w => ~Held(v)
    BY <1>2, LiveIsSession DEF Held
  <2>3. QED
    BY <1>2, <1>3, <2>1, <2>2 DEF PacketInv, HeldOK, Held
<1>5. Retired'
  BY <1>1, <1>2, <1>3 DEF Retired, Workers
<1>6. ASSUME NEW b \in Buckets, NEW i \in 1 .. Len(queue'[b])
      PROVE  \/ \E n \in 1 .. Len(queue[b]) : queue'[b][i] = queue[b][n]
             \/ b = Bucket(p) /\ queue'[b][i] = p
  BY <1>2, PushElements
<1> HIDE DEF p
<1>7. HeldOK'
  BY <1>1, <1>3, <1>4 DEF PacketInv, HeldOK
<1>8. QueueOK'
  <2> SUFFICES ASSUME NEW b \in Buckets, NEW i \in 1 .. Len(queue'[b])
               PROVE  /\ Bucket(queue'[b][i]) = b /\ queue'[b][i].session = session
                      /\ queue'[b][i].serial <= produced
    BY <1>1 DEF QueueOK
  <2>1. ASSUME NEW n \in 1 .. Len(queue[b]), queue'[b][i] = queue[b][n]
        PROVE  /\ Bucket(queue'[b][i]) = b /\ queue'[b][i].session = session
               /\ queue'[b][i].serial <= produced
    BY <2>1 DEF PacketInv, QueueOK
  <2>2. QED
    BY <1>4, <1>6, <2>1
<1>9. HeldIsNext' /\ QueueIsOrdered'
  BY <1>4, <1>5 DEF HeldIsNext, QueueIsOrdered
<1>10. SentIsPast'
  <2> SUFFICES ASSUME NEW n \in 1 .. Len(sent), NEW i \in 1 .. Len(queue'[Bucket(sent[n].packet)])
               PROVE  sent[n].packet.serial < queue'[Bucket(sent[n].packet)][i].serial
    BY <1>1, <1>4 DEF PacketInv, SentIsPast
  <2> DEFINE b == Bucket(sent[n].packet)
  <2>1. b \in Buckets
    BY <1>2, PacketTypes
  <2>2. ASSUME NEW m \in 1 .. Len(queue[b]), queue'[b][i] = queue[b][m]
        PROVE  sent[n].packet.serial < queue'[b][i].serial
    BY <2>2 DEF PacketInv, SentIsPast
  <2>3. ASSUME b = Bucket(p), queue'[b][i] = p
        PROVE  sent[n].packet.serial < queue'[b][i].serial
    BY <1>4, <2>3 DEF PacketInv, SentIsPast, p
  <2> HIDE DEF b
  <2>4. sent[n].packet.serial < queue'[b][i].serial
    BY <1>6, <2>1, <2>2, <2>3 DEF b
  <2>5. QED
    BY <2>4 DEF b
<1>11. PacketsStayInSession' /\ OrderIsKept'
  BY <1>1 DEF PacketInv, PacketsStayInSession, OrderIsKept
<1>12. QED
  BY <1>7, <1>8, <1>9, <1>10, <1>11 DEF PacketInv

LEMMA PostPacketInv ==
  ASSUME HubInv, PacketInv, NEW w \in Workers, PostPacket(w)
  PROVE  PacketInv'
<1> DEFINE p == worker[w].held
           e == [packet |-> p, by |-> w]
           N == Len(sent)
<1>1. /\ worker[w].pc = "send" /\ sent' = Append(sent, e)
      /\ worker' = [worker EXCEPT ![w].pc = "loop", ![w].held = NoPacket]
      /\ session' = session /\ produced' = produced /\ queue' = queue
  BY DEF PostPacket, threadVars, hubVars
<1>2. w = session /\ ~Retired /\ TypeOK
  BY <1>1, LiveIsSession DEF HubInv
<1>3. /\ worker'[w].pc = "loop" /\ worker'[w].held = NoPacket
      /\ \A v \in Workers : v # w => worker'[v] = worker[v]
  BY <1>1, <1>2 DEF TypeOK, WorkerStates
<1>4. /\ Held(w) /\ p.session = w /\ p.serial <= produced /\ p.serial \in Nat
      /\ \A v \in Workers : ~Held(v)'
  <2>1. Held(w)
    BY <1>1 DEF Held, PacketInv, HeldOK
  <2>2. \A v \in Workers : v # w => ~Held(v)
    BY <1>2, LiveIsSession DEF Held
  <2>3. QED
    BY <1>2, <1>3, <2>1, <2>2, PacketTypes DEF PacketInv, HeldOK, Held
<1>5. /\ N \in Nat /\ Len(sent') = N + 1
      /\ \A n \in 1 .. N : sent'[n] = sent[n]
      /\ sent'[N + 1] = e /\ e.packet = p /\ e.by = w
      /\ DOMAIN sent = 1 .. N /\ DOMAIN sent' = 1 .. N + 1
  BY <1>1, <1>2 DEF TypeOK
<1>6. ASSUME NEW n \in 1 .. N
      PROVE  /\ sent[n].packet.serial \in Nat
             /\ Bucket(sent[n].packet) = Bucket(p) => sent[n].packet.serial < p.serial
  BY <1>2, <1>4, PacketTypes DEF PacketInv, SentIsPast
<1>7. ASSUME NEW i \in 1 .. Len(queue[Bucket(p)]) PROVE p.serial < queue[Bucket(p)][i].serial
  BY <1>4 DEF PacketInv, HeldIsNext
<1> HIDE DEF p, e, N
<1>8. HeldOK'
  BY <1>1, <1>3, <1>4 DEF PacketInv, HeldOK
<1>9. QueueOK' /\ QueueIsOrdered' /\ HeldIsNext'
  BY <1>1, <1>2, <1>4 DEF PacketInv, QueueOK, QueueIsOrdered, HeldIsNext
<1>10. SentIsPast'
  <2> SUFFICES ASSUME NEW n \in 1 .. N + 1
               PROVE  /\ sent'[n].packet.serial <= produced
                      /\ \A i \in 1 .. Len(queue[Bucket(sent'[n].packet)]) :
                           sent'[n].packet.serial < queue[Bucket(sent'[n].packet)][i].serial
    BY <1>1, <1>4, <1>5 DEF SentIsPast
  <2>1. CASE n = N + 1
    BY <1>4, <1>5, <1>7, <2>1
  <2>2. CASE n # N + 1
    <3>1. n \in 1 .. N /\ sent'[n] = sent[n]
      BY <1>5, <2>2
    <3>2. QED
      BY <3>1 DEF PacketInv, SentIsPast, N
  <2>3. QED
    BY <2>1, <2>2
<1>11. PacketsStayInSession'
  BY <1>4, <1>5 DEF PacketInv, PacketsStayInSession
<1>12. OrderIsKept'
  <2> SUFFICES ASSUME NEW i \in 1 .. N + 1, NEW j \in 1 .. N + 1, i < j,
                      Bucket(sent'[i].packet) = Bucket(sent'[j].packet)
               PROVE  sent'[i].packet.serial < sent'[j].packet.serial
    BY <1>5 DEF OrderIsKept
  <2>1. i \in 1 .. N /\ sent'[i] = sent[i]
    BY <1>5
  <2>2. CASE j = N + 1
    BY <1>5, <1>6, <2>1, <2>2
  <2>3. CASE j # N + 1
    BY <1>5, <2>1, <2>3 DEF PacketInv, OrderIsKept
  <2>4. QED
    BY <2>2, <2>3
<1>13. QED
  BY <1>8, <1>9, <1>10, <1>11, <1>12 DEF PacketInv

LEMMA WorkerPacket ==
  ASSUME HubInv, PacketInv, NEW w \in Workers, WorkerStep(w)
  PROVE  PacketInv'
<1>1. CASE EnterLoop(w)
  <2>1. /\ worker[w].pc = "loop" /\ worker[w].held = NoPacket
        /\ UNCHANGED <<session, queue, produced, sent>>
    BY <1>1 DEF EnterLoop, Goes, threadVars, hubVars, PacketInv, HeldOK
  <2>2. \/ worker' = [worker EXCEPT ![w].pc = "pop"]
        \/ worker' = [worker EXCEPT ![w].pc = "done"]
    BY <1>1 DEF EnterLoop, Goes
  <2>3. QED
    BY <2>1, <2>2, PacketKept
<1>2. CASE PopPacket(w)
  BY <1>2, PopPacketInv
<1>3. CASE PopTimesOut(w)
  BY <1>3, PacketKept DEF PopTimesOut, Goes, threadVars, hubVars, PacketInv, HeldOK
<1>4. CASE Retire(w)
  <2>1. CASE worker[w].held.kind \in PutBack
    <3>1. worker[w].held \in Packet /\ Push(worker[w].held)
      BY <1>4, <2>1 DEF Retire, HubInv, TypeOK, WorkerStates, NoPacket, PutBack
    <3>2. QED
      BY <1>4, <3>1, PutBackPacket
  <2>2. CASE worker[w].held.kind \notin PutBack
    BY <1>4, <2>2, PacketKept DEF Retire, Goes, threadVars, hubVars
  <2>3. QED
    BY <2>1, <2>2
<1>5. CASE CarryOn(w)
  <2>1. /\ worker[w].pc = "check" /\ UNCHANGED <<session, queue, produced, sent>>
    BY <1>5 DEF CarryOn, Goes, threadVars, hubVars
  <2>2. \/ worker[w].held = NoPacket /\ worker' = [worker EXCEPT ![w].pc = "loop"]
        \/ worker[w].held # NoPacket /\ worker' = [worker EXCEPT ![w].pc = "send"]
    BY <1>5 DEF CarryOn, Goes
  <2>3. QED
    BY <2>1, <2>2, PacketKept
<1>6. CASE PostPacket(w)
  BY <1>6, PostPacketInv
<1>7. QED
  BY <1>1, <1>2, <1>3, <1>4, <1>5, <1>6 DEF WorkerStep

LEMMA PacketNext == HubInv /\ PacketInv /\ [Next]_vars => PacketInv'
<1> SUFFICES ASSUME HubInv, PacketInv, [Next]_vars PROVE PacketInv'
  OBVIOUS
<1>1. CASE UNCHANGED vars
  BY <1>1, PacketUntouched DEF vars, threadVars
<1>2. CASE ConnectToServer \/ DisconnectFromHost
  BY <1>2, PacketUntouched DEF ConnectToServer, DisconnectFromHost, Begin
<1>3. CASE Next
  BY <1>2, <1>3, EnqueuePacket, ThreadPacket, WorkerPacket DEF Next
<1>4. QED
  BY <1>1, <1>3

LEMMA SpecPacketInv == Spec => []PacketInv
BY HubInit, HubNext, PacketInit, PacketNext, PTL DEF Spec

(* A packet is only ever sent on the connection it was enqueued for, for any *)
(* bound of the queue and any interleaving of producers, connects,           *)
(* disconnects and workers: not even when a stopped worker puts one back.    *)
THEOREM SendStaysInSession == Spec => []PacketsStayInSession
<1>1. PacketInv => PacketsStayInSession
  BY DEF PacketInv
<1>2. QED
  BY <1>1, SpecPacketInv, PTL

(* Packets of one priority are sent in the order they were enqueued in, over *)
(* all sessions, for any bound of the queue: the put-back of send_loop never *)
(* lets a later packet overtake.                                             *)
THEOREM SendKeepsOrder == Spec => []OrderIsKept
<1>1. PacketInv => OrderIsKept
  BY DEF PacketInv
<1>2. QED
  BY <1>1, SpecPacketInv, PTL

=============================================================================
