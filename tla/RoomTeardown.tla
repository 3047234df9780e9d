---------------------------- MODULE RoomTeardown ----------------------------
(***************************************************************************)
(* Leaving and dissolving a room, call by call.  Connection::close runs    *)
(* its close handler before it returns, so the chain                       *)
(*     close -> on_connection_close -> remove_participant -> close_room    *)
(*           -> close (of every other participant) -> ... -> cleanup_room  *)
(* re-enters functions that are still running, over maps they are using.   *)
(* `stack` is the call stack of the one asio thread; while it is not empty *)
(* nothing else runs.  MeetingServer states the same handlers as single    *)
(* steps: AtomicServer says they are.                                      *)
(***************************************************************************)
EXTENDS MeetingServer, Sequences

VARIABLES
  stack,    \* calls in progress, the innermost first
  before    \* the server's state when the outermost call began, <<>> between calls

serverVars == vars
teardownVars == <<serverVars, stack, before>>

Snapshot == [conn |-> conn, connRoom |-> connRoom, rooms |-> rooms,
             status |-> status, members |-> members, timer |-> timer]

Call(f, c, r, todo) == [fn |-> f, c |-> c, r |-> r, todo |-> todo]
CallClose(c)      == Call("close", c, NoRoom, {})
CallOnClose(c)    == Call("on_connection_close", c, NoRoom, {})
CallRemove(r, c)  == Call("remove_participant", c, r, {})
CallCloseRoom(r)  == Call("close_room", NoRoom, r, {})
CloseLoop(r, todo) == Call("close_loop", NoRoom, r, todo)
CallCleanup(r)    == Call("cleanup_room", NoRoom, r, {})

Running(f) == stack # <<>> /\ Head(stack).fn = f
Top == Head(stack)
Return == stack' = Tail(stack)
(* the last call of a function: nothing of it is left to run *)
TailCall(call) == stack' = <<call>> \o Tail(stack)

-----------------------------------------------------------------------------
(* The handlers that start a chain *)

StartClose(c) ==
  /\ stack = <<>> /\ IsOpen(c)
  /\ stack' = <<CallClose(c)>>
  /\ before' = Snapshot
  /\ UNCHANGED serverVars

StartExpire(r) ==
  /\ stack = <<>> /\ timer[r] = "queued"
  /\ stack' = <<CallCloseRoom(r)>>
  /\ before' = Snapshot
  /\ timer' = [timer EXCEPT ![r] = "idle"]
  /\ UNCHANGED <<conn, lookupVars, status, members, optionVars>>

-----------------------------------------------------------------------------
(* The functions of the chain *)

Close ==
  /\ Running("close")
  /\ conn' = [conn EXCEPT ![Top.c] = "closed"]
  /\ IF IsOpen(Top.c) THEN TailCall(CallOnClose(Top.c)) ELSE Return
  /\ UNCHANGED <<lookupVars, status, members, timer, optionVars>>

OnConnectionClose ==
  /\ Running("on_connection_close")
  /\ IF connRoom[Top.c] = NoRoom THEN Return
     ELSE TailCall(CallRemove(connRoom[Top.c], Top.c))
  /\ connRoom' = [connRoom EXCEPT ![Top.c] = NoRoom]
  /\ UNCHANGED <<conn, rooms, status, members, timer, optionVars>>

RemoveParticipant ==
  /\ Running("remove_participant")
  /\ IF status[Top.r] = "closed" \/ Top.c \notin members[Top.r]
       THEN Return /\ UNCHANGED members
       ELSE /\ members' = [members EXCEPT ![Top.r] = @ \ {Top.c}]
            /\ IF owner[Top.r] = Top.c THEN TailCall(CallCloseRoom(Top.r)) ELSE Return
  /\ UNCHANGED <<conn, lookupVars, status, timer, optionVars>>

(* Faulty: _closed and _participants are left for the end of the loop. *)
CloseRoomBeginsLate ==
  /\ Running("close_room")
  /\ CancelTimer(Top.r)
  /\ TailCall(CloseLoop(Top.r, members[Top.r]))
  /\ UNCHANGED <<conn, lookupVars, status, members, optionVars>>

CloseRoomBegins ==
  /\ Running("close_room")
  /\ IF status[Top.r] = "closed"
       THEN Return /\ UNCHANGED <<status, members, timer>>
       ELSE /\ status' = [status EXCEPT ![Top.r] = "closed"]
            /\ CancelTimer(Top.r)
            /\ members' = [members EXCEPT ![Top.r] = {}]
            /\ TailCall(CloseLoop(Top.r, members[Top.r]))
  /\ UNCHANGED <<conn, lookupVars, optionVars>>

(* Faulty: the loop does not advance. *)
CloseSameParticipant ==
  /\ Running("close_loop")
  /\ \E c \in Top.todo : stack' = IF IsOpen(c) THEN <<CallClose(c)>> \o stack ELSE stack
  /\ UNCHANGED serverVars

(* The copied participants are visited in hash order, which may be any.     *)
CloseNextParticipant ==
  /\ Running("close_loop")
  /\ \E c \in Top.todo :
       LET rest == <<CloseLoop(Top.r, Top.todo \ {c})>> \o Tail(stack)
       IN  stack' = IF IsOpen(c) THEN <<CallClose(c)>> \o rest ELSE rest
  /\ UNCHANGED serverVars

CloseLoopEnds ==
  /\ Running("close_loop") /\ Top.todo = {}
  /\ TailCall(CallCleanup(Top.r))
  /\ UNCHANGED serverVars

CleanupRoom ==
  /\ Running("cleanup_room")
  /\ connRoom' = [c \in Conns |->
                    IF InRoomNumber(c, number[Top.r]) THEN NoRoom ELSE connRoom[c]]
  /\ rooms' = [rooms EXCEPT ![number[Top.r]] = NoRoom]
  /\ Return
  /\ UNCHANGED <<conn, status, members, timer, optionVars>>

OtherHandlers ==
  /\ stack = <<>> /\ UNCHANGED <<stack, before>>
  /\ \/ \E c \in Conns :
          \/ AcceptSocket(c)
          \/ HandshakeDone(c)
          \/ \E q \in Requests, r \in Rooms, id \in RoomIds : CreateMeeting(c, q, r, id)
          \/ \E id \in RoomIds : JoinMeeting(c, id)
     \/ \E r \in Rooms : TimerExpires(r)

Calls ==
  /\ \/ Close
     \/ OnConnectionClose
     \/ RemoveParticipant
     \/ CloseRoomBegins
     \/ CloseNextParticipant
     \/ CloseLoopEnds
     \/ CleanupRoom
  /\ before' = IF stack' = <<>> THEN <<>> ELSE before

TeardownInit == Init /\ stack = <<>> /\ before = <<>>

TeardownNext ==
  \/ OtherHandlers
  \/ \E c \in Conns : StartClose(c)
  \/ \E r \in Rooms : StartExpire(r)
  \/ Calls

(* A call in progress runs on: the thread is never blocked in it. *)
TeardownSpec == TeardownInit /\ [][TeardownNext]_teardownVars /\ WF_teardownVars(Calls)

-----------------------------------------------------------------------------

Shown(actual, saved) == IF stack = <<>> THEN actual ELSE saved

Atomic == INSTANCE MeetingServer WITH
  conn <- Shown(conn, before.conn),
  connRoom <- Shown(connRoom, before.connRoom),
  rooms <- Shown(rooms, before.rooms),
  status <- Shown(status, before.status),
  members <- Shown(members, before.members),
  timer <- Shown(timer, before.timer)

(* Whatever order the callbacks nest in, a whole chain of calls has the      *)
(* effect of one step of MeetingServer.                                      *)
AtomicServer == Atomic!Spec

(* Every chain of callbacks comes to its end. *)
CallsReturn == stack # <<>> ~> stack = <<>>
=============================================================================
