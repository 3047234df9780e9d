--------------------------- MODULE MeetingRegistry ---------------------------
(***************************************************************************)
(* What the message server promises about meetings, without rooms, tables  *)
(* or timers: a meeting is a number, a host and the connections in it; it  *)
(* starts with its host alone, others enter and leave, and it ends for     *)
(* everybody at once, at the latest when its host goes.  A connection that *)
(* has left a meeting is gone for good.                                    *)
(***************************************************************************)
EXTENDS Integers, FiniteSets

CONSTANTS Conns, RoomIds, NoHost, MaxMeetings, MaxMembers

VARIABLES
  attending,   \* the connections in the meeting of each number
  host,        \* the host of each meeting, NoHost when there is none
  gone         \* connections that are closed

registryVars == <<attending, host, gone>>

Running(id) == host[id] # NoHost

Idle(c) == c \notin gone /\ \A id \in RoomIds : c \notin attending[id]

RegistryInit ==
  /\ attending = [id \in RoomIds |-> {}]
  /\ host = [id \in RoomIds |-> NoHost]
  /\ gone = {}

StartMeeting(id, c) ==
  /\ ~Running(id) /\ Idle(c)
  /\ Cardinality({i \in RoomIds : Running(i)}) < MaxMeetings
  /\ attending' = [attending EXCEPT ![id] = {c}]
  /\ host' = [host EXCEPT ![id] = c]
  /\ UNCHANGED gone

EnterMeeting(id, c) ==
  /\ Running(id) /\ Idle(c)
  /\ Cardinality(attending[id]) < MaxMembers
  /\ attending' = [attending EXCEPT ![id] = @ \cup {c}]
  /\ UNCHANGED <<host, gone>>

LeaveMeeting(id, c) ==
  /\ c \in attending[id] /\ c # host[id]
  /\ attending' = [attending EXCEPT ![id] = @ \ {c}]
  /\ gone' = gone \cup {c}
  /\ UNCHANGED host

EndMeeting(id) ==
  /\ Running(id)
  /\ attending' = [attending EXCEPT ![id] = {}]
  /\ host' = [host EXCEPT ![id] = NoHost]
  /\ gone' = gone \cup attending[id]

GoAway(c) ==
  /\ Idle(c)
  /\ gone' = gone \cup {c}
  /\ UNCHANGED <<attending, host>>

RegistryNext ==
  \/ \E c \in Conns : GoAway(c)
  \/ \E id \in RoomIds :
       \/ EndMeeting(id)
       \/ \E c \in Conns : StartMeeting(id, c) \/ EnterMeeting(id, c) \/ LeaveMeeting(id, c)

RegistrySpec == RegistryInit /\ [][RegistryNext]_registryVars
=============================================================================
