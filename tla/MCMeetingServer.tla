--------------------------- MODULE MCMeetingServer ---------------------------
(* A small server: four connections, one room number drawn at random and    *)
(* two reached only by the sequential fallback, and three Room objects, so  *)
(* that a number is used again while the first room's expiry is queued.     *)
EXTENDS MeetingServer

MCRequests == {NoOptions, [participants |-> 0, minutes |-> 0],
               [participants |-> 2, minutes |-> 5000]}
=============================================================================
