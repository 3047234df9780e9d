---------------------------- MODULE MCMeetingView ----------------------------
(* Three clients of three accounts (named as their connections, which keeps *)
(* the clients interchangeable) around one room number.                     *)
EXTENDS MeetingView, TLC

MCAccount == [c \in Conns |-> c]
MCRequests == {NoOptions}

MCSymmetry == Permutations(Conns)
=============================================================================
