--------------------------- MODULE MCRoomTeardown ---------------------------
(* Two rooms at a time over three Room objects and four connections: one    *)
(* room of three to dissolve, another one to be left alone.                 *)
EXTENDS RoomTeardown

MCRequests == {NoOptions}
=============================================================================
