--------------------------- MODULE MCSettingsPage ---------------------------
(***************************************************************************)
(* Two cameras, of which one has a format the other lacks.                 *)
(***************************************************************************)
EXTENDS SettingsPage

CONSTANTS c1, c2

MCFormatsOf == [c \in Cameras |-> IF c = c1 THEN {1, 2} ELSE {2, 4}]
=============================================================================
