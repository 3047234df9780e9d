--------------------------- MODULE MCMediaSession ---------------------------
(* Two other members, interchangeable. *)
EXTENDS MediaSession, TLC

MCSymmetry == Permutations(Users)
=============================================================================
