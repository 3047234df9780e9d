---------------------------- MODULE MCLocalStore ----------------------------
(* Two accounts, interchangeable; an old file of two meetings and room for *)
(* one more, in a history that keeps two.                                  *)
EXTENDS LocalStore, TLC

MCSymmetry == Permutations(Accounts)
=============================================================================
