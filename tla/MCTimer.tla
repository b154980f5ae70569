------------------------------ MODULE MCTimer ------------------------------
(* Timer for TLC: threads that call reset() are alike.                     *)
EXTENDS Timer, TLC

ResetterSymmetry == Permutations(Resetters)
=============================================================================
