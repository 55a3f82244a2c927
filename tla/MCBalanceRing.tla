--------------------------- MODULE MCBalanceRing ---------------------------
(* Runs of upload.sh are interchangeable: no property names one. *)
EXTENDS BalanceRing, TLC

RunSymmetry == Permutations(Run)
=============================================================================
