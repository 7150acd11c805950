----------------------------- MODULE MCWorkTree -----------------------------
(* WorkTree with two jobs of any kind in one directory. *)
EXTENDS WorkTree, TLC

JobSymmetry == Permutations(Jobs)
=============================================================================
