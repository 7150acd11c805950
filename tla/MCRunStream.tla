---------------------------- MODULE MCRunStream -----------------------------
(* The instances of RunStream that TLC checks. *)
EXTENDS RunStream
=============================================================================
