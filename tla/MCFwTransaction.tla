-------------------------- MODULE MCFwTransaction ---------------------------
(* The instance of FwTransaction that TLC checks. *)
EXTENDS FwTransaction
=============================================================================
