---------------------------- MODULE MCTaskClaim -----------------------------
(* The instance of TaskClaim that TLC checks. *)
EXTENDS TaskClaim
=============================================================================
