--------------------------- MODULE MCComputeTasks ---------------------------
(* The instance of ComputeTasks that TLC checks. *)
EXTENDS ComputeTasks
=============================================================================
