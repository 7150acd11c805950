------------------------------ MODULE Doorbell ------------------------------
(***************************************************************************)
(* What single-flight draining with a pending flag promises: one server,   *)
(* and a ring that was let in is never answered by an attempt that began   *)
(* before it.  The server rests only when every ring it let in has been    *)
(* followed by an attempt that began later.                                *)
(***************************************************************************)
VARIABLES
  door,  \* somebody rang and has not been let in
  rung,  \* a ring was let in and no attempt has begun since
  busy   \* the server is working

vars == <<door, rung, busy>>

TypeOK == door \in BOOLEAN /\ rung \in BOOLEAN /\ busy \in BOOLEAN

Init == ~door /\ ~rung /\ ~busy

Ring == door' = TRUE /\ UNCHANGED <<rung, busy>>

(* Let one ring in; others may still be at the door. *)
LetIn == door /\ door' \in BOOLEAN /\ rung' = TRUE /\ busy' = TRUE

(* An attempt begins; a ring let in while it was being prepared may remain. *)
Attempt == busy /\ rung /\ rung' \in BOOLEAN /\ UNCHANGED <<door, busy>>

Rest == busy /\ ~rung /\ busy' = FALSE /\ UNCHANGED <<door, rung>>

Next == Ring \/ LetIn \/ Attempt \/ Rest

Spec == Init /\ [][Next]_vars
=============================================================================
