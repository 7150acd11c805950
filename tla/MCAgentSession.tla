--------------------------- MODULE MCAgentSession ---------------------------
(* The instances of AgentSession that TLC checks. *)
EXTENDS AgentSession
=============================================================================
