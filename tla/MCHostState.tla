----------------------------- MODULE MCHostState -----------------------------
(* The instance of HostState that TLC checks. *)
EXTENDS HostState, TLC

CONSTANTS net, dflt, h1, h2

(* A default route and an IPv6 network, two hops, and two desired sets between
   which the one is changed and the other added or deleted. *)
Table(n, d) == [s \in Slots |-> IF s = net THEN n ELSE d]
Via(h) == [hop |-> h, metric |-> 0]
MCSets == {Table(None, Via(h1)), Table(Via(h1), Via(h2))}

(* A package that fits, with requirements, and one whose manifest
   names another publisher. *)
MCPackages == {[manifest |-> "fits", venv |-> TRUE],
               [manifest |-> "other", venv |-> FALSE]}

(* A dock before v4, and one with everything. *)
MCAnswers == {{}, {"agent_id", "bot_user_id", "host_id", "proxy"}}

(* Two transactions, two installers, and so on: each behaviour follows one
   component, so the two actors of each are the same two values, and exchanging
   those is a symmetry of all of them. *)
ActorSymmetry == Permutations(Txns)
=============================================================================
