----------------------------- MODULE RouteDiff ------------------------------
(***************************************************************************)
(* The three-way diff of routecmd/model.go, the inverse of route_task.go   *)
(* and what the commands of routecmd/render.go do to a Linux kernel table, *)
(* over slots (address family and destination).  A hop is what two routes  *)
(* of a slot must share to be the same route: kind, gateway and device;    *)
(* every route asked for names its device.  A kernel slot holds one route  *)
(* per metric, and a listing shows the one of least metric first.          *)
(***************************************************************************)
EXTENDS Naturals

CONSTANTS
  Slots,    \* address family and destination
  Hops,     \* kind, gateway and device
  Metrics,  \* the metrics in use
  None      \* no route

ASSUME DiffAssumption ==
  /\ None \notin Hops
  /\ Metrics \subseteq Nat /\ Metrics # {}
  /\ None \notin [hop : Hops, metric : Metrics]

Routes == [hop : Hops, metric : Metrics]
Tables == [Slots -> Routes \cup {None}]
Kernels == [Slots -> [Metrics -> Hops \cup {None}]]
Empty == [s \in Slots |-> None]

Acts == {"add", "change", "delete"}
Ops == [act : Acts, slot : Slots, route : Routes]

(* Route.same: the metric is not compared. *)
Same(r, o) == r # None /\ o # None /\ r.hop = o.hop

(* The first route of a slot in a listing. *)
First(slot) ==
  IF \A m \in Metrics : slot[m] = None THEN None
  ELSE LET low == CHOOSE m \in Metrics : /\ slot[m] # None
                                         /\ \A n \in Metrics : slot[n] # None => m <= n
       IN  [hop |-> slot[low], metric |-> low]

Listed(kernel) == [s \in Slots |-> First(kernel[s])]

(* Mutated operators. *)

(* A route that is there but differs is left alone. *)
DiffAddOnly(desired, managed, listed) ==
  {[act |-> "add", slot |-> s, route |-> desired[s]] :
     s \in {x \in Slots : desired[x] # None /\ listed[x] = None}}

(* What undoes a change puts back the route that was asked for. *)
UndoForgets(op, before) ==
  CASE op.act = "add" -> [op EXCEPT !.act = "delete"]
    [] op.act = "delete" -> [act |-> "add", slot |-> op.slot, route |-> before[op.slot]]
    [] op.act = "change" -> op

-----------------------------------------------------------------------------
(* What moves the kernel table to the desired set: add what is missing, change
   what differs, delete what was managed and is no longer desired. *)
Diff(desired, managed, listed) ==
  {[act |-> "add", slot |-> s, route |-> desired[s]] :
     s \in {x \in Slots : desired[x] # None /\ listed[x] = None}}
  \cup
  {[act |-> "change", slot |-> s, route |-> desired[s]] :
     s \in {x \in Slots : /\ desired[x] # None /\ listed[x] # None
                          /\ ~ Same(listed[x], desired[x])}}
  \cup
  {[act |-> "delete", slot |-> s, route |-> managed[s]] :
     s \in {x \in Slots : /\ managed[x] # None /\ desired[x] = None
                          /\ listed[x] # None}}

(* What undoes an op, given the listing it was computed from. *)
Undo(op, before) ==
  CASE op.act = "add" -> [op EXCEPT !.act = "delete"]
    [] op.act = "delete" -> [act |-> "add", slot |-> op.slot, route |-> before[op.slot]]
    [] op.act = "change" -> [op EXCEPT !.route = before[op.slot]]

InverseOps(ops, before) == {Undo(op, before) : op \in ops}

(* "ip route replace": the route of the same metric is replaced, or one more is
   added; "ip route del" without a metric removes the first. *)
Put(route, slot) == [slot EXCEPT ![route.metric] = route.hop]
Drop(slot) == [slot EXCEPT ![First(slot).metric] = None]

(* Whether the command of op can succeed, and what it then does. *)
Runs(op, kernel) == op.act = "delete" => First(kernel[op.slot]) # None

Exec(op, kernel) ==
  [kernel EXCEPT ![op.slot] = IF op.act = "delete" THEN Drop(kernel[op.slot])
                              ELSE Put(op.route, kernel[op.slot])]
=============================================================================
