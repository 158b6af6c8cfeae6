---------------------------- MODULE MCGraphThreads ----------------------------
(* Instances of GraphThreads for TLC: who does what. *)
EXTENDS GraphThreads, TLC

CONSTANTS t1, t2, t3, A, B, C

Does(kind, origin, dead) == [kind |-> kind, origin |-> origin, dead |-> dead]

New == Does("new", C, {})
Fresh == Does("fresh", A, {})
FreshDead == Does("fresh", A, {B})
Failure == Does("failure", B, {B})
Neighbour == Does("neighbour", A, {})
Read == Does("read", A, {})

(* A reader, and any two that store, drop and prune; or three that leave the
   database as it is. *)
RebuildTasks ==
  {(t1 :> x @@ t2 :> y @@ t3 :> Read) :
     x, y \in {New, Fresh, FreshDead, Failure, Read}}
  \cup [{t1, t2, t3} -> {Fresh, Neighbour, Read}]
(* Two new origins at once. *)
StuckTasks == {(t1 :> New @@ t2 :> Does("new", B, {}) @@ t3 :> Read)}
=============================================================================
