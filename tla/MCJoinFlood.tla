----------------------------- MODULE MCJoinFlood -----------------------------
(* JOINs and LOOKUPs in an overlay of five routers. *)
EXTENDS Lookup, TLC

CONSTANTS S, A, B, C, D, j1, j2

Linked(pairs) == [r \in Routers |-> {q \in Routers : {r, q} \in pairs}]

(* A short and a long way from S to B, C behind it, and D behind C. *)
Kite == Linked({{S, A}, {A, B}, {S, B}, {B, C}, {C, D}})

(* From S to B it is cheaper by A. *)
KiteCost == [link \in Links |-> IF link = {S, B} THEN 5 ELSE IF A \in link THEN 2 ELSE 1]

(* With a TTL of 3: C is just in reach of S, and S just out of reach of D. *)
NearAndFarSource == [j \in Joins |-> IF j = j1 THEN S ELSE D]
NearAndFarDest == [j \in Joins |-> IF j = j1 THEN C ELSE S]
=============================================================================
