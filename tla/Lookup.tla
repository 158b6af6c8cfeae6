-------------------------------- MODULE Lookup --------------------------------
(***************************************************************************)
(* How a LOOKUP is routed (rtun-routing/lsr.py, tester.py).  The tester of  *)
(* a router writes the whole way, its own least-cost path, into the Route   *)
(* field; each router pops its next hop.  If that one is no neighbour any   *)
(* more, the router asks its own table, and in the end takes any neighbour; *)
(* the rest of the Route stays as it was.                                   *)
(*                                                                         *)
(* A link may be cut: its two ends notice it one after the other, and every *)
(* router computes its paths again when it has heard of it.  The link-state *)
(* protocol that tells it is module Advertise, the JOINs that are flooded   *)
(* over the same neighbour lists are module JoinFlood.                      *)
(***************************************************************************)
EXTENDS JoinFlood, FiniteSets, SequencesExt

CONSTANTS
  Cost,        \* the cost of each link, a set of two routers
  LookupTTL,   \* the TTL a LOOKUP starts with
  MaxLookups,  \* bound: the LOOKUPs sent, one at a time
  MaxCuts      \* bound: the links cut

Links == {{r, q} : r \in Routers, q \in Routers} \cap
           UNION {{{r, q} : q \in Nbrs[r]} : r \in Routers}

ASSUME LookupAssumption ==
  /\ IsFiniteSet(Routers)
  /\ \A r \in Routers : r \notin Nbrs[r] /\ \A q \in Nbrs[r] : r \in Nbrs[q]
  /\ Cost \in [Links -> Nat]
  /\ LookupTTL \in Nat \ {0} /\ MaxLookups \in Nat /\ MaxCuts \in Nat

VARIABLES
  links,           \* the links that are up
  neighbours,      \* per router, Neighbours Data and the keys of circuit_info
  shortest_paths,  \* per router, its least-cost path to every router it knows
  lookup,          \* the LOOKUP under way, or NoLookup
  sent,            \* how many have been sent
  outcome          \* what has become of the last: the path it took, or why not

lookupVars == <<links, neighbours, shortest_paths, lookup, sent, outcome>>

-----------------------------------------------------------------------------
(* Least-cost paths *)

Hops(p) == {{p[i], p[i + 1]} : i \in 1..(Len(p) - 1)}

PathCost(p) ==
  LET cost[n \in 1..Len(p)] ==
        IF n = 1 THEN 0 ELSE cost[n - 1] + Cost[{p[n - 1], p[n]}]
  IN cost[Len(p)]

(* The ways along the links that visit no router twice. *)
Ways ==
  LET all == 1..Cardinality(Routers)
  IN {p \in {SubSeq(seq, 1, n) : seq \in Injection(all, Routers), n \in all} :
        Hops(p) \subseteq Links}

PathsFrom(r, graph) == {p \in Ways : p[1] = r /\ Hops(p) \subseteq graph}

(* nx.shortest_path, of networkx: for each router that can be reached, one. *)
LeastCost(r, graph) ==
  LET ways == PathsFrom(r, graph)
      To(d) == {p \in ways : Last(p) = d}
  IN [d \in {Last(p) : p \in ways} |->
        CHOOSE p \in To(d) : \A q \in To(d) : PathCost(p) <= PathCost(q)]

(* updateGraph, of all advertisements: a link is one that either end lists. *)
Graph(nbrs) == UNION {{{r, q} : q \in nbrs[r]} : r \in Routers}

(* next_hop: the destination if it is a neighbour, or as the table says. *)
NextHop(r, dest) ==
  IF dest \in neighbours[r] THEN {dest}
  ELSE IF dest \in DOMAIN shortest_paths[r] /\ dest # r THEN {shortest_paths[r][dest][2]}
  ELSE {}

-----------------------------------------------------------------------------
(* The states *)

NoLookup == [at |-> "nowhere"]

(* planned and rerouted are history: what the source meant, and whether a hop was replaced. *)
LookupMessage ==
  [at : Routers, ttl : 0..LookupTTL, route : Seq(Routers), path : Seq(Routers),
   dest : Routers, planned : Seq(Routers), rerouted : BOOLEAN]

LookupTypeOK ==
  /\ TypeOK
  /\ links \subseteq Links
  /\ neighbours \in [Routers -> SUBSET Routers]
  /\ \A r \in Routers : \A d \in DOMAIN shortest_paths[r] :
       LET p == shortest_paths[r][d] IN p[1] = r /\ Last(p) = d /\ Hops(p) \subseteq Links
  /\ lookup = NoLookup \/ lookup \in LookupMessage
  /\ sent \in 0..MaxLookups
  /\ outcome.is \in {"none", "arrived", "expired", "lost"}

(* The link-state protocol has settled. *)
LookupInit ==
  /\ links = Links
  /\ neighbours = Nbrs
  /\ shortest_paths = [r \in Routers |-> LeastCost(r, Links)]
  /\ lookup = NoLookup /\ sent = 0 /\ outcome = [is |-> "none"]

Ends(m, how) == lookup' = NoLookup /\ outcome' = [is |-> how, message |-> m]

(* send_to_stream: a message to a neighbour; on a link that is cut it is lost. *)
SendTo(m, q) ==
  IF {m.at, q} \in links
    THEN lookup' = [m EXCEPT !.at = q] /\ UNCHANGED outcome
    ELSE Ends(m, "lost")

(* The hop of the Route is no neighbour: next_hop, or else any neighbour. *)
Detours(m) ==
  LET hop == NextHop(m.at, m.dest)
  IN IF hop # {} THEN hop ELSE neighbours[m.at]

Rerouted(m) ==
  /\ m.route # <<>> /\ Head(m.route) \notin neighbours[m.at]
  /\ LET on == [m EXCEPT !.route = Tail(@), !.rerouted = TRUE]
     IN \/ \E q \in Detours(m) \cap neighbours[m.at] : SendTo(on, q)
        \/ /\ Detours(m) = {} \/ Detours(m) \ neighbours[m.at] # {}
           /\ Ends(on, "lost")

(* Nothing is left in the Route: nothing is sent. *)
Unrouted(m) == m.route = <<>> /\ Ends(m, "lost")

(* Mutant: the last hop is popped. *)
RoutedLast(m) ==
  /\ m.route # <<>> /\ Last(m.route) \in neighbours[m.at]
  /\ SendTo([m EXCEPT !.route = Front(@)], Last(m.route))

(* The next hop of the Route is a neighbour. *)
Routed(m) ==
  /\ m.route # <<>> /\ Head(m.route) \in neighbours[m.at]
  /\ SendTo([m EXCEPT !.route = Tail(@)], Head(m.route))

(* Mutant: a hop too early. *)
RouteMessageEarly(m) ==
  LET on == [m EXCEPT !.ttl = @ - 1]
  IN IF on.ttl <= 1 THEN Ends(on, "expired")
     ELSE Routed(on) \/ Rerouted(on) \/ Unrouted(on)

(* route_message at the router the message is at, which is not its destination. *)
RouteMessage(m) ==
  LET on == [m EXCEPT !.ttl = @ - 1]
  IN IF on.ttl = 0 THEN Ends(on, "expired")
     ELSE Routed(on) \/ Rerouted(on) \/ Unrouted(on)

(* The tester sends a LOOKUP to a router it knows, with the way to it. *)
SendLookup(r) ==
  /\ lookup = NoLookup /\ sent < MaxLookups
  /\ sent' = sent + 1
  /\ \E d \in DOMAIN shortest_paths[r] \ {r} :
       RouteMessage([at |-> r, ttl |-> LookupTTL, route |-> Tail(shortest_paths[r][d]),
                     path |-> <<r>>, dest |-> d, planned |-> shortest_paths[r][d],
                     rerouted |-> FALSE])
  /\ UNCHANGED <<links, neighbours, shortest_paths>>

(* handle_LOOKUP: the router adds itself to the Path, even if it is there.   *)
HandleLookup ==
  /\ lookup # NoLookup
  /\ LET m == [lookup EXCEPT !.path = Append(@, lookup.at)]
     IN IF m.dest = m.at THEN Ends(m, "arrived") ELSE RouteMessage(m)
  /\ UNCHANGED <<links, neighbours, shortest_paths, sent>>

-----------------------------------------------------------------------------
(* The network *)

Cut(link) ==
  /\ Cardinality(Links \ links) < MaxCuts
  /\ links' = links \ {link}
  /\ UNCHANGED <<neighbours, shortest_paths, lookup, sent, outcome>>

(* One end has missed the heartbeats: remove_circuit, transmitNewLSA. *)
Notice(r) ==
  \E q \in neighbours[r] :
    /\ {r, q} \notin links
    /\ neighbours' = [neighbours EXCEPT ![r] = @ \ {q}]
    /\ UNCHANGED <<links, shortest_paths, lookup, sent, outcome>>

(* The Timer: shortest_paths keeps the old table if its router is in no link. *)
Recompute(r) ==
  LET graph == Graph(neighbours)
  IN /\ r \in UNION graph
     /\ graph # Links
     /\ shortest_paths' = [shortest_paths EXCEPT ![r] = LeastCost(r, graph)]
     /\ UNCHANGED <<links, neighbours, lookup, sent, outcome>>

LookupNext ==
  \/ \E r \in Routers : SendLookup(r) \/ Notice(r) \/ Recompute(r)
  \/ \E link \in links : Cut(link)
  \/ HandleLookup

(***************************************************************************)
(* The floods and the LOOKUPs have only the neighbour lists in common,      *)
(* which neither changes, so that an execution is of one kind or the other. *)
(***************************************************************************)
OverlayNext ==
  \/ Next /\ sent = 0 /\ links = Links /\ UNCHANGED lookupVars
  \/ LookupNext /\ (\A j \in Joins : phase[j] = "idle") /\ UNCHANGED vars

OverlayInit == Init /\ LookupInit

OverlaySpec ==
  /\ OverlayInit
  /\ [][OverlayNext]_<<vars, lookupVars>>
  /\ Fairness

-----------------------------------------------------------------------------
(* Properties *)

(* The LOOKUP under way, and the last one if it has come to its end. *)
Seen == ({lookup} \ {NoLookup}) \cup
          (IF outcome.is = "none" THEN {} ELSE {outcome.message})

(***************************************************************************)
(* A LOOKUP of which no hop was replaced takes the way its source planned,  *)
(* through whatever the tables become meanwhile, so visits no router twice. *)
(***************************************************************************)
FollowsPlan ==
  \A m \in Seen : ~m.rerouted => IsPrefix(m.path, m.planned) /\ IsInjective(m.path)

(***************************************************************************)
(* While all links are up, a LOOKUP arrives unless its way has as many hops *)
(* as the TTL says or more.                                                 *)
(***************************************************************************)
LostForCause ==
  outcome.is \in {"lost", "expired"} =>
    links # Links \/ Len(outcome.message.planned) > LookupTTL

=============================================================================
