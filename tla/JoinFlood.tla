------------------------------ MODULE JoinFlood ------------------------------
(***************************************************************************)
(* How a router asks a distant peer for a connection (rtun-routing/lsr.py,  *)
(* rtun.py).  ConnectionThread has its own main thread ESTABLISH a          *)
(* rendezvous point, then floods a JOIN with a TTL through the overlay; the *)
(* destination's handler queues it for its main thread, which starts a      *)
(* RendezvousConnect thread.  A relay neither remembers what it forwarded   *)
(* nor spares the neighbour it got it from: only the TTL ends the flood.    *)
(*                                                                         *)
(* The neighbours do not change during a flood.  The rendezvous points,     *)
(* cookies and the Route field, which flood_message ignores, are left out;  *)
(* copies of a JOIN that differ in nothing are one.                         *)
(***************************************************************************)
EXTENDS Integers, Sequences

CONSTANTS
  Routers,
  Nbrs,     \* [Routers -> SUBSET Routers]: the neighbour lists
  Joins,    \* the identifiers of the JOINs that are sent
  Source,   \* [Joins -> Routers]
  Dest,     \* [Joins -> Routers], candidates: neither neighbour nor source
  InitTTL   \* the TTL a JOIN starts with

ASSUME FloodAssumption ==
  /\ Nbrs \in [Routers -> SUBSET Routers]
  /\ Source \in [Joins -> Routers] /\ Dest \in [Joins -> Routers]
  /\ \A j \in Joins : Dest[j] \notin Nbrs[Source[j]] \cup {Source[j]}
  /\ InitTTL \in Nat \ {0}

VARIABLES
  messages,   \* JOINs in flight
  admitted,   \* handlers at the destination that found the ID not in join_seen
  join_seen,  \* per router, the IDs in ReceiveThread.join_seen
  conn_queue, \* per router, what ConnectionThread and handlers left for main
  phase,      \* per JOIN, where ConnectionThread is
  connects    \* per JOIN, the RendezvousConnect threads started for it

vars == <<messages, admitted, join_seen, conn_queue, phase, connects>>

Message == [id : Joins, to : Routers, from : Routers, ttl : 0..InitTTL]

Command == {"ESTABLISH", "JOIN"} \X Joins

TypeOK ==
  /\ messages \subseteq Message
  /\ admitted \subseteq Message
  /\ join_seen \in [Routers -> SUBSET Joins]
  /\ conn_queue \in [Routers -> Seq(Command)]
  /\ phase \in [Joins -> {"idle", "asked", "sent"}]
  /\ connects \in [Joins -> Nat]

Init ==
  /\ messages = {}
  /\ admitted = {}
  /\ join_seen = [r \in Routers |-> {}]
  /\ conn_queue = [r \in Routers |-> <<>>]
  /\ phase = [j \in Joins |-> "idle"]
  /\ connects = [j \in Joins |-> 0]

-----------------------------------------------------------------------------

\* Mutant: one more hop.
FloodFarther(j, r, ttl) ==
  IF ttl = 0 THEN {}
  ELSE {[id |-> j, to |-> n, from |-> r, ttl |-> ttl - 1] : n \in Nbrs[r]}

(***************************************************************************)
(* flood_message at router r of a JOIN that has ttl left: to every          *)
(* neighbour, unless the TTL is used up.                                    *)
(***************************************************************************)
Flood(j, r, ttl) ==
  IF ttl - 1 = 0 THEN {}
  ELSE {[id |-> j, to |-> n, from |-> r, ttl |-> ttl - 1] : n \in Nbrs[r]}

Put(r, command) == conn_queue' = [conn_queue EXCEPT ![r] = Append(@, command)]

(* ConnectionThread has chosen a peer: main is to establish the point. *)
Ask(j) ==
  /\ phase[j] = "idle"
  /\ phase' = [phase EXCEPT ![j] = "asked"]
  /\ Put(Source[j], <<"ESTABLISH", j>>)
  /\ UNCHANGED <<messages, admitted, join_seen, connects>>

(* Ten seconds later, whatever main has done, the JOIN is flooded. *)
SendJoin(j) ==
  /\ phase[j] = "asked"
  /\ phase' = [phase EXCEPT ![j] = "sent"]
  /\ messages' = messages \cup Flood(j, Source[j], InitTTL)
  /\ UNCHANGED <<admitted, join_seen, conn_queue, connects>>

(***************************************************************************)
(* handle_JOIN at the source: dropped.                                      *)
(***************************************************************************)
DropOwn(m) ==
  /\ m.to = Source[m.id]
  /\ messages' = messages \ {m}
  /\ UNCHANGED <<admitted, join_seen, conn_queue, phase, connects>>

(***************************************************************************)
(* handle_JOIN at the destination.  The ID is looked up first and entered   *)
(* last; every message has a thread of its own.                             *)
(***************************************************************************)
Admit(m) ==
  /\ m.to = Dest[m.id]
  /\ messages' = messages \ {m}
  /\ admitted' = IF m.id \in join_seen[m.to] THEN admitted ELSE admitted \cup {m}
  /\ UNCHANGED <<join_seen, conn_queue, phase, connects>>

QueueJoin(m) ==
  /\ admitted' = admitted \ {m}
  /\ Put(m.to, <<"JOIN", m.id>>)
  /\ join_seen' = [join_seen EXCEPT ![m.to] = @ \cup {m.id}]
  /\ UNCHANGED <<messages, phase, connects>>

(* Mutant: the TTL is not decremented on the way. *)
RelayUndiminished(m) ==
  /\ m.to \notin {Source[m.id], Dest[m.id]}
  /\ messages' = (messages \ {m}) \cup Flood(m.id, m.to, m.ttl + 1)
  /\ UNCHANGED <<admitted, join_seen, conn_queue, phase, connects>>

(* Mutant: a relay floods each JOIN once. *)
RelayOnce(m) ==
  /\ m.to \notin {Source[m.id], Dest[m.id]}
  /\ messages' = (messages \ {m}) \cup
       IF m.id \in join_seen[m.to] THEN {} ELSE Flood(m.id, m.to, m.ttl)
  /\ join_seen' = [join_seen EXCEPT ![m.to] = @ \cup {m.id}]
  /\ UNCHANGED <<admitted, conn_queue, phase, connects>>

(* handle_JOIN anywhere else: flood it along. *)
Relay(m) ==
  /\ m.to \notin {Source[m.id], Dest[m.id]}
  /\ messages' = (messages \ {m}) \cup Flood(m.id, m.to, m.ttl)
  /\ UNCHANGED <<admitted, join_seen, conn_queue, phase, connects>>

(***************************************************************************)
(* The loop of rtun.py: a command of conn_queue starts a thread.            *)
(***************************************************************************)
RunMain(r) ==
  /\ conn_queue[r] # <<>>
  /\ conn_queue' = [conn_queue EXCEPT ![r] = Tail(@)]
  /\ LET command == Head(conn_queue[r])
     IN connects' = IF command[1] = "JOIN"
                      THEN [connects EXCEPT ![command[2]] = @ + 1]
                      ELSE connects
  /\ UNCHANGED <<messages, admitted, join_seen, phase>>

Handle(m) == DropOwn(m) \/ Admit(m) \/ Relay(m)

Next ==
  \/ \E j \in Joins : Ask(j) \/ SendJoin(j)
  \/ \E m \in messages : Handle(m)
  \/ \E m \in admitted : QueueJoin(m)
  \/ \E r \in Routers : RunMain(r)

(***************************************************************************)
(* Every message that is delivered is handled, every handler goes on, and   *)
(* main comes back to its queue.                                            *)
(***************************************************************************)
Fairness ==
  /\ \A j \in Joins : WF_vars(SendJoin(j))
  /\ \A m \in Message :
       /\ WF_vars(m \in messages /\ Handle(m))
       /\ WF_vars(m \in admitted /\ QueueJoin(m))
  /\ \A r \in Routers : WF_vars(RunMain(r))

Spec == Init /\ [][Next]_vars
FairSpec == Spec /\ Fairness

-----------------------------------------------------------------------------
(* Properties *)

(* There is a way of n hops from r to q. *)
HopsApart(r, q, n) ==
  \E way \in [0..n -> Routers] :
    /\ way[0] = r /\ way[n] = q
    /\ \A i \in 1..n : way[i] \in Nbrs[way[i - 1]]

InReach(j) == \E n \in 0..(InitTTL - 1) : HopsApart(Source[j], Dest[j], n)

(***************************************************************************)
(* A JOIN reaches its destination if that is less than TTL hops away, by    *)
(* whatever way its copies come and in whatever order, and there it leads   *)
(* to a RendezvousConnect thread.                                           *)
(***************************************************************************)
JoinReaches ==
  \A j \in Joins : InReach(j) => (phase[j] = "sent" ~> connects[j] > 0)

(***************************************************************************)
(* And only then: a destination TTL hops away or farther is not asked.       *)
(***************************************************************************)
TTLLimitsReach == \A j \in Joins : connects[j] > 0 => InReach(j)

(***************************************************************************)
(* A flood in a network full of cycles comes to an end, with every queue    *)
(* emptied, though no relay remembers a JOIN.                               *)
(***************************************************************************)
FloodEnds ==
  <>[](messages = {} /\ admitted = {} /\ \A r \in Routers : conn_queue[r] = <<>>)

=============================================================================
