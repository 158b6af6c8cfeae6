----------------------------- MODULE GraphThreads -----------------------------
(***************************************************************************)
(* The topology graph of one router (rtun-routing/lsr.py) and the threads   *)
(* that rebuild it from LSA_DB.  graph_lock guards the graph, not LSA_DB,   *)
(* and is taken with acquire/release without try/finally.  Two things of    *)
(* Python matter here:                                                      *)
(*   - a dict whose size changes during a "for ... in" raises RuntimeError  *)
(*     in the loop, and the thread dies with whatever it has locked;        *)
(*   - "graph" is a name: add_neighbour binds it to a new list, while a     *)
(*     Timer keeps the list it was given.                                   *)
(*                                                                         *)
(* An origin stands for the links its LSA contributes to the graph; the     *)
(* router's own links are not of interest.  inactive_list is always empty,  *)
(* so the removals updateGraphAfterFailure makes for it are not there.      *)
(***************************************************************************)
EXTENDS Naturals, FiniteSets

CONSTANTS
  Threads,   \* threads: handlers of LSAs with their timers, and the others
  Origins,   \* the routers whose LSAs may be in the database
  AtStart,   \* those in the database from the start
  Tasks,     \* what the threads may have to do, see Task
  NoThread   \* graph_lock is free

Task ==
  [kind : {"new", "fresh", "failure", "neighbour", "read"},
   origin : Origins, dead : SUBSET Origins]

ASSUME TasksAssumption ==
  /\ IsFiniteSet(Threads) /\ NoThread \notin Threads
  /\ IsFiniteSet(Origins) /\ AtStart \subseteq Origins
  /\ Tasks \subseteq [Threads -> Task]

VARIABLES
  LSA_DB,     \* the origins in ReceiveThread.LSA_DB
  graph,      \* the list the global name graph is bound to
  links,      \* per list, the origins whose links it holds
  graph_lock, \* the thread that holds the lock
  task,       \* what each thread does
  pc,         \* where it is
  arg,        \* the list it was given
  size,       \* the size of LSA_DB when its loop began
  seen,       \* the origins its loop has done
  routed      \* the origins shortest_paths was last computed from

vars == <<LSA_DB, graph, links, graph_lock, task, pc, arg, size, seen, routed>>

\* Every thread binds graph to a new list at most once.
Lists == 0..Cardinality(Threads)

\* Where updateGraph waits for the lock, and the places behind it.
Waiting == {"prune", "bind", "rebuild", "organize", "look"}
Over == {"done", "dead", "brokenOff"}

TypeOK ==
  /\ LSA_DB \subseteq Origins
  /\ graph \in Lists
  /\ links \in [Lists -> SUBSET Origins]
  /\ graph_lock \in Threads \cup {NoThread}
  /\ task \in Tasks
  /\ pc \in [Threads -> Waiting \cup Over \cup
                {"store", "drop", "forget", "timer", "scan", "clear", "fill",
                 "release", "reading"}]
  /\ arg \in [Threads -> Lists]
  /\ size \in [Threads -> 0..Cardinality(Origins)]
  /\ seen \in [Threads -> SUBSET Origins]
  /\ routed \subseteq Origins

FirstStep(t) ==
  CASE t.kind \in {"new", "fresh"} -> "store"
    [] t.kind = "failure"          -> "drop"
    [] t.kind = "neighbour"        -> "bind"
    [] t.kind = "read"             -> "look"

Init ==
  /\ LSA_DB = AtStart
  /\ graph = 0
  /\ links = [l \in Lists |-> IF l = 0 THEN AtStart ELSE {}]
  /\ graph_lock = NoThread
  /\ task \in Tasks
  /\ pc = [t \in Threads |-> FirstStep(task[t])]
  /\ arg = [t \in Threads |-> 0]
  /\ size = [t \in Threads |-> 0]
  /\ seen = [t \in Threads |-> {}]
  /\ routed = {}

Goto(t, label) == pc' = [pc EXCEPT ![t] = label]

Free == graph_lock = NoThread

-----------------------------------------------------------------------------
(* What comes before a rebuild; none of it holds the lock on LSA_DB. *)

(***************************************************************************)
(* serverSide stores the LSA.  A new origin: updateGraph(graph, LSA_DB, 0)  *)
(* follows in the same thread.  A fresh LSA: the dead routers it names are  *)
(* dropped first, and the rebuild is left to a Timer.                       *)
(***************************************************************************)
Store(t) ==
  /\ pc[t] = "store"
  /\ LSA_DB' = LSA_DB \cup {task[t].origin}
  /\ arg' = [arg EXCEPT ![t] = graph]
  /\ Goto(t, IF task[t].kind = "new" THEN "rebuild"
             ELSE IF task[t].dead = {} THEN "timer" ELSE "drop")
  /\ UNCHANGED <<graph, links, graph_lock, task, size, seen, routed>>

(* updateLSADB *)
Drop(t) ==
  /\ pc[t] = "drop"
  /\ LSA_DB' = LSA_DB \ task[t].dead
  /\ arg' = [arg EXCEPT ![t] = graph]
  /\ Goto(t, "prune")
  /\ UNCHANGED <<graph, links, graph_lock, task, size, seen, routed>>

(* Mutant: without the lock. *)
PruneUnlocked(t) ==
  /\ pc[t] = "prune"
  /\ \E removed \in SUBSET task[t].dead :
       links' = [links EXCEPT ![arg[t]] = @ \ removed]
  /\ arg' = [arg EXCEPT ![t] = graph]
  /\ Goto(t, IF task[t].kind = "failure" THEN "forget" ELSE "timer")
  /\ UNCHANGED <<LSA_DB, graph, graph_lock, task, size, seen, routed>>

(***************************************************************************)
(* updateGraphOnly removes from the list it iterates over: any part of the  *)
(* dead links may survive.                                                  *)
(***************************************************************************)
Prune(t) ==
  /\ pc[t] = "prune"
  /\ Free
  /\ \E removed \in SUBSET task[t].dead :
       links' = [links EXCEPT ![arg[t]] = @ \ removed]
  /\ arg' = [arg EXCEPT ![t] = graph]
  /\ Goto(t, IF task[t].kind = "failure" THEN "forget" ELSE "timer")
  /\ UNCHANGED <<LSA_DB, graph, graph_lock, task, size, seen, routed>>

(***************************************************************************)
(* remove_inactive, after it has transmitted: LSA_DB.pop, and then          *)
(* updateGraphAfterFailure(graph, ...) in the same thread.                  *)
(***************************************************************************)
Forget(t) ==
  /\ pc[t] = "forget"
  /\ LSA_DB' = LSA_DB \ task[t].dead
  /\ arg' = [arg EXCEPT ![t] = graph]
  /\ Goto(t, "timer")
  /\ UNCHANGED <<graph, links, graph_lock, task, size, seen, routed>>

(***************************************************************************)
(* updateGraphAfterFailure goes through LSA_DB before it calls updateGraph; *)
(* of its loops over it only the first catches RuntimeError.                *)
(***************************************************************************)
BeginScan(t) ==
  /\ pc[t] = "timer"
  /\ size' = [size EXCEPT ![t] = Cardinality(LSA_DB)]
  /\ Goto(t, "scan")
  /\ UNCHANGED <<LSA_DB, graph, links, graph_lock, task, arg, seen, routed>>

EndScan(t) ==
  /\ pc[t] = "scan"
  /\ Goto(t, IF Cardinality(LSA_DB) = size[t] THEN "rebuild" ELSE "dead")
  /\ UNCHANGED <<LSA_DB, graph, links, graph_lock, task, arg, size, seen, routed>>

-----------------------------------------------------------------------------
(* updateGraph *)

Acquire(t) ==
  /\ pc[t] = "rebuild"
  /\ Free
  /\ graph_lock' = t
  /\ Goto(t, "clear")
  /\ UNCHANGED <<LSA_DB, graph, links, task, arg, size, seen, routed>>

(* With flag 1 the list the name graph has NOW is cleared. *)
Clear(t) ==
  /\ pc[t] = "clear"
  /\ links' = IF task[t].kind = "new" THEN links ELSE [links EXCEPT ![graph] = {}]
  /\ size' = [size EXCEPT ![t] = Cardinality(LSA_DB)]
  /\ seen' = [seen EXCEPT ![t] = {}]
  /\ Goto(t, "fill")
  /\ UNCHANGED <<LSA_DB, graph, graph_lock, task, arg, routed>>

(* One turn of the loop over LSA_DB: the links go to the list given. *)
Fill(t) ==
  /\ pc[t] = "fill"
  /\ Cardinality(LSA_DB) = size[t]
  /\ \E o \in LSA_DB \ seen[t] :
       /\ links' = [links EXCEPT ![arg[t]] = @ \cup {o}]
       /\ seen' = [seen EXCEPT ![t] = @ \cup {o}]
  /\ UNCHANGED <<LSA_DB, graph, graph_lock, task, pc, arg, size, routed>>

(* Mutant: the thread that dies releases the lock all the same. *)
BreakOffReleasing(t) ==
  /\ pc[t] = "fill"
  /\ Cardinality(LSA_DB) # size[t]
  /\ Goto(t, "brokenOff")
  /\ graph_lock' = NoThread
  /\ UNCHANGED <<LSA_DB, graph, links, task, arg, size, seen, routed>>

(* The size of LSA_DB has changed: the thread dies and keeps the lock. *)
BreakOff(t) ==
  /\ pc[t] = "fill"
  /\ Cardinality(LSA_DB) # size[t]
  /\ Goto(t, "brokenOff")
  /\ UNCHANGED <<LSA_DB, graph, links, graph_lock, task, arg, size, seen, routed>>

EndFill(t) ==
  /\ pc[t] = "fill"
  /\ Cardinality(LSA_DB) = size[t]
  /\ LSA_DB \subseteq seen[t]
  /\ Goto(t, "release")
  /\ UNCHANGED <<LSA_DB, graph, links, graph_lock, task, arg, size, seen, routed>>

(* Mutant: the lock is kept until after organizeGraph, which takes it too. *)
ReleaseLate(t) ==
  /\ pc[t] = "release"
  /\ Goto(t, "organize")
  /\ UNCHANGED <<LSA_DB, graph, links, graph_lock, task, arg, size, seen, routed>>

Release(t) ==
  /\ pc[t] = "release"
  /\ graph_lock' = NoThread
  /\ Goto(t, "organize")
  /\ UNCHANGED <<LSA_DB, graph, links, task, arg, size, seen, routed>>

(* organizeGraph under the lock, and the Timer that runs shortest_paths. *)
Organize(t) ==
  /\ pc[t] = "organize"
  /\ Free
  /\ routed' = links[arg[t]]
  /\ Goto(t, "done")
  /\ UNCHANGED <<LSA_DB, graph, links, graph_lock, task, arg, size, seen>>

-----------------------------------------------------------------------------
(* The other users of graph *)

(***************************************************************************)
(* add_neighbour binds graph to a new list that holds only the router's own *)
(* links.                                                                   *)
(***************************************************************************)
BindGraph(t) ==
  /\ pc[t] = "bind"
  /\ Free
  /\ graph' = graph + 1
  /\ Goto(t, "done")
  /\ UNCHANGED <<LSA_DB, links, graph_lock, task, arg, size, seen, routed>>

(* ConnectionThread.connections collects the peers of the graph. *)
Look(t) ==
  /\ pc[t] = "look"
  /\ Free
  /\ graph_lock' = t
  /\ Goto(t, "reading")
  /\ UNCHANGED <<LSA_DB, graph, links, task, arg, size, seen, routed>>

Looked(t) ==
  /\ pc[t] = "reading"
  /\ graph_lock' = NoThread
  /\ Goto(t, "done")
  /\ UNCHANGED <<LSA_DB, graph, links, task, arg, size, seen, routed>>

Run(t) ==
  \/ Store(t)
  \/ Drop(t)
  \/ Prune(t)
  \/ Forget(t)
  \/ BeginScan(t)
  \/ EndScan(t)
  \/ Acquire(t)
  \/ Clear(t)
  \/ Fill(t)
  \/ BreakOff(t)
  \/ EndFill(t)
  \/ Release(t)
  \/ Organize(t)
  \/ BindGraph(t)
  \/ Look(t)
  \/ Looked(t)

Next == \E t \in Threads : Run(t)

Spec == Init /\ [][Next]_vars

\* The interpreter lets every thread go on that can; a thread that waits for
\* graph_lock gets it if nobody else takes it any more.
FairSpec == Spec /\ \A t \in Threads : WF_vars(Run(t))

-----------------------------------------------------------------------------
(* Properties *)

(***************************************************************************)
(* Whoever reads graph under graph_lock reads a whole one: no rebuild is    *)
(* under way, and none was broken off halfway.  (A rebuild that is broken    *)
(* off keeps the lock, so nobody ever sees what it left.)                   *)
(***************************************************************************)
ReadersSeeWholeGraph ==
  \A t, u \in Threads :
    pc[t] = "reading" => pc[u] \notin {"clear", "fill", "brokenOff"}

GraphUpdated(t) ==
  pc[t] = "release" /\ pc'[t] = "organize" => seen[t] \subseteq links[graph]

KindsWithin(kinds) == \A t \in Threads : task[t].kind \in kinds

(***************************************************************************)
(* When updateGraph is through, the global graph has the links of every LSA *)
(* it went through ("Update global graph using constructed link-state       *)
(* database"), whatever the others store, drop and prune meanwhile, as long *)
(* as no neighbour joins.                                                   *)
(***************************************************************************)
UpdatesReachGraph ==
  [][KindsWithin({"new", "fresh", "failure", "read"}) =>
       \A t \in Threads : GraphUpdated(t)]_vars

(* No origin enters or leaves LSA_DB. *)
DatabaseFixed ==
  \A t \in Threads :
    /\ task[t].kind \in {"fresh", "neighbour", "read"}
    /\ task[t].dead = {}
    /\ task[t].kind = "fresh" => task[t].origin \in AtStart

(***************************************************************************)
(* "After getting a fresh LSA, we wait for sometime (so that the global     *)
(* graph can update) and then recompute shortest paths": while the origins  *)
(* in the database stay the same, every Timer that is set comes to recompute *)
(* them, however neighbours and readers take and release the lock.          *)
(***************************************************************************)
RoutesRecomputed ==
  \A t \in Threads : (DatabaseFixed /\ pc[t] = "timer") ~> pc[t] = "done"

(***************************************************************************)
(* "Update global graph using constructed link-state database": a thread    *)
(* that comes to update the graph does so, and does not wait for ever for a *)
(* lock that died with its holder, or become such a holder.                 *)
(***************************************************************************)
UpdatesComplete ==
  \A t \in Threads : pc[t] = "rebuild" ~> pc[t] = "organize"

=============================================================================
