-------------------------- MODULE GraphThreads_proofs --------------------------
(***************************************************************************)
(* Theorems about GraphThreads, for any threads, whatever they have to do.  *)
(* All rest on graph_lock: a thread between acquire() and release(), or     *)
(* that died there, is the one the lock names (LockNamesHolder).            *)
(***************************************************************************)
EXTENDS GraphThreads, FiniteSetTheorems, TLAPS

(* The threads that have bound graph to a new list (add_neighbour). *)
Bound == {t \in Threads : task[t].kind = "neighbour" /\ pc[t] = "done"}

(* graph has been bound once by each of them, and a thread is only to bind  *)
(* it if that is its task.                                                  *)
BindsCounted ==
  /\ graph = Cardinality(Bound)
  /\ \A t \in Threads : pc[t] = "bind" => task[t].kind = "neighbour"
  /\ \A t \in Threads : task[t].kind = "neighbour" => pc[t] \in {"bind", "done"}

(* A step of t moves no other thread and changes nobody's task. *)
LEMMA StepOf ==
  ASSUME TypeOK, NEW t \in Threads, Run(t)
  PROVE  /\ task' = task
         /\ pc' \in [Threads -> Waiting \cup Over \cup
                      {"store", "drop", "forget", "timer", "scan", "clear", "fill",
                       "release", "reading"}]
         /\ \A u \in Threads \ {t} : pc'[u] = pc[u]
<1> USE DEF TypeOK, Goto, Waiting, Over
<1>1. CASE Store(t) \/ Prune(t) \/ EndScan(t)
  BY <1>1 DEF Store, Prune, EndScan
<1>2. CASE Fill(t)
  BY <1>2 DEF Fill
<1>3. CASE Drop(t) \/ Forget(t) \/ BeginScan(t) \/ Acquire(t) \/ Clear(t) \/ BreakOff(t)
  BY <1>3 DEF Drop, Forget, BeginScan, Acquire, Clear, BreakOff
<1>4. CASE EndFill(t) \/ Release(t) \/ Organize(t) \/ BindGraph(t) \/ Look(t) \/ Looked(t)
  BY <1>4 DEF EndFill, Release, Organize, BindGraph, Look, Looked
<1> QED BY <1>1, <1>2, <1>3, <1>4 DEF Run

-----------------------------------------------------------------------------
(***************************************************************************)
(* The types.  That graph stays among the Lists is what add_neighbour's     *)
(* tasks allow: each binds it once.                                         *)
(***************************************************************************)
THEOREM TypeCorrect == Spec => [](TypeOK /\ BindsCounted)
<1> USE TasksAssumption
<1>1. Init => TypeOK /\ BindsCounted
  <2> SUFFICES ASSUME Init PROVE TypeOK /\ BindsCounted
    OBVIOUS
  <2>1. \A t \in Threads : task[t] \in Task
    BY DEF Init
  <2>2. \A t \in Threads : FirstStep(task[t]) \in {"store", "drop", "bind", "look"}
    BY <2>1 DEF FirstStep, Task
  <2>3. Cardinality(Threads) \in Nat /\ Cardinality(Origins) \in Nat
    BY FS_CardinalityType
  <2>4. TypeOK
    BY <2>2, <2>3 DEF Init, TypeOK, Waiting, Over, Lists
  <2>5. Bound = {}
    BY <2>2 DEF Init, Bound
  <2>6. \A t \in Threads : pc[t] = "bind" <=> task[t].kind = "neighbour"
    BY <2>1 DEF Init, FirstStep, Task
  <2> QED BY <2>4, <2>5, <2>6, FS_EmptySet DEF Init, BindsCounted
<1>2. TypeOK /\ BindsCounted /\ [Next]_vars => TypeOK' /\ BindsCounted'
  <2> SUFFICES ASSUME TypeOK, BindsCounted, [Next]_vars PROVE TypeOK' /\ BindsCounted'
    OBVIOUS
  <2>1. \A t \in Threads : task[t] \in Task
    BY DEF TypeOK
  <2>2. Cardinality(Threads) \in Nat /\ Cardinality(Origins) \in Nat
    BY FS_CardinalityType
  <2>3. ASSUME NEW t \in Threads, BindGraph(t)
        PROVE  graph' \in Lists /\ BindsCounted'
    <3>1. Bound' = Bound \cup {t} /\ t \notin Bound
      BY <2>3 DEF BindGraph, Bound, BindsCounted, Goto, TypeOK
    <3>2. Bound' \in SUBSET Threads
      BY <2>3 DEF BindGraph, Bound
    <3>3. /\ IsFiniteSet(Bound') /\ Cardinality(Bound') <= Cardinality(Threads)
          /\ Cardinality(Bound') \in Nat
      BY <3>2, FS_Subset, FS_CardinalityType
    <3>4. IsFiniteSet(Bound) /\ Cardinality(Bound') = Cardinality(Bound) + 1
      <4>1. IsFiniteSet(Bound)
        BY FS_Subset DEF Bound
      <4> QED BY <3>1, <4>1, FS_AddElement
    <3>5. graph' = Cardinality(Bound')
      BY <2>3, <3>4 DEF BindGraph, BindsCounted
    <3>6. graph' \in Lists
      BY <2>2, <3>3, <3>5 DEF Lists
    <3>7. /\ \A u \in Threads : pc'[u] = "bind" => task'[u].kind = "neighbour"
          /\ \A u \in Threads : task'[u].kind = "neighbour" => pc'[u] \in {"bind", "done"}
      BY <2>3 DEF BindGraph, BindsCounted, Goto, TypeOK
    <3> QED BY <3>5, <3>6, <3>7 DEF BindsCounted
  <2>4. ASSUME NEW t \in Threads, Run(t), ~BindGraph(t)
        PROVE  graph' = graph /\ BindsCounted'
    <3>1. graph' = graph
      BY <2>4
      DEF Run, Store, Drop, Prune, Forget, BeginScan, EndScan, Acquire, Clear, Fill,
          BreakOff, EndFill, Release, Organize, Look, Looked
    <3>2. task' = task /\ \A u \in Threads \ {t} : pc'[u] = pc[u]
      BY <2>4, StepOf
    <3>3. task[t].kind # "neighbour"
      BY <2>4
      DEF BindsCounted, Run, Store, Drop, Prune, Forget, BeginScan, EndScan, Acquire,
          Clear, Fill, BreakOff, EndFill, Release, Organize, Look, Looked, BindGraph
    <3>4. pc'[t] # "bind"
      BY <2>4
      DEF TypeOK, Goto, Run, Store, Drop, Prune, Forget, BeginScan, EndScan, Acquire,
          Clear, Fill, BreakOff, EndFill, Release, Organize, Look, Looked
    <3>5. Bound' = Bound
      BY <3>2, <3>3 DEF Bound
    <3> QED BY <3>1, <3>2, <3>3, <3>4, <3>5 DEF BindsCounted
  <2>5. ASSUME NEW t \in Threads, Run(t) PROVE TypeOK'
    <3>1. /\ task' \in Tasks
          /\ pc' \in [Threads -> Waiting \cup Over \cup
                       {"store", "drop", "forget", "timer", "scan", "clear", "fill",
                        "release", "reading"}]
      BY <2>5, StepOf DEF TypeOK
    <3>2. LSA_DB' \in SUBSET Origins
      BY <2>1, <2>5
      DEF TypeOK, Task, Run, Store, Drop, Prune, Forget, BeginScan, EndScan, Acquire,
          Clear, Fill, BreakOff, EndFill, Release, Organize, BindGraph, Look, Looked
    <3>3. graph' \in Lists
      BY <2>3, <2>4, <2>5 DEF TypeOK
    <3>4. arg' \in [Threads -> Lists]
      BY <2>5
      DEF TypeOK, Run, Store, Drop, Prune, Forget, BeginScan, EndScan, Acquire,
          Clear, Fill, BreakOff, EndFill, Release, Organize, BindGraph, Look, Looked
    <3>5. graph_lock' \in Threads \cup {NoThread}
      BY <2>5
      DEF TypeOK, Run, Store, Drop, Prune, Forget, BeginScan, EndScan, Acquire,
          Clear, Fill, BreakOff, EndFill, Release, Organize, BindGraph, Look, Looked
    <3>6. size' \in [Threads -> 0..Cardinality(Origins)]
      <4>1. Cardinality(LSA_DB) \in 0..Cardinality(Origins)
        BY <2>2, FS_Subset, FS_CardinalityType DEF TypeOK
      <4> QED BY <2>5, <4>1
              DEF TypeOK, Run, Store, Drop, Prune, Forget, BeginScan, EndScan, Acquire,
                  Clear, Fill, BreakOff, EndFill, Release, Organize, BindGraph, Look,
                  Looked
    <3>7. seen' \in [Threads -> SUBSET Origins]
      BY <2>5
      DEF TypeOK, Run, Store, Drop, Prune, Forget, BeginScan, EndScan, Acquire,
          Clear, Fill, BreakOff, EndFill, Release, Organize, BindGraph, Look, Looked
    <3>8. links' \in [Lists -> SUBSET Origins]
      <4>1. CASE Prune(t) \/ Clear(t)
        BY <4>1 DEF TypeOK, Prune, Clear
      <4>2. CASE Fill(t)
        BY <4>2 DEF TypeOK, Fill
      <4>3. CASE UNCHANGED links
        BY <4>3 DEF TypeOK
      <4> QED BY <2>5, <4>1, <4>2, <4>3
              DEF Run, Store, Drop, Forget, BeginScan, EndScan, Acquire, BreakOff,
                  EndFill, Release, Organize, BindGraph, Look, Looked
    <3>9. routed' \in SUBSET Origins
      BY <2>5
      DEF TypeOK, Run, Store, Drop, Prune, Forget, BeginScan, EndScan, Acquire,
          Clear, Fill, BreakOff, EndFill, Release, Organize, BindGraph, Look, Looked
    <3> QED BY <3>1, <3>2, <3>3, <3>4, <3>5, <3>6, <3>7, <3>8, <3>9 DEF TypeOK
  <2>6. CASE UNCHANGED vars
    BY <2>6 DEF vars, TypeOK, BindsCounted, Bound
  <2> QED BY <2>3, <2>4, <2>5, <2>6 DEF Next
<1> QED BY <1>1, <1>2, PTL DEF Spec

-----------------------------------------------------------------------------
(***************************************************************************)
(* ReadersSeeWholeGraph.                                                    *)
(***************************************************************************)

(* Whoever is between acquire() and release(), or died there, has the lock. *)
Holding == {"clear", "fill", "brokenOff", "release", "reading"}

LockNamesHolder == \A t \in Threads : pc[t] \in Holding => graph_lock = t

(***************************************************************************)
(* graph_lock keeps readers away from a list that is being rebuilt, and,    *)
(* because a rebuild that breaks off keeps it, from one that never will be  *)
(* (updateGraph, ConnectionThread.connections).                             *)
(***************************************************************************)
LEMMA LockKept == Spec => []LockNamesHolder
<1> USE TasksAssumption
<1>1. Init => LockNamesHolder
  BY DEF Init, LockNamesHolder, Holding, FirstStep, Task
<1>2. TypeOK /\ LockNamesHolder /\ [Next]_vars => LockNamesHolder'
  <2> SUFFICES ASSUME TypeOK, LockNamesHolder, [Next]_vars PROVE LockNamesHolder'
    OBVIOUS
  <2> USE DEF LockNamesHolder, Holding
  <2>1. ASSUME NEW t \in Threads, Run(t) PROVE LockNamesHolder'
    <3>1. \A u \in Threads \ {t} : pc'[u] = pc[u]
      BY <2>1, StepOf
    <3>2. CASE Acquire(t) \/ Look(t)
      BY <3>1, <3>2 DEF Acquire, Look, Free
    <3>3. CASE Release(t) \/ Looked(t)
      BY <3>1, <3>3 DEF Release, Looked, Goto, TypeOK
    <3>4. CASE Store(t) \/ Drop(t) \/ Prune(t) \/ Forget(t) \/ BeginScan(t) \/ EndScan(t)
               \/ Organize(t) \/ BindGraph(t)
      BY <3>1, <3>4
      DEF Store, Drop, Prune, Forget, BeginScan, EndScan, Organize, BindGraph, Goto, TypeOK
    <3>5. CASE Clear(t) \/ Fill(t) \/ BreakOff(t) \/ EndFill(t)
      BY <3>1, <3>5 DEF Clear, Fill, BreakOff, EndFill, Goto, TypeOK
    <3> QED BY <2>1, <3>2, <3>3, <3>4, <3>5 DEF Run
  <2>2. CASE UNCHANGED vars
    BY <2>2 DEF vars
  <2> QED BY <2>1, <2>2 DEF Next
<1> QED BY <1>1, <1>2, TypeCorrect, PTL DEF Spec

(* No reader holds a list that is being rebuilt or was left half rebuilt. *)
THEOREM ReadersAreSafe == Spec => []ReadersSeeWholeGraph
<1>1. LockNamesHolder => ReadersSeeWholeGraph
  BY DEF LockNamesHolder, ReadersSeeWholeGraph, Holding
<1> QED BY <1>1, LockKept, PTL

-----------------------------------------------------------------------------
(***************************************************************************)
(* UpdatesReachGraph.                                                       *)
(***************************************************************************)

NoNeighbourJoins == KindsWithin({"new", "fresh", "failure", "read"})

(* As long as no neighbour joins there is one list, and what the loop of    *)
(* updateGraph has done is in it.                                           *)
LinksOfSeen ==
  NoNeighbourJoins =>
    /\ graph = 0 /\ \A t \in Threads : arg[t] = 0
    /\ \A t \in Threads : pc[t] \in {"fill", "release"} => seen[t] \subseteq links[0]

(***************************************************************************)
(* Nobody takes links out of the list while updateGraph fills it: prunes    *)
(* and other rebuilds wait for graph_lock (updateGraph, updateGraphOnly).   *)
(***************************************************************************)
THEOREM UpdatesArrive == Spec => UpdatesReachGraph
<1> USE TasksAssumption
<1>1. Init => LinksOfSeen
  BY DEF Init, LinksOfSeen, FirstStep, Task
<1>2. /\ TypeOK /\ BindsCounted /\ LockNamesHolder /\ LinksOfSeen
      /\ [Next]_vars
      => LinksOfSeen'
  <2> SUFFICES ASSUME TypeOK, BindsCounted, LockNamesHolder, LinksOfSeen, [Next]_vars,
                      NoNeighbourJoins'
               PROVE  LinksOfSeen'
    BY DEF LinksOfSeen
  <2>1. ASSUME NEW t \in Threads, Run(t) PROVE LinksOfSeen'
    <3>1. task' = task /\ \A u \in Threads \ {t} : pc'[u] = pc[u]
      BY <2>1, StepOf
    <3>2. NoNeighbourJoins
      BY <3>1 DEF NoNeighbourJoins, KindsWithin
    <3>3. ~BindGraph(t)
      BY <3>2 DEF BindGraph, BindsCounted, NoNeighbourJoins, KindsWithin
    <3>4. graph' = 0 /\ \A u \in Threads : arg'[u] = 0
      BY <2>1, <3>2, <3>3
      DEF TypeOK, LinksOfSeen, Run, Store, Drop, Prune, Forget, BeginScan, EndScan,
          Acquire, Clear, Fill, BreakOff, EndFill, Release, Organize, Look, Looked
    <3>5. 0 \in Lists
      BY FS_CardinalityType DEF Lists
    <3>6. \A u \in Threads : pc'[u] \in {"fill", "release"} => seen'[u] \subseteq links'[0]
      <4>1. CASE Prune(t)
        <5>1. \A u \in Threads : pc'[u] \notin {"fill", "release"}
          BY <3>1, <4>1 DEF Prune, Free, LockNamesHolder, Holding, Goto, TypeOK
        <5> QED BY <5>1
      <4>2. CASE Clear(t)
        <5>1. \A u \in Threads \ {t} : pc'[u] \notin {"fill", "release"}
          BY <3>1, <4>2 DEF Clear, LockNamesHolder, Holding
        <5>2. seen'[t] = {}
          BY <4>2 DEF Clear, TypeOK
        <5> QED BY <5>1, <5>2
      <4>3. CASE Fill(t)
        <5>1. PICK o \in LSA_DB \ seen[t] :
                /\ links' = [links EXCEPT ![arg[t]] = @ \cup {o}]
                /\ seen' = [seen EXCEPT ![t] = @ \cup {o}]
          BY <4>3 DEF Fill
        <5>2. links'[0] = links[0] \cup {o}
          BY <3>2, <3>5, <5>1 DEF LinksOfSeen, TypeOK
        <5>3. pc' = pc
          BY <4>3 DEF Fill
        <5> QED BY <3>2, <5>1, <5>2, <5>3 DEF LinksOfSeen, TypeOK
      <4>4. CASE EndFill(t)
        BY <3>1, <3>2, <4>4 DEF EndFill, LinksOfSeen
      <4>5. CASE /\ UNCHANGED <<links, seen>>
                 /\ pc'[t] \notin {"fill", "release"}
        BY <3>1, <3>2, <4>5 DEF LinksOfSeen
      <4> QED BY <2>1, <3>3, <4>1, <4>2, <4>3, <4>4, <4>5
              DEF TypeOK, Goto, Run, Store, Drop, Forget, BeginScan, EndScan, Acquire,
                  BreakOff, Release, Organize, Look, Looked
    <3> QED BY <3>4, <3>6 DEF LinksOfSeen
  <2>2. CASE UNCHANGED vars
    BY <2>2 DEF vars, LinksOfSeen, NoNeighbourJoins, KindsWithin
  <2> QED BY <2>1, <2>2 DEF Next
<1>3. LinksOfSeen => [KindsWithin({"new", "fresh", "failure", "read"}) =>
                        \A t \in Threads : GraphUpdated(t)]_vars
  BY DEF LinksOfSeen, NoNeighbourJoins, GraphUpdated
<1> QED BY <1>1, <1>2, <1>3, TypeCorrect, LockKept, PTL DEF Spec, UpdatesReachGraph

=============================================================================
