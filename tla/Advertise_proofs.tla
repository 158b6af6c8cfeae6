---------------------------- MODULE Advertise_proofs ----------------------------
(***************************************************************************)
(* Theorems about Advertise, for any number of HELLOs, heartbeats and      *)
(* rounds of the failure detector.  As long as no two increments overlap,  *)
(* SN only grows, and whoever has changed the list and not transmitted it  *)
(* is going to use a number above those of the LSAs that do not show it.   *)
(***************************************************************************)
EXTENDS Advertise, TLAPS

-----------------------------------------------------------------------------
(* Types. *)

(* What list.remove leaves is a list of entries. *)
LEMMA RemovedIsList ==
  ASSUME NEW S, NEW s \in Seq(S), NEW k \in 1..Len(s)
  PROVE  RemoveAt(s, k) \in Seq(S)
<1>1. Len(s) \in Nat /\ k \in Nat /\ k - 1 <= Len(s) /\ k + 1 >= 1
  OBVIOUS
<1>2. SubSeq(s, 1, k - 1) \in Seq(S)
  BY <1>1
<1>3. SubSeq(s, k + 1, Len(s)) \in Seq(S)
  BY <1>1
<1> QED BY <1>2, <1>3 DEF RemoveAt

(* A list with one entry replaced. *)
LEMMA ReplacedIsList ==
  ASSUME NEW S, NEW s \in Seq(S), NEW k \in Nat \ {0}, k <= Len(s), NEW e \in S
  PROVE  [s EXCEPT ![k] = e] \in Seq(S)
<1>1. Len(s) \in Nat /\ k \in 1..Len(s)
  OBVIOUS
<1> QED BY <1>1

(* The rest of a step of a thread: it moves no other one. *)
Moves(t) ==
  /\ t \in Threads
  /\ pc' \in [Threads -> Editing \cup Raised \cup {"idle", "number", "pickle", "done"}]
  /\ \A u \in Threads \ {t} : pc'[u] = pc[u]

LEMMA StepMoves ==
  ASSUME TypeOK, NEW t \in Threads,
         \/ t \in Hellos /\ AddNeighbour(t)
         \/ t \in Samples /\ HandleHB(t)
         \/ TransmitNewLSA(t)
  PROVE  Moves(t)
<1> USE DEF TypeOK, Goto, Editing, Raised, Moves
<1>1. CASE AddNeighbour(t)
  BY <1>1 DEF AddNeighbour, Bound, Look, Replace, Fit, AppendEntry, Kill
<1>2. CASE HandleHB(t)
  BY <1>2 DEF HandleHB, Sample, Find, SetCost
<1>3. CASE TransmitNewLSA(t)
  BY <1>3 DEF TransmitNewLSA, Load, Store, ReadNumber, Pickle
<1> QED BY <1>1, <1>2, <1>3

LEMMA DetectorMoves ==
  ASSUME TypeOK, RemoveInactive
  PROVE  Moves(Detector)
<1> USE DEF TypeOK, Goto, Editing, Raised, Moves, Threads
<1> QED BY DEF RemoveInactive, FindSilent, NextEntry, RemoveEntry, RemoveCircuits

(* The list, the indices and what was read of SN and of the length. *)
ListsOK ==
  /\ neighbours \in Seq(Entry)
  /\ i \in [Threads -> Nat \ {0}]
  /\ unsaid \in SUBSET Threads

LEMMA HelloLists ==
  ASSUME TypeOK, NEW t \in Hellos, AddNeighbour(t)
  PROVE  ListsOK'
<1>1. /\ ListsOK /\ Len(neighbours) \in Nat
      /\ t \in Threads /\ i[t] \in Nat \ {0}
  BY DEF Threads, TypeOK, ListsOK
<1>2. NewEntry(t) \in Entry
  BY DEF NewEntry, Entry
<1>3. CASE Bound(t) \/ Fit(t) \/ Kill(t)
  BY <1>1, <1>3 DEF Bound, Fit, Kill, Same, ListsOK
<1>4. CASE Look(t)
  <2>1. i' \in [Threads -> Nat \ {0}]
    <3>1. i[t] + 1 \in Nat \ {0}
      BY <1>1
    <3>2. i' = i \/ i' = [i EXCEPT ![t] = i[t] + 1]
      BY <1>4 DEF Look
    <3> QED BY <1>1, <3>1, <3>2 DEF ListsOK
  <2> QED BY <1>1, <1>4, <2>1 DEF Look, Same, ListsOK
<1>5. CASE Replace(t)
  <2>1. CASE i[t] > Len(neighbours)
    BY <1>1, <1>5, <2>1 DEF Replace, Same, ListsOK
  <2>2. CASE ~(i[t] > Len(neighbours))
    <3>1. i[t] <= Len(neighbours) /\ neighbours \in Seq(Entry)
      BY <1>1, <2>2 DEF ListsOK
    <3>2. [neighbours EXCEPT ![i[t]] = NewEntry(t)] \in Seq(Entry)
      BY <1>1, <1>2, <3>1, ReplacedIsList
    <3>3. /\ neighbours' = [neighbours EXCEPT ![i[t]] = NewEntry(t)]
          /\ unsaid' = unsaid \cup {t} /\ i' = i
      BY <1>5, <2>2 DEF Replace, Change
    <3> QED BY <1>1, <3>2, <3>3 DEF ListsOK
  <2> QED BY <2>1, <2>2
<1>6. CASE AppendEntry(t)
  <2>1. Append(neighbours, NewEntry(t)) \in Seq(Entry)
    BY <1>1, <1>2 DEF ListsOK
  <2> QED BY <1>1, <1>6, <2>1 DEF AppendEntry, Change, ListsOK
<1> QED BY <1>3, <1>4, <1>5, <1>6 DEF AddNeighbour

LEMMA SampleLists ==
  ASSUME TypeOK, NEW t \in Samples, HandleHB(t)
  PROVE  ListsOK'
<1>1. ListsOK /\ t \in Threads /\ i[t] \in Nat \ {0} /\ Len(neighbours) \in Nat
  BY DEF Threads, TypeOK, ListsOK
<1>2. CASE Sample(t)
  BY <1>1, <1>2 DEF Sample, Same, ListsOK
<1>3. CASE Find(t)
  <2>1. i' \in [Threads -> Nat \ {0}]
    <3>1. i[t] + 1 \in Nat \ {0}
      BY <1>1
    <3>2. i' = i \/ i' = [i EXCEPT ![t] = i[t] + 1]
      BY <1>3 DEF Find
    <3> QED BY <1>1, <3>1, <3>2 DEF ListsOK
  <2> QED BY <1>1, <1>3, <2>1 DEF Find, Same, ListsOK
<1>4. CASE SetCost(t)
  <2>1. CASE i[t] > Len(neighbours)
    BY <1>1, <1>4, <2>1 DEF SetCost, Same, ListsOK
  <2>2. CASE ~(i[t] > Len(neighbours))
    <3> DEFINE entry == [neighbours[i[t]] EXCEPT !.measured = TRUE]
    <3>1. i[t] <= Len(neighbours) /\ neighbours \in Seq(Entry)
      BY <1>1, <2>2 DEF ListsOK
    <3>2. neighbours[i[t]] \in Entry
      BY <1>1, <3>1
    <3>3. entry \in Entry
      BY <3>2 DEF Entry
    <3>4. /\ neighbours' = [neighbours EXCEPT ![i[t]] = entry]
          /\ unsaid' = unsaid \cup {t} /\ i' = i
      BY <1>4, <2>2 DEF SetCost, Change
    <3> HIDE DEF entry
    <3>5. neighbours' \in Seq(Entry)
      BY <1>1, <3>1, <3>3, <3>4, ReplacedIsList
    <3> QED BY <1>1, <3>4, <3>5 DEF ListsOK
  <2> QED BY <2>1, <2>2
<1> QED BY <1>2, <1>3, <1>4 DEF HandleHB

LEMMA DetectorLists ==
  ASSUME TypeOK, RemoveInactive
  PROVE  ListsOK'
<1> USE DEF TypeOK, ListsOK, Same
<1>1. neighbours \in Seq(Entry) /\ Detector \in Threads /\ i[Detector] \in Nat \ {0}
  BY DEF Threads
<1>2. CASE FindSilent \/ NextEntry \/ RemoveCircuits
  BY <1>1, <1>2 DEF FindSilent, NextEntry, RemoveCircuits
<1>3. CASE RemoveEntry
  BY <1>1, <1>3, RemovedIsList DEF RemoveEntry, Change
<1> QED BY <1>2, <1>3 DEF RemoveInactive

(* The greatest number made so far. *)
LEMMA MadeOK ==
  ASSUME TypeOK, NEW n \in Nat, Make(n)
  PROVE  newest' \in SUBSET [sn : Nat, neighbours : Seq(Entry)]
<1> DEFINE lsa == [sn |-> n, neighbours |-> neighbours]
           LSAs == [sn : Nat, neighbours : Seq(Entry)]
<1>1. lsa \in LSAs /\ newest \in SUBSET LSAs
  BY DEF TypeOK
<1>2. newest' \subseteq newest \cup {lsa}
  BY DEF Make
<1> HIDE DEF lsa, LSAs
<1>3. newest' \in SUBSET LSAs
  BY <1>1, <1>2
<1> QED BY <1>3 DEF LSAs

(* Every thread is at a place of its code, and the shared data have their types. *)
THEOREM TypeCorrect == Spec => []TypeOK
<1> USE AdvertiseAssumption
<1>1. Init => TypeOK
  <2> SUFFICES ASSUME Init PROVE TypeOK
    OBVIOUS
  <2>1. neighbours \in Seq(Entry) /\ rounds \in 0..MaxRounds
    BY DEF Init, AdvertiseAssumption
  <2>2. pc \in [Threads -> Editing \cup Raised \cup {"idle", "number", "pickle", "done"}]
    BY DEF Init, Editing
  <2>3. i \in [Threads -> Nat \ {0}] /\ number \in [Threads -> Nat]
    BY DEF Init
  <2>4. node \in Hellos \cup {Detector} /\ newest = {}
    BY DEF Init
  <2> QED BY <2>1, <2>2, <2>3, <2>4 DEF Init, TypeOK
<1>2. TypeOK /\ [Next]_vars => TypeOK'
  <2> SUFFICES ASSUME TypeOK, [Next]_vars PROVE TypeOK'
    OBVIOUS
  <2>1. ASSUME NEW t \in Hellos, AddNeighbour(t) PROVE TypeOK'
    <3>1. t \in Threads /\ PeerOf[t] \in Peers
      BY DEF Threads
    <3>2. Moves(t) /\ ListsOK'
      BY <2>1, <3>1, StepMoves, HelloLists
    <3>3. circuit_info' \in SUBSET Peers /\ stats' \in SUBSET Peers
      BY <2>1, <3>1
      DEF AddNeighbour, Bound, Look, Replace, Fit, AppendEntry, Kill, TypeOK
    <3>4. UNCHANGED <<SN, newest, number, node, dead, rounds, overlapped>>
      BY <2>1 DEF AddNeighbour
    <3> QED BY <3>2, <3>3, <3>4 DEF TypeOK, Moves, ListsOK
  <2>2. ASSUME NEW t \in Samples, HandleHB(t) PROVE TypeOK'
    <3>1. t \in Threads
      BY DEF Threads
    <3>2. Moves(t) /\ ListsOK'
      BY <2>2, <3>1, StepMoves, SampleLists
    <3>3. number' \in [Threads -> Nat]
      BY <2>2 DEF HandleHB, Sample, Find, SetCost, TypeOK
    <3>4. UNCHANGED <<SN, newest, circuit_info, stats, node, dead, rounds, overlapped>>
      BY <2>2 DEF HandleHB
    <3> QED BY <3>2, <3>3, <3>4 DEF TypeOK, Moves, ListsOK
  <2>3. ASSUME NEW t \in Threads, TransmitNewLSA(t) PROVE TypeOK'
    <3>1. Moves(t)
      BY <2>3, StepMoves
    <3>2. /\ number' \in [Threads -> Nat] /\ SN' \in Nat /\ overlapped' \in BOOLEAN
          /\ unsaid' \in SUBSET Threads
      <4>1. number \in [Threads -> Nat] /\ number[t] \in Nat /\ SN \in Nat
            /\ number[t] + 1 \in Nat /\ overlapped \in BOOLEAN /\ unsaid \subseteq Threads
        BY DEF TypeOK
      <4>2. CASE Load(t)
        BY <4>1, <4>2 DEF Load, Same
      <4>3. CASE Store(t)
        BY <4>1, <4>3 DEF Store, Same
      <4>4. CASE ReadNumber(t)
        BY <4>1, <4>4 DEF ReadNumber, Same
      <4>5. CASE Pickle(t)
        BY <4>1, <4>5 DEF Pickle
      <4> QED BY <2>3, <4>2, <4>3, <4>4, <4>5 DEF TransmitNewLSA
    <3>3. newest' \in SUBSET [sn : Nat, neighbours : Seq(Entry)]
      <4>1. CASE Pickle(t)
        <5>1. number[t] \in Nat
          BY DEF TypeOK
        <5> QED BY <4>1, <5>1, MadeOK DEF Pickle
      <4>2. CASE ~Pickle(t)
        BY <2>3, <4>2 DEF TransmitNewLSA, Load, Store, ReadNumber, TypeOK
      <4> QED BY <4>1, <4>2
    <3>4. UNCHANGED <<neighbours, circuit_info, stats, i, node, dead, rounds>>
      BY <2>3 DEF TransmitNewLSA, Load, Store, ReadNumber, Pickle, Same
    <3> QED BY <3>1, <3>2, <3>3, <3>4 DEF TypeOK, Moves
  <2>4. ASSUME RemoveInactive PROVE TypeOK'
    <3>1. Moves(Detector) /\ ListsOK'
      BY <2>4, DetectorMoves, DetectorLists
    <3>2. circuit_info' \in SUBSET Peers /\ rounds' \in 0..MaxRounds
      BY <2>4 DEF RemoveInactive, FindSilent, NextEntry, RemoveEntry, RemoveCircuits, TypeOK
    <3>3. dead' \in SUBSET Peers
      BY <2>4 DEF RemoveInactive, FindSilent, NextEntry, RemoveEntry, RemoveCircuits, TypeOK
    <3>4. node' \in Hellos \cup {Detector}
      <4>1. CASE NextEntry
        <5>1. /\ i[Detector] \in Nat \ {0} /\ neighbours \in Seq(Entry)
              /\ Len(neighbours) \in Nat /\ node \in Hellos \cup {Detector}
          BY DEF TypeOK, Threads
        <5>2. CASE i[Detector] > Len(neighbours)
          BY <4>1, <5>1, <5>2 DEF NextEntry
        <5>3. CASE ~(i[Detector] > Len(neighbours))
          <6>1. neighbours[i[Detector]] \in Entry
            BY <5>1, <5>3
          <6>2. neighbours[i[Detector]].by \in Hellos
            BY <6>1 DEF Entry
          <6>3. node' = neighbours[i[Detector]].by \/ node' = node
            BY <4>1, <5>3 DEF NextEntry
          <6> QED BY <5>1, <6>2, <6>3
        <5> QED BY <5>2, <5>3
      <4>2. CASE ~NextEntry
        BY <2>4, <4>2 DEF RemoveInactive, FindSilent, RemoveEntry, RemoveCircuits, TypeOK
      <4> QED BY <4>1, <4>2
    <3>5. UNCHANGED <<SN, newest, stats, number, overlapped>>
      BY <2>4 DEF RemoveInactive
    <3> QED BY <3>1, <3>2, <3>3, <3>4, <3>5 DEF TypeOK, Moves, ListsOK
  <2>5. CASE ClientSide
    <3>1. newest' \in SUBSET [sn : Nat, neighbours : Seq(Entry)]
      BY <2>5, MadeOK DEF ClientSide, TypeOK
    <3> QED BY <2>5, <3>1 DEF ClientSide, TypeOK
  <2>6. CASE UNCHANGED vars
    BY <2>6 DEF vars, TypeOK
  <2> QED BY <2>1, <2>2, <2>3, <2>4, <2>5, <2>6 DEF Next
<1> QED BY <1>1, <1>2, PTL DEF Spec

-----------------------------------------------------------------------------
(***************************************************************************)
(* The newest LSA shows the list.  While no two increments have overlapped *)
(*   - no LSA has a number above SN, and what a thread has read of SN is   *)
(*     not above it, and is SN when it is about to write it;               *)
(*   - for each of the newest LSAs that does not show the list there is a  *)
(*     thread which changed it and is going to make one with a greater     *)
(*     number, or has died on the way.                                     *)
(***************************************************************************)
Promised(t, n) ==
  \/ pc[t] \in Editing \cup Raised
  \/ pc[t] = "number" /\ SN > n
  \/ pc[t] = "pickle" /\ number[t] > n

NumbersBelow ==
  /\ \A m \in newest : m.sn <= SN
  /\ \A t \in Threads : pc[t] = "pickle" => number[t] <= SN

OneIncrement ==
  \A t \in Threads : pc[t] = "store" =>
    number[t] = SN /\ \A u \in Threads \ {t} : pc[u] # "store"

ShownOrPromised ==
  \A m \in newest :
    m.neighbours = neighbours \/ \E t \in unsaid : Promised(t, m.sn)

Numbered == ~overlapped => NumbersBelow /\ OneIncrement /\ ShownOrPromised

(***************************************************************************)
(* A step outside transmitNewLSA: what the thread changes it promises to   *)
(* transmit, and it takes back no promise.                                 *)
(***************************************************************************)
Quiet(t) ==
  /\ Moves(t)
  /\ pc[t] \notin {"store", "number", "pickle"}
  /\ pc'[t] \in (Editing \ {"store"}) \cup Raised
  /\ \A u \in Threads \ {t} : number'[u] = number[u]
  /\ UNCHANGED <<SN, newest, overlapped>>
  /\ UNCHANGED <<neighbours, unsaid>> \/ unsaid' = unsaid \cup {t}

LEMMA EditsAreQuiet ==
  /\ \A t \in Hellos : TypeOK /\ AddNeighbour(t) => Quiet(t)
  /\ \A t \in Samples : TypeOK /\ HandleHB(t) => Quiet(t)
  /\ TypeOK /\ RemoveInactive => Quiet(Detector)
<1>1. ASSUME NEW t \in Hellos, TypeOK, AddNeighbour(t) PROVE Quiet(t)
  <2>1. t \in Threads /\ pc \in [Threads -> Editing \cup Raised
                                            \cup {"idle", "number", "pickle", "done"}]
    BY <1>1 DEF Threads, TypeOK
  <2>2. Moves(t)
    BY <1>1, <2>1, StepMoves
  <2>3. /\ pc[t] \notin {"store", "number", "pickle"}
        /\ pc'[t] \in (Editing \ {"store"}) \cup Raised
    BY <1>1, <2>1
    DEF AddNeighbour, Bound, Look, Replace, Fit, AppendEntry, Kill, At, Goto, Editing, Raised
  <2>4. UNCHANGED <<neighbours, unsaid>> \/ unsaid' = unsaid \cup {t}
    BY <1>1
    DEF AddNeighbour, Bound, Look, Replace, Fit, AppendEntry, Kill, Same, Change
  <2> QED BY <1>1, <2>2, <2>3, <2>4 DEF AddNeighbour, Quiet
<1>2. ASSUME NEW t \in Samples, TypeOK, HandleHB(t) PROVE Quiet(t)
  <2>1. /\ t \in Threads /\ number \in [Threads -> Nat]
        /\ pc \in [Threads -> Editing \cup Raised \cup {"idle", "number", "pickle", "done"}]
    BY <1>2 DEF Threads, TypeOK
  <2>2. Moves(t)
    BY <1>2, <2>1, StepMoves
  <2>3. /\ pc[t] \notin {"store", "number", "pickle"}
        /\ pc'[t] \in (Editing \ {"store"}) \cup Raised
    BY <1>2, <2>1 DEF HandleHB, Sample, Find, SetCost, At, Goto, Editing, Raised
  <2>4. UNCHANGED <<neighbours, unsaid>> \/ unsaid' = unsaid \cup {t}
    BY <1>2 DEF HandleHB, Sample, Find, SetCost, Same, Change
  <2>5. \A u \in Threads \ {t} : number'[u] = number[u]
    BY <1>2, <2>1 DEF HandleHB, Sample, Find, SetCost
  <2> QED BY <1>2, <2>2, <2>3, <2>4, <2>5 DEF HandleHB, Quiet
<1>3. ASSUME TypeOK, RemoveInactive PROVE Quiet(Detector)
  <2>1. Detector \in Threads /\ pc \in [Threads -> Editing \cup Raised
                                            \cup {"idle", "number", "pickle", "done"}]
    BY <1>3 DEF Threads, TypeOK
  <2>2. Moves(Detector)
    BY <1>3, DetectorMoves
  <2>3. /\ pc[Detector] \notin {"store", "number", "pickle"}
        /\ pc'[Detector] \in (Editing \ {"store"}) \cup Raised
    BY <1>3, <2>1 DEF RemoveInactive, FindSilent, NextEntry, RemoveEntry, RemoveCircuits,
                      At, Goto, Editing, Raised
  <2>4. UNCHANGED <<neighbours, unsaid>> \/ unsaid' = unsaid \cup {Detector}
    BY <1>3 DEF RemoveInactive, FindSilent, NextEntry, RemoveEntry, RemoveCircuits,
                Same, Change
  <2> QED BY <1>3, <2>2, <2>3, <2>4 DEF RemoveInactive, Quiet
<1> QED BY <1>1, <1>2, <1>3

(* A promise stands while the thread does not move and SN does not go back. *)
LEMMA PromisesStand ==
  ASSUME TypeOK, NEW t \in Threads, NEW n \in Nat, Promised(t, n),
         pc'[t] = pc[t], number'[t] = number[t], SN' \in Nat, SN' >= SN
  PROVE  Promised(t, n)'
<1>1. SN \in Nat /\ number[t] \in Nat
  BY DEF TypeOK
<1> QED BY <1>1 DEF Promised

LEMMA QuietKeeps ==
  ASSUME TypeOK, Numbered, NEW t \in Threads, Quiet(t)
  PROVE  Numbered'
<1> SUFFICES ASSUME ~overlapped' PROVE (NumbersBelow /\ OneIncrement /\ ShownOrPromised)'
  BY DEF Numbered
<1>1. NumbersBelow /\ OneIncrement /\ ShownOrPromised
  BY DEF Numbered, Quiet
<1>2. /\ pc'[t] \notin {"store", "number", "pickle"}
      /\ pc'[t] \in Editing \cup Raised
  BY DEF Quiet, Editing, Raised
<1>3. \A u \in Threads \ {t} : pc'[u] = pc[u] /\ number'[u] = number[u]
  BY DEF Quiet, Moves
<1>4. SN' = SN /\ newest' = newest
  BY DEF Quiet
<1>5. NumbersBelow'
  BY <1>1, <1>2, <1>3, <1>4 DEF NumbersBelow
<1>6. OneIncrement'
  BY <1>1, <1>2, <1>3, <1>4 DEF OneIncrement
<1>7. ShownOrPromised'
  <2> SUFFICES ASSUME NEW m \in newest
               PROVE  m.neighbours = neighbours' \/ \E u \in unsaid' : Promised(u, m.sn)'
    BY <1>4 DEF ShownOrPromised
  <2>1. m.sn \in Nat /\ unsaid \subseteq Threads /\ SN \in Nat
    BY DEF TypeOK
  <2>2. Promised(t, m.sn)'
    BY <1>2 DEF Promised
  <2>3. CASE unsaid' = unsaid \cup {t}
    BY <2>2, <2>3
  <2>4. CASE UNCHANGED <<neighbours, unsaid>>
    <3>1. CASE m.neighbours = neighbours
      BY <2>4, <3>1
    <3>2. CASE \E u \in unsaid : Promised(u, m.sn)
      <4>1. PICK u \in unsaid : Promised(u, m.sn)
        BY <3>2
      <4>2. Promised(u, m.sn)'
        <5>1. CASE u = t
          BY <2>2, <5>1
        <5>2. CASE u # t
          <6>1. u \in Threads /\ pc'[u] = pc[u] /\ number'[u] = number[u]
            BY <1>3, <2>1, <5>2
          <6>2. SN' \in Nat /\ SN' >= SN
            BY <1>4, <2>1
          <6> QED BY <2>1, <4>1, <6>1, <6>2, PromisesStand
        <5> QED BY <5>1, <5>2
      <4> QED BY <2>4, <4>2
    <3> QED BY <1>1, <3>1, <3>2 DEF ShownOrPromised
  <2> QED BY <2>3, <2>4 DEF Quiet
<1> QED BY <1>5, <1>6, <1>7

(* Making an LSA keeps, of the older ones, those with a number as great. *)
LEMMA MadeOnes ==
  ASSUME NEW n, Make(n), NEW m \in newest'
  PROVE  \/ m.sn = n /\ m.neighbours = neighbours
         \/ m \in newest /\ n <= m.sn
<1> DEFINE lsa == [sn |-> n, neighbours |-> neighbours]
<1>1. m \in newest \cup {lsa} /\ \A o \in newest \cup {lsa} : o.sn <= m.sn
  BY DEF Make
<1>2. lsa.sn = n /\ lsa.neighbours = neighbours
  OBVIOUS
<1> HIDE DEF lsa
<1>3. lsa.sn <= m.sn
  BY <1>1
<1> QED BY <1>1, <1>2, <1>3

LEMMA LoadKeeps ==
  ASSUME TypeOK, Numbered, NEW t \in Threads, Load(t)
  PROVE  Numbered'
<1> SUFFICES ASSUME ~overlapped' PROVE (NumbersBelow /\ OneIncrement /\ ShownOrPromised)'
  BY DEF Numbered
<1>1. /\ ~overlapped
      /\ \A u \in Threads \ {t} : pc[u] # "store"
  BY DEF Load, At
<1>2. NumbersBelow /\ OneIncrement /\ ShownOrPromised
  BY <1>1 DEF Numbered
<1>3. /\ pc[t] = "load" /\ pc'[t] = "store" /\ number'[t] = SN
      /\ \A u \in Threads \ {t} : pc'[u] = pc[u] /\ number'[u] = number[u]
      /\ UNCHANGED <<SN, newest, neighbours, unsaid>>
  BY DEF Load, At, Goto, Same, TypeOK
<1>4. NumbersBelow'
  BY <1>2, <1>3 DEF NumbersBelow
<1>5. OneIncrement'
  BY <1>1, <1>3 DEF OneIncrement
<1>6. ShownOrPromised'
  <2>1. \A u \in Threads : \A n \in Nat : Promised(u, n) => Promised(u, n)'
    BY <1>3 DEF Promised, Editing
  <2>2. unsaid \subseteq Threads /\ \A m \in newest : m.sn \in Nat
    BY DEF TypeOK
  <2> QED BY <1>2, <1>3, <2>1, <2>2 DEF ShownOrPromised
<1> QED BY <1>4, <1>5, <1>6

LEMMA StoreKeeps ==
  ASSUME TypeOK, Numbered, NEW t \in Threads, Store(t)
  PROVE  Numbered'
<1> SUFFICES ASSUME ~overlapped' PROVE (NumbersBelow /\ OneIncrement /\ ShownOrPromised)'
  BY DEF Numbered
<1>1. NumbersBelow /\ OneIncrement /\ ShownOrPromised
  BY DEF Numbered, Store
<1>2. /\ pc[t] = "store" /\ pc'[t] = "number"
      /\ \A u \in Threads \ {t} : pc'[u] = pc[u]
      /\ UNCHANGED <<newest, number, neighbours, unsaid>>
  BY DEF Store, At, Goto, Same, TypeOK
<1>3. SN' = SN + 1 /\ SN \in Nat
  BY <1>1, <1>2 DEF OneIncrement, Store, TypeOK
<1>4. /\ unsaid \subseteq Threads /\ \A m \in newest : m.sn \in Nat
      /\ number \in [Threads -> Nat]
  BY DEF TypeOK
<1>5. NumbersBelow'
  BY <1>1, <1>2, <1>3, <1>4 DEF NumbersBelow
<1>6. OneIncrement'
  BY <1>1, <1>2 DEF OneIncrement
<1>7. ShownOrPromised'
  <2>1. \A u \in Threads : \A n \in Nat : n <= SN /\ Promised(u, n) => Promised(u, n)'
    BY <1>2, <1>3, <1>4 DEF Promised
  <2>2. \A m \in newest : m.sn <= SN
    BY <1>1 DEF NumbersBelow
  <2> QED BY <1>1, <1>2, <1>4, <2>1, <2>2 DEF ShownOrPromised
<1> QED BY <1>5, <1>6, <1>7

LEMMA ReadNumberKeeps ==
  ASSUME TypeOK, Numbered, NEW t \in Threads, ReadNumber(t)
  PROVE  Numbered'
<1> SUFFICES ASSUME ~overlapped' PROVE (NumbersBelow /\ OneIncrement /\ ShownOrPromised)'
  BY DEF Numbered
<1>1. NumbersBelow /\ OneIncrement /\ ShownOrPromised
  BY DEF Numbered, ReadNumber
<1>2. /\ pc[t] = "number" /\ pc'[t] = "pickle" /\ number'[t] = SN
      /\ \A u \in Threads \ {t} : pc'[u] = pc[u] /\ number'[u] = number[u]
      /\ UNCHANGED <<SN, newest, neighbours, unsaid>> /\ SN \in Nat
  BY DEF ReadNumber, At, Goto, Same, TypeOK
<1>3. NumbersBelow'
  BY <1>1, <1>2 DEF NumbersBelow
<1>4. OneIncrement'
  BY <1>1, <1>2 DEF OneIncrement
<1>5. ShownOrPromised'
  <2>1. \A u \in Threads : \A n \in Nat : Promised(u, n) => Promised(u, n)'
    BY <1>2 DEF Promised, Editing, Raised
  <2>2. unsaid \subseteq Threads /\ \A m \in newest : m.sn \in Nat
    BY DEF TypeOK
  <2> QED BY <1>1, <1>2, <2>1, <2>2 DEF ShownOrPromised
<1> QED BY <1>3, <1>4, <1>5

LEMMA PickleKeeps ==
  ASSUME TypeOK, Numbered, NEW t \in Threads, Pickle(t)
  PROVE  Numbered'
<1> SUFFICES ASSUME ~overlapped' PROVE (NumbersBelow /\ OneIncrement /\ ShownOrPromised)'
  BY DEF Numbered
<1>1. NumbersBelow /\ OneIncrement /\ ShownOrPromised
  BY DEF Numbered, Pickle
<1>2. /\ pc[t] = "pickle" /\ pc'[t] = "done"
      /\ \A u \in Threads \ {t} : pc'[u] = pc[u] /\ number'[u] = number[u]
      /\ UNCHANGED <<SN, neighbours>> /\ unsaid' = unsaid \ {t}
  BY DEF Pickle, At, Goto, TypeOK
<1>3. /\ unsaid \subseteq Threads /\ \A m \in newest : m.sn \in Nat
      /\ number[t] \in Nat /\ SN \in Nat
  BY DEF TypeOK
<1>4. number[t] <= SN
  BY <1>1, <1>2 DEF NumbersBelow
<1>5. \A m \in newest' : \/ m.sn = number[t] /\ m.neighbours = neighbours
                         \/ m \in newest /\ number[t] <= m.sn
  BY MadeOnes DEF Pickle
<1>6. NumbersBelow'
  BY <1>1, <1>2, <1>4, <1>5 DEF NumbersBelow
<1>7. OneIncrement'
  BY <1>1, <1>2 DEF OneIncrement
<1>8. ShownOrPromised'
  <2> SUFFICES ASSUME NEW m \in newest, number[t] <= m.sn, m.neighbours # neighbours
               PROVE  \E u \in unsaid' : Promised(u, m.sn)'
    BY <1>2, <1>5 DEF ShownOrPromised
  <2>1. PICK u \in unsaid : Promised(u, m.sn)
    BY <1>1 DEF ShownOrPromised
  <2>2. u # t
    BY <1>2, <1>3, <2>1 DEF Promised, Editing, Raised
  <2>3. Promised(u, m.sn)'
    BY <1>2, <1>3, <2>1, <2>2, PromisesStand
  <2> QED BY <1>2, <2>1, <2>2, <2>3
<1> QED BY <1>6, <1>7, <1>8

LEMMA ClientSideKeeps ==
  ASSUME TypeOK, Numbered, ClientSide
  PROVE  Numbered'
<1> SUFFICES ASSUME ~overlapped' PROVE (NumbersBelow /\ OneIncrement /\ ShownOrPromised)'
  BY DEF Numbered
<1>1. /\ NumbersBelow /\ OneIncrement /\ ShownOrPromised
      /\ UNCHANGED <<SN, neighbours, pc, number, unsaid>> /\ SN \in Nat
  BY DEF Numbered, ClientSide, TypeOK
<1>2. \A m \in newest' : (m.sn = SN /\ m.neighbours = neighbours) \/ m \in newest
  BY MadeOnes DEF ClientSide
<1>3. NumbersBelow'
  BY <1>1, <1>2 DEF NumbersBelow
<1>4. OneIncrement'
  BY <1>1 DEF OneIncrement
<1>5. ShownOrPromised'
  BY <1>1, <1>2 DEF ShownOrPromised, Promised
<1> QED BY <1>3, <1>4, <1>5

(***************************************************************************)
(* The newest LSAs show the neighbours, unless somebody has yet to         *)
(* transmit a change or two increments have overlapped: any number of      *)
(* HELLOs, heartbeats and rounds of the detector.                          *)
(***************************************************************************)
THEOREM NewestAlwaysCurrent == Spec => []NewestIsCurrent
<1>1. Init => Numbered
  BY DEF Init, Numbered, NumbersBelow, OneIncrement, ShownOrPromised
<1>2. TypeOK /\ Numbered /\ [Next]_vars => Numbered'
  <2> SUFFICES ASSUME TypeOK, Numbered, [Next]_vars PROVE Numbered'
    OBVIOUS
  <2>1. ASSUME NEW t \in Hellos, AddNeighbour(t) PROVE Numbered'
    BY <2>1, EditsAreQuiet, QuietKeeps DEF Threads
  <2>2. ASSUME NEW t \in Samples, HandleHB(t) PROVE Numbered'
    BY <2>2, EditsAreQuiet, QuietKeeps DEF Threads
  <2>3. ASSUME NEW t \in Threads, TransmitNewLSA(t) PROVE Numbered'
    BY <2>3, LoadKeeps, StoreKeeps, ReadNumberKeeps, PickleKeeps DEF TransmitNewLSA
  <2>4. CASE RemoveInactive
    BY <2>4, EditsAreQuiet, QuietKeeps DEF Threads
  <2>5. CASE ClientSide
    BY <2>5, ClientSideKeeps
  <2>6. CASE UNCHANGED vars
    BY <2>6 DEF vars, Numbered, NumbersBelow, OneIncrement, ShownOrPromised, Promised
  <2> QED BY <2>1, <2>2, <2>3, <2>4, <2>5, <2>6 DEF Next
<1>3. Numbered => NewestIsCurrent
  BY DEF Numbered, ShownOrPromised, NewestIsCurrent
<1> QED BY <1>1, <1>2, <1>3, TypeCorrect, PTL DEF Spec

=============================================================================
