------------------------------- MODULE Advertise -------------------------------
(***************************************************************************)
(* How one router tells the others who its neighbours are                  *)
(* (rtun-routing/lsr.py).  global_router, with the list 'Neighbours Data'   *)
(* and the number 'SN', is shared by                                       *)
(*   - a thread for each HELLO (handle_HELLO, add_neighbour),              *)
(*   - a thread for each heartbeat answer that completes a sample of       *)
(*     latencies (handle_HB),                                              *)
(*   - the failure detector (remove_inactive, updateNeighboursList),       *)
(*   - SendThread, which sends the dictionary as it is (clientSide),       *)
(* and no lock is held in any of them: the list is changed in one place    *)
(* and transmitNewLSA increments SN in another.  Every statement that      *)
(* reads or writes the two is a step of its own.  What happens to an LSA   *)
(* at another router is in module LsaThreads; the graph that add_neighbour *)
(* and the detector also write, and the lock they wait for, in             *)
(* GraphThreads.                                                           *)
(*                                                                         *)
(* A neighbour is put together by the thread of its HELLO, and is known by *)
(* that thread: the address and the rendezvous point differ from those of  *)
(* any other.  Its cost is the one it starts with or a measured one.       *)
(***************************************************************************)
EXTENDS Integers, SequencesExt

CONSTANTS
  Hellos,     \* the threads that handle a HELLO
  Samples,    \* the threads that handle the last heartbeat of a sample
  Detector,   \* the thread that looks for silent neighbours
  Peers,      \* the routers that are met
  PeerOf,     \* the router each HELLO or heartbeat is from
  MaxRounds   \* how often the detector finds somebody silent

Threads == Hellos \cup Samples \cup {Detector}

ASSUME AdvertiseAssumption ==
  /\ Hellos \cap Samples = {} /\ Detector \notin Hellos \cup Samples
  /\ PeerOf \in [Hellos \cup Samples -> Peers]
  /\ MaxRounds \in Nat

VARIABLES
  neighbours,   \* global_router['Neighbours Data']
  SN,           \* global_router['SN']
  circuit_info, \* the neighbours with a circuit
  stats,        \* the routers with counters, whose heartbeats are noted
  newest,       \* of the LSAs that were made, the ones with the greatest number
  pc,           \* where each thread is
  i,            \* its index into the list
  number,       \* what it has read of SN
  node,         \* the entry the detector's loop is at
  dead,         \* the routers it found silent
  rounds,       \* how often it has found any
  unsaid,       \* history: who changed the list and has made no LSA since
  overlapped    \* history: two threads were incrementing SN together

vars == <<neighbours, SN, circuit_info, stats, newest, pc, i, number, node, dead, rounds,
          unsaid, overlapped>>

Entry == [by : Hellos, measured : BOOLEAN]

Peer(entry) == PeerOf[entry.by]

Raised == {"KeyError", "IndexError", "ValueError"}

\* What a thread does before it adds one to SN.
Editing == {"bound", "look", "replace", "fit", "append", "kill", "find", "cost",
            "next", "remove", "circuits", "load", "store"}

TypeOK ==
  /\ neighbours \in Seq(Entry)
  /\ SN \in Nat
  /\ circuit_info \in SUBSET Peers
  /\ stats \in SUBSET Peers
  /\ newest \in SUBSET [sn : Nat, neighbours : Seq(Entry)]
  /\ pc \in [Threads -> Editing \cup Raised \cup {"idle", "number", "pickle", "done"}]
  /\ i \in [Threads -> Nat \ {0}]
  /\ number \in [Threads -> Nat]
  /\ node \in Hellos \cup {Detector}
  /\ dead \in SUBSET Peers
  /\ rounds \in 0..MaxRounds
  /\ unsaid \in SUBSET Threads
  /\ overlapped \in BOOLEAN

Init ==
  /\ neighbours = <<>>
  /\ SN = 0
  /\ circuit_info = {}
  /\ stats = {}
  /\ newest = {}
  /\ pc = [t \in Threads |-> IF t \in Hellos THEN "bound" ELSE "idle"]
  /\ i = [t \in Threads |-> 1]
  /\ number = [t \in Threads |-> 0]
  /\ node = Detector
  /\ dead = {}
  /\ rounds = 0
  /\ unsaid = {}
  /\ overlapped = FALSE

-----------------------------------------------------------------------------

At(t, label) == pc[t] = label
Goto(t, label) == pc' = [pc EXCEPT ![t] = label]

(* t changes the list. *)
Change(t, list) ==
  /\ neighbours' = list
  /\ unsaid' = unsaid \cup {t}

Same == UNCHANGED <<neighbours, unsaid>>

(***************************************************************************)
(* add_neighbour: look for an entry of the peer from the first one on and  *)
(* replace it; append one if the index has come to the end.  Every access  *)
(* asks for the length, or for an element, anew.                           *)
(***************************************************************************)
Bound(t) ==
  /\ At(t, "bound")
  /\ Goto(t, IF i[t] <= Len(neighbours) THEN "look" ELSE "fit")
  /\ Same /\ UNCHANGED <<i, circuit_info, stats>>

Look(t) ==
  /\ At(t, "look")
  /\ IF i[t] > Len(neighbours)
       THEN Goto(t, "IndexError") /\ i' = i
       ELSE IF Peer(neighbours[i[t]]) = PeerOf[t]
         THEN Goto(t, "replace") /\ i' = i
         ELSE Goto(t, "bound") /\ i' = [i EXCEPT ![t] = @ + 1]
  /\ Same /\ UNCHANGED <<circuit_info, stats>>

NewEntry(t) == [by |-> t, measured |-> FALSE]

Replace(t) ==
  /\ At(t, "replace")
  /\ IF i[t] > Len(neighbours)
       THEN Goto(t, "IndexError") /\ Same
       ELSE Goto(t, "fit") /\ Change(t, [neighbours EXCEPT ![i[t]] = NewEntry(t)])
  /\ UNCHANGED <<i, circuit_info, stats>>

Fit(t) ==
  /\ At(t, "fit")
  /\ Goto(t, IF i[t] = Len(neighbours) + 1 THEN "append" ELSE "kill")
  /\ Same /\ UNCHANGED <<i, circuit_info, stats>>

AppendEntry(t) ==
  /\ At(t, "append")
  /\ Goto(t, "kill")
  /\ Change(t, Append(neighbours, NewEntry(t)))
  /\ UNCHANGED <<i, circuit_info, stats>>

(***************************************************************************)
(* The circuit and the counters of the neighbour; if its old circuit's     *)
(* thread is gone, rnd.threads[tid] raises.                                *)
(***************************************************************************)
Kill(t) ==
  /\ At(t, "kill")
  /\ \/ /\ Goto(t, "load")
        /\ circuit_info' = circuit_info \cup {PeerOf[t]}
        /\ stats' = stats \cup {PeerOf[t]}
     \/ /\ PeerOf[t] \in circuit_info
        /\ Goto(t, "KeyError")
        /\ UNCHANGED <<circuit_info, stats>>
  /\ Same /\ UNCHANGED i

AddNeighbour(t) ==
  /\ \/ Bound(t) \/ Look(t) \/ Replace(t) \/ Fit(t) \/ AppendEntry(t) \/ Kill(t)
  /\ UNCHANGED <<SN, newest, number, node, dead, rounds, overlapped>>

(***************************************************************************)
(* handle_HB with the last sample of the latency: the cost of the first    *)
(* entry of the peer is set, the length being that at the beginning, and   *)
(* whether one was found or not the state is transmitted.                  *)
(***************************************************************************)
Sample(t) ==
  /\ At(t, "idle") /\ PeerOf[t] \in stats
  /\ number' = [number EXCEPT ![t] = Len(neighbours)]
  /\ Goto(t, "find")
  /\ UNCHANGED i /\ Same

Find(t) ==
  /\ At(t, "find")
  /\ \/ /\ i[t] > number[t]
        /\ Goto(t, "load") /\ i' = i
     \/ /\ i[t] <= number[t] /\ i[t] > Len(neighbours)
        /\ Goto(t, "IndexError") /\ i' = i
     \/ /\ i[t] <= number[t] /\ i[t] <= Len(neighbours)
        /\ IF Peer(neighbours[i[t]]) = PeerOf[t]
             THEN Goto(t, "cost") /\ i' = i
             ELSE Goto(t, "find") /\ i' = [i EXCEPT ![t] = @ + 1]
  /\ UNCHANGED number /\ Same

SetCost(t) ==
  /\ At(t, "cost")
  /\ IF i[t] > Len(neighbours)
       THEN Goto(t, "IndexError") /\ Same
       ELSE Goto(t, "load") /\ Change(t, [neighbours EXCEPT ![i[t]].measured = TRUE])
  /\ UNCHANGED <<number, i>>

HandleHB(t) ==
  /\ Sample(t) \/ Find(t) \/ SetCost(t)
  /\ UNCHANGED <<SN, newest, circuit_info, stats, node, dead, rounds, overlapped>>

(***************************************************************************)
(* The failure detector: updateNeighboursList removes from the list it     *)
(* iterates over, so the entry after a removed one is not looked at, and   *)
(* raises if another thread has replaced the entry meanwhile.              *)
(***************************************************************************)
FindSilent ==
  /\ At(Detector, "idle") \/ At(Detector, "done")
  /\ rounds < MaxRounds
  /\ rounds' = rounds + 1
  /\ \E silent \in SUBSET stats \ {{}} : dead' = silent
  /\ i' = [i EXCEPT ![Detector] = 1]
  /\ Goto(Detector, "next")
  /\ UNCHANGED <<node, circuit_info>> /\ Same

NextEntry ==
  /\ At(Detector, "next")
  /\ IF i[Detector] > Len(neighbours)
       THEN Goto(Detector, "circuits") /\ UNCHANGED <<i, node>>
       ELSE LET entry == neighbours[i[Detector]]
            IN /\ i' = [i EXCEPT ![Detector] = @ + 1]
               /\ IF Peer(entry) \in dead
                    THEN Goto(Detector, "remove") /\ node' = entry.by
                    ELSE Goto(Detector, "next") /\ node' = node
  /\ UNCHANGED <<circuit_info, dead, rounds>> /\ Same

RemoveEntry ==
  /\ At(Detector, "remove")
  /\ \/ \E k \in 1..Len(neighbours) :
          /\ neighbours[k].by = node
          /\ \A j \in 1..(k - 1) : neighbours[j].by # node
          /\ Change(Detector, RemoveAt(neighbours, k))
          /\ Goto(Detector, "next")
     \/ /\ \A k \in 1..Len(neighbours) : neighbours[k].by # node
        /\ Goto(Detector, "ValueError")
        /\ Same
  /\ UNCHANGED <<i, node, circuit_info, dead, rounds>>

RemoveCircuits ==
  /\ At(Detector, "circuits")
  /\ circuit_info' = circuit_info \ dead
  /\ Goto(Detector, "load")
  /\ UNCHANGED <<i, node, dead, rounds>> /\ Same

RemoveInactive ==
  /\ FindSilent \/ NextEntry \/ RemoveEntry \/ RemoveCircuits
  /\ UNCHANGED <<SN, newest, stats, number, overlapped>>

(***************************************************************************)
(* transmitNewLSA: read SN, write it, read it again, and pickle the list as *)
(* it is then.                                                             *)
(***************************************************************************)
\* An LSA with this number and the list as it is.
Make(n) ==
  LET lsa == [sn |-> n, neighbours |-> neighbours]
  IN newest' = {l \in newest \cup {lsa} : \A m \in newest \cup {lsa} : m.sn <= l.sn}

Load(t) ==
  /\ At(t, "load")
  /\ number' = [number EXCEPT ![t] = SN]
  /\ overlapped' = (overlapped \/ \E u \in Threads \ {t} : At(u, "store"))
  /\ Goto(t, "store")
  /\ Same /\ UNCHANGED <<SN, newest>>

(* Mutant: the number stays what it was. *)
StoreSame(t) ==
  /\ At(t, "store")
  /\ SN' = number[t]
  /\ Goto(t, "number")
  /\ Same /\ UNCHANGED <<number, newest, overlapped>>

Store(t) ==
  /\ At(t, "store")
  /\ SN' = number[t] + 1
  /\ Goto(t, "number")
  /\ Same /\ UNCHANGED <<number, newest, overlapped>>

ReadNumber(t) ==
  /\ At(t, "number")
  /\ number' = [number EXCEPT ![t] = SN]
  /\ Goto(t, "pickle")
  /\ Same /\ UNCHANGED <<SN, newest, overlapped>>

Pickle(t) ==
  /\ At(t, "pickle")
  /\ Make(number[t])
  /\ unsaid' = unsaid \ {t}
  /\ number' = [number EXCEPT ![t] = 0]
  /\ Goto(t, "done")
  /\ UNCHANGED <<neighbours, SN, overlapped>>

TransmitNewLSA(t) ==
  /\ Load(t) \/ Store(t) \/ ReadNumber(t) \/ Pickle(t)
  /\ UNCHANGED <<circuit_info, stats, i, node, dead, rounds>>

(* SendThread.clientSide, whenever its interval is over. *)
ClientSide ==
  /\ Make(SN)
  /\ UNCHANGED <<neighbours, SN, circuit_info, stats, pc, i, number, node, dead, rounds,
                 unsaid, overlapped>>

Next ==
  \/ \E t \in Hellos : AddNeighbour(t)
  \/ \E t \in Samples : HandleHB(t)
  \/ \E t \in Threads : TransmitNewLSA(t)
  \/ RemoveInactive
  \/ ClientSide

Spec == Init /\ [][Next]_vars

-----------------------------------------------------------------------------
(* Properties *)

(***************************************************************************)
(* The number of an LSA says which one is newer (serverSide keeps the one  *)
(* "that is greater than the existing record"): of all that were made, the *)
(* ones with the greatest number list the neighbours the router has now,   *)
(* however the handlers, the detector and the periodic sender overlap.     *)
(* Except while somebody has changed the list and has yet to transmit it,  *)
(* or has died before, and once two increments of SN have overlapped, one  *)
(* of which is lost then.                                                  *)
(***************************************************************************)
NewestIsCurrent ==
  unsaid = {} /\ ~overlapped =>
    \A m \in newest : m.neighbours = neighbours

(***************************************************************************)
(* A router whose HELLO was dealt with is a neighbour, unless it was       *)
(* declared dead meanwhile: add_neighbour replaces its entry, or appends   *)
(* one "if we didn't find it".                                             *)
(***************************************************************************)
HellosAreListed ==
  rounds = 0 => \A t \in Hellos :
    At(t, "done") => \E k \in 1..Len(neighbours) : Peer(neighbours[k]) = PeerOf[t]

=============================================================================
