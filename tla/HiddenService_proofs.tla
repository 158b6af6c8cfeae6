------------------------- MODULE HiddenService_proofs -------------------------
(***************************************************************************)
(* Theorems about HiddenService, for any threads, scenes, directories,      *)
(* introduction points and retries.                                         *)
(*                                                                         *)
(* _extend_lock makes one thread the only one that searches for a circuit   *)
(* (Locks).  A circuit establishes one rendezvous in its life, so that all  *)
(* its introductions that count are that thread's, for its service; and     *)
(* what a waiter reads was made with the keys the point joined (Extended),   *)
(* unless an introduction was made with a Router whose keys are another's    *)
(* (Mixed).                                                                *)
(* Over HTTP a circuit belongs to one host key (Owned).  A search that has  *)
(* met no other cause to fail has used up a failure for each directory with *)
(* the descriptor it has left behind (Causes).                              *)
(***************************************************************************)
EXTENDS HiddenService, FiniteSetTheorems, SequenceTheorems,
        WellFoundedInduction, TLAPS

(* Where a thread holds _extend_lock, and where it has its rendezvous.      *)
InLock == {"establish", "dirs", "intro", "wait"}
Searching == {"dirs", "intro", "wait"}

HostKeys == {HostKey(Want(t)) : t \in Threads}

Made == {k \in HostKeys : cached[k] # 0}

(* A thread that has a circuit; the circuits of TorInfo are counted by the  *)
(* host keys it has one for; and a search has asked three directories for   *)
(* each replica, but for those it is still to ask.                          *)
Placed ==
  /\ \A t \in Threads : pc[t] \notin {"ready", "failed"} => circ[t] \in Circuits
  /\ IF scene.front = "socks" THEN circuits = 1 ELSE circuits = Cardinality(Made)
  /\ \A t \in Threads : Len(todo[t]) + asked[t] <= 3 * replica[t]

Typed == TypeOK /\ Placed

Locks ==
  \A c \in Circuits : \A t \in Threads : lock[c] = t <=> circ[t] = c /\ pc[t] \in InLock

(* The service's answer to an introduction with key, and what it keeps.     *)
Answer(key) == TapReply(key, <<"y", key>>)
Kept(key) == KdfTor(Shared(key, <<"y", key>>)).material
KeyOf(answer) == answer.key[2]

Met(c) == point[c] \in {"joined", "gone"}

Joined(c) ==
  /\ associated[c] = None <=> hop[c] = <<>>
  /\ lock[c] # None => associated[c] = None
  /\ hop[c] # <<>> => /\ Met(c) /\ hop[c] = <<<<associated[c], joined[c][2]>>>>
                      /\ joined[c][1] = associated[c] \/ Mixed(c)
  /\ point[c] = "open" => \A p \in pending : p.circuit # c
  /\ read[c] # None => /\ Met(c)
                       /\ joined[c] = <<joined[c][1], Kept(KeyOf(read[c]))>>
                       /\ read[c] = Answer(KeyOf(read[c]))

Searched(t) ==
  /\ point[circ[t]] # "open"
  /\ \/ Mixed(circ[t])
     \/ /\ \A p \in pending : p.circuit = circ[t] => p.service = Onion(Want(t))
        /\ read[circ[t]] # None => joined[circ[t]][1] = Onion(Want(t))

Extended ==
  /\ \A c \in Circuits : Joined(c)
  /\ \A t \in Threads : pc[t] \in Searching => Searched(t)

(* A circuit that has established its rendezvous and is still fit for use   *)
(* is associated, in search, or was given up.                               *)
Established ==
  \A c \in Circuits :
    state[c] = "Connected" /\ point[c] # "open" =>
      \/ associated[c] # None \/ c \in failed
      \/ \E t \in Threads : lock[c] = t /\ pc[t] \in Searching

(* Threads that extend a circuit want an onion host, and one that goes on   *)
(* has the circuit to its service.                                          *)
Onions ==
  \A t \in Threads :
    /\ pc[t] \in InLock \cup {"lock"} => IsOnion(Want(t))
    /\ pc[t] \in {"begin", "open"} /\ IsOnion(Want(t)) =>
         associated[circ[t]] = Onion(Want(t))

(* The circuits of different host keys differ, and what a circuit is        *)
(* associated with is what a thread wanted that has it.                     *)
Owned ==
  scene.front # "socks" =>
    /\ \A t \in Threads : circ[t] # 0 => cached[HostKey(Want(t))] = circ[t]
    /\ \A k \in Keys : cached[k] <= circuits
    /\ \A j, k \in Keys : cached[j] = cached[k] /\ cached[j] # 0 => j = k
    /\ \A c \in Circuits : associated[c] # None =>
         \E t \in Threads : /\ circ[t] = c /\ IsOnion(Want(t))
                            /\ associated[c] = Onion(Want(t))
    /\ \A s \in sent : s[1] \in Threads /\ circ[s[1]] \in Circuits
    /\ StreamsReachTheirHost

(* How many of the first n directories that are asked have the descriptor,  *)
(* if both replicas' ids are before the last directory: of three, two.      *)
Tried(n) == IF n <= 2 THEN n ELSE IF n <= 5 THEN n - 1 ELSE 4

(* The directories a thread is still to ask are the last of its replica's.  *)
ToAsk(t) ==
  /\ replica[t] = 0 => asked[t] = 0
  /\ replica[t] > 0 =>
       IF replica[t] = 2 /\ Beyond(1) THEN asked[t] = 3 /\ todo[t] = <<>>
       ELSE LET all == Responsibles(DescriptorId(Auth(Want(t)), 0, replica[t] - 1))
            IN /\ asked[t] + Len(todo[t]) = 3 * replica[t]
               /\ \A i \in 1..Len(todo[t]) : todo[t][i] = all[3 - Len(todo[t]) + i]

(* The rendezvous point waits for a service, and no service is on its way.  *)
Quiet(c) == point[c] = "established" /\ \A p \in pending : p.circuit # c

(* The first n directories that were asked have each cost a failure, if     *)
(* they had the descriptor.                                                 *)
Paid(t, n) == Tried(n) <= faults[circ[t]]

(* An introduction that is made fails, is answered in time, or has been.    *)
Waited(t) ==
  LET c == circ[t] IN
  \/ Quiet(c) /\ read[c] = None /\ Paid(t, asked[t])
  \/ /\ read[c] = None /\ point[c] = "established" /\ made[c] \in listed[c]
     /\ \E p \in pending : p.circuit = c
     /\ \A p \in pending : p.circuit = c => p.key = <<"x", made[c]>>
  \/ read[c] # None /\ read[c] = Answer(<<"x", made[c]>>)

OnCourse(t) ==
  /\ ToAsk(t)
  /\ pc[t] = "dirs" => Quiet(circ[t]) /\ Paid(t, asked[t])
  /\ pc[t] = "intro" =>
       /\ Quiet(circ[t])
       /\ \/ Paid(t, asked[t])
          \/ points[t] = Points /\ asked[t] > 0 /\ Paid(t, asked[t] - 1)
  /\ pc[t] = "wait" => Waited(t)

Causes ==
  /\ FailsForCause
  /\ \A c \in failed : \E u \in Threads : circ[u] = c /\ IsOnion(Want(u)) /\ Cause(u)
  /\ \A c \in Circuits : state[c] # "Connected" => "ended" \in hit[c] \/ c \in failed
  /\ \A c \in Circuits : associated[c] # None =>
       \E u \in Threads : IsOnion(Want(u)) /\ associated[c] = Onion(Want(u))
  /\ scene.front = "socks" => \A t \in Threads : circ[t] \in {0, 1}
  /\ \A t \in Threads : error[t] # "none" /\ circ[t] = 0 => pc[t] = "failed"
  /\ \A t \in Threads : pc[t] \in Searching => Cause(t) \/ OnCourse(t)

-----------------------------------------------------------------------------
(***************************************************************************)
(* Names, circuits and directories.                                         *)
(***************************************************************************)

LEMMA HostsAre ==
  ASSUME scene \in Scenes, NEW t \in Threads
  PROVE  /\ Want(t) \in Seq(STRING \ {None})
         /\ Len(Want(t)) \in Nat
         /\ IsOnion(Want(t)) => Onion(Want(t)) # None
<1>1. Want(t) \in Seq(STRING \ {None})
  BY HostsAssumption DEF Want
<1>2. Len(Want(t)) \in Nat
  BY <1>1
<1>3. ASSUME IsOnion(Want(t)) PROVE Onion(Want(t)) # None
  <2>1. Len(Want(t)) - 1 \in 1..Len(Want(t))
    BY <1>2, <1>3 DEF IsOnion
  <2>2. Want(t)[Len(Want(t)) - 1] \in STRING \ {None}
    BY <1>1, <2>1, ElementOfSeq
  <2> QED BY <2>2 DEF Onion
<1> QED BY <1>1, <1>2, <1>3

(* hostname_key keeps what makes a host an onion, and which. *)
LEMMA KeyTells ==
  ASSUME scene \in Scenes, NEW t \in Threads, NEW u \in Threads,
         HostKey(Want(t)) = HostKey(Want(u)), IsOnion(Want(t))
  PROVE  IsOnion(Want(u)) /\ Onion(Want(t)) = Onion(Want(u))
<1>1. ASSUME NEW v \in Threads, Len(Want(v)) >= 2
      PROVE  /\ Len(HostKey(Want(v))) = 2
             /\ HostKey(Want(v))[1] = Onion(Want(v))
             /\ HostKey(Want(v))[2] = Last(Want(v))
  <2> DEFINE n == Len(Want(v))
  <2>1. n \in Nat /\ n >= 2
    BY <1>1, HostsAre
  <2>2. HostKey(Want(v)) = SubSeq(Want(v), n - 1, n)
    BY <2>1 DEF HostKey
  <2> HIDE DEF n
  <2>3. SubSeq(Want(v), n - 1, n) = [i \in 1..2 |-> Want(v)[n - 1 + i - 1]]
    BY <2>1
  <2>4. Len([i \in 1..2 |-> Want(v)[n - 1 + i - 1]]) = 2
    OBVIOUS
  <2> QED BY <2>1, <2>2, <2>3, <2>4 DEF Onion, Last, n
<1>2. Len(Want(t)) >= 2 /\ Last(Want(t)) = "onion"
  BY DEF IsOnion
<1>3. Len(Want(u)) >= 2
  <2>1. Len(Want(u)) \in Nat
    BY HostsAre
  <2>2. Len(Want(u)) < 2 => HostKey(Want(u)) = Want(u)
    BY DEF HostKey
  <2> QED BY <1>1, <1>2, <2>1, <2>2
<1>4. Last(Want(t)) = Last(Want(u)) /\ Onion(Want(t)) = Onion(Want(u))
  BY <1>1, <1>2, <1>3
<1> QED BY <1>2, <1>3, <1>4 DEF IsOnion

LEMMA CircuitsAre ==
  /\ Cardinality(Threads) \in Nat \ {0}
  /\ Circuits = 1..Cardinality(Threads) /\ Circuits \subseteq Nat \ {0}
<1>1. Cardinality(Threads) \in Nat /\ Cardinality(Threads) # 0
  BY HiddenServiceAssumption, FS_CardinalityType, FS_EmptySet
<1> QED BY <1>1 DEF Circuits

(* There are no more host keys than threads. *)
LEMMA KeysAreFew ==
  IsFiniteSet(HostKeys) /\ Cardinality(HostKeys) <= Cardinality(Threads)
<1> DEFINE f == [t \in Threads |-> HostKey(Want(t))]
<1>1. f \in Surjection(Threads, HostKeys)
  BY DEF Surjection, HostKeys
<1> QED BY <1>1, FS_Surjection, HiddenServiceAssumption

(* What there is at all among the natural numbers there is a least of. *)
LEMMA LeastOf ==
  ASSUME NEW T, T \subseteq Nat, T # {}
  PROVE  \E x \in T : \A y \in T : x <= y
<1> DEFINE R == StrictSubsetOrdering(Nat)
           initial == {0..x : x \in T}
<1>1. initial \subseteq FiniteSubsetsOf(Nat) /\ initial # {}
  <2>1. ASSUME NEW x \in T PROVE 0..x \in SUBSET Nat /\ IsFiniteSet(0..x)
    BY FS_Interval
  <2> QED BY <2>1 DEF FiniteSubsetsOf
<1>2. IsWellFoundedOn(R, FiniteSubsetsOf(Nat))
  BY FS_StrictSubsetOrderingWellFounded
<1> HIDE DEF R
<1>3. \E I \in initial : \A J \in initial : <<J, I>> \notin R
  BY <1>1, <1>2, WFMin
<1>4. PICK x \in T : \A y \in T : <<0..y, 0..x>> \notin R
  BY <1>3
<1>5. ASSUME NEW y \in T, ~(x <= y) PROVE FALSE
  <2>1. 0..y \subseteq 0..x /\ x \in 0..x /\ x \notin 0..y
    BY <1>5
  <2>2. <<0..y, 0..x>> \in R
    BY <2>1 DEF R, StrictSubsetOrdering
  <2> QED BY <1>4, <2>2
<1> QED BY <1>5

(* get_responsibles names three directories for a replica, or none. *)
LEMMA ThreeDirectories ==
  ASSUME NEW id
  PROVE  Responsibles(id) \in Seq(1..HsDirs) /\ Len(Responsibles(id)) \in {0, 3}
<1> DEFINE after == {d \in 1..HsDirs : Fingerprint(d) > id.at}
           i == CHOOSE d \in after : \A e \in after : d <= e
<1>1. CASE after = {}
  <2>1. Responsibles(id) = <<>>
    BY <1>1 DEF Responsibles
  <2> QED BY <2>1
<1>2. CASE after # {}
  <2>1. \E d \in after : \A e \in after : d <= e
    <3>1. after \subseteq Nat
      BY HiddenServiceAssumption
    <3> HIDE DEF after
    <3> QED BY <1>2, <3>1, LeastOf
  <2>2. i \in Nat
    BY <2>1
  <2>3. Responsibles(id) = Following(i + 1, 3)
    BY <1>2 DEF Responsibles
  <2> HIDE DEF i, after
  <2>4. ASSUME NEW j \in 1..3 PROVE ((i + 1 + j - 2) % HsDirs) + 1 \in 1..HsDirs
    BY <2>2, HiddenServiceAssumption
  <2>5. Following(i + 1, 3) \in [1..3 -> 1..HsDirs]
    BY <2>4 DEF Following
  <2>6. ASSUME NEW r \in [1..3 -> 1..HsDirs] PROVE r \in Seq(1..HsDirs) /\ Len(r) = 3
    <3>1. r \in Seq(1..HsDirs)
      BY <2>6, SeqDef
    <3>2. DOMAIN r = 1..Len(r) /\ Len(r) \in Nat
      BY <3>1, LenProperties
    <3>3. DOMAIN r = 1..3
      BY <2>6
    <3> QED BY <3>1, <3>2, <3>3
  <2> QED BY <2>3, <2>5, <2>6
<1> QED BY <1>1, <1>2

-----------------------------------------------------------------------------
(***************************************************************************)
(* Types and places.                                                        *)
(***************************************************************************)

LEMMA TypedInit == Init => Typed
<1> SUFFICES ASSUME Init PROVE Typed
  OBVIOUS
<1> USE DEF Init
<1>1. 0..6 \subseteq Nat /\ 1 \in 1..Retries /\ 0 \in 0..Points
  BY HiddenServiceAssumption
<1>2. circuits \in Circuits \cup {0}
  BY CircuitsAre
<1>3. TypeOK
  BY <1>1, <1>2 DEF TypeOK
<1>4. Made = {}
  <2>1. \A k \in HostKeys : k \in Keys
    BY DEF HostKeys, Keys, Want
  <2> QED BY <2>1 DEF Made
<1>5. scene.front # "socks" => circuits = Cardinality(Made)
  BY <1>4, FS_EmptySet
<1> QED BY <1>3, <1>5 DEF Typed, Placed, InLock

Labels == {"ready", "stream", "lock", "establish", "dirs", "intro", "wait", "begin",
           "open", "done", "failed"}

(* An exception, a step to the next place, a failure of something else.     *)
LEMMA RaiseTyped ==
  ASSUME TypeOK, NEW t \in Threads, NEW kind, Raise(t, kind)
  PROVE  /\ pc' \in [Threads -> Labels] /\ DOMAIN error' = Threads
         /\ tries' \in [Threads -> 1..Retries]
         /\ pc'[t] \in {"ready", "failed"}
         /\ \A u \in Threads \ {t} : pc'[u] = pc[u]
<1>1. Again(t, kind) => tries[t] + 1 \in 1..Retries
  BY HiddenServiceAssumption DEF Again, TypeOK
<1>2. tries[t] + 0 = tries[t]
  BY HiddenServiceAssumption DEF TypeOK
<1> QED BY <1>1, <1>2 DEF Raise, Goto, TypeOK, Labels

LEMMA ContinueTyped ==
  ASSUME TypeOK, NEW t \in Threads, NEW label \in Labels, Continue(t, label)
  PROVE  /\ pc' \in [Threads -> Labels] /\ DOMAIN error' = Threads
         /\ tries' \in [Threads -> 1..Retries]
         /\ pc'[t] = label
         /\ \A u \in Threads \ {t} : pc'[u] = pc[u]
BY DEF Continue, Goto, TypeOK, Labels

LEMMA FaultTyped ==
  ASSUME TypeOK, NEW c \in Circuits \cup {0}, NEW kind \in Kinds, NoFault \/ Fault(c, kind)
  PROVE  faults' \in [Circuits \cup {0} -> Nat] /\ hit' \in [Circuits \cup {0} -> SUBSET Kinds]
<1>1. CASE NoFault
  BY <1>1 DEF NoFault, TypeOK
<1>2. CASE Fault(c, kind)
  <2>1. faults' \in [Circuits \cup {0} -> Nat]
    BY <1>2, HiddenServiceAssumption DEF Fault, TypeOK
  <2>2. hit' = [hit EXCEPT ![c] = hit[c] \cup {kind}]
    BY <1>2 DEF Fault
  <2> QED BY <2>1, <2>2 DEF TypeOK
<1> QED BY <1>1, <1>2

LEMMA RaiseInLockTyped ==
  ASSUME Typed, NEW t \in Threads, pc[t] \in InLock, NEW kind, RaiseInLock(t, kind)
  PROVE  /\ lock' \in [Circuits -> Threads \cup {None}] /\ failed' \subseteq Circuits
         /\ circ[t] \in Circuits /\ lock'[circ[t]] = None
BY DEF RaiseInLock, Typed, TypeOK, Placed, InLock

(* get_circuit: a circuit that is created is the first for its host key.    *)
LEMMA CircuitCreated ==
  ASSUME Typed, NEW t \in Threads, scene.front # "socks", cached[HostKey(Want(t))] = 0,
         circuits' = circuits + 1,
         cached' = [cached EXCEPT ![HostKey(Want(t))] = circuits'],
         scene' = scene
  PROVE  circuits' \in Circuits /\ circuits' = Cardinality(Made)'
         /\ cached' \in [Keys -> Circuits \cup {0}]
<1> DEFINE key == HostKey(Want(t))
<1>1. key \in HostKeys /\ key \in Keys /\ HostKeys \subseteq Keys
  BY DEF HostKeys, Keys, Want
<1>2. HostKeys' = HostKeys
  BY DEF HostKeys, HostKey, Want
<1>3. circuits \in Nat /\ cached \in [Keys -> Circuits \cup {0}]
  BY CircuitsAre DEF Typed, TypeOK
<1>4. cached'[key] = circuits + 1 /\ \A k \in Keys \ {key} : cached'[k] = cached[k]
  BY <1>1, <1>3
<1> HIDE DEF key
<1>5. Made' = Made \cup {key} /\ key \notin Made
  <2>1. ASSUME NEW k \in HostKeys PROVE cached'[k] # 0 <=> k \in Made \/ k = key
    BY <1>1, <1>3, <1>4, <2>1 DEF Made
  <2>2. key \notin Made
    BY DEF Made, key
  <2> QED BY <1>1, <1>2, <2>1, <2>2 DEF Made
<1>6. IsFiniteSet(Made) /\ Made' \in SUBSET HostKeys
  <2>1. Made \in SUBSET HostKeys
    BY DEF Made
  <2> QED BY <1>1, <1>5, <2>1, KeysAreFew, FS_Subset
<1>7. Cardinality(Made)' = circuits + 1
  <2>1. Cardinality(Made \cup {key}) = Cardinality(Made) + 1
    BY <1>5, <1>6, FS_AddElement
  <2> QED BY <1>5, <2>1 DEF Typed, Placed
<1>8. Cardinality(Made)' <= Cardinality(HostKeys)
  BY <1>6, KeysAreFew, FS_Subset
<1>9. circuits + 1 \in Circuits
  <2>1. Cardinality(HostKeys) \in Nat
    BY KeysAreFew, FS_CardinalityType
  <2> QED BY <1>3, <1>7, <1>8, <2>1, KeysAreFew, CircuitsAre
<1> QED BY <1>3, <1>7, <1>9

LEMMA NoFaultTyped ==
  ASSUME TypeOK, NoFault
  PROVE  faults' \in [Circuits \cup {0} -> Nat] /\ hit' \in [Circuits \cup {0} -> SUBSET Kinds]
BY DEF NoFault, TypeOK

LEMMA MixTyped ==
  ASSUME TypeOK, NEW c \in Circuits, Mix(c)
  PROVE  faults' \in [Circuits \cup {0} -> Nat] /\ hit' \in [Circuits \cup {0} -> SUBSET Kinds]
<1>1. hit' = [hit EXCEPT ![c] = hit[c] \cup {"mixed"}] /\ faults' = faults
  BY DEF Mix
<1>2. "mixed" \in Kinds
  BY DEF Kinds
<1> QED BY <1>1, <1>2 DEF TypeOK

LEMMA MadeSame ==
  ASSUME UNCHANGED <<scene, cached>> PROVE Made' = Made
BY DEF Made, HostKeys, HostKey, Want

LEMMA KeysSame ==
  ASSUME UNCHANGED scene PROVE Keys' = Keys
BY DEF Keys, HostKey, HostKeyFirst

(* A step of a thread that has its circuit. *)
LEMMA StaysPlaced ==
  ASSUME Typed, NEW t \in Threads, pc[t] \notin {"ready", "failed"},
         \A u \in Threads \ {t} : pc'[u] = pc[u],
         UNCHANGED <<scene, info, circ>>,
         \A u \in Threads \ {t} : todo'[u] = todo[u] /\ asked'[u] = asked[u]
                                  /\ replica'[u] = replica[u],
         Len(todo'[t]) + asked'[t] <= 3 * replica'[t]
  PROVE  Placed'
<1>1. UNCHANGED <<cached, circuits, circ, scene>>
  BY DEF info
<1>2. Made' = Made
  BY <1>1, MadeSame
<1>3. \A u \in Threads : pc'[u] \notin {"ready", "failed"} => circ'[u] \in Circuits
  BY <1>1 DEF Typed, Placed
<1>4. \A u \in Threads : Len(todo'[u]) + asked'[u] <= 3 * replica'[u]
  BY DEF Typed, Placed
<1> QED BY <1>1, <1>2, <1>3, <1>4 DEF Typed, Placed

LEMMA BeforeSearchTyped ==
  ASSUME Typed, NEW t \in Threads, GetCircuit(t) \/ OpenStream(t) \/ Lock(t)
  PROVE  Typed'
<1> USE DEF circuit, meeting, search, network, history
<1>1. CASE GetCircuit(t)
  <2> USE <1>1 DEF GetCircuit
  <2> DEFINE old == IF scene.front = "socks" THEN 1 ELSE cached[HostKey(Want(t))]
  <2>1. HostKey(Want(t)) \in Keys
    BY DEF Keys, Want
  <2>2. old \in Circuits \cup {0}
    BY <2>1, CircuitsAre DEF Typed, TypeOK
  <2>3. scene' = scene /\ UNCHANGED <<todo, replica, asked>>
    OBVIOUS
  <2>4. /\ circuits' \in Circuits \cup {0} /\ cached' \in [Keys -> Circuits \cup {0}]
        /\ IF scene.front = "socks" THEN circuits' = 1 ELSE circuits' = Cardinality(Made)'
    <3>1. CASE UNCHANGED info
      <4>1. UNCHANGED <<cached, circuits>>
        BY <3>1 DEF info
      <4> QED BY <2>3, <4>1, MadeSame DEF Typed, TypeOK, Placed
    <3>2. CASE old = 0 /\ circuits' = circuits + 1
               /\ cached' = [cached EXCEPT ![HostKey(Want(t))] = circuits']
      <4>1. scene.front # "socks" /\ cached[HostKey(Want(t))] = 0
        BY <3>2
      <4> QED BY <2>3, <3>2, <4>1, CircuitCreated
    <3> QED BY <3>1, <3>2
  <2>5. /\ circ' \in [Threads -> Circuits \cup {0}]
        /\ \A u \in Threads \ {t} : circ'[u] = circ[u]
        /\ pc' \in [Threads -> Labels] /\ DOMAIN error' = Threads
        /\ tries' \in [Threads -> 1..Retries]
        /\ \A u \in Threads \ {t} : pc'[u] = pc[u]
        /\ pc'[t] \in {"stream", "ready", "failed"}
        /\ pc'[t] = "stream" => circ'[t] \in Circuits
        /\ faults' \in [Circuits \cup {0} -> Nat] /\ hit' \in [Circuits \cup {0} -> SUBSET Kinds]
    <3>1. CASE /\ old # 0
               /\ circ' = [circ EXCEPT ![t] = old]
               /\ Continue(t, "stream") /\ NoFault
      BY <2>2, <3>1, ContinueTyped, NoFaultTyped DEF Typed, TypeOK, Labels
    <3>2. CASE /\ old = 0 /\ circuits' = circuits + 1
               /\ cached' = [cached EXCEPT ![HostKey(Want(t))] = circuits']
               /\ circ' = [circ EXCEPT ![t] = circuits']
               /\ Continue(t, "stream") /\ NoFault
      <4>1. scene.front # "socks" /\ cached[HostKey(Want(t))] = 0
        BY <3>2
      <4>2. circuits' \in Circuits
        BY <2>3, <3>2, <4>1, CircuitCreated
      <4> QED BY <3>2, <4>2, ContinueTyped, NoFaultTyped DEF Typed, TypeOK, Labels
    <3>3. CASE Fault(0, "create") /\ Raise(t, "CircuitExtendError") /\ UNCHANGED circ
      BY <3>3, RaiseTyped, FaultTyped DEF Typed, TypeOK, Labels, Kinds
    <3> QED BY <3>1, <3>2, <3>3
  <2>6. TypeOK'
    BY <2>3, <2>4, <2>5, KeysSame DEF Typed, TypeOK, Labels
  <2>7. \A u \in Threads : Len(todo'[u]) + asked'[u] <= 3 * replica'[u]
    BY <2>3, <2>5 DEF Typed, Placed, InLock
  <2>8. \A u \in Threads : pc'[u] \notin {"ready", "failed"} => circ'[u] \in Circuits
    BY <2>5 DEF Typed, Placed
  <2> QED BY <2>3, <2>4, <2>6, <2>7, <2>8 DEF Typed, Placed
<1>2. CASE OpenStream(t)
  <2>1. /\ UNCHANGED <<scene, period, info, state, associated, hop, lock, meeting, side, circ,
                       search, network, history>>
        /\ pc[t] = "stream"
        /\ streams' = streams \/ streams' = streams \cup {<<t, tries[t]>>}
    BY <1>2 DEF OpenStream
  <2>2. \/ \E label \in {"begin", "lock"} : Continue(t, label)
        \/ \E kind \in {"AssertionError", "RuntimeError"} : Raise(t, kind)
    BY <1>2 DEF OpenStream
  <2>3. /\ pc' \in [Threads -> Labels] /\ DOMAIN error' = Threads
        /\ tries' \in [Threads -> 1..Retries]
        /\ pc'[t] \notin InLock
        /\ \A u \in Threads \ {t} : pc'[u] = pc[u]
    BY <2>2, RaiseTyped, ContinueTyped DEF Typed, Labels, InLock
  <2>4. <<t, tries[t]>> \in Streams
    BY DEF Typed, TypeOK, Streams
  <2>5. TypeOK'
    BY <2>1, <2>3, <2>4, KeysSame DEF Typed, TypeOK, Labels, info
  <2>6. Placed'
    BY <2>1, <2>3, StaysPlaced DEF Typed, Placed, info
  <2> QED BY <2>5, <2>6 DEF Typed
<1>3. CASE Lock(t)
  <2>1. /\ UNCHANGED <<scene, period, info, state, associated, hop, streams, meeting, side,
                       circ, search, network, history>>
        /\ pc[t] = "lock"
        /\ lock' = lock \/ lock' = [lock EXCEPT ![circ[t]] = t]
    BY <1>3 DEF Lock
  <2>2. \/ \E label \in {"begin", "establish"} : Continue(t, label)
        \/ Raise(t, "Exception")
    BY <1>3 DEF Lock
  <2>3. /\ pc' \in [Threads -> Labels] /\ DOMAIN error' = Threads
        /\ tries' \in [Threads -> 1..Retries]
        /\ \A u \in Threads \ {t} : pc'[u] = pc[u]
    BY <2>2, RaiseTyped, ContinueTyped DEF Typed, Labels
  <2>4. lock' \in [Circuits -> Threads \cup {None}]
    BY <2>1 DEF Typed, TypeOK
  <2>5. TypeOK'
    <3>1. UNCHANGED <<scene, period, info, state, associated, hop, streams, meeting, side,
                      circ, search, network, history>>
      BY <2>1
    <3> QED BY <2>3, <2>4, <3>1, KeysSame DEF Typed, TypeOK, Labels, info
  <2>6. Placed'
    BY <2>1, <2>3, StaysPlaced DEF Typed, Placed, info
  <2> QED BY <2>5, <2>6 DEF Typed
<1> QED BY <1>1, <1>2, <1>3

(* What an action of extend_to_hidden does to the place of its thread.      *)
Moves(t) ==
  /\ \A u \in Threads \ {t} : pc'[u] = pc[u]
  /\ pc' \in [Threads -> Labels] /\ DOMAIN error' = Threads
  /\ tries' \in [Threads -> 1..Retries]
  /\ lock' \in [Circuits -> Threads \cup {None}] /\ failed' \subseteq Circuits

LEMMA ContinueMoves ==
  ASSUME Typed, NEW t \in Threads, NEW label \in Labels, Continue(t, label),
         UNCHANGED <<lock, failed>>
  PROVE  Moves(t)
BY ContinueTyped DEF Typed, TypeOK, Moves

LEMMA RaiseMoves ==
  ASSUME Typed, NEW t \in Threads, pc[t] \in InLock, NEW kind, RaiseInLock(t, kind)
  PROVE  Moves(t)
<1>1. Raise(t, kind)
  BY DEF RaiseInLock
<1> QED BY <1>1, RaiseTyped, RaiseInLockTyped DEF Typed, Moves

LEMMA DirectoriesTyped ==
  ASSUME Typed, NEW t \in Threads, Establish(t) \/ NextReplica(t) \/ AskDir(t)
  PROVE  Typed'
<1> USE DEF circuit, meeting, search, network, history
<1>1. CASE Establish(t)
  <2>1. /\ UNCHANGED <<scene, period, info, associated, hop, streams, meeting, side, circ,
                       points, joined, pending, faults, hit, sent>>
        /\ pc[t] = "establish" /\ circ[t] \in Circuits
    BY <1>1 DEF Establish, Typed, Placed
  <2>2. /\ point' \in [Circuits -> {"open", "established", "joined", "gone"}]
        /\ state' \in [Circuits -> {"Connected", "Truncated"}]
    BY <1>1 DEF Establish, Typed, TypeOK
  <2>3. Moves(t)
    <3>1. CASE Continue(t, "dirs") /\ UNCHANGED <<lock, failed>>
      BY <3>1, ContinueMoves DEF Labels
    <3>2. CASE RaiseInLock(t, "CellTimeoutError")
      BY <2>1, <3>2, RaiseMoves DEF InLock
    <3> QED BY <1>1, <3>1, <3>2 DEF Establish
  <2>4. \/ UNCHANGED <<todo, asked, replica>>
        \/ /\ todo' = [todo EXCEPT ![t] = <<>>]
           /\ replica' = [replica EXCEPT ![t] = 0]
           /\ asked' = [asked EXCEPT ![t] = 0]
    BY <1>1 DEF Establish
  <2>5. /\ todo' \in [Threads -> Seq(1..HsDirs)] /\ asked' \in [Threads -> 0..6]
        /\ replica' \in [Threads -> 0..2]
        /\ \A u \in Threads : /\ Len(todo'[u]) <= 3
                              /\ Len(todo'[u]) + asked'[u] <= 3 * replica'[u]
        /\ \A u \in Threads \ {t} : todo'[u] = todo[u] /\ asked'[u] = asked[u]
                                    /\ replica'[u] = replica[u]
    <3>1. CASE UNCHANGED <<todo, asked, replica>>
      BY <3>1 DEF Typed, TypeOK, Placed
    <3>2. CASE /\ todo' = [todo EXCEPT ![t] = <<>>]
               /\ replica' = [replica EXCEPT ![t] = 0]
               /\ asked' = [asked EXCEPT ![t] = 0]
      <4>1. \A u \in Threads \ {t} : todo'[u] = todo[u] /\ asked'[u] = asked[u]
                                    /\ replica'[u] = replica[u]
        BY <3>2 DEF Typed, TypeOK
      <4>2. todo'[t] = <<>> /\ asked'[t] = 0 /\ replica'[t] = 0
        BY <3>2 DEF Typed, TypeOK
      <4>3. /\ todo' \in [Threads -> Seq(1..HsDirs)] /\ asked' \in [Threads -> 0..6]
            /\ replica' \in [Threads -> 0..2]
        BY <3>2 DEF Typed, TypeOK
      <4>4. Len(todo'[t]) <= 3 /\ Len(todo'[t]) + asked'[t] <= 3 * replica'[t]
        BY <4>2
      <4> QED BY <4>1, <4>3, <4>4 DEF Typed, TypeOK, Placed
    <3> QED BY <2>4, <3>1, <3>2
  <2>6. TypeOK'
    BY <2>1, <2>2, <2>3, <2>5, KeysSame DEF Typed, TypeOK, Moves, Labels, info
  <2>7. Placed'
    BY <2>1, <2>3, <2>5, StaysPlaced DEF Moves
  <2> QED BY <2>6, <2>7 DEF Typed
<1>2. CASE NextReplica(t)
  <2>1. /\ UNCHANGED <<scene, period, info, state, associated, hop, streams, meeting, side,
                       circ, asked, points, network, faults, hit, sent>>
        /\ pc[t] = "dirs" /\ circ[t] \in Circuits /\ todo[t] = <<>>
    BY <1>2 DEF NextReplica, Typed, Placed
  <2>2. Moves(t)
    <3>1. CASE UNCHANGED <<pc, tries, error, lock, failed>>
      BY <3>1 DEF Typed, TypeOK, Moves, Labels
    <3>2. CASE RaiseInLock(t, "Can't extend")
      BY <2>1, <3>2, RaiseMoves DEF InLock
    <3> QED BY <1>2, <3>1, <3>2 DEF NextReplica
  <2>3. \/ UNCHANGED <<todo, replica>>
        \/ /\ replica[t] < 2
           /\ replica' = [replica EXCEPT ![t] = @ + 1]
           /\ \E id : todo' = [todo EXCEPT ![t] = Responsibles(id)]
    BY <1>2 DEF NextReplica
  <2>4. /\ todo' \in [Threads -> Seq(1..HsDirs)] /\ replica' \in [Threads -> 0..2]
        /\ \A u \in Threads : /\ Len(todo'[u]) <= 3
                              /\ Len(todo'[u]) + asked[u] <= 3 * replica'[u]
        /\ \A u \in Threads \ {t} : todo'[u] = todo[u] /\ replica'[u] = replica[u]
    <3>1. CASE UNCHANGED <<todo, replica>>
      BY <3>1 DEF Typed, TypeOK, Placed
    <3>2. CASE ~UNCHANGED <<todo, replica>>
      <4> PICK id : /\ replica[t] < 2
                    /\ replica' = [replica EXCEPT ![t] = @ + 1]
                    /\ todo' = [todo EXCEPT ![t] = Responsibles(id)]
        BY <2>3, <3>2
      <4>1. Responsibles(id) \in Seq(1..HsDirs) /\ Len(Responsibles(id)) \in {0, 3}
        BY ThreeDirectories
      <4>2. Len(todo[t]) = 0 /\ asked[t] \in 0..6 /\ replica[t] \in 0..2
        BY <2>1 DEF Typed, TypeOK
      <4>3. todo'[t] = Responsibles(id) /\ replica'[t] = replica[t] + 1
        BY DEF Typed, TypeOK
      <4>4. Len(todo'[t]) <= 3 /\ Len(todo'[t]) + asked[t] <= 3 * replica'[t]
        <5>1. ASSUME NEW r \in 0..2, NEW a \in 0..6, NEW n \in {0, 3}, 0 + a <= 3 * r
              PROVE  n <= 3 /\ n + a <= 3 * (r + 1)
          BY <5>1
        <5>2. Len(todo[t]) + asked[t] <= 3 * replica[t]
          BY DEF Typed, Placed
        <5>3. 0 + asked[t] <= 3 * replica[t]
          BY <4>2, <5>2
        <5>4. LET n == Len(Responsibles(id))
              IN n <= 3 /\ n + asked[t] <= 3 * (replica[t] + 1)
          BY <4>1, <4>2, <5>1, <5>3
        <5> QED BY <4>3, <5>4
      <4>5. \A u \in Threads \ {t} : todo'[u] = todo[u] /\ replica'[u] = replica[u]
        BY DEF Typed, TypeOK
      <4>6. todo' \in [Threads -> Seq(1..HsDirs)] /\ replica' \in [Threads -> 0..2]
        <5>1. replica[t] \in 0..2 /\ replica[t] + 1 \in 0..2
          BY DEF Typed, TypeOK
        <5> QED BY <4>1, <5>1 DEF Typed, TypeOK
      <4> QED BY <4>4, <4>5, <4>6 DEF Typed, TypeOK, Placed
    <3> QED BY <3>1, <3>2
  <2>5. TypeOK'
    BY <2>1, <2>2, <2>4, KeysSame DEF Typed, TypeOK, Moves, Labels, info
  <2>6. Placed'
    BY <2>1, <2>2, <2>4, StaysPlaced DEF Moves, Typed, TypeOK
  <2> QED BY <2>5, <2>6 DEF Typed
<1>3. CASE AskDir(t)
  <2>1. /\ UNCHANGED <<scene, period, info, state, associated, hop, streams, meeting, side,
                       circ, replica, network, sent>>
        /\ pc[t] = "dirs" /\ circ[t] \in Circuits /\ todo[t] # <<>>
    BY <1>3 DEF AskDir, Typed, Placed
  <2>2. Moves(t)
    <3>1. CASE \E label \in {"intro", "dirs"} : Continue(t, label) /\ UNCHANGED <<lock, failed>>
      BY <3>1, ContinueMoves DEF Labels
    <3>2. CASE RaiseInLock(t, "Exception")
      BY <2>1, <3>2, RaiseMoves DEF InLock
    <3> QED BY <1>3, <3>1, <3>2 DEF AskDir
  <2>3. /\ faults' \in [Circuits \cup {0} -> Nat] /\ hit' \in [Circuits \cup {0} -> SUBSET Kinds]
        /\ points' \in [Threads -> 0..Points]
    <3>1. NoFault \/ \E kind \in {"missing", "dir"} : Fault(circ[t], kind)
      BY <1>3 DEF AskDir
    <3>2. {"missing", "dir"} \subseteq Kinds
      BY DEF Kinds
    <3>3. points' = points \/ points' = [points EXCEPT ![t] = Points]
      BY <1>3 DEF AskDir
    <3>4. points' \in [Threads -> 0..Points]
      <4>1. Points \in 0..Points
        BY HiddenServiceAssumption
      <4> QED BY <3>3, <4>1 DEF Typed, TypeOK
    <3> QED BY <2>1, <3>1, <3>2, <3>4, NoFaultTyped, FaultTyped DEF Typed
  <2>4. /\ todo' = [todo EXCEPT ![t] = Tail(todo[t])]
        /\ asked' = [asked EXCEPT ![t] = asked[t] + 1]
    BY <1>3 DEF AskDir
  <2>5. Tail(todo[t]) \in Seq(1..HsDirs) /\ Len(Tail(todo[t])) = Len(todo[t]) - 1
        /\ Len(todo[t]) \in Nat \ {0}
    BY <2>1 DEF Typed, TypeOK
  <2>6. /\ todo' \in [Threads -> Seq(1..HsDirs)] /\ asked' \in [Threads -> 0..6]
        /\ \A u \in Threads : /\ Len(todo'[u]) <= 3
                              /\ Len(todo'[u]) + asked'[u] <= 3 * replica[u]
        /\ \A u \in Threads \ {t} : todo'[u] = todo[u] /\ asked'[u] = asked[u]
    <3>1. \A u \in Threads \ {t} : todo'[u] = todo[u] /\ asked'[u] = asked[u]
      BY <2>4 DEF Typed, TypeOK
    <3>2. todo'[t] = Tail(todo[t]) /\ asked'[t] = asked[t] + 1
      BY <2>4 DEF Typed, TypeOK
    <3>3. asked[t] \in 0..6 /\ replica[t] \in 0..2 /\ Len(todo[t]) + asked[t] <= 3 * replica[t]
          /\ Len(todo[t]) <= 3
      BY DEF Typed, TypeOK, Placed
    <3>4. asked[t] + 1 \in 0..6 /\ Len(todo'[t]) <= 3
          /\ Len(todo'[t]) + asked'[t] <= 3 * replica[t]
      BY <2>5, <3>2, <3>3
    <3>5. todo' \in [Threads -> Seq(1..HsDirs)] /\ asked' \in [Threads -> 0..6]
      BY <2>4, <2>5, <3>4 DEF Typed, TypeOK
    <3> QED BY <3>1, <3>4, <3>5 DEF Typed, TypeOK, Placed
  <2>7. TypeOK'
    BY <2>1, <2>2, <2>3, <2>6, KeysSame DEF Typed, TypeOK, Moves, Labels, info
  <2>8. Placed'
    BY <2>1, <2>2, <2>6, StaysPlaced DEF Moves
  <2> QED BY <2>7, <2>8 DEF Typed
<1> QED BY <1>1, <1>2, <1>3

LEMMA IntroductionsTyped ==
  ASSUME Typed, NEW t \in Threads,
         NoMorePoints(t) \/ UnknownPoint(t) \/ Introduce(t) \/ Answered(t) \/ Timeout(t)
  PROVE  Typed'
<1> USE DEF circuit, meeting, search, network, history
<1>1. CASE NoMorePoints(t)
  <2>1. /\ UNCHANGED <<scene, period, info, circuit, meeting, side, circ, search, network,
                       history>>
        /\ pc[t] = "intro" /\ Moves(t)
    BY <1>1, ContinueMoves DEF NoMorePoints, Labels
  <2>2. TypeOK'
    BY <2>1, KeysSame DEF Typed, TypeOK, Moves, Labels, info
  <2>3. Placed'
    BY <2>1, StaysPlaced DEF Moves, Typed, Placed
  <2> QED BY <2>2, <2>3 DEF Typed
<1>2. CASE Introduce(t)
  <2>1. /\ UNCHANGED <<scene, period, info, circuit, circ, todo, replica, asked, point, joined,
                       failed, sent>>
        /\ pc[t] = "intro" /\ circ[t] \in Circuits /\ points[t] > 0
        /\ points' = [points EXCEPT ![t] = points[t] - 1]
    BY <1>2 DEF Introduce, Typed, Placed
  <2>2. Moves(t)
    <3>1. \E label \in {"intro", "wait"} : Continue(t, label)
      BY <1>2 DEF Introduce
    <3> QED BY <2>1, <3>1, ContinueMoves DEF Labels
  <2>3. /\ faults' \in [Circuits \cup {0} -> Nat] /\ hit' \in [Circuits \cup {0} -> SUBSET Kinds]
    <3>1. NoFault \/ Mix(circ[t]) \/ \E kind \in {"intro", "unanswered"} : Fault(circ[t], kind)
      BY <1>2 DEF Introduce
    <3>2. {"intro", "unanswered"} \subseteq Kinds
      BY DEF Kinds
    <3> QED BY <2>1, <3>1, <3>2, NoFaultTyped, FaultTyped, MixTyped DEF Typed
  <2>4. points' \in [Threads -> 0..Points] /\ side' \subseteq Threads
    <3>1. points[t] - 1 \in 0..Points
      BY <2>1, HiddenServiceAssumption DEF Typed, TypeOK
    <3>2. side' = side \/ side' = side \cup {t}
      BY <1>2 DEF Introduce
    <3> QED BY <2>1, <3>1, <3>2 DEF Typed, TypeOK
  <2>5. /\ made' \in [Circuits -> Nat] /\ listed' \in [Circuits -> SUBSET Nat]
        /\ \A c \in Circuits : listed'[c] \subseteq 1..made'[c]
        /\ DOMAIN read' = Circuits
    <3>1. CASE UNCHANGED meeting
      BY <3>1 DEF Typed, TypeOK
    <3>2. CASE ~UNCHANGED meeting
      <4> DEFINE c == circ[t]
                 n == made[c] + 1
      <4>1. /\ made' = [made EXCEPT ![c] = n]
            /\ listed' = [listed EXCEPT ![c] = listed[c] \cup {n}]
            /\ read' = [read EXCEPT ![c] = None]
        BY <1>2, <3>2 DEF Introduce
      <4>2. /\ c \in Circuits /\ made[c] \in Nat /\ n \in Nat \ {0}
            /\ listed[c] \subseteq 1..made[c]
        BY <2>1 DEF Typed, TypeOK
      <4>3. listed[c] \cup {n} \subseteq 1..n
        BY <4>2
      <4> HIDE DEF c, n
      <4> QED BY <4>1, <4>2, <4>3 DEF Typed, TypeOK
    <3> QED BY <3>1, <3>2
  <2>6. UNCHANGED <<scene, period, cached, circuits, state, associated, hop, lock, streams,
                    circ, todo, replica, asked, point, joined>>
    BY <2>1 DEF info
  <2>7. TypeOK'
    BY <2>2, <2>3, <2>4, <2>5, <2>6, KeysSame DEF Typed, TypeOK, Moves, Labels
  <2>8. Placed'
    BY <2>1, <2>2, StaysPlaced DEF Moves, Typed, Placed
  <2> QED BY <2>7, <2>8 DEF Typed
<1>3. CASE Answered(t)
  <2>1. /\ UNCHANGED <<scene, period, info, state, streams, meeting, circ, search, network,
                       history>>
        /\ pc[t] = "wait" /\ side' = side \ {t}
    BY <1>3 DEF Answered
  <2>2. lock' \in [Circuits -> Threads \cup {None}]
    BY <1>3 DEF Answered, Typed, TypeOK
  <2>3. DOMAIN hop' = DOMAIN hop /\ DOMAIN associated' = DOMAIN associated
    BY <1>3 DEF Answered
  <2>4. Moves(t)
    <3>1. \E label \in {"intro", "begin"} : Continue(t, label)
      BY <1>3 DEF Answered
    <3>2. /\ pc' \in [Threads -> Labels] /\ DOMAIN error' = Threads
          /\ tries' \in [Threads -> 1..Retries]
          /\ \A u \in Threads \ {t} : pc'[u] = pc[u]
      BY <3>1, ContinueTyped DEF Labels, Typed
    <3>3. failed' \subseteq Circuits
      BY <2>1 DEF Typed, TypeOK
    <3> QED BY <2>2, <3>2, <3>3 DEF Moves
  <2>5. UNCHANGED <<scene, period, cached, circuits, state, streams, circ, points,
                    todo, replica, asked, point, joined, listed, read, made, faults, hit, failed>>
    BY <2>1 DEF info
  <2>6. TypeOK'
    BY <2>1, <2>3, <2>4, <2>5, KeysSame DEF Typed, TypeOK, Moves, Labels
  <2>7. Placed'
    BY <2>1, <2>4, StaysPlaced DEF Moves, Typed, Placed
  <2> QED BY <2>6, <2>7 DEF Typed
<1>4. CASE Timeout(t)
  <2>1. /\ UNCHANGED <<scene, period, info, circuit, meeting, circ, search, network, failed,
                       sent>>
        /\ pc[t] = "wait" /\ side' = side \ {t} /\ circ[t] \in Circuits
    BY <1>4 DEF Timeout, Typed, Placed
  <2>2. Moves(t)
    BY <1>4, <2>1, ContinueMoves DEF Timeout, Labels
  <2>3. /\ faults' \in [Circuits \cup {0} -> Nat] /\ hit' \in [Circuits \cup {0} -> SUBSET Kinds]
    BY <1>4, <2>1, NoFaultTyped, FaultTyped DEF Timeout, Kinds, Typed
  <2>4. TypeOK'
    BY <2>1, <2>2, <2>3, KeysSame DEF Typed, TypeOK, Moves, Labels, info
  <2>5. Placed'
    BY <2>1, <2>2, StaysPlaced DEF Moves, Typed, Placed
  <2> QED BY <2>4, <2>5 DEF Typed
<1>5. CASE UnknownPoint(t)
  <2>1. /\ UNCHANGED <<scene, period, info, state, associated, hop, streams, meeting, side,
                       circ, search, network, sent>>
        /\ pc[t] = "intro" /\ circ[t] \in Circuits
    BY <1>5 DEF UnknownPoint, Typed, Placed
  <2>2. Moves(t)
    BY <1>5, <2>1, RaiseMoves DEF UnknownPoint, InLock
  <2>3. /\ faults' \in [Circuits \cup {0} -> Nat] /\ hit' \in [Circuits \cup {0} -> SUBSET Kinds]
    BY <1>5, <2>1, FaultTyped DEF UnknownPoint, Kinds, Typed
  <2>4. TypeOK'
    BY <2>1, <2>2, <2>3, KeysSame DEF Typed, TypeOK, Moves, Labels, info
  <2>5. Placed'
    BY <2>1, <2>2, StaysPlaced DEF Moves, Typed, Placed
  <2> QED BY <2>4, <2>5 DEF Typed
<1> QED BY <1>1, <1>2, <1>3, <1>4, <1>5

LEMMA StreamsTyped ==
  ASSUME Typed, NEW t \in Threads, Begin(t) \/ Exchange(t)
  PROVE  Typed'
<1> USE DEF circuit, meeting, search, network, history
<1>1. /\ UNCHANGED <<scene, period, info, state, associated, hop, lock, meeting, side, circ,
                     search, network, faults, hit, failed>>
      /\ pc[t] \in {"begin", "open"}
      /\ streams' \subseteq streams
  BY DEF Begin, Exchange
<1>2. \/ \E label \in {"open", "done"} : Continue(t, label)
      \/ Raise(t, "TimeoutError")
  BY DEF Begin, Exchange
<1>3. Moves(t)
  <2>1. /\ pc' \in [Threads -> Labels] /\ DOMAIN error' = Threads
        /\ tries' \in [Threads -> 1..Retries]
        /\ \A u \in Threads \ {t} : pc'[u] = pc[u]
    BY <1>2, RaiseTyped, ContinueTyped DEF Typed, Labels
  <2>2. lock' \in [Circuits -> Threads \cup {None}] /\ failed' \subseteq Circuits
    BY <1>1 DEF Typed, TypeOK
  <2> QED BY <2>1, <2>2 DEF Moves
<1>4. TypeOK'
  BY <1>1, <1>3, KeysSame DEF Typed, TypeOK, Moves, Labels, info
<1>5. Placed'
  BY <1>1, <1>3, StaysPlaced DEF Moves, Typed, Placed
<1> QED BY <1>4, <1>5 DEF Typed

(* What the relays, the services and the clock do moves no thread. *)
LEMMA WorldTyped ==
  ASSUME Typed, \/ \E p \in pending : Meet(p)
                \/ \E c \in Circuits : Ended(c)
                \/ NextPeriod
  PROVE  Typed'
<1> USE DEF circuit, meeting, search, network, history
<1>1. UNCHANGED <<scene, info, associated, hop, lock, streams, made, side, pc, tries, circ,
                  search, error, failed>>
  BY DEF Meet, Ended, NextPeriod
<1>2. /\ point' \in [Circuits -> {"open", "established", "joined", "gone"}]
      /\ state' \in [Circuits -> {"Connected", "Truncated"}]
      /\ period' \in 0..1
  <2>1. CASE \E p \in pending : Meet(p)
    <3>1. PICK p \in pending : Meet(p)
      BY <2>1
    <3>2. point' = point \/ point' = [point EXCEPT ![p.circuit] = "joined"]
      BY <3>1 DEF Meet
    <3>3. UNCHANGED <<state, period>>
      BY <3>1 DEF Meet
    <3> QED BY <3>2, <3>3 DEF Typed, TypeOK
  <2>2. CASE \E c \in Circuits : Ended(c)
    BY <2>2 DEF Ended, Typed, TypeOK
  <2>3. CASE NextPeriod
    BY <2>3 DEF NextPeriod, Typed, TypeOK
  <2> QED BY <2>1, <2>2, <2>3
<1>3. /\ faults' \in [Circuits \cup {0} -> Nat] /\ hit' \in [Circuits \cup {0} -> SUBSET Kinds]
  <2>1. CASE \E c \in Circuits : Ended(c)
    <3>1. PICK c \in Circuits : Fault(c, "ended")
      BY <2>1 DEF Ended
    <3> QED BY <3>1, FaultTyped DEF Kinds, Typed
  <2>2. CASE (\E p \in pending : Meet(p)) \/ NextPeriod
    <3>1. UNCHANGED <<faults, hit>>
      BY <2>2 DEF Meet, NextPeriod
    <3> QED BY <3>1 DEF Typed, TypeOK
  <2> QED BY <2>1, <2>2
<1>4. /\ listed' \in [Circuits -> SUBSET Nat]
      /\ \A c \in Circuits : listed'[c] = listed[c] \/ listed'[c] = {}
  <2>1. listed' = listed \/ \E c : listed' = [listed EXCEPT ![c] = {}]
    <3>1. CASE \E p \in pending : Meet(p)
      BY <3>1 DEF Meet
    <3>2. CASE (\E c \in Circuits : Ended(c)) \/ NextPeriod
      BY <3>2 DEF Ended, NextPeriod
    <3> QED BY <3>1, <3>2
  <2>2. CASE listed' = listed
    BY <2>2 DEF Typed, TypeOK
  <2>3. ASSUME NEW c, listed' = [listed EXCEPT ![c] = {}]
        PROVE  /\ listed' \in [Circuits -> SUBSET Nat]
               /\ \A d \in Circuits : listed'[d] = listed[d] \/ listed'[d] = {}
    BY <2>3 DEF Typed, TypeOK
  <2> QED BY <2>1, <2>2, <2>3
<1>5. DOMAIN read' = DOMAIN read /\ DOMAIN joined' = DOMAIN joined
  BY DEF Meet, Ended, NextPeriod
<1>6. UNCHANGED <<scene, cached, circuits, associated, hop, lock, streams, made, side, pc,
                  tries, circ, todo, replica, asked, points, error, failed>>
  BY <1>1 DEF info
<1>7. TypeOK'
  <2>1. \A c \in Circuits : listed'[c] \subseteq 1..made'[c]
    BY <1>4, <1>6 DEF Typed, TypeOK
  <2> QED BY <1>2, <1>3, <1>4, <1>5, <1>6, <2>1, KeysSame DEF Typed, TypeOK
<1>8. Placed'
  BY <1>6, MadeSame DEF Typed, Placed
<1> QED BY <1>7, <1>8 DEF Typed

LEMMA TypedKept == Typed /\ [Next]_vars => Typed'
<1> SUFFICES ASSUME Typed, [Next]_vars PROVE Typed'
  OBVIOUS
<1>1. ASSUME NEW t \in Threads, Request(t) PROVE Typed'
  BY <1>1, BeforeSearchTyped, DirectoriesTyped, IntroductionsTyped, StreamsTyped DEF Request
<1>2. CASE (\E p \in pending : Meet(p)) \/ (\E c \in Circuits : Ended(c)) \/ NextPeriod
  BY <1>2, WorldTyped
<1>3. CASE UNCHANGED vars
  <2>1. UNCHANGED <<scene, period, cached, circuits, state, associated, hop, lock, streams,
                    listed, read, made, side, pc, tries, circ, todo, replica, asked, points,
                    error, point, joined, faults, hit, failed>>
    BY <1>3 DEF vars, info, circuit, meeting, search, network, history
  <2>2. TypeOK'
    BY <2>1, KeysSame DEF Typed, TypeOK
  <2>3. Placed'
    BY <2>1, MadeSame DEF Typed, Placed
  <2> QED BY <2>2, <2>3 DEF Typed
<1> QED BY <1>1, <1>2, <1>3 DEF Next

LEMMA AlwaysTyped == Spec => []Typed
BY TypedInit, TypedKept, PTL DEF Spec

(***************************************************************************)
(* The variables keep their types: in particular there is a circuit for     *)
(* each host key at the most (TorInfo.get_circuit), so that circuits never  *)
(* runs ahead of the threads, and a search asks six directories at the most *)
(* (get_responsibles).                                                      *)
(***************************************************************************)
THEOREM TypeCorrect == Spec => []TypeOK
<1>1. Typed => TypeOK
  BY DEF Typed
<1> QED BY <1>1, AlwaysTyped, PTL

-----------------------------------------------------------------------------
(***************************************************************************)
(* Who holds _extend_lock.                                                  *)
(***************************************************************************)

(* A thread stays in or out of the lock, or leaves it. *)
LEMMA LocksSame ==
  ASSUME Typed, Locks, NEW t \in Threads,
         \A u \in Threads \ {t} : pc'[u] = pc[u],
         pc'[t] \in InLock <=> pc[t] \in InLock,
         UNCHANGED <<lock, circ>>
  PROVE  Locks'
BY DEF Locks

LEMMA LocksLeft ==
  ASSUME Typed, Locks, NEW t \in Threads, pc[t] \in InLock, pc'[t] \notin InLock,
         \A u \in Threads \ {t} : pc'[u] = pc[u],
         lock' = [lock EXCEPT ![circ[t]] = None], circ' = circ
  PROVE  Locks'
<1>1. circ[t] \in Circuits /\ lock[circ[t]] = t
  BY DEF Typed, Placed, Locks, InLock
<1>2. None \notin Threads
  BY HiddenServiceAssumption
<1>3. lock'[circ[t]] = None /\ \A c \in Circuits \ {circ[t]} : lock'[c] = lock[c]
  BY <1>1 DEF Typed, TypeOK
<1>4. ASSUME NEW c \in Circuits, NEW u \in Threads
      PROVE  lock'[c] = u <=> circ'[u] = c /\ pc'[u] \in InLock
  <2>1. CASE c = circ[t]
    <3>1. lock'[c] # u
      BY <1>2, <1>3, <2>1
    <3>2. CASE u = t
      BY <3>1, <3>2
    <3>3. CASE u # t
      <4>1. lock[c] # u
        BY <1>1, <2>1, <3>3
      <4> QED BY <3>1, <3>3, <4>1 DEF Locks
    <3> QED BY <3>2, <3>3
  <2>2. CASE c # circ[t]
    BY <1>3, <2>2 DEF Locks
  <2> QED BY <2>1, <2>2
<1> QED BY <1>4 DEF Locks

LEMMA RaiseLeaves ==
  ASSUME Typed, Locks, NEW t \in Threads, pc[t] \in InLock, NEW kind, RaiseInLock(t, kind),
         circ' = circ
  PROVE  Locks'
<1>1. pc'[t] \in {"ready", "failed"} /\ \A u \in Threads \ {t} : pc'[u] = pc[u]
  BY RaiseTyped DEF RaiseInLock, Typed
<1>2. lock' = [lock EXCEPT ![circ[t]] = None]
  BY DEF RaiseInLock
<1> QED BY <1>1, <1>2, LocksLeft DEF InLock

LEMMA LocksInit == Init => Locks
BY HiddenServiceAssumption DEF Init, Locks, InLock

LEMMA RequestLocks ==
  ASSUME Typed, Locks, NEW t \in Threads, Request(t) PROVE Locks'
<1> USE DEF circuit, meeting, search, network, history
<1>1. CASE GetCircuit(t)
  <2>1. lock' = lock /\ pc[t] = "ready"
    BY <1>1 DEF GetCircuit
  <2>2. pc'[t] \in {"stream", "ready", "failed"} /\ \A u \in Threads \ {t} : pc'[u] = pc[u]
    BY <1>1, ContinueTyped, RaiseTyped DEF GetCircuit, Typed, Labels
  <2>3. \A u \in Threads \ {t} : circ'[u] = circ[u]
    BY <1>1 DEF GetCircuit, Typed, TypeOK
  <2>4. \A c \in Circuits : lock[c] # t
    BY <2>1 DEF Locks, InLock
  <2> QED BY <2>1, <2>2, <2>3, <2>4 DEF Locks, InLock
<1>2. CASE OpenStream(t) \/ NoMorePoints(t) \/ Introduce(t) \/ Timeout(t) \/ Begin(t)
           \/ Exchange(t)
  <2>1. UNCHANGED <<lock, circ>>
    BY <1>2 DEF OpenStream, NoMorePoints, Introduce, Timeout, Begin, Exchange
  <2>2. \/ pc[t] = "stream" /\ ((\E label \in {"begin", "lock"} : Continue(t, label))
                                \/ \E kind : Raise(t, kind))
        \/ pc[t] \in {"intro", "wait"} /\ \E label \in {"dirs", "intro", "wait"} : Continue(t, label)
        \/ pc[t] \in {"begin", "open"} /\ ((\E label \in {"open", "done"} : Continue(t, label))
                                \/ \E kind : Raise(t, kind))
    BY <1>2 DEF OpenStream, NoMorePoints, Introduce, Timeout, Begin, Exchange
  <2>3. \A u \in Threads \ {t} : pc'[u] = pc[u]
    BY <2>2, ContinueTyped, RaiseTyped DEF Typed, Labels
  <2>4. pc'[t] \in InLock <=> pc[t] \in InLock
    BY <2>2, ContinueTyped, RaiseTyped DEF Typed, Labels, InLock
  <2> QED BY <2>1, <2>3, <2>4, LocksSame
<1>3. CASE Lock(t)
  <2>1. pc[t] = "lock" /\ circ' = circ /\ circ[t] \in Circuits /\ lock[circ[t]] = None
    BY <1>3 DEF Lock, Typed, Placed
  <2>2. CASE associated[circ[t]] = None
    <3>1. lock' = [lock EXCEPT ![circ[t]] = t] /\ Continue(t, "establish")
      BY <1>3, <2>2 DEF Lock
    <3>2. pc'[t] = "establish" /\ \A u \in Threads \ {t} : pc'[u] = pc[u]
      BY <3>1, ContinueTyped DEF Typed, Labels
    <3>3. lock'[circ[t]] = t /\ \A c \in Circuits \ {circ[t]} : lock'[c] = lock[c]
      BY <2>1, <3>1 DEF Typed, TypeOK
    <3>4. None \notin Threads
      BY HiddenServiceAssumption
    <3>5. \A c \in Circuits : lock[c] # t
      BY <2>1 DEF Locks, InLock
    <3>6. ASSUME NEW c \in Circuits, NEW u \in Threads
          PROVE  lock'[c] = u <=> circ'[u] = c /\ pc'[u] \in InLock
      <4>1. CASE u = t
        BY <2>1, <3>2, <3>3, <3>5, <4>1 DEF InLock
      <4>2. CASE u # t
        <5>1. lock'[c] = u <=> lock[c] = u
          BY <2>1, <3>3, <3>4, <4>2
        <5> QED BY <2>1, <3>2, <4>2, <5>1 DEF Locks
      <4> QED BY <4>1, <4>2
    <3> QED BY <3>6 DEF Locks
  <2>3. CASE associated[circ[t]] # None
    <3>1. lock' = lock /\ (Continue(t, "begin") \/ Raise(t, "Exception"))
      BY <1>3, <2>3 DEF Lock
    <3>2. pc'[t] \in {"begin", "ready", "failed"} /\ \A u \in Threads \ {t} : pc'[u] = pc[u]
      BY <3>1, ContinueTyped, RaiseTyped DEF Typed, Labels
    <3> QED BY <2>1, <3>1, <3>2, LocksSame DEF InLock
  <2> QED BY <2>2, <2>3
<1>4. CASE Establish(t) \/ NextReplica(t) \/ AskDir(t) \/ UnknownPoint(t)
  <2>1. pc[t] \in {"establish", "dirs", "intro"} /\ circ' = circ
    BY <1>4 DEF Establish, NextReplica, AskDir, UnknownPoint
  <2>2. \/ UNCHANGED <<pc, lock>>
        \/ UNCHANGED lock /\ \E label \in {"dirs", "intro"} : Continue(t, label)
        \/ \E kind : RaiseInLock(t, kind)
    BY <1>4 DEF Establish, NextReplica, AskDir, UnknownPoint
  <2>3. CASE UNCHANGED <<pc, lock>>
    BY <2>1, <2>3, LocksSame
  <2>4. CASE UNCHANGED lock /\ \E label \in {"dirs", "intro"} : Continue(t, label)
    <3>1. pc'[t] \in {"dirs", "intro"} /\ \A u \in Threads \ {t} : pc'[u] = pc[u]
      BY <2>4, ContinueTyped DEF Typed, Labels
    <3> QED BY <2>1, <2>4, <3>1, LocksSame DEF InLock
  <2>5. CASE \E kind : RaiseInLock(t, kind)
    BY <2>1, <2>5, RaiseLeaves DEF InLock
  <2> QED BY <2>2, <2>3, <2>4, <2>5
<1>5. CASE Answered(t)
  <2>1. pc[t] = "wait" /\ circ' = circ
    BY <1>5 DEF Answered
  <2>2. CASE Continue(t, "intro") /\ UNCHANGED lock
    <3>1. pc'[t] = "intro" /\ \A u \in Threads \ {t} : pc'[u] = pc[u]
      BY <2>2, ContinueTyped DEF Typed, Labels
    <3> QED BY <2>1, <2>2, <3>1, LocksSame DEF InLock
  <2>3. CASE Continue(t, "begin") /\ lock' = [lock EXCEPT ![circ[t]] = None]
    <3>1. pc'[t] = "begin" /\ \A u \in Threads \ {t} : pc'[u] = pc[u]
      BY <2>3, ContinueTyped DEF Typed, Labels
    <3> QED BY <2>1, <2>3, <3>1, LocksLeft DEF InLock
  <2> QED BY <1>5, <2>2, <2>3 DEF Answered
<1> QED BY <1>1, <1>2, <1>3, <1>4, <1>5 DEF Request

LEMMA LocksKept == Typed /\ Locks /\ [Next]_vars => Locks'
<1> SUFFICES ASSUME Typed, Locks, [Next]_vars PROVE Locks'
  OBVIOUS
<1>1. ASSUME NEW t \in Threads, Request(t) PROVE Locks'
  BY <1>1, RequestLocks
<1>2. CASE (\E p \in pending : Meet(p)) \/ (\E c \in Circuits : Ended(c)) \/ NextPeriod
           \/ UNCHANGED vars
  <2>1. UNCHANGED <<pc, circ, lock>>
    BY <1>2 DEF Meet, Ended, NextPeriod, vars, circuit
  <2> QED BY <2>1 DEF Locks
<1> QED BY <1>1, <1>2 DEF Next

-----------------------------------------------------------------------------
(***************************************************************************)
(* What threads want, and have when they go on.                             *)
(***************************************************************************)

LEMMA WantSame ==
  ASSUME UNCHANGED scene, NEW t \in Threads
  PROVE  Onion(Want(t))' = Onion(Want(t)) /\ IsOnion(Want(t))' = IsOnion(Want(t))
         /\ HostKey(Want(t))' = HostKey(Want(t))
BY DEF Want, Onion, IsOnion, Last, HostKey

LEMMA Domains ==
  ASSUME Typed
  PROVE  DOMAIN associated = Circuits /\ DOMAIN hop = Circuits /\ DOMAIN read = Circuits
         /\ DOMAIN joined = Circuits
BY DEF Typed, TypeOK

(* The one that searches for a circuit, or is about to establish it. *)
LEMMA AloneInLock ==
  ASSUME Typed, Locks, Extended, NEW t \in Threads, pc[t] \in InLock
  PROVE  /\ circ[t] \in Circuits /\ lock[circ[t]] = t
         /\ associated[circ[t]] = None /\ hop[circ[t]] = <<>>
         /\ \A u \in Threads \ {t} : pc[u] \in InLock => circ[u] # circ[t]
<1>1. circ[t] \in Circuits /\ lock[circ[t]] = t
  BY DEF Typed, Placed, Locks, InLock
<1>2. lock[circ[t]] # None
  BY <1>1, HiddenServiceAssumption
<1>3. Joined(circ[t])
  BY <1>1 DEF Extended
<1> QED BY <1>1, <1>2, <1>3 DEF Joined, Locks

LEMMA OnionsInit == Init => Onions
BY DEF Init, Onions, InLock

(* The others keep their places, their circuits and what those have.        *)
LEMMA OnionsSame ==
  ASSUME Onions, UNCHANGED scene, NEW t \in Threads,
         \A u \in Threads \ {t} : /\ pc'[u] = pc[u] /\ circ'[u] = circ[u]
                                  /\ associated'[circ[u]] = associated[circ[u]],
         pc'[t] \in InLock \cup {"lock"} => IsOnion(Want(t)),
         pc'[t] \in {"begin", "open"} /\ IsOnion(Want(t)) =>
           associated'[circ'[t]] = Onion(Want(t))
  PROVE  Onions'
<1>1. ASSUME NEW u \in Threads
      PROVE  /\ pc'[u] \in InLock \cup {"lock"} => IsOnion(Want(u))
             /\ pc'[u] \in {"begin", "open"} /\ IsOnion(Want(u)) =>
                  associated'[circ'[u]] = Onion(Want(u))
  <2>1. CASE u = t
    BY <2>1
  <2>2. CASE u # t
    BY <2>2 DEF Onions
  <2> QED BY <2>1, <2>2
<1> QED BY <1>1, WantSame DEF Onions

LEMMA RequestOnions ==
  ASSUME Typed, Locks, Extended, Onions, NEW t \in Threads, Request(t) PROVE Onions'
<1> USE DEF circuit, meeting, search, network, history
<1>1. CASE GetCircuit(t)
  <2>1. UNCHANGED <<scene, associated>> /\ \A u \in Threads \ {t} : circ'[u] = circ[u]
    BY <1>1 DEF GetCircuit, Typed, TypeOK
  <2>2. Continue(t, "stream") \/ Raise(t, "CircuitExtendError")
    BY <1>1 DEF GetCircuit
  <2>3. /\ pc'[t] \notin InLock \cup {"lock", "begin", "open"}
        /\ \A u \in Threads \ {t} : pc'[u] = pc[u]
    BY <2>2, ContinueTyped, RaiseTyped DEF Typed, Labels, InLock
  <2> QED BY <2>1, <2>3, OnionsSame
<1>2. CASE OpenStream(t)
  <2>1. UNCHANGED <<scene, associated, circ>>
    BY <1>2 DEF OpenStream
  <2>2. \/ ~IsOnion(Want(t)) /\ Continue(t, "begin")
        \/ IsOnion(Want(t)) /\ Continue(t, "lock")
        \/ \E kind : Raise(t, kind)
    BY <1>2 DEF OpenStream
  <2>3. /\ pc'[t] \in InLock \cup {"lock"} => IsOnion(Want(t))
        /\ pc'[t] \in {"begin", "open"} => ~IsOnion(Want(t))
        /\ \A u \in Threads \ {t} : pc'[u] = pc[u]
    BY <2>2, ContinueTyped, RaiseTyped DEF Typed, Labels, InLock
  <2> QED BY <2>1, <2>3, OnionsSame
<1>3. CASE Lock(t)
  <2>1. UNCHANGED <<scene, associated, circ>> /\ IsOnion(Want(t))
    BY <1>3 DEF Lock, Onions
  <2>2. \/ Continue(t, "establish")
        \/ associated[circ[t]] = Onion(Want(t)) /\ Continue(t, "begin")
        \/ Raise(t, "Exception")
    BY <1>3 DEF Lock
  <2>3. /\ pc'[t] \in {"begin", "open"} => associated[circ[t]] = Onion(Want(t))
        /\ \A u \in Threads \ {t} : pc'[u] = pc[u]
    BY <2>2, ContinueTyped, RaiseTyped DEF Typed, Labels, InLock
  <2> QED BY <2>1, <2>3, OnionsSame
<1>4. CASE Establish(t) \/ NextReplica(t) \/ AskDir(t) \/ NoMorePoints(t) \/ UnknownPoint(t)
           \/ Introduce(t) \/ Timeout(t)
  <2>1. UNCHANGED <<scene, associated, circ>> /\ pc[t] \in InLock
    BY <1>4 DEF Establish, NextReplica, AskDir, NoMorePoints, UnknownPoint, Introduce, Timeout,
                InLock
  <2>2. IsOnion(Want(t))
    BY <2>1 DEF Onions
  <2>3. CASE UNCHANGED pc
    BY <2>1, <2>2, <2>3, OnionsSame DEF InLock
  <2>4. CASE \E label \in {"dirs", "intro", "wait"} : Continue(t, label)
    <3>1. pc'[t] \notin {"begin", "open"} /\ \A u \in Threads \ {t} : pc'[u] = pc[u]
      BY <2>4, ContinueTyped DEF Typed, Labels
    <3> QED BY <2>1, <2>2, <3>1, OnionsSame
  <2>5. CASE \E kind : Raise(t, kind)
    <3>1. pc'[t] \notin {"begin", "open"} /\ \A u \in Threads \ {t} : pc'[u] = pc[u]
      BY <2>5, RaiseTyped DEF Typed
    <3> QED BY <2>1, <2>2, <3>1, OnionsSame
  <2> QED BY <1>4, <2>3, <2>4, <2>5 DEF Establish, NextReplica, AskDir, NoMorePoints,
            UnknownPoint, Introduce, Timeout, RaiseInLock
<1>5. CASE Answered(t)
  <2> DEFINE c == circ[t]
  <2>1. UNCHANGED <<scene, circ>> /\ pc[t] = "wait"
    BY <1>5 DEF Answered
  <2>2. c \in Circuits /\ associated[c] = None /\ IsOnion(Want(t))
    BY <2>1, AloneInLock DEF InLock, Onions
  <2>3. CASE Continue(t, "intro") /\ UNCHANGED associated
    <3>1. pc'[t] = "intro" /\ \A u \in Threads \ {t} : pc'[u] = pc[u]
      BY <2>3, ContinueTyped DEF Typed, Labels
    <3> QED BY <2>1, <2>2, <2>3, <3>1, OnionsSame
  <2>4. CASE associated' = [associated EXCEPT ![c] = Onion(Want(t))] /\ Continue(t, "begin")
    <3>1. pc'[t] = "begin" /\ \A u \in Threads \ {t} : pc'[u] = pc[u]
      BY <2>4, ContinueTyped DEF Typed, Labels
    <3>2. associated'[c] = Onion(Want(t)) /\ \A d \in Circuits \ {c} : associated'[d] = associated[d]
      BY <2>2, <2>4, Domains
    <3>3. ASSUME NEW u \in Threads
          PROVE  /\ pc'[u] \in InLock \cup {"lock"} => IsOnion(Want(u))
                 /\ pc'[u] \in {"begin", "open"} /\ IsOnion(Want(u)) =>
                      associated'[circ'[u]] = Onion(Want(u))
      <4>1. CASE u = t
        BY <2>1, <2>2, <3>2, <4>1
      <4>2. CASE u # t
        <5>1. pc'[u] = pc[u] /\ circ'[u] = circ[u]
          BY <2>1, <3>1, <4>2
        <5>2. ASSUME pc[u] \in {"begin", "open"}, IsOnion(Want(u))
              PROVE  associated'[circ[u]] = Onion(Want(u))
          <6>1. associated[circ[u]] = Onion(Want(u)) /\ circ[u] \in Circuits
            BY <5>2 DEF Onions, Typed, Placed
          <6>2. Onion(Want(u)) # None
            BY <5>2, HostsAre DEF Typed, TypeOK
          <6> QED BY <2>2, <3>2, <6>1, <6>2
        <5> QED BY <5>1, <5>2 DEF Onions
      <4> QED BY <4>1, <4>2
    <3> QED BY <2>1, <3>3, WantSame DEF Onions
  <2> QED BY <1>5, <2>3, <2>4 DEF Answered
<1>6. CASE Begin(t) \/ Exchange(t)
  <2>1. UNCHANGED <<scene, associated, circ>> /\ pc[t] \in {"begin", "open"}
    BY <1>6 DEF Begin, Exchange
  <2>2. (\E label \in {"open", "done"} : Continue(t, label)) \/ \E kind : Raise(t, kind)
    BY <1>6 DEF Begin, Exchange
  <2>3. /\ pc'[t] \notin InLock \cup {"lock"} /\ \A u \in Threads \ {t} : pc'[u] = pc[u]
    BY <2>2, ContinueTyped, RaiseTyped DEF Typed, Labels, InLock
  <2>4. IsOnion(Want(t)) => associated[circ[t]] = Onion(Want(t))
    BY <2>1 DEF Onions
  <2> QED BY <2>1, <2>3, <2>4, OnionsSame
<1> QED BY <1>1, <1>2, <1>3, <1>4, <1>5, <1>6 DEF Request

LEMMA OnionsKept == Typed /\ Locks /\ Extended /\ Onions /\ [Next]_vars => Onions'
<1> SUFFICES ASSUME Typed, Locks, Extended, Onions, [Next]_vars PROVE Onions'
  OBVIOUS
<1>1. ASSUME NEW t \in Threads, Request(t) PROVE Onions'
  BY <1>1, RequestOnions
<1>2. CASE (\E p \in pending : Meet(p)) \/ (\E c \in Circuits : Ended(c)) \/ NextPeriod
           \/ UNCHANGED vars
  <2>1. UNCHANGED <<scene, pc, circ, associated>>
    BY <1>2 DEF Meet, Ended, NextPeriod, vars, circuit
  <2> QED BY <2>1, WantSame DEF Onions
<1> QED BY <1>1, <1>2 DEF Next

-----------------------------------------------------------------------------
(***************************************************************************)
(* What goes wrong, and what a step leaves of it.                           *)
(***************************************************************************)

(* The scene is fixed, and the time period changes at most once. *)
LEMMA ScenesStay == [Next]_vars => scene' = scene /\ period' \in {period, 1}
<1> SUFFICES ASSUME [Next]_vars PROVE scene' = scene /\ period' \in {period, 1}
  OBVIOUS
<1> USE DEF info, circuit, meeting, search, network, history
<1>1. ASSUME NEW t \in Threads,
             GetCircuit(t) \/ OpenStream(t) \/ Lock(t) \/ Establish(t) \/ NextReplica(t)
      PROVE  scene' = scene /\ period' = period
  BY <1>1 DEF GetCircuit, OpenStream, Lock, Establish, NextReplica
<1>2. ASSUME NEW t \in Threads,
             AskDir(t) \/ NoMorePoints(t) \/ UnknownPoint(t) \/ Introduce(t) \/ Answered(t)
      PROVE  scene' = scene /\ period' = period
  BY <1>2 DEF AskDir, NoMorePoints, UnknownPoint, Introduce, Answered
<1>3. ASSUME NEW t \in Threads, Timeout(t) \/ Begin(t) \/ Exchange(t)
      PROVE  scene' = scene /\ period' = period
  BY <1>3 DEF Timeout, Begin, Exchange
<1>4. ASSUME NEW t \in Threads, Request(t) PROVE scene' = scene /\ period' = period
  BY <1>1, <1>2, <1>3, <1>4 DEF Request
<1>5. ASSUME NEW p \in pending, Meet(p) PROVE scene' = scene /\ period' = period
  BY <1>5 DEF Meet
<1>6. ASSUME NEW c \in Circuits, Ended(c) PROVE scene' = scene /\ period' = period
  BY <1>6 DEF Ended
<1>7. CASE NextPeriod
  BY <1>7 DEF NextPeriod
<1>8. CASE UNCHANGED vars
  BY <1>8 DEF vars
<1> QED BY <1>4, <1>5, <1>6, <1>7, <1>8 DEF Next

Grows ==
  /\ scene' = scene
  /\ period' \in {period, 1}
  /\ \A c \in Circuits \cup {0} : hit[c] \subseteq hit'[c] /\ faults[c] <= faults'[c]

LEMMA FaultGrows ==
  ASSUME TypeOK, \/ NoFault
                 \/ \E c \in Circuits : Mix(c)
                 \/ \E c \in Circuits \cup {0} : \E kind \in Kinds : Fault(c, kind)
  PROVE  \A c \in Circuits \cup {0} : hit[c] \subseteq hit'[c] /\ faults[c] <= faults'[c]
<1>1. CASE NoFault
  BY <1>1 DEF NoFault, TypeOK
<1>2. ASSUME NEW c \in Circuits \cup {0}, NEW kind \in Kinds, Fault(c, kind)
      PROVE  \A d \in Circuits \cup {0} : hit[d] \subseteq hit'[d] /\ faults[d] <= faults'[d]
  <2>1. /\ faults' = [faults EXCEPT ![c] = faults[c] + 1]
        /\ hit' = [hit EXCEPT ![c] = hit[c] \cup {kind}]
    BY <1>2 DEF Fault
  <2>2. faults \in [Circuits \cup {0} -> Nat] /\ hit \in [Circuits \cup {0} -> SUBSET Kinds]
    BY DEF TypeOK
  <2> QED BY <2>1, <2>2
<1>3. ASSUME NEW c \in Circuits, Mix(c)
      PROVE  \A d \in Circuits \cup {0} : hit[d] \subseteq hit'[d] /\ faults[d] <= faults'[d]
  <2>1. faults' = faults /\ hit' = [hit EXCEPT ![c] = hit[c] \cup {"mixed"}]
    BY <1>3 DEF Mix
  <2>2. faults \in [Circuits \cup {0} -> Nat] /\ hit \in [Circuits \cup {0} -> SUBSET Kinds]
    BY DEF TypeOK
  <2> QED BY <2>1, <2>2
<1> QED BY <1>1, <1>2, <1>3

(* At most one thing fails in a step. *)
LEMMA StepFaults ==
  ASSUME Typed, [Next]_vars
  PROVE  \/ NoFault
         \/ \E c \in Circuits : Mix(c)
         \/ \E c \in Circuits \cup {0} : \E kind \in Kinds : Fault(c, kind)
<1> USE DEF info, circuit, meeting, search, network, history
<1>1. ASSUME NEW t \in Threads, GetCircuit(t) PROVE NoFault \/ Fault(0, "create")
  BY <1>1 DEF GetCircuit
<1>2. ASSUME NEW t \in Threads,
             \/ OpenStream(t) \/ Lock(t) \/ Establish(t) \/ NextReplica(t)
             \/ NoMorePoints(t) \/ Answered(t) \/ Begin(t) \/ Exchange(t)
      PROVE  NoFault
  BY <1>2 DEF OpenStream, Lock, Establish, NextReplica, NoMorePoints, Answered, Begin,
              Exchange, NoFault
<1>3. ASSUME NEW t \in Threads, AskDir(t)
      PROVE  NoFault \/ Fault(circ[t], "missing") \/ Fault(circ[t], "dir")
  BY <1>3 DEF AskDir
<1>4. ASSUME NEW t \in Threads, Introduce(t)
      PROVE  \/ NoFault \/ Fault(circ[t], "intro") \/ Fault(circ[t], "unanswered")
             \/ circ[t] \in Circuits /\ Mix(circ[t])
  BY <1>4 DEF Introduce, Typed, Placed
<1>5. ASSUME NEW t \in Threads, Timeout(t)
      PROVE  NoFault \/ Fault(circ[t], "late")
  BY <1>5 DEF Timeout
<1>6. ASSUME NEW p \in pending, Meet(p) PROVE NoFault
  BY <1>6 DEF Meet, NoFault
<1>7. ASSUME NEW c \in Circuits, Ended(c) PROVE Fault(c, "ended")
  BY <1>7 DEF Ended
<1>8. CASE NextPeriod \/ UNCHANGED vars
  BY <1>8 DEF NextPeriod, vars, NoFault
<1>9. /\ \A t \in Threads : circ[t] \in Circuits \cup {0}
      /\ 0 \in Circuits \cup {0} /\ Circuits \subseteq Circuits \cup {0}
      /\ {"create", "missing", "dir", "intro", "unanswered", "late", "ended", "unknown",
       "mixed"} = Kinds
  BY DEF Typed, TypeOK, Kinds
<1>10. ASSUME NEW t \in Threads, UnknownPoint(t) PROVE Fault(circ[t], "unknown")
  BY <1>10 DEF UnknownPoint
<1>11. ASSUME NEW t \in Threads, Request(t)
       PROVE  \/ NoFault
              \/ \E c \in Circuits : Mix(c)
              \/ \E c \in Circuits \cup {0} : \E kind \in Kinds : Fault(c, kind)
  BY <1>1, <1>2, <1>3, <1>4, <1>5, <1>9, <1>11, <1>10 DEF Request
<1> QED BY <1>6, <1>7, <1>8, <1>9, <1>11 DEF Next

LEMMA StepGrows == Typed /\ [Next]_vars => Grows
<1> SUFFICES ASSUME Typed, [Next]_vars PROVE Grows
  OBVIOUS
<1> USE DEF info, circuit, meeting, search, network, history
<1>1. scene' = scene /\ period' \in {period, 1}
  BY ScenesStay
<1>2. \/ NoFault
      \/ \E c \in Circuits : Mix(c)
      \/ \E c \in Circuits \cup {0} : \E kind \in Kinds : Fault(c, kind)
  BY StepFaults
<1> QED BY <1>1, <1>2, FaultGrows DEF Grows, Typed

(* An introduction that was sealed for another service stays one. *)
LEMMA MixedStays ==
  ASSUME Grows, NEW c \in Circuits, Mixed(c) PROVE Mixed(c)'
BY DEF Grows, Mixed

-----------------------------------------------------------------------------
(***************************************************************************)
(* KeysAgree.                                                               *)
(***************************************************************************)

LEMMA ExtendedInit == Init => Extended
BY DEF Init, Extended, Joined, Searched, Searching

(* A step that touches neither the rendezvous nor the nodes of a circuit.   *)
LEMMA ExtendedSame ==
  ASSUME Typed, Extended, Grows,
         UNCHANGED <<scene, associated, hop, joined, point, read, pending>>,
         \A c \in Circuits : lock'[c] # None => lock[c] # None \/ associated[c] = None,
         \A u \in Threads : pc'[u] \in Searching => pc[u] \in Searching /\ circ'[u] = circ[u]
  PROVE  Extended'
<1>1. ASSUME NEW c \in Circuits PROVE Joined(c)'
  BY MixedStays DEF Extended, Joined, Met
<1>2. ASSUME NEW u \in Threads, pc'[u] \in Searching PROVE Searched(u)'
  <2>1. Searched(u) /\ circ'[u] = circ[u] /\ circ[u] \in Circuits
    BY <1>2 DEF Extended, Typed, Placed, Searching
  <2>2. Mixed(circ[u]) => Mixed(circ[u])'
    BY <2>1, MixedStays DEF Mixed
  <2> QED BY <2>1, <2>2, WantSame DEF Searched, Mixed
<1> QED BY <1>1, <1>2 DEF Extended

LEMMA EstablishExtended ==
  ASSUME Typed, Locks, Onions, Extended, Grows, NEW t \in Threads, Establish(t) PROVE Extended'
<1> DEFINE c == circ[t]
<1>1. /\ UNCHANGED <<scene, associated, hop, circ, joined, pending, read>>
      /\ pc[t] = "establish"
  BY DEF Establish, meeting
<1>2. /\ c \in Circuits /\ lock[c] = t
      /\ \A u \in Threads \ {t} : pc[u] \in InLock => circ[u] # c
  BY <1>1, AloneInLock DEF InLock
<1>3. CASE point[c] = "open"
  <2>1. point' = [point EXCEPT ![c] = "established"] /\ lock' = lock /\ Continue(t, "dirs")
    BY <1>3 DEF Establish
  <2>2. \A u \in Threads \ {t} : pc'[u] = pc[u]
    BY <2>1, ContinueTyped DEF Typed, Labels
  <2>3. point'[c] = "established" /\ \A d \in Circuits \ {c} : point'[d] = point[d]
    BY <1>2, <2>1 DEF Typed, TypeOK
  <2>4. hop[c] = <<>> /\ read[c] = None /\ \A p \in pending : p.circuit # c
    BY <1>2, <1>3 DEF Extended, Joined, Met
  <2>5. ASSUME NEW d \in Circuits PROVE Joined(d)'
    <3>1. Joined(d)
      BY DEF Extended
    <3>2. CASE d = c
      BY <1>1, <2>1, <2>3, <2>4, <3>1, <3>2 DEF Joined
    <3>3. CASE d # c
      BY <1>1, <2>1, <2>3, <3>1, <3>3, MixedStays DEF Joined, Met
    <3> QED BY <3>2, <3>3
  <2>6. ASSUME NEW u \in Threads, pc'[u] \in Searching PROVE Searched(u)'
    <3>1. CASE u = t
      BY <1>1, <2>3, <2>4, <3>1, WantSame DEF Searched
    <3>2. CASE u # t
      <4>1. pc[u] \in Searching /\ pc[u] \in InLock
        BY <2>2, <2>6, <3>2 DEF Searching, InLock
      <4>2. circ[u] \in Circuits \ {c}
        BY <1>2, <3>2, <4>1 DEF Typed, Placed, InLock
      <4>3. Searched(u) /\ (Mixed(circ[u]) => Mixed(circ[u])')
        BY <1>1, <4>1, <4>2, MixedStays DEF Extended, Mixed
      <4> QED BY <1>1, <2>3, <4>2, <4>3, WantSame DEF Searched, Mixed
    <3> QED BY <3>1, <3>2
  <2> QED BY <2>5, <2>6 DEF Extended
<1>4. CASE point[c] # "open"
  <2>1. point' = [point EXCEPT ![c] = "gone"] /\ RaiseInLock(t, "CellTimeoutError")
    BY <1>4 DEF Establish
  <2>2. lock' = [lock EXCEPT ![c] = None] /\ Raise(t, "CellTimeoutError")
    BY <2>1 DEF RaiseInLock
  <2>3. pc'[t] \notin Searching /\ \A u \in Threads \ {t} : pc'[u] = pc[u]
    BY <2>2, RaiseTyped DEF Typed, Searching
  <2>4. /\ point'[c] = "gone" /\ \A d \in Circuits \ {c} : point'[d] = point[d]
        /\ \A d \in Circuits : lock'[d] # None => lock[d] # None
    BY <1>2, <2>1, <2>2 DEF Typed, TypeOK
  <2>5. ASSUME NEW d \in Circuits PROVE Joined(d)'
    BY <1>1, <2>4, MixedStays DEF Extended, Joined, Met
  <2>6. ASSUME NEW u \in Threads, pc'[u] \in Searching PROVE Searched(u)'
    <3>1. u # t /\ pc[u] \in Searching /\ circ[u] \in Circuits
      BY <2>3, <2>6 DEF Typed, Placed, Searching
    <3>2. Searched(u) /\ point'[circ[u]] # "open"
      BY <2>4, <3>1 DEF Extended, Searched
    <3>3. Mixed(circ[u]) => Mixed(circ[u])'
      BY <1>1, <3>1, MixedStays DEF Mixed
    <3> QED BY <1>1, <3>2, <3>3, WantSame DEF Searched, Mixed
  <2> QED BY <2>5, <2>6 DEF Extended
<1> QED BY <1>3, <1>4

LEMMA IntroduceExtended ==
  ASSUME Typed, Locks, Onions, Extended, Grows, NEW t \in Threads, Introduce(t) PROVE Extended'
<1> DEFINE c == circ[t]
<1>1. /\ UNCHANGED <<scene, associated, hop, lock, circ, joined, point>>
      /\ pc[t] = "intro"
      /\ read' = read \/ read' = [read EXCEPT ![c] = None]
  BY DEF Introduce, meeting, circuit
<1>2. /\ c \in Circuits
      /\ \A u \in Threads \ {t} : pc[u] \in InLock => circ[u] # c
  BY <1>1, AloneInLock DEF InLock
<1>3. /\ \A d \in Circuits \ {c} : read'[d] = read[d]
      /\ read'[c] = read[c] \/ read'[c] = None
  <2>1. CASE read' = read
    BY <2>1
  <2>2. CASE read' = [read EXCEPT ![c] = None]
    BY <1>2, <2>2, Domains
  <2> QED BY <1>1, <2>1, <2>2
<1>4. \A p \in pending' \ pending : p.circuit = c /\ (p.service = Onion(Want(t)) \/ Mixed(c)')
  <2>1. CASE pending' = pending
    BY <2>1
  <2>2. CASE pending' = pending \cup {[service |-> Onion(Want(t)), circuit |-> c,
                                      key |-> <<"x", made[c] + 1>>]}
    BY <2>2
  <2>3. ASSUME Mix(c), NEW u \in Threads,
               pending' \in {pending, pending \cup {[service |-> Onion(Want(u)), circuit |-> c,
                                                    key |-> <<"x", made[c] + 1>>]}}
        PROVE  \A p \in pending' \ pending : p.circuit = c /\ (p.service = Onion(Want(t)) \/ Mixed(c)')
    <3>1. Mixed(c)'
      BY <1>1, <1>2, <2>3 DEF Mix, Mixed, Typed, TypeOK
    <3> QED BY <2>3, <3>1
  <2>4. \/ pending' = pending
        \/ pending' = pending \cup {[service |-> Onion(Want(t)), circuit |-> c,
                                     key |-> <<"x", made[c] + 1>>]}
        \/ /\ Mix(c)
           /\ \E u \in Threads :
                pending' \in {pending, pending \cup {[service |-> Onion(Want(u)), circuit |-> c,
                                                     key |-> <<"x", made[c] + 1>>]}}
    BY DEF Introduce
  <2> QED BY <2>1, <2>2, <2>3, <2>4
<1>5. \A u \in Threads \ {t} : pc'[u] = pc[u]
  <2>1. \E label \in {"intro", "wait"} : Continue(t, label)
    BY DEF Introduce
  <2> QED BY <2>1, ContinueTyped DEF Typed, Labels
<1>6. Searched(t)
  BY <1>1 DEF Extended, Searching
<1>7. ASSUME NEW d \in Circuits PROVE Joined(d)'
  <2>1. Joined(d)
    BY DEF Extended
  <2>2. point'[d] = "open" => \A p \in pending' : p.circuit # d
    BY <1>1, <1>4, <1>6, <2>1 DEF Joined, Searched
  <2>3. CASE read'[d] = read[d]
    BY <1>1, <2>1, <2>2, <2>3, MixedStays DEF Joined, Met
  <2>4. CASE read'[d] = None
    BY <1>1, <2>1, <2>2, <2>4, MixedStays DEF Joined, Met
  <2> QED BY <1>3, <2>3, <2>4
<1>8. ASSUME NEW u \in Threads, pc'[u] \in Searching PROVE Searched(u)'
  <2>1. CASE u = t
    <3>1. Mixed(c) => Mixed(c)'
      BY <1>1, <1>2, MixedStays DEF Mixed
    <3> QED BY <1>1, <1>3, <1>4, <1>6, <2>1, <3>1, WantSame DEF Searched, Mixed
  <2>2. CASE u # t
    <3>1. pc[u] \in Searching /\ pc[u] \in InLock
      BY <1>5, <1>8, <2>2 DEF Searching, InLock
    <3>2. circ[u] \in Circuits \ {c} /\ Searched(u)
      BY <1>2, <2>2, <3>1 DEF Typed, Placed, InLock, Extended
    <3>3. Mixed(circ[u]) => Mixed(circ[u])'
      BY <1>1, <3>2, MixedStays DEF Mixed
    <3> QED BY <1>1, <1>3, <1>4, <3>2, <3>3, WantSame DEF Searched, Mixed
  <2> QED BY <2>1, <2>2
<1> QED BY <1>7, <1>8 DEF Extended

(***************************************************************************)
(* The point joins the first introduction it is told of: what the waiter    *)
(* reads then was made with the keys the service keeps.                     *)
(***************************************************************************)
LEMMA MeetExtended ==
  ASSUME Typed, Extended, Grows, NEW p \in pending, Meet(p) PROVE Extended'
<1> DEFINE c == p.circuit
<1>1. /\ UNCHANGED <<scene, associated, hop, lock, pc, circ>>
      /\ pending' = pending \ {p}
  BY DEF Meet, circuit
<1>2. CASE c \in Circuits /\ point[c] = "established"
  <2>1. /\ point' = [point EXCEPT ![c] = "joined"]
        /\ joined' = [joined EXCEPT ![c] = <<p.service, Kept(p.key)>>]
        /\ read' = read \/ read' = [read EXCEPT ![c] = Answer(p.key)]
    BY <1>2 DEF Meet, Kept, Answer
  <2>2. /\ point'[c] = "joined" /\ joined'[c] = <<p.service, Kept(p.key)>>
        /\ read'[c] = read[c] \/ read'[c] = Answer(p.key)
        /\ \A d \in Circuits \ {c} : /\ point'[d] = point[d] /\ joined'[d] = joined[d]
                                     /\ read'[d] = read[d]
    <3>1. /\ point'[c] = "joined" /\ joined'[c] = <<p.service, Kept(p.key)>>
          /\ \A d \in Circuits \ {c} : point'[d] = point[d] /\ joined'[d] = joined[d]
      BY <1>2, <2>1, Domains DEF Typed, TypeOK
    <3>2. CASE read' = read
      BY <3>1, <3>2
    <3>3. CASE read' = [read EXCEPT ![c] = Answer(p.key)]
      BY <1>2, <3>1, <3>3, Domains
    <3> QED BY <2>1, <3>2, <3>3
  <2>3. hop[c] = <<>> /\ read[c] = None
    BY <1>2 DEF Extended, Joined, Met
  <2>4. KeyOf(Answer(p.key)) = p.key
    BY DEF KeyOf, Answer, TapReply
  <2>5. ASSUME NEW d \in Circuits PROVE Joined(d)'
    <3>1. Joined(d)
      BY DEF Extended
    <3>2. CASE d = c
      <4>1. read'[c] # None => /\ read'[c] = Answer(p.key)
                               /\ joined'[c] = <<joined'[c][1], Kept(KeyOf(read'[c]))>>
                               /\ read'[c] = Answer(KeyOf(read'[c]))
        BY <2>2, <2>3, <2>4
      <4> QED BY <1>1, <2>2, <2>3, <3>1, <3>2, <4>1 DEF Joined, Met
    <3>3. CASE d # c
      BY <1>1, <2>2, <3>1, <3>3, MixedStays DEF Joined, Met
    <3> QED BY <3>2, <3>3
  <2>6. ASSUME NEW u \in Threads, pc'[u] \in Searching PROVE Searched(u)'
    <3>1. Searched(u) /\ circ[u] \in Circuits
      BY <1>1, <2>6 DEF Extended, Typed, Placed, Searching
    <3>2. Mixed(circ[u]) => Mixed(circ[u])'
      BY <1>1, <3>1, MixedStays DEF Mixed
    <3>3. CASE circ[u] = c
      <4>1. Mixed(circ[u]) \/ p.service = Onion(Want(u))
        BY <3>1, <3>3 DEF Searched
      <4> QED BY <1>1, <2>2, <3>1, <3>2, <3>3, <4>1, WantSame DEF Searched, Mixed
    <3>4. CASE circ[u] # c
      BY <1>1, <2>2, <3>1, <3>2, <3>4, WantSame DEF Searched, Mixed
    <3> QED BY <3>3, <3>4
  <2> QED BY <2>5, <2>6 DEF Extended
<1>3. CASE ~(c \in Circuits /\ point[c] = "established")
  <2>1. \A d \in Circuits : point'[d] = point[d] /\ joined'[d] = joined[d] /\ read'[d] = read[d]
    <3>1. CASE point[c] = "established"
      <4>1. /\ point' = [point EXCEPT ![c] = "joined"]
            /\ joined' = [joined EXCEPT ![c] = <<p.service, Kept(p.key)>>]
            /\ read' = read \/ read' = [read EXCEPT ![c] = Answer(p.key)]
        BY <3>1 DEF Meet, Kept, Answer
      <4>2. c \notin Circuits
        BY <1>3, <3>1
      <4>3. \A d \in Circuits : point'[d] = point[d] /\ joined'[d] = joined[d]
        BY <4>1, <4>2, Domains DEF Typed, TypeOK
      <4>4. CASE read' = [read EXCEPT ![c] = Answer(p.key)]
        BY <4>2, <4>3, <4>4, Domains
      <4> QED BY <4>1, <4>3, <4>4
    <3>2. CASE point[c] # "established"
      BY <3>2 DEF Meet
    <3> QED BY <3>1, <3>2
  <2>2. ASSUME NEW d \in Circuits PROVE Joined(d)'
    BY <1>1, <2>1, MixedStays DEF Extended, Joined, Met
  <2>3. ASSUME NEW u \in Threads, pc'[u] \in Searching PROVE Searched(u)'
    <3>1. Searched(u) /\ circ[u] \in Circuits
      BY <1>1, <2>3 DEF Extended, Typed, Placed, Searching
    <3>2. Mixed(circ[u]) => Mixed(circ[u])'
      BY <1>1, <3>1, MixedStays DEF Mixed
    <3> QED BY <1>1, <2>1, <3>1, <3>2, WantSame DEF Searched, Mixed
  <2> QED BY <2>2, <2>3 DEF Extended
<1> QED BY <1>2, <1>3

(* Equal hashes are of equal secrets, and so are the keys made from them.   *)
LEMMA TapKeys ==
  ASSUME NEW x, NEW key, TapComplete(x, Answer(key)) # KeyAgreementError
  PROVE  TapComplete(x, Answer(key)) = Kept(key)
<1>1. Answer(key).key = <<"y", key>>
      /\ Answer(key).auth = <<"sha1", Shared(key, <<"y", key>>)>>
  BY DEF Answer, TapReply, KdfTor
<1>2. <<"sha1", Shared(key, <<"y", key>>)>> = <<"sha1", Shared(x, <<"y", key>>)>>
  BY <1>1 DEF TapComplete, Checked, KdfTor
<1>3. Shared(key, <<"y", key>>) = Shared(x, <<"y", key>>)
  BY <1>2
<1> QED BY <1>1, <1>2, <1>3 DEF TapComplete, Checked, Kept, KdfTor

LEMMA AnsweredExtended ==
  ASSUME Typed, Locks, Onions, Extended, Grows, NEW t \in Threads, Answered(t) PROVE Extended'
<1> DEFINE c == circ[t]
           keys == TapComplete(<<"x", made[c]>>, read[c])
<1>1. /\ UNCHANGED <<scene, circ, joined, point, read, pending>>
      /\ pc[t] = "wait" /\ read[c] # None
  BY DEF Answered, meeting, network
<1>2. c \in Circuits /\ hop[c] = <<>>
  BY <1>1, AloneInLock DEF InLock
<1>3. Joined(c) /\ Searched(t)
  BY <1>1, <1>2 DEF Extended, Searching
<1>4. CASE keys = KeyAgreementError
  <2>1. Continue(t, "intro") /\ UNCHANGED <<hop, associated, lock>>
    BY <1>4 DEF Answered
  <2>2. pc'[t] = "intro" /\ \A u \in Threads \ {t} : pc'[u] = pc[u]
    BY <2>1, ContinueTyped DEF Typed, Labels
  <2> QED BY <1>1, <2>1, <2>2, ExtendedSame DEF Searching
<1>5. CASE keys # KeyAgreementError
  <2>1. /\ hop' = [hop EXCEPT ![c] = Append(hop[c], <<Onion(Want(t)), keys>>)]
        /\ associated' = [associated EXCEPT ![c] = Onion(Want(t))]
        /\ lock' = [lock EXCEPT ![c] = None]
        /\ Continue(t, "begin")
    BY <1>5 DEF Answered
  <2>2. pc'[t] = "begin" /\ \A u \in Threads \ {t} : pc'[u] = pc[u]
    BY <2>1, ContinueTyped DEF Typed, Labels
  <2>3. keys = Kept(KeyOf(read[c]))
    BY <1>1, <1>3, <1>5, TapKeys DEF Joined
  <2>4. /\ joined[c] = <<joined[c][1], keys>>
        /\ joined[c][1] = Onion(Want(t)) \/ Mixed(c)
    BY <1>1, <1>3, <2>3 DEF Joined, Searched
  <2>5. Append(hop[c], <<Onion(Want(t)), keys>>) = <<<<Onion(Want(t)), joined[c][2]>>>>
    <3>1. \A x : Append(<<>>, x) = <<x>>
      OBVIOUS
    <3>2. joined[c][2] = keys
      BY <2>4
    <3> QED BY <1>2, <3>1, <3>2
  <2> HIDE DEF keys
  <2>6. /\ hop'[c] = <<<<Onion(Want(t)), joined[c][2]>>>>
        /\ associated'[c] = Onion(Want(t)) /\ lock'[c] = None
        /\ \A d \in Circuits \ {c} : /\ hop'[d] = hop[d] /\ associated'[d] = associated[d]
                                     /\ lock'[d] = lock[d]
    BY <1>2, <2>1, <2>5 DEF Typed, TypeOK
  <2>7. Onion(Want(t)) # None /\ (joined[c][1] = Onion(Want(t)) \/ Mixed(c)') /\ Met(c)
    <3>1. IsOnion(Want(t))
      BY <1>1 DEF Onions, InLock
    <3>2. Mixed(c) => Mixed(c)'
      BY <1>1, <1>2, MixedStays DEF Mixed
    <3> QED BY <1>1, <1>3, <2>4, <3>1, <3>2, HostsAre DEF Typed, TypeOK, Joined
  <2>8. ASSUME NEW d \in Circuits PROVE Joined(d)'
    <3>1. Joined(d)
      BY DEF Extended
    <3>2. CASE d = c
      <4>1. hop'[c] # <<>>
        BY <2>6
      <4> QED BY <1>1, <2>6, <2>7, <3>1, <3>2, <4>1 DEF Joined, Met, Mixed
    <3>3. CASE d # c
      BY <1>1, <2>6, <3>1, <3>3, MixedStays DEF Joined, Met
    <3> QED BY <3>2, <3>3
  <2>9. ASSUME NEW u \in Threads, pc'[u] \in Searching PROVE Searched(u)'
    <3>1. Searched(u) /\ circ[u] \in Circuits
      BY <2>2, <2>9 DEF Searching, Extended, Typed, Placed
    <3>2. Mixed(circ[u]) => Mixed(circ[u])'
      BY <1>1, <3>1, MixedStays DEF Mixed
    <3> QED BY <1>1, <3>1, <3>2, WantSame DEF Searched, Mixed
  <2> QED BY <2>8, <2>9 DEF Extended
<1> QED BY <1>4, <1>5

LEMMA EndedExtended ==
  ASSUME Typed, Extended, Grows, NEW c \in Circuits, Ended(c) PROVE Extended'
<1>1. /\ UNCHANGED <<scene, associated, hop, lock, read, pc, circ, joined, pending>>
      /\ point' = [point EXCEPT ![c] = "gone"]
  BY DEF Ended, meeting
<1>2. point'[c] = "gone" /\ \A d \in Circuits \ {c} : point'[d] = point[d]
  BY <1>1 DEF Typed, TypeOK
<1>3. ASSUME NEW d \in Circuits PROVE Joined(d)'
  BY <1>1, <1>2, MixedStays DEF Extended, Joined, Met
<1>4. ASSUME NEW t \in Threads, pc'[t] \in Searching PROVE Searched(t)'
  <2>1. Searched(t) /\ circ[t] \in Circuits
    BY <1>1, <1>4 DEF Extended, Typed, Placed, Searching
  <2>2. point'[circ[t]] # "open"
    BY <1>2, <2>1 DEF Searched
  <2>3. Mixed(circ[t]) => Mixed(circ[t])'
    BY <1>1, <2>1, MixedStays DEF Mixed
  <2> QED BY <1>1, <2>1, <2>2, <2>3, WantSame DEF Searched, Mixed
<1> QED BY <1>3, <1>4 DEF Extended

(* The steps that leave the rendezvous of every circuit alone.              *)
LEMMA RequestExtended ==
  ASSUME Typed, Locks, Onions, Extended, Grows, NEW t \in Threads, Request(t) PROVE Extended'
<1> USE DEF circuit, meeting, search, network, history
<1>1. CASE GetCircuit(t) \/ OpenStream(t) \/ Begin(t) \/ Exchange(t)
  <2>1. /\ UNCHANGED <<scene, associated, hop, lock, joined, point, read, pending>>
        /\ \A u \in Threads \ {t} : circ'[u] = circ[u]
    BY <1>1 DEF GetCircuit, OpenStream, Begin, Exchange, Typed, TypeOK
  <2>2. \/ \E label \in {"stream", "begin", "lock", "open", "done"} : Continue(t, label)
        \/ \E kind : Raise(t, kind)
    BY <1>1 DEF GetCircuit, OpenStream, Begin, Exchange
  <2>3. pc'[t] \notin Searching /\ \A u \in Threads \ {t} : pc'[u] = pc[u]
    BY <2>2, ContinueTyped, RaiseTyped DEF Typed, Labels, Searching
  <2> QED BY <2>1, <2>3, ExtendedSame
<1>2. CASE Lock(t)
  <2>1. UNCHANGED <<scene, associated, hop, joined, point, read, pending, circ>>
    BY <1>2 DEF Lock
  <2>2. \/ \E label \in {"establish", "begin"} : Continue(t, label)
        \/ Raise(t, "Exception")
    BY <1>2 DEF Lock
  <2>3. pc'[t] \notin Searching /\ \A u \in Threads \ {t} : pc'[u] = pc[u]
    BY <2>2, ContinueTyped, RaiseTyped DEF Typed, Labels, Searching
  <2>4. \A c \in Circuits : lock'[c] # None => lock[c] # None \/ associated[c] = None
    <3>1. CASE lock' = [lock EXCEPT ![circ[t]] = t] /\ associated[circ[t]] = None
      BY <3>1 DEF Typed, TypeOK
    <3>2. CASE lock' = lock
      BY <3>2
    <3> QED BY <1>2, <3>1, <3>2 DEF Lock
  <2> QED BY <2>1, <2>3, <2>4, ExtendedSame
<1>3. CASE NextReplica(t) \/ AskDir(t) \/ NoMorePoints(t) \/ UnknownPoint(t) \/ Timeout(t)
  <2>1. UNCHANGED <<scene, associated, hop, joined, point, read, pending, circ>>
    BY <1>3 DEF NextReplica, AskDir, NoMorePoints, UnknownPoint, Timeout
  <2>2. pc[t] \in Searching
    BY <1>3 DEF NextReplica, AskDir, NoMorePoints, UnknownPoint, Timeout, Searching
  <2>3. \/ UNCHANGED <<pc, lock>>
        \/ UNCHANGED lock /\ \E label \in {"dirs", "intro"} : Continue(t, label)
        \/ \E kind : RaiseInLock(t, kind)
    BY <1>3 DEF NextReplica, AskDir, NoMorePoints, UnknownPoint, Timeout
  <2>4. \A u \in Threads \ {t} : pc'[u] = pc[u]
    BY <2>3, ContinueTyped, RaiseTyped DEF Typed, Labels, RaiseInLock
  <2>5. \A c \in Circuits : lock'[c] # None => lock[c] # None
    <3>1. CASE lock' = [lock EXCEPT ![circ[t]] = None]
      BY <3>1 DEF Typed, TypeOK
    <3>2. CASE lock' = lock
      BY <3>2
    <3> QED BY <2>3, <3>1, <3>2 DEF RaiseInLock
  <2> QED BY <2>1, <2>2, <2>4, <2>5, ExtendedSame
<1> QED BY <1>1, <1>2, <1>3, EstablishExtended, IntroduceExtended, AnsweredExtended DEF Request

LEMMA ExtendedKept == Typed /\ Locks /\ Onions /\ Extended /\ [Next]_vars => Extended'
<1> SUFFICES ASSUME Typed, Locks, Onions, Extended, [Next]_vars, Grows PROVE Extended'
  BY StepGrows
<1>1. ASSUME NEW t \in Threads, Request(t) PROVE Extended'
  BY <1>1, RequestExtended
<1>2. ASSUME NEW p \in pending, Meet(p) PROVE Extended'
  BY <1>2, MeetExtended
<1>3. ASSUME NEW c \in Circuits, Ended(c) PROVE Extended'
  BY <1>3, EndedExtended
<1>4. CASE NextPeriod \/ UNCHANGED vars
  <2>1. UNCHANGED <<scene, associated, hop, lock, joined, point, read, pending, pc, circ>>
    BY <1>4 DEF NextPeriod, vars, circuit, meeting, network
  <2> QED BY <2>1, ExtendedSame
<1> QED BY <1>1, <1>2, <1>3, <1>4 DEF Next

LEMMA AlwaysExtended == Spec => [](Typed /\ Locks /\ Onions /\ Extended)
<1>1. Init => Typed /\ Locks /\ Onions /\ Extended
  BY TypedInit, LocksInit, OnionsInit, ExtendedInit
<1>2. Typed /\ Locks /\ Onions /\ Extended /\ [Next]_vars => (Typed /\ Locks /\ Onions /\ Extended)'
  BY TypedKept, LocksKept, OnionsKept, ExtendedKept
<1> QED BY <1>1, <1>2, PTL DEF Spec

(***************************************************************************)
(* A circuit that has been extended to a service (extend_to_hidden) ends at *)
(* the service that the rendezvous point joined it with, with the keys that *)
(* service keeps, and has one such node: an answer to an earlier            *)
(* introduction, of any number of them, is not completed as the last one's. *)
(***************************************************************************)
THEOREM KeysAlwaysAgree == Spec => []KeysAgree
<1>1. Extended => KeysAgree
  BY DEF Extended, Joined, KeysAgree
<1> QED BY <1>1, AlwaysExtended, PTL

-----------------------------------------------------------------------------
(***************************************************************************)
(* EstablishesOnce.                                                         *)
(***************************************************************************)

LEMMA EstablishedInit == Init => Established
BY DEF Init, Established

(* Who searches for a circuit goes on, gives it up or associates it. *)
LEMMA EstablishedSame ==
  ASSUME Established, failed \subseteq failed',
         \A c \in Circuits :
           /\ state'[c] = "Connected" /\ point'[c] # "open" =>
                state[c] = "Connected" /\ point[c] # "open"
           /\ associated[c] # None => associated'[c] # None,
         \A c \in Circuits : \A u \in Threads :
           lock[c] = u /\ pc[u] \in Searching =>
             \/ lock'[c] = u /\ pc'[u] \in Searching
             \/ c \in failed' \/ associated'[c] # None
  PROVE  Established'
BY DEF Established

LEMMA EstablishEstablished ==
  ASSUME Typed, Locks, Onions, Extended, Established, NEW t \in Threads, Establish(t)
  PROVE  Established'
<1> DEFINE c == circ[t]
<1>1. UNCHANGED associated /\ pc[t] = "establish"
  BY DEF Establish
<1>2. c \in Circuits /\ lock[c] = t
  BY <1>1, AloneInLock DEF InLock
<1>3. CASE point[c] = "open"
  <2>1. /\ point' = [point EXCEPT ![c] = "established"]
        /\ UNCHANGED <<state, lock, failed>> /\ Continue(t, "dirs")
    BY <1>3 DEF Establish
  <2>2. pc'[t] = "dirs" /\ \A u \in Threads \ {t} : pc'[u] = pc[u]
    BY <2>1, ContinueTyped DEF Typed, Labels
  <2>3. \A d \in Circuits \ {c} : point'[d] = point[d]
    BY <2>1 DEF Typed, TypeOK
  <2>4. \A d \in Circuits : \A u \in Threads :
          lock[d] = u /\ pc[u] \in Searching => lock'[d] = u /\ pc'[u] \in Searching
    BY <2>1, <2>2 DEF Searching
  <2>5. lock'[c] = t /\ pc'[t] \in Searching
    BY <1>2, <2>1, <2>2 DEF Searching
  <2> QED BY <1>1, <2>1, <2>3, <2>4, <2>5 DEF Established
<1>4. CASE point[c] # "open"
  <2>1. /\ point' = [point EXCEPT ![c] = "gone"]
        /\ state' = [state EXCEPT ![c] = "Truncated"]
        /\ RaiseInLock(t, "CellTimeoutError")
    BY <1>4 DEF Establish
  <2>2. /\ lock' = [lock EXCEPT ![c] = None] /\ failed' = failed \cup {c}
        /\ Raise(t, "CellTimeoutError")
    BY <2>1 DEF RaiseInLock
  <2>3. \A u \in Threads \ {t} : pc'[u] = pc[u]
    BY <2>2, RaiseTyped DEF Typed
  <2>4. /\ c \in failed'
        /\ \A d \in Circuits \ {c} : /\ point'[d] = point[d] /\ state'[d] = state[d]
                                     /\ lock'[d] = lock[d]
    BY <2>1, <2>2 DEF Typed, TypeOK
  <2>5. ASSUME NEW d \in Circuits \ {c}, NEW u \in Threads, lock[d] = u, pc[u] \in Searching
        PROVE  lock'[d] = u /\ pc'[u] \in Searching
    BY <1>1, <2>3, <2>4, <2>5 DEF Searching
  <2>6. failed \subseteq failed'
    BY <2>2
  <2> QED BY <1>1, <2>4, <2>5, <2>6 DEF Established
<1> QED BY <1>3, <1>4

LEMMA RequestEstablished ==
  ASSUME Typed, Locks, Onions, Extended, Established, NEW t \in Threads, Request(t)
  PROVE  Established'
<1> USE DEF circuit, meeting, search, network, history
<1>1. CASE GetCircuit(t) \/ OpenStream(t) \/ Begin(t) \/ Exchange(t)
  <2>1. UNCHANGED <<associated, lock, point, state, failed>> /\ pc[t] \notin Searching
    BY <1>1 DEF GetCircuit, OpenStream, Begin, Exchange, Searching
  <2>2. \/ \E label \in {"stream", "begin", "lock", "open", "done"} : Continue(t, label)
        \/ \E kind : Raise(t, kind)
    BY <1>1 DEF GetCircuit, OpenStream, Begin, Exchange
  <2>3. \A u \in Threads \ {t} : pc'[u] = pc[u]
    BY <2>2, ContinueTyped, RaiseTyped DEF Typed, Labels
  <2> QED BY <2>1, <2>3, EstablishedSame
<1>2. CASE Lock(t)
  <2>1. /\ UNCHANGED <<associated, point, state, failed>>
        /\ lock' = lock \/ lock' = [lock EXCEPT ![circ[t]] = t]
        /\ pc[t] = "lock" /\ lock[circ[t]] = None
    BY <1>2 DEF Lock
  <2>2. (\E label \in {"establish", "begin"} : Continue(t, label)) \/ Raise(t, "Exception")
    BY <1>2 DEF Lock
  <2>3. \A u \in Threads \ {t} : pc'[u] = pc[u]
    BY <2>2, ContinueTyped, RaiseTyped DEF Typed, Labels
  <2>4. ASSUME NEW c \in Circuits, NEW u \in Threads, lock[c] = u, pc[u] \in Searching
        PROVE  lock'[c] = u /\ pc'[u] \in Searching
    <3>1. c # circ[t] /\ u # t
      BY <2>1, <2>4, HiddenServiceAssumption DEF Searching
    <3>2. CASE lock' = lock
      BY <2>3, <2>4, <3>1, <3>2
    <3>3. CASE lock' = [lock EXCEPT ![circ[t]] = t]
      <4>1. lock'[c] = lock[c]
        BY <3>1, <3>3 DEF Typed, TypeOK
      <4> QED BY <2>3, <2>4, <3>1, <4>1
    <3> QED BY <2>1, <3>2, <3>3
  <2> QED BY <2>1, <2>4, EstablishedSame
<1>3. CASE NextReplica(t) \/ AskDir(t) \/ NoMorePoints(t) \/ UnknownPoint(t) \/ Introduce(t)
           \/ Timeout(t)
  <2>1. UNCHANGED <<associated, point, state, circ>> /\ pc[t] \in Searching
    BY <1>3 DEF NextReplica, AskDir, NoMorePoints, UnknownPoint, Introduce, Timeout, Searching
  <2>2. circ[t] \in Circuits
    BY <2>1 DEF Typed, Placed, Searching
  <2>3. CASE UNCHANGED <<pc, lock, failed>>
    BY <2>1, <2>3, EstablishedSame
  <2>4. CASE UNCHANGED <<lock, failed>>
             /\ \E label \in {"dirs", "intro", "wait"} : Continue(t, label)
    <3>1. pc'[t] \in Searching /\ \A u \in Threads \ {t} : pc'[u] = pc[u]
      BY <2>4, ContinueTyped DEF Typed, Labels, Searching
    <3> QED BY <2>1, <2>4, <3>1, EstablishedSame
  <2>5. CASE \E kind : RaiseInLock(t, kind)
    <3>1. /\ lock' = [lock EXCEPT ![circ[t]] = None] /\ failed' = failed \cup {circ[t]}
          /\ \E kind : Raise(t, kind)
      BY <2>5 DEF RaiseInLock
    <3>2. \A u \in Threads \ {t} : pc'[u] = pc[u]
      BY <3>1, RaiseTyped DEF Typed
    <3>3. ASSUME NEW c \in Circuits, NEW u \in Threads, lock[c] = u, pc[u] \in Searching
          PROVE  (lock'[c] = u /\ pc'[u] \in Searching) \/ c \in failed'
      <4>1. CASE c = circ[t]
        BY <3>1, <4>1
      <4>2. CASE c # circ[t]
        <5>1. lock'[c] = u
          BY <3>1, <3>3, <4>2
        <5>2. u # t
          BY <3>3, <4>2 DEF Locks
        <5> QED BY <3>2, <3>3, <5>1, <5>2
      <4> QED BY <4>1, <4>2
    <3>4. failed \subseteq failed'
      BY <3>1
    <3> QED BY <2>1, <3>3, <3>4, EstablishedSame
  <2> QED BY <1>3, <2>3, <2>4, <2>5 DEF NextReplica, AskDir, NoMorePoints, UnknownPoint,
            Introduce, Timeout
<1>4. CASE Answered(t)
  <2> DEFINE c == circ[t]
  <2>1. UNCHANGED <<point, state, failed>> /\ pc[t] = "wait" /\ c \in Circuits
    BY <1>4 DEF Answered, Typed, Placed
  <2>2. CASE Continue(t, "intro") /\ UNCHANGED <<hop, associated, lock>>
    <3>1. pc'[t] \in Searching /\ \A u \in Threads \ {t} : pc'[u] = pc[u]
      BY <2>2, ContinueTyped DEF Typed, Labels, Searching
    <3> QED BY <2>1, <2>2, <3>1, EstablishedSame
  <2>3. CASE /\ associated' = [associated EXCEPT ![c] = Onion(Want(t))]
             /\ lock' = [lock EXCEPT ![c] = None]
             /\ Continue(t, "begin")
    <3>1. \A u \in Threads \ {t} : pc'[u] = pc[u]
      BY <2>3, ContinueTyped DEF Typed, Labels
    <3>2. Onion(Want(t)) # None
      BY <2>1, HostsAre DEF Onions, InLock, Typed, TypeOK
    <3>3. /\ associated'[c] # None
          /\ \A d \in Circuits \ {c} : associated'[d] = associated[d] /\ lock'[d] = lock[d]
      BY <2>1, <2>3, <3>2, Domains DEF Typed, TypeOK
    <3>4. ASSUME NEW d \in Circuits, NEW u \in Threads, lock[d] = u, pc[u] \in Searching
          PROVE  (lock'[d] = u /\ pc'[u] \in Searching) \/ associated'[d] # None
      <4>1. d # c => u # t
        BY <3>4 DEF Locks
      <4> QED BY <3>1, <3>3, <3>4, <4>1
    <3> QED BY <2>1, <3>3, <3>4, EstablishedSame
  <2> QED BY <1>4, <2>2, <2>3 DEF Answered
<1> QED BY <1>1, <1>2, <1>3, <1>4, EstablishEstablished DEF Request

LEMMA EstablishedKept ==
  Typed /\ Locks /\ Onions /\ Extended /\ Established /\ [Next]_vars => Established'
<1> SUFFICES ASSUME Typed, Locks, Onions, Extended, Established, [Next]_vars PROVE Established'
  OBVIOUS
<1>1. ASSUME NEW t \in Threads, Request(t) PROVE Established'
  BY <1>1, RequestEstablished
<1>2. ASSUME NEW p \in pending, Meet(p) PROVE Established'
  <2>1. UNCHANGED <<associated, lock, pc, state, failed>>
    BY <1>2 DEF Meet, circuit, history
  <2>2. point' = point \/ (point' = [point EXCEPT ![p.circuit] = "joined"]
                           /\ point[p.circuit] = "established")
    BY <1>2 DEF Meet
  <2>3. \A c \in Circuits : point'[c] # "open" => point[c] # "open"
    BY <2>2 DEF Typed, TypeOK
  <2> QED BY <2>1, <2>3, EstablishedSame
<1>3. ASSUME NEW c \in Circuits, Ended(c) PROVE Established'
  <2>1. /\ UNCHANGED <<associated, lock, pc, failed>>
        /\ state' = [state EXCEPT ![c] = "Truncated"]
        /\ point' = [point EXCEPT ![c] = "gone"]
    BY <1>3 DEF Ended
  <2>2. \A d \in Circuits : state'[d] = "Connected" /\ point'[d] # "open" =>
                              state[d] = "Connected" /\ point[d] # "open"
    BY <2>1 DEF Typed, TypeOK
  <2> QED BY <2>1, <2>2, EstablishedSame
<1>4. CASE NextPeriod \/ UNCHANGED vars
  <2>1. UNCHANGED <<associated, lock, pc, point, state, failed>>
    BY <1>4 DEF NextPeriod, vars, circuit, network, history
  <2> QED BY <2>1, EstablishedSame
<1> QED BY <1>1, <1>2, <1>3, <1>4 DEF Next

(* A circuit falls to a relay, or to a second rendezvous after a failure.   *)
LEMMA FallsForCause ==
  ASSUME Typed, Locks, Onions, Extended, Established, [Next]_vars, NEW c \in Circuits,
         state'[c] # state[c]
  PROVE  c \in failed \/ "ended" \in hit'[c]
<1> USE DEF circuit, meeting, search, network, history
<1>1. ASSUME NEW t \in Threads, Request(t) PROVE c \in failed
  <2>1. Establish(t)
    BY <1>1 DEF Request, GetCircuit, OpenStream, Lock, NextReplica, AskDir, NoMorePoints,
                UnknownPoint, Introduce, Answered, Timeout, Begin, Exchange
  <2>2. pc[t] = "establish" /\ point[circ[t]] # "open"
        /\ state' = [state EXCEPT ![circ[t]] = "Truncated"]
    BY <2>1 DEF Establish
  <2>3. c = circ[t] /\ state[c] = "Connected"
    BY <2>2 DEF Typed, TypeOK
  <2>4. lock[c] = t /\ associated[c] = None
    BY <2>2, <2>3, AloneInLock DEF InLock
  <2> QED BY <2>2, <2>3, <2>4 DEF Established, Searching
<1>2. ASSUME NEW d \in Circuits, Ended(d) PROVE "ended" \in hit'[c]
  <2>1. /\ hit' = [hit EXCEPT ![d] = hit[d] \cup {"ended"}]
        /\ state' = [state EXCEPT ![d] = "Truncated"]
    BY <1>2 DEF Ended, Fault
  <2>2. c = d
    BY <2>1 DEF Typed, TypeOK
  <2> QED BY <2>1, <2>2 DEF Typed, TypeOK
<1>3. ~ \E p \in pending : Meet(p)
  BY DEF Meet
<1>4. ~NextPeriod /\ ~UNCHANGED vars
  BY DEF NextPeriod, vars
<1> QED BY <1>1, <1>2, <1>3, <1>4 DEF Next

LEMMA AlwaysEstablished == Spec => [](Typed /\ Locks /\ Onions /\ Extended /\ Established)
<1>1. Init => Typed /\ Locks /\ Onions /\ Extended /\ Established
  BY TypedInit, LocksInit, OnionsInit, ExtendedInit, EstablishedInit
<1>2. Typed /\ Locks /\ Onions /\ Extended /\ Established /\ [Next]_vars =>
        (Typed /\ Locks /\ Onions /\ Extended /\ Established)'
  BY TypedKept, LocksKept, OnionsKept, ExtendedKept, EstablishedKept
<1> QED BY <1>1, <1>2, PTL DEF Spec

(***************************************************************************)
(* A step ends a circuit only if a relay does, or if an extension of it has *)
(* failed before: threads that come together at extend_to_hidden for the    *)
(* same service, however many, establish one rendezvous between them.       *)
(***************************************************************************)
THEOREM EstablishesOnceOnly == Spec => EstablishesOnce
<1>1. Typed /\ Locks /\ Onions /\ Extended /\ Established /\ [Next]_vars =>
        [\A c \in Circuits :
           state[c] # state'[c] => c \in failed \/ "ended" \in hit'[c]]_vars
  BY FallsForCause
<1> QED BY <1>1, AlwaysEstablished, PTL DEF Spec, EstablishesOnce

-----------------------------------------------------------------------------
(***************************************************************************)
(* StreamsReachTheirHost.                                                   *)
(***************************************************************************)

LEMMA KeysAreOf ==
  ASSUME NEW t \in Threads PROVE HostKey(Want(t)) \in Keys
BY DEF Keys, Want

LEMMA OwnedInit == Init => Owned
<1> SUFFICES ASSUME Init PROVE Owned
  OBVIOUS
<1>1. /\ \A t \in Threads : circ[t] = 0
      /\ \A k \in Keys : cached[k] = 0
      /\ \A c \in Circuits : associated[c] = None
      /\ sent = {} /\ circuits \in Nat
  BY DEF Init
<1> QED BY <1>1 DEF Owned, StreamsReachTheirHost

(* What has been sent, on a circuit that its thread keeps. *)
LEMMA SentStays ==
  ASSUME Typed, Owned, Grows, scene.front # "socks", UNCHANGED <<scene, sent>>,
         \A u \in Threads : circ[u] # 0 => circ'[u] = circ[u]
  PROVE  /\ \A s \in sent' : s[1] \in Threads /\ circ'[s[1]] \in Circuits
         /\ StreamsReachTheirHost'
<1>1. ASSUME NEW s \in sent
      PROVE  /\ s[1] \in Threads /\ circ[s[1]] \in Circuits /\ circ'[s[1]] = circ[s[1]]
             /\ s[2] \in {Wanted(s[1]), "nobody"} \/ Mixed(circ[s[1]])
             /\ Mixed(circ[s[1]]) => "mixed" \in hit'[circ[s[1]]]
  <2>1. s[1] \in Threads /\ circ[s[1]] \in Circuits /\ circ[s[1]] # 0
    BY CircuitsAre DEF Owned
  <2>2. s[2] \in {Wanted(s[1]), "nobody"} \/ Mixed(circ[s[1]])
    BY DEF Owned, StreamsReachTheirHost
  <2>3. Mixed(circ[s[1]]) => "mixed" \in hit'[circ[s[1]]]
    BY <2>1 DEF Grows, Mixed
  <2> QED BY <2>1, <2>2, <2>3
<1>2. \A s \in sent : Wanted(s[1])' = Wanted(s[1])
  BY <1>1 DEF Wanted, IsOnion, Onion, Want, Last
<1> QED BY <1>1, <1>2 DEF StreamsReachTheirHost, Mixed

(* A step that changes neither who has which circuit, nor what is sent.     *)
LEMMA OwnedSame ==
  ASSUME Typed, Owned, Grows, UNCHANGED <<scene, cached, circuits, circ, associated, sent>>
  PROVE  Owned'
<1>1. Keys' = Keys
  BY KeysSame
<1>2. ASSUME scene.front # "socks"
      PROVE  /\ \A s \in sent' : s[1] \in Threads /\ circ'[s[1]] \in Circuits
             /\ StreamsReachTheirHost'
  BY <1>2, SentStays
<1> QED BY <1>1, <1>2, WantSame DEF Owned

(* Under TorInfo._lock a thread gets the circuit of its key, or a new one.  *)
LEMMA GetCircuitOwned ==
  ASSUME Typed, Owned, Grows, scene.front # "socks", NEW t \in Threads, GetCircuit(t)
  PROVE  Owned'
<1> DEFINE key == HostKey(Want(t))
<1>1. UNCHANGED <<scene, associated, sent>> /\ Keys' = Keys
  BY KeysSame DEF GetCircuit, circuit, history
<1>2. key \in Keys /\ circuits \in Nat /\ cached \in [Keys -> Circuits \cup {0}]
      /\ Circuits \subseteq Nat \ {0} /\ circ \in [Threads -> Circuits \cup {0}]
  BY KeysAreOf, CircuitsAre DEF Typed, TypeOK
<1>3. ASSUME \A u \in Threads : circ[u] # 0 => circ'[u] = circ[u]
      PROVE  /\ \A s \in sent' : s[1] \in Threads /\ circ'[s[1]] \in Circuits
             /\ StreamsReachTheirHost'
  BY <1>1, <1>3, SentStays
<1>4. ASSUME UNCHANGED <<cached, circuits>>,
             circ' = circ \/ (cached[key] # 0 /\ circ' = [circ EXCEPT ![t] = cached[key]])
      PROVE  Owned'
  <2>1. CASE circ' = circ
    BY <1>1, <1>4, <2>1, OwnedSame
  <2>2. CASE cached[key] # 0 /\ circ' = [circ EXCEPT ![t] = cached[key]]
    <3>1. circ'[t] = cached[key] /\ \A u \in Threads \ {t} : circ'[u] = circ[u]
      BY <1>2, <2>2
    <3>2. circ[t] # 0 => circ'[t] = circ[t]
      BY <3>1 DEF Owned
    <3>3. \A u \in Threads : circ'[u] # 0 => cached'[HostKey(Want(u))] = circ'[u]
      BY <1>4, <3>1 DEF Owned
    <3>4. \A u \in Threads : \A c \in Circuits : circ[u] = c => circ'[u] = c
      BY <1>2, <3>1, <3>2
    <3>5. \A c \in Circuits : associated[c] # None =>
            \E u \in Threads : /\ circ'[u] = c /\ IsOnion(Want(u))
                               /\ associated[c] = Onion(Want(u))
      BY <3>4 DEF Owned
    <3>6. /\ \A s \in sent' : s[1] \in Threads /\ circ'[s[1]] \in Circuits
          /\ StreamsReachTheirHost'
      BY <1>3, <3>1, <3>2
    <3> HIDE DEF key
    <3> QED BY <1>1, <1>4, <3>3, <3>5, <3>6, WantSame DEF Owned
  <2> QED BY <1>4, <2>1, <2>2
<1>5. ASSUME cached[key] = 0, circuits' = circuits + 1,
             cached' = [cached EXCEPT ![key] = circuits'],
             circ' = [circ EXCEPT ![t] = circuits']
      PROVE  Owned'
  <2> HIDE DEF key
  <2>1. cached'[key] = circuits + 1 /\ \A k \in Keys \ {key} : cached'[k] = cached[k]
    BY <1>2, <1>5
  <2>2. circ'[t] = circuits + 1 /\ \A u \in Threads \ {t} : circ'[u] = circ[u]
    BY <1>2, <1>5
  <2>3. \A k \in Keys : cached[k] \in Nat /\ cached[k] <= circuits
    <3>1. \A k \in Keys : cached[k] \in Circuits \cup {0}
      BY <1>2
    <3>2. \A k \in Keys : cached[k] <= circuits
      BY DEF Owned
    <3>3. Circuits \cup {0} \subseteq Nat
      BY <1>2
    <3> QED BY <3>1, <3>2, <3>3
  <2>4. \A u \in Threads : HostKey(Want(u)) = key => circ[u] = 0
    BY <1>5 DEF Owned
  <2>5. circ[t] = 0
    BY <2>4 DEF key
  <2>6. ASSUME NEW u \in Threads, circ'[u] # 0 PROVE cached'[HostKey(Want(u))] = circ'[u]
    <3>1. CASE u = t
      BY <2>1, <2>2, <3>1 DEF key
    <3>2. CASE u # t
      <4>1. circ[u] # 0 /\ cached[HostKey(Want(u))] = circ[u] /\ circ'[u] = circ[u]
        BY <2>2, <2>6, <3>2 DEF Owned
      <4>2. HostKey(Want(u)) \in Keys \ {key}
        BY <2>4, <4>1, KeysAreOf
      <4> QED BY <2>1, <4>1, <4>2
    <3> QED BY <3>1, <3>2
  <2>7. \A k \in Keys : cached'[k] <= circuits'
    BY <1>2, <1>5, <2>1, <2>3
  <2>8. ASSUME NEW j \in Keys, NEW k \in Keys, cached'[j] = cached'[k], cached'[j] # 0
        PROVE  j = k
    <3>1. CASE j = key /\ k # key
      <4>1. cached[k] = circuits + 1 /\ cached[k] \in Nat /\ cached[k] <= circuits
        BY <2>1, <2>3, <2>8, <3>1
      <4> QED BY <1>2, <4>1
    <3>2. CASE j # key /\ k = key
      <4>1. cached[j] = circuits + 1 /\ cached[j] \in Nat /\ cached[j] <= circuits
        BY <2>1, <2>3, <2>8, <3>2
      <4> QED BY <1>2, <4>1
    <3>3. CASE j # key /\ k # key
      BY <2>1, <2>8, <3>3 DEF Owned
    <3> QED BY <3>1, <3>2, <3>3
  <2>9. \A u \in Threads : \A c \in Circuits : circ[u] = c => circ'[u] = c
    BY <1>2, <2>2, <2>5
  <2>10. \A c \in Circuits : associated[c] # None =>
           \E u \in Threads : /\ circ'[u] = c /\ IsOnion(Want(u))
                              /\ associated[c] = Onion(Want(u))
    BY <2>9 DEF Owned
  <2>11. /\ \A s \in sent' : s[1] \in Threads /\ circ'[s[1]] \in Circuits
         /\ StreamsReachTheirHost'
    BY <1>3, <2>2, <2>5
  <2> QED BY <1>1, <2>6, <2>7, <2>8, <2>10, <2>11, WantSame DEF Owned
<1> QED BY <1>4, <1>5 DEF GetCircuit, info

LEMMA AnsweredOwned ==
  ASSUME Typed, Onions, Owned, Grows, scene.front # "socks", NEW t \in Threads, Answered(t)
  PROVE  Owned'
<1> DEFINE c == circ[t]
<1>1. UNCHANGED <<scene, cached, circuits, circ, sent>> /\ pc[t] = "wait"
  BY DEF Answered, info, history
<1>2. c \in Circuits /\ IsOnion(Want(t))
  BY <1>1 DEF Typed, Placed, Onions, InLock
<1>3. CASE associated' = associated
  BY <1>1, <1>3, OwnedSame
<1>4. CASE associated' = [associated EXCEPT ![c] = Onion(Want(t))]
  <2>1. associated'[c] = Onion(Want(t)) /\ \A d \in Circuits \ {c} : associated'[d] = associated[d]
    BY <1>2, <1>4, Domains
  <2>2. ASSUME NEW d \in Circuits, associated'[d] # None
        PROVE  \E u \in Threads : /\ circ[u] = d /\ IsOnion(Want(u))
                                  /\ associated'[d] = Onion(Want(u))
    BY <1>2, <2>1, <2>2 DEF Owned
  <2>3. /\ \A s \in sent' : s[1] \in Threads /\ circ'[s[1]] \in Circuits
        /\ StreamsReachTheirHost'
    BY <1>1, SentStays
  <2> QED BY <1>1, <2>2, <2>3, KeysSame, WantSame DEF Owned
<1> QED BY <1>3, <1>4 DEF Answered

(* Over HTTP whoever sends on a circuit wants what it is associated with.   *)
LEMMA ReachesWanted ==
  ASSUME Typed, Onions, Extended, Owned, scene.front # "socks", NEW t \in Threads,
         pc[t] \in {"begin", "open"}
  PROVE  Reaches(circ[t]) \in {Wanted(t), "nobody"} \/ Mixed(circ[t])
<1> DEFINE c == circ[t]
<1>1. c \in Circuits /\ c # 0 /\ Joined(c)
  BY CircuitsAre DEF Typed, Placed, Extended
<1>2. CASE hop[c] = <<>>
  <2>1. associated[c] = None
    BY <1>1, <1>2 DEF Joined
  <2>2. ~IsOnion(Want(t))
    BY <2>1, HostsAre DEF Onions, Typed, TypeOK
  <2> QED BY <1>2, <2>2 DEF Reaches, Wanted
<1>3. CASE hop[c] # <<>>
  <2>1. /\ associated[c] # None /\ hop[c] = <<<<associated[c], joined[c][2]>>>>
        /\ joined[c][1] = associated[c] \/ Mixed(c)
    BY <1>1, <1>3 DEF Joined
  <2>2. Last(hop[c])[2] = joined[c][2]
    BY <2>1 DEF Last
  <2>3. PICK u \in Threads : /\ circ[u] = c /\ IsOnion(Want(u))
                             /\ associated[c] = Onion(Want(u))
    BY <1>1, <2>1 DEF Owned
  <2>4. cached[HostKey(Want(t))] = c /\ cached[HostKey(Want(u))] = c
    BY <1>1, <2>3 DEF Owned
  <2>5. HostKey(Want(t)) = HostKey(Want(u))
    BY <1>1, <2>4, KeysAreOf DEF Owned
  <2>6. IsOnion(Want(t)) /\ Onion(Want(t)) = associated[c]
    BY <2>3, <2>5, KeyTells DEF Typed, TypeOK
  <2> QED BY <1>3, <2>1, <2>2, <2>6 DEF Reaches, Wanted
<1> QED BY <1>2, <1>3

LEMMA SentOwned ==
  ASSUME Typed, Onions, Extended, Owned, Grows, scene.front # "socks", NEW t \in Threads,
         Begin(t) \/ Exchange(t)
  PROVE  Owned'
<1>1. /\ UNCHANGED <<scene, cached, circuits, circ, associated, hit>>
      /\ pc[t] \in {"begin", "open"}
      /\ sent' = sent \cup {<<t, Reaches(circ[t])>>}
  BY DEF Begin, Exchange, info, circuit
<1>2. Reaches(circ[t]) \in {Wanted(t), "nobody"} \/ Mixed(circ[t])
  BY <1>1, ReachesWanted
<1>3. \A s \in sent' : /\ s[1] \in Threads /\ circ[s[1]] \in Circuits
                       /\ s[2] \in {Wanted(s[1]), "nobody"} \/ Mixed(circ[s[1]])
  <2>1. circ[t] \in Circuits
    BY <1>1 DEF Typed, Placed
  <2> QED BY <1>1, <1>2, <2>1 DEF Owned, StreamsReachTheirHost
<1>4. \A s \in sent' : Wanted(s[1])' = Wanted(s[1])
  BY <1>1, <1>3 DEF Wanted, IsOnion, Onion, Want, Last
<1>5. StreamsReachTheirHost'
  BY <1>1, <1>3, <1>4 DEF StreamsReachTheirHost, Mixed
<1> QED BY <1>1, <1>3, <1>5, KeysSame, WantSame DEF Owned

LEMMA OwnedKept ==
  Typed /\ Onions /\ Extended /\ Owned /\ [Next]_vars => Owned'
<1> SUFFICES ASSUME Typed, Onions, Extended, Owned, [Next]_vars, Grows PROVE Owned'
  BY StepGrows
<1> USE DEF info, circuit, meeting, search, network, history
<1>1. scene' = scene
  BY ScenesStay
<1>2. CASE scene.front = "socks"
  BY <1>1, <1>2 DEF Owned
<1>3. CASE scene.front # "socks"
  <2>1. ASSUME NEW t \in Threads, GetCircuit(t) PROVE Owned'
    BY <1>3, <2>1, GetCircuitOwned
  <2>2. ASSUME NEW t \in Threads, Answered(t) PROVE Owned'
    BY <1>3, <2>2, AnsweredOwned
  <2>3. ASSUME NEW t \in Threads, Begin(t) \/ Exchange(t) PROVE Owned'
    BY <1>3, <2>3, SentOwned
  <2>4. ASSUME NEW t \in Threads,
               \/ OpenStream(t) \/ Lock(t) \/ Establish(t) \/ NextReplica(t) \/ AskDir(t)
               \/ NoMorePoints(t) \/ UnknownPoint(t) \/ Introduce(t) \/ Timeout(t)
        PROVE  Owned'
    <3>1. UNCHANGED <<scene, cached, circuits, circ, associated, sent>>
      BY <2>4 DEF OpenStream, Lock, Establish, NextReplica, AskDir, NoMorePoints, UnknownPoint,
                  Introduce, Timeout
    <3> QED BY <3>1, OwnedSame
  <2>5. CASE (\E p \in pending : Meet(p)) \/ (\E c \in Circuits : Ended(c)) \/ NextPeriod
             \/ UNCHANGED vars
    <3>1. UNCHANGED <<scene, cached, circuits, circ, associated, sent>>
      BY <2>5 DEF Meet, Ended, NextPeriod, vars
    <3> QED BY <3>1, OwnedSame
  <2> QED BY <2>1, <2>2, <2>3, <2>4, <2>5 DEF Next, Request
<1> QED BY <1>2, <1>3

(***************************************************************************)
(* Over HTTP what a stream sends reaches the host it was opened for or      *)
(* nobody, however many hosts, threads and circuits there are: get_circuit  *)
(* and extend_to_hidden never let two hosts that differ in their key share  *)
(* a circuit, and hostname_key keeps what the service is known by.          *)
(***************************************************************************)
THEOREM StreamsStayApart == Spec => []StreamsReachTheirHost
<1> DEFINE Inv == Typed /\ Locks /\ Onions /\ Extended /\ Owned
<1>1. Init => Inv
  BY TypedInit, LocksInit, OnionsInit, ExtendedInit, OwnedInit
<1>2. Inv /\ [Next]_vars => Inv'
  BY TypedKept, LocksKept, OnionsKept, ExtendedKept, OwnedKept
<1>3. Inv => StreamsReachTheirHost
  BY DEF Owned, StreamsReachTheirHost
<1> QED BY <1>1, <1>2, <1>3, PTL DEF Spec

-----------------------------------------------------------------------------
(***************************************************************************)
(* FailsForCause: what a cause is about stays or grows.                     *)
(***************************************************************************)

(* The scene gives the hosts, the auth data and the places of the ids.      *)
LEMMA SceneSame ==
  ASSUME UNCHANGED scene, NEW t \in Threads
  PROVE  /\ Acceptable(Want(t))' = Acceptable(Want(t)) /\ AuthFits(t)' = AuthFits(t)
         /\ Auth(Want(t))' = Auth(Want(t))
         /\ Beyond(0)' = Beyond(0) /\ Beyond(1)' = Beyond(1) /\ Survived' = Survived
<1>1. Auth(Want(t))' = Auth(Want(t)) /\ Onion(Want(t))' = Onion(Want(t))
  BY DEF Auth, Want, HostKey, Onion
<1>2. Acceptable(Want(t))' = Acceptable(Want(t))
  BY <1>1 DEF Acceptable
<1>3. AuthFits(t)' = AuthFits(t)
  BY <1>1 DEF AuthFits, Seal
<1>4. Beyond(0)' = Beyond(0) /\ Beyond(1)' = Beyond(1)
  BY DEF Beyond, Fingerprint
<1> QED BY <1>1, <1>2, <1>3, <1>4 DEF Survived

LEMMA SurvivedIs == Survived \in {1, 3}
BY DEF Survived

(* A cause stays, as long as the thread has the circuit.                    *)
LEMMA CauseGrows ==
  ASSUME Typed, TypeOK', Grows, NEW t \in Threads, circ'[t] = circ[t], Cause(t)
  PROVE  Cause(t)'
<1> DEFINE c == circ[t]
<1>1. scene' = scene /\ (period' = period \/ period' = 1)
  BY DEF Grows
<1>2. c \in Circuits \cup {0}
  BY DEF Typed, TypeOK
<1>3. hit[c] \subseteq hit'[c] /\ faults[c] <= faults'[c]
  BY <1>2 DEF Grows
<1>4. /\ IsOnion(Want(t))' = IsOnion(Want(t))
      /\ Acceptable(Want(t))' = Acceptable(Want(t)) /\ AuthFits(t)' = AuthFits(t)
      /\ Beyond(0)' = Beyond(0) /\ Survived' = Survived
      /\ \A u \in Threads : HostKey(Want(u))' = HostKey(Want(u))
  BY <1>1, WantSame, SceneSame
<1>5. CASE hit[c] \cap {"create", "dir", "late", "ended", "unknown", "mixed"} # {}
  BY <1>3, <1>5 DEF Cause
<1>6. CASE scene.front = "socks" /\ \E u \in Threads : HostKey(Want(u)) # HostKey(Want(t))
  <2>1. scene'.front = "socks" /\ \E u \in Threads : HostKey(Want(u))' # HostKey(Want(t))'
    BY <1>1, <1>4, <1>6
  <2> QED BY <2>1 DEF Cause
<1>7. CASE IsOnion(Want(t)) /\ (\/ ~Acceptable(Want(t)) \/ ~AuthFits(t) \/ Beyond(0))
  BY <1>4, <1>7 DEF Cause
<1>8. CASE IsOnion(Want(t)) /\ period = 1
  BY <1>1, <1>4, <1>8 DEF Cause
<1>9. CASE IsOnion(Want(t)) /\ faults[c] > Survived
  <2>1. faults[c] \in Nat /\ faults'[c] \in Nat /\ Survived \in Nat
    BY <1>2, SurvivedIs DEF Typed, TypeOK
  <2>2. faults'[c] > Survived
    BY <1>3, <1>9, <2>1
  <2> QED BY <1>4, <1>9, <2>2 DEF Cause
<1> QED BY <1>5, <1>6, <1>7, <1>8, <1>9 DEF Cause

(* Over SOCKS all threads have the first circuit, over HTTP that of their   *)
(* key in TorInfo: who has one keeps it.                                    *)
LEMMA CircuitKept ==
  ASSUME Typed, Owned, scene.front = "socks" => \A u \in Threads : circ[u] \in {0, 1},
         [Next]_vars, NEW t \in Threads, circ[t] # 0
  PROVE  circ'[t] = circ[t]
<1> USE DEF info, circuit, meeting, search, network, history
<1>1. ASSUME NEW u \in Threads, GetCircuit(u) PROVE circ'[t] = circ[t]
  <2> DEFINE old == IF scene.front = "socks" THEN 1 ELSE cached[HostKey(Want(u))]
  <2>1. \/ old # 0 /\ circ' = [circ EXCEPT ![u] = old]
        \/ old = 0 /\ circ' = [circ EXCEPT ![u] = circuits']
        \/ circ' = circ
    BY <1>1 DEF GetCircuit
  <2>2. u = t => old = circ[t]
    BY DEF Owned
  <2> HIDE DEF old
  <2> QED BY <2>1, <2>2 DEF Typed, TypeOK
<1>2. ASSUME NEW u \in Threads, Request(u), ~GetCircuit(u) PROVE circ' = circ
  BY <1>2 DEF Request, OpenStream, Lock, Establish, NextReplica, AskDir, NoMorePoints, UnknownPoint,
              Introduce, Answered, Timeout, Begin, Exchange
<1>3. CASE (\E p \in pending : Meet(p)) \/ (\E c \in Circuits : Ended(c)) \/ NextPeriod
           \/ UNCHANGED vars
  BY <1>3 DEF Meet, Ended, NextPeriod, vars
<1> QED BY <1>1, <1>2, <1>3 DEF Next

(* Threads with the same circuit share the causes of an onion host: over    *)
(* HTTP they have the same host key, and over SOCKS it is one if they have  *)
(* not.                                                                     *)
LEMMA CauseShared ==
  ASSUME Typed, Owned, NEW t \in Threads, NEW u \in Threads,
         circ[t] = circ[u], circ[t] # 0, IsOnion(Want(u)), Cause(u)
  PROVE  Cause(t)
<1>1. CASE HostKey(Want(t)) # HostKey(Want(u))
  <2>1. CASE scene.front = "socks"
    BY <1>1, <2>1 DEF Cause
  <2>2. CASE scene.front # "socks"
    <3>1. cached[HostKey(Want(t))] = circ[t] /\ cached[HostKey(Want(u))] = circ[t]
      BY <2>2 DEF Owned
    <3> QED BY <1>1, <2>2, <3>1, KeysAreOf DEF Owned
  <2> QED BY <2>1, <2>2
<1>2. CASE HostKey(Want(t)) = HostKey(Want(u))
  <2>1. IsOnion(Want(t)) /\ Onion(Want(t)) = Onion(Want(u))
    BY <1>2, KeyTells DEF Typed, TypeOK
  <2>2. Auth(Want(t)) = Auth(Want(u))
    BY <1>2 DEF Auth
  <2>3. Acceptable(Want(t)) = Acceptable(Want(u)) /\ AuthFits(t) = AuthFits(u)
    BY <2>1, <2>2 DEF Acceptable, AuthFits
  <2> QED BY <1>2, <2>1, <2>3 DEF Cause
<1> QED BY <1>1, <1>2

-----------------------------------------------------------------------------
(***************************************************************************)
(* FailsForCause: the directories.                                          *)
(***************************************************************************)

(* get_responsibles starts one directory late, but the first two it names   *)
(* are the second and the third the service has chosen.                     *)
LEMMA ResponsiblesHold ==
  ASSUME NEW id, NEW d \in 1..HsDirs, Fingerprint(d) > id.at
  PROVE  /\ Len(Responsibles(id)) = 3
         /\ \A j \in {1, 2} : Responsibles(id)[j] \in Holders(id)
<1> DEFINE after == {e \in 1..HsDirs : Fingerprint(e) > id.at}
           i == CHOOSE e \in after : \A f \in after : e <= f
<1>1. after # {}
  OBVIOUS
<1>2. after \subseteq Nat /\ after # {}
  BY <1>1, HiddenServiceAssumption
<1>3. \E e \in after : \A f \in after : e <= f
  <2> HIDE DEF after
  <2> QED BY <1>2, LeastOf
<1>4. i \in Nat
  <2>1. i \in after
    BY <1>3
  <2> HIDE DEF i
  <2> QED BY <1>2, <2>1
<1>5. Responsibles(id) = Following(i + 1, 3) /\ Holders(id) = ToSet(Following(i, 3))
  BY <1>1 DEF Responsibles, Holders
<1> HIDE DEF i, after
<1>6. /\ Len(Following(i + 1, 3)) = 3
      /\ \A j \in {1, 2} : /\ j + 1 \in DOMAIN Following(i, 3)
                           /\ Following(i + 1, 3)[j] = Following(i, 3)[j + 1]
  <2>1. \A j \in {1, 2} : /\ (i + 1) + j - 2 = i + (j + 1) - 2
    BY <1>4
  <2> QED BY <1>4, <2>1 DEF Following
<1> QED BY <1>5, <1>6 DEF ToSet

(* With the auth data the descriptor asks for, they are found and opened.   *)
LEMMA DirectoriesFound ==
  ASSUME NEW t \in Threads, AuthFits(t), NEW rep \in {0, 1}, ~Beyond(rep), NEW j \in {1, 2}
  PROVE  LET id == DescriptorId(Auth(Want(t)), 0, rep)
         IN /\ Holds(Responsibles(id)[j], Onion(Want(t)), id)
            /\ Opens(Seal(Onion(Want(t))), Auth(Want(t)))
<1> DEFINE auth == Auth(Want(t))
           seal == Seal(Onion(Want(t)))
           id == DescriptorId(auth, 0, rep)
<1>1. id.at = scene.place[0][rep] /\ id.time = 0 /\ id.replica = rep
  BY DEF DescriptorId
<1>2. PICK d \in 1..HsDirs : Fingerprint(d) > id.at
  BY <1>1 DEF Beyond
<1>3. Responsibles(id)[j] \in Holders(id)
  BY <1>2, ResponsiblesHold
<1>4. id = DescriptorId(seal, 0, rep)
  BY DEF AuthFits, DescriptorId, No, Stealth
<1>5. Opens(seal, auth)
  BY DEF AuthFits, Opens
<1> QED BY <1>1, <1>3, <1>4, <1>5 DEF Holds

LEMMA DirectoriesNamed ==
  ASSUME NEW auth, NEW rep \in {0, 1}
  PROVE  Len(Responsibles(DescriptorId(auth, 0, rep))) = IF Beyond(rep) THEN 0 ELSE 3
<1> DEFINE id == DescriptorId(auth, 0, rep)
<1>1. id.at = scene.place[0][rep]
  BY DEF DescriptorId
<1>2. CASE Beyond(rep)
  <2>1. {d \in 1..HsDirs : Fingerprint(d) > id.at} = {}
    BY <1>1, <1>2 DEF Beyond
  <2> QED BY <1>2, <2>1 DEF Responsibles
<1>3. CASE ~Beyond(rep)
  <2>1. PICK d \in 1..HsDirs : Fingerprint(d) > id.at
    BY <1>1, <1>3 DEF Beyond
  <2> QED BY <1>3, <2>1, ResponsiblesHold
<1> QED BY <1>2, <1>3

LEMMA TriedIs ==
  /\ Tried(0) = 0 /\ Tried(1) = 1 /\ Tried(2) = 2 /\ Tried(3) = 2
  /\ Tried(4) = 3 /\ Tried(5) = 4 /\ Tried(6) = 4
  /\ \A n \in 0..6 : Tried(n) \in Nat
  /\ \A n \in 0..5 : Tried(n) <= Tried(n + 1) /\ Tried(n + 1) <= Tried(n) + 1
BY DEF Tried

(***************************************************************************)
(* The next directory on the list of a search that keeps its course: with   *)
(* the descriptor, unless it is the last of the three.                      *)
(***************************************************************************)
LEMMA NextAsked ==
  ASSUME Typed, NEW t \in Threads, ToAsk(t), todo[t] # <<>>, ~Beyond(0), AuthFits(t),
         period = 0
  PROVE  LET id == DescriptorId(Auth(Want(t)), period, IF asked[t] >= 3 THEN 1 ELSE 0)
         IN /\ asked[t] \in 0..5
            /\ \/ Holds(Head(todo[t]), Onion(Want(t)), id)
               \/ Tried(asked[t] + 1) = Tried(asked[t])
            /\ Opens(Seal(Onion(Want(t))), Auth(Want(t)))
<1> DEFINE n == Len(todo[t])
           r == replica[t]
           a == asked[t]
           all == Responsibles(DescriptorId(Auth(Want(t)), 0, r - 1))
<1>1. /\ n \in 1..3 /\ r \in 0..2 /\ a \in 0..6 /\ n + a <= 3 * r
      /\ Head(todo[t]) = todo[t][1]
  <2>1. todo[t] \in Seq(1..HsDirs) /\ Len(todo[t]) <= 3
    BY DEF Typed, TypeOK
  <2>2. n \in Nat /\ n # 0 /\ n <= 3
    BY <2>1
  <2>3. Head(todo[t]) = todo[t][1]
    BY <2>1
  <2>4. r \in 0..2 /\ a \in 0..6 /\ n + a <= 3 * r
    BY DEF Typed, TypeOK, Placed
  <2>5. n \in 1..3
    <3> HIDE DEF n
    <3> QED BY <2>2
  <2> HIDE DEF n, r, a
  <2> QED BY <2>3, <2>4, <2>5
<1>2. r > 0 /\ ~(r = 2 /\ Beyond(1))
  <2>1. r # 0
    <3> HIDE DEF n, r, a
    <3> QED BY <1>1
  <2>2. r > 0
    <3> HIDE DEF n, r, a
    <3> QED BY <1>1, <2>1
  <2>3. ASSUME r = 2, Beyond(1) PROVE FALSE
    BY <2>2, <2>3 DEF ToAsk
  <2> QED BY <2>2, <2>3
<1>3. a + n = 3 * r /\ Head(todo[t]) = all[3 - n + 1]
  <2>1. a + n = 3 * r /\ \A i \in 1..n : todo[t][i] = all[3 - n + i]
    BY <1>1, <1>2 DEF ToAsk
  <2>2. 1 \in 1..n
    <3> HIDE DEF n
    <3> QED BY <1>1
  <2>3. todo[t][1] = all[3 - n + 1]
    <3> HIDE DEF n, all
    <3> QED BY <2>1, <2>2
  <2> QED BY <1>1, <2>1, <2>3
<1>4. r - 1 \in {0, 1} /\ (IF a >= 3 THEN 1 ELSE 0) = r - 1 /\ a \in 0..5
  <2> HIDE DEF n, r, a
  <2> QED BY <1>1, <1>2, <1>3
<1>5. ~Beyond(r - 1)
  <2>1. r - 1 = 0 \/ (r - 1 = 1 /\ r = 2)
    BY <1>1, <1>4
  <2> QED BY <1>2, <2>1
<1>6. Opens(Seal(Onion(Want(t))), Auth(Want(t)))
  BY <1>4, <1>5, DirectoriesFound
<1>7. CASE n # 1
  <2>1. 3 - n + 1 \in {1, 2}
    <3> HIDE DEF n
    <3> QED BY <1>1, <1>7
  <2>2. Holds(all[3 - n + 1], Onion(Want(t)), DescriptorId(Auth(Want(t)), 0, r - 1))
    <3> HIDE DEF n, r
    <3> QED BY <1>4, <1>5, <2>1, DirectoriesFound
  <2> QED BY <1>3, <1>4, <1>6, <2>2
<1>8. CASE n = 1
  <2>1. a \in {2, 5}
    <3> HIDE DEF n, r, a
    <3> QED BY <1>1, <1>2, <1>3, <1>8
  <2>2. Tried(a + 1) = Tried(a)
    <3>1. (2 + 1 = 3) /\ (5 + 1 = 6)
      OBVIOUS
    <3> HIDE DEF a
    <3> QED BY <2>1, <3>1, TriedIs
  <2> QED BY <1>4, <1>6, <2>2
<1> QED BY <1>7, <1>8

(* When a list is at its end, so many failures were on the way.             *)
LEMMA AllAsked ==
  ASSUME Typed, NEW t \in Threads, ToAsk(t), todo[t] = <<>>, replica[t] = 2,
         Paid(t, asked[t]), circ[t] \in Circuits
  PROVE  faults[circ[t]] > Survived
<1>1. Len(todo[t]) = 0 /\ asked[t] \in 0..6 /\ faults[circ[t]] \in Nat
  BY DEF Typed, TypeOK
<1>2. CASE Beyond(1)
  <2>1. asked[t] = 3 /\ Survived = 1
    BY <1>2 DEF ToAsk, Survived
  <2>2. Tried(asked[t]) = 2
    BY <2>1, TriedIs
  <2> QED BY <1>1, <2>1, <2>2 DEF Paid
<1>3. CASE ~Beyond(1)
  <2>1. asked[t] = 6 /\ Survived = 3
    BY <1>1, <1>3 DEF ToAsk, Survived
  <2>2. Tried(asked[t]) = 4
    BY <2>1, TriedIs
  <2> QED BY <1>1, <2>1, <2>2 DEF Paid
<1> QED BY <1>2, <1>3

-----------------------------------------------------------------------------
(***************************************************************************)
(* FailsForCause: every exception has a cause.                              *)
(***************************************************************************)

Ready == Typed /\ Locks /\ Onions /\ Extended /\ Established /\ Owned /\ Causes

(* A thread that has a circuit keeps it, and one that has failed does not   *)
(* ask for one.                                                             *)
LEMMA CauseKept ==
  ASSUME Ready, [Next]_vars, NEW t \in Threads, circ[t] # 0 \/ pc[t] = "failed", Cause(t)
  PROVE  Cause(t)'
<1> USE DEF info, circuit, meeting, search, network, history
<1>1. Grows /\ TypeOK'
  BY StepGrows, TypedKept DEF Ready, Typed
<1>2. CASE circ[t] # 0
  BY <1>1, <1>2, CircuitKept, CauseGrows DEF Ready, Causes
<1>3. CASE pc[t] = "failed"
  <2>1. ASSUME NEW u \in Threads, GetCircuit(u) PROVE circ'[t] = circ[t]
    <3>1. u # t /\ (circ' = circ \/ \E c : circ' = [circ EXCEPT ![u] = c])
      BY <1>3, <2>1 DEF GetCircuit
    <3> QED BY <3>1 DEF Ready, Typed, TypeOK
  <2>2. ASSUME NEW u \in Threads, Request(u), ~GetCircuit(u) PROVE circ' = circ
    BY <2>2 DEF Request, OpenStream, Lock, Establish, NextReplica, AskDir, NoMorePoints,
       UnknownPoint,
                Introduce, Answered, Timeout, Begin, Exchange
  <2>3. (\E p \in pending : Meet(p)) \/ (\E c \in Circuits : Ended(c)) \/ NextPeriod
             \/ UNCHANGED vars => circ' = circ
    BY DEF Meet, Ended, NextPeriod, vars
  <2>4. circ'[t] = circ[t]
    BY <2>1, <2>2, <2>3 DEF Next
  <2> QED BY <1>1, <2>4, CauseGrows DEF Ready
<1> QED BY <1>2, <1>3

(* A circuit that is not connected has been ended, or given up for a cause. *)
LEMMA BrokenForCause ==
  ASSUME Ready, NEW t \in Threads, circ[t] \in Circuits, state[circ[t]] # "Connected"
  PROVE  Cause(t)
<1>1. CASE "ended" \in hit[circ[t]]
  BY <1>1 DEF Cause
<1>2. CASE circ[t] \in failed
  <2>1. PICK u \in Threads : circ[u] = circ[t] /\ IsOnion(Want(u)) /\ Cause(u)
    BY <1>2 DEF Ready, Causes
  <2>2. circ[t] # 0
    BY CircuitsAre
  <2> QED BY <2>1, <2>2, CauseShared DEF Ready
<1> QED BY <1>1, <1>2 DEF Ready, Causes

LEMMA FailedForCause ==
  ASSUME Ready, NEW t \in Threads, circ[t] \in failed, circ[t] # 0
  PROVE  Cause(t)
<1>1. PICK u \in Threads : circ[u] = circ[t] /\ IsOnion(Want(u)) /\ Cause(u)
  BY DEF Ready, Causes
<1> QED BY <1>1, CauseShared DEF Ready

(* No host has the name of what is no host. *)
LEMMA WantedIs ==
  ASSUME scene \in Scenes, NEW t \in Threads PROVE Wanted(t) # "nobody"
<1>1. Want(t) \in Seq(STRING \ {None, "exit", "nobody"})
  BY HostsAssumption DEF Want
<1>2. CASE IsOnion(Want(t))
  <2>1. Len(Want(t)) - 1 \in DOMAIN Want(t)
    BY <1>1, <1>2 DEF IsOnion
  <2>2. Want(t)[Len(Want(t)) - 1] \in STRING \ {None, "exit", "nobody"}
    BY <1>1, <2>1
  <2> QED BY <1>2, <2>2 DEF Wanted, Onion
<1>3. CASE ~IsOnion(Want(t))
  BY <1>3 DEF Wanted
<1> QED BY <1>2, <1>3

(* What a thread opens its stream to, the circuit ends at, if no other host *)
(* has it.                                                                  *)
LEMMA ReachesForCause ==
  ASSUME Ready, NEW t \in Threads, pc[t] \in {"begin", "open"},
         Reaches(circ[t]) # Wanted(t)
  PROVE  Cause(t)
<1> DEFINE c == circ[t]
<1>1. c \in Circuits /\ c # 0 /\ Joined(c)
  BY CircuitsAre DEF Ready, Typed, Placed, Extended
<1>2. CASE hop[c] = <<>>
  <2>1. associated[c] = None
    BY <1>1, <1>2 DEF Joined
  <2>2. ~IsOnion(Want(t))
    BY <2>1, HostsAre DEF Ready, Onions, Typed, TypeOK
  <2> QED BY <1>2, <2>2 DEF Reaches, Wanted
<1>3. CASE hop[c] # <<>>
  <2>1. /\ associated[c] # None /\ hop[c] = <<<<associated[c], joined[c][2]>>>>
        /\ joined[c][1] = associated[c] \/ Mixed(c)
    BY <1>1, <1>3 DEF Joined
  <2>2. Last(hop[c])[2] = joined[c][2]
    BY <2>1 DEF Last
  <2>6. CASE Mixed(c)
    BY <2>6 DEF Cause, Mixed
  <2>3. Mixed(c) \/ Reaches(c) = associated[c]
    BY <1>3, <2>1, <2>2 DEF Reaches
  <2>4. CASE scene.front # "socks" /\ ~Mixed(c)
    <3>1. PICK u \in Threads : /\ circ[u] = c /\ IsOnion(Want(u))
                               /\ associated[c] = Onion(Want(u))
      BY <1>1, <2>1, <2>4 DEF Ready, Owned
    <3>2. cached[HostKey(Want(t))] = c /\ cached[HostKey(Want(u))] = c
      BY <1>1, <2>4, <3>1 DEF Ready, Owned
    <3>3. HostKey(Want(t)) = HostKey(Want(u))
      BY <1>1, <2>4, <3>2, KeysAreOf DEF Ready, Owned
    <3>4. IsOnion(Want(t)) /\ Onion(Want(t)) = associated[c]
      BY <3>1, <3>3, KeyTells DEF Ready, Typed, TypeOK
    <3> QED BY <2>3, <2>4, <3>4 DEF Wanted
  <2>5. CASE scene.front = "socks" /\ ~Mixed(c)
    <3>1. PICK u \in Threads : IsOnion(Want(u)) /\ associated[c] = Onion(Want(u))
      BY <1>1, <2>1 DEF Ready, Causes
    <3>2. CASE HostKey(Want(t)) = HostKey(Want(u))
      <4>1. IsOnion(Want(t)) /\ Onion(Want(t)) = associated[c]
        BY <3>1, <3>2, KeyTells DEF Ready, Typed, TypeOK
      <4> QED BY <2>3, <2>5, <4>1 DEF Wanted
    <3>3. CASE HostKey(Want(t)) # HostKey(Want(u))
      BY <2>5, <3>3 DEF Cause
    <3> QED BY <3>2, <3>3
  <2> QED BY <2>4, <2>5, <2>6
<1> QED BY <1>2, <1>3

(* One that may not share the circuit's service is of another host.         *)
LEMMA AssociatedForCause ==
  ASSUME Ready, NEW t \in Threads, circ[t] \in Circuits, IsOnion(Want(t)),
         associated[circ[t]] \notin {None, Onion(Want(t))}
  PROVE  Cause(t)
<1> DEFINE c == circ[t]
<1>1. CASE scene.front # "socks"
  <2>1. PICK u \in Threads : /\ circ[u] = c /\ IsOnion(Want(u))
                             /\ associated[c] = Onion(Want(u))
    BY <1>1 DEF Ready, Owned
  <2>2. cached[HostKey(Want(t))] = c /\ cached[HostKey(Want(u))] = c /\ c # 0
    BY <1>1, <2>1, CircuitsAre DEF Ready, Owned
  <2>3. HostKey(Want(t)) = HostKey(Want(u))
    BY <1>1, <2>2, KeysAreOf DEF Ready, Owned
  <2> QED BY <2>1, <2>3, KeyTells DEF Ready, Typed, TypeOK
<1>2. CASE scene.front = "socks"
  <2>1. PICK u \in Threads : IsOnion(Want(u)) /\ associated[c] = Onion(Want(u))
    BY DEF Ready, Causes
  <2>2. HostKey(Want(t)) # HostKey(Want(u))
    BY <2>1, KeyTells DEF Ready, Typed, TypeOK
  <2> QED BY <1>2, <2>2 DEF Cause
<1> QED BY <1>1, <1>2

(* What a thread in search has, that has no cause to fail.                  *)
LEMMA NoCause ==
  ASSUME Ready, NEW t \in Threads, pc[t] \in InLock, ~Cause(t)
  PROVE  /\ IsOnion(Want(t)) /\ circ[t] \in Circuits
         /\ AuthFits(t) /\ period = 0 /\ ~Beyond(0)
         /\ state[circ[t]] = "Connected"
         /\ pc[t] \in Searching => OnCourse(t)
<1>1. IsOnion(Want(t)) /\ circ[t] \in Circuits
  BY DEF Ready, Onions, Typed, Placed, InLock
<1>2. AuthFits(t) /\ period # 1 /\ ~Beyond(0)
  BY <1>1 DEF Cause
<1>3. period = 0
  BY <1>2 DEF Ready, Typed, TypeOK
<1>4. state[circ[t]] = "Connected"
  BY <1>1, BrokenForCause
<1>5. pc[t] \in Searching => OnCourse(t)
  BY DEF Ready, Causes
<1> QED BY <1>1, <1>2, <1>3, <1>4, <1>5

(* An exception that leaves a request has a cause. *)
LEMMA RaisesForCause ==
  ASSUME Ready, NEW t \in Threads, Request(t)
  PROVE  UNCHANGED <<error, failed>> \/ Cause(t)'
<1> USE DEF circuit, meeting, search, network, history
<1>1. ASSUME circ[t] \in Circuits, Cause(t) PROVE Cause(t)'
  <2>1. circ[t] # 0
    BY <1>1, CircuitsAre
  <2> QED BY <1>1, <2>1, CauseKept DEF Next
<1>2. CASE GetCircuit(t)
  <2> DEFINE old == IF scene.front = "socks" THEN 1 ELSE cached[HostKey(Want(t))]
  <2>1. CASE old = 0 /\ Fault(0, "create") /\ circ' = circ
    <3>1. circ'[t] = 0
      BY <2>1 DEF Ready, Owned
    <3>2. hit' = [hit EXCEPT ![0] = hit[0] \cup {"create"}]
      BY <2>1 DEF Fault
    <3>3. "create" \in hit'[0]
      BY <3>2 DEF Ready, Typed, TypeOK
    <3> QED BY <3>1, <3>3 DEF Cause
  <2>2. CASE error' = error /\ failed' = failed
    BY <2>2
  <2> QED BY <1>2, <2>1, <2>2 DEF GetCircuit, Continue
<1>3. CASE OpenStream(t)
  <2>1. circ[t] \in Circuits
    BY <1>3 DEF OpenStream, Ready, Typed, Placed
  <2>2. CASE state[circ[t]] # "Connected"
    BY <1>1, <2>1, <2>2, BrokenForCause
  <2>3. CASE IsOnion(Want(t)) /\ ~Acceptable(Want(t))
    BY <1>1, <2>1, <2>3 DEF Cause
  <2>4. CASE state[circ[t]] = "Connected" /\ ~(IsOnion(Want(t)) /\ ~Acceptable(Want(t)))
    BY <1>3, <2>4 DEF OpenStream, Continue
  <2> QED BY <2>2, <2>3, <2>4
<1>4. CASE Lock(t)
  <2>1. circ[t] \in Circuits /\ IsOnion(Want(t))
    BY <1>4 DEF Lock, Ready, Typed, Placed, Onions
  <2>2. CASE associated[circ[t]] \in {None, Onion(Want(t))}
    BY <1>4, <2>2 DEF Lock, Continue
  <2>3. CASE associated[circ[t]] \notin {None, Onion(Want(t))}
    BY <1>1, <2>1, <2>3, AssociatedForCause
  <2> QED BY <2>2, <2>3
<1>5. CASE Establish(t)
  <2>1. pc[t] = "establish" /\ pc[t] \in InLock
    BY <1>5 DEF Establish, InLock
  <2>2. CASE point[circ[t]] = "open"
    BY <1>5, <2>2 DEF Establish, Continue
  <2>3. CASE point[circ[t]] # "open"
    <3>1. /\ circ[t] \in Circuits /\ lock[circ[t]] = t /\ associated[circ[t]] = None
      BY <2>1, AloneInLock DEF Ready
    <3>2. state[circ[t]] # "Connected" \/ circ[t] \in failed
      BY <2>1, <2>3, <3>1 DEF Ready, Established, Searching
    <3>3. circ[t] # 0
      BY <3>1, CircuitsAre
    <3> QED BY <1>1, <3>1, <3>2, <3>3, BrokenForCause, FailedForCause
  <2> QED BY <2>2, <2>3
<1>6. CASE NextReplica(t)
  <2>1. pc[t] \in Searching /\ pc[t] \in InLock /\ pc[t] = "dirs" /\ todo[t] = <<>>
    BY <1>6 DEF NextReplica, Searching, InLock
  <2>2. CASE replica[t] < 2
    BY <1>6, <2>2 DEF NextReplica
  <2>4. circ[t] \in Circuits
    BY <2>1 DEF Ready, Typed, Placed
  <2>3. CASE ~(replica[t] < 2) /\ ~Cause(t)
    <3>1. OnCourse(t) /\ IsOnion(Want(t)) /\ circ[t] \in Circuits
      BY <2>1, <2>3, NoCause
    <3>2. replica[t] = 2
      <4>1. replica[t] \in 0..2
        BY DEF Ready, Typed, TypeOK
      <4> QED BY <2>3, <4>1
    <3>3. faults[circ[t]] > Survived
      BY <2>1, <3>1, <3>2, AllAsked DEF Ready, OnCourse
    <3> QED BY <2>3, <3>1, <3>3 DEF Cause
  <2> QED BY <1>1, <2>2, <2>3, <2>4
<1>7. CASE AskDir(t)
  <2>1. pc[t] \in Searching /\ pc[t] \in InLock /\ todo[t] # <<>> /\ circ' = circ
    BY <1>7 DEF AskDir, Searching, InLock
  <2>2. CASE Fault(circ[t], "dir")
    <3>1. hit' = [hit EXCEPT ![circ[t]] = hit[circ[t]] \cup {"dir"}]
      BY <2>2 DEF Fault
    <3>2. "dir" \in hit'[circ[t]]
      BY <3>1 DEF Ready, Typed, TypeOK
    <3> QED BY <2>1, <3>2 DEF Cause
  <2>3. CASE ~Opens(Seal(Onion(Want(t))), Auth(Want(t))) /\ ~Cause(t)
    <3>1. OnCourse(t) /\ AuthFits(t) /\ period = 0 /\ ~Beyond(0)
      BY <2>1, <2>3, NoCause
    <3> QED BY <2>1, <2>3, <3>1, NextAsked DEF Ready, OnCourse
  <2>4. CASE ~Fault(circ[t], "dir") /\ Opens(Seal(Onion(Want(t))), Auth(Want(t)))
    BY <1>7, <2>4 DEF AskDir, Continue
  <2>5. circ[t] \in Circuits
    BY <2>1 DEF Ready, Typed, Placed, Searching
  <2> QED BY <1>1, <2>2, <2>3, <2>4, <2>5
<1>8. CASE NoMorePoints(t) \/ Introduce(t) \/ Answered(t) \/ Timeout(t)
  BY <1>8 DEF NoMorePoints, UnknownPoint, Introduce, Answered, Timeout, Continue
<1>9. CASE UnknownPoint(t)
  <2>1. /\ hit' = [hit EXCEPT ![circ[t]] = hit[circ[t]] \cup {"unknown"}]
        /\ circ' = circ
    BY <1>9 DEF UnknownPoint, Fault
  <2>2. "unknown" \in hit'[circ[t]]
    BY <2>1 DEF Ready, Typed, TypeOK
  <2> QED BY <2>1, <2>2 DEF Cause
<1>10. CASE Begin(t) \/ Exchange(t)
  <2>1. pc[t] \in {"begin", "open"} /\ circ[t] \in Circuits /\ failed' = failed
    BY <1>10 DEF Begin, Exchange, Ready, Typed, Placed
  <2>2. CASE state[circ[t]] # "Connected"
    BY <1>1, <2>1, <2>2, BrokenForCause
  <2>3. CASE Reaches(circ[t]) # Wanted(t)
    BY <1>1, <2>1, <2>3, ReachesForCause
  <2>4. CASE state[circ[t]] = "Connected" /\ Reaches(circ[t]) = Wanted(t)
    <3>1. Reaches(circ[t]) # "nobody"
      BY <2>4, WantedIs DEF Ready, Typed, TypeOK
    <3> QED BY <1>10, <2>1, <2>4, <3>1 DEF Begin, Exchange, Continue
  <2> QED BY <2>2, <2>3, <2>4
<1> QED BY <1>2, <1>3, <1>4, <1>5, <1>6, <1>7, <1>8, <1>10, <1>9 DEF Request

-----------------------------------------------------------------------------
(***************************************************************************)
(* FailsForCause: a search keeps its course.                                *)
(***************************************************************************)

(* What is to ask depends on nothing else. *)
LEMMA ToAskSame ==
  ASSUME UNCHANGED scene, NEW t \in Threads, ToAsk(t), replica'[t] = replica[t],
         asked'[t] = asked[t], todo'[t] = todo[t]
  PROVE  ToAsk(t)'
<1>1. (Beyond(1) <=> Beyond(1)') /\ Auth(Want(t))' = Auth(Want(t))
  BY SceneSame
<1>2. Responsibles(DescriptorId(Auth(Want(t)), 0, replica[t] - 1))' =
        Responsibles(DescriptorId(Auth(Want(t)), 0, replica[t] - 1))
  BY DEF Responsibles, DescriptorId, Following, Fingerprint, Auth, Want, HostKey
<1> QED BY <1>1, <1>2 DEF ToAsk

(* The others leave a search's circuit alone.                               *)
Apart(u) ==
  LET c == circ[u] IN
  /\ pc'[u] = pc[u] /\ circ'[u] = c /\ todo'[u] = todo[u] /\ replica'[u] = replica[u]
  /\ asked'[u] = asked[u] /\ points'[u] = points[u]
  /\ point'[c] = point[c] /\ read'[c] = read[c] /\ made'[c] = made[c]
  /\ listed'[c] = listed[c]
  /\ \A p \in pending \cup pending' : p.circuit = c => (p \in pending <=> p \in pending')

LEMMA ApartOnCourse ==
  ASSUME Typed, TypeOK', Grows, NEW u \in Threads, circ[u] \in Circuits, Apart(u), OnCourse(u)
  PROVE  OnCourse(u)'
<1> DEFINE c == circ[u]
<1>1. ToAsk(u)'
  BY ToAskSame DEF Apart, OnCourse, Grows
<1>2. Quiet(c) => Quiet(circ[u])'
  BY DEF Apart, Quiet
<1>3. \A n \in 0..6 : Tried(n) <= faults[c] => Tried(n) <= faults'[c]
  <2>1. faults[c] \in Nat /\ faults'[c] \in Nat /\ faults[c] <= faults'[c]
    BY DEF Typed, TypeOK, Grows
  <2> QED BY <2>1, TriedIs
<1>4. asked[u] \in 0..6 /\ (asked[u] > 0 => asked[u] - 1 \in 0..6)
  <2>1. asked[u] \in 0..6
    BY DEF Typed, TypeOK
  <2> QED BY <2>1
<1>5. /\ Paid(u, asked[u]) => Paid(u, asked[u])'
      /\ asked[u] > 0 /\ Paid(u, asked[u] - 1) => Paid(u, asked[u] - 1)'
  BY <1>3, <1>4 DEF Paid, Apart, Tried
<1>6. Waited(u) => Waited(u)'
  <2>1. CASE Quiet(c) /\ read[c] = None /\ Paid(u, asked[u])
    BY <1>2, <1>5, <2>1 DEF Waited, Apart
  <2>2. CASE /\ read[c] = None /\ point[c] = "established" /\ made[c] \in listed[c]
             /\ \E p \in pending : p.circuit = c
             /\ \A p \in pending : p.circuit = c => p.key = <<"x", made[c]>>
    BY <2>2 DEF Waited, Apart
  <2>3. CASE read[c] # None /\ read[c] = Answer(<<"x", made[c]>>)
    BY <2>3 DEF Waited, Apart, Answer, TapReply, KdfTor, Shared
  <2> QED BY <2>1, <2>2, <2>3 DEF Waited
<1> QED BY <1>1, <1>2, <1>5, <1>6 DEF OnCourse, Apart

(* Whoever an introduction is for, its answer goes to the circuit. *)
LEMMA IntroducedHere ==
  ASSUME NEW t \in Threads, Introduce(t), NEW p \in pending \cup pending',
         p \notin pending \/ p \notin pending'
  PROVE  p.circuit = circ[t]
<1> DEFINE To(u) == [service |-> Onion(Want(u)), circuit |-> circ[t],
                     key |-> <<"x", made[circ[t]] + 1>>]
<1>1. pending' = pending \/ \E u \in Threads : pending' = pending \cup {To(u)}
  BY DEF Introduce
<1>2. \A u : To(u).circuit = circ[t]
  OBVIOUS
<1> HIDE DEF To
<1> QED BY <1>1, <1>2

(* Another thread's request, be it on the same circuit. *)
LEMMA RequestApart ==
  ASSUME Ready, NEW t \in Threads, Request(t), NEW u \in Threads \ {t}, pc[u] \in Searching
  PROVE  Apart(u)
<1> USE DEF circuit, meeting, search, network, history
<1> DEFINE c == circ[u]
<1>1. c \in Circuits /\ c # 0 /\ pc[u] \in InLock
  BY CircuitsAre DEF Ready, Typed, Placed, Searching, InLock
<1>2. pc[t] \in InLock => circ[t] # c
  BY <1>1, AloneInLock DEF Ready
<1>3. pc'[u] = pc[u]
  <2>1. \/ pc' = pc \/ \E label \in Labels : Continue(t, label)
        \/ \E kind : Raise(t, kind)
    BY DEF Request, GetCircuit, OpenStream, Lock, Establish, NextReplica, AskDir, NoMorePoints,
       UnknownPoint,
           Introduce, Answered, Timeout, Begin, Exchange, Labels, RaiseInLock
  <2> QED BY <2>1, ContinueTyped, RaiseTyped DEF Ready, Typed
<1>4. /\ circ'[u] = circ[u] /\ todo'[u] = todo[u] /\ replica'[u] = replica[u]
      /\ asked'[u] = asked[u] /\ points'[u] = points[u]
  <2>1. circ'[u] = circ[u]
    BY <1>1, CircuitKept DEF Ready, Causes, Next
  <2>2. CASE Establish(t) \/ NextReplica(t) \/ AskDir(t) \/ Introduce(t)
    BY <2>1, <2>2 DEF Establish, NextReplica, AskDir, Introduce, Ready, Typed, TypeOK
  <2>3. CASE GetCircuit(t) \/ OpenStream(t) \/ Lock(t) \/ NoMorePoints(t) \/ UnknownPoint(t)
             \/ Answered(t) \/ Timeout(t) \/ Begin(t) \/ Exchange(t)
    BY <2>1, <2>3 DEF GetCircuit, OpenStream, Lock, NoMorePoints, UnknownPoint, Answered,
                      Timeout, Begin, Exchange
  <2> QED BY <2>2, <2>3 DEF Request
<1>5. CASE Establish(t)
  <2>1. UNCHANGED <<read, made, listed, pending>> /\ circ[t] # c
        /\ \E s : point' = [point EXCEPT ![circ[t]] = s]
    BY <1>2, <1>5 DEF Establish, InLock
  <2>2. point'[c] = point[c]
    BY <1>1, <2>1 DEF Ready, Typed, TypeOK
  <2> QED BY <1>3, <1>4, <2>1, <2>2 DEF Apart
<1>6. CASE Introduce(t)
  <2>1. circ[t] # c /\ point' = point
        /\ \A p \in pending \cup pending' : p \notin pending \/ p \notin pending' =>
             p.circuit = circ[t]
    <3>1. circ[t] # c /\ point' = point
      BY <1>2, <1>6 DEF Introduce, InLock
    <3> QED BY <1>6, <3>1, IntroducedHere
  <2>2. read'[c] = read[c] /\ made'[c] = made[c] /\ listed'[c] = listed[c]
    <3>1. CASE UNCHANGED meeting
      BY <3>1
    <3>2. CASE /\ made' = [made EXCEPT ![circ[t]] = made[circ[t]] + 1]
               /\ listed' = [listed EXCEPT ![circ[t]] = listed[circ[t]] \cup {made[circ[t]] + 1}]
               /\ read' = [read EXCEPT ![circ[t]] = None]
      BY <1>1, <2>1, <3>2, Domains DEF Ready, Typed, TypeOK
    <3> QED BY <1>6, <3>1, <3>2 DEF Introduce
  <2> QED BY <1>3, <1>4, <2>1, <2>2 DEF Apart
<1>7. CASE GetCircuit(t) \/ OpenStream(t) \/ Lock(t) \/ NextReplica(t) \/ AskDir(t)
           \/ NoMorePoints(t) \/ UnknownPoint(t) \/ Answered(t) \/ Timeout(t) \/ Begin(t)
           \/ Exchange(t)
  <2>1. UNCHANGED <<point, read, made, listed, pending>>
    BY <1>7 DEF GetCircuit, OpenStream, Lock, NextReplica, AskDir, NoMorePoints, UnknownPoint,
                Answered, Timeout, Begin, Exchange
  <2> QED BY <1>3, <1>4, <2>1 DEF Apart
<1> QED BY <1>5, <1>6, <1>7 DEF Request

(* Before and after the next directory; Tried(n) is what n have cost.       *)
LEMMA PaidOn ==
  ASSUME NEW n \in 0..5, NEW f \in Nat, Tried(n) <= f
  PROVE  /\ Tried(n + 1) <= f + 1
         /\ Tried(n + 1) = Tried(n) => Tried(n + 1) <= f
<1>1. Tried(n) \in Nat /\ Tried(n + 1) \in Nat /\ Tried(n + 1) <= Tried(n) + 1
  BY DEF Tried
<1> QED BY <1>1

LEMMA FaultHere ==
  ASSUME TypeOK, NEW c \in Circuits, NEW kind \in Kinds, Fault(c, kind)
  PROVE  /\ faults'[c] = faults[c] + 1 /\ faults[c] \in Nat
         /\ kind \in hit'[c]
BY DEF TypeOK, Fault

LEMMA EstablishCourse ==
  ASSUME Ready, NEW t \in Threads, Establish(t), pc'[t] \in Searching
  PROVE  OnCourse(t)'
<1> USE DEF circuit, meeting, search, network, history
<1> DEFINE c == circ[t]
<1>1. /\ pc[t] = "establish" /\ UNCHANGED <<scene, circ, pending, faults>>
  BY DEF Establish
<1>2. c \in Circuits
  BY <1>1 DEF Ready, Typed, Placed
<1>3. point[c] = "open"
  <2>1. CASE point[c] # "open"
    <3>1. Raise(t, "CellTimeoutError")
      BY <2>1 DEF Establish, RaiseInLock
    <3> QED BY <3>1, RaiseTyped DEF Ready, Typed, Searching
  <2> QED BY <2>1
<1>4. /\ point' = [point EXCEPT ![c] = "established"]
      /\ todo' = [todo EXCEPT ![t] = <<>>] /\ replica' = [replica EXCEPT ![t] = 0]
      /\ asked' = [asked EXCEPT ![t] = 0] /\ Continue(t, "dirs")
  BY <1>3 DEF Establish
<1>5. /\ point'[c] = "established" /\ replica'[t] = 0 /\ asked'[t] = 0
      /\ todo'[t] = <<>> /\ pc'[t] = "dirs"
  BY <1>2, <1>4, ContinueTyped DEF Ready, Typed, TypeOK, Labels
<1>6. \A p \in pending : p.circuit # c
  BY <1>2, <1>3 DEF Ready, Extended, Joined
<1>7. 0 <= faults[c]
  BY <1>2 DEF Ready, Typed, TypeOK
<1>8. ToAsk(t)'
  BY <1>5 DEF ToAsk
<1>9. Quiet(circ[t])' /\ Paid(t, asked[t])'
  BY <1>1, <1>5, <1>6, <1>7, TriedIs DEF Quiet, Paid, Tried
<1> QED BY <1>5, <1>8, <1>9 DEF OnCourse

LEMMA ReplicaCourse ==
  ASSUME Ready, NEW t \in Threads, NextReplica(t), pc'[t] \in Searching, ~Cause(t)
  PROVE  OnCourse(t)'
<1> USE DEF circuit, meeting, search, network, history
<1> DEFINE c == circ[t]
           r == replica[t]
           all == Responsibles(DescriptorId(Auth(Want(t)), 0, r))
<1>1. /\ pc[t] = "dirs" /\ todo[t] = <<>>
      /\ UNCHANGED <<scene, circ, pending, point, faults, asked>>
  BY DEF NextReplica
<1>2. /\ c \in Circuits /\ period = 0 /\ ~Beyond(0) /\ OnCourse(t)
  BY <1>1, NoCause DEF InLock, Searching
<1>3. r < 2 /\ r \in 0..2
  <2>1. CASE ~(r < 2)
    <3>1. Raise(t, "Can't extend")
      BY <2>1 DEF NextReplica, RaiseInLock
    <3> QED BY <3>1, RaiseTyped DEF Ready, Typed, Searching
  <2> QED BY <2>1 DEF Ready, Typed, TypeOK
<1>4. r \in {0, 1}
  <2> HIDE DEF r
  <2> QED BY <1>3
<1>5. /\ todo' = [todo EXCEPT ![t] = all] /\ replica' = [replica EXCEPT ![t] = r + 1]
      /\ pc' = pc
  BY <1>2, <1>3 DEF NextReplica
<1>6. todo'[t] = all /\ replica'[t] = r + 1
  BY <1>5 DEF Ready, Typed, TypeOK
<1>7. Len(all) = (IF Beyond(r) THEN 0 ELSE 3) /\ all \in Seq(1..HsDirs)
  BY <1>4, DirectoriesNamed, ThreeDirectories
<1>8. asked[t] = 3 * r
  <2>1. CASE r = 0
    BY <1>2, <2>1 DEF OnCourse, ToAsk
  <2>2. CASE r = 1
    <3>1. asked[t] + Len(todo[t]) = 3 * r /\ asked[t] \in 0..6
      BY <1>2, <2>2 DEF OnCourse, ToAsk, Ready, Typed, TypeOK
    <3>2. Len(todo[t]) = 0
      BY <1>1
    <3> QED BY <2>2, <3>1, <3>2
  <2> QED BY <1>4, <2>1, <2>2
<1>9. /\ (Beyond(1) <=> Beyond(1)') /\ Auth(Want(t))' = Auth(Want(t))
      /\ Responsibles(DescriptorId(Auth(Want(t)), 0, replica[t] - 1))' = all
  <2>1. (Beyond(1) <=> Beyond(1)') /\ Auth(Want(t))' = Auth(Want(t))
    BY <1>1, SceneSame
  <2>2. (r + 1) - 1 = r
    BY <1>4
  <2>3. replica'[t] - 1 = r
    BY <1>6, <2>2
  <2>4. DescriptorId(Auth(Want(t)), 0, replica[t] - 1)' = DescriptorId(Auth(Want(t)), 0, r)
    BY <1>1, <2>1, <2>3 DEF DescriptorId
  <2>5. Responsibles(DescriptorId(Auth(Want(t)), 0, replica[t] - 1))' = all
    BY <2>4
  <2> QED BY <2>1, <2>5
<1>10. ToAsk(t)'
  <2>1. replica'[t] \in {1, 2} /\ replica'[t] # 0
    BY <1>4, <1>6
  <2>2. CASE r = 1 /\ Beyond(1)
    <3>1. all = <<>> /\ asked'[t] = 3
      BY <1>1, <1>7, <1>8, <2>2
    <3> QED BY <1>6, <1>9, <2>2, <3>1 DEF ToAsk
  <2>3. CASE ~(r = 1 /\ Beyond(1))
    <3>1. ~Beyond(r) /\ Len(all) = 3
      BY <1>2, <1>4, <1>7, <2>3
    <3>2. asked'[t] + Len(todo'[t]) = 3 * replica'[t]
      <4>1. asked'[t] = 3 * r /\ Len(todo'[t]) = 3 /\ replica'[t] = r + 1
        BY <1>1, <1>6, <1>8, <3>1
      <4> HIDE DEF r, all
      <4> QED BY <1>4, <4>1
    <3>3. \A i \in 1..Len(todo'[t]) : todo'[t][i] = all[3 - Len(todo'[t]) + i]
      <4>1. Len(todo'[t]) = 3 /\ todo'[t] = all
        BY <1>6, <3>1
      <4> HIDE DEF all
      <4> QED BY <4>1
    <3>4. ~(replica'[t] = 2 /\ Beyond(1)')
      BY <1>4, <1>6, <1>9, <2>3
    <3> HIDE DEF all
    <3> QED BY <1>9, <2>1, <3>2, <3>3, <3>4 DEF ToAsk
  <2> QED BY <2>2, <2>3
<1>11. Quiet(circ[t])' /\ Paid(t, asked[t])'
  BY <1>1, <1>2 DEF OnCourse, Quiet, Paid, Tried
<1> QED BY <1>1, <1>5, <1>10, <1>11 DEF OnCourse

LEMMA AskCourse ==
  ASSUME Ready, NEW t \in Threads, AskDir(t), pc'[t] \in Searching, ~Cause(t)
  PROVE  OnCourse(t)'
<1> USE DEF circuit, meeting, search, network, history
<1> DEFINE c == circ[t]
           a == asked[t]
           id == DescriptorId(Auth(Want(t)), period, IF asked[t] >= 3 THEN 1 ELSE 0)
           found == Holds(Head(todo[t]), Onion(Want(t)), id)
<1>1. /\ pc[t] = "dirs" /\ todo[t] # <<>>
      /\ UNCHANGED <<scene, circ, pending, point, replica>>
      /\ todo' = [todo EXCEPT ![t] = Tail(todo[t])] /\ asked' = [asked EXCEPT ![t] = a + 1]
  BY DEF AskDir
<1>2. /\ c \in Circuits /\ period = 0 /\ ~Beyond(0) /\ AuthFits(t) /\ OnCourse(t)
  BY <1>1, NoCause DEF InLock, Searching
<1>3. /\ todo'[t] = Tail(todo[t]) /\ asked'[t] = a + 1
      /\ todo[t] \in Seq(1..HsDirs) /\ faults[c] \in Nat
  BY <1>1, <1>2 DEF Ready, Typed, TypeOK
<1>4. a \in 0..5 /\ (found \/ Tried(a + 1) = Tried(a)) /\ Opens(Seal(Onion(Want(t))), Auth(Want(t)))
  BY <1>1, <1>2, NextAsked DEF Ready, OnCourse
<1>5. Tried(a) <= faults[c] /\ Quiet(c)
  BY <1>1, <1>2 DEF OnCourse, Paid
<1>6. ToAsk(t)'
  <2> DEFINE n == Len(todo[t])
             all == Responsibles(DescriptorId(Auth(Want(t)), 0, replica[t] - 1))
  <2>1. n \in Nat \ {0} /\ Len(todo'[t]) = n - 1 /\ \A i \in 1..n - 1 : todo'[t][i] = todo[t][i + 1]
    <3>1. n \in Nat \ {0} /\ Len(Tail(todo[t])) = n - 1
      BY <1>1, <1>3
    <3>2. \A i \in 1..n - 1 : Tail(todo[t])[i] = todo[t][i + 1]
      BY <1>1, <1>3
    <3> QED BY <1>3, <3>1, <3>2
  <2>2. replica[t] \in 0..2 /\ replica[t] # 0 /\ n + a <= 3 * replica[t]
    <3>1. replica[t] \in 0..2 /\ n + a <= 3 * replica[t]
      BY DEF Ready, Typed, TypeOK, Placed
    <3> HIDE DEF n, a
    <3> QED BY <1>4, <2>1, <3>1
  <2>3. replica[t] > 0
    BY <2>2
  <2>4. ~(replica[t] = 2 /\ Beyond(1))
    BY <1>1, <1>2, <2>3 DEF OnCourse, ToAsk
  <2>5. a + n = 3 * replica[t] /\ \A i \in 1..n : todo[t][i] = all[3 - n + i]
    BY <1>2, <2>3, <2>4 DEF OnCourse, ToAsk
  <2>6. asked'[t] + Len(todo'[t]) = 3 * replica[t]
    <3>1. asked'[t] = a + 1 /\ Len(todo'[t]) = n - 1 /\ a + n = 3 * replica[t] /\ n \in Nat
      BY <1>3, <2>1, <2>5
    <3>2. a \in Nat
      BY <1>4
    <3> HIDE DEF n, a
    <3> QED BY <3>1, <3>2
  <2>7. \A i \in 1..Len(todo'[t]) : todo'[t][i] = all[3 - Len(todo'[t]) + i]
    <3>1. ASSUME NEW i \in 1..n - 1 PROVE todo'[t][i] = all[3 - (n - 1) + i]
      <4> HIDE DEF n, all
      <4>1. i + 1 \in 1..n /\ 3 - n + (i + 1) = 3 - (n - 1) + i
        BY <2>1, <3>1
      <4> QED BY <2>1, <2>5, <4>1
    <3> HIDE DEF n, all
    <3> QED BY <2>1, <3>1
  <2>8. /\ (Beyond(1) <=> Beyond(1)') /\ replica'[t] = replica[t]
        /\ Responsibles(DescriptorId(Auth(Want(t)), 0, replica[t] - 1))' = all
    <3>1. (Beyond(1) <=> Beyond(1)') /\ replica'[t] = replica[t]
      BY <1>1, SceneSame
    <3>2. Responsibles(DescriptorId(Auth(Want(t)), 0, replica[t] - 1))' = all
      BY <1>1 DEF Responsibles, DescriptorId, Following, Fingerprint, Auth, Want, HostKey
    <3> QED BY <3>1, <3>2
  <2> HIDE DEF all, n, a
  <2> QED BY <2>2, <2>4, <2>6, <2>7, <2>8 DEF ToAsk
<1>7. Quiet(circ[t])' /\ circ'[t] = c
  BY <1>1, <1>5 DEF Quiet
<1>8. CASE NoFault /\ Continue(t, "intro") /\ points' = [points EXCEPT ![t] = Points]
  <2>1. pc'[t] = "intro" /\ points'[t] = Points /\ faults' = faults
    BY <1>8, ContinueTyped DEF Ready, Typed, TypeOK, Labels, NoFault
  <2>2. asked'[t] - 1 = a /\ asked'[t] > 0
    <3> HIDE DEF a
    <3> QED BY <1>3, <1>4
  <2>3. Paid(t, asked[t] - 1)'
    BY <1>5, <1>7, <2>1, <2>2 DEF Paid, Tried
  <2> QED BY <1>6, <1>7, <2>1, <2>2, <2>3 DEF OnCourse
<1>9. CASE ((NoFault /\ ~found) \/ Fault(c, "missing")) /\ Continue(t, "dirs")
  <2>1. pc'[t] = "dirs"
    BY <1>9, ContinueTyped DEF Ready, Typed, Labels
  <2>2. Tried(a + 1) <= faults'[c]
    <3>1. CASE NoFault /\ ~found
      <4>1. faults' = faults /\ Tried(a + 1) = Tried(a)
        BY <1>4, <3>1 DEF NoFault
      <4> QED BY <1>5, <4>1
    <3>2. CASE Fault(c, "missing")
      <4>1. faults'[c] = faults[c] + 1
        BY <1>2, <3>2, FaultHere DEF Ready, Typed, Kinds
      <4> HIDE DEF a
      <4> QED BY <1>3, <1>4, <1>5, <4>1, PaidOn
    <3> QED BY <1>9, <3>1, <3>2
  <2>3. Paid(t, asked[t])'
    BY <1>3, <1>7, <2>2 DEF Paid, Tried
  <2> QED BY <1>6, <1>7, <2>1, <2>3 DEF OnCourse
<1>10. ~ \E kind : RaiseInLock(t, kind)
  BY RaiseTyped DEF RaiseInLock, Ready, Typed, Searching
<1> QED BY <1>4, <1>8, <1>9, <1>10 DEF AskDir

LEMMA PointsCourse ==
  ASSUME Ready, NEW t \in Threads, NoMorePoints(t), ~Cause(t)
  PROVE  OnCourse(t)'
<1> USE DEF circuit, meeting, search, network, history
<1>1. /\ pc[t] = "intro" /\ points[t] = 0 /\ Continue(t, "dirs")
      /\ UNCHANGED <<scene, circ, pending, point, faults, asked, todo, replica>>
  BY DEF NoMorePoints
<1>2. OnCourse(t)
  BY <1>1, NoCause DEF InLock, Searching
<1>3. pc'[t] = "dirs"
  BY <1>1, ContinueTyped DEF Ready, Typed, Labels
<1>4. Quiet(circ[t]) /\ Paid(t, asked[t])
  BY <1>1, <1>2, HiddenServiceAssumption DEF OnCourse
<1>5. Quiet(circ[t])' /\ Paid(t, asked[t])'
  BY <1>1, <1>4 DEF Quiet, Paid, Tried
<1>6. ToAsk(t)'
  BY <1>1, <1>2, ToAskSame DEF OnCourse
<1> QED BY <1>3, <1>5, <1>6 DEF OnCourse

LEMMA IntroduceCourse ==
  ASSUME Ready, NEW t \in Threads, Introduce(t), ~Cause(t)
  PROVE  OnCourse(t)' \/ Cause(t)'
<1> USE DEF circuit, meeting, search, network, history
<1> DEFINE c == circ[t]
           n == made[c] + 1
           a == asked[t]
<1>1. /\ pc[t] = "intro"
      /\ UNCHANGED <<scene, circ, point, asked, todo, replica>>
  BY DEF Introduce
<1>2. /\ c \in Circuits /\ state[c] = "Connected" /\ OnCourse(t)
  BY <1>1, NoCause DEF InLock, Searching
<1>3. /\ made' = [made EXCEPT ![c] = n] /\ listed' = [listed EXCEPT ![c] = listed[c] \cup {n}]
      /\ read' = [read EXCEPT ![c] = None]
      /\ \/ Fault(c, "intro") /\ Continue(t, "intro") /\ UNCHANGED pending
         \/ Fault(c, "unanswered") /\ Continue(t, "wait") /\ UNCHANGED pending
         \/ /\ NoFault /\ Continue(t, "wait")
            /\ pending' = pending \cup
                 {[service |-> Onion(Want(t)), circuit |-> c, key |-> <<"x", n>>]}
         \/ Mix(c)
  BY <1>2 DEF Introduce
<1>4. /\ made'[c] = n /\ n \in listed'[c] /\ read'[c] = None
  <2>1. made'[c] = n /\ n \in listed'[c]
    BY <1>2, <1>3 DEF Ready, Typed, TypeOK
  <2>2. read'[c] = None
    BY <1>2, <1>3, Domains DEF Ready
  <2> QED BY <2>1, <2>2
<1>5. /\ Quiet(c) /\ a \in 0..6 /\ faults[c] \in Nat
      /\ \/ Tried(a) <= faults[c]
         \/ a > 0 /\ Tried(a - 1) <= faults[c]
  BY <1>1, <1>2 DEF OnCourse, Paid, Ready, Typed, TypeOK
<1>6. ToAsk(t)'
  BY <1>1, <1>2, ToAskSame DEF OnCourse
<1>7. ASSUME faults'[c] = faults[c] + 1 PROVE Paid(t, asked[t])'
  <2>1. Tried(a) <= faults[c] + 1
    <3> HIDE DEF a, c
    <3>1. CASE Tried(a) <= faults[c]
      <4>1. Tried(a) \in Nat
        BY <1>5, TriedIs
      <4> QED BY <1>5, <3>1, <4>1
    <3>2. CASE a > 0 /\ Tried(a - 1) <= faults[c]
      <4>1. a - 1 \in 0..5 /\ (a - 1) + 1 = a
        BY <1>5, <3>2
      <4>2. Tried((a - 1) + 1) <= faults[c] + 1
        BY <1>5, <3>2, <4>1, PaidOn
      <4> QED BY <4>1, <4>2
    <3> QED BY <1>5, <3>1, <3>2
  <2> QED BY <1>1, <1>7, <2>1 DEF Paid, Tried
<1>8. CASE Fault(c, "intro") /\ Continue(t, "intro") /\ UNCHANGED pending
  <2>1. pc'[t] = "intro"
    BY <1>8, ContinueTyped DEF Ready, Typed, Labels
  <2>2. Paid(t, asked[t])'
    BY <1>2, <1>7, <1>8, FaultHere DEF Ready, Typed, Kinds
  <2>3. Quiet(circ[t])'
    BY <1>1, <1>5, <1>8 DEF Quiet
  <2> QED BY <1>6, <2>1, <2>2, <2>3 DEF OnCourse
<1>9. CASE Fault(c, "unanswered") /\ Continue(t, "wait") /\ UNCHANGED pending
  <2>1. pc'[t] = "wait"
    BY <1>9, ContinueTyped DEF Ready, Typed, Labels
  <2>2. Paid(t, asked[t])'
    BY <1>2, <1>7, <1>9, FaultHere DEF Ready, Typed, Kinds
  <2>3. Quiet(circ[t])'
    BY <1>1, <1>5, <1>9 DEF Quiet
  <2>4. Waited(t)'
    BY <1>1, <1>4, <2>2, <2>3 DEF Waited
  <2> QED BY <1>6, <2>1, <2>4 DEF OnCourse
<1>10. CASE /\ NoFault /\ Continue(t, "wait")
            /\ pending' = pending \cup
                 {[service |-> Onion(Want(t)), circuit |-> c, key |-> <<"x", n>>]}
  <2>1. pc'[t] = "wait"
    BY <1>10, ContinueTyped DEF Ready, Typed, Labels
  <2>2. point'[c] = "established" /\ \A p \in pending : p.circuit # c
    BY <1>1, <1>5 DEF Quiet
  <2>3. /\ \E p \in pending' : p.circuit = c
        /\ \A p \in pending' : p.circuit = c => p.key = <<"x", made'[c]>>
    <3> DEFINE new == [service |-> Onion(Want(t)), circuit |-> c, key |-> <<"x", n>>]
    <3>1. new.circuit = c /\ new.key = <<"x", n>> /\ pending' = pending \cup {new}
      BY <1>10
    <3>2. made'[c] = n
      BY <1>4
    <3> HIDE DEF new, n
    <3> QED BY <2>2, <3>1, <3>2
  <2>4. Waited(t)'
    BY <1>1, <1>4, <2>2, <2>3 DEF Waited
  <2> QED BY <1>6, <2>1, <2>4 DEF OnCourse
<1>11. CASE Mix(c)
  <2>1. "mixed" \in hit'[c]
    BY <1>2, <1>11 DEF Mix, Ready, Typed, TypeOK
  <2> QED BY <1>1, <2>1 DEF Cause
<1> QED BY <1>3, <1>8, <1>9, <1>10, <1>11

(* The answer to the last introduction completes its handshake. *)
LEMMA AnswerCompletes ==
  ASSUME NEW x PROVE TapComplete(x, Answer(x)) # KeyAgreementError
<1>1. TapComplete(x, Answer(x)) = <<"kdf", Shared(x, <<"y", x>>)>>
  BY DEF TapComplete, Answer, TapReply, Checked, KdfTor
<1>2. Len(<<"kdf", Shared(x, <<"y", x>>)>>) = 2 /\ Len(<<"KeyAgreementError">>) = 1
  OBVIOUS
<1> QED BY <1>1, <1>2 DEF KeyAgreementError

LEMMA WaitCourse ==
  ASSUME Ready, NEW t \in Threads, Answered(t) \/ Timeout(t), pc'[t] \in Searching, ~Cause(t)
  PROVE  OnCourse(t)' \/ Cause(t)'
<1> USE DEF circuit, meeting, search, network, history
<1> DEFINE c == circ[t]
<1>1. /\ pc[t] = "wait"
      /\ UNCHANGED <<scene, circ, point, pending, asked, todo, replica>>
  BY DEF Answered, Timeout
<1>2. c \in Circuits /\ OnCourse(t)
  BY <1>1, NoCause DEF InLock, Searching
<1>3. Waited(t) /\ ToAsk(t)'
  BY <1>1, <1>2, ToAskSame DEF OnCourse
<1>4. ~Answered(t)
  <2> SUFFICES ASSUME Answered(t) PROVE FALSE
    OBVIOUS
  <2>1. read[c] # None
    BY DEF Answered
  <2>2. read[c] = Answer(<<"x", made[c]>>)
    BY <1>3, <2>1 DEF Waited
  <2>3. TapComplete(<<"x", made[c]>>, read[c]) # KeyAgreementError
    BY <2>2, AnswerCompletes
  <2>4. Continue(t, "begin")
    BY <2>3 DEF Answered
  <2> QED BY <2>4, ContinueTyped DEF Ready, Typed, Labels, Searching
<1>5. Timeout(t) /\ read[c] = None /\ Continue(t, "intro")
  BY <1>4 DEF Timeout
<1>6. CASE Fault(c, "late")
  <2>1. "late" \in hit'[c]
    BY <1>2, <1>6, FaultHere DEF Ready, Typed, Kinds
  <2> QED BY <1>1, <2>1 DEF Cause
<1>7. CASE Unanswered(c) /\ NoFault
  <2>1. Quiet(c) /\ Paid(t, asked[t])
    BY <1>3, <1>5, <1>7 DEF Waited, Unanswered
  <2>2. pc'[t] = "intro"
    BY <1>5, ContinueTyped DEF Ready, Typed, Labels
  <2>3. Quiet(circ[t])' /\ Paid(t, asked[t])'
    BY <1>1, <1>7, <2>1 DEF Quiet, Paid, Tried, NoFault
  <2> QED BY <1>3, <2>2, <2>3 DEF OnCourse
<1> QED BY <1>5, <1>6, <1>7 DEF Timeout

(* A thread's own step. *)
LEMMA OwnCourse ==
  ASSUME Ready, NEW t \in Threads, Request(t), pc'[t] \in Searching
  PROVE  Cause(t)' \/ OnCourse(t)'
<1>1. CASE Cause(t) /\ pc[t] \in Searching \cup {"establish"}
  <2>1. circ[t] # 0
    BY <1>1, CircuitsAre DEF Ready, Typed, Placed, Searching
  <2> QED BY <1>1, <2>1, CauseKept DEF Next
<1>2. CASE GetCircuit(t) \/ OpenStream(t) \/ Lock(t) \/ UnknownPoint(t) \/ Begin(t)
           \/ Exchange(t)
  <2>1. \/ \E label \in {"stream", "begin", "lock", "establish", "open", "done"} : Continue(t, label)
        \/ \E kind : Raise(t, kind)
    BY <1>2 DEF GetCircuit, OpenStream, Lock, UnknownPoint, RaiseInLock, Begin, Exchange
  <2>2. pc'[t] \notin Searching
    BY <2>1, ContinueTyped, RaiseTyped DEF Ready, Typed, Labels, Searching
  <2> QED BY <2>2
<1>3. CASE Establish(t) \/ NextReplica(t) \/ AskDir(t) \/ NoMorePoints(t) \/ Introduce(t)
           \/ Answered(t) \/ Timeout(t)
  <2>1. pc[t] \in Searching \cup {"establish"}
    BY <1>3 DEF Establish, NextReplica, AskDir, NoMorePoints, UnknownPoint, Introduce, Answered,
       Timeout,
                Searching
  <2> QED BY <1>1, <1>3, <2>1, EstablishCourse, ReplicaCourse, AskCourse, PointsCourse,
             IntroduceCourse, WaitCourse
<1> QED BY <1>2, <1>3 DEF Request

(* A service's answer is for the last introduction of the search, and is    *)
(* what the waiter reads.                                                   *)
LEMMA MeetCourse ==
  ASSUME Ready, NEW p \in pending, Meet(p), NEW u \in Threads, pc[u] \in Searching, OnCourse(u)
  PROVE  OnCourse(u)'
<1> USE DEF circuit, meeting, search, network, history
<1> DEFINE c == circ[u]
<1>1. /\ UNCHANGED <<scene, pc, circ, todo, replica, asked, points, made, faults>>
      /\ pending' = pending \ {p}
  BY DEF Meet
<1>2. c \in Circuits /\ Joined(c)
  BY DEF Ready, Typed, Placed, Searching, Extended
<1>3. ToAsk(u)'
  BY <1>1, ToAskSame DEF OnCourse
<1>4. CASE p.circuit # c
  <2>1. point'[c] = point[c] /\ read'[c] = read[c] /\ listed'[c] = listed[c]
    <3>1. CASE point[p.circuit] = "established"
      <4>1. /\ \E s : point' = [point EXCEPT ![p.circuit] = s]
            /\ read' = read \/ \E r : read' = [read EXCEPT ![p.circuit] = r]
            /\ \E l : listed' = [listed EXCEPT ![p.circuit] = l]
        BY <3>1 DEF Meet
      <4> QED BY <1>2, <1>4, <4>1, Domains DEF Ready, Typed, TypeOK
    <3>2. CASE point[p.circuit] # "established"
      BY <3>2 DEF Meet
    <3> QED BY <3>1, <3>2
  <2>2. Apart(u)
    BY <1>1, <1>4, <2>1 DEF Apart
  <2>3. Grows /\ TypeOK'
    BY StepGrows, TypedKept DEF Ready, Typed, Next
  <2> QED BY <1>2, <2>2, <2>3, ApartOnCourse DEF Ready
<1>5. CASE p.circuit = c
  <2>1. pc[u] = "wait"
    BY <1>5 DEF OnCourse, Quiet, Searching
  <2>2. CASE read[c] = None
    <3>1. /\ point[c] = "established" /\ made[c] \in listed[c] /\ p.key = <<"x", made[c]>>
      BY <1>5, <2>1, <2>2 DEF OnCourse, Waited, Quiet
    <3>2. read' = [read EXCEPT ![c] = Answer(<<"x", made[c]>>)]
      BY <1>5, <3>1 DEF Meet, Answer
    <3>3. read'[c] = Answer(<<"x", made'[c]>>)
      BY <1>1, <1>2, <3>2, Domains DEF Ready
    <3>4. Answer(<<"x", made[c]>>) \in Answers
      <4>1. made[c] \in Nat
        BY <1>2 DEF Ready, Typed, TypeOK
      <4> QED BY <4>1 DEF Answer, Answers, TapReply, KdfTor, Shared
    <3>5. read'[c] # None
      BY <1>1, <3>3, <3>4, AnswersAssumption
    <3>6. Waited(u)'
      BY <1>1, <3>3, <3>5 DEF Waited, Answer, TapReply, KdfTor, Shared
    <3> QED BY <1>1, <1>3, <2>1, <3>6 DEF OnCourse
  <2>3. CASE read[c] # None
    <3>1. read[c] = Answer(<<"x", made[c]>>) /\ point[c] # "established"
      BY <1>2, <2>1, <2>3 DEF OnCourse, Waited, Joined, Met
    <3>2. read' = read
      BY <1>5, <3>1 DEF Meet
    <3>3. Waited(u)'
      BY <1>1, <2>3, <3>1, <3>2 DEF Waited, Answer, TapReply, KdfTor, Shared
    <3> QED BY <1>1, <1>3, <2>1, <3>3 DEF OnCourse
  <2> QED BY <2>2, <2>3
<1> QED BY <1>4, <1>5

LEMMA CoursesKept ==
  ASSUME Ready, [Next]_vars, NEW u \in Threads, pc'[u] \in Searching
  PROVE  Cause(u)' \/ OnCourse(u)'
<1> USE DEF info, circuit, meeting, search, network, history
<1>1. Grows /\ TypeOK'
  BY StepGrows, TypedKept DEF Ready, Typed
<1>2. pc[u] \in Searching => circ[u] \in Circuits
  BY DEF Ready, Typed, Placed, Searching
<1>3. pc[u] \in Searching => Cause(u)' \/ OnCourse(u)
  BY <1>2, CauseKept, CircuitsAre DEF Ready, Causes
<1>4. ASSUME NEW t \in Threads, Request(t) PROVE Cause(u)' \/ OnCourse(u)'
  <2>1. CASE u = t
    BY <1>4, <2>1, OwnCourse
  <2>2. CASE u # t
    <3>1. pc[u] \in Searching
      <4>1. \/ pc' = pc \/ \E label \in Labels : Continue(t, label)
            \/ \E kind : Raise(t, kind)
        BY <1>4 DEF Request, GetCircuit, OpenStream, Lock, Establish, NextReplica, AskDir,
               NoMorePoints, UnknownPoint, Introduce, Answered, Timeout, Begin, Exchange, Labels,
               RaiseInLock
      <4> QED BY <2>2, <4>1, ContinueTyped, RaiseTyped DEF Ready, Typed
    <3>2. Apart(u)
      BY <1>4, <2>2, <3>1, RequestApart
    <3> QED BY <1>1, <1>2, <1>3, <3>1, <3>2, ApartOnCourse DEF Ready
  <2> QED BY <2>1, <2>2
<1>5. ASSUME NEW p \in pending, Meet(p) PROVE Cause(u)' \/ OnCourse(u)'
  <2>1. pc' = pc
    BY <1>5 DEF Meet
  <2> QED BY <1>3, <1>5, <2>1, MeetCourse
<1>6. ASSUME NEW d \in Circuits, Ended(d) PROVE Cause(u)' \/ OnCourse(u)'
  <2>1. /\ UNCHANGED <<pc, circ, todo, replica, asked, points, pending, made, listed, read>>
        /\ point' = [point EXCEPT ![d] = "gone"] /\ Fault(d, "ended")
    BY <1>6 DEF Ended
  <2>2. CASE d = circ[u]
    <3>1. "ended" \in hit'[d]
      BY <2>1, FaultHere DEF Ready, Typed, Kinds
    <3> QED BY <2>1, <2>2, <3>1 DEF Cause
  <2>3. CASE d # circ[u]
    <3>1. point'[circ[u]] = point[circ[u]]
      BY <1>2, <2>1, <2>3 DEF Ready, Typed, TypeOK
    <3>2. Apart(u)
      BY <2>1, <3>1 DEF Apart
    <3> QED BY <1>1, <1>2, <1>3, <2>1, <3>2, ApartOnCourse DEF Ready
  <2> QED BY <2>2, <2>3
<1>7. CASE NextPeriod \/ UNCHANGED vars
  <2>1. UNCHANGED <<pc, circ, todo, replica, asked, points, pending, made, listed, read, point>>
    BY <1>7 DEF NextPeriod, vars
  <2>2. Apart(u)
    BY <2>1 DEF Apart
  <2> QED BY <1>1, <1>2, <1>3, <2>1, <2>2, ApartOnCourse DEF Ready
<1> QED BY <1>4, <1>5, <1>6, <1>7 DEF Next

LEMMA CausesInit == Init => Causes
<1> SUFFICES ASSUME Init PROVE Causes
  OBVIOUS
<1>1. /\ \A t \in Threads : error[t] = "none" /\ circ[t] = 0 /\ pc[t] = "ready"
      /\ failed = {} /\ \A c \in Circuits : state[c] = "Connected" /\ associated[c] = None
  BY DEF Init
<1> QED BY <1>1 DEF Causes, FailsForCause, Searching

LEMMA CausesKept == Ready /\ [Next]_vars => Causes'
<1> SUFFICES ASSUME Ready, [Next]_vars PROVE Causes'
  OBVIOUS
<1> USE DEF info, circuit, meeting, search, network, history
<1>1. scene' = scene /\ Grows
  BY StepGrows DEF Ready, Grows
<1>2. \A u \in Threads : /\ Cause(u) /\ (circ[u] # 0 \/ pc[u] = "failed") => Cause(u)'
                         /\ circ[u] # 0 => circ'[u] = circ[u]
                         /\ IsOnion(Want(u))' = IsOnion(Want(u))
                         /\ Onion(Want(u))' = Onion(Want(u))
  BY <1>1, CauseKept, CircuitKept, WantSame DEF Ready, Causes
<1>3. \/ UNCHANGED <<error, failed>>
      \/ \E t \in Threads :
           /\ Cause(t)' /\ \A u \in Threads \ {t} : error'[u] = error[u]
           /\ \/ failed' = failed
              \/ /\ failed' = failed \cup {circ[t]} /\ IsOnion(Want(t))
                 /\ circ[t] \in Circuits
  <2>1. ASSUME NEW t \in Threads, Request(t)
        PROVE  /\ \A u \in Threads \ {t} : error'[u] = error[u]
               /\ \/ failed' = failed
                  \/ /\ failed' = failed \cup {circ[t]} /\ IsOnion(Want(t))
                     /\ circ[t] \in Circuits
    <3>1. error' = error \/ \E kind : error' = [error EXCEPT ![t] = kind]
      BY <2>1 DEF Request, GetCircuit, OpenStream, Lock, Establish, NextReplica, AskDir,
             NoMorePoints, UnknownPoint, Introduce, Answered, Timeout, Begin, Exchange, RaiseInLock,
             Raise,
             Continue
    <3>2. \/ failed' = failed
          \/ failed' = failed \cup {circ[t]} /\ pc[t] \in InLock
      BY <2>1 DEF Request, GetCircuit, OpenStream, Lock, Establish, NextReplica, AskDir,
             NoMorePoints, UnknownPoint, Introduce, Answered, Timeout, Begin, Exchange, RaiseInLock,
             InLock
    <3>3. pc[t] \in InLock => IsOnion(Want(t)) /\ circ[t] \in Circuits
      BY DEF Ready, Onions, Typed, Placed, InLock
    <3>4. DOMAIN error = Threads
      BY DEF Ready, Typed, TypeOK
    <3>5. \A u \in Threads \ {t} : error'[u] = error[u]
      BY <3>1, <3>4
    <3> QED BY <3>2, <3>3, <3>5
  <2>2. CASE (\E p \in pending : Meet(p)) \/ (\E c \in Circuits : Ended(c)) \/ NextPeriod
             \/ UNCHANGED vars
    BY <2>2 DEF Meet, Ended, NextPeriod, vars
  <2> QED BY <2>1, <2>2, RaisesForCause DEF Next
<1>4. FailsForCause'
  <2>1. ASSUME NEW u \in Threads, error'[u] # "none" PROVE Cause(u)'
    BY <1>2, <1>3, <2>1 DEF Ready, Causes, FailsForCause
  <2> QED BY <2>1 DEF FailsForCause
<1>5. ASSUME NEW c \in failed'
      PROVE  \E u \in Threads : circ'[u] = c /\ IsOnion(Want(u))' /\ Cause(u)'
  <2>1. CASE c \in failed
    <3>1. PICK u \in Threads : circ[u] = c /\ IsOnion(Want(u)) /\ Cause(u)
      BY <2>1 DEF Ready, Causes
    <3>2. c # 0
      BY <2>1, CircuitsAre DEF Ready, Typed, TypeOK
    <3> QED BY <1>2, <3>1, <3>2
  <2>2. CASE c \notin failed
    <3>1. PICK t \in Threads : /\ Cause(t)' /\ c = circ[t] /\ IsOnion(Want(t))
                               /\ circ[t] \in Circuits
      BY <1>3, <1>5, <2>2
    <3>2. circ[t] # 0
      BY <3>1, CircuitsAre
    <3> QED BY <1>2, <3>1, <3>2
  <2> QED BY <2>1, <2>2
<1>6. failed \subseteq failed'
  BY <1>3
<1>7. ASSUME NEW c \in Circuits, state'[c] # "Connected"
      PROVE  "ended" \in hit'[c] \/ c \in failed'
  <2>1. CASE state[c] # "Connected"
    <3>1. hit[c] \subseteq hit'[c]
      BY <1>1 DEF Grows
    <3> QED BY <1>6, <2>1, <3>1 DEF Ready, Causes
  <2>2. CASE state[c] = "Connected"
    <3>1. state'[c] # state[c]
      BY <1>7, <2>2
    <3> QED BY <1>6, <3>1, FallsForCause DEF Ready
  <2> QED BY <2>1, <2>2
<1>8. ASSUME NEW c \in Circuits, associated'[c] # None
      PROVE  \E u \in Threads : IsOnion(Want(u))' /\ associated'[c] = Onion(Want(u))'
  <2>1. CASE associated'[c] = associated[c]
    BY <1>2, <1>8, <2>1 DEF Ready, Causes
  <2>2. CASE associated'[c] # associated[c]
    <3>1. ~ \/ (\E p \in pending : Meet(p)) \/ (\E d \in Circuits : Ended(d)) \/ NextPeriod
            \/ UNCHANGED vars
      BY <2>2 DEF Meet, Ended, NextPeriod, vars
    <3>2. PICK t \in Threads : Request(t)
      BY <3>1 DEF Next
    <3>3. Answered(t)
      BY <2>2, <3>2 DEF Request, GetCircuit, OpenStream, Lock, Establish, NextReplica, AskDir,
             NoMorePoints, UnknownPoint, Introduce, Timeout, Begin, Exchange
    <3>4. pc[t] = "wait" /\ (\/ associated' = associated
                             \/ associated' = [associated EXCEPT ![circ[t]] = Onion(Want(t))])
      BY <3>3 DEF Answered
    <3>5. associated'[c] = Onion(Want(t))
      BY <2>2, <3>4, Domains DEF Ready
    <3>6. IsOnion(Want(t))
      BY <3>4 DEF Ready, Onions, InLock
    <3> QED BY <1>2, <3>5, <3>6
  <2> QED BY <2>1, <2>2
<1>9. ASSUME scene'.front = "socks", NEW u \in Threads PROVE circ'[u] \in {0, 1}
  <2>1. scene.front = "socks" /\ circ[u] \in {0, 1}
    BY <1>1, <1>9 DEF Ready, Causes
  <2>2. CASE circ' = circ
    BY <2>1, <2>2
  <2>3. ASSUME NEW t \in Threads, GetCircuit(t) PROVE circ'[u] \in {0, 1}
    <3>1. circ' = circ \/ circ' = [circ EXCEPT ![t] = 1]
      BY <2>1, <2>3 DEF GetCircuit
    <3> QED BY <2>1, <3>1 DEF Ready, Typed, TypeOK
  <2>4. ASSUME NEW t \in Threads, Request(t), ~GetCircuit(t) PROVE circ' = circ
    BY <2>4 DEF Request, OpenStream, Lock, Establish, NextReplica, AskDir, NoMorePoints,
       UnknownPoint,
                Introduce, Answered, Timeout, Begin, Exchange
  <2>5. CASE (\E p \in pending : Meet(p)) \/ (\E c \in Circuits : Ended(c)) \/ NextPeriod
             \/ UNCHANGED vars
    BY <2>2, <2>5 DEF Meet, Ended, NextPeriod, vars
  <2> QED BY <2>2, <2>3, <2>4, <2>5 DEF Next
<1>10. ASSUME NEW u \in Threads, error'[u] # "none", circ'[u] = 0 PROVE pc'[u] = "failed"
  <2>1. circ[u] = 0
    BY <1>2, <1>10
  <2>2. ASSUME NEW t \in Threads, Request(t) PROVE pc'[u] = "failed"
    <3>1. /\ \A v \in Threads \ {t} : error'[v] = error[v]
          /\ \A v \in Threads \ {t} : pc'[v] = pc[v]
      <4>1. \/ \E label \in Labels : Continue(t, label)
            \/ \E kind : Raise(t, kind)
            \/ UNCHANGED <<pc, error>>
        BY <2>2 DEF Request, GetCircuit, OpenStream, Lock, Establish, NextReplica, AskDir,
               NoMorePoints, UnknownPoint, Introduce, Answered, Timeout, Begin, Exchange, Labels,
               RaiseInLock
      <4>2. error' = error \/ \E kind : error' = [error EXCEPT ![t] = kind]
        BY <4>1 DEF Continue, Raise
      <4>3. DOMAIN error = Threads
        BY DEF Ready, Typed, TypeOK
      <4>4. \A v \in Threads \ {t} : error'[v] = error[v]
        BY <4>2, <4>3
      <4> QED BY <4>1, <4>4, ContinueTyped, RaiseTyped DEF Ready, Typed
    <3>2. CASE u # t
      BY <1>10, <2>1, <3>1, <3>2 DEF Ready, Causes
    <3>3. CASE u = t
      <4>1. pc[u] \in {"ready", "failed"}
        BY <2>1, CircuitsAre DEF Ready, Typed, Placed
      <4>2. GetCircuit(u) /\ pc[u] = "ready"
        BY <2>2, <3>3, <4>1 DEF Request, GetCircuit, OpenStream, Lock, Establish, NextReplica,
               AskDir, NoMorePoints, UnknownPoint, Introduce, Answered, Timeout, Begin, Exchange
      <4>3. error[u] = "none"
        BY <2>1, <4>2 DEF Ready, Causes
      <4>4. Raise(u, "CircuitExtendError")
        BY <1>10, <4>2, <4>3 DEF GetCircuit, Continue
      <4>5. ~Again(u, "CircuitExtendError")
        BY DEF Again
      <4>6. pc' = [pc EXCEPT ![u] = "failed"]
        BY <4>4, <4>5 DEF Raise, Goto
      <4> QED BY <4>6 DEF Ready, Typed, TypeOK
    <3> QED BY <3>2, <3>3
  <2>3. CASE (\E p \in pending : Meet(p)) \/ (\E c \in Circuits : Ended(c)) \/ NextPeriod
             \/ UNCHANGED vars
    <3>1. UNCHANGED <<pc, error>>
      BY <2>3 DEF Meet, Ended, NextPeriod, vars
    <3> QED BY <1>10, <2>1, <3>1 DEF Ready, Causes
  <2> QED BY <2>2, <2>3 DEF Next
<1>11. \A u \in Threads : pc'[u] \in Searching => Cause(u)' \/ OnCourse(u)'
  BY CoursesKept
<1> QED BY <1>4, <1>5, <1>7, <1>8, <1>9, <1>10, <1>11 DEF Causes

LEMMA AlwaysReady == Spec => []Ready
<1>1. Init => Ready
  BY TypedInit, LocksInit, OnionsInit, ExtendedInit, EstablishedInit, OwnedInit, CausesInit
     DEF Ready
<1>2. Ready /\ [Next]_vars => Ready'
  BY TypedKept, LocksKept, OnionsKept, ExtendedKept, EstablishedKept, OwnedKept, CausesKept
     DEF Ready
<1> QED BY <1>1, <1>2, PTL DEF Spec

(***************************************************************************)
(* A request to a hidden service fails only for a cause it cannot survive,  *)
(* for any number of threads, failures, directories and introduction points *)
(* and any retries: extend_to_hidden goes on from a missing descriptor or a *)
(* point that fails or stays silent to the next, and takes three of them on *)
(* a circuit (one if no directory is behind the second replica's id).       *)
(***************************************************************************)
THEOREM RequestsFailForCause == Spec => []FailsForCause
<1>1. Ready => FailsForCause
  BY DEF Ready, Causes
<1> QED BY <1>1, AlwaysReady, PTL
=============================================================================
