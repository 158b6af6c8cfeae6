---------------------------- MODULE HiddenService ----------------------------
(***************************************************************************)
(* Requests over Tor, from the front ends (torpy/http, torpy/cli/socks.py)  *)
(* to a circuit that ends at a hidden service (torpy/hiddenservice.py,      *)
(* TorCircuit.extend_to_hidden).                                            *)
(*                                                                         *)
(* Each thread serves one request: it takes the circuit of its host from    *)
(* TorInfo (or uses the one circuit of the SOCKS server), opens a stream    *)
(* and, for an onion host, extends the circuit: establish a rendezvous, ask *)
(* the responsible directories for the descriptor one after the other, and  *)
(* at each introduction point of it wait for the service's RENDEZVOUS2.     *)
(* Circuits and streams themselves are the modules Circuits and TorStream;  *)
(* here a circuit is its end and what the rendezvous point knows of it.     *)
(***************************************************************************)
EXTENDS Naturals, Sequences, FiniteSets, SequencesExt, KeyAgreement

CONSTANTS
  Threads,    \* the threads that serve requests
  Scenes,     \* what differs between runs: fields below, at Names
  HsDirs,     \* the number of hidden service directories in the consensus
  Points,     \* the introduction points of a service
  Retries,    \* the attempts at a request, of a front end that retries
  MaxFaults,  \* bound: failures of relays, directories and services, for each scene
  None

ASSUME HiddenServiceAssumption ==
  /\ IsFiniteSet(Threads) /\ Threads # {} /\ None \notin Threads
  /\ HsDirs \in Nat /\ HsDirs >= 3
  /\ Points \in Nat \ {0} /\ Retries \in Nat \ {0} /\ MaxFaults \in [Scenes -> Nat]

VARIABLES
  scene,       \* the front end, its requests and the services
  period,      \* the time period descriptors are made for
  (* TorInfo and the guard *)
  cached,      \* TorInfo._circuits
  circuits,    \* how many of Circuits have been created
  state,       \* TorCircuit._state
  associated,  \* TorCircuit._associated_hs: the service, or None
  hop,         \* the nodes added behind the last relay: <<service, keys>>
  lock,        \* who holds TorCircuit._extend_lock, or None
  listed,      \* the waiters for RENDEZVOUS2 on the handler list
  read,        \* the answer the last of them has read, or None
  made,        \* how many introductions were made for the circuit
  streams,     \* the streams in StreamsList
  side,        \* threads with an introduction circuit open
  (* the threads *)
  pc, tries, circ, todo, replica, asked, points, error,
  (* the rendezvous points and the services *)
  point,       \* "open", "established", "joined" or "gone"
  joined,      \* the service and the keys it has, when joined
  pending,     \* introductions that services have not answered
  (* history *)
  faults, hit, failed, sent

info == <<cached, circuits>>
circuit == <<state, associated, hop, lock, streams>>
meeting == <<listed, read, made>>
search == <<todo, replica, asked, points>>
network == <<point, joined, pending>>
history == <<faults, hit, failed, sent>>
vars == <<scene, period, info, circuit, meeting, side, pc, tries, circ, search, error,
          network, history>>

-----------------------------------------------------------------------------
(* Names *)

(* A host is its labels; hostname_key takes the last two, or the only one. *)
HostKeyFirst(host) == <<Head(host)>>   \* mutant: the first instead
HostKey(host) == IF Len(host) < 2 THEN host ELSE SubSeq(host, Len(host) - 1, Len(host))

IsOnion(host) == Len(host) >= 2 /\ Last(host) = "onion"

(* normalize_onion *)
Onion(host) == host[Len(host) - 1]

Want(t) == scene.want[t]

ASSUME HostsAssumption ==
  \A s \in Scenes : \A t \in Threads : s.want[t] \in Seq(STRING \ {None, "exit", "nobody"})

Keys == {HostKey(scene.want[t]) : t \in Threads} \cup {HostKeyFirst(scene.want[t]) : t \in Threads}

Circuits == 1..Cardinality(Threads)

Streams == Threads \X (1..Retries)

(***************************************************************************)
(* A scene: which front end ("requests", "urlopener" or "socks"); the host  *)
(* each thread asks for; auth_data, from host keys to [cookie, type]; how   *)
(* each service seals its introduction points, in the same form; where the  *)
(* descriptor ids of each period and replica fall between the directories'  *)
(* fingerprints; the services of version 3; and whether the services have   *)
(* introduction points in common.                                           *)
(***************************************************************************)
No == 0
Basic == 1
Stealth == 2
Open == [cookie |-> None, type |-> No]

Seal(service) == scene.seal[service]

(* _prepare_address, HS_NO_AUTH being Open. *)
Auth(host) ==
  IF HostKey(host) \in DOMAIN scene.auth THEN scene.auth[HostKey(host)] ELSE Open

(* HiddenService.__init__: which addresses and auth data it accepts. *)
Acceptable(host) ==
  /\ Onion(host) \notin scene.version3
  /\ (Auth(host).cookie # None) = (Auth(host).type # No)

-----------------------------------------------------------------------------
(* Directories *)

(***************************************************************************)
(* get_descriptor_id and _get_secret_id: the id hashes the period, the      *)
(* replica and, for stealth, the cookie; "at" is its place on the ring.     *)
(***************************************************************************)
DescriptorId(auth, time, rep) ==
  [at |-> scene.place[time][rep], time |-> time, replica |-> rep,
   cookie |-> IF auth.type = Stealth THEN auth.cookie ELSE None]

(* Directories are numbered in the order of their fingerprints, 2, 4, 6... *)
Fingerprint(dir) == 2 * dir

(* The n directories after a place on the ring that is before directory i.  *)
Following(i, n) == [j \in 1..n |-> ((i + j - 2) % HsDirs) + 1]

(***************************************************************************)
(* get_responsibles, for one replica: the three after the first one behind  *)
(* the id, and none when no fingerprint is larger than the id.              *)
(***************************************************************************)
Responsibles(id) ==
  LET after == {d \in 1..HsDirs : Fingerprint(d) > id.at}
      i == CHOOSE d \in after : \A e \in after : d <= e
  IN IF after = {} THEN <<>> ELSE Following(i + 1, 3)

(* Where the service puts its descriptor: on the first three behind the id. *)
Holders(id) ==
  LET after == {d \in 1..HsDirs : Fingerprint(d) > id.at}
      i == IF after = {} THEN 1 ELSE CHOOSE d \in after : \A e \in after : d <= e
  IN ToSet(Following(i, 3))

(* The directory has the descriptor the client's id names. *)
Holds(dir, service, id) ==
  /\ id = DescriptorId(Seal(service), id.time, id.replica)
  /\ dir \in Holders(id)

(***************************************************************************)
(* _get_intro_points and EncPointsBuffer: a basic client is found by a hash *)
(* of its cookie in the list of clients; the wrong key leaves bytes that do *)
(* not start as introduction points do.  Otherwise an exception is raised.  *)
(***************************************************************************)
Opens(seal, auth) == seal.type = No \/ auth.cookie = seal.cookie

-----------------------------------------------------------------------------
(* The states *)

(* What a service may answer to an introduction; None is none of it. *)
Answers ==
  LET x == {"x"} \X Nat IN
  [key : {"y"} \X x, auth : {"sha1"} \X SUBSET (x \cup ({"y"} \X x))]

ASSUME AnswersAssumption == None \notin Answers

Kinds == {"create", "missing", "dir", "intro", "unanswered", "late", "ended", "unknown", "mixed"}

TypeOK ==
  /\ scene \in Scenes /\ period \in 0..1
  /\ cached \in [Keys -> Circuits \cup {0}] /\ circuits \in Circuits \cup {0}
  /\ state \in [Circuits -> {"Connected", "Truncated"}]
  /\ lock \in [Circuits -> Threads \cup {None}]
  /\ {DOMAIN associated, DOMAIN hop, DOMAIN read, DOMAIN joined} = {Circuits}
  /\ made \in [Circuits -> Nat] /\ listed \in [Circuits -> SUBSET Nat]
  /\ \A c \in Circuits : listed[c] \subseteq 1..made[c]
  /\ streams \subseteq Streams /\ side \subseteq Threads
  /\ pc \in [Threads -> {"ready", "stream", "lock", "establish", "dirs", "intro", "wait",
                         "begin", "open", "done", "failed"}]
  /\ tries \in [Threads -> 1..Retries] /\ circ \in [Threads -> Circuits \cup {0}]
  /\ DOMAIN error = Threads /\ todo \in [Threads -> Seq(1..HsDirs)]
  /\ \A t \in Threads : Len(todo[t]) <= 3
  /\ replica \in [Threads -> 0..2] /\ asked \in [Threads -> 0..6]
  /\ points \in [Threads -> 0..Points]
  /\ point \in [Circuits -> {"open", "established", "joined", "gone"}]
  /\ faults \in [Circuits \cup {0} -> Nat] /\ hit \in [Circuits \cup {0} -> SUBSET Kinds]
  /\ failed \subseteq Circuits

(* The SOCKS server starts with its circuit, the HTTP front ends without. *)
Init ==
  /\ scene \in Scenes /\ period = 0
  /\ cached = [k \in Keys |-> 0]
  /\ circuits = IF scene.front = "socks" THEN 1 ELSE 0
  /\ state = [c \in Circuits |-> "Connected"]
  /\ associated = [c \in Circuits |-> None]
  /\ hop = [c \in Circuits |-> <<>>]
  /\ lock = [c \in Circuits |-> None]
  /\ listed = [c \in Circuits |-> {}]
  /\ read = [c \in Circuits |-> None]
  /\ made = [c \in Circuits |-> 0]
  /\ streams = {} /\ side = {}
  /\ pc = [t \in Threads |-> "ready"]
  /\ tries = [t \in Threads |-> 1]
  /\ circ = [t \in Threads |-> 0]
  /\ todo = [t \in Threads |-> <<>>]
  /\ replica = [t \in Threads |-> 0]
  /\ asked = [t \in Threads |-> 0]
  /\ points = [t \in Threads |-> 0]
  /\ error = [t \in Threads |-> "none"]
  /\ point = [c \in Circuits |-> "open"]
  /\ joined = [c \in Circuits |-> None]
  /\ pending = {} /\ faults = [c \in Circuits \cup {0} |-> 0] /\ failed = {} /\ sent = {}
  /\ hit = [c \in Circuits \cup {0} |-> {}]

Goto(t, label) == pc' = [pc EXCEPT ![t] = label]

Fault(c, kind) ==
  /\ SumFunction(faults) < MaxFaults[scene]
  /\ faults' = [faults EXCEPT ![c] = @ + 1]
  /\ hit' = [hit EXCEPT ![c] = @ \cup {kind}]

NoFault == UNCHANGED <<faults, hit>>

(***************************************************************************)
(* An exception leaves the request.  urllib3 tries again after any failure  *)
(* to connect, which the adapter wraps, but not when there is no circuit    *)
(* for the connection; RetryOpenerDirector after a timeout of the stream; a *)
(* SOCKS client is let go.  A stream that failed to connect was assigned to *)
(* nobody, and stays in StreamsList.                                        *)
(***************************************************************************)
Again(t, kind) ==
  /\ tries[t] < Retries
  /\ \/ scene.front = "requests" /\ kind # "CircuitExtendError"
     \/ scene.front = "urlopener" /\ kind = "TimeoutError"

Raise(t, kind) ==
  /\ error' = [error EXCEPT ![t] = kind]
  /\ Goto(t, IF Again(t, kind) THEN "ready" ELSE "failed")
  /\ tries' = [tries EXCEPT ![t] = @ + (IF Again(t, kind) THEN 1 ELSE 0)]

Continue(t, label) == Goto(t, label) /\ UNCHANGED <<tries, error>>

(* Mutant: the lock is kept. *)
RaiseInLockKept(t, kind) ==
  /\ Raise(t, kind)
  /\ failed' = failed \cup {circ[t]}
  /\ UNCHANGED lock

(* The same inside extend_to_hidden, which leaves the lock. *)
RaiseInLock(t, kind) ==
  /\ Raise(t, kind)
  /\ lock' = [lock EXCEPT ![circ[t]] = None]
  /\ failed' = failed \cup {circ[t]}

-----------------------------------------------------------------------------
(* A request *)

(***************************************************************************)
(* get_circuit: under TorInfo._lock, the circuit of the host's key whatever *)
(* has become of it, or a new one; SOCKS threads all have the first.        *)
(***************************************************************************)
GetCircuit(t) ==
  LET key == HostKey(Want(t))
      old == IF scene.front = "socks" THEN 1 ELSE cached[key]
  IN /\ pc[t] = "ready"
     /\ \/ /\ old # 0
           /\ circ' = [circ EXCEPT ![t] = old]
           /\ Continue(t, "stream") /\ NoFault /\ UNCHANGED info
        \/ /\ old = 0
           /\ circuits' = circuits + 1
           /\ cached' = [cached EXCEPT ![key] = circuits']
           /\ circ' = [circ EXCEPT ![t] = circuits']
           /\ Continue(t, "stream") /\ NoFault
        \/ /\ old = 0
           /\ Fault(0, "create")
           /\ Raise(t, "CircuitExtendError") /\ UNCHANGED <<info, circ>>
     /\ UNCHANGED <<scene, period, circuit, meeting, side, search, network, failed, sent>>

(* create_stream and TorStream.connect, up to extend_to_hidden or _connect. *)
OpenStream(t) ==
  /\ pc[t] = "stream"
  /\ IF state[circ[t]] # "Connected"
       THEN Raise(t, "AssertionError") /\ UNCHANGED streams
       ELSE /\ streams' = streams \cup {<<t, tries[t]>>}
            /\ IF ~IsOnion(Want(t)) THEN Continue(t, "begin")
               ELSE IF Acceptable(Want(t)) THEN Continue(t, "lock")
               ELSE Raise(t, "RuntimeError")
  /\ UNCHANGED <<scene, period, info, state, associated, hop, lock, meeting, side, circ,
                 search, network, history>>

(* Mutant: whether the circuit is associated is asked without the lock. *)
LockUnchecked(t) ==
  LET c == circ[t]
  IN /\ pc[t] = "lock"
     /\ IF associated[c] = None
          THEN lock' = [lock EXCEPT ![c] = t] /\ Continue(t, "establish")
          ELSE /\ UNCHANGED lock
               /\ IF associated[c] = Onion(Want(t)) THEN Continue(t, "begin")
                  ELSE Raise(t, "Exception")
     /\ UNCHANGED <<scene, period, info, state, associated, hop, streams, meeting, side,
                    circ, search, network, history>>

(* extend_to_hidden: one at a time, and one service for a circuit.  That    *)
(* the circuit is connected has been asked in OpenStream.                   *)
Lock(t) ==
  LET c == circ[t]
  IN /\ pc[t] = "lock"
     /\ lock[c] = None
     /\ IF associated[c] = None
          THEN lock' = [lock EXCEPT ![c] = t] /\ Continue(t, "establish")
          ELSE /\ UNCHANGED lock
               /\ IF associated[c] = Onion(Want(t)) THEN Continue(t, "begin")
                  ELSE Raise(t, "Exception")
     /\ UNCHANGED <<scene, period, info, state, associated, hop, streams, meeting, side,
                    circ, search, network, history>>

(***************************************************************************)
(* _rendezvous_establish with a new cookie.  A relay takes one for each     *)
(* circuit: it closes a circuit that establishes again, which the client    *)
(* learns from a TRUNCATED, and its wait ends with a timeout.               *)
(***************************************************************************)
Establish(t) ==
  LET c == circ[t]
  IN /\ pc[t] = "establish"
     /\ IF point[c] = "open"
          THEN /\ point' = [point EXCEPT ![c] = "established"]
               /\ todo' = [todo EXCEPT ![t] = <<>>]
               /\ replica' = [replica EXCEPT ![t] = 0]
               /\ asked' = [asked EXCEPT ![t] = 0]
               /\ Continue(t, "dirs")
               /\ UNCHANGED <<state, lock, failed>>
          ELSE /\ point' = [point EXCEPT ![c] = "gone"]
               /\ state' = [state EXCEPT ![c] = "Truncated"]
               /\ RaiseInLock(t, "CellTimeoutError")
               /\ UNCHANGED <<todo, replica, asked>>
     /\ UNCHANGED <<scene, period, info, associated, hop, streams, meeting, side, circ,
                    points, joined, pending, faults, hit, sent>>

-----------------------------------------------------------------------------
(* extend_to_hidden: the directories *)

(* get_responsibles goes on to the next replica, or there is none. *)
NextReplica(t) ==
  /\ pc[t] = "dirs" /\ todo[t] = <<>>
  /\ IF replica[t] < 2
       THEN /\ todo' = [todo EXCEPT ![t] =
                 Responsibles(DescriptorId(Auth(Want(t)), period, replica[t]))]
            /\ replica' = [replica EXCEPT ![t] = @ + 1]
            /\ UNCHANGED <<pc, tries, error, lock, failed>>
       ELSE RaiseInLock(t, "Can't extend") /\ UNCHANGED <<todo, replica>>
  /\ UNCHANGED <<scene, period, info, state, associated, hop, streams, meeting, side, circ,
                 asked, points, network, faults, hit, sent>>

(***************************************************************************)
(* get_responsibles_dir and get_introductions: the next directory, asked    *)
(* over a circuit of its own for the id of the replica its position in the  *)
(* whole list gives.  Without the descriptor the next one is asked; any     *)
(* other failure is not caught.                                             *)
(***************************************************************************)
AskDir(t) ==
  LET c == circ[t]
      service == Onion(Want(t))
      auth == Auth(Want(t))
      id == DescriptorId(auth, period, IF asked[t] >= 3 THEN 1 ELSE 0)
      found == Holds(Head(todo[t]), service, id)
  IN /\ pc[t] = "dirs" /\ todo[t] # <<>>
     /\ todo' = [todo EXCEPT ![t] = Tail(@)]
     /\ asked' = [asked EXCEPT ![t] = @ + 1]
     /\ \/ /\ found /\ Opens(Seal(service), auth) /\ NoFault
           /\ points' = [points EXCEPT ![t] = Points]
           /\ Continue(t, "intro") /\ UNCHANGED <<lock, failed>>
        \/ /\ found /\ ~Opens(Seal(service), auth) /\ NoFault
           /\ RaiseInLock(t, "Exception") /\ UNCHANGED points
        \/ /\ ~found /\ NoFault
           /\ Continue(t, "dirs") /\ UNCHANGED <<points, lock, failed>>
        \/ /\ found /\ Fault(c, "missing")
           /\ Continue(t, "dirs") /\ UNCHANGED <<points, lock, failed>>
        \/ /\ Fault(c, "dir")
           /\ RaiseInLock(t, "Exception") /\ UNCHANGED points
     /\ UNCHANGED <<scene, period, info, state, associated, hop, streams, meeting, side,
                    circ, replica, network, sent>>

-----------------------------------------------------------------------------
(* extend_to_hidden: the introduction points *)

(* Mutant: the failure of its introduction points ends the search. *)
NoMorePointsGiveUp(t) ==
  /\ pc[t] = "intro" /\ points[t] = 0
  /\ RaiseInLock(t, "Can't extend")
  /\ UNCHANGED <<scene, period, info, state, associated, hop, streams, meeting, side, circ,
                 search, network, faults, hit, sent>>

NoMorePoints(t) ==
  /\ pc[t] = "intro" /\ points[t] = 0
  /\ Continue(t, "dirs")
  /\ UNCHANGED <<scene, period, info, circuit, meeting, side, circ, search, network, history>>

(***************************************************************************)
(* _info_to_router: a point that is not in the consensus raises inside the  *)
(* generator of the points, where nothing catches it (a RuntimeError since  *)
(* Python 3.7), and ends the search.                                        *)
(***************************************************************************)
UnknownPoint(t) ==
  /\ pc[t] = "intro" /\ points[t] > 0
  /\ Fault(circ[t], "unknown") /\ RaiseInLock(t, "RuntimeError")
  /\ UNCHANGED <<scene, period, info, state, associated, hop, streams, meeting, side, circ,
                 search, network, sent>>

(***************************************************************************)
(* It writes the service's key into the Router of the consensus, which all  *)
(* searches share, and INTRODUCE1 reads it there after a circuit has been   *)
(* made: what u writes in between is what t's introduction is sealed for.   *)
(***************************************************************************)
Rewritten(t, u) ==
  /\ scene.shared /\ Onion(Want(u)) # Onion(Want(t))
  /\ pc[u] = "intro" /\ points[u] > 0

Mix(c) == hit' = [hit EXCEPT ![c] = @ \cup {"mixed"}] /\ UNCHANGED faults

(***************************************************************************)
(* IntroductionPoint.connect up to its wait: a waiter on the circuit, a     *)
(* circuit to the introduction point by ntor, INTRODUCE1 with half a TAP    *)
(* handshake.  Whatever goes wrong, the next point is tried; a waiter left  *)
(* by an exception stays on the list.  A relay that has changed its onion   *)
(* key fails the handshake; what the acknowledgement says is not read.  An  *)
(* introduction with another service's key goes to that service, or to      *)
(* nobody if only one of the two places in the cell has it (cells.py).      *)
(***************************************************************************)
Introduce(t) ==
  LET c == circ[t]
      n == made[c] + 1
      router == [id |-> "point", onion |-> "key"]
      skin == NtorSkin(router, "x")
      Created(onion) == NtorComplete(router, "x", NtorReply(skin, "y", onion)) # KeyAgreementError
      To(u) == [service |-> Onion(Want(u)), circuit |-> c, key |-> <<"x", n>>]
  IN /\ pc[t] = "intro" /\ points[t] > 0
     /\ points' = [points EXCEPT ![t] = @ - 1]
     /\ IF state[c] # "Connected"
          THEN NoFault /\ Continue(t, "intro") /\ UNCHANGED <<meeting, side, pending>>
          ELSE /\ made' = [made EXCEPT ![c] = n]
               /\ listed' = [listed EXCEPT ![c] = @ \cup {n}]
               /\ read' = [read EXCEPT ![c] = None]
               /\ \/ /\ ~Created("key2") /\ Fault(c, "intro")
                     /\ Continue(t, "intro") /\ UNCHANGED <<side, pending>>
                  \/ /\ Created("key") /\ Fault(c, "unanswered")
                     /\ side' = side \cup {t}
                     /\ Continue(t, "wait") /\ UNCHANGED pending
                  \/ /\ Created("key") /\ NoFault
                     /\ side' = side \cup {t}
                     /\ pending' = pending \cup {To(t)}
                     /\ Continue(t, "wait")
                  \/ /\ Created("key")
                     /\ Mix(c)
                     /\ side' = side \cup {t}
                     /\ \E u \in Threads : Rewritten(t, u) /\ pending' \in {pending, pending \cup {To(u)}}
                     /\ Continue(t, "wait")
     /\ UNCHANGED <<scene, period, info, circuit, circ, todo, replica, asked, point, joined,
                    failed, sent>>

(***************************************************************************)
(* The service takes an introduction to the rendezvous point, which joins   *)
(* the first and refuses the others.  The receiver hands the RENDEZVOUS2 to *)
(* every waiter on the list.                                                *)
(***************************************************************************)
Meet(p) ==
  LET c == p.circuit
      mine == <<"y", p.key>>
  IN /\ p \in pending
     /\ pending' = pending \ {p}
     /\ IF point[c] = "established"
          THEN /\ point' = [point EXCEPT ![c] = "joined"]
               /\ joined' = [joined EXCEPT ![c] =
                    <<p.service, KdfTor(Shared(p.key, mine)).material>>]
               /\ read' = IF made[c] \in listed[c]
                            THEN [read EXCEPT ![c] = TapReply(p.key, mine)] ELSE read
               /\ listed' = [listed EXCEPT ![c] = {}]
          ELSE UNCHANGED <<point, joined, read, listed>>
     /\ UNCHANGED <<scene, period, info, circuit, made, side, pc, tries, circ, search, error,
                    history>>

(* The wait is over: the handshake is completed with what came. *)
Answered(t) ==
  LET c == circ[t]
      keys == TapComplete(<<"x", made[c]>>, read[c])
  IN /\ pc[t] = "wait" /\ read[c] # None
     /\ side' = side \ {t}
     /\ IF keys = KeyAgreementError
          THEN Continue(t, "intro") /\ UNCHANGED <<hop, associated, lock>>
          ELSE /\ hop' = [hop EXCEPT ![c] = Append(@, <<Onion(Want(t)), keys>>)]
               /\ associated' = [associated EXCEPT ![c] = Onion(Want(t))]
               /\ lock' = [lock EXCEPT ![c] = None]
               /\ Continue(t, "begin")
     /\ UNCHANGED <<scene, period, info, state, streams, meeting, circ, search, network,
                    history>>

(* An introduction that will not be answered, or is not yet. *)
Unanswered(c) == ~\E p \in pending : p.circuit = c /\ p.key = <<"x", made[c]>>

(* No answer in ten seconds: the next introduction point, the same cookie. *)
Timeout(t) ==
  LET c == circ[t]
  IN /\ pc[t] = "wait" /\ read[c] = None
     /\ side' = side \ {t}
     /\ Continue(t, "intro")
     /\ \/ Unanswered(c) /\ NoFault
        \/ ~Unanswered(c) /\ Fault(c, "late")
     /\ UNCHANGED <<scene, period, info, circuit, meeting, circ, search, network, failed, sent>>

-----------------------------------------------------------------------------
(* The stream *)

(***************************************************************************)
(* A relay cell is encrypted for every node the circuit has now, so the     *)
(* last of them gets it: the exit, or the service that has the same keys.   *)
(***************************************************************************)
Reaches(c) ==
  IF hop[c] = <<>> THEN "exit"
  ELSE IF joined[c][2] = Last(hop[c])[2] THEN joined[c][1] ELSE "nobody"

Wanted(t) == IF IsOnion(Want(t)) THEN Onion(Want(t)) ELSE "exit"

(***************************************************************************)
(* _connect: BEGIN, and CONNECTED, END or nothing in answer.  An END does   *)
(* not change the state of a stream that is connecting, so it too is a      *)
(* timeout.  A service that is not the one wanted may let the stream in.    *)
(***************************************************************************)
Begin(t) ==
  LET c == circ[t]
      reached == state[c] = "Connected" /\ Reaches(c) # "nobody"
  IN /\ pc[t] = "begin"
     /\ sent' = sent \cup {<<t, Reaches(c)>>}
     /\ \/ reached /\ Continue(t, "open")
        \/ ~(reached /\ Reaches(c) = Wanted(t)) /\ Raise(t, "TimeoutError")
     /\ UNCHANGED <<scene, period, info, circuit, meeting, side, circ, search, network,
                    faults, hit, failed>>

(***************************************************************************)
(* The request, and its response, after which the stream is closed.  While  *)
(* none comes the thread waits, for ever: neither SOCKS nor, unless its     *)
(* user asks for one, a request over HTTP has a time limit for reading, and *)
(* TRUNCATED does not close the streams of a circuit.                       *)
(***************************************************************************)
Exchange(t) ==
  LET c == circ[t]
      reached == state[c] = "Connected" /\ Reaches(c) # "nobody"
  IN /\ pc[t] = "open"
     /\ sent' = sent \cup {<<t, Reaches(c)>>}
     /\ \/ reached /\ streams' = streams \ {<<t, tries[t]>>} /\ Continue(t, "done")
        \/ ~(reached /\ Reaches(c) = Wanted(t)) /\ Continue(t, "open") /\ UNCHANGED streams
     /\ UNCHANGED <<scene, period, info, state, associated, hop, lock, meeting, side, circ,
                    search, network, faults, hit, failed>>

-----------------------------------------------------------------------------
(* The world *)

(* A relay of the circuit ends it. *)
Ended(c) ==
  /\ c <= circuits /\ state[c] = "Connected"
  /\ Fault(c, "ended")
  /\ state' = [state EXCEPT ![c] = "Truncated"]
  /\ point' = [point EXCEPT ![c] = "gone"]
  /\ UNCHANGED <<scene, period, info, associated, hop, lock, streams, meeting, side, pc,
                 tries, circ, search, error, joined, pending, failed, sent>>

(* A day ends; services have put up the descriptors of the next. *)
NextPeriod ==
  /\ period = 0
  /\ period' = 1
  /\ UNCHANGED <<scene, info, circuit, meeting, side, pc, tries, circ, search, error,
                 network, history>>

Request(t) ==
  \/ GetCircuit(t) \/ OpenStream(t) \/ Lock(t) \/ Establish(t)
  \/ NextReplica(t) \/ AskDir(t) \/ NoMorePoints(t) \/ UnknownPoint(t)
  \/ Introduce(t) \/ Answered(t) \/ Timeout(t) \/ Begin(t) \/ Exchange(t)

Next ==
  \/ \E t \in Threads : Request(t)
  \/ \E p \in pending : Meet(p)
  \/ \E c \in Circuits : Ended(c)
  \/ NextPeriod

(* Threads run, and a service deals with its introductions in the end. *)
Fairness ==
  /\ \A t \in Threads : WF_vars(Request(t))
  /\ WF_vars(\E p \in pending : Meet(p))

Spec == Init /\ [][Next]_vars
FairSpec == Spec /\ Fairness

-----------------------------------------------------------------------------
(* Properties *)

(* An introduction of the circuit was sealed for another service. *)
Mixed(c) == "mixed" \in hit[c]

(***************************************************************************)
(* A circuit that is extended has the keys of the service the rendezvous    *)
(* point joined it with: a RENDEZVOUS2 that answers an earlier introduction *)
(* is not taken for the last one's.  And that is the service it was         *)
(* extended to, unless the key in a shared Router was overwritten.          *)
(***************************************************************************)
KeysAgree ==
  \A c \in Circuits :
    hop[c] # <<>> => /\ hop[c] = <<<<associated[c], joined[c][2]>>>>
                     /\ joined[c][1] = associated[c] \/ Mixed(c)

(***************************************************************************)
(* A circuit is not asked twice to establish a rendezvous, which would end  *)
(* it, unless an extension of it has failed: threads that want the same     *)
(* service at the same time share the first one's extension.                *)
(***************************************************************************)
EstablishesOnce ==
  [][\A c \in Circuits :
       state[c] # state'[c] => c \in failed \/ "ended" \in hit'[c]]_vars

(* The auth data of a request are what the service's descriptor asks for. *)
AuthFits(t) ==
  LET seal == Seal(Onion(Want(t))) auth == Auth(Want(t))
  IN IF seal.type = No THEN auth.type # Stealth ELSE auth = seal

(* No directory is behind the id of the replica. *)
Beyond(rep) == \A d \in 1..HsDirs : ~(Fingerprint(d) > scene.place[0][rep])

(***************************************************************************)
(* How many failures a search survives by going on to the next: of the      *)
(* directories it asks two have the descriptor of each replica, none when   *)
(* the id is behind the last directory.                                     *)
(***************************************************************************)
Survived == IF Beyond(1) THEN 1 ELSE 3

(***************************************************************************)
(* What a request cannot survive: on its circuit an answer that comes after *)
(* its timeout, a directory that fails, an introduction point that is not   *)
(* in the consensus, a shared Router's key overwritten by another search,   *)
(* or its end; that there is none; a                                        *)
(* SOCKS circuit shared with another host; the change of the period, the    *)
(* wrong auth data, the id of the first replica behind the last directory;  *)
(* and more failures on its circuit than a search survives.                 *)
(***************************************************************************)
Cause(t) ==
  \/ hit[circ[t]] \cap {"create", "dir", "late", "ended", "unknown", "mixed"} # {}
  \/ scene.front = "socks" /\ \E u \in Threads : HostKey(Want(u)) # HostKey(Want(t))
  \/ /\ IsOnion(Want(t))
     /\ \/ ~Acceptable(Want(t)) \/ ~AuthFits(t) \/ period = 1
        \/ Beyond(0) \/ faults[circ[t]] > Survived

(***************************************************************************)
(* A request fails only for such a cause: missing descriptors, introduction *)
(* points that fail or do not answer are survived by going on to the next,  *)
(* as long as one directory is left that has the descriptor.                *)
(***************************************************************************)
FailsForCause == \A t \in Threads : error[t] # "none" => Cause(t)

(***************************************************************************)
(* Over HTTP, what a stream sends reaches the host it was opened for or     *)
(* nobody, never another service and never the exit with an onion request:  *)
(* circuits are not shared between host keys.  Unless, again, searches for  *)
(* two services overwrote the key in one Router.                            *)
(***************************************************************************)
StreamsReachTheirHost ==
  scene.front # "socks" =>
    \A s \in sent : s[2] \in {Wanted(s[1]), "nobody"} \/ Mixed(circ[s[1]])

(***************************************************************************)
(* Every request ends or gets as far as an open stream, even when several   *)
(* wait for the lock of one circuit and its extensions fail one after the   *)
(* other.  From there on it waits for its response without a limit.         *)
(***************************************************************************)
RequestsSettle ==
  \A t \in Threads : <>(pc[t] \in {"open", "done", "failed"})
=============================================================================
