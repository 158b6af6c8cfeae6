------------------------------- MODULE Circuits -------------------------------
(***************************************************************************)
(* How a circuit is made and destroyed (torpy/guard.py, torpy/circuit.py).  *)
(* The user's thread creates a circuit at the guard and extends it hop by   *)
(* hop: each request puts a Waiter on the circuit's handler lists and waits *)
(* for the answer or a timeout; create_circuit tries again with a new       *)
(* circuit.  The receiver's thread takes the guard's cells in their order,  *)
(* hands answers to waiters and obeys DESTROY.                              *)
(*                                                                         *)
(* Both threads change the handler lists and both destroy circuits; what a  *)
(* thread does between two steps here is invisible to the other.  The       *)
(* _state_lock is a variable because create holds it while it waits.  A     *)
(* write to the guard's TLS connection may raise, which ends a request or a *)
(* destroy half way.                                                       *)
(* Streams (module TorStream), cryptography and the choice of routers are   *)
(* left out; what a relay answers is well formed.                           *)
(***************************************************************************)
EXTENDS Naturals, Sequences, FiniteSets

CONSTANTS
  Tries,   \* the attempts of create_circuit; each makes one circuit
  Hops     \* the nodes of a circuit

\* A circuit of one node is for the directory, and is not extended.
ASSUME CircuitsAssumption == Tries \in Nat \ {0} /\ Hops \in Nat \ {0, 1}

VARIABLES
  (* the guard and its circuits *)
  circuits,    \* the identifiers in CircuitsList
  state,       \* TorCircuit._state
  state_lock,  \* who holds TorCircuit._state_lock
  subscribed,  \* whether _on_truncated is on the handler list
  nodes,       \* the length of _circuit_nodes
  listed,      \* the waiters on handler lists: <<circuit, cell type, request>>
  answer,      \* Waiter._read_cell of every request
  (* the threads *)
  upc, cur,    \* the user: where he is, and the circuit of this attempt
  turn,        \* which cell type of his waiter he unsubscribes
  got, err,    \* the cell his wait returned; why the attempt failed
  rpc, rcell,  \* the receiver: where it is, and the cell it handles
  rwaiter,     \* the request whose waiter it has called
  kept,        \* history: the circuits whose destroy was cut short
  (* the relays *)
  cells,       \* cells under way to the receiver: <<type, circuit>>
  asked, path, \* requests that were sent; nodes that were added
  peer         \* what has become of the circuit at the relays

guardVars == <<circuits, state, state_lock, subscribed, nodes>>
waiters == <<listed, answer>>
user == <<upc, cur, turn, got, err>>
receiver == <<rpc, rcell, rwaiter>>
relays == <<asked, path, peer>>
vars == <<guardVars, waiters, user, receiver, kept, cells, relays>>

Ids == 1..Tries

\* The CREATE is request 0, the EXTEND of a circuit with k nodes request k.
Requests == 0..(Hops - 1)
Answers == {"CREATED", "EXTENDED", "TRUNCATED"}
Cell == (Answers \cup {"DESTROY"}) \X Ids

\* What a request waits for, in the order it is unsubscribed.
Awaited(w) == IF w = 0 THEN <<"CREATED">> ELSE <<"EXTENDED", "TRUNCATED">>

Types ==
  /\ circuits \subseteq Ids
  /\ state \in [Ids -> {"Unknown", "Connecting", "Connected", "Truncated", "Destroyed"}]
  /\ state_lock \in [Ids -> {"free", "user", "receiver"}]
  /\ subscribed \in [Ids -> BOOLEAN]
  /\ nodes \in [Ids -> 0..Hops]
  /\ listed \subseteq Ids \X Answers \X Requests
  /\ answer \in [Ids -> [Requests -> Answers \cup {"none"}]]
  /\ upc \in {"start", "create", "waiting", "check", "remove", "accept", "connect",
              "build", "returned", "close", "destroy", "unmap", "raised", "closed"}
  /\ cur \in Ids \cup {0}
  /\ turn \in {1, 2}
  /\ got \in Answers \cup {"none"}
  /\ err \in {"none", "CellTimeoutError", "CircuitExtendError", "AssertionError",
              "ValueError", "OSError"}
  /\ rpc \in {"idle", "handle", "deliver", "remove", "close", "destroy", "unmap"}
  /\ rcell \in Cell
  /\ rwaiter \in Requests
  /\ cells \in Seq(Cell)
  /\ asked \in [Ids -> 0..Hops]
  /\ path \in [Ids -> 0..Hops]
  /\ peer \in [Ids -> {"alive", "truncated", "gone"}]

TypeOK == Types /\ kept \subseteq Ids

(* The guard is connected; create_circuit is called. *)
Init ==
  /\ circuits = {}
  /\ state = [c \in Ids |-> "Unknown"]
  /\ state_lock = [c \in Ids |-> "free"]
  /\ subscribed = [c \in Ids |-> FALSE]
  /\ nodes = [c \in Ids |-> 0]
  /\ listed = {}
  /\ answer = [c \in Ids |-> [w \in Requests |-> "none"]]
  /\ upc = "start" /\ cur = 0 /\ turn = 1 /\ got = "none" /\ err = "none"
  /\ rpc = "idle" /\ rcell = <<"DESTROY", 1>> /\ rwaiter = 0
  /\ kept = {}
  /\ cells = <<>>
  /\ asked = [c \in Ids |-> 0]
  /\ path = [c \in Ids |-> 0]
  /\ peer = [c \in Ids |-> "alive"]

-----------------------------------------------------------------------------
(* destroy_circuit, by the user (send_destroy) or, on a DESTROY, the receiver *)

PcOf(who) == IF who = "user" THEN upc ELSE rpc

CircuitOf(who) == IF who = "user" THEN cur ELSE rcell[2]

GotoOf(who, label) ==
  IF who = "user" THEN upc' = label /\ UNCHANGED rpc ELSE rpc' = label /\ UNCHANGED upc

(***************************************************************************)
(* After an attempt: create_circuit is retried on the two errors @retry     *)
(* names, and raises any other; without an error the user has closed.       *)
(***************************************************************************)
AfterClose ==
  IF err = "none" THEN "closed"
  ELSE IF err \in {"CellTimeoutError", "CircuitExtendError"} /\ cur < Tries
    THEN "start" ELSE "raised"

BeginDestroy(who) ==
  /\ PcOf(who) = "close"
  /\ LET c == CircuitOf(who)
     IN /\ state_lock[c] = "free"
        /\ IF state[c] = "Destroyed"
             THEN GotoOf(who, "unmap") /\ UNCHANGED <<state_lock, peer>>
             ELSE /\ state_lock' = [state_lock EXCEPT ![c] = who]
                  /\ peer' = IF who = "user" /\ state[c] = "Connected"
                               THEN [peer EXCEPT ![c] = "gone"] ELSE peer
                  /\ GotoOf(who, "destroy")
  /\ UNCHANGED <<circuits, state, subscribed, nodes, waiters, cur, turn, got, err,
                 rcell, rwaiter, cells, asked, path>>

(***************************************************************************)
(* close_all_streams (if there may be streams) or the DESTROY raises: the   *)
(* lock is left, but neither the state nor the list changes.  The receiver  *)
(* logs the exception; the user gets it, even instead of the one that made  *)
(* create_circuit close, and nothing is tried again.                        *)
(***************************************************************************)
DestroyRaises(who) ==
  /\ PcOf(who) = "close"
  /\ LET c == CircuitOf(who)
     IN /\ state_lock[c] = "free"
        /\ state[c] = "Connected"
        /\ who = "receiver" => nodes[c] = Hops
        /\ kept' = kept \cup {c}
  /\ GotoOf(who, IF who = "user" THEN "raised" ELSE "idle")
  /\ err' = IF who = "user" THEN "OSError" ELSE err
  /\ UNCHANGED <<guardVars, waiters, cur, turn, got, rcell, rwaiter, cells, relays>>

(* Mutant: the lock is kept. *)
EndDestroyLocked(who) ==
  /\ PcOf(who) = "destroy"
  /\ state' = [state EXCEPT ![CircuitOf(who)] = "Destroyed"]
  /\ GotoOf(who, "unmap")
  /\ UNCHANGED <<circuits, state_lock, subscribed, nodes, waiters, cur, turn, got, err,
                 rcell, rwaiter, cells, relays>>

EndDestroy(who) ==
  /\ PcOf(who) = "destroy"
  /\ state' = [state EXCEPT ![CircuitOf(who)] = "Destroyed"]
  /\ state_lock' = [state_lock EXCEPT ![CircuitOf(who)] = "free"]
  /\ GotoOf(who, "unmap")
  /\ UNCHANGED <<circuits, subscribed, nodes, waiters, cur, turn, got, err, rcell,
                 rwaiter, cells, relays>>

Unmap(who) ==
  /\ PcOf(who) = "unmap"
  /\ circuits' = circuits \ {CircuitOf(who)}
  /\ GotoOf(who, IF who = "user" THEN AfterClose ELSE "idle")
  /\ UNCHANGED <<state, state_lock, subscribed, nodes, waiters, cur, turn, got, err,
                 rcell, rwaiter, cells, relays>>

Destroy(who) == BeginDestroy(who) \/ EndDestroy(who) \/ Unmap(who)

-----------------------------------------------------------------------------
(* The user's thread *)

UserKeeps == UNCHANGED <<receiver, cells, path, peer>>

Release(c) ==
  state_lock' = [state_lock EXCEPT ![c] = IF @ = "user" THEN "free" ELSE @]

(* Mutant: the circuit of a failed attempt is not closed. *)
FailLeaving(reason) ==
  /\ err' = reason
  /\ upc' = IF cur < Tries THEN "start" ELSE "raised"
  /\ Release(cur)

(* An exception leaves create, and its lock; create_circuit closes. *)
Fail(reason) ==
  /\ err' = reason
  /\ upc' = "close"
  /\ Release(cur)

(* send_wait, send_relay_wait: a waiter is listed, the request is sent. *)
Request(w) ==
  /\ listed' = listed \cup {<<cur, Awaited(w)[i], w>> : i \in DOMAIN Awaited(w)}
  /\ asked' = [asked EXCEPT ![cur] = w + 1]
  /\ upc' = "waiting"

NewCircuit ==
  /\ upc = "start"
  /\ cur' = cur + 1
  /\ circuits' = circuits \cup {cur + 1}
  /\ err' = "none"
  /\ upc' = "create"
  /\ UNCHANGED <<state, state_lock, subscribed, nodes, waiters, turn, got, asked>>
  /\ UserKeeps

(* Mutant: the lock is not held while the answer is waited for. *)
BeginCreateUnlocked ==
  /\ upc = "create"
  /\ state' = [state EXCEPT ![cur] = "Connecting"]
  /\ Request(0)
  /\ UNCHANGED <<circuits, state_lock, subscribed, nodes, answer, cur, turn, got, err>>
  /\ UserKeeps

BeginCreate ==
  /\ upc = "create"
  /\ state_lock[cur] = "free"
  /\ state_lock' = [state_lock EXCEPT ![cur] = "user"]
  /\ state' = [state EXCEPT ![cur] = "Connecting"]
  /\ Request(0)
  /\ UNCHANGED <<circuits, subscribed, nodes, answer, cur, turn, got, err>>
  /\ UserKeeps

(* Waiter.get *)
Answered ==
  /\ upc = "waiting"
  /\ answer[cur][nodes[cur]] # "none"
  /\ got' = answer[cur][nodes[cur]]
  /\ turn' = 1
  /\ upc' = "check"
  /\ UNCHANGED <<guardVars, waiters, cur, err, asked>>
  /\ UserKeeps

(* The timeout leaves the waiter on the lists, and so does a write that     *)
(* raised, whether or not the relay has got the request.                    *)
Unanswered ==
  /\ upc = "waiting"
  /\ answer[cur][nodes[cur]] = "none"
  /\ Fail("CellTimeoutError") \/ Fail("OSError")
  /\ UNCHANGED <<circuits, state, subscribed, nodes, waiters, cur, turn, got, asked>>
  /\ UserKeeps

(***************************************************************************)
(* unsubscribe_for, a cell type at a time: "if handler in handlers", and    *)
(* then "handlers.remove(handler)", which the receiver may have done since. *)
(***************************************************************************)
MyWaiter == <<cur, Awaited(nodes[cur])[turn], nodes[cur]>>

GoOn ==
  IF turn < Len(Awaited(nodes[cur]))
    THEN turn' = turn + 1 /\ upc' = "check"
    ELSE upc' = "accept" /\ UNCHANGED turn

Check ==
  /\ upc = "check"
  /\ IF MyWaiter \in listed THEN upc' = "remove" /\ UNCHANGED turn ELSE GoOn
  /\ UNCHANGED <<guardVars, waiters, cur, got, err, asked>>
  /\ UserKeeps

Remove ==
  /\ upc = "remove"
  /\ IF MyWaiter \in listed
       THEN GoOn /\ UNCHANGED <<err, state_lock>>
       ELSE Fail("ValueError") /\ UNCHANGED turn
  /\ listed' = listed \ {MyWaiter}
  /\ UNCHANGED <<circuits, state, subscribed, nodes, answer, cur, got, asked>>
  /\ UserKeeps

(* The rest of create: the first node, the handlers, and then the state. *)
AcceptCreated ==
  /\ upc = "accept" /\ nodes[cur] = 0
  /\ nodes' = [nodes EXCEPT ![cur] = 1]
  /\ subscribed' = [subscribed EXCEPT ![cur] = TRUE]
  /\ upc' = "connect"
  /\ UNCHANGED <<circuits, state, state_lock, waiters, cur, turn, got, err, asked>>
  /\ UserKeeps

Connect ==
  /\ upc = "connect"
  /\ state' = [state EXCEPT ![cur] = "Connected"]
  /\ Release(cur)
  /\ upc' = "build"
  /\ UNCHANGED <<circuits, subscribed, nodes, waiters, cur, turn, got, err, asked>>
  /\ UserKeeps

(* Mutant: a TRUNCATED is not told from an EXTENDED. *)
AcceptAnyAnswer ==
  /\ upc = "accept" /\ nodes[cur] > 0
  /\ nodes' = [nodes EXCEPT ![cur] = @ + 1]
  /\ upc' = "build"
  /\ UNCHANGED <<circuits, state, state_lock, subscribed, waiters, cur, turn, got, err,
                 asked>>
  /\ UserKeeps

AcceptExtended ==
  /\ upc = "accept" /\ nodes[cur] > 0
  /\ IF got = "TRUNCATED"
       THEN Fail("CircuitExtendError") /\ UNCHANGED nodes
       ELSE /\ nodes' = [nodes EXCEPT ![cur] = @ + 1]
            /\ upc' = "build"
            /\ UNCHANGED <<err, state_lock>>
  /\ UNCHANGED <<circuits, state, subscribed, waiters, cur, turn, got, asked>>
  /\ UserKeeps

(* build_hops: check_connected, and EXTEND. *)
Extend ==
  /\ upc = "build" /\ nodes[cur] < Hops
  /\ IF state[cur] = "Connected"
       THEN Request(nodes[cur]) /\ UNCHANGED <<err, state_lock>>
       ELSE Fail("AssertionError") /\ UNCHANGED <<listed, asked>>
  /\ UNCHANGED <<circuits, state, subscribed, nodes, answer, cur, turn, got>>
  /\ UserKeeps

Return ==
  /\ upc = "build" /\ nodes[cur] = Hops
  /\ upc' = "returned"
  /\ UNCHANGED <<guardVars, waiters, cur, turn, got, err, asked>>
  /\ UserKeeps

(* The user leaves "with circuit". *)
Close ==
  /\ upc = "returned"
  /\ upc' = "close"
  /\ UNCHANGED <<guardVars, waiters, cur, turn, got, err, asked>>
  /\ UserKeeps

-----------------------------------------------------------------------------
(* The receiver's thread *)

ReceiverKeeps == UNCHANGED <<user, relays>>

(* cell_to_circuit: a cell of a circuit that is not in the list is dropped. *)
Take ==
  /\ rpc = "idle" /\ cells # <<>>
  /\ rcell' = Head(cells)
  /\ cells' = Tail(cells)
  /\ rpc' = IF rcell'[2] \notin circuits THEN "idle"
            ELSE IF rcell'[1] = "DESTROY" THEN "close" ELSE "handle"
  /\ UNCHANGED <<guardVars, waiters, rwaiter>>
  /\ ReceiverKeeps

(***************************************************************************)
(* CellHandlerManager.handle goes over a copy of the list: _on_truncated,    *)
(* which takes no lock, and then the waiter, if there is one.  (There is at *)
(* most one: the circuit of a request that timed out makes no other.)       *)
(***************************************************************************)
Handle ==
  /\ rpc = "handle"
  /\ LET type == rcell[1]
         c == rcell[2]
         called == {w \in Requests : <<c, type, w>> \in listed}
     IN /\ state' = IF type = "TRUNCATED" /\ subscribed[c]
                      THEN [state EXCEPT ![c] = "Truncated"] ELSE state
        /\ IF called = {}
             THEN rpc' = "idle" /\ UNCHANGED rwaiter
             ELSE rpc' = "deliver" /\ rwaiter' \in called
  /\ UNCHANGED <<circuits, state_lock, subscribed, nodes, waiters, rcell, cells>>
  /\ ReceiverKeeps

(* Waiter.handler, which wakes the user ... *)
Deliver ==
  /\ rpc = "deliver"
  /\ answer' = [answer EXCEPT ![rcell[2]][rwaiter] = rcell[1]]
  /\ rpc' = "remove"
  /\ UNCHANGED <<guardVars, listed, rcell, rwaiter, cells>>
  /\ ReceiverKeeps

(* ... and handlers.remove(handler); a ValueError is logged, no more. *)
RemoveCalled ==
  /\ rpc = "remove"
  /\ listed' = listed \ {<<rcell[2], rcell[1], rwaiter>>}
  /\ rpc' = "idle"
  /\ UNCHANGED <<guardVars, answer, rcell, rwaiter, cells>>
  /\ ReceiverKeeps

-----------------------------------------------------------------------------
(* The relays: each request is answered once, or never; a circuit may be    *)
(* truncated or destroyed at any time.                                      *)

RelaysKeep == UNCHANGED <<guardVars, waiters, user, receiver, asked>>

Reply(c) ==
  /\ peer[c] = "alive" /\ asked[c] = path[c] + 1
  /\ path' = [path EXCEPT ![c] = @ + 1]
  /\ cells' = Append(cells, <<IF path[c] = 0 THEN "CREATED" ELSE "EXTENDED", c>>)
  /\ UNCHANGED peer
  /\ RelaysKeep

Truncate(c) ==
  /\ peer[c] = "alive" /\ path[c] > 0
  /\ peer' = [peer EXCEPT ![c] = "truncated"]
  /\ cells' = Append(cells, <<"TRUNCATED", c>>)
  /\ UNCHANGED path
  /\ RelaysKeep

Refuse(c) ==
  /\ peer[c] # "gone" /\ asked[c] > 0
  /\ peer' = [peer EXCEPT ![c] = "gone"]
  /\ cells' = Append(cells, <<"DESTROY", c>>)
  /\ UNCHANGED path
  /\ RelaysKeep

-----------------------------------------------------------------------------

UserAct ==
  \/ NewCircuit \/ BeginCreate \/ Answered \/ Unanswered \/ Check \/ Remove
  \/ AcceptCreated \/ Connect \/ AcceptExtended \/ Extend \/ Return \/ Close
  \/ Destroy("user")

UserStep == (UserAct /\ UNCHANGED kept) \/ DestroyRaises("user")

ReceiverAct == Take \/ Handle \/ Deliver \/ RemoveCalled \/ Destroy("receiver")

ReceiverStep == (ReceiverAct /\ UNCHANGED kept) \/ DestroyRaises("receiver")

Relay(c) == (Reply(c) \/ Truncate(c) \/ Refuse(c)) /\ UNCHANGED kept

Next == UserStep \/ ReceiverStep \/ \E c \in Ids : Relay(c)

Spec == Init /\ [][Next]_vars

(* Both threads go on while they can; a wait ends at the latest with its    *)
(* timeout.  Nothing is assumed of the relays.                              *)
FairSpec == Spec /\ WF_vars(UserStep) /\ WF_vars(ReceiverStep)

-----------------------------------------------------------------------------
(* Properties *)

(***************************************************************************)
(* "We must close here because we didn't enter to circuit yet to guard by   *)
(* context manager": create_circuit leaves no circuit of a failed attempt   *)
(* in the guard's list when it tries again, whatever the receiver destroyed *)
(* meanwhile, and closing leaves none.  Only an exception may leave one:    *)
(* one whose destroy raised, as destroy_circuit takes a circuit off the     *)
(* list after destroy.                                                      *)
(***************************************************************************)
NoOrphans ==
  /\ upc \in {"start", "closed"} => circuits = {}
  /\ upc = "raised" => circuits \subseteq kept
  /\ upc = "returned" => circuits \subseteq {cur}

(***************************************************************************)
(* A circuit the guard no longer routes cells to never looks connected: a   *)
(* DESTROY that comes while create waits takes effect after it.             *)
(***************************************************************************)
RemovedNotConnected ==
  \A c \in Ids : c <= cur /\ c \notin circuits => state[c] \in {"Truncated", "Destroyed"}

(***************************************************************************)
(* The layers the client encrypts with are those of the relays, but for an  *)
(* answer under way: no answer is taken for another request's.              *)
(***************************************************************************)
LayersMatch ==
  /\ \A c \in Ids : nodes[c] <= path[c] /\ path[c] <= nodes[c] + 1
  /\ upc = "returned" => path[cur] = Hops

(***************************************************************************)
(* Neither thread waits for the other for good: create_circuit comes to     *)
(* return a circuit or an error, though the answer be lost, late, or behind *)
(* a DESTROY that waits for create itself; and the receiver, on which every *)
(* circuit of the guard depends, gets past create's lock and past another   *)
(* destroy's.                                                               *)
(***************************************************************************)
BothGoOn ==
  /\ upc = "start" ~> upc \in {"returned", "raised"}
  /\ rpc # "idle" ~> rpc = "idle"

=============================================================================
