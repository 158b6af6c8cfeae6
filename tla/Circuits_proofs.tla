---------------------------- MODULE Circuits_proofs ----------------------------
(***************************************************************************)
(* Theorems about Circuits, for any number of attempts and of hops.  Three  *)
(* things make it correct.  A request is one more than the nodes there are, *)
(* and the relays are never ahead of it (Steps).  The _state_lock keeps a   *)
(* DESTROY out of create (Locks, Removed).  And at most one answer of a     *)
(* circuit is under way, none once the user has gone on, so that a waiter   *)
(* gets the answer to its own request (OneAnswer, Waiters).                 *)
(***************************************************************************)
EXTENDS Circuits, TLAPS

(* Where the user has no request out, and where he has.                     *)
Quiet == {"create", "connect", "build", "returned"}
Asking == {"waiting", "check", "remove", "accept"}

Steps ==
  /\ upc = "start" => cur < Tries
  /\ upc # "start" => cur > 0
  /\ \A c \in Ids : c > cur => asked[c] = 0 /\ nodes[c] = 0
  /\ \A c \in Ids : path[c] <= asked[c] /\ nodes[c] <= asked[c] /\ asked[c] <= nodes[c] + 1
  /\ upc \in Quiet => asked[cur] = nodes[cur]
  /\ upc \in Asking => asked[cur] = nodes[cur] + 1
  /\ upc = "create" => nodes[cur] = 0
  /\ upc \in {"connect", "build", "returned"} => nodes[cur] > 0
  /\ upc = "returned" => nodes[cur] = Hops
  /\ upc \in {"check", "remove"} => turn <= Len(Awaited(nodes[cur]))
  /\ rpc \in {"handle", "deliver", "remove"} => rcell[1] # "DESTROY"

InCreate == upc = "connect" \/ (upc \in Asking /\ nodes[cur] = 0)

Locks ==
  /\ \A c \in Ids :
       /\ state_lock[c] = "receiver" <=> rpc = "destroy" /\ rcell[2] = c
       /\ state_lock[c] = "user" <=> c = cur /\ (upc = "destroy" \/ InCreate)

Down(c) == state[c] \in {"Truncated", "Destroyed"}

Removed ==
  /\ rpc # "idle" => asked[rcell[2]] > 0
  /\ \A i \in 1..Len(cells) : asked[cells[i][2]] > 0
  /\ \A c \in Ids : c <= cur /\ c \notin circuits => Down(c)
  /\ rpc = "unmap" => Down(rcell[2])
  /\ upc = "unmap" => Down(cur)
  /\ upc = "create" \/ InCreate =>
       cur \in circuits /\ ~(rpc = "unmap" /\ rcell[2] = cur)

IsAnswer(cell, c) == cell[2] = c /\ cell[1] \in {"CREATED", "EXTENDED"}

Held(c) == rpc \in {"handle", "deliver"} /\ IsAnswer(rcell, c)

Queued(c) == {i \in 1..Len(cells) : IsAnswer(cells[i], c)}

UnderWay(c) == Held(c) \/ Queued(c) # {}

OneAnswer ==
  /\ \A c \in Ids : nodes[c] <= path[c]
  /\ \A c \in Ids : UnderWay(c) => path[c] = asked[c]
  /\ \A c \in Ids : \A i, k \in Queued(c) : i = k
  /\ \A c \in Ids : Held(c) => Queued(c) = {}
  /\ upc \in Quiet => ~UnderWay(cur)
  /\ upc \in {"check", "remove", "accept"} /\ got # "TRUNCATED" =>
       ~UnderWay(cur) /\ path[cur] = asked[cur]
  /\ \A c \in Ids : \A w \in Requests :
       answer[c][w] \in {"CREATED", "EXTENDED"} /\ w + 1 = asked[c] => ~UnderWay(c)

Waiters ==
  /\ \A e \in listed : e[3] + 1 = asked[e[1]] /\ (e[3] = 0 <=> e[2] = "CREATED")
  /\ upc \in Quiet \cup {"accept"} => \A e \in listed : e[1] # cur
  /\ upc \in {"check", "remove"} /\ turn = 2 => <<cur, "EXTENDED", nodes[cur]>> \notin listed
  /\ rpc = "deliver" =>
       /\ rwaiter < asked[rcell[2]]
       /\ rwaiter = 0 <=> rcell[1] = "CREATED"
       /\ rcell[1] # "TRUNCATED" => rwaiter < path[rcell[2]]
  /\ \A c \in Ids : \A w \in Requests : answer[c][w] # "none" =>
       /\ w < asked[c]
       /\ w = 0 <=> answer[c][w] = "CREATED"
       /\ answer[c][w] # "TRUNCATED" => w < path[c]
  /\ upc \in {"check", "remove", "accept"} =>
       got # "none" /\ (nodes[cur] = 0 <=> got = "CREATED")

-----------------------------------------------------------------------------
(***************************************************************************)
(* Types, and the requests of a circuit.                                    *)
(***************************************************************************)

LEMMA AwaitedType ==
  ASSUME NEW w \in Requests
  PROVE  /\ DOMAIN Awaited(w) = 1..Len(Awaited(w)) /\ Len(Awaited(w)) \in {1, 2}
         /\ \A i \in 1..Len(Awaited(w)) : Awaited(w)[i] \in Answers
<1>1. CASE w = 0
  <2>1. Awaited(w) = <<"CREATED">>
    BY <1>1 DEF Awaited
  <2> QED BY <2>1 DEF Answers
<1>2. CASE w # 0
  <2>1. Awaited(w) = <<"EXTENDED", "TRUNCATED">>
    BY <1>2 DEF Awaited
  <2> QED BY <2>1 DEF Answers
<1> QED BY <1>1, <1>2

Typed == Types /\ Steps

LEMMA TypedInit == Init => Typed
<1> SUFFICES ASSUME Init PROVE Typed
  OBVIOUS
<1> USE CircuitsAssumption DEF Init
<1>1. rwaiter \in Requests /\ rcell \in Cell /\ cells \in Seq(Cell) /\ got \in Answers \cup {"none"}
  BY DEF Requests, Cell, Ids
<1>2. answer \in [Ids -> [Requests -> Answers \cup {"none"}]]
  OBVIOUS
<1>3. /\ nodes \in [Ids -> 0..Hops] /\ asked \in [Ids -> 0..Hops] /\ path \in [Ids -> 0..Hops]
  OBVIOUS
<1>4. Types
  BY <1>1, <1>2, <1>3 DEF Types
<1>5. Steps
  BY DEF Steps, Quiet, Asking
<1> QED BY <1>4, <1>5 DEF Typed

(* The user's circuit, where he has one, and his request, where one is out. *)
LEMMA UserHasCircuit ==
  ASSUME Typed, upc # "start" PROVE cur \in Ids /\ nodes[cur] \in 0..Hops
BY CircuitsAssumption DEF Typed, Types, Steps, Ids

LEMMA UserAsks ==
  ASSUME Typed, upc \in Asking
  PROVE  cur \in Ids /\ nodes[cur] \in Requests /\ asked[cur] = nodes[cur] + 1
<1>1. upc # "start"
  BY DEF Asking
<1>2. cur \in Ids /\ nodes[cur] \in 0..Hops /\ asked[cur] = nodes[cur] + 1
  BY <1>1, UserHasCircuit DEF Typed, Steps
<1>3. asked[cur] \in 0..Hops
  BY <1>2 DEF Typed, Types
<1> QED BY <1>2, <1>3, CircuitsAssumption DEF Requests

LEMMA Numbers ==
  ASSUME Typed, NEW c \in Ids
  PROVE  c \in Nat /\ path[c] \in Nat /\ nodes[c] \in Nat /\ asked[c] \in Nat
BY DEF Typed, Types, Ids

(* A cell names a circuit. *)
LEMMA CellsNamed ==
  ASSUME Typed
  PROVE  rcell[2] \in Ids /\ \A i \in 1..Len(cells) : cells[i][2] \in Ids
<1>1. rcell \in Cell /\ cells \in Seq(Cell)
  BY DEF Typed, Types
<1>2. \A x \in Cell : x[2] \in Ids
  BY DEF Cell
<1>3. \A i \in 1..Len(cells) : cells[i] \in Cell
  BY <1>1
<1> QED BY <1>1, <1>2, <1>3

(* A request that is put on the lists. *)
LEMMA RequestTyped ==
  ASSUME Typed, upc \in {"create", "build"}, nodes[cur] < Hops, Request(nodes[cur]),
         UNCHANGED <<nodes, cur>>
  PROVE  /\ listed' \subseteq Ids \X Answers \X Requests
         /\ asked' \in [Ids -> 0..Hops]
         /\ upc' = "waiting" /\ asked'[cur] = nodes[cur] + 1
         /\ \A c \in Ids \ {cur} : asked'[c] = asked[c]
<1>1. cur \in Ids /\ nodes[cur] \in 0..Hops
  BY UserHasCircuit
<1>2. nodes[cur] \in Requests /\ nodes[cur] + 1 \in 0..Hops
  BY <1>1, CircuitsAssumption DEF Requests
<1>3. \A i \in DOMAIN Awaited(nodes[cur]) : Awaited(nodes[cur])[i] \in Answers
  BY <1>2, AwaitedType
<1> QED BY <1>1, <1>2, <1>3 DEF Request, Typed, Types

(* An attempt that fails. *)
LEMMA FailTyped ==
  ASSUME Typed, upc # "start",
         NEW reason \in {"CellTimeoutError", "CircuitExtendError", "AssertionError",
                         "ValueError", "OSError"}, Fail(reason)
  PROVE  /\ err' = reason /\ upc' = "close"
         /\ state_lock' \in [Ids -> {"free", "user", "receiver"}]
BY UserHasCircuit DEF Fail, Release, Typed, Types

(* What a destroy leaves alone, and where it goes. *)
LEMMA DestroySteps ==
  ASSUME NEW who \in {"user", "receiver"}, Destroy(who)
  PROVE  /\ UNCHANGED <<subscribed, nodes, listed, answer, cur, turn, got, err, rcell,
                       rwaiter, cells, asked, path>>
         /\ who = "receiver" => /\ UNCHANGED upc
                                /\ \/ rpc = "close" /\ rpc' \in {"destroy", "unmap"}
                                   \/ rpc = "destroy" /\ rpc' = "unmap"
                                   \/ rpc = "unmap" /\ rpc' = "idle"
         /\ who = "user" => /\ UNCHANGED rpc
                            /\ \/ upc = "close" /\ upc' \in {"destroy", "unmap"}
                               \/ upc = "destroy" /\ upc' = "unmap"
                               \/ upc = "unmap" /\ upc' = AfterClose
<1>1. CASE BeginDestroy(who)
  BY <1>1 DEF BeginDestroy, GotoOf, PcOf, waiters
<1>2. CASE EndDestroy(who)
  BY <1>2 DEF EndDestroy, GotoOf, PcOf, waiters, relays
<1>3. CASE Unmap(who)
  BY <1>3 DEF Unmap, GotoOf, PcOf, waiters, relays
<1> QED BY <1>1, <1>2, <1>3 DEF Destroy

LEMMA AfterCloseIs ==
  AfterClose \in {"closed", "raised"} \/ (AfterClose = "start" /\ cur < Tries)
BY DEF AfterClose

LEMMA DestroyTyped ==
  ASSUME Typed, NEW who \in {"user", "receiver"}, Destroy(who) PROVE Typed'
<1>1. /\ circuits' \subseteq Ids
      /\ state' \in [Ids -> {"Unknown", "Connecting", "Connected", "Truncated", "Destroyed"}]
      /\ state_lock' \in [Ids -> {"free", "user", "receiver"}]
      /\ peer' \in [Ids -> {"alive", "truncated", "gone"}]
  BY DEF Destroy, BeginDestroy, EndDestroy, Unmap, relays, Typed, Types
<1>2. Types'
  BY <1>1, DestroySteps, AfterCloseIs DEF Typed, Types
<1>3. Steps'
  BY DestroySteps, AfterCloseIs DEF Typed, Steps, Quiet, Asking
<1> QED BY <1>2, <1>3 DEF Typed

LEMMA RaisesTyped ==
  ASSUME Typed, NEW who \in {"user", "receiver"}, DestroyRaises(who) PROVE Typed'
<1>1. /\ UNCHANGED <<guardVars, waiters, cur, turn, got, rcell, rwaiter, cells, relays>>
      /\ upc' \in {upc, "raised"} /\ rpc' \in {rpc, "idle"} /\ err' \in {err, "OSError"}
      /\ upc' # upc => upc = "close"
  BY DEF DestroyRaises, GotoOf, PcOf
<1>2. Types'
  BY <1>1 DEF Typed, Types, guardVars, waiters, relays
<1>3. Steps'
  BY <1>1 DEF Typed, Steps, Quiet, Asking, guardVars, waiters, relays
<1> QED BY <1>2, <1>3 DEF Typed

LEMMA UserTyped ==
  ASSUME Typed, UserAct, ~Destroy("user") PROVE Typed'
<1> USE CircuitsAssumption
<1>1. UserKeeps
  BY DEF UserAct, NewCircuit, BeginCreate, Answered, Unanswered, Check, Remove, AcceptCreated,
         Connect, AcceptExtended, Extend, Return, Close
<1>2. /\ rpc' = rpc /\ rcell' = rcell /\ rwaiter' = rwaiter /\ cells' = cells
      /\ path' = path /\ peer' = peer
  BY <1>1 DEF UserKeeps, receiver
<1>3. CASE NewCircuit
  <2>1. cur + 1 \in Ids /\ cur \in Nat
    BY <1>3 DEF NewCircuit, Typed, Types, Steps, Ids
  <2>2. UNCHANGED <<nodes, asked, state, state_lock, subscribed, listed, answer, turn, got>>
    BY <1>3 DEF NewCircuit, waiters
  <2>3. Types'
    BY <1>2, <1>3, <2>1, <2>2 DEF NewCircuit, Typed, Types
  <2>4. Steps'
    <3>1. asked[cur + 1] = 0 /\ nodes[cur + 1] = 0
      BY <2>1 DEF Typed, Steps
    <3> QED BY <1>2, <1>3, <2>1, <2>2, <3>1 DEF NewCircuit, Typed, Steps, Quiet, Asking, Ids
  <2> QED BY <2>3, <2>4 DEF Typed
<1>4. CASE BeginCreate
  <2>1. /\ nodes[cur] = 0 /\ cur \in Ids /\ upc = "create"
        /\ UNCHANGED <<nodes, circuits, subscribed, answer, cur, turn, got, err>>
    BY <1>4, UserHasCircuit DEF BeginCreate, Typed, Steps
  <2>2. /\ listed' \subseteq Ids \X Answers \X Requests
        /\ asked' \in [Ids -> 0..Hops]
        /\ upc' = "waiting" /\ asked'[cur] = nodes[cur] + 1
        /\ \A c \in Ids \ {cur} : asked'[c] = asked[c]
    BY <1>4, <2>1, RequestTyped DEF BeginCreate
  <2>3. Types'
    BY <1>2, <1>4, <2>1, <2>2 DEF BeginCreate, Typed, Types
  <2>4. ASSUME NEW c \in Ids
        PROVE  /\ path[c] <= asked'[c] /\ nodes[c] <= asked'[c] /\ asked'[c] <= nodes[c] + 1
               /\ c > cur => asked'[c] = 0
    <3>1. cur \in Nat /\ c \in Nat /\ path[c] \in Nat /\ nodes[c] \in Nat /\ asked[c] \in Nat
      BY <2>1, Numbers DEF Ids
    <3>2. /\ path[c] <= asked[c] /\ nodes[c] <= asked[c] /\ asked[c] <= nodes[c] + 1
          /\ c > cur => asked[c] = 0
          /\ c = cur => asked[c] = nodes[c]
      BY <2>1 DEF Typed, Steps, Quiet
    <3>3. asked'[c] = IF c = cur THEN nodes[c] + 1 ELSE asked[c]
      BY <2>1, <2>2
    <3> QED BY <3>1, <3>2, <3>3
  <2>5. Steps'
    BY <1>2, <2>1, <2>2, <2>4 DEF Typed, Steps, Quiet, Asking
  <2> QED BY <2>3, <2>5 DEF Typed
<1>5. CASE Answered
  <2>1. cur \in Ids /\ nodes[cur] \in Requests
    BY <1>5, UserAsks DEF Answered, Asking
  <2>2. Types'
    BY <1>2, <1>5, <2>1 DEF Answered, Typed, Types, guardVars, waiters
  <2>3. /\ upc = "waiting" /\ upc' = "check" /\ turn' = 1
        /\ UNCHANGED <<nodes, path, asked, cur, rpc, rcell>>
    BY <1>2, <1>5 DEF Answered, guardVars
  <2>4. Len(Awaited(nodes[cur])) \in {1, 2}
    BY <2>1, AwaitedType
  <2>5. 1 <= Len(Awaited(nodes[cur]))
    BY <2>4
  <2>6. asked[cur] = nodes[cur] + 1
    BY <2>3 DEF Typed, Steps, Asking
  <2>7. (upc \in {"check", "remove"} => turn <= Len(Awaited(nodes[cur])))'
    BY <2>3, <2>5
  <2>8. Steps'
    BY <2>3, <2>6, <2>7 DEF Typed, Steps, Quiet, Asking
  <2> QED BY <2>2, <2>8 DEF Typed
<1>6. CASE Unanswered
  <2>1. PICK reason \in {"CellTimeoutError", "OSError"} : Fail(reason)
    <3>1. CASE Fail("CellTimeoutError")
      BY <3>1
    <3>2. CASE Fail("OSError")
      BY <3>2
    <3> QED BY <1>6, <3>1, <3>2 DEF Unanswered
  <2>2. /\ err' = reason /\ upc' = "close" /\ upc = "waiting"
        /\ state_lock' \in [Ids -> {"free", "user", "receiver"}]
    BY <1>6, <2>1, FailTyped DEF Unanswered
  <2>3. UNCHANGED <<circuits, state, subscribed, nodes, listed, answer, cur, turn, got, asked>>
    BY <1>6 DEF Unanswered, waiters
  <2>4. Types'
    BY <1>2, <2>2, <2>3 DEF Typed, Types
  <2>5. Steps'
    BY <1>2, <2>1, <2>2, <2>3 DEF Typed, Steps, Quiet, Asking
  <2> QED BY <2>4, <2>5 DEF Typed
<1>7. CASE Check
  <2>1. UNCHANGED <<guardVars, listed, answer, cur, got, err, asked>>
    BY <1>7 DEF Check, waiters
  <2>2. cur \in Ids /\ nodes[cur] \in Requests /\ upc = "check"
    BY <1>7, UserAsks DEF Check, Asking
  <2>3. Len(Awaited(nodes[cur])) \in {1, 2}
    BY <2>2, AwaitedType
  <2>4. \/ upc' \in {"remove", "accept"} /\ turn' = turn
        \/ upc' = "check" /\ turn' = turn + 1 /\ turn < Len(Awaited(nodes[cur]))
    BY <1>7 DEF Check, GoOn
  <2>5. turn' \in {1, 2} /\ upc' \in {"remove", "accept", "check"}
    <3>1. turn = 1 \/ turn = 2
      BY DEF Typed, Types
    <3>2. turn < Len(Awaited(nodes[cur])) => turn = 1
      <4>1. \A k, l \in {1, 2} : k < l => k = 1
        OBVIOUS
      <4> QED BY <2>3, <3>1, <4>1
    <3> QED BY <2>4, <3>1, <3>2
  <2>7. Types'
    BY <1>2, <2>1, <2>5 DEF Typed, Types, guardVars
  <2>6. Steps'
    BY <1>2, <2>1, <2>2, <2>3, <2>4 DEF Typed, Types, Steps, Quiet, Asking, guardVars
  <2> QED BY <2>6, <2>7 DEF Typed
<1>8. CASE Remove
  <2>1. UNCHANGED <<circuits, state, subscribed, nodes, answer, cur, got, asked>>
    BY <1>8 DEF Remove
  <2>2. cur \in Ids /\ nodes[cur] \in Requests /\ upc = "remove" /\ upc # "start"
    BY <1>8, UserAsks DEF Remove, Asking
  <2>3. Len(Awaited(nodes[cur])) \in {1, 2}
    BY <2>2, AwaitedType
  <2>4. /\ \/ upc' = "accept" /\ turn' = turn
           \/ upc' = "check" /\ turn' = turn + 1 /\ turn < Len(Awaited(nodes[cur]))
           \/ upc' = "close" /\ turn' = turn
        /\ state_lock' \in [Ids -> {"free", "user", "receiver"}]
        /\ err' \in {err, "ValueError"}
        /\ listed' \subseteq listed
    <3>1. CASE MyWaiter \in listed
      BY <1>8, <3>1 DEF Remove, GoOn, Typed, Types
    <3>2. CASE MyWaiter \notin listed
      <4>1. Fail("ValueError") /\ turn' = turn /\ listed' \subseteq listed
        BY <1>8, <3>2 DEF Remove
      <4> QED BY <2>2, <4>1, FailTyped
    <3> QED BY <3>1, <3>2
  <2>5. turn' \in {1, 2} /\ upc' \in {"close", "accept", "check"}
    <3>1. turn = 1 \/ turn = 2
      BY DEF Typed, Types
    <3>2. turn < Len(Awaited(nodes[cur])) => turn = 1
      <4>1. \A k, l \in {1, 2} : k < l => k = 1
        OBVIOUS
      <4> QED BY <2>3, <3>1, <4>1
    <3> QED BY <2>4, <3>1, <3>2
  <2>7. listed' \subseteq Ids \X Answers \X Requests
    BY <2>4 DEF Typed, Types
  <2>8. Types'
    BY <1>2, <2>1, <2>4, <2>5, <2>7 DEF Typed, Types
  <2>6. Steps'
    BY <1>2, <2>1, <2>2, <2>3, <2>4 DEF Typed, Types, Steps, Quiet, Asking
  <2> QED BY <2>6, <2>8 DEF Typed
<1>9. CASE AcceptCreated
  <2>1. /\ cur \in Ids /\ nodes[cur] = 0 /\ asked[cur] = 1 /\ upc = "accept"
    BY <1>9, UserAsks DEF AcceptCreated, Asking
  <2>2. /\ UNCHANGED <<circuits, state, state_lock, listed, answer, cur, turn, got, err, asked>>
        /\ nodes' = [nodes EXCEPT ![cur] = 1] /\ upc' = "connect"
        /\ subscribed' \in [Ids -> BOOLEAN]
    BY <1>9, <2>1 DEF AcceptCreated, waiters, Typed, Types
  <2>3. Types'
    BY <1>2, <2>1, <2>2 DEF Typed, Types
  <2>4. Steps'
    BY <1>2, <2>1, <2>2 DEF Typed, Types, Steps, Quiet, Asking
  <2> QED BY <2>3, <2>4 DEF Typed
<1>10. CASE Connect
  <2>1. cur \in Ids /\ upc = "connect"
    BY <1>10, UserHasCircuit DEF Connect
  <2>2. /\ UNCHANGED <<circuits, subscribed, nodes, listed, answer, cur, turn, got, err, asked>>
        /\ upc' = "build"
        /\ state_lock' \in [Ids -> {"free", "user", "receiver"}]
    BY <1>10, <2>1 DEF Connect, Release, waiters, Typed, Types
  <2>3. Types'
    BY <1>2, <1>10, <2>1, <2>2 DEF Connect, Typed, Types
  <2>4. Steps'
    BY <1>2, <2>1, <2>2 DEF Typed, Types, Steps, Quiet, Asking
  <2> QED BY <2>3, <2>4 DEF Typed
<1>11. CASE AcceptExtended
  <2>1. /\ cur \in Ids /\ nodes[cur] \in Requests /\ nodes[cur] > 0 /\ upc = "accept"
        /\ asked[cur] = nodes[cur] + 1 /\ upc # "start"
    BY <1>11, UserAsks DEF AcceptExtended, Asking
  <2>2. UNCHANGED <<circuits, state, subscribed, listed, answer, cur, turn, got, asked>>
    BY <1>11 DEF AcceptExtended, waiters
  <2>3. CASE got = "TRUNCATED"
    <3>1. Fail("CircuitExtendError") /\ nodes' = nodes
      BY <1>11, <2>3 DEF AcceptExtended
    <3>2. /\ err' = "CircuitExtendError" /\ upc' = "close"
          /\ state_lock' \in [Ids -> {"free", "user", "receiver"}]
      BY <2>1, <3>1, FailTyped
    <3>3. Types'
      BY <1>2, <2>2, <3>1, <3>2 DEF Typed, Types
    <3>4. Steps'
      BY <1>2, <2>1, <2>2, <3>1, <3>2 DEF Typed, Steps, Quiet, Asking
    <3> QED BY <3>3, <3>4 DEF Typed
  <2>4. CASE got # "TRUNCATED"
    <3>1. /\ nodes' = [nodes EXCEPT ![cur] = @ + 1] /\ upc' = "build"
          /\ UNCHANGED <<err, state_lock>>
      BY <1>11, <2>4 DEF AcceptExtended
    <3>2. nodes[cur] + 1 \in 0..Hops
      BY <2>1 DEF Requests
    <3>3. Types'
      BY <1>2, <2>1, <2>2, <3>1, <3>2 DEF Typed, Types
    <3>4. Steps'
      BY <1>2, <2>1, <2>2, <3>1 DEF Typed, Types, Steps, Quiet, Asking
    <3> QED BY <3>3, <3>4 DEF Typed
  <2> QED BY <2>3, <2>4
<1>12. CASE Extend
  <2>1. cur \in Ids /\ upc = "build" /\ nodes[cur] < Hops /\ upc # "start"
    BY <1>12, UserHasCircuit DEF Extend
  <2>2. UNCHANGED <<circuits, state, subscribed, nodes, answer, cur, turn, got>>
    BY <1>12 DEF Extend
  <2>3. CASE state[cur] = "Connected"
    <3>1. Request(nodes[cur]) /\ UNCHANGED <<err, state_lock>>
      BY <1>12, <2>3 DEF Extend
    <3>2. /\ listed' \subseteq Ids \X Answers \X Requests
          /\ asked' \in [Ids -> 0..Hops]
          /\ upc' = "waiting" /\ asked'[cur] = nodes[cur] + 1
          /\ \A c \in Ids \ {cur} : asked'[c] = asked[c]
      BY <2>1, <2>2, <3>1, RequestTyped
    <3>3. Types'
      BY <1>2, <2>2, <3>1, <3>2 DEF Typed, Types
    <3>4. ASSUME NEW c \in Ids
          PROVE  /\ path[c] <= asked'[c] /\ nodes[c] <= asked'[c] /\ asked'[c] <= nodes[c] + 1
                 /\ c > cur => asked'[c] = 0
      <4>1. cur \in Nat /\ c \in Nat /\ path[c] \in Nat /\ nodes[c] \in Nat /\ asked[c] \in Nat
        BY <2>1, Numbers DEF Ids
      <4>2. /\ path[c] <= asked[c] /\ nodes[c] <= asked[c] /\ asked[c] <= nodes[c] + 1
            /\ c > cur => asked[c] = 0
            /\ c = cur => asked[c] = nodes[c]
        <5>1. asked[cur] = nodes[cur]
          BY <2>1 DEF Typed, Steps, Quiet
        <5> QED BY <5>1 DEF Typed, Steps
      <4>3. asked'[c] = IF c = cur THEN nodes[c] + 1 ELSE asked[c]
        BY <2>1, <3>2
      <4>4. CASE c = cur
        <5>1. asked'[c] = nodes[c] + 1
          BY <4>3, <4>4
        <5> QED BY <4>1, <4>2, <4>4, <5>1
      <4>5. CASE c # cur
        BY <4>2, <4>3, <4>5
      <4> QED BY <4>4, <4>5
    <3>5. Steps'
      BY <1>2, <2>1, <2>2, <3>2, <3>4 DEF Typed, Steps, Quiet, Asking
    <3> QED BY <3>3, <3>5 DEF Typed
  <2>4. CASE state[cur] # "Connected"
    <3>1. Fail("AssertionError") /\ UNCHANGED <<listed, asked>>
      BY <1>12, <2>4 DEF Extend
    <3>2. /\ err' = "AssertionError" /\ upc' = "close"
          /\ state_lock' \in [Ids -> {"free", "user", "receiver"}]
      BY <2>1, <3>1, FailTyped
    <3>3. Types'
      BY <1>2, <2>2, <3>1, <3>2 DEF Typed, Types
    <3>4. Steps'
      BY <1>2, <2>1, <2>2, <3>1, <3>2 DEF Typed, Steps, Quiet, Asking
    <3> QED BY <3>3, <3>4 DEF Typed
  <2> QED BY <2>3, <2>4
<1>13. CASE Return \/ Close
  <2>1. Types'
    BY <1>2, <1>13 DEF Return, Close, Typed, Types, guardVars, waiters
  <2>2. Steps'
    BY <1>2, <1>13 DEF Return, Close, Typed, Steps, Quiet, Asking, guardVars, waiters
  <2> QED BY <2>1, <2>2 DEF Typed
<1> QED BY <1>3, <1>4, <1>5, <1>6, <1>7, <1>8, <1>9, <1>10, <1>11, <1>12, <1>13 DEF UserAct

LEMMA ReceiverTyped ==
  ASSUME Typed, ReceiverAct, ~Destroy("receiver") PROVE Typed'
<1> USE DEF user, relays, guardVars, waiters
<1>1. /\ UNCHANGED <<upc, cur, turn, got, err, asked, path, peer, nodes>>
      /\ UNCHANGED <<circuits, state_lock, subscribed>>
  BY DEF ReceiverAct, Take, Handle, Deliver, RemoveCalled, ReceiverKeeps
<1>2. Steps'
  <2>1. rpc' \in {"handle", "deliver", "remove"} => rcell'[1] # "DESTROY"
    BY DEF ReceiverAct, Take, Handle, Deliver, RemoveCalled, Typed, Steps
  <2> QED BY <1>1, <2>1 DEF Typed, Steps
<1>3. CASE Take
  <2>1. cells \in Seq(Cell) /\ cells # <<>>
    BY <1>3 DEF Take, Typed, Types
  <2>2. rcell' \in Cell /\ cells' \in Seq(Cell)
    BY <1>3, <2>1 DEF Take
  <2>3. UNCHANGED <<state, listed, answer, rwaiter>> /\ rpc' \in {"idle", "close", "handle"}
    BY <1>3 DEF Take
  <2>4. Types'
    BY <1>1, <2>2, <2>3 DEF Typed, Types
  <2> QED BY <1>2, <2>4 DEF Typed
<1>4. CASE Handle
  <2>1. rwaiter' \in Requests /\ rpc' \in {"idle", "deliver"}
    BY <1>4 DEF Handle, Typed, Types
  <2>2. state' = state \/ state' = [state EXCEPT ![rcell[2]] = "Truncated"]
    BY <1>4 DEF Handle
  <2>3. UNCHANGED <<listed, answer, rcell, cells>>
    BY <1>4 DEF Handle
  <2>4. Types'
    <3>1. state' \in [Ids -> {"Unknown", "Connecting", "Connected", "Truncated", "Destroyed"}]
      BY <2>2 DEF Typed, Types
    <3> QED BY <1>1, <2>1, <2>3, <3>1 DEF Typed, Types
  <2> QED BY <1>2, <2>4 DEF Typed
<1>5. CASE Deliver
  <2>1. rcell[1] \in Answers \cup {"DESTROY"}
    BY DEF Typed, Types, Cell
  <2>2. answer' = [answer EXCEPT ![rcell[2]][rwaiter] = rcell[1]]
    BY <1>5 DEF Deliver
  <2>3. rcell[1] # "DESTROY" => answer' \in [Ids -> [Requests -> Answers \cup {"none"}]]
    BY <2>1, <2>2 DEF Typed, Types
  <2>4. UNCHANGED <<state, listed, rcell, rwaiter, cells>> /\ rpc' = "remove"
    BY <1>5 DEF Deliver
  <2>5. rcell[1] # "DESTROY"
    BY <1>5 DEF Deliver, Typed, Steps
  <2>6. Types'
    BY <1>1, <2>3, <2>4, <2>5 DEF Typed, Types
  <2> QED BY <1>2, <2>6 DEF Typed
<1>6. CASE RemoveCalled
  <2>1. Types'
    BY <1>1, <1>6 DEF RemoveCalled, Typed, Types
  <2> QED BY <1>2, <2>1 DEF Typed
<1> QED BY <1>3, <1>4, <1>5, <1>6 DEF ReceiverAct

LEMMA RelayTyped ==
  ASSUME Typed, NEW c \in Ids, Relay(c) PROVE Typed'
<1>1. /\ UNCHANGED <<guardVars, waiters, user, receiver, asked>>
      /\ \/ path' = path
         \/ path' = [path EXCEPT ![c] = @ + 1] /\ asked[c] = path[c] + 1
  <2>1. CASE Reply(c)
    BY <2>1 DEF Reply, RelaysKeep
  <2>2. CASE Truncate(c) \/ Refuse(c)
    BY <2>2 DEF Truncate, Refuse, RelaysKeep
  <2> QED BY <2>1, <2>2 DEF Relay
<1>2. peer' \in [Ids -> {"alive", "truncated", "gone"}]
  <2>1. CASE Reply(c)
    BY <2>1 DEF Reply, Typed, Types
  <2>2. CASE Truncate(c) \/ Refuse(c)
    BY <2>2 DEF Truncate, Refuse, Typed, Types
  <2> QED BY <2>1, <2>2 DEF Relay
<1>3. cells' \in Seq(Cell)
  <2>1. PICK cell \in Cell : cells' = Append(cells, cell)
    BY DEF Relay, Reply, Truncate, Refuse, Cell, Answers
  <2> QED BY <2>1 DEF Typed, Types
<1>4. path' \in [Ids -> 0..Hops] /\ path'[c] <= asked[c]
        /\ \A d \in Ids \ {c} : path'[d] = path[d]
  <2>1. asked[c] \in 0..Hops /\ path[c] \in Nat /\ path[c] <= asked[c]
    BY DEF Typed, Types, Steps
  <2>2. CASE path' = path
    BY <2>1, <2>2 DEF Typed, Types
  <2>3. CASE path' = [path EXCEPT ![c] = @ + 1] /\ asked[c] = path[c] + 1
    <3>1. path[c] + 1 \in 0..Hops /\ path' = [path EXCEPT ![c] = path[c] + 1]
      BY <2>1, <2>3
    <3>2. path' \in [Ids -> 0..Hops] /\ path'[c] = path[c] + 1
            /\ \A d \in Ids \ {c} : path'[d] = path[d]
      BY <3>1 DEF Typed, Types
    <3> QED BY <2>1, <2>3, <3>2
  <2> QED BY <1>1, <2>2, <2>3
<1>5. Types'
  BY <1>1, <1>2, <1>3, <1>4 DEF Typed, Types, guardVars, waiters, user, receiver
<1>6. Steps'
  <2>1. \A d \in Ids : path'[d] <= asked[d]
    BY <1>4 DEF Typed, Steps
  <2> QED BY <1>1, <2>1 DEF Typed, Steps, guardVars, waiters, user, receiver
<1> QED BY <1>5, <1>6 DEF Typed

LEMMA TypedKept == Typed /\ [Next]_vars => Typed'
<1> SUFFICES ASSUME Typed, [Next]_vars PROVE Typed'
  OBVIOUS
<1>1. CASE UserStep
  BY <1>1, UserTyped, DestroyTyped, RaisesTyped DEF UserStep
<1>2. CASE ReceiverStep
  BY <1>2, ReceiverTyped, DestroyTyped, RaisesTyped DEF ReceiverStep
<1>3. CASE \E c \in Ids : Relay(c)
  BY <1>3, RelayTyped
<1>4. CASE UNCHANGED vars
  <2>1. Types'
    BY <1>4 DEF Typed, Types, vars, guardVars, waiters, user, receiver, relays
  <2>2. Steps'
    BY <1>4 DEF Typed, Steps, vars, guardVars, waiters, user, receiver, relays
  <2> QED BY <2>1, <2>2 DEF Typed
<1> QED BY <1>1, <1>2, <1>3, <1>4 DEF Next

LEMMA AlwaysTyped == Spec => []Typed
BY TypedInit, TypedKept, PTL DEF Spec

(* Both threads, the waiters and the relays keep to their types: no circuit *)
(* has more nodes, and asks for no more, than create_circuit was told.      *)
THEOREM TypeCorrect == Spec => []TypeOK
<1>1. Init => kept \subseteq Ids
  BY DEF Init
<1>2. Typed /\ kept \subseteq Ids /\ [Next]_vars => (kept \subseteq Ids)'
  <2> SUFFICES ASSUME Typed, kept \subseteq Ids, [Next]_vars, kept' # kept
               PROVE  kept' \subseteq Ids
    OBVIOUS
  <2>1. PICK who \in {"user", "receiver"} : DestroyRaises(who)
    BY DEF Next, UserStep, ReceiverStep, Relay, vars
  <2>2. CircuitOf(who) \in Ids
    <3>1. who = "user" => cur \in Ids
      BY <2>1, UserHasCircuit DEF DestroyRaises, PcOf
    <3> QED BY <2>1, <3>1, CellsNamed DEF CircuitOf
  <2> QED BY <2>1, <2>2 DEF DestroyRaises
<1>3. Typed /\ kept \subseteq Ids => TypeOK
  BY DEF Typed, TypeOK
<1> QED BY <1>1, <1>2, <1>3, AlwaysTyped, PTL DEF Spec

-----------------------------------------------------------------------------
(***************************************************************************)
(* NoOrphans.                                                               *)
(***************************************************************************)

OnlyCurrent ==
  /\ circuits \subseteq {cur}
  /\ upc \in {"start", "closed"} => circuits = {}
  /\ upc = "raised" => circuits \subseteq kept

(***************************************************************************)
(* Whatever the receiver destroys meanwhile, the user leaves no circuit of  *)
(* a failed attempt, and none that he has closed, in the guard's list, but  *)
(* for those whose destroy raised (create_circuit, destroy_circuit).        *)
(***************************************************************************)
THEOREM NoneOrphaned == Spec => []NoOrphans
<1>1. Init => OnlyCurrent
  BY DEF Init, OnlyCurrent
<1>2. OnlyCurrent /\ [Next]_vars => OnlyCurrent'
  <2> SUFFICES ASSUME OnlyCurrent, [Next]_vars PROVE OnlyCurrent'
    OBVIOUS
  <2> USE DEF OnlyCurrent
  <2>1. ASSUME NEW who \in {"user", "receiver"}, Destroy(who), UNCHANGED kept
        PROVE  OnlyCurrent'
    <3>1. CASE Unmap(who)
      <4>1. CASE who = "user"
        <5>1. circuits' = {} /\ UNCHANGED cur
          BY <3>1, <4>1 DEF Unmap, CircuitOf
        <5> QED BY <5>1
      <4>2. CASE who = "receiver"
        <5>1. circuits' \subseteq circuits /\ UNCHANGED <<cur, upc, kept>>
          BY <2>1, <3>1, <4>2 DEF Unmap, GotoOf
        <5> QED BY <5>1
      <4> QED BY <4>1, <4>2
    <3>2. CASE ~Unmap(who)
      BY <2>1, <3>2 DEF Destroy, BeginDestroy, EndDestroy, GotoOf, PcOf
    <3> QED BY <3>1, <3>2
  <2>2. ASSUME UserAct, ~Destroy("user"), UNCHANGED kept PROVE OnlyCurrent'
    <3>1. CASE NewCircuit
      BY <3>1 DEF NewCircuit
    <3>2. CASE Answered \/ Return \/ Close
      BY <3>2 DEF Answered, Return, Close, guardVars
    <3>3. CASE BeginCreate
      BY <3>3 DEF BeginCreate, Request
    <3>4. CASE Unanswered
      BY <3>4 DEF Unanswered, Fail
    <3>5. CASE Check \/ Remove
      BY <3>5 DEF Check, Remove, GoOn, Fail, guardVars
    <3>6. CASE AcceptCreated \/ Connect \/ AcceptExtended
      BY <3>6 DEF AcceptCreated, Connect, AcceptExtended, Fail
    <3>7. CASE Extend
      BY <3>7 DEF Extend, Request, Fail
    <3> QED BY <2>2, <3>1, <3>2, <3>3, <3>4, <3>5, <3>6, <3>7 DEF UserAct
  <2>3. ASSUME ReceiverAct, ~Destroy("receiver"), UNCHANGED kept PROVE OnlyCurrent'
    BY <2>3 DEF ReceiverAct, Take, Handle, Deliver, RemoveCalled, ReceiverKeeps, user,
                guardVars
  <2>4. ASSUME NEW c \in Ids, Relay(c) PROVE OnlyCurrent'
    BY <2>4 DEF Relay, Reply, Truncate, Refuse, RelaysKeep, user, guardVars
  <2>5. CASE UNCHANGED vars
    BY <2>5 DEF vars, guardVars, user
  <2>8. ASSUME NEW who \in {"user", "receiver"}, DestroyRaises(who) PROVE OnlyCurrent'
    BY <2>8 DEF DestroyRaises, CircuitOf, PcOf, GotoOf, guardVars
  <2>6. ASSUME UserStep PROVE OnlyCurrent'
    BY <2>1, <2>2, <2>6, <2>8 DEF UserStep
  <2>7. ASSUME ReceiverStep PROVE OnlyCurrent'
    BY <2>1, <2>3, <2>7, <2>8 DEF ReceiverStep
  <2> QED BY <2>4, <2>5, <2>6, <2>7 DEF Next
<1>3. OnlyCurrent => NoOrphans
  BY DEF OnlyCurrent, NoOrphans
<1> QED BY <1>1, <1>2, <1>3, PTL DEF Spec

-----------------------------------------------------------------------------
(***************************************************************************)
(* The lock, and RemovedNotConnected.                                       *)
(***************************************************************************)

(* Of the lock of a circuit that is not the user's he releases nothing.     *)
LEMMA ReleaseIs ==
  ASSUME Typed, NEW c \in Ids, Release(c)
  PROVE  /\ \A d \in Ids \ {c} : state_lock'[d] = state_lock[d]
         /\ state_lock'[c] = IF state_lock[c] = "user" THEN "free" ELSE state_lock[c]
BY DEF Release, Typed, Types

LEMMA LocksInit == Init => Locks
BY DEF Init, Locks, InCreate, Asking

LEMMA LocksKept == Typed /\ Locks /\ [Next]_vars => Locks'
<1> SUFFICES ASSUME Typed, Locks, [Next]_vars PROVE Locks'
  OBVIOUS
<1>1. ASSUME Destroy("user") PROVE Locks'
  <2>1. cur \in Ids /\ UNCHANGED <<rpc, rcell, cur, nodes>>
    BY <1>1, DestroySteps, UserHasCircuit
  <2>2. CASE BeginDestroy("user")
    BY <2>1, <2>2, <1>1
       DEF BeginDestroy, GotoOf, PcOf, CircuitOf, Locks, InCreate, Asking, Typed, Types
  <2>3. CASE EndDestroy("user")
    BY <2>1, <2>3 DEF EndDestroy, GotoOf, PcOf, CircuitOf, Locks, InCreate, Asking, Typed, Types
  <2>4. CASE Unmap("user")
    BY <2>1, <2>4, AfterCloseIs DEF Unmap, GotoOf, PcOf, CircuitOf, Locks, InCreate, Asking
  <2> QED BY <1>1, <2>2, <2>3, <2>4 DEF Destroy
<1>2. ASSUME Destroy("receiver") PROVE Locks'
  <2>1. rcell[2] \in Ids /\ UNCHANGED <<upc, rcell, cur, nodes>>
    BY <1>2, DestroySteps DEF Typed, Types, Cell
  <2>2. CASE BeginDestroy("receiver")
    BY <2>1, <2>2 DEF BeginDestroy, GotoOf, PcOf, CircuitOf, Locks, InCreate, Typed, Types
  <2>3. CASE EndDestroy("receiver")
    BY <2>1, <2>3 DEF EndDestroy, GotoOf, PcOf, CircuitOf, Locks, InCreate, Typed, Types
  <2>4. CASE Unmap("receiver")
    BY <2>1, <2>4 DEF Unmap, GotoOf, PcOf, CircuitOf, Locks, InCreate
  <2> QED BY <1>2, <2>2, <2>3, <2>4 DEF Destroy
<1>3. ASSUME UserAct, ~Destroy("user") PROVE Locks'
  <2>1. UNCHANGED <<rpc, rcell>>
    BY <1>3 DEF UserAct, NewCircuit, BeginCreate, Answered, Unanswered, Check, Remove,
         AcceptCreated, Connect, AcceptExtended, Extend, Return, Close, UserKeeps, receiver
  <2> USE <2>1 DEF Locks, InCreate, Asking
  <2>2. CASE NewCircuit
    BY <2>2 DEF NewCircuit
  <2>3. CASE BeginCreate
    <3>1. cur \in Ids /\ nodes[cur] = 0 /\ upc = "create"
      BY <2>3, UserHasCircuit DEF BeginCreate, Typed, Steps
    <3> QED BY <2>3, <3>1 DEF BeginCreate, Request, Typed, Types
  <2>4. CASE Answered \/ Return \/ Close
    BY <2>4 DEF Answered, Return, Close, guardVars
  <2>5. ASSUME NEW reason, Fail(reason), upc \in {"waiting", "remove", "accept", "build"},
               UNCHANGED <<cur, nodes>>
        PROVE  Locks'
    <3>1. cur \in Ids
      BY <2>5, UserHasCircuit
    <3>2. /\ \A d \in Ids \ {cur} : state_lock'[d] = state_lock[d]
          /\ state_lock'[cur] = IF state_lock[cur] = "user" THEN "free" ELSE state_lock[cur]
      BY <2>5, <3>1, ReleaseIs DEF Fail
    <3> QED BY <2>5, <3>1, <3>2 DEF Fail
  <2>6. CASE Unanswered
    BY <2>5, <2>6 DEF Unanswered
  <2>7. CASE Check
    BY <2>7 DEF Check, GoOn, guardVars
  <2>8. CASE Remove
    <3>1. CASE Fail("ValueError")
      BY <2>5, <2>8, <3>1 DEF Remove
    <3>2. CASE GoOn /\ UNCHANGED state_lock
      BY <2>8, <3>2 DEF Remove, GoOn
    <3> QED BY <2>8, <3>1, <3>2 DEF Remove
  <2>9. CASE AcceptCreated
    <3>1. cur \in Ids /\ nodes[cur] = 0 /\ upc = "accept"
      BY <2>9, UserHasCircuit DEF AcceptCreated
    <3> QED BY <2>9, <3>1 DEF AcceptCreated
  <2>10. CASE Connect
    <3>1. cur \in Ids /\ upc = "connect" /\ nodes[cur] > 0
      BY <2>10, UserHasCircuit DEF Connect, Typed, Steps
    <3>2. /\ \A d \in Ids \ {cur} : state_lock'[d] = state_lock[d]
          /\ state_lock'[cur] = IF state_lock[cur] = "user" THEN "free" ELSE state_lock[cur]
      BY <2>10, <3>1, ReleaseIs DEF Connect
    <3> QED BY <2>10, <3>1, <3>2 DEF Connect
  <2>11. CASE AcceptExtended
    <3>1. cur \in Ids /\ nodes[cur] > 0 /\ nodes[cur] \in Nat
      BY <2>11, UserHasCircuit DEF AcceptExtended
    <3>2. CASE got = "TRUNCATED"
      BY <2>5, <2>11, <3>2 DEF AcceptExtended
    <3>3. CASE got # "TRUNCATED"
      BY <2>11, <3>1, <3>3 DEF AcceptExtended
    <3> QED BY <3>2, <3>3
  <2>12. CASE Extend
    <3>1. cur \in Ids /\ nodes[cur] > 0 /\ upc = "build"
      BY <2>12, UserHasCircuit DEF Extend, Typed, Steps
    <3>2. CASE state[cur] = "Connected"
      BY <2>12, <3>1, <3>2 DEF Extend, Request
    <3>3. CASE state[cur] # "Connected"
      BY <2>5, <2>12, <3>3 DEF Extend
    <3> QED BY <3>2, <3>3
  <2> QED BY <1>3, <2>2, <2>3, <2>4, <2>6, <2>7, <2>8, <2>9, <2>10, <2>11, <2>12 DEF UserAct
<1>4. ASSUME ReceiverAct, ~Destroy("receiver") PROVE Locks'
  <2>1. UNCHANGED <<state_lock, upc, cur, nodes>> /\ rpc # "destroy" /\ rpc' # "destroy"
    BY <1>4 DEF ReceiverAct, Take, Handle, Deliver, RemoveCalled, ReceiverKeeps, user,
                guardVars
  <2> QED BY <2>1 DEF Locks, InCreate
<1>5. ASSUME NEW c \in Ids, Relay(c) PROVE Locks'
  BY <1>5 DEF Relay, Reply, Truncate, Refuse, RelaysKeep, user, receiver, guardVars,
              Locks, InCreate
<1>6. CASE UNCHANGED vars
  BY <1>6 DEF vars, guardVars, user, receiver, Locks, InCreate
<1>9. ASSUME NEW who \in {"user", "receiver"}, DestroyRaises(who) PROVE Locks'
  BY <1>9 DEF DestroyRaises, PcOf, GotoOf, guardVars, relays, Locks, InCreate, Asking
<1>7. ASSUME UserStep PROVE Locks'
  BY <1>1, <1>3, <1>7, <1>9 DEF UserStep
<1>8. ASSUME ReceiverStep PROVE Locks'
  BY <1>2, <1>4, <1>8, <1>9 DEF ReceiverStep
<1> QED BY <1>5, <1>6, <1>7, <1>8 DEF Next

LEMMA RemovedInit == Init => Removed
BY CircuitsAssumption DEF Init, Removed, InCreate, Asking, Ids

(* A circuit that is being destroyed stays down, and its lock is another's  *)
(* than create's.                                                           *)
LEMMA RemovedKept == Typed /\ Locks /\ Removed /\ [Next]_vars => Removed'
<1> SUFFICES ASSUME Typed, Locks, Removed, [Next]_vars PROVE Removed'
  OBVIOUS
<1>1. ASSUME Destroy("user") PROVE Removed'
  <2>1. /\ cur \in Ids /\ UNCHANGED <<rpc, rcell, cur, nodes, asked, cells>>
        /\ upc \notin Asking \cup {"create", "connect"}
        /\ upc' \notin Asking \cup {"create", "connect"}
    BY <1>1, DestroySteps, AfterCloseIs, UserHasCircuit DEF Asking
  <2>2. CASE BeginDestroy("user")
    BY <2>1, <2>2 DEF BeginDestroy, GotoOf, PcOf, CircuitOf, Removed, InCreate, Down
  <2>3. CASE EndDestroy("user")
    BY <2>1, <2>3 DEF EndDestroy, GotoOf, PcOf, CircuitOf, Removed, InCreate, Down, Typed, Types
  <2>4. CASE Unmap("user")
    <3>1. upc' # "unmap"
      BY <2>4, AfterCloseIs DEF Unmap, GotoOf
    <3> QED BY <2>1, <2>4, <3>1 DEF Unmap, PcOf, CircuitOf, Removed, InCreate, Down
  <2> QED BY <1>1, <2>2, <2>3, <2>4 DEF Destroy
<1>2. ASSUME Destroy("receiver") PROVE Removed'
  <2>1. rcell[2] \in Ids /\ UNCHANGED <<upc, rcell, cur, nodes, asked, cells>> /\ rpc # "idle"
    BY <1>2, DestroySteps DEF Typed, Types, Cell
  <2>2. upc = "create" \/ InCreate => cur \in Ids
    BY UserHasCircuit DEF InCreate, Asking
  <2>3. rpc \in {"close", "destroy"} /\ ~(rpc = "close" /\ state_lock[rcell[2]] # "free") =>
          ~((upc = "create" \/ InCreate) /\ rcell[2] = cur)
    <3>1. SUFFICES ASSUME rpc \in {"close", "destroy"}, upc = "create" \/ InCreate,
                          rcell[2] = cur, rpc = "close" => state_lock[rcell[2]] = "free"
                   PROVE  FALSE
      OBVIOUS
    <3>2. InCreate => state_lock[cur] = "user"
      BY <2>2 DEF Locks
    <3>3. rpc = "destroy" => state_lock[cur] = "receiver"
      BY <2>1, <3>1 DEF Locks
    <3>4. upc = "create"
      BY <3>1, <3>2, <3>3
    <3>5. asked[cur] = 0
      BY <3>4 DEF Typed, Steps, Quiet
    <3> QED BY <3>1, <3>5 DEF Removed
  <2>4. CASE BeginDestroy("receiver")
    BY <2>1, <2>3, <2>4
       DEF BeginDestroy, GotoOf, PcOf, CircuitOf, Removed, InCreate, Down
  <2>5. CASE EndDestroy("receiver")
    BY <2>1, <2>3, <2>5
       DEF EndDestroy, GotoOf, PcOf, CircuitOf, Removed, InCreate, Down, Typed, Types
  <2>6. CASE Unmap("receiver")
    BY <2>1, <2>6 DEF Unmap, GotoOf, PcOf, CircuitOf, Removed, InCreate, Down
  <2> QED BY <1>2, <2>4, <2>5, <2>6 DEF Destroy
<1>3. ASSUME UserAct, ~Destroy("user") PROVE Removed'
  <2>1. UNCHANGED <<rpc, rcell, cells>>
    BY <1>3 DEF UserAct, NewCircuit, BeginCreate, Answered, Unanswered, Check, Remove,
         AcceptCreated, Connect, AcceptExtended, Extend, Return, Close, UserKeeps, receiver
  <2> USE <2>1 DEF Removed, InCreate, Asking, Down
  <2>2. CASE NewCircuit
    <3>1. /\ cur' = cur + 1 /\ circuits' = circuits \cup {cur + 1} /\ upc' = "create"
          /\ UNCHANGED <<state, asked, nodes>> /\ upc = "start"
      BY <2>2 DEF NewCircuit
    <3>2. cur \in Nat /\ cur + 1 \in Ids
      <4>1. cur \in 0..Tries /\ cur < Tries
        BY <3>1, CircuitsAssumption DEF Typed, Types, Steps, Ids
      <4> QED BY <4>1, CircuitsAssumption DEF Ids
    <3>3. asked[cur + 1] = 0
      BY <3>2 DEF Typed, Steps
    <3>4. ~(rpc = "unmap" /\ rcell[2] = cur + 1)
      BY <3>3
    <3>5. \A c \in Ids : c <= cur + 1 /\ c # cur + 1 => c <= cur
      BY <3>2 DEF Ids
    <3> QED BY <3>1, <3>4, <3>5
  <2>3. CASE BeginCreate
    <3>1. cur \in Ids /\ nodes[cur] = 0 /\ upc = "create" /\ asked[cur] = 0 /\ cur \in circuits
      BY <2>3, UserHasCircuit DEF BeginCreate, Typed, Steps, Quiet
    <3>2. /\ upc' = "waiting" /\ UNCHANGED <<cur, circuits, nodes>>
          /\ \A c \in Ids \ {cur} : state'[c] = state[c]
      BY <2>3, <3>1 DEF BeginCreate, Request, Typed, Types
    <3>3. asked' \in [Ids -> Nat] /\ \A c \in Ids : asked[c] > 0 => asked'[c] > 0
      <4>1. asked' = [asked EXCEPT ![cur] = 1]
        BY <2>3 DEF BeginCreate, Request
      <4> QED BY <3>1, <4>1 DEF Typed, Types
    <3>4. rcell[2] \in Ids /\ \A i \in 1..Len(cells) : cells[i][2] \in Ids
      BY CellsNamed
    <3>5. rpc = "unmap" => rcell[2] # cur
      BY <3>1
    <3> QED BY <3>1, <3>2, <3>3, <3>4, <3>5
  <2>4. CASE Answered \/ Return \/ Close
    BY <2>4 DEF Answered, Return, Close, guardVars
  <2>5. ASSUME NEW reason, Fail(reason), UNCHANGED <<cur, nodes, asked, state, circuits>>
        PROVE  Removed'
    BY <2>5 DEF Fail
  <2>6. CASE Unanswered
    BY <2>5, <2>6 DEF Unanswered
  <2>7. CASE Check
    BY <2>7 DEF Check, GoOn, guardVars
  <2>8. CASE Remove
    <3>1. CASE Fail("ValueError")
      BY <2>5, <2>8, <3>1 DEF Remove
    <3>2. CASE GoOn
      BY <2>8, <3>2 DEF Remove, GoOn
    <3> QED BY <2>8, <3>1, <3>2 DEF Remove
  <2>9. CASE AcceptCreated
    BY <2>9 DEF AcceptCreated
  <2>10. CASE Connect
    <3>1. cur \in Ids /\ upc = "connect"
      BY <2>10, UserHasCircuit DEF Connect
    <3> QED BY <2>10, <3>1 DEF Connect, Typed, Types
  <2>11. CASE AcceptExtended
    <3>1. CASE got = "TRUNCATED"
      BY <2>5, <2>11, <3>1 DEF AcceptExtended
    <3>2. CASE got # "TRUNCATED"
      BY <2>11, <3>2 DEF AcceptExtended
    <3> QED BY <3>1, <3>2
  <2>12. CASE Extend
    <3>1. cur \in Ids /\ nodes[cur] > 0 /\ upc = "build"
      BY <2>12, UserHasCircuit DEF Extend, Typed, Steps
    <3>2. CASE state[cur] = "Connected"
      <4>1. asked' = [asked EXCEPT ![cur] = nodes[cur] + 1]
        BY <2>12, <3>2 DEF Extend, Request
      <4>2. \A c \in Ids : asked[c] > 0 => asked'[c] > 0
        BY <3>1, <4>1, Numbers DEF Typed, Types
      <4>3. rcell[2] \in Ids /\ \A i \in 1..Len(cells) : cells[i][2] \in Ids
        BY CellsNamed
      <4>4. upc' = "waiting" /\ UNCHANGED <<cur, circuits, nodes, state>>
        BY <2>12, <3>2 DEF Extend, Request
      <4> QED BY <3>1, <4>2, <4>3, <4>4
    <3>3. CASE state[cur] # "Connected"
      BY <2>5, <2>12, <3>3 DEF Extend
    <3> QED BY <3>2, <3>3
  <2> QED BY <1>3, <2>2, <2>3, <2>4, <2>6, <2>7, <2>8, <2>9, <2>10, <2>11, <2>12 DEF UserAct
<1>4. ASSUME ReceiverAct, ~Destroy("receiver") PROVE Removed'
  <2>1. UNCHANGED <<circuits, upc, cur, nodes, asked>> /\ rpc' # "unmap"
    BY <1>4 DEF ReceiverAct, Take, Handle, Deliver, RemoveCalled, ReceiverKeeps, user,
                guardVars, relays
  <2>2. \A c \in Ids : Down(c) => Down(c)'
    BY <1>4 DEF ReceiverAct, Take, Handle, Deliver, RemoveCalled, guardVars, Down, Typed,
                Types
  <2>3. /\ rpc' # "idle" => asked[rcell'[2]] > 0
        /\ \A i \in 1..Len(cells') : asked[cells'[i][2]] > 0
    <3>1. CASE Take
      <4>1. cells \in Seq(Cell) /\ cells # <<>> /\ rcell' = Head(cells) /\ cells' = Tail(cells)
        BY <3>1 DEF Take, Typed, Types
      <4>2. rcell' = cells[1] /\ 1 \in 1..Len(cells)
        BY <4>1
      <4>3. \A i \in 1..Len(cells') : cells'[i] = cells[i + 1] /\ i + 1 \in 1..Len(cells)
        BY <4>1
      <4> QED BY <4>2, <4>3 DEF Removed
    <3>2. CASE ~Take
      BY <1>4, <3>2 DEF ReceiverAct, Handle, Deliver, RemoveCalled, Removed
    <3> QED BY <3>1, <3>2
  <2>4. upc = "unmap" \/ upc = "create" \/ InCreate => cur \in Ids
    BY UserHasCircuit DEF InCreate, Asking
  <2> QED BY <2>1, <2>2, <2>3, <2>4 DEF Removed, InCreate
<1>5. ASSUME NEW c \in Ids, Relay(c) PROVE Removed'
  <2>1. UNCHANGED <<guardVars, user, receiver, asked>>
    BY <1>5 DEF Relay, Reply, Truncate, Refuse, RelaysKeep
  <2>2. PICK type : cells' = Append(cells, <<type, c>>) /\ asked[c] > 0
    <3>1. asked[c] \in Nat /\ path[c] \in Nat /\ path[c] <= asked[c]
      BY Numbers DEF Typed, Steps
    <3> QED BY <1>5, <3>1 DEF Relay, Reply, Truncate, Refuse
  <2>3. \A i \in 1..Len(cells') : asked[cells'[i][2]] > 0
    <3>1. cells \in Seq(Cell)
      BY DEF Typed, Types
    <3>2. ASSUME NEW i \in 1..Len(cells') PROVE asked[cells'[i][2]] > 0
      <4>1. CASE i \in 1..Len(cells)
        BY <2>2, <3>1, <4>1 DEF Removed
      <4>2. CASE i \notin 1..Len(cells)
        <5>1. cells'[i] = <<type, c>>
          BY <2>2, <3>1, <4>2
        <5> QED BY <2>2, <5>1
      <4> QED BY <4>1, <4>2
    <3> QED BY <3>2
  <2> QED BY <2>1, <2>3 DEF Removed, InCreate, Down, guardVars, user, receiver
<1>6. CASE UNCHANGED vars
  BY <1>6 DEF vars, guardVars, user, receiver, relays, Removed, InCreate, Down
<1>9. ASSUME NEW who \in {"user", "receiver"}, DestroyRaises(who) PROVE Removed'
  BY <1>9 DEF DestroyRaises, PcOf, GotoOf, guardVars, relays, Removed, InCreate, Asking, Down
<1>7. ASSUME UserStep PROVE Removed'
  BY <1>1, <1>3, <1>7, <1>9 DEF UserStep
<1>8. ASSUME ReceiverStep PROVE Removed'
  BY <1>2, <1>4, <1>8, <1>9 DEF ReceiverStep
<1> QED BY <1>5, <1>6, <1>7, <1>8 DEF Next

(***************************************************************************)
(* A circuit that cells are not routed to any more never looks connected:   *)
(* create holds the lock a DESTROY needs until its last assignment          *)
(* (TorCircuit.create, destroy, TorGuard.destroy_circuit).                  *)
(***************************************************************************)
THEOREM RemovedStayDown == Spec => []RemovedNotConnected
<1>1. Locks /\ Removed => RemovedNotConnected
  BY DEF Removed, RemovedNotConnected, Down
<1> QED BY <1>1, AlwaysTyped, LocksInit, LocksKept, RemovedInit, RemovedKept, PTL DEF Spec

-----------------------------------------------------------------------------
(***************************************************************************)
(* Answers and waiters.                                                     *)
(***************************************************************************)

Answering == OneAnswer /\ Waiters

LEMMA AnsweringInit == Init => Answering
<1> SUFFICES ASSUME Init PROVE Answering
  OBVIOUS
<1>1. Typed
  BY TypedInit
<1>2. \A c \in Ids : ~Held(c) /\ Queued(c) = {}
  BY DEF Init, Held, Queued
<1>3. OneAnswer
  BY <1>2 DEF Init, OneAnswer, UnderWay, Quiet
<1>4. Waiters
  BY DEF Init, Waiters, Quiet
<1> QED BY <1>3, <1>4 DEF Answering

(* Of a circuit for which nothing has been asked nothing is under way, and  *)
(* nobody waits.                                                            *)
LEMMA NothingOfNew ==
  ASSUME Typed, Removed, Waiters, NEW c \in Ids, asked[c] = 0
  PROVE  ~UnderWay(c) /\ \A e \in listed : e[1] # c
<1>1. ~Held(c)
  BY DEF Removed, Held, IsAnswer
<1>2. Queued(c) = {}
  BY DEF Removed, Queued, IsAnswer
<1>3. ASSUME NEW e \in listed, e[1] = c PROVE FALSE
  <2>1. e[3] + 1 = 0 /\ e[3] \in Requests
    BY <1>3 DEF Waiters, Typed, Types
  <2> QED BY <2>1 DEF Requests
<1> QED BY <1>1, <1>2, <1>3 DEF UnderWay

(* A step of the user that asks for nothing. *)
LEMMA NoRequestKept ==
  ASSUME Typed, Answering, UNCHANGED <<rpc, rcell, rwaiter, cells, path, answer, asked>>,
         listed' \subseteq listed
  PROVE  /\ \A c \in Ids : UnderWay(c)' = UnderWay(c) /\ Held(c)' = Held(c)
                            /\ Queued(c)' = Queued(c)
         /\ \A c \in Ids : UnderWay(c)' => path'[c] = asked'[c]
         /\ \A e \in listed' : e[3] + 1 = asked'[e[1]] /\ (e[3] = 0 <=> e[2] = "CREATED")
         /\ \A c \in Ids : \A w \in Requests : answer'[c][w] # "none" =>
              /\ w < asked'[c]
              /\ w = 0 <=> answer'[c][w] = "CREATED"
              /\ answer'[c][w] # "TRUNCATED" => w < path'[c]
<1>1. \A c \in Ids : UnderWay(c)' = UnderWay(c) /\ Held(c)' = Held(c) /\ Queued(c)' = Queued(c)
  BY DEF UnderWay, Held, Queued, IsAnswer
<1> QED BY <1>1 DEF Answering, OneAnswer, Waiters

(* And if the user is then nowhere where something is claimed of him. *)
LEMMA ElsewhereKept ==
  ASSUME Typed, Answering,
         UNCHANGED <<rpc, rcell, rwaiter, cells, path, answer, asked, nodes>>,
         listed' \subseteq listed, upc' \notin Quiet \cup {"check", "remove", "accept"}
  PROVE  Answering'
<1>1. OneAnswer'
  BY NoRequestKept DEF Answering, OneAnswer
<1>2. Waiters'
  BY NoRequestKept DEF Answering, Waiters
<1> QED BY <1>1, <1>2 DEF Answering

(* A request: nothing of the circuit is under way, and nobody waits.        *)
LEMMA RequestKept ==
  ASSUME Typed, Answering, upc \in {"create", "build"}, nodes[cur] < Hops,
         Request(nodes[cur]),
         UNCHANGED <<rpc, rcell, rwaiter, cells, path, answer, nodes, cur>>
  PROVE  Answering'
<1> DEFINE n == nodes[cur]
<1>1. cur \in Ids /\ n \in Requests /\ n \in Nat /\ asked[cur] = n
  BY UserHasCircuit, CircuitsAssumption DEF Requests, Typed, Steps, Quiet
<1>2. /\ upc' = "waiting" /\ asked'[cur] = n + 1
      /\ \A c \in Ids \ {cur} : asked'[c] = asked[c]
  BY RequestTyped
<1>3. ~UnderWay(cur) /\ \A e \in listed : e[1] # cur
  BY DEF Answering, OneAnswer, Waiters, Quiet
<1>4. \A c \in Ids : UnderWay(c)' = UnderWay(c) /\ Held(c)' = Held(c) /\ Queued(c)' = Queued(c)
  BY DEF UnderWay, Held, Queued, IsAnswer
<1>5. \A c \in Ids : asked[c] <= asked'[c] /\ asked[c] \in Nat /\ asked'[c] \in Nat
  BY <1>1, <1>2, Numbers
<1>6. OneAnswer'
  <2>1. \A c \in Ids : UnderWay(c) => path[c] = asked'[c]
    BY <1>2, <1>3 DEF Answering, OneAnswer
  <2>2. ASSUME NEW c \in Ids, NEW w \in Requests, UnderWay(c),
               answer[c][w] \in {"CREATED", "EXTENDED"}, w + 1 = asked'[c]
        PROVE  FALSE
    <3>1. c # cur
      BY <1>3, <2>2
    <3> QED BY <1>2, <2>2, <3>1 DEF Answering, OneAnswer
  <2> QED BY <1>2, <1>4, <2>1, <2>2 DEF Answering, OneAnswer, Quiet
<1>7. Waiters'
  <2>1. ASSUME NEW e \in listed'
        PROVE  e[3] + 1 = asked'[e[1]] /\ (e[3] = 0 <=> e[2] = "CREATED")
    <3>1. CASE e \in listed
      <4>1. e[1] \in Ids \ {cur}
        BY <1>3, <3>1 DEF Typed, Types
      <4> QED BY <1>2, <3>1, <4>1 DEF Answering, Waiters
    <3>2. CASE e \notin listed
      <4>1. PICK i \in DOMAIN Awaited(n) : e = <<cur, Awaited(n)[i], n>>
        BY <3>2 DEF Request
      <4>2. n = 0 <=> Awaited(n)[i] = "CREATED"
        <5>1. CASE n = 0
          BY <4>1, <5>1 DEF Awaited
        <5>2. CASE n # 0
          BY <4>1, <5>2 DEF Awaited
        <5> QED BY <5>1, <5>2
      <4> HIDE DEF n
      <4> QED BY <1>2, <4>1, <4>2
    <3> QED BY <3>1, <3>2
  <2>2. ASSUME NEW c \in Ids, NEW w \in Requests, w < asked[c] PROVE w < asked'[c]
    <3>1. w \in Nat
      BY CircuitsAssumption DEF Requests
    <3> QED BY <1>5, <2>2, <3>1
  <2>3. rcell[2] \in Ids /\ rwaiter \in Requests
    BY DEF Typed, Types, Cell
  <2> QED BY <1>2, <2>1, <2>2, <2>3 DEF Answering, Waiters, Quiet
<1> QED BY <1>6, <1>7 DEF Answering

LEMMA UserAnswering ==
  ASSUME Typed, Removed, Answering, UserAct PROVE Answering'
<1>1. CASE Destroy("user")
  <2>1. upc' \notin Quiet \cup {"check", "remove", "accept"}
    BY <1>1, DestroySteps, AfterCloseIs DEF Quiet
  <2> QED BY <1>1, <2>1, DestroySteps, ElsewhereKept
<1>2. ASSUME UserKeeps
      PROVE  UNCHANGED <<rpc, rcell, rwaiter, cells, path>>
  BY <1>2 DEF UserKeeps, receiver
<1>3. CASE NewCircuit
  <2>1. /\ cur' = cur + 1 /\ upc' = "create" /\ upc = "start"
        /\ UNCHANGED <<rpc, rcell, rwaiter, cells, path, answer, asked, nodes, listed>>
    BY <1>2, <1>3 DEF NewCircuit, waiters
  <2>2. cur + 1 \in Ids /\ cur \in Nat
    <3>1. cur \in 0..Tries /\ cur < Tries
      BY <2>1, CircuitsAssumption DEF Typed, Types, Steps, Ids
    <3> QED BY <3>1, CircuitsAssumption DEF Ids
  <2>3. asked[cur + 1] = 0
    BY <2>2 DEF Typed, Steps
  <2>4. ~UnderWay(cur + 1) /\ \A e \in listed : e[1] # cur + 1
    BY <2>2, <2>3, NothingOfNew DEF Answering
  <2>5. OneAnswer'
    BY <2>1, <2>2, <2>4, NoRequestKept DEF Answering, OneAnswer
  <2>6. Waiters'
    BY <2>1, <2>4, NoRequestKept DEF Answering, Waiters
  <2> QED BY <2>5, <2>6 DEF Answering
<1>4. CASE BeginCreate
  <2>1. nodes[cur] = 0 /\ nodes[cur] < Hops
    BY <1>4, CircuitsAssumption DEF BeginCreate, Typed, Steps
  <2> QED BY <1>2, <1>4, <2>1, RequestKept DEF BeginCreate
<1>5. CASE Answered
  <2>1. /\ cur \in Ids /\ nodes[cur] \in Requests /\ asked[cur] = nodes[cur] + 1
        /\ upc = "waiting"
    BY <1>5, UserAsks DEF Answered, Asking
  <2>2. /\ UNCHANGED <<rpc, rcell, rwaiter, cells, path, answer, asked, nodes, listed, cur>>
        /\ upc' = "check" /\ turn' = 1
        /\ got' = answer[cur][nodes[cur]] /\ got' # "none"
    BY <1>2, <1>5 DEF Answered, guardVars, waiters
  <2>3. nodes[cur] = 0 <=> got' = "CREATED"
    BY <2>1, <2>2 DEF Answering, Waiters
  <2>4. ASSUME got' # "TRUNCATED" PROVE ~UnderWay(cur) /\ path[cur] = asked[cur]
    <3>1. got' \in {"CREATED", "EXTENDED"}
      BY <2>1, <2>2, <2>4 DEF Typed, Types, Answers
    <3>2. ~UnderWay(cur)
      BY <2>1, <2>2, <3>1 DEF Answering, OneAnswer
    <3>3. nodes[cur] < path[cur] /\ path[cur] <= nodes[cur] + 1
      BY <2>1, <2>2, <2>4 DEF Answering, Waiters, Typed, Steps
    <3> QED BY <2>1, <3>2, <3>3, Numbers
  <2>5. OneAnswer'
    BY <2>1, <2>2, <2>4, NoRequestKept DEF Answering, OneAnswer, Quiet
  <2>6. Waiters'
    BY <2>1, <2>2, <2>3, NoRequestKept DEF Answering, Waiters, Quiet
  <2> QED BY <2>5, <2>6 DEF Answering
<1>6. CASE Unanswered
  BY <1>2, <1>6, ElsewhereKept DEF Unanswered, Fail, Quiet, waiters
<1>7. ASSUME Check \/ (Remove /\ ~Fail("ValueError")) PROVE Answering'
  <2>1. /\ cur \in Ids /\ nodes[cur] \in Requests /\ asked[cur] = nodes[cur] + 1
        /\ upc \in {"check", "remove"}
    BY <1>7, UserAsks DEF Check, Remove, Asking
  <2>2. UNCHANGED <<rpc, rcell, rwaiter, cells, path, answer, asked, nodes, got, cur>>
    BY <1>2, <1>7 DEF Check, Remove, guardVars, waiters
  <2>3. /\ listed' \subseteq listed
        /\ \/ upc' = "remove" /\ turn' = turn
           \/ MyWaiter \notin listed' /\ GoOn
    BY <1>7 DEF Check, Remove, waiters
  <2>4. upc' \in {"remove", "check", "accept"}
    BY <2>3 DEF GoOn
  <2>5. upc' \in {"check", "remove"} /\ turn' = 2 => <<cur, "EXTENDED", nodes[cur]>> \notin listed'
    <3>1. CASE turn' = turn
      BY <2>1, <2>3, <3>1 DEF Answering, Waiters
    <3>2. CASE turn' # turn
      <4>1. turn' = turn + 1 /\ turn < Len(Awaited(nodes[cur])) /\ MyWaiter \notin listed'
        BY <2>3, <3>2 DEF GoOn
      <4>2. turn \in {1, 2} /\ (turn' = 2 => turn = 1)
        BY <4>1 DEF Typed, Types
      <4>3. nodes[cur] # 0 \/ turn' # 2
        BY <4>1, <4>2 DEF Awaited
      <4>4. nodes[cur] # 0 => Awaited(nodes[cur])[1] = "EXTENDED"
        BY DEF Awaited
      <4> QED BY <4>1, <4>2, <4>3, <4>4 DEF MyWaiter
    <3> QED BY <3>1, <3>2
  <2>6. upc' = "accept" => \A e \in listed' : e[1] # cur
    <3>1. SUFFICES ASSUME upc' = "accept", NEW e \in listed', e[1] = cur PROVE FALSE
      OBVIOUS
    <3>2. ~(turn < Len(Awaited(nodes[cur]))) /\ MyWaiter \notin listed'
      BY <2>3, <3>1 DEF GoOn
    <3>3. e = <<cur, e[2], e[3]>> /\ e[2] \in Answers /\ e[3] \in Requests
      BY <2>3, <3>1 DEF Typed, Types
    <3>4. e[3] + 1 = nodes[cur] + 1 /\ (e[3] = 0 <=> e[2] = "CREATED")
      BY <2>1, <2>3, <3>1 DEF Answering, Waiters
    <3>5. e[3] = nodes[cur]
      <4>1. e[3] \in Nat /\ nodes[cur] \in Nat
        BY <2>1, <3>3, Numbers DEF Requests
      <4> QED BY <3>4, <4>1
    <3>6. CASE nodes[cur] = 0
      <4>1. Len(Awaited(nodes[cur])) = 1 /\ Awaited(nodes[cur])[1] = "CREATED"
        BY <3>6 DEF Awaited
      <4>2. turn = 1
        BY <2>1, <4>1 DEF Typed, Types, Steps
      <4> QED BY <3>2, <3>3, <3>4, <3>5, <3>6, <4>1, <4>2 DEF MyWaiter
    <3>7. CASE nodes[cur] # 0
      <4>1. Len(Awaited(nodes[cur])) = 2 /\ Awaited(nodes[cur])[2] = "TRUNCATED"
        BY <3>7 DEF Awaited
      <4>2. turn = 2
        BY <3>2, <4>1 DEF Typed, Types
      <4>3. <<cur, "EXTENDED", nodes[cur]>> \notin listed
        BY <2>1, <4>2 DEF Answering, Waiters
      <4>4. e[2] # "TRUNCATED"
        BY <3>2, <3>3, <3>5, <4>1, <4>2 DEF MyWaiter
      <4>5. e[2] = "EXTENDED"
        BY <3>3, <3>4, <3>5, <3>7, <4>4 DEF Answers
      <4> QED BY <2>3, <3>3, <3>5, <4>3, <4>5
    <3> QED BY <3>6, <3>7
  <2>7. OneAnswer'
    BY <2>1, <2>2, <2>3, <2>4, NoRequestKept DEF Answering, OneAnswer, Quiet
  <2>8. Waiters'
    BY <2>1, <2>2, <2>3, <2>4, <2>5, <2>6, NoRequestKept DEF Answering, Waiters, Quiet
  <2> QED BY <2>7, <2>8 DEF Answering
<1>8. ASSUME Remove, Fail("ValueError") PROVE Answering'
  <2>1. listed' \subseteq listed
    BY <1>8 DEF Remove
  <2> QED BY <1>2, <1>8, <2>1, ElsewhereKept DEF Remove, Fail, Quiet
<1>9. ASSUME AcceptCreated \/ (AcceptExtended /\ got # "TRUNCATED") PROVE Answering'
  <2>1. /\ cur \in Ids /\ upc = "accept" /\ asked[cur] = nodes[cur] + 1
        /\ UNCHANGED <<rpc, rcell, rwaiter, cells, path, answer, asked, listed, got, cur>>
        /\ upc' \in {"connect", "build"}
        /\ nodes' = [nodes EXCEPT ![cur] = nodes[cur] + 1]
    BY <1>2, <1>9, UserAsks DEF AcceptCreated, AcceptExtended, Asking, waiters
  <2>2. got # "TRUNCATED"
    BY <1>9 DEF AcceptCreated, Answering, Waiters
  <2>3. ~UnderWay(cur) /\ path[cur] = asked[cur]
    BY <2>1, <2>2 DEF Answering, OneAnswer
  <2>4. \A c \in Ids : nodes'[c] <= path[c]
    <3>1. nodes'[cur] = path[cur] /\ \A c \in Ids \ {cur} : nodes'[c] = nodes[c]
      BY <2>1, <2>3 DEF Typed, Types
    <3> QED BY <2>1, <3>1, Numbers DEF Answering, OneAnswer
  <2>5. \A e \in listed : e[1] # cur
    BY <2>1 DEF Answering, Waiters
  <2>6. OneAnswer'
    BY <2>1, <2>3, <2>4, NoRequestKept DEF Answering, OneAnswer
  <2>7. Waiters'
    BY <2>1, <2>5, NoRequestKept DEF Answering, Waiters
  <2> QED BY <2>6, <2>7 DEF Answering
<1>10. ASSUME AcceptExtended, got = "TRUNCATED" PROVE Answering'
  BY <1>2, <1>10, ElsewhereKept DEF AcceptExtended, Fail, Quiet, waiters
<1>11. ASSUME Connect \/ Return PROVE Answering'
  <2>1. /\ UNCHANGED <<rpc, rcell, rwaiter, cells, path, answer, asked, nodes, listed, cur>>
        /\ upc \in Quiet /\ upc' \in Quiet \ {"check", "remove", "accept"}
    BY <1>2, <1>11 DEF Connect, Return, Quiet, guardVars, waiters
  <2>2. cur \in Ids
    BY <2>1, UserHasCircuit DEF Quiet
  <2>3. OneAnswer'
    BY <2>1, <2>2, NoRequestKept DEF Answering, OneAnswer
  <2>4. Waiters'
    BY <2>1, NoRequestKept DEF Answering, Waiters
  <2> QED BY <2>3, <2>4 DEF Answering
<1>12. CASE Extend
  <2>1. CASE state[cur] = "Connected"
    BY <1>2, <1>12, <2>1, RequestKept DEF Extend
  <2>2. CASE state[cur] # "Connected"
    BY <1>2, <1>12, <2>2, ElsewhereKept DEF Extend, Fail, Quiet
  <2> QED BY <2>1, <2>2
<1>13. CASE Close
  BY <1>2, <1>13, ElsewhereKept DEF Close, Quiet, guardVars, waiters
<1> QED BY <1>1, <1>3, <1>4, <1>5, <1>6, <1>7, <1>8, <1>9, <1>10, <1>11, <1>12, <1>13
        DEF UserAct

(* A step of the receiver puts no answer under way, and one that it takes   *)
(* from the cells was the only one of its circuit.                          *)
LEMMA ReceiverAnswering ==
  ASSUME Typed, Answering, ReceiverAct PROVE Answering'
<1>1. UNCHANGED <<upc, cur, turn, got, nodes, asked, path>>
  <2>1. CASE Destroy("receiver")
    BY <2>1, DestroySteps
  <2>2. CASE ~Destroy("receiver")
    BY <2>2 DEF ReceiverAct, Take, Handle, Deliver, RemoveCalled, ReceiverKeeps, user,
                relays, guardVars
  <2> QED BY <2>1, <2>2
<1>2. ASSUME UNCHANGED answer, listed' \subseteq listed \/ UNCHANGED listed,
             \A c \in Ids : UnderWay(c)' => UnderWay(c),
             \A c \in Ids : \A i, k \in Queued(c)' : i = k,
             \A c \in Ids : Held(c)' => Queued(c)' = {},
             rpc' = "deliver" =>
               /\ rwaiter' < asked[rcell'[2]]
               /\ rwaiter' = 0 <=> rcell'[1] = "CREATED"
               /\ rcell'[1] # "TRUNCATED" => rwaiter' < path[rcell'[2]]
      PROVE  Answering'
  <2>1. upc \in Quiet \cup {"check", "remove", "accept"} => cur \in Ids
    BY UserHasCircuit DEF Quiet
  <2>2. OneAnswer'
    BY <1>1, <1>2, <2>1 DEF Answering, OneAnswer
  <2>3. Waiters'
    BY <1>1, <1>2 DEF Answering, Waiters
  <2> QED BY <2>2, <2>3 DEF Answering
<1>3. ASSUME UNCHANGED cells
      PROVE  /\ \A c \in Ids : Queued(c)' = Queued(c)
             /\ \A c \in Ids : \A i, k \in Queued(c)' : i = k
  BY <1>3 DEF Queued, Answering, OneAnswer
<1>4. CASE Destroy("receiver")
  <2>1. /\ UNCHANGED <<cells, answer, listed>>
        /\ rpc \notin {"handle", "deliver"} /\ rpc' \notin {"handle", "deliver"}
    BY <1>4, DestroySteps
  <2>2. \A c \in Ids : ~Held(c)'
    BY <2>1 DEF Held
  <2> QED BY <1>2, <1>3, <2>1, <2>2 DEF UnderWay
<1>5. CASE Take
  <2>1. /\ cells \in Seq(Cell) /\ cells # <<>> /\ rcell' = Head(cells) /\ cells' = Tail(cells)
        /\ rpc' # "deliver" /\ UNCHANGED <<answer, listed>>
    BY <1>5 DEF Take, Typed, Types, waiters
  <2>2. rcell' = cells[1] /\ 1 \in 1..Len(cells)
    BY <2>1
  <2>3. \A i \in 1..Len(cells') : /\ i + 1 \in 1..Len(cells) /\ i \in Nat \ {0}
                                  /\ cells'[i] = cells[i + 1]
    BY <2>1
  <2>4. ASSUME NEW c \in Ids, NEW i \in Queued(c)'
        PROVE  i + 1 \in Queued(c) /\ i \in Nat \ {0}
    BY <2>3, <2>4 DEF Queued, IsAnswer
  <2>5. ASSUME NEW c \in Ids, Held(c)' PROVE 1 \in Queued(c)
    BY <2>2, <2>5 DEF Queued, Held, IsAnswer
  <2>6. \A c \in Ids : UnderWay(c)' => UnderWay(c)
    BY <2>4, <2>5 DEF UnderWay
  <2>7. ASSUME NEW c \in Ids, NEW i \in Queued(c)', NEW k \in Queued(c)' PROVE i = k
    <3>1. i + 1 = k + 1
      BY <2>4, <2>7 DEF Answering, OneAnswer
    <3> QED BY <2>4, <2>7, <3>1
  <2>8. ASSUME NEW c \in Ids, Held(c)', NEW i \in Queued(c)' PROVE FALSE
    <3>1. i + 1 = 1
      BY <2>4, <2>5, <2>8 DEF Answering, OneAnswer
    <3> QED BY <2>4, <2>8, <3>1
  <2> QED BY <1>2, <2>1, <2>6, <2>7, <2>8
<1>6. CASE Handle
  <2> DEFINE type == rcell[1]
             c == rcell[2]
  <2>1. UNCHANGED <<cells, answer, listed, rcell>> /\ rpc = "handle"
    BY <1>6 DEF Handle, waiters
  <2>2. \A a \in Ids : Held(a)' => Held(a)
    BY <2>1 DEF Held, IsAnswer
  <2>3. ASSUME rpc' = "deliver"
        PROVE  /\ rwaiter' < asked[c] /\ (rwaiter' = 0 <=> type = "CREATED")
               /\ type # "TRUNCATED" => rwaiter' < path[c]
    <3>1. rwaiter' \in Requests /\ <<c, type, rwaiter'>> \in listed
      BY <1>6, <2>3 DEF Handle
    <3>2. rwaiter' + 1 = asked[c] /\ (rwaiter' = 0 <=> type = "CREATED")
      BY <3>1 DEF Answering, Waiters
    <3>3. rwaiter' \in Nat /\ c \in Ids /\ type \in Answers
      BY <3>1 DEF Requests, Typed, Types
    <3>4. type # "TRUNCATED" => path[c] = asked[c]
      BY <2>1, <3>3 DEF Answers, Held, UnderWay, IsAnswer, Answering, OneAnswer
    <3> QED BY <3>2, <3>3, <3>4, Numbers
  <2> QED BY <1>2, <1>3, <2>1, <2>2, <2>3 DEF UnderWay, Answering, OneAnswer
<1>7. CASE Deliver
  <2> DEFINE type == rcell[1]
             c == rcell[2]
  <2>1. /\ UNCHANGED <<cells, listed, rcell, rwaiter>> /\ rpc = "deliver" /\ rpc' = "remove"
        /\ answer' = [answer EXCEPT ![c][rwaiter] = type]
        /\ c \in Ids /\ rwaiter \in Requests
    BY <1>7 DEF Deliver, guardVars, Typed, Types, Cell
  <2>2. \A a \in Ids : Queued(a)' = Queued(a) /\ ~Held(a)'
    BY <2>1, <1>3 DEF Held
  <2>3. \A a \in Ids, w \in Requests :
          IF a = c /\ w = rwaiter THEN answer'[a][w] = type ELSE answer'[a][w] = answer[a][w]
    BY <2>1 DEF Typed, Types
  <2> HIDE DEF type, c
  <2>4. /\ rwaiter < asked[c] /\ (rwaiter = 0 <=> type = "CREATED")
        /\ type # "TRUNCATED" => rwaiter < path[c]
    BY <2>1 DEF Answering, Waiters, type, c
  <2>5. ASSUME type \in {"CREATED", "EXTENDED"} PROVE Queued(c) = {}
    BY <2>1, <2>5 DEF Answering, OneAnswer, Held, IsAnswer, type, c
  <2>6. \A a \in Ids : UnderWay(a)' => UnderWay(a) /\ Queued(a) # {}
    BY <2>2 DEF UnderWay
  <2>7. ASSUME NEW a \in Ids, NEW w \in Requests, UnderWay(a)',
               answer'[a][w] \in {"CREATED", "EXTENDED"}, w + 1 = asked[a]
        PROVE  FALSE
    <3>1. CASE a = c /\ w = rwaiter
      BY <2>3, <2>5, <2>6, <2>7, <3>1
    <3>2. CASE ~(a = c /\ w = rwaiter)
      BY <2>3, <2>6, <2>7, <3>2 DEF Answering, OneAnswer
    <3> QED BY <3>1, <3>2
  <2>8. OneAnswer'
    <3>1. upc \in Quiet \cup {"check", "remove", "accept"} => cur \in Ids
      BY UserHasCircuit DEF Quiet
    <3> QED BY <1>1, <1>3, <2>1, <2>2, <2>6, <2>7, <3>1 DEF Answering, OneAnswer
  <2>9. Waiters'
    <3>1. ASSUME NEW a \in Ids, NEW w \in Requests, answer'[a][w] # "none"
          PROVE  /\ w < asked[a]
                 /\ w = 0 <=> answer'[a][w] = "CREATED"
                 /\ answer'[a][w] # "TRUNCATED" => w < path[a]
      <4>1. CASE a = c /\ w = rwaiter
        BY <2>3, <2>4, <4>1
      <4>2. CASE ~(a = c /\ w = rwaiter)
        BY <2>3, <3>1, <4>2 DEF Answering, Waiters
      <4> QED BY <4>1, <4>2
    <3> QED BY <1>1, <2>1, <3>1 DEF Answering, Waiters
  <2> QED BY <2>8, <2>9 DEF Answering
<1>8. CASE RemoveCalled
  <2>1. /\ UNCHANGED <<cells, answer, rcell>> /\ rpc = "remove" /\ rpc' = "idle"
        /\ listed' \subseteq listed
    BY <1>8 DEF RemoveCalled, guardVars
  <2>2. \A c \in Ids : ~Held(c)'
    BY <2>1 DEF Held
  <2> QED BY <1>2, <1>3, <2>1, <2>2 DEF UnderWay
<1> QED BY <1>4, <1>5, <1>6, <1>7, <1>8 DEF ReceiverAct

(* A relay answers only a request that is out, and so the answer is the     *)
(* only one of its circuit; TRUNCATED and DESTROY are no answers.           *)
LEMMA RelayAnswering ==
  ASSUME Typed, Answering, NEW c \in Ids, Relay(c) PROVE Answering'
<1>1. /\ UNCHANGED <<rpc, rcell, rwaiter, upc, cur, turn, got, nodes, asked, listed, answer>>
      /\ cells \in Seq(Cell)
  BY DEF Relay, Reply, Truncate, Refuse, RelaysKeep, guardVars, waiters, user, receiver,
         Typed, Types
<1>2. upc \in Quiet \cup {"check", "remove", "accept"} => cur \in Ids
  BY UserHasCircuit DEF Quiet
<1>3. \A a \in Ids : Held(a)' = Held(a)
  BY <1>1 DEF Held, IsAnswer
<1>4. CASE Truncate(c) \/ Refuse(c)
  <2>1. PICK type \in {"TRUNCATED", "DESTROY"} :
          cells' = Append(cells, <<type, c>>) /\ UNCHANGED path
    BY <1>4 DEF Truncate, Refuse
  <2>2. \A a \in Ids : Queued(a)' = Queued(a)
    <3>1. Len(cells') = Len(cells) + 1 /\ Len(cells) \in Nat
      BY <1>1, <2>1
    <3>2. \A i \in 1..Len(cells) : cells'[i] = cells[i]
      BY <1>1, <2>1
    <3>3. cells'[Len(cells) + 1] = <<type, c>>
      BY <1>1, <2>1
    <3>4. \A a \in Ids : ~IsAnswer(cells'[Len(cells) + 1], a)
      BY <2>1, <3>3 DEF IsAnswer
    <3>5. \A i \in 1..Len(cells') : i \in 1..Len(cells) \/ i = Len(cells) + 1
      BY <3>1
    <3>6. 1..Len(cells) \subseteq 1..Len(cells')
      BY <3>1
    <3> QED BY <3>2, <3>4, <3>5, <3>6 DEF Queued, IsAnswer
  <2>3. \A a \in Ids : UnderWay(a)' = UnderWay(a)
    BY <1>3, <2>2 DEF UnderWay
  <2>4. OneAnswer'
    BY <1>1, <1>2, <1>3, <2>1, <2>2, <2>3 DEF Answering, OneAnswer
  <2>5. Waiters'
    BY <1>1, <2>1 DEF Answering, Waiters
  <2> QED BY <2>4, <2>5 DEF Answering
<1>5. CASE Reply(c)
  <2>1. PICK type \in {"CREATED", "EXTENDED"} : cells' = Append(cells, <<type, c>>)
    BY <1>5 DEF Reply
  <2>2. /\ asked[c] = path[c] + 1 /\ path'[c] = asked[c]
        /\ \A a \in Ids \ {c} : path'[a] = path[a]
        /\ \A a \in Ids : path[a] <= path'[a] /\ path'[a] \in Nat
    <3>1. /\ asked[c] = path[c] + 1 /\ path' = [path EXCEPT ![c] = path[c] + 1]
          /\ path \in [Ids -> 0..Hops]
      BY <1>5 DEF Reply, Typed, Types
    <3>2. path'[c] = path[c] + 1 /\ \A a \in Ids \ {c} : path'[a] = path[a]
      BY <3>1
    <3>3. path[c] <= path'[c] /\ path'[c] \in Nat
      BY <3>2, Numbers
    <3>4. \A a \in Ids \ {c} : path[a] <= path'[a] /\ path'[a] \in Nat
      BY <3>2, Numbers
    <3> QED BY <3>1, <3>2, <3>3, <3>4
  <2>3. ~UnderWay(c)
    <3>1. path[c] # asked[c]
      BY <2>2, Numbers
    <3> QED BY <3>1 DEF Answering, OneAnswer
  <2>4. /\ Queued(c)' \subseteq {Len(cells) + 1}
        /\ \A a \in Ids \ {c} : Queued(a)' = Queued(a)
    <3>1. Len(cells') = Len(cells) + 1 /\ Len(cells) \in Nat
      BY <1>1, <2>1
    <3>2. \A i \in 1..Len(cells) : cells'[i] = cells[i]
      BY <1>1, <2>1
    <3>3. cells'[Len(cells) + 1] = <<type, c>>
      BY <1>1, <2>1
    <3>4. \A a \in Ids \ {c} : ~IsAnswer(cells'[Len(cells) + 1], a)
      BY <3>3 DEF IsAnswer
    <3>5. \A i \in 1..Len(cells') : i \in 1..Len(cells) \/ i = Len(cells) + 1
      BY <3>1
    <3>6. 1..Len(cells) \subseteq 1..Len(cells')
      BY <3>1
    <3>7. \A a \in Ids \ {c} : Queued(a)' = Queued(a)
      BY <3>2, <3>4, <3>5, <3>6 DEF Queued, IsAnswer
    <3>8. \A i \in 1..Len(cells) : ~IsAnswer(cells[i], c)
      BY <2>3 DEF UnderWay, Queued
    <3>9. Queued(c)' \subseteq {Len(cells) + 1}
      BY <3>2, <3>5, <3>8 DEF Queued, IsAnswer
    <3> QED BY <3>7, <3>9
  <2>5. /\ ~Held(c)' /\ \A a \in Ids \ {c} : UnderWay(a)' = UnderWay(a)
    BY <1>3, <2>3, <2>4 DEF UnderWay
  <2>6. upc \in Quiet => cur # c
    <3>1. upc \in Quiet => path[cur] = asked[cur]
      <4>1. upc \in Quiet => /\ asked[cur] = nodes[cur] /\ nodes[cur] <= path[cur]
                             /\ path[cur] <= asked[cur]
        BY <1>2 DEF Typed, Steps, Answering, OneAnswer
      <4> QED BY <1>2, <4>1, Numbers
    <3> QED BY <2>2, <3>1, Numbers
  <2>7. upc \in {"check", "remove", "accept"} /\ got # "TRUNCATED" => cur # c
    BY <2>2, Numbers DEF Answering, OneAnswer
  <2>8. ASSUME NEW w \in Requests, answer[c][w] \in {"CREATED", "EXTENDED"}, w + 1 = asked[c]
        PROVE  FALSE
    <3>1. w < path[c] /\ w \in Nat
      BY <2>8 DEF Answering, Waiters, Requests
    <3> QED BY <2>2, <2>8, <3>1, Numbers
  <2>9. OneAnswer'
    <3>1. \A a \in Ids : nodes'[a] <= path'[a]
      <4>1. \A a \in Ids : nodes[a] <= path[a]
        BY DEF Answering, OneAnswer
      <4> QED BY <1>1, <2>2, <4>1, Numbers
    <3>2. \A a \in Ids : UnderWay(a)' => path'[a] = asked'[a]
      BY <1>1, <2>2, <2>5 DEF Answering, OneAnswer
    <3>3. \A a \in Ids : \A i, k \in Queued(a)' : i = k
      BY <2>4 DEF Answering, OneAnswer
    <3>4. \A a \in Ids : Held(a)' => Queued(a)' = {}
      BY <1>3, <2>4, <2>5 DEF Answering, OneAnswer
    <3>5. \A a \in Ids : \A w \in Requests :
            answer'[a][w] \in {"CREATED", "EXTENDED"} /\ w + 1 = asked'[a] => ~UnderWay(a)'
      BY <1>1, <2>5, <2>8 DEF Answering, OneAnswer
    <3> QED BY <1>1, <1>2, <2>2, <2>5, <2>6, <2>7, <3>1, <3>2, <3>3, <3>4, <3>5
            DEF Answering, OneAnswer
  <2>10. Waiters'
    <3>1. ASSUME NEW a \in Ids, NEW w \in Requests, w < path[a] PROVE w < path'[a]
      <4>1. w \in Nat
        BY DEF Requests
      <4> QED BY <2>2, <3>1, <4>1, Numbers
    <3>2. rcell[2] \in Ids /\ rwaiter \in Requests
      BY DEF Typed, Types, Cell
    <3> QED BY <1>1, <3>1, <3>2 DEF Answering, Waiters
  <2> QED BY <2>9, <2>10 DEF Answering
<1> QED BY <1>4, <1>5 DEF Relay

LEMMA AnsweringKept == Typed /\ Removed /\ Answering /\ [Next]_vars => Answering'
<1> SUFFICES ASSUME Typed, Removed, Answering, [Next]_vars PROVE Answering'
  OBVIOUS
<1>1. CASE UNCHANGED vars
  BY <1>1 DEF vars, guardVars, waiters, user, receiver, relays, Answering, OneAnswer, Waiters,
              UnderWay, Held, Queued, IsAnswer
<1>2. ASSUME NEW who \in {"user", "receiver"}, DestroyRaises(who) PROVE Answering'
  <2>1. /\ UNCHANGED <<nodes, listed, answer, cur, turn, got, rcell, rwaiter, cells, asked, path>>
        /\ \/ upc' = upc /\ rpc = "close" /\ rpc' = "idle"
           \/ upc = "close" /\ upc' = "raised" /\ rpc' = rpc
    BY <1>2 DEF DestroyRaises, PcOf, GotoOf, guardVars, waiters, relays
  <2>2. \A c \in Ids : UnderWay(c)' = UnderWay(c) /\ Held(c)' = Held(c) /\ Queued(c)' = Queued(c)
    BY <2>1 DEF UnderWay, Held, Queued, IsAnswer
  <2>3. upc' \in Quiet \cup {"check", "remove", "accept"} => upc' = upc /\ cur \in Ids
    BY <2>1, UserHasCircuit DEF Quiet
  <2>4. OneAnswer'
    BY <2>1, <2>2, <2>3 DEF Answering, OneAnswer
  <2>5. Waiters'
    BY <2>1, <2>3 DEF Answering, Waiters
  <2> QED BY <2>4, <2>5 DEF Answering
<1> QED BY <1>1, <1>2, UserAnswering, ReceiverAnswering, RelayAnswering
        DEF Next, UserStep, ReceiverStep

(***************************************************************************)
(* The client encrypts with a layer for every node the relays have added,   *)
(* but for the one whose answer is under way; a circuit that is returned    *)
(* has them all (TorCircuit.create, extend; CellHandlerManager, Waiter).    *)
(***************************************************************************)
THEOREM LayersAgree == Spec => []LayersMatch
<1>1. Typed /\ Answering => LayersMatch
  <2> SUFFICES ASSUME Typed, Answering PROVE LayersMatch
    OBVIOUS
  <2>1. ASSUME NEW c \in Ids PROVE nodes[c] <= path[c] /\ path[c] <= nodes[c] + 1
    <3>1. path[c] <= asked[c] /\ asked[c] <= nodes[c] + 1 /\ nodes[c] <= path[c]
      BY DEF Typed, Steps, Answering, OneAnswer
    <3> QED BY <3>1, Numbers
  <2>2. ASSUME upc = "returned" PROVE path[cur] = Hops
    <3>1. cur \in Ids /\ nodes[cur] = Hops
      BY <2>2, UserHasCircuit DEF Typed, Steps
    <3>2. nodes[cur] <= path[cur] /\ path[cur] \in 0..Hops
      BY <3>1 DEF Answering, OneAnswer, Typed, Types
    <3> QED BY <3>1, <3>2, CircuitsAssumption
  <2> QED BY <2>1, <2>2 DEF LayersMatch
<1> QED BY <1>1, AlwaysTyped, LocksInit, LocksKept, RemovedInit, RemovedKept,
           AnsweringInit, AnsweringKept, PTL DEF Spec

=============================================================================
