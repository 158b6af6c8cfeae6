# rtun: TLA+ models of the routing overlay and of the Tor streams under it

The repository holds two Python programs that run as one process:

* `src/rtun-routing/`: **rtun**, routers that find one another through Tor rendezvous points and
  build an overlay with link-state routing, JOIN floods and LOOKUPs (`lsr.py`, `rendezvous.py`,
  `rtun.py`, `messages.py`, `tester.py`);
* `src/torpy-rtun-fork/torpy/`: a fork of **torpy**, the Tor client rtun uses (guards, circuits,
  streams, hidden services, the directory).

Everything is threads and shared dictionaries: nearly every hazard of this code is an interleaving
that no test in the repository exercises. The modules below model the threads, the messages and the
locks; what the Python text formats, logs or encrypts is left out.

Contents: 1 inventory, 2 modules and the code they model, 3 runs, 4 bounds and fairness, 5 proofs,
6 disagreements with the code's comments, 7 what is not modelled, 8 plan.

## 1 Inventory

| Component | State | Operations | Talks to | Correct when |
|---|---|---|---|---|
| Link-state database (`lsr.py` ReceiveThread, SendThread) | `global_router` (neighbours, SN), `circuit_info`, `packets`, `LSA_SN`, `LSA_SN_forwarded`, `LSA_DB`, `neighbour_stats` | `serverSide`, `handle_HELLO`, `transmitNewLSA`, `clientSide`, `remove_inactive` | neighbours (LSA, HELLO), graph, heartbeats | the LSA with the greatest number lists the neighbours there are; the newest is stored and relayed, each once; the dictionaries agree |
| Topology graph (`lsr.py`) | the global list `graph`, `graph_lock`, forwarding tables | `updateGraph`, `updateGraphOnly`, `updateGraphAfterFailure`, `organizeGraph`, `shortest_paths`, `runDijkstra`, `add_neighbour` | LSA_DB, Timers, ConnectionThread, LOOKUP | the graph is that of the database; nobody waits for ever for the lock; next hops lie on shortest paths |
| Heartbeats (`lsr.py` HeartBeatThread, handle_HB, checkForNodeFailure) | `HB_set`, latency samples | send and answer HB, time out neighbours | neighbours, database | a silent neighbour is dropped, a beating one is not |
| JOIN flood (`lsr.py` ConnectionThread, handle_JOIN; `rtun.py`) | `join_seen`, `conn_queue`, TTL | choose a peer, ESTABLISH, flood, relay, CONNECT | rendezvous threads | the destination is reached within TTL; floods end; one connection per JOIN |
| LOOKUP (`lsr.py` route_message, next_hop; `tester.py`) | `shortest_paths`, the Route a message carries | send, route, reroute | graph, neighbours | a message keeps to its Route, arrives unless its TTL or a lost link forbids it |
| Rendezvous threads (`rendezvous.py`) | `threads`, the layer of the peer, streams | establish, wait 60 s, connect with 13 tries, send and receive | relay cells of torpy | both ends meet or give up; messages in order; nobody waits for ever |
| Streams and flow control (`torpy/stream.py`) | state, buffer, event, locks, socket pair, windows | connect, recv, create_socket, close, cells | circuit, the user's socket | bytes in order and complete, no missed wakeup, close returns |
| Circuits and guards (`circuit.py`, `guard.py`) | circuits and streams by id, handlers, states, locks | create, extend, waiters, relay, destroy | cell socket, streams | an answer meets its waiter; ids unique; destroy is complete |
| Cell socket, cells (`cell_socket.py`, `cells.py`) | socket, version, bytes not yet made into cells | handshake, send, receive at once or asynchronously | guard, relay | framing survives any fragmentation, and the change of the header's width |
| Consensus (`consesus.py`, `cache_storage.py`) | document, certificates, directory guard with circuit and time, lock, cache | renew, verify, fetch certificates and descriptors | directories, guards | a majority signed; the guard is closed or kept; the lock is let go |
| Documents (`documents/`) | fields of a document | read, digest, apply a diff | consensus | the diffed document is the new one |
| Relay crypto (`crypto_state.py`, `keyagreement.py`) | running digests and ciphers per hop | handshakes, encrypt/decrypt a relay cell | circuits | both ends have the same keys and keep in step |
| Hidden services (`hiddenservice.py`, `extend_to_hidden`) | rendezvous, descriptors, introduction points | establish, fetch, introduce, retry | circuits, directories, services | the circuit ends at the service asked for; searches end |
| Front ends (`http/`, `cli/socks.py`) | circuits by host, streams | connect, retry, close | circuits | a request reaches its host or fails |
| Parsers, dirs, older mains | none of note | formatting | | not modelled (section 7) |

Hard behaviours, in order of how much they hide:

1. **One thread per message.** `ReceiveThread.run` starts a thread for each, and the handlers share
   dictionaries without a lock (the `Lock()` at l.282 is new in each call).
2. **A lock that dies with its holder.** `graph_lock` has no `try/finally`; the loop under it goes
   over a dictionary other threads resize.
3. **State changed here and numbered there.** Neighbours change in `add_neighbour`, `handle_HB` and the
   failure detector, `SN` in `transmitNewLSA`, and `SendThread` sends what it finds in between.
4. **Names bound again.** `add_neighbour` binds `graph` to a new list while Timers hold the old one.
5. **Floods in cyclic graphs**, ended by a number (LSA) or a TTL (JOIN).
6. **Failure detection against late messages**: a purged router's LSAs keep arriving.
7. **Two locks, an event and a full socket pair** in a Tor stream, closed from either side.
8. **Timeouts against late answers** in circuits, rendezvous and introductions: a waiter that has
   given up stays on its list and takes an answer that is not its own.
9. **A lock one path goes around**: `get_descriptor` shares the directory guard with `renew`.
10. **Ciphers that run**: every cell steps both ends, so that one lost, swapped or misread cell is not
   the last.
11. **Objects two searches share**: the consensus has one `Router` for each relay, and a search for a hidden
   service writes that service's keys into it.

`PROJECT.json` lists each hazard at its line with the properties that cover it, or a note on why none
does or what they make an exception of.

## 2 Modules

| Module | Models | Grain |
|---|---|---|
| `Advertise` | the neighbour list and `SN` of one router, and all threads that change or send them | one statement = one action |
| `LsaThreads` | `serverSide`'s LSA branch and the purge, on one router for one origin | one statement = one action |
| `GraphThreads` | the threads that share `graph`, `graph_lock` and `LSA_DB` of one router | lock sections and loop turns |
| `JoinFlood` | JOINs through the overlay and the command queue, on all routers | one handler, split where `join_seen` is read and written |
| `Circuits` | creating, extending, retrying and destroying circuits at a guard, between user and receiver | one step where the other thread may come between |
| `TorStream` | one stream, its receiver, its user, its socket loop | lock sections |
| `Lookup` | LOOKUPs along the Route of their source, with links that are cut; extends `JoinFlood` | one handler = one action |
| `Rendezvous` | one connection through a rendezvous point: its two threads and the senders on both sides | one blocking call, one encryption |
| `CellFifo` | what a link promises: a queue of cells in each direction | abstract |
| `Cells` | the layout of each cell, as functions of bytes | pure |
| `CellLink` | one connection to a relay: handshake, records, generator | one read or write |
| `Documents` | reading documents, their digest, applying a diff | pure |
| `Consensus` | threads that renew and fetch descriptors, directories, the cache | one request, one access of what is shared without the lock |
| `KeyAgreement` | the TAP and ntor handshakes, as terms | pure |
| `HiddenService` | requests of the front ends to hidden services and other hosts | one request or wait |
| `Advertise_proofs`, `GraphThreads_proofs`, `Circuits_proofs`, `TorStream_proofs`, `Rendezvous_proofs`, `Consensus_proofs`, `HiddenService_proofs` | theorems about the module they are named for | |
| `Overlay_proofs` | theorems about what crosses an overlay: `JoinFlood`, `Lookup`, `LsaThreads` | |
| `MC...` | instances for TLC | |

They are layers of one system and share no variables: `Advertise` makes the LSAs that `LsaThreads` stores and
forwards at another router, `GraphThreads` takes the same handlers as the tasks of its threads, `JoinFlood`
ends in the command that starts a thread of `Rendezvous`, whose end is the HELLOs that
`Advertise` begins with; `Lookup` uses the neighbours and the graph `Advertise` and `GraphThreads` keep, and is composed with `JoinFlood` (`OverlaySpec`). Below them, `Circuits` makes
what they meet over, `TorStream` carries the messages, `CellLink` implements a `CellFifo` each way
(`ReadsWhatWasSent`) using the functions of `Cells`, `Consensus` gets the
routers through the functions of `Documents`, and `HiddenService` extends circuits by the handshakes of
`KeyAgreement`.

### Advertise

`neighbours` and `SN` are two entries of `global_router`; no lock is held by any thread that reads or writes
them. Each thread has a `pc`, an index `i` into the list and, in `number`, what it has read of `SN` (or of
the list's length). `newest` holds the LSAs made so far that have the greatest number.

| Action | Code |
|---|---|
| `Bound`, `Look`, `Replace`, `Fit`, `AppendEntry` | `add_neighbour` up to l.1463, one access of the list each |
| `Kill` | its circuit and counters, or the `KeyError` of l.1469 |
| `Sample`, `Find`, `SetCost` | `handle_HB` with the last sample of a latency |
| `FindSilent`, `NextEntry`, `RemoveEntry`, `RemoveCircuits` | `checkForNodeFailure` and `remove_inactive` up to `transmitNewLSA`, with the entries `updateNeighboursList` skips |
| `Load`, `Store`, `ReadNumber`, `Pickle` | `transmitNewLSA`: `SN` is read, written, read again, the list pickled |
| `ClientSide` | `SendThread.clientSide`, which pickles `global_router` as it is |

A list access out of range ends the thread (`IndexError`), as does the removal of an entry that has been
replaced (`ValueError`). `unsaid` and `overlapped` are history: who has changed the list and made no LSA
since, and whether two increments of `SN` have overlapped. What `add_neighbour` and `remove_inactive` do
with the graph under `graph_lock`, between the list and the LSA, is in `GraphThreads`; here any number of
other steps may come in between.

### LsaThreads

The dictionaries' entries for one origin, and three threads each with an LSA, going through
`serverSide` statement by statement; a further thread purges the origin. `KeyError`, the end of a
handler whose entry has gone, is a place in `pc`. `knew` remembers whether the origin was known, `overlapped`
whether any test of a thread fell between the test and the writes of another.

### GraphThreads

`graph` is the list the name is bound to, `links` what each list holds (an origin stands for the links
of its LSA), `arg` the list a thread was given. A thread has a task: a new origin, a fresh LSA (with or
without dead routers), a failure, a new neighbour, or ConnectionThread's reading. Python's
`RuntimeError: dictionary changed size during iteration` is the comparison of `size` with the size of
LSA_DB; `BreakOff` leaves the lock taken, as `updateGraph` does.

### JoinFlood

`Ask`/`SendJoin` are the two halves of `ConnectionThread.connections`, ten seconds apart; `Relay`, `DropOwn`
and `Admit`/`QueueJoin` are `handle_JOIN`; `RunMain` is the loop of `rtun.py`. The TTL is decremented
and tested as in `flood_message`.

### TorStream

The receiver takes the peer's cells in order. `_close_lock` is a variable because its holder may block
(`rpc = "put"`: the socket pair is full; `"join"`: the loop has not ended); `_data_lock` is held within
steps, except by `FlushBlocks`, which blocks for good. The user's `mode` is one of the ways the code
uses a stream. The circuit may be destroyed at any point, and then the receiver itself closes the
stream. DATA cells are numbered.

### Circuits

Each attempt of `create_circuit` is a circuit of its own. `listed` holds the waiters on the handler lists
(circuit, cell type, request), `answer` what they were given, `state_lock` who holds `_state_lock`:
the user from `BeginCreate` to `Connect` or to his timeout, and whoever destroys. `Check`/`Remove` and
`Deliver`/`RemoveCalled` are the two sides of the unlocked handler lists. `cells` is the connection to the
guard, first in, first out; the relays answer (`Reply`), truncate or refuse as they like. `Destroy(who)`
is `destroy_circuit`, by the user or, on a DESTROY, by the receiver; `DestroyRaises` is the same when the
streams or the DESTROY cell raise, which leaves state and table as they were (`kept` is history).
`Unanswered` ends a request by its timeout, or by a write that raised.

### Lookup

`Ways` are the paths along `Links` that visit no router twice, and `LeastCost` chooses a cheapest for each
destination (`shortest_path` of networkx). `Links` are the links of the overlay with their costs, `links` those that are up; `neighbours` is what a
router takes for its neighbours, `shortest_paths` its table. `SendLookup` is the tester, `HandleLookup` the
handler; both go through `RouteMessage`, which is `route_message`: the TTL, the next hop of the Route
(`Routed`), a hop that is no neighbour any more (`Rerouted`), an empty Route (`Unrouted`). `Cut`,
`Notice` and `Recompute` are the network, the failure detection and the Timer, in any order. The
LOOKUP carries two history fields, the planned path and whether a hop was replaced.

### Rendezvous

`e` and `c` are the program counters of `RendezvousEstablish.run` and `RendezvousConnect.run`. Layers
of encryption are counters of the cells they have seen: `enc`/`dec` for the layer between the
two routers, `link`/`strip` for the connector's with the point. A cell carries the count it was
encrypted at and can be read only at the same one. `snd_data` is three actions (`EncryptPeer`,
`EncryptLink`, `Put`), because nothing keeps two threads from going through it together. `trouble` is
history: a direction in which one of the five known troubles has happened. `Break` ends each direction
with a DESTROY or, when the TLS connection itself is closed, with `Closed`, at which `recv_cell` goes
round for ever (`Deaf`).

### Cells and CellLink

`Serialize` and `Deserialize` are the methods of the cell classes, with the payload and digest lengths
as constants. In `CellLink` the generator of `cell_socket.py` is `stage`, `want` and `header`; `RecvSync` is
`recv_cell` of the handshake, `RecvAsync` and its parts the receiver. `rest` is what TLS has decrypted
and `recv` has not returned. The relay writes its cells by the format of the version it has, in records
of any of the lengths `Pieces`.

### Documents and Consensus

A text is a sequence of lines, a line a keyword and a value. `ReadDocument` goes over the items as
`TorDocument._read` does; `ApplyActions` is the diff. In `Consensus` each thread's call is a record with its
place and its attempts; `Lock`, `CheckTtl`, `Look`, `Create`, `Assign`, `Use`, `Ask` are the accesses
to `_lock`, `_dir_guard`, `_dir_circuit` and `_dir_guard_ttl` in the order of the code, so that
a descriptor's thread comes between any two. `Write` and `WriteCerts` to the cache may be torn by a crash; `Restart` loads
what is there. `Break` breaks the connection of a guard whose circuit looks connected: requests over it
fail, and closing it raises.

### KeyAgreement and HiddenService

Keys and hashes are terms that are equal only if what they were made from is. In `HiddenService`
each thread serves one request: `GetCircuit`, `OpenStream`, then for an onion host `Lock`,
`Establish`, `NextReplica`, `AskDir`, `Introduce`, `Answered` or `Timeout`, and `Begin`, `Exchange` for any.
`UnknownPoint` is an introduction point the consensus does not have, which ends the search. `Introduce` reads
the service's key from the `Router` all searches share: when another search is about to introduce itself at
the same points (`Rewritten`), the key may be that service's, and `Mixed` remembers it. `Exchange` waits for
its response without a limit.
`listed`, `read` and `made` are the waiters for RENDEZVOUS2 on a circuit. A scene is what differs
between runs: front end, hosts, auth data, seals, where descriptor ids fall between the directories,
and whether the services share introduction points.

## 3 Runs

| Run | Shows | States |
|---|---|---|
| `advertise_newest` | a HELLO again, a latency measured, two rounds of failures and the periodic sender, statement by statement: the LSA with the greatest number lists the neighbours there are, but for changes not yet transmitted | 1.5 million |
| `advertise_hello` | of two HELLOs at once one may never be listed (violation) | |
| `lsathreads_race` | three handlers and a purge: the newest LSA of a known origin is flooded, entries stay together; while tests and writes do not overlap the newest is kept and each flooded once | 9.2 million |
| `graph_rebuild` | readers see whole graphs, updates reach the graph while no neighbour joins, Timers recompute routes while the database is fixed | 12,804 |
| `graph_stuck` | a handler dies with `graph_lock` (violation, under fairness) | |
| `join_reach` | destination in reach is asked, one out of reach is not, floods end; LOOKUPs follow their plan and are lost for a cause | 14,143 |
| `stream_threads` | wakeups, order, end, SENDMEs and closing, in four modes with destruction | 13,380 |
| `circuit_create` | no circuit of a failed attempt is left but one whose destroy raised, none that is removed looks connected, the client's layers match the relays', neither thread waits for good | 227,486 |
| `celllink` | both directions implement a queue of cells, cells are handed out | 56,688 |
| `consensus_renew` | a majority signed, diffs apply, the guard and its time stay together while all take the lock, renewing gives up only for certificates that make each verification raise or a guard whose closing does | 380,034 |
| `rendezvous_meet` | layers in step, messages once and in order, the connector waits for good only for a lost RENDEZVOUS2 or a closed connection of its own | 924,162 |
| `hidden_meet` | keys agree, requests fail for a cause, however often a search or an extension is tried, reach their host, and end or get an open stream | 408,343 |

Every property of a passing run has a mutant in its module, a definition just before the one it
changes, that the run refutes. `PROJECT.json` pairs them. Every module states its `TypeOK`, which says what
values the variables take. Of `Advertise`, `LsaThreads` (`LsaTypeOK`), `GraphThreads`, `Circuits`,
`TorStream`, `Rendezvous`, `Consensus` and `HiddenService` it is proved, as the first part of their
invariants; no run is spent on it.

## 4 Bounds and fairness

* **`Hellos`, `Samples`, `MaxRounds`** (Advertise): one run begins with two neighbours (`Met`), one of which
  says HELLO again, while the cost of the other is measured and the detector finds somebody silent twice;
  four kinds of threads so come between each other's statements. States after two increments overlapped, or
  after a thread died before it could transmit, are not followed (`InQuestion`): the property excepts them
  for good. The other run begins with an empty list and two routers that say HELLO.
* **`Threads`, `MaxSN`** (LsaThreads): three handlers with numbers 1 to 3, the fewest that let one be
  overtaken by two. Threads are symmetric and the properties do not tell them apart, so symmetry is
  used (safety only).
* **`Threads`, `Tasks`** (GraphThreads): three threads, all pairs of tasks beside a reader, and all
  triples of tasks that leave the database as it is.
* **`InitTTL`** is 3 in a graph with a cycle, a short and a long way to one router and a tail: one
  destination is at the last hop in reach, one just outside. The code starts with 5; the
  off-by-one is the same.
* **`Last`, `Capacity`, `Start`, `Increment`, `BufSize`** (TorStream): 3 cells, a pair that takes one, a
  window of 3 refilled by 2 (500 and 50 in the code). Three cells need a SENDME, overflow the pair
  and can fall before, in and after the flush.
* **`Tries`, `Hops`** (Circuits): two attempts, of three in the code, so that one can disturb the next;
  three hops, as `create_circuit` of `client.py` has by default, so that there is a request whose
  predecessor was an EXTEND.
* **`LookupTTL`, `MaxLookups`, `MaxCuts`** (Lookup): a TTL that some least-cost path of the graph uses up
  and others do not (the dear link makes the cheap way the longer one), one LOOKUP from any router to
  any other, one link cut at any time. Floods and LOOKUPs do not disturb each other, so an execution
  has one or the other.
* **`Threads`, `DownThreads`, `Sizes`, `Attempts`, `Sends`, `MaxFaults`** (Rendezvous): two senders that can
  overlap on the side without a lock and one on the other, two messages in either direction beside
  HELLO, messages of one cell and of two, a reader that takes a message and a half, two retries, and
  one failure, death or collision at any point.
* **`RelaySize`, `BufSize`, `Pieces`** (CellLink): payloads of 28 bytes instead of 509, a buffer shorter than
  the long record, records that end within a header or a payload; every type of cell occurs, with
  circuit identifiers that need the wide header. Relays offer versions 3, 3-4 or 3-5.
* **`Authorities`, `RenewTries`, `CertsTries`, `MaxFaults`, `MaxCrashes`** (Consensus): three authorities, the
  fewest whose majority is not all; two attempts each, of five and three; a new consensus and new keys
  after an hour; one fault, a guard's connection that breaks among them, and one crash, at any point;
  two calls, in one thread or in two.
* **`HsDirs`, `Points`, `Retries`, `MaxFaults`** (HiddenService): four directories, so that the sets of the two
  replicas differ and overlap, two introduction points, two attempts, one failure of any kind at any
  point, besides the change of the period; the 15 scenes pair what two requests can share. In two more,
  `Twice`, two things fail: as many as a search with directories to spare survives, and more than one
  survives whose second replica has its id behind every directory. In `Common` two services have the same
  introduction points and nothing else fails, so that what fails does for a key of the other service.
* `CHECK_DEADLOCK FALSE` everywhere: numbers run out, floods end, streams are closed.

Fairness is stated where something must eventually happen, and only of what runs by itself:

* `GraphThreads`: weak fairness of each thread. The interpreter schedules every runnable thread; a
  waiter for a free lock that nobody takes any more gets it.
* `JoinFlood`: weak fairness of each delivered message's handler, of the second half of `connections`
  and of the main loop. No router has to begin a JOIN.
* `Circuits`: weak fairness of the user, whose waits end at the latest with their timeout, and of the
  receiver. Nothing is assumed of the relays.
* `TorStream`: weak fairness of each thread, and strong fairness of `Finish`: `select` returns every
  ready socket, so the control byte is seen however often the client's end is ready as well. Nothing
  is assumed of the peer or of the circuit.

* `CellLink`: weak fairness of the client's reads and of the relay. The relay need not send anything
  beyond its script.
* `Rendezvous`: weak fairness of either thread and of the guard's receiver; every wait with a time
  limit ends. The wait for BEGIN has none, and is not made to end; nor is a read from a closed connection.
* `HiddenService`: weak fairness of each request's thread, and a service that deals with an introduction in
  the end, if only after the client's timeout. The transfer over an open stream is not made to end: nothing
  in the code limits it.
* `Consensus` and `Lookup` state no liveness: a directory may never answer, since its socket has no
  time limit, and a LOOKUP on a cut link is lost.

## 5 Proofs

The theorems are in a module of their own for each model they are about, and hold for every value of
the constants the named assumptions allow. An `ASSUME` says no more than what the code fixes: that
bounds, sizes and tries are positive numbers, that the sets of routers, threads and origins are finite
where something is counted, that there is an authority, that links go both ways and no router is its own
neighbour.

Each proof has the same shape: an invariant that is inductive, the conjunction of named parts, and for
each part one step per action and per conjunct. The invariants were checked by TLC, on the bounds of
the runs, before they were proved.

**`Advertise_proofs`**, from `AdvertiseAssumption`, for any number of HELLOs, heartbeats and rounds of the
detector:

| Theorem | Statement | Argument |
|---|---|---|
| `TypeCorrect` | `Spec => []TypeOK` | one step per statement |
| `NewestAlwaysCurrent` | `Spec => []NewestIsCurrent` | `Numbered`: all numbers used are at most `SN` (`NumbersBelow`); while no two increments have overlapped, at most one thread is between reading `SN` and writing it (`OneIncrement`), and each LSA shows the list as it is, or some thread that has changed the list is going to use a number above that LSA's (`ShownOrPromised`) |

**`Overlay_proofs`**, the threads of `LsaThreads`, from `LsaThreadsAssumption`, for any number of handlers:

| Theorem | Statement | Argument |
|---|---|---|
| `LsaTypeCorrect` | `LsaSpec => []LsaTypeOK` | one step per statement |
| `EntriesStayTogether` | `LsaSpec => []EntriesTogether` | `EntriesUnderWay`: the origin is in `packets` once any thread has gone past entering it, and an entry it lacks then is ahead of a thread that is at or before the statement that makes it |
| `NewestIsFlooded` | `LsaSpec => []NewestFlooded` | `KnownOrigin`: what `LSA_SN_forwarded` says was forwarded, somebody sends; a thread that gave its LSA up did so for one as new that somebody sends. The number itself may go back (a slower thread overwrites it), so monotony is not the argument |
| `NewestStaysKept` | `LsaSpec => []NewestKept` | `Serial`: until a test of one handler has fallen between the test and the writes of another, there is one writer (`OneWriter`), and what `LSA_SN` and `LSA_DB` hold is the newest that any thread has stored (`RecordIsNewest`) |
| `ForwardedOnce` | `LsaSpec => []FloodedOnce` | `Serial` again: `LSA_SN_forwarded` is the greatest number forwarded (`MarkIsGreatest`), so whoever passes the test carries a greater one |

**`GraphThreads_proofs`**, from `TasksAssumption`, for any finite sets of threads and origins and any tasks:

| Theorem | Statement | Argument |
|---|---|---|
| `TypeCorrect` | `Spec => [](TypeOK /\ BindsCounted)` | that `graph` stays among the lists there are needs `BindsCounted`: it is the number of `add_neighbour`s that are over |
| `ReadersAreSafe` | `Spec => []ReadersSeeWholeGraph` | `LockNamesHolder`: whoever is between `acquire` and `release`, or died there, is named by the lock |
| `UpdatesArrive` | `Spec => UpdatesReachGraph` | `LinksOfSeen`: while no neighbour joins there is one list, and what a rebuild has gone through is in it, since prunes and other rebuilds wait for the lock |

**`Overlay_proofs`**, floods and LOOKUPs, from `FloodAssumption` and `LookupAssumption`, about their composition
`OverlaySpec`:

| Theorem | Statement | Argument |
|---|---|---|
| `JoinsStayInReach` | `OverlaySpec => []TTLLimitsReach` | `Came`: a copy with TTL `n` is `InitTTL - n` hops from its source; the command queues hold only JOINs whose destination is in reach |
| `LookupsFollowThePlan` | `OverlaySpec => []FollowsPlan` | `OnPlan`: of a LOOKUP no hop of which was replaced, the path gone and the Route left are together the plan, which visits no router twice (`WaysAreSimple`) |
| `LookupsLostForCause` | `OverlaySpec => []LostForCause` | `WholeOverlay`: while all links are up no hop is replaced, and `ttl + Len(path)` is what the LOOKUP began with |

**`Circuits_proofs`**, from `CircuitsAssumption`, for any number of attempts and hops:

| Theorem | Statement | Argument |
|---|---|---|
| `TypeCorrect` | `Spec => []TypeOK` | with `Steps`: the numbers of requests sent, nodes of the client and relays on the path never differ by more than one, so that the request after the last is never asked for |
| `NoneOrphaned` | `Spec => []NoOrphans` | `OnlyCurrent`: whoever gives an attempt up has taken its circuit out of the table, unless its destroy raised (`kept`); besides those only the current one is in it |
| `RemovedStayDown` | `Spec => []RemovedNotConnected` | `Locks` (who holds `_state_lock` follows from the two program counters) and `Removed`: a DESTROY that comes while `create` holds the lock takes effect after it |
| `LayersAgree` | `Spec => []LayersMatch` | `OneAnswer`: at most one answer of a circuit is under way, and none once the user has gone on; `Waiters`: what is listed, delivered or answered belongs to a request no later than the present one, so that no answer is taken for another request's |

**`TorStream_proofs`**, from `StreamAssumption`, for any number of cells and any sizes:

| Theorem | Statement | Argument |
|---|---|---|
| `TypeCorrect` | `Spec => []TypeOK` | with `Places`: which thread can be where at the same time |
| `SendmesArrive` | `Spec => []SendmesKeepUp` | `Window`: the deliver window is above `Start - Increment`, and is the peer's credit plus the cell at hand |
| `WakeupsAreSeen` | `Spec => []DataSignalled` | inductive as it stands: `has_data` is set and cleared under `_data_lock` together with the buffer |
| `NothingMeansEnd` | `Spec => []EmptyMeansEnd` | `Reading`: as long as `recv` is used, `got` and then `buffer` are the cells that came, in order with none left out, and a wakeup with an empty buffer is that of the end |
| `CellsAreReadInOrder` | `Spec => []ReadInOrder` | `Flushed`: after the flush, a cell below one in `got` or in the socket pair is there too or in the buffer; order in `got` and in the pair, and every cell of the one before every cell of the other |

**`Rendezvous_proofs`**, from `RendezvousAssumption`, for any threads, sizes, attempts and faults:

| Theorem | Statement | Argument |
|---|---|---|
| `TypeCorrect` | `Spec => []TypeOK` | with `Opening`: before the stream is opened nothing but the end of the connection is on its way to the connector, BEGIN is the first that comes, and a CONNECTED never does; so `rcv_data` only ever loads the bytes of a DATA cell |
| `LayersStayInStep` | `Spec => []LayersInStep` | `Begun` and `Quiet`: nothing is sent until the two have met and the stream is opened, so the counters start equal; `Whole`: an end, DESTROY or closed, is only under way when the point has gone; `Counted`: every cell of a wire and every thread with a cell in hand is one step of the sender's layer the receiver's has yet to take |
| `CleanChannelsDeliver` | `Spec => []CleanChannelDelivers` | `Stages`, `Unsent` and `Cut` tie the two threads to the stream, and say that before BEGIN is answered nothing goes up, and after the point has gone nothing is read but that end; `DownClean` and `UpClean`: while a direction is clean its cells are numbered one after the other from what the receiver's layer is at (`InSequence`, from `Counted`), each holds the message of its number (`Carried`), and what was taken is the beginning of what was sent. Up there are two more: the senders take turns (`OneSender`), and the establisher's bytes are the messages not yet taken, end to end (`Framed`), so a `recv` that loads one and leaves none over takes the next |

**`Consensus_proofs`**, from `ConsensusAssumption`, for any threads, jobs, authorities, attempts and guards:

| Theorem | Statement | Argument |
|---|---|---|
| `TypeCorrect` | `Spec => []TypeOK` | with `Placed`, where each thread can be and what it holds there: the circuit is always the guard's, and no retry goes beyond its attempts |
| `GuardKeptUnderLock` | `Spec => []DirGuardKept` | `Locked`: who is in `renew` past the lock is named by it; `Guarded` and `Kept`: while all renew, the steps between the test of the guard and the time's setting are one thread's |
| `VerifiedBeforeUse` | `Spec => VerifiedFirst` | `Verified`, under `Locked`: a thread about to assign its document holds one `verify` accepts with the certificates kept now, since only who holds the lock replaces them. No run checks it |
| `MajorityInUse` | `Spec => []MajoritySigned` | `AllSigned`: what a thread keeps of an answer is a consensus that was published (`ReceivedIs`; a diff may be made from any text, since `apply_diff` compares the digest of what it makes with the one the diff states, `DiffGives`), what it is about to save passed `verify`, and a cache that is whole was written whole. `MajorityCounted` makes a majority of that: what is read from a consensus has signatures only of authorities that signed it and no two voters of one fingerprint (`SignsOf`, `VotersOf`), so `verify` counts no authority twice |
| `DiffsAlwaysApply` | `Spec => []DiffsApply` | `AllAsked`: a diff that was answered was made from the document in use, which the lock keeps until the answer is there, and that document is a consensus or its first lines, also after a restart from a half-written file. `DiffDone`: reading the diff goes edit by edit, and after the edits for the lines from n on, what they have made of the old text is its first lines followed by the end of the new text (`DoneAt`, `Mixed`; one step for each hunk, `StepDown`). That holds as long as the lines both texts have are in the same order in both (`Rising`), which they are in any two consensuses (`RanksRise`, `PlacesRise`) |

**`HiddenService_proofs`**, from `HiddenServiceAssumption`, `HostsAssumption` and `AnswersAssumption`, for any
threads, hosts and retries:

| Theorem | Statement | Argument |
|---|---|---|
| `TypeCorrect` | `Spec => []TypeOK` | with `Placed`: there are as many circuits as host keys one was made for, and a search asks three directories at the most for a replica |
| `KeysAlwaysAgree` | `Spec => []KeysAgree` | `Locks` (one thread at a time extends a circuit), `Onions`, and `Extended`: a circuit has one rendezvous point, and whatever a waiter reads was made with keys the point has joined it with. The point joins the service an introduction was sealed for, which is the one asked for unless another search has written its key into the shared `Router` (`Mixed`) |
| `EstablishesOnceOnly` | `Spec => EstablishesOnce` | `Established`: a circuit whose point is established is extended, or its lock is held, or an extension has failed |
| `StreamsStayApart` | `Spec => []StreamsReachTheirHost` | `Owned`: a thread is given a circuit of its own host's key, and a key tells an onion host from any other (`KeyTells`); `Mixed` is excepted |
| `RequestsFailForCause` | `Spec => []FailsForCause` | `Causes`: a search that has met no other cause has used up one failure for each directory with the descriptor it left behind, an extension one for each introduction that failed; directories it has yet to ask are those `get_responsibles` named; a point unknown to the consensus, and an introduction sealed with another service's key, are causes of their own |

Only model-checked:

* Liveness: `RoutesRecomputed`, `JoinReaches`, `FloodEnds`, `CloseReturns`, `BothGoOn`, `CellsArrive`,
  `WaitsAreAnswered`, `RequestsSettle`. TLAPS proves no ENABLED and so no fairness
  argument here. `UpdatesComplete`, which is violated, is liveness too.
* `ReadsWhatWasSent` and `GivesUpForCause`: they rest on all of what recursive functions compute over
  bytes and texts (`Deserialize`, and the reading of a consensus and of certificates whole), which is
  induction over data. Where an invariant of the lines read so far is enough, as for `ReadDocument` in
  `MajorityInUse` and for the edits in `DiffsAlwaysApply`, the least number of lines at which it would fail
  takes the place of the induction (`LeastOf`, `Upward`).

## 6 Where code and comments disagree

With a run that shows it:

* `updateGraph` can die between `acquire` and `release` (lsr.py:603-631; `graph_stuck`).
* `add_neighbour` counts up to the end of the list and appends if the count is its length still. When another
  HELLO has appended in between, the router is neither replaced nor appended (lsr.py:1453-1462;
  `advertise_hello`).

In the models, with a property that is stated around them:

* A new origin is in `packets` before it is in `LSA_DB` (lsr.py:241); its first LSA can be taken as
  forwarded and sent to nobody, by a second handler. `NewestFlooded` is about known origins.
* `create_socket` publishes the loop after it has let go of `_data_lock` (stream.py:340, 354): a cell
  that comes between stays in the buffer. `ReadInOrder` says so.
* `stop` "could be called twice" only while the loop runs (stream.py:114-117).
* A waiter is removed by the receiver and by the user (circuit.py:271, 301-302); the second raises, and a
  circuit whose answer came is given up.
* `updateNeighboursList` removes from the list it iterates over (lsr.py:533), so that one of two dead
  neighbours stays listed (`RemoveEntry` of `Advertise`).
* An LSA with the old number and the new list can be sent between a change and its `transmitNewLSA`
  (lsr.py:882-896), and two increments of `SN` that overlap leave one number for two lists (lsr.py:552).
  `NewestIsCurrent` says until when a change may be missing, and is about the time before such an overlap.
* Handlers of one origin that overlap can store the older LSA last, or forward one twice (lsr.py:239-300).
  `NewestKept` and `FloodedOnce` are about the time before the first overlap, `NewestFlooded` and
  `EntriesTogether` hold after it as well.
* `destroy` may raise in closing the streams or in sending DESTROY, and then the circuit stays Connected in
  the guard's table (circuit.py:384-391, guard.py:157-158); `NoOrphans` excepts it.
* `updateGraph` clears `graph` but fills `graph_arg` (lsr.py:607), which differ once `add_neighbour` has
  bound the name again, so `UpdatesReachGraph` is stated for the time in which no neighbour joins.
* "Choose maximum supported by both" (cell_socket.py:250) takes the smaller of the two maxima, which a
  relay with a gap in its list need not offer; and the circuit identifiers, from 0x80000001 on, do
  not fit the two bytes of version 3.
* `get_descriptor` uses the directory guard without the lock `renew` holds: the time can be left set
  with no guard, and from then on every request raises (consesus.py:186, 374-376). `DirGuardKept`
  is about threads that renew.
* An empty list of certificates is kept (consesus.py:295-301), and `verify` raises before it could ask
  again; `GivesUpForCause` names it.
* A directory guard whose connection is broken raises when it is closed, before the guard and its time are
  cleared, so that every later attempt raises too (consesus.py:375); `GivesUpForCause` names it.
* A cache file torn by a crash is used as it is, or stops the program at its next start
  (cache_storage.py:61); `MajoritySigned` makes the exception. A torn file of certificates makes `verify`
  raise each time (`GivesUpForCause`).
* RENDEZVOUS2 can come before there is a waiter for it (rendezvous.py:84-87); the connector waits for
  BEGIN for ever. So it does when its own connection is closed: `recv` returns no bytes and
  `recv_cell` goes round (cell_socket.py:95-106). `WaitsAreAnswered` excepts both.
* The connector's last cell is a DESTROY inside a relay cell, which the other side takes for nothing
  (rendezvous.py:349-352). The establisher's stream is closed only when somebody notices the silence, the
  failure detector at best; no property claims that both sides end.
* A message of more than one cell is dropped by `snd_data`, or cut by `send` into cells that are taken for
  messages each (stream.py:305); two senders in `snd_data` swap the layers (rendezvous.py:443-445).
* The digest of a relay cell is computed and not compared (crypto_state.py:74).
* A late RENDEZVOUS2 reaches the waiter of the next introduction: the keys do not agree, the
  handshake fails (`KeysAgree`), and the service has been joined with a client that gives up. The
  next extension establishes a second rendezvous on the circuit, which the relay ends, and
  `TorInfo` keeps handing the dead circuit out: retries cannot help (`FailsForCause`).
* Responsible directories are searched from the one after the first behind the id, and none when the id
  is behind all (consesus.py:456-459); the replica is told from the position in the list
  (hiddenservice.py:160).
* `_info_to_router` writes a service's keys into the `Router` the consensus hands to every search
  (hiddenservice.py:274-278), so that another search introduces itself with the wrong key (`Mixed`).
* An introduction point the consensus does not know raises `StopIteration` in the generator of the points
  (consesus.py:306), which ends the search instead of going on to the next; `FailsForCause` names it.
* Nothing limits the wait for a response over a circuit that was truncated (cli/socks.py:45,
  circuit.py:484-488), so `RequestsSettle` stops at the open stream.
* The SOCKS server has one circuit: after an onion request, other hosts' streams go to the service.
  `StreamsReachTheirHost` is about the HTTP front ends.
* A hop of a Route that is gone is replaced, the rest of the Route is not (lsr.py:1187-1196), so a detour
  arrives only if it is no longer than the plan.

## 7 Not modelled

Constant tables (`dirs.py`), regular expressions (`parsers.py`, the text within a line of a document),
HTTP itself, the SOCKS dialogue and the command line are formatting or pure input/output.
Cryptographic primitives are taken for perfect: hashes and keys are terms, ciphers are counters;
`hybrid_encrypt` and the fast handshake are left out, and the authorities' signatures are facts about a
text. `main.py`, `server.py`, `socksserver.py` and `router.py` are earlier versions of what
`rtun.py` and `rendezvous.py` do.

Within the modelled parts: latency values, ports, the choice of a candidate or of a random router by
its flags, the package window (nothing ever reads it: `send` does not wait), the callbacks of
`register`, and clocks (a timeout may come at any time its condition allows). A relay that closes the
TCP connection is not in `CellLink`: `recv` returns no bytes then and `recv_cell` goes round for ever
(cell_socket.py:99). Nor are commands the client does not know, which end its generator
(cells.py:868). A router that restarts with SN 0 is, for the others, one whose messages are old until
its number has passed the former; no module has a router that restarts. The iteration of
`checkForNodeFailure` over `HB_set` (lsr.py:513), which a heartbeat may break off, the sending of heartbeats,
and `ConnectionThread`'s end when it finds no neighbours (lsr.py:1067) are not modelled.
The dead routers an LSA names (lsr.py:264-267) are in `GraphThreads`; `LsaThreads`, which is about one origin's
entries, leaves out that another origin's LSA may remove one of them.

## 8 Plan

1. `Heartbeat`: `HB_set` with its clock, the iteration that breaks the detecting thread, and a router
   that restarts with SN 0.
2. The composition of `Circuits` and `TorStream`, in which a truncated circuit's streams stay open.
3. A relay that closes the connection, in `CellLink`.
