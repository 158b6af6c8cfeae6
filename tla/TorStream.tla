------------------------------ MODULE TorStream ------------------------------
(***************************************************************************)
(* One stream of a Tor circuit (torpy/stream.py) and the threads that share *)
(* it: the receiver thread, which handles the cells in the order they come  *)
(* (torpy/circuit.py), the user's thread, and the socket loop that carries  *)
(* a socket pair.  The user reads with recv, or over a socket in one of the *)
(* ways the code does:                                                      *)
(*   "socket"    the client socket is closed, then the stream (cli/socks.py)*)
(*   "proxy"     the stream is closed first (http/base.py)                  *)
(*   "as_socket" as_socket() inside "with stream"                           *)
(*                                                                         *)
(* A step ends where a lock is released or taken, or another thread's write *)
(* could matter.  The sections under _data_lock alone are single steps; the *)
(* holder of _close_lock may block in the socket pair, so that lock is a    *)
(* variable.  DATA cells are numbered, and read by the cell.  What the user *)
(* sends is left out: send waits for nothing and nobody waits for it.  So   *)
(* is the package window, which nothing reads.                              *)
(***************************************************************************)
EXTENDS Naturals, Sequences

CONSTANTS
  Last,      \* bound on the DATA cells the peer sends
  BufSize,   \* the bufsize of recv, in cells
  Capacity,  \* the cells the socket pair takes before send blocks
  Start,     \* the deliver window, and
  Increment, \*   what a SENDME adds to it
  Modes,     \* the ways the user may choose among
  Destroys   \* whether the circuit may be destroyed by the other side

ASSUME StreamAssumption ==
  /\ {Last, BufSize, Capacity, Start, Increment} \subseteq Nat \ {0}
  /\ Increment <= Start
  /\ Modes \subseteq {"recv", "socket", "proxy", "as_socket"}
  /\ Destroys \in BOOLEAN

VARIABLES
  (* TorStream *)
  state, buffer, has_data, close_lock,
  in_map,      \* the circuit's StreamsList has it
  deliver,     \* _window._deliver
  (* TorSocketLoop *)
  lpc,         \* its thread; "none" while stream._loop is None
  our_sock,    \* its end of the pair is open
  control,     \* the control pair: "open", a byte "sent", or "closed"
  to_client,   \* cells in the socket pair
  (* the threads *)
  rpc, rcell,  \* the receiver: where it is, and the cell it handles
  upc, mode,   \* the user: where it is, and how it uses the stream
  got,         \* the cells the user has read
  client_open, \* the user's end of the pair is open
  (* the peer *)
  peer,        \* "idle", "open", "ended", "destroyed"
  sent,        \* how many DATA cells have come
  credit       \* how many more the peer may send

stream == <<state, buffer, has_data, close_lock, in_map, deliver>>
loop == <<lpc, our_sock, control>>
receiver == <<rpc, rcell>>
user == <<upc, mode, got, client_open>>
remote == <<peer, sent, credit>>
vars == <<stream, loop, to_client, receiver, user, remote>>

Holders == {"user", "receiver"}

TypeOK ==
  /\ state \in {"Closed", "Connecting", "Connected", "Disconnected"}
  /\ buffer \in Seq(1..Last) /\ to_client \in Seq(1..Last) /\ got \in Seq(1..Last)
  /\ has_data \in BOOLEAN
  /\ close_lock \in Holders \cup {"free"}
  /\ in_map \in BOOLEAN
  /\ deliver \in 0..Start
  /\ lpc \in {"none", "unstarted", "select", "ready", "over"}
  /\ our_sock \in BOOLEAN
  /\ control \in {"open", "sent", "closed"}
  /\ rpc \in {"idle", "handle", "put", "close", "join"}
  /\ rcell \in {"CONNECTED", "DATA", "END", "DESTROY"}
  /\ upc \in {"connecting", "connected", "reading", "waiting", "take", "eof",
              "flushing", "flushed", "assigned", "using", "stop", "stopping", "close",
              "join", "over"}
  /\ mode \in Modes
  /\ client_open \in BOOLEAN
  /\ peer \in {"idle", "open", "ended", "destroyed"}
  /\ sent \in 0..Last
  /\ credit \in 0..Start

(* The stream was created and BEGIN sent: connect(). *)
Init ==
  /\ state = "Connecting" /\ buffer = <<>> /\ has_data = FALSE
  /\ close_lock = "free" /\ in_map = TRUE /\ deliver = Start
  /\ lpc = "none" /\ our_sock = FALSE /\ control = "open" /\ to_client = <<>>
  /\ rpc = "idle" /\ rcell = "CONNECTED"
  /\ upc = "connecting" /\ mode \in Modes /\ got = <<>> /\ client_open = FALSE
  /\ peer = "idle" /\ sent = 0 /\ credit = Start

Free == close_lock = "free"
DataFree == upc # "flushing"   \* _data_lock, which is else held within a step
HasLoop == lpc # "none"

-----------------------------------------------------------------------------
(* The receiver thread.  The order in which cells come is the peer's. *)

(***************************************************************************)
(* _on_stream: a cell of a stream that is not in the list is dropped.       *)
(***************************************************************************)
Receive(cell) ==
  /\ rpc = "idle"
  /\ rcell' = cell
  /\ rpc' = IF ~in_map THEN "idle" ELSE IF cell = "DESTROY" THEN "close" ELSE "handle"
  /\ UNCHANGED <<stream, loop, to_client, user>>

Peer ==
  \/ /\ peer = "idle"
     /\ Receive("CONNECTED")
     /\ peer' = "open"
     /\ UNCHANGED <<sent, credit>>
  \/ /\ peer = "open" /\ sent < Last /\ credit > 0
     /\ Receive("DATA")
     /\ sent' = sent + 1 /\ credit' = credit - 1
     /\ UNCHANGED peer
  \/ /\ peer \in {"idle", "open"}
     /\ Receive("END")
     /\ peer' = "ended"
     /\ UNCHANGED <<sent, credit>>
  \/ /\ peer # "destroyed" /\ Destroys
     /\ Receive("DESTROY")
     /\ peer' = "destroyed"
     /\ UNCHANGED <<sent, credit>>

HandleConnected ==
  /\ rpc = "handle" /\ rcell = "CONNECTED"
  /\ state' = "Connected"
  /\ rpc' = "idle"
  /\ UNCHANGED <<buffer, has_data, close_lock, in_map, deliver, loop, to_client,
                 rcell, user, remote>>

(* Mutant: one late. *)
CountedOneLate ==
  IF deliver - 1 >= Start - Increment
    THEN deliver' = deliver - 1 /\ UNCHANGED credit
    ELSE deliver' = deliver - 1 + Increment /\ credit' = credit + Increment

(* deliver_dec, and a SENDME if need_sendme. *)
Counted ==
  IF deliver - 1 > Start - Increment
    THEN deliver' = deliver - 1 /\ UNCHANGED credit
    ELSE deliver' = deliver - 1 + Increment /\ credit' = credit + Increment

(***************************************************************************)
(* A DATA cell: _append under both locks, then the window.                  *)
(***************************************************************************)
HandleData ==
  /\ rpc = "handle" /\ rcell = "DATA"
  /\ Free /\ DataFree
  /\ ~HasLoop \/ state = "Closed"
  /\ IF state = "Closed"
       THEN UNCHANGED <<buffer, has_data>>
       ELSE buffer' = Append(buffer, sent) /\ has_data' = TRUE
  /\ Counted
  /\ rpc' = "idle"
  /\ UNCHANGED <<state, close_lock, in_map, loop, to_client, rcell, user, peer, sent>>

(* With a loop, and the locks: send blocks while the pair is full. *)
LockData ==
  /\ rpc = "handle" /\ rcell = "DATA"
  /\ Free /\ HasLoop /\ state # "Closed"
  /\ close_lock' = "receiver"
  /\ rpc' = "put"
  /\ UNCHANGED <<state, buffer, has_data, in_map, deliver, loop, to_client, rcell,
                 user, remote>>

PutData ==
  /\ rpc = "put"
  /\ our_sock /\ client_open /\ Len(to_client) < Capacity
  /\ to_client' = Append(to_client, sent)
  /\ Counted
  /\ close_lock' = "free"
  /\ rpc' = "idle"
  /\ UNCHANGED <<state, buffer, has_data, in_map, loop, rcell, user, peer, sent>>

(* Either end is closed: send raises, and the window does not count it. *)
PutFails ==
  /\ rpc = "put"
  /\ ~our_sock \/ ~client_open
  /\ close_lock' = "free"
  /\ rpc' = "idle"
  /\ UNCHANGED <<state, buffer, has_data, in_map, deliver, loop, to_client, rcell,
                 user, remote>>

(* _end *)
HandleEnd ==
  /\ rpc = "handle" /\ rcell = "END"
  /\ Free /\ DataFree
  /\ state' = IF state = "Connected" THEN "Disconnected" ELSE state
  /\ IF HasLoop
       THEN our_sock' = FALSE /\ UNCHANGED has_data
       ELSE has_data' = TRUE /\ UNCHANGED our_sock
  /\ rpc' = "idle"
  /\ UNCHANGED <<buffer, close_lock, in_map, deliver, lpc, control, to_client, rcell,
                 user, remote>>

-----------------------------------------------------------------------------
(***************************************************************************)
(* close(), by the user or, when the circuit is destroyed, by the receiver. *)
(* who is the thread, then and failed where it goes on.                     *)
(***************************************************************************)
GotoOf(who, label) ==
  IF who = "user" THEN upc' = label /\ UNCHANGED rpc ELSE rpc' = label /\ UNCHANGED upc

After(who) == IF who = "user" THEN "over" ELSE "idle"

PcOf(who) == IF who = "user" THEN upc ELSE rpc

CanStop == control # "closed"

(* Closed already, or no loop to stop: done in one go. *)
CloseAtOnce(who) ==
  /\ PcOf(who) = "close"
  /\ Free
  /\ state = "Closed" \/ ~HasLoop
  /\ state' = "Closed"
  /\ in_map' = (in_map /\ state = "Closed")
  /\ GotoOf(who, After(who))
  /\ UNCHANGED <<buffer, has_data, close_lock, deliver, loop, to_client, rcell, mode,
                 got, client_open, remote>>

(* close_socket under _close_lock; stop() raises on a closed control socket. *)
BeginClose(who) ==
  /\ PcOf(who) = "close"
  /\ Free
  /\ state # "Closed" /\ HasLoop
  /\ IF CanStop
       THEN GotoOf(who, "join") /\ close_lock' = who /\ control' = "sent"
       ELSE GotoOf(who, After(who)) /\ UNCHANGED <<close_lock, control>>
  /\ UNCHANGED <<state, buffer, has_data, in_map, deliver, lpc, our_sock, to_client,
                 rcell, mode, got, client_open, remote>>

(* Joined; or join() raises, the thread not being started. *)
EndClose(who) ==
  /\ PcOf(who) = "join"
  /\ lpc \in {"over", "unstarted"}
  /\ IF lpc = "unstarted"
       THEN UNCHANGED <<state, in_map>>
       ELSE state' = "Closed" /\ in_map' = FALSE
  /\ close_lock' = "free"
  /\ GotoOf(who, After(who))
  /\ UNCHANGED <<buffer, has_data, deliver, loop, to_client, rcell, mode, got,
                 client_open, remote>>

-----------------------------------------------------------------------------
(* The user's thread *)

UserOnly == UNCHANGED <<stream, loop, to_client, receiver, mode, got, client_open, remote>>

(* _wait_connected: polled, until the timeout.  The stream is closed later. *)
WaitConnected ==
  /\ upc = "connecting"
  /\ upc' \in {"close"} \cup IF state = "Connected" THEN {"connected"} ELSE {}
  /\ UserOnly

(* recv *)
Recv ==
  /\ upc = "reading" \/ (upc = "connected" /\ mode = "recv")
  /\ upc' \in {"close", IF state = "Closed" THEN "close" ELSE "waiting"}
  /\ UserOnly

(* Mutant: what is left in the buffer is not looked at. *)
SignalledEndFirst ==
  /\ upc = "waiting" /\ has_data
  /\ upc' = IF state = "Disconnected" THEN "eof" ELSE "take"
  /\ UserOnly

Signalled ==
  /\ upc = "waiting" /\ has_data
  /\ upc' = IF state = "Disconnected" /\ buffer = <<>> THEN "eof" ELSE "take"
  /\ UserOnly

(* Mutant: the last cells of the buffer are returned, the first are dropped. *)
TakeLast ==
  /\ upc = "take"
  /\ LET n == IF Len(buffer) < BufSize THEN Len(buffer) ELSE BufSize
     IN /\ got' = got \o SubSeq(buffer, Len(buffer) - n + 1, Len(buffer))
        /\ buffer' = SubSeq(buffer, n + 1, Len(buffer))
        /\ upc' = IF n = 0 THEN "eof" ELSE "reading"
  /\ has_data' = IF buffer' = <<>> /\ state # "Disconnected" THEN FALSE ELSE has_data
  /\ UNCHANGED <<state, close_lock, in_map, deliver, loop, to_client, receiver, mode,
                 client_open, remote>>

(* Mutant: the event is cleared whatever the state. *)
TakeClears ==
  /\ upc = "take"
  /\ LET n == IF Len(buffer) < BufSize THEN Len(buffer) ELSE BufSize
     IN /\ got' = got \o SubSeq(buffer, 1, n)
        /\ buffer' = SubSeq(buffer, n + 1, Len(buffer))
        /\ upc' = IF n = 0 THEN "eof" ELSE "reading"
  /\ has_data' = IF buffer' = <<>> THEN FALSE ELSE has_data
  /\ UNCHANGED <<state, close_lock, in_map, deliver, loop, to_client, receiver, mode,
                 client_open, remote>>

Take ==
  /\ upc = "take"
  /\ LET n == IF Len(buffer) < BufSize THEN Len(buffer) ELSE BufSize
     IN /\ got' = got \o SubSeq(buffer, 1, n)
        /\ buffer' = SubSeq(buffer, n + 1, Len(buffer))
        /\ upc' = IF n = 0 THEN "eof" ELSE "reading"
  /\ has_data' = IF buffer' = <<>> /\ state # "Disconnected" THEN FALSE ELSE has_data
  /\ UNCHANGED <<state, close_lock, in_map, deliver, loop, to_client, receiver, mode,
                 client_open, remote>>

(* The wait times out, or the empty read says that the peer has ended. *)
StopReading ==
  /\ upc = "eof" \/ (upc = "waiting" /\ ~has_data)
  /\ upc' = "close"
  /\ UserOnly

(***************************************************************************)
(* create_socket: what is buffered goes into the pair, under _data_lock;    *)
(* then, without it, _loop is assigned; then the thread starts.  Nobody can *)
(* read the pair yet: more than it takes blocks send for good.              *)
(***************************************************************************)
FlushBlocks ==
  /\ upc = "connected" /\ mode # "recv"
  /\ Len(buffer) > Capacity
  /\ upc' = "flushing"
  /\ UserOnly

Flush ==
  /\ upc = "connected" /\ mode # "recv"
  /\ Len(buffer) <= Capacity
  /\ to_client' = buffer
  /\ buffer' = <<>>
  /\ our_sock' = TRUE /\ client_open' = TRUE
  /\ upc' = "flushed"
  /\ UNCHANGED <<state, has_data, close_lock, in_map, deliver, lpc, control, receiver,
                 mode, got, remote>>

AssignLoop ==
  /\ upc = "flushed"
  /\ lpc' = "unstarted"
  /\ upc' = "assigned"
  /\ UNCHANGED <<stream, our_sock, control, to_client, receiver, mode, got,
                 client_open, remote>>

StartLoop ==
  /\ upc = "assigned"
  /\ lpc' = "select"
  /\ upc' = "using"
  /\ UNCHANGED <<stream, our_sock, control, to_client, receiver, mode, got,
                 client_open, remote>>

ClientReads ==
  /\ upc = "using" /\ to_client # <<>>
  /\ got' = Append(got, Head(to_client))
  /\ to_client' = Tail(to_client)
  /\ UNCHANGED <<stream, loop, receiver, upc, mode, client_open, remote>>

(* Mutant: the stream is closed before the client socket. *)
ClientStays ==
  /\ upc = "using"
  /\ upc' = IF mode = "as_socket" THEN "stop" ELSE "close"
  /\ UNCHANGED <<stream, loop, to_client, receiver, mode, got, client_open, remote>>

(* The user has finished, whatever may still come. *)
ClientLeaves ==
  /\ upc = "using"
  /\ client_open' = (mode = "proxy")
  /\ upc' = IF mode = "as_socket" THEN "stop" ELSE "close"
  /\ UNCHANGED <<stream, loop, to_client, receiver, mode, got, remote>>

(* as_socket calls close_socket itself, without _close_lock. *)
StopLoop ==
  /\ upc = "stop"
  /\ IF CanStop
       THEN upc' = "stopping" /\ control' = "sent"
       ELSE upc' = "close" /\ UNCHANGED control
  /\ UNCHANGED <<stream, lpc, our_sock, to_client, receiver, mode, got, client_open,
                 remote>>

JoinLoop ==
  /\ upc = "stopping" /\ lpc = "over"
  /\ upc' = "close"
  /\ UserOnly

-----------------------------------------------------------------------------
(* The socket loop's thread *)

(* select returns our end: the client has written, or closed its own. *)
Readable ==
  /\ lpc = "select" /\ our_sock
  /\ lpc' = "ready"
  /\ UNCHANGED <<stream, our_sock, control, to_client, receiver, user, remote>>

(* _do_recv; the thread dies if the socket was closed meanwhile. *)
LoopRecv ==
  /\ lpc = "ready"
  /\ lpc' = IF our_sock THEN "select" ELSE "over"
  /\ UNCHANGED <<stream, our_sock, control, to_client, receiver, user, remote>>

(* A byte in the control pair: _do_stop and _cleanup. *)
Finish ==
  /\ lpc = "select" /\ control = "sent"
  /\ lpc' = "over"
  /\ our_sock' = FALSE
  /\ control' = "closed"
  /\ UNCHANGED <<stream, to_client, receiver, user, remote>>

-----------------------------------------------------------------------------

ReceiverStep ==
  \/ HandleConnected \/ HandleData \/ LockData \/ PutData \/ PutFails \/ HandleEnd
  \/ CloseAtOnce("receiver") \/ BeginClose("receiver") \/ EndClose("receiver")

UserStep ==
  \/ WaitConnected \/ Recv \/ Signalled \/ Take \/ StopReading
  \/ FlushBlocks \/ Flush \/ AssignLoop \/ StartLoop \/ ClientReads \/ ClientLeaves
  \/ StopLoop \/ JoinLoop
  \/ CloseAtOnce("user") \/ BeginClose("user") \/ EndClose("user")

LoopStep == Readable \/ LoopRecv \/ Finish

Next == Peer \/ ReceiverStep \/ UserStep \/ LoopStep

Spec == Init /\ [][Next]_vars

(***************************************************************************)
(* Every thread goes on while it can.  select returns every socket that is  *)
(* ready, so the loop comes to its control byte however often the client's  *)
(* end is ready too.  Nothing is assumed of the peer.                       *)
(***************************************************************************)
FairSpec ==
  /\ Spec
  /\ WF_vars(ReceiverStep)
  /\ WF_vars(UserStep)
  /\ WF_vars(LoopStep) /\ SF_vars(Finish)

-----------------------------------------------------------------------------
(* Properties *)

(***************************************************************************)
(* A reader never misses a wakeup: while there is something to read, or the *)
(* end to be told of, the event recv waits for is set, so a recv that times *)
(* out had nothing to return.                                               *)
(***************************************************************************)
DataSignalled ==
  ~HasLoop /\ (buffer # <<>> \/ state = "Disconnected") => has_data

(***************************************************************************)
(* The user reads the cells in the order they came, each once, and all of   *)
(* them but for what the flush leaves: a cell he reads past through a       *)
(* socket came between the flush and the assignment of the loop, and is     *)
(* still in the buffer, where recv would find it.                           *)
(***************************************************************************)
ReadInOrder ==
  /\ \A i \in 2..Len(got) : got[i - 1] < got[i]
  /\ got # <<>> => \A n \in 1..got[Len(got)] :
       \/ \E i \in 1..Len(got) : got[i] = n
       \/ mode # "recv" /\ \E i \in 1..Len(buffer) : buffer[i] = n

(***************************************************************************)
(* recv returns nothing only when the peer has ended and all it sent has    *)
(* been read ("If remote side already send 'end cell' but we still has some *)
(* data - we keep receiving").                                              *)
(***************************************************************************)
EmptyMeansEnd ==
  upc = "eof" => peer \in {"ended", "destroyed"} /\ Len(got) = sent

(***************************************************************************)
(* While the stream takes its cells, the peer is told in time to go on: it  *)
(* is never left with less than a window without one SENDME.                *)
(***************************************************************************)
SendmesKeepUp ==
  rpc = "idle" /\ in_map /\ mode = "recv" => credit > Start - Increment

(***************************************************************************)
(* Whoever closes his socket first, and then the stream, comes back: he     *)
(* waits neither for a receiver that is stuck in the full pair nor for a    *)
(* loop that never ends; nor does the receiver when the circuit goes.       *)
(***************************************************************************)
CloseReturns ==
  /\ (mode # "proxy" /\ upc \in {"close", "stop"}) ~> upc = "over"
  /\ (mode # "proxy" /\ rpc = "close") ~> rpc = "idle"

=============================================================================
