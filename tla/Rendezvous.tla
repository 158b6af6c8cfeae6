---------------------------- MODULE Rendezvous -----------------------------
(***************************************************************************)
(* A connection between two routers through a rendezvous point              *)
(* (rtun-routing/rendezvous.py): the thread that establishes the point and  *)
(* waits there, the thread that connects to it and retries, and, once they  *)
(* have met, the relay cells the routers' threads send each other.          *)
(*                                                                         *)
(* Layers of encryption are counters: the cipher and the digest of a layer  *)
(* take one step per cell (torpy/crypto_state.py), so a cell is read only   *)
(* by a receiver that has taken as many steps.  The layers between one      *)
(* side and the point are stepped in the order of the connection, so they   *)
(* are kept as one.                                                         *)
(***************************************************************************)
EXTENDS Naturals, Sequences, FiniteSets

CONSTANTS Threads,     \* threads of the connecting router that send to the neighbour
          DownThreads, \* those of the establishing router
          Sizes,       \* sizes of their messages
          CellSize,    \* what fits in a cell (498 in the code)
          ReadSize,    \* what the establisher's recv takes (1024)
          Attempts,    \* 12 in the code
          Sends,       \* bound on what the threads of either router send
          MaxFaults    \* bound on failures, deaths and collisions

ASSUME RendezvousAssumption ==
  /\ IsFiniteSet(Threads) /\ "HELLO" \notin Threads \cup DownThreads
  /\ Sizes \subseteq Nat \ {0} /\ CellSize \in Nat \ {0, 1} /\ ReadSize \in Nat \ {0}
  /\ Attempts \in Nat /\ Sends \in Nat /\ MaxFaults \in Nat

VARIABLES e,        \* RendezvousEstablish.run: where it is
          rend2,    \* the RENDEZVOUS2 cell: "no", "sent", "got" or "lost"
          stream,   \* the state of the establisher's stream
          buffer,   \* its bytes, each <<message, place>>
          c,        \* RendezvousConnect.run: where it is
          attempts, \* the attempts it has left
          threads,  \* the table of threads
          point,    \* the rendezvous point's cookie (external)
          wire,     \* cells under way, up to the establisher or down to the connector
          enc, dec, \* steps of the layer between the two, at either end
          link, strip, \* steps of the connector's layer with the point
          snd,      \* what each thread of the connecting router is sending
          left,     \* what the threads of either router may still send
          sent, handled, \* messages sent and taken, by direction
          lost,     \* cells whose layer was not stepped, by direction
          trouble,  \* history: a direction where something below went wrong
          faults

est == <<e, rend2, stream, buffer>>
con == <<c, attempts>>
layers == <<enc, dec, link, strip, lost>>
data == <<snd, left, sent, handled>>
vars == <<est, con, threads, point, wire, layers, data, trouble, faults>>

Dirs == {"up", "down"}
Hello(d) == [from |-> "HELLO", size |-> 2, dir |-> d]
Message(u, size, d) == [from |-> u, size |-> size, dir |-> d]

-----------------------------------------------------------------------------
Init ==
  /\ e = "start" /\ rend2 = "no" /\ stream = "none" /\ buffer = <<>>
  /\ c = "connect" /\ attempts = Attempts /\ threads = {"e", "c"}
  /\ point = "none" /\ wire = [d \in Dirs |-> <<>>]
  /\ enc = [d \in Dirs |-> 0] /\ dec = [d \in Dirs |-> 0] /\ link = 0 /\ strip = 0
  /\ snd = [u \in Threads |-> [pc |-> "idle"]]
  /\ left = [d \in Dirs |-> Sends]
  /\ sent = [d \in Dirs |-> <<>>] /\ handled = [d \in Dirs |-> <<>>]
  /\ lost = [d \in Dirs |-> 0] /\ trouble = [d \in Dirs |-> FALSE] /\ faults = 0

Fault == faults < MaxFaults /\ faults' = faults + 1
Trouble(d) == trouble' = [trouble EXCEPT ![d] = TRUE]
Sent(d, m) == sent' = [sent EXCEPT ![d] = Append(@, m)]

(***************************************************************************)
(* The cells a message of the establisher takes: TorStream.send cuts it,    *)
(* and each cell is encrypted and sent under _relay_send_lock, so its       *)
(* layers are always in the order of the connection.                        *)
(***************************************************************************)
Cells(kind, m, first) ==
  LET n == (m.size + CellSize - 1) \div CellSize
  IN [i \in 1..n |-> [kind |-> kind, peer |-> first + i - 1, whole |-> TRUE, msg |-> m,
        bytes |-> [j \in 1..(IF i < n THEN CellSize ELSE m.size - (n - 1) * CellSize) |->
                     <<m, (i - 1) * CellSize + j>>]]]

Control(kind, peer) == [kind |-> kind, peer |-> peer, whole |-> TRUE]

(***************************************************************************)
(* What ends a direction: a DESTROY cell, or the end of the TLS connection  *)
(* it runs over.  There recv returns no bytes, and recv_cell asks again,    *)
(* for ever (cell_socket.py): the thread that reads has stopped in effect.  *)
(***************************************************************************)
Destroy == [kind |-> "GONE", told |-> TRUE]
Closed == [kind |-> "GONE", told |-> FALSE]
Deaf(d) == wire[d] # <<>> /\ Head(wire[d]) = Closed

Down(cells) ==
  /\ wire' = [wire EXCEPT !["down"] = @ \o cells]
  /\ enc' = [enc EXCEPT !["down"] = @ + Len(cells)]

-----------------------------------------------------------------------------
(* The establishing side *)

(***************************************************************************)
(* The circuit to the point and its cookie.  An error here ends the thread  *)
(* with the guard and the circuit open and the thread in the table.         *)
(***************************************************************************)
Establish ==
  /\ e = "start"
  /\ \/ e' = "acked" /\ point' = "waiting" /\ UNCHANGED faults
     \/ Fault /\ e' = "died" /\ UNCHANGED point
  /\ UNCHANGED <<rend2, stream, buffer, con, threads, wire, layers, data, trouble>>

(* create_waiter: only from here on is RENDEZVOUS2 not dropped. *)
CreateWaiter ==
  /\ e = "acked" /\ e' = "wait"
  /\ UNCHANGED <<rend2, stream, buffer, con, threads, point, wire, layers, data, trouble, faults>>

(* The guard's receiver thread: CellHandlerManager.handle. *)
Rendezvous2 ==
  /\ rend2 = "sent"
  /\ rend2' = (IF e = "wait" THEN "got" ELSE "lost")
  /\ UNCHANGED <<e, stream, buffer, con, threads, point, wire, layers, data, trouble, faults>>

(* The peer's layer is added to the circuit, and BEGIN goes through it. *)
Begin ==
  /\ e = "wait" /\ rend2 = "got" /\ stream = "none" /\ e' = "opening" /\ stream' = "connecting"
  /\ Down(<<Control("BEGIN", enc["down"])>>)
  /\ UNCHANGED <<rend2, buffer, con, threads, point, dec, link, strip, lost, data, trouble, faults>>

(* Nobody came in time: CellTimeoutError, and the circuit stays open. *)
(* Or the circuit was destroyed: create_stream raises.                *)
WaitFails ==
  /\ e = "wait" /\ (rend2 # "got" \/ stream = "closed") /\ e' = "died"
  /\ UNCHANGED <<rend2, stream, buffer, con, threads, point, wire, layers, data, trouble, faults>>

(* _wait_connected, and then HELLO. *)
Connected ==
  /\ e = "opening" /\ stream = "connected" /\ e' = "loop"
  /\ Down(Cells("DATA", Hello("down"), enc["down"])) /\ Sent("down", Hello("down"))
  /\ UNCHANGED <<rend2, stream, buffer, con, threads, point, dec, link, strip, lost,
                 snd, left, handled, trouble, faults>>

(* The stream, the circuit and the guard are closed: END and DESTROY. *)
CloseAll(newE) ==
  /\ e' = newE /\ stream' = "closed" /\ point' = "closed"
  /\ LET end == IF stream = "connected" THEN <<Control("END", enc["down"])>> ELSE <<>>
     IN /\ enc' = [enc EXCEPT !["down"] = @ + Len(end)]
        /\ wire' = [wire EXCEPT !["down"] = IF point = "joined" THEN @ \o end \o <<Destroy>> ELSE @]

ConnectTimeout ==
  /\ e = "opening" /\ stream # "connected"
  /\ CloseAll("died") /\ UNCHANGED threads
  /\ UNCHANGED <<rend2, buffer, con, dec, link, strip, lost, data, trouble, faults>>

(* ReceiveThread.serverSide: pickle.loads takes one message, from the start. *)
Loads(bytes) ==
  {m \in {bytes[i][1] : i \in 1..Len(bytes)} :
     /\ Len(bytes) >= m.size
     /\ \A i \in 1..m.size : bytes[i] = <<m, i>>}

Handle(d, bytes) ==
  /\ handled' = [handled EXCEPT ![d] = @ \o (IF Loads(bytes) = {} THEN <<>>
                                             ELSE <<CHOOSE m \in Loads(bytes) : TRUE>>)]
  /\ trouble' = [trouble EXCEPT ![d] =
                   @ \/ Loads(bytes) = {} \/ \E m \in Loads(bytes) : m.size < Len(bytes)]

(***************************************************************************)
(* stream.recv(1024) has no notion of messages: it takes what is there, up  *)
(* to that many bytes.                                                      *)
(***************************************************************************)
Recv ==
  /\ e = "loop" /\ buffer # <<>> /\ stream = "connected"
  /\ LET n == IF Len(buffer) < ReadSize THEN Len(buffer) ELSE ReadSize
     IN Handle("up", SubSeq(buffer, 1, n)) /\ buffer' = SubSeq(buffer, n + 1, Len(buffer))
  /\ UNCHANGED <<e, rend2, stream, con, threads, point, wire, layers, snd, left, sent, faults>>

(* recv raises: nothing came in time, or the stream was closed under it. *)
RecvRaises ==
  /\ e = "loop" /\ (buffer = <<>> \/ stream = "closed")
  /\ IF stream = "closed"
       THEN e' = "ended" /\ UNCHANGED <<stream, point, wire, enc>>
       ELSE CloseAll("ended")
  /\ threads' = threads \ {"e"}
  /\ UNCHANGED <<rend2, buffer, con, dec, link, strip, lost, data, trouble, faults>>

-----------------------------------------------------------------------------
(* Reading a cell: CryptoState.decrypt_backward *)

(* Mutant: a cell that cannot be read does not step the layer. *)
DecryptStuck(d, readable) ==
  LET cell == Head(wire[d])
  IN \/ /\ dec' = [dec EXCEPT ![d] = IF readable THEN @ + 1 ELSE @]
        /\ readable = (cell.whole /\ cell.peer = dec[d])
        /\ UNCHANGED <<lost, trouble, faults>>
     \/ /\ Fault /\ ~readable
        /\ lost' = [lost EXCEPT ![d] = @ + 1] /\ Trouble(d)
        /\ UNCHANGED dec

(***************************************************************************)
(* A layer that finds a zero "recognized" field takes the cell for its      *)
(* own, whatever the digest (_digest_check_func returns TRUE): by chance    *)
(* the outer layers may do so, and the peer's layer does not step.          *)
(* readable: the cell is this layer's, and nothing reordered it.            *)
(***************************************************************************)
Decrypt(d, readable) ==
  LET cell == Head(wire[d])
  IN \/ /\ dec' = [dec EXCEPT ![d] = @ + 1]
        /\ readable = (cell.whole /\ cell.peer = dec[d])
        /\ UNCHANGED <<lost, trouble, faults>>
     \/ /\ Fault /\ ~readable
        /\ lost' = [lost EXCEPT ![d] = @ + 1] /\ Trouble(d)
        /\ UNCHANGED dec

Pop(d) == wire' = [wire EXCEPT ![d] = Tail(@)]

(***************************************************************************)
(* The guard's receiver thread takes a cell for the establisher; one that   *)
(* stays encrypted is logged (TorReceiver._do_recv).  DESTROY closes the    *)
(* circuit and its streams.                                                 *)
(***************************************************************************)
TakeUp ==
  /\ wire["up"] # <<>> /\ ~Deaf("up") /\ Pop("up")
  /\ LET cell == Head(wire["up"])
     IN \/ /\ cell.kind = "GONE"
           /\ stream' = "closed"
           /\ UNCHANGED <<buffer, dec, lost, trouble, faults>>
        \/ /\ cell.kind # "GONE" /\ stream \in {"none", "closed"}
           /\ UNCHANGED <<stream, buffer, dec, lost, trouble, faults>>
        \/ /\ cell.kind # "GONE" /\ stream \in {"connecting", "connected"}
           /\ \E readable \in BOOLEAN :
                /\ Decrypt("up", readable)
                /\ stream' = (IF readable /\ cell.kind = "CONNECTED" THEN "connected" ELSE stream)
                /\ buffer' = (IF readable /\ cell.kind = "DATA" THEN buffer \o cell.bytes ELSE buffer)
  /\ UNCHANGED <<e, rend2, con, threads, point, enc, link, strip, data>>

-----------------------------------------------------------------------------
(* The connecting side *)

(* After an error: 12 more attempts, 5 seconds apart. *)
Retry ==
  IF attempts = 0 THEN c' = "gone" /\ threads' = threads \ {"c"} /\ UNCHANGED attempts
  ELSE c' = "connect" /\ attempts' = attempts - 1 /\ UNCHANGED threads

(***************************************************************************)
(* connect_to_rendezvous_point: a new socket and circuit, and RENDEZVOUS1   *)
(* with the cookie.  A point that does not know it answers DESTROY, which   *)
(* counts as an error of the attempt.  The answer to CREATE_FAST is taken   *)
(* twice; the second time derives the same keys and restarts the counters.  *)
(***************************************************************************)
ConnectToPoint ==
  /\ c = "connect"
  /\ \/ /\ point = "waiting"
        /\ point' = "joined" /\ rend2' = "sent" /\ c' = "wait" /\ link' = 1 /\ strip' = 1
        /\ UNCHANGED <<attempts, threads, faults>>
     \/ /\ point # "waiting" /\ Retry /\ UNCHANGED <<point, rend2, link, strip, faults>>
     \/ /\ Fault /\ Retry /\ UNCHANGED <<point, rend2, link, strip>>
  /\ UNCHANGED <<e, stream, buffer, wire, enc, dec, lost, data, trouble>>

(* Mutant: the layers take one step for all the cells. *)
UpOnce(cells) ==
  /\ wire' = [wire EXCEPT !["up"] = @ \o cells, !["down"] = Tail(@)]
  /\ enc' = [enc EXCEPT !["up"] = @ + 1]
  /\ link' = link + Len(cells) /\ strip' = strip + Len(cells)

(* The cells to the establisher from one thread: both layers, then the socket. *)
Up(cells) ==
  /\ wire' = [wire EXCEPT !["up"] = @ \o cells, !["down"] = Tail(@)]
  /\ enc' = [enc EXCEPT !["up"] = @ + Len(cells)]
  /\ link' = link + Len(cells) /\ strip' = strip + Len(cells)

(* Mutant: DESTROY does not end the wait. *)
TakeBeginOnly ==
  /\ c = "wait" /\ wire["down"] # <<>> /\ ~Deaf("down")
  /\ LET cell == Head(wire["down"])
         hello == Cells("DATA", Hello("up"), enc["up"] + 1)
     IN \/ /\ cell.kind = "GONE" /\ Pop("down")
           /\ UNCHANGED <<con, threads, enc, dec, link, strip, lost, sent, trouble, faults>>
        \/ /\ cell.kind # "GONE" /\ UNCHANGED <<attempts, threads>>
           /\ \E readable \in BOOLEAN :
                /\ Decrypt("down", readable)
                /\ IF readable
                     THEN /\ Up(<<Control("CONNECTED", enc["up"])>> \o hello)
                          /\ Sent("up", Hello("up")) /\ c' = "top"
                     ELSE Pop("down") /\ c' = "died" /\ UNCHANGED <<enc, link, strip, sent>>
  /\ UNCHANGED <<est, point, snd, left, handled>>

(***************************************************************************)
(* The wait for BEGIN has no end: a time limit of the socket is ignored.    *)
(* The cell that comes is answered with CONNECTED and HELLO; one that       *)
(* stays encrypted raises, outside the attempts, and the thread dies.       *)
(***************************************************************************)
TakeBegin ==
  /\ c = "wait" /\ wire["down"] # <<>> /\ ~Deaf("down")
  /\ LET cell == Head(wire["down"])
         hello == Cells("DATA", Hello("up"), enc["up"] + 1)
     IN \/ /\ cell.kind = "GONE" /\ Pop("down") /\ Retry
           /\ UNCHANGED <<enc, dec, link, strip, lost, sent, trouble, faults>>
        \/ /\ cell.kind # "GONE" /\ UNCHANGED <<attempts, threads>>
           /\ \E readable \in BOOLEAN :
                /\ Decrypt("down", readable)
                /\ IF readable
                     THEN /\ Up(<<Control("CONNECTED", enc["up"])>> \o hello)
                          /\ Sent("up", Hello("up")) /\ c' = "top"
                     ELSE Pop("down") /\ c' = "died" /\ UNCHANGED <<enc, link, strip, sent>>
  /\ UNCHANGED <<est, point, snd, left, handled>>

(* while self.ALIVE: the loop goes round only when a cell came. *)
Select ==
  /\ c = "top" /\ c' = "select"
  /\ UNCHANGED <<est, attempts, threads, point, wire, layers, data, trouble, faults>>

(***************************************************************************)
(* The thread ends: DESTROY goes inside a relay cell, where its number is   *)
(* another command, so the point takes no notice; the socket stays open.    *)
(* It too may overtake a cell another thread is sending.                    *)
(***************************************************************************)
EndLoop ==
  /\ c' = "ended" /\ threads' = threads \ {"c"}
  /\ link' = link + 1 /\ strip' = strip + 1
  /\ trouble' = [trouble EXCEPT !["up"] = @ \/ \E u \in Threads : snd[u].pc = "link"]

Die ==
  /\ c = "top" /\ Fault /\ EndLoop
  /\ UNCHANGED <<est, attempts, point, wire, enc, dec, lost, data>>

(* rcv_data: each cell is taken for a message. *)
TakeDown ==
  /\ c = "select" /\ wire["down"] # <<>> /\ ~Deaf("down") /\ Pop("down")
  /\ LET cell == Head(wire["down"])
     IN \/ /\ cell.kind = "GONE" /\ EndLoop
           /\ UNCHANGED <<dec, lost, handled, faults>>
        \/ /\ cell.kind # "GONE"
           /\ \E readable \in BOOLEAN :
                \/ /\ ~readable /\ Decrypt("down", readable) /\ c' = "top"
                   /\ UNCHANGED <<threads, link, strip, handled>>
                \/ /\ readable /\ cell.whole /\ cell.peer = dec["down"]
                   /\ dec' = [dec EXCEPT !["down"] = @ + 1] /\ UNCHANGED <<lost, faults>>
                   /\ IF cell.kind = "END"
                        THEN EndLoop /\ UNCHANGED handled
                        ELSE /\ Handle("down", cell.bytes) /\ c' = "top"
                             /\ UNCHANGED <<threads, link, strip>>
  /\ UNCHANGED <<est, attempts, point, enc, snd, left, sent>>

-----------------------------------------------------------------------------
(* The routers' other threads *)

Knows(d) ==
  IF d = "up" THEN Hello("down") \in {handled["down"][i] : i \in 1..Len(handled["down"])}
  ELSE Hello("up") \in {handled["up"][i] : i \in 1..Len(handled["up"])}

(* send_to_stream at the establisher: TorStream.send. *)
SendDown(u) ==
  /\ left["down"] > 0 /\ Knows("down") /\ stream = "connected"
  /\ \E size \in Sizes :
       LET m == Message(u, size, "down")
       IN /\ Down(Cells("DATA", m, enc["down"])) /\ Sent("down", m)
          /\ trouble' = [trouble EXCEPT !["down"] = @ \/ size > CellSize]
  /\ left' = [left EXCEPT !["down"] = @ - 1]
  /\ UNCHANGED <<est, con, threads, point, dec, link, strip, lost, snd, handled, faults>>

(***************************************************************************)
(* send_to_stream at the connecting router: snd_data, without a lock.  A    *)
(* message that does not fit in a cell raises before anything is stepped,   *)
(* and is dropped with a line in the log.                                   *)
(***************************************************************************)
EncryptPeer(u) ==
  /\ snd[u].pc = "idle" /\ left["up"] > 0 /\ Knows("up")
  /\ left' = [left EXCEPT !["up"] = @ - 1]
  /\ \E size \in Sizes :
       IF size > CellSize THEN UNCHANGED <<snd, enc, sent, trouble>>
       ELSE /\ snd' = [snd EXCEPT ![u] = [pc |-> "peer", size |-> size, peer |-> enc["up"]]]
            /\ enc' = [enc EXCEPT !["up"] = @ + 1]
            /\ Sent("up", Message(u, size, "up"))
            /\ trouble' = [trouble EXCEPT !["up"] = @ \/ \E v \in Threads : snd[v].pc # "idle"]
  /\ UNCHANGED <<est, con, threads, point, wire, dec, link, strip, lost, handled, faults>>

EncryptLink(u) ==
  /\ snd[u].pc = "peer"
  /\ snd' = [snd EXCEPT ![u] = [pc |-> "link", size |-> @.size, peer |-> @.peer, link |-> link]]
  /\ link' = link + 1
  /\ UNCHANGED <<est, con, threads, point, wire, enc, dec, strip, lost, left, sent, handled,
                 trouble, faults>>

(* send_cell; the point strips its layer, and passes on what it finds. *)
Put(u) ==
  /\ snd[u].pc = "link"
  /\ LET m == Message(u, snd[u].size, "up")
         cell == [kind |-> "DATA", peer |-> snd[u].peer, whole |-> snd[u].link = strip, msg |-> m,
                  bytes |-> [i \in 1..m.size |-> <<m, i>>]]
     IN wire' = [wire EXCEPT !["up"] = IF point = "joined" THEN Append(@, cell) ELSE @]
  /\ strip' = strip + 1
  /\ snd' = [snd EXCEPT ![u] = [pc |-> "idle"]]
  /\ UNCHANGED <<est, con, threads, point, enc, dec, link, lost, left, sent, handled,
                 trouble, faults>>

(***************************************************************************)
(* The point goes away, or a connection on the way to it (external).  Each  *)
(* side is sent a DESTROY, or finds its own connection closed.              *)
(***************************************************************************)
Break ==
  /\ point = "joined" /\ Fault /\ point' = "closed"
  /\ \E last \in [Dirs -> {Destroy, Closed}] :
       wire' = [d \in Dirs |-> Append(wire[d], last[d])]
  /\ UNCHANGED <<est, con, threads, layers, data, trouble>>

EStep == Establish \/ CreateWaiter \/ Begin \/ WaitFails \/ Connected \/ ConnectTimeout
         \/ Recv \/ RecvRaises
CStep == ConnectToPoint \/ TakeBegin \/ Select \/ TakeDown
Guard == Rendezvous2 \/ TakeUp

Next ==
  \/ EStep \/ CStep \/ Guard \/ Die \/ Break
  \/ \E u \in DownThreads : SendDown(u)
  \/ \E u \in Threads : EncryptPeer(u) \/ EncryptLink(u) \/ Put(u)

Spec == Init /\ [][Next]_vars

(* Threads run, and a wait with a time limit ends. *)
FairSpec == Spec /\ WF_vars(EStep) /\ WF_vars(CStep) /\ WF_vars(Guard)

-----------------------------------------------------------------------------
(* Properties *)

Messages == [from : Threads \cup DownThreads \cup {"HELLO"}, size : Sizes \cup {2}, dir : Dirs]

CellsOfAnyKind ==
  [kind : {"BEGIN", "CONNECTED", "END"}, peer : Nat, whole : {TRUE}]
  \cup [kind : {"DATA"}, peer : Nat, whole : BOOLEAN, msg : Messages, bytes : Seq(Messages \X Nat)]
  \cup {Destroy, Closed}

Sending ==
  {[pc |-> "idle"]} \cup [pc : {"peer"}, size : Sizes, peer : Nat]
  \cup [pc : {"link"}, size : Sizes, peer : Nat, link : Nat]

TypeOK ==
  /\ e \in {"start", "acked", "wait", "opening", "loop", "died", "ended"}
  /\ rend2 \in {"no", "sent", "got", "lost"}
  /\ stream \in {"none", "connecting", "connected", "closed"}
  /\ c \in {"connect", "wait", "top", "select", "died", "gone", "ended"}
  /\ attempts \in 0..Attempts /\ point \in {"none", "waiting", "joined", "closed"}
  /\ threads \subseteq {"e", "c"} /\ buffer \in Seq(Messages \X Nat)
  /\ wire \in [Dirs -> Seq(CellsOfAnyKind)] /\ snd \in [Threads -> Sending]
  /\ enc \in [Dirs -> Nat] /\ dec \in [Dirs -> Nat] /\ link \in Nat /\ strip \in Nat
  /\ lost \in [Dirs -> Nat] /\ trouble \in [Dirs -> BOOLEAN] /\ faults \in 0..MaxFaults
  /\ left \in [Dirs -> 0..Sends]
  /\ sent \in [Dirs -> Seq(Messages)] /\ handled \in [Dirs -> Seq(Messages)]

(***************************************************************************)
(* While the connection lasts, the layer between the two routers has been   *)
(* stepped at the receiver once for each cell that left and is not under    *)
(* way, but for the cells an outer layer took by chance: senders that       *)
(* overtake each other garble cells, and no others after them               *)
(* (encrypt_forward, decrypt_backward).                                     *)
(***************************************************************************)
LayersInStep ==
  point = "joined" /\ stream # "closed" =>
    \A d \in Dirs :
      LET cells == Cardinality({i \in 1..Len(wire[d]) : wire[d][i].kind # "GONE"})
          sending == IF d = "up" THEN Cardinality({u \in Threads : snd[u].pc # "idle"}) ELSE 0
      IN enc[d] = dec[d] + lost[d] + cells + sending

(***************************************************************************)
(* Messages are taken in the order they were sent and each once, and none   *)
(* is missing when nothing is under way, as long as none was longer than a  *)
(* cell, two senders of the connecting router (snd_data, or the thread that *)
(* ends) did not overlap,                                                   *)
(* one recv did not take two of them, and no layer took a cell by chance.   *)
(***************************************************************************)
CleanChannelDelivers ==
  \A d \in Dirs :
    ~trouble[d] =>
      /\ Len(handled[d]) <= Len(sent[d])
      /\ handled[d] = SubSeq(sent[d], 1, Len(handled[d]))
      /\ (/\ point = "joined" /\ e = "loop" /\ stream = "connected" /\ c \in {"top", "select"}
          /\ wire[d] = <<>> /\ (d = "up" => buffer = <<>> /\ \A u \in Threads : snd[u].pc = "idle"))
           => Len(handled[d]) = Len(sent[d])

(***************************************************************************)
(* A connector that was let in at the point waits for BEGIN for ever for    *)
(* two reasons only: RENDEZVOUS2 was lost at the establisher, because it    *)
(* came between the acknowledgement and create_waiter, or after the wait;   *)
(* or its own connection was closed, which recv_cell does not notice.       *)
(***************************************************************************)
WaitsAreAnswered ==
  (c = "wait" /\ rend2 # "lost") ~> (c # "wait" \/ rend2 = "lost" \/ Deaf("down"))

=============================================================================
