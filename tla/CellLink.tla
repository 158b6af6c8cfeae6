------------------------------ MODULE CellLink ------------------------------
(***************************************************************************)
(* One TLS connection between this client and its guard relay               *)
(* (torpy/cell_socket.py): TorCellSocket with its generator of cells,       *)
(* TorProtocol with the version both ends agree on, and TorHandshake.       *)
(*                                                                          *)
(* The relay is external.  It writes the bytes of its cells and TLS cuts    *)
(* them into records anywhere.  The client reads at most BufSize bytes at a *)
(* time; what is left of a record stays inside the TLS library (`rest'),    *)
(* where the select the receiver thread waits in does not see it.           *)
(***************************************************************************)
EXTENDS Cells, FiniteSets

CONSTANTS
  BufSize,     \* RECV_BUFF_SIZE
  Pieces,      \* the lengths of the records the relay cuts its bytes into
  Offers,      \* the lists of versions the relay may offer
  Scripts,     \* the sequences of cells the relay may send after its VERSIONS
  ToRelay,     \* the cells the client may send once the handshake is over
  MaxUp,       \* bound: how many of them
  MaxOut,      \* bound: bytes waiting when the relay writes the next cell
  MaxNet       \* bound: records in the network

ASSUME BufAssumption == BufSize \in Nat \ {0} /\ Pieces \subseteq Nat \ {0}

VARIABLES
  phase,     \* of the client: where connect() is, "open" once it returned
  version,   \* TorProtocol._version
  data,      \* _data
  stage,     \* what the generator of cells waits for; "start": _next_len is None
  want,      \* _next_len
  header,    \* the circuit and command number read last
  received,  \* the cells handed out so far
  rest,      \* decrypted bytes that recv has not returned yet
  net,       \* the records on their way to the client
  out,       \* the bytes the relay has written and TLS has not sent
  down,      \* the cells the relay has sent, as the client is to see them
  todo,      \* the cells the relay has still to send
  agreed,    \* the version the relay uses; 0 before it has read VERSIONS
  wire,      \* the buffers written to the relay that it has not read
  up,        \* the cells written to the relay, as it is to see them
  got        \* the cells the relay has read

reader == <<version, data, stage, want, header, received, rest>>
relay == <<out, down, todo, agreed>>
upward == <<wire, up, got>>
vars == <<phase, reader, net, relay, upward>>

Handshaking == {"versions", "certs", "auth", "netinfo"}
SUPPORTED_VERSION == <<3, 4>>
DEFAULT_VERSION == 3
Largest(s) == CHOOSE v \in {s[i] : i \in DOMAIN s} : \A i \in DOMAIN s : s[i] <= v

Init ==
  /\ phase = "init" /\ version = DEFAULT_VERSION
  /\ data = <<>> /\ stage = "start" /\ want = 0 /\ header = [circ |-> 0, number |-> 0]
  /\ received = <<>> /\ rest = <<>> /\ net = <<>>
  /\ out = <<>> /\ down = <<>> /\ todo \in Scripts /\ agreed = 0
  /\ wire = <<>> /\ up = <<>> /\ got = <<>>

-----------------------------------------------------------------------------
(* Sending *)

(* What the relay finds in a cell: the payload it unpacks is external. *)
AtRelay(c) ==
  [circ |-> c.circ, number |-> Command[c.type],
   payload |-> IF VarLen(c.type) THEN Payload(c) ELSE Fill(PayloadSize, Payload(c))]

(* send_cell, on a socket that is there: serialized, then written in one piece. *)
SendCell(c, v) ==
  /\ wire' = Append(wire, Serialize(c, v))
  /\ up' = Append(up, AtRelay(c))
  /\ UNCHANGED got

(* connect, up to the first recv_cell. *)
Connect ==
  /\ phase = "init" /\ phase' = "versions"
  /\ SendCell([type |-> "VERSIONS", circ |-> 0, versions |-> SUPPORTED_VERSION], version)
  /\ UNCHANGED <<reader, net, relay>>

(***************************************************************************)
(* Threads send cells when connect() has returned.  struct.pack raises for  *)
(* a circuit identifier that does not fit, and nothing is written; after    *)
(* close() nothing is written either.                                       *)
(***************************************************************************)
UserSends ==
  /\ phase = "open" /\ Len(up) < MaxUp + 2
  /\ \E c \in ToRelay : Fits(c, version) /\ SendCell(c, version)
  /\ UNCHANGED <<phase, reader, net, relay>>

Close ==
  /\ phase = "open" /\ phase' = "closed"
  /\ UNCHANGED <<reader, net, relay, upward>>

-----------------------------------------------------------------------------
(* Receiving *)

HeaderLen == IdLen(version) + 1  \* struct.calcsize(header_format)

(* recv_cell: next() on the generator, before any recv. *)
Expect ==
  /\ phase \in Handshaking /\ stage = "start"
  /\ stage' = "header" /\ want' = HeaderLen
  /\ UNCHANGED <<phase, version, data, header, received, rest, net, relay, upward>>

(* One recv: the rest of a record if there is one, else the next record. *)
Take(record) ==
  /\ data' = data \o Until(record, BufSize)
  /\ rest' = From(record, BufSize)

Recv ==
  IF rest # <<>> THEN Take(rest) /\ UNCHANGED net
  ELSE net # <<>> /\ Take(Head(net)) /\ net' = Tail(net)

(* recv_cell reads when the next part is not there yet. *)
RecvSync ==
  /\ phase \in Handshaking /\ stage # "start" /\ Len(data) < want
  /\ Recv
  /\ UNCHANGED <<phase, version, stage, want, header, received, relay, upward>>

(***************************************************************************)
(* recv_cell_async runs when select reports the socket readable: a record   *)
(* has arrived.  The generator is asked what it waits for after the recv.   *)
(***************************************************************************)
RecvAsync ==
  /\ phase = "open" /\ net # <<>> /\ (stage = "start" \/ Len(data) < want)
  /\ Recv
  /\ stage' = IF stage = "start" THEN "header" ELSE stage
  /\ want' = IF stage = "start" THEN HeaderLen ELSE want
  /\ UNCHANGED <<phase, version, header, received, relay, upward>>

Ready(s) == stage = s /\ Len(data) >= want /\ phase \in Handshaking \union {"open"}
Piece == Until(data, want)  \* what _build_next_cell sends into the generator

(* An exception: connect() raises TorSocketConnectError, the receiver ends. *)
Raise == phase' = IF phase = "open" THEN "broken" ELSE "failed"

TakeHeader ==
  /\ Ready("header")
  /\ data' = From(data, want)
  /\ LET width == IdLen(version)
         number == Piece[width + 1]
     IN /\ header' = [circ |-> IF width = 2 THEN Read16(Piece) ELSE Read32(Piece),
                      number |-> number]
        /\ IF number \notin Numbers(Command) THEN Raise /\ UNCHANGED <<stage, want>>
           ELSE /\ IF VarLen(ByNumber(Command, number))
                     THEN stage' = "length" /\ want' = 2
                     ELSE stage' = "payload" /\ want' = PayloadSize
                /\ UNCHANGED phase
  /\ UNCHANGED <<version, received, rest, net, relay, upward>>

TakeLength ==
  /\ Ready("length")
  /\ data' = From(data, want)
  /\ stage' = "payload" /\ want' = Read16(Piece)
  /\ UNCHANGED <<phase, version, header, received, rest, net, relay, upward>>

Expected ==
  [versions |-> "VERSIONS", certs |-> "CERTS", auth |-> "AUTH_CHALLENGE",
   netinfo |-> "NETINFO"]
After == [versions |-> "certs", certs |-> "auth", auth |-> "netinfo", netinfo |-> "open"]

(* What a user gets of a cell: of a RELAY cell what is inside it. *)
Opened(c) ==
  IF c.type # "RELAY" THEN c
  ELSE LET h == ParseHeader(c.data)
       IN [type |-> "RELAY", circ |-> c.circ, stream |-> h.stream,
           inner |-> SetDecrypted(h)]

(* _retrieve_versions. *)
Agree(cell) ==
  version' = IF Largest(cell.versions) < Largest(SUPPORTED_VERSION)
               THEN Largest(cell.versions) ELSE Largest(SUPPORTED_VERSION)

(***************************************************************************)
(* recv_cell returns the cell to TorHandshake, and the generator is left at *)
(* _next_len = None; a cell of another kind fails the assertion.            *)
(***************************************************************************)
HandToHandshake(cell) ==
  /\ phase \in Handshaking
  /\ received' = Append(received, cell)
  /\ stage' = "start" /\ want' = 0
  /\ phase' = IF cell.type = Expected[phase] THEN After[phase] ELSE "failed"
  /\ IF phase = "versions" /\ cell.type = "VERSIONS" THEN Agree(cell)
                                                     ELSE UNCHANGED version
  /\ IF phase = "netinfo" /\ cell.type = "NETINFO"
       THEN SendCell([type |-> "NETINFO", circ |-> 0, timestamp |-> 7,
                      other_or |-> <<8, 8, 8, 8>>, this_or |-> <<0, 0, 0, 0>>], version)
       ELSE UNCHANGED upward

(* Mutant: one cell for each time the socket is readable. *)
HandToReceiverOnce(cell) ==
  /\ phase = "open"
  /\ received' = Append(received, Opened(cell))
  /\ stage' = "start" /\ want' = 0
  /\ UNCHANGED <<phase, version, upward>>

(* recv_cell_async yields the cell to its handlers, then asks what is next. *)
HandToReceiver(cell) ==
  /\ phase = "open"
  /\ received' = Append(received, Opened(cell))
  /\ stage' = "header" /\ want' = HeaderLen
  /\ UNCHANGED <<phase, version, upward>>

TakePayload ==
  /\ Ready("payload")
  /\ data' = From(data, want)
  /\ \E cell \in {Deserialize(ByNumber(Command, header.number), header.circ, Piece)} :
       \/ cell = Error /\ Raise /\ UNCHANGED <<version, stage, want, received, upward>>
       \/ cell # Error /\ (HandToHandshake(cell) \/ HandToReceiver(cell))
  /\ UNCHANGED <<header, rest, net, relay>>

(* settimeout(15.0): a recv of the handshake that nothing answers. *)
Timeout ==
  /\ phase \in Handshaking /\ stage # "start" /\ Len(data) < want
  /\ net = <<>> /\ rest = <<>>
  /\ phase' = "failed"
  /\ UNCHANGED <<reader, net, relay, upward>>

-----------------------------------------------------------------------------
(* The relay *)

(* How a cell is to be seen: torpy keeps one field of NETINFO, drops a ttl of 0. *)
InnerSeen(i) ==
  CASE i.type = "CONNECTED" /\ i.ttl = 0 -> [i EXCEPT !.address = <<>>]
    [] i.type = "END" /\ i.reason # EXIT_POLICY -> [i EXCEPT !.address = <<>>, !.ttl = 0]
    [] OTHER -> i
Seen(c) ==
  CASE c.type = "NETINFO" -> [type |-> c.type, circ |-> c.circ, this_or |-> c.other_or]
    [] c.type = "PADDING" -> [c EXCEPT !.data = Fill(PayloadSize, c.data)]
    [] c.type = "RELAY" -> [c EXCEPT !.inner = InnerSeen(c.inner)]
    [] OTHER -> c

(* The bytes of a RELAY cell, which two ends of a circuit would encrypt. *)
Sealed(c) ==
  IF c.type # "RELAY" THEN c
  ELSE [type |-> "RELAY", circ |-> c.circ,
        data |-> RelayBytes(c.inner, c.stream, <<9, 9, 9, 9>>)]

RelayWrites(c, v) ==
  /\ out' = out \o Serialize(Sealed(c), v)
  /\ down' = Append(down, Seen(c))

(***************************************************************************)
(* VERSIONS goes out at once, the rest of the handshake when the client's   *)
(* VERSIONS is read, and other cells when its NETINFO is.                   *)
(***************************************************************************)
RelaySends ==
  /\ Len(out) <= MaxOut
  /\ \/ /\ down = <<>> /\ phase # "init"
        /\ \E vs \in Offers :
             RelayWrites([type |-> "VERSIONS", circ |-> 0, versions |-> vs], 3)
        /\ UNCHANGED todo
     \/ /\ down # <<>> /\ agreed # 0 /\ todo # <<>>
        /\ Head(todo).type \in {"CERTS", "AUTH_CHALLENGE", "NETINFO"} \/ Len(got) >= 2
        /\ Fits(Head(todo), agreed) /\ RelayWrites(Head(todo), agreed)
        /\ todo' = Tail(todo)
  /\ UNCHANGED <<phase, reader, net, agreed, upward>>

(* A record of one of the lengths, or of all there is when that is less. *)
Flush ==
  /\ out # <<>> /\ Len(net) < MaxNet
  /\ \E n \in Pieces : net' = Append(net, Until(out, n)) /\ out' = From(out, n)
  /\ UNCHANGED <<phase, reader, down, todo, agreed, upward>>

(* The relay reads VERSIONS with two bytes of circuit, then by the version agreed. *)
AtRelayWidth == IF agreed = 0 THEN 2 ELSE IdLen(agreed)
Parsed(buffer, width) ==
  LET number == buffer[width + 1]
      body == From(buffer, width + 1)
  IN [circ |-> IF width = 2 THEN Read16(buffer) ELSE Read32(buffer),
      number |-> number,
      payload |-> IF VarLen(ByNumber(Command, number)) THEN From(body, 2) ELSE body]

RelayReads ==
  /\ wire # <<>> /\ down # <<>>
  /\ \E cell \in {Parsed(Head(wire), AtRelayWidth)} :
       /\ got' = Append(got, cell)
       /\ agreed' = IF agreed # 0 THEN agreed
                    ELSE LET ours == down[1].versions
                             theirs == DecodeVersions(cell.payload).versions
                         IN Largest(SelectSeq(theirs, LAMBDA v : \E i \in DOMAIN ours : ours[i] = v))
  /\ wire' = Tail(wire)
  /\ UNCHANGED <<phase, reader, net, out, down, todo, up>>

ClientReads ==
  Connect \/ Expect \/ RecvSync \/ RecvAsync \/ TakeHeader \/ TakeLength \/ TakePayload
    \/ Timeout
RelayWorks == RelaySends \/ Flush \/ RelayReads

Next == ClientReads \/ UserSends \/ Close \/ RelayWorks

Spec == Init /\ [][Next]_vars

(***************************************************************************)
(* connect() runs, its recv and the receiver thread return when there is    *)
(* something to read, and the relay and the network go on.  Both are at     *)
(* work on a finite conversation, so one condition for each is enough.      *)
(***************************************************************************)
FairSpec == Spec /\ WF_vars(ClientReads) /\ WF_vars(RelayWorks)

-----------------------------------------------------------------------------
(* Properties *)

(* The type invariant. *)
TypeOK ==
  /\ phase \in Handshaking \union {"init", "open", "failed", "broken", "closed"}
  /\ version \in 2..4 /\ agreed \in {0, 3, 4}
  /\ stage \in {"start", "header", "length", "payload"} /\ want \in Nat
  /\ \A b \in {data, rest, out} : \A i \in DOMAIN b : b[i] \in 0..255
  /\ Len(net) <= MaxNet /\ Len(up) <= MaxUp + 2
  /\ header.circ \in Nat /\ header.number \in 0..255

(***************************************************************************)
(* However the bytes are cut into records and read into _data, the cells    *)
(* handed out are the relay's, whole and in order: the width of the circuit *)
(* identifier changes between the VERSIONS cell and the next one, and the   *)
(* generator must take it where the sender does.                            *)
(***************************************************************************)
Down == INSTANCE CellFifo WITH sent <- down, received <- received
Up == INSTANCE CellFifo WITH sent <- up, received <- got
ReadsWhatWasSent == Down!Spec /\ Up!Spec

(***************************************************************************)
(* Every cell the relay sends is handed out, as long as the connection is   *)
(* used, unless bytes of it are in the TLS library, where select does not   *)
(* see them: that takes a record longer than RECV_BUFF_SIZE.                *)
(***************************************************************************)
CellsArrive ==
  <>[](Len(received) = Len(down) \/ rest # <<>> \/ phase \in {"failed", "broken", "closed"})

=============================================================================
