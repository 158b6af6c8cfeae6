-------------------------------- MODULE Cells --------------------------------
(***************************************************************************)
(* The cells of the Tor protocol as torpy writes and reads them             *)
(* (torpy/cells.py).  A cell is a record; Serialize gives its bytes and     *)
(* Deserialize makes a cell of a payload.  Byte strings, addresses and      *)
(* decimal numbers are sequences of bytes.  The lengths the protocol fixes  *)
(* are constants, so that small ones can be checked.                        *)
(***************************************************************************)
EXTENDS Integers, Sequences, TLC

CONSTANTS
  RelaySize,  \* RelayedTorCell.MAX_PAYLOD_SIZE: 498
  DigestLen   \* TOR_DIGEST_LEN: 20, the length of fingerprints and cookies too

ASSUME SizeAssumption == RelaySize \in Nat \ {0} /\ DigestLen \in Nat \ {0}

PayloadSize == RelaySize + 11  \* TorCell.MAX_PAYLOAD_SIZE: 509

Error == [type |-> "error"]  \* what the code raises an exception for

-----------------------------------------------------------------------------
(* struct: big-endian numbers, slices and padding *)

U8(n) == <<n>>
U16(n) == <<n \div 256, n % 256>>
U32(n) == U16(n \div 65536) \o U16(n % 65536)
Read16(b) == 256 * b[1] + b[2]
Read32(b) == 65536 * Read16(b) + Read16(SubSeq(b, 3, 4))

Until(b, n) == SubSeq(b, 1, IF n < Len(b) THEN n ELSE Len(b))  \* b[:n]
From(b, n) == SubSeq(b, n + 1, Len(b))                         \* b[n:]
Fill(n, b) == [i \in 1..n |-> IF i <= Len(b) THEN b[i] ELSE 0] \* pack '<n>s'

-----------------------------------------------------------------------------
(* Commands *)

Command ==
  [PADDING |-> 0, CREATE |-> 1, RELAY |-> 3, DESTROY |-> 4, CREATE_FAST |-> 5,
   CREATED_FAST |-> 6, NETINFO |-> 8, RELAY_EARLY |-> 9, CREATE2 |-> 10,
   CREATED2 |-> 11, VERSIONS |-> 7, CERTS |-> 129, AUTH_CHALLENGE |-> 130]

RelayCommand ==
  [BEGIN |-> 1, DATA |-> 2, END |-> 3, CONNECTED |-> 4, SENDME |-> 5,
   TRUNCATED |-> 9, BEGIN_DIR |-> 13, EXTENDED2 |-> 15,
   ESTABLISH_RENDEZVOUS |-> 33, INTRODUCE1 |-> 34, RENDEZVOUS2 |-> 37,
   RENDEZVOUS_ESTABLISHED |-> 39, INTRODUCE_ACK |-> 40]

(* Commands that are sent and never looked up by their number. *)
SentCommand == [EXTEND2 |-> 14, RENDEZVOUS1 |-> 36]

Numbers(table) == {table[t] : t \in DOMAIN table}
ByNumber(table, n) == CHOOSE t \in DOMAIN table : table[t] = n

(* Mutant: VERSIONS is a cell like the others below 128. *)
VarLenAbove128(type) == Command[type] >= 128

VarLen(type) == Command[type] = Command.VERSIONS \/ Command[type] >= 128

-----------------------------------------------------------------------------
(* The payload of each command, written and read *)

EncodeVersions(versions) ==
  [i \in 1..2 * Len(versions) |->
     IF i % 2 = 1 THEN versions[(i + 1) \div 2] \div 256 ELSE versions[i \div 2] % 256]
DecodeVersions(p) ==
  [versions |-> [i \in 1..Len(p) \div 2 |-> Read16(From(p, 2 * (i - 1)))]]

EncodeNetInfo(c) ==
  U32(c.timestamp) \o <<4, 4>> \o c.other_or \o <<1, 4, 4>> \o c.this_or
(* Only the address the other side sees us at is read, into this_or. *)
DecodeNetInfo(p) == [this_or |-> Until(From(p, 6), p[6])]

EncodeReason(c) == U8(c.reason)
DecodeCircuitReason(p) ==
  IF p[1] \in 0..12 THEN [reason |-> p[1]] ELSE Error

EncodeCreate2(c) == U16(c.handshake_type) \o U16(Len(c.data)) \o c.data
EncodeCreated2(c) == U16(Len(c.data)) \o c.data
DecodeCreated2(p) == [data |-> Until(From(p, 2), Read16(p))]
DecodeCreatedFast(p) == [data |-> Until(p, 2 * DigestLen)]

EncodeExtend2(c) ==
  U8(2) \o <<0, 6>> \o c.ip \o U16(c.port)
    \o <<2, Len(c.fingerprint)>> \o c.fingerprint
    \o U16(2) \o U16(Len(c.skin)) \o c.skin

Colon == 58
(* "address:port", a NUL and four bytes of flags. *)
EncodeBegin(c) == c.address \o <<Colon>> \o c.port \o <<0, 0, 0, 0, 0>>
(* split(":"): the port ends at the next colon, if there is one. *)
DecodeBegin(p) ==
  LET text == Until(p, Len(p) - 5)
      first == CHOOSE i \in 1..Len(text) :
                 text[i] = Colon /\ \A j \in 1..i - 1 : text[j] # Colon
      after == From(text, first)
      end == CHOOSE n \in 0..Len(after) :
               /\ n = Len(after) \/ after[n + 1] = Colon
               /\ \A j \in 1..n : after[j] # Colon
  IN [address |-> Until(text, first - 1), port |-> Until(after, end)]

EXIT_POLICY == 4
EncodeEnd(c) ==
  IF c.reason = EXIT_POLICY THEN U8(c.reason) \o c.address \o U32(c.ttl)
                            ELSE U8(c.reason)
DecodeEnd(p) ==
  IF p[1] \notin 1..14 THEN Error
  ELSE IF p[1] # EXIT_POLICY THEN [reason |-> p[1], address |-> <<>>, ttl |-> 0]
  ELSE IF Len(p) # 9 THEN Error
  ELSE [reason |-> p[1], address |-> SubSeq(p, 2, 5), ttl |-> Read32(From(p, 5))]

EncodeConnected(c) ==
  IF c.address # <<>> /\ c.ttl # 0 THEN c.address \o U32(c.ttl) ELSE <<>>
DecodeConnected(p) ==
  IF p = <<>> THEN [address |-> <<>>, ttl |-> 0]
  ELSE IF Len(p) # 8 THEN Error
  ELSE [address |-> Until(p, 4), ttl |-> Read32(From(p, 4))]

EncodeSendMe(c) ==
  IF c.version # 0 /\ c.digest # <<>>
    THEN U8(c.version) \o U16(Len(c.digest)) \o c.digest ELSE <<>>
DecodeSendMe(p) ==
  IF p = <<>> THEN [version |-> 0, digest |-> <<>>]
  ELSE [version |-> p[1], digest |-> Until(From(p, 3), Read16(From(p, 1)))]

EncodeEstablishRendezvous(c) == c.cookie
EncodeRendezvous1(c) == c.cookie \o c.data
DecodeRendezvous2(p) == [data |-> p]

DecodeCerts(p) == [data |-> p]
DecodeAuthChallenge(p) == [data |-> p]

(* Commands without a payload of their own keep what they are given. *)
EncodeEmpty(c) == c.data
DecodeEmpty(p) == [data |-> p]

-----------------------------------------------------------------------------
(* Relay cells *)

RelayPayload(c) ==
  CASE c.type = "BEGIN" -> EncodeBegin(c)
    [] c.type \in {"DATA", "BEGIN_DIR", "RENDEZVOUS_ESTABLISHED", "INTRODUCE_ACK",
                   "RENDEZVOUS2"} -> EncodeEmpty(c)
    [] c.type = "END" -> EncodeEnd(c)
    [] c.type = "CONNECTED" -> EncodeConnected(c)
    [] c.type = "SENDME" -> EncodeSendMe(c)
    [] c.type = "TRUNCATED" -> EncodeReason(c)
    [] c.type = "EXTEND2" -> EncodeExtend2(c)
    [] c.type = "EXTENDED2" -> EncodeCreated2(c)
    [] c.type = "ESTABLISH_RENDEZVOUS" -> EncodeEstablishRendezvous(c)
    [] c.type = "RENDEZVOUS1" -> EncodeRendezvous1(c)

ReadRelayPayload(type, p) ==
  CASE type = "BEGIN" -> DecodeBegin(p)
    [] type \in {"DATA", "BEGIN_DIR", "RENDEZVOUS_ESTABLISHED", "INTRODUCE_ACK"} ->
         DecodeEmpty(p)
    [] type = "END" -> DecodeEnd(p)
    [] type = "CONNECTED" -> DecodeConnected(p)
    [] type = "SENDME" -> DecodeSendMe(p)
    [] type = "TRUNCATED" -> DecodeCircuitReason(p)
    [] type = "EXTENDED2" -> DecodeCreated2(p)
    [] type = "RENDEZVOUS2" -> DecodeRendezvous2(p)
    [] OTHER -> Error

(***************************************************************************)
(* RelayedTorCell._serialize_payload with its digest: command, recognized,  *)
(* stream, digest, length, and the payload filled up.                       *)
(***************************************************************************)
RelayBytes(inner, stream, digest) ==
  LET payload == RelayPayload(inner)
  IN U8((RelayCommand @@ SentCommand)[inner.type]) \o U16(0) \o U16(stream)
       \o digest \o U16(Len(payload)) \o Fill(RelaySize, payload)

(* parse_header. *)
ParseHeader(p) ==
  [number |-> p[1], is_recognized |-> Read16(From(p, 1)), stream |-> Read16(From(p, 3)),
   digest |-> SubSeq(p, 6, 9), len |-> Read16(From(p, 9)), raw |-> From(p, 11)]

ByName(type, p) ==
  LET fields == ReadRelayPayload(type, p)
  IN IF fields = Error THEN Error ELSE [type |-> type] @@ fields

(* Mutant: the padding is not cut off. *)
SetDecryptedWhole(h) ==
  IF h.number \notin Numbers(RelayCommand) THEN Error
  ELSE ByName(ByNumber(RelayCommand, h.number), h.raw)

(* set_decrypted: the cell inside, read from the part of the payload in use. *)
SetDecrypted(h) ==
  IF h.number \notin Numbers(RelayCommand) THEN Error
  ELSE ByName(ByNumber(RelayCommand, h.number), Until(h.raw, h.len))

-----------------------------------------------------------------------------
(* Link cells *)

Payload(c) ==
  CASE c.type = "VERSIONS" -> EncodeVersions(c.versions)
    [] c.type = "NETINFO" -> EncodeNetInfo(c)
    [] c.type = "DESTROY" -> EncodeReason(c)
    [] c.type = "CREATE2" -> EncodeCreate2(c)
    [] c.type = "CREATED2" -> EncodeCreated2(c)
    [] OTHER -> EncodeEmpty(c)

(* The width of circuit identifiers depends on the version of the link. *)
IdLen(version) == IF version < 4 THEN 2 ELSE 4

Fits(c, version) == version >= 4 \/ c.circ < 65536

Serialize(c, version) ==
  LET payload == Payload(c)
  IN (IF version < 4 THEN U16(c.circ) ELSE U32(c.circ)) \o U8(Command[c.type])
       \o IF VarLen(c.type) THEN U16(Len(payload)) \o payload
                            ELSE Fill(PayloadSize, payload)

(* A RELAY_EARLY or CREATE cell is never read: relays do not send them. *)
ReadPayload(type, p) ==
  CASE type = "VERSIONS" -> DecodeVersions(p)
    [] type = "NETINFO" -> DecodeNetInfo(p)
    [] type = "DESTROY" -> DecodeCircuitReason(p)
    [] type = "CREATED2" -> DecodeCreated2(p)
    [] type = "CREATED_FAST" -> DecodeCreatedFast(p)
    [] type = "CERTS" -> DecodeCerts(p)
    [] type = "AUTH_CHALLENGE" -> DecodeAuthChallenge(p)
    [] type \in {"RELAY", "PADDING"} -> DecodeEmpty(p)
    [] OTHER -> Error

Deserialize(type, circ, p) ==
  LET fields == ReadPayload(type, p)
  IN IF fields = Error THEN Error ELSE [type |-> type, circ |-> circ] @@ fields

=============================================================================
