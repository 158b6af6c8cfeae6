----------------------------- MODULE MCCellLink -----------------------------
(***************************************************************************)
(* Instances of CellLink for TLC: payloads of 28 bytes instead of 509, a    *)
(* buffer that is shorter than the longest record, relays that offer each   *)
(* kind of version list.                                                    *)
(***************************************************************************)
EXTENDS CellLink

SomeOffers == {<<3>>, <<3, 4>>, <<3, 4, 5>>}

Ip == <<10, 0, 255, 1>>
Certs == [type |-> "CERTS", circ |-> 0, data |-> <<1, 2, 3>>]
Challenge == [type |-> "AUTH_CHALLENGE", circ |-> 0, data |-> <<4, 5>>]
NetInfo == [type |-> "NETINFO", circ |-> 0, timestamp |-> 70000, other_or |-> Ip,
            this_or |-> <<127, 0, 0, 1>>]
Inner(i) == [type |-> "RELAY", circ |-> 70000, stream |-> 513, inner |-> i]
RelayCells ==
  {Inner(i) : i \in
     {[type |-> "DATA", data |-> <<7, 0, 7, 0>>],
      [type |-> "END", reason |-> 6, address |-> Ip, ttl |-> 9],
      [type |-> "END", reason |-> 4, address |-> Ip, ttl |-> 70000],
      [type |-> "CONNECTED", address |-> Ip, ttl |-> 300],
      [type |-> "CONNECTED", address |-> Ip, ttl |-> 0],
      [type |-> "SENDME", version |-> 1, digest |-> <<3, 2, 1>>],
      [type |-> "SENDME", version |-> 0, digest |-> <<>>],
      [type |-> "TRUNCATED", reason |-> 12],
      [type |-> "EXTENDED2", data |-> <<1, 2>>],
      [type |-> "BEGIN", address |-> <<97>>, port |-> <<56, 48>>],
      [type |-> "RENDEZVOUS2", data |-> <<5, 0, 6>>],
      [type |-> "INTRODUCE_ACK", data |-> <<>>]}}
LinkCells ==
  {[type |-> "DESTROY", circ |-> 3, reason |-> 11],
   [type |-> "DESTROY", circ |-> 3, reason |-> 13],
   [type |-> "CREATED2", circ |-> 70000, data |-> <<1, 0>>],
   [type |-> "CREATED_FAST", circ |-> 1, data |-> <<5, 6>>],
   [type |-> "PADDING", circ |-> 0, data |-> <<1>>]}

Data == Inner([type |-> "DATA", data |-> <<7, 0, 7, 0>>])
Destroy == [type |-> "DESTROY", circ |-> 3, reason |-> 11]
SomeScripts ==
  {<<Certs, NetInfo>>}
    \union {<<Certs, Challenge, NetInfo, c>> : c \in RelayCells \union LinkCells}
    \union {<<Certs, Challenge, NetInfo, Destroy, Data>>,
            <<Certs, Challenge, NetInfo, Data, Destroy>>}

RelayCell(type, circ, i) ==
  [type |-> type, circ |-> circ, data |-> RelayBytes(i, 257, <<1, 2, 3, 4>>)]
SomeToRelay ==
  {[type |-> "CREATE_FAST", circ |-> 65535, data |-> <<5>>],
   [type |-> "CREATE2", circ |-> 70000, handshake_type |-> 2, data |-> <<5, 6>>],
   [type |-> "DESTROY", circ |-> 70000, reason |-> 9],
   RelayCell("RELAY_EARLY", 1, [type |-> "EXTEND2", ip |-> Ip, port |-> 9001,
                                fingerprint |-> <<7>>, skin |-> <<8>>]),
   RelayCell("RELAY", 1, [type |-> "ESTABLISH_RENDEZVOUS", cookie |-> <<1>>]),
   RelayCell("RELAY", 1, [type |-> "RENDEZVOUS1", cookie |-> <<1>>, data |-> <<2>>])}

=============================================================================
