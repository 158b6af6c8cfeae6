---------------------------- MODULE TorStream_proofs ----------------------------
(***************************************************************************)
(* Theorems about TorStream, for any number of cells, any sizes of reads,   *)
(* of the socket pair and of the window, and any way to use the stream.     *)
(* Places says which thread can be where, and what the peer has done then.  *)
(* The cells that have been handled are 1..Came: Reading says where they    *)
(* are while recv is used or nothing is flushed yet, Flushed where they are *)
(* after.  Window relates the deliver window to the peer's credit.          *)
(***************************************************************************)
EXTENDS TorStream, SequenceTheorems, TLAPS

Unflushed == {"connecting", "connected", "flushing"}
InRecv == {"reading", "waiting", "take", "eof"}
InSocket == {"flushed", "assigned", "using", "stop", "stopping"}

(* The receiver is at a DATA cell, the last that was sent.                  *)
Handling == rpc \in {"handle", "put"} /\ rcell = "DATA"

AtCell == IF Handling THEN 1 ELSE 0

Came == sent - AtCell

Places ==
  /\ upc \in InRecv => mode = "recv"
  /\ upc \in {"flushing"} \cup InSocket => mode # "recv"
  /\ HasLoop => mode # "recv" /\ upc \notin Unflushed \cup InRecv \cup {"flushed"}
  /\ upc \in {"join", "using", "stop", "stopping"} => HasLoop
  /\ upc = "assigned" => lpc = "unstarted"
  /\ upc \in {"flushed", "assigned", "using"} => client_open
  /\ rpc \in {"put", "join"} => HasLoop
  /\ rpc = "put" => rcell = "DATA"
  /\ rpc \in {"handle", "put"} /\ rcell \in {"CONNECTED", "DATA"} => peer = "open"
  /\ rpc = "handle" /\ rcell = "END" => peer = "ended"
  /\ rpc = "handle" => rcell # "DESTROY"
  /\ Handling => sent > 0
  /\ rpc \in {"close", "join"} => peer = "destroyed"
  /\ state = "Closed" => ~in_map
  /\ state = "Disconnected" => peer \in {"ended", "destroyed"}

Window ==
  /\ deliver > Start - Increment
  /\ credit + AtCell <= deliver
  /\ in_map /\ mode = "recv" => credit + AtCell = deliver

Holds(s, n) == \E i \in 1..Len(s) : s[i] = n

Increases(s) == \A i, k \in 1..Len(s) : i < k => s[i] < s[k]

(* got and then buffer are the cells from the first on, none left out.      *)
Contiguous ==
  /\ to_client = <<>>
  /\ \A i \in 1..Len(got) : got[i] = i
  /\ \A i \in 1..Len(buffer) : buffer[i] = Len(got) + i
  /\ Len(got) + Len(buffer) <= Came
  /\ in_map \/ Handling => Len(got) + Len(buffer) = Came

NoMore == peer \in {"ended", "destroyed"}

Reading ==
  /\ upc \in Unflushed => got = <<>> /\ ~our_sock /\ ~client_open
  /\ mode = "recv" \/ upc \in Unflushed => Contiguous
  /\ mode = "recv" /\ upc \notin {"close", "over"} =>
       /\ Len(got) + Len(buffer) = Came
       /\ ~in_map => peer = "destroyed" /\ rpc = "idle"
  /\ mode = "recv" /\ has_data => buffer # <<>> \/ NoMore
  /\ upc = "take" => buffer # <<>> \/ NoMore
  /\ EmptyMeansEnd

Known(n) == Holds(got, n) \/ Holds(to_client, n) \/ Holds(buffer, n)

Ordered ==
  /\ Increases(got) /\ Increases(to_client)
  /\ \A i \in 1..Len(got), k \in 1..Len(to_client) : got[i] < to_client[k]
  /\ \A i \in 1..Len(got) : got[i] <= Came
  /\ \A i \in 1..Len(to_client) : to_client[i] <= Came

NoGap ==
  /\ \A i \in 1..Len(got) : \A n \in 1..got[i] : Holds(got, n) \/ Holds(buffer, n)
  /\ \A i \in 1..Len(to_client) : \A n \in 1..to_client[i] : Known(n)

(* Whether a cell that comes now can still be put into the pair.            *)
Deliverable == our_sock /\ client_open /\ (in_map \/ Handling)

Flushed ==
  mode # "recv" => Ordered /\ NoGap /\ (Deliverable => \A n \in 1..Came : Known(n))

-----------------------------------------------------------------------------
(***************************************************************************)
(* Types, places and the window.                                            *)
(***************************************************************************)

Typed == TypeOK /\ Places /\ Window

LEMMA Sizes ==
  /\ Last \in Nat \ {0} /\ BufSize \in Nat \ {0} /\ Capacity \in Nat \ {0}
  /\ Start \in Nat \ {0} /\ Increment \in Nat \ {0} /\ Increment <= Start
BY StreamAssumption

LEMMA TypedInit == Init => Typed
<1> SUFFICES ASSUME Init PROVE Typed
  OBVIOUS
<1> USE Sizes DEF Init
<1>1. TypeOK
  <2>1. deliver \in 0..Start /\ sent \in 0..Last /\ credit \in 0..Start
    OBVIOUS
  <2>2. buffer \in Seq(1..Last) /\ to_client \in Seq(1..Last) /\ got \in Seq(1..Last)
    OBVIOUS
  <2> QED BY <2>1, <2>2 DEF TypeOK
<1>2. Places /\ Window
  BY DEF Places, Window, HasLoop, InRecv, InSocket, Handling, AtCell
<1> QED BY <1>1, <1>2 DEF Typed

(* A DATA cell is counted.                                                  *)
LEMMA CountedTyped ==
  ASSUME Typed, Handling, Counted, rpc' = "idle", UNCHANGED <<in_map, mode>>
  PROVE  deliver' \in 0..Start /\ credit' \in 0..Start /\ Window'
<1>1. /\ deliver \in 0..Start /\ credit \in 0..Start /\ Start \in Nat /\ Increment \in Nat \ {0}
      /\ Increment <= Start /\ deliver > Start - Increment /\ credit + 1 <= deliver
      /\ in_map /\ mode = "recv" => credit + 1 = deliver
  BY Sizes DEF Typed, TypeOK, Window, AtCell
<1>2. AtCell' = 0
  BY DEF AtCell, Handling
<1>3. CASE deliver - 1 > Start - Increment
  <2>1. deliver' = deliver - 1 /\ credit' = credit
    BY <1>3 DEF Counted
  <2> QED BY <1>1, <1>2, <1>3, <2>1 DEF Window
<1>4. CASE ~(deliver - 1 > Start - Increment)
  <2>1. deliver' = deliver - 1 + Increment /\ credit' = credit + Increment
    BY <1>4 DEF Counted
  <2> QED BY <1>1, <1>2, <1>4, <2>1 DEF Window
<1> QED BY <1>3, <1>4

LEMMA PeerTyped == Typed /\ Peer => Typed'
<1> SUFFICES ASSUME Typed, Peer PROVE Typed'
  OBVIOUS
<1> USE Sizes
<1>1. PICK cell \in {"CONNECTED", "DATA", "END", "DESTROY"} : Receive(cell)
  BY DEF Peer
<1>2. /\ UNCHANGED <<stream, loop, to_client, user>> /\ rpc = "idle" /\ rcell' = cell
      /\ rpc' = IF ~in_map THEN "idle" ELSE IF cell = "DESTROY" THEN "close" ELSE "handle"
  BY <1>1 DEF Receive
<1>3. /\ peer' \in {"open", "ended", "destroyed"} /\ sent' \in 0..Last /\ credit' \in 0..Start
      /\ cell \in {"CONNECTED", "DATA"} => peer' = "open"
      /\ cell = "DATA" => sent' > 0 /\ credit' + 1 = credit
      /\ cell # "DATA" => credit' = credit
      /\ cell = "END" => peer' = "ended"
      /\ cell = "DESTROY" => peer' = "destroyed"
      /\ peer \in {"ended", "destroyed"} => peer' \in {"ended", "destroyed"}
  BY <1>2 DEF Peer, Receive, Typed, TypeOK
<1>4. TypeOK'
  BY <1>2, <1>3 DEF Typed, TypeOK, stream, loop, user
<1>5. Places'
  BY <1>2, <1>3 DEF Typed, Places, HasLoop, Handling, stream, loop, user
<1>6. Window'
  <2>1. AtCell = 0 /\ AtCell' = IF cell = "DATA" /\ in_map THEN 1 ELSE 0
    BY <1>2 DEF AtCell, Handling
  <2>2. UNCHANGED <<deliver, in_map, mode>> /\ credit \in Nat /\ credit' \in Nat
    BY <1>2, <1>3 DEF stream, user, Typed, TypeOK
  <2>3. deliver \in Nat
    BY DEF Typed, TypeOK
  <2>4. /\ deliver > Start - Increment /\ credit + AtCell <= deliver
        /\ in_map /\ mode = "recv" => credit + AtCell = deliver
    BY DEF Typed, Window
  <2>5. credit' + AtCell' <= deliver /\ (in_map /\ mode = "recv" => credit' + AtCell' = deliver)
    <3>1. CASE cell = "DATA"
      <4>1. credit' + 1 = credit /\ credit \in Nat /\ credit' \in Nat /\ deliver \in Nat
        BY <1>3, <2>2, <2>3, <3>1
      <4>2. credit <= deliver /\ (in_map /\ mode = "recv" => credit = deliver)
        BY <2>1, <2>4, <4>1
      <4>3. CASE in_map
        <5>1. AtCell' = 1
          BY <2>1, <3>1, <4>3
        <5>2. credit' + 1 <= deliver /\ (mode = "recv" => credit' + 1 = deliver)
          BY <4>1, <4>2, <4>3
        <5> QED BY <5>1, <5>2
      <4>4. CASE ~in_map
        <5>1. AtCell' = 0
          BY <2>1, <4>4
        <5>2. credit <= deliver
          BY <4>2
        <5>3. \A m, k, d \in Nat : m + 1 = k /\ k <= d => m + 0 <= d
          OBVIOUS
        <5> QED BY <4>1, <4>4, <5>1, <5>2, <5>3
      <4> QED BY <4>3, <4>4
    <3>2. CASE cell # "DATA"
      BY <1>3, <2>1, <2>2, <2>3, <2>4, <3>2
    <3> QED BY <3>1, <3>2
  <2> QED BY <2>2, <2>4, <2>5 DEF Window
<1> QED BY <1>4, <1>5, <1>6 DEF Typed

LEMMA ReceiverTyped == Typed /\ ReceiverStep => Typed'
<1> SUFFICES ASSUME Typed, ReceiverStep PROVE Typed'
  OBVIOUS
<1> USE Sizes
<1>1. CASE HandleConnected
  <2>1. TypeOK'
    BY <1>1 DEF HandleConnected, Typed, TypeOK, loop, user, remote
  <2>2. Places'
    BY <1>1 DEF HandleConnected, Typed, Places, HasLoop, Handling, loop, user, remote
  <2>3. Window'
    BY <1>1 DEF HandleConnected, Typed, Window, AtCell, Handling, user, remote
  <2> QED BY <2>1, <2>2, <2>3 DEF Typed
<1>2. CASE HandleData
  <2>1. /\ Handling /\ Counted /\ rpc' = "idle" /\ sent \in 1..Last
        /\ UNCHANGED <<state, close_lock, in_map, loop, to_client, rcell, user, peer, sent>>
        /\ buffer' = buffer \/ buffer' = Append(buffer, sent)
    BY <1>2 DEF HandleData, Handling, Typed, TypeOK, Places
  <2>2. deliver' \in 0..Start /\ credit' \in 0..Start /\ Window'
    BY <2>1, CountedTyped DEF user
  <2>3. buffer' \in Seq(1..Last)
    <3>1. buffer \in Seq(1..Last)
      BY DEF Typed, TypeOK
    <3> QED BY <2>1, <3>1
  <2>4. TypeOK'
    <3>1. has_data' \in BOOLEAN
      BY <1>2 DEF HandleData, Typed, TypeOK
    <3> QED BY <2>1, <2>2, <2>3, <3>1 DEF Typed, TypeOK, loop, user
  <2>5. Places'
    BY <2>1 DEF Typed, Places, HasLoop, Handling, loop, user
  <2> QED BY <2>2, <2>4, <2>5 DEF Typed
<1>3. CASE LockData
  <2>1. TypeOK'
    BY <1>3 DEF LockData, Typed, TypeOK, Holders, loop, user, remote
  <2>2. Places'
    BY <1>3 DEF LockData, Typed, Places, HasLoop, Handling, loop, user, remote
  <2>3. Window'
    BY <1>3 DEF LockData, Typed, Window, AtCell, Handling, user, remote
  <2> QED BY <2>1, <2>2, <2>3 DEF Typed
<1>4. CASE PutData
  <2>1. /\ Handling /\ Counted /\ rpc' = "idle" /\ sent \in 1..Last /\ close_lock' = "free"
        /\ UNCHANGED <<state, buffer, has_data, in_map, loop, rcell, user, peer, sent>>
        /\ to_client' = Append(to_client, sent)
    BY <1>4 DEF PutData, Handling, Typed, TypeOK, Places
  <2>2. deliver' \in 0..Start /\ credit' \in 0..Start /\ Window'
    BY <2>1, CountedTyped DEF user
  <2>3. to_client' \in Seq(1..Last)
    <3>1. to_client \in Seq(1..Last)
      BY DEF Typed, TypeOK
    <3> QED BY <2>1, <3>1
  <2>4. TypeOK'
    BY <2>1, <2>2, <2>3 DEF Typed, TypeOK, loop, user
  <2>5. Places'
    BY <2>1 DEF Typed, Places, HasLoop, Handling, loop, user
  <2> QED BY <2>2, <2>4, <2>5 DEF Typed
<1>5. CASE PutFails
  <2>1. TypeOK'
    BY <1>5 DEF PutFails, Typed, TypeOK, loop, user, remote
  <2>2. Places'
    BY <1>5 DEF PutFails, Typed, Places, HasLoop, Handling, loop, user, remote
  <2>3. mode # "recv" /\ Handling
    BY <1>5 DEF PutFails, Typed, Places, Handling
  <2>4. Window'
    BY <1>5, <2>3 DEF PutFails, Typed, TypeOK, Window, AtCell, Handling, user, remote
  <2> QED BY <2>1, <2>2, <2>4 DEF Typed
<1>6. CASE HandleEnd
  <2>1. TypeOK'
    <3>1. state' \in {"Closed", "Connecting", "Connected", "Disconnected"}
      BY <1>6 DEF HandleEnd, Typed, TypeOK
    <3>2. has_data' \in BOOLEAN /\ our_sock' \in BOOLEAN
      BY <1>6 DEF HandleEnd, Typed, TypeOK
    <3>3. /\ rpc' = "idle"
          /\ UNCHANGED <<buffer, close_lock, in_map, deliver, lpc, control, to_client, rcell,
                         user, remote>>
      BY <1>6 DEF HandleEnd
    <3> QED BY <3>1, <3>2, <3>3 DEF Typed, TypeOK, user, remote
  <2>2. Places'
    BY <1>6 DEF HandleEnd, Typed, Places, HasLoop, Handling, user, remote
  <2>3. Window'
    BY <1>6 DEF HandleEnd, Typed, Window, AtCell, Handling, user, remote
  <2> QED BY <2>1, <2>2, <2>3 DEF Typed
<1>7. CASE CloseAtOnce("receiver")
  <2>1. TypeOK'
    BY <1>7 DEF CloseAtOnce, PcOf, GotoOf, After, Typed, TypeOK, loop, remote
  <2>2. Places'
    BY <1>7 DEF CloseAtOnce, PcOf, GotoOf, After, Typed, TypeOK, Places, HasLoop, Handling,
                loop, remote
  <2>3. Window'
    BY <1>7 DEF CloseAtOnce, PcOf, GotoOf, After, Typed, Window, AtCell, Handling, remote
  <2> QED BY <2>1, <2>2, <2>3 DEF Typed
<1>8. CASE BeginClose("receiver")
  <2>1. TypeOK'
    BY <1>8 DEF BeginClose, PcOf, GotoOf, After, Typed, TypeOK, Holders, remote
  <2>2. Places'
    BY <1>8 DEF BeginClose, PcOf, GotoOf, After, Typed, Places, HasLoop, Handling, remote
  <2>3. Window'
    BY <1>8 DEF BeginClose, PcOf, GotoOf, After, Typed, Window, AtCell, Handling, remote
  <2> QED BY <2>1, <2>2, <2>3 DEF Typed
<1>9. CASE EndClose("receiver")
  <2>1. TypeOK'
    <3>1. /\ state' \in {"Closed", "Connecting", "Connected", "Disconnected"}
          /\ in_map' \in BOOLEAN
      BY <1>9 DEF EndClose, Typed, TypeOK
    <3>2. /\ rpc' = "idle" /\ close_lock' = "free"
          /\ UNCHANGED <<buffer, has_data, deliver, loop, to_client, rcell, upc, mode, got,
                         client_open, remote>>
      BY <1>9 DEF EndClose, GotoOf, After
    <3> QED BY <3>1, <3>2 DEF Typed, TypeOK, loop, remote
  <2>2. Places'
    BY <1>9 DEF EndClose, PcOf, GotoOf, After, Typed, Places, HasLoop, Handling, loop, remote
  <2>3. Window'
    BY <1>9 DEF EndClose, PcOf, GotoOf, After, Typed, Window, AtCell, Handling, remote
  <2> QED BY <2>1, <2>2, <2>3 DEF Typed
<1> QED BY <1>1, <1>2, <1>3, <1>4, <1>5, <1>6, <1>7, <1>8, <1>9 DEF ReceiverStep

LEMMA UserTyped == Typed /\ UserStep => Typed'
<1> SUFFICES ASSUME Typed, UserStep PROVE Typed'
  OBVIOUS
<1> USE Sizes
<1>1. ASSUME UNCHANGED <<rpc, rcell, mode, in_map, deliver, credit>>
      PROVE  Window'
  BY <1>1 DEF Typed, Window, AtCell, Handling
<1>2. CASE WaitConnected \/ Recv \/ Signalled \/ StopReading \/ FlushBlocks \/ JoinLoop
  <2>1. UserOnly /\ upc' \in {"close", "connected", "waiting", "eof", "take", "flushing"}
    BY <1>2 DEF WaitConnected, Recv, Signalled, StopReading, FlushBlocks, JoinLoop
  <2>2. TypeOK'
    BY <2>1 DEF UserOnly, Typed, TypeOK, stream, loop, receiver, remote
  <2>3. Places'
    BY <1>2, <2>1 DEF WaitConnected, Recv, Signalled, StopReading, FlushBlocks, JoinLoop,
       UserOnly, Typed, Places, HasLoop, Handling, InRecv, InSocket, Unflushed, stream, loop,
       receiver, remote
  <2> QED BY <1>1, <2>1, <2>2, <2>3 DEF UserOnly, Typed, stream, receiver, remote
<1>3. CASE Take
  <2> DEFINE n == IF Len(buffer) < BufSize THEN Len(buffer) ELSE BufSize
  <2>1. /\ upc = "take" /\ upc' \in {"eof", "reading"}
        /\ got' = got \o SubSeq(buffer, 1, n) /\ buffer' = SubSeq(buffer, n + 1, Len(buffer))
        /\ UNCHANGED <<state, close_lock, in_map, deliver, loop, to_client, receiver, mode,
                       client_open, remote>>
    BY <1>3 DEF Take
  <2>2. has_data' \in BOOLEAN
    BY <1>3 DEF Take, Typed, TypeOK
  <2>3. buffer \in Seq(1..Last) /\ got \in Seq(1..Last) /\ n \in 0..Len(buffer)
    BY DEF Typed, TypeOK
  <2>4. buffer' \in Seq(1..Last) /\ got' \in Seq(1..Last)
    <3>1. SubSeq(buffer, 1, n) \in Seq(1..Last)
      BY <2>3
    <3>2. SubSeq(buffer, n + 1, Len(buffer)) \in Seq(1..Last)
      BY <2>3
    <3> QED BY <2>1, <2>3, <3>1, <3>2
  <2>5. TypeOK'
    BY <2>1, <2>2, <2>4 DEF Typed, TypeOK, loop, receiver, remote
  <2>6. Places'
    BY <2>1 DEF Typed, Places, HasLoop, Handling, InRecv, InSocket, Unflushed, loop, receiver,
       remote
  <2> QED BY <1>1, <2>1, <2>5, <2>6 DEF Typed, receiver, remote
<1>4. CASE Flush
  <2>1. TypeOK'
    <3>1. to_client' \in Seq(1..Last) /\ buffer' \in Seq(1..Last)
      BY <1>4 DEF Flush, Typed, TypeOK
    <3> QED BY <1>4, <3>1 DEF Flush, Typed, TypeOK, receiver, remote
  <2>2. Places'
    BY <1>4 DEF Flush, Typed, Places, HasLoop, Handling, InRecv, InSocket, Unflushed, receiver,
       remote
  <2> QED BY <1>1, <1>4, <2>1, <2>2 DEF Flush, Typed, receiver, remote
<1>5. CASE AssignLoop \/ StartLoop \/ StopLoop
  <2>1. TypeOK'
    BY <1>5 DEF AssignLoop, StartLoop, StopLoop, Typed, TypeOK, stream, receiver, remote
  <2>2. Places'
    BY <1>5 DEF AssignLoop, StartLoop, StopLoop, Typed, Places, HasLoop, Handling, InRecv,
       InSocket, Unflushed, stream, receiver, remote
  <2> QED BY <1>1, <1>5, <2>1, <2>2
          DEF AssignLoop, StartLoop, StopLoop, Typed, stream, receiver, remote
<1>6. CASE ClientReads
  <2>1. to_client' \in Seq(1..Last) /\ got' \in Seq(1..Last)
    <3>1. to_client \in Seq(1..Last) /\ got \in Seq(1..Last) /\ to_client # <<>>
      BY <1>6 DEF ClientReads, Typed, TypeOK
    <3>2. Head(to_client) \in 1..Last
      BY <3>1
    <3>3. Tail(to_client) \in Seq(1..Last)
      BY <3>1
    <3> QED BY <1>6, <3>1, <3>2, <3>3 DEF ClientReads
  <2>2. TypeOK'
    BY <1>6, <2>1 DEF ClientReads, Typed, TypeOK, stream, loop, receiver, remote
  <2>3. Places'
    BY <1>6 DEF ClientReads, Typed, Places, HasLoop, Handling, stream, loop, receiver, remote
  <2> QED BY <1>1, <1>6, <2>2, <2>3 DEF ClientReads, Typed, stream, receiver, remote
<1>7. CASE ClientLeaves
  <2>1. TypeOK'
    BY <1>7 DEF ClientLeaves, Typed, TypeOK, stream, loop, receiver, remote
  <2>2. Places'
    BY <1>7 DEF ClientLeaves, Typed, Places, HasLoop, Handling, InRecv, InSocket, Unflushed,
       stream, loop, receiver, remote
  <2> QED BY <1>1, <1>7, <2>1, <2>2 DEF ClientLeaves, Typed, stream, receiver, remote
<1>8. CASE CloseAtOnce("user")
  <2>1. /\ state' = "Closed" /\ in_map' \in BOOLEAN /\ (in_map' => in_map /\ state = "Closed")
        /\ upc' = "over" /\ upc = "close"
        /\ UNCHANGED <<rpc, buffer, has_data, close_lock, deliver, loop, to_client, rcell, mode,
                       got, client_open, remote>>
    BY <1>8 DEF CloseAtOnce, PcOf, GotoOf, After, Typed, TypeOK
  <2>2. ~in_map'
    BY <2>1 DEF Typed, Places
  <2>3. TypeOK'
    BY <2>1 DEF Typed, TypeOK, loop, remote
  <2>4. Places'
    BY <2>1, <2>2 DEF Typed, Places, HasLoop, Handling, InRecv, InSocket, Unflushed, loop,
       remote
  <2>5. Window'
    BY <2>1, <2>2 DEF Typed, Window, AtCell, Handling, remote
  <2> QED BY <2>3, <2>4, <2>5 DEF Typed
<1>9. CASE BeginClose("user")
  <2>1. TypeOK'
    BY <1>9 DEF BeginClose, PcOf, GotoOf, After, Typed, TypeOK, Holders, remote
  <2>2. Places'
    BY <1>9 DEF BeginClose, PcOf, GotoOf, After, Typed, Places, HasLoop, Handling, InRecv,
       InSocket, Unflushed, remote
  <2>3. Window'
    BY <1>1, <1>9 DEF BeginClose, GotoOf, remote
  <2> QED BY <2>1, <2>2, <2>3 DEF Typed
<1>10. CASE EndClose("user")
  <2>1. /\ state' \in {"Closed", "Connecting", "Connected", "Disconnected"}
        /\ in_map' \in BOOLEAN /\ (in_map' => in_map)
        /\ state' = "Closed" => ~in_map'
        /\ state' = "Disconnected" => state = "Disconnected"
    BY <1>10 DEF EndClose, Typed, TypeOK, Places
  <2>2. /\ upc = "join" /\ upc' = "over" /\ close_lock' = "free"
        /\ UNCHANGED <<rpc, buffer, has_data, deliver, loop, to_client, rcell, mode, got,
                       client_open, remote>>
    BY <1>10 DEF EndClose, PcOf, GotoOf, After
  <2>3. TypeOK'
    BY <2>1, <2>2 DEF Typed, TypeOK, loop, remote
  <2>4. Places'
    BY <2>1, <2>2 DEF Typed, Places, HasLoop, Handling, InRecv, InSocket, Unflushed, loop,
       remote
  <2>5. Window'
    BY <2>1, <2>2 DEF Typed, Window, AtCell, Handling, remote
  <2> QED BY <2>3, <2>4, <2>5 DEF Typed
<1> QED BY <1>2, <1>3, <1>4, <1>5, <1>6, <1>7, <1>8, <1>9, <1>10 DEF UserStep

LEMMA TypedKept == Typed /\ [Next]_vars => Typed'
<1> SUFFICES ASSUME Typed, [Next]_vars PROVE Typed'
  OBVIOUS
<1>1. CASE LoopStep
  <2>1. TypeOK'
    <3>1. /\ UNCHANGED <<stream, to_client, receiver, user, remote>>
          /\ lpc' \in {"select", "ready", "over"} /\ our_sock' \in {our_sock, FALSE}
          /\ control' \in {control, "closed"}
      BY <1>1 DEF LoopStep, Readable, LoopRecv, Finish
    <3>2. /\ our_sock' \in BOOLEAN /\ control' \in {"open", "sent", "closed"}
          /\ lpc' \in {"none", "unstarted", "select", "ready", "over"}
      BY <3>1 DEF Typed, TypeOK
    <3> QED BY <3>1, <3>2 DEF Typed, TypeOK, stream, receiver, user, remote
  <2>2. Places'
    BY <1>1 DEF LoopStep, Readable, LoopRecv, Finish, Typed, Places, HasLoop, Handling, stream,
       receiver, user, remote
  <2>3. Window'
    BY <1>1 DEF LoopStep, Readable, LoopRecv, Finish, Typed, Window, AtCell, Handling, stream,
       receiver, user, remote
  <2> QED BY <2>1, <2>2, <2>3 DEF Typed
<1>2. CASE UNCHANGED vars
  BY <1>2 DEF vars, stream, loop, receiver, user, remote, Typed, TypeOK, Places, HasLoop,
     Window, AtCell, Handling
<1> QED BY <1>1, <1>2, PeerTyped, ReceiverTyped, UserTyped DEF Next

LEMMA AlwaysTyped == Spec => []Typed
BY TypedInit, TypedKept, PTL DEF Spec

(***************************************************************************)
(* Every variable has its type; the windows stay within what they started   *)
(* with, however often the receiver adds to them (_window, _on_data).       *)
(***************************************************************************)
THEOREM TypeCorrect == Spec => []TypeOK
<1>1. Typed => TypeOK
  BY DEF Typed
<1> QED BY <1>1, AlwaysTyped, PTL

(***************************************************************************)
(* While recv takes its cells, the peer is never left with a window less a  *)
(* whole SENDME: the deliver window and his credit are the same but for the *)
(* cell that is being handled (TorStream._on_data, need_sendme).            *)
(***************************************************************************)
THEOREM SendmesArrive == Spec => []SendmesKeepUp
<1>1. Typed => SendmesKeepUp
  <2>1. rpc = "idle" => AtCell = 0
    BY DEF AtCell, Handling
  <2> QED BY <2>1, Sizes DEF Typed, TypeOK, Window, SendmesKeepUp
<1> QED BY <1>1, AlwaysTyped, PTL

-----------------------------------------------------------------------------
(***************************************************************************)
(* A reader never misses a wakeup: whoever puts a cell into the buffer, or  *)
(* ends the stream, sets the event, and recv clears it only for an empty    *)
(* buffer of a stream that is not ended (_append, _end, recv).  It needs    *)
(* nothing but itself.                                                      *)
(***************************************************************************)
THEOREM WakeupsAreSeen == Spec => []DataSignalled
<1>1. Init => DataSignalled
  BY DEF Init, DataSignalled
<1>2. DataSignalled /\ [Next]_vars => DataSignalled'
  <2> SUFFICES ASSUME DataSignalled, [Next]_vars PROVE DataSignalled'
    OBVIOUS
  <2> USE DEF DataSignalled, HasLoop
  <2>1. CASE Peer
    BY <2>1 DEF Peer, Receive, stream, loop
  <2>2. CASE ReceiverStep
    <3>1. CASE HandleConnected \/ HandleData \/ LockData \/ PutData \/ PutFails
      BY <2>2, <3>1 DEF HandleConnected, HandleData, LockData, PutData, PutFails, loop
    <3>2. CASE HandleEnd
      BY <3>2 DEF HandleEnd
    <3>3. CASE CloseAtOnce("receiver") \/ BeginClose("receiver") \/ EndClose("receiver")
      BY <3>3 DEF CloseAtOnce, BeginClose, EndClose, loop
    <3> QED BY <2>2, <3>1, <3>2, <3>3 DEF ReceiverStep
  <2>3. CASE UserStep
    <3>1. CASE WaitConnected \/ Recv \/ Signalled \/ StopReading \/ FlushBlocks \/ JoinLoop
      BY <3>1 DEF WaitConnected, Recv, Signalled, StopReading, FlushBlocks, JoinLoop, UserOnly,
         stream, loop
    <3>2. CASE Take
      <4>1. /\ has_data' = IF buffer' = <<>> /\ state # "Disconnected" THEN FALSE ELSE has_data
            /\ UNCHANGED <<state, lpc>>
        BY <3>2 DEF Take, loop
      <4>2. ASSUME ~HasLoop, buffer' # <<>> PROVE buffer # <<>>
        <5>1. SUFFICES ASSUME buffer = <<>> PROVE FALSE
          OBVIOUS
        <5>2. /\ Len(buffer) = 0
              /\ buffer' = SubSeq(buffer, (IF Len(buffer) < BufSize THEN Len(buffer)
                                           ELSE BufSize) + 1, Len(buffer))
          BY <3>2, <5>1 DEF Take
        <5>3. buffer' = SubSeq(buffer, 1, 0)
          BY <5>2, Sizes
        <5>4. buffer' = <<>>
          BY <5>1, <5>3
        <5> QED BY <4>2, <5>4
      <4> QED BY <4>1, <4>2
    <3>3. CASE Flush \/ AssignLoop \/ StartLoop \/ ClientReads \/ ClientLeaves \/ StopLoop
      BY <3>3 DEF Flush, AssignLoop, StartLoop, ClientReads, ClientLeaves, StopLoop, stream,
         loop
    <3>4. CASE CloseAtOnce("user") \/ BeginClose("user") \/ EndClose("user")
      BY <3>4 DEF CloseAtOnce, BeginClose, EndClose, loop
    <3> QED BY <2>3, <3>1, <3>2, <3>3, <3>4 DEF UserStep
  <2>4. CASE LoopStep
    BY <2>4 DEF LoopStep, Readable, LoopRecv, Finish, stream
  <2>5. CASE UNCHANGED vars
    BY <2>5 DEF vars, stream, loop
  <2> QED BY <2>1, <2>2, <2>3, <2>4, <2>5 DEF Next
<1> QED BY <1>1, <1>2, PTL DEF Spec

-----------------------------------------------------------------------------
(***************************************************************************)
(* recv: where the cells are that have come.                                *)
(***************************************************************************)

LEMMA CameIs ==
  ASSUME Typed
  PROVE  /\ sent \in Nat /\ Came \in Nat /\ Came <= sent
         /\ Handling => Came + 1 = sent
         /\ ~Handling => Came = sent
         /\ Len(got) \in Nat /\ Len(buffer) \in Nat /\ Len(to_client) \in Nat
BY Sizes DEF Typed, TypeOK, Places, Came, AtCell

(* A cell that the receiver takes for this stream is the next that came.    *)
LEMMA PeerSends ==
  ASSUME Typed, Peer
  PROVE  /\ UNCHANGED <<stream, loop, to_client, user>>
         /\ rpc = "idle" /\ ~Handling /\ Came = sent /\ peer # "destroyed"
         /\ Came' \in Nat /\ sent <= Came' /\ (in_map => Came' = sent)
         /\ Handling' => in_map
         /\ NoMore => NoMore' /\ sent' = sent /\ Came' = sent
<1>1. PICK cell \in {"CONNECTED", "DATA", "END", "DESTROY"} : Receive(cell)
  BY DEF Peer
<1>2. /\ UNCHANGED <<stream, loop, to_client, user>> /\ rpc = "idle" /\ rcell' = cell
      /\ rpc' = IF ~in_map THEN "idle" ELSE IF cell = "DESTROY" THEN "close" ELSE "handle"
  BY <1>1 DEF Receive
<1>3. ~Handling /\ Came = sent /\ sent \in Nat
  BY <1>2, CameIs DEF Handling
<1>4. /\ cell = "DATA" => sent' = sent + 1 /\ peer = "open"
      /\ cell # "DATA" => sent' = sent
      /\ NoMore => NoMore' /\ cell # "DATA"
      /\ peer # "destroyed"
  BY <1>2 DEF Peer, Receive, NoMore
<1>5. Handling' <=> in_map /\ cell = "DATA"
  BY <1>2 DEF Handling
<1>6. Came' = sent' - (IF in_map /\ cell = "DATA" THEN 1 ELSE 0)
  BY <1>5 DEF Came, AtCell
<1>7. CASE cell = "DATA"
  <2>1. CASE in_map
    BY <1>2, <1>3, <1>4, <1>5, <1>6, <1>7, <2>1
  <2>2. CASE ~in_map
    BY <1>2, <1>3, <1>4, <1>5, <1>6, <1>7, <2>2
  <2> QED BY <2>1, <2>2
<1>8. CASE cell # "DATA"
  BY <1>2, <1>3, <1>4, <1>5, <1>6, <1>8
<1> QED BY <1>7, <1>8

(* Any other step of the receiver that leaves the cells alone.              *)
LEMMA CameKept ==
  ASSUME Typed, UNCHANGED sent, Handling' <=> Handling
  PROVE  Came' = Came
BY DEF Came, AtCell

LEMMA ContiguousKept ==
  ASSUME Contiguous, UNCHANGED <<got, buffer, to_client>>, Came' = Came,
         in_map' \/ Handling' => in_map \/ Handling
  PROVE  Contiguous'
BY DEF Contiguous

LEMMA CameMore ==
  ASSUME Typed, UNCHANGED sent, Handling, ~Handling'
  PROVE  Came' = sent /\ Came' = Came + 1
BY CameIs DEF Came, AtCell

LEMMA AppendIs ==
  ASSUME NEW S, NEW s \in Seq(S), NEW n \in S, NEW t, t = Append(s, n)
  PROVE  /\ Len(t) = Len(s) + 1 /\ t[Len(t)] = n /\ t # <<>>
         /\ \A i \in 1..Len(t) : i = Len(t) \/ (i \in 1..Len(s) /\ t[i] = s[i])
         /\ \A i \in 1..Len(s) : i \in 1..Len(t) /\ t[i] = s[i]
OBVIOUS

LEMMA ReadingInit == Init => Reading
<1> SUFFICES ASSUME Init PROVE Reading
  OBVIOUS
<1>1. /\ got = <<>> /\ buffer = <<>> /\ to_client = <<>> /\ ~has_data /\ ~our_sock
      /\ ~client_open /\ upc = "connecting" /\ in_map /\ rpc = "idle" /\ sent = 0
  BY DEF Init
<1>2. Came = 0
  <2>1. Typed /\ ~Handling
    BY <1>1, TypedInit DEF Handling
  <2> QED BY <1>1, <2>1, CameIs
<1>3. Contiguous
  BY <1>1, <1>2 DEF Contiguous
<1> QED BY <1>1, <1>2, <1>3 DEF Reading, EmptyMeansEnd

LEMMA PeerReading == Typed /\ Reading /\ Peer => Reading'
<1> SUFFICES ASSUME Typed, Reading, Peer PROVE Reading'
  OBVIOUS
<1>1. /\ UNCHANGED <<upc, mode, got, client_open, buffer, has_data, in_map, our_sock,
                     to_client>>
      /\ rpc = "idle" /\ ~Handling /\ Came = sent /\ peer # "destroyed"
      /\ Came' \in Nat /\ Came <= Came' /\ (in_map => Came' = Came)
      /\ Handling' => in_map
      /\ NoMore => NoMore' /\ sent' = sent /\ Came' = sent
  BY PeerSends DEF stream, loop, user
<1>2. Contiguous => Contiguous'
  BY <1>1, CameIs DEF Contiguous
<1>3. mode = "recv" /\ upc \notin {"close", "over"} => in_map
  BY <1>1 DEF Reading
<1> QED BY <1>1, <1>2, <1>3 DEF Reading, EmptyMeansEnd, NoMore

LEMMA ReceiverReading == Typed /\ Reading /\ ReceiverStep => Reading'
<1> SUFFICES ASSUME Typed, Reading, ReceiverStep PROVE Reading'
  OBVIOUS
<1>1. UNCHANGED <<upc, mode, got, client_open, peer, sent>>
  BY DEF ReceiverStep, HandleConnected, HandleData, LockData, PutData, PutFails, HandleEnd,
     CloseAtOnce, BeginClose, EndClose, GotoOf, user, remote
<1>2. CASE HandleConnected
  <2>1. /\ UNCHANGED <<buffer, has_data, in_map, our_sock, to_client>> /\ rpc' = "idle"
        /\ ~Handling /\ ~Handling'
    BY <1>2 DEF HandleConnected, loop, Handling
  <2>2. Came' = Came
    BY <1>1, <2>1, CameKept
  <2> QED BY <1>1, <2>1, <2>2, ContiguousKept DEF Reading, EmptyMeansEnd, NoMore
<1>3. CASE HandleData
  <2>1. /\ UNCHANGED <<in_map, our_sock, to_client, state>> /\ rpc' = "idle" /\ rpc = "handle"
        /\ Handling /\ ~Handling'
        /\ IF state = "Closed" THEN UNCHANGED <<buffer, has_data>>
                               ELSE buffer' = Append(buffer, sent)
    BY <1>3 DEF HandleData, loop, Handling
  <2>2. Came' = sent /\ Came' = Came + 1
    BY <1>1, <2>1, CameMore
  <2>3. CASE state = "Closed"
    <3>1. ~in_map /\ UNCHANGED <<buffer, has_data>>
      BY <2>1, <2>3 DEF Typed, Places
    <3>2. Contiguous => Contiguous'
      BY <1>1, <2>1, <2>2, <3>1, CameIs DEF Contiguous
    <3> QED BY <1>1, <2>1, <3>1, <3>2 DEF Reading, EmptyMeansEnd, NoMore
  <2>4. CASE state # "Closed"
    <3>1. buffer' = Append(buffer, sent) /\ buffer \in Seq(1..Last) /\ sent \in 1..Last
      BY <2>1, <2>4, CameIs, Sizes DEF Typed, TypeOK, Places
    <3>2. /\ Len(buffer') = Len(buffer) + 1 /\ buffer'[Len(buffer')] = sent /\ buffer' # <<>>
          /\ \A i \in 1..Len(buffer') : i = Len(buffer') \/ (i \in 1..Len(buffer)
                                                             /\ buffer'[i] = buffer[i])
      BY <3>1, AppendIs
    <3>3. ASSUME Contiguous PROVE Contiguous'
      <4>1. Len(got) + Len(buffer') = Came'
        BY <2>1, <2>2, <3>2, <3>3, CameIs DEF Contiguous
      <4>2. \A i \in 1..Len(buffer') : buffer'[i] = Len(got) + i
        <5>1. Len(got) + Len(buffer') = sent
          BY <2>2, <4>1
        <5> QED BY <3>2, <3>3, <5>1 DEF Contiguous
      <4>3. Came' \in Nat
        BY <2>2, CameIs
      <4> QED BY <1>1, <2>1, <3>3, <4>1, <4>2, <4>3 DEF Contiguous
    <3>4. ASSUME mode = "recv", upc \notin {"close", "over"}
          PROVE  Len(got) + Len(buffer') = Came' /\ in_map
      <4>1. Len(got) + Len(buffer) = Came /\ in_map
        BY <2>1, <3>4 DEF Reading
      <4> QED BY <2>2, <3>2, <4>1, CameIs
    <3>5. EmptyMeansEnd'
      <4>1. peer = "open"
        BY <2>1 DEF Typed, Places, Handling
      <4> QED BY <1>1, <4>1 DEF Reading, EmptyMeansEnd
    <3> QED BY <1>1, <2>1, <3>2, <3>3, <3>4, <3>5 DEF Reading, NoMore
  <2> QED BY <2>3, <2>4
<1>4. CASE LockData
  <2>1. /\ UNCHANGED <<buffer, has_data, in_map, our_sock, to_client>> /\ rpc # "idle"
        /\ Handling /\ Handling'
    BY <1>4 DEF LockData, loop, Handling
  <2>2. Came' = Came
    BY <1>1, <2>1, CameKept
  <2> QED BY <1>1, <2>1, <2>2, ContiguousKept DEF Reading, EmptyMeansEnd, NoMore
<1>5. CASE PutData \/ PutFails
  <2>1. /\ mode # "recv" /\ upc \notin Unflushed \cup InRecv
    BY <1>5 DEF PutData, PutFails, Typed, Places
  <2>2. upc \notin {"take", "eof"}
    BY <2>1 DEF InRecv
  <2> QED BY <1>1, <2>1, <2>2 DEF Reading, EmptyMeansEnd
<1>6. CASE HandleEnd
  <2>1. /\ UNCHANGED <<buffer, in_map, to_client>> /\ rpc' = "idle" /\ NoMore
        /\ ~Handling /\ ~Handling' /\ (our_sock' => our_sock)
    BY <1>6 DEF HandleEnd, Handling, NoMore, Typed, Places
  <2>2. Came' = Came
    BY <1>1, <2>1, CameKept
  <2> QED BY <1>1, <2>1, <2>2, ContiguousKept DEF Reading, EmptyMeansEnd, NoMore
<1>7. CASE CloseAtOnce("receiver") \/ BeginClose("receiver") \/ EndClose("receiver")
  <2>1. /\ UNCHANGED <<buffer, has_data, our_sock, to_client>> /\ (in_map' => in_map)
        /\ rpc \in {"close", "join"} /\ peer = "destroyed"
        /\ rpc' = "idle" \/ (rpc' = "join" /\ UNCHANGED in_map /\ HasLoop)
    BY <1>7 DEF CloseAtOnce, BeginClose, EndClose, PcOf, GotoOf, After, loop, Typed, Places
  <2>2. ~Handling /\ ~Handling'
    BY <2>1 DEF Handling
  <2>3. Came' = Came
    BY <1>1, <2>2, CameKept
  <2>4. mode = "recv" => rpc' = "idle"
    BY <2>1 DEF Typed, Places
  <2> QED BY <1>1, <2>1, <2>2, <2>3, <2>4, ContiguousKept DEF Reading, EmptyMeansEnd, NoMore
<1> QED BY <1>2, <1>3, <1>4, <1>5, <1>6, <1>7 DEF ReceiverStep

(* recv takes the first cells of the buffer.                                *)
LEMMA TakeReading == Typed /\ Reading /\ Take => Reading'
<1> SUFFICES ASSUME Typed, Reading, Take PROVE Reading'
  OBVIOUS
<1> DEFINE n == IF Len(buffer) < BufSize THEN Len(buffer) ELSE BufSize
<1>1. /\ upc = "take" /\ upc' = (IF n = 0 THEN "eof" ELSE "reading")
      /\ got' = got \o SubSeq(buffer, 1, n) /\ buffer' = SubSeq(buffer, n + 1, Len(buffer))
      /\ has_data' = (IF buffer' = <<>> /\ state # "Disconnected" THEN FALSE ELSE has_data)
      /\ UNCHANGED <<state, in_map, our_sock, to_client, rpc, rcell, mode, client_open, peer,
                     sent>>
  BY DEF Take, loop, receiver, remote
<1>2. /\ buffer \in Seq(1..Last) /\ got \in Seq(1..Last) /\ n \in 0..Len(buffer)
      /\ n = 0 <=> Len(buffer) = 0
  BY Sizes DEF Typed, TypeOK
<1> HIDE DEF n
<1>3. /\ SubSeq(buffer, 1, n) \in Seq(1..Last) /\ Len(SubSeq(buffer, 1, n)) = n
      /\ \A i \in 1..n : SubSeq(buffer, 1, n)[i] = buffer[i]
  <2>1. ASSUME NEW i \in 1..n PROVE buffer[i] \in 1..Last
    <3>1. buffer \in Seq(1..Last) /\ Len(buffer) \in Nat /\ i \in 1..Len(buffer)
      BY <1>2
    <3> QED BY <3>1, ElementOfSeq
  <2>2. n \in Int /\ 1 \in Int /\ n >= 0
    BY <1>2
  <2>3. /\ SubSeq(buffer, 1, n) \in Seq(1..Last)
        /\ Len(SubSeq(buffer, 1, n)) = IF 1 <= n THEN n - 1 + 1 ELSE 0
        /\ \A i \in 1..(n - 1 + 1) : SubSeq(buffer, 1, n)[i] = buffer[1 + i - 1]
    BY <2>1, <2>2, SubSeqProperties
  <2>4. n - 1 + 1 = n /\ \A i \in 1..n : 1 + i - 1 = i
    BY <2>2
  <2> QED BY <2>2, <2>3, <2>4
<1>4. /\ Len(buffer') = Len(buffer) - n
      /\ \A i \in 1..Len(buffer') : buffer'[i] = buffer[n + i] /\ n + i \in 1..Len(buffer)
  BY <1>1, <1>2
<1>5. /\ Len(got') = Len(got) + n
      /\ \A i \in 1..Len(got') : IF i <= Len(got) THEN got'[i] = got[i]
                                 ELSE got'[i] = buffer[i - Len(got)]
  <2> DEFINE t == SubSeq(buffer, 1, n)
  <2> HIDE DEF t
  <2>1. got' = got \o t /\ t \in Seq(1..Last) /\ Len(t) = n /\ \A i \in 1..n : t[i] = buffer[i]
    BY <1>1, <1>3 DEF t
  <2>2. /\ Len(got') = Len(got) + n
        /\ \A i \in 1..(Len(got) + n) :
             got'[i] = IF i <= Len(got) THEN got[i] ELSE t[i - Len(got)]
    <3>1. /\ Len(got \o t) = Len(got) + Len(t)
          /\ \A i \in 1..(Len(got) + Len(t)) :
               (got \o t)[i] = IF i <= Len(got) THEN got[i] ELSE t[i - Len(got)]
      <4>1. got \in Seq(1..Last) /\ t \in Seq(1..Last)
        BY <1>2, <2>1
      <4> QED BY <4>1, ConcatProperties
    <3>2. got' = got \o t /\ Len(t) = n
      BY <2>1
    <3> QED BY <3>1, <3>2
  <2>3. ASSUME NEW i \in 1..Len(got')
        PROVE  IF i <= Len(got) THEN got'[i] = got[i] ELSE got'[i] = t[i - Len(got)]
    BY <2>2
  <2>4. ASSUME NEW i \in 1..Len(got'), ~(i <= Len(got)) PROVE i - Len(got) \in 1..n
    BY <1>2, <2>2, <2>4
  <2> QED BY <2>1, <2>2, <2>3, <2>4
<1>6. mode = "recv" /\ Contiguous /\ Len(got) + Len(buffer) = Came
  BY <1>1 DEF Typed, Places, InRecv, Reading
<1>7. Came' = Came /\ (Handling' <=> Handling)
  BY <1>1, CameKept DEF Handling
<1>8. Len(got') + Len(buffer') = Came'
  BY <1>2, <1>4, <1>5, <1>6, <1>7
<1>9. Contiguous'
  <2>1. ASSUME NEW i \in 1..Len(got') PROVE got'[i] = i
    <3>1. CASE i <= Len(got)
      BY <1>2, <1>5, <1>6, <3>1 DEF Contiguous
    <3>2. CASE ~(i <= Len(got))
      <4>1. i - Len(got) \in 1..Len(buffer)
        BY <1>2, <1>5, <3>2
      <4>2. got'[i] = buffer[i - Len(got)]
        BY <1>5, <3>2
      <4>3. buffer[i - Len(got)] = Len(got) + (i - Len(got))
        BY <1>6, <4>1 DEF Contiguous
      <4> QED BY <1>2, <4>2, <4>3
    <3> QED BY <3>1, <3>2
  <2>2. ASSUME NEW i \in 1..Len(buffer') PROVE buffer'[i] = Len(got') + i
    <3>1. buffer'[i] = buffer[n + i] /\ n + i \in 1..Len(buffer)
      BY <1>4
    <3>2. buffer[n + i] = Len(got) + (n + i)
      BY <1>6, <3>1 DEF Contiguous
    <3> QED BY <1>2, <1>5, <3>1, <3>2
  <2>3. Len(got') + Len(buffer') <= Came'
    BY <1>7, <1>8, CameIs
  <2> QED BY <1>1, <1>6, <1>8, <2>1, <2>2, <2>3 DEF Contiguous
<1>10. EmptyMeansEnd'
  <2> SUFFICES ASSUME upc' = "eof" PROVE NoMore /\ Len(got') = sent
    BY <1>1 DEF EmptyMeansEnd, NoMore
  <2>1. n = 0 /\ Len(buffer) = 0
    BY <1>1, <1>2
  <2>2. NoMore
    <3>1. buffer = <<>>
      BY <1>2, <2>1
    <3> QED BY <1>1, <3>1 DEF Reading
  <2>3. ~Handling
    BY <2>2 DEF NoMore, Typed, Places, Handling
  <2> QED BY <1>5, <1>6, <2>1, <2>2, <2>3, CameIs
<1>11. has_data' => buffer' # <<>> \/ NoMore
  <2>1. state = "Disconnected" => NoMore
    BY DEF Typed, Places, NoMore
  <2> QED BY <1>1, <2>1
<1>12. in_map \/ (peer = "destroyed" /\ rpc = "idle")
  BY <1>1, <1>6 DEF Reading
<1> QED BY <1>1, <1>8, <1>9, <1>10, <1>11, <1>12 DEF Reading, Unflushed, NoMore

LEMMA UserReading == Typed /\ Reading /\ UserStep => Reading'
<1> SUFFICES ASSUME Typed, Reading, UserStep PROVE Reading'
  OBVIOUS
<1>1. ASSUME UNCHANGED <<rpc, rcell, sent>>
      PROVE  Came' = Came /\ (Handling' <=> Handling)
  BY <1>1, CameKept DEF Handling
<1>2. CASE WaitConnected \/ Recv \/ FlushBlocks \/ StopReading \/ JoinLoop
  <2>1. /\ UNCHANGED <<mode, got, client_open, buffer, has_data, in_map, our_sock, to_client,
                       rpc, rcell, sent, peer>>
        /\ upc' \in {"close", "connected", "waiting", "flushing"}
        /\ upc' \in Unflushed => upc \in Unflushed
        /\ mode = "recv" => upc \notin {"close", "over"}
    BY <1>2 DEF WaitConnected, Recv, FlushBlocks, StopReading, JoinLoop, UserOnly, Unflushed,
       stream, loop, receiver, remote, Typed, Places
  <2> QED BY <1>1, <2>1, ContiguousKept DEF Reading, EmptyMeansEnd, NoMore
<1>3. CASE Signalled
  <2>1. /\ UNCHANGED <<mode, got, client_open, buffer, has_data, in_map, our_sock, to_client,
                       rpc, rcell, sent, peer>>
        /\ upc = "waiting" /\ has_data /\ mode = "recv"
        /\ upc' = IF state = "Disconnected" /\ buffer = <<>> THEN "eof" ELSE "take"
    BY <1>3 DEF Signalled, UserOnly, stream, loop, receiver, remote, Typed, Places, InRecv
  <2>2. upc' \notin Unflushed /\ upc' \notin {"close", "over"}
    BY <2>1 DEF Unflushed
  <2>3. buffer # <<>> \/ NoMore
    BY <2>1 DEF Reading
  <2>4. ASSUME upc' = "eof" PROVE NoMore /\ Len(got) = sent
    <3>1. NoMore /\ buffer = <<>>
      BY <2>1, <2>3, <2>4
    <3>2. ~Handling
      BY <3>1 DEF NoMore, Handling, Typed, Places
    <3>3. Len(got) + Len(buffer) = Came
      BY <2>1 DEF Reading
    <3> QED BY <3>1, <3>2, <3>3, CameIs
  <2>5. Contiguous'
    BY <1>1, <2>1, ContiguousKept DEF Reading
  <2> QED BY <1>1, <2>1, <2>2, <2>3, <2>4, <2>5 DEF Reading, EmptyMeansEnd, NoMore
<1>4. CASE Flush \/ AssignLoop \/ StartLoop \/ ClientReads \/ ClientLeaves \/ StopLoop
  <2>1. /\ mode # "recv" /\ upc' \notin Unflushed \cup {"take", "eof"} /\ UNCHANGED mode
    BY <1>4 DEF Flush, AssignLoop, StartLoop, ClientReads, ClientLeaves, StopLoop, Typed,
       Places, InSocket, Unflushed
  <2> QED BY <2>1 DEF Reading, EmptyMeansEnd
<1>5. CASE CloseAtOnce("user") \/ BeginClose("user") \/ EndClose("user")
  <2>1. /\ UNCHANGED <<mode, got, client_open, buffer, has_data, our_sock, to_client, rpc, rcell,
                       sent, peer>>
        /\ upc' \in {"over", "join"} /\ (in_map' => in_map) /\ (upc' = "join" => mode # "recv")
    BY <1>5 DEF CloseAtOnce, BeginClose, EndClose, GotoOf, After, loop, remote, Typed, Places
  <2>2. upc' \notin Unflushed
    BY <2>1 DEF Unflushed
  <2> QED BY <1>1, <2>1, <2>2, ContiguousKept DEF Reading, EmptyMeansEnd, NoMore
<1> QED BY <1>2, <1>3, <1>4, <1>5, TakeReading DEF UserStep

LEMMA ReadingKept == Typed /\ Reading /\ [Next]_vars => Reading'
<1> SUFFICES ASSUME Typed, Reading, [Next]_vars PROVE Reading'
  OBVIOUS
<1>1. CASE LoopStep \/ UNCHANGED vars
  <2>1. /\ UNCHANGED <<upc, mode, got, client_open, buffer, has_data, in_map, to_client, rpc,
                       rcell, sent, peer>>
        /\ our_sock' => our_sock
    BY <1>1 DEF LoopStep, Readable, LoopRecv, Finish, vars, stream, loop, receiver, user, remote
  <2>2. Came' = Came /\ (Handling' <=> Handling)
    BY <2>1, CameKept DEF Handling
  <2> QED BY <2>1, <2>2, ContiguousKept DEF Reading, EmptyMeansEnd, NoMore
<1> QED BY <1>1, PeerReading, ReceiverReading, UserReading DEF Next

(***************************************************************************)
(* recv returns nothing only when the peer has ended, and all that came     *)
(* has been read (TorStream.recv, _end): END comes after the data, and the  *)
(* event that is set without data was set by it.                            *)
(***************************************************************************)
THEOREM NothingMeansEnd == Spec => []EmptyMeansEnd
<1>1. Reading => EmptyMeansEnd
  BY DEF Reading
<1> QED BY <1>1, AlwaysTyped, ReadingInit, ReadingKept, PTL DEF Spec

-----------------------------------------------------------------------------
(***************************************************************************)
(* A socket pair: where the cells are that have come.                       *)
(***************************************************************************)

LEMMA CellsAreNumbers ==
  ASSUME Typed
  PROVE  /\ \A i \in 1..Len(got) : got[i] \in Nat
         /\ \A i \in 1..Len(to_client) : to_client[i] \in Nat
<1>1. got \in Seq(1..Last) /\ to_client \in Seq(1..Last)
  BY DEF Typed, TypeOK
<1>2. ASSUME NEW i \in 1..Len(got) PROVE got[i] \in 1..Last
  BY <1>1, ElementOfSeq
<1>3. ASSUME NEW i \in 1..Len(to_client) PROVE to_client[i] \in 1..Last
  BY <1>1, ElementOfSeq
<1> QED BY <1>2, <1>3

LEMMA FlushedInit == Init => Flushed
<1> SUFFICES ASSUME Init PROVE Flushed
  OBVIOUS
<1>1. got = <<>> /\ to_client = <<>> /\ ~our_sock
  BY DEF Init
<1> QED BY <1>1 DEF Flushed, Ordered, NoGap, Deliverable, Increases

(* A step that moves no cell, and after which none more can be delivered.   *)
LEMMA FlushedSame ==
  ASSUME Typed, Flushed, UNCHANGED <<got, to_client, buffer, mode>>,
         Came' \in Nat, Came <= Came', Deliverable' => Deliverable /\ Came' = Came
  PROVE  Flushed'
<1> SUFFICES ASSUME mode # "recv"
             PROVE  Ordered' /\ NoGap' /\ (Deliverable' => \A n \in 1..Came' : Known(n)')
  BY DEF Flushed
<1>1. Ordered /\ NoGap /\ (Deliverable => \A n \in 1..Came : Known(n))
  BY DEF Flushed
<1>2. /\ \A i \in 1..Len(got) : got[i] \in Nat
      /\ \A i \in 1..Len(to_client) : to_client[i] \in Nat
  BY CellsAreNumbers
<1>3. Ordered'
  BY <1>1, <1>2, CameIs DEF Ordered, Increases
<1>4. \A n : Known(n)' <=> Known(n)
  BY DEF Known, Holds
<1>5. NoGap'
  BY <1>1, <1>4 DEF NoGap, Holds
<1> QED BY <1>1, <1>3, <1>4, <1>5

LEMMA HandledFlushed ==
  ASSUME Typed, Flushed, HandleData PROVE Flushed'
<1>1. /\ UNCHANGED <<state, in_map, our_sock, to_client, got, mode, client_open, sent>>
      /\ Handling /\ ~Handling'
      /\ IF state = "Closed" THEN UNCHANGED buffer ELSE buffer' = Append(buffer, sent)
  BY DEF HandleData, Handling, loop, user
<1>2. Came' = sent /\ Came' = Came + 1 /\ Came \in Nat /\ sent \in 1..Last
  BY <1>1, CameMore, CameIs, Sizes DEF Typed, TypeOK, Places
<1>3. CASE state = "Closed"
  <2>1. ~in_map
    BY <1>3 DEF Typed, Places
  <2> QED BY <1>1, <1>2, <1>3, <2>1, FlushedSame DEF Deliverable
<1>4. CASE state # "Closed"
  <2> SUFFICES ASSUME mode # "recv"
               PROVE  Ordered' /\ NoGap' /\ (Deliverable' => \A n \in 1..Came' : Known(n)')
    BY <1>1 DEF Flushed
  <2>1. Ordered /\ NoGap /\ (Deliverable => \A n \in 1..Came : Known(n))
    BY DEF Flushed
  <2>2. /\ Holds(buffer', sent) /\ \A n : Holds(buffer, n) => Holds(buffer', n)
    <3>1. buffer \in Seq(1..Last) /\ buffer' = Append(buffer, sent)
      BY <1>1, <1>4 DEF Typed, TypeOK
    <3>2. /\ \A i \in 1..Len(buffer) : i \in 1..Len(buffer') /\ buffer'[i] = buffer[i]
          /\ Len(buffer') = Len(buffer) + 1 /\ buffer'[Len(buffer')] = sent
      <4>1. sent \in 1..Last
        BY <1>2
      <4> QED BY <3>1, <4>1, AppendIs
    <3>3. Len(buffer') \in 1..Len(buffer')
      BY <3>2, CameIs
    <3> QED BY <3>2, <3>3 DEF Holds
  <2>3. \A n : Known(n) => Known(n)'
    BY <1>1, <2>2 DEF Known
  <2>4. /\ \A i \in 1..Len(got) : got[i] \in Nat
        /\ \A i \in 1..Len(to_client) : to_client[i] \in Nat
    BY CellsAreNumbers
  <2>5. Ordered'
    BY <1>1, <1>2, <2>1, <2>4 DEF Ordered, Increases
  <2>6. NoGap'
    BY <1>1, <2>1, <2>2, <2>3 DEF NoGap
  <2>7. ASSUME Deliverable', NEW n \in 1..Came' PROVE Known(n)'
    <3>1. Deliverable
      BY <1>1, <2>7 DEF Deliverable
    <3>2. n \in 1..Came \/ n = sent
      BY <1>2
    <3> QED BY <2>1, <2>2, <2>3, <3>1, <3>2 DEF Known
  <2> QED BY <2>5, <2>6, <2>7
<1> QED BY <1>3, <1>4

LEMMA PutFlushed ==
  ASSUME Typed, Flushed, PutData PROVE Flushed'
<1>1. /\ UNCHANGED <<in_map, our_sock, buffer, got, mode, client_open, sent>>
      /\ Handling /\ ~Handling' /\ Deliverable /\ mode # "recv"
      /\ to_client' = Append(to_client, sent)
  BY DEF PutData, Handling, Deliverable, loop, user, Typed, Places
<1>2. Came' = sent /\ Came' = Came + 1 /\ Came \in Nat /\ sent \in 1..Last
  BY <1>1, CameMore, CameIs, Sizes DEF Typed, TypeOK, Places
<1>3. Ordered /\ NoGap /\ \A n \in 1..Came : Known(n)
  BY <1>1 DEF Flushed
<1>4. /\ \A i \in 1..Len(to_client) : i \in 1..Len(to_client') /\ to_client'[i] = to_client[i]
      /\ Len(to_client') = Len(to_client) + 1 /\ to_client'[Len(to_client')] = sent
      /\ \A i \in 1..Len(to_client') :
           i = Len(to_client') \/ (i \in 1..Len(to_client) /\ to_client'[i] = to_client[i])
  <2>1. to_client \in Seq(1..Last)
    BY DEF Typed, TypeOK
  <2> QED BY <1>1, <1>2, <2>1, AppendIs
<1>5. Holds(to_client', sent) /\ \A n : Holds(to_client, n) => Holds(to_client', n)
  <2>1. Len(to_client') \in 1..Len(to_client')
    BY <1>4, CameIs
  <2> QED BY <1>4, <2>1 DEF Holds
<1>6. \A n : Known(n) => Known(n)'
  BY <1>1, <1>5 DEF Known
<1>7. \A n \in 1..Came' : Known(n)'
  <2>1. \A n \in 1..Came' : n \in 1..Came \/ n = sent
    BY <1>2
  <2> QED BY <1>3, <1>5, <1>6, <2>1 DEF Known
<1>8. /\ \A i \in 1..Len(got) : got[i] \in Nat
      /\ \A i \in 1..Len(to_client) : to_client[i] \in Nat
  BY CellsAreNumbers
<1>9. Ordered'
  <2>1. ASSUME NEW i \in 1..Len(to_client') PROVE to_client'[i] <= Came'
    BY <1>2, <1>3, <1>4, <1>8 DEF Ordered
  <2>2. ASSUME NEW i \in 1..Len(to_client'), NEW k \in 1..Len(to_client'), i < k
        PROVE  to_client'[i] < to_client'[k]
    <3>1. i \in 1..Len(to_client) /\ to_client'[i] = to_client[i]
      BY <1>4, <2>2, CameIs
    <3>2. to_client[i] <= Came /\ to_client[i] < sent
      BY <1>2, <1>3, <1>8, <3>1 DEF Ordered
    <3> QED BY <1>3, <1>4, <2>2, <3>1, <3>2 DEF Ordered, Increases
  <2>3. ASSUME NEW i \in 1..Len(got), NEW k \in 1..Len(to_client')
        PROVE  got[i] < to_client'[k]
    <3>1. got[i] < sent
      BY <1>2, <1>3, <1>8 DEF Ordered
    <3> QED BY <1>3, <1>4, <3>1 DEF Ordered
  <2>4. \A i \in 1..Len(got) : got[i] <= Came'
    BY <1>2, <1>3, <1>8 DEF Ordered
  <2> QED BY <1>1, <1>3, <2>1, <2>2, <2>3, <2>4 DEF Ordered, Increases
<1>10. NoGap'
  <2>1. ASSUME NEW i \in 1..Len(to_client'), NEW n \in 1..to_client'[i] PROVE Known(n)'
    <3>1. CASE i \in 1..Len(to_client) /\ to_client'[i] = to_client[i]
      BY <1>3, <1>6, <3>1 DEF NoGap
    <3>2. CASE i = Len(to_client')
      BY <1>2, <1>4, <1>7, <3>2
    <3> QED BY <1>4, <3>1, <3>2
  <2> QED BY <1>1, <1>3, <2>1 DEF NoGap
<1> QED BY <1>7, <1>9, <1>10 DEF Flushed

LEMMA FlushFlushed ==
  ASSUME Typed, Reading, Flush PROVE Flushed'
<1>1. /\ to_client' = buffer /\ buffer' = <<>>
      /\ UNCHANGED <<in_map, got, mode, sent, rpc, rcell>>
      /\ Contiguous /\ got = <<>>
  BY DEF Flush, receiver, remote, Reading, Unflushed
<1>2. Came' = Came /\ (Handling' <=> Handling)
  BY <1>1, CameKept DEF Handling
<1>3. Len(got) = 0 /\ Len(to_client') = Len(buffer) /\ Len(buffer) <= Came /\ Came \in Nat
  BY <1>1, CameIs DEF Contiguous
<1>4. ASSUME NEW i \in 1..Len(to_client') PROVE to_client'[i] = i
  BY <1>1, <1>3, CameIs DEF Contiguous
<1>5. Ordered'
  BY <1>1, <1>2, <1>3, <1>4, CameIs DEF Ordered, Increases
<1>6. \A n \in 1..Len(buffer) : Known(n)'
  BY <1>3, <1>4 DEF Known, Holds
<1>7. NoGap'
  <2>1. ASSUME NEW i \in 1..Len(to_client'), NEW n \in 1..to_client'[i] PROVE Known(n)'
    <3>1. n \in 1..Len(buffer)
      BY <1>3, <1>4, CameIs
    <3> QED BY <1>6, <3>1
  <2> QED BY <1>1, <1>3, <2>1 DEF NoGap
<1>8. Deliverable' => Len(buffer) = Came'
  BY <1>1, <1>2, <1>3, CameIs DEF Deliverable, Contiguous
<1> QED BY <1>5, <1>6, <1>7, <1>8 DEF Flushed

LEMMA ReadFlushed ==
  ASSUME Typed, Flushed, ClientReads PROVE Flushed'
<1> DEFINE h == Head(to_client)
<1>1. /\ got' = Append(got, h) /\ to_client' = Tail(to_client) /\ to_client # <<>>
      /\ UNCHANGED <<buffer, in_map, our_sock, client_open, mode, sent, rpc, rcell>>
      /\ mode # "recv"
  BY DEF ClientReads, stream, loop, receiver, remote, Typed, Places, InSocket
<1>2. Came' = Came /\ (Handling' <=> Handling) /\ Came \in Nat
  BY <1>1, CameKept, CameIs DEF Handling
<1>3. Ordered /\ NoGap /\ (Deliverable => \A n \in 1..Came : Known(n))
  BY <1>1 DEF Flushed
<1>4. /\ to_client \in Seq(1..Last) /\ got \in Seq(1..Last) /\ Len(to_client) \in Nat \ {0}
      /\ h = to_client[1] /\ 1 \in 1..Len(to_client) /\ h \in 1..Last
  <2>1. to_client \in Seq(1..Last) /\ got \in Seq(1..Last)
    BY DEF Typed, TypeOK
  <2>2. Len(to_client) \in Nat \ {0} /\ h = to_client[1]
    BY <1>1, <2>1
  <2>3. 1 \in 1..Len(to_client)
    BY <2>2
  <2>4. to_client[1] \in 1..Last
    BY <2>1, <2>3, ElementOfSeq
  <2> QED BY <2>1, <2>2, <2>3, <2>4
<1>5. /\ Len(to_client') = Len(to_client) - 1
      /\ \A i \in 1..Len(to_client') :
           /\ i + 1 \in 1..Len(to_client) /\ i \in Nat \ {0}
           /\ to_client'[i] = to_client[i + 1]
  BY <1>1, <1>4
<1> HIDE DEF h
<1>6. /\ Len(got') = Len(got) + 1 /\ got'[Len(got')] = h
      /\ \A i \in 1..Len(got') : i = Len(got') \/ (i \in 1..Len(got) /\ got'[i] = got[i])
      /\ \A i \in 1..Len(got) : i \in 1..Len(got') /\ got'[i] = got[i]
  BY <1>1, <1>4, AppendIs
<1>7. /\ \A n : Holds(got, n) => Holds(got', n)
      /\ Holds(got', h)
  <2>1. Len(got') \in 1..Len(got')
    BY <1>6, CameIs
  <2> QED BY <1>6, <2>1 DEF Holds
<1>8. ASSUME NEW n, Holds(to_client, n) PROVE n = h \/ Holds(to_client', n)
  <2>1. PICK i \in 1..Len(to_client) : to_client[i] = n
    BY <1>8 DEF Holds
  <2>2. CASE i = 1
    BY <1>4, <2>1, <2>2
  <2>3. CASE i # 1
    <3>1. i - 1 \in 1..Len(to_client') /\ (i - 1) + 1 = i
      BY <1>4, <1>5, <2>3
    <3>2. to_client'[i - 1] = n
      BY <1>5, <2>1, <3>1
    <3> QED BY <3>1, <3>2 DEF Holds
  <2> QED BY <2>2, <2>3
<1>9. \A n : Known(n) => Known(n)'
  BY <1>1, <1>7, <1>8 DEF Known
<1>10. \A i \in 2..Len(to_client) : h < to_client[i]
  BY <1>3, <1>4 DEF Ordered, Increases
<1>11. Ordered'
  <2>1. Increases(got')
    <3> SUFFICES ASSUME NEW i \in 1..Len(got'), NEW k \in 1..Len(got'), i < k
                 PROVE  got'[i] < got'[k]
      BY DEF Increases
    <3>1. i \in 1..Len(got) /\ got'[i] = got[i]
      BY <1>6, CameIs
    <3>2. got[i] < h
      BY <1>3, <1>4, <3>1 DEF Ordered
    <3> QED BY <1>3, <1>6, <3>1, <3>2 DEF Ordered, Increases
  <2>2. Increases(to_client')
    <3> SUFFICES ASSUME NEW i \in 1..Len(to_client'), NEW k \in 1..Len(to_client'), i < k
                 PROVE  to_client'[i] < to_client'[k]
      BY DEF Increases
    <3>1. i + 1 < k + 1
      BY <1>5
    <3> QED BY <1>3, <1>5, <3>1 DEF Ordered, Increases
  <2>3. ASSUME NEW i \in 1..Len(got'), NEW k \in 1..Len(to_client')
        PROVE  got'[i] < to_client'[k]
    <3>1. CASE i \in 1..Len(got) /\ got'[i] = got[i]
      BY <1>3, <1>5, <3>1 DEF Ordered
    <3>2. CASE i = Len(got')
      <4>1. k + 1 \in 2..Len(to_client)
        BY <1>4, <1>5
      <4> QED BY <1>5, <1>6, <1>10, <3>2, <4>1
    <3> QED BY <1>6, <3>1, <3>2
  <2>4. \A i \in 1..Len(got') : got'[i] <= Came'
    BY <1>2, <1>3, <1>4, <1>6 DEF Ordered
  <2>5. \A i \in 1..Len(to_client') : to_client'[i] <= Came'
    BY <1>2, <1>3, <1>5 DEF Ordered
  <2> QED BY <2>1, <2>2, <2>3, <2>4, <2>5 DEF Ordered
<1>12. NoGap'
  <2>1. ASSUME NEW i \in 1..Len(got'), NEW n \in 1..got'[i]
        PROVE  Holds(got', n) \/ Holds(buffer', n)
    <3>1. CASE i \in 1..Len(got) /\ got'[i] = got[i]
      BY <1>1, <1>3, <1>7, <3>1 DEF NoGap
    <3>2. CASE i = Len(got')
      <4>1. n \in 1..h /\ Known(n)
        BY <1>3, <1>4, <1>6, <3>2 DEF NoGap
      <4>2. ASSUME Holds(to_client, n) PROVE n = h
        <5>1. PICK j \in 1..Len(to_client) : to_client[j] = n
          BY <4>2 DEF Holds
        <5>2. ASSUME j # 1 PROVE FALSE
          <6>1. j \in 2..Len(to_client)
            BY <1>4, <5>2
          <6>2. h < n
            BY <1>10, <5>1, <6>1
          <6> QED BY <1>4, <4>1, <6>2
        <5> QED BY <1>4, <5>1, <5>2
      <4> QED BY <1>1, <1>7, <4>1, <4>2 DEF Known
    <3> QED BY <1>6, <3>1, <3>2
  <2>2. ASSUME NEW i \in 1..Len(to_client'), NEW n \in 1..to_client'[i] PROVE Known(n)'
    BY <1>3, <1>5, <1>9 DEF NoGap
  <2> QED BY <2>1, <2>2 DEF NoGap
<1> QED BY <1>1, <1>2, <1>3, <1>9, <1>11, <1>12 DEF Flushed, Deliverable

LEMMA FlushedKept == Typed /\ Reading /\ Flushed /\ [Next]_vars => Flushed'
<1> SUFFICES ASSUME Typed, Reading, Flushed, [Next]_vars PROVE Flushed'
  OBVIOUS
<1>1. ASSUME UNCHANGED <<got, to_client, buffer, mode, sent, rpc, rcell>>,
             our_sock' => our_sock, client_open' => client_open, in_map' => in_map
      PROVE  Flushed'
  <2>1. Came' = Came /\ (Handling' <=> Handling)
    BY <1>1, CameKept DEF Handling
  <2> QED BY <1>1, <2>1, CameIs, FlushedSame DEF Deliverable
<1>2. CASE Peer
  <2>1. /\ UNCHANGED <<got, to_client, buffer, mode, our_sock, client_open, in_map>>
        /\ Came' \in Nat /\ Came <= Came' /\ (in_map => Came' = Came) /\ (Handling' => in_map)
    BY <1>2, PeerSends DEF stream, loop, user
  <2> QED BY <2>1, FlushedSame DEF Deliverable
<1>3. CASE ReceiverStep
  <2>1. CASE HandleConnected \/ LockData \/ HandleEnd
    <3>1. /\ UNCHANGED <<got, to_client, buffer, mode, sent, rcell, client_open, in_map>>
          /\ our_sock' => our_sock
          /\ Handling' <=> Handling
      BY <2>1 DEF HandleConnected, LockData, HandleEnd, loop, user, remote, Handling
    <3>2. Came' = Came
      BY <3>1, CameKept
    <3> QED BY <3>1, <3>2, CameIs, FlushedSame DEF Deliverable
  <2>2. CASE PutFails
    <3>1. /\ UNCHANGED <<got, to_client, buffer, mode, sent, our_sock, client_open>>
          /\ Handling /\ ~Handling' /\ (~our_sock \/ ~client_open)
      BY <2>2 DEF PutFails, loop, user, remote, Handling, Typed, Places
    <3>2. Came' \in Nat /\ Came <= Came'
      BY <3>1, CameMore, CameIs
    <3> QED BY <3>1, <3>2, FlushedSame DEF Deliverable
  <2>3. CASE CloseAtOnce("receiver") \/ BeginClose("receiver") \/ EndClose("receiver")
    <3>1. /\ UNCHANGED <<got, to_client, buffer, mode, sent, our_sock, client_open>>
          /\ in_map' => in_map
          /\ ~Handling /\ ~Handling'
      BY <2>3 DEF CloseAtOnce, BeginClose, EndClose, PcOf, GotoOf, After, loop, remote, Handling
    <3>2. Came' = Came
      BY <3>1, CameKept
    <3> QED BY <3>1, <3>2, CameIs, FlushedSame DEF Deliverable
  <2> QED BY <1>3, <2>1, <2>2, <2>3, HandledFlushed, PutFlushed DEF ReceiverStep
<1>4. CASE UserStep
  <2>1. CASE WaitConnected \/ Recv \/ Signalled \/ StopReading \/ FlushBlocks \/ JoinLoop
    BY <1>1, <2>1 DEF WaitConnected, Recv, Signalled, StopReading, FlushBlocks, JoinLoop,
       UserOnly, stream, loop, receiver, remote
  <2>2. CASE Take
    BY <2>2 DEF Take, Typed, Places, InRecv, Flushed
  <2>3. CASE AssignLoop \/ StartLoop \/ StopLoop \/ ClientLeaves
    <3>1. upc = "using" => client_open
      BY DEF Typed, Places
    <3> QED BY <1>1, <2>3, <3>1 DEF AssignLoop, StartLoop, StopLoop, ClientLeaves, stream,
               loop, receiver, remote
  <2>4. CASE CloseAtOnce("user") \/ BeginClose("user") \/ EndClose("user")
    BY <1>1, <2>4 DEF CloseAtOnce, BeginClose, EndClose, GotoOf, loop, remote
  <2> QED BY <1>4, <2>1, <2>2, <2>3, <2>4, FlushFlushed, ReadFlushed DEF UserStep
<1>5. CASE LoopStep \/ UNCHANGED vars
  BY <1>1, <1>5 DEF LoopStep, Readable, LoopRecv, Finish, vars, stream, loop, receiver, user,
     remote
<1> QED BY <1>2, <1>3, <1>4, <1>5 DEF Next

(***************************************************************************)
(* The user reads the cells in their order, each once; one he reads past is *)
(* still in the buffer (recv, create_socket, _append, TorSocketLoop).       *)
(***************************************************************************)
THEOREM CellsAreReadInOrder == Spec => []ReadInOrder
<1>1. Typed /\ Reading /\ Flushed => ReadInOrder
  <2> SUFFICES ASSUME Typed, Reading, Flushed PROVE ReadInOrder
    OBVIOUS
  <2>1. ASSUME got # <<>> PROVE Len(got) \in 1..Len(got)
    <3>1. got \in Seq(1..Last)
      BY DEF Typed, TypeOK
    <3> QED BY <2>1, <3>1
  <2>2. \A i \in 2..Len(got) : i - 1 \in 1..Len(got) /\ i \in 1..Len(got) /\ i - 1 < i
    BY CameIs
  <2>3. CASE mode = "recv"
    <3>1. \A i \in 1..Len(got) : got[i] = i
      BY <2>3 DEF Reading, Contiguous
    <3>2. got # <<>> => \A n \in 1..got[Len(got)] : \E i \in 1..Len(got) : got[i] = n
      BY <2>1, <3>1
    <3>3. \A i \in 2..Len(got) : got[i - 1] < got[i]
      BY <2>2, <3>1
    <3> QED BY <3>2, <3>3 DEF ReadInOrder
  <2>4. CASE mode # "recv"
    <3>1. \A i \in 2..Len(got) : got[i - 1] < got[i]
      BY <2>2, <2>4 DEF Flushed, Ordered, Increases
    <3>2. got # <<>> => \A n \in 1..got[Len(got)] : Holds(got, n) \/ Holds(buffer, n)
      BY <2>1, <2>4 DEF Flushed, NoGap
    <3> QED BY <2>4, <3>1, <3>2 DEF ReadInOrder, Holds
  <2> QED BY <2>3, <2>4
<1> QED BY <1>1, AlwaysTyped, ReadingInit, ReadingKept, FlushedInit, FlushedKept, PTL DEF Spec

=============================================================================
