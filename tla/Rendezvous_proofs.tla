------------------------- MODULE Rendezvous_proofs --------------------------
(***************************************************************************)
(* Theorems about Rendezvous, for any threads, sizes, attempts and faults.  *)
(***************************************************************************)
EXTENDS Rendezvous, FiniteSetTheorems, SequenceTheorems, TLAPS

(* BEGIN is the first the establisher sends, and its peer takes nothing     *)
(* else before it but a DESTROY, after which it takes nothing more.         *)
Opening ==
  /\ stream = "none" => /\ c \notin {"top", "select"}
                        /\ \A i \in 1..Len(wire["down"]) : wire["down"][i].kind = "GONE"
  /\ \A i \in 1..Len(wire["down"]) :
       /\ wire["down"][i].kind # "CONNECTED"
       /\ wire["down"][i].kind = "BEGIN" =>
            /\ c \notin {"top", "select"}
            /\ \A j \in 1..(i - 1) : wire["down"][j].kind = "GONE"

-----------------------------------------------------------------------------
(***************************************************************************)
(* Cells.                                                                   *)
(***************************************************************************)

LEMMA Quotient ==
  ASSUME NEW a \in Nat, NEW b \in Nat \ {0}
  PROVE  a \div b \in Nat /\ (a \div b) * b <= a /\ a < (a \div b) * b + b
OBVIOUS

(* How many cells a message takes. *)
LEMMA CellCount ==
  ASSUME NEW m \in Messages
  PROVE  /\ m.size \in Nat \ {0}
         /\ (m.size + CellSize - 1) \div CellSize \in Nat
<1>1. m.size \in Nat \ {0} /\ CellSize \in Nat \ {0}
  <2>1. m.size \in Sizes \/ m.size = 2
    BY DEF Messages
  <2>2. Sizes \subseteq Nat \ {0} /\ CellSize \in Nat \ {0}
    BY RendezvousAssumption
  <2>3. \A x \in Sizes : x \in Nat /\ x # 0
    BY <2>2
  <2>4. CASE m.size \in Sizes
    BY <2>2, <2>3, <2>4
  <2>5. CASE m.size = 2
    BY <2>2, <2>5
  <2> QED BY <2>1, <2>4, <2>5
<1>2. m.size + CellSize - 1 \in Nat
  BY <1>1
<1> QED BY <1>1, <1>2, Quotient

LEMMA FunctionIsSeq ==
  ASSUME NEW S, NEW n \in Int, NEW f \in [1..n -> S]
  PROVE  f \in Seq(S)
<1>1. CASE n \in Nat
  BY <1>1
<1>2. CASE n \notin Nat
  <2>1. 1..n = 1..0
    BY <1>2
  <2>2. f \in [1..0 -> S]
    BY <2>1
  <2> QED BY <2>2
<1> QED BY <1>1, <1>2

LEMMA CellsTyped ==
  ASSUME NEW m \in Messages, NEW first \in Nat
  PROVE  /\ Cells("DATA", m, first) \in Seq(CellsOfAnyKind)
         /\ Len(Cells("DATA", m, first)) \in Nat
         /\ \A i \in 1..Len(Cells("DATA", m, first)) : Cells("DATA", m, first)[i].kind = "DATA"
<1> DEFINE n == (m.size + CellSize - 1) \div CellSize
           cut(i) == [j \in 1..(IF i < n THEN CellSize ELSE m.size - (n - 1) * CellSize) |->
                        <<m, (i - 1) * CellSize + j>>]
           cell(i) == [kind |-> "DATA", peer |-> first + i - 1, whole |-> TRUE, msg |-> m,
                       bytes |-> cut(i)]
<1>1. n \in Nat /\ m.size \in Nat \ {0} /\ CellSize \in Nat \ {0}
  BY CellCount, RendezvousAssumption
<1>2. Cells("DATA", m, first) = [i \in 1..n |-> cell(i)]
  BY DEF Cells
<1> HIDE DEF n
<1>3. ASSUME NEW i \in 1..n PROVE cell(i) \in CellsOfAnyKind
  <2> DEFINE k == IF i < n THEN CellSize ELSE m.size - (n - 1) * CellSize
  <2>1. k \in Int
    BY <1>1
  <2>2. (i - 1) * CellSize \in Nat
    BY <1>1
  <2> DEFINE at == (i - 1) * CellSize
  <2> HIDE DEF at
  <2>3. \A j \in 1..k : <<m, at + j>> \in Messages \X Nat
    BY <2>1, <2>2 DEF at
  <2> HIDE DEF k
  <2>4. [j \in 1..k |-> <<m, at + j>>] \in Seq(Messages \X Nat)
    <3>1. [j \in 1..k |-> <<m, at + j>>] \in [1..k -> Messages \X Nat]
      BY <2>3
    <3> QED BY <2>1, <3>1, FunctionIsSeq
  <2>5. cut(i) \in Seq(Messages \X Nat)
    BY <2>4 DEF k, at
  <2> HIDE DEF cut
  <2>6. first + i - 1 \in Nat
    BY <1>1
  <2> QED BY <2>5, <2>6 DEF CellsOfAnyKind
<1>4. \A i \in 1..n : cell(i).kind = "DATA"
  OBVIOUS
<1> HIDE DEF cell
<1>5. [i \in 1..n |-> cell(i)] \in Seq(CellsOfAnyKind) /\ Len([i \in 1..n |-> cell(i)]) = n
  BY <1>1, <1>3
<1> QED BY <1>1, <1>2, <1>4, <1>5

LEMMA ControlTyped ==
  ASSUME NEW kind \in {"BEGIN", "CONNECTED", "END"}, NEW peer \in Nat
  PROVE  /\ <<Control(kind, peer)>> \in Seq(CellsOfAnyKind) /\ Len(<<Control(kind, peer)>>) = 1
         /\ Control(kind, peer).kind = kind
BY DEF Control, CellsOfAnyKind

(* The cells on a wire, one fewer and some more. *)
LEMMA PopTyped ==
  ASSUME TypeOK, NEW d \in Dirs, wire[d] # <<>>
  PROVE  /\ Head(wire[d]) \in CellsOfAnyKind /\ Tail(wire[d]) \in Seq(CellsOfAnyKind)
         /\ Len(wire[d]) \in Nat /\ Len(wire[d]) >= 1 /\ Len(Tail(wire[d])) = Len(wire[d]) - 1
         /\ Head(wire[d]) = wire[d][1]
         /\ \A i \in 1..Len(Tail(wire[d])) : Tail(wire[d])[i] = wire[d][i + 1]
<1>1. wire[d] \in Seq(CellsOfAnyKind)
  BY DEF TypeOK
<1> QED BY <1>1, HeadTailProperties

LEMMA DestroyTyped == Destroy \in CellsOfAnyKind /\ Destroy.kind = "GONE"
BY DEF CellsOfAnyKind, Destroy

LEMMA EndingTyped ==
  ASSUME NEW last \in {Destroy, Closed} PROVE last \in CellsOfAnyKind /\ last.kind = "GONE"
<1>1. Destroy \in CellsOfAnyKind /\ Closed \in CellsOfAnyKind
  BY DEF CellsOfAnyKind
<1>2. Destroy.kind = "GONE" /\ Closed.kind = "GONE"
  BY DEF Destroy, Closed
<1> QED BY <1>1, <1>2

(* When the point goes, each direction gets its end and nothing else changes. *)
LEMMA BreakWire ==
  ASSUME TypeOK, Break, NEW d \in Dirs
  PROVE  \E last \in {Destroy, Closed} : /\ wire'[d] = Append(wire[d], last)
                                        /\ wire'[d] = wire[d] \o <<last>>
<1>1. PICK lasts \in [Dirs -> {Destroy, Closed}] :
        wire' = [x \in Dirs |-> Append(wire[x], lasts[x])]
  BY DEF Break
<1>2. lasts[d] \in {Destroy, Closed} /\ wire'[d] = Append(wire[d], lasts[d])
  BY <1>1
<1>3. lasts[d] \in CellsOfAnyKind /\ wire[d] \in Seq(CellsOfAnyKind)
  BY <1>2, EndingTyped DEF TypeOK
<1>4. wire'[d] = wire[d] \o <<lasts[d]>>
  BY <1>2, <1>3, AppendIsConcat
<1> QED BY <1>2, <1>4

LEMMA DataCell ==
  ASSUME NEW cell \in CellsOfAnyKind
  PROVE  /\ cell.kind \in {"BEGIN", "CONNECTED", "END", "DATA", "GONE"}
         /\ cell.kind \in {"BEGIN", "CONNECTED", "END"} => cell.whole
         /\ cell.kind = "DATA" => /\ cell.bytes \in Seq(Messages \X Nat) /\ cell.peer \in Nat
                                 /\ cell.whole \in BOOLEAN
<1>1. CASE cell \in [kind : {"BEGIN", "CONNECTED", "END"}, peer : Nat, whole : {TRUE}]
  BY <1>1
<1>2. CASE cell \in {Destroy, Closed}
  BY <1>2 DEF Destroy, Closed
<1>3. CASE cell \in [kind : {"DATA"}, peer : Nat, whole : BOOLEAN, msg : Messages,
                     bytes : Seq(Messages \X Nat)]
  BY <1>3
<1> QED BY <1>1, <1>2, <1>3 DEF CellsOfAnyKind

-----------------------------------------------------------------------------
(***************************************************************************)
(* Types.                                                                   *)
(***************************************************************************)

LEMMA TypeInit == Init => TypeOK
BY RendezvousAssumption DEF Init, TypeOK, Dirs, Sending

LEMMA FaultTyped ==
  ASSUME TypeOK, UNCHANGED faults \/ Fault PROVE faults' \in 0..MaxFaults
BY RendezvousAssumption DEF Fault, TypeOK

LEMMA SentTyped ==
  ASSUME TypeOK, NEW d \in Dirs, NEW m \in Messages, Sent(d, m)
  PROVE  sent' \in [Dirs -> Seq(Messages)]
<1>1. Append(sent[d], m) \in Seq(Messages)
  BY DEF TypeOK
<1> QED BY <1>1 DEF Sent, TypeOK

LEMMA HelloTyped ==
  ASSUME NEW d \in Dirs PROVE Hello(d) \in Messages
BY DEF Hello, Messages

LEMMA HandleTyped ==
  ASSUME TypeOK, NEW d \in Dirs, NEW bytes \in Seq(Messages \X Nat), Handle(d, bytes)
  PROVE  /\ handled' \in [Dirs -> Seq(Messages)]
         /\ \A x \in Dirs \ {d} : handled'[x] = handled[x]
         /\ trouble' \in [Dirs -> BOOLEAN]
<1> DEFINE taken == IF Loads(bytes) = {} THEN <<>> ELSE <<CHOOSE m \in Loads(bytes) : TRUE>>
<1>1. taken \in Seq(Messages)
  <2>1. \A i \in 1..Len(bytes) : bytes[i][1] \in Messages
    <3>1. \A i \in 1..Len(bytes) : bytes[i] \in Messages \X Nat
      OBVIOUS
    <3> QED BY <3>1
  <2>2. Loads(bytes) \subseteq Messages
    BY <2>1 DEF Loads
  <2>3. CASE Loads(bytes) = {}
    BY <2>3
  <2>4. CASE Loads(bytes) # {}
    <3>1. (CHOOSE m \in Loads(bytes) : TRUE) \in Loads(bytes)
      BY <2>4
    <3> QED BY <2>2, <2>4, <3>1
  <2> QED BY <2>3, <2>4
<1>2. handled' = [handled EXCEPT ![d] = handled[d] \o taken]
  BY DEF Handle
<1> HIDE DEF taken
<1>3. handled[d] \o taken \in Seq(Messages)
  BY <1>1 DEF TypeOK
<1>4. trouble' \in [Dirs -> BOOLEAN]
  BY DEF Handle, TypeOK
<1> QED BY <1>2, <1>3, <1>4 DEF TypeOK

(* A layer steps, or the cell is lost to another. *)
LEMMA DecryptTyped ==
  ASSUME TypeOK, NEW d \in Dirs, NEW readable \in BOOLEAN, Decrypt(d, readable)
  PROVE  /\ dec' \in [Dirs -> Nat] /\ lost' \in [Dirs -> Nat]
         /\ dec'[d] + lost'[d] = dec[d] + lost[d] + 1
         /\ \A x \in Dirs \ {d} : dec'[x] = dec[x] /\ lost'[x] = lost[x]
         /\ trouble' \in [Dirs -> BOOLEAN] /\ faults' \in 0..MaxFaults
<1>1. dec \in [Dirs -> Nat] /\ lost \in [Dirs -> Nat]
  BY DEF TypeOK
<1>2. CASE dec' = [dec EXCEPT ![d] = @ + 1] /\ UNCHANGED <<lost, trouble, faults>>
  <2>1. dec' \in [Dirs -> Nat] /\ dec'[d] = dec[d] + 1
        /\ \A x \in Dirs \ {d} : dec'[x] = dec[x]
    BY <1>1, <1>2
  <2>2. dec[d] \in Nat /\ lost[d] \in Nat
    BY <1>1
  <2>3. dec'[d] + lost'[d] = dec[d] + lost[d] + 1
    BY <1>2, <2>1, <2>2
  <2> QED BY <1>1, <1>2, <2>1, <2>3 DEF TypeOK
<1>3. CASE Fault /\ lost' = [lost EXCEPT ![d] = @ + 1] /\ Trouble(d) /\ UNCHANGED dec
  <2>1. trouble' \in [Dirs -> BOOLEAN]
    BY <1>3 DEF Trouble, TypeOK
  <2>2. faults' \in 0..MaxFaults
    BY <1>3, FaultTyped
  <2>3. lost' \in [Dirs -> Nat] /\ lost'[d] = lost[d] + 1
        /\ \A x \in Dirs \ {d} : lost'[x] = lost[x]
    BY <1>1, <1>3
  <2>4. dec[d] \in Nat /\ lost[d] \in Nat
    BY <1>1
  <2>5. dec'[d] + lost'[d] = dec[d] + lost[d] + 1
    BY <1>3, <2>3, <2>4
  <2> QED BY <1>1, <1>3, <2>1, <2>2, <2>3, <2>5
<1> QED BY <1>2, <1>3 DEF Decrypt

LEMMA DownTyped ==
  ASSUME TypeOK, NEW cells \in Seq(CellsOfAnyKind), Down(cells)
  PROVE  /\ wire' \in [Dirs -> Seq(CellsOfAnyKind)] /\ enc' \in [Dirs -> Nat]
         /\ wire'["down"] = wire["down"] \o cells /\ wire'["up"] = wire["up"]
         /\ enc'["down"] = enc["down"] + Len(cells) /\ enc'["up"] = enc["up"]
<1>1. "down" \in Dirs /\ "up" \in Dirs \ {"down"}
  BY DEF Dirs
<1>2. wire["down"] \o cells \in Seq(CellsOfAnyKind) /\ Len(cells) \in Nat
  BY <1>1 DEF TypeOK
<1>3. wire \in [Dirs -> Seq(CellsOfAnyKind)] /\ enc \in [Dirs -> Nat]
  BY DEF TypeOK
<1>4. wire' = [wire EXCEPT !["down"] = wire["down"] \o cells]
      /\ enc' = [enc EXCEPT !["down"] = enc["down"] + Len(cells)]
  BY DEF Down
<1>5. wire' \in [Dirs -> Seq(CellsOfAnyKind)] /\ wire'["down"] = wire["down"] \o cells
      /\ wire'["up"] = wire["up"]
  BY <1>1, <1>2, <1>3, <1>4
<1>6. enc' \in [Dirs -> Nat] /\ enc'["down"] = enc["down"] + Len(cells) /\ enc'["up"] = enc["up"]
  BY <1>1, <1>2, <1>3, <1>4
<1> QED BY <1>5, <1>6

LEMMA UpTyped ==
  ASSUME TypeOK, NEW cells \in Seq(CellsOfAnyKind), wire["down"] # <<>>, Up(cells)
  PROVE  /\ wire' \in [Dirs -> Seq(CellsOfAnyKind)] /\ enc' \in [Dirs -> Nat]
         /\ wire'["up"] = wire["up"] \o cells /\ wire'["down"] = Tail(wire["down"])
         /\ enc'["up"] = enc["up"] + Len(cells) /\ enc'["down"] = enc["down"]
         /\ link' \in Nat /\ strip' \in Nat
<1>1. "up" \in Dirs /\ "down" \in Dirs \ {"up"}
  BY DEF Dirs
<1>2. wire["up"] \o cells \in Seq(CellsOfAnyKind) /\ Len(cells) \in Nat
  BY <1>1 DEF TypeOK
<1>3. Tail(wire["down"]) \in Seq(CellsOfAnyKind)
  BY <1>1, PopTyped
<1>4. wire \in [Dirs -> Seq(CellsOfAnyKind)] /\ enc \in [Dirs -> Nat]
  BY DEF TypeOK
<1>5. wire' = [wire EXCEPT !["up"] = wire["up"] \o cells, !["down"] = Tail(wire["down"])]
      /\ enc' = [enc EXCEPT !["up"] = enc["up"] + Len(cells)]
  BY DEF Up
<1>6. wire' \in [Dirs -> Seq(CellsOfAnyKind)] /\ wire'["up"] = wire["up"] \o cells
      /\ wire'["down"] = Tail(wire["down"])
  BY <1>1, <1>2, <1>3, <1>4, <1>5
<1>7. enc' \in [Dirs -> Nat] /\ enc'["up"] = enc["up"] + Len(cells)
      /\ enc'["down"] = enc["down"]
  <2> DEFINE more == enc["up"] + Len(cells)
  <2>1. enc' = [enc EXCEPT !["up"] = more]
    BY <1>5
  <2>2. more \in Nat
    BY <1>1, <1>2, <1>4
  <2> HIDE DEF more
  <2>3. enc' \in [Dirs -> Nat] /\ enc'["up"] = more /\ enc'["down"] = enc["down"]
    BY <1>1, <1>4, <2>1, <2>2
  <2> QED BY <2>3 DEF more
<1>8. link' \in Nat /\ strip' \in Nat
  BY <1>2 DEF Up, TypeOK
<1> QED BY <1>6, <1>7, <1>8

LEMMA PoppedTyped ==
  ASSUME TypeOK, NEW d \in Dirs, wire[d] # <<>>, Pop(d)
  PROVE  /\ wire' \in [Dirs -> Seq(CellsOfAnyKind)] /\ wire'[d] = Tail(wire[d])
         /\ \A x \in Dirs \ {d} : wire'[x] = wire[x]
<1>1. Tail(wire[d]) \in Seq(CellsOfAnyKind)
  BY PopTyped
<1>2. wire \in [Dirs -> Seq(CellsOfAnyKind)] /\ wire' = [wire EXCEPT ![d] = Tail(wire[d])]
  BY DEF Pop, TypeOK
<1> QED BY <1>1, <1>2

LEMMA CellsAssociate ==
  ASSUME NEW a \in Seq(CellsOfAnyKind), NEW b \in Seq(CellsOfAnyKind),
         NEW last \in Seq(CellsOfAnyKind)
  PROVE  a \o b \o last = a \o (b \o last)
<1> DEFINE S == CellsOfAnyKind
<1> HIDE DEF S
<1>1. \A x, y, z \in Seq(S) : (x \o y) \o z = x \o (y \o z)
  BY ConcatAssociative
<1> QED BY <1>1 DEF S

LEMMA CloseTyped ==
  ASSUME TypeOK, NEW newE, CloseAll(newE)
  PROVE  /\ wire' \in [Dirs -> Seq(CellsOfAnyKind)] /\ enc' \in [Dirs -> Nat]
         /\ e' = newE /\ stream' = "closed" /\ point' = "closed"
         /\ wire'["up"] = wire["up"]
         /\ \E cells \in Seq(CellsOfAnyKind) :
              /\ wire'["down"] = wire["down"] \o cells
              /\ \A i \in 1..Len(cells) :
                   \/ cells[i].kind = "GONE"
                   \/ cells[i].kind = "END" /\ cells[i].peer = enc["down"] /\ i = 1
              /\ point # "joined" => cells = <<>>
              /\ point = "joined" => \E i \in 1..Len(cells) : cells[i].kind = "GONE"
<1> DEFINE end == IF stream = "connected" THEN <<Control("END", enc["down"])>> ELSE <<>>
<1>1. "down" \in Dirs /\ enc["down"] \in Nat /\ wire["down"] \in Seq(CellsOfAnyKind)
  BY DEF TypeOK, Dirs
<1>2. end \in Seq(CellsOfAnyKind) /\ Len(end) \in Nat
  BY <1>1, ControlTyped
<1>3. <<Destroy>> \in Seq(CellsOfAnyKind)
  BY DestroyTyped
<1>4. /\ enc' = [enc EXCEPT !["down"] = @ + Len(end)]
      /\ wire' = [wire EXCEPT !["down"] = IF point = "joined" THEN @ \o end \o <<Destroy>> ELSE @]
      /\ e' = newE /\ stream' = "closed" /\ point' = "closed"
  BY DEF CloseAll
<1> HIDE DEF end
<1> DEFINE cells == IF point = "joined" THEN end \o <<Destroy>> ELSE <<>>
<1>5. /\ cells \in Seq(CellsOfAnyKind)
      /\ \A i \in 1..Len(cells) : \/ cells[i].kind = "GONE"
                                  \/ cells[i].kind = "END" /\ cells[i].peer = enc["down"] /\ i = 1
      /\ point # "joined" => cells = <<>>
      /\ point = "joined" => \E i \in 1..Len(cells) : cells[i].kind = "GONE"
  <2>1. \A i \in 1..Len(end) : end[i].kind = "END" /\ end[i].peer = enc["down"] /\ i = 1
    BY <1>1, ControlTyped DEF end, Control
  <2>2. CASE point = "joined"
    <3>1. end \o <<Destroy>> \in Seq(CellsOfAnyKind)
      BY <1>2, <1>3
    <3>2. /\ Len(end \o <<Destroy>>) = Len(end) + 1
          /\ (end \o <<Destroy>>)[Len(end) + 1] = Destroy
          /\ \A i \in 1..Len(end) : (end \o <<Destroy>>)[i] = end[i]
      BY <1>2, DestroyTyped
    <3>3. \A i \in 1..(Len(end) + 1) : i \in 1..Len(end) \/ i = Len(end) + 1
      BY <1>2
    <3> QED BY <2>1, <2>2, <3>1, <3>2, <3>3, DestroyTyped
  <2>3. CASE point # "joined"
    BY <2>3
  <2> QED BY <2>2, <2>3
<1>6. wire' = [wire EXCEPT !["down"] = wire["down"] \o cells]
  <2>1. CASE point = "joined"
    <3>1. wire["down"] \o end \o <<Destroy>> = wire["down"] \o (end \o <<Destroy>>)
      <4> DEFINE last == <<Destroy>>
      <4> HIDE DEF last
      <4>1. last \in Seq(CellsOfAnyKind)
        BY <1>3 DEF last
      <4>2. wire["down"] \o end \o last = wire["down"] \o (end \o last)
        BY <1>1, <1>2, <4>1, CellsAssociate
      <4> QED BY <4>2 DEF last
    <3> QED BY <1>4, <2>1, <3>1
  <2>2. CASE point # "joined"
    <3>1. wire["down"] \o <<>> = wire["down"]
      BY <1>1, ConcatEmptySeq
    <3> QED BY <1>4, <2>2, <3>1
  <2> QED BY <2>1, <2>2
<1> HIDE DEF cells
<1>7. wire["down"] \o cells \in Seq(CellsOfAnyKind)
  BY <1>1, <1>5
<1>8. wire \in [Dirs -> Seq(CellsOfAnyKind)] /\ "up" \in Dirs \ {"down"}
  BY DEF TypeOK, Dirs
<1>9. /\ wire' \in [Dirs -> Seq(CellsOfAnyKind)] /\ wire'["up"] = wire["up"]
      /\ wire'["down"] = wire["down"] \o cells
  BY <1>1, <1>6, <1>7, <1>8
<1>10. enc' \in [Dirs -> Nat]
  BY <1>1, <1>2, <1>4 DEF TypeOK
<1> QED BY <1>4, <1>5, <1>9, <1>10

LEMMA EstablisherTyped ==
  ASSUME TypeOK, EStep PROVE TypeOK'
<1> USE DEF est, con, layers, data
<1>1. ASSUME Establish \/ CreateWaiter \/ WaitFails PROVE TypeOK'
  <2>1. faults' \in 0..MaxFaults
    BY <1>1, FaultTyped DEF Establish, CreateWaiter, WaitFails
  <2>2. /\ e' \in {"acked", "wait", "died"} /\ point' \in {point, "waiting"}
        /\ UNCHANGED <<rend2, stream, buffer, con, threads, wire, layers, data, trouble>>
    BY <1>1 DEF Establish, CreateWaiter, WaitFails
  <2> QED BY <2>1, <2>2 DEF TypeOK
<1>2. ASSUME Begin PROVE TypeOK'
  <2>1. enc["down"] \in Nat
    BY DEF TypeOK, Dirs
  <2>2. wire' \in [Dirs -> Seq(CellsOfAnyKind)] /\ enc' \in [Dirs -> Nat]
    BY <1>2, <2>1, ControlTyped, DownTyped DEF Begin
  <2>3. /\ e' = "opening" /\ stream' = "connecting"
        /\ UNCHANGED <<rend2, buffer, con, threads, point, dec, link, strip, lost, data, trouble,
                       faults>>
    BY <1>2 DEF Begin
  <2> QED BY <2>2, <2>3 DEF TypeOK
<1>3. ASSUME Connected PROVE TypeOK'
  <2>1. enc["down"] \in Nat /\ "down" \in Dirs
    BY DEF TypeOK, Dirs
  <2>2. wire' \in [Dirs -> Seq(CellsOfAnyKind)] /\ enc' \in [Dirs -> Nat]
    BY <1>3, <2>1, HelloTyped, CellsTyped, DownTyped DEF Connected
  <2>3. sent' \in [Dirs -> Seq(Messages)]
    BY <1>3, <2>1, HelloTyped, SentTyped DEF Connected
  <2>4. /\ e' = "loop"
        /\ UNCHANGED <<rend2, stream, buffer, con, threads, point, dec, link, strip, lost,
                       snd, left, handled, trouble, faults>>
    BY <1>3 DEF Connected
  <2> QED BY <2>2, <2>3, <2>4 DEF TypeOK
<1>4. ASSUME ConnectTimeout PROVE TypeOK'
  <2>1. CloseAll("died")
    BY <1>4 DEF ConnectTimeout
  <2>2. UNCHANGED <<rend2, buffer, con, threads, dec, link, strip, lost, data, trouble, faults>>
    BY <1>4 DEF ConnectTimeout
  <2> QED BY <2>1, <2>2, CloseTyped DEF TypeOK
<1>5. ASSUME Recv PROVE TypeOK'
  <2> DEFINE n == IF Len(buffer) < ReadSize THEN Len(buffer) ELSE ReadSize
  <2>1. buffer \in Seq(Messages \X Nat) /\ n \in Nat /\ n <= Len(buffer)
    BY RendezvousAssumption DEF TypeOK
  <2>2. /\ Handle("up", SubSeq(buffer, 1, n)) /\ buffer' = SubSeq(buffer, n + 1, Len(buffer))
        /\ UNCHANGED <<e, rend2, stream, con, threads, point, wire, layers, snd, left, sent,
                       faults>>
    BY <1>5 DEF Recv
  <2> HIDE DEF n
  <2>3. /\ SubSeq(buffer, 1, n) \in Seq(Messages \X Nat)
        /\ SubSeq(buffer, n + 1, Len(buffer)) \in Seq(Messages \X Nat)
    BY <2>1
  <2>4. "up" \in Dirs
    BY DEF Dirs
  <2>5. handled' \in [Dirs -> Seq(Messages)] /\ trouble' \in [Dirs -> BOOLEAN]
    BY <2>2, <2>3, <2>4, HandleTyped
  <2> QED BY <2>2, <2>3, <2>5 DEF TypeOK
<1>6. ASSUME RecvRaises PROVE TypeOK'
  <2>1. /\ e' = "ended" /\ threads' \subseteq threads
        /\ wire' \in [Dirs -> Seq(CellsOfAnyKind)] /\ enc' \in [Dirs -> Nat]
        /\ stream' = "closed" /\ point' \in {point, "closed"}
    <3>1. CASE stream = "closed"
      BY <1>6, <3>1 DEF RecvRaises, TypeOK
    <3>2. CASE stream # "closed"
      BY <1>6, <3>2, CloseTyped DEF RecvRaises
    <3> QED BY <3>1, <3>2
  <2>2. UNCHANGED <<rend2, buffer, con, dec, link, strip, lost, data, trouble, faults>>
    BY <1>6 DEF RecvRaises
  <2> QED BY <2>1, <2>2 DEF TypeOK
<1> QED BY <1>1, <1>2, <1>3, <1>4, <1>5, <1>6 DEF EStep

LEMMA GuardTyped ==
  ASSUME TypeOK, Guard PROVE TypeOK'
<1> USE DEF est, con, layers, data
<1>1. ASSUME Rendezvous2 PROVE TypeOK'
  BY <1>1 DEF Rendezvous2, TypeOK
<1>2. ASSUME TakeUp PROVE TypeOK'
  <2> DEFINE cell == Head(wire["up"])
  <2>1. "up" \in Dirs /\ wire["up"] # <<>> /\ Pop("up") /\ cell \in CellsOfAnyKind
    BY <1>2, PopTyped DEF TakeUp, Dirs
  <2>2. wire' \in [Dirs -> Seq(CellsOfAnyKind)]
    BY <2>1, PoppedTyped
  <2>3. /\ dec' \in [Dirs -> Nat] /\ lost' \in [Dirs -> Nat]
        /\ trouble' \in [Dirs -> BOOLEAN] /\ faults' \in 0..MaxFaults
    <3>1. CASE UNCHANGED <<dec, lost, trouble, faults>>
      BY <3>1 DEF TypeOK
    <3>2. CASE \E readable \in BOOLEAN : Decrypt("up", readable)
      BY <2>1, <3>2, DecryptTyped
    <3> QED BY <1>2, <3>1, <3>2 DEF TakeUp
  <2>4. stream' \in {stream, "closed", "connected"}
    BY <1>2 DEF TakeUp
  <2>5. buffer' \in Seq(Messages \X Nat)
    <3>1. CASE buffer' = buffer
      BY <3>1 DEF TypeOK
    <3>2. CASE cell.kind = "DATA" /\ buffer' = buffer \o cell.bytes
      <4>1. cell.bytes \in Seq(Messages \X Nat)
        BY <2>1, <3>2, DataCell
      <4> QED BY <3>2, <4>1 DEF TypeOK
    <3> QED BY <1>2, <3>1, <3>2 DEF TakeUp
  <2>6. UNCHANGED <<e, rend2, con, threads, point, enc, link, strip, data>>
    BY <1>2 DEF TakeUp
  <2> QED BY <2>2, <2>3, <2>4, <2>5, <2>6 DEF TypeOK
<1> QED BY <1>1, <1>2 DEF Guard

LEMMA RetryTyped ==
  ASSUME TypeOK, Retry
  PROVE  c' \in {"connect", "gone"} /\ attempts' \in 0..Attempts /\ threads' \subseteq {"e", "c"}
<1>1. CASE attempts = 0
  BY <1>1 DEF Retry, TypeOK
<1>2. CASE attempts # 0
  <2>1. attempts \in 0..Attempts /\ Attempts \in Nat
    BY RendezvousAssumption DEF TypeOK
  <2>2. attempts' = attempts - 1 /\ c' = "connect" /\ UNCHANGED threads
    BY <1>2 DEF Retry
  <2>3. attempts' \in 0..Attempts
    BY <1>2, <2>1, <2>2
  <2> QED BY <2>2, <2>3 DEF TypeOK
<1> QED BY <1>1, <1>2

LEMMA EndLoopTyped ==
  ASSUME TypeOK, EndLoop
  PROVE  /\ c' = "ended" /\ threads' \subseteq {"e", "c"} /\ link' \in Nat /\ strip' \in Nat
         /\ trouble' \in [Dirs -> BOOLEAN]
BY DEF EndLoop, TypeOK, Dirs

LEMMA ConnectorTyped ==
  ASSUME TypeOK, Opening, CStep \/ Die PROVE TypeOK'
<1> USE DEF est, con, layers, data
<1>1. ASSUME ConnectToPoint PROVE TypeOK'
  <2>1. /\ c' \in {"wait", "connect", "gone"} /\ attempts' \in 0..Attempts
        /\ threads' \subseteq {"e", "c"}
    BY <1>1, RetryTyped DEF ConnectToPoint, TypeOK
  <2>2. /\ point' \in {point, "joined"} /\ rend2' \in {rend2, "sent"} /\ link' \in {link, 1}
        /\ strip' \in {strip, 1}
        /\ UNCHANGED <<e, stream, buffer, wire, enc, dec, lost, data, trouble>>
    BY <1>1 DEF ConnectToPoint
  <2>3. faults' \in 0..MaxFaults
    BY <1>1, FaultTyped DEF ConnectToPoint
  <2> QED BY <2>1, <2>2, <2>3 DEF TypeOK
<1>2. ASSUME TakeBegin PROVE TypeOK'
  <2> DEFINE hello == Cells("DATA", Hello("up"), enc["up"] + 1)
             control == <<Control("CONNECTED", enc["up"])>>
  <2>1. /\ "up" \in Dirs /\ "down" \in Dirs /\ enc["up"] \in Nat /\ enc["up"] + 1 \in Nat
        /\ wire["down"] # <<>>
    <3>1. wire["down"] # <<>>
      BY <1>2 DEF TakeBegin
    <3>2. "up" \in Dirs /\ "down" \in Dirs
      BY DEF Dirs
    <3>3. enc["up"] \in Nat
      BY <3>2 DEF TypeOK
    <3> QED BY <3>1, <3>2, <3>3
  <2>2. UNCHANGED <<est, point, snd, left, handled>>
    BY <1>2 DEF TakeBegin
  <2>3. CASE /\ Pop("down") /\ Retry
             /\ UNCHANGED <<enc, dec, link, strip, lost, sent, trouble, faults>>
    <3>1. wire' \in [Dirs -> Seq(CellsOfAnyKind)]
      BY <2>1, <2>3, PoppedTyped
    <3> QED BY <2>2, <2>3, <3>1, RetryTyped DEF TypeOK
  <2>4. ASSUME NEW readable \in BOOLEAN, Decrypt("down", readable), UNCHANGED <<attempts, threads>>,
               \/ Up(control \o hello) /\ Sent("up", Hello("up")) /\ c' = "top"
               \/ Pop("down") /\ c' = "died" /\ UNCHANGED <<enc, link, strip, sent>>
        PROVE  TypeOK'
    <3>1. /\ dec' \in [Dirs -> Nat] /\ lost' \in [Dirs -> Nat]
          /\ trouble' \in [Dirs -> BOOLEAN] /\ faults' \in 0..MaxFaults
      BY <2>1, <2>4, DecryptTyped
    <3>2. control \in Seq(CellsOfAnyKind) /\ hello \in Seq(CellsOfAnyKind)
      BY <2>1, ControlTyped, CellsTyped, HelloTyped
    <3> HIDE DEF control, hello
    <3>3. control \o hello \in Seq(CellsOfAnyKind)
      BY <3>2
    <3>4. CASE Up(control \o hello) /\ Sent("up", Hello("up")) /\ c' = "top"
      <4>1. /\ wire' \in [Dirs -> Seq(CellsOfAnyKind)] /\ enc' \in [Dirs -> Nat]
            /\ link' \in Nat /\ strip' \in Nat
        BY <2>1, <3>3, <3>4, UpTyped
      <4>2. sent' \in [Dirs -> Seq(Messages)]
        BY <2>1, <3>4, HelloTyped, SentTyped
      <4> QED BY <2>2, <2>4, <3>1, <3>4, <4>1, <4>2 DEF TypeOK
    <3>5. CASE Pop("down") /\ c' = "died" /\ UNCHANGED <<enc, link, strip, sent>>
      <4>1. wire' \in [Dirs -> Seq(CellsOfAnyKind)]
        BY <2>1, <3>5, PoppedTyped
      <4> QED BY <2>2, <2>4, <3>1, <3>5, <4>1 DEF TypeOK
    <3> QED BY <2>4, <3>4, <3>5
  <2> QED BY <1>2, <2>3, <2>4 DEF TakeBegin
<1>3. ASSUME Select PROVE TypeOK'
  BY <1>3 DEF Select, TypeOK
<1>4. ASSUME TakeDown PROVE TypeOK'
  <2> DEFINE cell == Head(wire["down"])
  <2>1. "down" \in Dirs /\ wire["down"] # <<>> /\ Pop("down") /\ cell \in CellsOfAnyKind
    BY <1>4, PopTyped DEF TakeDown, Dirs
  <2>2. wire' \in [Dirs -> Seq(CellsOfAnyKind)]
    BY <2>1, PoppedTyped
  <2>3. UNCHANGED <<est, attempts, point, enc, snd, left, sent>>
    BY <1>4 DEF TakeDown
  <2>4. CASE cell.kind = "GONE" /\ EndLoop /\ UNCHANGED <<dec, lost, handled, faults>>
    BY <2>2, <2>3, <2>4, EndLoopTyped DEF TypeOK
  <2>5. ASSUME NEW readable \in BOOLEAN, Decrypt("down", readable), c' = "top",
               UNCHANGED <<threads, link, strip, handled>>
        PROVE  TypeOK'
    <3>1. /\ dec' \in [Dirs -> Nat] /\ lost' \in [Dirs -> Nat]
          /\ trouble' \in [Dirs -> BOOLEAN] /\ faults' \in 0..MaxFaults
      BY <2>1, <2>5, DecryptTyped
    <3> QED BY <2>2, <2>3, <2>5, <3>1 DEF TypeOK
  <2>6. ASSUME dec' = [dec EXCEPT !["down"] = @ + 1], UNCHANGED <<lost, faults>>,
               \/ cell.kind = "END" /\ EndLoop /\ UNCHANGED handled
               \/ /\ cell.kind \notin {"END", "GONE"} /\ Handle("down", cell.bytes)
                  /\ c' = "top" /\ UNCHANGED <<threads, link, strip>>
        PROVE  TypeOK'
    <3>1. dec' \in [Dirs -> Nat]
      BY <2>1, <2>6 DEF TypeOK
    <3>2. CASE cell.kind = "END" /\ EndLoop /\ UNCHANGED handled
      <4>1. /\ e' \in {"start", "acked", "wait", "opening", "loop", "died", "ended"}
            /\ rend2' \in {"no", "sent", "got", "lost"}
            /\ stream' \in {"none", "connecting", "connected", "closed"}
            /\ buffer' \in Seq(Messages \X Nat) /\ attempts' \in 0..Attempts
            /\ point' \in {"none", "waiting", "joined", "closed"}
        BY <2>3 DEF TypeOK
      <4>2. /\ enc' \in [Dirs -> Nat] /\ snd' \in [Threads -> Sending]
            /\ left' \in [Dirs -> 0..Sends]
            /\ sent' \in [Dirs -> Seq(Messages)] /\ handled' \in [Dirs -> Seq(Messages)]
            /\ lost' \in [Dirs -> Nat] /\ faults' \in 0..MaxFaults
        BY <2>3, <2>6, <3>2 DEF TypeOK
      <4> QED BY <2>2, <3>1, <3>2, <4>1, <4>2, EndLoopTyped DEF TypeOK
    <3>3. CASE cell.kind = "DATA" /\ Handle("down", cell.bytes) /\ c' = "top"
               /\ UNCHANGED <<threads, link, strip>>
      <4>1. cell.bytes \in Seq(Messages \X Nat)
        BY <2>1, <3>3, DataCell
      <4>2. handled' \in [Dirs -> Seq(Messages)] /\ trouble' \in [Dirs -> BOOLEAN]
        BY <2>1, <3>3, <4>1, HandleTyped
      <4> QED BY <2>2, <2>3, <2>6, <3>1, <3>3, <4>2 DEF TypeOK
    <3>4. cell.kind \notin {"BEGIN", "CONNECTED"}
      <4>1. cell = wire["down"][1] /\ 1 \in 1..Len(wire["down"])
        BY <2>1, PopTyped
      <4> QED BY <1>4, <4>1 DEF TakeDown, Opening
    <3>5. cell.kind \in {"BEGIN", "CONNECTED", "END", "DATA", "GONE"}
      BY <2>1, DataCell
    <3> QED BY <2>6, <3>2, <3>3, <3>4, <3>5
  <2> QED BY <1>4, <2>4, <2>5, <2>6 DEF TakeDown
<1>5. ASSUME Die PROVE TypeOK'
  <2>1. faults' \in 0..MaxFaults /\ EndLoop
    BY <1>5, FaultTyped DEF Die
  <2>2. UNCHANGED <<est, attempts, point, wire, enc, dec, lost, data>>
    BY <1>5 DEF Die
  <2> QED BY <2>1, <2>2, EndLoopTyped DEF TypeOK
<1> QED BY <1>1, <1>2, <1>3, <1>4, <1>5 DEF CStep

LEMMA LeftTyped ==
  ASSUME TypeOK, NEW d \in Dirs, left[d] > 0 PROVE [left EXCEPT ![d] = @ - 1] \in [Dirs -> 0..Sends]
<1>1. left \in [Dirs -> 0..Sends] /\ Sends \in Nat
  BY RendezvousAssumption DEF TypeOK
<1>2. left[d] - 1 \in 0..Sends
  BY <1>1
<1> QED BY <1>1, <1>2

LEMMA SendersTyped ==
  ASSUME TypeOK,
         \/ \E u \in DownThreads : SendDown(u)
         \/ \E u \in Threads : EncryptPeer(u) \/ EncryptLink(u) \/ Put(u)
  PROVE  TypeOK'
<1> USE DEF est, con, layers, data
<1>0. "up" \in Dirs /\ "down" \in Dirs
  BY DEF Dirs
<1>1. ASSUME NEW u \in DownThreads, SendDown(u) PROVE TypeOK'
  <2>1. PICK size \in Sizes :
          LET m == Message(u, size, "down")
          IN /\ Down(Cells("DATA", m, enc["down"])) /\ Sent("down", m)
             /\ trouble' = [trouble EXCEPT !["down"] = @ \/ size > CellSize]
    BY <1>1 DEF SendDown
  <2>2. Message(u, size, "down") \in Messages
    BY <1>0 DEF Message, Messages
  <2>3. wire' \in [Dirs -> Seq(CellsOfAnyKind)] /\ enc' \in [Dirs -> Nat]
    BY <1>0, <2>1, <2>2, CellsTyped, DownTyped DEF TypeOK
  <2>4. sent' \in [Dirs -> Seq(Messages)]
    BY <1>0, <2>1, <2>2, SentTyped
  <2>5. trouble' \in [Dirs -> BOOLEAN]
    BY <2>1 DEF TypeOK
  <2>6. /\ left["down"] > 0 /\ left' = [left EXCEPT !["down"] = @ - 1]
        /\ UNCHANGED <<est, con, threads, point, dec, link, strip, lost, snd, handled, faults>>
    BY <1>1 DEF SendDown
  <2>7. left' \in [Dirs -> 0..Sends]
    BY <1>0, <2>6, LeftTyped
  <2>8. /\ e' \in {"start", "acked", "wait", "opening", "loop", "died", "ended"}
        /\ rend2' \in {"no", "sent", "got", "lost"}
        /\ stream' \in {"none", "connecting", "connected", "closed"}
        /\ c' \in {"connect", "wait", "top", "select", "died", "gone", "ended"}
        /\ attempts' \in 0..Attempts /\ point' \in {"none", "waiting", "joined", "closed"}
        /\ threads' \subseteq {"e", "c"} /\ buffer' \in Seq(Messages \X Nat)
    BY <2>6 DEF TypeOK
  <2>9. /\ dec' \in [Dirs -> Nat] /\ link' \in Nat /\ strip' \in Nat
        /\ lost' \in [Dirs -> Nat] /\ snd' \in [Threads -> Sending]
        /\ handled' \in [Dirs -> Seq(Messages)] /\ faults' \in 0..MaxFaults
    BY <2>6 DEF TypeOK
  <2> QED BY <2>3, <2>4, <2>5, <2>7, <2>8, <2>9 DEF TypeOK
<1>2. ASSUME NEW u \in Threads, EncryptPeer(u) PROVE TypeOK'
  <2>1. PICK size \in Sizes :
          IF size > CellSize THEN UNCHANGED <<snd, enc, sent, trouble>>
          ELSE /\ snd' = [snd EXCEPT ![u] = [pc |-> "peer", size |-> size, peer |-> enc["up"]]]
               /\ enc' = [enc EXCEPT !["up"] = @ + 1]
               /\ Sent("up", Message(u, size, "up"))
               /\ trouble' = [trouble EXCEPT !["up"] = @ \/ \E v \in Threads : snd[v].pc # "idle"]
    BY <1>2 DEF EncryptPeer
  <2>2. /\ left["up"] > 0 /\ left' = [left EXCEPT !["up"] = @ - 1]
        /\ UNCHANGED <<est, con, threads, point, wire, dec, link, strip, lost, handled, faults>>
    BY <1>2 DEF EncryptPeer
  <2>3. left' \in [Dirs -> 0..Sends]
    BY <1>0, <2>2, LeftTyped
  <2>4. CASE UNCHANGED <<snd, enc, sent, trouble>>
    <3>1. UNCHANGED <<e, rend2, stream, buffer, c, attempts, threads, point, wire, dec, link,
                      strip, lost, handled, faults, snd, enc, sent, trouble>>
      BY <2>2, <2>4
    <3> QED BY <2>3, <3>1 DEF TypeOK
  <2>5. CASE /\ snd' = [snd EXCEPT ![u] = [pc |-> "peer", size |-> size, peer |-> enc["up"]]]
             /\ enc' = [enc EXCEPT !["up"] = @ + 1]
             /\ Sent("up", Message(u, size, "up"))
             /\ trouble' = [trouble EXCEPT !["up"] = @ \/ \E v \in Threads : snd[v].pc # "idle"]
    <3>1. Message(u, size, "up") \in Messages
      BY <1>0 DEF Message, Messages
    <3>2. sent' \in [Dirs -> Seq(Messages)]
      BY <1>0, <2>5, <3>1, SentTyped
    <3>3. enc' \in [Dirs -> Nat] /\ enc["up"] \in Nat
      BY <1>0, <2>5 DEF TypeOK
    <3>4. trouble' \in [Dirs -> BOOLEAN]
      BY <2>5 DEF TypeOK
    <3>5. [pc |-> "peer", size |-> size, peer |-> enc["up"]] \in Sending
      BY <3>3 DEF Sending
    <3>6. snd' \in [Threads -> Sending]
      BY <2>5, <3>5 DEF TypeOK
    <3>7. UNCHANGED <<e, rend2, stream, buffer, c, attempts, threads, point, wire, dec, link,
                      strip, lost, handled, faults>>
      BY <2>2
    <3>8. /\ e' \in {"start", "acked", "wait", "opening", "loop", "died", "ended"}
          /\ rend2' \in {"no", "sent", "got", "lost"}
          /\ stream' \in {"none", "connecting", "connected", "closed"}
          /\ c' \in {"connect", "wait", "top", "select", "died", "gone", "ended"}
          /\ attempts' \in 0..Attempts /\ point' \in {"none", "waiting", "joined", "closed"}
          /\ threads' \subseteq {"e", "c"} /\ buffer' \in Seq(Messages \X Nat)
      BY <3>7 DEF TypeOK
    <3>9. /\ wire' \in [Dirs -> Seq(CellsOfAnyKind)] /\ dec' \in [Dirs -> Nat]
          /\ link' \in Nat /\ strip' \in Nat /\ lost' \in [Dirs -> Nat]
          /\ handled' \in [Dirs -> Seq(Messages)] /\ faults' \in 0..MaxFaults
      BY <3>7 DEF TypeOK
    <3> HIDE DEF est, con, layers, data
    <3> QED BY <2>3, <3>2, <3>3, <3>4, <3>6, <3>8, <3>9 DEF TypeOK
  <2> QED BY <2>1, <2>4, <2>5
<1>3. ASSUME NEW u \in Threads, EncryptLink(u) PROVE TypeOK'
  <2>1. /\ snd[u].pc = "peer" /\ link' = link + 1
        /\ snd' = [snd EXCEPT ![u] =
             [pc |-> "link", size |-> snd[u].size, peer |-> snd[u].peer, link |-> link]]
        /\ UNCHANGED <<est, con, threads, point, wire, enc, dec, strip, lost, left, sent, handled,
                       trouble, faults>>
    BY <1>3 DEF EncryptLink
  <2>2. snd[u].size \in Sizes /\ snd[u].peer \in Nat
    <3>1. snd[u] \in Sending
      BY DEF TypeOK
    <3> QED BY <2>1, <3>1 DEF Sending
  <2>3. [pc |-> "link", size |-> snd[u].size, peer |-> snd[u].peer, link |-> link] \in Sending
    BY <2>2 DEF Sending, TypeOK
  <2> QED BY <2>1, <2>3 DEF TypeOK
<1>4. ASSUME NEW u \in Threads, Put(u) PROVE TypeOK'
  <2> DEFINE m == Message(u, snd[u].size, "up")
             cell == [kind |-> "DATA", peer |-> snd[u].peer, whole |-> snd[u].link = strip,
                      msg |-> m, bytes |-> [i \in 1..m.size |-> <<m, i>>]]
  <2>1. /\ snd[u].pc = "link" /\ strip' = strip + 1
        /\ wire' = [wire EXCEPT !["up"] =
             IF point = "joined" THEN Append(wire["up"], cell) ELSE wire["up"]]
        /\ snd' = [snd EXCEPT ![u] = [pc |-> "idle"]]
        /\ UNCHANGED <<est, con, threads, point, enc, dec, link, lost, left, sent, handled,
                       trouble, faults>>
    BY <1>4 DEF Put
  <2>2. snd[u].size \in Sizes /\ snd[u].peer \in Nat
    <3>1. snd[u] \in Sending
      BY DEF TypeOK
    <3> QED BY <2>1, <3>1 DEF Sending
  <2>3. m \in Messages /\ m.size \in Nat
    BY <1>0, <2>2, RendezvousAssumption DEF Message, Messages
  <2> HIDE DEF m
  <2>4. [i \in 1..m.size |-> <<m, i>>] \in Seq(Messages \X Nat)
    <3>1. [i \in 1..m.size |-> <<m, i>>] \in [1..m.size -> Messages \X Nat]
      BY <2>3
    <3> QED BY <2>3, <3>1, FunctionIsSeq
  <2>5. cell \in CellsOfAnyKind
    BY <2>2, <2>3, <2>4 DEF CellsOfAnyKind
  <2> HIDE DEF cell
  <2>6. wire' \in [Dirs -> Seq(CellsOfAnyKind)]
    <3>1. Append(wire["up"], cell) \in Seq(CellsOfAnyKind)
      BY <1>0, <2>5 DEF TypeOK
    <3> QED BY <1>0, <2>1, <3>1 DEF TypeOK
  <2>7. snd' \in [Threads -> Sending]
    BY <2>1 DEF TypeOK, Sending
  <2> QED BY <2>1, <2>6, <2>7 DEF TypeOK
<1> QED BY <1>1, <1>2, <1>3, <1>4

LEMMA BreakTyped ==
  ASSUME TypeOK, Break PROVE TypeOK'
<1>1. PICK lasts \in [Dirs -> {Destroy, Closed}] :
        wire' = [x \in Dirs |-> Append(wire[x], lasts[x])]
  BY DEF Break
<1>2. faults' \in 0..MaxFaults
  BY FaultTyped DEF Break
<1>3. /\ point' = "closed" /\ wire' \in [Dirs -> Seq(CellsOfAnyKind)]
      /\ UNCHANGED <<est, con, threads, layers, data, trouble>>
  <2>1. \A d \in Dirs : lasts[d] \in CellsOfAnyKind /\ wire[d] \in Seq(CellsOfAnyKind)
    BY EndingTyped DEF TypeOK
  <2>2. \A d \in Dirs : Append(wire[d], lasts[d]) \in Seq(CellsOfAnyKind)
    BY <2>1
  <2>3. wire' \in [Dirs -> Seq(CellsOfAnyKind)]
    BY <1>1, <2>2
  <2> QED BY <2>3 DEF Break
<1> QED BY <1>2, <1>3 DEF TypeOK, est, con, layers, data

-----------------------------------------------------------------------------
(***************************************************************************)
(* What is on the way to the connector, and when.                           *)
(***************************************************************************)

LEMMA OpeningInit == Init => Opening
BY DEF Init, Opening, Dirs

LEMMA OpeningSame ==
  ASSUME Opening, wire'["down"] = wire["down"], stream' = "none" => stream = "none",
         c' \in {"top", "select"} => c \in {"top", "select"}
  PROVE  Opening'
BY DEF Opening

LEMMA OpeningPopped ==
  ASSUME TypeOK, Opening, wire["down"] # <<>>, wire'["down"] = Tail(wire["down"]),
         stream' = "none" => stream = "none",
         c' \in {"top", "select"} => Head(wire["down"]).kind # "GONE"
  PROVE  Opening'
<1> DEFINE old == wire["down"]
           new == wire'["down"]
<1>1. "down" \in Dirs
  BY DEF Dirs
<1>2. /\ Len(old) \in Nat /\ Len(old) >= 1 /\ Len(new) = Len(old) - 1 /\ Head(old) = old[1]
      /\ \A i \in 1..Len(new) : new[i] = old[i + 1]
  BY <1>1, PopTyped
<1>3. 1 \in 1..Len(old) /\ \A i \in 1..Len(new) : i + 1 \in 1..Len(old)
  BY <1>2
<1>4. stream' = "none" => /\ c' \notin {"top", "select"}
                          /\ \A i \in 1..Len(new) : new[i].kind = "GONE"
  BY <1>2, <1>3 DEF Opening
<1>5. ASSUME NEW i \in 1..Len(new)
      PROVE  /\ new[i].kind # "CONNECTED"
             /\ new[i].kind = "BEGIN" => /\ c' \notin {"top", "select"}
                                         /\ \A j \in 1..(i - 1) : new[j].kind = "GONE"
  <2>1. new[i] = old[i + 1] /\ i + 1 \in 1..Len(old) /\ i \in Nat /\ i >= 1
    BY <1>2, <1>3
  <2>2. ASSUME new[i].kind = "BEGIN"
        PROVE  c' \notin {"top", "select"} /\ \A j \in 1..(i - 1) : new[j].kind = "GONE"
    <3>1. \A j \in 1..i : old[j].kind = "GONE"
      <4>1. \A j \in 1..((i + 1) - 1) : old[j].kind = "GONE"
        BY <2>1, <2>2 DEF Opening
      <4> QED BY <2>1, <4>1
    <3>2. Head(old).kind = "GONE"
      BY <1>2, <2>1, <3>1
    <3>3. ASSUME NEW j \in 1..(i - 1) PROVE new[j].kind = "GONE"
      <4>1. j \in 1..Len(new) /\ j + 1 \in 1..i
        BY <1>2, <2>1
      <4> QED BY <1>2, <3>1, <4>1
    <3> QED BY <3>2, <3>3
  <2> QED BY <2>1, <2>2 DEF Opening
<1> QED BY <1>4, <1>5 DEF Opening

LEMMA OpeningAppended ==
  ASSUME TypeOK, Opening, NEW cells \in Seq(CellsOfAnyKind),
         wire'["down"] = wire["down"] \o cells,
         c' \in {"top", "select"} => c \in {"top", "select"},
         \A i \in 1..Len(cells) : cells[i].kind \notin {"BEGIN", "CONNECTED"},
         stream' = "none" =>
           stream = "none" /\ \A i \in 1..Len(cells) : cells[i].kind = "GONE"
  PROVE  Opening'
<1> DEFINE old == wire["down"]
           new == wire'["down"]
<1>1. old \in Seq(CellsOfAnyKind) /\ Len(old) \in Nat /\ Len(cells) \in Nat
  <2>1. "down" \in Dirs /\ wire \in [Dirs -> Seq(CellsOfAnyKind)]
    BY DEF TypeOK, Dirs
  <2>2. old \in Seq(CellsOfAnyKind)
    BY <2>1
  <2> HIDE DEF old
  <2> QED BY <2>2
<1>2. /\ Len(new) = Len(old) + Len(cells)
      /\ \A i \in 1..Len(new) : new[i] = IF i <= Len(old) THEN old[i] ELSE cells[i - Len(old)]
  BY <1>1, ConcatProperties
<1>3. ASSUME NEW i \in 1..Len(new)
      PROVE  \/ i \in 1..Len(old) /\ new[i] = old[i]
             \/ i - Len(old) \in 1..Len(cells) /\ new[i] = cells[i - Len(old)]
  <2>1. CASE i <= Len(old)
    BY <1>1, <1>2, <2>1
  <2>2. CASE ~(i <= Len(old))
    BY <1>1, <1>2, <2>2
  <2> QED BY <2>1, <2>2
<1>4. stream' = "none" => /\ c' \notin {"top", "select"}
                          /\ \A i \in 1..Len(new) : new[i].kind = "GONE"
  BY <1>3 DEF Opening
<1>5. ASSUME NEW i \in 1..Len(new)
      PROVE  /\ new[i].kind # "CONNECTED"
             /\ new[i].kind = "BEGIN" => /\ c' \notin {"top", "select"}
                                         /\ \A j \in 1..(i - 1) : new[j].kind = "GONE"
  <2>1. CASE i \in 1..Len(old) /\ new[i] = old[i]
    <3>1. \A j \in 1..(i - 1) : j \in 1..Len(old) /\ new[j] = old[j]
      BY <1>1, <1>2, <2>1
    <3> QED BY <2>1, <3>1 DEF Opening
  <2>2. CASE i - Len(old) \in 1..Len(cells) /\ new[i] = cells[i - Len(old)]
    BY <2>2
  <2> QED BY <1>3, <2>1, <2>2
<1> QED BY <1>4, <1>5 DEF Opening

LEMMA OpeningBegun ==
  ASSUME TypeOK, Opening, Begin PROVE Opening'
<1> DEFINE old == wire["down"]
           new == wire'["down"]
           begin == Control("BEGIN", enc["down"])
<1>1. old \in Seq(CellsOfAnyKind) /\ Len(old) \in Nat /\ enc["down"] \in Nat
  BY DEF TypeOK, Dirs
<1>2. /\ stream = "none" /\ stream' = "connecting" /\ c' = c /\ Down(<<begin>>)
  BY DEF Begin, con
<1>3. begin \in CellsOfAnyKind /\ begin.kind = "BEGIN"
  BY <1>1 DEF Control, CellsOfAnyKind
<1>4. new = old \o <<begin>>
  <2> DEFINE cells == <<begin>>
  <2>1. cells \in Seq(CellsOfAnyKind)
    BY <1>3
  <2> HIDE DEF cells
  <2>2. Down(cells)
    BY <1>2 DEF cells
  <2> QED BY <2>1, <2>2, DownTyped DEF cells
<1> HIDE DEF begin
<1>5. /\ Len(new) = Len(old) + 1 /\ new[Len(old) + 1] = begin
      /\ \A i \in 1..Len(old) : new[i] = old[i]
  BY <1>1, <1>3, <1>4
<1>6. /\ c \notin {"top", "select"} /\ \A i \in 1..Len(old) : old[i].kind = "GONE"
  BY <1>2 DEF Opening
<1>7. \A i \in 1..Len(new) : i \in 1..Len(old) \/ i = Len(old) + 1
  BY <1>1, <1>5
<1>8. \A j \in 1..((Len(old) + 1) - 1) : new[j].kind = "GONE"
  <2>1. \A j \in 1..((Len(old) + 1) - 1) : j \in 1..Len(old)
    BY <1>1
  <2> QED BY <1>5, <1>6, <2>1
<1>9. ASSUME NEW i \in 1..Len(new)
      PROVE  /\ new[i].kind # "CONNECTED"
             /\ new[i].kind = "BEGIN" => \A j \in 1..(i - 1) : new[j].kind = "GONE"
  <2>1. CASE i \in 1..Len(old)
    <3>1. new[i].kind = "GONE"
      BY <1>5, <1>6, <2>1
    <3> QED BY <3>1
  <2>2. CASE i = Len(old) + 1
    BY <1>3, <1>5, <1>8, <2>2
  <2> QED BY <1>7, <2>1, <2>2
<1> QED BY <1>2, <1>6, <1>9 DEF Opening

LEMMA OpeningKept ==
  ASSUME TypeOK, Opening, [Next]_vars PROVE Opening'
<1> USE DEF est, con, layers, data
<1>0. "up" \in Dirs /\ "down" \in Dirs /\ "up" # "down" /\ enc["down"] \in Nat
  BY DEF Dirs, TypeOK
<1>1. CASE \/ Establish \/ CreateWaiter \/ WaitFails \/ Recv \/ Rendezvous2 \/ Select \/ Die
           \/ UNCHANGED vars
  <2>1. c' \in {c, "ended"} \/ c = "top"
    BY <1>1 DEF Establish, CreateWaiter, WaitFails, Recv, Rendezvous2, Select, Die, EndLoop, vars
  <2>2. UNCHANGED <<wire, stream>>
    BY <1>1 DEF Establish, CreateWaiter, WaitFails, Recv, Rendezvous2, Select, Die, vars
  <2> QED BY <2>1, <2>2, OpeningSame
<1>2. CASE Begin
  BY <1>2, OpeningBegun
<1>3. CASE Connected
  <2>1. /\ UNCHANGED <<stream, c>> /\ stream = "connected"
        /\ Down(Cells("DATA", Hello("down"), enc["down"]))
    BY <1>3 DEF Connected
  <2> DEFINE hello == Cells("DATA", Hello("down"), enc["down"])
  <2>2. hello \in Seq(CellsOfAnyKind) /\ \A i \in 1..Len(hello) : hello[i].kind = "DATA"
    BY <1>0, HelloTyped, CellsTyped
  <2> HIDE DEF hello
  <2>3. wire'["down"] = wire["down"] \o hello
    BY <2>1, <2>2, DownTyped DEF hello
  <2> QED BY <2>1, <2>2, <2>3, OpeningAppended
<1>4. CASE ConnectTimeout \/ RecvRaises
  <2>1. c' = c
    BY <1>4 DEF ConnectTimeout, RecvRaises
  <2>2. CASE stream = "closed" /\ UNCHANGED <<stream, wire>>
    BY <2>1, <2>2, OpeningSame
  <2>3. ASSUME NEW newE, CloseAll(newE) PROVE Opening'
    BY <2>1, <2>3, CloseTyped, OpeningAppended
  <2> QED BY <1>4, <2>2, <2>3 DEF ConnectTimeout, RecvRaises
<1>5. CASE TakeUp
  <2>1. wire["up"] # <<>> /\ Pop("up") /\ c' = c
    BY <1>5 DEF TakeUp
  <2>2. wire'["down"] = wire["down"]
    BY <1>0, <2>1, PoppedTyped
  <2>3. stream' = "none" => stream = "none"
    BY <1>5 DEF TakeUp
  <2> QED BY <2>1, <2>2, <2>3, OpeningSame
<1>6. CASE ConnectToPoint
  <2>1. UNCHANGED <<wire, stream>> /\ c' \in {"wait", "connect", "gone"}
    BY <1>6 DEF ConnectToPoint, Retry
  <2> QED BY <2>1, OpeningSame
<1>7. CASE TakeBegin
  <2>1. wire["down"] # <<>> /\ stream' = stream
    BY <1>7 DEF TakeBegin
  <2>2. CASE Pop("down") /\ c' \in {"connect", "gone", "died"}
    BY <1>0, <2>1, <2>2, PoppedTyped, OpeningPopped
  <2>3. CASE Head(wire["down"]).kind # "GONE"
             /\ Up(<<Control("CONNECTED", enc["up"])>> \o Cells("DATA", Hello("up"), enc["up"] + 1))
    <3>1. wire'["down"] = Tail(wire["down"])
      BY <1>0, <2>3 DEF Up, TypeOK
    <3> QED BY <2>1, <2>3, <3>1, OpeningPopped
  <2> QED BY <1>7, <2>2, <2>3 DEF TakeBegin, Retry
<1>8. CASE TakeDown
  <2>1. wire["down"] # <<>> /\ Pop("down") /\ stream' = stream
    BY <1>8 DEF TakeDown
  <2>2. c' = "ended" \/ Head(wire["down"]).kind # "GONE"
    BY <1>8 DEF TakeDown, EndLoop
  <2> QED BY <1>0, <2>1, <2>2, PoppedTyped, OpeningPopped
<1>9. ASSUME NEW u \in DownThreads, SendDown(u) PROVE Opening'
  <2>1. PICK size \in Sizes : Down(Cells("DATA", Message(u, size, "down"), enc["down"]))
    BY <1>9 DEF SendDown
  <2>2. Message(u, size, "down") \in Messages
    BY <1>0 DEF Message, Messages
  <2>3. UNCHANGED <<stream, c>> /\ stream = "connected"
    BY <1>9 DEF SendDown
  <2> DEFINE cells == Cells("DATA", Message(u, size, "down"), enc["down"])
  <2>4. cells \in Seq(CellsOfAnyKind) /\ \A i \in 1..Len(cells) : cells[i].kind = "DATA"
    BY <1>0, <2>2, CellsTyped
  <2> HIDE DEF cells
  <2>5. wire'["down"] = wire["down"] \o cells
    BY <2>1, <2>4, DownTyped DEF cells
  <2> QED BY <2>3, <2>4, <2>5, OpeningAppended
<1>10. ASSUME NEW u \in Threads, EncryptPeer(u) \/ EncryptLink(u) \/ Put(u) PROVE Opening'
  <2>1. UNCHANGED <<stream, c>> /\ wire'["down"] = wire["down"]
    BY <1>0, <1>10 DEF EncryptPeer, EncryptLink, Put, TypeOK
  <2> QED BY <2>1, OpeningSame
<1>11. CASE Break
  <2>0. "down" \in Dirs
    BY DEF Dirs
  <2>3. PICK last \in {Destroy, Closed} : wire'["down"] = wire["down"] \o <<last>>
    BY <1>11, <2>0, BreakWire
  <2>1. UNCHANGED <<stream, c>>
    BY <1>11 DEF Break, est, con
  <2>2. <<last>> \in Seq(CellsOfAnyKind) /\ \A i \in 1..Len(<<last>>) : <<last>>[i].kind = "GONE"
    BY EndingTyped
  <2> QED BY <2>1, <2>2, <2>3, OpeningAppended
<1> QED BY <1>1, <1>2, <1>3, <1>4, <1>5, <1>6, <1>7, <1>8, <1>9, <1>10, <1>11
        DEF Next, EStep, CStep, Guard

LEMMA TypedKept ==
  ASSUME TypeOK, Opening, [Next]_vars PROVE TypeOK' /\ Opening'
<1>1. Opening'
  BY OpeningKept
<1>2. ASSUME UNCHANGED vars PROVE TypeOK'
  BY <1>2 DEF TypeOK, vars, est, con, layers, data
<1>3. ASSUME Next PROVE TypeOK'
  BY <1>3, EstablisherTyped, ConnectorTyped, GuardTyped, SendersTyped, BreakTyped DEF Next
<1> QED BY <1>1, <1>2, <1>3

(***************************************************************************)
(* The state of the two threads and of what is between them always has its  *)
(* type; among other things the connector only ever takes the bytes of a    *)
(* DATA cell (rcv_data loads what the cell holds).                          *)
(***************************************************************************)
THEOREM TypeCorrect == Spec => []TypeOK
<1>1. Init => TypeOK /\ Opening
  BY TypeInit, OpeningInit
<1>2. TypeOK /\ Opening /\ [Next]_vars => (TypeOK /\ Opening)'
  BY TypedKept
<1> QED BY <1>1, <1>2, PTL DEF Spec

-----------------------------------------------------------------------------
(***************************************************************************)
(* Layers in step.                                                          *)
(*                                                                         *)
(* Begun and Quiet: until the establisher's stream is opened nothing is     *)
(* sent in either direction, so the counters start equal when the two meet. *)
(* Whole: a DESTROY is only under way when the point has gone.  Counted is   *)
(* the property with every cell under way counted, and Busy the threads     *)
(* with a cell whose layers are stepped and that is not on the wire yet.    *)
(***************************************************************************)
Busy == {u \in Threads : snd[u].pc # "idle"}

Begun ==
  /\ e = "start" => point = "none"
  /\ point \in {"none", "waiting"} => stream = "none" /\ rend2 = "no"

Quiet ==
  stream = "none" /\ point # "closed" =>
    /\ \A d \in Dirs : wire[d] = <<>> /\ enc[d] = 0 /\ dec[d] = 0 /\ lost[d] = 0
    /\ handled["down"] = <<>> /\ \A u \in Threads : snd[u].pc = "idle"

Whole == point # "closed" => \A d \in Dirs : \A i \in 1..Len(wire[d]) : wire[d][i].kind # "GONE"

Counted ==
  point = "joined" /\ stream # "closed" =>
    /\ enc["down"] = dec["down"] + lost["down"] + Len(wire["down"])
    /\ enc["up"] = dec["up"] + lost["up"] + Len(wire["up"]) + Cardinality(Busy)

InStep == Begun /\ Quiet /\ Whole /\ Counted

LEMMA InStepInit == Init => InStep
<1> SUFFICES ASSUME Init PROVE InStep
  OBVIOUS
<1>1. \A u \in Threads : snd[u].pc = "idle"
  BY DEF Init
<1>2. Begun /\ Counted
  BY DEF Init, Begun, Counted
<1>3. Quiet
  BY <1>1 DEF Init, Quiet, Dirs
<1>4. Whole
  BY DEF Init, Whole
<1> QED BY <1>2, <1>3, <1>4 DEF InStep

LEMMA BusyFinite ==
  /\ IsFiniteSet(Busy) /\ Cardinality(Busy) \in Nat
  /\ IsFiniteSet(Busy') /\ Cardinality(Busy') \in Nat
<1>1. Busy \subseteq Threads /\ Busy' \subseteq Threads
  BY DEF Busy
<1> QED BY <1>1, RendezvousAssumption, FS_Subset, FS_CardinalityType

LEMMA QuietKept ==
  ASSUME TypeOK, Begun, Quiet, [Next]_vars PROVE Begun' /\ Quiet'
<1> USE DEF est, con, layers, data
<1>0. "up" \in Dirs /\ "down" \in Dirs /\ "up" # "down"
  BY DEF Dirs
<1>1. CASE Establish
  <2>1. /\ point' \in {"waiting", "none"} /\ e' # "start" /\ point = "none"
        /\ UNCHANGED <<rend2, stream, wire, layers, data>>
    BY <1>1 DEF Establish, Begun
  <2> QED BY <2>1 DEF Begun, Quiet
<1>2. CASE CreateWaiter \/ WaitFails \/ Recv \/ Select \/ Die \/ UNCHANGED vars
  <2>1. UNCHANGED <<rend2, stream, point, wire, enc, dec, lost, snd>>
        /\ e' \in {e, "wait", "died"}
    BY <1>2 DEF CreateWaiter, WaitFails, Recv, Select, Die, vars
  <2>2. stream = "none" => handled' = handled
    BY <1>2 DEF CreateWaiter, WaitFails, Recv, Select, Die, vars
  <2> QED BY <2>1, <2>2 DEF Begun, Quiet
<1>3. CASE Begin \/ Connected
  <2>1. e' # "start" /\ stream' # "none" /\ rend2' = rend2 /\ point' = point
        /\ (rend2 = "got" \/ stream = "connected")
    BY <1>3 DEF Begin, Connected
  <2> QED BY <2>1 DEF Begun, Quiet
<1>4. CASE ConnectTimeout \/ RecvRaises
  <2>1. e' # "start" /\ stream' = "closed" /\ (point' = "closed" \/ (point' = point /\ stream = "closed"))
    <3>1. CASE ConnectTimeout
      <4>1. CloseAll("died")
        BY <3>1 DEF ConnectTimeout
      <4>2. e' = "died" /\ point' = "closed" /\ stream' = "closed"
        BY <4>1 DEF CloseAll
      <4> QED BY <4>2
    <3>2. CASE RecvRaises /\ stream = "closed"
      BY <3>2 DEF RecvRaises
    <3>3. CASE RecvRaises /\ stream # "closed"
      <4>1. CloseAll("ended")
        BY <3>3 DEF RecvRaises
      <4>2. e' = "ended" /\ point' = "closed" /\ stream' = "closed"
        BY <4>1 DEF CloseAll
      <4> QED BY <4>2
    <3> QED BY <1>4, <3>1, <3>2, <3>3
  <2> QED BY <2>1 DEF Begun, Quiet
<1>5. CASE Rendezvous2
  <2>1. rend2 = "sent" /\ UNCHANGED <<e, stream, point, wire, layers, data>>
    BY <1>5 DEF Rendezvous2
  <2> QED BY <2>1 DEF Begun, Quiet
<1>6. CASE TakeUp
  <2>1. wire["up"] # <<>> /\ UNCHANGED <<e, rend2, point>>
        /\ (stream' = "none" => stream = "none")
    BY <1>6 DEF TakeUp
  <2>2. point = "closed" \/ stream # "none"
    BY <1>0, <2>1 DEF Quiet
  <2> QED BY <2>1, <2>2 DEF Begun, Quiet
<1>7. CASE ConnectToPoint
  <2>1. UNCHANGED <<e, stream, wire, enc, dec, lost, data>>
        /\ ((point' = "joined" /\ point = "waiting") \/ UNCHANGED <<point, rend2>>)
    BY <1>7 DEF ConnectToPoint
  <2> QED BY <2>1 DEF Begun, Quiet
<1>8. CASE TakeBegin \/ TakeDown
  <2>1. wire["down"] # <<>> /\ UNCHANGED <<e, rend2, point, stream>>
    BY <1>8 DEF TakeBegin, TakeDown
  <2>2. point = "closed" \/ stream # "none"
    BY <1>0, <2>1 DEF Quiet
  <2> QED BY <2>1, <2>2 DEF Begun, Quiet
<1>9. ASSUME NEW u \in DownThreads, SendDown(u) PROVE Begun' /\ Quiet'
  <2>1. stream = "connected" /\ UNCHANGED <<e, rend2, point, stream>>
    BY <1>9 DEF SendDown
  <2> QED BY <2>1 DEF Begun, Quiet
<1>10. ASSUME NEW u \in Threads, EncryptPeer(u) \/ EncryptLink(u) \/ Put(u) PROVE Begun' /\ Quiet'
  <2>1. UNCHANGED <<e, rend2, point, stream>>
    BY <1>10 DEF EncryptPeer, EncryptLink, Put
  <2>2. point = "closed" \/ stream # "none"
    <3>1. CASE EncryptPeer(u)
      <4>1. Knows("up")
        BY <3>1 DEF EncryptPeer
      <4>2. handled["down"] # <<>>
        BY <4>1 DEF Knows
      <4> QED BY <4>2 DEF Quiet
    <3>2. CASE EncryptLink(u) \/ Put(u)
      <4>1. snd[u].pc # "idle"
        BY <3>2 DEF EncryptLink, Put
      <4> QED BY <4>1 DEF Quiet
    <3> QED BY <1>10, <3>1, <3>2
  <2> QED BY <2>1, <2>2 DEF Begun, Quiet
<1>11. CASE Break
  <2>1. point' = "closed" /\ e' = e /\ point = "joined"
    BY <1>11 DEF Break
  <2> QED BY <2>1 DEF Begun, Quiet
<1> QED BY <1>1, <1>2, <1>3, <1>4, <1>5, <1>6, <1>7, <1>8, <1>9, <1>10, <1>11
        DEF Next, EStep, CStep, Guard

(* A wire that lost its first cell, or got more that are no DESTROY. *)
LEMMA WholeWire ==
  ASSUME TypeOK, NEW d \in Dirs, \A i \in 1..Len(wire[d]) : wire[d][i].kind # "GONE",
         \/ wire'[d] = wire[d]
         \/ wire[d] # <<>> /\ wire'[d] = Tail(wire[d])
         \/ \E cells \in Seq(CellsOfAnyKind) :
              /\ wire'[d] = wire[d] \o cells
              /\ \A i \in 1..Len(cells) : cells[i].kind # "GONE"
  PROVE  \A i \in 1..Len(wire'[d]) : wire'[d][i].kind # "GONE"
<1>1. CASE wire'[d] = wire[d]
  BY <1>1
<1>2. CASE wire[d] # <<>> /\ wire'[d] = Tail(wire[d])
  <2>1. /\ Len(wire[d]) \in Nat /\ Len(Tail(wire[d])) = Len(wire[d]) - 1
        /\ \A i \in 1..Len(Tail(wire[d])) : Tail(wire[d])[i] = wire[d][i + 1]
    BY <1>2, PopTyped
  <2>2. \A i \in 1..Len(Tail(wire[d])) : i + 1 \in 1..Len(wire[d])
    BY <2>1
  <2> QED BY <1>2, <2>1, <2>2
<1>3. ASSUME NEW cells \in Seq(CellsOfAnyKind), wire'[d] = wire[d] \o cells,
             \A i \in 1..Len(cells) : cells[i].kind # "GONE",
             NEW i \in 1..Len(wire'[d])
      PROVE  wire'[d][i].kind # "GONE"
  <2> DEFINE old == wire[d]
  <2>1. old \in Seq(CellsOfAnyKind) /\ Len(old) \in Nat /\ Len(cells) \in Nat
    BY DEF TypeOK
  <2> HIDE DEF old
  <2>2. /\ Len(old \o cells) = Len(old) + Len(cells)
        /\ \A k \in 1..Len(old \o cells) :
             (old \o cells)[k] = IF k <= Len(old) THEN old[k] ELSE cells[k - Len(old)]
    BY <2>1, ConcatProperties
  <2>3. wire'[d] = old \o cells /\ i \in 1..(Len(old) + Len(cells))
    BY <1>3, <2>2 DEF old
  <2>4. CASE i <= Len(old)
    <3>1. i \in 1..Len(old) /\ wire'[d][i] = old[i]
      BY <2>1, <2>2, <2>3, <2>4
    <3> QED BY <3>1 DEF old
  <2>5. CASE ~(i <= Len(old))
    <3>1. i - Len(old) \in 1..Len(cells) /\ wire'[d][i] = cells[i - Len(old)]
      BY <2>1, <2>2, <2>3, <2>5
    <3> QED BY <1>3, <3>1
  <2> QED BY <2>4, <2>5
<1> QED BY <1>1, <1>2, <1>3

(* What TakeBegin sends when it can read BEGIN. *)
LEMMA AnswerTyped ==
  ASSUME TypeOK
  PROVE  LET cells == <<Control("CONNECTED", enc["up"])>> \o Cells("DATA", Hello("up"), enc["up"] + 1)
         IN /\ cells \in Seq(CellsOfAnyKind)
            /\ \A i \in 1..Len(cells) : cells[i].kind # "GONE"
<1> DEFINE control == <<Control("CONNECTED", enc["up"])>>
           hello == Cells("DATA", Hello("up"), enc["up"] + 1)
<1>1. "up" \in Dirs /\ enc["up"] \in Nat /\ enc["up"] + 1 \in Nat
  BY DEF TypeOK, Dirs
<1>2. control \in Seq(CellsOfAnyKind) /\ Len(control) = 1 /\ control[1].kind = "CONNECTED"
  BY <1>1, ControlTyped
<1>3. /\ hello \in Seq(CellsOfAnyKind) /\ Len(hello) \in Nat
      /\ \A i \in 1..Len(hello) : hello[i].kind = "DATA"
  BY <1>1, HelloTyped, CellsTyped
<1> HIDE DEF control, hello
<1>4. /\ control \o hello \in Seq(CellsOfAnyKind)
      /\ Len(control \o hello) = 1 + Len(hello)
      /\ \A i \in 1..Len(control \o hello) :
           (control \o hello)[i] = IF i <= 1 THEN control[i] ELSE hello[i - 1]
  <2>1. control \o hello \in Seq(CellsOfAnyKind)
    BY <1>2, <1>3
  <2>2. /\ Len(control \o hello) = Len(control) + Len(hello)
        /\ \A i \in 1..Len(control \o hello) :
             (control \o hello)[i] = IF i <= Len(control) THEN control[i] ELSE hello[i - Len(control)]
    <3>1. control \in Seq(CellsOfAnyKind) /\ hello \in Seq(CellsOfAnyKind)
      BY <1>2, <1>3
    <3> QED BY <3>1, ConcatProperties
  <2> QED BY <1>2, <2>1, <2>2
<1>5. ASSUME NEW i \in 1..Len(control \o hello) PROVE (control \o hello)[i].kind # "GONE"
  <2>1. CASE i <= 1
    <3>1. i = 1
      BY <1>3, <1>4, <2>1
    <3> QED BY <1>2, <1>4, <3>1
  <2>2. CASE ~(i <= 1)
    <3>1. i - 1 \in 1..Len(hello) /\ (control \o hello)[i] = hello[i - 1]
      BY <1>3, <1>4, <2>2
    <3> QED BY <1>3, <3>1
  <2> QED BY <2>1, <2>2
<1> QED BY <1>4, <1>5 DEF control, hello

(***************************************************************************)
(* The steps of the two sides, as the layers see them: cells sent down,     *)
(* a cell taken, and the answer to BEGIN.                                   *)
(***************************************************************************)
SendsDown ==
  \E cells \in Seq(CellsOfAnyKind) :
    /\ Down(cells) /\ \A i \in 1..Len(cells) : cells[i].kind # "GONE"
    /\ UNCHANGED <<dec, lost, snd, point>> /\ stream # "closed"

Takes(d) ==
  /\ wire[d] # <<>> /\ Pop(d) /\ UNCHANGED <<enc, snd, point>>
  /\ \/ Head(wire[d]).kind = "GONE" \/ stream = "closed"
     \/ stream = "none" /\ d = "up"
     \/ /\ dec' \in [Dirs -> Nat] /\ lost' \in [Dirs -> Nat]
        /\ dec'[d] + lost'[d] = dec[d] + lost[d] + 1
        /\ \A x \in Dirs \ {d} : dec'[x] = dec[x] /\ lost'[x] = lost[x]

Answers ==
  /\ wire["down"] # <<>> /\ UNCHANGED <<snd, point, stream>>
  /\ Up(<<Control("CONNECTED", enc["up"])>> \o Cells("DATA", Hello("up"), enc["up"] + 1))
  /\ \E readable \in BOOLEAN : Decrypt("down", readable)

LEMMA StepsDown ==
  ASSUME TypeOK, Begin \/ Connected \/ \E u \in DownThreads : SendDown(u) PROVE SendsDown
<1> USE DEF est, con, layers, data
<1>0. "up" \in Dirs /\ "down" \in Dirs
  BY DEF Dirs
<1>1. CASE Begin
  <2> DEFINE cells == <<Control("BEGIN", enc["down"])>>
  <2>1. cells \in Seq(CellsOfAnyKind) /\ Len(cells) = 1 /\ cells[1].kind = "BEGIN"
    BY <1>0, ControlTyped DEF TypeOK
  <2> HIDE DEF cells
  <2>2. \A i \in 1..Len(cells) : cells[i].kind # "GONE"
    BY <2>1
  <2>3. Down(cells) /\ UNCHANGED <<dec, lost, snd, point>> /\ stream = "none" /\ stream' = "connecting"
    <3>1. Down(cells) /\ stream = "none" /\ stream' = "connecting"
      BY <1>1 DEF Begin, cells
    <3>2. UNCHANGED <<dec, lost, snd, point>>
      BY <1>1 DEF Begin
    <3> QED BY <3>1, <3>2
  <2> QED BY <2>1, <2>2, <2>3 DEF SendsDown
<1>2. CASE Connected
  <2> DEFINE cells == Cells("DATA", Hello("down"), enc["down"])
  <2>1. cells \in Seq(CellsOfAnyKind) /\ \A i \in 1..Len(cells) : cells[i].kind = "DATA"
    BY <1>0, HelloTyped, CellsTyped DEF TypeOK
  <2> HIDE DEF cells
  <2>2. Down(cells) /\ UNCHANGED <<dec, lost, snd, point, stream>> /\ stream = "connected"
    BY <1>2 DEF Connected, cells
  <2> QED BY <2>1, <2>2 DEF SendsDown
<1>3. ASSUME NEW u \in DownThreads, SendDown(u) PROVE SendsDown
  <2>1. PICK size \in Sizes : Down(Cells("DATA", Message(u, size, "down"), enc["down"]))
    BY <1>3 DEF SendDown
  <2>2. Message(u, size, "down") \in Messages
    BY <1>0 DEF Message, Messages
  <2> DEFINE cells == Cells("DATA", Message(u, size, "down"), enc["down"])
  <2>3. cells \in Seq(CellsOfAnyKind) /\ \A i \in 1..Len(cells) : cells[i].kind = "DATA"
    BY <1>0, <2>2, CellsTyped DEF TypeOK
  <2> HIDE DEF cells
  <2>4. Down(cells) /\ UNCHANGED <<dec, lost, snd, point, stream>> /\ stream = "connected"
    BY <1>3, <2>1 DEF SendDown, cells
  <2> QED BY <2>3, <2>4 DEF SendsDown
<1> QED BY <1>1, <1>2, <1>3

LEMMA StepsOfTheLayers ==
  ASSUME TypeOK, [Next]_vars
  PROVE  /\ stream = "closed" => stream' = "closed"
         /\ \/ UNCHANGED <<wire, enc, dec, lost, snd>> /\ (point' = "joined" => point = "joined")
            \/ UNCHANGED <<wire, enc, dec, lost, snd, stream>> /\ point = "waiting"
            \/ SendsDown
            \/ point' = "closed"
            \/ \E d \in Dirs : Takes(d)
            \/ Answers
            \/ \E u \in Threads : EncryptPeer(u) \/ EncryptLink(u) \/ Put(u)
<1> USE DEF est, con, layers, data
<1>0. "up" \in Dirs /\ "down" \in Dirs /\ "up" # "down"
  BY DEF Dirs
<1>1. CASE \/ Establish \/ CreateWaiter \/ WaitFails \/ Recv \/ Rendezvous2 \/ Select \/ Die
           \/ UNCHANGED vars
  <2>1. UNCHANGED <<stream, wire, enc, dec, lost, snd>>
    BY <1>1 DEF Establish, CreateWaiter, WaitFails, Recv, Rendezvous2, Select, Die, vars
  <2>2. point' = "joined" => point = "joined"
    BY <1>1 DEF Establish, CreateWaiter, WaitFails, Recv, Rendezvous2, Select, Die, vars
  <2> QED BY <2>1, <2>2
<1>2. CASE Begin \/ Connected
  <2>1. stream # "closed"
    BY <1>2 DEF Begin, Connected
  <2> QED BY <1>2, <2>1, StepsDown
<1>4. CASE ConnectTimeout \/ RecvRaises
  <2>1. CASE RecvRaises /\ stream = "closed"
    BY <2>1 DEF RecvRaises
  <2>2. ASSUME NEW newE, CloseAll(newE) PROVE stream' = "closed" /\ point' = "closed"
    BY <2>2, CloseTyped
  <2> QED BY <1>4, <2>1, <2>2 DEF ConnectTimeout, RecvRaises
<1>5. CASE TakeUp
  <2>1. wire["up"] # <<>> /\ Pop("up") /\ UNCHANGED <<enc, snd, point>>
        /\ (stream = "closed" => stream' = "closed")
    BY <1>5 DEF TakeUp
  <2>2. \/ Head(wire["up"]).kind = "GONE" \/ stream \in {"none", "closed"}
        \/ \E readable \in BOOLEAN : Decrypt("up", readable)
    BY <1>5 DEF TakeUp
  <2>3. Takes("up")
    BY <1>0, <2>1, <2>2, DecryptTyped DEF Takes
  <2> QED BY <1>0, <2>1, <2>3
<1>6. CASE ConnectToPoint
  BY <1>6 DEF ConnectToPoint
<1>7. CASE TakeBegin
  <2>1. wire["down"] # <<>> /\ UNCHANGED <<snd, point, stream>>
    BY <1>7 DEF TakeBegin
  <2>2. CASE Head(wire["down"]).kind = "GONE"
    <3>1. Pop("down") /\ UNCHANGED enc
      BY <1>7, <2>2 DEF TakeBegin
    <3>2. Takes("down")
      BY <2>1, <2>2, <3>1 DEF Takes
    <3> QED BY <1>0, <2>1, <3>2
  <2>3. CASE Head(wire["down"]).kind # "GONE"
    <3>1. PICK readable \in BOOLEAN :
            /\ Decrypt("down", readable)
            /\ \/ Up(<<Control("CONNECTED", enc["up"])>> \o Cells("DATA", Hello("up"), enc["up"] + 1))
               \/ Pop("down") /\ UNCHANGED enc
      BY <1>7, <2>3 DEF TakeBegin
    <3>2. CASE Pop("down") /\ UNCHANGED enc
      <4>1. Takes("down")
        BY <1>0, <2>1, <3>1, <3>2, DecryptTyped DEF Takes
      <4> QED BY <1>0, <2>1, <4>1
    <3>3. CASE Up(<<Control("CONNECTED", enc["up"])>> \o Cells("DATA", Hello("up"), enc["up"] + 1))
      BY <2>1, <3>1, <3>3 DEF Answers
    <3> QED BY <3>1, <3>2, <3>3
  <2> QED BY <2>2, <2>3
<1>8. CASE TakeDown
  <2>1. wire["down"] # <<>> /\ Pop("down") /\ UNCHANGED <<enc, snd, point, stream>>
    BY <1>8 DEF TakeDown
  <2>2. \/ Head(wire["down"]).kind = "GONE"
        \/ \E readable \in BOOLEAN : Decrypt("down", readable)
        \/ dec' = [dec EXCEPT !["down"] = @ + 1] /\ UNCHANGED lost
    BY <1>8 DEF TakeDown
  <2>3. CASE Head(wire["down"]).kind = "GONE"
    BY <1>0, <2>1, <2>3 DEF Takes
  <2>4. CASE \E readable \in BOOLEAN : Decrypt("down", readable)
    <3>1. Takes("down")
      BY <1>0, <2>1, <2>4, DecryptTyped DEF Takes
    <3> QED BY <1>0, <2>1, <3>1
  <2>5. CASE dec' = [dec EXCEPT !["down"] = @ + 1] /\ UNCHANGED lost
    <3>1. dec \in [Dirs -> Nat] /\ lost \in [Dirs -> Nat] /\ dec["down"] \in Nat /\ lost["down"] \in Nat
      BY <1>0 DEF TypeOK
    <3>2. dec' \in [Dirs -> Nat] /\ dec'["down"] = dec["down"] + 1
          /\ \A x \in Dirs \ {"down"} : dec'[x] = dec[x]
      BY <1>0, <2>5, <3>1
    <3>3. dec'["down"] + lost'["down"] = dec["down"] + lost["down"] + 1
      BY <2>5, <3>1, <3>2
    <3>4. Takes("down")
      BY <2>1, <2>5, <3>1, <3>2, <3>3 DEF Takes
    <3> QED BY <1>0, <2>1, <3>4
  <2> QED BY <2>2, <2>3, <2>4, <2>5
<1>9. ASSUME NEW u \in DownThreads, SendDown(u) PROVE SendsDown /\ stream' = stream
  BY <1>9, StepsDown DEF SendDown
<1>10. ASSUME NEW u \in Threads, EncryptPeer(u) \/ EncryptLink(u) \/ Put(u) PROVE stream' = stream
  BY <1>10 DEF EncryptPeer, EncryptLink, Put
<1>11. CASE Break
  BY <1>11 DEF Break
<1> QED BY <1>1, <1>2, <1>4, <1>5, <1>6, <1>7, <1>8, <1>9, <1>10, <1>11
        DEF Next, EStep, CStep, Guard

LEMMA SenderWire ==
  ASSUME TypeOK, NEW u \in Threads, EncryptPeer(u) \/ EncryptLink(u) \/ Put(u)
  PROVE  /\ UNCHANGED <<point, stream, dec, lost>>
         /\ enc' \in [Dirs -> Nat] /\ enc'["down"] = enc["down"] /\ wire'["down"] = wire["down"]
         /\ \/ Busy' = Busy /\ enc'["up"] = enc["up"] /\ wire'["up"] = wire["up"]
            \/ /\ Busy' = Busy \cup {u} /\ u \notin Busy
               /\ enc'["up"] = enc["up"] + 1 /\ wire'["up"] = wire["up"]
            \/ /\ Busy' = Busy \ {u} /\ u \in Busy /\ enc'["up"] = enc["up"]
               /\ \/ point # "joined" /\ wire'["up"] = wire["up"]
                  \/ \E cell \in CellsOfAnyKind :
                       cell.kind = "DATA" /\ wire'["up"] = wire["up"] \o <<cell>>
<1> USE DEF est, con, layers, data
<1>0. /\ "up" \in Dirs /\ "down" \in Dirs /\ "up" # "down"
      /\ enc \in [Dirs -> Nat] /\ snd \in [Threads -> Sending] /\ enc["up"] \in Nat
  BY DEF Dirs, TypeOK
<1>1. UNCHANGED <<point, stream, dec, lost>>
  BY DEF EncryptPeer, EncryptLink, Put
<1>2. CASE EncryptPeer(u)
  <2>1. snd[u].pc = "idle" /\ UNCHANGED wire
    BY <1>2 DEF EncryptPeer
  <2>2. CASE UNCHANGED <<snd, enc>>
    BY <1>0, <1>1, <2>1, <2>2 DEF Busy
  <2>3. ASSUME NEW size \in Sizes,
               snd' = [snd EXCEPT ![u] = [pc |-> "peer", size |-> size, peer |-> enc["up"]]],
               enc' = [enc EXCEPT !["up"] = @ + 1]
        PROVE  /\ Busy' = Busy \cup {u} /\ u \notin Busy
               /\ enc' \in [Dirs -> Nat] /\ enc'["up"] = enc["up"] + 1 /\ enc'["down"] = enc["down"]
    <3>1. snd'[u].pc = "peer" /\ \A v \in Threads \ {u} : snd'[v] = snd[v]
      BY <1>0, <2>3
    <3>2. Busy' = Busy \cup {u} /\ u \notin Busy
      BY <2>1, <3>1 DEF Busy
    <3>3. enc' \in [Dirs -> Nat] /\ enc'["up"] = enc["up"] + 1 /\ enc'["down"] = enc["down"]
      BY <1>0, <2>3
    <3> QED BY <3>2, <3>3
  <2> QED BY <1>1, <1>2, <2>1, <2>2, <2>3 DEF EncryptPeer
<1>3. CASE EncryptLink(u)
  <2>1. snd[u].pc = "peer" /\ UNCHANGED <<wire, enc>>
        /\ \E x : snd' = [snd EXCEPT ![u] = [pc |-> "link", size |-> @.size, peer |-> @.peer, link |-> x]]
    BY <1>3 DEF EncryptLink
  <2>2. snd'[u].pc = "link" /\ \A v \in Threads \ {u} : snd'[v] = snd[v]
    BY <1>0, <2>1
  <2>3. Busy' = Busy
    BY <2>1, <2>2 DEF Busy
  <2> QED BY <1>0, <1>1, <2>1, <2>3
<1>4. CASE Put(u)
  <2> DEFINE m == Message(u, snd[u].size, "up")
             cell == [kind |-> "DATA", peer |-> snd[u].peer, whole |-> snd[u].link = strip,
                      msg |-> m, bytes |-> [i \in 1..m.size |-> <<m, i>>]]
  <2>1. /\ snd[u].pc = "link" /\ UNCHANGED enc /\ snd' = [snd EXCEPT ![u] = [pc |-> "idle"]]
        /\ wire' = [wire EXCEPT !["up"] =
             IF point = "joined" THEN Append(wire["up"], cell) ELSE wire["up"]]
    BY <1>4 DEF Put
  <2>2. snd'[u].pc = "idle" /\ \A v \in Threads \ {u} : snd'[v] = snd[v]
    BY <1>0, <2>1
  <2>3. Busy' = Busy \ {u} /\ u \in Busy
    BY <2>1, <2>2 DEF Busy
  <2>4. cell \in CellsOfAnyKind /\ cell.kind = "DATA"
    <3>1. snd[u].size \in Sizes /\ snd[u].peer \in Nat
      <4>1. snd[u] \in Sending
        BY <1>0
      <4> QED BY <2>1, <4>1 DEF Sending
    <3>2. m \in Messages /\ m.size \in Nat
      BY <1>0, <3>1, RendezvousAssumption DEF Message, Messages
    <3> HIDE DEF m
    <3>3. [i \in 1..m.size |-> <<m, i>>] \in [1..m.size -> Messages \X Nat]
      BY <3>2
    <3>4. [i \in 1..m.size |-> <<m, i>>] \in Seq(Messages \X Nat)
      BY <3>2, <3>3, FunctionIsSeq
    <3> QED BY <3>1, <3>2, <3>4 DEF CellsOfAnyKind
  <2> HIDE DEF cell
  <2>5. wire \in [Dirs -> Seq(CellsOfAnyKind)] /\ wire["up"] \in Seq(CellsOfAnyKind)
    BY <1>0 DEF TypeOK
  <2>6. wire'["down"] = wire["down"]
        /\ wire'["up"] = IF point = "joined" THEN Append(wire["up"], cell) ELSE wire["up"]
    BY <1>0, <2>1, <2>5
  <2>7. Append(wire["up"], cell) = wire["up"] \o <<cell>>
    BY <2>4, <2>5, AppendIsConcat
  <2> QED BY <1>0, <1>1, <2>1, <2>3, <2>4, <2>6, <2>7
<1> QED BY <1>2, <1>3, <1>4

LEMMA WholeKept ==
  ASSUME TypeOK, InStep, [Next]_vars PROVE Whole'
<1>0. Dirs = {"up", "down"} /\ "up" \in Dirs /\ "down" \in Dirs
  BY DEF Dirs
<1>1. SUFFICES ASSUME point' # "closed" PROVE \A d \in Dirs : \A i \in 1..Len(wire'[d]) : wire'[d][i].kind # "GONE"
  BY DEF Whole
<1>2. ASSUME NEW d \in Dirs,
             \/ wire'[d] = wire[d]
             \/ wire[d] # <<>> /\ wire'[d] = Tail(wire[d])
             \/ \E cells \in Seq(CellsOfAnyKind) :
                  /\ wire'[d] = wire[d] \o cells
                  /\ \A i \in 1..Len(cells) : cells[i].kind # "GONE",
             point # "closed"
      PROVE  \A i \in 1..Len(wire'[d]) : wire'[d][i].kind # "GONE"
  BY <1>2, WholeWire DEF Whole, InStep
<1>3. CASE UNCHANGED wire /\ point # "closed"
  BY <1>3 DEF Whole, InStep
<1>4. ASSUME SendsDown PROVE \A d \in Dirs : \A i \in 1..Len(wire'[d]) : wire'[d][i].kind # "GONE"
  <2>1. PICK cells \in Seq(CellsOfAnyKind) :
          Down(cells) /\ (\A i \in 1..Len(cells) : cells[i].kind # "GONE") /\ point' = point
    BY <1>4 DEF SendsDown
  <2>2. wire'["down"] = wire["down"] \o cells /\ wire'["up"] = wire["up"]
    BY <2>1, DownTyped
  <2> QED BY <1>0, <1>1, <1>2, <2>1, <2>2
<1>5. ASSUME NEW x \in Dirs, Takes(x)
      PROVE  \A d \in Dirs : \A i \in 1..Len(wire'[d]) : wire'[d][i].kind # "GONE"
  <2>1. /\ wire[x] # <<>> /\ wire'[x] = Tail(wire[x]) /\ \A d \in Dirs \ {x} : wire'[d] = wire[d]
        /\ point' = point
    BY <1>5, PoppedTyped DEF Takes
  <2> QED BY <1>1, <1>2, <2>1
<1>6. ASSUME Answers PROVE \A d \in Dirs : \A i \in 1..Len(wire'[d]) : wire'[d][i].kind # "GONE"
  <2> DEFINE cells == <<Control("CONNECTED", enc["up"])>> \o Cells("DATA", Hello("up"), enc["up"] + 1)
  <2>1. cells \in Seq(CellsOfAnyKind) /\ \A i \in 1..Len(cells) : cells[i].kind # "GONE"
    BY AnswerTyped
  <2>2. wire["down"] # <<>> /\ point' = point /\ Up(cells)
    BY <1>6 DEF Answers
  <2> HIDE DEF cells
  <2>3. wire'["up"] = wire["up"] \o cells /\ wire'["down"] = Tail(wire["down"])
    BY <2>1, <2>2, UpTyped
  <2> QED BY <1>0, <1>1, <1>2, <2>1, <2>2, <2>3
<1>7. ASSUME NEW u \in Threads, EncryptPeer(u) \/ EncryptLink(u) \/ Put(u)
      PROVE  \A d \in Dirs : \A i \in 1..Len(wire'[d]) : wire'[d][i].kind # "GONE"
  <2>1. /\ point' = point /\ wire'["down"] = wire["down"]
        /\ \/ wire'["up"] = wire["up"]
           \/ \E cell \in CellsOfAnyKind : cell.kind = "DATA" /\ wire'["up"] = wire["up"] \o <<cell>>
    BY <1>7, SenderWire
  <2>2. \A cell \in CellsOfAnyKind : cell.kind = "DATA" =>
          <<cell>> \in Seq(CellsOfAnyKind) /\ \A i \in 1..Len(<<cell>>) : <<cell>>[i].kind # "GONE"
    OBVIOUS
  <2>3. \/ wire'["up"] = wire["up"]
        \/ \E cells \in Seq(CellsOfAnyKind) :
             /\ wire'["up"] = wire["up"] \o cells
             /\ \A i \in 1..Len(cells) : cells[i].kind # "GONE"
    BY <2>1, <2>2
  <2> QED BY <1>0, <1>1, <1>2, <2>1, <2>3
<1>8. point = "closed" => point' = "closed"
  BY DEF Next, EStep, CStep, Guard, Establish, CreateWaiter, Begin, WaitFails, Connected,
         ConnectTimeout, Recv, RecvRaises, CloseAll, ConnectToPoint, TakeBegin, Select, TakeDown,
         Rendezvous2, TakeUp, Die, Break, SendDown, EncryptPeer, EncryptLink, Put, vars, est, InStep,
         Begun
<1> QED BY <1>1, <1>3, <1>4, <1>5, <1>6, <1>7, <1>8, StepsOfTheLayers

LEMMA CountedKept ==
  ASSUME TypeOK, InStep, [Next]_vars PROVE Counted'
<1>0. /\ "up" \in Dirs /\ "down" \in Dirs /\ "up" # "down"
      /\ enc["up"] \in Nat /\ enc["down"] \in Nat /\ dec["up"] \in Nat /\ dec["down"] \in Nat
      /\ lost["up"] \in Nat /\ lost["down"] \in Nat
      /\ wire["up"] \in Seq(CellsOfAnyKind) /\ wire["down"] \in Seq(CellsOfAnyKind)
      /\ Len(wire["up"]) \in Nat /\ Len(wire["down"]) \in Nat
      /\ Cardinality(Busy) \in Nat
  <2>1. "up" \in Dirs /\ "down" \in Dirs /\ "up" # "down"
    BY DEF Dirs
  <2>2. \A d \in Dirs : enc[d] \in Nat /\ dec[d] \in Nat /\ lost[d] \in Nat
    BY DEF TypeOK
  <2>3. \A d \in Dirs : wire[d] \in Seq(CellsOfAnyKind)
    BY DEF TypeOK
  <2>4. \A d \in Dirs : Len(wire[d]) \in Nat
    BY <2>3
  <2> QED BY <2>1, <2>2, <2>3, <2>4, BusyFinite
<1>1. SUFFICES ASSUME point' = "joined", stream' # "closed", stream # "closed"
      PROVE  /\ enc'["down"] = dec'["down"] + lost'["down"] + Len(wire'["down"])
             /\ enc'["up"] = dec'["up"] + lost'["up"] + Len(wire'["up"]) + Cardinality(Busy')
  BY StepsOfTheLayers DEF Counted
<1> DEFINE Goal == /\ enc'["down"] = dec'["down"] + lost'["down"] + Len(wire'["down"])
                   /\ enc'["up"] = dec'["up"] + lost'["up"] + Len(wire'["up"]) + Cardinality(Busy')
<1>2. ASSUME point = "joined"
      PROVE  /\ enc["down"] = dec["down"] + lost["down"] + Len(wire["down"])
             /\ enc["up"] = dec["up"] + lost["up"] + Len(wire["up"]) + Cardinality(Busy)
             /\ \A d \in Dirs : \A i \in 1..Len(wire[d]) : wire[d][i].kind # "GONE"
  BY <1>1, <1>2 DEF InStep, Counted, Whole
<1>9. /\ enc["up"] \in Nat /\ enc["down"] \in Nat /\ dec["up"] \in Nat /\ dec["down"] \in Nat
      /\ lost["up"] \in Nat /\ lost["down"] \in Nat
      /\ Len(wire["up"]) \in Nat /\ Len(wire["down"]) \in Nat /\ Cardinality(Busy) \in Nat
  BY <1>0
<1>10. ASSUME point = "joined"
       PROVE  /\ enc["down"] = dec["down"] + lost["down"] + Len(wire["down"])
              /\ enc["up"] = dec["up"] + lost["up"] + Len(wire["up"]) + Cardinality(Busy)
  BY <1>2, <1>10
<1>3. CASE UNCHANGED <<wire, enc, dec, lost, snd>> /\ (point' = "joined" => point = "joined")
  <2>1. Busy' = Busy
    BY <1>3 DEF Busy
  <2> QED BY <1>1, <1>2, <1>3, <2>1
<1>4. CASE UNCHANGED <<wire, enc, dec, lost, snd, stream>> /\ point = "waiting"
  <2>1. stream = "none"
    BY <1>4 DEF InStep, Begun
  <2>2. /\ \A d \in Dirs : wire[d] = <<>> /\ enc[d] = 0 /\ dec[d] = 0 /\ lost[d] = 0
        /\ \A u \in Threads : snd[u].pc = "idle"
    BY <1>4, <2>1 DEF InStep, Quiet
  <2>3. Busy' = {}
    BY <1>4, <2>2 DEF Busy
  <2>4. Cardinality(Busy') = 0 /\ Len(<<>>) = 0
    BY <2>3, FS_EmptySet
  <2>5. wire'["up"] = <<>> /\ wire'["down"] = <<>>
    BY <1>0, <1>4, <2>2
  <2>6. /\ enc'["up"] = 0 /\ enc'["down"] = 0 /\ dec'["up"] = 0 /\ dec'["down"] = 0
        /\ lost'["up"] = 0 /\ lost'["down"] = 0
    BY <1>0, <1>4, <2>2
  <2> QED BY <2>4, <2>5, <2>6
<1>5. ASSUME SendsDown PROVE Goal
  <2>1. PICK cells \in Seq(CellsOfAnyKind) : Down(cells) /\ UNCHANGED <<dec, lost, snd, point>>
    BY <1>5 DEF SendsDown
  <2>2. Busy' = Busy
    BY <2>1 DEF Busy
  <2>3. /\ wire'["down"] = wire["down"] \o cells /\ wire'["up"] = wire["up"]
        /\ enc'["down"] = enc["down"] + Len(cells) /\ enc'["up"] = enc["up"]
    BY <2>1, DownTyped
  <2>4. Len(wire'["down"]) = Len(wire["down"]) + Len(cells) /\ Len(cells) \in Nat
    BY <1>0, <2>3, ConcatProperties
  <2> QED BY <1>0, <1>1, <1>2, <2>1, <2>2, <2>3, <2>4
<1>6. ASSUME NEW d \in Dirs, Takes(d) PROVE Goal
  <2>1. /\ wire[d] # <<>> /\ wire'[d] = Tail(wire[d]) /\ \A x \in Dirs \ {d} : wire'[x] = wire[x]
        /\ UNCHANGED <<enc, snd, point>>
    BY <1>6, PoppedTyped DEF Takes
  <2>2. Len(wire[d]) \in Nat /\ Len(wire[d]) >= 1 /\ Len(wire'[d]) = Len(wire[d]) - 1
        /\ Head(wire[d]) = wire[d][1]
    BY <2>1, PopTyped
  <2>3. Head(wire[d]).kind # "GONE"
    <3>1. 1 \in 1..Len(wire[d])
      BY <2>2
    <3> QED BY <1>1, <1>2, <2>1, <2>2, <3>1
  <2>4. ~(stream = "none" /\ d = "up")
    BY <1>1, <2>1 DEF InStep, Quiet
  <2>5. /\ dec' \in [Dirs -> Nat] /\ lost' \in [Dirs -> Nat]
        /\ dec'[d] + lost'[d] = dec[d] + lost[d] + 1
        /\ \A x \in Dirs \ {d} : dec'[x] = dec[x] /\ lost'[x] = lost[x]
    BY <1>1, <1>6, <2>3, <2>4 DEF Takes
  <2>6. Busy' = Busy
    BY <2>1 DEF Busy
  <2>7. dec'["up"] \in Nat /\ lost'["up"] \in Nat /\ dec'["down"] \in Nat /\ lost'["down"] \in Nat
    BY <1>0, <2>5
  <2>8. CASE d = "up"
    <3>1. /\ dec'["up"] + lost'["up"] = dec["up"] + lost["up"] + 1
          /\ Len(wire'["up"]) = Len(wire["up"]) - 1 /\ Len(wire["up"]) >= 1
      BY <2>2, <2>5, <2>8
    <3>2. dec'["down"] = dec["down"] /\ lost'["down"] = lost["down"] /\ wire'["down"] = wire["down"]
      BY <1>0, <2>1, <2>5, <2>8
    <3>3. /\ enc["down"] = dec["down"] + lost["down"] + Len(wire["down"])
          /\ enc["up"] = dec["up"] + lost["up"] + Len(wire["up"]) + Cardinality(Busy)
      BY <1>1, <1>10, <2>1
    <3>4. enc'["up"] = enc["up"] /\ enc'["down"] = enc["down"]
      BY <2>1
    <3>5. enc'["down"] = dec'["down"] + lost'["down"] + Len(wire'["down"])
      BY <1>9, <2>7, <3>1, <3>2, <3>3, <3>4
    <3>6. enc'["up"] = dec'["up"] + lost'["up"] + Len(wire'["up"]) + Cardinality(Busy')
      BY <1>9, <2>6, <2>7, <3>1, <3>2, <3>3, <3>4
    <3> QED BY <3>5, <3>6
  <2>9. CASE d = "down"
    <3>1. /\ dec'["down"] + lost'["down"] = dec["down"] + lost["down"] + 1
          /\ Len(wire'["down"]) = Len(wire["down"]) - 1 /\ Len(wire["down"]) >= 1
      BY <2>2, <2>5, <2>9
    <3>2. dec'["up"] = dec["up"] /\ lost'["up"] = lost["up"] /\ wire'["up"] = wire["up"]
      BY <1>0, <2>1, <2>5, <2>9
    <3>3. /\ enc["down"] = dec["down"] + lost["down"] + Len(wire["down"])
          /\ enc["up"] = dec["up"] + lost["up"] + Len(wire["up"]) + Cardinality(Busy)
      BY <1>1, <1>10, <2>1
    <3>4. enc'["up"] = enc["up"] /\ enc'["down"] = enc["down"]
      BY <2>1
    <3>5. enc'["down"] = dec'["down"] + lost'["down"] + Len(wire'["down"])
      <4>1. enc'["down"] = (dec["down"] + lost["down"]) + Len(wire["down"])
        BY <3>3, <3>4
      <4> DEFINE x == dec'["down"]
                 y == lost'["down"]
                 z == Len(wire'["down"])
                 s == dec["down"] + lost["down"]
                 w == Len(wire["down"])
      <4>2. x \in Nat /\ y \in Nat /\ s \in Nat /\ w \in Nat /\ x + y = s + 1 /\ z = w - 1
        <5>1. x \in Nat /\ y \in Nat /\ z = w - 1
          BY <2>7, <3>1
        <5>2. s \in Nat /\ w \in Nat
          BY <1>9
        <5>3. x + y = s + 1
          BY <3>1
        <5> QED BY <5>1, <5>2, <5>3
      <4>3. enc'["down"] = s + w
        BY <4>1
      <4> HIDE DEF x, y, z, s, w
      <4>4. s + w = x + y + z
        BY <4>2
      <4>5. enc'["down"] = x + y + z
        BY <4>3, <4>4
      <4> QED BY <4>5 DEF x, y, z
    <3>6. enc'["up"] = dec'["up"] + lost'["up"] + Len(wire'["up"]) + Cardinality(Busy')
      BY <1>9, <2>6, <2>7, <3>1, <3>2, <3>3, <3>4
    <3> QED BY <3>5, <3>6
  <2> QED BY <2>8, <2>9 DEF Dirs
<1>7. ASSUME Answers PROVE Goal
  <2> DEFINE cells == <<Control("CONNECTED", enc["up"])>> \o Cells("DATA", Hello("up"), enc["up"] + 1)
  <2>1. cells \in Seq(CellsOfAnyKind)
    BY AnswerTyped
  <2>2. wire["down"] # <<>> /\ UNCHANGED <<snd, point>> /\ Up(cells)
        /\ \E readable \in BOOLEAN : Decrypt("down", readable)
    BY <1>7 DEF Answers
  <2> HIDE DEF cells
  <2>3. /\ wire'["up"] = wire["up"] \o cells /\ wire'["down"] = Tail(wire["down"])
        /\ enc'["up"] = enc["up"] + Len(cells) /\ enc'["down"] = enc["down"]
    BY <2>1, <2>2, UpTyped
  <2>4. Len(wire'["up"]) = Len(wire["up"]) + Len(cells) /\ Len(cells) \in Nat
    BY <1>0, <2>1, <2>3, ConcatProperties
  <2>5. Len(wire["down"]) >= 1 /\ Len(wire'["down"]) = Len(wire["down"]) - 1
    BY <1>0, <2>2, <2>3, PopTyped
  <2>6. /\ dec' \in [Dirs -> Nat] /\ lost' \in [Dirs -> Nat]
        /\ dec'["down"] + lost'["down"] = dec["down"] + lost["down"] + 1
        /\ dec'["up"] = dec["up"] /\ lost'["up"] = lost["up"]
    BY <1>0, <2>2, DecryptTyped
  <2>7. dec'["down"] \in Nat /\ lost'["down"] \in Nat
    BY <1>0, <2>6
  <2>8. Busy' = Busy
    BY <2>2 DEF Busy
  <2>9. /\ enc["down"] = dec["down"] + lost["down"] + Len(wire["down"])
        /\ enc["up"] = dec["up"] + lost["up"] + Len(wire["up"]) + Cardinality(Busy)
    BY <1>1, <1>10, <2>2
  <2>10. dec'["down"] + lost'["down"] = dec["down"] + lost["down"] + 1
    BY <2>6
  <2>11. dec'["up"] = dec["up"] /\ lost'["up"] = lost["up"]
    BY <2>6
  <2>12. enc'["up"] = enc["up"] + Len(cells) /\ enc'["down"] = enc["down"]
    BY <2>3
  <2>13. enc'["down"] = dec'["down"] + lost'["down"] + Len(wire'["down"])
    <3>1. enc'["down"] = (dec["down"] + lost["down"]) + Len(wire["down"])
      BY <2>9, <2>12
    <3> DEFINE x == dec'["down"]
               y == lost'["down"]
               z == Len(wire'["down"])
               s == dec["down"] + lost["down"]
               w == Len(wire["down"])
    <3>2. x \in Nat /\ y \in Nat /\ s \in Nat /\ w \in Nat /\ x + y = s + 1 /\ z = w - 1
      BY <1>9, <2>5, <2>7, <2>10
    <3>3. enc'["down"] = s + w
      BY <3>1
    <3> HIDE DEF x, y, z, s, w
    <3>4. s + w = x + y + z
      BY <3>2
    <3>5. enc'["down"] = x + y + z
      BY <3>3, <3>4
    <3> QED BY <3>5 DEF x, y, z
  <2>14. enc'["up"] = dec'["up"] + lost'["up"] + Len(wire'["up"]) + Cardinality(Busy')
    <3> DEFINE l == Len(cells)
               w == Len(wire["up"])
               s == dec["up"] + lost["up"]
               b == Cardinality(Busy)
    <3>1. enc'["up"] = (s + w + b) + l /\ Len(wire'["up"]) = w + l
      BY <2>4, <2>9, <2>12
    <3>2. dec'["up"] + lost'["up"] = s /\ Cardinality(Busy') = b
      BY <2>8, <2>11
    <3>3. l \in Nat /\ w \in Nat /\ s \in Nat /\ b \in Nat
      BY <1>9, <2>4
    <3> HIDE DEF l, w, s, b
    <3>4. (s + w + b) + l = s + (w + l) + b
      BY <3>3
    <3> QED BY <3>1, <3>2, <3>4
  <2> QED BY <2>13, <2>14
<1>8. ASSUME NEW u \in Threads, EncryptPeer(u) \/ EncryptLink(u) \/ Put(u) PROVE Goal
  <2>1. /\ UNCHANGED <<point, stream, dec, lost>>
        /\ enc'["down"] = enc["down"] /\ wire'["down"] = wire["down"]
        /\ \/ Busy' = Busy /\ enc'["up"] = enc["up"] /\ wire'["up"] = wire["up"]
           \/ /\ Busy' = Busy \cup {u} /\ u \notin Busy
              /\ enc'["up"] = enc["up"] + 1 /\ wire'["up"] = wire["up"]
           \/ /\ Busy' = Busy \ {u} /\ u \in Busy /\ enc'["up"] = enc["up"]
              /\ \/ point # "joined" /\ wire'["up"] = wire["up"]
                 \/ \E cell \in CellsOfAnyKind :
                      cell.kind = "DATA" /\ wire'["up"] = wire["up"] \o <<cell>>
    BY <1>8, SenderWire
  <2>2. CASE Busy' = Busy /\ enc'["up"] = enc["up"] /\ wire'["up"] = wire["up"]
    BY <1>1, <1>2, <2>1, <2>2
  <2>3. CASE /\ Busy' = Busy \cup {u} /\ u \notin Busy
             /\ enc'["up"] = enc["up"] + 1 /\ wire'["up"] = wire["up"]
    <3>1. Cardinality(Busy') = Cardinality(Busy) + 1
      BY <2>3, BusyFinite, FS_AddElement
    <3>2. enc["up"] = dec["up"] + lost["up"] + Len(wire["up"]) + Cardinality(Busy)
      BY <1>1, <1>10, <2>1
    <3>3. /\ dec'["up"] = dec["up"] /\ lost'["up"] = lost["up"] /\ enc'["up"] = enc["up"] + 1
          /\ wire'["up"] = wire["up"]
      BY <2>1, <2>3
    <3>4. enc'["up"] = dec'["up"] + lost'["up"] + Len(wire'["up"]) + Cardinality(Busy')
      <4>1. enc["up"] + 1 = dec["up"] + lost["up"] + Len(wire["up"]) + (Cardinality(Busy) + 1)
        <5> DEFINE k == dec["up"]
                   l == lost["up"]
                   m == Len(wire["up"])
                   n == Cardinality(Busy)
                   s == enc["up"]
        <5>1. k \in Nat /\ l \in Nat /\ m \in Nat /\ n \in Nat /\ s \in Nat /\ s = k + l + m + n
          BY <1>9, <3>2
        <5> HIDE DEF k, l, m, n, s
        <5>2. s + 1 = k + l + m + (n + 1)
          BY <5>1
        <5> QED BY <5>2 DEF k, l, m, n, s
      <4> QED BY <3>1, <3>3, <4>1
    <3>5. /\ enc'["down"] = enc["down"] /\ wire'["down"] = wire["down"]
          /\ UNCHANGED <<dec, lost, point>>
      BY <2>1
    <3>6. enc'["down"] = dec'["down"] + lost'["down"] + Len(wire'["down"])
      BY <1>1, <1>10, <3>5
    <3> QED BY <3>4, <3>6
  <2>4. ASSUME Busy' = Busy \ {u}, u \in Busy, enc'["up"] = enc["up"],
               NEW cell \in CellsOfAnyKind, wire'["up"] = wire["up"] \o <<cell>>
        PROVE  Goal
    <3>1. Cardinality(Busy') = Cardinality(Busy) - 1
      BY <2>4, BusyFinite, FS_RemoveElement
    <3>2. Len(wire'["up"]) = Len(wire["up"]) + 1
      BY <1>0, <2>4
    <3>3. Cardinality(Busy') \in Nat
      BY BusyFinite
    <3>4. enc["up"] = dec["up"] + lost["up"] + Len(wire["up"]) + Cardinality(Busy)
      BY <1>1, <1>10, <2>1
    <3>5. dec'["up"] = dec["up"] /\ lost'["up"] = lost["up"] /\ enc'["up"] = enc["up"]
      BY <2>1, <2>4
    <3>6. enc'["up"] = dec'["up"] + lost'["up"] + Len(wire'["up"]) + Cardinality(Busy')
      BY <1>9, <3>1, <3>2, <3>3, <3>4, <3>5
    <3> QED BY <1>1, <1>10, <2>1, <3>6
  <2> QED BY <1>1, <2>1, <2>2, <2>3, <2>4
<1> QED BY <1>1, <1>3, <1>4, <1>5, <1>6, <1>7, <1>8, StepsOfTheLayers

LEMMA InStepKept ==
  ASSUME TypeOK, InStep, [Next]_vars PROVE InStep'
<1>1. Begun' /\ Quiet'
  BY QuietKept DEF InStep
<1> QED BY <1>1, WholeKept, CountedKept DEF InStep

LEMMA CountToLength ==
  ASSUME NEW n \in Nat PROVE Cardinality(1..n) = n
<1>1. Cardinality(1..n) = IF 1 > n THEN 0 ELSE n - 1 + 1
  BY FS_Interval
<1> QED BY <1>1

LEMMA InStepTells ==
  ASSUME TypeOK, InStep PROVE LayersInStep
<1>1. SUFFICES ASSUME point = "joined", stream # "closed", NEW d \in Dirs
      PROVE  enc[d] = dec[d] + lost[d] + Cardinality({i \in 1..Len(wire[d]) : wire[d][i].kind # "GONE"})
                      + (IF d = "up" THEN Cardinality({u \in Threads : snd[u].pc # "idle"}) ELSE 0)
  BY DEF LayersInStep
<1>2. Len(wire[d]) \in Nat /\ enc[d] \in Nat /\ dec[d] \in Nat /\ lost[d] \in Nat
  BY DEF TypeOK
<1>3. {i \in 1..Len(wire[d]) : wire[d][i].kind # "GONE"} = 1..Len(wire[d])
  BY <1>1 DEF InStep, Whole
<1>4. Cardinality(1..Len(wire[d])) = Len(wire[d])
  BY <1>2, CountToLength
<1>5. CASE d = "up"
  BY <1>1, <1>3, <1>4, <1>5 DEF InStep, Counted, Busy
<1>6. CASE d = "down"
  <2>1. enc["down"] = dec["down"] + lost["down"] + Len(wire["down"])
    BY <1>1 DEF InStep, Counted
  <2>2. enc[d] = dec[d] + lost[d] + Len(wire[d]) + 0
    BY <1>2, <1>6, <2>1
  <2> QED BY <1>3, <1>4, <1>6, <2>2
<1> QED BY <1>5, <1>6 DEF Dirs

(***************************************************************************)
(* While the two are connected the receiver's layer has been stepped once   *)
(* for each cell that left and is not under way (LayersInStep), whatever    *)
(* the senders' threads do to each other (encrypt_forward and               *)
(* decrypt_backward step whether or not the cell can be read).              *)
(***************************************************************************)
THEOREM LayersStayInStep == Spec => []LayersInStep
<1>1. Init => TypeOK /\ Opening /\ InStep
  BY TypeInit, OpeningInit, InStepInit
<1>2. TypeOK /\ Opening /\ InStep /\ [Next]_vars => (TypeOK /\ Opening /\ InStep)'
  BY TypedKept, InStepKept
<1>3. TypeOK /\ InStep => LayersInStep
  BY InStepTells
<1> QED BY <1>1, <1>2, <1>3, PTL DEF Spec

-----------------------------------------------------------------------------
(***************************************************************************)
(* A clean channel delivers.                                                *)
(*                                                                         *)
(* Stages relates the two threads to the stream and to what was sent and    *)
(* taken, Unsent says what there is before the connector has answered       *)
(* BEGIN, and Cut that nothing is read after the point has gone but a       *)
(* DESTROY.                                                                 *)
(***************************************************************************)
Stopped(d) == \E i \in 1..Len(wire[d]) : wire[d][i].kind = "GONE"

Unsent ==
  c \in {"connect", "wait", "gone"} =>
    /\ handled["down"] = <<>> /\ sent["up"] = <<>> /\ \A u \in Threads : snd[u].pc = "idle"
    /\ \A i \in 1..Len(wire["up"]) : wire["up"][i].kind = "GONE"

Stages ==
  /\ e \in {"start", "acked", "wait"} => stream \in {"none", "closed"} /\ handled["up"] = <<>>
  /\ e = "opening" => stream # "none" /\ handled["up"] = <<>>
  /\ e = "loop" => stream \in {"connected", "closed"}
  /\ stream = "connecting" => e = "opening"
  /\ stream = "connected" => e \in {"opening", "loop"}
  /\ stream = "none" => c \in {"connect", "wait", "gone"}
  /\ c \in {"top", "select"} => sent["up"] # <<>>
  /\ handled["down"] # <<>> => sent["up"] # <<>>

Cut ==
  /\ stream = "closed" => point = "closed"
  /\ point = "closed" => stream = "closed" \/ Stopped("up")
  /\ point = "closed" /\ c \in {"wait", "top", "select"} => Stopped("down")
  /\ point \in {"none", "waiting"} => c \in {"connect", "gone"}

Numbered == enc["up"] = IF sent["up"] = <<>> THEN 0 ELSE 1 + Len(sent["up"])

WholeMessage(m) == [j \in 1..m.size |-> <<m, j>>]

(* A message that fits is one cell. *)
LEMMA OneCell ==
  ASSUME NEW m \in Messages, m.size <= CellSize, NEW first \in Nat
  PROVE  LET cells == Cells("DATA", m, first)
         IN /\ cells \in Seq(CellsOfAnyKind) /\ Len(cells) = 1
            /\ cells[1].kind = "DATA" /\ cells[1].peer = first /\ cells[1].whole
            /\ cells[1].bytes = WholeMessage(m)
<1> DEFINE n == (m.size + CellSize - 1) \div CellSize
           cut(i) == [j \in 1..(IF i < n THEN CellSize ELSE m.size - (n - 1) * CellSize) |->
                        <<m, (i - 1) * CellSize + j>>]
           cell(i) == [kind |-> "DATA", peer |-> first + i - 1, whole |-> TRUE, msg |-> m,
                       bytes |-> cut(i)]
<1>1. m.size \in Nat \ {0} /\ CellSize \in Nat \ {0}
  BY CellCount, RendezvousAssumption
<1>2. n = 1
  <2>1. /\ m.size + CellSize - 1 >= CellSize /\ m.size + CellSize - 1 < CellSize + CellSize
        /\ m.size + CellSize - 1 \in Nat
    BY <1>1
  <2>2. n \in Nat /\ n * CellSize <= m.size + CellSize - 1
        /\ m.size + CellSize - 1 < n * CellSize + CellSize
    BY <1>1, <2>1, Quotient
  <2> HIDE DEF n
  <2>3. n # 0
    BY <1>1, <2>1, <2>2
  <2>4. ~(n >= 2)
    <3>1. SUFFICES ASSUME n >= 2 PROVE FALSE
      OBVIOUS
    <3>2. PICK k \in Nat : n = k + 2
      <4>1. n - 2 \in Nat /\ n = (n - 2) + 2
        BY <2>2, <3>1
      <4> QED BY <4>1
    <3>3. n * CellSize = k * CellSize + CellSize + CellSize /\ k * CellSize \in Nat
      BY <1>1, <3>2
    <3> QED BY <1>1, <2>1, <2>2, <3>3
  <2> QED BY <2>2, <2>3, <2>4
<1> HIDE DEF n
<1>3. Cells("DATA", m, first) = [i \in 1..n |-> cell(i)]
  BY DEF Cells, n
<1>4. cut(1) = WholeMessage(m)
  <2>1. cut(1) = [j \in 1..(m.size - (1 - 1) * CellSize) |-> <<m, (1 - 1) * CellSize + j>>]
    BY <1>2
  <2>2. m.size - (1 - 1) * CellSize = m.size
    BY <1>1
  <2>3. \A j \in 1..m.size : (1 - 1) * CellSize + j = j
    BY <1>1
  <2> QED BY <2>1, <2>2, <2>3 DEF WholeMessage
<1> HIDE DEF cut
<1>5. 1 \in 1..n /\ cell(1).kind = "DATA" /\ cell(1).peer = first /\ cell(1).whole
      /\ cell(1).bytes = WholeMessage(m)
  BY <1>2, <1>4
<1> HIDE DEF cell
<1>6. Len([i \in 1..n |-> cell(i)]) = 1
  BY <1>2
<1> QED BY <1>3, <1>5, <1>6, CellsTyped

(* pickle.loads of the bytes of one message. *)
LEMMA LoadsWhole ==
  ASSUME NEW m \in Messages
  PROVE  /\ WholeMessage(m) \in Seq(Messages \X Nat) /\ Len(WholeMessage(m)) = m.size
         /\ m.size \in Nat /\ m.size >= 1
         /\ Loads(WholeMessage(m)) = {m}
<1>1. m.size \in Nat /\ m.size >= 1
  BY CellCount
<1>2. WholeMessage(m) \in [1..m.size -> Messages \X Nat]
  BY <1>1 DEF WholeMessage
<1>3. WholeMessage(m) \in Seq(Messages \X Nat) /\ Len(WholeMessage(m)) = m.size
  BY <1>1, <1>2, FunctionIsSeq DEF WholeMessage
<1>4. \A i \in 1..m.size : WholeMessage(m)[i] = <<m, i>>
  BY DEF WholeMessage
<1>5. {WholeMessage(m)[i][1] : i \in 1..Len(WholeMessage(m))} = {m}
  <2>1. 1 \in 1..m.size /\ \A i \in 1..m.size : WholeMessage(m)[i][1] = m
    BY <1>1, <1>4
  <2> QED BY <1>3, <2>1
<1>6. Loads(WholeMessage(m)) = {m}
  <2>1. Len(WholeMessage(m)) >= m.size
    BY <1>1, <1>3
  <2> QED BY <1>4, <1>5, <2>1 DEF Loads
<1> QED BY <1>1, <1>3, <1>6

(* A message that is sent is the last. *)
LEMMA SentLast ==
  ASSUME TypeOK, NEW d \in Dirs, NEW m \in Messages, Sent(d, m)
  PROVE  /\ sent'[d] = Append(sent[d], m) /\ \A x \in Dirs \ {d} : sent'[x] = sent[x]
         /\ Len(sent'[d]) = Len(sent[d]) + 1 /\ Len(sent[d]) \in Nat /\ sent'[d] # <<>>
         /\ sent'[d][Len(sent[d]) + 1] = m
         /\ \A k \in 1..Len(sent[d]) : sent'[d][k] = sent[d][k]
<1>1. sent \in [Dirs -> Seq(Messages)] /\ sent[d] \in Seq(Messages)
  BY DEF TypeOK
<1>2. sent'[d] = Append(sent[d], m) /\ \A x \in Dirs \ {d} : sent'[x] = sent[x]
  BY <1>1 DEF Sent
<1>3. Append(sent[d], m) # <<>>
  BY <1>1
<1> QED BY <1>1, <1>2, <1>3

(* CONNECTED and HELLO, when nothing has been sent before. *)
LEMMA AnswerCells ==
  ASSUME TypeOK, enc["up"] = 0
  PROVE  LET cells == <<Control("CONNECTED", enc["up"])>> \o Cells("DATA", Hello("up"), enc["up"] + 1)
         IN /\ cells \in Seq(CellsOfAnyKind) /\ Len(cells) = 2
            /\ cells[1].kind = "CONNECTED" /\ cells[1].peer = 0
            /\ cells[2].kind = "DATA" /\ cells[2].peer = 1 /\ cells[2].whole
            /\ cells[2].bytes = WholeMessage(Hello("up"))
<1> DEFINE control == <<Control("CONNECTED", enc["up"])>>
           hello == Cells("DATA", Hello("up"), enc["up"] + 1)
<1>1. control \in Seq(CellsOfAnyKind) /\ Len(control) = 1
      /\ control[1].kind = "CONNECTED" /\ control[1].peer = 0
  BY ControlTyped DEF Control
<1>2. /\ hello \in Seq(CellsOfAnyKind) /\ Len(hello) = 1
      /\ hello[1].kind = "DATA" /\ hello[1].peer = 1 /\ hello[1].whole
      /\ hello[1].bytes = WholeMessage(Hello("up"))
  <2>1. Hello("up") \in Messages /\ Hello("up").size = 2 /\ 2 <= CellSize
    BY HelloTyped, RendezvousAssumption DEF Dirs, Hello
  <2>2. enc["up"] + 1 = 1
    OBVIOUS
  <2> QED BY <2>1, <2>2, OneCell
<1> HIDE DEF control, hello
<1>3. control \o hello \in Seq(CellsOfAnyKind)
  BY <1>1, <1>2
<1>4. /\ Len(control \o hello) = 2
      /\ (control \o hello)[1] = control[1] /\ (control \o hello)[2] = hello[1]
  <2>1. control \in Seq(CellsOfAnyKind) /\ hello \in Seq(CellsOfAnyKind)
        /\ Len(control) = 1 /\ Len(hello) = 1
    BY <1>1, <1>2
  <2> QED BY <2>1
<1> QED BY <1>1, <1>2, <1>3, <1>4 DEF control, hello

LEMMA StagesInit == Init => Unsent /\ Stages /\ Cut /\ Numbered
BY DEF Init, Unsent, Stages, Cut, Numbered, Dirs

LEMMA HandledApart ==
  ASSUME TypeOK, [Next]_vars
  PROVE  /\ handled'["up"] # handled["up"] => e = "loop"
         /\ handled'["down"] # handled["down"] => c = "select" /\ c' = "top"
<1> USE DEF est, con, layers, data
<1>0. "up" \in Dirs /\ "down" \in Dirs /\ "up" # "down"
  BY DEF Dirs
<1>1. CASE Recv
  <2> DEFINE n == IF Len(buffer) < ReadSize THEN Len(buffer) ELSE ReadSize
  <2>1. n \in Nat /\ n <= Len(buffer) /\ buffer \in Seq(Messages \X Nat)
    BY RendezvousAssumption DEF TypeOK
  <2>2. Handle("up", SubSeq(buffer, 1, n)) /\ e = "loop"
    BY <1>1 DEF Recv
  <2> HIDE DEF n
  <2>3. SubSeq(buffer, 1, n) \in Seq(Messages \X Nat)
    BY <2>1
  <2>4. handled'["down"] = handled["down"]
    BY <1>0, <2>2, <2>3, HandleTyped
  <2> QED BY <2>2, <2>4
<1>2. CASE TakeDown
  <2>1. c = "select" /\ (UNCHANGED handled \/ (c' = "top" /\ Handle("down", Head(wire["down"]).bytes)))
    BY <1>2 DEF TakeDown
  <2>2. handled \in [Dirs -> Seq(Messages)]
    BY DEF TypeOK
  <2>3. ASSUME NEW bytes, Handle("down", bytes) PROVE handled'["up"] = handled["up"]
    <3>1. \E x : handled' = [handled EXCEPT !["down"] = x]
      BY <2>3 DEF Handle
    <3> QED BY <1>0, <2>2, <3>1
  <2> QED BY <2>1, <2>3
<1>3. CASE ~Recv /\ ~TakeDown
  <2>1. UNCHANGED handled
    BY <1>3 DEF Next, EStep, CStep, Guard, vars, Establish, CreateWaiter, Begin, WaitFails, Connected,
         ConnectTimeout, RecvRaises, ConnectToPoint, TakeBegin, Select, Rendezvous2, TakeUp, Die,
         Break, SendDown, EncryptPeer, EncryptLink, Put
  <2> QED BY <2>1
<1> QED BY <1>1, <1>2, <1>3

(* What each step sends. *)
LEMMA SentApart ==
  ASSUME TypeOK, [Next]_vars
  PROVE  /\ sent'["up"] = sent["up"] \/ \E m \in Messages : sent'["up"] = Append(sent["up"], m)
         /\ sent'["up"] # sent["up"] =>
              \/ c = "wait" /\ c' = "top" /\ Sent("up", Hello("up")) /\ TakeBegin
              \/ Knows("up") /\ \E u \in Threads : EncryptPeer(u)
         /\ sent'["down"] = sent["down"] \/ \E m \in Messages : sent'["down"] = Append(sent["down"], m)
         /\ sent'["down"] # sent["down"] => Connected \/ \E u \in DownThreads : SendDown(u)
<1> USE DEF est, con, layers, data
<1>0. "up" \in Dirs /\ "down" \in Dirs /\ "up" # "down"
  BY DEF Dirs
<1>1. CASE Connected
  <2>1. Sent("down", Hello("down")) /\ Hello("down") \in Messages
    BY <1>0, <1>1, HelloTyped DEF Connected
  <2> QED BY <1>0, <1>1, <2>1, SentLast
<1>2. ASSUME NEW u \in DownThreads, SendDown(u)
      PROVE  sent'["up"] = sent["up"] /\ \E m \in Messages : sent'["down"] = Append(sent["down"], m)
  <2>1. PICK size \in Sizes : Sent("down", Message(u, size, "down"))
    BY <1>2 DEF SendDown
  <2>2. Message(u, size, "down") \in Messages
    BY <1>0 DEF Message, Messages
  <2> QED BY <1>0, <2>1, <2>2, SentLast
<1>3. CASE TakeBegin
  <2>1. c = "wait" /\ (UNCHANGED sent \/ (Sent("up", Hello("up")) /\ c' = "top"))
    BY <1>3 DEF TakeBegin
  <2> QED BY <1>0, <1>3, <2>1, HelloTyped, SentLast
<1>4. ASSUME NEW u \in Threads, EncryptPeer(u)
      PROVE  /\ Knows("up") /\ sent'["down"] = sent["down"]
             /\ sent'["up"] = sent["up"] \/ \E m \in Messages : sent'["up"] = Append(sent["up"], m)
  <2>1. PICK size \in Sizes : UNCHANGED sent \/ Sent("up", Message(u, size, "up"))
    BY <1>4 DEF EncryptPeer
  <2>2. Message(u, size, "up") \in Messages
    BY <1>0 DEF Message, Messages
  <2>3. Knows("up")
    BY <1>4 DEF EncryptPeer
  <2> QED BY <1>0, <2>1, <2>2, <2>3, SentLast
<1>5. CASE /\ ~Connected /\ ~TakeBegin /\ \A u \in DownThreads : ~SendDown(u)
           /\ \A u \in Threads : ~EncryptPeer(u)
  <2>1. UNCHANGED sent
    BY <1>5 DEF Next, EStep, CStep, Guard, vars, Establish, CreateWaiter, Begin, WaitFails,
         ConnectTimeout, Recv, RecvRaises, ConnectToPoint, Select, TakeDown, Rendezvous2, TakeUp, Die,
         Break, EncryptLink, Put
  <2> QED BY <2>1
<1> QED BY <1>1, <1>2, <1>3, <1>4, <1>5

LEMMA StagesKept ==
  ASSUME TypeOK, Opening, Begun, Stages, [Next]_vars PROVE Stages'
<1> USE DEF est, con, layers, data
<1>1. /\ sent["up"] # <<>> => sent'["up"] # <<>>
      /\ c' = "top" /\ c = "wait" => sent'["up"] # <<>>
  <2>1. sent'["up"] # sent["up"] => sent'["up"] # <<>>
    <3>1. sent["up"] \in Seq(Messages)
      BY DEF TypeOK, Dirs
    <3>2. \A m \in Messages : Append(sent["up"], m) # <<>>
      BY <3>1
    <3> QED BY <3>1, <3>2, SentApart
  <2>2. ASSUME c' = "top", c = "wait" PROVE sent'["up"] # <<>>
    <3>1. ASSUME TakeBegin PROVE Sent("up", Hello("up"))
      BY <2>2, <3>1 DEF TakeBegin, Retry
    <3>2. TakeBegin
      <4>1. (EStep \/ Guard \/ Break \/ UNCHANGED vars) => c' = c
        BY DEF EStep, Guard, vars, Establish, CreateWaiter, Begin, WaitFails, Connected,
               ConnectTimeout, Recv, RecvRaises, Rendezvous2, TakeUp, Break
      <4>2. \A u : SendDown(u) \/ EncryptPeer(u) \/ EncryptLink(u) \/ Put(u) => c' = c
        BY DEF SendDown, EncryptPeer, EncryptLink, Put
      <4>3. CStep \/ Die
        BY <2>2, <4>1, <4>2 DEF Next
      <4> QED BY <2>2, <4>3 DEF CStep, ConnectToPoint, Select, TakeDown, Die
    <3> QED BY <3>1, <3>2, HelloTyped, SentLast DEF Dirs
  <2> QED BY <2>1, <2>2
<1>2. \/ handled'["up"] = handled["up"]
      \/ e = "loop"
  BY HandledApart
<1>3. handled'["down"] = handled["down"] \/ c = "select"
  BY HandledApart
<1>4. CASE Establish
  <2>1. e = "start" /\ e' \in {"acked", "died"} /\ UNCHANGED <<stream, c>>
    BY <1>4 DEF Establish
  <2> QED BY <1>1, <1>2, <1>3, <2>1 DEF Stages
<1>5. CASE \/ CreateWaiter \/ WaitFails \/ Rendezvous2 \/ Recv \/ UNCHANGED vars
           \/ Break \/ (\E u \in DownThreads : SendDown(u))
           \/ (\E u \in Threads : EncryptPeer(u) \/ EncryptLink(u) \/ Put(u))
  <2>1. UNCHANGED <<stream, c>>
    BY <1>5 DEF CreateWaiter, WaitFails, Rendezvous2, Recv, vars, Break, SendDown,
         EncryptPeer, EncryptLink, Put
  <2>2. e' = e \/ (e = "acked" /\ e' = "wait") \/ (e = "wait" /\ e' = "died")
    BY <1>5 DEF CreateWaiter, WaitFails, Rendezvous2, Recv, vars, Break, SendDown,
         EncryptPeer, EncryptLink, Put
  <2> QED BY <1>1, <1>2, <1>3, <2>1, <2>2 DEF Stages
<1>6. CASE Begin
  <2>1. e = "wait" /\ e' = "opening" /\ stream' = "connecting" /\ UNCHANGED c
    BY <1>6 DEF Begin
  <2> QED BY <1>1, <1>2, <1>3, <2>1 DEF Stages
<1>7. CASE Connected
  <2>1. e = "opening" /\ e' = "loop" /\ stream = "connected" /\ UNCHANGED <<stream, c>>
    BY <1>7 DEF Connected
  <2> QED BY <1>1, <1>2, <1>3, <2>1 DEF Stages
<1>8. CASE ConnectTimeout \/ RecvRaises
  <2>1. e' \in {"died", "ended"} /\ stream' = "closed" /\ c' = c
    <3>1. ASSUME NEW newE, CloseAll(newE) PROVE e' = newE /\ stream' = "closed"
      BY <3>1, CloseTyped
    <3>2. CASE ConnectTimeout
      BY <3>1, <3>2 DEF ConnectTimeout
    <3>3. CASE RecvRaises
      BY <3>1, <3>3 DEF RecvRaises
    <3> QED BY <1>8, <3>2, <3>3
  <2> QED BY <1>1, <1>2, <1>3, <2>1 DEF Stages
<1>9. CASE TakeUp
  <2>1. /\ UNCHANGED <<e, c>>
        /\ \/ stream' = stream \/ stream' = "closed"
           \/ stream \in {"connecting", "connected"} /\ stream' = "connected"
    BY <1>9 DEF TakeUp
  <2>2. e # "loop" \/ stream' \in {"connected", "closed"}
    BY <2>1 DEF Stages
  <2> QED BY <1>1, <1>2, <1>3, <2>1, <2>2 DEF Stages
<1>10. CASE ConnectToPoint
  <2>1. c = "connect" /\ c' \in {"wait", "connect", "gone"} /\ UNCHANGED <<e, stream>>
    BY <1>10 DEF ConnectToPoint, Retry
  <2> QED BY <1>1, <1>2, <1>3, <2>1 DEF Stages
<1>11. CASE TakeBegin
  <2>1. /\ c = "wait" /\ UNCHANGED <<e, stream>> /\ wire["down"] # <<>>
        /\ \/ c' \in {"connect", "gone"}
           \/ c' \in {"top", "died"} /\ Head(wire["down"]).kind # "GONE"
    BY <1>11 DEF TakeBegin, Retry
  <2>2. stream = "none" => Head(wire["down"]).kind = "GONE"
    <3>1. Head(wire["down"]) = wire["down"][1] /\ 1 \in 1..Len(wire["down"])
      BY <2>1, PopTyped DEF Dirs
    <3> QED BY <3>1 DEF Opening
  <2> QED BY <1>1, <1>2, <1>3, <2>1, <2>2 DEF Stages
<1>12. CASE Select \/ Die \/ TakeDown
  <2>1. c \in {"top", "select"} /\ c' \in {"top", "select", "ended"} /\ UNCHANGED <<e, stream>>
    BY <1>12 DEF Select, Die, TakeDown, EndLoop
  <2> QED BY <1>1, <1>2, <1>3, <2>1 DEF Stages
<1> QED BY <1>4, <1>5, <1>6, <1>7, <1>8, <1>9, <1>10, <1>11, <1>12 DEF Next, EStep, CStep, Guard

(* What each step does to the wire to the establisher. *)
LEMMA UpWireApart ==
  ASSUME TypeOK, [Next]_vars
  PROVE  \/ wire'["up"] = wire["up"]
         \/ TakeUp \/ (TakeBegin /\ c' = "top") \/ (\E u \in Threads : Put(u)) \/ Break
<1> USE DEF est, con, layers, data
<1>0. "up" \in Dirs /\ "down" \in Dirs /\ "up" # "down" /\ wire \in [Dirs -> Seq(CellsOfAnyKind)]
  BY DEF Dirs, TypeOK
<1>1. ASSUME NEW cells, Down(cells) PROVE wire'["up"] = wire["up"]
  BY <1>0, <1>1 DEF Down
<1>2. CASE Begin \/ Connected \/ \E u \in DownThreads : SendDown(u)
  <2>1. \E cells : Down(cells)
    BY <1>2 DEF Begin, Connected, SendDown
  <2> QED BY <1>1, <2>1
<1>3. CASE ConnectTimeout \/ RecvRaises
  <2>1. ASSUME NEW newE, CloseAll(newE) PROVE wire'["up"] = wire["up"]
    BY <2>1, CloseTyped
  <2> QED BY <1>3, <2>1 DEF ConnectTimeout, RecvRaises
<1>4. CASE TakeBegin \/ TakeDown
  <2>1. (TakeBegin /\ c' = "top") \/ (wire["down"] # <<>> /\ Pop("down"))
    BY <1>4 DEF TakeBegin, TakeDown
  <2> QED BY <1>0, <2>1, PoppedTyped
<1>5. CASE \/ Establish \/ CreateWaiter \/ WaitFails \/ Recv \/ Rendezvous2 \/ Select \/ Die
           \/ ConnectToPoint \/ UNCHANGED vars \/ \E u \in Threads : EncryptPeer(u) \/ EncryptLink(u)
  BY <1>5 DEF Establish, CreateWaiter, WaitFails, Recv, Rendezvous2, Select, Die, ConnectToPoint, vars,
              EncryptPeer, EncryptLink
<1> QED BY <1>2, <1>3, <1>4, <1>5 DEF Next, EStep, CStep, Guard

LEMMA UnsentKept ==
  ASSUME TypeOK, Unsent, Stages, [Next]_vars PROVE Unsent'
<1> USE DEF est, con, layers, data
<1>1. SUFFICES ASSUME c' \in {"connect", "wait", "gone"}
      PROVE  /\ handled'["down"] = <<>> /\ sent'["up"] = <<>> /\ \A u \in Threads : snd'[u].pc = "idle"
             /\ \A i \in 1..Len(wire'["up"]) : wire'["up"][i].kind = "GONE"
  BY DEF Unsent
<1>2. c \in {"connect", "wait", "gone"}
  BY <1>1 DEF Next, EStep, CStep, Guard, vars, Establish, CreateWaiter, Begin, WaitFails, Connected,
         ConnectTimeout, Recv, RecvRaises, ConnectToPoint, TakeBegin, Select, TakeDown, EndLoop,
         Rendezvous2, TakeUp, Die, Break, SendDown, EncryptPeer, EncryptLink, Put
<1>3. /\ handled["down"] = <<>> /\ sent["up"] = <<>> /\ \A u \in Threads : snd[u].pc = "idle"
      /\ \A i \in 1..Len(wire["up"]) : wire["up"][i].kind = "GONE"
  BY <1>2 DEF Unsent
<1>4. handled'["down"] = <<>>
  BY <1>1, <1>3, HandledApart
<1>5. ~Knows("up")
  BY <1>3 DEF Knows
<1>6. sent'["up"] = <<>>
  BY <1>1, <1>3, <1>5, SentApart
<1>7. \A u \in Threads : ~EncryptPeer(u) /\ ~EncryptLink(u) /\ ~Put(u)
  BY <1>3, <1>5 DEF EncryptPeer, EncryptLink, Put
<1>8. UNCHANGED snd
  BY <1>7 DEF Next, EStep, CStep, Guard, vars, Establish, CreateWaiter, Begin, WaitFails, Connected,
         ConnectTimeout, Recv, RecvRaises, ConnectToPoint, TakeBegin, Select, TakeDown,
         Rendezvous2, TakeUp, Die, Break, SendDown
<1>9. ASSUME NEW i \in 1..Len(wire'["up"]) PROVE wire'["up"][i].kind = "GONE"
  <2>1. CASE wire'["up"] = wire["up"]
    BY <1>3, <2>1
  <2>2. CASE TakeUp
    <3>1. "up" \in Dirs /\ wire["up"] # <<>> /\ Pop("up")
      BY <2>2 DEF TakeUp, Dirs
    <3>2. wire'["up"] = Tail(wire["up"])
      BY <3>1, PoppedTyped
    <3>3. /\ Len(wire["up"]) \in Nat /\ Len(wire'["up"]) = Len(wire["up"]) - 1
          /\ wire'["up"][i] = wire["up"][i + 1]
      BY <3>1, <3>2, PopTyped
    <3>4. i + 1 \in 1..Len(wire["up"])
      BY <3>3
    <3> QED BY <1>3, <3>3, <3>4
  <2>3. CASE Break
    <3>0. "up" \in Dirs
      BY DEF Dirs
    <3>1. PICK last \in {Destroy, Closed} : wire'["up"] = Append(wire["up"], last)
      BY <2>3, <3>0, BreakWire
    <3>4. wire["up"] \in Seq(CellsOfAnyKind) /\ last.kind = "GONE"
      BY <3>0, EndingTyped DEF TypeOK
    <3>2. CASE i \in 1..Len(wire["up"])
      BY <1>3, <3>1, <3>2, <3>4
    <3>3. CASE i = Len(wire["up"]) + 1
      BY <3>1, <3>3, <3>4
    <3> QED BY <3>1, <3>2, <3>3, <3>4
  <2> QED BY <1>1, <1>7, <2>1, <2>2, <2>3, UpWireApart
<1> QED BY <1>3, <1>4, <1>6, <1>8, <1>9

LEMMA CutKept ==
  ASSUME TypeOK, Opening, InStep, Stages, Unsent, Cut, [Next]_vars PROVE Cut'
<1> USE DEF est, con, layers, data
<1>0. "up" \in Dirs /\ "down" \in Dirs /\ "up" # "down" /\ wire \in [Dirs -> Seq(CellsOfAnyKind)]
  BY DEF Dirs, TypeOK
<1>1. \A d \in Dirs : point # "closed" => ~Stopped(d)
  BY DEF InStep, Whole, Stopped
(* A DESTROY stays on a wire unless it is the one that is taken. *)
<1>2. ASSUME NEW d \in Dirs, Stopped(d),
             \/ wire'[d] = wire[d]
             \/ wire[d] # <<>> /\ wire'[d] = Tail(wire[d]) /\ Head(wire[d]).kind # "GONE"
             \/ \E cells \in Seq(CellsOfAnyKind) : wire'[d] = wire[d] \o cells
      PROVE  Stopped(d)'
  <2>1. PICK i \in 1..Len(wire[d]) : wire[d][i].kind = "GONE"
    BY <1>2 DEF Stopped
  <2>2. CASE wire'[d] = wire[d]
    BY <1>2, <2>2 DEF Stopped
  <2>3. CASE wire[d] # <<>> /\ wire'[d] = Tail(wire[d]) /\ Head(wire[d]).kind # "GONE"
    <3>1. /\ Len(wire[d]) \in Nat /\ Len(wire'[d]) = Len(wire[d]) - 1 /\ Head(wire[d]) = wire[d][1]
          /\ \A k \in 1..Len(wire'[d]) : wire'[d][k] = wire[d][k + 1]
      BY <2>3, PopTyped
    <3>2. i # 1
      BY <2>1, <2>3, <3>1
    <3>3. i - 1 \in 1..Len(wire'[d]) /\ (i - 1) + 1 = i
      BY <3>1, <3>2
    <3> QED BY <2>1, <3>1, <3>3 DEF Stopped
  <2>4. ASSUME NEW cells \in Seq(CellsOfAnyKind), wire'[d] = wire[d] \o cells PROVE Stopped(d)'
    <3>1. wire[d] \in Seq(CellsOfAnyKind)
      BY <1>0
    <3>2. i \in 1..Len(wire'[d]) /\ wire'[d][i] = wire[d][i]
      BY <2>4, <3>1
    <3> QED BY <2>1, <3>2 DEF Stopped
  <2> QED BY <1>2, <2>2, <2>3, <2>4
<1>3. ASSUME NEW d \in Dirs, NEW last \in {Destroy, Closed}, wire'[d] = Append(wire[d], last) PROVE Stopped(d)'
  <2>1. wire[d] \in Seq(CellsOfAnyKind) /\ Len(wire[d]) \in Nat
    BY <1>0
  <2>2. Len(wire[d]) + 1 \in 1..Len(wire'[d]) /\ wire'[d][Len(wire[d]) + 1] = last
    BY <1>3, <2>1
  <2> QED BY <2>2, EndingTyped DEF Stopped
<1>4. CASE \/ Establish \/ CreateWaiter \/ WaitFails \/ Recv \/ Rendezvous2 \/ Select \/ Die
           \/ ConnectToPoint \/ UNCHANGED vars
  <2>1. UNCHANGED <<wire, stream>>
    BY <1>4 DEF Establish, CreateWaiter, WaitFails, Recv, Rendezvous2, Select, Die, ConnectToPoint, vars
  <2>2. /\ c' \in {"wait", "top", "select"} => c \in {"wait", "top", "select"} \/ point' = "joined"
        /\ point' \in {"none", "waiting"} /\ c' \notin {"connect", "gone"} =>
             point \in {"none", "waiting"} /\ c \notin {"connect", "gone"}
        /\ point' = "closed" <=> point = "closed"
    <3>1. CASE Establish
      <4>1. point = "none" /\ point' \in {"none", "waiting"} /\ c' = c
        BY <1>4, <3>1 DEF Establish, InStep, Begun
      <4> QED BY <4>1
    <3>2. CASE CreateWaiter \/ WaitFails \/ Recv \/ Rendezvous2 \/ UNCHANGED vars
      BY <3>2 DEF CreateWaiter, WaitFails, Recv, Rendezvous2, vars
    <3>3. CASE Select \/ Die
      <4>1. c = "top" /\ point' = point
        BY <3>3 DEF Select, Die
      <4>2. point \notin {"none", "waiting"}
        BY <4>1 DEF Cut
      <4> QED BY <4>1, <4>2
    <3>4. CASE ConnectToPoint
      <4>1. \/ point = "waiting" /\ point' = "joined"
            \/ point' = point /\ c' \in {"connect", "gone"}
        BY <3>4 DEF ConnectToPoint, Retry
      <4> QED BY <4>1
    <3> QED BY <1>4, <3>1, <3>2, <3>3, <3>4
  <2>3. Stopped("up")' = Stopped("up") /\ Stopped("down")' = Stopped("down")
    BY <2>1 DEF Stopped
  <2> QED BY <2>1, <2>2, <2>3 DEF Cut
<1>5. CASE Begin \/ Connected \/ \E u \in DownThreads : SendDown(u)
  <2>1. UNCHANGED <<point, c>> /\ stream' # "closed" /\ stream # "closed"
    BY <1>5 DEF Begin, Connected, SendDown
  <2>2. wire'["up"] = wire["up"]
    BY <1>0, <1>5, UpWireApart DEF Begin, Connected, SendDown, Down
  <2>3. \E cells \in Seq(CellsOfAnyKind) : wire'["down"] = wire["down"] \o cells
    <3>1. ASSUME SendsDown PROVE \E cells \in Seq(CellsOfAnyKind) : wire'["down"] = wire["down"] \o cells
      BY <3>1, DownTyped DEF SendsDown
    <3>2. SendsDown
      BY <1>5, StepsDown
    <3> QED BY <3>1, <3>2
  <2> QED BY <1>0, <1>2, <2>1, <2>2, <2>3 DEF Cut
<1>6. CASE ConnectTimeout \/ RecvRaises
  <2>0. c' = c /\ stream' = "closed"
    <3>1. ASSUME NEW newE, CloseAll(newE) PROVE stream' = "closed"
      BY <3>1, CloseTyped
    <3> QED BY <1>6, <3>1 DEF ConnectTimeout, RecvRaises
  <2>1. CASE stream = "closed" /\ UNCHANGED <<stream, wire, point>>
    BY <1>0, <1>2, <2>0, <2>1 DEF Cut
  <2>2. ASSUME NEW newE, CloseAll(newE) PROVE Cut'
    <3>1. PICK cells \in Seq(CellsOfAnyKind) :
            /\ wire'["down"] = wire["down"] \o cells
            /\ point = "joined" => \E i \in 1..Len(cells) : cells[i].kind = "GONE"
      BY <2>2, CloseTyped
    <3>2. point' = "closed"
      BY <2>2, CloseTyped
    <3>3. stream # "none"
      BY <1>6 DEF Stages, ConnectTimeout, RecvRaises
    <3>4. point \in {"joined", "closed"}
      BY <3>3 DEF TypeOK, InStep, Begun
    <3>5. ASSUME point = "joined" PROVE Stopped("down")'
      <4>1. PICK i \in 1..Len(cells) : cells[i].kind = "GONE"
        BY <3>1, <3>5
      <4>2. wire["down"] \in Seq(CellsOfAnyKind)
        BY <1>0
      <4>3. Len(wire["down"]) + i \in 1..Len(wire'["down"]) /\ wire'["down"][Len(wire["down"]) + i] = cells[i]
        BY <3>1, <4>1, <4>2
      <4> QED BY <4>1, <4>3 DEF Stopped
    <3>6. ASSUME point = "closed", Stopped("down") PROVE Stopped("down")'
      BY <1>0, <1>2, <3>1, <3>6
    <3> QED BY <2>0, <3>2, <3>4, <3>5, <3>6 DEF Cut
  <2> QED BY <1>6, <2>1, <2>2 DEF ConnectTimeout, RecvRaises
<1>7. CASE TakeUp
  <2>1. /\ wire["up"] # <<>> /\ Pop("up") /\ UNCHANGED <<point, c>>
        /\ \/ Head(wire["up"]).kind = "GONE" /\ stream' = "closed"
           \/ Head(wire["up"]).kind # "GONE" /\ (stream' = "closed" <=> stream = "closed")
    BY <1>7 DEF TakeUp
  <2>2. wire'["up"] = Tail(wire["up"]) /\ wire'["down"] = wire["down"]
    BY <1>0, <2>1, PoppedTyped
  <2>3. Stopped("down")' = Stopped("down")
    BY <2>2 DEF Stopped
  <2>4. CASE Head(wire["up"]).kind = "GONE" /\ stream' = "closed"
    <3>1. Stopped("up")
      <4>1. Head(wire["up"]) = wire["up"][1] /\ 1 \in 1..Len(wire["up"])
        BY <1>0, <2>1, PopTyped
      <4> QED BY <2>4, <4>1 DEF Stopped
    <3>2. point = "closed"
      BY <1>0, <1>1, <3>1
    <3> QED BY <2>1, <2>3, <2>4, <3>2 DEF Cut
  <2>5. CASE Head(wire["up"]).kind # "GONE" /\ (stream' = "closed" <=> stream = "closed")
    <3>1. Stopped("up") => Stopped("up")'
      BY <1>0, <1>2, <2>1, <2>2, <2>5
    <3> QED BY <2>1, <2>3, <2>5, <3>1 DEF Cut
  <2> QED BY <2>1, <2>4, <2>5
<1>8. CASE TakeBegin \/ TakeDown
  <2>1. /\ wire["down"] # <<>> /\ UNCHANGED <<point, stream>> /\ c \in {"wait", "select"}
        /\ \/ c' \notin {"wait", "top", "select"} \/ Head(wire["down"]).kind # "GONE"
    BY <1>8 DEF TakeBegin, TakeDown, Retry, EndLoop
  <2>2. wire'["down"] = Tail(wire["down"])
    <3>1. CASE Pop("down")
      BY <1>0, <2>1, <3>1, PoppedTyped
    <3>2. CASE \E cells : Up(cells)
      BY <1>0, <3>2 DEF Up
    <3> QED BY <1>8, <3>1, <3>2 DEF TakeBegin, TakeDown
  <2>3. Stopped("up") => Stopped("up")'
    <3>1. CASE Pop("down")
      <4>1. wire'["up"] = wire["up"]
        BY <1>0, <2>1, <3>1, PoppedTyped
      <4> QED BY <1>0, <1>2, <4>1
    <3>2. CASE Answers
      <4> DEFINE cells == <<Control("CONNECTED", enc["up"])>> \o Cells("DATA", Hello("up"), enc["up"] + 1)
      <4>1. cells \in Seq(CellsOfAnyKind)
        BY AnswerTyped
      <4>2. Up(cells)
        BY <3>2 DEF Answers
      <4> HIDE DEF cells
      <4>3. wire'["up"] = wire["up"] \o cells
        BY <2>1, <4>1, <4>2, UpTyped
      <4> QED BY <1>0, <1>2, <4>1, <4>3
    <3> QED BY <1>8, <3>1, <3>2 DEF TakeBegin, TakeDown, Answers
  <2>4. Stopped("down") /\ Head(wire["down"]).kind # "GONE" => Stopped("down")'
    BY <1>0, <1>2, <2>1, <2>2
  <2> QED BY <2>1, <2>3, <2>4 DEF Cut
<1>9. CASE \E u \in Threads : EncryptPeer(u) \/ EncryptLink(u) \/ Put(u)
  <2>1. UNCHANGED <<point, stream, c>>
    BY <1>9 DEF EncryptPeer, EncryptLink, Put
  <2>2. /\ wire'["down"] = wire["down"]
        /\ wire'["up"] = wire["up"] \/ \E cell \in CellsOfAnyKind : wire'["up"] = wire["up"] \o <<cell>>
    BY <1>9, SenderWire
  <2>3. \A cell \in CellsOfAnyKind : <<cell>> \in Seq(CellsOfAnyKind)
    OBVIOUS
  <2>4. wire'["up"] = wire["up"] \/ \E cells \in Seq(CellsOfAnyKind) : wire'["up"] = wire["up"] \o cells
    BY <2>2, <2>3
  <2> QED BY <1>0, <1>2, <2>1, <2>2, <2>4 DEF Cut
<1>10. CASE Break
  <2>1. point' = "closed" /\ UNCHANGED <<stream, c>>
    BY <1>10 DEF Break, est, con
  <2>3. \A d \in Dirs : \E last \in {Destroy, Closed} : wire'[d] = Append(wire[d], last)
    BY <1>10, BreakWire
  <2>2. Stopped("up")' /\ Stopped("down")'
    BY <1>0, <1>3, <2>3
  <2> QED BY <2>1, <2>2 DEF Cut
<1> QED BY <1>4, <1>5, <1>6, <1>7, <1>8, <1>9, <1>10 DEF Next, EStep, CStep, Guard

LEMMA NumberedKept ==
  ASSUME TypeOK, Unsent, Stages, Numbered, [Next]_vars PROVE Numbered'
<1> USE DEF est, con, layers, data
<1>0. /\ "up" \in Dirs /\ "down" \in Dirs /\ "up" # "down" /\ enc \in [Dirs -> Nat]
      /\ sent["up"] \in Seq(Messages) /\ Len(sent["up"]) \in Nat
  BY DEF Dirs, TypeOK
<1>1. CASE Answers /\ c = "wait" /\ Sent("up", Hello("up"))
  <2> DEFINE cells == <<Control("CONNECTED", enc["up"])>> \o Cells("DATA", Hello("up"), enc["up"] + 1)
  <2>1. sent["up"] = <<>> /\ enc["up"] = 0
    BY <1>1 DEF Unsent, Numbered
  <2>2. cells \in Seq(CellsOfAnyKind) /\ Len(cells) = 2
    BY <2>1, AnswerCells
  <2>3. Up(cells) /\ wire["down"] # <<>>
    BY <1>1 DEF Answers
  <2> HIDE DEF cells
  <2>4. enc'["up"] = 2
    <3>1. enc'["up"] = enc["up"] + Len(cells)
      BY <2>2, <2>3, UpTyped
    <3> QED BY <2>1, <2>2, <3>1
  <2>5. sent'["up"] # <<>> /\ Len(sent'["up"]) = 1
    <3>1. Len(sent["up"]) = 0
      BY <2>1
    <3>2. sent'["up"] # <<>> /\ Len(sent'["up"]) = Len(sent["up"]) + 1
      BY <1>0, <1>1, HelloTyped, SentLast
    <3> QED BY <3>1, <3>2
  <2> QED BY <2>4, <2>5 DEF Numbered
<1>2. ASSUME NEW u \in Threads, EncryptPeer(u) PROVE Numbered'
  <2>1. sent["up"] # <<>>
    <3>1. handled["down"] # <<>>
      BY <1>2 DEF EncryptPeer, Knows
    <3> QED BY <3>1 DEF Stages
  <2>2. PICK size \in Sizes :
          \/ UNCHANGED <<enc, sent>>
          \/ enc' = [enc EXCEPT !["up"] = @ + 1] /\ Sent("up", Message(u, size, "up"))
    BY <1>2 DEF EncryptPeer
  <2>3. CASE UNCHANGED <<enc, sent>>
    BY <2>3 DEF Numbered
  <2>4. CASE enc' = [enc EXCEPT !["up"] = @ + 1] /\ Sent("up", Message(u, size, "up"))
    <3>1. Message(u, size, "up") \in Messages
      BY <1>0 DEF Message, Messages
    <3>2. sent'["up"] # <<>> /\ Len(sent'["up"]) = Len(sent["up"]) + 1
      BY <1>0, <2>4, <3>1, SentLast
    <3>3. enc'["up"] = enc["up"] + 1 /\ enc["up"] = 1 + Len(sent["up"])
      BY <1>0, <2>1, <2>4 DEF Numbered
    <3> QED BY <1>0, <3>2, <3>3 DEF Numbered
  <2> QED BY <2>2, <2>3, <2>4
<1>3. CASE sent'["up"] = sent["up"] /\ enc'["up"] = enc["up"]
  BY <1>3 DEF Numbered
<1>4. ASSUME NEW cells, Down(cells) PROVE enc'["up"] = enc["up"]
  BY <1>0, <1>4 DEF Down
<1>5. CASE Begin \/ Connected \/ (\E u \in DownThreads : SendDown(u)) \/ ConnectTimeout \/ RecvRaises
  <2>1. sent'["up"] = sent["up"]
    BY <1>0, <1>5, SentApart DEF Begin, Connected, SendDown, ConnectTimeout, RecvRaises, Sent, TypeOK
  <2>2. enc'["up"] = enc["up"]
    <3>1. ASSUME NEW newE, CloseAll(newE) PROVE enc'["up"] = enc["up"]
      BY <1>0, <3>1 DEF CloseAll
    <3> QED BY <1>4, <1>5, <3>1 DEF Begin, Connected, SendDown, ConnectTimeout, RecvRaises
  <2> QED BY <2>1, <2>2 DEF Numbered
<1>6. CASE TakeBegin
  <2>1. UNCHANGED <<enc, sent>> \/ (Answers /\ c = "wait" /\ Sent("up", Hello("up")))
    BY <1>6 DEF TakeBegin, Answers
  <2> QED BY <1>1, <2>1 DEF Numbered
<1>7. CASE \/ Establish \/ CreateWaiter \/ WaitFails \/ Recv \/ Rendezvous2 \/ TakeUp \/ Select \/ Die
           \/ TakeDown \/ ConnectToPoint \/ Break \/ UNCHANGED vars
           \/ \E u \in Threads : EncryptLink(u) \/ Put(u)
  <2>1. UNCHANGED <<enc, sent>>
    BY <1>7 DEF Establish, CreateWaiter, WaitFails, Recv, Rendezvous2, TakeUp, Select, Die, TakeDown,
         ConnectToPoint, Break, vars, EncryptLink, Put
  <2> QED BY <2>1 DEF Numbered
<1> QED BY <1>2, <1>5, <1>6, <1>7 DEF Next, EStep, CStep, Guard

(***************************************************************************)
(* What the cells of a clean channel say: a DATA cell holds the message its *)
(* number says (Fits), and, up to a DESTROY, their numbers follow each      *)
(* other (InSequence).  What is taken is the beginning of what was sent.    *)
(***************************************************************************)
Fits(cell, msgs) ==
  cell.kind = "DATA" =>
    cell.whole /\ cell.peer \in 1..Len(msgs) /\ cell.bytes = WholeMessage(msgs[cell.peer])

Carried(cells, msgs) == \A i \in 1..Len(cells) : Fits(cells[i], msgs)

InSequence(cells, first) ==
  \A i \in 1..Len(cells) :
    (\A j \in 1..i : cells[j].kind # "GONE") => cells[i].peer = first + i - 1

TakenFrom(taken, msgs) ==
  Len(taken) <= Len(msgs) /\ \A k \in 1..Len(taken) : taken[k] = msgs[k]

LEMMA CarriedMore ==
  ASSUME NEW cells \in Seq(CellsOfAnyKind), NEW msgs \in Seq(Messages), NEW m \in Messages,
         Carried(cells, msgs)
  PROVE  Carried(cells, Append(msgs, m))
<1>1. SUFFICES ASSUME NEW i \in 1..Len(cells), cells[i].kind = "DATA"
      PROVE  /\ cells[i].whole /\ cells[i].peer \in 1..Len(Append(msgs, m))
             /\ cells[i].bytes = WholeMessage(Append(msgs, m)[cells[i].peer])
  BY DEF Carried, Fits
<1>2. /\ cells[i].whole /\ cells[i].peer \in 1..Len(msgs)
      /\ cells[i].bytes = WholeMessage(msgs[cells[i].peer])
  BY <1>1 DEF Carried, Fits
<1>3. Len(Append(msgs, m)) = Len(msgs) + 1 /\ Append(msgs, m)[cells[i].peer] = msgs[cells[i].peer]
  BY <1>2
<1> QED BY <1>2, <1>3

LEMMA CarriedAppended ==
  ASSUME NEW a \in Seq(CellsOfAnyKind), NEW b \in Seq(CellsOfAnyKind), NEW msgs,
         Carried(a, msgs), Carried(b, msgs)
  PROVE  Carried(a \o b, msgs)
<1>1. SUFFICES ASSUME NEW i \in 1..Len(a \o b) PROVE Fits((a \o b)[i], msgs)
  BY DEF Carried
<1>2. CASE i \in 1..Len(a)
  <2>1. (a \o b)[i] = a[i]
    BY <1>2
  <2> QED BY <1>2, <2>1 DEF Carried
<1>3. CASE i \notin 1..Len(a)
  <2>1. (a \o b)[i] = b[i - Len(a)] /\ i - Len(a) \in 1..Len(b)
    BY <1>3
  <2> QED BY <2>1 DEF Carried
<1> QED BY <1>2, <1>3

LEMMA CarriedTail ==
  ASSUME NEW cells \in Seq(CellsOfAnyKind), cells # <<>>, NEW msgs, Carried(cells, msgs)
  PROVE  Fits(Head(cells), msgs) /\ Carried(Tail(cells), msgs)
<1>1. /\ Len(Tail(cells)) = Len(cells) - 1 /\ Len(cells) \in Nat /\ Len(cells) >= 1
      /\ \A i \in 1..Len(Tail(cells)) : Tail(cells)[i] = cells[i + 1] /\ i + 1 \in 1..Len(cells)
  BY HeadTailProperties
<1>2. Head(cells) = cells[1] /\ 1 \in 1..Len(cells)
  BY <1>1
<1> QED BY <1>1, <1>2 DEF Carried

LEMMA SequenceAppended ==
  ASSUME NEW a \in Seq(CellsOfAnyKind), NEW b \in Seq(CellsOfAnyKind), NEW first \in Nat,
         InSequence(a, first),
         (\A i \in 1..Len(a) : a[i].kind # "GONE") => InSequence(b, first + Len(a))
  PROVE  InSequence(a \o b, first)
<1>1. SUFFICES ASSUME NEW i \in 1..Len(a \o b), \A j \in 1..i : (a \o b)[j].kind # "GONE"
      PROVE  (a \o b)[i].peer = first + i - 1
  BY DEF InSequence
<1>2. /\ Len(a) \in Nat /\ Len(b) \in Nat /\ Len(a \o b) = Len(a) + Len(b)
      /\ \A k \in 1..Len(a) : (a \o b)[k] = a[k]
      /\ \A k \in 1..Len(b) : (a \o b)[Len(a) + k] = b[k]
  OBVIOUS
<1>3. CASE i <= Len(a)
  <2>1. \A j \in 1..i : j \in 1..Len(a) /\ (a \o b)[j] = a[j]
    BY <1>2, <1>3
  <2>2. i \in 1..Len(a) /\ i \in 1..i
    BY <1>2, <1>3
  <2> QED BY <1>1, <2>1, <2>2 DEF InSequence
<1>4. CASE i > Len(a)
  <2>1. PICK k \in 1..Len(b) : i = Len(a) + k
    <3>1. i - Len(a) \in 1..Len(b) /\ i = Len(a) + (i - Len(a))
      BY <1>2, <1>4
    <3> QED BY <3>1
  <2>2. \A j \in 1..Len(a) : a[j].kind # "GONE"
    <3>1. ASSUME NEW j \in 1..Len(a) PROVE j \in 1..i
      BY <1>2, <1>4
    <3> QED BY <1>1, <1>2, <3>1
  <2>3. \A j \in 1..k : b[j].kind # "GONE"
    <3>1. ASSUME NEW j \in 1..k PROVE j \in 1..Len(b) /\ Len(a) + j \in 1..i
      BY <1>2, <2>1
    <3> QED BY <1>1, <1>2, <3>1
  <2>4. b[k].peer = first + Len(a) + k - 1
    BY <2>2, <2>3 DEF InSequence
  <2>5. first + i - 1 = first + Len(a) + k - 1
    BY <1>2, <2>1
  <2>6. (a \o b)[i] = b[k]
    BY <1>2, <2>1
  <2> QED BY <2>4, <2>5, <2>6
<1> QED BY <1>2, <1>3, <1>4

LEMMA SequenceTail ==
  ASSUME NEW cells \in Seq(CellsOfAnyKind), cells # <<>>, NEW first \in Nat,
         InSequence(cells, first), Head(cells).kind # "GONE"
  PROVE  Head(cells).peer = first /\ InSequence(Tail(cells), first + 1)
<1>1. /\ Len(Tail(cells)) = Len(cells) - 1 /\ Len(cells) \in Nat /\ Len(cells) >= 1
      /\ \A i \in 1..Len(Tail(cells)) : Tail(cells)[i] = cells[i + 1]
  BY HeadTailProperties
<1>2. Head(cells) = cells[1] /\ 1 \in 1..Len(cells) /\ \A j \in 1..1 : j = 1
  BY <1>1
<1>3. Head(cells).peer = first
  <2>1. cells[1].peer = first + 1 - 1
    BY <1>2 DEF InSequence
  <2> QED BY <1>2, <2>1
<1>4. ASSUME NEW i \in 1..Len(Tail(cells)), \A j \in 1..i : Tail(cells)[j].kind # "GONE"
      PROVE  Tail(cells)[i].peer = first + 1 + i - 1
  <2>1. i + 1 \in 1..Len(cells)
    BY <1>1
  <2>2. ASSUME NEW j \in 1..(i + 1) PROVE cells[j].kind # "GONE"
    <3>1. CASE j = 1
      BY <1>2, <3>1
    <3>2. CASE j # 1
      <4>1. j - 1 \in 1..i /\ j - 1 \in 1..Len(Tail(cells)) /\ (j - 1) + 1 = j
        BY <1>1, <3>2
      <4> QED BY <1>1, <1>4, <4>1
    <3> QED BY <3>1, <3>2
  <2>3. cells[i + 1].peer = first + (i + 1) - 1
    BY <2>1, <2>2 DEF InSequence
  <2>4. first + (i + 1) - 1 = first + 1 + i - 1
    BY <1>1
  <2> QED BY <1>1, <2>3, <2>4
<1> QED BY <1>3, <1>4 DEF InSequence

LEMMA TakenMore ==
  ASSUME NEW taken \in Seq(Messages), NEW msgs \in Seq(Messages), NEW m \in Messages,
         TakenFrom(taken, msgs)
  PROVE  TakenFrom(taken, Append(msgs, m))
<1>1. Len(Append(msgs, m)) = Len(msgs) + 1 /\ \A k \in 1..Len(msgs) : Append(msgs, m)[k] = msgs[k]
  OBVIOUS
<1>2. \A k \in 1..Len(taken) : k \in 1..Len(msgs)
  BY DEF TakenFrom
<1> QED BY <1>1, <1>2 DEF TakenFrom

LEMMA TakenNext ==
  ASSUME NEW taken \in Seq(Messages), NEW msgs \in Seq(Messages), TakenFrom(taken, msgs),
         Len(taken) + 1 <= Len(msgs)
  PROVE  /\ TakenFrom(Append(taken, msgs[Len(taken) + 1]), msgs)
         /\ Len(Append(taken, msgs[Len(taken) + 1])) = Len(taken) + 1
<1> DEFINE m == msgs[Len(taken) + 1]
<1>1. m \in Messages
  OBVIOUS
<1> HIDE DEF m
<1>2. /\ Len(Append(taken, m)) = Len(taken) + 1 /\ Append(taken, m)[Len(taken) + 1] = m
      /\ \A k \in 1..Len(taken) : Append(taken, m)[k] = taken[k]
  BY <1>1
<1>3. \A k \in 1..(Len(taken) + 1) : k \in 1..Len(taken) \/ k = Len(taken) + 1
  OBVIOUS
<1>4. \A k \in 1..(Len(taken) + 1) : Append(taken, m)[k] = msgs[k]
  BY <1>2, <1>3 DEF TakenFrom, m
<1>5. TakenFrom(Append(taken, m), msgs)
  BY <1>2, <1>4 DEF TakenFrom
<1> QED BY <1>2, <1>5 DEF m

LEMMA TakenIsBeginning ==
  ASSUME NEW taken \in Seq(Messages), NEW msgs \in Seq(Messages), TakenFrom(taken, msgs)
  PROVE  Len(taken) <= Len(msgs) /\ taken = SubSeq(msgs, 1, Len(taken))
<1>1. Len(taken) \in Nat /\ Len(msgs) \in Nat /\ Len(taken) <= Len(msgs)
  BY DEF TakenFrom
<1>2. \A i \in 1..Len(taken) : i \in 1..Len(msgs) /\ msgs[i] \in Messages
  BY <1>1
<1>3. /\ SubSeq(msgs, 1, Len(taken)) \in Seq(Messages)
      /\ Len(SubSeq(msgs, 1, Len(taken))) = Len(taken)
      /\ \A i \in 1..Len(taken) : SubSeq(msgs, 1, Len(taken))[i] = msgs[i]
  BY <1>1, <1>2
<1>4. \A i \in 1..Len(taken) : taken[i] = SubSeq(msgs, 1, Len(taken))[i]
  BY <1>3 DEF TakenFrom
<1>5. taken = SubSeq(msgs, 1, Len(taken))
  BY <1>3, <1>4, SeqEqual
<1> QED BY <1>1, <1>5

(* One message, whole, is taken and nothing goes wrong. *)
LEMMA HandleWhole ==
  ASSUME TypeOK, NEW d \in Dirs, NEW m \in Messages, Handle(d, WholeMessage(m))
  PROVE  handled'[d] = Append(handled[d], m) /\ trouble' = trouble
<1>1. Loads(WholeMessage(m)) = {m} /\ Len(WholeMessage(m)) = m.size /\ m.size \in Nat
  BY LoadsWhole
<1>2. (CHOOSE x \in Loads(WholeMessage(m)) : TRUE) = m /\ Loads(WholeMessage(m)) # {}
  BY <1>1
<1>3. handled[d] \in Seq(Messages) /\ handled[d] \o <<m>> = Append(handled[d], m)
  BY AppendIsConcat DEF TypeOK
<1>4. handled'[d] = handled[d] \o <<m>>
  BY <1>2 DEF Handle, TypeOK
<1>5. trouble'= [trouble EXCEPT ![d] = @ \/ FALSE]
  <2>1. Loads(WholeMessage(m)) = {} \/ (\E x \in Loads(WholeMessage(m)) : x.size < Len(WholeMessage(m)))
           <=> FALSE
    BY <1>1, <1>2
  <2> QED BY <2>1 DEF Handle
<1>6. trouble' = trouble
  <2>1. trouble \in [Dirs -> BOOLEAN]
    BY DEF TypeOK
  <2> QED BY <1>5, <2>1
<1> QED BY <1>3, <1>4, <1>6

(***************************************************************************)
(* What holds of the way down as long as nothing went wrong there.          *)
(***************************************************************************)
DownIsClean ==
  /\ lost["down"] = 0
  /\ TakenFrom(handled["down"], sent["down"]) /\ Carried(wire["down"], sent["down"])
  /\ c \in {"wait", "top", "select"} => InSequence(wire["down"], dec["down"])
  /\ c = "wait" => dec["down"] = 0
  /\ c \in {"top", "select"} => dec["down"] = 1 + Len(handled["down"])
  /\ stream = "none" => enc["down"] = 0 /\ sent["down"] = <<>>
  /\ stream \in {"connecting", "connected"} => enc["down"] = 1 + Len(sent["down"])

DownClean == ~trouble["down"] => DownIsClean

LEMMA DownInit == Init => DownClean
<1> SUFFICES ASSUME Init PROVE DownIsClean
  BY DEF DownClean
<1>1. /\ lost["down"] = 0 /\ handled["down"] = <<>> /\ sent["down"] = <<>> /\ wire["down"] = <<>>
      /\ c = "connect" /\ stream = "none" /\ enc["down"] = 0
  BY DEF Init, Dirs
<1> QED BY <1>1 DEF DownIsClean, TakenFrom, Carried

(* Trouble does not go away. *)
LEMMA TroubleStays ==
  ASSUME TypeOK, NEW d \in Dirs, [Next]_vars, trouble[d] PROVE trouble'[d]
<1>0. trouble \in [Dirs -> BOOLEAN]
  BY DEF TypeOK
<1>1. CASE trouble' = trouble
  BY <1>1
<1>2. ASSUME NEW x \in Dirs, NEW y, trouble' = [trouble EXCEPT ![x] = @ \/ y] PROVE trouble'[d]
  BY <1>0, <1>2
<1>3. ASSUME NEW x \in Dirs, Trouble(x) PROVE trouble'[d]
  BY <1>0, <1>3 DEF Trouble
<1>4. "up" \in Dirs /\ "down" \in Dirs
  BY DEF Dirs
<1>5. CASE Recv
  BY <1>2, <1>4, <1>5 DEF Recv, Handle
<1>6. CASE TakeUp
  BY <1>1, <1>3, <1>4, <1>6 DEF TakeUp, Decrypt
<1>7. CASE TakeBegin
  BY <1>1, <1>3, <1>4, <1>7 DEF TakeBegin, Decrypt
<1>8. ASSUME EndLoop PROVE trouble'[d]
  BY <1>2, <1>4, <1>8 DEF EndLoop
<1>9. ASSUME NEW bytes, Handle("down", bytes) PROVE trouble'[d]
  BY <1>2, <1>4, <1>9 DEF Handle
<1>10. CASE TakeDown
  BY <1>1, <1>3, <1>4, <1>8, <1>9, <1>10 DEF TakeDown, Decrypt
<1>11. CASE Die
  BY <1>8, <1>11 DEF Die
<1>12. ASSUME NEW u \in DownThreads, SendDown(u) PROVE trouble'[d]
  BY <1>2, <1>4, <1>12 DEF SendDown
<1>13. ASSUME NEW u \in Threads, EncryptPeer(u) \/ EncryptLink(u) \/ Put(u) PROVE trouble'[d]
  BY <1>1, <1>2, <1>4, <1>13 DEF EncryptPeer, EncryptLink, Put
<1>14. CASE \/ Establish \/ CreateWaiter \/ Begin \/ WaitFails \/ Connected \/ ConnectTimeout \/ RecvRaises
            \/ Rendezvous2 \/ ConnectToPoint \/ Select \/ Break \/ UNCHANGED vars
  BY <1>1, <1>14 DEF Establish, CreateWaiter, Begin, WaitFails, Connected, ConnectTimeout, RecvRaises,
     Rendezvous2, ConnectToPoint, Select, Break, vars
<1> QED BY <1>5, <1>6, <1>7, <1>10, <1>11, <1>12, <1>13, <1>14 DEF Next, EStep, CStep, Guard

(* A step that leaves the way down alone. *)
LEMMA DownSame ==
  ASSUME DownIsClean, lost'["down"] = lost["down"], handled'["down"] = handled["down"],
         sent'["down"] = sent["down"], wire'["down"] = wire["down"], dec'["down"] = dec["down"],
         enc'["down"] = enc["down"],
         c' \in {"wait", "top", "select"} => c' = c \/ (c = "top" /\ c' = "select"),
         stream' = stream \/ stream' = "closed" \/ (stream' = "connected" /\ stream = "connecting")
  PROVE  DownIsClean'
BY DEF DownIsClean

(* A step that adds cells to it, and perhaps a message. *)
LEMMA DownAppended ==
  ASSUME TypeOK, DownIsClean, NEW cells \in Seq(CellsOfAnyKind),
         wire'["down"] = wire["down"] \o cells,
         lost'["down"] = lost["down"], handled'["down"] = handled["down"], dec'["down"] = dec["down"],
         c' = c,
         sent'["down"] = sent["down"] \/ \E m \in Messages : sent'["down"] = Append(sent["down"], m),
         Carried(cells, sent'["down"]),
         c \in {"wait", "top", "select"} /\ ~Stopped("down")
           => InSequence(cells, dec["down"] + Len(wire["down"])),
         stream' = "none" => enc'["down"] = 0 /\ sent'["down"] = <<>>,
         stream' \in {"connecting", "connected"} => enc'["down"] = 1 + Len(sent'["down"])
  PROVE  DownIsClean'
<1>0. /\ wire["down"] \in Seq(CellsOfAnyKind) /\ sent["down"] \in Seq(Messages)
      /\ handled["down"] \in Seq(Messages) /\ dec["down"] \in Nat
  BY DEF TypeOK, Dirs
<1>1. TakenFrom(handled'["down"], sent'["down"])
  BY <1>0, TakenMore DEF DownIsClean
<1>2. Carried(wire["down"], sent'["down"])
  BY <1>0, CarriedMore DEF DownIsClean
<1>3. Carried(wire'["down"], sent'["down"])
  BY <1>0, <1>2, CarriedAppended
<1>4. ASSUME c \in {"wait", "top", "select"} PROVE InSequence(wire'["down"], dec'["down"])
  <2>1. InSequence(wire["down"], dec["down"])
    BY <1>4 DEF DownIsClean
  <2>2. (\A i \in 1..Len(wire["down"]) : wire["down"][i].kind # "GONE")
          => InSequence(cells, dec["down"] + Len(wire["down"]))
    BY <1>4 DEF Stopped
  <2>3. InSequence(wire["down"] \o cells, dec["down"])
    BY <1>0, <2>1, <2>2, SequenceAppended
  <2> QED BY <2>3
<1> QED BY <1>1, <1>3, <1>4 DEF DownIsClean

(* The number of the next cell down, while the connector still reads. *)
LEMMA DownNext ==
  ASSUME TypeOK, InStep, Cut, lost["down"] = 0, stream # "closed", c \in {"wait", "top", "select"},
         ~Stopped("down")
  PROVE  enc["down"] = dec["down"] + Len(wire["down"])
<1>1. point = "joined"
  BY DEF TypeOK, Cut
<1>2. enc["down"] = dec["down"] + 0 + Len(wire["down"])
  BY <1>1 DEF InStep, Counted
<1>3. dec["down"] \in Nat /\ Len(wire["down"]) \in Nat
  BY DEF TypeOK, Dirs
<1> QED BY <1>2, <1>3

(* A cell of a message. *)
LEMMA DataCarried ==
  ASSUME NEW cells \in Seq(CellsOfAnyKind), Len(cells) = 1,
         NEW msgs \in Seq(Messages), NEW m \in Messages, cells[1].kind = "DATA", cells[1].whole,
         cells[1].peer = Len(msgs) + 1, cells[1].bytes = WholeMessage(m)
  PROVE  Carried(cells, Append(msgs, m))
<1>1. /\ Len(Append(msgs, m)) = Len(msgs) + 1 /\ Append(msgs, m)[Len(msgs) + 1] = m
      /\ Len(msgs) + 1 \in 1..(Len(msgs) + 1)
  OBVIOUS
<1>2. \A i \in 1..Len(cells) : i = 1
  OBVIOUS
<1>3. Fits(cells[1], Append(msgs, m))
  BY <1>1 DEF Fits
<1> QED BY <1>2, <1>3 DEF Carried

LEMMA OneInSequence ==
  ASSUME NEW cells \in Seq(CellsOfAnyKind), Len(cells) = 1, NEW first \in Nat, cells[1].peer = first
  PROVE  InSequence(cells, first)
<1>1. \A i \in 1..Len(cells) : i = 1
  OBVIOUS
<1>2. first + 1 - 1 = first
  OBVIOUS
<1> QED BY <1>1, <1>2 DEF InSequence

LEMMA DownSends ==
  ASSUME TypeOK, InStep, Stages, Cut, DownIsClean, ~trouble'["down"],
         Begin \/ Connected \/ \E u \in DownThreads : SendDown(u)
  PROVE  DownIsClean'
<1> USE DEF est, con, layers, data
<1>0. /\ "up" \in Dirs /\ "down" \in Dirs /\ "up" # "down" /\ enc["down"] \in Nat
      /\ sent["down"] \in Seq(Messages) /\ Len(sent["down"]) \in Nat
      /\ dec["down"] \in Nat /\ Len(wire["down"]) \in Nat
  BY DEF Dirs, TypeOK
<1>1. ASSUME NEW cells \in Seq(CellsOfAnyKind), Len(cells) = 1, cells[1].peer = enc["down"],
             stream # "closed", c \in {"wait", "top", "select"}, ~Stopped("down")
      PROVE  InSequence(cells, dec["down"] + Len(wire["down"]))
  <2>1. enc["down"] = dec["down"] + Len(wire["down"])
    BY <1>1, DownNext DEF DownIsClean
  <2> QED BY <1>0, <1>1, <2>1, OneInSequence
<1>2. CASE Begin
  <2> DEFINE cells == <<Control("BEGIN", enc["down"])>>
  <2>1. /\ cells \in Seq(CellsOfAnyKind) /\ Len(cells) = 1 /\ cells[1].kind = "BEGIN"
        /\ cells[1].peer = enc["down"]
    BY <1>0, ControlTyped DEF Control
  <2> HIDE DEF cells
  <2>2. /\ Down(cells) /\ stream = "none" /\ stream' = "connecting"
        /\ UNCHANGED <<dec, lost, handled, sent, c>>
    BY <1>2 DEF Begin, cells
  <2>3. enc["down"] = 0 /\ sent["down"] = <<>>
    BY <2>2 DEF DownIsClean
  <2>4. wire'["down"] = wire["down"] \o cells /\ enc'["down"] = enc["down"] + Len(cells)
    BY <2>1, <2>2, DownTyped
  <2>5. enc'["down"] = 1 + Len(sent'["down"])
    BY <2>1, <2>2, <2>3, <2>4
  <2>6. Carried(cells, sent'["down"])
    BY <2>1 DEF Carried, Fits
  <2> QED BY <1>1, <2>1, <2>2, <2>4, <2>5, <2>6, DownAppended
<1>3. ASSUME NEW m \in Messages, m.size <= CellSize, Down(Cells("DATA", m, enc["down"])),
             Sent("down", m), stream = "connected", UNCHANGED <<stream, dec, lost, handled, c>>
      PROVE  DownIsClean'
  <2> DEFINE cells == Cells("DATA", m, enc["down"])
  <2>1. /\ cells \in Seq(CellsOfAnyKind) /\ Len(cells) = 1
        /\ cells[1].kind = "DATA" /\ cells[1].peer = enc["down"] /\ cells[1].whole
        /\ cells[1].bytes = WholeMessage(m)
    BY <1>0, <1>3, OneCell
  <2>2. Down(cells)
    BY <1>3
  <2> HIDE DEF cells
  <2>3. enc["down"] = 1 + Len(sent["down"])
    BY <1>3 DEF DownIsClean
  <2>4. wire'["down"] = wire["down"] \o cells /\ enc'["down"] = enc["down"] + Len(cells)
    BY <2>1, <2>2, DownTyped
  <2>5. sent'["down"] = Append(sent["down"], m) /\ Len(sent'["down"]) = Len(sent["down"]) + 1
    BY <1>0, <1>3, SentLast
  <2>6. enc'["down"] = 1 + Len(sent'["down"])
    BY <1>0, <2>1, <2>3, <2>4, <2>5
  <2>7. Carried(cells, sent'["down"])
    <3>1. cells[1].peer = Len(sent["down"]) + 1
      BY <1>0, <2>1, <2>3
    <3>2. Carried(cells, Append(sent["down"], m))
      BY <1>0, <2>1, <3>1, DataCarried
    <3> QED BY <2>5, <3>2
  <2>8. /\ lost'["down"] = lost["down"] /\ handled'["down"] = handled["down"]
        /\ dec'["down"] = dec["down"] /\ c' = c /\ stream' = "connected"
    BY <1>3
  <2>9. stream # "closed"
    BY <1>3
  <2>10. c \in {"wait", "top", "select"} /\ ~Stopped("down")
           => InSequence(cells, dec["down"] + Len(wire["down"]))
    BY <1>1, <2>1, <2>9
  <2> QED BY <2>1, <2>4, <2>5, <2>6, <2>7, <2>8, <2>10, DownAppended
<1>4. CASE Connected
  <2>1. Hello("down") \in Messages /\ Hello("down").size <= CellSize
    BY <1>0, HelloTyped, RendezvousAssumption DEF Hello
  <2>2. /\ Down(Cells("DATA", Hello("down"), enc["down"])) /\ Sent("down", Hello("down"))
        /\ stream = "connected" /\ UNCHANGED <<stream, dec, lost, handled, c>>
    BY <1>4 DEF Connected
  <2> QED BY <1>3, <2>1, <2>2
<1>5. ASSUME NEW u \in DownThreads, SendDown(u) PROVE DownIsClean'
  <2>1. PICK size \in Sizes :
          /\ Down(Cells("DATA", Message(u, size, "down"), enc["down"]))
          /\ Sent("down", Message(u, size, "down"))
          /\ trouble' = [trouble EXCEPT !["down"] = @ \/ size > CellSize]
    BY <1>5 DEF SendDown
  <2>2. ~(size > CellSize)
    BY <1>0, <2>1 DEF TypeOK
  <2>3. Message(u, size, "down") \in Messages /\ Message(u, size, "down").size <= CellSize
    BY <1>0, <2>2, RendezvousAssumption DEF Message, Messages
  <2>4. stream = "connected" /\ UNCHANGED <<stream, dec, lost, handled, c>>
    BY <1>5 DEF SendDown
  <2> QED BY <1>3, <2>1, <2>3, <2>4
<1> QED BY <1>2, <1>4, <1>5

LEMMA DownCloses ==
  ASSUME TypeOK, InStep, Stages, Cut, DownIsClean, ConnectTimeout \/ RecvRaises \/ Break
  PROVE  DownIsClean'
<1> USE DEF est, con, layers, data
<1>0. /\ "up" \in Dirs /\ "down" \in Dirs /\ wire["down"] \in Seq(CellsOfAnyKind)
      /\ dec["down"] \in Nat /\ Len(wire["down"]) \in Nat
  BY DEF Dirs, TypeOK
<1>1. ASSUME NEW newE, CloseAll(newE), UNCHANGED <<dec, lost, handled, sent, c>> PROVE DownIsClean'
  <2>1. stream' = "closed"
    BY <1>1, CloseTyped
  <2>2. PICK cells \in Seq(CellsOfAnyKind) :
          /\ wire'["down"] = wire["down"] \o cells
          /\ \A i \in 1..Len(cells) :
               \/ cells[i].kind = "GONE"
               \/ cells[i].kind = "END" /\ cells[i].peer = enc["down"] /\ i = 1
          /\ point # "joined" => cells = <<>>
    BY <1>1, CloseTyped
  <2>3. Carried(cells, sent'["down"])
    BY <2>2 DEF Carried, Fits
  <2>4. ASSUME c \in {"wait", "top", "select"}, ~Stopped("down")
        PROVE  InSequence(cells, dec["down"] + Len(wire["down"]))
    <3>1. CASE point = "joined"
      <4>1. stream # "closed"
        BY <3>1 DEF Cut
      <4>2. enc["down"] = dec["down"] + Len(wire["down"]) /\ enc["down"] \in Nat
        BY <1>0, <2>4, <4>1, DownNext DEF DownIsClean, TypeOK
      <4>3. ASSUME NEW i \in 1..Len(cells), \A j \in 1..i : cells[j].kind # "GONE"
            PROVE  cells[i].peer = enc["down"] + i - 1
        <5>1. i \in 1..i
          OBVIOUS
        <5>2. cells[i].peer = enc["down"] /\ i = 1
          BY <2>2, <4>3, <5>1
        <5> QED BY <4>2, <5>2
      <4> QED BY <4>2, <4>3 DEF InSequence
    <3>2. CASE point # "joined"
      BY <2>2, <3>2 DEF InSequence
    <3> QED BY <3>1, <3>2
  <2>5. /\ lost'["down"] = lost["down"] /\ handled'["down"] = handled["down"]
        /\ dec'["down"] = dec["down"] /\ c' = c /\ sent'["down"] = sent["down"]
    BY <1>1
  <2> QED BY <2>1, <2>2, <2>3, <2>4, <2>5, DownAppended
<1>2. CASE Break
  <2>8. PICK last \in {Destroy, Closed} : wire'["down"] = wire["down"] \o <<last>>
    BY <1>0, <1>2, BreakWire
  <2> DEFINE cells == <<last>>
  <2>1. cells \in Seq(CellsOfAnyKind) /\ Len(cells) = 1 /\ cells[1].kind = "GONE"
    BY EndingTyped
  <2>2. UNCHANGED <<dec, enc, lost, handled, sent, c, stream>>
    BY <1>0, <1>2 DEF Break
  <2>3. wire'["down"] = wire["down"] \o cells
    BY <2>8
  <2> HIDE DEF cells
  <2>4. \A i \in 1..Len(cells) : cells[i].kind = "GONE" /\ i \in 1..i
    BY <2>1
  <2>5. Carried(cells, sent'["down"]) /\ InSequence(cells, dec["down"] + Len(wire["down"]))
    BY <2>4 DEF Carried, Fits, InSequence
  <2>6. /\ stream = "none" => enc'["down"] = 0 /\ sent'["down"] = <<>>
        /\ stream \in {"connecting", "connected"} => enc'["down"] = 1 + Len(sent'["down"])
    BY <2>2 DEF DownIsClean
  <2>7. /\ lost'["down"] = lost["down"] /\ handled'["down"] = handled["down"]
        /\ dec'["down"] = dec["down"] /\ c' = c /\ sent'["down"] = sent["down"] /\ stream' = stream
    BY <2>2
  <2> QED BY <2>1, <2>3, <2>5, <2>6, <2>7, DownAppended
<1>3. CASE ConnectTimeout
  BY <1>1, <1>3 DEF ConnectTimeout
<1>4. CASE RecvRaises
  <2>1. CASE stream = "closed"
    <3>1. UNCHANGED <<stream, wire, enc, dec, lost, handled, sent, c>>
      BY <1>4, <2>1 DEF RecvRaises
    <3> QED BY <3>1, DownSame
  <2>2. CASE stream # "closed"
    BY <1>1, <1>4, <2>2 DEF RecvRaises
  <2> QED BY <2>1, <2>2
<1> QED BY <1>2, <1>3, <1>4

(* The cell at the head of the way down, taken. *)
LEMMA DownTaken ==
  ASSUME TypeOK, Opening, Unsent, DownIsClean, ~trouble["down"], ~trouble'["down"],
         TakeBegin \/ TakeDown
  PROVE  DownIsClean'
<1> USE DEF est, con, layers, data
<1> DEFINE cell == Head(wire["down"])
<1>0. /\ "up" \in Dirs /\ "down" \in Dirs /\ "up" # "down" /\ wire["down"] \in Seq(CellsOfAnyKind)
      /\ sent["down"] \in Seq(Messages) /\ handled["down"] \in Seq(Messages)
      /\ dec["down"] \in Nat /\ dec \in [Dirs -> Nat] /\ trouble \in [Dirs -> BOOLEAN]
  BY DEF Dirs, TypeOK
<1>1. wire["down"] # <<>> /\ c \in {"wait", "select"}
  BY DEF TakeBegin, TakeDown
<1>2. /\ cell \in CellsOfAnyKind /\ cell = wire["down"][1] /\ 1 \in 1..Len(wire["down"])
      /\ Tail(wire["down"]) \in Seq(CellsOfAnyKind)
  BY <1>0, <1>1, PopTyped
<1>3. wire'["down"] = Tail(wire["down"])
  <2>1. CASE Pop("down")
    BY <1>0, <1>1, <2>1, PoppedTyped
  <2>2. CASE \E cells : Up(cells)
    <3>1. wire \in [Dirs -> Seq(CellsOfAnyKind)]
      BY DEF TypeOK
    <3> QED BY <1>0, <2>2, <3>1 DEF Up
  <2> QED BY <2>1, <2>2 DEF TakeBegin, TakeDown
<1>4. UNCHANGED stream /\ sent'["down"] = sent["down"] /\ enc'["down"] = enc["down"]
  <2>1. CASE UNCHANGED <<enc, sent>>
    BY <2>1 DEF TakeBegin, TakeDown
  <2>2. CASE Sent("up", Hello("up")) /\ \E cells : Up(cells)
    <3>1. enc \in [Dirs -> Nat] /\ sent \in [Dirs -> Seq(Messages)]
      BY DEF TypeOK
    <3>2. enc'["down"] = enc["down"]
      BY <1>0, <2>2, <3>1 DEF Up
    <3>3. sent'["down"] = sent["down"]
      BY <1>0, <2>2, <3>1 DEF Sent
    <3> QED BY <3>2, <3>3 DEF TakeBegin, TakeDown
  <2> QED BY <2>1, <2>2 DEF TakeBegin, TakeDown
<1> HIDE DEF cell
<1>5. Fits(cell, sent["down"]) /\ Carried(wire'["down"], sent'["down"])
  BY <1>0, <1>1, <1>3, <1>4, CarriedTail DEF DownIsClean, cell
<1>6. cell.kind # "GONE" => cell.peer = dec["down"] /\ InSequence(wire'["down"], dec["down"] + 1)
  <2>1. InSequence(wire["down"], dec["down"])
    BY <1>1 DEF DownIsClean
  <2> QED BY <1>0, <1>1, <1>3, <2>1, SequenceTail DEF cell
(* The layer steps, and nothing or the next message is taken. *)
<1>7. ASSUME cell.kind # "GONE", dec' = [dec EXCEPT !["down"] = @ + 1], UNCHANGED lost, c' # "wait",
             TakenFrom(handled'["down"], sent["down"]),
             c' \in {"top", "select"} => dec["down"] = Len(handled'["down"])
      PROVE  DownIsClean'
  <2>1. dec'["down"] = dec["down"] + 1
    BY <1>0, <1>7
  <2>2. InSequence(wire'["down"], dec'["down"])
    BY <1>6, <1>7, <2>1
  <2>3. c' \in {"top", "select"} => dec'["down"] = 1 + Len(handled'["down"])
    BY <1>0, <1>7, <2>1
  <2> QED BY <1>4, <1>5, <1>7, <2>2, <2>3 DEF DownIsClean
<1>8. CASE cell.kind = "GONE"
  <2>1. c' \notin {"wait", "top", "select"}
    BY <1>8 DEF TakeBegin, TakeDown, Retry, EndLoop, cell
  <2>2. UNCHANGED <<dec, lost, handled>>
    BY <1>8 DEF TakeBegin, TakeDown, cell
  <2> QED BY <1>4, <1>5, <2>1, <2>2 DEF DownIsClean
<1>9. ASSUME NEW readable \in BOOLEAN, Decrypt("down", readable)
      PROVE  dec' = [dec EXCEPT !["down"] = @ + 1] /\ UNCHANGED lost
             /\ readable = (cell.whole /\ cell.peer = dec["down"])
  <2>1. ~Trouble("down")
    BY <1>0 DEF Trouble
  <2> QED BY <1>9, <2>1 DEF Decrypt, cell
<1>10. CASE TakeBegin /\ cell.kind # "GONE"
  <2>1. PICK readable \in BOOLEAN : Decrypt("down", readable) /\ c' \in {"top", "died"}
    BY <1>10 DEF TakeBegin, cell
  <2>2. UNCHANGED handled /\ c = "wait"
    BY <1>10 DEF TakeBegin
  <2>3. handled'["down"] = <<>> /\ dec["down"] = 0
    BY <2>2 DEF Unsent, DownIsClean
  <2>4. TakenFrom(handled'["down"], sent["down"])
    BY <2>2 DEF DownIsClean
  <2>5. Len(handled'["down"]) = 0
    BY <2>3
  <2> QED BY <1>7, <1>9, <1>10, <2>1, <2>3, <2>4, <2>5
<1>11. CASE TakeDown /\ cell.kind # "GONE"
  <2>1. PICK readable \in BOOLEAN :
          \/ ~readable /\ Decrypt("down", readable)
          \/ /\ readable /\ cell.whole /\ cell.peer = dec["down"]
             /\ dec' = [dec EXCEPT !["down"] = @ + 1] /\ UNCHANGED lost
             /\ IF cell.kind = "END"
                  THEN EndLoop /\ UNCHANGED handled
                  ELSE Handle("down", cell.bytes) /\ c' = "top"
    BY <1>11 DEF TakeDown, cell
  <2>2. c = "select"
    BY <1>11 DEF TakeDown
  <2>3. ~(~readable /\ Decrypt("down", readable))
    <3>1. SUFFICES ASSUME ~readable, Decrypt("down", readable) PROVE FALSE
      OBVIOUS
    <3>2. ~(cell.whole /\ cell.peer = dec["down"])
      BY <1>9, <3>1
    <3>3. cell.peer = dec["down"]
      BY <1>6, <1>11
    <3>4. cell.whole
      BY <1>2, <1>5, <1>11, DataCell DEF Fits
    <3> QED BY <3>2, <3>3, <3>4
  <2>4. /\ readable /\ cell.whole /\ cell.peer = dec["down"]
        /\ dec' = [dec EXCEPT !["down"] = @ + 1] /\ UNCHANGED lost
    BY <2>1, <2>3
  <2>5. CASE cell.kind = "END"
    <3>1. c' = "ended" /\ UNCHANGED handled
      BY <2>1, <2>3, <2>5 DEF EndLoop
    <3>2. TakenFrom(handled'["down"], sent["down"])
      BY <3>1 DEF DownIsClean
    <3> QED BY <1>7, <1>11, <2>4, <3>1, <3>2
  <2>6. CASE cell.kind # "END"
    <3>1. Handle("down", cell.bytes) /\ c' = "top"
      BY <2>1, <2>3, <2>6
    <3>2. cell.kind = "DATA"
      <4>1. cell.kind # "CONNECTED" /\ cell.kind # "BEGIN"
        BY <1>2, <2>2 DEF Opening
      <4> QED BY <1>2, <1>11, <2>6, <4>1, DataCell
    <3>3. /\ cell.peer \in 1..Len(sent["down"]) /\ cell.bytes = WholeMessage(sent["down"][cell.peer])
      BY <1>5, <3>2 DEF Fits
    <3>4. dec["down"] = 1 + Len(handled["down"]) /\ TakenFrom(handled["down"], sent["down"])
      BY <2>2 DEF DownIsClean
    <3>5. cell.peer = Len(handled["down"]) + 1 /\ Len(handled["down"]) + 1 <= Len(sent["down"])
      BY <1>0, <2>4, <3>3, <3>4
    <3> DEFINE m == sent["down"][cell.peer]
    <3>6. m \in Messages
      BY <1>0, <3>3
    <3>7. handled'["down"] = Append(handled["down"], m)
      <4>1. Handle("down", WholeMessage(m))
        BY <3>1, <3>3
      <4> HIDE DEF m
      <4> QED BY <1>0, <3>6, <4>1, HandleWhole
    <3>8. handled'["down"] = Append(handled["down"], sent["down"][Len(handled["down"]) + 1])
      BY <3>5, <3>7
    <3>9. /\ TakenFrom(handled'["down"], sent["down"])
          /\ Len(handled'["down"]) = Len(handled["down"]) + 1
      BY <1>0, <3>4, <3>5, <3>8, TakenNext
    <3>10. dec["down"] = Len(handled'["down"])
      BY <1>0, <3>4, <3>9
    <3> QED BY <1>7, <1>11, <2>4, <3>1, <3>9, <3>10
  <2> QED BY <2>5, <2>6
<1> QED BY <1>8, <1>10, <1>11

LEMMA DownKept ==
  ASSUME TypeOK, Opening, InStep, Stages, Unsent, Cut, DownClean, [Next]_vars PROVE DownClean'
<1> USE DEF est, con, layers, data
<1>0. /\ "up" \in Dirs /\ "down" \in Dirs /\ "up" # "down"
      /\ dec \in [Dirs -> Nat] /\ lost \in [Dirs -> Nat]
  BY DEF Dirs, TypeOK
<1>1. SUFFICES ASSUME ~trouble'["down"] PROVE DownIsClean'
  BY DEF DownClean
<1>2. ~trouble["down"] /\ DownIsClean
  BY <1>0, <1>1, TroubleStays DEF DownClean
<1>3. sent'["down"] # sent["down"] => Connected \/ \E u \in DownThreads : SendDown(u)
  BY SentApart
<1>4. CASE \/ Establish \/ CreateWaiter \/ WaitFails \/ Rendezvous2 \/ Select \/ Die \/ UNCHANGED vars
  <2>1. /\ UNCHANGED <<lost, handled, sent, wire, dec, enc, stream>>
        /\ c' \in {"wait", "top", "select"} => c' = c \/ (c = "top" /\ c' = "select")
    BY <1>4 DEF Establish, CreateWaiter, WaitFails, Rendezvous2, Select, Die, EndLoop, vars
  <2> QED BY <1>2, <2>1, DownSame
<1>5. CASE Recv
  <2>1. UNCHANGED <<lost, sent, wire, dec, enc, stream, c>>
    BY <1>5 DEF Recv
  <2>2. handled'["down"] = handled["down"]
    <3>1. \E x : handled' = [handled EXCEPT !["up"] = x]
      BY <1>5 DEF Recv, Handle
    <3> QED BY <1>0, <3>1 DEF TypeOK
  <2> QED BY <1>2, <2>1, <2>2, DownSame
<1>6. CASE TakeUp
  <2>1. /\ wire["up"] # <<>> /\ Pop("up") /\ UNCHANGED <<enc, handled, sent, c>>
        /\ stream' = stream \/ stream' = "closed" \/ (stream' = "connected" /\ stream \in {"connecting", "connected"})
        /\ UNCHANGED <<dec, lost>> \/ \E readable \in BOOLEAN : Decrypt("up", readable)
    BY <1>6 DEF TakeUp
  <2>2. wire'["down"] = wire["down"]
    BY <1>0, <2>1, PoppedTyped
  <2>3. dec'["down"] = dec["down"] /\ lost'["down"] = lost["down"]
    BY <1>0, <2>1, DecryptTyped
  <2>4. stream' = stream \/ stream' = "closed" \/ (stream' = "connected" /\ stream = "connecting")
    BY <2>1
  <2>5. /\ enc'["down"] = enc["down"] /\ handled'["down"] = handled["down"]
        /\ sent'["down"] = sent["down"] /\ c' = c
    BY <2>1
  <2> QED BY <1>2, <2>2, <2>3, <2>4, <2>5, DownSame
<1>7. CASE ConnectToPoint
  <2>1. UNCHANGED <<lost, handled, sent, wire, dec, enc, stream>>
    BY <1>7 DEF ConnectToPoint
  <2>2. CASE point = "waiting" /\ c' = "wait"
    <3>1. stream = "none"
      BY <2>2 DEF InStep, Begun
    <3>2. wire["down"] = <<>> /\ dec["down"] = 0
      BY <1>0, <2>2, <3>1 DEF InStep, Quiet
    <3>3. InSequence(wire'["down"], dec'["down"])
      BY <2>1, <3>2 DEF InSequence
    <3> QED BY <1>2, <2>1, <2>2, <3>2, <3>3 DEF DownIsClean
  <2>3. CASE c' \in {"connect", "gone"}
    BY <1>2, <2>1, <2>3, DownSame
  <2> QED BY <1>7, <2>2, <2>3 DEF ConnectToPoint, Retry
<1>8. ASSUME NEW u \in Threads, EncryptPeer(u) \/ EncryptLink(u) \/ Put(u) PROVE DownIsClean'
  <2>1. /\ UNCHANGED <<stream, dec, lost>>
        /\ enc'["down"] = enc["down"] /\ wire'["down"] = wire["down"]
    BY <1>8, SenderWire
  <2>2. UNCHANGED <<c, handled>>
    BY <1>8 DEF EncryptPeer, EncryptLink, Put
  <2>3. sent'["down"] = sent["down"]
    <3>1. UNCHANGED sent \/ \E m : Sent("up", m)
      BY <1>8 DEF EncryptPeer, EncryptLink, Put
    <3> QED BY <1>0, <3>1 DEF Sent, TypeOK
  <2> QED BY <1>2, <2>1, <2>2, <2>3, DownSame
<1>9. CASE Begin \/ Connected \/ \E u \in DownThreads : SendDown(u)
  BY <1>1, <1>2, <1>9, DownSends
<1>10. CASE ConnectTimeout \/ RecvRaises \/ Break
  BY <1>2, <1>10, DownCloses
<1>11. CASE TakeBegin \/ TakeDown
  BY <1>1, <1>2, <1>11, DownTaken
<1> QED BY <1>4, <1>5, <1>6, <1>7, <1>8, <1>9, <1>10, <1>11 DEF Next, EStep, CStep, Guard

-----------------------------------------------------------------------------
(***************************************************************************)
(* The establisher's bytes: the messages from first to before last, one     *)
(* after the other, each from off[k] on.                                    *)
(***************************************************************************)
Frames(bytes, msgs, first, last, off) ==
  /\ off[first] = 0 /\ off[last] = Len(bytes)
  /\ \A k \in first..(last - 1) :
       /\ off[k + 1] = off[k] + msgs[k].size
       /\ \A l \in (k + 1)..last : off[k] + msgs[k].size <= off[l]
       /\ \A j \in 1..msgs[k].size : bytes[off[k] + j] = <<msgs[k], j>>

Framed(bytes, msgs, first, last) == \E off \in [Nat -> Nat] : Frames(bytes, msgs, first, last, off)

LEMMA SizeOfMessage ==
  ASSUME NEW msgs \in Seq(Messages), NEW k \in 1..Len(msgs)
  PROVE  msgs[k] \in Messages /\ msgs[k].size \in Nat /\ msgs[k].size >= 1
<1>1. msgs[k] \in Messages
  OBVIOUS
<1> QED BY <1>1, CellCount

LEMMA Joined ==
  ASSUME NEW S, NEW a \in Seq(S), NEW b \in Seq(S)
  PROVE  /\ Len(a) \in Nat /\ Len(b) \in Nat /\ Len(a \o b) = Len(a) + Len(b)
         /\ \A i \in 1..Len(a) : (a \o b)[i] = a[i]
         /\ \A j \in 1..Len(b) : (a \o b)[Len(a) + j] = b[j]
OBVIOUS

LEMMA NothingFramed ==
  ASSUME NEW msgs, NEW first \in Nat
  PROVE  Framed(<<>>, msgs, first, first)
<1> DEFINE off == [n \in Nat |-> 0]
<1>1. off \in [Nat -> Nat] /\ off[first] = 0 /\ Len(<<>>) = 0
  OBVIOUS
<1>2. first..(first - 1) = {}
  OBVIOUS
<1> HIDE DEF off
<1>3. Frames(<<>>, msgs, first, first, off)
  BY <1>1, <1>2 DEF Frames
<1> QED BY <1>1, <1>3 DEF Framed

LEMMA FramedMore ==
  ASSUME NEW bytes, NEW msgs \in Seq(Messages), NEW m \in Messages, NEW first \in Nat \ {0},
         NEW last \in Nat, last <= Len(msgs) + 1, Framed(bytes, msgs, first, last)
  PROVE  Framed(bytes, Append(msgs, m), first, last)
<1>1. PICK off \in [Nat -> Nat] : Frames(bytes, msgs, first, last, off)
  BY DEF Framed
<1>2. \A k \in first..(last - 1) : Append(msgs, m)[k] = msgs[k]
  <2>1. ASSUME NEW k \in first..(last - 1) PROVE k \in 1..Len(msgs)
    BY <2>1
  <2> QED BY <2>1
<1> DEFINE more == Append(msgs, m)
<1> HIDE DEF more
<1>3. Frames(bytes, more, first, last, off)
  <2>1. \A k \in first..(last - 1) : more[k] = msgs[k]
    BY <1>2 DEF more
  <2>2. off[first] = 0 /\ off[last] = Len(bytes)
    BY <1>1 DEF Frames
  <2>3. ASSUME NEW k \in first..(last - 1)
        PROVE  /\ off[k + 1] = off[k] + msgs[k].size
               /\ \A l \in (k + 1)..last : off[k] + msgs[k].size <= off[l]
               /\ \A j \in 1..msgs[k].size : bytes[off[k] + j] = <<msgs[k], j>>
    BY <1>1 DEF Frames
  <2>4. ASSUME NEW k \in first..(last - 1)
        PROVE  /\ off[k + 1] = off[k] + more[k].size
               /\ \A l \in (k + 1)..last : off[k] + more[k].size <= off[l]
               /\ \A j \in 1..more[k].size : bytes[off[k] + j] = <<more[k], j>>
    BY <2>1, <2>3, Zenon
  <2> QED BY <2>2, <2>4 DEF Frames
<1> QED BY <1>3 DEF Framed, more

LEMMA FramedNext ==
  ASSUME NEW bytes \in Seq(Messages \X Nat), NEW msgs \in Seq(Messages), NEW first \in Nat \ {0},
         NEW last \in 1..Len(msgs), first <= last, Framed(bytes, msgs, first, last)
  PROVE  Framed(bytes \o WholeMessage(msgs[last]), msgs, first, last + 1)
<1>1. PICK off \in [Nat -> Nat] : Frames(bytes, msgs, first, last, off)
  BY DEF Framed
<1> DEFINE m == msgs[last]
           size == m.size
           more == WholeMessage(m)
           next == [off EXCEPT ![last + 1] = Len(bytes) + size]
<1>2. m \in Messages /\ size \in Nat /\ size >= 1
  BY SizeOfMessage
<1> HIDE DEF m
<1>3. more \in Seq(Messages \X Nat) /\ Len(more) = size /\ \A j \in 1..size : more[j] = <<m, j>>
  BY <1>2, LoadsWhole DEF WholeMessage
<1> HIDE DEF size, more
<1>4. /\ Len(bytes) \in Nat /\ Len(bytes \o more) = Len(bytes) + size
      /\ \A i \in 1..Len(bytes) : (bytes \o more)[i] = bytes[i]
      /\ \A j \in 1..size : (bytes \o more)[Len(bytes) + j] = more[j]
  <2> DEFINE T == Messages \X Nat
  <2>1. bytes \in Seq(T) /\ more \in Seq(T)
    BY <1>3
  <2> HIDE DEF T
  <2>2. /\ Len(bytes) \in Nat /\ Len(bytes \o more) = Len(bytes) + Len(more)
        /\ \A i \in 1..Len(bytes) : (bytes \o more)[i] = bytes[i]
        /\ \A j \in 1..Len(more) : (bytes \o more)[Len(bytes) + j] = more[j]
    BY <2>1, Joined
  <2> QED BY <1>3, <2>2
<1>5. next \in [Nat -> Nat] /\ next[last + 1] = Len(bytes) + size
      /\ \A k \in Nat : k <= last => next[k] = off[k]
  <2> DEFINE end == Len(bytes) + size
  <2>1. end \in Nat /\ last + 1 \in Nat
    BY <1>2, <1>4
  <2>2. \A k \in Nat : k <= last => k # last + 1
    OBVIOUS
  <2> HIDE DEF end
  <2>3. next = [off EXCEPT ![last + 1] = end]
    BY DEF end
  <2> HIDE DEF next
  <2>4. next \in [Nat -> Nat] /\ next[last + 1] = end
    BY <2>1, <2>3
  <2>5. \A k \in Nat : k <= last => next[k] = off[k]
    BY <2>2, <2>3
  <2> QED BY <2>4, <2>5 DEF end
<1> HIDE DEF next
<1>6. next[first] = 0 /\ next[last + 1] = Len(bytes \o more) /\ off[last] = Len(bytes)
  BY <1>1, <1>4, <1>5 DEF Frames
<1> DEFINE all == bytes \o more
<1> HIDE DEF all
<1>7. ASSUME NEW k \in first..last
      PROVE  /\ next[k + 1] = next[k] + msgs[k].size
             /\ \A l \in (k + 1)..(last + 1) : next[k] + msgs[k].size <= next[l]
             /\ \A j \in 1..msgs[k].size : all[next[k] + j] = <<msgs[k], j>>
  <2>0. k \in Nat /\ k <= last /\ last \in Nat /\ k \in 1..Len(msgs)
    OBVIOUS
  <2>1. k \in Nat /\ k <= last /\ k \in 1..Len(msgs) /\ next[k] = off[k] /\ off[k] \in Nat
    BY <1>5, <2>0
  <2>2. msgs[k].size \in Nat /\ msgs[k].size >= 1
    BY <2>1, SizeOfMessage
  <2> DEFINE s == msgs[k].size
  <2>5. s \in Nat /\ s >= 1
    BY <2>2
  <2> HIDE DEF s
  <2>3. CASE k < last
    <3>1. /\ k \in first..(last - 1) /\ k + 1 <= last /\ k + 1 \in Nat /\ last \in (k + 1)..last
      BY <2>1, <2>3
    <3>2. /\ off[k + 1] = off[k] + s
          /\ \A l \in (k + 1)..last : off[k] + s <= off[l]
          /\ \A j \in 1..s : bytes[off[k] + j] = <<msgs[k], j>>
      BY <1>1, <3>1 DEF Frames, s
    <3>3. next[k + 1] = next[k] + s
      BY <1>5, <2>1, <3>1, <3>2
    <3>4. off[k] + s <= Len(bytes)
      BY <1>6, <3>1, <3>2
    <3>5. ASSUME NEW l \in (k + 1)..(last + 1) PROVE next[k] + s <= next[l]
      <4>1. CASE l <= last
        <5>1. l \in (k + 1)..last /\ l \in Nat
          BY <2>1, <4>1
        <5> QED BY <1>5, <2>1, <3>2, <4>1, <5>1
      <4>2. CASE l = last + 1
        <5> DEFINE a == off[k]
                   n == Len(bytes)
        <5>1. next[l] = n + size /\ next[k] = a /\ a + s <= n
          BY <1>5, <2>1, <3>4, <4>2
        <5>2. a \in Nat /\ n \in Nat /\ size \in Nat /\ s \in Nat
          BY <1>2, <1>4, <2>1, <2>5
        <5> HIDE DEF a, n
        <5>3. a + s <= n + size
          BY <5>1, <5>2
        <5> QED BY <5>1, <5>3
      <4> QED BY <2>1, <4>1, <4>2
    <3>6. ASSUME NEW j \in 1..s PROVE all[next[k] + j] = <<msgs[k], j>>
      <4>1. off[k] + j \in 1..Len(bytes)
        <5> DEFINE a == off[k]
                   n == Len(bytes)
        <5>1. a \in Nat /\ n \in Nat /\ s \in Nat /\ a + s <= n
          BY <1>4, <2>1, <2>5, <3>4
        <5> HIDE DEF a, n
        <5>2. a + j \in 1..n
          BY <5>1
        <5> QED BY <5>2 DEF a, n
      <4> QED BY <1>4, <2>1, <3>2, <4>1 DEF all
    <3> QED BY <3>3, <3>5, <3>6 DEF s
  <2>4. CASE k = last
    <3>1. s = size /\ msgs[k] = m /\ next[k] = Len(bytes)
      BY <1>6, <2>1, <2>4 DEF s, size, m
    <3>2. next[k + 1] = next[k] + s
      BY <1>5, <2>4, <3>1
    <3>3. \A l \in (k + 1)..(last + 1) : l = k + 1
      BY <2>1, <2>4
    <3>4. next[k] + s <= next[k + 1]
      BY <1>2, <1>4, <3>1, <3>2
    <3>5. \A j \in 1..s : all[next[k] + j] = <<msgs[k], j>>
      BY <1>3, <1>4, <3>1 DEF all
    <3> QED BY <3>2, <3>3, <3>4, <3>5 DEF s
  <2>6. k < last \/ k = last
    BY <2>0
  <2> QED BY <2>3, <2>4, <2>6
<1>8. first..(last + 1 - 1) = first..last
  OBVIOUS
<1>9. Frames(all, msgs, first, last + 1, next)
  <2> DEFINE end == last + 1
  <2>1. next[first] = 0 /\ next[end] = Len(all) /\ first..(end - 1) = first..last
    BY <1>6, <1>8 DEF all
  <2>2. \A k \in first..last :
           /\ next[k + 1] = next[k] + msgs[k].size
           /\ \A l \in (k + 1)..end : next[k] + msgs[k].size <= next[l]
           /\ \A j \in 1..msgs[k].size : all[next[k] + j] = <<msgs[k], j>>
    BY <1>7
  <2> HIDE DEF end
  <2>3. Frames(all, msgs, first, end, next)
    BY <2>1, <2>2 DEF Frames
  <2> QED BY <2>3 DEF end
<1> QED BY <1>5, <1>9 DEF Framed, all, more, m

LEMMA FramedEmpty ==
  ASSUME NEW msgs \in Seq(Messages), NEW first \in Nat \ {0}, NEW last \in Nat,
         first <= last, last <= Len(msgs) + 1, Framed(<<>>, msgs, first, last)
  PROVE  first = last
<1>1. SUFFICES ASSUME first < last PROVE FALSE
  OBVIOUS
<1>2. PICK off \in [Nat -> Nat] : Frames(<<>>, msgs, first, last, off)
  BY DEF Framed
<1>3. first \in first..(last - 1) /\ last \in (first + 1)..last /\ first \in 1..Len(msgs)
  BY <1>1
<1>4. msgs[first].size \in Nat /\ msgs[first].size >= 1
  BY <1>3, SizeOfMessage
<1> DEFINE s == msgs[first].size
<1> HIDE DEF s
<1>5. off[first] = 0 /\ off[last] = 0 /\ off[first] + s <= off[last]
  BY <1>2, <1>3 DEF Frames, s
<1>6. s \in Nat /\ s >= 1
  BY <1>4 DEF s
<1> QED BY <1>5, <1>6

LEMMA Divided ==
  ASSUME NEW S, NEW s \in Seq(S), NEW n \in 1..Len(s)
  PROVE  /\ SubSeq(s, 1, n) \in Seq(S) /\ Len(SubSeq(s, 1, n)) = n
         /\ \A i \in 1..n : SubSeq(s, 1, n)[i] = s[i]
         /\ SubSeq(s, n + 1, Len(s)) \in Seq(S) /\ Len(SubSeq(s, n + 1, Len(s))) = Len(s) - n
         /\ \A i \in 1..(Len(s) - n) : SubSeq(s, n + 1, Len(s))[i] = s[n + i]
<1>1. Len(s) \in Nat /\ n \in Nat /\ n >= 1 /\ n <= Len(s)
  OBVIOUS
<1>2. \A i \in 1..Len(s) : s[i] \in S
  OBVIOUS
<1>3. /\ SubSeq(s, 1, n) \in Seq(S) /\ Len(SubSeq(s, 1, n)) = n
      /\ \A i \in 1..n : SubSeq(s, 1, n)[i] = s[i]
  BY <1>1, <1>2
<1>4. /\ SubSeq(s, n + 1, Len(s)) \in Seq(S) /\ Len(SubSeq(s, n + 1, Len(s))) = Len(s) - n
      /\ \A i \in 1..(Len(s) - n) : SubSeq(s, n + 1, Len(s))[i] = s[n + i]
  BY <1>1, <1>2
<1> QED BY <1>3, <1>4

(* pickle.loads of bytes that begin with a message and hold no more than one. *)
LEMMA LoadsFirst ==
  ASSUME NEW m \in Messages, NEW bytes \in Seq(Messages \X Nat), Len(bytes) >= 1,
         bytes[1] = <<m, 1>>, Loads(bytes) # {},
         \A x \in Loads(bytes) : ~(x.size < Len(bytes))
  PROVE  Loads(bytes) = {m} /\ Len(bytes) = m.size
<1>1. ASSUME NEW x \in Loads(bytes) PROVE x = m /\ x.size = Len(bytes)
  <2>1. /\ \E i \in 1..Len(bytes) : x = bytes[i][1]
        /\ Len(bytes) >= x.size /\ \A i \in 1..x.size : bytes[i] = <<x, i>>
    BY <1>1 DEF Loads
  <2>2. x \in Messages
    <3>1. \A i \in 1..Len(bytes) : bytes[i] \in Messages \X Nat
      OBVIOUS
    <3>2. \A i \in 1..Len(bytes) : bytes[i][1] \in Messages
      BY <3>1
    <3> QED BY <2>1, <3>2
  <2> DEFINE s == x.size
             n == Len(bytes)
  <2>3. s \in Nat /\ s >= 1
    BY <2>2, CellCount
  <2>4. ~(s < n) /\ n >= s /\ n \in Nat
    BY <1>1, <2>1
  <2>5. \A i \in 1..s : bytes[i] = <<x, i>>
    BY <2>1
  <2> HIDE DEF s, n
  <2>6. s = n /\ 1 \in 1..s
    BY <2>3, <2>4
  <2>7. bytes[1] = <<x, 1>>
    BY <2>5, <2>6
  <2> QED BY <2>6, <2>7 DEF s, n
<1>2. PICK x \in Loads(bytes) : TRUE
  OBVIOUS
<1> QED BY <1>1, <1>2

LEMMA FramedFirst ==
  ASSUME NEW bytes \in Seq(Messages \X Nat), bytes # <<>>, NEW msgs \in Seq(Messages),
         NEW first \in Nat \ {0}, NEW last \in Nat, first <= last, last <= Len(msgs) + 1,
         Framed(bytes, msgs, first, last)
  PROVE  first < last /\ first \in 1..Len(msgs) /\ bytes[1] = <<msgs[first], 1>>
<1>1. PICK off \in [Nat -> Nat] : Frames(bytes, msgs, first, last, off)
  BY DEF Framed
<1>2. first < last
  <2>1. off[first] = 0 /\ off[last] = Len(bytes)
    BY <1>1 DEF Frames
  <2>2. Len(bytes) # 0
    OBVIOUS
  <2> QED BY <2>1, <2>2
<1>3. first \in 1..Len(msgs) /\ first \in first..(last - 1)
  BY <1>2
<1> DEFINE s == msgs[first].size
<1>4. s \in Nat /\ s >= 1
  BY <1>3, SizeOfMessage
<1> HIDE DEF s
<1>5. off[first] = 0 /\ \A j \in 1..s : bytes[off[first] + j] = <<msgs[first], j>>
  BY <1>1, <1>3 DEF Frames, s
<1>6. 1 \in 1..s /\ 0 + 1 = 1
  BY <1>4
<1>7. bytes[1] = <<msgs[first], 1>>
  BY <1>5, <1>6
<1> QED BY <1>2, <1>3, <1>7

(* What remains of the bytes after n of them. *)
Remains(rest, bytes, n) ==
  Len(rest) = Len(bytes) - n /\ \A i \in 1..(Len(bytes) - n) : rest[i] = bytes[n + i]

LEMMA FramedRest ==
  ASSUME NEW bytes \in Seq(Messages \X Nat), NEW msgs \in Seq(Messages),
         NEW first \in 1..Len(msgs), NEW last \in Nat, first < last, last <= Len(msgs) + 1,
         NEW off \in [Nat -> Nat], Frames(bytes, msgs, first, last, off),
         NEW rest, Remains(rest, bytes, off[first + 1])
  PROVE  Framed(rest, msgs, first + 1, last)
<1> DEFINE len == Len(bytes)
<1>0. first \in Nat /\ first + 1 \in Nat
  OBVIOUS
<1>1. PICK n \in Nat : n = off[first + 1] /\ Remains(rest, bytes, n)
  OBVIOUS
<1>2. off[first] = 0 /\ off[last] = len /\ len \in Nat
  BY DEF Frames
<1>3. Len(rest) = len - n /\ \A i \in 1..(len - n) : rest[i] = bytes[n + i]
  BY <1>1 DEF Remains
<1> HIDE DEF len
<1>4. off[first + 1] = n /\ \A l \in (first + 1)..last : n <= off[l]
  <2> DEFINE s == msgs[first].size
  <2>1. first \in first..(last - 1)
    OBVIOUS
  <2> HIDE DEF s
  <2>2. /\ off[first + 1] = off[first] + s
        /\ \A l \in (first + 1)..last : off[first] + s <= off[l]
    BY <2>1 DEF Frames, s
  <2>3. n = off[first] + s
    BY <1>1, <2>2
  <2> QED BY <1>1, <2>2, <2>3
<1> DEFINE next == [k \in Nat |-> IF off[k] >= n THEN off[k] - n ELSE 0]
<1>5. next \in [Nat -> Nat]
  <2>1. ASSUME NEW k \in Nat PROVE (IF off[k] >= n THEN off[k] - n ELSE 0) \in Nat
    <3> DEFINE a == off[k]
    <3>1. a \in Nat
      OBVIOUS
    <3> HIDE DEF a
    <3>2. (IF a >= n THEN a - n ELSE 0) \in Nat
      BY <3>1
    <3> QED BY <3>2 DEF a
  <2> QED BY <2>1
<1>6. ASSUME NEW k \in (first + 1)..last
      PROVE  next[k] = off[k] - n /\ off[k] >= n /\ k \in Nat /\ off[k] \in Nat
  <2> DEFINE a == off[k]
  <2>1. k \in Nat
    BY <1>0
  <2>2. a \in Nat
    BY <2>1
  <2>3. n <= a
    BY <1>4
  <2>4. next[k] = IF a >= n THEN a - n ELSE 0
    BY <2>1
  <2> HIDE DEF a, next
  <2>5. next[k] = a - n /\ a >= n
    BY <2>2, <2>3, <2>4
  <2> QED BY <2>1, <2>2, <2>5 DEF a
<1> HIDE DEF next
<1>7. next[first + 1] = 0 /\ next[last] = Len(rest)
  <2>1. first + 1 \in (first + 1)..last /\ last \in (first + 1)..last
    OBVIOUS
  <2>2. next[first + 1] = n - n /\ next[last] = len - n
    BY <1>2, <1>4, <1>6, <2>1
  <2> QED BY <1>3, <2>2
<1>8. ASSUME NEW k \in (first + 1)..(last - 1)
       PROVE  /\ next[k + 1] = next[k] + msgs[k].size
              /\ \A l \in (k + 1)..last : next[k] + msgs[k].size <= next[l]
              /\ \A j \in 1..msgs[k].size : rest[next[k] + j] = <<msgs[k], j>>
  <2> DEFINE size == msgs[k].size
             a == off[k]
  <2>1. /\ k \in first..(last - 1) /\ k \in (first + 1)..last /\ k + 1 \in (first + 1)..last
        /\ last \in (k + 1)..last /\ k \in 1..Len(msgs)
    OBVIOUS
  <2>2. size \in Nat /\ size >= 1
    BY <2>1, SizeOfMessage
  <2> HIDE DEF size
  <2>3. /\ off[k + 1] = a + size
        /\ \A l \in (k + 1)..last : a + size <= off[l]
        /\ \A j \in 1..size : bytes[a + j] = <<msgs[k], j>>
    BY <2>1 DEF Frames, size
  <2>4. next[k] = a - n /\ a >= n /\ a \in Nat
    BY <1>6, <2>1
  <2> HIDE DEF a
  <2>5. next[k + 1] = next[k] + size
    <3>0. next[k + 1] = off[k + 1] - n
      BY <1>6, <2>1
    <3>1. next[k + 1] = (a + size) - n
      BY <2>3, <3>0, Zenon
    <3> QED BY <2>2, <2>4, <3>1
  <2>6. ASSUME NEW l \in (k + 1)..last PROVE next[k] + size <= next[l]
    <3> DEFINE b == off[l]
    <3>1. l \in (first + 1)..last
      BY <2>1
    <3>2. next[l] = b - n /\ b \in Nat /\ a + size <= b
      BY <1>6, <2>3, <3>1
    <3> HIDE DEF b
    <3> QED BY <2>2, <2>4, <3>2
  <2>7. ASSUME NEW j \in 1..size PROVE rest[next[k] + j] = <<msgs[k], j>>
    <3>1. a + size <= len
      BY <1>2, <2>1, <2>3
    <3>2. next[k] + j \in 1..(len - n) /\ n + (next[k] + j) = a + j
      <4> DEFINE b == next[k]
      <4>1. b = a - n
        BY <2>4
      <4> HIDE DEF b
      <4>2. b \in Nat /\ n + b = a
        BY <2>4, <4>1
      <4>3. j \in Nat /\ j >= 1 /\ j <= size
        BY <2>2
      <4>4. b + j \in Nat /\ b + j >= 1 /\ n + (b + j) = a + j
        BY <2>4, <4>2, <4>3
      <4>5. n + (b + j) <= len
        BY <1>2, <2>2, <2>4, <3>1, <4>3, <4>4
      <4>6. b + j \in 1..(len - n)
        BY <1>2, <4>4, <4>5
      <4> QED BY <4>4, <4>6 DEF b
    <3>3. rest[next[k] + j] = bytes[a + j]
      BY <1>3, <3>2
    <3> QED BY <2>3, <3>3
  <2> QED BY <2>5, <2>6, <2>7 DEF size
<1>9. Frames(rest, msgs, first + 1, last, next)
  <2> DEFINE start == first + 1
  <2>1. \A k \in start..(last - 1) :
          /\ next[k + 1] = next[k] + msgs[k].size
          /\ \A l \in (k + 1)..last : next[k] + msgs[k].size <= next[l]
          /\ \A j \in 1..msgs[k].size : rest[next[k] + j] = <<msgs[k], j>>
    BY <1>8
  <2>2. next[start] = 0 /\ next[last] = Len(rest)
    BY <1>7
  <2> HIDE DEF start
  <2>3. Frames(rest, msgs, start, last, next)
    BY <2>1, <2>2 DEF Frames
  <2> QED BY <2>3 DEF start
<1> QED BY <1>5, <1>9 DEF Framed

-----------------------------------------------------------------------------
(***************************************************************************)
(* What holds of the way up as long as nothing went wrong there.  OneSender *)
(* says that the threads of the connecting router take turns: the one that  *)
(* is sending has the last message, and no cell overtook it at the point.   *)
(***************************************************************************)
OneSender ==
  /\ \A u, v \in Threads : snd[u].pc # "idle" /\ snd[v].pc # "idle" => u = v
  /\ (\A u \in Threads : snd[u].pc # "link") => link = strip
  /\ \A u \in Threads : snd[u].pc = "link" => snd[u].link = strip /\ link = strip + 1
  /\ \A u \in Threads : snd[u].pc # "idle" =>
       /\ sent["up"] # <<>> /\ snd[u].peer = Len(sent["up"])
       /\ Message(u, snd[u].size, "up") = sent["up"][Len(sent["up"])]

Answering(cells) ==
  \A i \in 1..Len(cells) : /\ cells[i].kind \in {"CONNECTED", "DATA", "GONE"}
                           /\ cells[i].kind = "CONNECTED" => cells[i].peer = 0

UpIsClean ==
  /\ lost["up"] = 0 /\ OneSender
  /\ TakenFrom(handled["up"], sent["up"]) /\ Carried(wire["up"], sent["up"]) /\ Answering(wire["up"])
  /\ stream \in {"connecting", "connected"} => InSequence(wire["up"], dec["up"])
  /\ stream \in {"none", "connecting"} => dec["up"] = 0 /\ buffer = <<>> /\ handled["up"] = <<>>
  /\ stream = "connected" =>
       /\ Len(handled["up"]) + 1 <= dec["up"] /\ dec["up"] <= Len(sent["up"]) + 1
       /\ Framed(buffer, sent["up"], Len(handled["up"]) + 1, dec["up"])

UpClean == ~trouble["up"] => UpIsClean

LEMMA UpInit == Init => UpClean
<1> SUFFICES ASSUME Init PROVE UpIsClean
  BY DEF UpClean
<1>1. /\ lost["up"] = 0 /\ handled["up"] = <<>> /\ sent["up"] = <<>> /\ wire["up"] = <<>>
      /\ dec["up"] = 0 /\ buffer = <<>> /\ stream = "none" /\ link = strip
      /\ \A u \in Threads : snd[u].pc = "idle"
  BY DEF Init, Dirs
<1>2. OneSender
  BY <1>1 DEF OneSender
<1> QED BY <1>1, <1>2 DEF UpIsClean, TakenFrom, Carried, Answering

LEMMA OneSenderKept ==
  ASSUME TypeOK, Unsent, Stages, Numbered, OneSender, ~trouble'["up"], [Next]_vars PROVE OneSender'
<1> USE DEF est, con, layers, data
<1>0. /\ "up" \in Dirs /\ "down" \in Dirs /\ "up" # "down" /\ trouble \in [Dirs -> BOOLEAN]
      /\ snd \in [Threads -> Sending] /\ link \in Nat /\ strip \in Nat
      /\ sent \in [Dirs -> Seq(Messages)]
  BY DEF Dirs, TypeOK
<1>1. ASSUME UNCHANGED snd, sent'["up"] = sent["up"],
             UNCHANGED <<link, strip>> \/ (link' = strip' /\ \A u \in Threads : snd[u].pc # "link")
      PROVE  OneSender'
  BY <1>1 DEF OneSender
<1>2. ASSUME UNCHANGED snd, \A u \in Threads : snd[u].pc = "idle", link' = strip' PROVE OneSender'
  BY <1>2 DEF OneSender
<1>3. ASSUME EndLoop, UNCHANGED <<snd, sent>> PROVE OneSender'
  <2>1. \A u \in Threads : snd[u].pc # "link"
    BY <1>0, <1>3 DEF EndLoop
  <2>2. link' = strip'
    BY <1>3, <2>1 DEF EndLoop, OneSender
  <2> QED BY <1>1, <1>3, <2>1, <2>2
<1>4. CASE \/ Establish \/ CreateWaiter \/ Begin \/ WaitFails \/ ConnectTimeout \/ Recv \/ RecvRaises
           \/ Rendezvous2 \/ TakeUp \/ Select \/ Break \/ UNCHANGED vars
  <2>1. UNCHANGED <<snd, sent, link, strip>>
    BY <1>4 DEF Establish, CreateWaiter, Begin, WaitFails, ConnectTimeout, Recv, RecvRaises,
       Rendezvous2, TakeUp, Select, Break, vars
  <2> QED BY <1>1, <2>1
<1>5. CASE Connected \/ \E u \in DownThreads : SendDown(u)
  <2>1. UNCHANGED <<snd, link, strip>> /\ \E m : Sent("down", m)
    BY <1>5 DEF Connected, SendDown
  <2>2. sent'["up"] = sent["up"]
    BY <1>0, <2>1 DEF Sent
  <2> QED BY <1>1, <2>1, <2>2
<1>6. CASE ConnectToPoint
  <2>1. /\ c = "connect" /\ UNCHANGED <<snd, sent>>
        /\ UNCHANGED <<link, strip>> \/ (link' = 1 /\ strip' = 1)
    BY <1>6 DEF ConnectToPoint
  <2>2. \A u \in Threads : snd[u].pc = "idle"
    BY <2>1 DEF Unsent
  <2> QED BY <1>1, <1>2, <2>1, <2>2
<1>7. CASE TakeBegin
  <2>1. /\ c = "wait" /\ UNCHANGED snd
        /\ \/ UNCHANGED <<link, strip, sent>>
           \/ \E cells : link' = link + Len(cells) /\ strip' = strip + Len(cells)
    BY <1>7 DEF TakeBegin, Up
  <2>2. \A u \in Threads : snd[u].pc = "idle"
    BY <2>1 DEF Unsent
  <2>3. link = strip
    BY <2>2 DEF OneSender
  <2> QED BY <1>1, <1>2, <2>1, <2>2, <2>3
<1>8. CASE Die
  BY <1>3, <1>8 DEF Die
<1>9. CASE TakeDown
  <2>1. UNCHANGED <<snd, sent>> /\ (EndLoop \/ UNCHANGED <<link, strip>>)
    BY <1>9 DEF TakeDown
  <2> QED BY <1>1, <1>3, <2>1
<1>10. ASSUME NEW u \in Threads, EncryptPeer(u) PROVE OneSender'
  <2>1. PICK size \in Sizes :
          \/ UNCHANGED <<snd, enc, sent, trouble>>
          \/ /\ snd' = [snd EXCEPT ![u] = [pc |-> "peer", size |-> size, peer |-> enc["up"]]]
             /\ Sent("up", Message(u, size, "up"))
             /\ trouble' = [trouble EXCEPT !["up"] = @ \/ \E v \in Threads : snd[v].pc # "idle"]
    BY <1>10 DEF EncryptPeer
  <2>2. UNCHANGED <<link, strip>> 
    BY <1>10 DEF EncryptPeer
  <2>3. CASE UNCHANGED <<snd, enc, sent, trouble>>
    BY <1>1, <2>2, <2>3
  <2>4. CASE /\ snd' = [snd EXCEPT ![u] = [pc |-> "peer", size |-> size, peer |-> enc["up"]]]
             /\ Sent("up", Message(u, size, "up"))
             /\ trouble' = [trouble EXCEPT !["up"] = @ \/ \E v \in Threads : snd[v].pc # "idle"]
    <3>1. \A v \in Threads : snd[v].pc = "idle"
      BY <1>0, <2>4
    <3>2. /\ snd'[u].pc = "peer" /\ snd'[u].size = size /\ snd'[u].peer = enc["up"]
          /\ \A v \in Threads \ {u} : snd'[v] = snd[v]
      BY <1>0, <2>4
    <3>3. Message(u, size, "up") \in Messages
      BY <1>0 DEF Message, Messages
    <3>4. /\ sent'["up"] # <<>> /\ Len(sent'["up"]) = Len(sent["up"]) + 1 /\ Len(sent["up"]) \in Nat
          /\ sent'["up"][Len(sent["up"]) + 1] = Message(u, size, "up")
      BY <1>0, <2>4, <3>3, SentLast
    <3>5. sent["up"] # <<>>
      <4>1. handled["down"] # <<>>
        BY <1>10 DEF EncryptPeer, Knows
      <4> QED BY <4>1 DEF Stages
    <3>6. enc["up"] = Len(sent'["up"])
      BY <3>4, <3>5 DEF Numbered
    <3>7. link' = strip'
      BY <2>2, <3>1 DEF OneSender
    <3>8. \A v \in Threads : snd'[v].pc # "idle" => v = u
      BY <3>1, <3>2
    <3>9. \A v \in Threads : snd'[v].pc # "link"
      BY <3>1, <3>2
    <3>10. Message(u, snd'[u].size, "up") = sent'["up"][Len(sent'["up"])]
      BY <3>2, <3>4
    <3>11. snd'[u].peer = Len(sent'["up"])
      BY <3>2, <3>6
    <3> QED BY <3>4, <3>7, <3>8, <3>9, <3>10, <3>11 DEF OneSender
  <2> QED BY <2>1, <2>3, <2>4
<1>11. ASSUME NEW u \in Threads, EncryptLink(u) PROVE OneSender'
  <2>1. /\ snd[u].pc = "peer" /\ link' = link + 1 /\ UNCHANGED <<strip, sent>>
        /\ snd' = [snd EXCEPT ![u] = [pc |-> "link", size |-> @.size, peer |-> @.peer, link |-> link]]
    BY <1>11 DEF EncryptLink
  <2>2. /\ snd'[u].pc = "link" /\ snd'[u].size = snd[u].size /\ snd'[u].peer = snd[u].peer
        /\ snd'[u].link = link /\ \A v \in Threads \ {u} : snd'[v] = snd[v]
    BY <1>0, <2>1
  <2>3. \A v \in Threads : snd[v].pc # "idle" => v = u
    BY <2>1 DEF OneSender
  <2>4. link = strip
    BY <2>1, <2>3 DEF OneSender
  <2>5. \A v \in Threads : snd'[v].pc # "idle" => v = u
    BY <2>2, <2>3
  <2>6. snd'[u].link = strip' /\ link' = strip' + 1
    BY <2>1, <2>2, <2>4
  <2>7. /\ sent["up"] # <<>> /\ snd[u].peer = Len(sent["up"])
        /\ Message(u, snd[u].size, "up") = sent["up"][Len(sent["up"])]
    BY <2>1 DEF OneSender
  <2>8. /\ sent'["up"] # <<>> /\ snd'[u].peer = Len(sent'["up"])
        /\ Message(u, snd'[u].size, "up") = sent'["up"][Len(sent'["up"])]
    BY <2>1, <2>2, <2>7
  <2> QED BY <2>2, <2>5, <2>6, <2>8 DEF OneSender
<1>12. ASSUME NEW u \in Threads, Put(u) PROVE OneSender'
  <2>1. /\ snd[u].pc = "link" /\ strip' = strip + 1 /\ UNCHANGED <<link, sent>>
        /\ snd' = [snd EXCEPT ![u] = [pc |-> "idle"]]
    BY <1>12 DEF Put
  <2>2. snd'[u].pc = "idle" /\ \A v \in Threads \ {u} : snd'[v] = snd[v]
    BY <1>0, <2>1
  <2>3. \A v \in Threads : snd[v].pc # "idle" => v = u
    BY <2>1 DEF OneSender
  <2>4. link = strip + 1
    BY <2>1 DEF OneSender
  <2>5. \A v \in Threads : snd'[v].pc = "idle"
    BY <2>2, <2>3
  <2>6. link' = strip'
    BY <2>1, <2>4
  <2> QED BY <2>5, <2>6 DEF OneSender
<1> QED BY <1>4, <1>5, <1>6, <1>7, <1>8, <1>9, <1>10, <1>11, <1>12 DEF Next, EStep, CStep, Guard

LEMMA AnsweringAppended ==
  ASSUME NEW a \in Seq(CellsOfAnyKind), NEW b \in Seq(CellsOfAnyKind), Answering(a), Answering(b)
  PROVE  Answering(a \o b)
<1>1. ASSUME NEW i \in 1..Len(a \o b)
      PROVE  /\ (a \o b)[i].kind \in {"CONNECTED", "DATA", "GONE"}
             /\ (a \o b)[i].kind = "CONNECTED" => (a \o b)[i].peer = 0
  <2>1. CASE i \in 1..Len(a)
    <3>1. (a \o b)[i] = a[i]
      BY <2>1
    <3> QED BY <2>1, <3>1 DEF Answering
  <2>2. CASE i \notin 1..Len(a)
    <3>1. (a \o b)[i] = b[i - Len(a)] /\ i - Len(a) \in 1..Len(b)
      BY <2>2
    <3> QED BY <3>1 DEF Answering
  <2> QED BY <2>1, <2>2
<1> QED BY <1>1 DEF Answering

LEMMA AnsweringTail ==
  ASSUME NEW cells \in Seq(CellsOfAnyKind), cells # <<>>, Answering(cells)
  PROVE  /\ Head(cells).kind \in {"CONNECTED", "DATA", "GONE"}
         /\ Head(cells).kind = "CONNECTED" => Head(cells).peer = 0
         /\ Answering(Tail(cells))
<1>1. /\ Len(Tail(cells)) = Len(cells) - 1 /\ Len(cells) \in Nat /\ Len(cells) >= 1
      /\ \A i \in 1..Len(Tail(cells)) : Tail(cells)[i] = cells[i + 1] /\ i + 1 \in 1..Len(cells)
  BY HeadTailProperties
<1>2. Head(cells) = cells[1] /\ 1 \in 1..Len(cells)
  BY <1>1
<1> QED BY <1>1, <1>2 DEF Answering

(* A step that leaves the way up alone, but for its end. *)
LEMMA UpSame ==
  ASSUME UpIsClean, OneSender', lost'["up"] = lost["up"], handled'["up"] = handled["up"],
         sent'["up"] = sent["up"], wire'["up"] = wire["up"], dec'["up"] = dec["up"],
         buffer' = buffer, stream' = stream \/ stream' = "closed"
  PROVE  UpIsClean'
BY DEF UpIsClean

(* A step that adds cells to it, or a message, or both. *)
LEMMA UpAppended ==
  ASSUME TypeOK, UpIsClean, OneSender', NEW cells \in Seq(CellsOfAnyKind),
         wire'["up"] = wire["up"] \o cells,
         lost'["up"] = lost["up"], handled'["up"] = handled["up"], dec'["up"] = dec["up"],
         buffer' = buffer, stream' = stream,
         sent'["up"] = sent["up"] \/ \E m \in Messages : sent'["up"] = Append(sent["up"], m),
         Carried(cells, sent'["up"]), Answering(cells),
         stream \in {"connecting", "connected"} /\ ~Stopped("up")
           => InSequence(cells, dec["up"] + Len(wire["up"]))
  PROVE  UpIsClean'
<1>0. /\ wire["up"] \in Seq(CellsOfAnyKind) /\ sent["up"] \in Seq(Messages)
      /\ handled["up"] \in Seq(Messages) /\ dec["up"] \in Nat
      /\ Len(sent["up"]) \in Nat /\ Len(handled["up"]) \in Nat
  <2>1. "up" \in Dirs
    BY DEF Dirs
  <2>2. wire["up"] \in Seq(CellsOfAnyKind) /\ dec["up"] \in Nat
    BY <2>1 DEF TypeOK
  <2>3. sent["up"] \in Seq(Messages) /\ handled["up"] \in Seq(Messages)
    BY <2>1 DEF TypeOK
  <2> QED BY <2>2, <2>3
<1>1. TakenFrom(handled'["up"], sent'["up"])
  BY <1>0, TakenMore DEF UpIsClean
<1>2. Carried(wire["up"], sent'["up"])
  BY <1>0, CarriedMore DEF UpIsClean
<1>3. Carried(wire'["up"], sent'["up"])
  BY <1>0, <1>2, CarriedAppended
<1>4. ASSUME stream \in {"connecting", "connected"} PROVE InSequence(wire'["up"], dec'["up"])
  <2>1. InSequence(wire["up"], dec["up"])
    BY <1>4 DEF UpIsClean
  <2>2. (\A i \in 1..Len(wire["up"]) : wire["up"][i].kind # "GONE")
          => InSequence(cells, dec["up"] + Len(wire["up"]))
    BY <1>4 DEF Stopped
  <2>3. InSequence(wire["up"] \o cells, dec["up"])
    BY <1>0, <2>1, <2>2, SequenceAppended
  <2> QED BY <2>3
<1>5. Answering(wire'["up"])
  BY <1>0, AnsweringAppended DEF UpIsClean
<1>6. ASSUME stream = "connected"
      PROVE  /\ Len(handled'["up"]) + 1 <= dec'["up"] /\ dec'["up"] <= Len(sent'["up"]) + 1
             /\ Framed(buffer', sent'["up"], Len(handled'["up"]) + 1, dec'["up"])
  <2>1. /\ Len(handled["up"]) + 1 <= dec["up"] /\ dec["up"] <= Len(sent["up"]) + 1
        /\ Framed(buffer, sent["up"], Len(handled["up"]) + 1, dec["up"])
    BY <1>6 DEF UpIsClean
  <2>2. ASSUME NEW m \in Messages, sent'["up"] = Append(sent["up"], m)
        PROVE  /\ dec["up"] <= Len(sent'["up"]) + 1
               /\ Framed(buffer, sent'["up"], Len(handled["up"]) + 1, dec["up"])
    <3>1. Len(sent'["up"]) = Len(sent["up"]) + 1
      BY <1>0, <2>2
    <3>2. Len(handled["up"]) + 1 \in Nat \ {0}
      BY <1>0
    <3>3. Framed(buffer, Append(sent["up"], m), Len(handled["up"]) + 1, dec["up"])
      BY <1>0, <2>1, <3>2, FramedMore
    <3> QED BY <1>0, <2>1, <2>2, <3>1, <3>3
  <2> QED BY <2>1, <2>2
<1> QED BY <1>1, <1>3, <1>4, <1>5, <1>6 DEF UpIsClean

(* The number of the next cell up, while the establisher still reads. *)
LEMMA UpNext ==
  ASSUME TypeOK, InStep, Cut, lost["up"] = 0, stream \in {"connecting", "connected"}, ~Stopped("up")
  PROVE  enc["up"] = dec["up"] + Len(wire["up"]) + Cardinality(Busy) /\ point = "joined"
<1>1. point = "joined"
  BY DEF TypeOK, Cut, InStep, Begun
<1>2. enc["up"] = dec["up"] + 0 + Len(wire["up"]) + Cardinality(Busy)
  BY <1>1 DEF InStep, Counted
<1>3. dec["up"] \in Nat /\ Len(wire["up"]) \in Nat
  BY DEF TypeOK, Dirs
<1> QED BY <1>1, <1>2, <1>3

(* BEGIN answered: the first two cells up. *)
LEMMA UpAnswered ==
  ASSUME TypeOK, InStep, Unsent, Cut, Numbered, UpIsClean, OneSender', TakeBegin
  PROVE  UpIsClean'
<1> USE DEF est, con, layers, data
<1>0. /\ "up" \in Dirs /\ "down" \in Dirs /\ "up" # "down" /\ sent["up"] \in Seq(Messages)
      /\ dec["up"] \in Nat /\ Len(wire["up"]) \in Nat /\ enc["up"] \in Nat
      /\ Hello("up") \in Messages
  BY HelloTyped DEF Dirs, TypeOK
<1>1. /\ c = "wait" /\ wire["down"] # <<>> /\ UNCHANGED <<stream, buffer, handled>>
  BY DEF TakeBegin
<1>2. UNCHANGED <<dec, lost>> \/ \E readable \in BOOLEAN : Decrypt("down", readable)
  BY DEF TakeBegin
<1>3. dec'["up"] = dec["up"] /\ lost'["up"] = lost["up"]
  BY <1>0, <1>2, DecryptTyped
<1>4. CASE Pop("down") /\ UNCHANGED sent
  <2>1. wire'["up"] = wire["up"]
    BY <1>0, <1>1, <1>4, PoppedTyped
  <2> QED BY <1>1, <1>3, <1>4, <2>1, UpSame
<1>5. CASE /\ Up(<<Control("CONNECTED", enc["up"])>> \o Cells("DATA", Hello("up"), enc["up"] + 1))
           /\ Sent("up", Hello("up"))
  <2> DEFINE cells == <<Control("CONNECTED", enc["up"])>> \o Cells("DATA", Hello("up"), enc["up"] + 1)
             m == Hello("up")
  <2>1. sent["up"] = <<>> /\ enc["up"] = 0 /\ \A u \in Threads : snd[u].pc = "idle"
    BY <1>1 DEF Unsent, Numbered
  <2>2. /\ cells \in Seq(CellsOfAnyKind) /\ Len(cells) = 2
        /\ cells[1].kind = "CONNECTED" /\ cells[1].peer = 0
        /\ cells[2].kind = "DATA" /\ cells[2].peer = 1 /\ cells[2].whole
        /\ cells[2].bytes = WholeMessage(m)
    BY <2>1, AnswerCells
  <2>3. Up(cells) /\ Sent("up", m) /\ m \in Messages
    BY <1>0, <1>5
  <2> HIDE DEF cells, m
  <2>4. wire'["up"] = wire["up"] \o cells
    BY <1>1, <2>2, <2>3, UpTyped
  <2>5. sent'["up"] = Append(sent["up"], m) /\ Len(sent'["up"]) = 1 /\ sent'["up"][1] = m
    <3>1. Len(sent["up"]) = 0
      BY <2>1
    <3>2. /\ sent'["up"] = Append(sent["up"], m) /\ Len(sent'["up"]) = Len(sent["up"]) + 1
          /\ sent'["up"][Len(sent["up"]) + 1] = m
      BY <1>0, <2>3, SentLast
    <3> QED BY <3>1, <3>2
  <2>6. \A i \in 1..Len(cells) : i = 1 \/ i = 2
    BY <2>2
  <2>7. Carried(cells, sent'["up"])
    <3>1. Fits(cells[1], sent'["up"])
      BY <2>2 DEF Fits
    <3>2. Fits(cells[2], sent'["up"])
      BY <2>2, <2>5 DEF Fits
    <3> QED BY <2>6, <3>1, <3>2 DEF Carried
  <2>8. Answering(cells)
    BY <2>2, <2>6 DEF Answering
  <2>9. ASSUME stream \in {"connecting", "connected"}, ~Stopped("up")
        PROVE  InSequence(cells, dec["up"] + Len(wire["up"]))
    <3>1. enc["up"] = dec["up"] + Len(wire["up"]) + Cardinality(Busy)
      BY <2>9, UpNext DEF UpIsClean
    <3>2. dec["up"] + Len(wire["up"]) = 0
      BY <1>0, <2>1, <3>1, BusyFinite
    <3>3. ASSUME NEW i \in 1..Len(cells) PROVE cells[i].peer = 0 + i - 1
      <4>1. 0 + 1 - 1 = 0 /\ 0 + 2 - 1 = 1
        OBVIOUS
      <4> QED BY <2>2, <2>6, <4>1
    <3> QED BY <3>2, <3>3 DEF InSequence
  <2> QED BY <1>0, <1>1, <1>3, <2>2, <2>3, <2>4, <2>5, <2>7, <2>8, <2>9, UpAppended
<1> QED BY <1>4, <1>5 DEF TakeBegin

(* A thread of the connecting router sends, a step at a time. *)
LEMMA UpSent ==
  ASSUME TypeOK, InStep, Cut, Numbered, UpIsClean, OneSender',
         NEW u \in Threads, EncryptPeer(u) \/ EncryptLink(u) \/ Put(u)
  PROVE  UpIsClean'
<1> USE DEF est, con, layers, data
<1>0. /\ "up" \in Dirs /\ sent["up"] \in Seq(Messages) /\ Len(sent["up"]) \in Nat
      /\ wire["up"] \in Seq(CellsOfAnyKind) /\ wire \in [Dirs -> Seq(CellsOfAnyKind)]
      /\ dec["up"] \in Nat /\ Len(wire["up"]) \in Nat /\ enc["up"] \in Nat
  BY DEF Dirs, TypeOK
<1>1. UNCHANGED <<stream, buffer, handled, dec, lost>>
  BY DEF EncryptPeer, EncryptLink, Put
<1>2. CASE EncryptPeer(u)
  <2>1. wire' = wire /\ \E size \in Sizes : UNCHANGED sent \/ Sent("up", Message(u, size, "up"))
    BY <1>2 DEF EncryptPeer
  <2>2. CASE UNCHANGED sent
    BY <1>1, <2>1, <2>2, UpSame
  <2>3. ASSUME NEW size \in Sizes, Sent("up", Message(u, size, "up")) PROVE UpIsClean'
    <3>1. Message(u, size, "up") \in Messages
      BY <1>0 DEF Message, Messages
    <3>2. \E m \in Messages : sent'["up"] = Append(sent["up"], m)
      BY <1>0, <2>3, <3>1, SentLast
    <3> DEFINE cells == <<>>
    <3>3. /\ cells \in Seq(CellsOfAnyKind) /\ Len(cells) = 0
          /\ wire["up"] \o cells = wire["up"]
      BY <1>0
    <3> HIDE DEF cells
    <3>4. Carried(cells, sent'["up"]) /\ Answering(cells) /\ InSequence(cells, dec["up"] + Len(wire["up"]))
      BY <3>3 DEF Carried, Answering, InSequence
    <3>5. wire'["up"] = wire["up"] \o cells
      BY <2>1, <3>3
    <3> QED BY <1>1, <3>2, <3>3, <3>4, <3>5, UpAppended
  <2> QED BY <2>1, <2>2, <2>3
<1>3. CASE EncryptLink(u)
  <2>1. UNCHANGED <<sent, wire>>
    BY <1>3 DEF EncryptLink
  <2> QED BY <1>1, <2>1, UpSame
<1>4. CASE Put(u)
  <2> DEFINE m == Message(u, snd[u].size, "up")
             cell == [kind |-> "DATA", peer |-> snd[u].peer, whole |-> snd[u].link = strip,
                      msg |-> m, bytes |-> [i \in 1..m.size |-> <<m, i>>]]
  <2>1. /\ snd[u].pc = "link" /\ UNCHANGED sent
        /\ wire' = [wire EXCEPT !["up"] = IF point = "joined" THEN Append(@, cell) ELSE @]
    BY <1>4 DEF Put
  <2>2. CASE point # "joined"
    <3>1. wire'["up"] = wire["up"]
      BY <1>0, <2>1, <2>2
    <3> QED BY <1>1, <2>1, <3>1, UpSame
  <2>3. CASE point = "joined"
    <3>1. /\ sent["up"] # <<>> /\ snd[u].peer = Len(sent["up"]) /\ snd[u].link = strip
          /\ m = sent["up"][Len(sent["up"])] /\ \A v \in Threads : snd[v].pc # "idle" => v = u
      BY <2>1 DEF UpIsClean, OneSender
    <3>2. Len(sent["up"]) \in 1..Len(sent["up"])
      BY <1>0, <3>1
    <3>3. m \in Messages /\ m.size \in Nat
      <4>1. sent["up"][Len(sent["up"])] \in Messages
        BY <1>0, <3>2
      <4> QED BY <3>1, <4>1, CellCount
    <3>4. /\ cell.kind = "DATA" /\ cell.peer = Len(sent["up"]) /\ cell.whole = TRUE
          /\ cell.bytes = WholeMessage(m) /\ cell.msg = m
      BY <3>1 DEF WholeMessage
    <3> HIDE DEF m
    <3>5. cell \in CellsOfAnyKind
      <4>1. [i \in 1..m.size |-> <<m, i>>] \in Seq(Messages \X Nat)
        <5>1. [i \in 1..m.size |-> <<m, i>>] \in [1..m.size -> Messages \X Nat]
          BY <3>3
        <5> QED BY <3>3, <5>1, FunctionIsSeq
      <4>2. snd[u].peer \in Nat
        BY <1>0, <3>1
      <4> QED BY <3>3, <4>1, <4>2 DEF CellsOfAnyKind
    <3> HIDE DEF cell
    <3> DEFINE cells == <<cell>>
    <3>6. cells \in Seq(CellsOfAnyKind) /\ Len(cells) = 1 /\ cells[1] = cell
      BY <3>5
    <3>7. wire'["up"] = wire["up"] \o cells
      <4>1. wire'["up"] = Append(wire["up"], cell)
        BY <1>0, <2>1, <2>3
      <4> QED BY <1>0, <3>5, <4>1, AppendIsConcat
    <3> HIDE DEF cells
    <3>8. Fits(cell, sent["up"])
      BY <3>1, <3>2, <3>4 DEF Fits
    <3>9. Carried(cells, sent'["up"]) /\ Answering(cells)
      <4>1. \A i \in 1..Len(cells) : cells[i] = cell
        BY <3>6
      <4> QED BY <2>1, <3>4, <3>8, <4>1 DEF Carried, Answering
    <3>10. ASSUME stream \in {"connecting", "connected"}, ~Stopped("up")
           PROVE  InSequence(cells, dec["up"] + Len(wire["up"]))
      <4>1. enc["up"] = dec["up"] + Len(wire["up"]) + Cardinality(Busy)
        BY <3>10, UpNext DEF UpIsClean
      <4>2. Busy = {u}
        BY <2>1, <3>1 DEF Busy
      <4>3. Cardinality(Busy) = 1
        BY <4>2, FS_Singleton
      <4>4. enc["up"] = 1 + Len(sent["up"])
        BY <3>1 DEF Numbered
      <4>5. cells[1].peer = dec["up"] + Len(wire["up"])
        <5> DEFINE n == Len(sent["up"])
                   next == dec["up"] + Len(wire["up"])
                   card == Cardinality(Busy)
        <5>1. n \in Nat /\ next \in Nat /\ cells[1].peer = n
          BY <1>0, <3>4, <3>6
        <5>2. enc["up"] = next + card /\ card = 1 /\ enc["up"] = 1 + n
          BY <4>1, <4>3, <4>4
        <5> HIDE DEF n, next, card
        <5>3. n = next
          BY <5>1, <5>2
        <5> QED BY <5>1, <5>3 DEF next
      <4> QED BY <1>0, <3>6, <4>5, OneInSequence
    <3> QED BY <1>1, <2>1, <3>6, <3>7, <3>9, <3>10, UpAppended
  <2> QED BY <2>2, <2>3
<1> QED BY <1>2, <1>3, <1>4

(* The cell at the head of the way up, taken. *)
LEMMA UpTaken ==
  ASSUME TypeOK, UpIsClean, OneSender', ~trouble'["up"], TakeUp
  PROVE  UpIsClean'
<1> USE DEF est, con, layers, data
<1> DEFINE cell == Head(wire["up"])
<1>0. /\ "up" \in Dirs /\ sent["up"] \in Seq(Messages) /\ Len(sent["up"]) \in Nat
      /\ handled["up"] \in Seq(Messages) /\ Len(handled["up"]) \in Nat
      /\ wire["up"] \in Seq(CellsOfAnyKind) /\ buffer \in Seq(Messages \X Nat)
      /\ dec["up"] \in Nat /\ dec \in [Dirs -> Nat] /\ trouble \in [Dirs -> BOOLEAN]
  <2>1. "up" \in Dirs
    BY DEF Dirs
  <2>2. sent["up"] \in Seq(Messages) /\ handled["up"] \in Seq(Messages)
    BY <2>1 DEF TypeOK
  <2>3. wire["up"] \in Seq(CellsOfAnyKind) /\ buffer \in Seq(Messages \X Nat)
    BY <2>1 DEF TypeOK
  <2>4. dec["up"] \in Nat /\ dec \in [Dirs -> Nat] /\ trouble \in [Dirs -> BOOLEAN]
    BY <2>1 DEF TypeOK
  <2>5. Len(sent["up"]) \in Nat /\ Len(handled["up"]) \in Nat
    BY <2>2
  <2> QED BY <2>1, <2>2, <2>3, <2>4, <2>5
<1>1. wire["up"] # <<>> /\ UNCHANGED <<handled, sent>> /\ Pop("up")
  BY DEF TakeUp
<1>2. wire'["up"] = Tail(wire["up"]) /\ cell \in CellsOfAnyKind
  BY <1>0, <1>1, PopTyped, PoppedTyped
<1>3. /\ Fits(cell, sent["up"]) /\ Carried(wire'["up"], sent["up"]) /\ Answering(wire'["up"])
      /\ cell.kind \in {"CONNECTED", "DATA", "GONE"}
      /\ cell.kind = "CONNECTED" => cell.peer = 0
  BY <1>0, <1>1, <1>2, CarriedTail, AnsweringTail DEF UpIsClean
<1>4. CASE cell.kind = "GONE" \/ stream \in {"none", "closed"}
  <2>1. (stream' = stream \/ stream' = "closed") /\ UNCHANGED <<buffer, dec, lost>>
        /\ stream' \in {"none", "closed"}
    BY <1>4 DEF TakeUp
  <2>2. stream' \notin {"connecting", "connected"}
    BY <2>1
  <2>3. stream' = "none" => stream = "none"
    BY <2>1
  <2> QED BY <1>1, <1>3, <2>1, <2>2, <2>3 DEF UpIsClean
<1>5. CASE cell.kind # "GONE" /\ stream \in {"connecting", "connected"}
  <2>1. PICK readable \in BOOLEAN :
          /\ Decrypt("up", readable)
          /\ stream' = (IF readable /\ cell.kind = "CONNECTED" THEN "connected" ELSE stream)
          /\ buffer' = (IF readable /\ cell.kind = "DATA" THEN buffer \o cell.bytes ELSE buffer)
    BY <1>5 DEF TakeUp
  <2>2. /\ dec' = [dec EXCEPT !["up"] = @ + 1] /\ UNCHANGED lost
        /\ readable = (cell.whole /\ cell.peer = dec["up"])
    <3>1. ~Trouble("up")
      BY <1>0 DEF Trouble
    <3> QED BY <2>1, <3>1 DEF Decrypt
  <2> HIDE DEF cell
  <2>3. dec'["up"] = dec["up"] + 1
    BY <1>0, <2>2
  <2>4. cell.peer = dec["up"] /\ InSequence(wire'["up"], dec'["up"])
    <3>1. InSequence(wire["up"], dec["up"])
      BY <1>5 DEF UpIsClean
    <3>2. cell.peer = dec["up"] /\ InSequence(Tail(wire["up"]), dec["up"] + 1)
      BY <1>0, <1>1, <1>5, <3>1, SequenceTail DEF cell
    <3> QED BY <1>2, <2>3, <3>2
  <2>5. readable
    <3>1. cell.whole
      BY <1>2, <1>3, <1>5, DataCell DEF Fits
    <3> QED BY <2>2, <2>4, <3>1
  <2>6. CASE cell.kind = "CONNECTED"
    <3>1. dec["up"] = 0
      BY <1>3, <2>4, <2>6
    <3>2. stream = "connecting"
      <4>1. stream = "connected" => Len(handled["up"]) + 1 <= dec["up"]
        BY DEF UpIsClean
      <4> QED BY <1>0, <1>5, <3>1, <4>1
    <3>3. buffer = <<>> /\ handled["up"] = <<>>
      BY <3>2 DEF UpIsClean
    <3>4. stream' = "connected" /\ buffer' = <<>> /\ dec'["up"] = 1
      BY <2>1, <2>3, <2>5, <2>6, <3>1, <3>3
    <3>5. Len(handled'["up"]) + 1 = 1 /\ sent'["up"] = sent["up"]
      <4>1. Len(handled["up"]) = 0
        BY <3>3
      <4> QED BY <1>1, <4>1
    <3>6. Framed(<<>>, sent["up"], 1, 1)
      BY NothingFramed
    <3>7. /\ Len(handled'["up"]) + 1 <= dec'["up"] /\ dec'["up"] <= Len(sent'["up"]) + 1
          /\ Framed(buffer', sent'["up"], Len(handled'["up"]) + 1, dec'["up"])
      BY <1>0, <3>4, <3>5, <3>6
    <3>8. stream' \notin {"none", "connecting"}
      BY <3>4
    <3> QED BY <1>1, <1>3, <2>2, <2>4, <3>7, <3>8 DEF UpIsClean
  <2>7. CASE cell.kind = "DATA"
    <3>1. cell.peer \in 1..Len(sent["up"]) /\ cell.bytes = WholeMessage(sent["up"][cell.peer])
      BY <1>3, <2>7 DEF Fits
    <3> DEFINE first == Len(handled["up"]) + 1
               last == dec["up"]
               more == buffer \o WholeMessage(sent["up"][last])
    <3>2. last \in 1..Len(sent["up"]) /\ cell.bytes = WholeMessage(sent["up"][last])
      BY <2>4, <3>1
    <3>3. stream = "connected"
      <4>1. dec["up"] # 0
        BY <3>2
      <4> QED BY <1>5, <4>1 DEF UpIsClean
    <3>4. stream' = "connected" /\ buffer' = more
      BY <2>1, <2>5, <2>7, <3>2, <3>3
    <3>5. first <= last /\ Framed(buffer, sent["up"], first, last) /\ first \in Nat \ {0}
      BY <1>0, <3>3 DEF UpIsClean
    <3> HIDE DEF first, last
    <3>6. Framed(more, sent["up"], first, last + 1)
      BY <1>0, <3>2, <3>5, FramedNext
    <3> HIDE DEF more
    <3>7. last \in Nat /\ last <= Len(sent["up"])
      BY <1>0, <3>2
    <3>8. first <= last + 1 /\ last + 1 <= Len(sent["up"]) + 1
      BY <1>0, <3>5, <3>7
    <3>9. dec'["up"] = last + 1 /\ Len(handled'["up"]) + 1 = first /\ sent'["up"] = sent["up"]
      BY <1>1, <2>3 DEF first, last
    <3>10. /\ Len(handled'["up"]) + 1 <= dec'["up"] /\ dec'["up"] <= Len(sent'["up"]) + 1
           /\ Framed(buffer', sent'["up"], Len(handled'["up"]) + 1, dec'["up"])
      BY <3>4, <3>6, <3>8, <3>9
    <3>11. stream' \notin {"none", "connecting"}
      BY <3>4
    <3> QED BY <1>1, <1>3, <2>2, <2>4, <3>10, <3>11 DEF UpIsClean
  <2> QED BY <1>3, <1>5, <2>6, <2>7
<1>6. stream \in {"none", "closed", "connecting", "connected"}
  BY DEF TypeOK
<1> QED BY <1>4, <1>5, <1>6

(* recv, when what it took was one message. *)
LEMMA UpRead ==
  ASSUME TypeOK, UpIsClean, OneSender', ~trouble'["up"], Recv
  PROVE  UpIsClean'
<1> USE DEF est, con, layers, data
<1> DEFINE n == IF Len(buffer) < ReadSize THEN Len(buffer) ELSE ReadSize
           bytes == SubSeq(buffer, 1, n)
           rest == SubSeq(buffer, n + 1, Len(buffer))
           first == Len(handled["up"]) + 1
           last == dec["up"]
           m == sent["up"][first]
<1>0. /\ "up" \in Dirs /\ sent["up"] \in Seq(Messages) /\ Len(sent["up"]) \in Nat
      /\ handled["up"] \in Seq(Messages) /\ Len(handled["up"]) \in Nat
      /\ buffer \in Seq(Messages \X Nat) /\ dec["up"] \in Nat
      /\ trouble \in [Dirs -> BOOLEAN] /\ handled \in [Dirs -> Seq(Messages)]
  BY DEF Dirs, TypeOK
<1>1. /\ buffer # <<>> /\ stream = "connected" /\ Handle("up", bytes) /\ buffer' = rest
      /\ UNCHANGED <<stream, wire, dec, lost, sent>>
  BY DEF Recv
<1>2. n \in 1..Len(buffer)
  <2>1. Len(buffer) \in Nat /\ Len(buffer) >= 1
    BY <1>0, <1>1
  <2> QED BY <2>1, RendezvousAssumption
<1> HIDE DEF n
<1>3. /\ bytes \in Seq(Messages \X Nat) /\ Len(bytes) = n /\ \A i \in 1..n : bytes[i] = buffer[i]
  BY <1>0, <1>2, Divided
<1>4. Remains(rest, buffer, n)
  <2>1. /\ Len(rest) = Len(buffer) - n
        /\ \A i \in 1..(Len(buffer) - n) : rest[i] = buffer[n + i]
    BY <1>0, <1>2, Divided
  <2> QED BY <2>1 DEF Remains
<1> HIDE DEF bytes, rest
<1>5. Loads(bytes) # {} /\ \A x \in Loads(bytes) : ~(x.size < Len(bytes))
  BY <1>0, <1>1 DEF Handle
<1>6. /\ first \in Nat \ {0} /\ last \in Nat /\ first <= last /\ last <= Len(sent["up"]) + 1
      /\ Framed(buffer, sent["up"], first, last)
  BY <1>0, <1>1 DEF UpIsClean
<1> HIDE DEF first, last
<1>7. first < last /\ first \in 1..Len(sent["up"]) /\ buffer[1] = <<m, 1>>
  <2> DEFINE msgs == sent["up"]
  <2>1. /\ buffer \in Seq(Messages \X Nat) /\ buffer # <<>> /\ msgs \in Seq(Messages)
        /\ first \in Nat \ {0} /\ last \in Nat /\ first <= last /\ last <= Len(msgs) + 1
        /\ Framed(buffer, msgs, first, last)
    BY <1>0, <1>1, <1>6
  <2> HIDE DEF msgs
  <2>2. first < last /\ first \in 1..Len(msgs) /\ buffer[1] = <<msgs[first], 1>>
    BY <2>1, FramedFirst
  <2> QED BY <2>2 DEF msgs
<1>8. m \in Messages /\ m.size \in Nat
  BY <1>0, <1>7, SizeOfMessage
<1>9. Loads(bytes) = {m} /\ n = m.size
  <2>1. 1 \in 1..n /\ n >= 1
    BY <1>2
  <2>2. Len(bytes) >= 1 /\ bytes[1] = <<m, 1>>
    BY <1>3, <1>7, <2>1
  <2> HIDE DEF m
  <2>3. Loads(bytes) = {m} /\ Len(bytes) = m.size
    BY <1>3, <1>5, <1>8, <2>2, LoadsFirst
  <2> QED BY <1>3, <2>3
<1>10. handled'["up"] = Append(handled["up"], m)
  <2> HIDE DEF m
  <2>1. (CHOOSE x \in Loads(bytes) : TRUE) = m
    BY <1>9
  <2>2. handled'["up"] = handled["up"] \o <<m>>
    BY <1>0, <1>1, <1>5, <2>1 DEF Handle
  <2> QED BY <1>0, <1>8, <2>2, AppendIsConcat
<1>11. /\ TakenFrom(handled'["up"], sent["up"])
       /\ Len(handled'["up"]) = Len(handled["up"]) + 1
  <2>1. Len(handled["up"]) + 1 <= Len(sent["up"])
    BY <1>0, <1>7 DEF first
  <2>2. TakenFrom(handled["up"], sent["up"])
    BY DEF UpIsClean
  <2>3. handled'["up"] = Append(handled["up"], sent["up"][Len(handled["up"]) + 1])
    BY <1>10 DEF first
  <2> QED BY <1>0, <2>1, <2>2, <2>3, TakenNext
<1>12. Framed(rest, sent["up"], first + 1, last)
  <2>1. PICK off \in [Nat -> Nat] : Frames(buffer, sent["up"], first, last, off)
    BY <1>6 DEF Framed
  <2>2. off[first + 1] = n
    <3>1. first \in first..(last - 1)
      BY <1>6, <1>7
    <3>2. off[first] = 0 /\ off[first + 1] = off[first] + m.size
      BY <2>1, <3>1 DEF Frames
    <3> HIDE DEF m
    <3> QED BY <1>8, <1>9, <3>2
  <2>3. Remains(rest, buffer, off[first + 1])
    BY <1>4, <2>2
  <2> QED BY <1>0, <1>6, <1>7, <2>1, <2>3, FramedRest
<1>13. /\ Len(handled'["up"]) + 1 <= dec'["up"] /\ dec'["up"] <= Len(sent'["up"]) + 1
       /\ Framed(buffer', sent'["up"], Len(handled'["up"]) + 1, dec'["up"])
  <2>1. dec'["up"] = last /\ sent'["up"] = sent["up"] /\ Len(handled'["up"]) = first
    BY <1>1, <1>11 DEF first, last
  <2>2. first + 1 <= last
    BY <1>6, <1>7
  <2> QED BY <1>1, <1>6, <1>12, <2>1, <2>2
<1> QED BY <1>1, <1>11, <1>13 DEF UpIsClean

LEMMA UpKept ==
  ASSUME TypeOK, InStep, Stages, Unsent, Cut, Numbered, UpClean, [Next]_vars PROVE UpClean'
<1> USE DEF est, con, layers, data
<1>0. /\ "up" \in Dirs /\ "down" \in Dirs /\ "up" # "down"
      /\ wire["up"] \in Seq(CellsOfAnyKind) /\ wire \in [Dirs -> Seq(CellsOfAnyKind)]
      /\ handled \in [Dirs -> Seq(Messages)] /\ sent \in [Dirs -> Seq(Messages)]
      /\ dec["up"] \in Nat /\ Len(wire["up"]) \in Nat
  BY DEF Dirs, TypeOK
<1>1. SUFFICES ASSUME ~trouble'["up"] PROVE UpIsClean'
  BY DEF UpClean
<1>2. ~trouble["up"] /\ UpIsClean
  BY <1>0, <1>1, TroubleStays DEF UpClean
<1>3. OneSender'
  BY <1>1, <1>2, OneSenderKept DEF UpIsClean
<1>4. CASE \/ Establish \/ CreateWaiter \/ WaitFails \/ Rendezvous2 \/ Select \/ Die \/ ConnectToPoint
           \/ UNCHANGED vars
  <2>1. UNCHANGED <<lost, handled, sent, wire, dec, buffer, stream>>
    BY <1>4 DEF Establish, CreateWaiter, WaitFails, Rendezvous2, Select, Die, ConnectToPoint, vars
  <2> QED BY <1>2, <1>3, <2>1, UpSame
<1>5. CASE Connected \/ ConnectTimeout \/ RecvRaises \/ \E u \in DownThreads : SendDown(u)
  <2>1. UNCHANGED <<lost, handled, dec, buffer>>
    BY <1>5 DEF Connected, ConnectTimeout, RecvRaises, SendDown
  <2>2. sent'["up"] = sent["up"]
    <3>1. UNCHANGED sent \/ \E m : Sent("down", m)
      BY <1>5 DEF Connected, ConnectTimeout, RecvRaises, SendDown
    <3> QED BY <1>0, <3>1 DEF Sent
  <2>3. wire'["up"] = wire["up"] /\ (stream' = stream \/ stream' = "closed")
    <3>1. ASSUME NEW cells, Down(cells) PROVE wire'["up"] = wire["up"]
      BY <1>0, <3>1 DEF Down
    <3>2. ASSUME NEW newE, CloseAll(newE) PROVE wire'["up"] = wire["up"] /\ stream' = "closed"
      BY <3>2, CloseTyped
    <3>3. CASE Connected \/ \E u \in DownThreads : SendDown(u)
      <4>1. UNCHANGED stream /\ \E cells : Down(cells)
        BY <3>3 DEF Connected, SendDown
      <4> QED BY <3>1, <4>1
    <3>4. CASE ConnectTimeout \/ RecvRaises
      BY <3>2, <3>4 DEF ConnectTimeout, RecvRaises
    <3> QED BY <1>5, <3>3, <3>4
  <2> QED BY <1>2, <1>3, <2>1, <2>2, <2>3, UpSame
<1>6. CASE TakeDown
  <2>1. /\ wire["down"] # <<>> /\ Pop("down") /\ UNCHANGED <<sent, buffer, stream>>
        /\ UNCHANGED handled \/ \E bytes : Handle("down", bytes)
        /\ \/ UNCHANGED <<dec, lost>>
           \/ \E readable \in BOOLEAN : Decrypt("down", readable)
           \/ dec' = [dec EXCEPT !["down"] = @ + 1] /\ UNCHANGED lost
    BY <1>6 DEF TakeDown
  <2>2. wire'["up"] = wire["up"]
    BY <1>0, <2>1, PoppedTyped
  <2>3. dec'["up"] = dec["up"] /\ lost'["up"] = lost["up"]
    <3>1. dec \in [Dirs -> Nat]
      BY DEF TypeOK
    <3> QED BY <1>0, <2>1, <3>1, DecryptTyped
  <2>4. handled'["up"] = handled["up"]
    <3>1. ASSUME NEW bytes, Handle("down", bytes) PROVE handled'["up"] = handled["up"]
      <4>1. \E x : handled' = [handled EXCEPT !["down"] = x]
        BY <3>1 DEF Handle
      <4> QED BY <1>0, <4>1
    <3> QED BY <2>1, <3>1
  <2>5. sent'["up"] = sent["up"] /\ buffer' = buffer /\ stream' = stream
    BY <2>1
  <2> QED BY <1>2, <1>3, <2>2, <2>3, <2>4, <2>5, UpSame
<1>7. CASE Begin
  <2>1. /\ stream = "none" /\ stream' = "connecting" /\ UNCHANGED <<lost, handled, sent, dec, buffer>>
        /\ Down(<<Control("BEGIN", enc["down"])>>)
    BY <1>7 DEF Begin
  <2>2. wire'["up"] = wire["up"]
    BY <1>0, <2>1 DEF Down
  <2>3. InSequence(wire["up"], dec["up"])
    <3>1. \A i \in 1..Len(wire["up"]) : wire["up"][i].kind = "GONE"
      BY <2>1 DEF Unsent, Stages
    <3>2. \A i \in 1..Len(wire["up"]) : i \in 1..i
      BY <1>0
    <3> QED BY <3>1, <3>2 DEF InSequence
  <2>4. stream' # "connected"
    BY <2>1
  <2> QED BY <1>2, <1>3, <2>1, <2>2, <2>3, <2>4 DEF UpIsClean
<1>8. CASE Break
  <2>6. PICK last \in {Destroy, Closed} : wire'["up"] = wire["up"] \o <<last>>
    BY <1>0, <1>8, BreakWire
  <2> DEFINE cells == <<last>>
  <2>1. cells \in Seq(CellsOfAnyKind) /\ Len(cells) = 1 /\ cells[1].kind = "GONE"
    BY EndingTyped
  <2>2. UNCHANGED <<dec, lost, handled, sent, buffer, stream>>
    BY <1>0, <1>8 DEF Break
  <2>3. wire'["up"] = wire["up"] \o cells
    BY <2>6
  <2> HIDE DEF cells
  <2>4. \A i \in 1..Len(cells) : cells[i].kind = "GONE" /\ i \in 1..i
    BY <2>1
  <2>5. /\ Carried(cells, sent'["up"]) /\ Answering(cells)
        /\ InSequence(cells, dec["up"] + Len(wire["up"]))
    BY <2>4 DEF Carried, Fits, Answering, InSequence
  <2> QED BY <1>2, <1>3, <2>1, <2>2, <2>3, <2>5, UpAppended
<1>9. CASE TakeBegin
  BY <1>2, <1>3, <1>9, UpAnswered
<1>10. ASSUME NEW u \in Threads, EncryptPeer(u) \/ EncryptLink(u) \/ Put(u) PROVE UpIsClean'
  BY <1>2, <1>3, <1>10, UpSent
<1>11. CASE TakeUp
  BY <1>1, <1>2, <1>3, <1>11, UpTaken
<1>12. CASE Recv
  BY <1>1, <1>2, <1>3, <1>12, UpRead
<1> QED BY <1>4, <1>5, <1>6, <1>7, <1>8, <1>9, <1>10, <1>11, <1>12 DEF Next, EStep, CStep, Guard

-----------------------------------------------------------------------------
(***************************************************************************)
(* What the two halves say of the messages.                                 *)
(***************************************************************************)
Delivering ==
  TypeOK /\ Opening /\ InStep /\ Stages /\ Unsent /\ Cut /\ Numbered /\ DownClean /\ UpClean

LEMMA DownDelivers ==
  ASSUME TypeOK, InStep, DownIsClean, point = "joined", stream = "connected", c \in {"top", "select"},
         wire["down"] = <<>>
  PROVE  Len(handled["down"]) = Len(sent["down"])
<1>1. /\ Len(handled["down"]) \in Nat /\ Len(sent["down"]) \in Nat
      /\ enc["down"] \in Nat /\ dec["down"] \in Nat
  BY DEF TypeOK, Dirs
<1>2. lost["down"] = 0 /\ enc["down"] = 1 + Len(sent["down"]) /\ dec["down"] = 1 + Len(handled["down"])
  BY DEF DownIsClean
<1>3. Len(wire["down"]) = 0
  OBVIOUS
<1>4. enc["down"] = dec["down"] + lost["down"] + Len(wire["down"])
  BY DEF InStep, Counted
<1>5. enc["down"] = dec["down"]
  BY <1>1, <1>2, <1>3, <1>4
<1> QED BY <1>1, <1>2, <1>5

LEMMA UpDelivers ==
  ASSUME TypeOK, InStep, Stages, Numbered, UpIsClean, point = "joined", stream = "connected",
         c \in {"top", "select"}, wire["up"] = <<>>, buffer = <<>>,
         \A u \in Threads : snd[u].pc = "idle"
  PROVE  Len(handled["up"]) = Len(sent["up"])
<1> DEFINE h == Len(handled["up"])
           n == Len(sent["up"])
<1>1. /\ h \in Nat /\ n \in Nat /\ enc["up"] \in Nat /\ dec["up"] \in Nat
      /\ sent["up"] \in Seq(Messages)
  BY DEF TypeOK, Dirs
<1>2. lost["up"] = 0 /\ enc["up"] = 1 + n
  BY DEF UpIsClean, Numbered, Stages
<1>3. Len(wire["up"]) = 0
  OBVIOUS
<1>4. Busy = {} /\ Cardinality(Busy) = 0
  <2>1. Busy = {}
    BY DEF Busy
  <2> QED BY <2>1, FS_EmptySet
<1>5. enc["up"] = dec["up"] + lost["up"] + Len(wire["up"]) + Cardinality(Busy)
  BY DEF InStep, Counted
<1>6. /\ h + 1 <= dec["up"] /\ dec["up"] <= n + 1
      /\ Framed(<<>>, sent["up"], h + 1, dec["up"])
  BY DEF UpIsClean
<1> HIDE DEF h, n
<1>7. dec["up"] = 1 + n
  BY <1>1, <1>2, <1>3, <1>4, <1>5
<1>8. h + 1 \in Nat \ {0} /\ dec["up"] <= Len(sent["up"]) + 1
  BY <1>1, <1>6 DEF n
<1>9. h + 1 = dec["up"]
  BY <1>1, <1>6, <1>8, FramedEmpty
<1>10. h = n
  BY <1>1, <1>7, <1>9
<1> QED BY <1>10 DEF h, n

LEMMA DeliveringTells ==
  ASSUME Delivering PROVE CleanChannelDelivers
<1>0. \A d \in Dirs : handled[d] \in Seq(Messages) /\ sent[d] \in Seq(Messages)
  BY DEF Delivering, TypeOK
<1>1. "up" \in Dirs /\ "down" \in Dirs
  BY DEF Dirs
<1>2. ASSUME ~trouble["down"]
      PROVE  /\ Len(handled["down"]) <= Len(sent["down"])
             /\ handled["down"] = SubSeq(sent["down"], 1, Len(handled["down"]))
  <2>1. TakenFrom(handled["down"], sent["down"])
    BY <1>2 DEF Delivering, DownClean, DownIsClean
  <2> QED BY <1>0, <1>1, <2>1, TakenIsBeginning
<1>3. ASSUME ~trouble["up"]
      PROVE  /\ Len(handled["up"]) <= Len(sent["up"])
             /\ handled["up"] = SubSeq(sent["up"], 1, Len(handled["up"]))
  <2>1. TakenFrom(handled["up"], sent["up"])
    BY <1>3 DEF Delivering, UpClean, UpIsClean
  <2> QED BY <1>0, <1>1, <2>1, TakenIsBeginning
<1>4. ASSUME ~trouble["down"], point = "joined", stream = "connected", c \in {"top", "select"},
             wire["down"] = <<>>
      PROVE  Len(handled["down"]) = Len(sent["down"])
  BY <1>4, DownDelivers DEF Delivering, DownClean
<1>5. ASSUME ~trouble["up"], point = "joined", stream = "connected", c \in {"top", "select"},
             wire["up"] = <<>>, buffer = <<>>, \A u \in Threads : snd[u].pc = "idle"
      PROVE  Len(handled["up"]) = Len(sent["up"])
  BY <1>5, UpDelivers DEF Delivering, UpClean
<1>6. SUFFICES ASSUME NEW d \in Dirs, ~trouble[d]
      PROVE  /\ Len(handled[d]) <= Len(sent[d])
             /\ handled[d] = SubSeq(sent[d], 1, Len(handled[d]))
             /\ (/\ point = "joined" /\ e = "loop" /\ stream = "connected" /\ c \in {"top", "select"}
                 /\ wire[d] = <<>> /\ (d = "up" => buffer = <<>> /\ \A u \in Threads : snd[u].pc = "idle"))
                  => Len(handled[d]) = Len(sent[d])
  BY DEF CleanChannelDelivers
<1>7. CASE d = "down"
  BY <1>2, <1>4, <1>6, <1>7
<1>8. CASE d = "up"
  BY <1>3, <1>5, <1>6, <1>8
<1> QED BY <1>7, <1>8 DEF Dirs

(***************************************************************************)
(* As long as nothing went wrong in a direction (no message longer than a   *)
(* cell, no two senders at once, no two messages in one recv, no cell taken *)
(* by the wrong layer), the messages snd_data and TorStream.send put into   *)
(* it are taken by serverSide and rcv_data in their order, each once, and   *)
(* none is missing when nothing is under way (CleanChannelDelivers).        *)
(***************************************************************************)
THEOREM CleanChannelsDeliver == Spec => []CleanChannelDelivers
<1>1. Init => Delivering
  BY TypeInit, OpeningInit, InStepInit, StagesInit, DownInit, UpInit DEF Delivering
<1>2. Delivering /\ [Next]_vars => Delivering'
  <2>1. SUFFICES ASSUME Delivering, [Next]_vars PROVE Delivering'
    OBVIOUS
  <2>2. (TypeOK /\ Opening)' /\ InStep'
    BY <2>1, TypedKept, InStepKept DEF Delivering
  <2>3. Stages' /\ Unsent' /\ Cut' /\ Numbered'
    BY <2>1, StagesKept, UnsentKept, CutKept, NumberedKept DEF Delivering, InStep
  <2>4. DownClean' /\ UpClean'
    BY <2>1, DownKept, UpKept DEF Delivering
  <2> QED BY <2>2, <2>3, <2>4 DEF Delivering
<1>3. Delivering => CleanChannelDelivers
  BY DeliveringTells
<1> QED BY <1>1, <1>2, <1>3, PTL DEF Spec

=============================================================================
