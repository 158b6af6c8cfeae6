---------------------------- MODULE Overlay_proofs ----------------------------
(***************************************************************************)
(* Theorems about what crosses an overlay, for any routers, links, costs   *)
(* and TTLs, and for any threads that handle what arrives.                 *)
(*                                                                         *)
(* JOINs: the TTL a copy has left tells how many hops it has come.         *)
(* LOOKUPs: the least-cost paths visit no router twice; a LOOKUP of which  *)
(* no hop was replaced carries in its Path and its Route, together, the    *)
(* path it was given; and until a link is cut no hop is replaced.          *)
(* LSAs: each invariant of the threads that handle them is about the time  *)
(* before the origin is declared dead; an entry that is missing then is one *)
(* that some thread is about to make, and a number that was marked as      *)
(* forwarded is one that some thread has flooded or is about to send.      *)
(***************************************************************************)
EXTENDS Lookup, LsaThreads, FiniteSetTheorems, SequenceTheorems,
        WellFoundedInduction, TLAPS

-----------------------------------------------------------------------------
(***************************************************************************)
(* JOINs.                                                                  *)
(***************************************************************************)

(* A way of one hop more. *)
LEMMA OneHopMore ==
  ASSUME NEW r \in Routers, NEW q \in Routers, NEW n \in Nat, HopsApart(r, q, n),
         NEW x \in Nbrs[q]
  PROVE  HopsApart(r, x, n + 1)
<1> USE FloodAssumption
<1>1. PICK way \in [0..n -> Routers] :
        way[0] = r /\ way[n] = q /\ \A i \in 1..n : way[i] \in Nbrs[way[i - 1]]
  BY DEF HopsApart
<1> DEFINE longer == [i \in 0..(n + 1) |-> IF i = n + 1 THEN x ELSE way[i]]
<1>2. longer \in [0..(n + 1) -> Routers]
  BY <1>1
<1>3. longer[0] = r /\ longer[n + 1] = x
  BY <1>1
<1>4. ASSUME NEW i \in 1..(n + 1) PROVE longer[i] \in Nbrs[longer[i - 1]]
  <2>1. CASE i = n + 1
    <3>1. longer[i - 1] = q
      BY <2>1, <1>1
    <3> QED BY <3>1, <2>1
  <2>2. CASE i # n + 1
    <3>1. i \in 1..n /\ i - 1 \in 0..n
      BY <2>2
    <3>2. longer[i] = way[i] /\ longer[i - 1] = way[i - 1]
      BY <3>1
    <3> QED BY <3>1, <3>2, <1>1
  <2> QED BY <2>1, <2>2
<1> HIDE DEF longer
<1> QED BY <1>2, <1>3, <1>4 DEF HopsApart

(* What flood_message sends has come from the router that floods. *)
Came(m) ==
  /\ m \in Message
  /\ m.ttl >= 1
  /\ HopsApart(Source[m.id], m.to, InitTTL - m.ttl)

LEMMA FloodCame ==
  ASSUME NEW j \in Joins, NEW r \in Routers, NEW ttl \in 1..InitTTL,
         HopsApart(Source[j], r, InitTTL - ttl),
         NEW m \in Flood(j, r, ttl)
  PROVE  Came(m) /\ m.id = j
<1> USE FloodAssumption
<1>1. PICK n \in Nbrs[r] : m = [id |-> j, to |-> n, from |-> r, ttl |-> ttl - 1]
  BY DEF Flood
<1>2. ttl - 1 # 0
  BY DEF Flood
<1>3. n \in Routers /\ Source[j] \in Routers /\ InitTTL - ttl \in Nat
  OBVIOUS
<1>4. HopsApart(Source[j], n, (InitTTL - ttl) + 1)
  BY <1>3, OneHopMore
<1>5. InitTTL - m.ttl = (InitTTL - ttl) + 1
  BY <1>1
<1> QED BY <1>1, <1>2, <1>3, <1>4, <1>5 DEF Came, Message

(* Every copy has come as many hops as its TTL has lost, and every command *)
(* to join is about a destination in reach.                                *)
ReachInv ==
  /\ conn_queue \in [Routers -> Seq(Command)]
  /\ connects \in [Joins -> Nat]
  /\ \A m \in messages \cup admitted : Came(m)
  /\ \A m \in admitted : m.to = Dest[m.id]
  /\ \A r \in Routers : \A i \in 1..Len(conn_queue[r]) :
       conn_queue[r][i][1] = "JOIN" => InReach(conn_queue[r][i][2])
  /\ TTLLimitsReach

LEMMA ReachInit == Init => ReachInv
BY DEF Init, ReachInv, TTLLimitsReach

(* A command that is put into a queue. *)
LEMMA PutKept ==
  ASSUME ReachInv, NEW r \in Routers, NEW c \in Command,
         c[1] = "JOIN" => InReach(c[2]), Put(r, c)
  PROVE  /\ conn_queue' \in [Routers -> Seq(Command)]
         /\ \A q \in Routers : \A i \in 1..Len(conn_queue'[q]) :
              conn_queue'[q][i][1] = "JOIN" => InReach(conn_queue'[q][i][2])
<1>1. conn_queue[r] \in Seq(Command) /\ conn_queue' = [conn_queue EXCEPT ![r] = Append(@, c)]
  BY DEF ReachInv, Put
<1>2. conn_queue' \in [Routers -> Seq(Command)]
  BY <1>1 DEF ReachInv
<1>3. ASSUME NEW q \in Routers, NEW i \in 1..Len(conn_queue'[q]),
             conn_queue'[q][i][1] = "JOIN"
      PROVE  InReach(conn_queue'[q][i][2])
  <2>1. CASE q = r
    <3>1. conn_queue'[q] = Append(conn_queue[r], c)
      BY <1>1, <2>1 DEF ReachInv
    <3>2. i = Len(conn_queue[r]) + 1 \/ i \in 1..Len(conn_queue[r])
      BY <1>1, <3>1
    <3>3. i = Len(conn_queue[r]) + 1 => conn_queue'[q][i] = c
      BY <1>1, <3>1
    <3>4. i \in 1..Len(conn_queue[r]) => conn_queue'[q][i] = conn_queue[r][i]
      BY <1>1, <3>1
    <3> QED BY <1>3, <3>2, <3>3, <3>4 DEF ReachInv
  <2>2. CASE q # r
    <3>1. conn_queue'[q] = conn_queue[q]
      BY <1>1, <2>2 DEF ReachInv
    <3> QED BY <1>3, <3>1 DEF ReachInv
  <2> QED BY <2>1, <2>2
<1> QED BY <1>2, <1>3

LEMMA ReachKept == ReachInv /\ [Next]_vars => ReachInv'
<1> SUFFICES ASSUME ReachInv, [Next]_vars PROVE ReachInv'
  OBVIOUS
<1> USE FloodAssumption
<1>0. ASSUME messages' \subseteq messages, admitted' \subseteq admitted
      PROVE  /\ \A m \in messages' \cup admitted' : Came(m)
             /\ \A m \in admitted' : m.to = Dest[m.id]
  BY <1>0 DEF ReachInv
<1>1. ASSUME NEW j \in Joins, Ask(j) PROVE ReachInv'
  <2>1. <<"ESTABLISH", j>> \in Command /\ Source[j] \in Routers
    BY DEF Command
  <2>2. PICK c \in Command : c = <<"ESTABLISH", j>>
    BY <2>1
  <2>3. c[1] # "JOIN" /\ Put(Source[j], c)
    BY <1>1, <2>2 DEF Ask
  <2>4. /\ conn_queue' \in [Routers -> Seq(Command)]
        /\ \A q \in Routers : \A i \in 1..Len(conn_queue'[q]) :
              conn_queue'[q][i][1] = "JOIN" => InReach(conn_queue'[q][i][2])
    BY <2>1, <2>3, PutKept
  <2> QED BY <1>1, <2>4 DEF Ask, ReachInv, TTLLimitsReach
<1>2. ASSUME NEW j \in Joins, SendJoin(j) PROVE ReachInv'
  <2>1. HopsApart(Source[j], Source[j], 0)
    <3> DEFINE way == [i \in 0..0 |-> Source[j]]
    <3>1. way \in [0..0 -> Routers] /\ way[0] = Source[j]
      OBVIOUS
    <3>2. \A i \in 1..0 : way[i] \in Nbrs[way[i - 1]]
      OBVIOUS
    <3> HIDE DEF way
    <3> QED BY <3>1, <3>2 DEF HopsApart
  <2>2. InitTTL \in 1..InitTTL /\ InitTTL - InitTTL = 0 /\ Source[j] \in Routers
    OBVIOUS
  <2>3. \A m \in Flood(j, Source[j], InitTTL) : Came(m)
    BY <2>1, <2>2, FloodCame
  <2> QED BY <1>2, <2>3 DEF SendJoin, ReachInv, TTLLimitsReach
<1>3. ASSUME NEW m \in messages, DropOwn(m) PROVE ReachInv'
  BY <1>3 DEF DropOwn, ReachInv, TTLLimitsReach
<1>4. ASSUME NEW m \in messages, Admit(m) PROVE ReachInv'
  BY <1>4 DEF Admit, ReachInv, TTLLimitsReach
<1>5. ASSUME NEW m \in messages, Relay(m) PROVE ReachInv'
  <2>1. Came(m) /\ m.id \in Joins /\ m.to \in Routers /\ m.ttl \in 1..InitTTL
    BY DEF ReachInv, Came, Message
  <2>2. \A n \in Flood(m.id, m.to, m.ttl) : Came(n)
    BY <2>1, FloodCame DEF Came
  <2> QED BY <1>5, <2>2 DEF Relay, ReachInv, TTLLimitsReach
<1>6. ASSUME NEW m \in admitted, QueueJoin(m) PROVE ReachInv'
  <2>1. Came(m) /\ m.to = Dest[m.id] /\ m.id \in Joins /\ m.to \in Routers /\ m.ttl \in 1..InitTTL
    BY DEF ReachInv, Came, Message
  <2>2. InitTTL - m.ttl \in 0..(InitTTL - 1)
    BY <2>1
  <2>3. InReach(m.id)
    BY <2>1, <2>2 DEF InReach, Came
  <2>4. PICK c \in Command : c = <<"JOIN", m.id>>
    BY <2>1 DEF Command
  <2>5. Put(m.to, c) /\ InReach(c[2])
    BY <1>6, <2>3, <2>4 DEF QueueJoin
  <2>6. /\ conn_queue' \in [Routers -> Seq(Command)]
        /\ \A q \in Routers : \A i \in 1..Len(conn_queue'[q]) :
              conn_queue'[q][i][1] = "JOIN" => InReach(conn_queue'[q][i][2])
    BY <2>1, <2>5, PutKept
  <2> QED BY <1>6, <2>6 DEF QueueJoin, ReachInv, TTLLimitsReach
<1>7. ASSUME NEW r \in Routers, RunMain(r) PROVE ReachInv'
  <2>1. conn_queue[r] \in Seq(Command) /\ conn_queue[r] # <<>>
    BY <1>7 DEF RunMain, ReachInv
  <2>2. /\ Head(conn_queue[r]) = conn_queue[r][1] /\ Head(conn_queue[r]) \in Command
        /\ 1 \in 1..Len(conn_queue[r])
    BY <2>1
  <2>3. conn_queue' \in [Routers -> Seq(Command)]
    BY <1>7, <2>1 DEF RunMain, ReachInv
  <2>4. ASSUME NEW q \in Routers, NEW i \in 1..Len(conn_queue'[q]),
               conn_queue'[q][i][1] = "JOIN"
        PROVE  InReach(conn_queue'[q][i][2])
    <3>1. CASE q = r
      <4>1. conn_queue'[q] = Tail(conn_queue[r])
        BY <1>7, <3>1 DEF RunMain, ReachInv
      <4>2. i + 1 \in 1..Len(conn_queue[r]) /\ conn_queue'[q][i] = conn_queue[r][i + 1]
        BY <2>1, <4>1
      <4> QED BY <2>4, <4>2 DEF ReachInv
    <3>2. CASE q # r
      <4>1. conn_queue'[q] = conn_queue[q]
        BY <1>7, <3>2 DEF RunMain, ReachInv
      <4> QED BY <2>4, <4>1 DEF ReachInv
    <3> QED BY <3>1, <3>2
  <2>5. connects' \in [Joins -> Nat]
    BY <1>7, <2>2 DEF RunMain, ReachInv, Command
  <2>6. TTLLimitsReach'
    <3>1. ASSUME NEW j \in Joins, connects'[j] > 0 PROVE InReach(j)
      <4>1. CASE Head(conn_queue[r]) = <<"JOIN", j>>
        <5>1. conn_queue[r][1][1] = "JOIN" /\ conn_queue[r][1][2] = j
          BY <2>2, <4>1
        <5> QED BY <2>2, <5>1 DEF ReachInv
      <4>2. CASE Head(conn_queue[r]) # <<"JOIN", j>>
        <5>1. connects'[j] = connects[j]
          BY <1>7, <2>2, <4>2 DEF RunMain, ReachInv, Command
        <5> QED BY <3>1, <5>1 DEF ReachInv, TTLLimitsReach
      <4> QED BY <4>1, <4>2
    <3> QED BY <3>1 DEF TTLLimitsReach
  <2>7. UNCHANGED <<messages, admitted>>
    BY <1>7 DEF RunMain
  <2> QED BY <2>3, <2>4, <2>5, <2>6, <2>7 DEF ReachInv
<1>8. CASE UNCHANGED vars
  BY <1>8 DEF vars, ReachInv, TTLLimitsReach
<1> QED BY <1>1, <1>2, <1>3, <1>4, <1>5, <1>6, <1>7, <1>8 DEF Next, Handle

(***************************************************************************)
(* A router that is a TTL's worth of hops away from the source of a JOIN,  *)
(* or farther, is never asked to connect, whatever way and in whatever     *)
(* order the copies of the flood come (flood_message, handle_JOIN, rtun.py).*)
(***************************************************************************)
THEOREM JoinsStayInReach == OverlaySpec => []TTLLimitsReach
<1>1. OverlayInit => ReachInv
  BY ReachInit DEF OverlayInit
<1>2. ReachInv /\ [OverlayNext]_<<vars, lookupVars>> => ReachInv'
  BY ReachKept DEF OverlayNext
<1>3. ReachInv => TTLLimitsReach
  BY DEF ReachInv
<1> QED BY <1>1, <1>2, <1>3, PTL DEF OverlaySpec

-----------------------------------------------------------------------------
(***************************************************************************)
(* Least-cost paths.                                                       *)
(***************************************************************************)

(* What there is at all among the natural numbers there is a least of. *)
LEMMA LeastOf ==
  ASSUME NEW T, T \subseteq Nat, T # {}
  PROVE  \E x \in T : \A y \in T : x <= y
<1> DEFINE R == StrictSubsetOrdering(Nat)
           initial == {0..x : x \in T}
<1>1. initial \subseteq FiniteSubsetsOf(Nat) /\ initial # {}
  <2>1. ASSUME NEW x \in T PROVE 0..x \in SUBSET Nat /\ IsFiniteSet(0..x)
    BY FS_Interval
  <2> QED BY <2>1 DEF FiniteSubsetsOf
<1>2. IsWellFoundedOn(R, FiniteSubsetsOf(Nat))
  BY FS_StrictSubsetOrderingWellFounded
<1> HIDE DEF R
<1>3. \E I \in initial : \A J \in initial : <<J, I>> \notin R
  BY <1>1, <1>2, WFMin
<1>4. PICK x \in T : \A y \in T : <<0..y, 0..x>> \notin R
  BY <1>3
<1>5. ASSUME NEW y \in T, ~(x <= y) PROVE FALSE
  <2>1. 0..y \subseteq 0..x /\ x \in 0..x /\ x \notin 0..y
    BY <1>5
  <2>2. <<0..y, 0..x>> \in R
    BY <2>1 DEF R, StrictSubsetOrdering
  <2> QED BY <1>4, <2>2
<1> QED BY <1>5

(* The ways of Ways are sequences of routers, each of them another. *)
LEMMA WaysAreSimple ==
  ASSUME NEW p \in Ways
  PROVE  /\ p \in Seq(Routers) /\ Len(p) >= 1
         /\ \A i, k \in 1..Len(p) : p[i] = p[k] => i = k
         /\ Hops(p) \subseteq Links
<1> DEFINE c == Cardinality(Routers)
<1>1. c \in Nat
  BY LookupAssumption, FS_CardinalityType
<1> HIDE DEF c
<1>2. PICK seq \in Injection(1..c, Routers), n \in 1..c : p = SubSeq(seq, 1, n)
  BY DEF Ways, c
<1>3. /\ seq \in [1..c -> Routers]
      /\ \A i, k \in 1..c : seq[i] = seq[k] => i = k
  BY <1>2 DEF Injection, IsInjective
<1>4. seq \in Seq(Routers) /\ Len(seq) = c
  BY <1>1, <1>3
<1>5. /\ p \in Seq(Routers) /\ Len(p) = n
      /\ \A i \in 1..n : p[i] = seq[i]
  BY <1>1, <1>2, <1>4
<1>6. Hops(p) \subseteq Links
  BY DEF Ways
<1> QED BY <1>1, <1>3, <1>5, <1>6

(* A sum of costs, as PathCost computes it. *)
IsSum(f, p) ==
  f = [n \in 1..Len(p) |-> IF n = 1 THEN 0 ELSE f[n - 1] + Cost[{p[n - 1], p[n]}]]

LEMMA PathCostIsANumber ==
  ASSUME NEW p \in Ways PROVE PathCost(p) \in Nat
<1> DEFINE L == Len(p)
           hop == [n \in 1..L |-> IF n = 1 THEN 0 ELSE Cost[{p[n - 1], p[n]}]]
           SumsUpTo(n) == {f \in [1..n -> Nat] :
             \A i \in 1..n : f[i] = IF i = 1 THEN 0 ELSE f[i - 1] + hop[i]}
<1>1. L \in Nat \ {0} /\ p \in Seq(Routers)
  BY WaysAreSimple
<1>2. hop \in [1..L -> Nat]
  <2>1. ASSUME NEW n \in 1..L, n # 1 PROVE Cost[{p[n - 1], p[n]}] \in Nat
    <3>1. n - 1 \in 1..(L - 1) /\ (n - 1) + 1 = n
      BY <1>1, <2>1
    <3>2. {p[n - 1], p[n]} \in Hops(p)
      BY <3>1 DEF Hops
    <3> QED BY <3>2, WaysAreSimple, LookupAssumption
  <2> QED BY <2>1
<1> HIDE DEF hop
<1>3. SumsUpTo(L) # {}
  <2>1. SUFFICES ASSUME SumsUpTo(L) = {} PROVE FALSE
    OBVIOUS
  <2> DEFINE T == {n \in 1..L : SumsUpTo(n) = {}}
  <2>2. T \subseteq Nat /\ T # {}
    BY <1>1, <2>1
  <2>3. PICK n \in T : \A k \in T : n <= k
    BY <2>2, LeastOf
  <2>4. CASE n = 1
    <3> DEFINE f == [i \in 1..1 |-> 0]
    <3>1. f \in [1..1 -> Nat] /\ f[1] = 0
      OBVIOUS
    <3> HIDE DEF f
    <3>2. SumsUpTo(1) # {}
      BY <3>1
    <3> QED BY <2>3, <2>4, <3>2
  <2>5. CASE n # 1
    <3>1. n - 1 \in 1..L /\ n - 1 < n /\ n \in 1..L
      BY <1>1, <2>3, <2>5
    <3>2. SumsUpTo(n - 1) # {}
      <4>1. n - 1 \notin T
        <5> HIDE DEF T
        <5> QED BY <2>3, <3>1
      <4> HIDE DEF SumsUpTo
      <4> QED BY <3>1, <4>1
    <3>3. PICK f \in [1..(n - 1) -> Nat] :
            \A i \in 1..(n - 1) : f[i] = IF i = 1 THEN 0 ELSE f[i - 1] + hop[i]
      BY <3>2
    <3> DEFINE g == [i \in 1..n |-> IF i = n THEN f[n - 1] + hop[n] ELSE f[i]]
    <3>4. f[n - 1] \in Nat /\ hop[n] \in Nat
      BY <1>2, <3>1, <3>3
    <3>5. g \in [1..n -> Nat]
      BY <3>3, <3>4
    <3>6. ASSUME NEW i \in 1..n
          PROVE  g[i] = IF i = 1 THEN 0 ELSE g[i - 1] + hop[i]
      <4>1. CASE i = n
        BY <4>1, <2>5, <3>1
      <4>2. CASE i # n
        <5>1. i \in 1..(n - 1) /\ (i # 1 => i - 1 \in 1..(n - 1) /\ i - 1 \in 1..n /\ i - 1 # n)
          BY <4>2, <3>1
        <5>2. g[i] = f[i] /\ (i # 1 => g[i - 1] = f[i - 1])
          BY <5>1, <4>2
        <5> QED BY <5>1, <5>2, <3>3
      <4> QED BY <4>1, <4>2
    <3> HIDE DEF g
    <3>7. SumsUpTo(n) # {}
      BY <3>5, <3>6
    <3> QED BY <2>3, <3>7
  <2> QED BY <2>4, <2>5
<1>4. PICK f \in [1..L -> Nat] :
        \A i \in 1..L : f[i] = IF i = 1 THEN 0 ELSE f[i - 1] + hop[i]
  BY <1>3
<1>5. \A i \in 1..L : i # 1 => hop[i] = Cost[{p[i - 1], p[i]}]
  BY DEF hop
<1>6. IsSum(f, p)
  <2>1. \A i \in 1..L :
          f[i] = IF i = 1 THEN 0 ELSE f[i - 1] + Cost[{p[i - 1], p[i]}]
    BY <1>4, <1>5
  <2> QED BY <2>1 DEF IsSum
<1>7. ASSUME NEW g, IsSum(g, p) PROVE g[L] \in Nat
  <2> DEFINE T == {n \in 1..L : g[n] \notin Nat}
  <2>1. CASE T = {}
    BY <1>1, <2>1
  <2>2. CASE T # {}
    <3>0. T \subseteq Nat
      OBVIOUS
    <3>1. PICK n \in T : \A k \in T : n <= k
      BY <3>0, <2>2, LeastOf
    <3>2. g[n] = IF n = 1 THEN 0 ELSE g[n - 1] + hop[n]
      <4>1. g[n] = IF n = 1 THEN 0 ELSE g[n - 1] + Cost[{p[n - 1], p[n]}]
        BY <1>7 DEF IsSum
      <4> QED BY <4>1, <1>5
    <3>3. n # 1 => n - 1 \in 1..L /\ n - 1 < n
      BY <1>1
    <3>4. n # 1 => g[n - 1] \in Nat
      BY <3>1, <3>3
    <3> QED BY <1>2, <3>1, <3>2, <3>4
  <2> QED BY <2>1, <2>2
<1>8. PathCost(p) = (CHOOSE g : IsSum(g, p))[L]
  BY DEF PathCost, IsSum
<1> QED BY <1>6, <1>7, <1>8

(***************************************************************************)
(* shortest_paths of a graph of links: a path to each router it names, of  *)
(* which no other one is cheaper.                                          *)
(***************************************************************************)
LEMMA LeastCostIsLeast ==
  ASSUME NEW r \in Routers, NEW graph, NEW d \in DOMAIN LeastCost(r, graph)
  PROVE  LET p == LeastCost(r, graph)[d]
         IN /\ p \in PathsFrom(r, graph) /\ Last(p) = d
            /\ \A q \in PathsFrom(r, graph) : Last(q) = d => PathCost(p) <= PathCost(q)
<1> DEFINE ways == PathsFrom(r, graph)
           To == {p \in ways : Last(p) = d}
           Least(p) == \A q \in To : PathCost(p) <= PathCost(q)
           costs == {PathCost(p) : p \in To}
<1>1. /\ d \in {Last(p) : p \in ways}
      /\ LeastCost(r, graph)[d] = CHOOSE p \in To : Least(p)
  BY DEF LeastCost
<1>2. To # {} /\ To \subseteq Ways
  BY <1>1 DEF PathsFrom
<1>3. costs \subseteq Nat /\ costs # {}
  BY <1>2, PathCostIsANumber
<1>4. PICK x \in costs : \A y \in costs : x <= y
  BY <1>3, LeastOf
<1>5. \E p \in To : Least(p)
  BY <1>4
<1>6. LET p == CHOOSE p \in To : Least(p) IN p \in To /\ Least(p)
  BY <1>5
<1> QED BY <1>1, <1>6

-----------------------------------------------------------------------------
(***************************************************************************)
(* LOOKUPs.                                                                *)
(***************************************************************************)

(* The neighbour lists lose routers, no more, and every path of a table is *)
(* one that was least-cost once.                                           *)
TablesOK ==
  /\ links \subseteq Links
  /\ neighbours \in [Routers -> SUBSET Routers]
  /\ \A r \in Routers : neighbours[r] \subseteq Nbrs[r]
  /\ DOMAIN shortest_paths = Routers
  /\ \A r \in Routers : \A d \in DOMAIN shortest_paths[r] :
       LET p == shortest_paths[r][d] IN p \in Ways /\ p[1] = r /\ Last(p) = d

(* What is left of the plan of a LOOKUP that has been routed as planned is *)
(* in its Route.                                                           *)
OnPlan(m, path) ==
  /\ m \in LookupMessage
  /\ m.planned \in Ways /\ Last(m.planned) = m.dest
  /\ ~m.rerouted => m.planned = path \o m.route

(* A LOOKUP at a router that has added itself to the Path. *)
AtRouter(m) ==
  /\ OnPlan(m, m.path)
  /\ m.path # <<>> /\ Last(m.path) = m.at
  /\ m.ttl > 0
  /\ m.ttl + Len(m.path) = LookupTTL + 1

(* A LOOKUP on its way to m.at. *)
OnTheWay(m) ==
  /\ OnPlan(m, Append(m.path, m.at))
  /\ m.ttl > 0
  /\ m.ttl + Len(m.path) = LookupTTL

(* A LOOKUP that has come to its end. *)
Over(m) ==
  /\ m.planned \in Ways /\ m.path \in Seq(Routers)
  /\ ~m.rerouted => IsPrefix(m.path, m.planned)

(* While all links are up no hop has been replaced, and nothing is lost.   *)
WholeOverlay ==
  links = Links =>
    /\ neighbours = Nbrs
    /\ lookup = NoLookup \/ ~lookup.rerouted
    /\ LostForCause

LookupInv ==
  /\ TablesOK
  /\ lookup = NoLookup \/ OnTheWay(lookup)
  /\ outcome.is = "none" \/ Over(outcome.message)
  /\ WholeOverlay

(* Graph makes links of neighbours only. *)
LEMMA GraphOfLinks ==
  ASSUME TablesOK PROVE Graph(neighbours) \subseteq Links
BY DEF TablesOK, Graph, Links

(* The table of a router. *)
LEMMA TableOK ==
  ASSUME NEW r \in Routers, NEW graph, NEW d \in DOMAIN LeastCost(r, graph)
  PROVE  LET p == LeastCost(r, graph)[d] IN p \in Ways /\ p[1] = r /\ Last(p) = d
BY LeastCostIsLeast DEF PathsFrom

(* Two routers with a link are neighbours. *)
LEMMA LinkedAreNeighbours ==
  ASSUME NEW r, NEW q, {r, q} \in Links PROVE q \in Nbrs[r] /\ r \in Nbrs[q]
<1>1. PICK a \in Routers, b \in Routers : b \in Nbrs[a] /\ {r, q} = {a, b}
  BY FloodAssumption DEF Links
<1>2. a \in Nbrs[b]
  BY <1>1, LookupAssumption
<1> QED BY <1>1, <1>2

LEMMA PrefixOfConcat ==
  ASSUME NEW S, NEW s \in Seq(S), NEW t \in Seq(S) PROVE IsPrefix(s, s \o t)
<1>1. Len(s) <= Len(s \o t) /\ s \o t \in Seq(S)
  OBVIOUS
<1>2. SubSeq(s, 1, Len(s)) = s
  OBVIOUS
<1>3. SubSeq(s \o t, 1, Len(s)) = s
  OBVIOUS
<1> QED BY <1>1, <1>2, <1>3 DEF IsPrefix

LEMMA HeadMoved ==
  ASSUME NEW S, NEW s \in Seq(S), NEW t \in Seq(S), t # <<>>
  PROVE  s \o t = Append(s, Head(t)) \o Tail(t)
<1>1. Head(t) \in S /\ Tail(t) \in Seq(S) /\ Append(s, Head(t)) \in Seq(S)
  OBVIOUS
<1>2. Len(s \o t) = Len(Append(s, Head(t)) \o Tail(t))
  BY <1>1
<1>3. ASSUME NEW i \in 1..Len(s \o t)
      PROVE  (s \o t)[i] = (Append(s, Head(t)) \o Tail(t))[i]
  BY <1>1
<1> DEFINE u == s \o t
           v == Append(s, Head(t)) \o Tail(t)
<1>4. u \in Seq(S) /\ v \in Seq(S)
  BY <1>1
<1> HIDE DEF u, v
<1>5. Len(u) = Len(v) /\ \A i \in 1..Len(u) : u[i] = v[i]
  BY <1>2, <1>3 DEF u, v
<1>6. u = v
  BY <1>4, <1>5, SeqEqual
<1> QED BY <1>6 DEF u, v

LEMMA PrefixOfLonger ==
  ASSUME NEW S, NEW s \in Seq(S), NEW x \in S, NEW t \in Seq(S)
  PROVE  IsPrefix(s, Append(s, x) \o t)
<1> DEFINE u == <<x>> \o t
<1>1. u \in Seq(S) /\ u # <<>> /\ Head(u) = x
  OBVIOUS
<1>2. Tail(u) = t
  <2>1. Tail(u) \in Seq(S) /\ Len(Tail(u)) = Len(t)
    BY <1>1
  <2>2. \A i \in 1..Len(t) : Tail(u)[i] = t[i]
    BY <1>1
  <2> HIDE DEF u
  <2> QED BY <2>1, <2>2, SeqEqual
<1> HIDE DEF u
<1>3. s \o u = Append(s, x) \o t
  BY <1>1, <1>2, HeadMoved
<1>4. IsPrefix(s, s \o u)
  BY <1>1, PrefixOfConcat
<1> QED BY <1>3, <1>4

(* The first hop of what is left of a way. *)
LEMMA NextHopOfPlan ==
  ASSUME NEW path \in Seq(Routers), NEW route \in Seq(Routers),
         path # <<>>, route # <<>>, path \o route \in Ways
  PROVE  {Last(path), Head(route)} \in Links
<1> DEFINE p == path \o route
           n == Len(path)
<1>1. n \in Nat \ {0} /\ Len(p) = n + Len(route) /\ Len(route) >= 1
  OBVIOUS
<1>2. p[n] = Last(path) /\ p[n + 1] = Head(route)
  BY <1>1 DEF Last
<1>3. n \in 1..(Len(p) - 1)
  BY <1>1
<1> HIDE DEF p
<1>4. {p[n], p[n + 1]} \in Hops(p)
  BY <1>3 DEF Hops
<1> QED BY <1>2, <1>4, WaysAreSimple DEF p

(* A hop that is taken or lost: the Route is one shorter. *)
LEMMA SendKept ==
  ASSUME TablesOK, NEW m, AtRouter(m), m.ttl > 1, NEW q \in Routers, NEW on,
         on.rerouted \/ (on.rerouted = m.rerouted /\ Head(m.route) = q),
         m.route # <<>>,
         on = [m EXCEPT !.ttl = @ - 1, !.route = Tail(@), !.rerouted = on.rerouted],
         on.rerouted \in BOOLEAN
  PROVE  OnTheWay([on EXCEPT !.at = q]) /\ Over(on)
<1>1. /\ m \in LookupMessage /\ m.path \in Seq(Routers) /\ m.route \in Seq(Routers)
      /\ m.ttl \in 0..LookupTTL /\ LookupTTL \in Nat
  BY LookupAssumption DEF AtRouter, OnPlan, LookupMessage
<1>2. /\ Tail(m.route) \in Seq(Routers)
      /\ m.path \o m.route = Append(m.path, Head(m.route)) \o Tail(m.route)
      /\ IsPrefix(m.path, m.path \o m.route)
  <2>1. Tail(m.route) \in Seq(Routers)
    BY <1>1
  <2>2. m.path \o m.route = Append(m.path, Head(m.route)) \o Tail(m.route)
    BY <1>1, HeadMoved
  <2>3. IsPrefix(m.path, m.path \o m.route)
    BY <1>1, PrefixOfConcat
  <2> QED BY <2>1, <2>2, <2>3
<1>3. on \in LookupMessage /\ [on EXCEPT !.at = q] \in LookupMessage
  <2>1. m.ttl - 1 \in 0..LookupTTL
    BY <1>1
  <2>2. on \in LookupMessage
    BY <1>1, <1>2, <2>1 DEF LookupMessage
  <2>3. [on EXCEPT !.at = q] \in LookupMessage
    BY <2>2 DEF LookupMessage
  <2> QED BY <2>2, <2>3
<1>4. /\ on.path = m.path /\ on.planned = m.planned /\ on.dest = m.dest
      /\ on.route = Tail(m.route) /\ on.ttl = m.ttl - 1
  BY <1>1 DEF LookupMessage
<1>5. /\ [on EXCEPT !.at = q].path = m.path /\ [on EXCEPT !.at = q].planned = m.planned
      /\ [on EXCEPT !.at = q].dest = m.dest /\ [on EXCEPT !.at = q].at = q
      /\ [on EXCEPT !.at = q].route = Tail(m.route) /\ [on EXCEPT !.at = q].ttl = m.ttl - 1
      /\ [on EXCEPT !.at = q].rerouted = on.rerouted
  BY <1>3, <1>4 DEF LookupMessage
<1>6. ~on.rerouted => ~m.rerouted /\ Head(m.route) = q
  OBVIOUS
<1>7. Over(on)
  BY <1>1, <1>2, <1>4, <1>6 DEF AtRouter, OnPlan, Over
<1>8. OnPlan([on EXCEPT !.at = q], Append(m.path, q))
  BY <1>2, <1>3, <1>5, <1>6 DEF AtRouter, OnPlan
<1>9. Len(m.path) \in Nat /\ m.ttl + Len(m.path) = LookupTTL + 1
  BY <1>1 DEF AtRouter
<1>10. m.ttl - 1 > 0 /\ (m.ttl - 1) + Len(m.path) = LookupTTL
  BY <1>1, <1>9
<1> QED BY <1>5, <1>7, <1>8, <1>10 DEF OnTheWay

(* route_message. *)
LEMMA RouteKept ==
  ASSUME TablesOK, WholeOverlay, NEW m, AtRouter(m), m.at # m.dest, RouteMessage(m),
         links = Links => ~m.rerouted
  PROVE  /\ lookup' = NoLookup \/ OnTheWay(lookup')
         /\ outcome' = outcome \/ Over(outcome'.message)
         /\ links = Links => /\ lookup' = NoLookup \/ ~lookup'.rerouted
                             /\ outcome' = outcome
                                  \/ Len(outcome'.message.planned) > LookupTTL
<1> DEFINE on == [m EXCEPT !.ttl = @ - 1]
<1>1. /\ m \in LookupMessage /\ m.path \in Seq(Routers) /\ m.route \in Seq(Routers)
      /\ m.ttl \in 0..LookupTTL /\ LookupTTL \in Nat /\ m.at \in Routers
      /\ m.rerouted \in BOOLEAN
  BY LookupAssumption DEF AtRouter, OnPlan, LookupMessage
<1>2. /\ on.path = m.path /\ on.planned = m.planned /\ on.dest = m.dest /\ on.at = m.at
      /\ on.route = m.route /\ on.rerouted = m.rerouted /\ on.ttl = m.ttl - 1
  BY <1>1 DEF LookupMessage
<1>3. Over(on)
  <2>1. IsPrefix(m.path, m.path \o m.route)
    BY <1>1, PrefixOfConcat
  <2> QED BY <1>1, <1>2, <2>1 DEF AtRouter, OnPlan, Over
<1>4. ~m.rerouted => m.route # <<>> /\ Len(m.planned) > Len(m.path)
  <2>1. SUFFICES ASSUME ~m.rerouted PROVE m.route # <<>> /\ Len(m.planned) > Len(m.path)
    OBVIOUS
  <2>2. m.planned = m.path \o m.route /\ Last(m.planned) = m.dest /\ Last(m.path) = m.at
    BY <2>1 DEF AtRouter, OnPlan
  <2>3. m.route # <<>>
    <3>1. SUFFICES ASSUME m.route = <<>> PROVE FALSE
      OBVIOUS
    <3>2. m.planned = m.path
      BY <1>1, <2>2, <3>1
    <3> QED BY <2>2, <3>2
  <2>4. Len(m.route) > 0 /\ Len(m.planned) = Len(m.path) + Len(m.route)
    BY <1>1, <2>2, <2>3
  <2>5. Len(m.path) \in Nat /\ Len(m.route) \in Nat
    BY <1>1
  <2>6. \A a, b, c \in Nat : b > 0 /\ c = a + b => c > a
    OBVIOUS
  <2>7. Len(m.planned) \in Nat
    BY WaysAreSimple DEF AtRouter, OnPlan
  <2>8. Len(m.planned) > Len(m.path)
    BY <2>4, <2>5, <2>6, <2>7
  <2> QED BY <2>3, <2>8
<1> HIDE DEF on
<1>5. CASE on.ttl = 0 /\ Ends(on, "expired")
  <2>1. ~m.rerouted => Len(on.planned) > LookupTTL
    BY <1>1, <1>2, <1>4, <1>5 DEF AtRouter
  <2> QED BY <1>3, <1>5, <2>1 DEF Ends
<1>6. CASE on.ttl # 0 /\ Routed(on)
  <2> DEFINE q == Head(m.route)
             onward == [on EXCEPT !.route = Tail(@)]
  <2>1. m.route # <<>> /\ q \in neighbours[m.at] /\ SendTo(onward, q)
    BY <1>2, <1>6 DEF Routed
  <2>2. q \in Routers /\ m.ttl > 1
    BY <1>1, <1>2, <1>6, <2>1 DEF AtRouter
  <2>3. /\ onward = [m EXCEPT !.ttl = @ - 1, !.route = Tail(@), !.rerouted = onward.rerouted]
        /\ onward.rerouted = m.rerouted /\ onward.at = m.at
    BY <1>1 DEF on, LookupMessage
  <2>4. OnTheWay([onward EXCEPT !.at = q]) /\ Over(onward)
    BY <1>1, <2>1, <2>2, <2>3, SendKept
  <2>5. links = Links => {onward.at, q} \in links
    <3>1. SUFFICES ASSUME links = Links PROVE {m.at, q} \in Links
      BY <2>3
    <3>2. m.planned = m.path \o m.route /\ m.planned \in Ways
      BY <3>1 DEF AtRouter, OnPlan
    <3>3. m.path # <<>> /\ Last(m.path) = m.at
      BY DEF AtRouter
    <3> QED BY <1>1, <2>1, <3>2, <3>3, NextHopOfPlan
  <2>6. [onward EXCEPT !.at = q].rerouted = m.rerouted
    BY <1>1 DEF on, LookupMessage
  <2> HIDE DEF onward
  <2>7. CASE {onward.at, q} \in links
    BY <2>1, <2>4, <2>6, <2>7 DEF SendTo
  <2>8. CASE {onward.at, q} \notin links
    BY <2>1, <2>4, <2>5, <2>8 DEF SendTo, Ends
  <2> QED BY <2>7, <2>8
<1>7. CASE on.ttl # 0 /\ Rerouted(on)
  <2> DEFINE onward == [on EXCEPT !.route = Tail(@), !.rerouted = TRUE]
  <2>1. /\ m.route # <<>> /\ Head(m.route) \notin neighbours[m.at]
        /\ \/ \E q \in Detours(on) \cap neighbours[m.at] : SendTo(onward, q)
           \/ Ends(onward, "lost")
    BY <1>2, <1>7 DEF Rerouted
  <2>2. links # Links
    <3>1. SUFFICES ASSUME links = Links PROVE FALSE
      OBVIOUS
    <3>2. m.planned = m.path \o m.route /\ m.planned \in Ways /\ neighbours = Nbrs
      BY <3>1 DEF AtRouter, OnPlan, WholeOverlay
    <3>3. m.path # <<>> /\ Last(m.path) = m.at
      BY DEF AtRouter
    <3>4. {m.at, Head(m.route)} \in Links
      BY <1>1, <2>1, <3>2, <3>3, NextHopOfPlan
    <3> QED BY <2>1, <3>2, <3>4, LinkedAreNeighbours
  <2>3. /\ onward = [m EXCEPT !.ttl = @ - 1, !.route = Tail(@), !.rerouted = onward.rerouted]
        /\ onward.rerouted /\ onward.rerouted \in BOOLEAN
    BY <1>1 DEF on, LookupMessage
  <2>4. m.ttl > 1
    BY <1>1, <1>2, <1>7 DEF AtRouter
  <2> HIDE DEF onward
  <2>5. ASSUME NEW q \in Routers PROVE OnTheWay([onward EXCEPT !.at = q]) /\ Over(onward)
    BY <2>1, <2>3, <2>4, SendKept
  <2>6. neighbours[m.at] \subseteq Routers
    BY <1>1 DEF TablesOK
  <2>7. ASSUME NEW q \in neighbours[m.at], SendTo(onward, q)
        PROVE  (lookup' = NoLookup \/ OnTheWay(lookup'))
                 /\ (outcome' = outcome \/ Over(outcome'.message))
    <3>1. OnTheWay([onward EXCEPT !.at = q]) /\ Over(onward)
      BY <2>5, <2>6
    <3> QED BY <2>7, <3>1 DEF SendTo, Ends
  <2>8. CASE Ends(onward, "lost")
    BY <1>1, <2>2, <2>5, <2>8 DEF Ends
  <2> QED BY <2>1, <2>2, <2>7, <2>8
<1>8. CASE on.ttl # 0 /\ Unrouted(on)
  BY <1>2, <1>3, <1>4, <1>8 DEF Unrouted, Ends
<1> QED BY <1>5, <1>6, <1>7, <1>8 DEF RouteMessage, on

LEMMA LookupInitOK == LookupInit => LookupInv
<1> SUFFICES ASSUME LookupInit PROVE LookupInv
  OBVIOUS
<1>1. TablesOK
  BY TableOK, FloodAssumption DEF LookupInit, TablesOK
<1>2. WholeOverlay
  BY DEF LookupInit, WholeOverlay, LostForCause
<1> QED BY <1>1, <1>2 DEF LookupInit, LookupInv

(* What RouteKept shows of a step is what the invariant says of it. *)
LEMMA RoutedKept ==
  ASSUME LookupInv, NEW m, AtRouter(m), m.at # m.dest, RouteMessage(m),
         links = Links => ~m.rerouted,
         UNCHANGED <<links, neighbours, shortest_paths>>
  PROVE  LookupInv'
<1>1. /\ lookup' = NoLookup \/ OnTheWay(lookup')
      /\ outcome' = outcome \/ Over(outcome'.message)
      /\ links = Links => /\ lookup' = NoLookup \/ ~lookup'.rerouted
                          /\ outcome' = outcome
                               \/ Len(outcome'.message.planned) > LookupTTL
  BY RouteKept DEF LookupInv
<1>2. TablesOK'
  BY DEF LookupInv, TablesOK
<1>3. WholeOverlay'
  BY <1>1 DEF LookupInv, WholeOverlay, LostForCause
<1>4. (outcome.is = "none" \/ Over(outcome.message))'
  BY <1>1 DEF LookupInv
<1> QED BY <1>1, <1>2, <1>3, <1>4 DEF LookupInv

LEMMA LookupKept == LookupInv /\ [LookupNext]_lookupVars => LookupInv'
<1> SUFFICES ASSUME LookupInv, [LookupNext]_lookupVars PROVE LookupInv'
  OBVIOUS
<1> USE FloodAssumption, LookupAssumption
<1>1. ASSUME NEW r \in Routers, SendLookup(r) PROVE LookupInv'
  <2>1. PICK d \in DOMAIN shortest_paths[r] \ {r} :
          RouteMessage([at |-> r, ttl |-> LookupTTL, route |-> Tail(shortest_paths[r][d]),
                        path |-> <<r>>, dest |-> d, planned |-> shortest_paths[r][d],
                        rerouted |-> FALSE])
    BY <1>1 DEF SendLookup
  <2> DEFINE p == shortest_paths[r][d]
             m == [at |-> r, ttl |-> LookupTTL, route |-> Tail(p), path |-> <<r>>,
                   dest |-> d, planned |-> p, rerouted |-> FALSE]
  <2>2. p \in Ways /\ p[1] = r /\ Last(p) = d /\ d # r
    BY <2>1 DEF LookupInv, TablesOK
  <2>3. p \in Seq(Routers) /\ Len(p) >= 1
    BY <2>2, WaysAreSimple
  <2>4. d \in Routers /\ Tail(p) \in Seq(Routers) /\ <<r>> \in Seq(Routers)
    BY <2>2, <2>3 DEF Last
  <2>5. p = <<r>> \o Tail(p)
    <3>1. Head(p) = r /\ p # <<>>
      BY <2>2, <2>3
    <3>2. <<>> \o p = Append(<<>>, Head(p)) \o Tail(p)
      BY <2>3, <3>1, HeadMoved
    <3> QED BY <2>3, <3>1, <3>2
  <2>6. m \in LookupMessage
    BY <2>3, <2>4 DEF LookupMessage
  <2>7. OnPlan(m, m.path)
    BY <2>2, <2>5, <2>6 DEF OnPlan
  <2>8. m.path # <<>> /\ Last(m.path) = m.at /\ m.ttl > 0
          /\ m.ttl + Len(m.path) = LookupTTL + 1
    BY DEF Last
  <2>9. AtRouter(m)
    BY <2>7, <2>8 DEF AtRouter
  <2>10. m.at # m.dest /\ ~m.rerouted
    BY <2>2
  <2>11. RouteMessage(m)
    BY <2>1
  <2> HIDE DEF m
  <2> QED BY <1>1, <2>9, <2>10, <2>11, RoutedKept DEF SendLookup
<1>2. CASE HandleLookup
  <2> DEFINE m == [lookup EXCEPT !.path = Append(@, lookup.at)]
  <2>1. OnTheWay(lookup) /\ UNCHANGED <<links, neighbours, shortest_paths>>
    BY <1>2 DEF HandleLookup, LookupInv
  <2>2. /\ lookup \in LookupMessage /\ lookup.path \in Seq(Routers) /\ lookup.at \in Routers
        /\ lookup.route \in Seq(Routers)
    BY <2>1 DEF OnTheWay, OnPlan, LookupMessage
  <2>3. Append(lookup.path, lookup.at) \in Seq(Routers)
    BY <2>2
  <2>4. m \in LookupMessage
    BY <2>2, <2>3 DEF LookupMessage
  <2>5. /\ m.path = Append(lookup.path, lookup.at) /\ m.at = lookup.at /\ m.ttl = lookup.ttl
        /\ m.route = lookup.route /\ m.planned = lookup.planned /\ m.dest = lookup.dest
        /\ m.rerouted = lookup.rerouted
    BY <2>2 DEF LookupMessage
  <2>6. m.path # <<>> /\ Last(m.path) = m.at /\ Len(m.path) = Len(lookup.path) + 1
    BY <2>2, <2>5 DEF Last
  <2>7. /\ lookup.ttl \in Nat /\ Len(lookup.path) \in Nat
        /\ lookup.ttl + Len(lookup.path) = LookupTTL /\ lookup.ttl > 0
    BY <2>1, <2>2 DEF OnTheWay, LookupMessage
  <2>8. OnPlan(m, m.path)
    BY <2>1, <2>4, <2>5 DEF OnTheWay, OnPlan
  <2>9. m.ttl > 0 /\ m.ttl + Len(m.path) = LookupTTL + 1
    BY <2>5, <2>6, <2>7
  <2>10. AtRouter(m)
    BY <2>6, <2>8, <2>9 DEF AtRouter
  <2>11. links = Links => ~m.rerouted
    BY <1>2, <2>5 DEF HandleLookup, LookupInv, WholeOverlay
  <2>12. \/ m.dest = m.at /\ Ends(m, "arrived")
         \/ m.dest # m.at /\ RouteMessage(m)
    BY <1>2 DEF HandleLookup
  <2> HIDE DEF m
  <2>13. CASE m.dest = m.at /\ Ends(m, "arrived")
    <3>1. Over(m)
      <4>1. m.path \in Seq(Routers) /\ m.route \in Seq(Routers)
        BY <2>4 DEF LookupMessage
      <4>2. IsPrefix(m.path, m.path \o m.route)
        BY <4>1, PrefixOfConcat
      <4> QED BY <2>8, <4>1, <4>2 DEF OnPlan, Over
    <3>2. lookup' = NoLookup /\ outcome'.is = "arrived" /\ outcome'.message = m
      BY <2>13 DEF Ends
    <3>3. TablesOK'
      BY <2>1 DEF LookupInv, TablesOK
    <3>4. WholeOverlay'
      BY <2>1, <3>2 DEF LookupInv, WholeOverlay, LostForCause
    <3> QED BY <3>1, <3>2, <3>3, <3>4 DEF LookupInv
  <2>14. CASE m.dest # m.at /\ RouteMessage(m)
    BY <2>1, <2>10, <2>11, <2>14, RoutedKept
  <2> QED BY <2>12, <2>13, <2>14
<1>3. ASSUME NEW r \in Routers, Notice(r) PROVE LookupInv'
  <2>1. PICK q \in neighbours[r] :
          /\ {r, q} \notin links
          /\ neighbours' = [neighbours EXCEPT ![r] = @ \ {q}]
          /\ UNCHANGED <<links, shortest_paths, lookup, sent, outcome>>
    BY <1>3 DEF Notice
  <2>2. TablesOK'
    BY <2>1 DEF LookupInv, TablesOK
  <2>3. links # Links
    <3>1. q \in Nbrs[r] /\ q \in Routers
      BY <2>1 DEF LookupInv, TablesOK
    <3>2. {r, q} \in Links
      BY <3>1 DEF Links
    <3> QED BY <2>1, <3>2
  <2>4. WholeOverlay'
    BY <2>1, <2>3 DEF WholeOverlay
  <2>5. (lookup = NoLookup \/ OnTheWay(lookup))' /\ (outcome.is = "none" \/ Over(outcome.message))'
    BY <2>1 DEF LookupInv
  <2> QED BY <2>2, <2>4, <2>5 DEF LookupInv
<1>4. ASSUME NEW r \in Routers, Recompute(r) PROVE LookupInv'
  <2>1. /\ shortest_paths' = [shortest_paths EXCEPT ![r] = LeastCost(r, Graph(neighbours))]
        /\ UNCHANGED <<links, neighbours, lookup, sent, outcome>>
    BY <1>4 DEF Recompute
  <2>2. TablesOK'
    BY <2>1, TableOK DEF LookupInv, TablesOK
  <2>3. WholeOverlay' /\ (lookup = NoLookup \/ OnTheWay(lookup))'
          /\ (outcome.is = "none" \/ Over(outcome.message))'
    BY <2>1 DEF LookupInv, WholeOverlay, LostForCause
  <2> QED BY <2>2, <2>3 DEF LookupInv
<1>5. ASSUME NEW link \in links, Cut(link) PROVE LookupInv'
  <2>1. links' = links \ {link} /\ UNCHANGED <<neighbours, shortest_paths, lookup, sent, outcome>>
    BY <1>5 DEF Cut
  <2>2. TablesOK'
    BY <2>1 DEF LookupInv, TablesOK
  <2>3. links' # Links
    BY <2>1 DEF LookupInv, TablesOK
  <2>4. WholeOverlay' /\ (lookup = NoLookup \/ OnTheWay(lookup))'
          /\ (outcome.is = "none" \/ Over(outcome.message))'
    BY <2>1, <2>3 DEF LookupInv, WholeOverlay
  <2> QED BY <2>2, <2>4 DEF LookupInv
<1>6. CASE UNCHANGED lookupVars
  <2>1. TablesOK' /\ WholeOverlay'
    BY <1>6 DEF lookupVars, LookupInv, TablesOK, WholeOverlay, LostForCause
  <2> QED BY <1>6, <2>1 DEF lookupVars, LookupInv
<1> QED BY <1>1, <1>2, <1>3, <1>4, <1>5, <1>6 DEF LookupNext

LEMMA AlwaysLookupInv == OverlaySpec => []LookupInv
<1>1. OverlayInit => LookupInv
  BY LookupInitOK DEF OverlayInit
<1>2. LookupInv /\ [OverlayNext]_<<vars, lookupVars>> => LookupInv'
  BY LookupKept DEF OverlayNext
<1> QED BY <1>1, <1>2, PTL DEF OverlaySpec

(* A prefix of a sequence that repeats nothing repeats nothing. *)
LEMMA PrefixOfSimple ==
  ASSUME NEW p \in Seq(Routers), NEW q \in Seq(Routers), IsPrefix(p, q),
         \A i, k \in 1..Len(q) : q[i] = q[k] => i = k
  PROVE  IsInjective(p)
<1>1. Len(p) \in Nat /\ Len(q) \in Nat /\ Len(p) <= Len(q)
  BY DEF IsPrefix
<1>2. SubSeq(p, 1, Len(p)) = SubSeq(q, 1, Len(p))
  BY DEF IsPrefix
<1>3. ASSUME NEW i \in 1..Len(p) PROVE p[i] = q[i] /\ i \in 1..Len(q)
  <2>1. SubSeq(p, 1, Len(p))[i] = p[i] /\ SubSeq(q, 1, Len(p))[i] = q[i]
    BY <1>1
  <2> QED BY <1>1, <1>2, <2>1
<1> QED BY <1>3 DEF IsInjective

(***************************************************************************)
(* A LOOKUP of which no hop was replaced goes the way its source planned   *)
(* and comes to no router twice, whatever becomes of the links and of the  *)
(* tables of the routers on the way (route_message, handle_LOOKUP).        *)
(***************************************************************************)
THEOREM LookupsFollowThePlan == OverlaySpec => []FollowsPlan
<1>1. LookupInv => FollowsPlan
  <2> SUFFICES ASSUME LookupInv, NEW m \in Seen, ~m.rerouted
               PROVE  IsPrefix(m.path, m.planned) /\ IsInjective(m.path)
    BY DEF FollowsPlan
  <2>1. Over(m)
    <3>1. CASE OnTheWay(m)
      <4>1. /\ m.path \in Seq(Routers) /\ m.route \in Seq(Routers) /\ m.at \in Routers
            /\ m.planned \in Ways
            /\ m.planned = Append(m.path, m.at) \o m.route
        BY <3>1 DEF OnTheWay, OnPlan, LookupMessage
      <4>2. IsPrefix(m.path, Append(m.path, m.at) \o m.route)
        BY <4>1, PrefixOfLonger
      <4> QED BY <4>1, <4>2 DEF Over
    <3> QED BY <3>1 DEF LookupInv, Seen
  <2>2. IsPrefix(m.path, m.planned) /\ m.path \in Seq(Routers) /\ m.planned \in Ways
    BY <2>1 DEF Over
  <2>3. /\ m.planned \in Seq(Routers)
        /\ \A i, k \in 1..Len(m.planned) : m.planned[i] = m.planned[k] => i = k
    BY <2>2, WaysAreSimple
  <2>4. IsInjective(m.path)
    BY <2>2, <2>3, PrefixOfSimple
  <2> QED BY <2>2, <2>4
<1> QED BY <1>1, AlwaysLookupInv, PTL

(***************************************************************************)
(* As long as no link is cut a LOOKUP is lost to nothing but a TTL that is *)
(* too small for its way (route_message).                                  *)
(***************************************************************************)
THEOREM LookupsLostForCause == OverlaySpec => []LostForCause
<1>1. LookupInv => LostForCause
  BY DEF LookupInv, WholeOverlay, LostForCause
<1> QED BY <1>1, AlwaysLookupInv, PTL

-----------------------------------------------------------------------------
(***************************************************************************)
(* The threads of one router that handle LSAs.                             *)
(***************************************************************************)

(* The entries of the origin have their types, and each thread is at a     *)
(* place of serverSide, with the LSA it was started for.                   *)
THEOREM LsaTypeCorrect == LsaSpec => []LsaTypeOK
<1> USE LsaThreadsAssumption
<1>1. LsaInit => LsaTypeOK
  <2> SUFFICES ASSUME LsaInit PROVE LsaTypeOK
    OBVIOUS
  <2>1. /\ LSA_SN \in 0..MaxSN \cup {Absent} /\ LSA_DB \in 0..MaxSN \cup {Absent}
        /\ LSA_SN_forwarded \in 0..MaxSN \cup {Absent}
    BY DEF LsaInit, Unforwarded
  <2>2. overlapped \in BOOLEAN /\ packets \in BOOLEAN /\ knew \in BOOLEAN
    BY DEF LsaInit
  <2> QED BY <2>1, <2>2 DEF LsaInit, LsaTypeOK
<1>2. LsaTypeOK /\ [LsaNext]_lsaVars => LsaTypeOK'
  <2> SUFFICES ASSUME LsaTypeOK, [LsaNext]_lsaVars PROVE LsaTypeOK'
    OBVIOUS
  <2> USE DEF LsaTypeOK, Goto
  <2>1. ASSUME NEW t \in Threads PROVE lsa[t].sn \in 1..MaxSN
    BY DEF Lsa
  <2>2. ASSUME NEW t \in Threads, HandleLSA(t), UNCHANGED knew, overlapped' \in BOOLEAN
        PROVE  LsaTypeOK'
    <3>1. pc' \in [Threads -> {"idle", "test", "add", "number", "unmark", "store",
                               "compare", "renumber", "restore", "check", "mark",
                               "send", "done", "KeyError"}]
      BY <2>2 DEF HandleLSA, Start, Test, AddPacket, SetNumber, SetUnforwarded, Store,
                  Compare, Renumber, Restore, CheckForwarded, MarkForwarded, Send
    <3>2. packets' \in BOOLEAN /\ UNCHANGED <<lsa, purge>>
      BY <2>2 DEF HandleLSA, Start, Test, AddPacket, SetNumber, SetUnforwarded, Store,
                  Compare, Renumber, Restore, CheckForwarded, MarkForwarded, Send
    <3>3. LSA_SN' \in 0..MaxSN \cup {Absent} /\ LSA_DB' \in 0..MaxSN \cup {Absent}
      BY <2>1, <2>2 DEF HandleLSA, Start, Test, AddPacket, SetNumber, SetUnforwarded, Store,
                        Compare, Renumber, Restore, CheckForwarded, MarkForwarded, Send
    <3>4. LSA_SN_forwarded' \in 0..MaxSN \cup {Absent}
      <4>1. LSA_SN_forwarded' \in {LSA_SN_forwarded, Unforwarded, lsa[t].sn}
        BY <2>2 DEF HandleLSA, Start, Test, AddPacket, SetNumber, SetUnforwarded, Store,
                    Compare, Renumber, Restore, CheckForwarded, MarkForwarded, Send
      <4> QED BY <2>1, <4>1 DEF Unforwarded
    <3>5. flooded' \in [1..MaxSN -> Nat]
      <4>1. CASE Send(t)
        BY <2>1, <4>1 DEF Send
      <4>2. CASE UNCHANGED flooded
        BY <4>2
      <4> QED BY <2>2, <4>1, <4>2
              DEF HandleLSA, Start, Test, AddPacket, SetNumber, SetUnforwarded, Store,
                  Compare, Renumber, Restore, CheckForwarded, MarkForwarded
    <3> QED BY <2>2, <3>1, <3>2, <3>3, <3>4, <3>5
  <2>3. ASSUME Purge, UNCHANGED knew, overlapped' \in BOOLEAN PROVE LsaTypeOK'
    BY <2>3 DEF Purge, PurgeDatabase, PurgePacket, PurgeNumber, PurgeForwarded,
                PurgeRest
  <2>4. CASE UNCHANGED lsaVars
    BY <2>4 DEF lsaVars
  <2>5. CASE LsaNext
    <3>1. overlapped' \in BOOLEAN /\ UNCHANGED knew
      BY <2>5 DEF LsaNext
    <3> QED BY <2>2, <2>3, <2>5, <3>1 DEF LsaNext
  <2> QED BY <2>4, <2>5
<1> QED BY <1>1, <1>2, PTL DEF LsaSpec

(* Once the origin is declared dead it stays so. *)
LEMMA WatchEnds == ASSUME [LsaNext]_lsaVars, purge' = "watch" PROVE purge = "watch"
BY DEF LsaNext, HandleLSA, Purge, PurgeDatabase, PurgePacket, PurgeNumber, PurgeForwarded,
       PurgeRest, Start, Test, AddPacket, SetNumber, SetUnforwarded, Store, Compare,
       Renumber, Restore, CheckForwarded, MarkForwarded, Send, lsaVars

-----------------------------------------------------------------------------
(***************************************************************************)
(* EntriesTogether.                                                        *)
(***************************************************************************)

AtOneOf(labels) == \E u \in Threads : pc[u] \in labels

(* The origin is in packets as soon as a thread has gone past entering it; *)
(* an entry it lacks then is ahead of some thread.                         *)
EntriesUnderWay ==
  purge = "watch" =>
    /\ ~packets => \A t \in Threads : pc[t] \in {"idle", "test", "add"}
    /\ packets => /\ LSA_SN # Absent \/ AtOneOf({"number"})
                  /\ LSA_SN_forwarded # Absent \/ AtOneOf({"number", "unmark"})
                  /\ LSA_DB # Absent \/ AtOneOf({"number", "unmark", "store"})

(***************************************************************************)
(* While it is not declared dead, the threads leave an origin with all its *)
(* entries (the branch of serverSide for an RID that is not in packets).   *)
(***************************************************************************)
THEOREM EntriesStayTogether == LsaSpec => []EntriesTogether
<1> USE LsaThreadsAssumption
<1>1. LsaInit => EntriesUnderWay
  BY DEF LsaInit, EntriesUnderWay, Unforwarded
<1>2. LsaTypeOK /\ EntriesUnderWay /\ [LsaNext]_lsaVars => EntriesUnderWay'
  <2> SUFFICES ASSUME LsaTypeOK, EntriesUnderWay, [LsaNext]_lsaVars, purge' = "watch"
               PROVE  EntriesUnderWay'
    BY DEF EntriesUnderWay
  <2>1. purge = "watch"
    BY WatchEnds
  <2>2. ASSUME NEW t \in Threads PROVE lsa[t].sn \in Nat
    BY DEF LsaTypeOK, Lsa
  <2> USE <2>1 DEF LsaTypeOK, Goto, EntriesUnderWay, AtOneOf
  <2>3. ASSUME NEW t \in Threads, HandleLSA(t) PROVE EntriesUnderWay'
    <3>1. CASE Start(t)
      BY <3>1 DEF Start
    <3>2. CASE Test(t)
      BY <3>2 DEF Test
    <3>3. CASE AddPacket(t)
      BY <3>3 DEF AddPacket
    <3>4. CASE SetNumber(t)
      BY <2>2, <3>4 DEF SetNumber
    <3>5. CASE SetUnforwarded(t)
      BY <3>5 DEF SetUnforwarded, Unforwarded
    <3>6. CASE Store(t)
      BY <2>2, <3>6 DEF Store
    <3>7. CASE Compare(t)
      BY <3>7 DEF Compare
    <3>8. CASE Renumber(t)
      BY <2>2, <3>8 DEF Renumber
    <3>9. CASE Restore(t)
      BY <2>2, <3>9 DEF Restore
    <3>10. CASE CheckForwarded(t)
      BY <3>10 DEF CheckForwarded
    <3>11. CASE MarkForwarded(t)
      BY <2>2, <3>11 DEF MarkForwarded
    <3>12. CASE Send(t)
      BY <3>12 DEF Send
    <3> QED BY <2>3, <3>1, <3>2, <3>3, <3>4, <3>5, <3>6, <3>7, <3>8, <3>9, <3>10, <3>11,
               <3>12 DEF HandleLSA
  <2>4. ~Purge
    BY DEF Purge, PurgeDatabase, PurgePacket, PurgeNumber, PurgeForwarded, PurgeRest
  <2>5. CASE UNCHANGED lsaVars
    BY <2>5 DEF lsaVars
  <2> QED BY <2>3, <2>4, <2>5 DEF LsaNext
<1>3. EntriesUnderWay => EntriesTogether
  BY DEF EntriesUnderWay, EntriesTogether, Finished, AtOneOf
<1> QED BY <1>1, <1>2, <1>3, LsaTypeCorrect, PTL DEF LsaSpec

-----------------------------------------------------------------------------
(***************************************************************************)
(* NewestFlooded.                                                          *)
(***************************************************************************)

(* Thread u has flooded its LSA, or is about to. *)
Sends(u) == pc[u] = "send" \/ flooded[lsa[u].sn] > 0

(* A known origin has all its entries.  What LSA_SN_forwarded says was     *)
(* forwarded is flooded by somebody, though not always by the thread with the  *)
(* greatest number: a slower one may have turned it back.  But no thread   *)
(* has given its LSA up except for one as new that somebody sends.         *)
KnownOrigin ==
  knew /\ purge = "watch" =>
    /\ packets /\ Absent \notin {LSA_SN, LSA_SN_forwarded, LSA_DB}
    /\ \A t \in Threads : pc[t] \in {"idle", "test", "compare", "renumber", "restore",
                                     "check", "mark", "send", "done"}
    /\ LSA_SN_forwarded # Unforwarded =>
         \E u \in Threads : lsa[u].sn = LSA_SN_forwarded /\ Sends(u)
    /\ \A t \in Threads : pc[t] = "done" =>
         \E u \in Threads : lsa[u].sn >= lsa[t].sn /\ Sends(u)

(***************************************************************************)
(* The newest LSA of a known origin is flooded, whatever the threads that  *)
(* handle its others do meanwhile (the forwarding block of serverSide).    *)
(***************************************************************************)
THEOREM NewestIsFlooded == LsaSpec => []NewestFlooded
<1> USE LsaThreadsAssumption
<1>1. LsaInit => KnownOrigin
  BY DEF LsaInit, KnownOrigin, Unforwarded
<1>2. LsaTypeOK /\ KnownOrigin /\ [LsaNext]_lsaVars => KnownOrigin'
  <2> SUFFICES ASSUME LsaTypeOK, KnownOrigin, [LsaNext]_lsaVars, purge' = "watch", knew'
               PROVE  KnownOrigin'
    BY DEF KnownOrigin
  <2>1. purge = "watch" /\ knew /\ lsa' = lsa
    BY WatchEnds
    DEF LsaNext, HandleLSA, Purge, Start, Test, AddPacket, SetNumber, SetUnforwarded, Store,
        Compare, Renumber, Restore, CheckForwarded, MarkForwarded, Send, lsaVars
  <2>2. ASSUME NEW t \in Threads PROVE lsa[t].sn \in 1..MaxSN
    BY DEF LsaTypeOK, Lsa
  <2>3. \A n \in 1..MaxSN : flooded[n] \in Nat /\ flooded'[n] \in Nat /\ flooded[n] <= flooded'[n]
    <3>1. CASE \E t \in Threads : Send(t)
      BY <2>2, <3>1 DEF Send, LsaTypeOK
    <3>2. CASE UNCHANGED flooded
      BY <3>2 DEF LsaTypeOK
    <3> QED BY <3>1, <3>2
            DEF LsaNext, HandleLSA, Purge, Start, Test, AddPacket, SetNumber, SetUnforwarded,
                Store, Compare, Renumber, Restore, CheckForwarded, MarkForwarded, lsaVars
  <2> USE <2>1 DEF LsaTypeOK, Goto, KnownOrigin
  <2>4. ASSUME NEW t \in Threads, HandleLSA(t) PROVE KnownOrigin'
    <3>1. CASE \/ Start(t) \/ Test(t) \/ Compare(t) \/ Renumber(t) \/ Restore(t)
      <4>0. \A u \in Threads : pc[u] = "send" => pc'[u] = "send"
        BY <3>1 DEF Start, Test, Compare, Renumber, Restore
      <4>1. \A u \in Threads : Sends(u) => Sends(u)'
        BY <2>2, <2>3, <4>0 DEF Sends
      <4>2. \A u \in Threads : pc'[u] = "done" => pc[u] = "done"
        BY <3>1 DEF Start, Test, Compare, Renumber, Restore
      <4>3. UNCHANGED <<packets, LSA_SN_forwarded>>
        BY <3>1 DEF Start, Test, Compare, Renumber, Restore
      <4>4. LSA_SN' # Absent /\ LSA_DB' # Absent
        <5>1. lsa[t].sn # Absent
          BY <2>2
        <5> QED BY <3>1, <5>1 DEF Start, Test, Compare, Renumber, Restore
      <4>5. \A u \in Threads : pc'[u] \in {"idle", "test", "compare", "renumber",
                                          "restore", "check", "mark", "send", "done"}
        BY <3>1 DEF Start, Test, Compare, Renumber, Restore
      <4> QED BY <4>1, <4>2, <4>3, <4>4, <4>5
    <3>2. CASE CheckForwarded(t)
      <4>1. \A u \in Threads : Sends(u) => Sends(u)'
        BY <2>2, <2>3, <3>2 DEF Sends, CheckForwarded
      <4>2. CASE LSA_SN_forwarded < lsa[t].sn
        BY <3>2, <4>1, <4>2 DEF CheckForwarded
      <4>3. CASE ~(LSA_SN_forwarded < lsa[t].sn)
        <5>1. PICK u \in Threads : lsa[u].sn = LSA_SN_forwarded /\ Sends(u)
          BY <2>2, <4>3 DEF Unforwarded
        <5>2. lsa[u].sn >= lsa[t].sn
          BY <2>2, <4>3, <5>1
        <5> QED BY <3>2, <4>1, <5>1, <5>2 DEF CheckForwarded
      <4> QED BY <4>2, <4>3
    <3>3. CASE MarkForwarded(t)
      <4>1. \A u \in Threads : Sends(u) => Sends(u)'
        BY <2>2, <2>3, <3>3 DEF Sends, MarkForwarded
      <4>2. Sends(t)' /\ LSA_SN_forwarded' = lsa[t].sn
        BY <3>3 DEF Sends, MarkForwarded
      <4> QED BY <2>2, <3>3, <4>1, <4>2 DEF MarkForwarded
    <3>4. CASE Send(t)
      <4>1. flooded' = [flooded EXCEPT ![lsa[t].sn] = @ + 1]
        BY <3>4 DEF Send
      <4>2. Sends(t)'
        BY <2>2, <2>3, <4>1 DEF Sends
      <4>3. \A u \in Threads : Sends(u) => Sends(u)'
        BY <2>2, <2>3, <3>4, <4>2 DEF Sends, Send
      <4> QED BY <2>2, <3>4, <4>2, <4>3 DEF Send
    <3> QED BY <2>4, <3>1, <3>2, <3>3, <3>4
            DEF HandleLSA, AddPacket, SetNumber, SetUnforwarded, Store
  <2>5. ~Purge
    BY DEF Purge, PurgeDatabase, PurgePacket, PurgeNumber, PurgeForwarded, PurgeRest
  <2>6. CASE UNCHANGED lsaVars
    BY <2>6 DEF lsaVars, Sends
  <2> QED BY <2>4, <2>5, <2>6 DEF LsaNext
<1>3. LsaTypeOK /\ KnownOrigin => NewestFlooded
  BY DEF KnownOrigin, NewestFlooded, NewestSent, Finished, Sends
<1> QED BY <1>1, <1>2, <1>3, LsaTypeCorrect, PTL DEF LsaSpec

-----------------------------------------------------------------------------
(***************************************************************************)
(* NewestKept and FloodedOnce: as long as no thread makes a test while     *)
(* another one is between its test and its writes, there is one writer at  *)
(* a time, and it writes greater numbers only.                             *)
(***************************************************************************)
Entering == {"add", "number", "unmark", "store"}

OneWriter ==
  /\ \A t \in Threads : pc[t] # "KeyError"
  /\ \A t \in Threads : pc[t] \in Writing =>
       \A u \in Threads \ {t} : pc[u] \notin Writing
  /\ \A t \in Threads : pc[t] \in Entering =>
       \A u \in Threads \ {t} : pc[u] \in {"idle", "test"}
  /\ ~packets => \A t \in Threads : pc[t] \in {"idle", "test", "add"}

RecordIsNewest ==
  /\ ~packets => LSA_SN = Absent /\ LSA_DB = Absent
  /\ packets => LSA_SN # Absent \/ AtOneOf({"number"})
  /\ LSA_DB = LSA_SN \/ AtOneOf({"unmark", "store", "restore"})
  /\ \A t \in Threads :
       /\ pc[t] \in {"unmark", "store", "restore"} => LSA_SN = lsa[t].sn
       /\ pc[t] = "renumber" => LSA_SN # Absent /\ lsa[t].sn > LSA_SN
       /\ pc[t] \in {"check", "mark", "send", "done"} /\ lsa[t].flag = 1 =>
            LSA_SN # Absent /\ lsa[t].sn <= LSA_SN

MarkIsGreatest ==
  /\ ~packets => LSA_SN_forwarded = Absent
  /\ packets => LSA_SN_forwarded # Absent \/ AtOneOf({"number", "unmark"})
  /\ \A t \in Threads :
       /\ pc[t] \in {"add", "number", "unmark"} => LSA_SN_forwarded = Absent
       /\ pc[t] = "mark" => LSA_SN_forwarded # Absent /\ LSA_SN_forwarded < lsa[t].sn
       /\ pc[t] = "send" =>
            /\ LSA_SN_forwarded # Absent /\ lsa[t].sn <= LSA_SN_forwarded
            /\ flooded[lsa[t].sn] = 0
            /\ \A u \in Threads \ {t} : pc[u] = "send" => lsa[u].sn # lsa[t].sn
  /\ \A n \in 1..MaxSN :
       /\ flooded[n] <= 1
       /\ flooded[n] > 0 => LSA_SN_forwarded # Absent /\ n <= LSA_SN_forwarded

Serial == purge = "watch" /\ ~overlapped => OneWriter /\ RecordIsNewest /\ MarkIsGreatest

(* What a step of a thread that makes no overlap does not find. *)
LEMMA NoOverlap ==
  ASSUME LsaTypeOK, NEW t \in Threads, HandleLSA(t), ~Overlap,
         pc[t] \in {"test", "compare", "check"}
  PROVE  \A u \in Threads \ {t} : pc[u] \notin Writing
<1>1. pc'[t] # pc[t]
  BY DEF HandleLSA, Start, Test, AddPacket, SetNumber, SetUnforwarded, Store, Compare,
         Renumber, Restore, CheckForwarded, MarkForwarded, Send, Goto, LsaTypeOK
<1> QED BY <1>1 DEF Overlap

LEMMA OneWriterKept ==
  ASSUME LsaTypeOK, OneWriter, RecordIsNewest, MarkIsGreatest,
         NEW t \in Threads, HandleLSA(t), ~Overlap
  PROVE  OneWriter'
<1>1. pc[t] \in {"test", "compare", "check"} =>
        \A u \in Threads \ {t} : pc[u] \notin Writing
  BY NoOverlap
<1>2. pc[t] \in {"compare", "check"} =>
        /\ packets /\ LSA_SN # Absent /\ LSA_SN_forwarded # Absent
  BY DEF OneWriter, RecordIsNewest, MarkIsGreatest, AtOneOf, Entering
<1>3. /\ pc \in [Threads -> {"idle", "test", "add", "number", "unmark", "store",
                             "compare", "renumber", "restore", "check", "mark",
                             "send", "done", "KeyError"}]
      /\ OneWriter
  BY DEF LsaTypeOK
<1> USE <1>3 DEF OneWriter, Entering, Writing, Goto
<1>4. CASE Start(t) \/ Send(t)
  BY <1>4 DEF Start, Send
<1>5. CASE Test(t)
  BY <1>1, <1>5 DEF Test
<1>6. CASE AddPacket(t) \/ SetNumber(t) \/ SetUnforwarded(t) \/ Store(t)
  BY <1>6 DEF AddPacket, SetNumber, SetUnforwarded, Store
<1>7. CASE Compare(t)
  BY <1>1, <1>2, <1>7 DEF Compare
<1>8. CASE Renumber(t) \/ Restore(t)
  BY <1>8 DEF Renumber, Restore
<1>9. CASE CheckForwarded(t)
  BY <1>1, <1>2, <1>9 DEF CheckForwarded
<1>10. CASE MarkForwarded(t)
  BY <1>10 DEF MarkForwarded
<1> QED BY <1>4, <1>5, <1>6, <1>7, <1>8, <1>9, <1>10 DEF HandleLSA

LEMMA RecordKept ==
  ASSUME LsaTypeOK, OneWriter, RecordIsNewest, MarkIsGreatest,
         NEW t \in Threads, HandleLSA(t), ~Overlap
  PROVE  RecordIsNewest'
<1>1. pc[t] \in {"test", "compare", "check"} =>
        \A u \in Threads \ {t} : pc[u] \notin Writing
  BY NoOverlap
<1>2. /\ \A u \in Threads : lsa[u].sn \in Nat /\ lsa[u].flag \in {0, 1}
      /\ LSA_SN # Absent => LSA_SN \in Nat
      /\ Absent \notin Nat
  BY LsaThreadsAssumption DEF LsaTypeOK, Lsa
<1>3. /\ pc \in [Threads -> {"idle", "test", "add", "number", "unmark", "store",
                             "compare", "renumber", "restore", "check", "mark",
                             "send", "done", "KeyError"}]
      /\ OneWriter /\ RecordIsNewest
  BY DEF LsaTypeOK
<1> USE <1>3 DEF OneWriter, RecordIsNewest, AtOneOf, Entering, Writing, Goto
<1>4. CASE Start(t) \/ Send(t)
  BY <1>4 DEF Start, Send
<1>5. CASE Test(t)
  BY <1>1, <1>2, <1>5 DEF Test
<1>6. CASE AddPacket(t)
  BY <1>6 DEF AddPacket
<1>7. CASE SetNumber(t)
  BY <1>2, <1>7 DEF SetNumber
<1>8. CASE SetUnforwarded(t)
  BY <1>8 DEF SetUnforwarded
<1>9. CASE Store(t)
  BY <1>2, <1>9 DEF Store
<1>10. CASE Compare(t)
  BY <1>1, <1>2, <1>10 DEF Compare
<1>11. CASE Renumber(t)
  BY <1>2, <1>11 DEF Renumber
<1>12. CASE Restore(t)
  BY <1>2, <1>12 DEF Restore
<1>13. CASE CheckForwarded(t)
  BY <1>1, <1>13 DEF CheckForwarded
<1>14. CASE MarkForwarded(t)
  BY <1>14 DEF MarkForwarded
<1> QED BY <1>4, <1>5, <1>6, <1>7, <1>8, <1>9, <1>10, <1>11, <1>12, <1>13, <1>14
        DEF HandleLSA

LEMMA MarkKept ==
  ASSUME LsaTypeOK, OneWriter, RecordIsNewest, MarkIsGreatest,
         NEW t \in Threads, HandleLSA(t), ~Overlap
  PROVE  MarkIsGreatest'
<1>1. pc[t] \in {"test", "compare", "check"} =>
        \A u \in Threads \ {t} : pc[u] \notin Writing
  BY NoOverlap
<1>2. /\ \A u \in Threads : lsa[u].sn \in 1..MaxSN /\ lsa[u].sn \in Nat
      /\ LSA_SN_forwarded # Absent => LSA_SN_forwarded \in Nat
      /\ Absent \notin Nat /\ MaxSN \in Nat
      /\ flooded \in [1..MaxSN -> Nat]
  BY LsaThreadsAssumption DEF LsaTypeOK, Lsa
<1>3. /\ pc \in [Threads -> {"idle", "test", "add", "number", "unmark", "store",
                             "compare", "renumber", "restore", "check", "mark",
                             "send", "done", "KeyError"}]
      /\ OneWriter /\ MarkIsGreatest
  BY DEF LsaTypeOK
<1> USE <1>3 DEF OneWriter, MarkIsGreatest, AtOneOf, Entering, Writing, Goto
<1>4. CASE Start(t)
  BY <1>4 DEF Start
<1>5. CASE Test(t)
  BY <1>1, <1>2, <1>5 DEF Test
<1>6. CASE AddPacket(t) \/ SetNumber(t)
  BY <1>6 DEF AddPacket, SetNumber
<1>7. CASE SetUnforwarded(t)
  BY <1>2, <1>7 DEF SetUnforwarded, Unforwarded
<1>8. CASE Store(t)
  BY <1>8 DEF Store
<1>9. CASE Compare(t) \/ Renumber(t) \/ Restore(t)
  BY <1>9 DEF Compare, Renumber, Restore
<1>10. CASE CheckForwarded(t)
  BY <1>1, <1>2, <1>10 DEF CheckForwarded
<1>11. CASE MarkForwarded(t)
  BY <1>2, <1>11 DEF MarkForwarded
<1>12. CASE Send(t)
  BY <1>2, <1>12 DEF Send
<1> QED BY <1>4, <1>5, <1>6, <1>7, <1>8, <1>9, <1>10, <1>11, <1>12 DEF HandleLSA

(* One writer at a time: the invariant of the two theorems. *)
LEMMA AlwaysSerial == LsaSpec => []Serial
<1> USE LsaThreadsAssumption
<1>1. LsaInit => Serial
  BY DEF LsaInit, Serial, OneWriter, RecordIsNewest, MarkIsGreatest, AtOneOf, Entering, Writing,
         Unforwarded, Lsa
<1>2. LsaTypeOK /\ Serial /\ [LsaNext]_lsaVars => Serial'
  <2> SUFFICES ASSUME LsaTypeOK, Serial, [LsaNext]_lsaVars, purge' = "watch", ~overlapped'
               PROVE  (OneWriter /\ RecordIsNewest /\ MarkIsGreatest)'
    BY DEF Serial
  <2>1. purge = "watch" /\ ~overlapped
    <3>1. purge = "watch"
      BY WatchEnds
    <3>2. CASE UNCHANGED lsaVars
      BY <3>1, <3>2 DEF lsaVars
    <3>3. CASE LsaNext
      <4>1. overlapped' = (overlapped \/ Overlap)
        BY <3>3 DEF LsaNext
      <4>2. overlapped \in BOOLEAN
        BY DEF LsaTypeOK
      <4>3. overlapped => overlapped'
        BY <4>1
      <4> QED BY <3>1, <4>3
    <3> QED BY <3>2, <3>3
  <2>2. OneWriter /\ RecordIsNewest /\ MarkIsGreatest
    BY <2>1 DEF Serial
  <2>3. CASE UNCHANGED lsaVars
    BY <2>2, <2>3 DEF lsaVars, OneWriter, RecordIsNewest, MarkIsGreatest, AtOneOf
  <2>4. CASE LsaNext
    <3>1. ~Overlap
      BY <2>4 DEF LsaNext
    <3>2. ~Purge
      BY <2>1 DEF Purge, PurgeDatabase, PurgePacket, PurgeNumber, PurgeForwarded, PurgeRest
    <3>3. PICK t \in Threads : HandleLSA(t)
      BY <2>4, <3>2 DEF LsaNext
    <3> QED BY <2>2, <3>1, <3>3, OneWriterKept, RecordKept, MarkKept
  <2> QED BY <2>3, <2>4
<1> QED BY <1>1, <1>2, LsaTypeCorrect, PTL DEF LsaSpec

(***************************************************************************)
(* The newest update stays in the database under its number, unless the    *)
(* handlers overlap (serverSide's "greater than the existing record").     *)
(***************************************************************************)
THEOREM NewestStaysKept == LsaSpec => []NewestKept
<1>1. Serial => NewestKept
  BY DEF Serial, RecordIsNewest, OneWriter, AtOneOf, NewestKept, Finished
<1> QED BY <1>1, AlwaysSerial, PTL

(***************************************************************************)
(* No number is forwarded twice, unless the handlers overlap (the          *)
(* forwarding block of serverSide, whose lock is of no use).               *)
(***************************************************************************)
THEOREM ForwardedOnce == LsaSpec => []FloodedOnce
<1>1. Serial => FloodedOnce
  BY DEF Serial, MarkIsGreatest, FloodedOnce
<1> QED BY <1>1, AlwaysSerial, PTL

=============================================================================
