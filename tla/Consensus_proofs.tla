--------------------------- MODULE Consensus_proofs ---------------------------
(***************************************************************************)
(* Theorems about Consensus, for any threads, authorities, attempts and     *)
(* failures, and whatever the documents hold.                               *)
(*                                                                         *)
(* _lock makes one renewing thread at a time the only one that goes through *)
(* renew (Locked), so that the certificates a document was verified with    *)
(* are kept until it is in use, and, if all threads renew, the directory    *)
(* guard is one thread's from the test of its time to the end of the        *)
(* request (Kept).  What is in use was signed by a majority (AllSigned),    *)
(* because reading a consensus finds no signature of an authority that did  *)
(* not sign and no voter twice, and apply_diff gives the text that the diff *)
(* was made for or none.  It gives that text whenever it is applied to what *)
(* the diff was made from (DiffDone), and the lock keeps that in use until  *)
(* the answer is there (AllAsked).                                          *)
(***************************************************************************)
EXTENDS Consensus, FiniteSetTheorems, WellFoundedInduction, TLAPS

Fields == {"pc", "tries", "inner", "want", "mine", "answer", "new"}

(* Where renew holds the lock. *)
InLock == {"ttl", "forget", "look", "create", "assign", "use", "ask", "failed", "expire",
           "raised", "received", "savecerts", "save", "write"}

Records == DOMAIN th = Threads /\ \A u \in Threads : DOMAIN th[u] = Fields

(* Each thread is at a place of its job. *)
PlacedAt(u, r) ==
  /\ r.pc \in InLock \union {"idle", "lock", "gaveup"}
  /\ r.pc \in {"lock", "received", "savecerts", "save", "write"} => jobs[u] = "renew"
  /\ r.pc \in InLock \union {"lock"} =>
       r.want \in (IF jobs[u] = "renew" THEN {"renew", "certs"} ELSE {"descriptor"})
  /\ r.want \in {None, "renew", "descriptor", "certs"}
  /\ r.tries \in Nat /\ r.tries < RenewTries
  /\ r.inner \in Nat /\ r.inner < CertsTries

Placed == \A u \in Threads : jobs[u] \in {"renew", "descriptor"} /\ PlacedAt(u, th[u])

Locked ==
  \A u \in Threads : lock = u <=> jobs[u] = "renew" /\ th[u].pc \in InLock

(* The guards: the one of a circuit that failed is nobody's. *)
Guarded ==
  /\ now \in 0..MaxHour /\ lock \in Threads \union {None}
  /\ ttl \in {None, "fresh", "expired"}
  /\ guard \in Guards \union {None} /\ circuit = guard
  /\ open \subseteq Guards /\ orphans \subseteq open /\ guard \notin orphans
  /\ \A u \in Threads : /\ th[u].mine \in Guards \union {None}
                        /\ th[u].mine \notin orphans
                        /\ th[u].pc = "assign" => th[u].mine \in Guards

VerifiedAt(r, list) == r.pc = "save" => Verify(r.new, list).ok

Verified == \A u \in Threads : VerifiedAt(th[u], certs)

(* What the thread in renew knows of the guard. *)
Kept ==
  AllRenew =>
    /\ ttl # None => guard # None
    /\ open \subseteq {guard} \union orphans \union {th[u].mine : u \in Threads}
    /\ \A u \in Threads :
         /\ th[u].pc \in {"create", "assign"} => guard = None
         /\ th[u].pc = "expire" => guard # None
         /\ th[u].pc = "forget" => guard \notin open
         /\ th[u].mine # None =>
              \/ th[u].pc = "assign"
              \/ th[u].pc \in {"ask", "failed", "expire", "raised"} /\ th[u].mine = guard

Safe == Records /\ Placed /\ Locked /\ Guarded /\ Verified /\ Kept

-----------------------------------------------------------------------------
(***************************************************************************)
(* Steps of a thread.                                                       *)
(***************************************************************************)

(* What the others are left with, and what this one gets. *)
Moves(u, r) ==
  /\ DOMAIN r = Fields /\ DOMAIN th' = Threads /\ th'[u] = r
  /\ \A v \in Threads \ {u} : th'[v] = th[v]

LEMMA ToMoves ==
  ASSUME Records, NEW u \in Threads, NEW l, To(u, l)
  PROVE  Moves(u, [th[u] EXCEPT !.pc = l])
BY DEF To, Moves, Records

LEMMA SetMoves ==
  ASSUME Records, NEW u \in Threads, NEW r, DOMAIN r = Fields, th' = [th EXCEPT ![u] = r]
  PROVE  Moves(u, r)
BY DEF Moves, Records

LEMMA RecordsMove ==
  ASSUME Records, NEW u \in Threads, NEW r, Moves(u, r)
  PROVE  Records'
BY DEF Moves, Records

(* A thread that only goes to another place keeps the rest.                 *)
Same(u, r) ==
  /\ r.want = th[u].want /\ r.tries = th[u].tries /\ r.inner = th[u].inner
  /\ r.mine = th[u].mine /\ r.new = th[u].new

LEMMA PcIs ==
  ASSUME Records, NEW u \in Threads, NEW l
  PROVE  [th[u] EXCEPT !.pc = l].pc = l /\ Same(u, [th[u] EXCEPT !.pc = l])
BY DEF Records, Fields, Same

LEMMA StartIs ==
  /\ DOMAIN Start = Fields /\ Start.pc = "idle" /\ Start.tries = 0 /\ Start.inner = 0
  /\ Start.want = None /\ Start.mine = None
  /\ \A l, w : /\ DOMAIN [Start EXCEPT !.pc = l, !.want = w] = Fields
               /\ [Start EXCEPT !.pc = l, !.want = w].pc = l
               /\ [Start EXCEPT !.pc = l, !.want = w].want = w
               /\ [Start EXCEPT !.pc = l, !.want = w].tries = 0
               /\ [Start EXCEPT !.pc = l, !.want = w].inner = 0
               /\ [Start EXCEPT !.pc = l, !.want = w].mine = None
BY DEF Start, Fields

(* The places a thread goes to from each, without more.                     *)
LEMMA ToPlaced ==
  ASSUME Records, Placed, NEW u \in Threads, NEW l \in InLock,
         l \in {"received", "savecerts", "save", "write"} => jobs[u] = "renew",
         th[u].pc \in InLock \union {"lock"}, To(u, l)
  PROVE  \E r : Moves(u, r) /\ PlacedAt(u, r) /\ r.pc = l /\ Same(u, r)
<1> DEFINE r == [th[u] EXCEPT !.pc = l]
<1>1. Moves(u, r) /\ r.pc = l /\ Same(u, r)
  BY ToMoves, PcIs
<1> HIDE DEF r
<1>2. PlacedAt(u, r)
  BY <1>1 DEF Placed, PlacedAt, Same, InLock
<1> QED BY <1>1, <1>2

-----------------------------------------------------------------------------
(***************************************************************************)
(* What a step leaves as it should be.                                      *)
(***************************************************************************)

(* A thread that renews takes the lock and lets it go; the others do not.   *)
Passes(u, r) ==
  IF jobs[u] = "renew"
  THEN \/ lock' = lock /\ (r.pc \in InLock <=> th[u].pc \in InLock)
       \/ lock = None /\ lock' = u /\ r.pc \in InLock
       \/ lock = u /\ lock' = None /\ r.pc \notin InLock
  ELSE lock' = lock

LEMMA Onward ==
  ASSUME Safe, NEW u \in Threads, NEW r, Moves(u, r), PlacedAt(u, r), Passes(u, r), jobs' = jobs
  PROVE  Records' /\ Placed' /\ Locked' /\ lock' \in Threads \union {None}
<1>1. Records'
  BY RecordsMove DEF Safe
<1>2. Placed'
  BY DEF Safe, Placed, PlacedAt, Moves
<1>3. lock' \in Threads \union {None}
  BY DEF Safe, Guarded, Passes
<1>4. ASSUME NEW v \in Threads PROVE lock' = v <=> jobs[v] = "renew" /\ th'[v].pc \in InLock
  <2>1. None \notin Threads
    BY ConsensusAssumption
  <2>2. lock = v <=> jobs[v] = "renew" /\ th[v].pc \in InLock
    BY DEF Safe, Locked
  <2>3. CASE v = u
    BY <2>1, <2>2, <2>3 DEF Moves, Passes
  <2>4. CASE v # u
    <3>1. th'[v] = th[v]
      BY <2>4 DEF Moves
    <3> QED BY <2>1, <2>2, <2>4, <3>1 DEF Passes
  <2> QED BY <2>3, <2>4
<1> QED BY <1>1, <1>2, <1>3, <1>4 DEF Locked

(* Two threads that renew are not both past the lock.                       *)
LEMMA OneRenews ==
  ASSUME Locked, NEW u \in Threads, NEW v \in Threads, jobs[u] = "renew", jobs[v] = "renew",
         th[u].pc \in InLock, th[v].pc \in InLock
  PROVE  u = v
BY DEF Locked

(* The certificates change under the lock.                                  *)
LEMMA VerifiedMove ==
  ASSUME Safe, NEW u \in Threads, NEW r, Moves(u, r),
         certs' = certs \/ (jobs[u] = "renew" /\ th[u].pc \in InLock),
         VerifiedAt(r, certs')
  PROVE  Verified'
<1>1. ASSUME NEW v \in Threads PROVE VerifiedAt(th'[v], certs')
  <2>1. CASE v = u
    BY <1>1, <2>1 DEF Moves
  <2>2. CASE v # u
    <3>1. th'[v] = th[v]
      BY <2>2 DEF Moves
    <3>2. CASE certs' = certs
      BY <3>1, <3>2 DEF Safe, Verified
    <3>3. CASE certs' # certs
      <4>1. th[v].pc # "save"
        BY <2>2, <3>3, OneRenews DEF Safe, Placed, PlacedAt, InLock
      <4> QED BY <3>1, <4>1 DEF VerifiedAt
    <3> QED BY <3>2, <3>3
  <2> QED BY <2>1, <2>2
<1> QED BY <1>1 DEF Verified, VerifiedAt, Verify, FindSignature, PublicKey

(* A thread that does not touch the guards, and forgets none but the one    *)
(* the directory client has.                                                *)
LEMMA GuardsSame ==
  ASSUME Safe, NEW u \in Threads, NEW r, Moves(u, r),
         UNCHANGED <<guard, circuit, ttl, open, orphans, now>>,
         lock' \in Threads \union {None}, jobs' = jobs,
         r.mine \in {None, guard, th[u].mine},
         r.pc = "assign" => th[u].pc = "assign" /\ r.mine = th[u].mine,
         AllRenew => /\ th[u].pc # "assign" \/ r.pc = "assign"
                     /\ r.pc = "create" => guard = None
                     /\ r.pc = "expire" => guard # None
                     /\ r.pc = "forget" => guard \notin open
                     /\ r.mine # None /\ r.pc # "assign" =>
                          r.pc \in {"ask", "failed", "expire", "raised"} /\ r.mine = guard
  PROVE  Guarded' /\ Kept'
<1>1. \A v \in Threads \ {u} : th'[v] = th[v]
  BY DEF Moves
<1>2. th'[u] = r
  BY DEF Moves
<1>3. None \notin Guards
  BY ConsensusAssumption
<1>4. Guarded'
  BY <1>1, <1>2, <1>3 DEF Safe, Guarded
<1>5. ASSUME AllRenew' PROVE Kept'
  <2>1. AllRenew
    BY <1>5 DEF AllRenew
  <2>2. ttl' # None => guard' # None
    BY <2>1 DEF Safe, Kept
  <2>3. open' \subseteq {guard'} \union orphans' \union {th'[v].mine : v \in Threads}
    <3>1. ASSUME NEW g \in open, g \notin {guard} \union orphans
          PROVE  g \in {th'[v].mine : v \in Threads}
      <4>1. PICK v \in Threads : g = th[v].mine
        BY <2>1, <3>1 DEF Safe, Kept
      <4>2. g # None /\ g # guard
        BY <1>3, <3>1 DEF Safe, Guarded
      <4>3. th[v].pc = "assign"
        BY <2>1, <4>1, <4>2 DEF Safe, Kept
      <4>4. th'[v].mine = g
        <5>1. CASE v = u
          <6>1. r.pc = "assign"
            BY <2>1, <4>3, <5>1
          <6> QED BY <1>2, <4>1, <5>1, <6>1
        <5>2. CASE v # u
          BY <1>1, <4>1, <5>2
        <5> QED BY <5>1, <5>2
      <4> QED BY <4>4
    <3> QED BY <3>1
  <2>4. ASSUME NEW v \in Threads
        PROVE  /\ th'[v].pc \in {"create", "assign"} => guard' = None
               /\ th'[v].pc = "expire" => guard' # None
               /\ th'[v].pc = "forget" => guard' \notin open'
               /\ th'[v].mine # None =>
                    \/ th'[v].pc = "assign"
                    \/ /\ th'[v].pc \in {"ask", "failed", "expire", "raised"}
                       /\ th'[v].mine = guard'
    <3>1. CASE v = u
      BY <1>2, <2>1, <3>1 DEF Safe, Kept
    <3>2. CASE v # u
      BY <1>1, <2>1, <3>2 DEF Safe, Kept
    <3> QED BY <3>1, <3>2
  <2> QED BY <2>2, <2>3, <2>4 DEF Kept
<1>6. Kept'
  BY <1>5 DEF Kept
<1> QED BY <1>4, <1>6

-----------------------------------------------------------------------------
(***************************************************************************)
(* One step for each action.                                                *)
(***************************************************************************)

LEMMA CallSafe ==
  ASSUME Safe, NEW u \in Threads, Call(u) PROVE Safe'
<1> DEFINE l == IF jobs[u] = "renew" THEN "lock" ELSE "ttl"
           r == [Start EXCEPT !.pc = l, !.want = jobs[u]]
<1>1. /\ UNCHANGED <<now, jobs, crashes, store, shared, lock, faults>> /\ th[u].pc = "idle"
      /\ th' = [th EXCEPT ![u] = r]
  BY DEF Call, At
<1>2. /\ DOMAIN r = Fields /\ r.pc = l /\ r.want = jobs[u] /\ r.tries = 0 /\ r.inner = 0
      /\ r.mine = None
  BY StartIs
<1> HIDE DEF r
<1>3. Moves(u, r)
  BY <1>1, <1>2, SetMoves DEF Safe
<1>4. PlacedAt(u, r)
  BY <1>2, ConsensusAssumption DEF Safe, Placed, PlacedAt, InLock
<1>5. Passes(u, r)
  BY <1>1, <1>2 DEF Passes, InLock
<1>6. Records' /\ Placed' /\ Locked' /\ lock' \in Threads \union {None}
  BY <1>1, <1>3, <1>4, <1>5, Onward
<1>7. Verified'
  <2>1. certs' = certs /\ VerifiedAt(r, certs')
    BY <1>1, <1>2 DEF store, VerifiedAt
  <2> QED BY <1>3, <2>1, VerifiedMove
<1>8. Guarded' /\ Kept'
  <2>1. r.pc \in {"lock", "ttl"} /\ r.mine = None
    BY <1>2
  <2>4. UNCHANGED <<guard, circuit, ttl, open, orphans, now>> /\ jobs' = jobs
    BY <1>1 DEF shared
  <2>2. r.pc # "assign" /\ r.pc # "create" /\ r.pc # "expire" /\ r.pc # "forget"
    BY <2>1
  <2> QED BY <1>1, <1>3, <1>6, <2>1, <2>2, <2>4, GuardsSame
<1> QED BY <1>6, <1>7, <1>8 DEF Safe

LEMMA LockSafe ==
  ASSUME Safe, NEW u \in Threads, Lock(u) PROVE Safe'
<1>1. /\ UNCHANGED <<counters, store, shared, faults>> /\ th[u].pc = "lock" /\ lock = None
      /\ jobs[u] = "renew"
  BY DEF Lock, At, Safe, Placed, PlacedAt
<1>2. PICK l \in {"idle", "ttl"} : /\ To(u, l)
                                   /\ lock' = IF l = "ttl" THEN u ELSE None
  BY DEF Lock
<1> DEFINE r == [th[u] EXCEPT !.pc = l]
<1>3. Moves(u, r) /\ r.pc = l /\ Same(u, r)
  BY <1>2, ToMoves, PcIs DEF Safe
<1> HIDE DEF r
<1>4. PlacedAt(u, r)
  BY <1>1, <1>3 DEF Safe, Placed, PlacedAt, Same, InLock
<1>5. Passes(u, r)
  BY <1>1, <1>2, <1>3 DEF Passes, InLock
<1>6. Records' /\ Placed' /\ Locked' /\ lock' \in Threads \union {None}
  BY <1>1, <1>3, <1>4, <1>5, Onward DEF counters
<1>7. Verified'
  <2>1. certs' = certs /\ VerifiedAt(r, certs')
    BY <1>1, <1>3 DEF store, VerifiedAt
  <2> QED BY <1>3, <2>1, VerifiedMove
<1>8. Guarded' /\ Kept'
  <2>1. AllRenew => th[u].mine = None
    BY <1>1 DEF Safe, Kept
  <2>2. UNCHANGED <<guard, circuit, ttl, open, orphans, now>> /\ jobs' = jobs
    BY <1>1 DEF shared, counters
  <2> QED BY <1>1, <1>3, <1>6, <2>1, <2>2, GuardsSame DEF Same
<1> QED BY <1>6, <1>7, <1>8 DEF Safe

(* A thread that only goes on, under the lock if it renews.                 *)
LEMMA GoesSafe ==
  ASSUME Safe, NEW u \in Threads, th[u].pc \in InLock, th[u].pc # "assign",
         NEW l \in InLock \ {"assign", "received", "savecerts", "save", "write"}, To(u, l),
         UNCHANGED <<guard, circuit, ttl, open, orphans, now, jobs, lock, certs>>,
         AllRenew => /\ l = "create" => guard = None
                     /\ l = "expire" => guard # None
                     /\ l = "forget" => guard \notin open
                     /\ th[u].mine # None => l \in {"ask", "failed", "expire", "raised"}
  PROVE  Safe'
<1> DEFINE r == [th[u] EXCEPT !.pc = l]
<1>1. Moves(u, r) /\ r.pc = l /\ Same(u, r)
  BY ToMoves, PcIs DEF Safe
<1> HIDE DEF r
<1>2. PlacedAt(u, r)
  BY <1>1 DEF Safe, Placed, PlacedAt, Same, InLock
<1>3. Passes(u, r)
  BY <1>1 DEF Passes
<1>4. Records' /\ Placed' /\ Locked' /\ lock' \in Threads \union {None}
  BY <1>1, <1>2, <1>3, Onward
<1>5. Verified'
  <2>1. VerifiedAt(r, certs')
    BY <1>1 DEF VerifiedAt
  <2> QED BY <1>1, <2>1, VerifiedMove
<1>6. Guarded' /\ Kept'
  <2>1. AllRenew => th[u].mine \in {None, guard}
    BY DEF Safe, Kept
  <2> QED BY <1>1, <1>4, <2>1, GuardsSame DEF Same
<1> QED BY <1>4, <1>5, <1>6 DEF Safe

(* A step that changes the guards, of a thread alone with them if all renew.*)
LEMMA GuardsMove ==
  ASSUME Safe, NEW u \in Threads, th[u].pc \in InLock, NEW r, Moves(u, r), PlacedAt(u, r),
         r.pc \in InLock \ {"save"}, UNCHANGED <<now, jobs, lock, certs>>, Guarded',
         AllRenew =>
           /\ ttl' # None => guard' # None
           /\ open' \subseteq {guard', r.mine} \union orphans'
           /\ r.pc \in {"create", "assign"} => guard' = None
           /\ r.pc = "expire" => guard' # None
           /\ r.pc = "forget" => guard' \notin open'
           /\ r.mine # None =>
                \/ r.pc = "assign"
                \/ r.pc \in {"ask", "failed", "expire", "raised"} /\ r.mine = guard'
  PROVE  Safe'
<1>1. Passes(u, r)
  BY DEF Passes
<1>2. Records' /\ Placed' /\ Locked'
  BY <1>1, Onward
<1>3. Verified'
  <2>1. VerifiedAt(r, certs')
    BY DEF VerifiedAt
  <2> QED BY <2>1, VerifiedMove
<1>4. ASSUME AllRenew' PROVE Kept'
  <2>1. AllRenew
    BY <1>4 DEF AllRenew
  <2>2. \A v \in Threads \ {u} : th'[v] = th[v] /\ th[v].pc \notin InLock
    BY <2>1, OneRenews DEF Moves, AllRenew, Safe
  <2>3. th'[u] = r
    BY DEF Moves
  <2>4. \A v \in Threads \ {u} : th'[v].mine = None
    BY <2>1, <2>2 DEF Safe, Kept, InLock
  <2>5. open' \subseteq {guard'} \union orphans' \union {th'[v].mine : v \in Threads}
    BY <2>1, <2>3
  <2>6. ASSUME NEW v \in Threads
        PROVE  /\ th'[v].pc \in {"create", "assign"} => guard' = None
               /\ th'[v].pc = "expire" => guard' # None
               /\ th'[v].pc = "forget" => guard' \notin open'
               /\ th'[v].mine # None =>
                    \/ th'[v].pc = "assign"
                    \/ /\ th'[v].pc \in {"ask", "failed", "expire", "raised"}
                       /\ th'[v].mine = guard'
    <3>1. CASE v = u
      BY <2>1, <2>3, <3>1
    <3>2. CASE v # u
      BY <2>2, <2>4, <3>2 DEF InLock
    <3> QED BY <3>1, <3>2
  <2> QED BY <2>1, <2>5, <2>6 DEF Kept
<1>5. Kept'
  BY <1>4 DEF Kept
<1> QED BY <1>2, <1>3, <1>5 DEF Safe

LEMMA OpenAlone ==
  ASSUME Safe, AllRenew, NEW u \in Threads, th[u].pc \in InLock
  PROVE  open \subseteq {guard, th[u].mine} \union orphans
<1>1. \A v \in Threads \ {u} : th[v].mine = None
  BY OneRenews DEF Safe, Kept, AllRenew, InLock
<1>2. open \subseteq Guards /\ None \notin Guards
  BY ConsensusAssumption DEF Safe, Guarded
<1>3. open \subseteq {guard} \union orphans \union {th[v].mine : v \in Threads}
  BY DEF Safe, Kept
<1> QED BY <1>1, <1>2, <1>3

LEMMA CheckTtlSafe ==
  ASSUME Safe, NEW u \in Threads, CheckTtl(u) PROVE Safe'
<1>1. /\ UNCHANGED <<guard, circuit, ttl, orphans, now, jobs, lock, certs>> /\ th[u].pc = "ttl"
      /\ th[u].pc \in InLock
  BY DEF CheckTtl, At, counters, store, InLock
<1>2. AllRenew => th[u].mine = None
  BY <1>1 DEF Safe, Kept
<1>3. CASE ttl # "expired" \/ guard \notin open \ broken
  <2>1. PICK l \in {"look", "raised"} : To(u, l) /\ open' = open
    BY <1>3 DEF CheckTtl
  <2>2. /\ l \in InLock \ {"assign", "received", "savecerts", "save", "write"}
        /\ l \notin {"create", "expire", "forget"}
    BY DEF InLock
  <2> QED BY <1>1, <1>2, <2>1, <2>2, GoesSafe
<1>4. CASE ttl = "expired" /\ guard \in open \ broken
  <2>1. To(u, "forget") /\ open' = open \ {guard}
    BY <1>4 DEF CheckTtl
  <2>5. guard # None
    BY <1>4, ConsensusAssumption DEF Safe, Guarded
  <2>2. PICK r : Moves(u, r) /\ PlacedAt(u, r) /\ r.pc = "forget" /\ Same(u, r)
    BY <1>1, <2>1, ToPlaced DEF Safe, InLock
  <2>3. Guarded'
    BY <1>1, <2>1, <2>2 DEF Safe, Guarded, Moves, Same
  <2>4. AllRenew => /\ r.mine = None /\ guard' # None /\ guard' \notin open'
                    /\ open' \subseteq {guard', r.mine} \union orphans'
    <3>1. AllRenew => open \subseteq {guard, th[u].mine} \union orphans
      BY <1>1, OpenAlone
    <3> QED BY <1>1, <1>2, <2>5, <2>1, <2>2, <3>1 DEF Same
  <2> QED BY <1>1, <2>2, <2>3, <2>4, GuardsMove DEF InLock
<1> QED BY <1>3, <1>4

LEMMA ForgetSafe ==
  ASSUME Safe, NEW u \in Threads, Forget(u) PROVE Safe'
<1>1. /\ UNCHANGED <<open, orphans, now, jobs, lock, certs>> /\ th[u].pc = "forget"
      /\ th[u].pc \in InLock /\ To(u, "look")
      /\ guard' = None /\ circuit' = None /\ ttl' = None
  BY DEF Forget, At, counters, store, InLock
<1>2. PICK r : Moves(u, r) /\ PlacedAt(u, r) /\ r.pc = "look" /\ Same(u, r)
  BY <1>1, ToPlaced DEF Safe, InLock
<1>3. Guarded'
  BY <1>1, <1>2, ConsensusAssumption DEF Safe, Guarded, Moves, Same
<1>4. AllRenew => /\ r.mine = None
                  /\ open' \subseteq {guard', r.mine} \union orphans'
  <2>1. AllRenew => /\ th[u].mine = None /\ guard \notin open
                    /\ open \subseteq {guard, th[u].mine} \union orphans
    BY <1>1, OpenAlone DEF Safe, Kept
  <2> QED BY <1>1, <1>2, <2>1 DEF Same
<1> QED BY <1>1, <1>2, <1>3, <1>4, GuardsMove DEF InLock

LEMMA LookSafe ==
  ASSUME Safe, NEW u \in Threads, Look(u) PROVE Safe'
<1>1. /\ UNCHANGED <<guard, circuit, ttl, open, orphans, now, jobs, lock, certs>>
      /\ th[u].pc = "look" /\ th[u].pc \in InLock
  BY DEF Look, At, counters, store, shared, InLock
<1>2. PICK l \in {"create", "use"} : To(u, l) /\ (l = "create" => circuit = None)
  BY DEF Look
<1>3. AllRenew => th[u].mine = None
  BY <1>1 DEF Safe, Kept
<1>4. circuit = guard
  BY DEF Safe, Guarded
<1>5. l \in InLock \ {"assign", "received", "savecerts", "save", "write"} /\ l # "expire" /\ l # "forget"
  BY DEF InLock
<1> QED BY <1>1, <1>2, <1>3, <1>4, <1>5, GoesSafe

(* A new connection is nobody's. *)
LEMMA NewGuardIs ==
  ASSUME NEW g \in NewGuard
  PROVE  /\ g \in Guards /\ g \notin open /\ g # guard
         /\ \A u \in Threads : th[u].mine # g
BY DEF NewGuard

LEMMA CreateSafe ==
  ASSUME Safe, NEW u \in Threads, Create(u) PROVE Safe'
<1>1. /\ UNCHANGED <<guard, circuit, ttl, now, jobs, lock, certs>>
      /\ th[u].pc = "create" /\ th[u].pc \in InLock
  BY DEF Create, At, counters, store, InLock
<1>2. AllRenew => /\ th[u].mine = None /\ guard = None /\ ttl = None
                  /\ open \subseteq {guard, th[u].mine} \union orphans
  BY <1>1, OpenAlone DEF Safe, Kept
<1>3. CASE To(u, "failed") /\ open' = open /\ orphans' = orphans
  BY <1>1, <1>2, <1>3, GoesSafe DEF InLock
<1>4. ASSUME NEW g \in NewGuard, open' = open \union {g}, To(u, "failed"),
             orphans' = orphans \union {g}
      PROVE  Safe'
  <2>1. PICK r : Moves(u, r) /\ PlacedAt(u, r) /\ r.pc = "failed" /\ Same(u, r)
    BY <1>1, <1>4, ToPlaced DEF Safe, InLock
  <2>2. Guarded'
    BY <1>1, <1>4, <2>1, NewGuardIs DEF Safe, Guarded, Moves, Same
  <2>3. AllRenew => r.mine = None /\ open' \subseteq {guard', r.mine} \union orphans'
    BY <1>1, <1>2, <1>4, <2>1 DEF Same
  <2> QED BY <1>1, <1>2, <2>1, <2>2, <2>3, GuardsMove DEF InLock
<1>5. ASSUME NEW g \in NewGuard, open' = open \union {g}, orphans' = orphans,
             th' = [th EXCEPT ![u].pc = "assign", ![u].mine = g]
      PROVE  Safe'
  <2> DEFINE r == [th[u] EXCEPT !.pc = "assign", !.mine = g]
  <2>1. /\ DOMAIN r = Fields /\ r.pc = "assign" /\ r.mine = g /\ r.want = th[u].want
        /\ r.tries = th[u].tries /\ r.inner = th[u].inner
    BY DEF Safe, Records, Fields
  <2>2. th' = [th EXCEPT ![u] = r]
    BY <1>5 DEF Safe, Records
  <2> HIDE DEF r
  <2>3. Moves(u, r)
    BY <2>1, <2>2, SetMoves DEF Safe
  <2>4. PlacedAt(u, r)
    BY <1>1, <2>1 DEF Safe, Placed, PlacedAt, InLock
  <2>5. Guarded'
    BY <1>1, <1>5, <2>1, <2>3, NewGuardIs DEF Safe, Guarded, Moves
  <2>6. AllRenew => open' \subseteq {guard', r.mine} \union orphans'
    BY <1>1, <1>2, <1>5, <2>1
  <2> QED BY <1>1, <1>2, <2>1, <2>3, <2>4, <2>5, <2>6, GuardsMove DEF InLock
<1> QED BY <1>3, <1>4, <1>5 DEF Create

LEMMA AssignSafe ==
  ASSUME Safe, NEW u \in Threads, Assign(u) PROVE Safe'
<1> DEFINE r == [th[u] EXCEPT !.pc = "use", !.mine = None]
<1>1. /\ UNCHANGED <<open, orphans, now, jobs, lock, certs>>
      /\ th[u].pc = "assign" /\ th[u].pc \in InLock
      /\ guard' = th[u].mine /\ circuit' = th[u].mine /\ ttl' = "fresh"
  BY DEF Assign, At, counters, store, InLock
<1>2. /\ DOMAIN r = Fields /\ r.pc = "use" /\ r.mine = None /\ r.want = th[u].want
      /\ r.tries = th[u].tries /\ r.inner = th[u].inner
  BY DEF Safe, Records, Fields
<1>3. th' = [th EXCEPT ![u] = r]
  BY DEF Assign, Safe, Records
<1> HIDE DEF r
<1>4. Moves(u, r)
  BY <1>2, <1>3, SetMoves DEF Safe
<1>5. PlacedAt(u, r)
  BY <1>1, <1>2 DEF Safe, Placed, PlacedAt, InLock
<1>6. th[u].mine \in Guards /\ th[u].mine \notin orphans /\ th[u].mine # None
  BY <1>1, ConsensusAssumption DEF Safe, Guarded
<1>7. Guarded'
  BY <1>1, <1>2, <1>4, <1>6, ConsensusAssumption DEF Safe, Guarded, Moves
<1>8. AllRenew => /\ guard' # None
                  /\ open' \subseteq {guard', r.mine} \union orphans'
  <2>1. AllRenew => guard = None /\ open \subseteq {guard, th[u].mine} \union orphans
    BY <1>1, OpenAlone DEF Safe, Kept
  <2>2. open \subseteq Guards /\ None \notin Guards
    BY ConsensusAssumption DEF Safe, Guarded
  <2> QED BY <1>1, <1>6, <2>1, <2>2
<1> QED BY <1>1, <1>2, <1>4, <1>5, <1>7, <1>8, GuardsMove DEF InLock

LEMMA UseSafe ==
  ASSUME Safe, NEW u \in Threads, Use(u) PROVE Safe'
<1>1. /\ UNCHANGED <<guard, circuit, ttl, open, orphans, now, jobs, lock, certs>>
      /\ th[u].pc = "use" /\ th[u].pc \in InLock
  BY DEF Use, At, counters, store, shared, InLock
<1>2. CASE To(u, "failed")
  <2>1. AllRenew => th[u].mine = None
    BY <1>1 DEF Safe, Kept
  <2> QED BY <1>1, <1>2, <2>1, GoesSafe DEF InLock
<1>3. CASE th' = [th EXCEPT ![u].pc = "ask", ![u].mine = circuit]
  <2> DEFINE r == [th[u] EXCEPT !.pc = "ask", !.mine = circuit]
  <2>1. /\ DOMAIN r = Fields /\ r.pc = "ask" /\ r.mine = circuit /\ r.want = th[u].want
        /\ r.tries = th[u].tries /\ r.inner = th[u].inner
    BY DEF Safe, Records, Fields
  <2>2. th' = [th EXCEPT ![u] = r]
    BY <1>3 DEF Safe, Records
  <2> HIDE DEF r
  <2>3. Moves(u, r)
    BY <2>1, <2>2, SetMoves DEF Safe
  <2>4. PlacedAt(u, r)
    BY <1>1, <2>1 DEF Safe, Placed, PlacedAt, InLock
  <2>5. r.mine = guard
    BY <2>1 DEF Safe, Guarded
  <2>6. Passes(u, r)
    BY <1>1, <2>1 DEF Passes, InLock
  <2>7. Records' /\ Placed' /\ Locked' /\ lock' \in Threads \union {None}
    BY <1>1, <2>3, <2>4, <2>6, Onward
  <2>8. Verified'
    <3>1. VerifiedAt(r, certs')
      BY <2>1 DEF VerifiedAt
    <3> QED BY <1>1, <2>3, <3>1, VerifiedMove
  <2>9. Guarded' /\ Kept'
    BY <1>1, <2>1, <2>3, <2>5, <2>7, GuardsSame
  <2> QED BY <2>7, <2>8, <2>9 DEF Safe
<1> QED BY <1>2, <1>3 DEF Use

LEMMA AskSafe ==
  ASSUME Safe, NEW u \in Threads, Ask(u) PROVE Safe'
<1>1. /\ UNCHANGED <<guard, circuit, ttl, open, orphans, now, jobs, lock, certs>>
      /\ th[u].pc = "ask" /\ th[u].pc \in InLock
  BY DEF Ask, At, counters, store, shared, InLock
<1>2. CASE To(u, "failed")
  BY <1>1, <1>2, GoesSafe DEF InLock
<1>3. ASSUME NEW l \in {"idle", "received"}, NEW text,
             l = "received" <=> th[u].want # "descriptor",
             th' = [th EXCEPT ![u].answer = text, ![u].mine = None, ![u].pc = l]
      PROVE  Safe'
  <2> DEFINE r == [th[u] EXCEPT !.answer = text, !.mine = None, !.pc = l]
  <2>1. /\ DOMAIN r = Fields /\ r.pc = l /\ r.mine = None /\ r.want = th[u].want
        /\ r.tries = th[u].tries /\ r.inner = th[u].inner
    BY DEF Safe, Records, Fields
  <2>2. th' = [th EXCEPT ![u] = r]
    BY <1>3 DEF Safe, Records
  <2> HIDE DEF r
  <2>3. Moves(u, r)
    BY <2>1, <2>2, SetMoves DEF Safe
  <2>4. l = "received" <=> jobs[u] = "renew"
    BY <1>1, <1>3 DEF Safe, Placed, PlacedAt
  <2>5. PlacedAt(u, r)
    BY <1>1, <2>1, <2>4 DEF Safe, Placed, PlacedAt, InLock
  <2>6. Passes(u, r)
    BY <1>1, <2>1, <2>4 DEF Passes, InLock
  <2>7. Records' /\ Placed' /\ Locked' /\ lock' \in Threads \union {None}
    BY <1>1, <2>3, <2>5, <2>6, Onward
  <2>8. Verified'
    <3>1. VerifiedAt(r, certs')
      BY <2>1 DEF VerifiedAt
    <3> QED BY <1>1, <2>3, <3>1, VerifiedMove
  <2>9. Guarded' /\ Kept'
    BY <1>1, <2>1, <2>3, <2>7, GuardsSame
  <2> QED BY <2>7, <2>8, <2>9 DEF Safe
<1>4. ASSUME NEW text \in Answers(u),
             th' = [th EXCEPT ![u].answer = text, ![u].mine = None,
                      ![u].pc = IF @ = "ask" /\ th[u].want = "descriptor"
                                  THEN "idle" ELSE "received"]
      PROVE  Safe'
  <2> DEFINE l == IF th[u].want = "descriptor" THEN "idle" ELSE "received"
  <2>1. th' = [th EXCEPT ![u].answer = text, ![u].mine = None, ![u].pc = l]
    BY <1>1, <1>4 DEF Safe, Records, Fields
  <2>2. l \in {"idle", "received"} /\ (l = "received" <=> th[u].want # "descriptor")
    OBVIOUS
  <2> HIDE DEF l
  <2> QED BY <1>3, <2>1, <2>2
<1>5. ASSUME NEW text \in Useless(u),
             th' = [th EXCEPT ![u].answer = text, ![u].mine = None, ![u].pc = "received"]
      PROVE  Safe'
  <2>1. th[u].want # "descriptor"
    BY <1>5 DEF Useless
  <2> QED BY <1>3, <1>5, <2>1
<1> QED BY <1>2, <1>4, <1>5 DEF Ask

LEMMA FailTestSafe ==
  ASSUME Safe, NEW u \in Threads, FailTest(u) PROVE Safe'
<1>1. /\ UNCHANGED <<guard, circuit, ttl, open, orphans, now, jobs, lock, certs>>
      /\ th[u].pc = "failed" /\ th[u].pc \in InLock
  BY DEF FailTest, At, counters, store, shared, InLock
<1>2. PICK l \in {"expire", "raised"} : To(u, l) /\ (l = "expire" => guard # None)
  BY DEF FailTest
<1>3. l \in InLock \ {"assign", "received", "savecerts", "save", "write"} /\ l # "create" /\ l # "forget"
  BY DEF InLock
<1> QED BY <1>1, <1>2, <1>3, GoesSafe

LEMMA ExpireSafe ==
  ASSUME Safe, NEW u \in Threads, Expire(u) PROVE Safe'
<1>1. /\ UNCHANGED <<guard, circuit, open, orphans, now, jobs, lock, certs>>
      /\ th[u].pc = "expire" /\ th[u].pc \in InLock /\ ttl' = "expired" /\ To(u, "raised")
  BY DEF Expire, At, counters, store, InLock
<1>2. PICK r : Moves(u, r) /\ PlacedAt(u, r) /\ r.pc = "raised" /\ Same(u, r)
  BY <1>1, ToPlaced DEF Safe, InLock
<1>3. Guarded'
  BY <1>1, <1>2 DEF Safe, Guarded, Moves, Same
<1>4. AllRenew => /\ guard' # None /\ r.mine \in {None, guard'}
                  /\ open' \subseteq {guard', r.mine} \union orphans'
  <2>1. AllRenew => /\ guard # None /\ th[u].mine \in {None, guard}
                    /\ open \subseteq {guard, th[u].mine} \union orphans
    BY <1>1, OpenAlone DEF Safe, Kept
  <2> QED BY <1>1, <1>2, <2>1 DEF Same
<1> QED BY <1>1, <1>2, <1>3, <1>4, GuardsMove DEF InLock

(* A thread between its attempts, or at the end of its call. *)
LEMMA RaisedSafe ==
  ASSUME Safe, NEW u \in Threads, Raised(u) PROVE Safe'
<1>1. /\ UNCHANGED <<guard, circuit, ttl, open, orphans, now, jobs, certs>>
      /\ th[u].pc = "raised" /\ th[u].pc \in InLock
  BY DEF Raised, At, counters, store, shared, InLock
<1>2. ASSUME NEW r, Moves(u, r), PlacedAt(u, r), Passes(u, r), r.mine = None,
             r.pc \in {"idle", "lock", "ttl", "gaveup"}
      PROVE  Safe'
  <2>1. Records' /\ Placed' /\ Locked' /\ lock' \in Threads \union {None}
    BY <1>1, <1>2, Onward
  <2>2. Verified'
    <3>1. VerifiedAt(r, certs')
      BY <1>2 DEF VerifiedAt
    <3> QED BY <1>1, <1>2, <3>1, VerifiedMove
  <2>3. Guarded' /\ Kept'
    BY <1>1, <1>2, <2>1, GuardsSame
  <2> QED BY <2>1, <2>2, <2>3 DEF Safe
<1>3. ASSUME th[u].inner + 1 < CertsTries, lock' = lock,
             th' = [th EXCEPT ![u].pc = "ttl", ![u].inner = @ + 1, ![u].mine = None]
      PROVE  Safe'
  <2> DEFINE r == [th[u] EXCEPT !.pc = "ttl", !.inner = @ + 1, !.mine = None]
  <2>1. /\ DOMAIN r = Fields /\ r.pc = "ttl" /\ r.mine = None /\ r.want = th[u].want
        /\ r.tries = th[u].tries /\ r.inner = th[u].inner + 1
    BY DEF Safe, Records, Fields
  <2>2. th' = [th EXCEPT ![u] = r]
    BY <1>3 DEF Safe, Records, Fields
  <2> HIDE DEF r
  <2>3. Moves(u, r)
    BY <2>1, <2>2, SetMoves DEF Safe
  <2>4. PlacedAt(u, r)
    BY <1>1, <1>3, <2>1 DEF Safe, Placed, PlacedAt, InLock
  <2>5. Passes(u, r)
    BY <1>1, <1>3, <2>1 DEF Passes, InLock
  <2> QED BY <1>2, <2>1, <2>3, <2>4, <2>5
<1>4. ASSUME lock' = IF lock = u THEN None ELSE lock, NEW r, DOMAIN r = Fields, r.mine = None,
             r.pc \in {"lock", "ttl", "gaveup"}, PlacedAt(u, r),
             r.pc = "ttl" => jobs[u] # "renew",
             th' = [th EXCEPT ![u] = r]
      PROVE  Safe'
  <2>1. Moves(u, r)
    BY <1>4, SetMoves DEF Safe
  <2>2. lock = u <=> jobs[u] = "renew"
    BY <1>1 DEF Safe, Locked
  <2>3. Passes(u, r)
    BY <1>4, <2>2 DEF Passes, InLock
  <2> QED BY <1>2, <1>4, <2>1, <2>3
<1>5. ASSUME lock' = IF lock = u THEN None ELSE lock, th[u].tries + 1 < RenewTries,
             th' = [th EXCEPT ![u] =
                      [Start EXCEPT !.pc = IF jobs[u] = "renew" THEN "lock" ELSE "ttl",
                                    !.want = jobs[u], !.tries = th[u].tries + 1]]
      PROVE  Safe'
  <2> DEFINE l == IF jobs[u] = "renew" THEN "lock" ELSE "ttl"
             r == [Start EXCEPT !.pc = l, !.want = jobs[u], !.tries = th[u].tries + 1]
  <2>1. /\ DOMAIN r = Fields /\ r.pc = l /\ r.want = jobs[u] /\ r.tries = th[u].tries + 1
        /\ r.inner = 0 /\ r.mine = None
    BY DEF Start, Fields
  <2>2. th' = [th EXCEPT ![u] = r]
    BY <1>5
  <2> HIDE DEF r
  <2>3. PlacedAt(u, r)
    BY <1>5, <2>1, ConsensusAssumption DEF Safe, Placed, PlacedAt, InLock
  <2> QED BY <1>4, <1>5, <2>1, <2>2, <2>3
<1>6. ASSUME lock' = IF lock = u THEN None ELSE lock,
             th' = [th EXCEPT ![u] = [Start EXCEPT !.pc = "gaveup"]]
      PROVE  Safe'
  <2> DEFINE r == [Start EXCEPT !.pc = "gaveup"]
  <2>1. /\ DOMAIN r = Fields /\ r.pc = "gaveup" /\ r.want = None /\ r.tries = 0
        /\ r.inner = 0 /\ r.mine = None
    BY DEF Start, Fields
  <2>2. th' = [th EXCEPT ![u] = r]
    BY <1>6
  <2> HIDE DEF r
  <2>3. PlacedAt(u, r)
    BY <2>1, ConsensusAssumption DEF Safe, Placed, PlacedAt, InLock
  <2> QED BY <1>4, <1>6, <2>1, <2>2, <2>3
<1>7. CASE th[u].want = "certs" /\ th[u].inner + 1 < CertsTries
  BY <1>3, <1>7 DEF Raised
<1>8. CASE ~(th[u].want = "certs" /\ th[u].inner + 1 < CertsTries)
  <2>1. CASE th[u].tries + 1 < RenewTries
    BY <1>5, <1>8, <2>1 DEF Raised
  <2>2. CASE ~(th[u].tries + 1 < RenewTries)
    BY <1>6, <1>8, <2>2 DEF Raised
  <2> QED BY <2>1, <2>2
<1> QED BY <1>7, <1>8

LEMMA GiveUpSafe ==
  ASSUME Safe, NEW u \in Threads, GiveUp(u) PROVE Safe'
<1> DEFINE r == [th[u] EXCEPT !.pc = "idle"]
<1>1. /\ UNCHANGED <<guard, circuit, ttl, open, orphans, now, jobs, lock, certs>>
      /\ th[u].pc = "gaveup" /\ To(u, "idle")
  BY DEF GiveUp, At, counters, store, shared
<1>2. Moves(u, r) /\ r.pc = "idle" /\ Same(u, r)
  BY <1>1, ToMoves, PcIs DEF Safe
<1> HIDE DEF r
<1>3. PlacedAt(u, r)
  BY <1>1, <1>2 DEF Safe, Placed, PlacedAt, Same, InLock
<1>4. Passes(u, r)
  BY <1>1, <1>2 DEF Passes, InLock
<1>5. Records' /\ Placed' /\ Locked' /\ lock' \in Threads \union {None}
  BY <1>1, <1>2, <1>3, <1>4, Onward
<1>6. Verified'
  <2>1. VerifiedAt(r, certs')
    BY <1>2 DEF VerifiedAt
  <2> QED BY <1>1, <1>2, <2>1, VerifiedMove
<1>7. Guarded' /\ Kept'
  <2>1. AllRenew => th[u].mine = None
    BY <1>1 DEF Safe, Kept
  <2> QED BY <1>1, <1>2, <1>5, <2>1, GuardsSame DEF Same
<1> QED BY <1>5, <1>6, <1>7 DEF Safe

(* What the thread in renew does with an answer, or after it. *)
LEMMA RenewsSafe ==
  ASSUME Safe, NEW u \in Threads, NEW r, jobs[u] = "renew",
         th[u].pc \in {"received", "savecerts", "save", "write"},
         UNCHANGED <<guard, circuit, ttl, open, orphans, now, jobs>>,
         DOMAIN r = Fields, r.mine \in {None, th[u].mine}, th' = [th EXCEPT ![u] = r],
         r.pc \in {"raised", "ttl", "savecerts", "save", "write", "idle"}, PlacedAt(u, r),
         VerifiedAt(r, certs'),
         lock' = IF r.pc = "idle" THEN None ELSE lock
  PROVE  Safe'
<1>1. Moves(u, r) /\ th[u].pc \in InLock
  BY SetMoves DEF Safe, InLock
<1>2. Passes(u, r)
  <2>1. lock = u
    BY <1>1 DEF Safe, Locked
  <2> QED BY <1>1, <2>1 DEF Passes, InLock
<1>3. Records' /\ Placed' /\ Locked' /\ lock' \in Threads \union {None}
  BY <1>1, <1>2, Onward
<1>4. Verified'
  BY <1>1, VerifiedMove
<1>5. Guarded' /\ Kept'
  <2>1. AllRenew => th[u].mine = None
    BY DEF Safe, Kept
  <2> QED BY <1>1, <1>3, <2>1, GuardsSame
<1> QED BY <1>3, <1>4, <1>5 DEF Safe

LEMMA ReceiveSafe ==
  ASSUME Safe, NEW u \in Threads, Receive(u) PROVE Safe'
<1>1. /\ UNCHANGED <<guard, circuit, ttl, open, orphans, now, jobs, lock, certs>>
      /\ th[u].pc = "received" /\ jobs[u] = "renew"
  BY DEF Receive, At, counters, store, shared, Safe, Placed, PlacedAt
<1>2. CASE To(u, "raised")
  <2>1. AllRenew => th[u].mine = None
    BY <1>1 DEF Safe, Kept
  <2> QED BY <1>1, <1>2, <2>1, GoesSafe DEF InLock
<1>3. ASSUME NEW new, NEW v \in {Verify(new, certs)},
             th' = [th EXCEPT ![u].new = new, ![u].answer = None,
                      ![u].want = IF v.raises \/ v.ok THEN "renew" ELSE "certs",
                      ![u].pc = IF v.raises THEN "raised" ELSE IF v.ok THEN "save" ELSE "ttl"]
      PROVE  Safe'
  <2> DEFINE w == IF v.raises \/ v.ok THEN "renew" ELSE "certs"
             l == IF v.raises THEN "raised" ELSE IF v.ok THEN "save" ELSE "ttl"
             r == [th[u] EXCEPT !.new = new, !.answer = None, !.want = w, !.pc = l]
  <2>1. /\ DOMAIN r = Fields /\ r.pc = l /\ r.mine = th[u].mine /\ r.want = w
        /\ r.tries = th[u].tries /\ r.inner = th[u].inner /\ r.new = new
    BY DEF Safe, Records, Fields
  <2>2. th' = [th EXCEPT ![u] = r]
    BY <1>3 DEF Safe, Records, Fields
  <2>3. l \in {"raised", "save", "ttl"} /\ (l = "save" => v.ok)
    OBVIOUS
  <2>4. w \in {"renew", "certs"}
    OBVIOUS
  <2> HIDE DEF r, l, w
  <2>5. PlacedAt(u, r)
    BY <1>1, <2>1, <2>3, <2>4 DEF Safe, Placed, PlacedAt, InLock
  <2>6. VerifiedAt(r, certs')
    BY <1>1, <1>3, <2>1, <2>3 DEF VerifiedAt
  <2>7. lock' = IF r.pc = "idle" THEN None ELSE lock
    BY <1>1, <2>1, <2>3
  <2> QED BY <1>1, <2>1, <2>2, <2>3, <2>5, <2>6, <2>7, RenewsSafe
<1>4. PICK new :
        IF new = Invalid \/ new.fields = Invalid THEN To(u, "raised")
        ELSE \E v \in {Verify(new, certs)} :
               th' = [th EXCEPT ![u].new = new, ![u].answer = None,
                        ![u].want = IF v.raises \/ v.ok THEN "renew" ELSE "certs",
                        ![u].pc = IF v.raises THEN "raised" ELSE IF v.ok THEN "save" ELSE "ttl"]
  BY DEF Receive
<1>5. CASE new = Invalid \/ new.fields = Invalid
  BY <1>2, <1>4, <1>5
<1>6. CASE ~(new = Invalid \/ new.fields = Invalid)
  <2>1. PICK v \in {Verify(new, certs)} :
          th' = [th EXCEPT ![u].new = new, ![u].answer = None,
                   ![u].want = IF v.raises \/ v.ok THEN "renew" ELSE "certs",
                   ![u].pc = IF v.raises THEN "raised" ELSE IF v.ok THEN "save" ELSE "ttl"]
    BY <1>4, <1>6
  <2> QED BY <1>3, <2>1
<1> QED BY <1>5, <1>6

LEMMA ReceiveCertsSafe ==
  ASSUME Safe, NEW u \in Threads, ReceiveCerts(u) PROVE Safe'
<1>1. /\ UNCHANGED <<guard, circuit, ttl, open, orphans, now, jobs, lock>>
      /\ th[u].pc = "received" /\ jobs[u] = "renew"
      /\ th' = [th EXCEPT ![u].pc = "savecerts", ![u].answer = None]
  BY DEF ReceiveCerts, At, counters, shared, Safe, Placed, PlacedAt
<1> DEFINE r == [th[u] EXCEPT !.pc = "savecerts", !.answer = None]
<1>2. /\ DOMAIN r = Fields /\ r.pc = "savecerts" /\ r.mine = th[u].mine
      /\ r.want = th[u].want /\ r.tries = th[u].tries /\ r.inner = th[u].inner
  BY DEF Safe, Records, Fields
<1>3. th' = [th EXCEPT ![u] = r]
  BY <1>1 DEF Safe, Records, Fields
<1> HIDE DEF r
<1>4. PlacedAt(u, r)
  BY <1>1, <1>2 DEF Safe, Placed, PlacedAt, InLock
<1>5. VerifiedAt(r, certs') /\ lock' = IF r.pc = "idle" THEN None ELSE lock
  BY <1>1, <1>2 DEF VerifiedAt
<1> QED BY <1>1, <1>2, <1>3, <1>4, <1>5, RenewsSafe

LEMMA WriteCertsSafe ==
  ASSUME Safe, NEW u \in Threads, WriteCerts(u) PROVE Safe'
<1>1. /\ UNCHANGED <<guard, circuit, ttl, open, orphans, now, jobs, lock, certs>>
      /\ th[u].pc = "savecerts" /\ jobs[u] = "renew"
  BY DEF WriteCerts, At, counters, shared, Safe, Placed, PlacedAt
<1>2. PICK v \in {Verify(th[u].new, certs)} :
        th' = [th EXCEPT ![u].want = "renew", ![u].inner = 0,
                         ![u].pc = IF v.ok THEN "save" ELSE "raised"]
  BY DEF WriteCerts
<1> DEFINE l == IF v.ok THEN "save" ELSE "raised"
           r == [th[u] EXCEPT !.want = "renew", !.inner = 0, !.pc = l]
<1>3. /\ DOMAIN r = Fields /\ r.pc = l /\ r.mine = th[u].mine /\ r.want = "renew"
      /\ r.tries = th[u].tries /\ r.inner = 0 /\ r.new = th[u].new
  BY DEF Safe, Records, Fields
<1>4. th' = [th EXCEPT ![u] = r]
  BY <1>2 DEF Safe, Records, Fields
<1>5. l \in {"raised", "save"} /\ (l = "save" => v.ok)
  OBVIOUS
<1> HIDE DEF r, l
<1>6. PlacedAt(u, r)
  BY <1>1, <1>3, <1>5, ConsensusAssumption DEF Safe, Placed, PlacedAt, InLock
<1>7. VerifiedAt(r, certs')
  BY <1>1, <1>2, <1>3, <1>5 DEF VerifiedAt
<1>8. lock' = IF r.pc = "idle" THEN None ELSE lock
  BY <1>1, <1>3, <1>5
<1> QED BY <1>1, <1>3, <1>4, <1>5, <1>6, <1>7, <1>8, RenewsSafe

LEMMA SaveSafe ==
  ASSUME Safe, NEW u \in Threads, Save(u) PROVE Safe'
<1> DEFINE r == [th[u] EXCEPT !.pc = "write"]
<1>1. /\ UNCHANGED <<guard, circuit, ttl, open, orphans, now, jobs, lock, certs>>
      /\ th[u].pc = "save" /\ jobs[u] = "renew" /\ To(u, "write")
  BY DEF Save, At, counters, shared, Safe, Placed, PlacedAt
<1>2. DOMAIN r = Fields /\ r.pc = "write" /\ Same(u, r) /\ th' = [th EXCEPT ![u] = r]
  BY <1>1 DEF Safe, Records, Fields, Same, To
<1> HIDE DEF r
<1>3. PlacedAt(u, r)
  BY <1>1, <1>2 DEF Safe, Placed, PlacedAt, Same, InLock
<1>4. VerifiedAt(r, certs')
  BY <1>2 DEF VerifiedAt
<1> QED BY <1>1, <1>2, <1>3, <1>4, RenewsSafe DEF Same

LEMMA WriteSafe ==
  ASSUME Safe, NEW u \in Threads, Write(u) PROVE Safe'
<1>1. /\ UNCHANGED <<guard, circuit, ttl, open, orphans, now, jobs, certs>>
      /\ th[u].pc = "write" /\ jobs[u] = "renew"
      /\ lock' = None /\ th' = [th EXCEPT ![u] = Start]
  BY DEF Write, At, counters, shared, Safe, Placed, PlacedAt
<1>2. PlacedAt(u, Start) /\ VerifiedAt(Start, certs')
  BY StartIs, ConsensusAssumption DEF PlacedAt, VerifiedAt, InLock
<1> QED BY <1>1, <1>2, StartIs, RenewsSafe

(* All threads at the start, with nobody's lock and no guard. *)
LEMMA StartSafe ==
  ASSUME now \in 0..MaxHour, \A u \in Threads : jobs[u] \in {"renew", "descriptor"},
         lock = None, guard = None, circuit = None, ttl = None, open = {}, orphans = {},
         th = [u \in Threads |-> Start]
  PROVE  Safe
<1>1. Records /\ Verified
  BY StartIs DEF Records, Verified, VerifiedAt
<1>2. Placed
  BY StartIs, ConsensusAssumption DEF Placed, PlacedAt, InLock
<1>3. Locked
  BY StartIs, ConsensusAssumption DEF Locked, InLock
<1>4. Guarded /\ Kept
  BY StartIs DEF Guarded, Kept
<1> QED BY <1>1, <1>2, <1>3, <1>4 DEF Safe

LEMMA RestartSafe ==
  ASSUME Safe, Restart PROVE Safe'
<1>1. /\ UNCHANGED <<now, jobs>> /\ lock' = None /\ guard' = None /\ circuit' = None
      /\ ttl' = None /\ open' = {} /\ orphans' = {}
      /\ th' = [u \in Threads |-> Start]
  BY DEF Restart
<1>2. now' \in 0..MaxHour /\ \A u \in Threads : jobs'[u] \in {"renew", "descriptor"}
  BY <1>1 DEF Safe, Guarded, Placed
<1>3. Records' /\ Verified'
  BY <1>1, StartIs DEF Records, Verified, VerifiedAt
<1>4. Placed'
  BY <1>1, <1>2, StartIs, ConsensusAssumption DEF Placed, PlacedAt, InLock
<1>5. Locked'
  BY <1>1, StartIs, ConsensusAssumption DEF Locked, InLock
<1>6. Guarded' /\ Kept'
  BY <1>1, <1>2, StartIs DEF Guarded, Kept
<1> QED BY <1>3, <1>4, <1>5, <1>6 DEF Safe

LEMMA HourSafe ==
  ASSUME Safe, Hour PROVE Safe'
<1>1. /\ now' \in 0..MaxHour /\ ttl' \in {None, "fresh", "expired"}
      /\ (ttl' # None => ttl # None)
      /\ UNCHANGED <<certs, guard, circuit, open, orphans, lock, jobs, th>>
  <2>1. now \in 0..MaxHour /\ ttl \in {None, "fresh", "expired"}
    BY DEF Safe, Guarded
  <2> QED BY <2>1, ConsensusAssumption DEF Hour, store
<1>2. Records' /\ Placed' /\ Locked'
  BY <1>1 DEF Safe, Records, Placed, PlacedAt, Locked
<1>3. Verified'
  <2>1. \A u \in Threads : VerifiedAt(th'[u], certs')
    BY <1>1 DEF Safe, Verified
  <2> QED BY <2>1 DEF Verified, VerifiedAt, Verify, FindSignature, PublicKey
<1>4. Guarded' /\ Kept'
  BY <1>1 DEF Safe, Guarded, Kept, AllRenew
<1> QED BY <1>2, <1>3, <1>4 DEF Safe

LEMMA BreakSafe ==
  ASSUME Safe, Break PROVE Safe'
<1>1. UNCHANGED <<now, certs, guard, circuit, ttl, open, orphans, lock, jobs, th>>
  BY DEF Break, counters, store
<1>2. Records' /\ Placed' /\ Locked'
  BY <1>1 DEF Safe, Records, Placed, PlacedAt, Locked
<1>3. Verified'
  <2>1. \A u \in Threads : VerifiedAt(th'[u], certs')
    BY <1>1 DEF Safe, Verified
  <2> QED BY <2>1 DEF Verified, VerifiedAt, Verify, FindSignature, PublicKey
<1>4. Guarded' /\ Kept'
  BY <1>1 DEF Safe, Guarded, Kept, AllRenew
<1> QED BY <1>2, <1>3, <1>4 DEF Safe

LEMMA StutterSafe ==
  ASSUME Safe, UNCHANGED vars PROVE Safe'
<1>1. UNCHANGED <<now, certs, guard, circuit, ttl, open, orphans, lock, jobs, th>>
  BY DEF vars
<1>2. Records' /\ Placed' /\ Locked'
  BY <1>1 DEF Safe, Records, Placed, PlacedAt, Locked
<1>3. Verified'
  <2>1. \A u \in Threads : VerifiedAt(th'[u], certs')
    BY <1>1 DEF Safe, Verified
  <2> QED BY <2>1 DEF Verified, VerifiedAt, Verify, FindSignature, PublicKey
<1>4. Guarded' /\ Kept'
  BY <1>1 DEF Safe, Guarded, Kept, AllRenew
<1> QED BY <1>2, <1>3, <1>4 DEF Safe

-----------------------------------------------------------------------------
(***************************************************************************)
(* The theorems.                                                            *)
(***************************************************************************)

LEMMA SafeKept ==
  ASSUME Safe, [Next]_vars PROVE Safe'
<1>1. ASSUME NEW u \in Threads, Step(u) PROVE Safe'
  BY <1>1, LockSafe, CheckTtlSafe, ForgetSafe, LookSafe, CreateSafe, AssignSafe, UseSafe,
     AskSafe, FailTestSafe, ExpireSafe, RaisedSafe, GiveUpSafe, ReceiveSafe, ReceiveCertsSafe,
     WriteCertsSafe, SaveSafe, WriteSafe
     DEF Step
<1> QED BY <1>1, CallSafe, RestartSafe, BreakSafe, HourSafe, StutterSafe DEF Next

Counted == crashes \in Nat

LEMMA CrashesCount == Spec => []Counted
<1>1. Init => Counted
  BY DEF Init, Counted
<1>2. Counted /\ [Next]_vars => Counted'
  <2> SUFFICES ASSUME crashes \in Nat, [Next]_vars PROVE crashes' \in Nat
    BY DEF Counted
  <2>1. CASE UNCHANGED vars
    BY <2>1 DEF vars
  <2>2. CASE Restart
    BY <2>2 DEF Restart
  <2>3. CASE Hour \/ Break
    BY <2>3 DEF Hour, Break, counters
  <2>4. ASSUME NEW u \in Threads, Call(u) \/ Step(u) PROVE crashes' \in Nat
    BY <2>4 DEF Call, Step, Lock, CheckTtl, Forget, Look, Create, Assign, Use, Ask, FailTest,
       Expire, Raised, GiveUp, Receive, ReceiveCerts, WriteCerts, Save, Write, counters
  <2> QED BY <2>1, <2>2, <2>3, <2>4 DEF Next
<1> QED BY <1>1, <1>2, PTL DEF Spec

LEMMA AlwaysSafe == Spec => []Safe
<1>1. Init => Safe
  <2> SUFFICES ASSUME Init PROVE Safe
    OBVIOUS
  <2>1. now \in 0..MaxHour /\ \A u \in Threads : jobs[u] \in {"renew", "descriptor"}
    BY ConsensusAssumption DEF Init
  <2> QED BY <2>1, StartSafe DEF Init
<1>2. Safe /\ [Next]_vars => Safe'
  BY SafeKept
<1> QED BY <1>1, <1>2, PTL DEF Spec

(***************************************************************************)
(* Whatever threads renew and fetch, fail and restart, the directory        *)
(* client's variables keep their types: the circuit is always the guard's,  *)
(* a guard that create_circuit left is never closed, and @retry makes no    *)
(* more attempts than it may (TorConsensus, _get_dir_client, retry).        *)
(***************************************************************************)
THEOREM TypeCorrect == Spec => []TypeOK
<1>1. Safe => TypeOK
  BY DEF Safe, Guarded, Placed, PlacedAt, TypeOK
<1> QED BY <1>1, AlwaysSafe, PTL

(***************************************************************************)
(* With every request under _lock, the time of the directory guard is never *)
(* set without a guard, and no connection to a guard is lost but those of   *)
(* a create_circuit that failed (renew, _get_dir_client,                    *)
(* expire_dir_guard_on_error).                                              *)
(***************************************************************************)
THEOREM GuardKeptUnderLock == Spec => []DirGuardKept
<1>1. Safe => DirGuardKept
  BY DEF Safe, Kept, DirGuardKept
<1> QED BY <1>1, AlwaysSafe, PTL

(***************************************************************************)
(* A document is in use only after verify accepted it with the very         *)
(* certificates that are kept at that moment, whatever other threads do     *)
(* between the two, and nobody but renew and a restart replaces it.         *)
(***************************************************************************)
THEOREM VerifiedBeforeUse == Spec => VerifiedFirst
<1>1. ASSUME Safe, Counted, [Next]_vars, document' # document, crashes' = crashes
      PROVE  Verify(document', certs).ok
  <2>1. ~Restart
    BY <1>1 DEF Restart, Counted
  <2>2. PICK u \in Threads : Call(u) \/ Step(u)
    BY <1>1, <2>1 DEF Next, Hour, Break, store, vars
  <2>3. Save(u)
    BY <1>1, <2>2 DEF Call, Step, Lock, CheckTtl, Forget, Look, Create, Assign, Use, Ask, FailTest,
       Expire, Raised, GiveUp, Receive, ReceiveCerts, WriteCerts, Write, store
  <2>4. th[u].pc = "save" /\ document' = th[u].new
    BY <2>3 DEF Save, At
  <2> QED BY <1>1, <2>4 DEF Safe, Verified, VerifiedAt
<1>2. Safe /\ Counted /\ [Next]_vars => [document' # document /\ crashes' = crashes
                                => Verify(document', certs).ok]_vars
  BY <1>1
<1> QED BY <1>2, AlwaysSafe, CrashesCount, PTL DEF VerifiedFirst, Spec

-----------------------------------------------------------------------------
(***************************************************************************)
(* What is read from a text.  The lines are read one after the other by a   *)
(* recursive function; that it exists, and what holds after each line, is   *)
(* shown for the least number of lines for which it would not.              *)
(***************************************************************************)

(* What there is at all among the natural numbers there is a least of. *)
LEMMA LeastOf ==
  ASSUME NEW T, T \subseteq Nat, T # {}
  PROVE  \E x \in T : \A y \in T : x <= y
<1> DEFINE R == StrictSubsetOrdering(Nat)
           initial == {0..x : x \in T}
<1>1. initial \subseteq FiniteSubsetsOf(Nat) /\ initial # {}
  <2>1. ASSUME NEW x \in T PROVE 0..x \in SUBSET Nat /\ IsFiniteSet(0..x)
    BY FS_Interval
  <2> QED BY <2>1 DEF FiniteSubsetsOf
<1>2. IsWellFoundedOn(R, FiniteSubsetsOf(Nat))
  BY FS_StrictSubsetOrderingWellFounded
<1> HIDE DEF R
<1>3. \E I \in initial : \A J \in initial : <<J, I>> \notin R
  BY <1>1, <1>2, WFMin
<1>4. PICK x \in T : \A y \in T : <<0..y, 0..x>> \notin R
  BY <1>3
<1>5. ASSUME NEW y \in T, ~(x <= y) PROVE FALSE
  <2>1. 0..y \subseteq 0..x /\ x \in 0..x /\ x \notin 0..y
    BY <1>5
  <2>2. <<0..y, 0..x>> \in R
    BY <2>1 DEF R, StrictSubsetOrdering
  <2> QED BY <1>4, <2>2
<1> QED BY <1>5

(* Put sets one field and leaves the others. *)
LEMMA PutIs ==
  ASSUME NEW f, NEW k, NEW v
  PROVE  /\ DOMAIN Put(f, k, v) = {k} \union DOMAIN f
         /\ Put(f, k, v)[k] = v
         /\ \A x \in DOMAIN f : x # k => Put(f, k, v)[x] = f[x]
BY DEF Put

(* The members of a set in a row, each once. *)
LEMMA Ordered ==
  ASSUME NEW S, IsFiniteSet(S)
  PROVE  /\ SetToSeq(S) \in [1..Cardinality(S) -> S]
         /\ \A m, n \in 1..Cardinality(S) : SetToSeq(S)[m] = SetToSeq(S)[n] => m = n
<1>1. \E f \in [1..Cardinality(S) -> S] : IsInjective(f)
  BY FS_CardinalityType DEF ExistsBijection, Bijection, Injection
<1>2. SetToSeq(S) \in [1..Cardinality(S) -> S] /\ IsInjective(SetToSeq(S))
  BY <1>1 DEF SetToSeq
<1> QED BY <1>2 DEF IsInjective

-----------------------------------------------------------------------------
(* What the lines of a text that could be signatures or voters hold. *)
Signed(text, S) ==
  \A i \in 1..Len(text) : text[i][1] = "directory-signature" =>
    \E a \in S : text[i][2] = [identity |-> a]

Sourced(text) ==
  \A i, j \in 1..Len(text) :
    text[i][1] = "dir-source" /\ text[j][1] = "dir-source" /\ i # j =>
      text[i][2].fingerprint # text[j][2].fingerprint

(* What was read from the first n lines of it. *)
SignsOf(S, fields) ==
  "signatures" \in DOMAIN fields =>
    \E X : fields["signatures"] \in Seq(X) /\ \A x \in X : \E a \in S : x.args = [identity |-> a]

(* Voters, each from a line of its own. *)
VotersOf(text, n, fields) ==
  "voters" \in DOMAIN fields =>
    \E X : /\ fields["voters"] \in Seq(X)
           /\ \A k \in 1..Len(fields["voters"]) :
                /\ "dir-source" \in DOMAIN fields["voters"][k]
                /\ \E p \in 1..n : /\ text[p][1] = "dir-source"
                                   /\ fields["voters"][k]["dir-source"] = text[p][2]
           /\ \A k, m \in 1..Len(fields["voters"]) : k # m =>
                fields["voters"][k]["dir-source"].fingerprint
                  # fields["voters"][m]["dir-source"].fingerprint

(* A field that is not there is an empty list. *)
LEMMA FieldIs ==
  ASSUME NEW f, NEW name
  PROVE  Field(f, name) = IF name \in DOMAIN f THEN f[name] ELSE <<>>
BY DEF Field

(* One more signature of an authority that signed. *)
LEMMA AddSigns ==
  ASSUME NEW S, NEW f, SignsOf(S, f), NEW v, NEW a \in S, v.args = [identity |-> a]
  PROVE  SignsOf(S, AddTo(f, "signatures", v))
<1>1. PICK X : /\ Field(f, "signatures") \in Seq(X)
               /\ \A x \in X : \E b \in S : x.args = [identity |-> b]
  <2>1. CASE "signatures" \in DOMAIN f
    BY <2>1 DEF SignsOf, Field
  <2>2. CASE "signatures" \notin DOMAIN f
    <3>1. Field(f, "signatures") \in Seq({})
      BY <2>2 DEF Field
    <3> QED BY <3>1
  <2> QED BY <2>1, <2>2
<1> DEFINE Y == X \union {v}
<1>2. Field(f, "signatures") \in Seq(Y) /\ v \in Y
  BY <1>1
<1>3. Append(Field(f, "signatures"), v) \in Seq(Y)
  BY <1>2
<1>4. \A y \in Y : \E b \in S : y.args = [identity |-> b]
  BY <1>1
<1>5. AddTo(f, "signatures", v)["signatures"] = Append(Field(f, "signatures"), v)
  BY DEF AddTo, Put
<1> HIDE DEF Y
<1> QED BY <1>3, <1>4, <1>5 DEF SignsOf

(* A field of another name is left as it was. *)
LEMMA OthersKept ==
  ASSUME NEW S, NEW text, NEW n, NEW f, NEW k, NEW v
  PROVE  /\ k # "signatures" /\ SignsOf(S, f) => SignsOf(S, Put(f, k, v))
         /\ k # "voters" /\ VotersOf(text, n, f) => VotersOf(text, n, Put(f, k, v))
<1>1. \A x : x # k => /\ (x \in DOMAIN Put(f, k, v) <=> x \in DOMAIN f)
                      /\ (x \in DOMAIN f => Put(f, k, v)[x] = f[x])
  BY DEF Put
<1>2. ASSUME k # "signatures", SignsOf(S, f) PROVE SignsOf(S, Put(f, k, v))
  BY <1>1, <1>2 DEF SignsOf
<1>3. ASSUME k # "voters", VotersOf(text, n, f) PROVE VotersOf(text, n, Put(f, k, v))
  <2>1. CASE "voters" \in DOMAIN f
    <3>1. Put(f, k, v)["voters"] = f["voters"]
      BY <1>1, <1>3, <2>1
    <3> QED BY <1>3, <2>1, <3>1 DEF VotersOf
  <2>2. CASE "voters" \notin DOMAIN f
    BY <1>1, <1>3, <2>2 DEF VotersOf
  <2> QED BY <2>1, <2>2
<1> QED BY <1>2, <1>3

(* What was read from some lines was read from one more. *)
LEMMA VotersLater ==
  ASSUME NEW text, NEW n \in Nat, NEW f, VotersOf(text, n, f)
  PROVE  VotersOf(text, n + 1, f)
<1>1. CASE "voters" \in DOMAIN f
  <2>1. \A p \in 1..n : p \in 1..(n + 1)
    OBVIOUS
  <2> QED BY <1>1, <2>1 DEF VotersOf
<1>2. CASE "voters" \notin DOMAIN f
  BY <1>2 DEF VotersOf
<1> QED BY <1>1, <1>2

(* A line that begins a voter adds one of another fingerprint. *)
LEMMA AddVoter ==
  ASSUME NEW text, Sourced(text), Len(text) \in Nat, NEW n \in Nat, n + 1 \in 1..Len(text),
         NEW f, VotersOf(text, n, f), text[n + 1][1] = "dir-source",
         NEW v, DOMAIN v = {"dir-source"}, v["dir-source"] = text[n + 1][2]
  PROVE  VotersOf(text, n + 1, AddTo(f, "voters", v))
<1> DEFINE old == Field(f, "voters")
           new == Append(old, v)
<1>1. \E X : old \in Seq(X)
  <2>1. CASE "voters" \in DOMAIN f
    BY <2>1 DEF VotersOf, Field
  <2>2. CASE "voters" \notin DOMAIN f
    <3>1. old \in Seq({})
      BY <2>2 DEF Field
    <3> QED BY <3>1
  <2> QED BY <2>1, <2>2
<1>2. PICK X : old \in Seq(X)
  BY <1>1
<1>3. \A k \in 1..Len(old) :
         /\ "dir-source" \in DOMAIN old[k]
         /\ \E p \in 1..n : text[p][1] = "dir-source" /\ old[k]["dir-source"] = text[p][2]
  <2>1. CASE "voters" \in DOMAIN f
    BY <2>1 DEF VotersOf, Field
  <2>2. CASE "voters" \notin DOMAIN f
    <3>1. old = <<>>
      BY <2>2 DEF Field
    <3> QED BY <3>1
  <2> QED BY <2>1, <2>2
<1>4. \A k, m \in 1..Len(old) : k # m =>
         old[k]["dir-source"].fingerprint # old[m]["dir-source"].fingerprint
  <2>1. CASE "voters" \in DOMAIN f
    BY <2>1 DEF VotersOf, Field
  <2>2. CASE "voters" \notin DOMAIN f
    <3>1. old = <<>>
      BY <2>2 DEF Field
    <3> QED BY <3>1
  <2> QED BY <2>1, <2>2
<1> HIDE DEF old
<1>5. /\ new \in Seq(X \union {v}) /\ Len(old) \in Nat /\ Len(new) = Len(old) + 1
      /\ \A k \in 1..Len(old) : new[k] = old[k]
      /\ new[Len(old) + 1] = v
  <2>1. old \in Seq(X \union {v})
    BY <1>2
  <2> QED BY <2>1
<1> HIDE DEF new
<1>6. \A k \in 1..Len(new) : k \in 1..Len(old) \/ k = Len(old) + 1
  BY <1>5
<1>7. ASSUME NEW k \in 1..Len(new)
      PROVE  /\ "dir-source" \in DOMAIN new[k]
             /\ \E p \in 1..(n + 1) : text[p][1] = "dir-source" /\ new[k]["dir-source"] = text[p][2]
  <2>1. CASE k \in 1..Len(old)
    <3>1. PICK p \in 1..n : text[p][1] = "dir-source" /\ old[k]["dir-source"] = text[p][2]
      BY <1>3, <2>1
    <3>2. p \in 1..(n + 1)
      OBVIOUS
    <3> QED BY <1>3, <1>5, <2>1, <3>1, <3>2
  <2>2. CASE k = Len(old) + 1
    <3>1. n + 1 \in 1..(n + 1)
      OBVIOUS
    <3> QED BY <1>5, <2>2, <3>1
  <2> QED BY <1>6, <2>1, <2>2
<1>8. ASSUME NEW k \in 1..Len(old)
      PROVE  old[k]["dir-source"].fingerprint # v["dir-source"].fingerprint
  <2>1. PICK p \in 1..n : text[p][1] = "dir-source" /\ old[k]["dir-source"] = text[p][2]
    BY <1>3
  <2>2. p \in 1..Len(text) /\ p # n + 1
    OBVIOUS
  <2> QED BY <2>1, <2>2 DEF Sourced
<1>9. ASSUME NEW k \in 1..Len(new), NEW m \in 1..Len(new), k # m
      PROVE  new[k]["dir-source"].fingerprint # new[m]["dir-source"].fingerprint
  <2>1. CASE k \in 1..Len(old) /\ m \in 1..Len(old)
    BY <1>4, <1>5, <1>9, <2>1
  <2>2. CASE k \in 1..Len(old) /\ m = Len(old) + 1
    BY <1>5, <1>8, <2>2
  <2>3. CASE m \in 1..Len(old) /\ k = Len(old) + 1
    BY <1>5, <1>8, <2>3
  <2> QED BY <1>6, <1>9, <2>1, <2>2, <2>3
<1>10. AddTo(f, "voters", v)["voters"] = new
  BY DEF AddTo, Put, old, new
<1> DEFINE g == AddTo(f, "voters", v)
<1> HIDE DEF g
<1>11. \A k \in 1..Len(new) :
          /\ "dir-source" \in DOMAIN new[k]
          /\ \E p \in 1..(n + 1) : text[p][1] = "dir-source" /\ new[k]["dir-source"] = text[p][2]
  BY <1>7
<1>12. \A k, m \in 1..Len(new) : k # m =>
          new[k]["dir-source"].fingerprint # new[m]["dir-source"].fingerprint
  BY <1>9
<1>13. \E Y : new \in Seq(Y)
  BY <1>5
<1>14. g["voters"] = new
  BY <1>10 DEF g
<1>15. VotersOf(text, n + 1, g)
  BY <1>11, <1>12, <1>13, <1>14 DEF VotersOf
<1> QED BY <1>15 DEF g

(* The lines of a network status. *)
LEMMA StatusIs ==
  /\ NetworkStatus.start = "network-status-version"
  /\ NetworkStatus.objects = {VotersObject, RoutersObject}
  /\ NetworkStatus.built = {"routers"}
  /\ DOMAIN NetworkStatus.lists = {"directory-signature"}
  /\ NetworkStatus.lists["directory-signature"] = "signatures"
  /\ \A k \in NetworkStatus.items :
       k \notin {"network-status-version", "signatures", "voters", "directory-signature",
                 "dir-source", "hash"}
  /\ VotersObject.out = "voters" /\ VotersObject.start = "dir-source"
  /\ RoutersObject.out = "routers" /\ RoutersObject.start = "r"
  /\ VotersObject.items = {"contact", "vote-digest"}
  /\ RoutersObject.items = {"a", "s", "v", "pr", "w", "p"}
BY DEF NetworkStatus, VotersObject, RoutersObject

(* What a line of a network status does. *)
LEMMA StatusLine ==
  ASSUME NEW text, NEW i, NEW f, NEW kw, kw = text[i][1], NEW item, item = Item(text, i),
         NEW read, read = ReadLine(NetworkStatus, text, i, f)
  PROVE  \/ read = [next |-> Len(text) + 1, fields |-> Invalid]
         \/ /\ kw = "network-status-version"
            /\ read = [next |-> i + 1, fields |-> Put(f, kw, item.value)]
         \/ /\ kw \in NetworkStatus.items /\ item.ok
            /\ read = [next |-> item.next, fields |-> Put(f, kw, item.value)]
         \/ /\ kw = "directory-signature" /\ item.ok
            /\ read = [next |-> item.next, fields |-> AddTo(f, "signatures", item.value)]
         \/ \E o \in {VotersObject, RoutersObject} :
              /\ kw = o.start
              /\ read = [next |-> i + 1, fields |-> AddTo(f, o.out, Put(<<>>, kw, item.value))]
         \/ \E o \in {VotersObject, RoutersObject} :
              /\ kw \in o.items /\ Field(f, o.out) # <<>>
              /\ read = [next |-> item.next,
                         fields |-> Put(f, o.out, [Field(f, o.out) EXCEPT ![Len(Field(f, o.out))] =
                                                     Put(@, kw, item.value)])]
         \/ kw # "dir-source" /\ read = [next |-> i + 1, fields |-> f]
<1> DEFINE starts == {o \in NetworkStatus.objects : o.start = kw}
           parts == {o \in NetworkStatus.objects : kw \in o.items}
           Stop == [next |-> Len(text) + 1, fields |-> Invalid]
<1>1. CASE kw = NetworkStatus.start
  <2>1. read = [next |-> i + 1, fields |-> Put(f, kw, item.value)]
    BY <1>1 DEF ReadLine
  <2> QED BY <1>1, <2>1, StatusIs
<1>2. CASE kw # NetworkStatus.start /\ kw \in NetworkStatus.items \union DOMAIN NetworkStatus.lists
  <2>1. CASE NetworkStatus.start \notin DOMAIN f \/ ~item.ok
    <3>1. read = Stop
      BY <1>2, <2>1 DEF ReadLine
    <3> QED BY <3>1
  <2>2. CASE ~(NetworkStatus.start \notin DOMAIN f \/ ~item.ok)
    <3>1. read = [next |-> item.next,
                  fields |-> IF kw \in DOMAIN NetworkStatus.lists
                               THEN AddTo(f, NetworkStatus.lists[kw], item.value)
                               ELSE Put(f, kw, item.value)]
      BY <1>2, <2>2 DEF ReadLine
    <3> QED BY <1>2, <2>2, <3>1, StatusIs
  <2> QED BY <2>1, <2>2
<1>3. CASE ~(kw = NetworkStatus.start)
           /\ ~(kw \in NetworkStatus.items \union DOMAIN NetworkStatus.lists) /\ starts # {}
  <2> DEFINE o == CHOOSE o \in starts : TRUE
  <2>1. o \in starts
    BY <1>3
  <2>2. read = [next |-> i + 1, fields |-> AddTo(f, o.out, Put(<<>>, kw, item.value))]
    BY <1>3 DEF ReadLine
  <2> HIDE DEF o
  <2> QED BY <2>1, <2>2, StatusIs
<1>4. CASE ~(kw = NetworkStatus.start)
           /\ ~(kw \in NetworkStatus.items \union DOMAIN NetworkStatus.lists)
           /\ ~(starts # {}) /\ parts # {}
  <2> DEFINE o == CHOOSE o \in parts : TRUE
             sofar == Field(f, o.out)
  <2>1. o \in parts
    BY <1>4
  <2>2. read = IF sofar = <<>> THEN [next |-> i + 1, fields |-> f]
               ELSE IF ~item.ok THEN Stop
               ELSE [next |-> item.next,
                     fields |-> Put(f, o.out,
                                   [sofar EXCEPT ![Len(sofar)] = Put(@, kw, item.value)])]
    BY <1>4 DEF ReadLine
  <2> HIDE DEF o
  <2>3. o \in {VotersObject, RoutersObject} /\ kw \in o.items /\ kw # "dir-source"
    BY <2>1, StatusIs
  <2> QED BY <2>2, <2>3
<1>5. CASE ~(kw = NetworkStatus.start)
           /\ ~(kw \in NetworkStatus.items \union DOMAIN NetworkStatus.lists)
           /\ ~(starts # {}) /\ ~(parts # {})
  <2>1. read = [next |-> i + 1, fields |-> f]
    BY <1>5 DEF ReadLine
  <2>2. kw # "dir-source"
    <3>1. VotersObject \notin starts
      BY <1>5
    <3> QED BY <3>1, StatusIs
  <2> QED BY <2>1, <2>2
<1> QED BY <1>1, <1>2, <1>3, <1>4, <1>5

(* Reading a text, the first n lines of it. *)
Reads(class, text, n, f) ==
  /\ DOMAIN f = 0..n /\ f = [i \in 0..n |-> f[i]]
  /\ f[0] = [next |-> 1, fields |-> <<>>]
  /\ \A i \in 1..n : f[i] = IF i < f[i - 1].next THEN f[i - 1]
                            ELSE ReadLine(class, text, i, f[i - 1].fields)

(* Reading goes through all the lines of a text, each once. *)
LEMMA ReadLinesReads ==
  ASSUME NEW class, NEW text, Len(text) \in Nat
  PROVE  \E f : Reads(class, text, Len(text), f) /\ ReadLines(class, text) = f[Len(text)].fields
<1> DEFINE L == Len(text)
           Line(i, before) == IF i < before.next THEN before
                              ELSE ReadLine(class, text, i, before.fields)
           None0 == [next |-> 1, fields |-> <<>>]
           Is(f) == f = [n \in 0..L |-> IF n = 0 THEN None0
                                        ELSE IF n < f[n - 1].next THEN f[n - 1]
                                             ELSE ReadLine(class, text, n, f[n - 1].fields)]
<1>1. ASSUME NEW f, Reads(class, text, L, f) PROVE Is(f)
  <2> DEFINE g == [n \in 0..L |-> IF n = 0 THEN None0
                                        ELSE IF n < f[n - 1].next THEN f[n - 1]
                                             ELSE ReadLine(class, text, n, f[n - 1].fields)]
  <2>0. DOMAIN f = 0..L /\ f = [n \in 0..L |-> f[n]]
    BY <1>1 DEF Reads
  <2>1. ASSUME NEW n \in 0..L PROVE f[n] = g[n]
    <3>1. n = 0 \/ n \in 1..L
      OBVIOUS
    <3> QED BY <1>1, <3>1 DEF Reads
  <2>2. f = g
    BY <2>0, <2>1
  <2> QED BY <2>2
<1>2. ASSUME NEW f, Is(f) PROVE Reads(class, text, L, f)
  <2>1. DOMAIN f = 0..L /\ f = [i \in 0..L |-> f[i]] /\ f[0] = None0
    BY <1>2
  <2>2. ASSUME NEW i \in 1..L
        PROVE  f[i] = IF i < f[i - 1].next THEN f[i - 1]
                      ELSE ReadLine(class, text, i, f[i - 1].fields)
    <3>1. i \in 0..L /\ i # 0
      OBVIOUS
    <3> QED BY <1>2, <3>1
  <2> QED BY <2>1, <2>2 DEF Reads
<1>3. \E f : Reads(class, text, L, f)
  <2>1. SUFFICES ASSUME ~\E f : Reads(class, text, L, f) PROVE FALSE
    OBVIOUS
  <2> DEFINE T == {n \in 0..L : ~\E f : Reads(class, text, n, f)}
  <2>2. T \subseteq Nat /\ T # {}
    BY <2>1
  <2>3. PICK n \in T : \A k \in T : n <= k
    BY <2>2, LeastOf
  <2>4. CASE n = 0
    <3> DEFINE f == [i \in 0..0 |-> None0]
    <3>1. Reads(class, text, 0, f)
      BY DEF Reads
    <3> QED BY <2>3, <2>4, <3>1
  <2>5. CASE n # 0
    <3>1. n - 1 \in 0..L /\ n - 1 < n /\ n \in 0..L
      BY <2>3, <2>5
    <3>2. n - 1 \notin T
      <4> HIDE DEF T
      <4> QED BY <2>3, <3>1
    <3>3. PICK f : Reads(class, text, n - 1, f)
      BY <3>1, <3>2
    <3> DEFINE g == [i \in 0..n |-> IF i = n THEN Line(n, f[n - 1]) ELSE f[i]]
    <3>4. /\ DOMAIN g = 0..n /\ g = [i \in 0..n |-> g[i]]
          /\ g[n] = Line(n, f[n - 1]) /\ \A i \in 0..(n - 1) : g[i] = f[i]
      BY <3>1
    <3> HIDE DEF g
    <3>5. Reads(class, text, n, g)
      <4>0. \A i \in 0..(n - 1) : g[i] = f[i]
        BY <3>4
      <4>1. g[0] = None0
        <5>1. 0 \in 0..(n - 1)
          BY <3>1
        <5>2. f[0] = None0
          BY <3>3 DEF Reads
        <5> QED BY <4>0, <5>1, <5>2
      <4>2. ASSUME NEW i \in 1..n PROVE g[i] = Line(i, g[i - 1])
        <5>0. n \in Nat
          BY <3>1
        <5>1. i - 1 \in 0..(n - 1) /\ g[i - 1] = f[i - 1]
          <6>1. i - 1 \in 0..(n - 1)
            BY <5>0
          <6> QED BY <4>0, <6>1
        <5>2. CASE i = n
          BY <3>4, <5>1, <5>2
        <5>3. CASE i # n
          <6>1. i \in 1..(n - 1) /\ i \in 0..(n - 1)
            BY <3>1, <5>3
          <6>2. f[i] = Line(i, f[i - 1])
            BY <3>3, <6>1 DEF Reads
          <6> QED BY <3>4, <5>1, <6>1, <6>2
        <5> QED BY <5>2, <5>3
      <4> QED BY <3>4, <4>1, <4>2 DEF Reads
    <3> QED BY <2>3, <3>5
  <2> QED BY <2>4, <2>5
<1>4. ReadLines(class, text) = (CHOOSE f : Is(f))[L].fields
  BY DEF ReadLines
<1> HIDE DEF Is, Line
<1>5. Is(CHOOSE f : Is(f))
  BY <1>1, <1>3
<1> QED BY <1>2, <1>4, <1>5

(* At the start, and after an error, nothing is read. *)
LEMMA NothingRead ==
  ASSUME NEW S, NEW text, NEW n
  PROVE  /\ SignsOf(S, Invalid) /\ VotersOf(text, n, Invalid)
         /\ SignsOf(S, <<>>) /\ VotersOf(text, n, <<>>)
<1>1. DOMAIN Invalid = {"invalid"} /\ DOMAIN <<>> = {}
  BY DEF Invalid
<1> QED BY <1>1 DEF SignsOf, VotersOf

(* The value of a line that is not one of several. *)
LEMMA PlainItem ==
  ASSUME NEW text, NEW i, text[i][1] = "dir-source"
  PROVE  Item(text, i).value = text[i][2]
<1>1. Item(text, i) = [ok |-> TRUE, value |-> text[i][2], next |-> i + 1]
  BY DEF Item, Multi
<1> QED BY <1>1

(* The value of a signature begins with the line it starts at. *)
LEMMA SignatureItem ==
  ASSUME NEW text, NEW i, text[i][1] = "directory-signature", Item(text, i).ok
  PROVE  Item(text, i).value.args = text[i][2]
<1> DEFINE end == BlockEnd(text, i + 2, End)
<1>1. Item(text, i) = IF i < Len(text) /\ text[i + 1] = Begin
              THEN [ok |-> TRUE, next |-> end + 1,
                    value |-> [args |-> text[i][2], block |-> SubSeq(text, i + 2, end - 1)]]
              ELSE [ok |-> FALSE]
  BY DEF Item, Multi
<1> HIDE DEF end
<1> QED BY <1>1

StillVoters(text, f, read) ==
  "voters" \in DOMAIN f =>
    \/ read = [next |-> Len(text) + 1, fields |-> Invalid]
    \/ "voters" \in DOMAIN read.fields

(* Each line keeps to signatures and voters of the text, and loses no voter. *)
LEMMA StatusLineKeeps ==
  ASSUME NEW S, NEW text, Signed(text, S), Sourced(text), Len(text) \in Nat,
         NEW n \in Nat, n + 1 \in 1..Len(text),
         NEW f, SignsOf(S, f), VotersOf(text, n, f),
         NEW read, read = ReadLine(NetworkStatus, text, n + 1, f)
  PROVE  /\ SignsOf(S, read.fields) /\ VotersOf(text, n + 1, read.fields)
         /\ StillVoters(text, f, read)
         /\ text[n + 1][1] = "dir-source" =>
              \/ read = [next |-> Len(text) + 1, fields |-> Invalid]
              \/ "voters" \in DOMAIN read.fields
<1> DEFINE kw == text[n + 1][1]
           item == Item(text, n + 1)
           Goal == /\ SignsOf(S, read.fields) /\ VotersOf(text, n + 1, read.fields)
                   /\ StillVoters(text, f, read)
           Begun == kw = "dir-source" =>
                      \/ read = [next |-> Len(text) + 1, fields |-> Invalid]
                      \/ "voters" \in DOMAIN read.fields
<1>0. VotersOf(text, n + 1, f)
  BY VotersLater
<1>1. CASE read = [next |-> Len(text) + 1, fields |-> Invalid]
  <2>1. read.fields = Invalid
    BY <1>1
  <2> QED BY <1>1, <2>1, NothingRead DEF StillVoters
<1>2. ASSUME NEW k, k # "voters", k # "signatures", NEW v, read.fields = Put(f, k, v) PROVE Goal
  <2>1. SignsOf(S, read.fields) /\ VotersOf(text, n + 1, read.fields)
    BY <1>0, <1>2, OthersKept
  <2>2. DOMAIN read.fields = DOMAIN f \union {k}
    BY <1>2 DEF Put
  <2> QED BY <2>1, <2>2 DEF StillVoters
<1>3. CASE \/ /\ kw = "network-status-version"
              /\ read = [next |-> n + 1 + 1, fields |-> Put(f, kw, item.value)]
           \/ /\ kw \in NetworkStatus.items /\ item.ok
              /\ read = [next |-> item.next, fields |-> Put(f, kw, item.value)]
  <2>1. kw # "voters" /\ kw # "signatures" /\ kw # "dir-source"
    BY <1>3, StatusIs
  <2>2. read.fields = Put(f, kw, item.value)
    BY <1>3
  <2>3. Goal
    BY <1>2, <2>1, <2>2
  <2> QED BY <2>1, <2>3
<1>4. CASE /\ kw = "directory-signature" /\ item.ok
           /\ read = [next |-> item.next, fields |-> AddTo(f, "signatures", item.value)]
  <2>1. item.value.args = text[n + 1][2]
    BY <1>4, SignatureItem
  <2>2. PICK a \in S : item.value.args = [identity |-> a]
    BY <1>4, <2>1 DEF Signed
  <2>3. read.fields = AddTo(f, "signatures", item.value)
    BY <1>4
  <2> HIDE DEF item
  <2>4. SignsOf(S, read.fields)
    BY <2>2, <2>3, AddSigns
  <2>5. VotersOf(text, n + 1, read.fields)
    BY <1>0, <2>3, OthersKept DEF AddTo
  <2>6. DOMAIN read.fields = DOMAIN f \union {"signatures"}
    BY <2>3 DEF AddTo, Put
  <2> QED BY <1>4, <2>4, <2>5, <2>6 DEF StillVoters
<1>5. ASSUME NEW o \in {VotersObject, RoutersObject}, kw = o.start,
             read = [next |-> n + 1 + 1, fields |-> AddTo(f, o.out, Put(<<>>, kw, item.value))]
      PROVE  Goal /\ (kw = "dir-source" => "voters" \in DOMAIN read.fields)
  <2> DEFINE v == Put(<<>>, kw, item.value)
  <2>1. read.fields = AddTo(f, o.out, v)
    BY <1>5
  <2>2. CASE o = RoutersObject
    <3>1. o.out = "routers" /\ kw # "dir-source"
      BY <1>5, <2>2, StatusIs
    <3>2. read.fields = Put(f, "routers", Append(Field(f, "routers"), v))
      BY <2>1, <3>1 DEF AddTo
    <3> QED BY <1>2, <3>1, <3>2
  <2>3. CASE o = VotersObject
    <3>1. o.out = "voters" /\ kw = "dir-source"
      BY <1>5, <2>3, StatusIs
    <3>2. DOMAIN v = {"dir-source"} /\ v["dir-source"] = text[n + 1][2]
      BY <3>1, PlainItem DEF Put
    <3> HIDE DEF v
    <3>3. VotersOf(text, n + 1, read.fields)
      BY <2>1, <3>1, <3>2, AddVoter
    <3>4. SignsOf(S, read.fields)
      BY <2>1, <3>1, OthersKept DEF AddTo
    <3>5. "voters" \in DOMAIN read.fields
      BY <2>1, <3>1 DEF AddTo, Put
    <3> QED BY <3>3, <3>4, <3>5 DEF StillVoters
  <2> QED BY <2>2, <2>3
<1>6. ASSUME NEW o \in {VotersObject, RoutersObject}, kw \in o.items, Field(f, o.out) # <<>>,
             read = [next |-> item.next,
                     fields |-> Put(f, o.out, [Field(f, o.out) EXCEPT ![Len(Field(f, o.out))] =
                                                 Put(@, kw, item.value)])]
      PROVE  Goal /\ kw # "dir-source"
  <2> DEFINE old == Field(f, o.out)
             new == [old EXCEPT ![Len(old)] = Put(@, kw, item.value)]
  <2>1. read.fields = Put(f, o.out, new)
    BY <1>6
  <2>2. kw # "dir-source"
    BY <1>6, StatusIs
  <2>3. CASE o = RoutersObject
    <3>1. o.out = "routers"
      BY <2>3, StatusIs
    <3> QED BY <1>2, <2>1, <2>2, <3>1
  <2>4. CASE o = VotersObject
    <3>1. o.out = "voters"
      BY <2>4, StatusIs
    <3>2. "voters" \in DOMAIN f /\ old = f["voters"]
      BY <1>6, <3>1 DEF Field
    <3>3. PICK X : old \in Seq(X)
      BY <3>2 DEF VotersOf
    <3> DEFINE last == Put(old[Len(old)], kw, item.value)
               Y == X \union {last}
    <3>4. Len(old) \in 1..Len(old) /\ Len(old) \in Nat
      BY <1>6, <3>3
    <3>5. last["dir-source"] = old[Len(old)]["dir-source"] /\ "dir-source" \in DOMAIN last
      <4>1. "dir-source" \in DOMAIN old[Len(old)]
        BY <3>2, <3>4 DEF VotersOf
      <4> QED BY <2>2, <4>1 DEF Put
    <3> HIDE DEF old, last
    <3>6. /\ new \in Seq(Y) /\ Len(new) = Len(old)
          /\ \A k \in 1..Len(old) : new[k] = IF k = Len(old) THEN last ELSE old[k]
      BY <3>3, <3>4 DEF last
    <3> HIDE DEF new
    <3>7. \A k \in 1..Len(old) : /\ "dir-source" \in DOMAIN new[k]
                                /\ new[k]["dir-source"] = old[k]["dir-source"]
      BY <3>2, <3>5, <3>6 DEF VotersOf
    <3>8. read.fields["voters"] = new /\ DOMAIN read.fields = DOMAIN f \union {"voters"}
      BY <2>1, <3>1 DEF Put
    <3>9. VotersOf(text, n + 1, read.fields)
      <4>1. \A k \in 1..Len(old) : \E p \in 1..(n + 1) :
               text[p][1] = "dir-source" /\ new[k]["dir-source"] = text[p][2]
        BY <1>0, <3>2, <3>7 DEF VotersOf
      <4>2. \A k, m \in 1..Len(old) : k # m =>
               old[k]["dir-source"].fingerprint # old[m]["dir-source"].fingerprint
        BY <1>0, <3>2 DEF VotersOf
      <4>3. ASSUME NEW k \in 1..Len(old), NEW m \in 1..Len(old), k # m
            PROVE  new[k]["dir-source"].fingerprint # new[m]["dir-source"].fingerprint
        <5>1. /\ new[k]["dir-source"] = old[k]["dir-source"]
              /\ new[m]["dir-source"] = old[m]["dir-source"]
          BY <3>7
        <5> QED BY <4>2, <4>3, <5>1
      <4>4. (\E Z : new \in Seq(Z)) /\ 1..Len(new) = 1..Len(old)
        BY <3>6
      <4> DEFINE g == read.fields
      <4>5. g["voters"] = new
        BY <3>8
      <4> HIDE DEF g, Y
      <4>6. \A k \in 1..Len(new) :
               /\ "dir-source" \in DOMAIN new[k]
               /\ \E p \in 1..(n + 1) : /\ text[p][1] = "dir-source"
                                        /\ new[k]["dir-source"] = text[p][2]
        BY <3>7, <4>1, <4>4
      <4>7. \A k, m \in 1..Len(new) : k # m =>
               new[k]["dir-source"].fingerprint # new[m]["dir-source"].fingerprint
        BY <4>3, <4>4
      <4>8. VotersOf(text, n + 1, g)
        BY <4>4, <4>5, <4>6, <4>7 DEF VotersOf
      <4> QED BY <4>8 DEF g
    <3>10. SignsOf(S, read.fields)
      BY <2>1, <3>1, OthersKept
    <3> QED BY <2>2, <3>8, <3>9, <3>10 DEF StillVoters
  <2> QED BY <2>3, <2>4
<1>7. CASE read = [next |-> n + 1 + 1, fields |-> f] /\ kw # "dir-source"
  <2>1. read.fields = f
    BY <1>7
  <2> QED BY <1>0, <1>7, <2>1 DEF StillVoters
<1>8. \/ read = [next |-> Len(text) + 1, fields |-> Invalid]
      \/ \/ /\ kw = "network-status-version"
            /\ read = [next |-> n + 1 + 1, fields |-> Put(f, kw, item.value)]
         \/ /\ kw \in NetworkStatus.items /\ item.ok
            /\ read = [next |-> item.next, fields |-> Put(f, kw, item.value)]
      \/ /\ kw = "directory-signature" /\ item.ok
         /\ read = [next |-> item.next, fields |-> AddTo(f, "signatures", item.value)]
      \/ \E o \in {VotersObject, RoutersObject} :
           /\ kw = o.start
           /\ read = [next |-> n + 1 + 1, fields |-> AddTo(f, o.out, Put(<<>>, kw, item.value))]
      \/ \E o \in {VotersObject, RoutersObject} :
           /\ kw \in o.items /\ Field(f, o.out) # <<>>
           /\ read = [next |-> item.next,
                      fields |-> Put(f, o.out, [Field(f, o.out) EXCEPT ![Len(Field(f, o.out))] =
                                                  Put(@, kw, item.value)])]
      \/ kw # "dir-source" /\ read = [next |-> n + 1 + 1, fields |-> f]
  BY StatusLine
<1>9. Goal /\ Begun
  <2> QED BY <1>1, <1>3, <1>4, <1>5, <1>6, <1>7, <1>8
<1> QED BY <1>9

(* What a network status holds once it is read. *)
LEMMA StatusReads ==
  ASSUME NEW S, NEW text, Signed(text, S), Sourced(text), Len(text) \in Nat, Len(text) >= 4,
         text[1][1] = "network-status-version", text[2][1] = "valid-after",
         text[3][1] = "valid-until", text[4][1] = "dir-source"
  PROVE  LET fields == ReadLines(NetworkStatus, text)
         IN /\ SignsOf(S, fields) /\ VotersOf(text, Len(text), fields)
            /\ fields = Invalid \/ "voters" \in DOMAIN fields
<1> DEFINE L == Len(text)
           Stop == [next |-> L + 1, fields |-> Invalid]
<1>1. PICK f : Reads(NetworkStatus, text, L, f) /\ ReadLines(NetworkStatus, text) = f[L].fields
  BY ReadLinesReads
<1>2. /\ f[0] = [next |-> 1, fields |-> <<>>]
      /\ \A i \in 1..L : f[i] = IF i < f[i - 1].next THEN f[i - 1]
                               ELSE ReadLine(NetworkStatus, text, i, f[i - 1].fields)
  BY <1>1 DEF Reads
<1> DEFINE Good(i) == SignsOf(S, f[i].fields) /\ VotersOf(text, i, f[i].fields)
           Held(i) == f[i] = Stop \/ "voters" \in DOMAIN f[i].fields
<1>3. ASSUME NEW n \in Nat, n + 1 \in 1..L, Good(n)
      PROVE  /\ Good(n + 1)
             /\ Held(n) => Held(n + 1)
             /\ text[n + 1][1] = "dir-source" /\ f[n].next = n + 1 => Held(n + 1)
  <2>0. (n + 1) - 1 = n
    OBVIOUS
  <2>1. CASE n + 1 < f[n].next
    <3>1. f[n + 1] = f[n]
      BY <1>2, <1>3, <2>0, <2>1
    <3>2. f[n].next # n + 1
      BY <2>1
    <3>3. VotersOf(text, n + 1, f[n].fields)
      BY <1>3, VotersLater
    <3> QED BY <1>3, <3>1, <3>2, <3>3
  <2>2. CASE ~(n + 1 < f[n].next)
    <3>1. f[n + 1] = ReadLine(NetworkStatus, text, n + 1, f[n].fields)
      BY <1>2, <1>3, <2>0, <2>2
    <3>2. f[n] # Stop
      BY <1>3, <2>2
    <3> QED BY <1>3, <3>1, <3>2, StatusLineKeeps DEF StillVoters
  <2> QED BY <2>1, <2>2
<1>4. Good(0)
  BY <1>2, NothingRead
<1> HIDE DEF Good, Held
<1>5. ASSUME NEW i \in 0..L PROVE Good(i)
  <2> SUFFICES ASSUME ~Good(i) PROVE FALSE
    OBVIOUS
  <2> DEFINE T == {n \in 0..L : ~Good(n)}
  <2>1. PICK n \in T : \A k \in T : n <= k
    <3>1. T \subseteq Nat /\ T # {}
      OBVIOUS
    <3> QED BY <3>1, LeastOf
  <2>2. n # 0 /\ n - 1 \in Nat /\ (n - 1) + 1 = n /\ n \in 1..L /\ n - 1 \in 0..L
    BY <1>4, <2>1
  <2>3. Good(n - 1)
    BY <2>1, <2>2
  <2>4. Good((n - 1) + 1)
    BY <1>3, <2>2, <2>3
  <2> QED BY <2>1, <2>2, <2>4
<1>6. f[3].next = 4
  <2> DEFINE Then(i, fields) ==
               [next |-> i + 1, fields |-> Put(fields, text[i][1], Item(text, i).value)]
  <2>1. f[1] = Then(1, <<>>)
    <3>1. f[1] = ReadLine(NetworkStatus, text, 1, <<>>)
      BY <1>2
    <3>2. text[1][1] = NetworkStatus.start
      BY StatusIs
    <3> QED BY <3>1, <3>2 DEF ReadLine
  <2>2. ASSUME NEW i \in {2, 3} PROVE Item(text, i).ok /\ Item(text, i).next = i + 1
    <3>1. Item(text, i) = [ok |-> TRUE, value |-> text[i][2], next |-> i + 1]
      BY DEF Item, Multi
    <3> QED BY <3>1
  <2>3. ASSUME NEW i \in {2, 3}, NEW fields, "network-status-version" \in DOMAIN fields
        PROVE  ReadLine(NetworkStatus, text, i, fields) = Then(i, fields)
    <3>1. text[i][1] # NetworkStatus.start /\ text[i][1] \notin DOMAIN NetworkStatus.lists
      BY StatusIs
    <3>2. text[i][1] \in NetworkStatus.items
      BY DEF NetworkStatus
    <3>3. NetworkStatus.start \in DOMAIN fields
      BY <2>3, StatusIs
    <3> QED BY <2>2, <3>1, <3>2, <3>3 DEF ReadLine
  <2>4. "network-status-version" \in DOMAIN f[1].fields /\ f[1].next = 2
    BY <2>1 DEF Put
  <2>5. f[2] = Then(2, f[1].fields)
    BY <1>2, <2>3, <2>4
  <2>6. "network-status-version" \in DOMAIN f[2].fields /\ f[2].next = 3
    BY <2>4, <2>5 DEF Put
  <2>7. f[3] = Then(3, f[2].fields)
    BY <1>2, <2>3, <2>6
  <2> QED BY <2>7
<1>7. Held(4)
  <2>1. 3 \in Nat /\ 3 + 1 \in 1..L /\ 3 + 1 = 4 /\ 3 \in 0..L
    OBVIOUS
  <2> QED BY <1>3, <1>5, <1>6, <2>1
<1>8. ASSUME NEW i \in 4..L PROVE Held(i)
  <2> SUFFICES ASSUME ~Held(i) PROVE FALSE
    OBVIOUS
  <2> DEFINE T == {n \in 4..L : ~Held(n)}
  <2>1. PICK n \in T : \A k \in T : n <= k
    <3>1. T \subseteq Nat /\ T # {}
      OBVIOUS
    <3> QED BY <3>1, LeastOf
  <2>2. n # 4 /\ n - 1 \in Nat /\ (n - 1) + 1 = n /\ n \in 1..L /\ n - 1 \in 4..L /\ n - 1 \in 0..L
    BY <1>7, <2>1
  <2>3. Held(n - 1)
    BY <2>1, <2>2
  <2>4. Held((n - 1) + 1)
    BY <1>3, <1>5, <2>2, <2>3
  <2> QED BY <2>1, <2>2, <2>4
<1>9. Good(L) /\ Held(L)
  BY <1>5, <1>8
<1> QED BY <1>1, <1>9 DEF Good, Held

(* One sequence after another. *)
LEMMA Followed ==
  ASSUME NEW A, NEW R, NEW s \in Seq(A), NEW t \in Seq(R)
  PROVE  /\ s \o t \in Seq(A \union R)
         /\ Len(s) \in Nat /\ Len(t) \in Nat /\ Len(s \o t) = Len(s) + Len(t)
         /\ \A i \in 1..Len(s) : (s \o t)[i] = s[i]
         /\ \A i \in 1..Len(t) : (s \o t)[Len(s) + i] = t[i]
         /\ \A i \in 1..Len(s \o t) : i \notin 1..Len(s) =>
              (i - Len(s)) \in 1..Len(t) /\ (s \o t)[i] = t[i - Len(s)] /\ (s \o t)[i] \in R
<1>1. s \in Seq(A \union R) /\ t \in Seq(A \union R)
  OBVIOUS
<1> QED BY <1>1

(* The lines of a consensus that are no voter's and no signature's. *)
Heads(hour) == {<<"network-status-version", 3>>, <<"valid-after", hour>>, <<"valid-until", hour>>}
Rows(hour) == {<<"r", <<"first", 0>>>>, <<"r", <<"second", 0>>>>, <<"r", <<"third", hour>>>>,
               <<"s", {"Guard"}>>, <<"s", {"HSDir"}>>, <<"s", {}>>}

Sources(hour) ==
  LET order == SetToSeq(Authorities)
  IN [n \in 1..(2 * Cardinality(Authorities)) |->
        <<<<"dir-source", [fingerprint |-> order[((n - 1) \div 2) + 1]]>>,
          <<"vote-digest", <<order[((n - 1) \div 2) + 1], hour>>>>>>[((n - 1) % 2) + 1]]

(* The lines about the voters: one "dir-source" for each authority. *)
LEMMA SourcesAre ==
  ASSUME NEW hour
  PROVE  LET c == Cardinality(Authorities)
             lines == Sources(hour)
         IN /\ c \in Nat /\ c >= 1 /\ lines \in Seq(UNION {{lines[i]} : i \in 1..(2 * c)})
            /\ Len(lines) = 2 * c
            /\ \A i \in 1..(2 * c) : lines[i][1] \in {"dir-source", "vote-digest"}
            /\ lines[1][1] = "dir-source"
            /\ Sourced(lines)
<1> DEFINE c == Cardinality(Authorities)
           order == SetToSeq(Authorities)
           lines == Sources(hour)
<1>1. c \in Nat /\ c >= 1
  <2>1. c \in Nat
    BY ConsensusAssumption, FS_CardinalityType
  <2>2. c # 0
    BY ConsensusAssumption, FS_EmptySet
  <2> QED BY <2>1, <2>2
<1>2. /\ order \in [1..c -> Authorities]
      /\ \A m, n \in 1..c : order[m] = order[n] => m = n
  BY ConsensusAssumption, Ordered
<1> HIDE DEF c, order
<1>3. \A n \in 1..(2 * c) :
        lines[n] = <<<<"dir-source", [fingerprint |-> order[((n - 1) \div 2) + 1]]>>,
                     <<"vote-digest", <<order[((n - 1) \div 2) + 1], hour>>>>>>[((n - 1) % 2) + 1]
  BY DEF Sources, c, order
<1>4. lines \in Seq(UNION {{lines[i]} : i \in 1..(2 * c)}) /\ Len(lines) = 2 * c
  <2> DEFINE U == UNION {{lines[i]} : i \in 1..(2 * c)}
  <2>1. lines = [n \in 1..(2 * c) |-> lines[n]]
    BY DEF Sources, c, order
  <2>2. \A n \in 1..(2 * c) : lines[n] \in U
    OBVIOUS
  <2> HIDE DEF lines, U
  <2>3. lines \in [1..(2 * c) -> U]
    BY <2>1, <2>2
  <2>4. 2 * c \in Nat
    BY <1>1
  <2>5. lines \in Seq(U) /\ Len(lines) = 2 * c
    BY <2>3, <2>4
  <2> QED BY <2>5 DEF U
<1> HIDE DEF lines
<1>5. ASSUME NEW n \in 1..(2 * c)
      PROVE  \/ /\ (n - 1) % 2 = 0 /\ lines[n][1] = "dir-source"
                /\ lines[n][2].fingerprint = order[((n - 1) \div 2) + 1]
             \/ (n - 1) % 2 = 1 /\ lines[n][1] = "vote-digest"
  <2> DEFINE x == <<"dir-source", [fingerprint |-> order[((n - 1) \div 2) + 1]]>>
             y == <<"vote-digest", <<order[((n - 1) \div 2) + 1], hour>>>>
             k == (n - 1) % 2
  <2>1. lines[n] = <<x, y>>[k + 1]
    BY <1>3
  <2>2. k = 0 \/ k = 1
    BY <1>1
  <2> HIDE DEF x, y, k
  <2>3. CASE k = 0
    <3>1. <<x, y>>[k + 1] = <<x, y>>[1] /\ <<x, y>>[1] = x
      BY <2>3
    <3>2. lines[n] = x
      BY <2>1, <3>1
    <3>3. x[1] = "dir-source" /\ x[2].fingerprint = order[((n - 1) \div 2) + 1]
      BY DEF x
    <3> QED BY <2>3, <3>2, <3>3 DEF k
  <2>4. CASE k = 1
    <3>1. <<x, y>>[k + 1] = <<x, y>>[2] /\ <<x, y>>[2] = y
      BY <2>4
    <3>2. lines[n] = y
      BY <2>1, <3>1
    <3>3. y[1] = "vote-digest"
      BY DEF y
    <3> QED BY <2>4, <3>2, <3>3 DEF k
  <2> QED BY <2>2, <2>3, <2>4
<1>6. lines[1][1] = "dir-source"
  <2>1. 1 \in 1..(2 * c) /\ (1 - 1) % 2 = 0
    BY <1>1
  <2> QED BY <1>5, <2>1
<1>7. \A i \in 1..(2 * c) : lines[i][1] \in {"dir-source", "vote-digest"}
  <2> SUFFICES ASSUME NEW i \in 1..(2 * c) PROVE lines[i][1] \in {"dir-source", "vote-digest"}
    OBVIOUS
  <2> QED BY <1>5
<1>8. Sourced(lines)
  <2> SUFFICES ASSUME NEW i \in 1..(2 * c), NEW j \in 1..(2 * c), i # j,
                      lines[i][1] = "dir-source", lines[j][1] = "dir-source"
               PROVE  lines[i][2].fingerprint # lines[j][2].fingerprint
    BY <1>4 DEF Sourced
  <2>1. /\ (i - 1) % 2 = 0 /\ lines[i][2].fingerprint = order[((i - 1) \div 2) + 1]
        /\ (j - 1) % 2 = 0 /\ lines[j][2].fingerprint = order[((j - 1) \div 2) + 1]
    BY <1>5
  <2>2. /\ ((i - 1) \div 2) + 1 \in 1..c /\ ((j - 1) \div 2) + 1 \in 1..c
        /\ ((i - 1) \div 2) + 1 # ((j - 1) \div 2) + 1
    BY <1>1, <2>1
  <2> QED BY <1>2, <2>1, <2>2
<1> QED BY <1>1, <1>4, <1>6, <1>7, <1>8 DEF c, lines

(* The part of a consensus that is signed. *)
LEMMA BodyIs ==
  ASSUME NEW hour
  PROVE  LET body == Body(hour)
         IN /\ \E A : body \in Seq(A)
            /\ Len(body) \in Nat /\ Len(body) >= 4 /\ Sourced(body)
            /\ \A i \in 1..Len(body) : body[i][1] \in
                 {"network-status-version", "valid-after", "valid-until", "dir-source",
                  "vote-digest", "r", "s"}
            /\ body[1][1] = "network-status-version" /\ body[2][1] = "valid-after"
            /\ body[3][1] = "valid-until" /\ body[4][1] = "dir-source"
<1> DEFINE c == Cardinality(Authorities)
           src == Sources(hour)
           Src == UNION {{src[i]} : i \in 1..(2 * c)}
           head == <<<<"network-status-version", 3>>, <<"valid-after", hour>>,
                     <<"valid-until", hour>>>>
           row1 == <<<<"r", <<"first", 0>>>>, <<"s", {"Guard"}>>>>
           row2 == IF hour = 1 THEN <<>> ELSE <<<<"r", <<"second", 0>>>>, <<"s", {"HSDir"}>>>>
           row3 == <<<<"r", <<"third", hour>>>>, <<"s", {}>>>>
           body == Body(hour)
           R == Rows(hour)
<1>1. body = head \o src \o row1 \o row2 \o row3
  BY DEF Body, Concat, Sources
<1>2. /\ head \in Seq(Heads(hour)) /\ Len(head) = 3
      /\ head[1][1] = "network-status-version" /\ head[2][1] = "valid-after"
      /\ head[3][1] = "valid-until"
  BY DEF Heads
<1>3. row1 \in Seq(R) /\ row2 \in Seq(R) /\ row3 \in Seq(R)
  <2>1. row1 \in Seq(R)
    BY DEF Rows
  <2>2. row2 \in Seq(R)
    <3>1. <<>> \in Seq(R) /\ <<<<"r", <<"second", 0>>>>, <<"s", {"HSDir"}>>>> \in Seq(R)
      BY DEF Rows
    <3> QED BY <3>1
  <2>3. row3 \in Seq(R)
    BY DEF Rows
  <2> QED BY <2>1, <2>2, <2>3
<1>4. \A l \in R : l[1] \in {"r", "s"}
  BY DEF Rows
<1>5. /\ c \in Nat /\ c >= 1 /\ src \in Seq(Src) /\ Len(src) = 2 * c
      /\ \A i \in 1..(2 * c) : src[i][1] \in {"dir-source", "vote-digest"}
      /\ src[1][1] = "dir-source" /\ Sourced(src)
  BY SourcesAre
<1> HIDE DEF head, src, Src, row1, row2, row3, R, body, c
<1> DEFINE one == head \o src
           two == one \o row1
           three == two \o row2
           U == Heads(hour) \union Src
<1>6. /\ one \in Seq(U) /\ Len(one) = 3 + 2 * c
      /\ \A i \in 1..3 : one[i] = head[i]
      /\ \A i \in 1..(2 * c) : one[3 + i] = src[i]
  <2>1. /\ head \in Seq(Heads(hour)) /\ src \in Seq(Src)
    BY <1>2, <1>5
  <2>2. /\ head \o src \in Seq(Heads(hour) \union Src)
        /\ Len(head \o src) = Len(head) + Len(src)
        /\ \A i \in 1..Len(head) : (head \o src)[i] = head[i]
        /\ \A i \in 1..Len(src) : (head \o src)[Len(head) + i] = src[i]
    BY <2>1, Followed
  <2> QED BY <1>2, <1>5, <2>2
<1> HIDE DEF one, U
<1> DEFINE n == 3 + 2 * c
<1>7. n \in Nat /\ n >= 5
  BY <1>5
<1>8. /\ two \in Seq(U \union R) /\ Len(two) \in Nat /\ Len(two) >= n
      /\ \A i \in 1..n : two[i] = one[i]
      /\ \A i \in 1..Len(two) : i \notin 1..n => two[i] \in R
  <2>1. Len(one) = n
    BY <1>6
  <2> QED BY <1>3, <1>6, <2>1, Followed
<1> HIDE DEF two, n
<1>9. /\ three \in Seq(U \union R) /\ Len(three) \in Nat /\ Len(three) >= n
      /\ \A i \in 1..n : three[i] = one[i]
      /\ \A i \in 1..Len(three) : i \notin 1..n => three[i] \in R
  <2>1. (U \union R) \union R = U \union R
    OBVIOUS
  <2>2. /\ three \in Seq(U \union R) /\ Len(three) = Len(two) + Len(row2)
        /\ Len(row2) \in Nat
        /\ \A i \in 1..Len(two) : three[i] = two[i]
        /\ \A i \in 1..Len(three) : i \notin 1..Len(two) => three[i] \in R
    BY <1>3, <1>8, <2>1, Followed
  <2> HIDE DEF three
  <2>3. Len(three) \in Nat /\ Len(three) >= Len(two) /\ Len(three) >= n
    BY <1>7, <1>8, <2>2
  <2>4. \A i \in 1..n : i \in 1..Len(two)
    BY <1>7, <1>8
  <2> QED BY <1>8, <2>2, <2>3, <2>4
<1> HIDE DEF three
<1>10. /\ body \in Seq(U \union R) /\ Len(body) \in Nat /\ Len(body) >= n
       /\ \A i \in 1..n : body[i] = one[i]
       /\ \A i \in 1..Len(body) : i \notin 1..n => body[i] \in R
  <2>1. (U \union R) \union R = U \union R
    OBVIOUS
  <2>2. body = three \o row3
    BY <1>1 DEF three, two, one
  <2>3. /\ body \in Seq(U \union R) /\ Len(body) = Len(three) + Len(row3)
        /\ Len(row3) \in Nat
        /\ \A i \in 1..Len(three) : body[i] = three[i]
        /\ \A i \in 1..Len(body) : i \notin 1..Len(three) => body[i] \in R
    BY <1>3, <1>9, <2>1, <2>2, Followed
  <2>4. Len(body) \in Nat /\ Len(body) >= Len(three) /\ Len(body) >= n
    BY <1>7, <1>9, <2>3
  <2>5. \A i \in 1..n : i \in 1..Len(three)
    BY <1>7, <1>9
  <2> QED BY <1>9, <2>3, <2>4, <2>5
<1>11. ASSUME NEW i \in 1..Len(body)
       PROVE  \/ i \in 1..3 /\ body[i] = head[i]
              \/ i - 3 \in 1..(2 * c) /\ body[i] = src[i - 3] /\ i \notin 1..3
              \/ body[i][1] \in {"r", "s"}
  <2>1. CASE i \in 1..3
    BY <1>6, <1>7, <1>10, <2>1
  <2>2. CASE i \in 1..n /\ i \notin 1..3
    <3>1. i - 3 \in 1..(2 * c) /\ 3 + (i - 3) = i
      BY <1>5, <2>2 DEF n
    <3> QED BY <1>6, <1>10, <2>2, <3>1
  <2>3. CASE i \notin 1..n
    BY <1>4, <1>10, <2>3
  <2> QED BY <1>7, <2>1, <2>2, <2>3
<1>12. ASSUME NEW i \in 1..3
       PROVE  head[i][1] \in {"network-status-version", "valid-after", "valid-until"}
  <2>1. i = 1 \/ i = 2 \/ i = 3
    OBVIOUS
  <2> QED BY <1>2, <2>1
<1>13. \A i \in 1..Len(body) : body[i][1] \in
                 {"network-status-version", "valid-after", "valid-until", "dir-source",
                  "vote-digest", "r", "s"}
  <2> SUFFICES ASSUME NEW i \in 1..Len(body)
               PROVE  body[i][1] \in {"network-status-version", "valid-after", "valid-until",
                                      "dir-source", "vote-digest", "r", "s"}
    OBVIOUS
  <2> QED BY <1>5, <1>11, <1>12
<1>14. Sourced(body)
  <2> SUFFICES ASSUME NEW i \in 1..Len(body), NEW j \in 1..Len(body), i # j,
                      body[i][1] = "dir-source", body[j][1] = "dir-source"
               PROVE  body[i][2].fingerprint # body[j][2].fingerprint
    BY DEF Sourced
  <2>1. i - 3 \in 1..(2 * c) /\ body[i] = src[i - 3]
    BY <1>11, <1>12
  <2>2. j - 3 \in 1..(2 * c) /\ body[j] = src[j - 3]
    BY <1>11, <1>12
  <2>3. i - 3 # j - 3
    BY <1>10
  <2> QED BY <1>5, <2>1, <2>2, <2>3 DEF Sourced
<1>15. /\ body[1][1] = "network-status-version" /\ body[2][1] = "valid-after"
       /\ body[3][1] = "valid-until" /\ body[4][1] = "dir-source" /\ Len(body) >= 4
  <2>1. 1 \in 1..n /\ 2 \in 1..n /\ 3 \in 1..n /\ 4 \in 1..n /\ 1 \in 1..(2 * c) /\ 3 + 1 = 4
    BY <1>5, <1>7
  <2>2. body[1] = head[1] /\ body[2] = head[2] /\ body[3] = head[3] /\ body[4] = src[1]
    BY <1>6, <1>10, <2>1
  <2> QED BY <1>2, <1>5, <1>7, <1>10, <2>2
<1> QED BY <1>10, <1>13, <1>14, <1>15 DEF body

Signatures(hour, S) ==
  LET order == SetToSeq(S)
  IN [n \in 1..(4 * Cardinality(S)) |->
        <<<<"directory-signature", [identity |-> order[((n - 1) \div 4) + 1]]>>, Begin,
          <<"signature", [key |-> KeyOf(order[((n - 1) \div 4) + 1], hour), over |-> hour]>>,
          End>>[((n - 1) % 4) + 1]]

(* The lines of the signatures: each names an authority that signed. *)
LEMMA SignaturesAre ==
  ASSUME NEW hour, NEW S \in SUBSET Authorities
  PROVE  LET lines == Signatures(hour, S)
         IN /\ \E A : lines \in Seq(A)
            /\ Signed(lines, S)
            /\ \A i \in 1..Len(lines) :
                 lines[i][1] \in {"directory-signature", "BEGIN", "signature", "END"}
<1> DEFINE c == Cardinality(S)
           order == SetToSeq(S)
           lines == Signatures(hour, S)
           A == UNION {{lines[i]} : i \in 1..(4 * c)}
<1>1. c \in Nat /\ order \in [1..c -> S]
  <2>1. IsFiniteSet(S)
    BY ConsensusAssumption, FS_Subset
  <2> QED BY <2>1, FS_CardinalityType, Ordered
<1> HIDE DEF c, order
<1>2. \A n \in 1..(4 * c) :
        lines[n] = <<<<"directory-signature", [identity |-> order[((n - 1) \div 4) + 1]]>>, Begin,
          <<"signature", [key |-> KeyOf(order[((n - 1) \div 4) + 1], hour), over |-> hour]>>,
          End>>[((n - 1) % 4) + 1]
  BY DEF Signatures, c, order
<1>3. lines \in Seq(A) /\ Len(lines) = 4 * c
  <2>1. lines = [n \in 1..(4 * c) |-> lines[n]]
    BY DEF Signatures, c, order
  <2>2. \A n \in 1..(4 * c) : lines[n] \in A
    OBVIOUS
  <2> HIDE DEF lines, A
  <2>3. lines \in [1..(4 * c) -> A]
    BY <2>1, <2>2
  <2>4. 4 * c \in Nat
    BY <1>1
  <2> QED BY <2>3, <2>4
<1> HIDE DEF lines, A
<1>4. ASSUME NEW n \in 1..(4 * c)
      PROVE  \/ lines[n][1] = "directory-signature" /\ \E a \in S : lines[n][2] = [identity |-> a]
             \/ lines[n][1] \in {"BEGIN", "signature", "END"}
  <2> DEFINE a == order[((n - 1) \div 4) + 1]
             x == <<"directory-signature", [identity |-> a]>>
             y == <<"signature", [key |-> KeyOf(a, hour), over |-> hour]>>
             k == (n - 1) % 4
  <2>1. lines[n] = <<x, Begin, y, End>>[k + 1]
    BY <1>2
  <2>2. k = 0 \/ k = 1 \/ k = 2 \/ k = 3
    BY <1>1
  <2>3. ((n - 1) \div 4) + 1 \in 1..c
    BY <1>1
  <2>4. a \in S
    BY <1>1, <2>3
  <2>5. x[1] = "directory-signature" /\ x[2] = [identity |-> a] /\ y[1] = "signature"
        /\ Begin[1] = "BEGIN" /\ End[1] = "END"
    BY DEF Begin, End
  <2> HIDE DEF x, y, k, a
  <2>6. \/ k = 0 /\ lines[n] = x
        \/ k = 1 /\ lines[n] = Begin
        \/ k = 2 /\ lines[n] = y
        \/ k = 3 /\ lines[n] = End
    BY <2>1, <2>2
  <2> QED BY <2>4, <2>5, <2>6
<1>5. Signed(lines, S)
  <2> SUFFICES ASSUME NEW i \in 1..(4 * c), lines[i][1] = "directory-signature"
               PROVE  \E a \in S : lines[i][2] = [identity |-> a]
    BY <1>3 DEF Signed
  <2> QED BY <1>4
<1>6. \A i \in 1..Len(lines) : lines[i][1] \in {"directory-signature", "BEGIN", "signature", "END"}
  BY <1>3, <1>4
<1> QED BY <1>3, <1>5, <1>6 DEF lines

(* The keywords of a consensus. *)
Keywords == {"network-status-version", "valid-after", "valid-until", "dir-source", "vote-digest",
             "r", "s", "directory-signature", "BEGIN", "signature", "END"}

(* A consensus is read to its signers and to voters that differ. *)
LEMMA ConsensusIs ==
  ASSUME NEW hour, NEW S \in SUBSET Authorities
  PROVE  LET text == Consensus(hour, S)
         IN /\ \E A : text \in Seq(A)
            /\ Len(text) \in Nat /\ Len(text) >= 4
            /\ Signed(text, S) /\ Sourced(text)
            /\ \A i \in 1..Len(text) : text[i][1] \in Keywords
            /\ text[1][1] = "network-status-version" /\ text[2][1] = "valid-after"
            /\ text[3][1] = "valid-until" /\ text[4][1] = "dir-source"
<1> DEFINE body == Body(hour)
           sigs == Signatures(hour, S)
           text == Consensus(hour, S)
           n == Len(body)
<1>1. text = body \o sigs
  BY DEF Consensus, Concat, Signatures
<1>2. /\ \E A : body \in Seq(A)
      /\ n \in Nat /\ n >= 4 /\ Sourced(body)
      /\ \A i \in 1..n : body[i][1] \in
                 {"network-status-version", "valid-after", "valid-until", "dir-source",
                  "vote-digest", "r", "s"}
      /\ body[1][1] = "network-status-version" /\ body[2][1] = "valid-after"
      /\ body[3][1] = "valid-until" /\ body[4][1] = "dir-source"
  BY BodyIs
<1>3. /\ \E A : sigs \in Seq(A)
      /\ Signed(sigs, S)
      /\ \A i \in 1..Len(sigs) :
           sigs[i][1] \in {"directory-signature", "BEGIN", "signature", "END"}
  BY SignaturesAre
<1> HIDE DEF body, sigs, text
<1>4. PICK A : body \in Seq(A)
  BY <1>2
<1>5. PICK B : sigs \in Seq(B)
  BY <1>3
<1>6. /\ text \in Seq(A \union B) /\ Len(text) = n + Len(sigs) /\ Len(sigs) \in Nat
      /\ \A i \in 1..n : text[i] = body[i]
      /\ \A i \in 1..Len(text) : i \notin 1..n =>
           i - n \in 1..Len(sigs) /\ text[i] = sigs[i - n]
  BY <1>1, <1>4, <1>5, Followed
<1>7. Len(text) \in Nat /\ Len(text) >= 4
  BY <1>2, <1>6
<1> HIDE DEF n
<1>8. \A i \in 1..Len(text) : text[i][1] \in Keywords
  <2> SUFFICES ASSUME NEW i \in 1..Len(text) PROVE text[i][1] \in Keywords
    OBVIOUS
  <2>1. CASE i \in 1..n
    BY <1>2, <1>6, <2>1 DEF Keywords
  <2>2. CASE i \notin 1..n
    BY <1>3, <1>6, <2>2 DEF Keywords
  <2> QED BY <2>1, <2>2
<1>9. Signed(text, S)
  <2> SUFFICES ASSUME NEW i \in 1..Len(text), text[i][1] = "directory-signature"
               PROVE  \E a \in S : text[i][2] = [identity |-> a]
    BY DEF Signed
  <2>1. i \notin 1..n
    BY <1>2, <1>6
  <2> QED BY <1>3, <1>6, <2>1 DEF Signed
<1>10. Sourced(text)
  <2> SUFFICES ASSUME NEW i \in 1..Len(text), NEW j \in 1..Len(text), i # j,
                      text[i][1] = "dir-source", text[j][1] = "dir-source"
               PROVE  text[i][2].fingerprint # text[j][2].fingerprint
    BY DEF Sourced
  <2>1. ASSUME NEW k \in 1..Len(text), text[k][1] = "dir-source"
        PROVE  k \in 1..n /\ text[k] = body[k]
    BY <1>3, <1>6, <2>1
  <2>2. i \in 1..n /\ j \in 1..n /\ text[i] = body[i] /\ text[j] = body[j]
    BY <2>1
  <2> QED BY <1>2, <2>2 DEF Sourced, n
<1>11. text[1] = body[1] /\ text[2] = body[2] /\ text[3] = body[3] /\ text[4] = body[4]
  <2>1. 1 \in 1..n /\ 2 \in 1..n /\ 3 \in 1..n /\ 4 \in 1..n
    BY <1>2 DEF n
  <2> QED BY <1>6, <2>1
<1> QED BY <1>2, <1>6, <1>7, <1>8, <1>9, <1>10, <1>11 DEF text

(* verify counts no signature of an authority twice, and none that is not  *)
(* there.                                                                  *)
LEMMA MajorityCounted ==
  ASSUME NEW hour, NEW S \in SUBSET Authorities, NEW doc, doc = Document(Consensus(hour, S)),
         doc.fields # Invalid, NEW list, Verify(doc, list).ok
  PROVE  2 * Cardinality(S) > Cardinality(Authorities)
<1> DEFINE text == Consensus(hour, S)
           fields == ReadLines(NetworkStatus, text)
           voters == fields.voters
           sign(n) == FindSignature(fields, voters[n]["dir-source"].fingerprint)
           seen == {n \in 1..Len(voters) :
                      sign(n) # Invalid /\ sign(n).args.identity \in Authorities}
           good == {n \in seen : LET s == sign(n).block[1][2]
                                 IN /\ s.key = PublicKey(list, sign(n).args.identity)
                                    /\ Body(s.over) = Digested(text)}
<1>1. doc.text = text /\ doc.fields = fields /\ fields # Invalid
  BY DEF Document, ReadDocument
<1>2. Cardinality(good) > Cardinality(Authorities) \div 2
  <2> DEFINE raises == \E n \in seen : PublicKey(list, sign(n).args.identity) = <<>>
  <2>1. Verify(doc, list).ok = (~raises /\ Cardinality(good) > Cardinality(Authorities) \div 2)
    BY <1>1 DEF Verify
  <2> QED BY <2>1
<1>3. SignsOf(S, fields) /\ VotersOf(text, Len(text), fields) /\ "voters" \in DOMAIN fields
  BY <1>1, ConsensusIs, StatusReads
<1>4. /\ \E X : voters \in Seq(X)
      /\ \A k, m \in 1..Len(voters) : k # m =>
           voters[k]["dir-source"].fingerprint # voters[m]["dir-source"].fingerprint
  BY <1>3 DEF VotersOf
<1> HIDE DEF text, fields, voters
<1>5. Len(voters) \in Nat
  BY <1>4
<1>6. ASSUME NEW n \in 1..Len(voters), sign(n) # Invalid
      PROVE  voters[n]["dir-source"].fingerprint \in S
  <2> DEFINE ident == voters[n]["dir-source"].fingerprint
             signs == Field(fields, "signatures")
             of == {k \in 1..Len(signs) : signs[k].args.identity = ident}
  <2>1. of # {}
    BY <1>6 DEF FindSignature
  <2>2. PICK k \in 1..Len(signs) : signs[k].args.identity = ident
    BY <2>1
  <2>3. "signatures" \in DOMAIN fields
    <3>1. CASE "signatures" \notin DOMAIN fields
      BY <2>2, <3>1 DEF Field
    <3> QED BY <3>1
  <2>4. signs = fields["signatures"]
    BY <2>3 DEF Field
  <2> HIDE DEF signs, ident
  <2>5. PICK a \in S : signs[k].args = [identity |-> a]
    BY <1>3, <2>2, <2>3, <2>4 DEF SignsOf
  <2>6. signs[k].args.identity = a
    BY <2>5
  <2> QED BY <2>2, <2>5, <2>6 DEF ident
<1> DEFINE f == [n \in good |-> voters[n]["dir-source"].fingerprint]
<1>7. good \subseteq 1..Len(voters) /\ \A n \in good : sign(n) # Invalid
  OBVIOUS
<1> HIDE DEF good, sign
<1>8. f \in Injection(good, S)
  <2>1. f \in [good -> S]
    BY <1>6, <1>7
  <2>2. \A k, m \in good : f[k] = f[m] => k = m
    BY <1>4, <1>7
  <2> HIDE DEF f
  <2> QED BY <2>1, <2>2 DEF Injection, IsInjective
<1>9. IsFiniteSet(S) /\ Cardinality(S) \in Nat /\ Cardinality(Authorities) \in Nat
  BY ConsensusAssumption, FS_Subset, FS_CardinalityType
<1>10. IsFiniteSet(good) /\ Cardinality(good) <= Cardinality(S)
  BY <1>8, <1>9, FS_Injection
<1>11. Cardinality(good) \in Nat
  BY <1>10, FS_CardinalityType
<1> QED BY <1>2, <1>9, <1>10, <1>11

-----------------------------------------------------------------------------
(* The lines of a diff after its first two. *)
Edits(new) ==
  {Dot} \union {new[i] : i \in 1..Len(new)}
    \union {<<"ed", [start |-> p, end |-> q, act |-> a]>> :
              p \in Int, q \in Int, a \in {"a", "c", "d"}}

(* No line of an edit is taken for the head of the diff. *)
LEMMA EditsAre ==
  ASSUME NEW new, \A i \in 1..Len(new) : new[i][1] \in Keywords, NEW l \in Edits(new)
  PROVE  l[1] \notin {"hash", "network-status-diff-version"}
<1>1. CASE l = Dot
  BY <1>1 DEF Dot
<1>2. ASSUME NEW i \in 1..Len(new), l = new[i]
      PROVE  l[1] \notin {"hash", "network-status-diff-version"}
  BY <1>2 DEF Keywords
<1>3. ASSUME NEW p \in Int, NEW q \in Int, NEW a \in {"a", "c", "d"},
             l = <<"ed", [start |-> p, end |-> q, act |-> a]>>
      PROVE  l[1] \notin {"hash", "network-status-diff-version"}
  BY <1>3
<1> QED BY <1>1, <1>2, <1>3 DEF Edits

(* A part of a text has only its lines. *)
LEMMA PartOf ==
  ASSUME NEW A, NEW s \in Seq(A), NEW p \in Int, NEW q \in Int, p >= 1, q <= Len(s)
  PROVE  SubSeq(s, p, q) \in Seq({s[i] : i \in 1..Len(s)})
<1> DEFINE B == {s[i] : i \in 1..Len(s)}
<1>1. CASE p <= q
  <2>1. SubSeq(s, p, q) = [i \in 1..(q - p + 1) |-> s[i + p - 1]]
    BY <1>1
  <2>2. \A i \in 1..(q - p + 1) : i + p - 1 \in 1..Len(s)
    BY <1>1
  <2>3. [i \in 1..(q - p + 1) |-> s[i + p - 1]] \in [1..(q - p + 1) -> B]
    BY <2>2
  <2>4. q - p + 1 \in Nat
    BY <1>1
  <2> HIDE DEF B
  <2> QED BY <2>1, <2>3, <2>4
<1>2. CASE ~(p <= q)
  <2>1. SubSeq(s, p, q) = <<>>
    BY <1>2
  <2> QED BY <2>1
<1> QED BY <1>1, <1>2

(* The lines of a part of a text. *)
LEMMA SubIs ==
  ASSUME NEW A, NEW s \in Seq(A), NEW q \in 0..Len(s), NEW p \in 0..q
  PROVE  /\ SubSeq(s, p + 1, q) \in Seq(A) /\ Len(SubSeq(s, p + 1, q)) = q - p
         /\ \A i \in 1..(q - p) : SubSeq(s, p + 1, q)[i] = s[p + i]
<1> DEFINE r == SubSeq(s, p + 1, q)
<1>1. Len(s) \in Nat /\ p \in Nat /\ q \in Nat /\ q - p \in Nat
  OBVIOUS
<1>2. \A i \in 1..(q - p) : p + i \in 1..Len(s) /\ i + (p + 1) - 1 = p + i
  BY <1>1
<1>3. r = [i \in 1..(q - p) |-> s[i + (p + 1) - 1]]
  BY <1>1
<1>4. \A i \in 1..(q - p) : s[i + (p + 1) - 1] \in A
  BY <1>2
<1> HIDE DEF r
<1>5. r \in Seq(A) /\ Len(r) = q - p
  BY <1>1, <1>3, <1>4
<1>6. \A i \in 1..(q - p) : r[i] = s[p + i]
  BY <1>2, <1>3
<1> QED BY <1>5, <1>6 DEF r

(* The part of a text that its digest covers is its first lines. *)
LEMMA DigestedPart ==
  ASSUME NEW A, NEW text \in Seq(A)
  PROVE  /\ Digested(text) \in Seq(A) /\ Len(Digested(text)) \in 0..Len(text)
         /\ \A i \in 1..Len(Digested(text)) : Digested(text)[i] = text[i]
<1> DEFINE ends == {n \in 1..Len(text) : text[n][1] = "directory-signature"}
           k == IF ends = {} THEN Len(text) ELSE (CHOOSE n \in ends : \A m \in ends : n <= m) - 1
<1>1. k \in 0..Len(text)
  <2>1. CASE ends = {}
    BY <2>1
  <2>2. CASE ends # {}
    <3>1. ends \subseteq Nat
      OBVIOUS
    <3>2. \E n \in ends : \A m \in ends : n <= m
      BY <2>2, <3>1, LeastOf
    <3> DEFINE n == CHOOSE n \in ends : \A m \in ends : n <= m
    <3>3. n \in ends
      BY <3>2
    <3>4. n \in 1..Len(text)
      BY <3>3
    <3> HIDE DEF n
    <3>5. k = n - 1
      BY <2>2 DEF n
    <3> QED BY <3>4, <3>5
  <2> QED BY <2>1, <2>2
<1>2. Digested(text) = SubSeq(text, 1, k)
  BY DEF Digested
<1> HIDE DEF k
<1> DEFINE r == SubSeq(text, 0 + 1, k)
<1>3. r \in Seq(A) /\ Len(r) = k - 0 /\ \A i \in 1..(k - 0) : r[i] = text[0 + i]
  BY <1>1, SubIs
<1>4. r = Digested(text) /\ Len(text) \in Nat /\ k \in Nat
  BY <1>1, <1>2
<1> HIDE DEF r
<1>5. Len(r) = k /\ \A i \in 1..k : r[i] = text[i]
  BY <1>3, <1>4
<1> QED BY <1>1, <1>3, <1>4, <1>5

(* A chain of hunks, each before the ones after it. *)
Chain(f, hunks, n) ==
  f = [i \in 0..n |-> IF i = 0 THEN hunks[0] ELSE hunks[i] \o f[i - 1]]

-----------------------------------------------------------------------------
(***************************************************************************)
(* A diff applies to the text it was made from.                             *)
(***************************************************************************)

(* Going up from the first of some numbers to the last. *)
LEMMA Upward ==
  ASSUME NEW L \in Nat, NEW T, 0 \in T, \A n \in 0..(L - 1) : n \in T => n + 1 \in T
  PROVE  \A n \in 0..L : n \in T
<1> SUFFICES ASSUME NEW m \in 0..L, m \notin T PROVE FALSE
  OBVIOUS
<1> DEFINE F == {n \in 0..L : n \notin T}
<1>1. F \subseteq Nat /\ F # {}
  OBVIOUS
<1>2. PICK n \in F : \A k \in F : n <= k
  BY <1>1, LeastOf
<1>3. n # 0 /\ n - 1 \in 0..(L - 1) /\ n - 1 \in 0..L /\ n - 1 < n
  BY <1>2
<1>4. n - 1 \in T
  BY <1>2, <1>3
<1> QED BY <1>2, <1>3, <1>4

(* The lines of a body, each at its place. *)
LEMMA BodyLines ==
  ASSUME NEW hour
  PROVE  LET body == Body(hour)
             c == Cardinality(Authorities)
             e == IF hour = 1 THEN 0 ELSE 2
         IN /\ Len(body) = 2 * c + 7 + e
            /\ body[1] = <<"network-status-version", 3>> /\ body[2] = <<"valid-after", hour>>
            /\ body[3] = <<"valid-until", hour>>
            /\ \A i \in 1..(2 * c) : body[3 + i] = Sources(hour)[i]
            /\ body[2 * c + 4] = <<"r", <<"first", 0>>>> /\ body[2 * c + 5] = <<"s", {"Guard"}>>
            /\ hour # 1 => /\ body[2 * c + 6] = <<"r", <<"second", 0>>>>
                           /\ body[2 * c + 7] = <<"s", {"HSDir"}>>
            /\ body[2 * c + 6 + e] = <<"r", <<"third", hour>>>>
            /\ body[2 * c + 7 + e] = <<"s", {}>>
<1> DEFINE c == Cardinality(Authorities)
           e == IF hour = 1 THEN 0 ELSE 2
           src == Sources(hour)
           Src == UNION {{src[i]} : i \in 1..(2 * c)}
           head == <<<<"network-status-version", 3>>, <<"valid-after", hour>>,
                     <<"valid-until", hour>>>>
           r1 == <<"r", <<"first", 0>>>>
           s1 == <<"s", {"Guard"}>>
           r2 == <<"r", <<"second", 0>>>>
           s2 == <<"s", {"HSDir"}>>
           r3 == <<"r", <<"third", hour>>>>
           s3 == <<"s", {}>>
           row1 == <<r1, s1>>
           row2 == IF hour = 1 THEN <<>> ELSE <<r2, s2>>
           row3 == <<r3, s3>>
           body == Body(hour)
           H == {head[1], head[2], head[3]}
           R == {r1, s1, r2, s2, r3, s3}
<1>1. body = head \o src \o row1 \o row2 \o row3
  BY DEF Body, Concat, Sources
<1>2. /\ head[1] = <<"network-status-version", 3>> /\ head[2] = <<"valid-after", hour>>
      /\ head[3] = <<"valid-until", hour>> /\ Len(head) = 3
      /\ head \in Seq(H)
  OBVIOUS
<1>3. c \in Nat /\ c >= 1 /\ src \in Seq(Src) /\ Len(src) = 2 * c
  BY SourcesAre
<1> HIDE DEF r1, r2, r3, s1, s2, s3
<1>4. /\ row1 \in Seq(R) /\ Len(row1) = 2 /\ row1[1] = r1 /\ row1[2] = s1
      /\ row3 \in Seq(R) /\ Len(row3) = 2 /\ row3[1] = r3 /\ row3[2] = s3
  OBVIOUS
<1>5. /\ row2 \in Seq(R) /\ Len(row2) = e /\ (hour # 1 => row2[1] = r2 /\ row2[2] = s2)
  <2>1. CASE hour = 1
    BY <2>1
  <2>2. CASE hour # 1
    <3>1. row2 = <<r2, s2>> /\ e = 2
      BY <2>2
    <3>2. <<r2, s2>> \in Seq(R) /\ Len(<<r2, s2>>) = 2
      OBVIOUS
    <3> QED BY <3>1, <3>2
  <2> QED BY <2>1, <2>2
<1>6. e \in Nat /\ (hour # 1 => e = 2) /\ (hour = 1 => e = 0)
  OBVIOUS
<1> HIDE DEF head, src, Src, row1, row2, row3, R, H, body, c, e
<1> DEFINE one == head \o src
           two == one \o row1
           three == two \o row2
           four == three \o row3
<1>7. /\ one \in Seq(H \union Src) /\ Len(one) = 3 + 2 * c
      /\ one[1] = head[1] /\ one[2] = head[2] /\ one[3] = head[3]
      /\ \A i \in 1..(2 * c) : one[3 + i] = src[i]
  <2>0. head \in Seq(H) /\ src \in Seq(Src)
    BY <1>2, <1>3
  <2>1. /\ one \in Seq(H \union Src) /\ Len(one) = Len(head) + Len(src)
        /\ \A i \in 1..Len(head) : one[i] = head[i]
        /\ \A i \in 1..Len(src) : one[Len(head) + i] = src[i]
    BY <2>0, Followed
  <2> HIDE DEF one
  <2> QED BY <1>2, <1>3, <2>1
<1> HIDE DEF one
<1>8. /\ two \in Seq((H \union Src) \union R) /\ Len(two) = 5 + 2 * c
      /\ \A i \in 1..(3 + 2 * c) : two[i] = one[i]
      /\ two[2 * c + 4] = r1 /\ two[2 * c + 5] = s1
  <2>0. one \in Seq(H \union Src) /\ row1 \in Seq(R)
    BY <1>4, <1>7
  <2>1. /\ two \in Seq((H \union Src) \union R) /\ Len(two) = Len(one) + Len(row1)
        /\ \A i \in 1..Len(one) : two[i] = one[i]
        /\ \A i \in 1..Len(row1) : two[Len(one) + i] = row1[i]
    BY <2>0, Followed
  <2> HIDE DEF two
  <2>2. 1 \in 1..Len(row1) /\ 2 \in 1..Len(row1)
    BY <1>4
  <2>3. two[Len(one) + 1] = r1 /\ two[Len(one) + 2] = s1
    BY <1>4, <2>1, <2>2
  <2>4. Len(one) + 1 = 2 * c + 4 /\ Len(one) + 2 = 2 * c + 5
    BY <1>3, <1>7
  <2> QED BY <1>3, <1>4, <1>7, <2>1, <2>3, <2>4
<1> HIDE DEF two
<1>9. /\ three \in Seq(((H \union Src) \union R) \union R) /\ Len(three) = 5 + 2 * c + e
      /\ \A i \in 1..(5 + 2 * c) : three[i] = two[i]
      /\ hour # 1 => three[2 * c + 6] = r2 /\ three[2 * c + 7] = s2
  <2>0. two \in Seq((H \union Src) \union R) /\ row2 \in Seq(R)
    BY <1>5, <1>8
  <2>1. /\ three \in Seq(((H \union Src) \union R) \union R) /\ Len(three) = Len(two) + Len(row2)
        /\ \A i \in 1..Len(two) : three[i] = two[i]
        /\ \A i \in 1..Len(row2) : three[Len(two) + i] = row2[i]
    BY <2>0, Followed
  <2> HIDE DEF three
  <2>2. hour # 1 => three[Len(two) + 1] = r2 /\ three[Len(two) + 2] = s2
    <3>1. hour # 1 => 1 \in 1..Len(row2) /\ 2 \in 1..Len(row2)
      BY <1>5, <1>6
    <3> QED BY <1>5, <2>1, <3>1
  <2>3. Len(two) + 1 = 2 * c + 6 /\ Len(two) + 2 = 2 * c + 7
    BY <1>3, <1>8
  <2> QED BY <1>3, <1>5, <1>8, <2>1, <2>2, <2>3
<1> HIDE DEF three
<1>10. /\ Len(four) = 7 + 2 * c + e
       /\ \A i \in 1..(5 + 2 * c + e) : four[i] = three[i]
       /\ four[2 * c + 6 + e] = r3 /\ four[2 * c + 7 + e] = s3
  <2>0. three \in Seq(((H \union Src) \union R) \union R) /\ row3 \in Seq(R)
    BY <1>4, <1>9
  <2>1. /\ Len(four) = Len(three) + Len(row3)
        /\ \A i \in 1..Len(three) : four[i] = three[i]
        /\ \A i \in 1..Len(row3) : four[Len(three) + i] = row3[i]
    BY <2>0, Followed
  <2> HIDE DEF four
  <2>2. 1 \in 1..Len(row3) /\ 2 \in 1..Len(row3)
    BY <1>4
  <2>3. four[Len(three) + 1] = r3 /\ four[Len(three) + 2] = s3
    BY <1>4, <2>1, <2>2
  <2>4. Len(three) + 1 = 2 * c + 6 + e /\ Len(three) + 2 = 2 * c + 7 + e
    BY <1>3, <1>6, <1>9
  <2>5. \A i \in 1..(5 + 2 * c + e) : four[i] = three[i]
    BY <1>9, <2>1
  <2>6. Len(four) = 7 + 2 * c + e
    BY <1>3, <1>4, <1>6, <1>9, <2>1
  <2> QED BY <2>3, <2>4, <2>5, <2>6
<1>11. body = four
  BY <1>1 DEF four, three, two, one
<1> HIDE DEF four
<1>12. /\ \A i \in 1..(3 + 2 * c) : body[i] = one[i]
       /\ \A i \in 1..(5 + 2 * c) : body[i] = two[i]
  <2>1. \A i \in 1..(5 + 2 * c) : i \in 1..(5 + 2 * c + e)
    BY <1>3, <1>6
  <2>2. \A i \in 1..(3 + 2 * c) : i \in 1..(5 + 2 * c)
    BY <1>3
  <2> QED BY <1>8, <1>9, <1>10, <1>11, <2>1, <2>2
<1>13. body[1] = head[1] /\ body[2] = head[2] /\ body[3] = head[3]
  <2>1. 1 \in 1..(3 + 2 * c) /\ 2 \in 1..(3 + 2 * c) /\ 3 \in 1..(3 + 2 * c)
    BY <1>3
  <2> QED BY <1>7, <1>12, <2>1
<1>14. \A i \in 1..(2 * c) : body[3 + i] = src[i]
  <2>1. \A i \in 1..(2 * c) : 3 + i \in 1..(3 + 2 * c)
    BY <1>3
  <2> QED BY <1>7, <1>12, <2>1
<1>15. body[2 * c + 4] = r1 /\ body[2 * c + 5] = s1
  <2>1. 2 * c + 4 \in 1..(5 + 2 * c) /\ 2 * c + 5 \in 1..(5 + 2 * c)
    BY <1>3
  <2> QED BY <1>8, <1>12, <2>1
<1>16. hour # 1 => body[2 * c + 6] = r2 /\ body[2 * c + 7] = s2
  <2>1. hour # 1 => 2 * c + 6 \in 1..(5 + 2 * c + e) /\ 2 * c + 7 \in 1..(5 + 2 * c + e)
    BY <1>3, <1>6
  <2> QED BY <1>9, <1>10, <1>11, <2>1
<1>17. Len(body) = 2 * c + 7 + e
  BY <1>3, <1>6, <1>10, <1>11
<1> QED BY <1>2, <1>10, <1>11, <1>13, <1>14, <1>15, <1>16, <1>17
        DEF body, c, e, src, r1, r2, r3, s1, s2, s3

(* Where each line stands in the longer of the two bodies. *)
Turn(a) == CHOOSE k \in 1..Cardinality(Authorities) : SetToSeq(Authorities)[k] = a

Rank(l) ==
  LET c == Cardinality(Authorities)
  IN CASE l[1] = "network-status-version" -> 1
       [] l[1] = "valid-after" -> 2
       [] l[1] = "valid-until" -> 3
       [] l[1] = "dir-source" -> 2 * Turn(l[2].fingerprint) + 2
       [] l[1] = "vote-digest" -> 2 * Turn(l[2][1]) + 3
       [] l[1] = "r" -> IF l[2][1] = "first" THEN 2 * c + 4
                        ELSE IF l[2][1] = "second" THEN 2 * c + 6 ELSE 2 * c + 8
       [] OTHER -> IF l[2] = {"Guard"} THEN 2 * c + 5
                   ELSE IF l[2] = {"HSDir"} THEN 2 * c + 7 ELSE 2 * c + 9

LEMMA SourceRank ==
  ASSUME NEW hour, NEW i \in 1..(2 * Cardinality(Authorities))
  PROVE  Rank(Sources(hour)[i]) = i + 3
<1> DEFINE c == Cardinality(Authorities)
           order == SetToSeq(Authorities)
           k == ((i - 1) \div 2) + 1
           x == <<"dir-source", [fingerprint |-> order[k]]>>
           y == <<"vote-digest", <<order[k], hour>>>>
<1>1. c \in Nat
  BY SourcesAre
<1>2. /\ order \in [1..c -> Authorities]
      /\ \A m, n \in 1..c : order[m] = order[n] => m = n
  BY ConsensusAssumption, Ordered
<1>3. Sources(hour)[i] = <<x, y>>[((i - 1) % 2) + 1]
  BY DEF Sources
<1>4. k \in 1..c
  BY <1>1
<1>5. Turn(order[k]) = k
  <2> HIDE DEF k, order, c
  <2>1. Turn(order[k]) \in 1..c /\ order[Turn(order[k])] = order[k]
    BY <1>4 DEF Turn, order, c
  <2> QED BY <1>2, <1>4, <2>1
<1>6. Rank(x) = 2 * Turn(order[k]) + 2 /\ Rank(y) = 2 * Turn(order[k]) + 3
  <2> HIDE DEF k, order
  <2>1. x[1] = "dir-source" /\ x[2].fingerprint = order[k]
    OBVIOUS
  <2>2. y[1] = "vote-digest" /\ y[2][1] = order[k]
    OBVIOUS
  <2> HIDE DEF x, y
  <2> QED BY <2>1, <2>2 DEF Rank
<1> HIDE DEF x, y
<1>7. CASE (i - 1) % 2 = 0
  <2>1. <<x, y>>[((i - 1) % 2) + 1] = x
    <3>1. <<x, y>>[1] = x
      OBVIOUS
    <3>2. ((i - 1) % 2) + 1 = 1
      BY <1>7
    <3> QED BY <3>1, <3>2
  <2>2. 2 * k + 2 = i + 3
    BY <1>1, <1>7
  <2> QED BY <1>3, <1>5, <1>6, <2>1, <2>2
<1>8. CASE (i - 1) % 2 = 1
  <2>1. <<x, y>>[((i - 1) % 2) + 1] = y
    <3>1. <<x, y>>[2] = y
      OBVIOUS
    <3>2. ((i - 1) % 2) + 1 = 2
      BY <1>8
    <3> QED BY <3>1, <3>2
  <2>2. 2 * k + 3 = i + 3
    BY <1>1, <1>8
  <2> QED BY <1>3, <1>5, <1>6, <2>1, <2>2
<1>9. (i - 1) % 2 = 0 \/ (i - 1) % 2 = 1
  BY <1>1
<1> QED BY <1>7, <1>8, <1>9

(* The lines of a body rise. *)
LEMMA RanksRise ==
  ASSUME NEW hour
  PROVE  LET body == Body(hour)
         IN /\ Len(body) \in Nat
            /\ \A i \in 1..Len(body) : Rank(body[i]) \in Int
            /\ \A i, j \in 1..Len(body) : i < j => Rank(body[i]) < Rank(body[j])
<1> DEFINE c == Cardinality(Authorities)
           e == IF hour = 1 THEN 0 ELSE 2
           body == Body(hour)
<1>1. c \in Nat /\ e \in {0, 2} /\ (hour # 1 <=> e = 2)
  <2>1. c \in Nat
    BY SourcesAre
  <2>2. e \in {0, 2} /\ (hour # 1 <=> e = 2)
    OBVIOUS
  <2> QED BY <2>1, <2>2
<1>2. /\ Len(body) = 2 * c + 7 + e
      /\ body[1] = <<"network-status-version", 3>> /\ body[2] = <<"valid-after", hour>>
      /\ body[3] = <<"valid-until", hour>>
      /\ \A i \in 1..(2 * c) : body[3 + i] = Sources(hour)[i]
      /\ body[2 * c + 4] = <<"r", <<"first", 0>>>> /\ body[2 * c + 5] = <<"s", {"Guard"}>>
      /\ hour # 1 => /\ body[2 * c + 6] = <<"r", <<"second", 0>>>>
                     /\ body[2 * c + 7] = <<"s", {"HSDir"}>>
      /\ body[2 * c + 6 + e] = <<"r", <<"third", hour>>>>
      /\ body[2 * c + 7 + e] = <<"s", {}>>
  BY BodyLines
<1>3. /\ \A x : Rank(<<"network-status-version", x>>) = 1
      /\ \A x : Rank(<<"valid-after", x>>) = 2
      /\ \A x : Rank(<<"valid-until", x>>) = 3
  BY DEF Rank
<1>4. /\ \A x : Rank(<<"r", <<"first", x>>>>) = 2 * c + 4
      /\ \A x : Rank(<<"r", <<"second", x>>>>) = 2 * c + 6
      /\ \A x : Rank(<<"r", <<"third", x>>>>) = 2 * c + 8
  BY DEF Rank
<1>5. /\ Rank(<<"s", {"Guard"}>>) = 2 * c + 5
      /\ Rank(<<"s", {"HSDir"}>>) = 2 * c + 7
      /\ Rank(<<"s", {}>>) = 2 * c + 9
  <2>1. {"Guard"} # {} /\ {"HSDir"} # {} /\ {"Guard"} # {"HSDir"}
    OBVIOUS
  <2>2. \A x : Rank(<<"s", x>>) = IF x = {"Guard"} THEN 2 * c + 5
                   ELSE IF x = {"HSDir"} THEN 2 * c + 7 ELSE 2 * c + 9
    BY DEF Rank
  <2> QED BY <2>1, <2>2
<1>6. \A i \in 1..(2 * c) : Rank(body[3 + i]) = i + 3
  BY <1>2, SourceRank
<1> HIDE DEF body, c, e
<1>7. ASSUME NEW i \in 1..Len(body)
      PROVE  Rank(body[i]) = IF i <= 2 * c + 5 THEN i ELSE i + 2 - e
  <2>1. CASE i <= 3
    <3>1. i = 1 \/ i = 2 \/ i = 3
      BY <1>1, <1>2, <2>1
    <3>2. Rank(body[i]) = i
      BY <1>2, <1>3, <3>1
    <3> QED BY <1>1, <2>1, <3>2
  <2>2. CASE i > 3 /\ i <= 2 * c + 3
    <3>1. i - 3 \in 1..(2 * c) /\ 3 + (i - 3) = i /\ (i - 3) + 3 = i
      BY <1>1, <1>2, <2>2
    <3>2. Rank(body[i]) = i
      BY <1>6, <3>1
    <3> QED BY <1>1, <2>2, <3>2
  <2>3. CASE i > 2 * c + 3
    <3>1. \/ i = 2 * c + 4 \/ i = 2 * c + 5 \/ i = 2 * c + 6 + e \/ i = 2 * c + 7 + e
          \/ e = 2 /\ (i = 2 * c + 6 \/ i = 2 * c + 7)
      <4>1. Len(body) = 2 * c + 7 + e
        BY <1>2
      <4>2. CASE e = 0
        BY <1>1, <2>3, <4>1, <4>2
      <4>3. CASE e = 2
        BY <1>1, <2>3, <4>1, <4>3
      <4> QED BY <1>1, <4>2, <4>3
    <3>2. CASE i = 2 * c + 4
      <4>1. Rank(body[i]) = 2 * c + 4
        BY <1>2, <1>4, <3>2
      <4> QED BY <1>1, <3>2, <4>1
    <3>3. CASE i = 2 * c + 5
      <4>1. Rank(body[i]) = 2 * c + 5
        BY <1>2, <1>5, <3>3
      <4> QED BY <1>1, <3>3, <4>1
    <3>4. CASE i = 2 * c + 6 + e
      <4>1. Rank(body[i]) = 2 * c + 8
        BY <1>2, <1>4, <3>4
      <4> QED BY <1>1, <3>4, <4>1
    <3>5. CASE i = 2 * c + 7 + e
      <4>1. Rank(body[i]) = 2 * c + 9
        BY <1>2, <1>5, <3>5
      <4> QED BY <1>1, <3>5, <4>1
    <3>6. CASE e = 2 /\ i = 2 * c + 6
      <4>1. Rank(body[i]) = 2 * c + 6
        BY <1>1, <1>2, <1>4, <3>6
      <4> QED BY <1>1, <3>6, <4>1
    <3>7. CASE e = 2 /\ i = 2 * c + 7
      <4>1. Rank(body[i]) = 2 * c + 7
        BY <1>1, <1>2, <1>5, <3>7
      <4> QED BY <1>1, <3>7, <4>1
    <3> QED BY <3>1, <3>2, <3>3, <3>4, <3>5, <3>6, <3>7
  <2> QED BY <1>1, <2>1, <2>2, <2>3
<1>8. \A i \in 1..Len(body) : Rank(body[i]) \in Int
  BY <1>1, <1>7
<1>9. ASSUME NEW i \in 1..Len(body), NEW j \in 1..Len(body), i < j
      PROVE  Rank(body[i]) < Rank(body[j])
  BY <1>1, <1>7, <1>9
<1> QED BY <1>1, <1>2, <1>8, <1>9 DEF body

(* The parts of MakeDiff, for a body and the text it is to become.          *)
PlaceOf(line, text) ==
  LET at == {n \in 1..Len(text) : text[n] = line}
  IN IF at = {} THEN 0 ELSE CHOOSE n \in at : \A m \in at : n <= m

HunkOf(from, upto, data) ==
  IF data = <<>> THEN <<<<"ed", [start |-> from, end |-> upto, act |-> "d"]>>>>
  ELSE IF upto < from
    THEN <<<<"ed", [start |-> upto, end |-> upto, act |-> "a"]>>>> \o data \o <<Dot>>
  ELSE <<<<"ed", [start |-> from, end |-> upto, act |-> "c"]>>>> \o data \o <<Dot>>

KeptAt(body, new, n) == n > 0 => PlaceOf(body[n], new) # 0
Later(body, new, n) == {m \in n + 1..Len(body) : KeptAt(body, new, m)}
FirstIn(body, later) ==
  IF later = {} THEN Len(body) + 1 ELSE CHOOSE m \in later : \A k \in later : m <= k
NextOf(body, new, n) == FirstIn(body, Later(body, new, n))
FromOf(body, new, n) == IF n = 0 THEN 1 ELSE PlaceOf(body[n], new) + 1
BeforeIn(body, new, later) ==
  IF later = {} THEN Len(new) ELSE PlaceOf(body[FirstIn(body, later)], new) - 1
UptoOf(body, new, n) == BeforeIn(body, new, Later(body, new, n))

HunkAt(body, new, n) ==
  IF ~KeptAt(body, new, n) THEN <<>>
  ELSE IF NextOf(body, new, n) = n + 1 /\ UptoOf(body, new, n) < FromOf(body, new, n) THEN <<>>
  ELSE HunkOf(n + 1, NextOf(body, new, n) - 1,
              SubSeq(new, FromOf(body, new, n), UptoOf(body, new, n)))

HunksOf(body, new) == [n \in 0..Len(body) |-> HunkAt(body, new, n)]
AllOf(body, new) == CHOOSE f : Chain(f, HunksOf(body, new), Len(body))

HeadOf(body, new) ==
  <<<<"network-status-diff-version", 1>>, <<"hash", [from |-> body, to |-> new]>>,
    <<"ed", [start |-> Len(body) + 1, end |-> Dollar, act |-> "d"]>>>>

LEMMA MakeDiffIs ==
  ASSUME NEW old, NEW new
  PROVE  LET body == Digested(old)
         IN MakeDiff(old, new) = HeadOf(body, new) \o AllOf(body, new)[Len(body)]
BY DEF MakeDiff, Chain, HeadOf, AllOf, HunksOf, HunkAt, HunkOf, KeptAt, Later, NextOf, FromOf,
       UptoOf, PlaceOf, FirstIn, BeforeIn

(* The first place of a line, or 0. *)
LEMMA PlaceIs ==
  ASSUME NEW text, Len(text) \in Nat, NEW line
  PROVE  /\ PlaceOf(line, text) \in 0..Len(text)
         /\ PlaceOf(line, text) # 0 => text[PlaceOf(line, text)] = line
         /\ \A n \in 1..Len(text) : text[n] = line => PlaceOf(line, text) # 0
<1> DEFINE at == {n \in 1..Len(text) : text[n] = line}
           p == CHOOSE n \in at : \A m \in at : n <= m
<1>1. CASE at = {}
  BY <1>1 DEF PlaceOf
<1>2. CASE at # {}
  <2>1. at \subseteq Nat
    OBVIOUS
  <2>2. \E n \in at : \A m \in at : n <= m
    BY <1>2, <2>1, LeastOf
  <2>3. p \in at
    BY <2>2
  <2>4. p \in 1..Len(text) /\ text[p] = line
    BY <2>3
  <2> HIDE DEF p
  <2>5. PlaceOf(line, text) = p
    BY <1>2 DEF PlaceOf, p
  <2> QED BY <2>4, <2>5
<1> QED BY <1>1, <1>2

(* The next line that is kept. *)
LEMMA NextIs ==
  ASSUME NEW body, Len(body) \in Nat, NEW new, NEW n \in 0..Len(body)
  PROVE  /\ NextOf(body, new, n) \in (n + 1)..(Len(body) + 1)
         /\ \A k \in (n + 1)..(NextOf(body, new, n) - 1) : ~KeptAt(body, new, k)
         /\ \/ /\ NextOf(body, new, n) = Len(body) + 1 /\ Later(body, new, n) = {}
               /\ UptoOf(body, new, n) = Len(new)
            \/ /\ NextOf(body, new, n) \in (n + 1)..Len(body)
               /\ KeptAt(body, new, NextOf(body, new, n))
               /\ UptoOf(body, new, n) = PlaceOf(body[NextOf(body, new, n)], new) - 1
<1> DEFINE later == Later(body, new, n)
           p == CHOOSE m \in later : \A k \in later : m <= k
           L == Len(body)
<1>1. CASE later = {}
  <2>1. NextOf(body, new, n) = L + 1 /\ UptoOf(body, new, n) = Len(new)
    BY <1>1 DEF NextOf, UptoOf, FirstIn, BeforeIn
  <2>2. \A k \in (n + 1)..L : ~KeptAt(body, new, k)
    BY <1>1 DEF Later
  <2>3. L + 1 \in (n + 1)..(L + 1) /\ (L + 1) - 1 = L
    OBVIOUS
  <2> QED BY <1>1, <2>1, <2>2, <2>3
<1>2. CASE later # {}
  <2>1. later \subseteq Nat
    BY DEF Later
  <2>2. \E m \in later : \A k \in later : m <= k
    BY <1>2, <2>1, LeastOf
  <2>3. p \in later /\ \A k \in later : p <= k
    BY <2>2
  <2>4. NextOf(body, new, n) = p /\ UptoOf(body, new, n) = PlaceOf(body[p], new) - 1
    BY <1>2 DEF NextOf, UptoOf, FirstIn, BeforeIn
  <2> HIDE DEF p
  <2>5. p \in (n + 1)..L /\ KeptAt(body, new, p)
    BY <2>3 DEF Later
  <2>6. ASSUME NEW k \in (n + 1)..(p - 1) PROVE ~KeptAt(body, new, k)
    <3>1. k \in (n + 1)..L /\ ~(p <= k)
      BY <2>5
    <3> QED BY <2>3, <3>1 DEF Later
  <2>7. p \in (n + 1)..(L + 1)
    BY <2>5
  <2> QED BY <2>4, <2>5, <2>6, <2>7
<1> QED BY <1>1, <1>2

(* A hunk is lines of edits. *)
LEMMA HunksAre ==
  ASSUME NEW body, Len(body) \in Nat, NEW B, NEW new \in Seq(B)
  PROVE  HunksOf(body, new) \in [0..Len(body) -> Seq(Edits(new))]
<1> DEFINE U == Edits(new)
<1> SUFFICES ASSUME NEW n \in 0..Len(body) PROVE HunkAt(body, new, n) \in Seq(U)
  BY DEF HunksOf
<1> DEFINE next == NextOf(body, new, n)
           from == FromOf(body, new, n)
           upto == UptoOf(body, new, n)
           data == SubSeq(new, from, upto)
           Ed(p, q, a) == <<"ed", [start |-> p, end |-> q, act |-> a]>>
<1>1. HunkAt(body, new, n) = IF ~KeptAt(body, new, n) THEN <<>>
                             ELSE IF next = n + 1 /\ upto < from THEN <<>>
                             ELSE HunkOf(n + 1, next - 1, data)
  BY DEF HunkAt
<1>2. Len(new) \in Nat /\ next \in Int
  BY NextIs
<1>3. from \in Int /\ from >= 1 /\ upto \in Int /\ upto <= Len(new)
  <2>1. PlaceOf(body[n], new) \in 0..Len(new) /\ PlaceOf(body[next], new) \in 0..Len(new)
    BY <1>2, PlaceIs
  <2>2. upto = Len(new) \/ upto = PlaceOf(body[next], new) - 1
    BY NextIs
  <2>3. from = 1 \/ from = PlaceOf(body[n], new) + 1
    BY DEF FromOf
  <2> HIDE DEF from, upto
  <2> QED BY <1>2, <2>1, <2>2, <2>3
<1> HIDE DEF next, from, upto
<1>4. data \in Seq(U)
  <2>1. data \in Seq({new[i] : i \in 1..Len(new)})
    BY <1>3, PartOf
  <2>2. {new[i] : i \in 1..Len(new)} \subseteq U
    BY DEF Edits
  <2> HIDE DEF data, U
  <2> QED BY <2>1, <2>2
<1>5. n + 1 \in Int /\ next - 1 \in Int
  BY <1>2
<1>6. \A p \in Int, q \in Int, a \in {"a", "c", "d"} : Ed(p, q, a) \in U
  BY DEF Edits
<1>7. Dot \in U
  BY DEF Edits
<1>8. HunkOf(n + 1, next - 1, data) =
        IF data = <<>> THEN <<Ed(n + 1, next - 1, "d")>>
        ELSE IF next - 1 < n + 1 THEN <<Ed(next - 1, next - 1, "a")>> \o data \o <<Dot>>
        ELSE <<Ed(n + 1, next - 1, "c")>> \o data \o <<Dot>>
  BY DEF HunkOf
<1> HIDE DEF Ed, U, data
<1>9. /\ <<Ed(n + 1, next - 1, "d")>> \in Seq(U) /\ <<Ed(next - 1, next - 1, "a")>> \in Seq(U)
      /\ <<Ed(n + 1, next - 1, "c")>> \in Seq(U) /\ <<Dot>> \in Seq(U) /\ <<>> \in Seq(U)
  BY <1>5, <1>6, <1>7
<1>10. HunkOf(n + 1, next - 1, data) \in Seq(U)
  <2>1. /\ <<Ed(next - 1, next - 1, "a")>> \o data \o <<Dot>> \in Seq(U)
        /\ <<Ed(n + 1, next - 1, "c")>> \o data \o <<Dot>> \in Seq(U)
    BY <1>4, <1>9
  <2> QED BY <1>8, <1>9, <2>1
<1> QED BY <1>1, <1>9, <1>10

(* The hunks one after the other. *)
LEMMA ChainsAre ==
  ASSUME NEW U, NEW L \in Nat, NEW hunks \in [0..L -> Seq(U)],
         NEW f, f = CHOOSE g : Chain(g, hunks, L)
  PROVE  /\ f[0] = hunks[0] /\ \A n \in 1..L : f[n] = hunks[n] \o f[n - 1]
         /\ \A n \in 0..L : f[n] \in Seq(U)
<1> DEFINE UpTo(n) == {g \in [0..n -> Seq(U)] :
             \A i \in 0..n : g[i] = IF i = 0 THEN hunks[0] ELSE hunks[i] \o g[i - 1]}
           T == {n \in 0..L : UpTo(n) # {}}
<1>1. 0 \in T
  <2> DEFINE g == [i \in 0..0 |-> hunks[0]]
  <2>1. g \in [0..0 -> Seq(U)] /\ g[0] = hunks[0] /\ \A i \in 0..0 : i = 0
    OBVIOUS
  <2> HIDE DEF g
  <2>2. UpTo(0) # {}
    BY <2>1
  <2> QED BY <2>2
<1>2. ASSUME NEW n \in 0..(L - 1), n \in T PROVE n + 1 \in T
  <2>1. PICK g \in [0..n -> Seq(U)] :
          \A i \in 0..n : g[i] = IF i = 0 THEN hunks[0] ELSE hunks[i] \o g[i - 1]
    BY <1>2
  <2> DEFINE h == [i \in 0..(n + 1) |-> IF i = n + 1 THEN hunks[n + 1] \o g[n] ELSE g[i]]
  <2>2. g[n] \in Seq(U) /\ hunks[n + 1] \in Seq(U) /\ n + 1 \in 0..L
    <3>1. n \in 0..n /\ n + 1 \in 0..L
      OBVIOUS
    <3> QED BY <2>1, <3>1
  <2>3. h \in [0..(n + 1) -> Seq(U)]
    <3>1. \A i \in 0..(n + 1) : i # n + 1 => i \in 0..n
      OBVIOUS
    <3>2. hunks[n + 1] \o g[n] \in Seq(U)
      BY <2>2
    <3> QED BY <2>1, <3>1, <3>2
  <2>4. ASSUME NEW i \in 0..(n + 1) PROVE h[i] = IF i = 0 THEN hunks[0] ELSE hunks[i] \o h[i - 1]
    <3>1. CASE i = n + 1
      <4>1. i # 0 /\ i - 1 = n /\ n \in 0..(n + 1) /\ n # n + 1
        BY <3>1
      <4>2. h[n] = g[n] /\ h[i] = hunks[i] \o g[n]
        BY <3>1, <4>1
      <4> HIDE DEF h
      <4> QED BY <4>1, <4>2
    <3>2. CASE i # n + 1
      <4>1. i \in 0..n /\ (i # 0 => i - 1 \in 0..(n + 1) /\ i - 1 # n + 1)
        BY <3>2
      <4>2. h[i] = g[i] /\ (i # 0 => h[i - 1] = g[i - 1])
        BY <3>2, <4>1
      <4> HIDE DEF h
      <4> QED BY <2>1, <4>1, <4>2
    <3> QED BY <3>1, <3>2
  <2> HIDE DEF h
  <2>5. UpTo(n + 1) # {}
    BY <2>3, <2>4
  <2> QED BY <2>2, <2>5
<1>3. L \in T
  <2> HIDE DEF T
  <2>1. \A n \in 0..L : n \in T
    BY <1>1, <1>2, Upward
  <2> QED BY <2>1
<1>4. PICK g \in [0..L -> Seq(U)] :
        \A i \in 0..L : g[i] = IF i = 0 THEN hunks[0] ELSE hunks[i] \o g[i - 1]
  BY <1>3
<1>5. Chain(g, hunks, L)
  <2> DEFINE h == [i \in 0..L |-> IF i = 0 THEN hunks[0] ELSE hunks[i] \o g[i - 1]]
  <2>1. \A i \in 0..L : g[i] = h[i]
    BY <1>4
  <2>2. g = h
    BY <1>4, <2>1
  <2> QED BY <2>2 DEF Chain
<1>6. Chain(f, hunks, L)
  BY <1>5
<1>7. \A i \in 0..L : f[i] = IF i = 0 THEN hunks[0] ELSE hunks[i] \o f[i - 1]
  BY <1>6 DEF Chain
<1>8. f[0] = hunks[0] /\ \A n \in 1..L : f[n] = hunks[n] \o f[n - 1]
  <2>1. 0 \in 0..L /\ \A n \in 1..L : n \in 0..L /\ n # 0
    OBVIOUS
  <2> QED BY <1>7, <2>1
<1> DEFINE V == {n \in 0..L : f[n] \in Seq(U)}
<1>9. 0 \in V
  BY <1>8
<1>10. ASSUME NEW n \in 0..(L - 1), n \in V PROVE n + 1 \in V
  <2>1. n + 1 \in 1..L /\ n + 1 \in 0..L /\ (n + 1) - 1 = n
    OBVIOUS
  <2>2. f[n + 1] = hunks[n + 1] \o f[n]
    BY <1>8, <2>1
  <2>3. hunks[n + 1] \in Seq(U) /\ f[n] \in Seq(U)
    BY <1>10, <2>1
  <2>4. hunks[n + 1] \o f[n] \in Seq(U)
    BY <2>3
  <2> QED BY <2>1, <2>2, <2>4
<1>11. \A n \in 0..L : n \in V
  <2> HIDE DEF V
  <2> QED BY <1>9, <1>10, Upward
<1> QED BY <1>8, <1>11

(* A text edited: its first lines, others, and what follows a later line. *)
Edited(lines, data, first, after) ==
  SubSeq(lines, 1, first) \o data \o SubSeq(lines, after + 1, Len(lines))

IsEdited(r, A, lines, data, first, after) ==
  /\ r \in Seq(A)
  /\ Len(r) = first + Len(data) + (Len(lines) - after)
  /\ \A i \in 1..first : r[i] = lines[i]
  /\ \A i \in 1..Len(data) : r[first + i] = data[i]
  /\ \A i \in 1..(Len(lines) - after) : r[first + Len(data) + i] = lines[after + i]

LEMMA EditedIs ==
  ASSUME NEW A, NEW lines \in Seq(A), NEW data \in Seq(A),
         NEW first \in 0..Len(lines), NEW after \in first..Len(lines)
  PROVE  IsEdited(Edited(lines, data, first, after), A, lines, data, first, after)
<1> DEFINE a == SubSeq(lines, 1, first)
           b == SubSeq(lines, after + 1, Len(lines))
           m == a \o data
<1>1. Len(lines) \in Nat /\ first \in Nat /\ after \in Nat
  OBVIOUS
<1>2. a \in Seq(A) /\ Len(a) = first /\ \A i \in 1..first : a[i] = lines[i]
  <2>1. a = [i \in 1..first |-> lines[i]]
    OBVIOUS
  <2>2. \A i \in 1..first : lines[i] \in A
    OBVIOUS
  <2> QED BY <1>1, <2>1, <2>2
<1>3. /\ b \in Seq(A) /\ Len(b) = Len(lines) - after
      /\ \A i \in 1..(Len(lines) - after) : b[i] = lines[after + i]
  <2>1. \A i \in 1..(Len(lines) - after) :
          after + i \in 1..Len(lines) /\ i + (after + 1) - 1 = after + i
    BY <1>1
  <2>2. b = [i \in 1..(Len(lines) - after) |-> lines[i + (after + 1) - 1]]
    BY <1>1
  <2>3. \A i \in 1..(Len(lines) - after) : lines[i + (after + 1) - 1] \in A
    BY <2>1
  <2>4. Len(lines) - after \in Nat
    BY <1>1
  <2> HIDE DEF b
  <2> QED BY <2>1, <2>2, <2>3, <2>4
<1> HIDE DEF a, b
<1>4. /\ m \in Seq(A \union A) /\ Len(m) = Len(a) + Len(data) /\ Len(data) \in Nat
      /\ \A i \in 1..Len(a) : m[i] = a[i]
      /\ \A i \in 1..Len(data) : m[Len(a) + i] = data[i]
  <2>1. a \in Seq(A) /\ data \in Seq(A)
    BY <1>2
  <2> QED BY <2>1, Followed
<1>5. m \in Seq(A)
  <2>1. A \union A = A
    OBVIOUS
  <2> QED BY <1>4, <2>1
<1> HIDE DEF m
<1>6. /\ m \o b \in Seq(A \union A) /\ Len(m \o b) = Len(m) + Len(b)
      /\ \A i \in 1..Len(m) : (m \o b)[i] = m[i]
      /\ \A i \in 1..Len(b) : (m \o b)[Len(m) + i] = b[i]
  <2>1. m \in Seq(A) /\ b \in Seq(A)
    BY <1>3, <1>5
  <2> QED BY <2>1, Followed
<1> DEFINE r == m \o b
<1> HIDE DEF r
<1>7. r \in Seq(A) /\ Len(r) = first + Len(data) + (Len(lines) - after)
  <2>1. A \union A = A
    OBVIOUS
  <2> QED BY <1>2, <1>3, <1>4, <1>6, <2>1 DEF r
<1>8. \A i \in 1..first : r[i] = lines[i]
  <2>1. \A i \in 1..first : i \in 1..Len(m)
    BY <1>1, <1>2, <1>4
  <2> QED BY <1>2, <1>4, <1>6, <2>1 DEF r
<1>9. \A i \in 1..Len(data) : r[first + i] = data[i]
  <2>1. \A i \in 1..Len(data) : first + i \in 1..Len(m)
    BY <1>1, <1>2, <1>4
  <2> QED BY <1>2, <1>4, <1>6, <2>1 DEF r
<1>10. \A i \in 1..(Len(lines) - after) : r[first + Len(data) + i] = lines[after + i]
  BY <1>2, <1>3, <1>4, <1>6 DEF r
<1> QED BY <1>7, <1>8, <1>9, <1>10 DEF Edited, IsEdited, r, m, a, b

(* The first lines of one text, and another from one of its lines. *)
Mixed(lines, A, body, new, m, q) ==
  /\ lines \in Seq(A) /\ m \in 0..Len(body) /\ q \in 0..Len(new)
  /\ Len(lines) = m + (Len(new) - q)
  /\ \A i \in 1..m : lines[i] = body[i]
  /\ \A i \in 1..(Len(new) - q) : lines[m + i] = new[q + i]

(* An edit that puts lines of the new text for those of the old. *)
LEMMA MixedMore ==
  ASSUME NEW A, NEW body \in Seq(A), NEW new \in Seq(A), NEW lines,
         NEW m, NEW q, Mixed(lines, A, body, new, m, q),
         NEW first \in 0..m, NEW from \in 0..q, NEW data \in Seq(A), Len(data) = q - from,
         \A i \in 1..Len(data) : data[i] = new[from + i]
  PROVE  Mixed(Edited(lines, data, first, m), A, body, new, first, from)
<1> DEFINE r == Edited(lines, data, first, m)
           N == Len(new)
<1>1. /\ N \in Nat /\ m \in 0..Len(body) /\ q \in 0..N /\ Len(body) \in Nat
      /\ lines \in Seq(A) /\ Len(lines) = m + (N - q)
      /\ \A i \in 1..m : lines[i] = body[i]
      /\ \A i \in 1..(N - q) : lines[m + i] = new[q + i]
  <2> HIDE DEF r
  <2>1. N \in Nat /\ Len(body) \in Nat
    OBVIOUS
  <2> HIDE DEF N
  <2> QED BY <2>1 DEF Mixed, N
<1>2. m \in Nat /\ q \in Nat /\ first \in Nat /\ from \in Nat /\ first <= m /\ from <= q
  BY <1>1
<1>3. first \in 0..Len(lines) /\ m \in first..Len(lines)
  BY <1>1, <1>2
<1>4. /\ r \in Seq(A)
      /\ Len(r) = first + Len(data) + (Len(lines) - m)
      /\ \A i \in 1..first : r[i] = lines[i]
      /\ \A i \in 1..Len(data) : r[first + i] = data[i]
      /\ \A i \in 1..(Len(lines) - m) : r[first + Len(data) + i] = lines[m + i]
  <2>1. lines \in Seq(A)
    BY <1>1
  <2>2. data \in Seq(A)
    OBVIOUS
  <2>3. IsEdited(Edited(lines, data, first, m), A, lines, data, first, m)
    BY <1>3, <2>1, <2>2, EditedIs
  <2> QED BY <2>3 DEF IsEdited
<1> HIDE DEF r, N
<1>5. Len(r) = first + (N - from)
  BY <1>1, <1>2, <1>4
<1>6. \A i \in 1..first : r[i] = body[i]
  BY <1>1, <1>2, <1>4
<1>7. ASSUME NEW i \in 1..(N - from) PROVE r[first + i] = new[from + i]
  <2>1. CASE i <= q - from
    <3>1. i \in 1..Len(data)
      BY <1>1, <1>2, <2>1
    <3> QED BY <1>4, <3>1
  <2>2. CASE i > q - from
    <3> DEFINE j == i - (q - from)
    <3>1. j \in 1..(N - q) /\ j \in 1..(Len(lines) - m)
      BY <1>1, <1>2, <2>2
    <3>2. first + Len(data) + j = first + i /\ q + j = from + i
      BY <1>1, <1>2
    <3>3. r[first + Len(data) + j] = lines[m + j]
      BY <1>4, <3>1
    <3>4. lines[m + j] = new[q + j]
      BY <1>1, <3>1
    <3> QED BY <3>2, <3>3, <3>4
  <2> QED BY <1>1, <1>2, <2>1, <2>2
<1>8. first \in 0..Len(body) /\ from \in 0..N
  BY <1>1, <1>2
<1> QED BY <1>4, <1>5, <1>6, <1>7, <1>8 DEF Mixed, N, r

(* A line that both texts have is of either. *)
LEMMA MixedLine ==
  ASSUME NEW A, NEW body \in Seq(A), NEW new \in Seq(A), NEW lines,
         NEW n \in 1..Len(body), NEW p \in 1..Len(new), Mixed(lines, A, body, new, n, p),
         body[n] = new[p]
  PROVE  Mixed(lines, A, body, new, n - 1, p - 1)
<1>1. /\ Len(new) \in Nat /\ Len(body) \in Nat /\ n \in Nat /\ p \in Nat
      /\ n <= Len(body) /\ p <= Len(new) /\ n >= 1 /\ p >= 1
  OBVIOUS
<1>2. /\ lines \in Seq(A) /\ Len(lines) = n + (Len(new) - p)
      /\ \A i \in 1..n : lines[i] = body[i]
      /\ \A i \in 1..(Len(new) - p) : lines[n + i] = new[p + i]
  BY DEF Mixed
<1>3. Len(lines) = (n - 1) + (Len(new) - (p - 1))
  BY <1>1, <1>2
<1>4. \A i \in 1..(n - 1) : lines[i] = body[i]
  BY <1>1, <1>2
<1>5. ASSUME NEW i \in 1..(Len(new) - (p - 1)) PROVE lines[(n - 1) + i] = new[(p - 1) + i]
  <2>1. CASE i = 1
    <3>1. (n - 1) + i = n /\ (p - 1) + i = p /\ n \in 1..n
      BY <1>1, <2>1
    <3> QED BY <1>2, <3>1
  <2>2. CASE i # 1
    <3>1. i - 1 \in 1..(Len(new) - p) /\ (n - 1) + i = n + (i - 1) /\ (p - 1) + i = p + (i - 1)
      BY <1>1, <2>2
    <3> QED BY <1>2, <3>1
  <2> QED BY <2>1, <2>2
<1>6. n - 1 \in 0..Len(body) /\ p - 1 \in 0..Len(new)
  BY <1>1
<1> QED BY <1>2, <1>3, <1>4, <1>5, <1>6 DEF Mixed

(* All of the new text and none of the old. *)
LEMMA MixedAll ==
  ASSUME NEW A, NEW body, NEW new \in Seq(A), NEW lines, Mixed(lines, A, body, new, 0, 0)
  PROVE  lines = new
<1>1. /\ lines \in Seq(A) /\ Len(new) \in Nat /\ Len(lines) = 0 + (Len(new) - 0)
      /\ \A i \in 1..(Len(new) - 0) : lines[0 + i] = new[0 + i]
  BY DEF Mixed
<1>2. Len(lines) = Len(new)
  BY <1>1
<1>3. \A i \in 1..Len(new) : lines[i] = new[i]
  <2> SUFFICES ASSUME NEW i \in 1..Len(new) PROVE lines[i] = new[i]
    OBVIOUS
  <2>1. i \in 1..(Len(new) - 0) /\ 0 + i = i
    BY <1>1
  <2> QED BY <1>1, <2>1
<1> QED BY <1>1, <1>2, <1>3

(* Applying the first n of some edits, one after the other. *)
Applies(f, acts, lines, n) ==
  /\ DOMAIN f = 0..n /\ f = [i \in 0..n |-> f[i]] /\ f[0] = lines
  /\ \A i \in 1..n : f[i] = ApplyAction(acts[i], f[i - 1])

LEMMA AppliesSome ==
  ASSUME NEW acts, NEW lines, NEW N \in Nat PROVE \E f : Applies(f, acts, lines, N)
<1> DEFINE T == {n \in 0..N : \E f : Applies(f, acts, lines, n)}
<1>1. 0 \in T
  <2> DEFINE f == [i \in 0..0 |-> lines]
  <2>1. Applies(f, acts, lines, 0)
    BY DEF Applies
  <2> QED BY <2>1
<1>2. ASSUME NEW n \in 0..(N - 1), n \in T PROVE n + 1 \in T
  <2>1. PICK f : Applies(f, acts, lines, n)
    BY <1>2
  <2> DEFINE g == [i \in 0..(n + 1) |-> IF i = n + 1 THEN ApplyAction(acts[n + 1], f[n]) ELSE f[i]]
  <2>2. /\ DOMAIN g = 0..(n + 1) /\ g = [i \in 0..(n + 1) |-> g[i]]
        /\ g[n + 1] = ApplyAction(acts[n + 1], f[n]) /\ \A i \in 0..n : g[i] = f[i]
    OBVIOUS
  <2> HIDE DEF g
  <2>3. g[0] = lines
    <3>1. 0 \in 0..n /\ \A i \in 0..n : g[i] = f[i]
      BY <2>2
    <3>2. f[0] = lines
      BY <2>1 DEF Applies
    <3> QED BY <3>1, <3>2
  <2>4. ASSUME NEW i \in 1..(n + 1) PROVE g[i] = ApplyAction(acts[i], g[i - 1])
    <3>1. i - 1 \in 0..n
      OBVIOUS
    <3>2. CASE i = n + 1
      <4>1. i - 1 = n
        BY <3>2
      <4> QED BY <2>2, <3>1, <3>2, <4>1
    <3>3. CASE i # n + 1
      <4>1. i \in 1..n /\ i \in 0..n
        BY <3>3
      <4>2. f[i] = ApplyAction(acts[i], f[i - 1])
        BY <2>1, <4>1 DEF Applies
      <4> QED BY <2>2, <3>1, <4>1, <4>2
    <3> QED BY <3>2, <3>3
  <2>5. Applies(g, acts, lines, n + 1)
    BY <2>2, <2>3, <2>4 DEF Applies
  <2>6. n + 1 \in 0..N
    OBVIOUS
  <2> QED BY <2>5, <2>6
<1> HIDE DEF T
<1>3. \A n \in 0..N : n \in T
  BY <1>1, <1>2, Upward
<1>4. N \in T
  BY <1>3
<1> QED BY <1>4 DEF T

(* There is one way to apply them. *)
LEMMA AppliesOne ==
  ASSUME NEW acts, NEW more, NEW lines, NEW n \in Nat, NEW m \in Nat, n <= m,
         \A i \in 1..n : more[i] = acts[i],
         NEW f, Applies(f, acts, lines, n), NEW g, Applies(g, more, lines, m)
  PROVE  \A i \in 0..n : g[i] = f[i]
<1> DEFINE T == {i \in 0..n : g[i] = f[i]}
<1>1. 0 \in T
  BY DEF Applies
<1>2. ASSUME NEW i \in 0..(n - 1), i \in T PROVE i + 1 \in T
  <2>1. i + 1 \in 1..n /\ i + 1 \in 1..m /\ (i + 1) - 1 = i /\ i + 1 \in 0..n
    OBVIOUS
  <2>2. f[i + 1] = ApplyAction(acts[i + 1], f[i]) /\ g[i + 1] = ApplyAction(more[i + 1], g[i])
    BY <2>1 DEF Applies
  <2> QED BY <1>2, <2>1, <2>2
<1> HIDE DEF T
<1>3. \A i \in 0..n : i \in T
  BY <1>1, <1>2, Upward
<1> QED BY <1>3 DEF T

LEMMA ApplyActionsIs ==
  ASSUME NEW acts, Len(acts) \in Nat, NEW lines
  PROVE  \E f : /\ Applies(f, acts, lines, Len(acts))
                /\ ApplyActions(acts, lines) = f[Len(acts)]
<1> DEFINE L == Len(acts)
           Is(f) == f = [n \in 0..L |-> IF n = 0 THEN lines ELSE ApplyAction(acts[n], f[n - 1])]
<1>1. ASSUME NEW f, Applies(f, acts, lines, L) PROVE Is(f)
  <2> DEFINE g == [n \in 0..L |-> IF n = 0 THEN lines ELSE ApplyAction(acts[n], f[n - 1])]
  <2>0. DOMAIN f = 0..L /\ f = [n \in 0..L |-> f[n]]
    BY <1>1 DEF Applies
  <2>1. ASSUME NEW n \in 0..L PROVE f[n] = g[n]
    <3>1. n = 0 \/ n \in 1..L
      OBVIOUS
    <3> QED BY <1>1, <3>1 DEF Applies
  <2>2. f = g
    BY <2>0, <2>1
  <2> QED BY <2>2
<1>2. ASSUME NEW f, Is(f) PROVE Applies(f, acts, lines, L)
  <2>1. DOMAIN f = 0..L /\ f = [i \in 0..L |-> f[i]] /\ f[0] = lines
    BY <1>2
  <2>2. ASSUME NEW i \in 1..L PROVE f[i] = ApplyAction(acts[i], f[i - 1])
    <3>1. i \in 0..L /\ i # 0
      OBVIOUS
    <3> QED BY <1>2, <3>1
  <2> QED BY <2>1, <2>2 DEF Applies
<1>3. \E f : Applies(f, acts, lines, L)
  BY AppliesSome
<1>4. ApplyActions(acts, lines) = (CHOOSE f : Is(f))[L]
  BY DEF ApplyActions
<1> HIDE DEF Is
<1>5. Is(CHOOSE f : Is(f))
  BY <1>1, <1>3
<1> QED BY <1>2, <1>4, <1>5

(* No edits leave a text as it is; one more is applied after the others. *)
LEMMA AppliedNone ==
  ASSUME NEW lines PROVE ApplyActions(<<>>, lines) = lines
<1>1. Len(<<>>) = 0 /\ Len(<<>>) \in Nat
  OBVIOUS
<1>2. PICK f : Applies(f, <<>>, lines, 0) /\ ApplyActions(<<>>, lines) = f[0]
  BY <1>1, ApplyActionsIs
<1> QED BY <1>2 DEF Applies

LEMMA AppliedMore ==
  ASSUME NEW X, NEW acts \in Seq(X), NEW a \in X, NEW lines
  PROVE  ApplyActions(Append(acts, a), lines) = ApplyAction(a, ApplyActions(acts, lines))
<1> DEFINE n == Len(acts)
           more == Append(acts, a)
<1>1. n \in Nat /\ Len(more) = n + 1 /\ more[n + 1] = a /\ \A i \in 1..n : more[i] = acts[i]
  OBVIOUS
<1> HIDE DEF n, more
<1>2. PICK f : Applies(f, acts, lines, n) /\ ApplyActions(acts, lines) = f[n]
  <2>1. Len(acts) \in Nat /\ n = Len(acts)
    BY DEF n
  <2> QED BY <2>1, ApplyActionsIs
<1>3. PICK g : Applies(g, more, lines, n + 1) /\ ApplyActions(more, lines) = g[n + 1]
  <2>1. Len(more) \in Nat /\ n + 1 = Len(more)
    BY <1>1
  <2> QED BY <2>1, ApplyActionsIs
<1>4. n + 1 \in Nat /\ n <= n + 1 /\ n \in 0..n /\ n + 1 \in 1..(n + 1) /\ (n + 1) - 1 = n
  BY <1>1
<1>5. \A i \in 0..n : g[i] = f[i]
  <2> DEFINE m == n + 1
  <2>1. n \in Nat /\ m \in Nat /\ n <= m /\ Applies(g, more, lines, m)
    BY <1>1, <1>3, <1>4
  <2> HIDE DEF m
  <2> QED BY <1>1, <1>2, <2>1, AppliesOne
<1>6. g[n + 1] = ApplyAction(a, g[n])
  BY <1>1, <1>3, <1>4 DEF Applies
<1>7. g[n] = f[n]
  BY <1>4, <1>5
<1> QED BY <1>2, <1>3, <1>6, <1>7 DEF more

(* What an edit does to a text. *)
LEMMA ApplyActionIs ==
  ASSUME NEW p, NEW q, NEW act, NEW data, NEW lines, NEW a,
         a = Put([start |-> p, end |-> q, act |-> act], "data", data)
  PROVE  /\ act = "a" => ApplyAction(a, lines) = Edited(lines, data, p, p)
         /\ act # "a" /\ q = Dollar =>
              ApplyAction(a, lines) = Edited(lines, data, p - 1, Len(lines))
         /\ act # "a" /\ q # Dollar =>
              ApplyAction(a, lines) = Edited(lines, data, p - 1, q)
<1>1. a.start = p /\ a.end = q /\ a.act = act /\ a.data = data
  BY DEF Put
<1> QED BY <1>1 DEF ApplyAction, Edited

(* What has been read of a diff holds the digests it states. *)
DiffFields(fields, hash) ==
  /\ {"network-status-diff-version", "hash"} \subseteq DOMAIN fields /\ fields["hash"] = hash
  /\ \E X : Field(fields, "actions") \in Seq(X)

LEMMA DiffIsClass ==
  /\ StatusDiff.start = "network-status-diff-version" /\ StatusDiff.items = {"hash"}
  /\ DOMAIN StatusDiff.lists = {"ed"} /\ StatusDiff.lists["ed"] = "actions"
  /\ StatusDiff.objects = {} /\ StatusDiff.built = {}
BY DEF StatusDiff

(* One more edit. *)
LEMMA AddEdit ==
  ASSUME NEW fields, NEW hash, DiffFields(fields, hash), NEW v, NEW base
  PROVE  /\ DiffFields(AddTo(fields, "actions", v), hash)
         /\ ApplyActions(Field(AddTo(fields, "actions", v), "actions"), base) =
              ApplyAction(v, ApplyActions(Field(fields, "actions"), base))
<1> DEFINE acts == Field(fields, "actions")
           more == AddTo(fields, "actions", v)
<1>1. PICK X : acts \in Seq(X)
  BY DEF DiffFields
<1>2. /\ DOMAIN more = {"actions"} \union DOMAIN fields /\ more["actions"] = Append(acts, v)
      /\ \A x \in DOMAIN fields : x # "actions" => more[x] = fields[x]
  <2> DEFINE w == Append(acts, v)
             put == Put(fields, "actions", w)
  <2>1. more = put
    BY DEF AddTo
  <2> HIDE DEF acts, more, w
  <2>2. /\ DOMAIN put = {"actions"} \union DOMAIN fields /\ put["actions"] = w
        /\ \A x \in DOMAIN fields : x # "actions" => put[x] = fields[x]
    BY DEF Put
  <2> HIDE DEF put
  <2> QED BY <2>1, <2>2 DEF w
<1>3. Field(more, "actions") = Append(acts, v)
  BY <1>2 DEF Field
<1> DEFINE Y == X \union {v}
<1>4. acts \in Seq(Y) /\ v \in Y
  BY <1>1
<1> HIDE DEF Y, acts, more
<1>5. Append(acts, v) \in Seq(Y)
  BY <1>4
<1>6. ApplyActions(Append(acts, v), base) = ApplyAction(v, ApplyActions(acts, base))
  BY <1>4, AppliedMore
<1>7. DiffFields(more, hash)
  <2>1. "hash" \in DOMAIN fields /\ "hash" # "actions"
    BY DEF DiffFields
  <2>2. more["hash"] = hash
    BY <1>2, <2>1 DEF DiffFields
  <2>3. {"network-status-diff-version", "hash"} \subseteq DOMAIN more
    BY <1>2 DEF DiffFields
  <2> QED BY <1>3, <1>5, <2>2, <2>3 DEF DiffFields
<1> QED BY <1>3, <1>6, <1>7 DEF acts, more

(* The line after the first p of a diff is an edit.                         *)
EditAt(T, f, hash, p, rest) ==
  /\ Reads(StatusDiff, T, Len(T), f) /\ Len(T) \in Nat /\ p \in Nat /\ p + 1 \in 1..Len(T)
  /\ f[p].next = p + 1 /\ DiffFields(f[p].fields, hash)
  /\ T[p + 1][1] = "ed" /\ T[p + 1][2] = rest
  /\ rest.end = Dollar \/ ~(rest.end < rest.start)

(* An edit without lines. *)
LEMMA ReadDelete ==
  ASSUME NEW T, NEW f, NEW hash, NEW p, NEW rest, EditAt(T, f, hash, p, rest), rest.act = "d"
  PROVE  /\ f[p + 1].next = (p + 1) + 1
         /\ f[p + 1].fields = AddTo(f[p].fields, "actions", Put(rest, "data", <<>>))
<1>1. f[p + 1] = ReadLine(StatusDiff, T, p + 1, f[p].fields)
  <2>1. (p + 1) - 1 = p /\ ~(p + 1 < p + 1) /\ p + 1 \in 1..Len(T)
    BY DEF EditAt
  <2> QED BY <2>1 DEF EditAt, Reads
<1>2. /\ T[p + 1][1] = "ed" /\ T[p + 1][2] = rest /\ p \in Nat /\ Len(T) \in Nat
      /\ rest.end = Dollar \/ ~(rest.end < rest.start)
  BY DEF EditAt
<1>3. Item(T, p + 1) = [ok |-> TRUE, value |-> Put(rest, "data", <<>>), next |-> (p + 1) + 1]
  BY <1>2 DEF Item, Multi
<1>4. Item(T, p + 1).ok /\ Item(T, p + 1).value = Put(rest, "data", <<>>)
      /\ Item(T, p + 1).next = (p + 1) + 1
  BY <1>3
<1>5. StatusDiff.start \in DOMAIN f[p].fields
  BY DiffIsClass DEF EditAt, DiffFields
<1>6. "ed" \in StatusDiff.items \union DOMAIN StatusDiff.lists /\ "ed" \in DOMAIN StatusDiff.lists
      /\ StatusDiff.lists["ed"] = "actions" /\ "ed" # StatusDiff.start
  BY DiffIsClass
<1> QED BY <1>1, <1>2, <1>4, <1>5, <1>6 DEF ReadLine

(* The first line at which a block may end. *)
LEMMA BlockEndIs ==
  ASSUME NEW T, Len(T) \in Nat, NEW i \in Nat, NEW d \in i..Len(T), NEW last, T[d] = last,
         \A j \in i..(d - 1) : T[j] # last
  PROVE  BlockEnd(T, i, last) = d
<1> DEFINE ends == {n \in i..Len(T) : T[n] = last}
           k == CHOOSE n \in ends : \A m \in ends : n <= m
<1>1. d \in ends /\ ends # {}
  OBVIOUS
<1>2. \A m \in ends : d <= m
  <2> SUFFICES ASSUME NEW m \in i..Len(T), T[m] = last, ~(d <= m) PROVE FALSE
    OBVIOUS
  <2>1. m \in i..(d - 1)
    OBVIOUS
  <2> QED BY <2>1
<1>3. k \in ends /\ \A m \in ends : k <= m
  BY <1>1, <1>2
<1>4. BlockEnd(T, i, last) = k
  BY <1>1 DEF BlockEnd
<1>5. k \in i..Len(T) /\ k <= d /\ d <= k
  BY <1>1, <1>2, <1>3
<1> HIDE DEF k
<1> QED BY <1>4, <1>5

(* The dot its lines end in. *)
DotAt(T, p, d) ==
  d \in (p + 2)..Len(T) /\ T[d] = Dot /\ \A j \in (p + 2)..(d - 1) : T[j] # Dot

(* An edit with lines. *)
LEMMA ReadEdit ==
  ASSUME NEW T, NEW f, NEW hash, NEW p, NEW rest, EditAt(T, f, hash, p, rest), rest.act # "d",
         NEW d, DotAt(T, p, d)
  PROVE  /\ f[d].next = d + 1
         /\ f[d].fields = AddTo(f[p].fields, "actions",
                                Put(rest, "data", SubSeq(T, p + 2, d - 1)))
<1> DEFINE value == Put(rest, "data", SubSeq(T, p + 2, d - 1))
<1> d \in (p + 2)..Len(T) /\ T[d] = Dot /\ \A j \in (p + 2)..(d - 1) : T[j] # Dot
  BY DEF DotAt
<1>1. f[p + 1] = ReadLine(StatusDiff, T, p + 1, f[p].fields)
  <2>1. (p + 1) - 1 = p /\ ~(p + 1 < p + 1) /\ p + 1 \in 1..Len(T)
    BY DEF EditAt
  <2> QED BY <2>1 DEF EditAt, Reads
<1>2. /\ T[p + 1][1] = "ed" /\ T[p + 1][2] = rest /\ p \in Nat /\ Len(T) \in Nat
      /\ rest.end = Dollar \/ ~(rest.end < rest.start)
  BY DEF EditAt
<1>3. Item(T, p + 1) = [ok |-> TRUE, value |-> value, next |-> d + 1]
  <2>1. BlockEnd(T, p + 2, Dot) = d
    <3>1. p + 2 \in Nat /\ Len(T) \in Nat
      BY <1>2
    <3> QED BY <3>1, BlockEndIs
  <2>2. (p + 1) + 1 = p + 2
    BY <1>2
  <2>3. BlockEnd(T, (p + 1) + 1, Dot) = d
    BY <2>1, <2>2
  <2>4. Put(rest, "data", SubSeq(T, (p + 1) + 1, d - 1)) = value
    BY <2>2
  <2> HIDE DEF value
  <2> QED BY <1>2, <2>3, <2>4 DEF Item, Multi
<1> HIDE DEF value
<1>4. Item(T, p + 1).ok /\ Item(T, p + 1).value = value /\ Item(T, p + 1).next = d + 1
  BY <1>3
<1>5. StatusDiff.start \in DOMAIN f[p].fields
  BY DiffIsClass DEF EditAt, DiffFields
<1>6. "ed" \in StatusDiff.items \union DOMAIN StatusDiff.lists /\ "ed" \in DOMAIN StatusDiff.lists
      /\ StatusDiff.lists["ed"] = "actions" /\ "ed" # StatusDiff.start
  BY DiffIsClass
<1>7. f[p + 1] = [next |-> d + 1, fields |-> AddTo(f[p].fields, "actions", value)]
  BY <1>1, <1>2, <1>4, <1>5, <1>6 DEF ReadLine
<1> DEFINE V == {k \in 0..(d - (p + 1)) : f[(p + 1) + k] = f[p + 1]}
<1>8. d - (p + 1) \in Nat /\ 0 \in V
  BY <1>2, <1>7
<1>9. ASSUME NEW k \in 0..((d - (p + 1)) - 1), k \in V PROVE k + 1 \in V
  <2> DEFINE i == (p + 1) + (k + 1)
  <2>0. d \in Nat /\ d <= Len(T) /\ k \in Nat /\ k <= d - (p + 2)
    BY <1>2
  <2>1. i \in 1..Len(T) /\ i - 1 = (p + 1) + k /\ i < d + 1 /\ k + 1 \in 0..(d - (p + 1))
    <3> HIDE DEF V
    <3> QED BY <1>2, <2>0
  <2>2. f[i - 1] = f[p + 1] /\ f[p + 1].next = d + 1
    BY <1>7, <1>9, <2>1
  <2> HIDE DEF i
  <2>3. f[i] = f[i - 1]
    BY <2>1, <2>2 DEF EditAt, Reads
  <2> QED BY <2>1, <2>2, <2>3 DEF i
<1> DEFINE D == d - (p + 1)
<1>10. \A k \in 0..D : k \in V
  <2>1. D \in Nat /\ 0 \in V /\ \A k \in 0..(D - 1) : k \in V => k + 1 \in V
    BY <1>8, <1>9
  <2> HIDE DEF V, D
  <2> QED BY <2>1, Upward
<1>11. D \in V /\ (p + 1) + D = d
  <2>1. D \in 0..D /\ (p + 1) + D = d
    BY <1>2, <1>8
  <2> HIDE DEF V, D
  <2> QED BY <1>10, <2>1
<1>12. f[d] = f[p + 1]
  <2>1. ASSUME NEW k \in V PROVE f[(p + 1) + k] = f[p + 1]
    OBVIOUS
  <2> HIDE DEF V, D
  <2>2. f[(p + 1) + D] = f[p + 1]
    <3>1. D \in V
      BY <1>11
    <3> QED BY <2>1, <3>1
  <2> QED BY <1>11, <2>2
<1>13. f[p + 1].next = d + 1 /\ f[p + 1].fields = AddTo(f[p].fields, "actions", value)
  BY <1>7
<1>14. f[d].next = d + 1 /\ f[d].fields = AddTo(f[p].fields, "actions", value)
  BY <1>12, <1>13
<1> QED BY <1>14 DEF value

(* The lines of an edit with lines. *)
Block(ed, data) == <<ed>> \o data \o <<Dot>>

LEMMA BlockIs ==
  ASSUME NEW A, NEW data \in Seq(A), NEW ed
  PROVE  /\ Len(Block(ed, data)) = Len(data) + 2 /\ Len(data) \in Nat
         /\ Block(ed, data)[1] = ed /\ Block(ed, data)[Len(data) + 2] = Dot
         /\ \A i \in 1..Len(data) : Block(ed, data)[1 + i] = data[i]
<1> DEFINE a == <<ed>>
           b == a \o data
           z == <<Dot>>
<1>1. a \in Seq({ed}) /\ Len(a) = 1 /\ a[1] = ed /\ z \in Seq({Dot}) /\ Len(z) = 1 /\ z[1] = Dot
  OBVIOUS
<1> HIDE DEF a, z
<1>2. /\ b \in Seq({ed} \union A) /\ Len(b) = Len(a) + Len(data) /\ Len(data) \in Nat
      /\ \A i \in 1..Len(a) : b[i] = a[i]
      /\ \A i \in 1..Len(data) : b[Len(a) + i] = data[i]
  <2>1. a \in Seq({ed})
    BY <1>1
  <2>2. data \in Seq(A)
    OBVIOUS
  <2> QED BY <2>1, <2>2, Followed
<1> HIDE DEF b
<1>3. /\ Len(b \o z) = Len(b) + Len(z)
      /\ \A i \in 1..Len(b) : (b \o z)[i] = b[i]
      /\ \A i \in 1..Len(z) : (b \o z)[Len(b) + i] = z[i]
  <2>1. b \in Seq({ed} \union A) /\ z \in Seq({Dot})
    BY <1>1, <1>2
  <2> QED BY <2>1, Followed
<1> DEFINE r == b \o z
<1> HIDE DEF r
<1>4. Len(r) = Len(data) + 2 /\ Len(b) = Len(data) + 1
  BY <1>1, <1>2, <1>3 DEF r
<1>5. r[1] = ed
  <2>1. 1 \in 1..Len(b) /\ 1 \in 1..Len(a)
    BY <1>1, <1>2, <1>4
  <2> QED BY <1>1, <1>2, <1>3, <2>1 DEF r
<1>6. r[Len(data) + 2] = Dot
  <2>1. 1 \in 1..Len(z) /\ Len(b) + 1 = Len(data) + 2
    BY <1>1, <1>2, <1>4
  <2> QED BY <1>1, <1>3, <2>1 DEF r
<1>7. ASSUME NEW i \in 1..Len(data) PROVE r[1 + i] = data[i]
  <2>1. 1 + i \in 1..Len(b) /\ Len(a) + i = 1 + i
    BY <1>1, <1>2, <1>4
  <2> QED BY <1>2, <1>3, <2>1 DEF r
<1> QED BY <1>2, <1>4, <1>5, <1>6, <1>7 DEF r, b, a, z, Block

(* Lines that stand in a text after its line p. *)
StandsAt(T, p, h) == p + Len(h) <= Len(T) /\ \A i \in 1..Len(h) : T[p + i] = h[i]

(* They are a part of it. *)
LEMMA PartIs ==
  ASSUME NEW B, NEW T \in Seq(B), NEW A, NEW data \in Seq(A), NEW k \in Nat, StandsAt(T, k, data)
  PROVE  SubSeq(T, k + 1, k + Len(data)) = data
<1> k + Len(data) <= Len(T) /\ \A i \in 1..Len(data) : T[k + i] = data[i]
  BY DEF StandsAt
<1> DEFINE r == SubSeq(T, k + 1, k + Len(data))
<1>1. Len(data) \in Nat /\ Len(T) \in Nat
  OBVIOUS
<1>2. r = [i \in 1..Len(data) |-> T[i + (k + 1) - 1]]
  BY <1>1
<1>3. \A i \in 1..Len(data) : T[i + (k + 1) - 1] = data[i]
  <2>1. \A i \in 1..Len(data) : i + (k + 1) - 1 = k + i
    BY <1>1
  <2> QED BY <2>1
<1>4. data = [i \in 1..Len(data) |-> data[i]]
  BY <1>1
<1> HIDE DEF r
<1> QED BY <1>2, <1>3, <1>4 DEF r

(* What reading p lines of a diff has come to: its edits, applied, give the *)
(* first m lines of the old text and the new one after its line q.          *)
DoneAt(f, p, hash, base, A, body, new, m, q) ==
  /\ f[p].next = p + 1 /\ DiffFields(f[p].fields, hash)
  /\ Mixed(ApplyActions(Field(f[p].fields, "actions"), base), A, body, new, m, q)

LEMMA DeleteDone ==
  ASSUME NEW B, NEW T \in Seq(B), NEW f, Reads(StatusDiff, T, Len(T), f), NEW hash, NEW p \in Nat,
         NEW base, NEW A, NEW body \in Seq(A), NEW new \in Seq(A), NEW m, NEW q,
         DoneAt(f, p, hash, base, A, body, new, m, q), NEW first \in 0..m, first < m,
         p + 1 <= Len(T), T[p + 1] = <<"ed", [start |-> first + 1, end |-> m, act |-> "d"]>>
  PROVE  DoneAt(f, p + 1, hash, base, A, body, new, first, q)
<1> DEFINE rest == [start |-> first + 1, end |-> m, act |-> "d"]
           a == Put(rest, "data", <<>>)
           lines == ApplyActions(Field(f[p].fields, "actions"), base)
           more == AddTo(f[p].fields, "actions", a)
<1>1. /\ f[p].next = p + 1 /\ DiffFields(f[p].fields, hash) /\ Mixed(lines, A, body, new, m, q)
      /\ m \in Nat /\ q \in Nat
  BY DEF DoneAt, Mixed
<1>2. p + 1 \in 1..Len(T) /\ ~(m < first + 1) /\ m # Dollar /\ (first + 1) - 1 = first
  BY <1>1 DEF Dollar
<1>3. f[p + 1].next = (p + 1) + 1 /\ f[p + 1].fields = more
  <2>1. rest.act = "d" /\ rest.end = m /\ rest.start = first + 1
    OBVIOUS
  <2>2. T[p + 1][1] = "ed" /\ T[p + 1][2] = rest
    OBVIOUS
  <2>3. rest.end = Dollar \/ ~(rest.end < rest.start)
    BY <1>2, <2>1
  <2> HIDE DEF rest, lines
  <2>4. EditAt(T, f, hash, p, rest)
    BY <1>1, <1>2, <2>2, <2>3 DEF EditAt
  <2> QED BY <2>1, <2>4, ReadDelete
<1>4. DiffFields(more, hash) /\ ApplyActions(Field(more, "actions"), base) = ApplyAction(a, lines)
  BY <1>1, AddEdit
<1>5. ApplyAction(a, lines) = Edited(lines, <<>>, first, m)
  <2>1. ApplyAction(a, lines) = Edited(lines, <<>>, (first + 1) - 1, m)
    <3> DEFINE s == first + 1
               data == <<>>
    <3>1. a = Put([start |-> s, end |-> m, act |-> "d"], "data", data) /\ "d" # "a"
      OBVIOUS
    <3> HIDE DEF lines, a, s, data
    <3>2. ApplyAction(a, lines) = Edited(lines, data, s - 1, m)
      BY <1>2, <3>1, ApplyActionIs
    <3> QED BY <3>2 DEF s, data
  <2> QED BY <1>2, <2>1
<1> HIDE DEF lines, more
<1>6. Mixed(Edited(lines, <<>>, first, m), A, body, new, first, q)
  <2> DEFINE data == <<>>
  <2>1. /\ data \in Seq(A) /\ Len(data) = q - q /\ q \in 0..q
        /\ \A i \in 1..Len(data) : data[i] = new[q + i]
    BY <1>1
  <2> HIDE DEF data
  <2>2. Mixed(Edited(lines, data, first, m), A, body, new, first, q)
    BY <1>1, <2>1, MixedMore
  <2> QED BY <2>2 DEF data
<1> QED BY <1>3, <1>4, <1>5, <1>6 DEF DoneAt

LEMMA InsertDone ==
  ASSUME NEW B, NEW T \in Seq(B), NEW f, Reads(StatusDiff, T, Len(T), f), NEW hash, NEW p \in Nat,
         NEW base, NEW A, NEW body \in Seq(A), NEW new \in Seq(A), NEW m, NEW q,
         DoneAt(f, p, hash, base, A, body, new, m, q), NEW first \in 0..m, NEW from \in 0..q,
         NEW data \in Seq(A), Len(data) = q - from,
         \A i \in 1..Len(data) : data[i] = new[from + i] /\ data[i] # Dot,
         NEW s, NEW act,
         \/ act = "a" /\ s = m /\ first = m
         \/ act = "c" /\ s = first + 1 /\ first < m,
         StandsAt(T, p, Block(<<"ed", [start |-> s, end |-> m, act |-> act]>>, data))
  PROVE  DoneAt(f, p + (Len(data) + 2), hash, base, A, body, new, first, from)
<1> DEFINE rest == [start |-> s, end |-> m, act |-> act]
           d == p + (Len(data) + 2)
           ed == <<"ed", rest>>
           h == Block(ed, data)
           a == Put(rest, "data", data)
           lines == ApplyActions(Field(f[p].fields, "actions"), base)
           more == AddTo(f[p].fields, "actions", a)
<1>1. /\ f[p].next = p + 1 /\ DiffFields(f[p].fields, hash) /\ Mixed(lines, A, body, new, m, q)
      /\ m \in Nat /\ q \in Nat /\ m # Dollar
  <2> HIDE DEF rest, d, ed, h, a, more
  <2>1. f[p].next = p + 1 /\ DiffFields(f[p].fields, hash) /\ Mixed(lines, A, body, new, m, q)
    BY DEF DoneAt
  <2> HIDE DEF lines
  <2>2. m \in 0..Len(body) /\ q \in 0..Len(new)
    BY <2>1 DEF Mixed
  <2>3. m \in Nat /\ q \in Nat
    BY <2>2
  <2> QED BY <2>1, <2>3 DEF Dollar
<1>2. rest.start = s /\ rest.end = m /\ rest.act = act /\ ed[1] = "ed" /\ ed[2] = rest
  OBVIOUS
<1>3. p + Len(h) <= Len(T) /\ \A i \in 1..Len(h) : T[p + i] = h[i]
  BY DEF StandsAt
<1> HIDE DEF rest, lines, more, h, ed
<1>4. /\ Len(h) = Len(data) + 2 /\ Len(data) \in Nat
      /\ h[1] = ed /\ h[Len(data) + 2] = Dot
      /\ \A i \in 1..Len(data) : h[1 + i] = data[i]
  <2>1. h = Block(ed, data)
    BY DEF h
  <2> QED BY <2>1, BlockIs
<1>5. /\ d \in (p + 2)..Len(T) /\ Len(T) \in Nat /\ p + 1 \in 1..Len(T)
      /\ 1 \in 1..Len(h) /\ Len(data) + 2 \in 1..Len(h)
      /\ \A i \in 1..Len(data) : 1 + i \in 1..Len(h)
  <2>1. Len(T) \in Nat
    OBVIOUS
  <2>2. p + (Len(data) + 2) <= Len(T) /\ Len(h) = Len(data) + 2 /\ Len(data) \in Nat
    BY <1>3, <1>4
  <2>3. d \in (p + 2)..Len(T) /\ p + 1 \in 1..Len(T)
    BY <2>1, <2>2
  <2>4. 1 \in 1..Len(h) /\ Len(data) + 2 \in 1..Len(h)
    BY <2>2
  <2>5. \A i \in 1..Len(data) : 1 + i \in 1..Len(h)
    BY <2>2
  <2> QED BY <2>1, <2>3, <2>4, <2>5
<1>6. T[p + 1] = ed /\ T[d] = Dot
  BY <1>3, <1>4, <1>5
<1>7. ASSUME NEW i \in 1..Len(data) PROVE T[(p + 1) + i] = data[i]
  <2>1. T[p + (1 + i)] = h[1 + i]
    BY <1>3, <1>5
  <2>2. p + (1 + i) = (p + 1) + i
    BY <1>4
  <2> QED BY <1>4, <2>1, <2>2
<1>8. \A j \in (p + 2)..(d - 1) : T[j] # Dot
  <2> SUFFICES ASSUME NEW j \in (p + 2)..(d - 1) PROVE T[j] # Dot
    OBVIOUS
  <2>1. j - (p + 1) \in 1..Len(data) /\ (p + 1) + (j - (p + 1)) = j
    BY <1>4
  <2> QED BY <1>7, <2>1
<1>9. SubSeq(T, p + 2, d - 1) = data
  <2> DEFINE k == p + 1
  <2>0. p + (Len(data) + 2) <= Len(T) /\ Len(data) \in Nat /\ Len(T) \in Nat
    BY <1>3, <1>4
  <2>1. k + Len(data) <= Len(T) /\ k + 1 = p + 2 /\ k + Len(data) = d - 1
    BY <2>0
  <2>2. \A i \in 1..Len(data) : T[k + i] = data[i]
    BY <1>7
  <2>4. k \in Nat
    BY <1>1
  <2> HIDE DEF k, d
  <2>3. SubSeq(T, k + 1, k + Len(data)) = data
    <3>1. StandsAt(T, k, data)
      BY <2>1, <2>2 DEF StandsAt
    <3> QED BY <2>4, <3>1, PartIs
  <2>5. k + 1 = p + 2 /\ k + Len(data) = d - 1
    BY <2>1
  <2> QED BY <2>3, <2>5
<1> HIDE DEF d
<1>10. f[d].next = d + 1 /\ f[d].fields = more
  <2>1. rest.end = Dollar \/ ~(rest.end < rest.start)
    BY <1>1, <1>2
  <2>2. rest.act # "d"
    BY <1>2
  <2>3. EditAt(T, f, hash, p, rest)
    BY <1>1, <1>2, <1>5, <1>6, <2>1 DEF EditAt
  <2>4. /\ f[d].next = d + 1
        /\ f[d].fields = AddTo(f[p].fields, "actions", Put(rest, "data", SubSeq(T, p + 2, d - 1)))
    <3>1. DotAt(T, p, d)
      BY <1>5, <1>6, <1>8 DEF DotAt
    <3> QED BY <2>2, <2>3, <3>1, ReadEdit
  <2> QED BY <1>9, <2>4 DEF more
<1>11. DiffFields(more, hash) /\ ApplyActions(Field(more, "actions"), base) = ApplyAction(a, lines)
  BY <1>1, AddEdit DEF more, lines
<1>12. ApplyAction(a, lines) = Edited(lines, data, first, m)
  <2>1. a = Put([start |-> s, end |-> m, act |-> act], "data", data)
    BY DEF rest
  <2> HIDE DEF a
  <2>2. CASE act = "a" /\ s = m /\ first = m
    BY <2>1, <2>2, ApplyActionIs
  <2>3. CASE act = "c" /\ s = first + 1 /\ first < m
    <3>0. act # "a" /\ m # Dollar
      BY <1>1, <2>3
    <3>1. ApplyAction(a, lines) = Edited(lines, data, s - 1, m)
      BY <2>1, <3>0, ApplyActionIs
    <3>2. s - 1 = first
      BY <1>1, <2>3
    <3> QED BY <3>1, <3>2
  <2> QED BY <2>2, <2>3
<1> HIDE DEF a
<1>13. Mixed(Edited(lines, data, first, m), A, body, new, first, from)
  BY <1>1, MixedMore
<1>14. DoneAt(f, d, hash, base, A, body, new, first, from)
  BY <1>10, <1>11, <1>12, <1>13 DEF DoneAt
<1> QED BY <1>14 DEF d

(* A hunk is the edits it is made of. *)
LEMMA HunkDone ==
  ASSUME NEW B, NEW T \in Seq(B), NEW f, Reads(StatusDiff, T, Len(T), f), NEW hash, NEW p \in Nat,
         NEW base, NEW A, NEW body \in Seq(A), NEW new \in Seq(A),
         \A i \in 1..Len(new) : new[i] # Dot,
         NEW n \in 0..Len(body), KeptAt(body, new, n),
         NEW from, from \in 0..UptoOf(body, new, n), FromOf(body, new, n) = from + 1,
         DoneAt(f, p, hash, base, A, body, new, NextOf(body, new, n) - 1, UptoOf(body, new, n)),
         StandsAt(T, p, HunkAt(body, new, n))
  PROVE  DoneAt(f, p + Len(HunkAt(body, new, n)), hash, base, A, body, new, n, from)
<1> DEFINE next == NextOf(body, new, n)
           upto == UptoOf(body, new, n)
           h == HunkAt(body, new, n)
           data == SubSeq(new, from + 1, upto)
           m == next - 1
<1>1. /\ n \in Nat /\ Len(body) \in Nat /\ Len(new) \in Nat
      /\ next \in (n + 1)..(Len(body) + 1)
  BY NextIs
<1>2. upto \in 0..Len(new) /\ from \in 0..upto
  BY DEF DoneAt, Mixed
<1>3. h = IF next = n + 1 /\ upto < from + 1 THEN <<>> ELSE HunkOf(n + 1, next - 1, data)
  BY DEF HunkAt
<1> HIDE DEF h, data, next, upto
<1>4. /\ data \in Seq(A) /\ Len(data) = upto - from
      /\ \A i \in 1..(upto - from) : data[i] = new[from + i]
  BY <1>2, SubIs DEF data
<1>5. \A i \in 1..Len(data) : data[i] = new[from + i] /\ data[i] # Dot
  <2> SUFFICES ASSUME NEW i \in 1..Len(data) PROVE data[i] = new[from + i] /\ data[i] # Dot
    OBVIOUS
  <2>1. i \in 1..(upto - from)
    BY <1>4
  <2>2. from + i \in 1..Len(new)
    BY <1>1, <1>2, <2>1
  <2> QED BY <1>4, <2>1, <2>2
<1>6. m \in Nat /\ n \in 0..m /\ upto \in Nat /\ from \in Nat /\ from <= upto /\ m + 1 = next
  BY <1>1, <1>2
<1>7. DoneAt(f, p, hash, base, A, body, new, m, upto) /\ StandsAt(T, p, h)
  BY DEF next, upto, h
<1> HIDE DEF m
<1>8. CASE next = n + 1 /\ upto < from + 1
  <2>1. h = <<>> /\ Len(<<>>) = 0 /\ p + 0 = p
    BY <1>3, <1>8
  <2>2. m = n /\ upto = from
    BY <1>1, <1>6, <1>8
  <2>3. p + Len(h) = p
    BY <2>1
  <2> QED BY <1>7, <2>2, <2>3 DEF h
<1>9. CASE ~(next = n + 1 /\ upto < from + 1) /\ upto = from
  <2>1. n < m /\ data = <<>>
    <3>1. n < m
      BY <1>1, <1>6, <1>9
    <3>2. Len(data) = 0
      BY <1>4, <1>6, <1>9
    <3> QED BY <1>4, <3>1, <3>2
  <2> DEFINE ed == <<"ed", [start |-> n + 1, end |-> m, act |-> "d"]>>
  <2>2. h = <<ed>>
    BY <1>3, <1>9, <2>1 DEF HunkOf, m
  <2> HIDE DEF ed
  <2>3. Len(h) = 1 /\ h[1] = ed
    BY <2>2
  <2>4. p + 1 <= Len(T) /\ T[p + 1] = ed
    BY <1>7, <2>3 DEF StandsAt
  <2>5. DoneAt(f, p + 1, hash, base, A, body, new, n, upto)
    BY <1>6, <1>7, <2>1, <2>4, DeleteDone DEF ed
  <2> QED BY <1>9, <2>3, <2>5 DEF h
<1>10. ASSUME upto # from, NEW s, NEW act, n < m \/ m = n,
              \/ act = "a" /\ s = m /\ n = m
              \/ act = "c" /\ s = n + 1 /\ n < m,
              h = Block(<<"ed", [start |-> s, end |-> m, act |-> act]>>, data)
       PROVE  DoneAt(f, p + Len(h), hash, base, A, body, new, n, from)
  <2> DEFINE ed == <<"ed", [start |-> s, end |-> m, act |-> act]>>
  <2>1. Len(h) = Len(data) + 2
    <3> HIDE DEF ed
    <3>1. h = Block(ed, data)
      BY <1>10 DEF ed
    <3> QED BY <1>4, <3>1, BlockIs
  <2>2. StandsAt(T, p, Block(ed, data))
    BY <1>7, <1>10
  <2>3. DoneAt(f, p + (Len(data) + 2), hash, base, A, body, new, n, from)
    BY <1>2, <1>4, <1>5, <1>6, <1>7, <1>10, <2>2, InsertDone
  <2> QED BY <2>1, <2>3
<1>11. CASE upto # from
  <2>1. data # <<>> /\ ~(next = n + 1 /\ upto < from + 1)
    <3>1. Len(data) # 0 /\ ~(upto < from + 1)
      BY <1>4, <1>6, <1>11
    <3> QED BY <3>1
  <2>2. h = HunkOf(n + 1, m, data)
    BY <1>3, <2>1 DEF m
  <2>3. CASE m = n
    <3>1. m < n + 1
      BY <1>1, <2>3
    <3>2. h = Block(<<"ed", [start |-> m, end |-> m, act |-> "a"]>>, data)
      BY <2>1, <2>2, <3>1 DEF HunkOf, Block
    <3> QED BY <1>10, <1>11, <2>3, <3>2 DEF h
  <2>4. CASE m # n
    <3>1. ~(m < n + 1) /\ n < m
      BY <1>1, <1>6, <2>4
    <3>2. h = Block(<<"ed", [start |-> n + 1, end |-> m, act |-> "c"]>>, data)
      BY <2>1, <2>2, <3>1 DEF HunkOf, Block
    <3> QED BY <1>10, <1>11, <3>1, <3>2 DEF h
  <2> QED BY <2>3, <2>4
<1> QED BY <1>8, <1>9, <1>11

(* The lines that both texts have are in the same order in both. *)
Rising(body, new) ==
  \A i, j \in 1..Len(body) :
    i < j /\ PlaceOf(body[i], new) # 0 /\ PlaceOf(body[j], new) # 0 =>
      PlaceOf(body[i], new) < PlaceOf(body[j], new)

(* The lines put in between two lines that are kept are between them. *)
LEMMA BetweenIs ==
  ASSUME NEW body, Len(body) \in Nat, NEW new, Len(new) \in Nat, Rising(body, new),
         NEW n \in 1..Len(body), KeptAt(body, new, n)
  PROVE  /\ PlaceOf(body[n], new) \in 1..Len(new)
         /\ PlaceOf(body[n], new) \in 0..UptoOf(body, new, n)
         /\ body[n] = new[PlaceOf(body[n], new)]
<1> DEFINE p == PlaceOf(body[n], new)
           next == NextOf(body, new, n)
           upto == UptoOf(body, new, n)
<1>1. p \in 1..Len(new) /\ new[p] = body[n] /\ p # 0
  <2>1. p \in 0..Len(new) /\ (p # 0 => new[p] = body[n])
    BY PlaceIs
  <2>2. p # 0
    BY DEF KeptAt
  <2> QED BY <2>1, <2>2
<1>2. \/ upto = Len(new)
      \/ /\ next \in (n + 1)..Len(body) /\ KeptAt(body, new, next)
         /\ upto = PlaceOf(body[next], new) - 1
  <2>1. n \in 0..Len(body)
    OBVIOUS
  <2> QED BY <2>1, NextIs
<1>3. CASE upto = Len(new)
  BY <1>1, <1>3
<1>4. CASE /\ next \in (n + 1)..Len(body) /\ KeptAt(body, new, next)
           /\ upto = PlaceOf(body[next], new) - 1
  <2>1. next \in 1..Len(body) /\ n < next /\ next > 0
    BY <1>4
  <2>2. PlaceOf(body[next], new) # 0
    BY <1>4, <2>1 DEF KeptAt
  <2>3. p < PlaceOf(body[next], new)
    BY <1>1, <2>1, <2>2 DEF Rising
  <2>4. PlaceOf(body[next], new) \in 0..Len(new)
    BY PlaceIs
  <2> HIDE DEF p, next, upto
  <2>5. p \in 0..upto
    BY <1>1, <1>4, <2>3, <2>4
  <2> QED BY <1>1, <2>5 DEF p, upto
<1> QED BY <1>1, <1>2, <1>3, <1>4

(* One hunk more, of the line before. *)
LEMMA StepDown ==
  ASSUME NEW B, NEW T \in Seq(B), NEW f, Reads(StatusDiff, T, Len(T), f), NEW hash, NEW p \in Nat,
         NEW base, NEW A, NEW body \in Seq(A), NEW new \in Seq(A),
         \A i \in 1..Len(new) : new[i] # Dot, Rising(body, new), NEW n \in 0..Len(body),
         DoneAt(f, p, hash, base, A, body, new, NextOf(body, new, n) - 1, UptoOf(body, new, n)),
         StandsAt(T, p, HunkAt(body, new, n))
  PROVE  LET d == p + Len(HunkAt(body, new, n))
         IN /\ n = 0 => DoneAt(f, d, hash, base, A, body, new, 0, 0)
            /\ n # 0 => DoneAt(f, d, hash, base, A, body, new, NextOf(body, new, n - 1) - 1,
                               UptoOf(body, new, n - 1))
<1> DEFINE h == HunkAt(body, new, n)
           d == p + Len(h)
<1>1. Len(body) \in Nat /\ Len(new) \in Nat /\ n \in Nat
  OBVIOUS
<1>2. CASE n = 0
  <2>1. KeptAt(body, new, n) /\ FromOf(body, new, n) = 0 + 1
    BY <1>2 DEF KeptAt, FromOf
  <2>2. 0 \in 0..UptoOf(body, new, n)
    BY DEF DoneAt, Mixed
  <2> HIDE DEF d, h
  <2>3. DoneAt(f, p + Len(h), hash, base, A, body, new, n, 0)
    BY <2>1, <2>2, HunkDone DEF h
  <2> QED BY <1>2, <2>3 DEF d, h
<1>3. CASE n # 0 /\ KeptAt(body, new, n)
  <2> DEFINE q == PlaceOf(body[n], new)
  <2>1. n \in 1..Len(body)
    BY <1>1, <1>3
  <2>2. q \in 1..Len(new) /\ q \in 0..UptoOf(body, new, n) /\ body[n] = new[q]
    BY <1>1, <1>3, <2>1, BetweenIs
  <2>3. FromOf(body, new, n) = q + 1
    BY <1>3 DEF FromOf
  <2>4. NextOf(body, new, n - 1) = n /\ UptoOf(body, new, n - 1) = q - 1
    <3>1. n - 1 \in 0..Len(body) /\ (n - 1) + 1 = n
      BY <2>1
    <3> DEFINE before == n - 1
               next == NextOf(body, new, before)
    <3>2. /\ next \in (before + 1)..(Len(body) + 1)
          /\ \A k \in (before + 1)..(next - 1) : ~KeptAt(body, new, k)
          /\ \/ next = Len(body) + 1
             \/ UptoOf(body, new, before) = PlaceOf(body[next], new) - 1
      <4>1. before \in 0..Len(body)
        BY <3>1
      <4> HIDE DEF before
      <4> QED BY <1>1, <4>1, NextIs
    <3>3. next \in n..(Len(body) + 1) /\ \A k \in n..(next - 1) : ~KeptAt(body, new, k)
      BY <3>1, <3>2
    <3>4. next = n
      <4>1. ASSUME next # n PROVE FALSE
        <5>1. n \in n..(next - 1)
          BY <1>1, <3>3, <4>1
        <5> QED BY <1>3, <3>3, <5>1
      <4> QED BY <4>1
    <3>5. next # Len(body) + 1
      BY <1>1, <2>1, <3>4
    <3> QED BY <3>2, <3>4, <3>5
  <2> HIDE DEF q, d, h
  <2>5. DoneAt(f, p + Len(h), hash, base, A, body, new, n, q)
    BY <1>3, <2>2, <2>3, HunkDone DEF h
  <2>6. DoneAt(f, d, hash, base, A, body, new, n - 1, q - 1)
    <3> DEFINE lines == ApplyActions(Field(f[p + Len(h)].fields, "actions"), base)
    <3>1. Mixed(lines, A, body, new, n, q)
      BY <2>5 DEF DoneAt
    <3> HIDE DEF lines
    <3>2. Mixed(lines, A, body, new, n - 1, q - 1)
      BY <2>1, <2>2, <3>1, MixedLine
    <3> QED BY <2>5, <3>2 DEF DoneAt, lines, d
  <2> QED BY <1>3, <2>4, <2>6 DEF d, h
<1>4. CASE n # 0 /\ ~KeptAt(body, new, n)
  <2>1. h = <<>>
    BY <1>4 DEF HunkAt
  <2>2. Len(h) = 0 /\ d = p
    <3>1. Len(<<>>) = 0
      OBVIOUS
    <3> HIDE DEF h
    <3> QED BY <2>1, <3>1
  <2>3. Later(body, new, n - 1) = Later(body, new, n)
    <3>1. ASSUME NEW k, KeptAt(body, new, k)
          PROVE  k \in ((n - 1) + 1)..Len(body) <=> k \in (n + 1)..Len(body)
      <4>1. k # n
        BY <1>4, <3>1
      <4>2. (n - 1) + 1 = n
        BY <1>1
      <4> QED BY <1>1, <4>1, <4>2
    <3> DEFINE before == n - 1
    <3>2. /\ Later(body, new, before) = {m \in (before + 1)..Len(body) : KeptAt(body, new, m)}
          /\ Later(body, new, n) = {m \in (n + 1)..Len(body) : KeptAt(body, new, m)}
      BY DEF Later
    <3>3. \A k : KeptAt(body, new, k) =>
                   (k \in (before + 1)..Len(body) <=> k \in (n + 1)..Len(body))
      BY <3>1
    <3> HIDE DEF before
    <3>4. Later(body, new, before) = Later(body, new, n)
      BY <3>2, <3>3
    <3> QED BY <3>4 DEF before
  <2>4. /\ NextOf(body, new, n - 1) = NextOf(body, new, n)
        /\ UptoOf(body, new, n - 1) = UptoOf(body, new, n)
    BY <2>3 DEF NextOf, UptoOf
  <2> HIDE DEF d, h
  <2> QED BY <1>4, <2>2, <2>4 DEF d, h
<1> QED BY <1>2, <1>3, <1>4

(* What stands in a row stands after one another. *)
LEMMA StandsBoth ==
  ASSUME NEW U, NEW s \in Seq(U), NEW t \in Seq(U), NEW T, Len(T) \in Nat, NEW p \in Nat,
         StandsAt(T, p, s \o t)
  PROVE  StandsAt(T, p, s) /\ StandsAt(T, p + Len(s), t)
<1>1. /\ Len(s) \in Nat /\ Len(t) \in Nat /\ Len(s \o t) = Len(s) + Len(t)
      /\ \A i \in 1..Len(s) : (s \o t)[i] = s[i]
      /\ \A i \in 1..Len(t) : (s \o t)[Len(s) + i] = t[i]
  BY Followed
<1> DEFINE r == s \o t
<1>2. p + Len(r) <= Len(T) /\ \A i \in 1..Len(r) : T[p + i] = r[i]
  BY DEF StandsAt
<1> HIDE DEF r
<1>3. Len(r) = Len(s) + Len(t)
  BY <1>1 DEF r
<1>4. ASSUME NEW i \in 1..Len(s) PROVE T[p + i] = s[i]
  <2>1. i \in 1..Len(r) /\ r[i] = s[i]
    BY <1>1, <1>3 DEF r
  <2> QED BY <1>2, <2>1
<1>5. ASSUME NEW i \in 1..Len(t) PROVE T[(p + Len(s)) + i] = t[i]
  <2>1. Len(s) + i \in 1..Len(r)
    BY <1>1, <1>3
  <2>2. r[Len(s) + i] = t[i]
    BY <1>1 DEF r
  <2>3. (p + Len(s)) + i = p + (Len(s) + i)
    BY <1>1
  <2> QED BY <1>2, <2>1, <2>2, <2>3
<1>6. p + Len(s) <= Len(T) /\ (p + Len(s)) + Len(t) <= Len(T)
  BY <1>1, <1>2, <1>3
<1> QED BY <1>4, <1>5, <1>6 DEF StandsAt

(* The first edit takes what comes after the old body away. *)
LEMMA HeadDone ==
  ASSUME NEW B, NEW T \in Seq(B), NEW f, Reads(StatusDiff, T, Len(T), f), NEW hash,
         NEW A, NEW old \in Seq(A), Blank \in A, NEW new \in Seq(A), NEW body, body = Digested(old),
         Len(T) >= 3, T[1] = <<"network-status-diff-version", 1>>, T[2] = <<"hash", hash>>,
         T[3] = <<"ed", [start |-> Len(body) + 1, end |-> Dollar, act |-> "d"]>>
  PROVE  DoneAt(f, 3, hash, Append(old, Blank), A, body, new, Len(body), Len(new))
<1> DEFINE rest == [start |-> Len(body) + 1, end |-> Dollar, act |-> "d"]
           a == Put(rest, "data", <<>>)
           base == Append(old, Blank)
           L == Len(body)
<1>1. /\ L \in 0..Len(old) /\ L \in Nat /\ Len(old) \in Nat /\ Len(new) \in Nat /\ body \in Seq(A)
      /\ \A i \in 1..L : body[i] = old[i]
  BY DigestedPart
<1>2. /\ f[0] = [next |-> 1, fields |-> <<>>]
      /\ \A i \in 1..Len(T) : f[i] = IF i < f[i - 1].next THEN f[i - 1]
                               ELSE ReadLine(StatusDiff, T, i, f[i - 1].fields)
  BY DEF Reads
<1>3. /\ 1 \in 1..Len(T) /\ 2 \in 1..Len(T) /\ 3 \in 1..Len(T)
      /\ T[1][1] = "network-status-diff-version" /\ T[2][1] = "hash" /\ T[2][2] = hash
      /\ T[3][1] = "ed" /\ T[3][2] = rest
  OBVIOUS
<1> HIDE DEF rest
<1>4. f[1] = [next |-> 2, fields |-> Put(<<>>, T[1][1], Item(T, 1).value)]
  <2>0. f[0].next = 1 /\ f[0].fields = <<>> /\ 1 - 1 = 0 /\ ~(1 < 1)
    BY <1>2
  <2>1. f[1] = ReadLine(StatusDiff, T, 1, <<>>)
    BY <1>2, <1>3, <2>0
  <2> QED BY <1>3, <2>1, DiffIsClass DEF ReadLine
<1>5. f[1].next = 2 /\ DOMAIN f[1].fields = {"network-status-diff-version"}
  BY <1>3, <1>4 DEF Put
<1>6. f[2].next = 3 /\ f[2].fields = Put(f[1].fields, "hash", hash)
  <2>1. Item(T, 2) = [ok |-> TRUE, value |-> T[2][2], next |-> 3]
    BY <1>3 DEF Item, Multi
  <2>2. f[2] = ReadLine(StatusDiff, T, 2, f[1].fields)
    BY <1>2, <1>3, <1>5
  <2>3. f[2] = [next |-> 3, fields |-> Put(f[1].fields, "hash", T[2][2])]
    BY <1>3, <1>5, <2>1, <2>2, DiffIsClass DEF ReadLine
  <2> QED BY <1>3, <2>3
<1>7. DiffFields(f[2].fields, hash) /\ Field(f[2].fields, "actions") = <<>>
  <2>1. DOMAIN f[2].fields = {"network-status-diff-version", "hash"} /\ f[2].fields["hash"] = hash
    BY <1>5, <1>6 DEF Put
  <2>2. Field(f[2].fields, "actions") = <<>>
    BY <2>1 DEF Field
  <2>3. <<>> \in Seq({})
    OBVIOUS
  <2> QED BY <2>1, <2>2, <2>3 DEF DiffFields
<1> DEFINE more == AddTo(f[2].fields, "actions", a)
<1>8. f[3].next = 3 + 1 /\ f[3].fields = more
  <2>1. rest.end = Dollar /\ rest.act = "d"
    BY DEF rest
  <2> DEFINE p == 2
  <2>2. p \in Nat /\ p + 1 = 3 /\ Len(T) \in Nat
    OBVIOUS
  <2>3. f[p].next = p + 1 /\ DiffFields(f[p].fields, hash) /\ T[p + 1][1] = "ed"
        /\ T[p + 1][2] = rest /\ p + 1 \in 1..Len(T)
    BY <1>3, <1>6, <1>7
  <2> HIDE DEF p
  <2>4. EditAt(T, f, hash, p, rest)
    BY <2>1, <2>2, <2>3 DEF EditAt
  <2>5. f[p + 1].next = (p + 1) + 1 /\ f[p + 1].fields = AddTo(f[p].fields, "actions", a)
    BY <2>1, <2>4, ReadDelete
  <2> QED BY <2>2, <2>5 DEF p
<1> HIDE DEF more, base
<1>9. DiffFields(more, hash) /\ ApplyActions(Field(more, "actions"), base) = ApplyAction(a, base)
  <2>1. ApplyActions(Field(f[2].fields, "actions"), base) = base
    BY <1>7, AppliedNone
  <2> QED BY <1>7, <2>1, AddEdit DEF more
<1>10. ApplyAction(a, base) = Edited(base, <<>>, L, Len(base))
  <2> DEFINE s == L + 1
             data == <<>>
  <2>1. a = Put([start |-> s, end |-> Dollar, act |-> "d"], "data", data) /\ "d" # "a" /\ s - 1 = L
    BY <1>1 DEF rest
  <2> HIDE DEF a, s, data
  <2>2. ApplyAction(a, base) = Edited(base, data, s - 1, Len(base))
    BY <2>1, ApplyActionIs
  <2> QED BY <2>1, <2>2 DEF data
<1> HIDE DEF L
<1>11. Mixed(Edited(base, <<>>, L, Len(base)), A, body, new, L, Len(new))
  <2> DEFINE data == <<>>
             r == Edited(base, data, L, Len(base))
  <2>1. /\ base \in Seq(A) /\ Len(base) = Len(old) + 1 /\ data \in Seq(A) /\ Len(data) = 0
        /\ \A i \in 1..Len(old) : base[i] = old[i]
    BY DEF base
  <2>2. L \in 0..Len(base) /\ Len(base) \in L..Len(base) /\ Len(base) \in Nat
    BY <1>1, <2>1
  <2> HIDE DEF data
  <2>3. IsEdited(r, A, base, data, L, Len(base))
    BY <2>1, <2>2, EditedIs
  <2> HIDE DEF r
  <2>4. r \in Seq(A) /\ Len(r) = L + (Len(new) - Len(new)) /\ \A i \in 1..L : r[i] = base[i]
    BY <1>1, <2>1, <2>2, <2>3 DEF IsEdited
  <2>5. \A i \in 1..L : r[i] = body[i]
    BY <1>1, <2>1, <2>4
  <2>6. L \in 0..Len(body) /\ Len(new) \in 0..Len(new)
    BY <1>1 DEF L
  <2>7. \A i \in 1..(Len(new) - Len(new)) : r[L + i] = new[Len(new) + i]
    BY <1>1
  <2> QED BY <2>4, <2>5, <2>6, <2>7 DEF Mixed, r, data
<1> QED BY <1>8, <1>9, <1>10, <1>11 DEF DoneAt, base, L

(* The edits of a diff as they stand in it, in their order. *)
Stacked(T, body, new) ==
  LET all == AllOf(body, new)
  IN /\ Len(T) \in Nat /\ Len(body) \in Nat
     /\ all[0] = HunkAt(body, new, 0)
     /\ \A n \in 1..Len(body) : all[n] = HunkAt(body, new, n) \o all[n - 1]
     /\ \A n \in 0..Len(body) : /\ all[n] \in Seq(Edits(new))
                                /\ HunkAt(body, new, n) \in Seq(Edits(new))

(* What comes before them, and how many lines there are. *)
Headed(T, body, new) ==
  LET all == AllOf(body, new)
  IN /\ Len(T) >= 3 /\ Len(all[Len(body)]) \in Nat /\ Len(T) = 3 + Len(all[Len(body)])
     /\ StandsAt(T, 3, all[Len(body)])
     /\ T[1] = <<"network-status-diff-version", 1>>
     /\ T[2] = <<"hash", [from |-> body, to |-> new]>>
     /\ T[3] = <<"ed", [start |-> Len(body) + 1, end |-> Dollar, act |-> "d"]>>

(* Where the edits of a diff stand in it. *)
LEMMA DiffStands ==
  ASSUME NEW old, NEW body, body = Digested(old), Len(body) \in Nat, NEW A, NEW new \in Seq(A),
         NEW T, T = MakeDiff(old, new)
  PROVE  (\E B : T \in Seq(B)) /\ Headed(T, body, new) /\ Stacked(T, body, new)
<1> DEFINE all == AllOf(body, new)
           L == Len(body)
           hunks == HunksOf(body, new)
           U == Edits(new)
           t1 == <<"network-status-diff-version", 1>>
           t2 == <<"hash", [from |-> body, to |-> new]>>
           t3 == <<"ed", [start |-> Len(body) + 1, end |-> Dollar, act |-> "d"]>>
           head == <<t1, t2, t3>>
<1>1. T = head \o all[L]
  BY MakeDiffIs DEF HeadOf
<1>2. hunks \in [0..L -> Seq(U)] /\ \A n \in 0..L : hunks[n] = HunkAt(body, new, n)
  <2>1. hunks \in [0..L -> Seq(U)]
    BY HunksAre
  <2> QED BY <2>1 DEF HunksOf
<1> HIDE DEF hunks, U, t1, t2, t3
<1>3. /\ all[0] = hunks[0] /\ \A n \in 1..L : all[n] = hunks[n] \o all[n - 1]
      /\ \A n \in 0..L : all[n] \in Seq(U)
  <2>1. all = CHOOSE f : Chain(f, hunks, L)
    BY DEF AllOf, hunks
  <2> HIDE DEF all
  <2> QED BY <1>2, <2>1, ChainsAre
<1> HIDE DEF all
<1>4. head \in Seq({t1, t2, t3}) /\ Len(head) = 3 /\ head[1] = t1 /\ head[2] = t2 /\ head[3] = t3
  OBVIOUS
<1> HIDE DEF head
<1>5. all[L] \in Seq(U)
  BY <1>3
<1> DEFINE r == head \o all[L]
<1>6. /\ r \in Seq({t1, t2, t3} \union U) /\ Len(all[L]) \in Nat /\ Len(r) = Len(head) + Len(all[L])
      /\ \A i \in 1..Len(head) : r[i] = head[i]
      /\ \A i \in 1..Len(all[L]) : r[Len(head) + i] = all[L][i]
  <2>1. head \in Seq({t1, t2, t3})
    BY <1>4
  <2> QED BY <1>5, <2>1, Followed
<1> HIDE DEF r
<1>7. Len(T) = 3 + Len(all[L]) /\ Len(T) \in Nat /\ Len(T) >= 3 /\ T = r
  BY <1>1, <1>4, <1>6 DEF r
<1>8. T[1] = t1 /\ T[2] = t2 /\ T[3] = t3
  BY <1>4, <1>6, <1>7
<1>9. StandsAt(T, 3, all[L])
  BY <1>4, <1>6, <1>7 DEF StandsAt
<1>10. \E B : T \in Seq(B)
  BY <1>6, <1>7
<1>11. /\ all[0] = HunkAt(body, new, 0)
       /\ \A n \in 1..L : all[n] = HunkAt(body, new, n) \o all[n - 1]
       /\ \A n \in 0..L : HunkAt(body, new, n) \in Seq(U)
  <2>1. 0 \in 0..L /\ \A n \in 1..L : n \in 0..L
    OBVIOUS
  <2> QED BY <1>2, <1>3, <2>1
<1>12. Headed(T, body, new)
  BY <1>6, <1>7, <1>8, <1>9 DEF Headed, all, t1, t2, t3
<1>13. Stacked(T, body, new)
  BY <1>3, <1>7, <1>11 DEF Stacked, all, U
<1> QED BY <1>10, <1>12, <1>13

(* Reading a diff down to the hunks of the first n lines of the old body.   *)
Reached(T, f, hash, base, A, body, new, n) ==
  LET all == AllOf(body, new)
      p == Len(T) - Len(all[n])
  IN /\ p \in Nat /\ StandsAt(T, p, all[n])
     /\ DoneAt(f, p, hash, base, A, body, new, NextOf(body, new, n) - 1, UptoOf(body, new, n))

LEMMA ReachedDown ==
  ASSUME NEW B, NEW T \in Seq(B), NEW f, Reads(StatusDiff, T, Len(T), f), NEW hash,
         NEW base, NEW A, NEW body \in Seq(A), NEW new \in Seq(A),
         \A i \in 1..Len(new) : new[i] # Dot, Rising(body, new), Stacked(T, body, new),
         NEW n \in 1..Len(body), Reached(T, f, hash, base, A, body, new, n)
  PROVE  Reached(T, f, hash, base, A, body, new, n - 1)
<1> DEFINE all == AllOf(body, new)
           U == Edits(new)
           h == HunkAt(body, new, n)
           t == all[n - 1]
           p == Len(T) - Len(all[n])
           d == p + Len(h)
<1>1. /\ n \in 0..Len(body) /\ n - 1 \in 0..Len(body) /\ n # 0 /\ Len(T) \in Nat
      /\ all[n] = h \o t /\ h \in Seq(U) /\ t \in Seq(U)
  <2>1. n \in 0..Len(body) /\ n - 1 \in 0..Len(body) /\ n # 0
    OBVIOUS
  <2> QED BY <2>1 DEF Stacked
<1>2. p \in Nat /\ StandsAt(T, p, all[n])
      /\ DoneAt(f, p, hash, base, A, body, new, NextOf(body, new, n) - 1, UptoOf(body, new, n))
  BY DEF Reached
<1> HIDE DEF all, U, h, p
<1>3. DoneAt(f, d, hash, base, A, body, new, NextOf(body, new, n - 1) - 1,
             UptoOf(body, new, n - 1)) /\ StandsAt(T, d, t)
  <2> HIDE DEF t
  <2>1. StandsAt(T, p, h \o t)
    BY <1>1, <1>2
  <2>2. StandsAt(T, p, h) /\ StandsAt(T, p + Len(h), t)
    BY <1>1, <1>2, <2>1, StandsBoth
  <2>3. DoneAt(f, d, hash, base, A, body, new, NextOf(body, new, n - 1) - 1,
               UptoOf(body, new, n - 1))
    BY <1>1, <1>2, <2>2, StepDown DEF h
  <2> QED BY <2>2, <2>3
<1>4. d = Len(T) - Len(t) /\ d \in Nat
  <2> HIDE DEF t
  <2>1. Len(h \o t) = Len(h) + Len(t) /\ Len(h) \in Nat /\ Len(t) \in Nat
    BY <1>1, Followed
  <2>2. Len(all[n]) = Len(h) + Len(t)
    BY <1>1, <2>1
  <2> QED BY <1>1, <1>2, <2>1, <2>2 DEF p
<1> HIDE DEF d
<1> QED BY <1>3, <1>4 DEF Reached, all

(* All of it has been read. *)
LEMMA ReachedAll ==
  ASSUME NEW B, NEW T \in Seq(B), NEW f, Reads(StatusDiff, T, Len(T), f), NEW hash,
         NEW base, NEW A, NEW body \in Seq(A), NEW new \in Seq(A),
         \A i \in 1..Len(new) : new[i] # Dot, Rising(body, new), Stacked(T, body, new),
         Reached(T, f, hash, base, A, body, new, Len(body))
  PROVE  DoneAt(f, Len(T), hash, base, A, body, new, 0, 0)
<1> DEFINE L == Len(body)
           Met(n) == Reached(T, f, hash, base, A, body, new, n)
           V == {k \in 0..L : Met(L - k)}
<1>1. L \in Nat /\ L - L = 0 /\ L - 0 = L
  OBVIOUS
<1>2. ASSUME NEW n \in 1..L, Met(n) PROVE Met(n - 1)
  BY <1>2, ReachedDown
<1>3. Met(L)
  OBVIOUS
<1> HIDE DEF L, Met
<1>4. 0 \in V
  BY <1>1, <1>3
<1>5. ASSUME NEW k \in 0..(L - 1), k \in V PROVE k + 1 \in V
  <2>1. L - k \in 1..L /\ (L - k) - 1 = L - (k + 1) /\ k + 1 \in 0..L
    BY <1>1
  <2>2. Met((L - k) - 1)
    BY <1>2, <1>5, <2>1
  <2> QED BY <2>1, <2>2
<1>6. Met(0)
  <2> HIDE DEF V
  <2>1. \A k \in 0..L : k \in V
    BY <1>1, <1>4, <1>5, Upward
  <2>2. L \in V
    BY <1>1, <2>1
  <2> QED BY <1>1, <2>2 DEF V
<1> DEFINE h == HunkAt(body, new, 0)
           p == Len(T) - Len(h)
<1>7. p \in Nat /\ StandsAt(T, p, h)
      /\ DoneAt(f, p, hash, base, A, body, new, NextOf(body, new, 0) - 1, UptoOf(body, new, 0))
  BY <1>6 DEF Met, Reached, Stacked
<1>8. h \in Seq(Edits(new)) /\ Len(T) \in Nat /\ 0 \in 0..Len(body)
  <2>1. 0 \in 0..Len(body) /\ Len(T) \in Nat
    OBVIOUS
  <2> QED BY <2>1 DEF Stacked
<1> HIDE DEF h, p
<1>9. DoneAt(f, p + Len(h), hash, base, A, body, new, 0, 0)
  BY <1>7, <1>8, StepDown DEF h
<1>10. p + Len(h) = Len(T)
  <2>1. Len(h) \in Nat
    BY <1>8
  <2> QED BY <1>7, <1>8, <2>1 DEF p
<1> QED BY <1>9, <1>10

(* A diff that was made from a text applies to it and gives the new one.    *)
LEMMA DiffDone ==
  ASSUME NEW A, NEW old \in Seq(A), Blank \in A, NEW new \in Seq(A),
         \A i \in 1..Len(new) : new[i] # Dot, Rising(Digested(old), new),
         NEW T, T = MakeDiff(old, new)
  PROVE  LET diff == ReadDocument(StatusDiff, T)
         IN diff # Invalid /\ ApplyDiff(old, diff) = new
<1> DEFINE body == Digested(old)
           hash == [from |-> body, to |-> new]
           base == Append(old, Blank)
           all == AllOf(body, new)
           L == Len(body)
<1>1. body \in Seq(A) /\ L \in Nat
  BY DigestedPart
<1>2. /\ \E B : T \in Seq(B)
      /\ Len(T) \in Nat /\ Len(T) >= 3 /\ Len(all[L]) \in Nat
      /\ Len(T) = 3 + Len(all[L]) /\ StandsAt(T, 3, all[L])
      /\ T[1] = <<"network-status-diff-version", 1>> /\ T[2] = <<"hash", hash>>
      /\ T[3] = <<"ed", [start |-> L + 1, end |-> Dollar, act |-> "d"]>>
      /\ Stacked(T, body, new)
  <2>1. (\E B : T \in Seq(B)) /\ Headed(T, body, new) /\ Stacked(T, body, new)
    <3>1. body = Digested(old) /\ Len(body) \in Nat
      BY <1>1
    <3> HIDE DEF body
    <3> QED BY <3>1, DiffStands
  <2>2. Len(T) \in Nat
    BY <2>1
  <2> HIDE DEF body
  <2> QED BY <2>1, <2>2 DEF Headed
<1>3. PICK B : T \in Seq(B)
  BY <1>2
<1>4. PICK f : Reads(StatusDiff, T, Len(T), f) /\ ReadLines(StatusDiff, T) = f[Len(T)].fields
  BY <1>2, ReadLinesReads
<1> HIDE DEF hash
<1>5. DoneAt(f, 3, hash, base, A, body, new, L, Len(new))
  BY <1>2, <1>3, <1>4, HeadDone
<1>6. Reached(T, f, hash, base, A, body, new, L)
  <2>1. Later(body, new, L) = {}
    BY <1>1 DEF Later
  <2>2. NextOf(body, new, L) - 1 = L /\ UptoOf(body, new, L) = Len(new)
    BY <1>1, <2>1 DEF NextOf, UptoOf, FirstIn, BeforeIn
  <2>3. Len(T) - Len(all[L]) = 3
    BY <1>2
  <2> HIDE DEF body, L, base, all
  <2> QED BY <1>2, <1>5, <2>2, <2>3 DEF Reached, all
<1>7. DoneAt(f, Len(T), hash, base, A, body, new, 0, 0)
  <2> HIDE DEF base
  <2> QED BY <1>1, <1>2, <1>3, <1>4, <1>6, ReachedAll
<1> DEFINE fields == f[Len(T)].fields
<1>8. /\ DiffFields(fields, hash)
      /\ Mixed(ApplyActions(Field(fields, "actions"), base), A, body, new, 0, 0)
  BY <1>7 DEF DoneAt
<1> HIDE DEF fields, base, body
<1>9. ApplyActions(Field(fields, "actions"), base) = new
  BY <1>8, MixedAll
<1>10. fields # Invalid /\ fields.hash = hash
  <2>1. "hash" \in DOMAIN fields /\ fields["hash"] = hash
    BY <1>8 DEF DiffFields
  <2>2. DOMAIN Invalid = {"invalid"} /\ "hash" # "invalid"
    BY DEF Invalid
  <2> QED BY <2>1, <2>2
<1>11. ReadDocument(StatusDiff, T) = fields
  BY <1>4, <1>10, DiffIsClass DEF ReadDocument, fields
<1>12. ApplyDiff(old, fields) = new
  <2>1. hash.from = body /\ hash.to = new
    BY DEF hash
  <2> QED BY <1>9, <1>10, <2>1 DEF ApplyDiff, body, base
<1> QED BY <1>10, <1>11, <1>12

(* A diff states its digests in its second line, and nowhere else. *)
LEMMA DiffIs ==
  ASSUME NEW A, NEW old \in Seq(A), NEW B, NEW new \in Seq(B),
         \A i \in 1..Len(new) : new[i][1] \in Keywords
  PROVE  LET text == MakeDiff(old, new)
         IN /\ Len(text) \in Nat /\ Len(text) >= 3
            /\ text[1] = <<"network-status-diff-version", 1>>
            /\ text[2] = <<"hash", [from |-> Digested(old), to |-> new]>>
            /\ \A i \in 1..Len(text) : i > 2 =>
                 text[i][1] \notin {"hash", "network-status-diff-version"}
<1> DEFINE body == Digested(old)
           text == MakeDiff(old, new)
           all == AllOf(body, new)
           L == Len(body)
<1>1. Len(body) \in Nat
  BY DigestedPart
<1>2. Headed(text, body, new) /\ Stacked(text, body, new)
  <2> HIDE DEF text
  <2>1. text = MakeDiff(old, new)
    BY DEF text
  <2>2. body = Digested(old)
    OBVIOUS
  <2> HIDE DEF body
  <2> QED BY <1>1, <2>1, <2>2, DiffStands
<1> HIDE DEF text, body
<1>3. /\ Len(text) \in Nat /\ Len(text) >= 3 /\ text[1] = <<"network-status-diff-version", 1>>
      /\ text[2] = <<"hash", [from |-> body, to |-> new]>> /\ text[3][1] = "ed"
  BY <1>2 DEF Headed, Stacked
<1>4. all[L] \in Seq(Edits(new)) /\ Len(all[L]) \in Nat /\ Len(text) = 3 + Len(all[L])
      /\ StandsAt(text, 3, all[L])
  <2>1. L \in 0..L
    BY <1>1
  <2> QED BY <1>2, <2>1 DEF Headed, Stacked
<1> HIDE DEF all, L
<1>5. ASSUME NEW i \in 1..Len(text), i > 2
      PROVE  text[i][1] \notin {"hash", "network-status-diff-version"}
  <2>1. CASE i = 3
    BY <1>3, <2>1
  <2>2. CASE i # 3
    <3> DEFINE j == i - 3
    <3>1. j \in 1..Len(all[L]) /\ 3 + j = i
      BY <1>4, <1>5, <2>2
    <3> HIDE DEF j
    <3>2. text[i] = all[L][j] /\ all[L][j] \in Edits(new)
      BY <1>4, <3>1 DEF StandsAt
    <3> QED BY <3>2, EditsAre
  <2> QED BY <2>1, <2>2
<1> QED BY <1>3, <1>5 DEF text, body

(* What is read from a diff, if anything, is the digests it states. *)
LEMMA DiffReads ==
  ASSUME NEW text, Len(text) \in Nat, Len(text) >= 3,
         text[1][1] = "network-status-diff-version", text[2][1] = "hash",
         \A i \in 1..Len(text) : i > 2 => text[i][1] \notin {"hash", "network-status-diff-version"}
  PROVE  LET fields == ReadLines(StatusDiff, text)
         IN \/ fields = Invalid
            \/ "hash" \in DOMAIN fields /\ fields["hash"] = text[2][2]
<1> DEFINE L == Len(text)
           Stop == [next |-> L + 1, fields |-> Invalid]
           Has(fields) == "hash" \in DOMAIN fields /\ fields["hash"] = text[2][2]
<1>1. PICK f : Reads(StatusDiff, text, L, f) /\ ReadLines(StatusDiff, text) = f[L].fields
  BY ReadLinesReads
<1>2. /\ f[0] = [next |-> 1, fields |-> <<>>]
      /\ \A i \in 1..L : f[i] = IF i < f[i - 1].next THEN f[i - 1]
                               ELSE ReadLine(StatusDiff, text, i, f[i - 1].fields)
  BY <1>1 DEF Reads
<1> DEFINE Held(i) == f[i] = Stop \/ Has(f[i].fields)
<1>3. /\ StatusDiff.start = "network-status-diff-version" /\ StatusDiff.items = {"hash"}
      /\ DOMAIN StatusDiff.lists = {"ed"} /\ StatusDiff.lists["ed"] = "actions"
      /\ StatusDiff.objects = {}
  BY DEF StatusDiff
<1>4. Held(2)
  <2>1. f[1] = [next |-> 2, fields |-> Put(<<>>, text[1][1], Item(text, 1).value)]
    <3>1. f[1] = ReadLine(StatusDiff, text, 1, <<>>)
      BY <1>2
    <3> QED BY <1>3, <3>1 DEF ReadLine
  <2>2. StatusDiff.start \in DOMAIN f[1].fields /\ f[1].next = 2
    BY <1>3, <2>1 DEF Put
  <2>3. Item(text, 2) = [ok |-> TRUE, value |-> text[2][2], next |-> 3]
    BY DEF Item, Multi
  <2>4. f[2] = ReadLine(StatusDiff, text, 2, f[1].fields)
    BY <1>2, <2>2
  <2>5. f[2] = [next |-> 3, fields |-> Put(f[1].fields, "hash", text[2][2])]
    BY <1>3, <2>2, <2>3, <2>4 DEF ReadLine
  <2> QED BY <2>5 DEF Put
<1>5. ASSUME NEW n \in Nat, n + 1 \in 1..L, n + 1 > 2, Held(n) PROVE Held(n + 1)
  <2>0. (n + 1) - 1 = n
    OBVIOUS
  <2>1. CASE n + 1 < f[n].next
    <3>1. f[n + 1] = f[n]
      BY <1>2, <1>5, <2>0, <2>1
    <3> QED BY <1>5, <3>1
  <2>2. CASE ~(n + 1 < f[n].next)
    <3> DEFINE fields == f[n].fields
               kw == text[n + 1][1]
               item == Item(text, n + 1)
    <3>1. f[n + 1] = ReadLine(StatusDiff, text, n + 1, fields)
      BY <1>2, <1>5, <2>0, <2>2
    <3>2. f[n] # Stop
      BY <1>5, <2>2
    <3>3. Has(fields)
      BY <1>5, <3>2
    <3>4. kw \notin {"hash", "network-status-diff-version"}
      BY <1>5
    <3> HIDE DEF item, fields
    <3>5. CASE kw = "ed"
      <4>1. \/ f[n + 1] = Stop
            \/ f[n + 1] = [next |-> item.next, fields |-> AddTo(fields, "actions", item.value)]
        BY <1>3, <3>1, <3>4, <3>5 DEF ReadLine, item
      <4>2. Has(AddTo(fields, "actions", item.value))
        BY <3>3 DEF AddTo, Put
      <4> QED BY <4>1, <4>2
    <3>6. CASE kw # "ed"
      <4>1. f[n + 1] = [next |-> n + 1 + 1, fields |-> fields]
        BY <1>3, <3>1, <3>4, <3>6 DEF ReadLine
      <4> QED BY <3>3, <4>1
    <3> QED BY <3>5, <3>6
  <2> QED BY <2>1, <2>2
<1> HIDE DEF Held
<1>6. ASSUME NEW i \in 2..L PROVE Held(i)
  <2> SUFFICES ASSUME ~Held(i) PROVE FALSE
    OBVIOUS
  <2> DEFINE T == {n \in 2..L : ~Held(n)}
  <2>1. PICK n \in T : \A k \in T : n <= k
    <3>1. T \subseteq Nat /\ T # {}
      OBVIOUS
    <3> QED BY <3>1, LeastOf
  <2>2. n # 2 /\ n - 1 \in Nat /\ (n - 1) + 1 = n /\ n \in 1..L /\ n > 2 /\ n - 1 \in 2..L
    BY <1>4, <2>1
  <2>3. Held(n - 1)
    BY <2>1, <2>2
  <2>4. Held((n - 1) + 1)
    BY <1>5, <2>2, <2>3
  <2> QED BY <2>1, <2>2, <2>4
<1>7. Held(L)
  BY <1>6
<1>8. CASE f[L] = Stop
  <2>1. f[L].fields = Invalid
    BY <1>8
  <2>2. ReadLines(StatusDiff, text) = Invalid
    BY <1>1, <2>1
  <2> QED BY <2>2
<1>9. CASE Has(f[L].fields)
  <2> HIDE DEF L
  <2> QED BY <1>1, <1>9
<1> QED BY <1>7, <1>8, <1>9 DEF Held

IsText(text) == \E A : text \in Seq(A)

(* What apply_diff makes of a diff is what the directory said it would be. *)
LEMMA DiffGives ==
  ASSUME NEW old, IsText(old), NEW hour, NEW S \in SUBSET Authorities,
         NEW diff, diff = ReadDocument(StatusDiff, MakeDiff(old, Consensus(hour, S))),
         diff # Invalid,
         NEW text, ApplyDiff(text, diff) # Invalid
  PROVE  ApplyDiff(text, diff) = Consensus(hour, S)
<1> DEFINE new == Consensus(hour, S)
           made == MakeDiff(old, new)
<1>1. IsText(new) /\ \A i \in 1..Len(new) : new[i][1] \in Keywords
  BY ConsensusIs DEF IsText
<1> HIDE DEF new
<1>2. /\ Len(made) \in Nat /\ Len(made) >= 3
      /\ made[1] = <<"network-status-diff-version", 1>>
      /\ made[2] = <<"hash", [from |-> Digested(old), to |-> new]>>
      /\ \A i \in 1..Len(made) : i > 2 => made[i][1] \notin {"hash", "network-status-diff-version"}
  BY <1>1, DiffIs DEF IsText
<1>3. diff = ReadLines(StatusDiff, made)
  BY DEF ReadDocument, new
<1> HIDE DEF made
<1>4. diff["hash"] = made[2][2]
  <2>1. made[1][1] = "network-status-diff-version" /\ made[2][1] = "hash"
    BY <1>2
  <2> QED BY <1>2, <1>3, <2>1, DiffReads
<1>5. diff.hash.to = new
  BY <1>2, <1>4
<1> QED BY <1>5 DEF ApplyDiff, new

Published(text, upto) ==
  \E hour \in 0..upto, S \in SUBSET Authorities : text = Consensus(hour, S)

(* What a directory may answer to a request for the consensus. *)
AnswerOK(text, upto) ==
  \/ Published(text, upto)
  \/ \E old : IsText(old) /\ \E hour \in 0..upto :
       text = MakeDiff(old, Consensus(hour, Authorities))

(* What renew makes of an answer, if it reads it, was published whole. *)
LEMMA ReceivedIs ==
  ASSUME NEW upto \in Nat, NEW text, AnswerOK(text, upto), Received(text) # Invalid
  PROVE  Received(text) = Document(Received(text).text) /\ Published(Received(text).text, upto)
<1> DEFINE class == ClassOf(text, {NetworkStatus, StatusDiff})
<1>1. /\ NetworkStatus.start = "network-status-version"
      /\ StatusDiff.start = "network-status-diff-version"
  BY DEF NetworkStatus, StatusDiff
<1>2. NetworkStatus # StatusDiff
  BY <1>1
<1>3. \A t : Document(t).text = t
  BY DEF Document
<1>4. CASE Published(text, upto)
  <2>1. text[1][1] = "network-status-version" /\ Len(text) >= 4
    BY <1>4, ConsensusIs DEF Published
  <2>2. text # <<>>
    BY <2>1
  <2>3. class = NetworkStatus
    BY <1>1, <2>1, <2>2 DEF ClassOf
  <2>4. Received(text) = Document(text)
    BY <2>3 DEF Received
  <2> QED BY <1>3, <1>4, <2>4
<1>5. ASSUME NEW old, NEW hour \in 0..upto, IsText(old),
             text = MakeDiff(old, Consensus(hour, Authorities))
      PROVE  Received(text) = Document(Received(text).text) /\ Published(Received(text).text, upto)
  <2> DEFINE new == Consensus(hour, Authorities)
             diff == ReadDocument(StatusDiff, text)
             made == ApplyDiff(document.text, diff)
  <2>1. IsText(new) /\ \A i \in 1..Len(new) : new[i][1] \in Keywords
    BY ConsensusIs DEF IsText
  <2>2. text[1] = <<"network-status-diff-version", 1>> /\ Len(text) >= 3
    BY <1>5, <2>1, DiffIs DEF IsText
  <2>3. text # <<>>
    BY <2>2
  <2>4. class = StatusDiff
    BY <1>1, <2>2, <2>3 DEF ClassOf
  <2>5. document # None /\ diff # Invalid /\ made # Invalid /\ Received(text) = Document(made)
    BY <1>2, <2>4 DEF Received
  <2>6. made = new
    BY <1>5, <2>5, DiffGives
  <2> HIDE DEF made
  <2>7. Published(made, upto)
    BY <2>6 DEF Published
  <2> QED BY <1>3, <2>5, <2>7
<1> QED BY <1>4, <1>5 DEF AnswerOK

-----------------------------------------------------------------------------
(***************************************************************************)
(* Whose signatures the texts of the program have.                          *)
(***************************************************************************)

Majority(text, upto) ==
  \E hour \in 0..upto, S \in SUBSET Authorities :
    2 * Cardinality(S) > Cardinality(Authorities) /\ text = Consensus(hour, S)

(* A document that was read whole from what a directory answered.           *)
NewOK(new, upto) ==
  new = Document(new.text) /\ new.fields # Invalid /\ Published(new.text, upto)

(* What a thread holds before and after verify.                             *)
SignedAt(r, upto) ==
  /\ r.pc = "received" /\ r.want = "renew" => AnswerOK(r.answer, upto)
  /\ r.want = "certs" \/ r.pc = "save" => NewOK(r.new, upto)
  /\ r.pc = "write" => Majority(r.new.text, upto)

(* What is in use, and what the cache holds.                                *)
Stored ==
  /\ document # None => IsText(document.text)
  /\ document = None \/ torn \/ dead \/ Majority(document.text, now)
  /\ IsText(cached)
  /\ cached = <<>> \/ torn \/ Majority(cached, now)

AllSigned == Stored /\ \A u \in Threads : SignedAt(th[u], now)

(* A text that a majority signed is a text.                                 *)
LEMMA MajorityText ==
  ASSUME NEW text, NEW upto, Majority(text, upto)
  PROVE  IsText(text)
BY ConsensusIs DEF Majority, IsText

(* What is so at an hour is so later. *)
LEMMA SignedLater ==
  ASSUME NEW r, NEW upto \in Nat, SignedAt(r, upto)
  PROVE  SignedAt(r, upto + 1)
<1>1. \A hour \in 0..upto : hour \in 0..(upto + 1)
  OBVIOUS
<1>2. \A t : Published(t, upto) => Published(t, upto + 1)
  BY <1>1 DEF Published
<1>3. \A t : AnswerOK(t, upto) => AnswerOK(t, upto + 1)
  BY <1>1, <1>2 DEF AnswerOK
<1>4. \A t : Majority(t, upto) => Majority(t, upto + 1)
  BY <1>1 DEF Majority
<1> QED BY <1>2, <1>3, <1>4 DEF SignedAt, NewOK

(* A step of a thread that leaves the documents and the hour.               *)
LEMMA SignedMove ==
  ASSUME AllSigned, NEW u \in Threads, NEW r, Moves(u, r), SignedAt(r, now),
         UNCHANGED <<now, store>>
  PROVE  AllSigned'
<1>1. Stored'
  BY DEF AllSigned, Stored, store
<1>2. ASSUME NEW v \in Threads PROVE SignedAt(th'[v], now')
  BY DEF AllSigned, Moves
<1> QED BY <1>1, <1>2 DEF AllSigned

(* A thread that only goes on, or starts again.                             *)
LEMMA SignedGoes ==
  ASSUME Records, AllSigned, NEW u \in Threads, NEW l, l \notin {"received", "save", "write"},
         To(u, l), UNCHANGED <<now, store>>
  PROVE  AllSigned'
<1> DEFINE r == [th[u] EXCEPT !.pc = l]
<1>1. Moves(u, r) /\ r.pc = l /\ Same(u, r)
  BY ToMoves, PcIs
<1> HIDE DEF r
<1>2. SignedAt(r, now)
  BY <1>1 DEF AllSigned, SignedAt, Same
<1> QED BY <1>1, <1>2, SignedMove

LEMMA SignedStarts ==
  ASSUME Records, AllSigned, NEW u \in Threads, NEW r, DOMAIN r = Fields, r.want # "certs",
         r.pc \notin {"received", "save", "write"}, th' = [th EXCEPT ![u] = r],
         UNCHANGED <<now, store>>
  PROVE  AllSigned'
<1>1. Moves(u, r)
  BY SetMoves
<1>2. SignedAt(r, now)
  BY DEF SignedAt
<1> QED BY <1>1, <1>2, SignedMove

(* One step for each action that does more than go on. *)
LEMMA CallSigned ==
  ASSUME Safe, AllSigned, NEW u \in Threads, Call(u) PROVE AllSigned'
<1> DEFINE l == IF jobs[u] = "renew" THEN "lock" ELSE "ttl"
           r == [Start EXCEPT !.pc = l, !.want = jobs[u]]
<1>1. DOMAIN r = Fields /\ r.pc = l /\ r.want = jobs[u]
  BY StartIs
<1>2. th' = [th EXCEPT ![u] = r] /\ UNCHANGED <<now, store>>
  BY DEF Call
<1>3. jobs[u] # "certs" /\ l \notin {"received", "save", "write"}
  BY DEF Safe, Placed
<1> HIDE DEF r
<1> QED BY <1>1, <1>2, <1>3, SignedStarts DEF Safe

LEMMA RaisedSigned ==
  ASSUME Safe, AllSigned, NEW u \in Threads, Raised(u) PROVE AllSigned'
<1>1. UNCHANGED <<now, store>> /\ jobs[u] # "certs"
  BY DEF Raised, counters, Safe, Placed
<1>2. CASE th' = [th EXCEPT ![u].pc = "ttl", ![u].inner = @ + 1, ![u].mine = None]
  <2> DEFINE r == [th[u] EXCEPT !.pc = "ttl", !.inner = @ + 1, !.mine = None]
  <2>1. DOMAIN r = Fields /\ r.pc = "ttl" /\ r.want = th[u].want /\ r.new = th[u].new
    BY DEF Safe, Records, Fields
  <2>2. th' = [th EXCEPT ![u] = r]
    BY <1>2 DEF Safe, Records, Fields
  <2> HIDE DEF r
  <2>3. Moves(u, r)
    BY <2>1, <2>2, SetMoves DEF Safe
  <2>4. SignedAt(r, now)
    BY <2>1 DEF AllSigned, SignedAt
  <2> QED BY <1>1, <2>3, <2>4, SignedMove
<1>3. CASE th' = [th EXCEPT ![u] =
                    [Start EXCEPT !.pc = IF jobs[u] = "renew" THEN "lock" ELSE "ttl",
                                  !.want = jobs[u], !.tries = th[u].tries + 1]]
  <2> DEFINE l == IF jobs[u] = "renew" THEN "lock" ELSE "ttl"
             r == [Start EXCEPT !.pc = l, !.want = jobs[u], !.tries = th[u].tries + 1]
  <2>1. DOMAIN r = Fields /\ r.pc = l /\ r.want = jobs[u]
    BY DEF Start, Fields
  <2>2. th' = [th EXCEPT ![u] = r] /\ l \notin {"received", "save", "write"}
    BY <1>3
  <2> HIDE DEF r
  <2> QED BY <1>1, <2>1, <2>2, SignedStarts DEF Safe
<1>4. CASE th' = [th EXCEPT ![u] = [Start EXCEPT !.pc = "gaveup"]]
  <2> DEFINE r == [Start EXCEPT !.pc = "gaveup"]
  <2>1. DOMAIN r = Fields /\ r.pc = "gaveup" /\ r.want = None
    BY DEF Start, Fields
  <2>2. th' = [th EXCEPT ![u] = r]
    BY <1>4
  <2> HIDE DEF r
  <2> QED BY <1>1, <2>1, <2>2, SignedStarts, ConsensusAssumption DEF Safe
<1> QED BY <1>2, <1>3, <1>4 DEF Raised

(* Whatever a directory answers to renew was published, whole or as a diff. *)
LEMMA AnswersPublished ==
  ASSUME Safe, AllSigned, NEW u \in Threads, th[u].want = "renew",
         NEW text, text \in Answers(u) \/ text \in Useless(u)
  PROVE  AnswerOK(text, now)
<1>1. now \in Nat /\ now \in 0..now /\ (now > 0 => now - 1 \in 0..now)
  BY ConsensusAssumption DEF Safe, Guarded
<1>2. CASE \E hour \in 0..now, S \in SUBSET Authorities : text = Consensus(hour, S)
  BY <1>2 DEF AnswerOK, Published
<1>3. CASE /\ document # None
           /\ text = MakeDiff(document.text, Consensus(now, Authorities))
  BY <1>1, <1>3 DEF AnswerOK, AllSigned, Stored
<1>4. CASE text \in Answers(u)
  <2>1. \/ text = Consensus(now, Authorities)
        \/ document # None /\ text = MakeDiff(document.text, Consensus(now, Authorities))
    BY <1>4 DEF Answers
  <2> QED BY <1>1, <1>2, <1>3, <2>1
<1>5. CASE text \in Useless(u)
  <2> DEFINE a == CHOOSE a \in Authorities : TRUE
  <2>1. a \in Authorities
    BY ConsensusAssumption
  <2>2. \/ text = Consensus(now, {a})
        \/ now > 0 /\ text = Consensus(now - 1, Authorities)
    BY <1>5 DEF Useless
  <2> HIDE DEF a
  <2>3. {a} \in SUBSET Authorities /\ Authorities \in SUBSET Authorities
    BY <2>1
  <2> QED BY <1>1, <1>2, <2>2, <2>3
<1> QED BY <1>4, <1>5

LEMMA AskSigned ==
  ASSUME Safe, AllSigned, NEW u \in Threads, Ask(u) PROVE AllSigned'
<1>1. UNCHANGED <<now, store>> /\ th[u].pc = "ask"
  BY DEF Ask, At, counters
<1>2. CASE To(u, "failed")
  BY <1>1, <1>2, SignedGoes DEF Safe
<1>3. ASSUME NEW l \in {"idle", "received"}, NEW text, text \in Answers(u) \/ text \in Useless(u),
             th' = [th EXCEPT ![u].answer = text, ![u].mine = None, ![u].pc = l]
      PROVE  AllSigned'
  <2> DEFINE r == [th[u] EXCEPT !.answer = text, !.mine = None, !.pc = l]
  <2>1. /\ DOMAIN r = Fields /\ r.pc = l /\ r.want = th[u].want /\ r.answer = text
        /\ r.new = th[u].new
    BY DEF Safe, Records, Fields
  <2>2. th' = [th EXCEPT ![u] = r]
    BY <1>3 DEF Safe, Records
  <2> HIDE DEF r
  <2>3. Moves(u, r)
    BY <2>1, <2>2, SetMoves DEF Safe
  <2>4. th[u].want = "renew" => AnswerOK(text, now)
    BY <1>3, AnswersPublished
  <2>5. SignedAt(r, now)
    BY <2>1, <2>4 DEF AllSigned, SignedAt
  <2> QED BY <1>1, <2>3, <2>5, SignedMove
<1>4. ASSUME NEW text \in Answers(u),
             th' = [th EXCEPT ![u].answer = text, ![u].mine = None,
                      ![u].pc = IF @ = "ask" /\ th[u].want = "descriptor"
                                  THEN "idle" ELSE "received"]
      PROVE  AllSigned'
  <2> DEFINE l == IF th[u].want = "descriptor" THEN "idle" ELSE "received"
  <2>1. th' = [th EXCEPT ![u].answer = text, ![u].mine = None, ![u].pc = l]
    BY <1>1, <1>4 DEF Safe, Records, Fields
  <2>2. l \in {"idle", "received"}
    OBVIOUS
  <2> HIDE DEF l
  <2> QED BY <1>3, <1>4, <2>1, <2>2
<1>5. ASSUME NEW text \in Useless(u),
             th' = [th EXCEPT ![u].answer = text, ![u].mine = None, ![u].pc = "received"]
      PROVE  AllSigned'
  BY <1>3, <1>5
<1> QED BY <1>2, <1>4, <1>5 DEF Ask

(* What renew keeps of an answer was published whole. *)
LEMMA ReceiveSigned ==
  ASSUME Safe, AllSigned, NEW u \in Threads, Receive(u) PROVE AllSigned'
<1>1. /\ UNCHANGED <<now, store>> /\ th[u].pc = "received" /\ th[u].want = "renew"
      /\ now \in Nat
  BY ConsensusAssumption DEF Receive, At, counters, Safe, Guarded
<1>2. CASE To(u, "raised")
  BY <1>1, <1>2, SignedGoes DEF Safe
<1>3. ASSUME NEW new, NewOK(new, now), NEW v,
             th' = [th EXCEPT ![u].new = new, ![u].answer = None,
                      ![u].want = IF v.raises \/ v.ok THEN "renew" ELSE "certs",
                      ![u].pc = IF v.raises THEN "raised" ELSE IF v.ok THEN "save" ELSE "ttl"]
      PROVE  AllSigned'
  <2> DEFINE w == IF v.raises \/ v.ok THEN "renew" ELSE "certs"
             l == IF v.raises THEN "raised" ELSE IF v.ok THEN "save" ELSE "ttl"
             r == [th[u] EXCEPT !.new = new, !.answer = None, !.want = w, !.pc = l]
  <2>1. DOMAIN r = Fields /\ r.pc = l /\ r.want = w /\ r.new = new
    BY DEF Safe, Records, Fields
  <2>2. th' = [th EXCEPT ![u] = r]
    BY <1>3 DEF Safe, Records, Fields
  <2>3. l \in {"raised", "save", "ttl"}
    OBVIOUS
  <2> HIDE DEF r, l, w
  <2>4. Moves(u, r)
    BY <2>1, <2>2, SetMoves DEF Safe
  <2>5. SignedAt(r, now)
    BY <1>3, <2>1, <2>3 DEF SignedAt
  <2> QED BY <1>1, <2>4, <2>5, SignedMove
<1>4. PICK new : new = Received(th[u].answer) /\
        IF new = Invalid \/ new.fields = Invalid THEN To(u, "raised")
        ELSE \E v \in {Verify(new, certs)} :
               th' = [th EXCEPT ![u].new = new, ![u].answer = None,
                        ![u].want = IF v.raises \/ v.ok THEN "renew" ELSE "certs",
                        ![u].pc = IF v.raises THEN "raised" ELSE IF v.ok THEN "save" ELSE "ttl"]
  BY DEF Receive
<1>5. CASE new = Invalid \/ new.fields = Invalid
  BY <1>2, <1>4, <1>5
<1>6. CASE ~(new = Invalid \/ new.fields = Invalid)
  <2>1. PICK v \in {Verify(new, certs)} :
          th' = [th EXCEPT ![u].new = new, ![u].answer = None,
                   ![u].want = IF v.raises \/ v.ok THEN "renew" ELSE "certs",
                   ![u].pc = IF v.raises THEN "raised" ELSE IF v.ok THEN "save" ELSE "ttl"]
    BY <1>4, <1>6
  <2>2. AnswerOK(th[u].answer, now)
    BY <1>1 DEF AllSigned, SignedAt
  <2>3. NewOK(new, now)
    BY <1>1, <1>4, <1>6, <2>2, ReceivedIs DEF NewOK
  <2> QED BY <1>3, <2>1, <2>3
<1> QED BY <1>5, <1>6

LEMMA ReceiveCertsSigned ==
  ASSUME Safe, AllSigned, NEW u \in Threads, ReceiveCerts(u) PROVE AllSigned'
<1>1. /\ UNCHANGED <<now, document, cached, torn, dead>>
      /\ th[u].want = "certs"
      /\ th' = [th EXCEPT ![u].pc = "savecerts", ![u].answer = None]
  BY DEF ReceiveCerts, counters
<1> DEFINE r == [th[u] EXCEPT !.pc = "savecerts", !.answer = None]
<1>2. DOMAIN r = Fields /\ r.pc = "savecerts" /\ r.want = th[u].want /\ r.new = th[u].new
  BY DEF Safe, Records, Fields
<1>3. th' = [th EXCEPT ![u] = r]
  BY <1>1 DEF Safe, Records, Fields
<1> HIDE DEF r
<1>4. Moves(u, r)
  BY <1>2, <1>3, SetMoves DEF Safe
<1>5. SignedAt(r, now)
  BY <1>1, <1>2 DEF AllSigned, SignedAt
<1>6. Stored'
  BY <1>1 DEF AllSigned, Stored
<1>7. ASSUME NEW w \in Threads PROVE SignedAt(th'[w], now')
  BY <1>1, <1>4, <1>5 DEF AllSigned, Moves
<1> QED BY <1>6, <1>7 DEF AllSigned

(* New certificates may change what verify says, not what was read. *)
LEMMA WriteCertsSigned ==
  ASSUME Safe, AllSigned, NEW u \in Threads, WriteCerts(u) PROVE AllSigned'
<1>1. /\ UNCHANGED <<now, document, cached, torn, dead>>
      /\ th[u].want = "certs"
  BY DEF WriteCerts, counters, Safe
<1>2. PICK v \in {Verify(th[u].new, certs)} :
        th' = [th EXCEPT ![u].want = "renew", ![u].inner = 0,
                         ![u].pc = IF v.ok THEN "save" ELSE "raised"]
  BY DEF WriteCerts
<1> DEFINE l == IF v.ok THEN "save" ELSE "raised"
           r == [th[u] EXCEPT !.want = "renew", !.inner = 0, !.pc = l]
<1>3. DOMAIN r = Fields /\ r.pc = l /\ r.want = "renew" /\ r.new = th[u].new
  BY DEF Safe, Records, Fields
<1>4. th' = [th EXCEPT ![u] = r]
  BY <1>2 DEF Safe, Records, Fields
<1>5. l \in {"save", "raised"}
  OBVIOUS
<1> HIDE DEF r, l
<1>6. Moves(u, r)
  BY <1>3, <1>4, SetMoves DEF Safe
<1>7. SignedAt(r, now)
  BY <1>1, <1>3, <1>5 DEF AllSigned, SignedAt
<1>8. Stored'
  BY <1>1 DEF AllSigned, Stored
<1>9. ASSUME NEW w \in Threads PROVE SignedAt(th'[w], now')
  BY <1>1, <1>6, <1>7 DEF AllSigned, Moves
<1> QED BY <1>8, <1>9 DEF AllSigned

(* What renew puts into use passed verify: a majority signed it. *)
LEMMA SaveSigned ==
  ASSUME Safe, AllSigned, NEW u \in Threads, Save(u) PROVE AllSigned'
<1>1. /\ now' = now /\ document' = th[u].new /\ torn' = FALSE /\ cached' = <<>>
      /\ th[u].pc = "save" /\ To(u, "write")
  BY DEF Save, At, counters
<1> DEFINE new == th[u].new
           r == [th[u] EXCEPT !.pc = "write"]
<1>2. NewOK(new, now) /\ Verify(new, certs).ok
  BY <1>1 DEF AllSigned, SignedAt, Safe, Verified, VerifiedAt
<1>3. Moves(u, r) /\ r.pc = "write" /\ Same(u, r)
  BY <1>1, ToMoves, PcIs DEF Safe
<1> HIDE DEF r
<1>4. Majority(new.text, now)
  <2>1. PICK hour \in 0..now, S \in SUBSET Authorities : new.text = Consensus(hour, S)
    BY <1>2 DEF NewOK, Published
  <2>2. new = Document(Consensus(hour, S)) /\ new.fields # Invalid
    BY <1>2, <2>1 DEF NewOK
  <2>3. 2 * Cardinality(S) > Cardinality(Authorities)
    BY <1>2, <2>2, MajorityCounted
  <2> QED BY <2>1, <2>3 DEF Majority
<1>5. SignedAt(r, now)
  BY <1>2, <1>3, <1>4 DEF SignedAt, Same
<1>6. Stored'
  <2>1. IsText(new.text)
    BY <1>4, MajorityText
  <2>2. IsText(<<>>)
    <3>1. <<>> \in Seq({})
      OBVIOUS
    <3> QED BY <3>1 DEF IsText
  <2>3. document' # None => IsText(document'.text)
    BY <1>1, <2>1
  <2>4. Majority(document'.text, now')
    BY <1>1, <1>4
  <2> QED BY <1>1, <2>2, <2>3, <2>4 DEF Stored
<1>7. ASSUME NEW w \in Threads PROVE SignedAt(th'[w], now')
  BY <1>1, <1>3, <1>5 DEF AllSigned, Moves
<1> QED BY <1>6, <1>7 DEF AllSigned

LEMMA WriteSigned ==
  ASSUME Safe, AllSigned, NEW u \in Threads, Write(u) PROVE AllSigned'
<1>1. /\ UNCHANGED <<now, document, torn, dead>> /\ cached' = th[u].new.text
      /\ th[u].pc = "write" /\ th' = [th EXCEPT ![u] = Start]
  BY DEF Write, At, counters
<1>2. Majority(cached', now')
  BY <1>1 DEF AllSigned, SignedAt
<1>3. Stored'
  <2>1. IsText(cached')
    BY <1>2, MajorityText
  <2> QED BY <1>1, <1>2, <2>1 DEF AllSigned, Stored
<1>4. Moves(u, Start)
  BY <1>1, StartIs, SetMoves DEF Safe
<1>5. SignedAt(Start, now)
  BY StartIs, ConsensusAssumption DEF SignedAt
<1>6. ASSUME NEW w \in Threads PROVE SignedAt(th'[w], now')
  BY <1>1, <1>4, <1>5 DEF AllSigned, Moves
<1> QED BY <1>3, <1>6 DEF AllSigned

(***************************************************************************)
(* A file that is whole is one that was written whole: if a thread was      *)
(* writing, or the file came from one, the document is torn.                *)
(***************************************************************************)
LEMMA RestartSigned ==
  ASSUME Safe, AllSigned, Restart PROVE AllSigned'
<1> DEFINE Writers == {u \in Threads : th[u].pc = "write"}
           Parts(u) == {SubSeq(th[u].new.text, 1, n) : n \in 1..Len(th[u].new.text)}
<1>1. PICK text \in {cached} \union UNION {Parts(u) : u \in Writers} :
        /\ cached' = text
        /\ document' = Load(text)
        /\ torn' = ((\E u \in Threads : th[u].pc = "write") \/ (torn /\ text # <<>>))
  BY DEF Restart
<1>2. now' = now /\ th' = [u \in Threads |-> Start]
  BY DEF Restart
<1>3. IsText(text)
  <2>1. CASE text = cached
    BY <2>1 DEF AllSigned, Stored
  <2>2. ASSUME NEW u \in Writers, text \in Parts(u) PROVE IsText(text)
    <3>1. Majority(th[u].new.text, now)
      BY DEF AllSigned, SignedAt
    <3>2. PICK A : th[u].new.text \in Seq(A)
      BY <3>1, MajorityText DEF IsText
    <3>3. PICK n \in 1..Len(th[u].new.text) : text = SubSeq(th[u].new.text, 1, n)
      BY <2>2
    <3>4. Len(th[u].new.text) \in Nat
      BY <3>2
    <3>5. 1 \in Int /\ n \in Int /\ 1 >= 1 /\ n <= Len(th[u].new.text)
      BY <3>4
    <3> QED BY <3>2, <3>3, <3>5, PartOf DEF IsText
  <2> QED BY <1>1, <2>1, <2>2
<1>4. text = <<>> \/ torn' \/ Majority(text, now)
  <2> SUFFICES ASSUME text # <<>>, ~torn' PROVE Majority(text, now)
    OBVIOUS
  <2>1. Writers = {} /\ ~torn
    BY <1>1
  <2>2. text = cached
    BY <1>1, <2>1
  <2> QED BY <2>1, <2>2 DEF AllSigned, Stored
<1>5. document' = None \/ (text # <<>> /\ document'.text = text)
  BY <1>1 DEF Load, Document
<1>6. Stored'
  BY <1>1, <1>2, <1>3, <1>4, <1>5 DEF Stored
<1>7. ASSUME NEW u \in Threads PROVE SignedAt(th'[u], now')
  BY <1>2, StartIs, ConsensusAssumption DEF SignedAt
<1> QED BY <1>6, <1>7 DEF AllSigned

LEMMA HourSigned ==
  ASSUME Safe, AllSigned, Hour PROVE AllSigned'
<1>1. now \in Nat /\ now' = now + 1 /\ UNCHANGED <<document, cached, torn, dead, th>>
  BY ConsensusAssumption DEF Safe, Guarded, Hour, store
<1>2. \A t : Majority(t, now) => Majority(t, now')
  <2>1. \A hour \in 0..now : hour \in 0..now'
    BY <1>1
  <2> QED BY <2>1 DEF Majority
<1>3. Stored'
  BY <1>1, <1>2 DEF AllSigned, Stored
<1>4. ASSUME NEW u \in Threads PROVE SignedAt(th'[u], now')
  BY <1>1, SignedLater DEF AllSigned
<1> QED BY <1>3, <1>4 DEF AllSigned

(* Every step. *)
LEMMA AllSignedKept ==
  ASSUME Safe, AllSigned, [Next]_vars PROVE AllSigned'
<1>1. ASSUME NEW u \in Threads, NEW l, l \notin {"received", "save", "write"}, To(u, l),
             UNCHANGED <<now, store>>
      PROVE  AllSigned'
  BY <1>1, SignedGoes DEF Safe
<1>2. ASSUME NEW u \in Threads, NEW l, l \in {"idle", "ttl", "raised", "look", "forget", "create",
                "use", "failed", "expire"}, To(u, l), UNCHANGED <<now, store>>
      PROVE  AllSigned'
  BY <1>1, <1>2
<1>3. ASSUME NEW u \in Threads, Lock(u) PROVE AllSigned'
  BY <1>2, <1>3 DEF Lock, counters
<1>4. ASSUME NEW u \in Threads, CheckTtl(u) PROVE AllSigned'
  BY <1>2, <1>4 DEF CheckTtl, counters
<1>5. ASSUME NEW u \in Threads, Forget(u) PROVE AllSigned'
  BY <1>2, <1>5 DEF Forget, counters
<1>6. ASSUME NEW u \in Threads, Look(u) PROVE AllSigned'
  BY <1>2, <1>6 DEF Look, counters
<1>7. ASSUME NEW u \in Threads, Create(u) PROVE AllSigned'
  <2>1. UNCHANGED <<now, store>>
    BY <1>7 DEF Create, counters
  <2>2. CASE To(u, "failed")
    BY <1>2, <2>1, <2>2
  <2>3. ASSUME NEW g, th' = [th EXCEPT ![u].pc = "assign", ![u].mine = g] PROVE AllSigned'
    <3> DEFINE r == [th[u] EXCEPT !.pc = "assign", !.mine = g]
    <3>1. DOMAIN r = Fields /\ r.pc = "assign" /\ r.want = th[u].want /\ r.new = th[u].new
      BY DEF Safe, Records, Fields
    <3>2. th' = [th EXCEPT ![u] = r]
      BY <2>3 DEF Safe, Records
    <3> HIDE DEF r
    <3> QED BY <2>1, <3>1, <3>2, SetMoves, SignedMove DEF Safe, AllSigned, SignedAt
  <2> QED BY <1>7, <2>2, <2>3 DEF Create
<1>8. ASSUME NEW u \in Threads, Assign(u) PROVE AllSigned'
  <2> DEFINE r == [th[u] EXCEPT !.pc = "use", !.mine = None]
  <2>1. UNCHANGED <<now, store>>
    BY <1>8 DEF Assign, counters
  <2>2. DOMAIN r = Fields /\ r.pc = "use" /\ r.want = th[u].want /\ r.new = th[u].new
    BY DEF Safe, Records, Fields
  <2>3. th' = [th EXCEPT ![u] = r]
    BY <1>8 DEF Assign, Safe, Records
  <2> HIDE DEF r
  <2> QED BY <2>1, <2>2, <2>3, SetMoves, SignedMove DEF Safe, AllSigned, SignedAt
<1>9. ASSUME NEW u \in Threads, Use(u) PROVE AllSigned'
  <2>1. UNCHANGED <<now, store>>
    BY <1>9 DEF Use, counters
  <2>2. CASE To(u, "failed")
    BY <1>2, <2>1, <2>2
  <2>3. CASE th' = [th EXCEPT ![u].pc = "ask", ![u].mine = circuit]
    <3> DEFINE r == [th[u] EXCEPT !.pc = "ask", !.mine = circuit]
    <3>1. DOMAIN r = Fields /\ r.pc = "ask" /\ r.want = th[u].want /\ r.new = th[u].new
      BY DEF Safe, Records, Fields
    <3>2. th' = [th EXCEPT ![u] = r]
      BY <2>3 DEF Safe, Records
    <3> HIDE DEF r
    <3> QED BY <2>1, <3>1, <3>2, SetMoves, SignedMove DEF Safe, AllSigned, SignedAt
  <2> QED BY <1>9, <2>2, <2>3 DEF Use
<1>10. ASSUME NEW u \in Threads, FailTest(u) PROVE AllSigned'
  BY <1>2, <1>10 DEF FailTest, counters
<1>11. ASSUME NEW u \in Threads, Expire(u) PROVE AllSigned'
  BY <1>2, <1>11 DEF Expire, counters
<1>12. ASSUME NEW u \in Threads, GiveUp(u) PROVE AllSigned'
  BY <1>2, <1>12 DEF GiveUp, counters
<1>13. ASSUME NEW u \in Threads, Step(u) PROVE AllSigned'
  BY <1>3, <1>4, <1>5, <1>6, <1>7, <1>8, <1>9, <1>10, <1>11, <1>12, <1>13, AskSigned, RaisedSigned,
     ReceiveSigned, ReceiveCertsSigned, WriteCertsSigned, SaveSigned, WriteSigned
     DEF Step
<1>14. CASE UNCHANGED vars
  <2>1. UNCHANGED <<now, document, cached, torn, dead, th>>
    BY <1>14 DEF vars
  <2> QED BY <2>1 DEF AllSigned, Stored
<1>15. CASE Break
  <2>1. UNCHANGED <<now, document, cached, torn, dead, th>>
    BY <1>15 DEF Break, counters, store
  <2> QED BY <2>1 DEF AllSigned, Stored
<1> QED BY <1>13, <1>14, <1>15, CallSigned, RestartSigned, HourSigned DEF Next

(* And so always. *)
LEMMA AlwaysSigned == Spec => [](Safe /\ AllSigned)
<1>1. Init => AllSigned
  <2> SUFFICES ASSUME Init PROVE AllSigned
    OBVIOUS
  <2>1. document = None /\ cached = <<>> /\ th = [u \in Threads |-> Start]
    BY DEF Init
  <2>2. <<>> \in Seq({})
    OBVIOUS
  <2>3. IsText(cached)
    BY <2>1, <2>2 DEF IsText
  <2>4. Stored
    BY <2>1, <2>3 DEF Stored
  <2>5. \A u \in Threads : SignedAt(th[u], now)
    BY <2>1, StartIs, ConsensusAssumption DEF SignedAt
  <2> QED BY <2>4, <2>5 DEF AllSigned
<1>2. Safe /\ AllSigned /\ [Next]_vars => AllSigned'
  BY AllSignedKept
<1> QED BY <1>1, <1>2, AlwaysSafe, PTL DEF Spec

(***************************************************************************)
(* A document in use that was not read from a half-written file is one the  *)
(* authorities published, whole, and more than half of them signed it,      *)
(* whatever the directories answer and however threads, diffs, new keys and *)
(* restarts follow one another (verify, apply_diff, save, load).            *)
(***************************************************************************)
THEOREM MajorityInUse == Spec => []MajoritySigned
<1>1. AllSigned => MajoritySigned
  BY DEF AllSigned, Stored, Majority, MajoritySigned
<1> QED BY <1>1, AlwaysSigned, PTL

-----------------------------------------------------------------------------
(***************************************************************************)
(* What a diff was made from is what it is applied to.                      *)
(***************************************************************************)

(* The keywords of what is signed. *)
Plain == {"network-status-version", "valid-after", "valid-until", "dir-source", "vote-digest",
          "r", "s"}

(* A consensus is what is signed, and then the signatures.                  *)
LEMMA ConsensusParts ==
  ASSUME NEW hour, NEW S \in SUBSET Authorities
  PROVE  LET text == Consensus(hour, S)
             body == Body(hour)
         IN /\ Len(body) \in Nat /\ Len(text) \in Nat /\ Len(body) <= Len(text)
            /\ \A i \in 1..Len(body) : text[i] = body[i] /\ body[i][1] \in Plain
            /\ \A i \in 1..Len(text) : i > Len(body) => text[i][1] \notin Plain
            /\ Len(body) < Len(text) => text[Len(body) + 1][1] = "directory-signature"
<1> DEFINE body == Body(hour)
           sigs == Signatures(hour, S)
           text == Consensus(hour, S)
           n == Len(body)
           c == Cardinality(S)
<1>1. text = body \o sigs
  BY DEF Consensus, Concat, Signatures
<1>2. /\ \E A : body \in Seq(A)
      /\ \A i \in 1..n : body[i][1] \in Plain
  BY BodyIs DEF Plain
<1>3. /\ \E A : sigs \in Seq(A)
      /\ \A i \in 1..Len(sigs) :
           sigs[i][1] \in {"directory-signature", "BEGIN", "signature", "END"}
  BY SignaturesAre
<1>4. Len(sigs) > 0 => sigs[1][1] = "directory-signature"
  <2>1. c \in Nat
    <3>1. IsFiniteSet(S)
      BY ConsensusAssumption, FS_Subset
    <3> QED BY <3>1, FS_CardinalityType
  <2> DEFINE order == SetToSeq(S)
             x(k) == <<"directory-signature", [identity |-> order[((k - 1) \div 4) + 1]]>>
             y(k) == <<"signature", [key |-> KeyOf(order[((k - 1) \div 4) + 1], hour),
                                     over |-> hour]>>
  <2>2. sigs = [k \in 1..(4 * c) |-> <<x(k), Begin, y(k), End>>[((k - 1) % 4) + 1]]
    BY DEF Signatures
  <2>3. x(1)[1] = "directory-signature"
    OBVIOUS
  <2> HIDE DEF sigs, x, y, c
  <2>4. SUFFICES ASSUME Len(sigs) > 0 PROVE sigs[1][1] = "directory-signature"
    OBVIOUS
  <2>5. Len(sigs) = 4 * c
    BY <2>1, <2>2
  <2>6. 1 \in 1..(4 * c) /\ ((1 - 1) % 4) + 1 = 1
    BY <2>1, <2>4, <2>5
  <2>7. sigs[1] = <<x(1), Begin, y(1), End>>[1]
    BY <2>2, <2>6
  <2>8. sigs[1] = x(1)
    BY <2>7
  <2> QED BY <2>3, <2>8
<1> HIDE DEF body, sigs, text
<1>5. PICK A : body \in Seq(A)
  BY <1>2
<1>6. PICK B : sigs \in Seq(B)
  BY <1>3
<1> DEFINE r == body \o sigs
<1>7. /\ n \in Nat /\ Len(sigs) \in Nat /\ Len(r) = n + Len(sigs)
      /\ \A i \in 1..n : r[i] = body[i]
      /\ \A i \in 1..Len(sigs) : r[n + i] = sigs[i]
      /\ \A i \in 1..Len(r) : i \notin 1..n => (i - n) \in 1..Len(sigs) /\ r[i] = sigs[i - n]
  BY <1>5, <1>6, Followed
<1> HIDE DEF r
<1>8. text = r
  BY <1>1 DEF r
<1>9. ASSUME NEW i \in 1..Len(text), i > n PROVE text[i][1] \notin Plain
  <2>1. i \notin 1..n
    BY <1>7, <1>9
  <2>2. i - n \in 1..Len(sigs) /\ text[i] = sigs[i - n]
    BY <1>7, <1>8, <2>1
  <2> QED BY <1>3, <2>2 DEF Plain
<1>10. n < Len(text) => text[n + 1][1] = "directory-signature"
  <2> SUFFICES ASSUME n < Len(text) PROVE text[n + 1][1] = "directory-signature"
    OBVIOUS
  <2>1. Len(sigs) > 0 /\ 1 \in 1..Len(sigs)
    BY <1>7, <1>8
  <2>2. text[n + 1] = sigs[1]
    BY <1>7, <1>8, <2>1
  <2> QED BY <1>4, <2>1, <2>2
<1>11. Len(text) \in Nat /\ n <= Len(text)
  BY <1>7, <1>8
<1>12. \A i \in 1..n : text[i] = body[i]
  BY <1>7, <1>8
<1> QED BY <1>2, <1>7, <1>9, <1>10, <1>11, <1>12 DEF body, text

(* No signature is before the end of what the digest covers.                *)
LEMMA DigestedPlain ==
  ASSUME NEW A, NEW text \in Seq(A), NEW i \in 1..Len(Digested(text))
  PROVE  text[i][1] # "directory-signature"
<1> DEFINE ends == {n \in 1..Len(text) : text[n][1] = "directory-signature"}
           p == CHOOSE n \in ends : \A m \in ends : n <= m
           k == IF ends = {} THEN Len(text) ELSE p - 1
<1>1. Digested(text) = SubSeq(text, 1, k)
  BY DEF Digested
<1>2. Len(Digested(text)) \in 0..Len(text) /\ i \in 1..Len(text)
  <2>1. Len(Digested(text)) \in 0..Len(text)
    BY DigestedPart
  <2> QED BY <2>1
<1>3. CASE ends = {}
  BY <1>2, <1>3
<1>4. CASE ends # {}
  <2>1. ends \subseteq Nat
    OBVIOUS
  <2>2. \E n \in ends : \A m \in ends : n <= m
    BY <1>4, <2>1, LeastOf
  <2>3. p \in ends /\ \A m \in ends : p <= m
    BY <2>2
  <2>4. p \in 1..Len(text) /\ Digested(text) = SubSeq(text, 1, p - 1)
    BY <1>1, <1>4, <2>3
  <2> HIDE DEF p, ends
  <2>5. Len(SubSeq(text, 1, p - 1)) = p - 1
    BY <2>4
  <2>6. ~(p <= i)
    BY <2>4, <2>5
  <2>7. i \notin ends
    BY <2>3, <2>6
  <2> QED BY <1>2, <2>7 DEF ends
<1> QED BY <1>3, <1>4

(* A text that is a consensus, or the first lines of one.                   *)
FirstLines(text, upto) ==
  \E hour \in 0..upto, S \in SUBSET Authorities :
    \E n \in 1..Len(Consensus(hour, S)) : text = SubSeq(Consensus(hour, S), 1, n)

(* Its part that the digest covers is the first lines of a body.            *)
LEMMA FirstOfBody ==
  ASSUME NEW hour, NEW S \in SUBSET Authorities, NEW k \in 1..Len(Consensus(hour, S)),
         NEW text, text = SubSeq(Consensus(hour, S), 1, k)
  PROVE  /\ IsText(text) /\ Len(Digested(text)) \in Nat
         /\ Len(Digested(text)) <= Len(Body(hour))
         /\ \A i \in 1..Len(Digested(text)) :
              Digested(text)[i] = Body(hour)[i] /\ Digested(text)[i][1] \in Plain
<1> DEFINE whole == Consensus(hour, S)
           body == Body(hour)
           L == Len(body)
           first == Digested(text)
           W == Len(whole)
<1>1. PICK A : whole \in Seq(A)
  BY ConsensusIs
<1>2. /\ L \in Nat /\ W \in Nat /\ L <= W
      /\ \A i \in 1..L : whole[i] = body[i] /\ body[i][1] \in Plain
      /\ L < W => whole[L + 1][1] = "directory-signature"
  BY ConsensusParts
<1> HIDE DEF whole, body, first
<1>3. text \in Seq(A) /\ Len(text) = k /\ \A i \in 1..k : text[i] = whole[i]
  <2> DEFINE z == 0
  <2>1. k \in 0..Len(whole) /\ z \in 0..k /\ k - z = k /\ z + 1 = 1 /\ \A i \in 1..k : z + i = i
    BY <1>2 DEF whole
  <2> HIDE DEF z
  <2>2. /\ SubSeq(whole, z + 1, k) \in Seq(A) /\ Len(SubSeq(whole, z + 1, k)) = k - z
        /\ \A i \in 1..(k - z) : SubSeq(whole, z + 1, k)[i] = whole[z + i]
    BY <1>1, <2>1, SubIs
  <2>3. text = SubSeq(whole, z + 1, k)
    BY <2>1 DEF whole
  <2> QED BY <2>1, <2>2, <2>3
<1>4. Len(first) \in 0..k /\ \A i \in 1..Len(first) : first[i] = text[i]
  BY <1>3, DigestedPart DEF first
<1>5. k \in Nat /\ k <= W /\ Len(first) \in Nat /\ Len(first) <= k
  BY <1>2, <1>4 DEF whole, W
<1>6. Len(first) <= L
  <2> SUFFICES ASSUME L < Len(first) PROVE FALSE
    BY <1>2, <1>5
  <2>1. L + 1 \in 1..Len(first) /\ L + 1 \in 1..k /\ L < W
    BY <1>2, <1>5
  <2>2. text[L + 1][1] = "directory-signature"
    BY <1>2, <1>3, <2>1
  <2> QED BY <1>3, <2>1, <2>2, DigestedPlain DEF first
<1>7. ASSUME NEW i \in 1..Len(first) PROVE first[i] = body[i] /\ first[i][1] \in Plain
  <2>1. i \in 1..k /\ i \in 1..L
    BY <1>2, <1>5, <1>6
  <2> QED BY <1>2, <1>3, <1>4, <2>1
<1> QED BY <1>3, <1>5, <1>6, <1>7 DEF IsText, first, body

(* The lines that two bodies have are in the same order in both.            *)
LEMMA PlacesRise ==
  ASSUME NEW hour, NEW body, Len(body) \in Nat, Len(body) <= Len(Body(hour)),
         \A i \in 1..Len(body) : body[i] = Body(hour)[i] /\ body[i][1] \in Plain,
         NEW later, NEW S \in SUBSET Authorities
  PROVE  Rising(body, Consensus(later, S))
<1> DEFINE new == Consensus(later, S)
           b1 == Body(hour)
           b2 == Body(later)
           Place(i) == PlaceOf(body[i], new)
<1>1. /\ Len(b2) \in Nat /\ Len(new) \in Nat
      /\ \A i \in 1..Len(b2) : new[i] = b2[i]
      /\ \A i \in 1..Len(new) : i > Len(b2) => new[i][1] \notin Plain
  BY ConsensusParts
<1>2. /\ Len(b1) \in Nat /\ \A i \in 1..Len(b1) : Rank(b1[i]) \in Int
      /\ \A i, j \in 1..Len(b1) : i < j => Rank(b1[i]) < Rank(b1[j])
  BY RanksRise
<1>3. \A i, j \in 1..Len(b2) : i < j => Rank(b2[i]) < Rank(b2[j])
  BY RanksRise
<1>4. \A i \in 1..Len(b2) : Rank(b2[i]) \in Int
  BY RanksRise
<1> SUFFICES ASSUME NEW i \in 1..Len(body), NEW j \in 1..Len(body), i < j,
                    Place(i) # 0, Place(j) # 0
             PROVE  Place(i) < Place(j)
  BY DEF Rising
<1> HIDE DEF new, b1, b2
<1>5. ASSUME NEW m \in 1..Len(body), Place(m) # 0
      PROVE  Place(m) \in 1..Len(b2) /\ b2[Place(m)] = b1[m] /\ m \in 1..Len(b1)
  <2> DEFINE p == Place(m)
  <2>1. p \in 0..Len(new) /\ (p # 0 => new[p] = body[m])
    BY <1>1, PlaceIs
  <2>2. p \in 1..Len(new) /\ new[p] = body[m]
    BY <1>1, <1>5, <2>1
  <2> HIDE DEF p
  <2>3. body[m] = b1[m] /\ body[m][1] \in Plain /\ m \in 1..Len(b1)
    BY <1>2 DEF b1
  <2>4. ~(p > Len(b2))
    BY <1>1, <2>2, <2>3
  <2>5. p \in 1..Len(b2)
    BY <1>1, <2>2, <2>4
  <2> QED BY <1>1, <2>2, <2>3, <2>5 DEF p
<1> DEFINE p == Place(i)
           q == Place(j)
<1>6. p \in 1..Len(b2) /\ b2[p] = b1[i] /\ i \in 1..Len(b1)
  BY <1>5
<1>7. q \in 1..Len(b2) /\ b2[q] = b1[j] /\ j \in 1..Len(b1)
  BY <1>5
<1> HIDE DEF p, q
<1>8. Rank(b2[p]) < Rank(b2[q])
  BY <1>2, <1>6, <1>7
<1>9. ~(q < p) /\ p # q
  <2>1. Rank(b2[p]) \in Int /\ Rank(b2[q]) \in Int
    BY <1>4, <1>6, <1>7
  <2>2. q < p => Rank(b2[q]) < Rank(b2[p])
    BY <1>3, <1>6, <1>7
  <2> QED BY <1>8, <2>1, <2>2
<1>10. p < q
  BY <1>1, <1>6, <1>7, <1>9
<1> QED BY <1>10 DEF p, q

(* What is in use or in the cache is a consensus or its first lines, and a  *)
(* diff that was answered was made from what is in use.                     *)
Parted ==
  /\ document # None => FirstLines(document.text, now)
  /\ cached = <<>> \/ FirstLines(cached, now)

AskedAt(r) ==
  r.pc = "received" /\ r.want = "renew" =>
    \/ Published(r.answer, now)
    \/ /\ document # None
       /\ \E hour \in 0..now : r.answer = MakeDiff(document.text, Consensus(hour, Authorities))

AllAsked == Parted /\ \A u \in Threads : AskedAt(th[u])

(* What a majority signed is whole. *)
LEMMA WholeIs ==
  ASSUME NEW text, NEW upto, Published(text, upto)
  PROVE  FirstLines(text, upto)
<1>1. PICK hour \in 0..upto, S \in SUBSET Authorities : text = Consensus(hour, S)
  BY DEF Published
<1> DEFINE whole == Consensus(hour, S)
           n == Len(whole)
<1>2. PICK A : whole \in Seq(A)
  BY ConsensusIs
<1>3. n \in Nat /\ n >= 4
  BY ConsensusIs
<1> HIDE DEF whole
<1>4. SubSeq(whole, 1, n) = whole
  BY <1>2, <1>3
<1>5. n \in 1..n
  BY <1>3
<1> QED BY <1>1, <1>4, <1>5 DEF FirstLines, whole

LEMMA MajorityWhole ==
  ASSUME NEW text, NEW upto, Majority(text, upto)
  PROVE  FirstLines(text, upto) /\ text # <<>>
<1>1. Published(text, upto)
  BY DEF Majority, Published
<1>2. Len(text) >= 4
  BY ConsensusIs DEF Majority
<1> QED BY <1>1, <1>2, WholeIs

(* A step of a thread that leaves the documents and the hour.               *)
LEMMA AskedMove ==
  ASSUME AllAsked, NEW u \in Threads, NEW r, Moves(u, r), AskedAt(r),
         UNCHANGED <<now, document, cached>>
  PROVE  AllAsked'
<1>1. Parted'
  BY DEF AllAsked, Parted
<1>2. ASSUME NEW v \in Threads PROVE AskedAt(th[v])'
  BY DEF AllAsked, AskedAt, Moves
<1> QED BY <1>1, <1>2 DEF AllAsked

(* A thread that does not go to where it has an answer.                     *)
LEMMA AskedGoes ==
  ASSUME Records, AllAsked, NEW u \in Threads, NEW l, l # "received",
         To(u, l), UNCHANGED <<now, document, cached>>
  PROVE  AllAsked'
<1> DEFINE r == [th[u] EXCEPT !.pc = l]
<1>1. Moves(u, r) /\ r.pc = l
  BY ToMoves, PcIs
<1> HIDE DEF r
<1>2. AskedAt(r)
  BY <1>1 DEF AskedAt
<1> QED BY <1>1, <1>2, AskedMove

LEMMA AskedStarts ==
  ASSUME Records, AllAsked, NEW u \in Threads, NEW r, DOMAIN r = Fields, r.pc # "received",
         th' = [th EXCEPT ![u] = r], UNCHANGED <<now, document, cached>>
  PROVE  AllAsked'
<1>1. Moves(u, r)
  BY SetMoves
<1>2. AskedAt(r)
  BY DEF AskedAt
<1> QED BY <1>1, <1>2, AskedMove

(* The answer that a directory gives is made from what is in use.           *)
LEMMA AskAsked ==
  ASSUME Safe, AllAsked, NEW u \in Threads, Ask(u) PROVE AllAsked'
<1>1. UNCHANGED <<now, document, cached>> /\ th[u].pc = "ask"
  BY DEF Ask, At, counters, store
<1>2. now \in Nat /\ now \in 0..now /\ (now > 0 => now - 1 \in 0..now)
  BY ConsensusAssumption DEF Safe, Guarded
<1>3. CASE To(u, "failed")
  BY <1>1, <1>3, AskedGoes DEF Safe
<1>4. ASSUME NEW l \in {"idle", "received"}, NEW text,
             th[u].want = "renew" =>
               \/ Published(text, now)
               \/ document # None /\ text = MakeDiff(document.text, Consensus(now, Authorities)),
             th' = [th EXCEPT ![u].answer = text, ![u].mine = None, ![u].pc = l]
      PROVE  AllAsked'
  <2> DEFINE r == [th[u] EXCEPT !.answer = text, !.mine = None, !.pc = l]
  <2>1. DOMAIN r = Fields /\ r.pc = l /\ r.want = th[u].want /\ r.answer = text
    BY DEF Safe, Records, Fields
  <2>2. th' = [th EXCEPT ![u] = r]
    BY <1>4 DEF Safe, Records
  <2> HIDE DEF r
  <2>3. Moves(u, r)
    BY <2>1, <2>2, SetMoves DEF Safe
  <2>4. AskedAt(r)
    BY <1>2, <1>4, <2>1 DEF AskedAt
  <2> QED BY <1>1, <2>3, <2>4, AskedMove
<1>5. ASSUME NEW text \in Answers(u),
             th' = [th EXCEPT ![u].answer = text, ![u].mine = None,
                      ![u].pc = IF @ = "ask" /\ th[u].want = "descriptor"
                                  THEN "idle" ELSE "received"]
      PROVE  AllAsked'
  <2> DEFINE l == IF th[u].want = "descriptor" THEN "idle" ELSE "received"
  <2>1. th' = [th EXCEPT ![u].answer = text, ![u].mine = None, ![u].pc = l]
    BY <1>1, <1>5 DEF Safe, Records, Fields
  <2>2. l \in {"idle", "received"}
    OBVIOUS
  <2>3. th[u].want = "renew" =>
          \/ text = Consensus(now, Authorities)
          \/ document # None /\ text = MakeDiff(document.text, Consensus(now, Authorities))
    BY <1>5 DEF Answers
  <2>4. th[u].want = "renew" =>
          \/ Published(text, now)
          \/ document # None /\ text = MakeDiff(document.text, Consensus(now, Authorities))
    BY <1>2, <2>3 DEF Published
  <2> HIDE DEF l
  <2> QED BY <1>4, <2>1, <2>2, <2>4
<1>6. ASSUME NEW text \in Useless(u),
             th' = [th EXCEPT ![u].answer = text, ![u].mine = None, ![u].pc = "received"]
      PROVE  AllAsked'
  <2> DEFINE a == CHOOSE a \in Authorities : TRUE
  <2>1. a \in Authorities
    BY ConsensusAssumption
  <2>2. th[u].want = "renew" =>
          \/ text = Consensus(now, {a})
          \/ now > 0 /\ text = Consensus(now - 1, Authorities)
    BY <1>6 DEF Useless
  <2> HIDE DEF a
  <2>3. {a} \in SUBSET Authorities /\ Authorities \in SUBSET Authorities
    BY <2>1
  <2>4. th[u].want = "renew" => Published(text, now)
    BY <1>2, <2>2, <2>3 DEF Published
  <2> QED BY <1>4, <1>6, <2>4
<1> QED BY <1>3, <1>5, <1>6 DEF Ask

LEMMA ReceiveAsked ==
  ASSUME Safe, AllAsked, NEW u \in Threads, Receive(u) PROVE AllAsked'
<1>1. UNCHANGED <<now, document, cached>>
  BY DEF Receive, counters, store
<1>2. CASE To(u, "raised")
  BY <1>1, <1>2, AskedGoes DEF Safe
<1>3. ASSUME NEW new, NEW v,
             th' = [th EXCEPT ![u].new = new, ![u].answer = None,
                      ![u].want = IF v.raises \/ v.ok THEN "renew" ELSE "certs",
                      ![u].pc = IF v.raises THEN "raised" ELSE IF v.ok THEN "save" ELSE "ttl"]
      PROVE  AllAsked'
  <2> DEFINE w == IF v.raises \/ v.ok THEN "renew" ELSE "certs"
             l == IF v.raises THEN "raised" ELSE IF v.ok THEN "save" ELSE "ttl"
             r == [th[u] EXCEPT !.new = new, !.answer = None, !.want = w, !.pc = l]
  <2>1. DOMAIN r = Fields /\ r.pc = l
    BY DEF Safe, Records, Fields
  <2>2. th' = [th EXCEPT ![u] = r]
    BY <1>3 DEF Safe, Records, Fields
  <2>3. l # "received"
    OBVIOUS
  <2> HIDE DEF r, l, w
  <2> QED BY <1>1, <2>1, <2>2, <2>3, AskedStarts DEF Safe
<1> QED BY <1>2, <1>3 DEF Receive

LEMMA ReceiveCertsAsked ==
  ASSUME Safe, AllAsked, NEW u \in Threads, ReceiveCerts(u) PROVE AllAsked'
<1>1. /\ UNCHANGED <<now, document, cached>>
      /\ th' = [th EXCEPT ![u].pc = "savecerts", ![u].answer = None]
  BY DEF ReceiveCerts, counters
<1> DEFINE r == [th[u] EXCEPT !.pc = "savecerts", !.answer = None]
<1>2. DOMAIN r = Fields /\ r.pc = "savecerts"
  BY DEF Safe, Records, Fields
<1>3. th' = [th EXCEPT ![u] = r]
  BY <1>1 DEF Safe, Records, Fields
<1> HIDE DEF r
<1> QED BY <1>1, <1>2, <1>3, AskedStarts DEF Safe

LEMMA WriteCertsAsked ==
  ASSUME Safe, AllAsked, NEW u \in Threads, WriteCerts(u) PROVE AllAsked'
<1>1. UNCHANGED <<now, document, cached>>
  BY DEF WriteCerts, counters
<1>2. PICK v \in {Verify(th[u].new, certs)} :
        th' = [th EXCEPT ![u].want = "renew", ![u].inner = 0,
                         ![u].pc = IF v.ok THEN "save" ELSE "raised"]
  BY DEF WriteCerts
<1> DEFINE l == IF v.ok THEN "save" ELSE "raised"
           r == [th[u] EXCEPT !.want = "renew", !.inner = 0, !.pc = l]
<1>3. DOMAIN r = Fields /\ r.pc = l
  BY DEF Safe, Records, Fields
<1>4. th' = [th EXCEPT ![u] = r]
  BY <1>2 DEF Safe, Records, Fields
<1>5. l # "received"
  OBVIOUS
<1> HIDE DEF r, l
<1> QED BY <1>1, <1>3, <1>4, <1>5, AskedStarts DEF Safe

LEMMA RaisedAsked ==
  ASSUME Safe, AllAsked, NEW u \in Threads, Raised(u) PROVE AllAsked'
<1>1. UNCHANGED <<now, document, cached>>
  BY DEF Raised, counters, store
<1>2. CASE th' = [th EXCEPT ![u].pc = "ttl", ![u].inner = @ + 1, ![u].mine = None]
  <2> DEFINE r == [th[u] EXCEPT !.pc = "ttl", !.inner = @ + 1, !.mine = None]
  <2>1. DOMAIN r = Fields /\ r.pc = "ttl"
    BY DEF Safe, Records, Fields
  <2>2. th' = [th EXCEPT ![u] = r]
    BY <1>2 DEF Safe, Records, Fields
  <2> HIDE DEF r
  <2> QED BY <1>1, <2>1, <2>2, AskedStarts DEF Safe
<1>3. CASE th' = [th EXCEPT ![u] =
                    [Start EXCEPT !.pc = IF jobs[u] = "renew" THEN "lock" ELSE "ttl",
                                  !.want = jobs[u], !.tries = th[u].tries + 1]]
  <2> DEFINE l == IF jobs[u] = "renew" THEN "lock" ELSE "ttl"
             r == [Start EXCEPT !.pc = l, !.want = jobs[u], !.tries = th[u].tries + 1]
  <2>1. DOMAIN r = Fields /\ r.pc = l
    BY DEF Start, Fields
  <2>2. th' = [th EXCEPT ![u] = r] /\ l # "received"
    BY <1>3
  <2> HIDE DEF r, l
  <2> QED BY <1>1, <2>1, <2>2, AskedStarts DEF Safe
<1>4. CASE th' = [th EXCEPT ![u] = [Start EXCEPT !.pc = "gaveup"]]
  <2> DEFINE r == [Start EXCEPT !.pc = "gaveup"]
  <2>1. DOMAIN r = Fields /\ r.pc = "gaveup"
    BY DEF Start, Fields
  <2>2. th' = [th EXCEPT ![u] = r]
    BY <1>4
  <2> HIDE DEF r
  <2> QED BY <1>1, <2>1, <2>2, AskedStarts DEF Safe
<1> QED BY <1>2, <1>3, <1>4 DEF Raised

(* Who puts a document into use holds the lock: nobody waits for a diff.    *)
LEMMA SaveAsked ==
  ASSUME Safe, AllSigned, AllAsked, NEW u \in Threads, Save(u) PROVE AllAsked'
<1>1. /\ now' = now /\ document' = th[u].new /\ cached' = <<>>
      /\ th[u].pc = "save" /\ To(u, "write")
  BY DEF Save, At, counters
<1> DEFINE r == [th[u] EXCEPT !.pc = "write"]
<1>2. FirstLines(th[u].new.text, now)
  BY <1>1, WholeIs DEF AllSigned, SignedAt, NewOK
<1>3. Moves(u, r) /\ r.pc = "write"
  BY <1>1, ToMoves, PcIs DEF Safe
<1> HIDE DEF r
<1>4. Parted'
  BY <1>1, <1>2 DEF Parted
<1>5. ASSUME NEW v \in Threads PROVE AskedAt(th[v])'
  <2>1. CASE v = u
    BY <1>3, <2>1 DEF AskedAt, Moves
  <2>2. CASE v # u
    <3>1. th'[v] = th[v]
      BY <1>3, <2>2 DEF Moves
    <3>2. jobs[u] = "renew" /\ lock = u
      BY <1>1 DEF Safe, Placed, PlacedAt, Locked, InLock
    <3>3. th[v].pc # "received"
      <4>1. th[v].pc = "received" => jobs[v] = "renew" /\ lock = v
        BY DEF Safe, Placed, PlacedAt, Locked, InLock
      <4> QED BY <2>2, <3>2, <4>1
    <3> QED BY <3>1, <3>3 DEF AskedAt
  <2> QED BY <2>1, <2>2
<1> QED BY <1>4, <1>5 DEF AllAsked

LEMMA WriteAsked ==
  ASSUME Safe, AllSigned, AllAsked, NEW u \in Threads, Write(u) PROVE AllAsked'
<1>1. /\ UNCHANGED <<now, document>> /\ cached' = th[u].new.text
      /\ th[u].pc = "write" /\ th' = [th EXCEPT ![u] = Start]
  BY DEF Write, At, counters
<1>2. FirstLines(cached', now')
  BY <1>1, MajorityWhole DEF AllSigned, SignedAt
<1>3. Parted'
  BY <1>1, <1>2 DEF AllAsked, Parted
<1>4. Moves(u, Start)
  BY <1>1, StartIs, SetMoves DEF Safe
<1>5. ASSUME NEW v \in Threads PROVE AskedAt(th[v])'
  BY <1>1, <1>4, StartIs DEF AllAsked, AskedAt, Moves
<1> QED BY <1>3, <1>5 DEF AllAsked

(* What a restart finds in the cache is whole, or the first lines of what   *)
(* was being written.                                                       *)
LEMMA RestartAsked ==
  ASSUME Safe, AllSigned, AllAsked, Restart PROVE AllAsked'
<1> DEFINE Writers == {u \in Threads : th[u].pc = "write"}
           Parts(u) == {SubSeq(th[u].new.text, 1, n) : n \in 1..Len(th[u].new.text)}
<1>1. PICK text \in {cached} \union UNION {Parts(u) : u \in Writers} :
        cached' = text /\ document' = Load(text)
  BY DEF Restart
<1>2. now' = now /\ th' = [u \in Threads |-> Start]
  BY DEF Restart
<1>3. text = <<>> \/ FirstLines(text, now)
  <2>1. CASE text = cached
    BY <2>1 DEF AllAsked, Parted
  <2>2. ASSUME NEW u \in Writers, text \in Parts(u) PROVE FirstLines(text, now)
    <3>1. Majority(th[u].new.text, now)
      BY DEF AllSigned, SignedAt
    <3>2. PICK hour \in 0..now, S \in SUBSET Authorities : th[u].new.text = Consensus(hour, S)
      BY <3>1 DEF Majority
    <3>3. PICK n \in 1..Len(th[u].new.text) : text = SubSeq(th[u].new.text, 1, n)
      BY <2>2
    <3> QED BY <3>2, <3>3 DEF FirstLines
  <2> QED BY <1>1, <2>1, <2>2
<1>4. document' = None \/ (text # <<>> /\ document'.text = text)
  BY <1>1 DEF Load, Document
<1>5. Parted'
  BY <1>1, <1>2, <1>3, <1>4 DEF Parted
<1>6. ASSUME NEW u \in Threads PROVE AskedAt(th[u])'
  BY <1>2, StartIs DEF AskedAt
<1> QED BY <1>5, <1>6 DEF AllAsked

LEMMA HourAsked ==
  ASSUME Safe, AllAsked, Hour PROVE AllAsked'
<1>1. now \in Nat /\ now' = now + 1 /\ UNCHANGED <<document, cached, th>>
  BY ConsensusAssumption DEF Safe, Guarded, Hour, store
<1>2. \A hour \in 0..now : hour \in 0..now'
  BY <1>1
<1>3. \A t : FirstLines(t, now) => FirstLines(t, now')
  BY <1>2 DEF FirstLines
<1>4. \A t : Published(t, now) => Published(t, now')
  BY <1>2 DEF Published
<1>5. Parted'
  BY <1>1, <1>3 DEF AllAsked, Parted
<1>6. ASSUME NEW u \in Threads PROVE AskedAt(th[u])'
  BY <1>1, <1>2, <1>4 DEF AllAsked, AskedAt
<1> QED BY <1>5, <1>6 DEF AllAsked

(* Every step. *)
LEMMA AllAskedKept ==
  ASSUME Safe, AllSigned, AllAsked, [Next]_vars PROVE AllAsked'
<1>1. ASSUME NEW u \in Threads, NEW l, l \in {"idle", "ttl", "raised", "look", "forget", "create",
                "use", "failed", "expire"}, To(u, l), UNCHANGED <<now, store>>
      PROVE  AllAsked'
  BY <1>1, AskedGoes DEF Safe, store
<1>2. ASSUME NEW u \in Threads, Call(u) PROVE AllAsked'
  <2> DEFINE l == IF jobs[u] = "renew" THEN "lock" ELSE "ttl"
             r == [Start EXCEPT !.pc = l, !.want = jobs[u]]
  <2>1. DOMAIN r = Fields /\ r.pc = l
    BY StartIs
  <2>2. th' = [th EXCEPT ![u] = r] /\ UNCHANGED <<now, document, cached>> /\ l # "received"
    BY <1>2 DEF Call, store
  <2> HIDE DEF r, l
  <2> QED BY <2>1, <2>2, AskedStarts DEF Safe
<1>3. ASSUME NEW u \in Threads, Lock(u) PROVE AllAsked'
  BY <1>1, <1>3 DEF Lock, counters
<1>4. ASSUME NEW u \in Threads, CheckTtl(u) PROVE AllAsked'
  BY <1>1, <1>4 DEF CheckTtl, counters
<1>5. ASSUME NEW u \in Threads, Forget(u) PROVE AllAsked'
  BY <1>1, <1>5 DEF Forget, counters
<1>6. ASSUME NEW u \in Threads, Look(u) PROVE AllAsked'
  BY <1>1, <1>6 DEF Look, counters
<1>7. ASSUME NEW u \in Threads, Create(u) PROVE AllAsked'
  <2>1. UNCHANGED <<now, store>>
    BY <1>7 DEF Create, counters
  <2>2. CASE To(u, "failed")
    BY <1>1, <2>1, <2>2
  <2>3. ASSUME NEW g, th' = [th EXCEPT ![u].pc = "assign", ![u].mine = g] PROVE AllAsked'
    <3> DEFINE r == [th[u] EXCEPT !.pc = "assign", !.mine = g]
    <3>1. DOMAIN r = Fields /\ r.pc = "assign"
      BY DEF Safe, Records, Fields
    <3>2. th' = [th EXCEPT ![u] = r]
      BY <2>3 DEF Safe, Records
    <3> HIDE DEF r
    <3> QED BY <2>1, <3>1, <3>2, AskedStarts DEF Safe, store
  <2> QED BY <1>7, <2>2, <2>3 DEF Create
<1>8. ASSUME NEW u \in Threads, Assign(u) PROVE AllAsked'
  <2> DEFINE r == [th[u] EXCEPT !.pc = "use", !.mine = None]
  <2>1. UNCHANGED <<now, store>>
    BY <1>8 DEF Assign, counters
  <2>2. DOMAIN r = Fields /\ r.pc = "use"
    BY DEF Safe, Records, Fields
  <2>3. th' = [th EXCEPT ![u] = r]
    BY <1>8 DEF Assign, Safe, Records
  <2> HIDE DEF r
  <2> QED BY <2>1, <2>2, <2>3, AskedStarts DEF Safe, store
<1>9. ASSUME NEW u \in Threads, Use(u) PROVE AllAsked'
  <2>1. UNCHANGED <<now, store>>
    BY <1>9 DEF Use, counters
  <2>2. CASE To(u, "failed")
    BY <1>1, <2>1, <2>2
  <2>3. CASE th' = [th EXCEPT ![u].pc = "ask", ![u].mine = circuit]
    <3> DEFINE r == [th[u] EXCEPT !.pc = "ask", !.mine = circuit]
    <3>1. DOMAIN r = Fields /\ r.pc = "ask"
      BY DEF Safe, Records, Fields
    <3>2. th' = [th EXCEPT ![u] = r]
      BY <2>3 DEF Safe, Records
    <3> HIDE DEF r
    <3> QED BY <2>1, <3>1, <3>2, AskedStarts DEF Safe, store
  <2> QED BY <1>9, <2>2, <2>3 DEF Use
<1>10. ASSUME NEW u \in Threads, FailTest(u) PROVE AllAsked'
  BY <1>1, <1>10 DEF FailTest, counters
<1>11. ASSUME NEW u \in Threads, Expire(u) PROVE AllAsked'
  BY <1>1, <1>11 DEF Expire, counters
<1>12. ASSUME NEW u \in Threads, GiveUp(u) PROVE AllAsked'
  BY <1>1, <1>12 DEF GiveUp, counters
<1>13. ASSUME NEW u \in Threads, Step(u) PROVE AllAsked'
  BY <1>3, <1>4, <1>5, <1>6, <1>7, <1>8, <1>9, <1>10, <1>11, <1>12, <1>13, AskAsked, RaisedAsked,
     ReceiveAsked, ReceiveCertsAsked, WriteCertsAsked, SaveAsked, WriteAsked
     DEF Step
<1>14. CASE UNCHANGED vars
  <2>1. UNCHANGED <<now, document, cached, th>>
    BY <1>14 DEF vars
  <2> QED BY <2>1 DEF AllAsked, Parted, AskedAt
<1>15. CASE Break
  <2>1. UNCHANGED <<now, document, cached, th>>
    BY <1>15 DEF Break, counters, store
  <2> QED BY <2>1 DEF AllAsked, Parted, AskedAt
<1> QED BY <1>2, <1>13, <1>14, <1>15, RestartAsked, HourAsked DEF Next

(* And so always. *)
LEMMA AlwaysAsked == Spec => []AllAsked
<1>1. Init => AllAsked
  <2> SUFFICES ASSUME Init PROVE AllAsked
    OBVIOUS
  <2>1. document = None /\ cached = <<>> /\ th = [u \in Threads |-> Start]
    BY DEF Init
  <2> QED BY <2>1, StartIs DEF AllAsked, Parted, AskedAt
<1>2. Safe /\ AllSigned /\ AllAsked /\ [Next]_vars => AllAsked'
  BY AllAskedKept
<1> QED BY <1>1, <1>2, AlwaysSigned, PTL DEF Spec

(* A diff that was made from what is in use applies to it. *)
LEMMA DiffAnswered ==
  ASSUME NEW upto, document # None, FirstLines(document.text, upto), NEW hour,
         NEW text, text = MakeDiff(document.text, Consensus(hour, Authorities))
  PROVE  Received(text) = Document(Consensus(hour, Authorities))
<1> DEFINE old == document.text
           new == Consensus(hour, Authorities)
           diff == ReadDocument(StatusDiff, text)
<1>1. PICK h \in 0..upto, S \in SUBSET Authorities :
        \E n \in 1..Len(Consensus(h, S)) : old = SubSeq(Consensus(h, S), 1, n)
  BY DEF FirstLines
<1>2. PICK n \in 1..Len(Consensus(h, S)) : old = SubSeq(Consensus(h, S), 1, n)
  BY <1>1
<1>3. /\ IsText(old) /\ Len(Digested(old)) \in Nat
      /\ Len(Digested(old)) <= Len(Body(h))
      /\ \A i \in 1..Len(Digested(old)) :
           Digested(old)[i] = Body(h)[i] /\ Digested(old)[i][1] \in Plain
  <2> HIDE DEF old
  <2> QED BY <1>2, FirstOfBody
<1>4. IsText(new) /\ \A i \in 1..Len(new) : new[i][1] \in Keywords
  BY ConsensusIs DEF IsText
<1>5. Rising(Digested(old), new)
  BY <1>3, PlacesRise
<1> HIDE DEF old, new
<1>6. \A i \in 1..Len(new) : new[i] # Dot
  <2>1. Dot[1] \notin Keywords
    BY DEF Dot, Keywords
  <2> QED BY <1>4, <2>1
<1>7. \E A : old \in Seq(A) /\ new \in Seq(A) /\ Blank \in A
  <2>1. PICK A : old \in Seq(A)
    BY <1>3 DEF IsText
  <2>2. PICK B : new \in Seq(B)
    BY <1>4 DEF IsText
  <2> DEFINE C == A \union B \union {Blank}
  <2>3. old \in Seq(C) /\ new \in Seq(C) /\ Blank \in C
    BY <2>1, <2>2
  <2> QED BY <2>3
<1>8. text = MakeDiff(old, new)
  BY DEF old, new
<1>9. diff # Invalid /\ ApplyDiff(old, diff) = new
  BY <1>5, <1>6, <1>7, <1>8, DiffDone
<1>10. ClassOf(text, {NetworkStatus, StatusDiff}) = StatusDiff /\ NetworkStatus # StatusDiff
  <2>1. text[1] = <<"network-status-diff-version", 1>> /\ Len(text) >= 3
    <3>1. PICK A : old \in Seq(A)
      BY <1>7
    <3>2. PICK B : new \in Seq(B)
      BY <1>7
    <3> DEFINE made == MakeDiff(old, new)
    <3>3. made[1] = <<"network-status-diff-version", 1>> /\ Len(made) >= 3
      BY <1>4, <3>1, <3>2, DiffIs
    <3> QED BY <1>8, <3>3
  <2>2. text # <<>>
    BY <2>1
  <2>3. /\ NetworkStatus.start = "network-status-version"
        /\ StatusDiff.start = "network-status-diff-version"
    BY DEF NetworkStatus, StatusDiff
  <2> QED BY <2>1, <2>2, <2>3 DEF ClassOf
<1> HIDE DEF diff
<1>11. new # Invalid
  <2>1. DOMAIN new = 1..Len(new)
    BY <1>7
  <2>2. DOMAIN Invalid = {"invalid"} /\ Len(new) >= 4
    <3>1. Len(new) >= 4
      BY ConsensusIs DEF new
    <3> QED BY <3>1 DEF Invalid
  <2>3. 1 \in DOMAIN new /\ 2 \in DOMAIN new
    <3>1. Len(new) \in Nat
      BY <1>7
    <3> QED BY <2>1, <2>2, <3>1
  <2> SUFFICES ASSUME new = Invalid PROVE FALSE
    OBVIOUS
  <2>4. 1 \in {"invalid"} /\ 2 \in {"invalid"}
    BY <2>2, <2>3
  <2>5. 1 = "invalid" /\ 2 = "invalid"
    BY <2>4
  <2> QED BY <2>5
<1> QED BY <1>9, <1>10, <1>11 DEF Received, old, new, diff

(***************************************************************************)
(* A diff that the directory made from the document the request named       *)
(* always applies, and gives the consensus of the hour it was made in, for  *)
(* any authorities, hours and signers, also when the document is no more    *)
(* than the first lines of a file: the edits come from the end to the       *)
(* beginning, the signatures, which the digest leaves out, are edited away  *)
(* first, and lines that both have keep their order (apply_diff, EdAction). *)
(***************************************************************************)
THEOREM DiffsAlwaysApply == Spec => []DiffsApply
<1>1. AllAsked => DiffsApply
  <2> SUFFICES ASSUME AllAsked, NEW u \in Threads, th[u].pc = "received", th[u].want = "renew",
                      ClassOf(th[u].answer, {StatusDiff}) # Invalid
               PROVE  LET new == Received(th[u].answer)
                      IN /\ new # Invalid
                         /\ \E hour \in 0..now : new.text = Consensus(hour, Authorities)
    BY DEF DiffsApply
  <2>1. ~Published(th[u].answer, now)
    <3>1. StatusDiff.start = "network-status-diff-version"
      BY DEF StatusDiff
    <3>2. th[u].answer[1][1] = "network-status-diff-version"
      BY <3>1 DEF ClassOf
    <3>3. Published(th[u].answer, now) => th[u].answer[1][1] = "network-status-version"
      BY ConsensusIs DEF Published
    <3> QED BY <3>2, <3>3
  <2>2. PICK hour \in 0..now :
          document # None /\ th[u].answer = MakeDiff(document.text, Consensus(hour, Authorities))
    BY <2>1 DEF AllAsked, AskedAt
  <2>3. FirstLines(document.text, now)
    BY <2>2 DEF AllAsked, Parted
  <2>4. Received(th[u].answer) = Document(Consensus(hour, Authorities))
    BY <2>2, <2>3, DiffAnswered
  <2>5. \A t : Document(t) # Invalid /\ Document(t).text = t
    <3> TAKE t
    <3>1. DOMAIN Document(t) = {"text", "fields"} /\ DOMAIN Invalid = {"invalid"}
      BY DEF Document, Invalid
    <3> QED BY <3>1 DEF Document
  <2> QED BY <2>4, <2>5
<1> QED BY <1>1, AlwaysAsked, PTL

=============================================================================
