----------------------------- MODULE Consensus -----------------------------
(***************************************************************************)
(* The directory client of torpy (torpy/consesus.py and cache_storage.py):  *)
(* threads that renew the consensus under the lock, and threads that fetch  *)
(* descriptors without it, share one directory guard, its circuit and the   *)
(* time it expires.  Directories answer whole documents, diffs, or          *)
(* nothing useful; the program may stop and start again from its cache.     *)
(***************************************************************************)
EXTENDS Documents, SequencesExt

CONSTANTS Threads,     \* threads of the program
          Authorities, \* directory authorities with a v3 identity
          None,
          RenewTries,  \* attempts of renew and of get_descriptor (5 in the code)
          CertsTries,  \* attempts of renew_certs (3 in the code)
          Jobs,        \* what each thread calls: "renew" or "descriptor"
          Guards,      \* guard connections, 1..n; one that nobody holds is used again
          MaxHour, MaxCalls, MaxFaults, MaxCrashes  \* bounds

ASSUME ConsensusAssumption ==
  /\ None \notin Threads \union Guards /\ None \notin {"fresh", "expired", "certs"}
  /\ RenewTries \in Nat \ {0} /\ CertsTries \in Nat \ {0} /\ MaxHour \in Nat
  /\ IsFiniteSet(Authorities) /\ Authorities # {}
  /\ Jobs \subseteq [Threads -> {"renew", "descriptor"}]

VARIABLES now,         \* hours since the first consensus
          document, certs,      \* _document [text, fields], _certs (its text)
          cached, cachedCerts,  \* the files of the cache
          lock,                 \* _lock: the thread that holds it
          guard, circuit, ttl,  \* _dir_guard, _dir_circuit, _dir_guard_ttl
          open,        \* guards that are connected
          jobs,        \* one of Jobs
          th,          \* where each thread is in its call
          calls, faults, crashes,
          orphans,     \* guards left open by a create_circuit that failed
          broken,      \* open guards that raise when they are written to
          torn,        \* the document was loaded from a half-written file
          dead         \* the program cannot read its cache

vars == <<now, document, certs, cached, cachedCerts, lock, guard, circuit, ttl, open,
          jobs, th, calls, faults, crashes, orphans, broken, torn, dead>>
store == <<document, certs, cached, cachedCerts, torn, dead>>
shared == <<guard, circuit, ttl, open, orphans, broken>>
counters == <<now, jobs, calls, crashes>>

-----------------------------------------------------------------------------
(* What the authorities publish (external) *)

KeyOf(a, hour) == <<a, IF hour = 0 THEN 0 ELSE 1>>  \* the signing keys change once

(* The lines about each member of a set, one member after the other.        *)
Concat(set, each, Lines(_)) ==
  LET order == SetToSeq(set)
  IN [n \in 1..(each * Cardinality(set)) |->
        Lines(order[((n - 1) \div each) + 1])[((n - 1) % each) + 1]]

Body(hour) ==
  LET Source(a) == <<<<"dir-source", [fingerprint |-> a]>>, <<"vote-digest", <<a, hour>>>>>>
  IN <<<<"network-status-version", 3>>, <<"valid-after", hour>>, <<"valid-until", hour>>>>
       \o Concat(Authorities, 2, Source)
       \o <<<<"r", <<"first", 0>>>>, <<"s", {"Guard"}>>>>
       \o (IF hour = 1 THEN <<>> ELSE <<<<"r", <<"second", 0>>>>, <<"s", {"HSDir"}>>>>)
       \o <<<<"r", <<"third", hour>>>>, <<"s", {}>>>>

(* The consensus of an hour with the signatures of some authorities. *)
Consensus(hour, signers) ==
  LET Signature(a) ==
        <<<<"directory-signature", [identity |-> a]>>, Begin,
          <<"signature", [key |-> KeyOf(a, hour), over |-> hour]>>, End>>
  IN Body(hour) \o Concat(signers, 4, Signature)

CertsText(idents, hour) ==
  LET Cert(a) == <<<<"dir-key-certificate-version", 3>>, <<"fingerprint", a>>,
                   <<"dir-signing-key", 0>>, Begin, <<"key", KeyOf(a, hour)>>, End>>
  IN Concat(idents, 6, Cert)

-----------------------------------------------------------------------------
(* Reading and verifying *)

Document(text) == [text |-> text, fields |-> ReadDocument(NetworkStatus, text)]
IsLive(doc) == doc.fields["valid-after"] <= now /\ now <= doc.fields["valid-until"]

(* TorCacheStorage.load_document: an empty file is no document. *)
Load(text) == IF text = <<>> THEN None ELSE Document(text)

(* NetworkStatusDocument.find_signature: the first one, or Invalid. *)
FindSignature(fields, identity) ==
  LET signs == Field(fields, "signatures")
      of == {n \in 1..Len(signs) : signs[n].args.identity = identity}
  IN IF of = {} THEN Invalid ELSE signs[CHOOSE n \in of : \A m \in of : n <= m]

(* The signing key of a certificate, and <<>> of one that was cut off. *)
SigningKey(cert) ==
  IF "dir-signing-key" \in DOMAIN cert /\ cert["dir-signing-key"].block # <<>>
    THEN cert["dir-signing-key"].block[1][2] ELSE <<>>

(* The key of an authority's first certificate in a list, or None. *)
KeyIn(list, identity) ==
  LET of == {n \in 1..Len(list) : Field(list[n], "fingerprint") = identity}
  IN IF list = <<>> THEN <<>>
     ELSE IF of = {} THEN None
     ELSE SigningKey(list[CHOOSE n \in of : \A m \in of : n <= m])

(***************************************************************************)
(* TorConsensus._get_pubkey; <<>> when it raises: a list without any        *)
(* certificate has no field "certs" to go over, and a certificate that was  *)
(* cut off has no key to load.                                              *)
(***************************************************************************)
PublicKey(text, identity) ==
  IF text = None THEN None
  ELSE KeyIn(Field(ReadDocument(Certificates, text), "certs"), identity)

(* Mutant: half of the authorities are enough. *)
VerifyHalf(doc, certsText) ==
  LET sign(n) == FindSignature(doc.fields, doc.fields.voters[n]["dir-source"].fingerprint)
      seen == {n \in 1..Len(doc.fields.voters) :
                 sign(n) # Invalid /\ sign(n).args.identity \in Authorities}
      good == {n \in seen : LET s == sign(n).block[1][2]
                            IN /\ s.key = PublicKey(certsText, sign(n).args.identity)
                               /\ Body(s.over) = Digested(doc.text)}
      raises == \E n \in seen : PublicKey(certsText, sign(n).args.identity) = <<>>
  IN [raises |-> raises,
      ok |-> ~raises /\ Cardinality(good) >= Cardinality(Authorities) \div 2,
      idents |-> {sign(n).args.identity : n \in seen}]

(***************************************************************************)
(* TorConsensus.verify: more than half of the authorities, counted by the   *)
(* dir-source lines.                                                        *)
(***************************************************************************)
Verify(doc, certsText) ==
  LET sign(n) == FindSignature(doc.fields, doc.fields.voters[n]["dir-source"].fingerprint)
      seen == {n \in 1..Len(doc.fields.voters) :
                 sign(n) # Invalid /\ sign(n).args.identity \in Authorities}
      good == {n \in seen : LET s == sign(n).block[1][2]
                            IN /\ s.key = PublicKey(certsText, sign(n).args.identity)
                               /\ Body(s.over) = Digested(doc.text)}
      raises == \E n \in seen : PublicKey(certsText, sign(n).args.identity) = <<>>
  IN [raises |-> raises,
      ok |-> ~raises /\ Cardinality(good) > Cardinality(Authorities) \div 2,
      idents |-> {sign(n).args.identity : n \in seen}]

(* The part of renew that takes an answer to a document, or Invalid. *)
Received(text) ==
  LET class == ClassOf(text, {NetworkStatus, StatusDiff})
      diff == ReadDocument(StatusDiff, text)
  IN IF class = NetworkStatus THEN Document(text)
     ELSE IF class = StatusDiff /\ document # None /\ diff # Invalid
       THEN LET new == ApplyDiff(document.text, diff)
            IN IF new = Invalid THEN Invalid ELSE Document(new)
     ELSE Invalid

-----------------------------------------------------------------------------
Start == [pc |-> "idle", tries |-> 0, inner |-> 0, want |-> None, mine |-> None,
          answer |-> None, new |-> None]

(* TorConsensus.__init__ *)
Init ==
  /\ now = 0 /\ document = None /\ certs = None /\ cached = <<>> /\ cachedCerts = <<>>
  /\ lock = None /\ guard = None /\ circuit = None /\ ttl = None
  /\ open = {} /\ orphans = {} /\ broken = {}
  /\ jobs \in Jobs
  /\ th = [u \in Threads |-> Start]
  /\ calls = 0 /\ faults = 0 /\ crashes = 0 /\ torn = FALSE /\ dead = FALSE

At(u, pc) == ~dead /\ th[u].pc = pc
To(u, pc) == th' = [th EXCEPT ![u].pc = pc]
Fault == faults < MaxFaults /\ faults' = faults + 1

(***************************************************************************)
(* A call begins.  Router.descriptor is a cached_property, whose one lock   *)
(* serves every router: one descriptor is fetched at a time.                *)
(***************************************************************************)
Call(u) ==
  /\ At(u, "idle") /\ calls < MaxCalls
  /\ jobs[u] = "descriptor" =>
       \A v \in Threads \ {u} : jobs[v] = "descriptor" => th[v].pc = "idle"
  /\ calls' = calls + 1
  /\ th' = [th EXCEPT ![u] = [Start EXCEPT
              !.pc = IF jobs[u] = "renew" THEN "lock" ELSE "ttl", !.want = jobs[u]]]
  /\ UNCHANGED <<now, jobs, crashes, store, shared, lock, faults>>

(* renew: the lock, and nothing to do while the document is live. *)
Lock(u) ==
  /\ At(u, "lock") /\ lock = None
  /\ IF document # None /\ IsLive(document)
       THEN To(u, "idle") /\ lock' = None
       ELSE To(u, "ttl") /\ lock' = u
  /\ UNCHANGED <<counters, store, shared, faults>>

(***************************************************************************)
(* _get_dir_client: an expired guard is closed and then forgotten, in two   *)
(* steps.  Closing raises when there is no guard, when it is closed already *)
(* and when the DESTROY of its circuit cannot be written; nothing clears    *)
(* the time then, so the next call closes again.                            *)
(***************************************************************************)
CheckTtl(u) ==
  /\ At(u, "ttl")
  /\ IF ttl # "expired" THEN To(u, "look") /\ UNCHANGED open
     ELSE IF guard \notin open \ broken THEN To(u, "raised") /\ UNCHANGED open
     ELSE To(u, "forget") /\ open' = open \ {guard}
  /\ UNCHANGED <<counters, store, guard, circuit, ttl, orphans, broken, lock, faults>>

Forget(u) ==
  /\ At(u, "forget")
  /\ guard' = None /\ circuit' = None /\ ttl' = None
  /\ To(u, "look")
  /\ UNCHANGED <<counters, store, open, orphans, broken, lock, faults>>

Look(u) ==
  /\ At(u, "look")
  /\ To(u, IF circuit = None THEN "create" ELSE "use")
  /\ UNCHANGED <<counters, store, shared, lock, faults>>

(* A connection nobody holds. *)
NewGuard ==
  LET free == Guards \ (open \union {guard, circuit} \union {th[u].mine : u \in Threads})
  IN {g \in free : \A h \in free : g <= h}

(***************************************************************************)
(* _create_dir_circuit: the connection may fail, and the circuit after it,  *)
(* which leaves the guard open with nobody to close it.                     *)
(***************************************************************************)
Create(u) ==
  /\ At(u, "create")
  /\ \/ Fault /\ To(u, "failed") /\ UNCHANGED <<open, orphans>>
     \/ \E g \in NewGuard :
          /\ open' = open \union {g}
          /\ \/ Fault /\ To(u, "failed") /\ orphans' = orphans \union {g}
             \/ /\ th' = [th EXCEPT ![u].pc = "assign", ![u].mine = g]
                /\ UNCHANGED <<orphans, faults>>
  /\ UNCHANGED <<counters, store, guard, circuit, ttl, broken, lock>>

Assign(u) ==
  /\ At(u, "assign")
  /\ guard' = th[u].mine /\ circuit' = th[u].mine /\ ttl' = "fresh"
  /\ th' = [th EXCEPT ![u].pc = "use", ![u].mine = None]
  /\ UNCHANGED <<counters, store, open, orphans, broken, lock, faults>>

(* _dir_circuit.create_dir_client(), read again after the test. *)
Use(u) ==
  /\ At(u, "use")
  /\ IF circuit \in open \ broken
       THEN th' = [th EXCEPT ![u].pc = "ask", ![u].mine = circuit]
       ELSE To(u, "failed")
  /\ UNCHANGED <<counters, store, shared, lock, faults>>

(***************************************************************************)
(* The directory's answer (external): the consensus of this hour or of the  *)
(* last, with few signatures or all, whole or as a diff from the document   *)
(* the request names; the certificates of the keys the request names, or    *)
(* an empty list; a descriptor.                                             *)
(***************************************************************************)
Answers(u) ==
  CASE th[u].want = "renew" ->
         {Consensus(now, Authorities)}
           \union IF document # None /\ Digested(document.text) # Body(now)
                    THEN {MakeDiff(document.text, Consensus(now, Authorities))} ELSE {}
    [] th[u].want = "certs" ->
         {CertsText(Verify(th[u].new, certs).idents, th[u].new.fields["valid-after"])}
    [] OTHER -> {None}

Useless(u) ==
  CASE th[u].want = "renew" ->
         {Consensus(now, {a}) : a \in {CHOOSE a \in Authorities : TRUE}}
           \union IF now > 0 THEN {Consensus(now - 1, Authorities)} ELSE {}
    [] th[u].want = "certs" -> {<<>>}
    [] OTHER -> {}

Ask(u) ==
  /\ At(u, "ask")
  /\ IF th[u].mine \notin open \ broken THEN To(u, "failed") /\ UNCHANGED <<faults, lock>>
     ELSE \/ Fault /\ To(u, "failed") /\ UNCHANGED lock
          \/ \E text \in Answers(u) :
               /\ th' = [th EXCEPT ![u].answer = text, ![u].mine = None,
                           ![u].pc = IF @ = "ask" /\ th[u].want = "descriptor"
                                       THEN "idle" ELSE "received"]
               /\ UNCHANGED <<faults, lock>>
          \/ \E text \in Useless(u) :
               /\ Fault
               /\ th' = [th EXCEPT ![u].answer = text, ![u].mine = None, ![u].pc = "received"]
               /\ UNCHANGED lock
  /\ UNCHANGED <<counters, store, shared>>

(* Mutant: the guard is set to expire whatever it is. *)
FailTestNone(u) ==
  /\ At(u, "failed")
  /\ To(u, "expire")
  /\ UNCHANGED <<counters, store, shared, lock, faults>>

(* expire_dir_guard_on_error: the test of the guard, and then the time. *)
FailTest(u) ==
  /\ At(u, "failed")
  /\ To(u, IF guard # None THEN "expire" ELSE "raised")
  /\ UNCHANGED <<counters, store, shared, lock, faults>>

Expire(u) ==
  /\ At(u, "expire")
  /\ ttl' = "expired"
  /\ To(u, "raised")
  /\ UNCHANGED <<counters, store, guard, circuit, open, orphans, broken, lock, faults>>

(***************************************************************************)
(* @retry: renew_certs within renew, then renew itself, which gives the     *)
(* lock back between its attempts.  The last attempt raises to the caller.  *)
(***************************************************************************)
Raised(u) ==
  /\ At(u, "raised")
  /\ IF th[u].want = "certs" /\ th[u].inner + 1 < CertsTries
       THEN /\ th' = [th EXCEPT ![u].pc = "ttl", ![u].inner = @ + 1, ![u].mine = None]
            /\ UNCHANGED lock
       ELSE /\ th' = [th EXCEPT ![u] =
                        IF th[u].tries + 1 < RenewTries
                          THEN [Start EXCEPT !.pc = IF jobs[u] = "renew" THEN "lock" ELSE "ttl",
                                             !.want = jobs[u], !.tries = th[u].tries + 1]
                          ELSE [Start EXCEPT !.pc = "gaveup"]]
            /\ lock' = IF lock = u THEN None ELSE lock
  /\ UNCHANGED <<counters, store, shared, faults>>

(* The caller got the exception. *)
GiveUp(u) ==
  /\ At(u, "gaveup")
  /\ To(u, "idle")
  /\ UNCHANGED <<counters, store, shared, lock, faults>>

(***************************************************************************)
(* renew: the answer is parsed and verified.  An error here is outside      *)
(* expire_dir_guard_on_error: the next attempt asks the same guard.         *)
(***************************************************************************)
Receive(u) ==
  /\ At(u, "received") /\ th[u].want = "renew"
  /\ \E new \in {Received(th[u].answer)} :
       IF new = Invalid \/ new.fields = Invalid THEN To(u, "raised")
       ELSE \E v \in {Verify(new, certs)} :
              th' = [th EXCEPT ![u].new = new, ![u].answer = None,
                       ![u].want = IF v.raises \/ v.ok THEN "renew" ELSE "certs",
                       ![u].pc = IF v.raises THEN "raised" ELSE IF v.ok THEN "save" ELSE "ttl"]
  /\ UNCHANGED <<counters, store, shared, lock, faults>>

(* renew_certs keeps the new list whatever is in it ... *)
ReceiveCerts(u) ==
  /\ At(u, "received") /\ th[u].want = "certs"
  /\ certs' = th[u].answer /\ cachedCerts' = <<>>
  /\ th' = [th EXCEPT ![u].pc = "savecerts", ![u].answer = None]
  /\ UNCHANGED <<counters, document, cached, torn, dead, shared, lock, faults>>

(* Mutant: the document is not verified again. *)
WriteCertsOnce(u) ==
  /\ At(u, "savecerts") /\ th[u].want = "certs"
  /\ cachedCerts' = certs
  /\ th' = [th EXCEPT ![u].want = "renew", ![u].inner = 0, ![u].pc = "raised"]
  /\ UNCHANGED <<counters, document, certs, cached, torn, dead, shared, lock, faults>>

(* ... and writes it to the cache; then the document is verified again. *)
WriteCerts(u) ==
  /\ At(u, "savecerts") /\ th[u].want = "certs"
  /\ cachedCerts' = certs
  /\ \E v \in {Verify(th[u].new, certs)} :
       th' = [th EXCEPT ![u].want = "renew", ![u].inner = 0,
                        ![u].pc = IF v.ok THEN "save" ELSE "raised"]
  /\ UNCHANGED <<counters, document, certs, cached, torn, dead, shared, lock, faults>>

(* The new document; open(..., 'w') empties the file before it is written. *)
Save(u) ==
  /\ At(u, "save")
  /\ document' = th[u].new /\ torn' = FALSE
  /\ cached' = <<>>
  /\ To(u, "write")
  /\ UNCHANGED <<counters, certs, cachedCerts, dead, shared, lock, faults>>

Write(u) ==
  /\ At(u, "write")
  /\ cached' = th[u].new.text
  /\ lock' = None
  /\ th' = [th EXCEPT ![u] = Start]
  /\ UNCHANGED <<counters, document, certs, cachedCerts, torn, dead, shared, faults>>

(***************************************************************************)
(* The program stops, with part of a file on disk when it was writing it,   *)
(* and starts again.  A cache that does not parse stops it at once.         *)
(***************************************************************************)
Restart ==
  /\ ~dead /\ crashes < MaxCrashes /\ crashes' = crashes + 1
  /\ \E text \in {cached} \union
                 UNION {{SubSeq(th[u].new.text, 1, n) : n \in 1..Len(th[u].new.text)} :
                          u \in {u \in Threads : th[u].pc = "write"}},
        list \in {cachedCerts} \union
                 UNION {{SubSeq(certs, 1, n) : n \in 1..Len(certs)} :
                          u \in {u \in Threads : th[u].pc = "savecerts"}} :
       \E doc \in {Load(text)} :
         /\ cached' = text /\ cachedCerts' = list
         /\ document' = doc
         /\ certs' = (IF list = <<>> THEN None ELSE list)
         /\ torn' = ((\E u \in Threads : th[u].pc = "write") \/ (torn /\ text # <<>>))
         /\ dead' = ((doc # None /\ doc.fields = Invalid)
                      \/ (list # <<>> /\ ReadDocument(Certificates, list) = Invalid))
  /\ lock' = None /\ guard' = None /\ circuit' = None /\ ttl' = None
  /\ open' = {} /\ orphans' = {} /\ broken' = {}
  /\ th' = [u \in Threads |-> Start]
  /\ UNCHANGED <<now, jobs, calls, faults>>

(* The connection to a guard breaks while its circuit looks connected. *)
Break ==
  /\ ~dead /\ Fault
  /\ \E g \in (open \ broken) \cap ({guard} \union {th[u].mine : u \in Threads}) :
       broken' = broken \union {g}
  /\ UNCHANGED <<counters, store, guard, circuit, ttl, open, orphans, lock, th>>

Hour ==
  /\ now < MaxHour /\ now' = now + 1
  /\ ttl' = (IF ttl = "fresh" THEN "expired" ELSE ttl)
  /\ UNCHANGED <<store, guard, circuit, open, orphans, broken, lock, jobs, th, calls, faults, crashes>>

Step(u) ==
  \/ Lock(u) \/ CheckTtl(u) \/ Forget(u) \/ Look(u) \/ Create(u) \/ Assign(u) \/ Use(u) \/ Ask(u)
  \/ FailTest(u) \/ Expire(u) \/ Raised(u) \/ GiveUp(u)
  \/ Receive(u) \/ ReceiveCerts(u) \/ WriteCerts(u) \/ Save(u) \/ Write(u)

Next == (\E u \in Threads : Call(u) \/ Step(u)) \/ Restart \/ Break \/ Hour

Spec == Init /\ [][Next]_vars

-----------------------------------------------------------------------------
(* Properties *)

AllRenew == \A u \in Threads : jobs[u] = "renew"

(* What the variables hold. *)
TypeOK ==
  /\ now \in 0..MaxHour /\ lock \in Threads \union {None}
  /\ ttl \in {None, "fresh", "expired"}
  /\ guard \in Guards \union {None} /\ circuit = guard
  /\ open \subseteq Guards /\ orphans \subseteq open
  /\ \A u \in Threads : /\ th[u].tries < RenewTries /\ th[u].inner < CertsTries
                        /\ th[u].want \in {None, "renew", "descriptor", "certs"}

(***************************************************************************)
(* A document in use that was not read from a half-written file is one      *)
(* the authorities published, whole, and more than half of them signed it,  *)
(* however it came: whole, by a diff, or from the cache (verify,            *)
(* apply_diff, save).                                                       *)
(***************************************************************************)
MajoritySigned ==
  document = None \/ torn \/ dead \/
    \E hour \in 0..now, S \in SUBSET Authorities :
      2 * Cardinality(S) > Cardinality(Authorities) /\ document.text = Consensus(hour, S)

(***************************************************************************)
(* A document that renew puts into use has been verified with the           *)
(* certificates that are kept when it does: no other thread replaces them   *)
(* between verify and the assignment (renew, renew_certs).                  *)
(***************************************************************************)
VerifiedFirst ==
  [][document' # document /\ crashes' = crashes => Verify(document', certs).ok]_vars

(***************************************************************************)
(* A diff that the directory made from the document the request named       *)
(* always applies, and gives the document of the hour it was made in.       *)
(* Nobody changes the document between the request and the answer.          *)
(***************************************************************************)
DiffsApply ==
  \A u \in Threads :
    th[u].pc = "received" /\ th[u].want = "renew" /\ ClassOf(th[u].answer, {StatusDiff}) # Invalid
      => LET new == Received(th[u].answer)
         IN new # Invalid /\ \E hour \in 0..now : new.text = Consensus(hour, Authorities)

(***************************************************************************)
(* When every thread renews, so that the lock covers each use of the        *)
(* directory guard, the guard's time is never set without a guard, and each *)
(* guard that is open is the directory guard, the one about to become it,   *)
(* or one whose create_circuit failed.  get_descriptor takes no lock: with  *)
(* it, the time can stay set with no guard, so that every request raises    *)
(* from then on, and a guard another thread has just set can be forgotten.  *)
(***************************************************************************)
DirGuardKept ==
  AllRenew =>
    /\ ttl # None => guard # None
    /\ open \subseteq {guard} \union orphans \union {th[u].mine : u \in Threads}

(***************************************************************************)
(* When every thread renews and at most one thing has gone wrong, a crash   *)
(* included, renew raises to its caller for one of two causes only, which   *)
(* no attempt gets rid of.                                                  *)
(* Either _get_pubkey raises on the certificates that are kept (an empty    *)
(* answer, which renew_certs takes, or a file that was cut off), so that    *)
(* verify raises before it could ask for them again; or the guard's         *)
(* connection broke, so that closing the expired guard raises each time.    *)
(* Any other failure is gone at the next attempt (renew, renew_certs,       *)
(* expire_dir_guard_on_error, _get_dir_client).                             *)
(***************************************************************************)
GivesUpForCause ==
  [][\A u \in Threads :
       AllRenew /\ faults + crashes < 2 /\ 1 < RenewTries
         /\ th[u].pc = "raised" /\ th'[u].pc = "gaveup" =>
           guard \in broken \/ \E a \in Authorities : PublicKey(certs, a) = <<>>]_vars

=============================================================================
