------------------------------ MODULE LsaThreads ------------------------------
(***************************************************************************)
(* The threads of one router that handle the LSAs of one origin.           *)
(* ReceiveThread.run (rtun-routing/lsr.py) starts a thread per message, and  *)
(* serverSide works on packets, LSA_SN, LSA_SN_forwarded and LSA_DB without  *)
(* a lock: the Lock() around the forwarding block is a new object in every *)
(* call, so it excludes nobody.  Every statement that reads or writes the  *)
(* shared dictionaries is therefore a step of its own here.  How the LSAs  *)
(* are made is in module Advertise.                                        *)
(*                                                                         *)
(* The origins do not share entries of the dictionaries, so one is enough; *)
(* of an LSA the sequence number and the flag matter.  The graph, the      *)
(* counters and the dead list (of other origins) are left out.             *)
(***************************************************************************)
EXTENDS Naturals

CONSTANTS
  Threads,       \* the threads that handle LSAs of the origin
  MaxSN,         \* bound on the origin's sequence numbers
  Absent         \* no entry in the dictionary

ASSUME LsaThreadsAssumption ==
  /\ Threads # {}
  /\ MaxSN \in Nat
  /\ Absent \notin Nat

VARIABLES
  knew,              \* whether the origin was known when the threads started
  packets,           \* whether the origin is in ReceiveThread.packets
  LSA_SN,            \* its entry in LSA_SN
  LSA_SN_forwarded,  \* its entry in LSA_SN_forwarded
  LSA_DB,            \* the sequence number of its LSA in LSA_DB
  pc,                \* where each thread is in serverSide
  lsa,               \* the LSA each thread handles
  flooded,           \* how often each sequence number was flooded
  purge,             \* where checkForNodeFailure is in remove_inactive
  overlapped         \* history: a thread made a test while another one was
                     \* between its test and its writes

lsaVars == <<knew, packets, LSA_SN, LSA_SN_forwarded, LSA_DB, pc, lsa, flooded, purge,
             overlapped>>

Lsa == [sn : 1..MaxSN, flag : {0, 1}]

\* -1, the mark of an origin whose LSAs were never forwarded, is 0 here:
\* the numbers an origin sends start at 1.
Unforwarded == 0

LsaTypeOK ==
  /\ knew \in BOOLEAN
  /\ packets \in BOOLEAN
  /\ LSA_SN \in 0..MaxSN \cup {Absent}
  /\ LSA_SN_forwarded \in 0..MaxSN \cup {Absent}
  /\ LSA_DB \in 0..MaxSN \cup {Absent}
  /\ pc \in [Threads -> {"idle", "test", "add", "number", "unmark", "store",
                         "compare", "renumber", "restore", "check", "mark",
                         "send", "done", "KeyError"}]
  /\ lsa \in [Threads -> Lsa]
  /\ flooded \in [1..MaxSN -> Nat]
  /\ purge \in {"watch", "discard", "popSN", "popForwarded", "popDB", "over"}
  /\ overlapped \in BOOLEAN

LsaInit ==
  /\ knew \in BOOLEAN
  /\ packets = knew
  /\ LSA_SN = IF knew THEN 0 ELSE Absent
  /\ LSA_SN_forwarded = IF knew THEN Unforwarded ELSE Absent
  /\ LSA_DB = IF knew THEN 0 ELSE Absent
  /\ pc = [t \in Threads |-> "idle"]
  /\ lsa \in [Threads -> Lsa]
  /\ flooded = [n \in 1..MaxSN |-> 0]
  /\ purge = "watch"
  /\ overlapped = FALSE

-----------------------------------------------------------------------------

Goto(t, label) == pc' = [pc EXCEPT ![t] = label]

(* ReceiveThread.run takes a message off the queue and starts a thread. *)
Start(t) ==
  /\ pc[t] = "idle"
  /\ Goto(t, "test")
  /\ UNCHANGED <<packets, LSA_SN, LSA_SN_forwarded, LSA_DB, lsa, flooded, purge>>

(* if RID not in packets ... elif flag == 1 ... *)
Test(t) ==
  /\ pc[t] = "test"
  /\ Goto(t, IF ~packets THEN "add"
             ELSE IF lsa[t].flag = 1 THEN "compare" ELSE "check")
  /\ UNCHANGED <<packets, LSA_SN, LSA_SN_forwarded, LSA_DB, lsa, flooded, purge>>

(* Mutant: the entry of LSA_SN_forwarded is not made. *)
SetNumberOnly(t) ==
  /\ pc[t] = "number"
  /\ LSA_SN' = lsa[t].sn
  /\ Goto(t, "store")
  /\ UNCHANGED <<packets, LSA_SN_forwarded, LSA_DB, lsa, flooded, purge>>

(* A new origin: its entries are made one after the other. *)
AddPacket(t) ==
  /\ pc[t] = "add"
  /\ packets' = TRUE
  /\ Goto(t, "number")
  /\ UNCHANGED <<LSA_SN, LSA_SN_forwarded, LSA_DB, lsa, flooded, purge>>

SetNumber(t) ==
  /\ pc[t] = "number"
  /\ LSA_SN' = lsa[t].sn
  /\ Goto(t, "unmark")
  /\ UNCHANGED <<packets, LSA_SN_forwarded, LSA_DB, lsa, flooded, purge>>

SetUnforwarded(t) ==
  /\ pc[t] = "unmark"
  /\ LSA_SN_forwarded' = Unforwarded
  /\ Goto(t, "store")
  /\ UNCHANGED <<packets, LSA_SN, LSA_DB, lsa, flooded, purge>>

Store(t) ==
  /\ pc[t] = "store"
  /\ LSA_DB' = lsa[t].sn
  /\ Goto(t, "check")
  /\ UNCHANGED <<packets, LSA_SN, LSA_SN_forwarded, lsa, flooded, purge>>

(* Mutant: every update is fresh. *)
CompareNot(t) ==
  /\ pc[t] = "compare"
  /\ Goto(t, IF LSA_SN = Absent THEN "KeyError" ELSE "renumber")
  /\ UNCHANGED <<packets, LSA_SN, LSA_SN_forwarded, LSA_DB, lsa, flooded, purge>>

(* An update: fresh if its number is above the record. *)
Compare(t) ==
  /\ pc[t] = "compare"
  /\ Goto(t, IF LSA_SN = Absent THEN "KeyError"
             ELSE IF lsa[t].sn > LSA_SN THEN "renumber" ELSE "check")
  /\ UNCHANGED <<packets, LSA_SN, LSA_SN_forwarded, LSA_DB, lsa, flooded, purge>>

Renumber(t) ==
  /\ pc[t] = "renumber"
  /\ LSA_SN' = lsa[t].sn
  /\ Goto(t, "restore")
  /\ UNCHANGED <<packets, LSA_SN_forwarded, LSA_DB, lsa, flooded, purge>>

Restore(t) ==
  /\ pc[t] = "restore"
  /\ LSA_DB' = lsa[t].sn
  /\ Goto(t, "check")
  /\ UNCHANGED <<packets, LSA_SN, LSA_SN_forwarded, lsa, flooded, purge>>

(* Mutant: the number accepted is compared instead of the one forwarded. *)
CheckAccepted(t) ==
  /\ pc[t] = "check"
  /\ Goto(t, IF LSA_SN = Absent THEN "KeyError"
             ELSE IF LSA_SN < lsa[t].sn THEN "mark" ELSE "done")
  /\ UNCHANGED <<packets, LSA_SN, LSA_SN_forwarded, LSA_DB, lsa, flooded, purge>>

(* Mutant: whatever is not older than what was forwarded is forwarded. *)
CheckNotOlder(t) ==
  /\ pc[t] = "check"
  /\ Goto(t, IF LSA_SN_forwarded = Absent THEN "KeyError"
             ELSE IF LSA_SN_forwarded <= lsa[t].sn THEN "mark" ELSE "done")
  /\ UNCHANGED <<packets, LSA_SN, LSA_SN_forwarded, LSA_DB, lsa, flooded, purge>>

(* The forwarding block, under a lock that no other thread can hold. *)
CheckForwarded(t) ==
  /\ pc[t] = "check"
  /\ Goto(t, IF LSA_SN_forwarded = Absent THEN "KeyError"
             ELSE IF LSA_SN_forwarded < lsa[t].sn THEN "mark" ELSE "done")
  /\ UNCHANGED <<packets, LSA_SN, LSA_SN_forwarded, LSA_DB, lsa, flooded, purge>>

MarkForwarded(t) ==
  /\ pc[t] = "mark"
  /\ LSA_SN_forwarded' = lsa[t].sn
  /\ Goto(t, "send")
  /\ UNCHANGED <<packets, LSA_SN, LSA_DB, lsa, flooded, purge>>

(* The neighbours get the LSA only if the origin is in the database. *)
Send(t) ==
  /\ pc[t] = "send"
  /\ flooded' = IF LSA_DB = Absent THEN flooded ELSE [flooded EXCEPT ![lsa[t].sn] = @ + 1]
  /\ Goto(t, "done")
  /\ UNCHANGED <<packets, LSA_SN, LSA_SN_forwarded, LSA_DB, lsa, purge>>

(***************************************************************************)
(* checkForNodeFailure declares the origin dead: remove_inactive drops it  *)
(* from the database, transmits (and sleeps), then forgets it entry by     *)
(* entry.                                                                  *)
(***************************************************************************)
PurgeDatabase ==
  /\ purge = "watch" /\ packets
  /\ LSA_DB' = Absent
  /\ purge' = "discard"
  /\ UNCHANGED <<packets, LSA_SN, LSA_SN_forwarded>>

PurgePacket ==
  /\ purge = "discard"
  /\ packets' = FALSE
  /\ purge' = "popSN"
  /\ UNCHANGED <<LSA_SN, LSA_SN_forwarded, LSA_DB>>

PurgeNumber ==
  /\ purge = "popSN"
  /\ LSA_SN' = Absent
  /\ purge' = "popForwarded"
  /\ UNCHANGED <<packets, LSA_SN_forwarded, LSA_DB>>

PurgeForwarded ==
  /\ purge = "popForwarded"
  /\ LSA_SN_forwarded' = Absent
  /\ purge' = "popDB"
  /\ UNCHANGED <<packets, LSA_SN, LSA_DB>>

PurgeRest ==
  /\ purge = "popDB"
  /\ LSA_DB' = Absent
  /\ purge' = "over"
  /\ UNCHANGED <<packets, LSA_SN, LSA_SN_forwarded>>

Purge ==
  /\ PurgeDatabase \/ PurgePacket \/ PurgeNumber \/ PurgeForwarded \/ PurgeRest
  /\ UNCHANGED <<pc, lsa, flooded>>

HandleLSA(t) ==
  \/ Start(t)
  \/ Test(t)
  \/ AddPacket(t)
  \/ SetNumber(t)
  \/ SetUnforwarded(t)
  \/ Store(t)
  \/ Compare(t)
  \/ Renumber(t)
  \/ Restore(t)
  \/ CheckForwarded(t)
  \/ MarkForwarded(t)
  \/ Send(t)

(***************************************************************************)
(* History.  What a thread has tested (packets, LSA_SN, LSA_SN_forwarded)  *)
(* is only as good as the writes of the others let it be.                  *)
(***************************************************************************)
Writing == {"add", "number", "unmark", "store", "renumber", "restore", "mark"}

Overlap ==
  \E t \in Threads :
    /\ pc[t] \in {"test", "compare", "check"} /\ pc'[t] # pc[t]
    /\ \E u \in Threads \ {t} : pc[u] \in Writing

LsaNext ==
  /\ (\E t \in Threads : HandleLSA(t)) \/ Purge
  /\ overlapped' = (overlapped \/ Overlap)
  /\ UNCHANGED knew

LsaSpec == LsaInit /\ [][LsaNext]_lsaVars

-----------------------------------------------------------------------------
(* Properties *)

Finished == \A t \in Threads : pc[t] \in {"done", "KeyError"}

NewestSent ==
  \A t \in Threads :
    \E u \in Threads : lsa[u].sn >= lsa[t].sn /\ flooded[lsa[u].sn] > 0

(***************************************************************************)
(* Of all the LSAs of a known origin that is not declared dead, the newest *)
(* (or one as new) was flooded to the neighbours: racing threads may flood *)
(* too much, never too little ("Forward the LSA to our neighbours if it    *)
(* hasn't already").                                                       *)
(***************************************************************************)
NewestFlooded == knew /\ purge = "watch" /\ Finished => NewestSent

(***************************************************************************)
(* However the threads that all find the origin new, or half entered,      *)
(* interleave, they leave it known with all its entries, unless it was     *)
(* declared dead meanwhile.                                                *)
(***************************************************************************)
EntriesTogether ==
  purge = "watch" /\ Finished =>
    packets /\ Absent \notin {LSA_SN, LSA_SN_forwarded, LSA_DB}

(***************************************************************************)
(* Copies of updates in any order leave the newest in the database, under  *)
(* its number ("greater than the existing record"), unless the origin was  *)
(* declared dead or one thread's test fell between another one's test and  *)
(* writes: then an older update may be stored over a newer one, or LSA_DB  *)
(* have one LSA and LSA_SN the number of another.                          *)
(***************************************************************************)
NewestKept ==
  purge = "watch" /\ Finished /\ ~overlapped =>
    /\ LSA_DB = LSA_SN
    /\ \A t \in Threads : lsa[t].flag = 1 => lsa[t].sn <= LSA_SN

(***************************************************************************)
(* Each number is forwarded once, however many copies come ("if it hasn't  *)
(* already"), with the same exceptions: copies that are tested together    *)
(* are all forwarded.                                                      *)
(***************************************************************************)
FloodedOnce ==
  purge = "watch" /\ ~overlapped => \A n \in 1..MaxSN : flooded[n] <= 1

=============================================================================
