------------------------------ MODULE MCAdvertise ------------------------------
(* Instances of Advertise for TLC. *)
EXTENDS Advertise, TLC

CONSTANTS h0, h1, h2, s1, A, B

\* Two routers say HELLO, the first one again, and a latency is measured.
TwoPeers == h0 :> A @@ h1 :> A @@ h2 :> B @@ s1 :> B

(***************************************************************************)
(* One run begins when two of the HELLOs have been dealt with, one after   *)
(* the other.                                                              *)
(***************************************************************************)
Met ==
  /\ neighbours = <<NewEntry(h0), NewEntry(h2)>>
  /\ SN = 2
  /\ circuit_info = {A, B}
  /\ stats = {A, B}
  /\ newest = {[sn |-> 2, neighbours |-> neighbours]}
  /\ pc = [t \in Threads |-> IF t \in {h0, h2} THEN "done"
                             ELSE IF t = h1 THEN "bound" ELSE "idle"]
  /\ i = [t \in Threads |-> IF t = h2 THEN 2 ELSE 1]
  /\ number = [t \in Threads |-> 0]
  /\ node = Detector
  /\ dead = {}
  /\ rounds = 0
  /\ unsaid = {}
  /\ overlapped = FALSE

MetSpec == Met /\ [][Next]_vars

\* What NewestIsCurrent makes an exception of for good is not followed further.
InQuestion == ~overlapped /\ \A t \in unsaid : pc[t] \notin Raised
=============================================================================
