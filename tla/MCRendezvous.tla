--------------------------- MODULE MCRendezvous ----------------------------
(* A connection through a rendezvous point: two senders on the connecting side, one on the other. *)
EXTENDS Rendezvous
=============================================================================
