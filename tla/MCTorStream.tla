----------------------------- MODULE MCTorStream -----------------------------
(* Instances of TorStream for TLC. *)
EXTENDS TorStream
=============================================================================
