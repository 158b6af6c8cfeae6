------------------------------ MODULE MCCircuits ------------------------------
(* Instances of Circuits for TLC. *)
EXTENDS Circuits
=============================================================================
