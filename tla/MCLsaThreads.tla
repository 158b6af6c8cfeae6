----------------------------- MODULE MCLsaThreads -----------------------------
(* Instances of LsaThreads for TLC. *)
EXTENDS LsaThreads, TLC

ThreadSymmetry == Permutations(Threads)
=============================================================================
