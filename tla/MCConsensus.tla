---------------------------- MODULE MCConsensus ----------------------------
(* The directory client: two threads that renew, or one that renews and one *)
(* that fetches a descriptor, three authorities, and a change of keys.      *)
EXTENDS Consensus

CONSTANTS u1, u2

SomeJobs == {(u1 :> "renew" @@ u2 :> job) : job \in {"renew", "descriptor"}}

=============================================================================
