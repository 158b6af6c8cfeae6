------------------------------ MODULE CellFifo ------------------------------
(***************************************************************************)
(* What a link between this client and a relay promises its users: the      *)
(* cells given to one end come out at the other, each once, whole and in    *)
(* order, though not necessarily all of them.  CellLink implements one of   *)
(* these in each direction.                                                 *)
(***************************************************************************)
EXTENDS Naturals, Sequences

VARIABLES
  sent,     \* the cells given to the link, as their reader is to see them
  received  \* the cells it has handed out

vars == <<sent, received>>

Init == sent = <<>> /\ received = <<>>

Send ==
  /\ Len(sent') = Len(sent) + 1
  /\ SubSeq(sent', 1, Len(sent)) = sent
  /\ UNCHANGED received

Receive ==
  /\ Len(received) < Len(sent)
  /\ received' = Append(received, sent[Len(received) + 1])
  /\ UNCHANGED sent

Spec == Init /\ [][Send \/ Receive]_vars

=============================================================================
