------------------------------- MODULE LossyFifo -------------------------------
(***************************************************************************)
(* What the receiving side of a connection promises its caller: messages   *)
(* come whole and in the order in which they were sent; some may be lost,  *)
(* none comes twice.                                                       *)
(***************************************************************************)
EXTENDS Naturals, Sequences

VARIABLES
  outstanding,  \* the messages sent that may still come, each with its number
  delivered     \* those that came

vars == <<outstanding, delivered>>

Init == outstanding = {} /\ delivered = <<>>

\* The numbers grow in the order of sending.
Send == \E new \in outstanding' :
  /\ \A m \in outstanding : m.nr < new.nr
  /\ outstanding' = outstanding \cup {new}
  /\ UNCHANGED delivered

\* A message comes, and those sent before it that have not come never will.
Deliver == \E m \in outstanding :
  /\ delivered' = Append(delivered, m.message)
  /\ outstanding' = {later \in outstanding : later.nr > m.nr}

Next == Send \/ Deliver

Spec == Init /\ [][Next]_vars
=============================================================================
