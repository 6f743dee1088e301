------------------------------- MODULE MCFraming -------------------------------
(***************************************************************************)
(* An instance of Framing: data of two bytes, other messages without body  *)
(* or too long for the buffer.                                             *)
(***************************************************************************)
EXTENDS Framing

ModelKinds == {[data |-> TRUE, length |-> 2], [data |-> TRUE, length |-> 1],
               [data |-> FALSE, length |-> 0], [data |-> FALSE, length |-> 3]}
=============================================================================
