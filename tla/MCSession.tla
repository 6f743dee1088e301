------------------------------- MODULE MCSession -------------------------------
(***************************************************************************)
(* An instance of Session: three channels, two of them with channel number 0.  *)
(***************************************************************************)
EXTENDS Session

ModelChannels == <<"c1", "c2", "c3">>
=============================================================================
