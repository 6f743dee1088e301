------------------------------- MODULE MCPackets -------------------------------
(***************************************************************************)
(* An instance of Packets.  Bytes have four values, so that a difference   *)
(* of 2, 9 or 40 needs the next kind of field; a buffer of 33 values has   *)
(* room for two bundles of any content.                                    *)
(***************************************************************************)
EXTENDS Packets

Channel(key, type, sta, cha) == [key |-> key, type |-> type, name |-> [sta |-> sta, cha |-> cha]]
BHZ == <<2, 5, 9>>
BHE == <<2, 5, 3>>
HHZ == <<5, 5, 9>>

\* Stations A, BC and a, which is A in lower case; type 2 is state of health.
A == <<1>>
BC == <<2, 3>>
ModelLists ==
  {<<Channel(20, 1, BC, BHZ), Channel(11, 1, A, BHZ), Channel(12, 2, A, HHZ), Channel(10, 1, A, BHE)>>,
   <<Channel(10, 1, <<11>>, HHZ), Channel(20, 1, BC, BHZ), Channel(21, 1, BC, BHE)>>,
   <<Channel(11, 1, A, BHZ), Channel(12, 2, A, <<6, 7>>), Channel(20, 1, BC, BHZ)>>,
   <<Channel(12, 2, A, NoCode), Channel(20, 1, BC, BHZ), Channel(10, 1, A, BHE)>>}

\* *.???, and patterns with a network, a location, both or neither, one that is
\* not valid, and an empty one.
Q == Wildcard
All == <<Star, <<Q, Q, Q>>>>
Net == <<7, 7>>
Loc == <<8, 8>>
ModelPatterns ==
  {<<All>>,
   <<<<Net, A, BHZ>>, <<Star, <<2, Q, Q>>, Loc>>>>,
   <<<<A, <<Q, Q, 9>>, Loc>>, <<Net, A, <<Q, Q, Q>>, Loc>>, <<BC, BC, HHZ>>>>,
   <<<<A, <<2, 5>>>>, All>>,
   <<<<BC, BHE>>, NoPattern, All>>}

ModelWaves ==
  <<<<-32, -25, -26, -25, -24, -26, -27, -18, 22, 24, 17, 5, 4, 5, 3, 4, 5, 4>>,
    [t \in 1 .. 40 |-> IF t % 3 = 0 THEN 1 ELSE (t % 3) - 2]>>

DefaultCode == <<9, 9>>

Window(start, end) == [start |-> start, end |-> end]
ModelWindows ==
  {Window(0, 99), Window(7, 14), Window(12, 13), Window(13, 13), Window(15, 8)}
=============================================================================
