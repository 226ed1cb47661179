---------------------------- MODULE MCScanner ----------------------------
(* Instances of Scanner for TLC. *)
EXTENDS Scanner, TLC

CONSTANTS c1, c2, t1, t2, t3

OneChannel == (t1 :> c1) @@ (t2 :> c1)
TwoInOne == (t1 :> c1) @@ (t2 :> c1) @@ (t3 :> c2)
Ages == (t1 :> 1) @@ (t2 :> 2) @@ (t3 :> 3)
FirstAges == [t \in Threads |-> Ages[t]]
=============================================================================
