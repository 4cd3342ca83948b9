------------------------------ MODULE MCLocHeap ------------------------------
(* LocHeap on six timers, some of which rank the same.                     *)
EXTENDS LocHeap, TLC
CONSTANTS d1, d2, d3, d4, d5, d6
SixTimers == {d1, d2, d3, d4, d5, d6}
Ranks == d1 :> 1 @@ d2 :> 2 @@ d3 :> 2 @@ d4 :> 3 @@ d5 :> 3 @@ d6 :> 4
=============================================================================
