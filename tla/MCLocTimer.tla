----------------------------- MODULE MCLocTimer -----------------------------
(* LocTimer on two clients and two delegates.                              *)
EXTENDS LocTimer, TLC
CONSTANTS c1, c2, d1, d2
TwoClients == {c1, c2}
NoClients == {}
OneClient == {c2}
TwoDelegates == {d1, d2}
ShortDelays == 0 .. 1
=============================================================================
