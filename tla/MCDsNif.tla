------------------------------ MODULE MCDsNif ------------------------------
(* DsNif on two emergency connections.                                     *)
EXTENDS DsNif, TLC
CONSTANTS c1, c2
TwoClients == {c1, c2}
=============================================================================
