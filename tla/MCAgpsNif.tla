----------------------------- MODULE MCAgpsNif -----------------------------
(* AgpsNif on two or three clients.                                        *)
EXTENDS AgpsNif
CONSTANTS c1, c2, c3
TwoClients == {c1, c2}
ThreeClients == {c1, c2, c3}
NoClients == {}
=============================================================================
