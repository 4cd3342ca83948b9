---------------------------- MODULE MCAgpsRestart ----------------------------
(* AgpsRestart on two connections of the modem.                            *)
EXTENDS AgpsRestart
CONSTANTS c1, c2
TwoClients == {c1, c2}
NoClients == {}
=============================================================================
