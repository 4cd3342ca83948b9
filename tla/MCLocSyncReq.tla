---------------------------- MODULE MCLocSyncReq ----------------------------
(* Three callers, two slots.                                               *)
EXTENDS LocSyncReq
CONSTANTS c1, c2, c3, r1, r2
ThreeCallers == {c1, c2, c3}
TwoInds == {r1, r2}
=============================================================================
