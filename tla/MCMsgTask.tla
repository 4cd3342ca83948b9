------------------------------ MODULE MCMsgTask ------------------------------
(* MsgTask with four messages.                                             *)
EXTENDS MsgTask
CONSTANTS m1, m2, m3, m4
FourMsgs == {m1, m2, m3, m4}
=============================================================================
