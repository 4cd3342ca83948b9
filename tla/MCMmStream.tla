----------------------------- MODULE MCMmStream -----------------------------
(* A stream with two buffers, one of which the window has at first.        *)
EXTENDS MmStream
CONSTANTS b1, b2
TwoBufs == {b1, b2}
OneInitial == {b1}
=============================================================================
