----------------------------- MODULE MCMmChannel -----------------------------
(* Metadata and snapshot frames, with the buffers QCamera2HWI.cpp          *)
(* getBufNumRequired gives them in ZSL mode.                               *)
EXTENDS MmChannel

CONSTANTS meta, snapshot

TwoStreams == {meta, snapshot}

\* zslQBuffers + minCircularBufNum, zslQBuffers + CAMERA_MIN_STREAMING_BUFFERS
ZslBufs == [s \in Streams |-> IF s = snapshot THEN water_mark + 3
                              ELSE water_mark + max_unmatched_frames + 2]

Plain == [is_meta_valid |-> TRUE, prep |-> "none", range |-> <<>>, crop1x |-> FALSE]
FlashContents ==
    {Plain, [Plain EXCEPT !.is_meta_valid = FALSE], [Plain EXCEPT !.prep = "future"],
     [Plain EXCEPT !.prep = "done"], [Plain EXCEPT !.range = <<1, 2>>],
     [Plain EXCEPT !.crop1x = TRUE],
     [Plain EXCEPT !.prep = "done", !.range = <<1, 2>>]}

AllCmds ==
    {[type |-> "REQ_DATA_CB", n |-> k] : k \in 0 .. 2}
    \cup {[type |-> "CONFIG_NOTIFY", mode |-> d] : d \in {"BURST", "CONTINUOUS"}}
    \cup {[type |-> "FLUSH_QUEUE", frame_idx |-> i] : i \in {1, 3}}
    \cup {[type |-> t, start |-> on] :
            t \in {"AE_BRACKETING", "FLASH_BRACKETING", "ZOOM_1X"}, on \in BOOLEAN}
=============================================================================
