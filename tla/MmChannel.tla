------------------------------ MODULE MmChannel ------------------------------
(***************************************************************************)
(* The super buffers of a channel (mm_camera_channel.c).  The frames of    *)
(* the streams of a channel are put together by frame index in a queue,    *)
(* and whole ones are given to the HAL as it asks for them.                *)
(*                                                                         *)
(*   driver      fills free buffers; frames may be lost in any stream      *)
(*   poll thread enqueues each frame to the command thread                 *)
(*   command     mm_channel_process_stream_buf: the only user of the queue *)
(*   callback    mm_channel_dispatch_super_buf                             *)
(*   HAL         asks for super buffers, flushes, gives buffers back       *)
(*                                                                         *)
(* The functions of the command thread are operators from a channel to a   *)
(* channel.  A buffer is a count for its stream, and the frame it holds    *)
(* while it is not in the driver.                                          *)
(***************************************************************************)
EXTENDS Naturals, Sequences, FiniteSets, SequencesExt

CONSTANTS
    Streams,                    \* the streams of the bundle
    Meta,                       \* the metadata stream
    Contents,                   \* what a metadata frame can say
    HalCmds,                    \* commands the HAL can give
    Mode,                       \* notify_mode the channel is created with
    NumBufs,                    \* buffers of each stream
    water_mark, look_back, post_frame_skip, max_unmatched_frames,
    max_future_frame_offset,    \* 100 in the code
    MaxFrame, MaxCmds, MaxQueued \* bounds: frame index, HAL commands, commands waiting

ASSUME ChannelAssumption ==
    /\ Meta \in Streams /\ IsFiniteSet(Streams)
    /\ Mode \in {"BURST", "CONTINUOUS"}
    /\ NumBufs \in [Streams -> Nat]
    /\ {water_mark, look_back, post_frame_skip, max_unmatched_frames,
        max_future_frame_offset, MaxFrame, MaxCmds, MaxQueued} \subseteq Nat
    /\ \A cmd \in HalCmds :
        /\ cmd.type \in {"REQ_DATA_CB", "CONFIG_NOTIFY", "FLUSH_QUEUE",
                         "AE_BRACKETING", "FLASH_BRACKETING", "ZOOM_1X"}
        /\ cmd.type = "REQ_DATA_CB" => cmd.n \in Nat

VARIABLES
    ch,         \* the channel: queue, matching state and flags
    cmd_queue,  \* of the command thread
    cb_queue,   \* of the callback thread
    hal,        \* super buffers the HAL holds
    free,       \* buffers of each stream in the driver
    latest,     \* index of the latest frame of each stream
    given,      \* index of the latest super buffer given to the HAL
    asked,      \* commands the HAL gave
    lost        \* auxiliary: contradictory metadata frames so far

vars == <<ch, cmd_queue, cb_queue, hal, free, latest, given, asked, lost>>

-----------------------------------------------------------------------------
(* The queue                                                               *)

\* Buffers go back to the driver: one of each stream in have.
Qbuf(c, have) ==
    [c EXCEPT !.back = [s \in Streams |-> IF s \in have THEN @[s] + 1 ELSE @[s]]]

\* All buffers of some nodes of the queue.
QbufAll(c, nodes) ==
    [c EXCEPT !.back = [s \in Streams |->
        @[s] + Cardinality({p \in DOMAIN nodes : s \in nodes[p].have})]]

Matched(q) == {p \in DOMAIN q : q[p].matched}
Unmatched(q) == DOMAIN q \ Matched(q)
First(S) == CHOOSE p \in S : \A o \in S : p <= o

\* How many times a dequeue that wants a matched node finds one.
Ready(q) == IF Unmatched(q) = {} THEN Len(q) ELSE First(Unmatched(q)) - 1

(* mm_channel_superbuf_dequeue_internal, n times: the first n nodes leave. *)
Dequeue(c, n) ==
    [c EXCEPT !.que = SubSeq(@, n + 1, Len(@)),
              !.match_cnt = @ - Cardinality(Matched(c.que) \cap 1 .. n)]

(* mm_channel_superbuf_flush                                               *)
Flush(c) == Dequeue(QbufAll(c, c.que), Len(c.que))
\* A mistake: the buffers of the nodes are not given back.
FlushOnly(c) == Dequeue(c, Ready(c.que))

(* mm_channel_superbuf_flush_matched                                       *)
FlushMatched(c) ==
    LET n == Ready(c.que) IN Dequeue(QbufAll(c, SubSeq(c.que, 1, n)), n)

\* The loop that dequeues matched nodes until at most limit are left.  It
\* never ends when an unmatched node comes first.
DropDownTo(c, limit) ==
    LET n == c.match_cnt - limit IN
    IF c.match_cnt <= limit THEN c
    ELSE IF n <= Ready(c.que) THEN Dequeue(QbufAll(c, SubSeq(c.que, 1, n)), n)
    ELSE [c EXCEPT !.spins = TRUE]

(* mm_channel_superbuf_skip                                                *)
Skip(c) == IF c.notify_mode = "CONTINUOUS" THEN c ELSE DropDownTo(c, look_back)

\* A mistake: the overflow is left to the next request.
NoOverflow(c) == c

(* mm_channel_superbuf_bufdone_overflow                                    *)
BufdoneOverflow(c) ==
    IF c.notify_mode = "CONTINUOUS" THEN c ELSE DropDownTo(c, water_mark)

-----------------------------------------------------------------------------
(* Matching                                                                *)

(* A metadata frame that says both that the snapshot is prepared and which *)
(* frames are good: mm_channel_handle_metadata refuses it (-1) before it   *)
(* changes anything.                                                       *)
Contradicts(buf) ==
    buf.stream = Meta /\ buf.meta.prep # "none" /\ buf.meta.range # <<>>

(* mm_channel_handle_metadata: what any other metadata frame changes.      *)
HandleMetadata(c, buf) ==
    LET m == buf.meta
        ranged == m.range # <<>>
        prep == CASE m.prep = "future" ->
                       [Flush(c) EXCEPT !.expected = @ + max_future_frame_offset,
                                        !.needLEDFlash = TRUE]
                  [] m.prep = "done" -> [c EXCEPT !.needLEDFlash = FALSE]
                  [] m.prep = "none" /\ ranged -> [c EXCEPT !.expected = m.range[1]]
                  [] OTHER ->
                       IF c.need3ABracketing
                       THEN [FlushMatched(c) EXCEPT !.expected = @ + max_future_frame_offset]
                       ELSE c
    IN
    IF buf.stream # Meta THEN c
    ELSE IF c.isZoom1xFrameRequested
    THEN IF m.crop1x
         THEN [c EXCEPT !.isZoom1xFrameRequested = FALSE, !.expected = buf.frame_idx + 1]
         ELSE [FlushMatched(c) EXCEPT !.expected = @ + max_future_frame_offset]
    ELSE IF ranged /\ c.isFlashBracketingEnabled
    THEN [prep EXCEPT !.expected = m.range[1], !.expected_without_led = m.range[2]]
    ELSE IF ranged
    THEN [prep EXCEPT !.expected = m.range[1], !.need3ABracketing = FALSE]
    ELSE prep

\* The frame after which the next super buffer is wanted.
Expect(c, buf) ==
    IF c.isFlashBracketingEnabled
    THEN [c EXCEPT !.expected = c.expected_without_led, !.isFlashBracketingEnabled = FALSE]
    ELSE [c EXCEPT !.expected = buf.frame_idx + post_frame_skip]

\* A mistake: the older unmatched nodes stay in front of the whole one.
JoinOnly(c, buf, pos) ==
    LET have == c.que[pos].have \cup {buf.stream}
        joined == [c EXCEPT !.que[pos].have = have, !.que[pos].matched = have = Streams]
    IN IF have = Streams THEN [Expect(joined, buf) EXCEPT !.match_cnt = @ + 1] ELSE joined

\* The frame joins the unmatched node at pos.  When that makes it whole the
\* older unmatched nodes before it are released.
Join(c, buf, pos) ==
    LET have == c.que[pos].have \cup {buf.stream}
        whole == have = Streams
        older == {p \in Unmatched(c.que) : p < pos /\ c.que[p].frame_idx < buf.frame_idx}
        from == IF whole /\ older # {} THEN First(older) ELSE pos
        node == [c.que[pos] EXCEPT !.have = have, !.matched = whole]
        joined == [QbufAll(c, SubSeq(c.que, from, pos - 1)) EXCEPT
                      !.que = SubSeq(@, 1, from - 1) \o <<node>> \o SubSeq(@, pos + 1, Len(@))]
    IN IF whole THEN [Expect(joined, buf) EXCEPT !.match_cnt = @ + 1] ELSE joined

\* The frame starts a node, before the first unmatched one that is newer.
\* When there are too many the first older one is released; when there is
\* none the frame itself is.
Insert(c, buf) ==
    LET older == {p \in Unmatched(c.que) : c.que[p].frame_idx < buf.frame_idx}
        newer == {p \in Unmatched(c.que) : c.que[p].frame_idx > buf.frame_idx}
        full == max_unmatched_frames < Cardinality(Unmatched(c.que))
        place == IF newer = {} THEN Len(c.que) + 1 ELSE First(newer)
        alone == Streams = {buf.stream}
        node == [frame_idx |-> buf.frame_idx, have |-> {buf.stream}, matched |-> alone]
        longer == InsertAt(c.que, place, node)
        out == First(older)
        gone == IF out < place THEN out ELSE out + 1
        kept == IF full
                THEN [QbufAll(c, <<c.que[out]>>) EXCEPT !.que = RemoveAt(longer, gone)]
                ELSE [c EXCEPT !.que = longer]
    IN
    IF full /\ older = {} THEN Qbuf(c, {buf.stream})
    ELSE IF alone
    THEN [kept EXCEPT !.expected = buf.frame_idx + post_frame_skip, !.match_cnt = @ + 1]
    ELSE kept

(* mm_channel_superbuf_comp_and_enqueue.  A refused metadata frame is left *)
(* as it is: neither queued nor given back.                                *)
CompAndEnqueue(c0, buf) ==
    LET c == HandleMetadata(c0, buf)
        found == {p \in Unmatched(c.que) : c.que[p].frame_idx = buf.frame_idx}
    IN
    IF Contradicts(buf) THEN c0
    ELSE IF
       \/ buf.stream = Meta /\ ~buf.meta.is_meta_valid
       \/ buf.frame_idx < c.expected
    THEN Qbuf(c, {buf.stream})
    ELSE IF found # {} THEN Join(c, buf, First(found))
    ELSE Insert(c, buf)

-----------------------------------------------------------------------------
(* The command thread                                                      *)

\* A mistake: what is asked for leaves, whole or not.
DispatchAny(c) ==
    LET n == IF c.pending_cnt < Len(c.que) THEN c.pending_cnt ELSE Len(c.que)
    IN [Dequeue(c, n) EXCEPT !.out = SubSeq(c.que, 1, n), !.pending_cnt = @ - n]

(* The second half of mm_channel_process_stream_buf: super buffers leave   *)
(* while they are asked for.                                               *)
Dispatch(c) ==
    LET all == Ready(c.que)
        burst == c.notify_mode = "BURST"
        n == IF burst /\ c.pending_cnt < all THEN c.pending_cnt ELSE all
        sent == [Dequeue(c, n) EXCEPT !.out = SubSeq(c.que, 1, n)]
    IN
    IF burst
    THEN [sent EXCEPT
            !.pending_cnt = @ - n,
            !.startZSlSnapshotCalled = @ /\ ~(n > 0 /\ c.pending_cnt = n)]
    ELSE sent

\* A mistake: a request that is cancelled leaves the flash alone.
RequestOnly(c, n) ==
    LET s == Skip([c EXCEPT !.pending_cnt = n]) IN
    IF n > 0 /\ (s.needLEDFlash \/ s.need3ABracketing)
    THEN [s EXCEPT !.startZSlSnapshotCalled = TRUE, !.needLEDFlash = FALSE]
    ELSE s

\* A request: older super buffers are skipped, and the flash is started or
\* stopped through the driver.
Request(c, n) ==
    LET s == Skip([c EXCEPT !.pending_cnt = n])
        flash == s.needLEDFlash \/ s.need3ABracketing
    IN
    IF n > 0 /\ flash /\ ~s.startZSlSnapshotCalled
    THEN [s EXCEPT !.startZSlSnapshotCalled = TRUE, !.needLEDFlash = FALSE]
    ELSE IF n = 0 /\ s.startZSlSnapshotCalled
    THEN [s EXCEPT !.startZSlSnapshotCalled = FALSE, !.needLEDFlash = FALSE,
                   !.need3ABracketing = FALSE]
    ELSE s

(* mm_channel_process_stream_buf.  After a flush nothing is dispatched.    *)
Process(c, cmd) ==
    LET done(d) == Dispatch(BufdoneOverflow(d)) IN
    CASE cmd.type = "DATA_CB"       -> done(CompAndEnqueue(c, cmd.buf))
      [] cmd.type = "REQ_DATA_CB"   -> done(Request(c, cmd.n))
      [] cmd.type = "CONFIG_NOTIFY" -> done([c EXCEPT !.notify_mode = cmd.mode])
      [] cmd.type = "FLUSH_QUEUE"   -> Flush([c EXCEPT !.expected = cmd.frame_idx])
      [] cmd.type = "AE_BRACKETING" -> done([Flush(c) EXCEPT !.need3ABracketing = cmd.start])
      [] cmd.type = "FLASH_BRACKETING" -> done([c EXCEPT !.isFlashBracketingEnabled = cmd.start])
      [] cmd.type = "ZOOM_1X"       -> done([c EXCEPT !.isZoom1xFrameRequested = cmd.start])

NoBufs == [s \in Streams |-> 0]

Init ==
    /\ ch = [que |-> <<>>, match_cnt |-> 0, expected |-> 0, expected_without_led |-> 0,
             notify_mode |-> Mode, pending_cnt |-> 0,
             needLEDFlash |-> FALSE, need3ABracketing |-> FALSE,
             isFlashBracketingEnabled |-> FALSE, isZoom1xFrameRequested |-> FALSE,
             startZSlSnapshotCalled |-> FALSE,
             spins |-> FALSE, back |-> NoBufs, out |-> <<>>]
    /\ cmd_queue = <<>> /\ cb_queue = <<>> /\ hal = {}
    /\ free = NumBufs /\ latest = NoBufs /\ given = 0 /\ asked = 0 /\ lost = 0

(* mm_camera_cmd_thread takes a command.                                   *)
CmdThread ==
    LET cmd == Head(cmd_queue)
        c == Process(ch, cmd)
    IN
    /\ cmd_queue # <<>> /\ ~ch.spins
    /\ cmd_queue' = Tail(cmd_queue)
    /\ ch' = [c EXCEPT !.back = NoBufs, !.out = <<>>]
    /\ free' = [s \in Streams |-> free[s] + c.back[s]]
    /\ cb_queue' = cb_queue \o c.out
    /\ lost' = IF cmd.type = "DATA_CB" /\ Contradicts(cmd.buf) THEN lost + 1 ELSE lost
    /\ UNCHANGED <<hal, latest, given, asked>>

-----------------------------------------------------------------------------
(* The other threads                                                       *)

Enqueue(cmd) ==
    /\ Len(cmd_queue) < MaxQueued
    /\ cmd_queue' = Append(cmd_queue, cmd)

(* A frame of stream s is ready: mm_stream_data_notify.  Frames between it *)
(* and the latest of the stream are lost.                                  *)
DataNotify(s) ==
    /\ free[s] > 0
    /\ \E i \in latest[s] + 1 .. MaxFrame :
        /\ latest' = [latest EXCEPT ![s] = i]
        /\ \E m \in Contents :
            /\ s # Meta => m = CHOOSE any \in Contents : TRUE
            /\ Enqueue([type |-> "DATA_CB",
                        buf |-> [stream |-> s, frame_idx |-> i, meta |-> m]])
    /\ free' = [free EXCEPT ![s] = @ - 1]
    /\ UNCHANGED <<ch, cb_queue, hal, given, asked, lost>>

(* The HAL gives a command: mm_channel_request_super_buf and the others.   *)
Command(cmd) ==
    /\ asked < MaxCmds /\ asked' = asked + 1
    /\ Enqueue(cmd)
    /\ UNCHANGED <<ch, cb_queue, hal, free, latest, given, lost>>

(* mm_channel_dispatch_super_buf: the callback of the HAL.                 *)
CbThread ==
    /\ cb_queue # <<>>
    /\ cb_queue' = Tail(cb_queue)
    /\ hal' = hal \cup {Head(cb_queue)}
    /\ given' = Head(cb_queue).frame_idx
    /\ UNCHANGED <<ch, cmd_queue, free, latest, asked, lost>>

(* QCameraChannel::bufDone: the HAL gives a super buffer back.             *)
BufDone(b) ==
    /\ hal' = hal \ {b}
    /\ free' = [s \in Streams |-> IF s \in b.have THEN free[s] + 1 ELSE free[s]]
    /\ UNCHANGED <<ch, cmd_queue, cb_queue, latest, given, asked, lost>>

Next ==
    \/ CmdThread
    \/ CbThread
    \/ \E s \in Streams : DataNotify(s)
    \/ \E cmd \in HalCmds : Command(cmd)
    \/ \E b \in hal : BufDone(b)

Spec == Init /\ [][Next]_vars

-----------------------------------------------------------------------------
(* Properties                                                              *)

(* The loops that drop whole super buffers end                             *)
(* (mm_channel_superbuf_bufdone_overflow and _skip take the first node     *)
(* only, and go round again when it is unmatched).                         *)
NeverSpins == ~ch.spins

(* Why: whole nodes come first, and match_cnt counts them; the others are  *)
(* in the order of their frames.                                           *)
MatchedFirst ==
    /\ Matched(ch.que) = 1 .. ch.match_cnt
    /\ \A p, o \in Unmatched(ch.que) : p < o => ch.que[p].frame_idx < ch.que[o].frame_idx

(* What the contradictory frames cost stream s.                            *)
Lost(s) == IF s = Meta THEN lost ELSE 0

(* No buffer is given back twice, and none is lost but one for each        *)
(* contradictory metadata frame: the others of each stream are in the      *)
(* driver, in a command, in the queue, or with the HAL.                    *)
BuffersAccounted ==
    \A s \in Streams :
        NumBufs[s] =
            free[s] + Lost(s)
            + Cardinality({p \in DOMAIN cmd_queue :
                  cmd_queue[p].type = "DATA_CB" /\ cmd_queue[p].buf.stream = s})
            + Cardinality({p \in DOMAIN ch.que : s \in ch.que[p].have})
            + Cardinality({p \in DOMAIN cb_queue : s \in cb_queue[p].have})
            + Cardinality({b \in hal : s \in b.have})

(* What the HAL gets is whole, and in the order of the frames, whatever    *)
(* the metadata did to the expected frame.                                 *)
WholeInOrder ==
    LET idx(q) == [p \in DOMAIN q |-> q[p].frame_idx]
        coming == <<given>> \o idx(cb_queue) \o idx(SubSeq(ch.que, 1, ch.match_cnt))
    IN /\ \A p, o \in DOMAIN coming : p < o => coming[p] < coming[o]
       /\ \A b \in hal \cup Range(cb_queue) : b.have = Streams

(* The queue alone never stops a stream: with more buffers than it keeps   *)
(* back, whole and unmatched, the driver has one to fill once everybody    *)
(* else gave theirs back.  Only the metadata stream can still run dry, and *)
(* only when contradictory frames took the buffers it had beyond those.    *)
NeverStarved ==
    cmd_queue = <<>> /\ cb_queue = <<>> /\ hal = {} =>
        \A s \in Streams :
            NumBufs[s] > water_mark + max_unmatched_frames + 1 + Lost(s) => free[s] > 0

(* The flash does not outlive the request it was started for.              *)
FlashEnds == ch.startZSlSnapshotCalled => ch.pending_cnt > 0
=============================================================================
