------------------------------ MODULE MmStream ------------------------------
(***************************************************************************)
(* The buffers of one stream, from the driver to the HAL and back          *)
(* (mm_camera_stream.c, mm_camera_thread.c, QCameraStream.cpp).            *)
(*                                                                         *)
(*   control     QCameraChannel::start and stop, mm_channel_start and stop *)
(*   poll thread mm_camera_poll_fn, mm_stream_data_notify                  *)
(*   cmd thread  mm_camera_cmd_thread with mm_stream_dispatch_app_data     *)
(*   proc thread QCameraStream::dataProcRoutine                            *)
(*   user        whoever in the HAL holds frames: consumers, super buffers *)
(*                                                                         *)
(* The code is not protected against three orders of these threads, each   *)
(* of which uses a frame of a session that is over: broken names the one   *)
(* that came to pass, and the model ends there.                            *)
(***************************************************************************)
EXTENDS Integers, Sequences, FiniteSets, SequencesExt

CONSTANTS
    Bufs,           \* the buffers of the stream
    Initial,        \* those queued at first (initial_reg_flag); the user has the others
    is_bundled,     \* frames are also put into super buffers
    MaxSessions,    \* bound: starts of the channel
    None

Workers == {"cmd", "proc", "user"}      \* threads that give buffers back
Frame == [buf : Bufs, of : Nat]         \* a buffer as it was in a session

ASSUME StreamAssumption ==
    /\ IsFiniteSet(Bufs) /\ Initial \subseteq Bufs /\ Initial # {}
    /\ is_bundled \in BOOLEAN /\ MaxSessions \in Nat
    /\ None \notin Bufs \cup Workers /\ None \notin Frame /\ "EXIT" \notin Bufs

VARIABLES
    ctl,        \* where the control thread is
    session,    \* starts so far
    active,     \* the stream is in MM_STREAM_STATE_ACTIVE
    m_bActive,  \* of QCameraStream
    driver,     \* buffers queued in it, those filled, whether it streams
    buf_refcnt, queued_buffer_count,
    buf_lock,   \* its owner
    entry,      \* the fd is in poll_entries
    polled,     \* the fd is in poll_fds, the poll thread's copy
    pipe,       \* commands to the poll thread: TRUE for one that is waited for
    waiting,    \* who waits for a command, in order
    poll,       \* the poll thread: where it is and its buffer
    cmd,        \* the cmd thread: where it is, its buffer and queue
    proc,       \* the proc thread: whether it runs, DO_NEXT_JOBs, EXIT, mDataQ
    held,       \* what the user holds: [via, buf]
    doing,      \* the frame each worker gives back
    refused,    \* auxiliary: buffers of this session the driver did not take
    broken

bufVars == <<buf_refcnt, queued_buffer_count, buf_lock, refused>>
pollVars == <<entry, polled, pipe, waiting>>
ctlVars == <<ctl, session, active, m_bActive>>
vars == <<ctlVars, driver, bufVars, pollVars, poll, cmd, proc, held, doing, broken>>

NoDriver == [queued |-> {}, ready |-> <<>>, on |-> FALSE]
NoCmd == [pc |-> "off", buf |-> None, queue |-> <<>>, running |-> FALSE]

Init ==
    /\ ctl = "stopped" /\ session = 0 /\ active = FALSE /\ m_bActive = FALSE
    /\ driver = NoDriver
    /\ buf_refcnt = [b \in Bufs |-> 0] /\ queued_buffer_count = 0 /\ buf_lock = None
    /\ refused = 0
    /\ entry = FALSE /\ polled = FALSE /\ pipe = <<>> /\ waiting = <<>>
    /\ poll = [pc |-> "poll", buf |-> None, of |-> 0]
    /\ cmd = NoCmd
    /\ proc = [runs |-> FALSE, jobs |-> 0, exit |-> FALSE, mDataQ |-> <<>>]
    /\ held = {} /\ doing = [w \in Workers |-> None] /\ broken = "none"

-----------------------------------------------------------------------------
(* The poll entries                                                        *)

(* mm_camera_poll_sig_async, mm_camera_poll_sig                            *)
SigAsync(who) == pipe' = Append(pipe, FALSE) /\ UNCHANGED waiting
Sig(who) == pipe' = Append(pipe, TRUE) /\ waiting' = Append(waiting, who)

\* A mistake: whoever adds the fd waits for the poll thread.
AddAndWait(who) == entry' = TRUE /\ Sig(who)

\* A mistake: the poll thread is not told.
AddQuietly(who) == entry' = TRUE /\ UNCHANGED <<pipe, waiting>>

(* mm_camera_poll_thread_add_poll_fd, from mm_stream_qbuf                  *)
AddPollFd(who) == entry' = TRUE /\ SigAsync(who)

(* mm_camera_poll_thread_del_poll_fd: when the entry is not there nobody   *)
(* is told, and nobody waits.                                              *)
DelPollFdAsync(who) ==
    IF entry THEN entry' = FALSE /\ SigAsync(who) ELSE UNCHANGED <<entry, pipe, waiting>>
DelPollFd(who) ==
    IF entry THEN entry' = FALSE /\ Sig(who) ELSE UNCHANGED <<entry, pipe, waiting>>

\* A mistake: the poll thread keeps the fds it had.
ProcPipeOnly == UNCHANGED polled

(* mm_camera_poll_proc_pipe copies the entries,                            *)
UpdateFds == polled' = entry

(* and signals whoever waits.                                              *)
ProcPipe ==
    /\ poll.pc = "poll" /\ pipe # <<>>
    /\ pipe' = Tail(pipe)
    /\ UpdateFds
    /\ waiting' = IF Head(pipe) /\ waiting # <<>> THEN Tail(waiting) ELSE waiting
    /\ UNCHANGED <<ctlVars, driver, bufVars, entry, poll, cmd, proc, held, doing, broken>>

-----------------------------------------------------------------------------
(* The poll thread                                                         *)

LockFree == buf_lock = None

(* mm_camera_poll_fn finds data, and nothing in the pipe.                  *)
PollData ==
    /\ poll.pc = "poll" /\ pipe = <<>> /\ polled /\ driver.on /\ driver.ready # <<>>
    /\ poll' = [poll EXCEPT !.pc = "notify"]
    /\ UNCHANGED <<ctlVars, driver, bufVars, pollVars, cmd, proc, held, doing, broken>>

(* mm_stream_data_notify, mm_stream_read_msm_frame: VIDIOC_DQBUF           *)
Dqbuf ==
    /\ poll.pc = "notify"
    /\ IF entry /\ active /\ driver.on /\ driver.ready # <<>>
       THEN /\ poll' = [pc |-> "count", buf |-> Head(driver.ready), of |-> session]
            /\ driver' = [driver EXCEPT !.ready = Tail(@)]
       ELSE poll' = [poll EXCEPT !.pc = "poll"] /\ UNCHANGED driver
    /\ UNCHANGED <<ctlVars, bufVars, pollVars, cmd, proc, held, doing, broken>>

\* A session whose buffers are gone.
Over(of) == of # session \/ ctl \in {"stopped", "exited"}

(* The rest of mm_stream_read_msm_frame.  The buffers may be gone by now.  *)
CountFrame ==
    /\ poll.pc = "count" /\ LockFree
    /\ queued_buffer_count' = queued_buffer_count - 1
    /\ IF queued_buffer_count = 1 THEN DelPollFdAsync("poll")
       ELSE UNCHANGED <<entry, pipe, waiting>>
    /\ broken' = IF Over(poll.of) THEN "late frame" ELSE "none"
    /\ poll' = [poll EXCEPT !.pc = "hand"]
    /\ UNCHANGED <<ctlVars, driver, buf_refcnt, buf_lock, refused, polled, cmd, proc, held, doing>>

\* has_cb and is_bundled: a reference each
References == IF is_bundled THEN 2 ELSE 1

(* The end of mm_stream_data_notify, mm_stream_handle_rcvd_buf.  The       *)
(* cmd thread may be gone too.                                             *)
HandFrame ==
    LET b == poll.buf IN
    /\ poll.pc = "hand" /\ LockFree
    /\ IF Over(poll.of)
       THEN broken' = "late frame" /\ UNCHANGED <<buf_refcnt, held, cmd>>
       ELSE /\ buf_refcnt' = [buf_refcnt EXCEPT ![b] = @ + References]
            /\ held' = IF is_bundled THEN held \cup {[via |-> "bundle", buf |-> b]} ELSE held
            /\ cmd' = [cmd EXCEPT !.queue = Append(@, b)]
            /\ UNCHANGED broken
    /\ poll' = [pc |-> "poll", buf |-> None, of |-> session]
    /\ UNCHANGED <<ctlVars, driver, queued_buffer_count, buf_lock, refused, pollVars, proc, doing>>

-----------------------------------------------------------------------------
(* Giving a buffer back                                                    *)

(* QCameraStream::bufDone, mm_camera_qbuf, mm_stream_fsm_fn: the buffer is *)
(* given back when the stream is active, and forgotten otherwise.          *)
Qbuf(w, b) ==
    IF active THEN doing' = [doing EXCEPT ![w] = [buf |-> b, of |-> session]] ELSE UNCHANGED doing

(* mm_stream_buf_done up to the ioctl of mm_stream_qbuf, with buf_lock.    *)
(* Without buffers it uses the buf_status that was freed.                  *)
BufDone(w) ==
    LET b == doing[w].buf
        last == buf_refcnt[b] = 1
        first == last /\ queued_buffer_count = 0
    IN
    /\ doing[w] # None /\ LockFree
    /\ IF Over(doing[w].of)
       THEN broken' = "late qbuf" /\ UNCHANGED <<bufVars, entry, pipe, waiting, doing>>
       ELSE /\ buf_refcnt' = [buf_refcnt EXCEPT ![b] = IF @ = 0 THEN 0 ELSE @ - 1]
            /\ queued_buffer_count' = queued_buffer_count + (IF last THEN 1 ELSE 0)
            /\ IF first THEN AddPollFd(w) ELSE UNCHANGED <<entry, pipe, waiting>>
            /\ IF last THEN buf_lock' = w /\ UNCHANGED doing
               ELSE doing' = [doing EXCEPT ![w] = None] /\ UNCHANGED buf_lock
            /\ UNCHANGED <<refused, broken>>
    /\ UNCHANGED <<ctlVars, driver, polled, poll, cmd, proc, held>>

(* mm_stream_buf_done when invalidate_buf fails: mm_stream_qbuf returns    *)
(* before it counts the buffer, and the buffer is nowhere.                 *)
InvalidateFails(w) ==
    /\ doing[w] # None /\ LockFree /\ ~Over(doing[w].of)
    /\ buf_refcnt[doing[w].buf] = 1
    /\ buf_refcnt' = [buf_refcnt EXCEPT ![doing[w].buf] = 0]
    /\ doing' = [doing EXCEPT ![w] = None]
    /\ UNCHANGED <<ctlVars, driver, queued_buffer_count, buf_lock, refused, pollVars, poll, cmd,
                   proc, held, broken>>

(* VIDIOC_QBUF, and buf_lock is unlocked.  A buffer that the driver does   *)
(* not take stays counted, and is nowhere.                                 *)
QbufIoctl(w) ==
    /\ buf_lock = w /\ ~Contains(waiting, w)
    /\ \/ driver' = [driver EXCEPT !.queued = @ \cup {doing[w].buf}] /\ UNCHANGED refused
       \/ refused' = refused + 1 /\ UNCHANGED driver
    /\ buf_lock' = None
    /\ doing' = [doing EXCEPT ![w] = None]
    /\ UNCHANGED <<ctlVars, buf_refcnt, queued_buffer_count, pollVars, poll, cmd, proc, held, broken>>

(* The user gives a frame back; it has none to give before the first came. *)
UserDone(h) ==
    /\ doing["user"] = None /\ ctl # "streamon"
    /\ held' = held \ {h}
    /\ Qbuf("user", h.buf)
    /\ UNCHANGED <<ctlVars, driver, bufVars, pollVars, poll, cmd, proc, broken>>

-----------------------------------------------------------------------------
(* The cmd thread of the stream                                            *)

(* mm_camera_cmd_thread: what follows EXIT in the queue is still done.     *)
CmdTake ==
    /\ cmd.pc = "wait" /\ cmd.queue # <<>> /\ doing["cmd"] = None
    /\ cmd' = IF Head(cmd.queue) = "EXIT"
              THEN [cmd EXCEPT !.queue = Tail(@), !.running = FALSE]
              ELSE [cmd EXCEPT !.queue = Tail(@), !.pc = "call", !.buf = Head(cmd.queue)]
    /\ UNCHANGED <<ctlVars, driver, bufVars, pollVars, poll, proc, held, doing, broken>>

CmdExit ==
    /\ cmd.pc = "wait" /\ cmd.queue = <<>> /\ ~cmd.running /\ doing["cmd"] = None
    /\ cmd' = [cmd EXCEPT !.pc = "exited"]
    /\ UNCHANGED <<ctlVars, driver, bufVars, pollVars, poll, proc, held, doing, broken>>

(* mm_stream_dispatch_app_data takes a reference and calls                 *)
(* QCameraStream::dataNotifyCB, which looks at m_bActive,                  *)
CmdCall ==
    /\ cmd.pc = "call" /\ LockFree
    /\ buf_refcnt' = [buf_refcnt EXCEPT ![cmd.buf] = @ + 1]
    /\ IF m_bActive
       THEN cmd' = [cmd EXCEPT !.pc = "enqueue"] /\ UNCHANGED doing
       ELSE cmd' = [cmd EXCEPT !.pc = "done"] /\ Qbuf("cmd", cmd.buf)
    /\ UNCHANGED <<ctlVars, driver, queued_buffer_count, buf_lock, refused, pollVars, poll, proc,
                   held, broken>>

(* and puts the frame into mDataQ;                                         *)
CmdEnqueue ==
    /\ cmd.pc = "enqueue"
    /\ proc' = [proc EXCEPT !.mDataQ = Append(@, [buf |-> cmd.buf, of |-> session]),
                            !.jobs = @ + 1]
    /\ cmd' = [cmd EXCEPT !.pc = "done"]
    /\ UNCHANGED <<ctlVars, driver, bufVars, pollVars, poll, held, doing, broken>>

\* A mistake: the reference of the cmd thread is kept.
KeepReference ==
    /\ cmd.pc = "done" /\ doing["cmd"] = None
    /\ cmd' = [cmd EXCEPT !.pc = "wait", !.buf = None]
    /\ UNCHANGED <<ctlVars, driver, bufVars, pollVars, poll, proc, held, doing, broken>>

(* then its own reference goes, by mm_stream_buf_done.                     *)
CmdDone ==
    /\ cmd.pc = "done" /\ doing["cmd"] = None
    /\ doing' = [doing EXCEPT !["cmd"] = [buf |-> cmd.buf, of |-> session]]
    /\ cmd' = [cmd EXCEPT !.pc = "wait", !.buf = None]
    /\ UNCHANGED <<ctlVars, driver, bufVars, pollVars, poll, proc, held, broken>>

-----------------------------------------------------------------------------
(* The proc thread of QCameraStream                                        *)

(* dataProcRoutine: a job takes a frame, if there is one, to mDataCB.  One *)
(* of an earlier session is read after its buffer was freed.               *)
ProcJob ==
    /\ proc.runs /\ ~proc.exit /\ proc.jobs > 0
    /\ proc' = [proc EXCEPT !.jobs = @ - 1, !.mDataQ = IF @ = <<>> THEN @ ELSE Tail(@)]
    /\ IF proc.mDataQ = <<>> THEN UNCHANGED <<held, broken>>
       ELSE IF Head(proc.mDataQ).of < session
       THEN broken' = "stale frame" /\ UNCHANGED held
       ELSE /\ held' = held \cup {[via |-> "hal", buf |-> Head(proc.mDataQ).buf]}
            /\ UNCHANGED broken
    /\ UNCHANGED <<ctlVars, driver, bufVars, pollVars, poll, cmd, doing>>

(* EXIT: mDataQ is flushed, each frame is given back.                      *)
ProcFlush ==
    /\ proc.runs /\ proc.exit /\ proc.mDataQ # <<>> /\ doing["proc"] = None
    /\ proc' = [proc EXCEPT !.mDataQ = Tail(@)]
    /\ IF Head(proc.mDataQ).of < session
       THEN broken' = "stale frame" /\ UNCHANGED doing
       ELSE Qbuf("proc", Head(proc.mDataQ).buf) /\ UNCHANGED broken
    /\ UNCHANGED <<ctlVars, driver, bufVars, pollVars, poll, cmd, held>>

ProcExit ==
    /\ proc.runs /\ proc.exit /\ proc.mDataQ = <<>> /\ doing["proc"] = None
    /\ proc' = [proc EXCEPT !.runs = FALSE, !.exit = FALSE]
    /\ UNCHANGED <<ctlVars, driver, bufVars, pollVars, poll, cmd, held, doing, broken>>

-----------------------------------------------------------------------------
(* Starting                                                                *)

(* QCameraStream::start, mm_stream_init_bufs, mm_stream_reg_buf: the       *)
(* initial buffers are queued, and the first of them adds the fd.          *)
Start ==
    /\ ctl = "stopped" /\ session < MaxSessions
    /\ session' = session + 1
    /\ m_bActive' = TRUE /\ proc' = [proc EXCEPT !.runs = TRUE]
    /\ buf_refcnt' = [b \in Bufs |-> IF b \in Initial THEN 0 ELSE 1]
    /\ held' = {[via |-> "hal", buf |-> b] : b \in Bufs \ Initial}
    /\ driver' = [NoDriver EXCEPT !.queued = Initial]
    /\ queued_buffer_count' = Cardinality(Initial) /\ refused' = 0
    /\ AddPollFd("ctl")
    /\ ctl' = "streamon"
    /\ UNCHANGED <<active, buf_lock, polled, poll, cmd, doing, broken>>

(* mm_stream_init_bufs fails, or mm_stream_request_buf: QCameraChannel     *)
(* stops its streams.                                                      *)
StartFails ==
    /\ ctl = "stopped" /\ session < MaxSessions
    /\ session' = session + 1
    /\ proc' = [proc EXCEPT !.runs = TRUE, !.exit = TRUE]
    /\ ctl' = "exited"
    /\ UNCHANGED <<active, m_bActive, driver, bufVars, pollVars, poll, cmd, held, doing, broken>>

(* mm_stream_reg_buf fails after some buffers: those are in the driver and *)
(* counted, one that it did not take is counted too, one that could not be *)
(* invalidated is not.  The stream is in MM_STREAM_STATE_BUFFED, where     *)
(* neither STOP nor UNREG_BUF does anything: PUT_BUF frees the buffers,    *)
(* and the fd stays where it is.                                           *)
RegFails ==
    /\ ctl = "stopped" /\ session < MaxSessions
    /\ session' = session + 1
    /\ \E taken \in SUBSET Initial \ {Initial}, not_taken \in {0, 1} :
        LET count == Cardinality(taken) + not_taken IN
        /\ driver' = [NoDriver EXCEPT !.queued = taken]
        /\ refused' = not_taken
        /\ queued_buffer_count' = count
        /\ IF count > 0 THEN AddPollFd("ctl") ELSE UNCHANGED <<entry, pipe, waiting>>
    /\ proc' = [proc EXCEPT !.runs = TRUE, !.exit = TRUE]
    /\ ctl' = "exited"
    /\ UNCHANGED <<active, m_bActive, buf_refcnt, buf_lock, polled, poll, cmd, held, doing, broken>>

(* mm_stream_fsm_reg(START): the cmd thread runs and the stream is active  *)
(* before the driver streams.  When it does not the fd is deleted and the  *)
(* rest taken back.                                                        *)
StreamOn ==
    /\ ctl = "streamon" /\ ~Contains(waiting, "ctl")
    /\ active' = TRUE
    /\ cmd' = [NoCmd EXCEPT !.pc = "wait", !.running = TRUE]
    /\ \/ /\ driver' = [driver EXCEPT !.on = TRUE] /\ ctl' = "active"
          /\ UNCHANGED <<entry, pipe, waiting>>
       \/ /\ DelPollFd("ctl") /\ ctl' = "release"
          /\ UNCHANGED driver
    /\ UNCHANGED <<session, m_bActive, bufVars, polled, poll, proc, held, doing, broken>>

-----------------------------------------------------------------------------
(* Stopping                                                                *)

(* QCameraStream::stop waits for its proc thread.                          *)
Stop ==
    /\ ctl = "active"
    /\ m_bActive' = FALSE
    /\ proc' = [proc EXCEPT !.exit = TRUE]
    /\ ctl' = "del"
    /\ UNCHANGED <<session, active, driver, bufVars, pollVars, poll, cmd, held, doing, broken>>

(* mm_stream_streamoff: the fd is deleted,                                 *)
StopPolling ==
    /\ ctl = "del" /\ ~proc.runs
    /\ DelPollFd("ctl")
    /\ ctl' = "streamoff"
    /\ UNCHANGED <<session, active, m_bActive, driver, bufVars, polled, poll, cmd, proc, held, doing, broken>>

(* then VIDIOC_STREAMOFF.                                                  *)
StreamOff ==
    /\ ctl = "streamoff" /\ ~Contains(waiting, "ctl")
    /\ driver' = NoDriver
    /\ ctl' = "release"
    /\ UNCHANGED <<session, active, m_bActive, bufVars, pollVars, poll, cmd, proc, held, doing, broken>>

(* mm_camera_cmd_thread_release: EXIT,                                     *)
ReleaseCmd ==
    /\ ctl = "release" /\ ~Contains(waiting, "ctl")
    /\ cmd' = [cmd EXCEPT !.queue = Append(@, "EXIT")]
    /\ ctl' = "join"
    /\ UNCHANGED <<session, active, m_bActive, driver, bufVars, pollVars, poll, proc, held, doing, broken>>

(* then join; mm_stream_unreg_buf, mm_stream_deinit_bufs.  What the super  *)
(* buffers hold goes with their queue.  After a start that failed the HAL  *)
(* still has to stop its proc thread.                                      *)
Unregister ==
    /\ ctl = "join" /\ cmd.pc = "exited" /\ LockFree
    /\ cmd' = NoCmd
    /\ active' = FALSE
    /\ driver' = NoDriver
    /\ buf_refcnt' = [b \in Bufs |-> 0]
    /\ held' = {}
    /\ m_bActive' = FALSE
    /\ proc' = IF proc.runs THEN [proc EXCEPT !.exit = TRUE] ELSE proc
    /\ ctl' = IF proc.runs THEN "exited" ELSE "stopped"
    /\ UNCHANGED <<session, queued_buffer_count, buf_lock, refused, pollVars, poll, doing, broken>>

ProcJoined ==
    /\ ctl = "exited" /\ ~proc.runs
    /\ ctl' = "stopped"
    /\ UNCHANGED <<session, active, m_bActive, driver, bufVars, pollVars, poll, cmd, proc, held, doing, broken>>

-----------------------------------------------------------------------------
(* The driver fills a buffer.                                              *)
Fill ==
    /\ driver.on
    /\ \E b \in driver.queued :
        driver' = [driver EXCEPT !.queued = @ \ {b}, !.ready = Append(@, b)]
    /\ UNCHANGED <<ctlVars, bufVars, pollVars, poll, cmd, proc, held, doing, broken>>

Control ==
    \/ Start \/ StartFails \/ RegFails \/ StreamOn \/ Stop \/ StopPolling \/ StreamOff
    \/ ReleaseCmd \/ Unregister \/ ProcJoined
PollThread == ProcPipe \/ PollData \/ Dqbuf \/ CountFrame \/ HandFrame
CmdThread == CmdTake \/ CmdExit \/ CmdCall \/ CmdEnqueue \/ CmdDone
ProcThread == ProcJob \/ ProcFlush \/ ProcExit
GiveBack(w) == BufDone(w) \/ InvalidateFails(w) \/ QbufIoctl(w)

Next ==
    /\ broken = "none"
    /\ \/ Control \/ PollThread \/ CmdThread \/ ProcThread \/ Fill
       \/ \E w \in Workers : GiveBack(w)
       \/ \E h \in held : UserDone(h)

Spec == Init /\ [][Next]_vars

(* The threads are scheduled, and the proc thread gets buf_lock in the     *)
(* end; nobody has to start or stop a channel, to fill a buffer or to give *)
(* a frame back.                                                           *)
Alive(A) == broken = "none" /\ A
Fairness ==
    /\ WF_vars(Alive(Control /\ ctl \notin {"stopped", "active"}))
    /\ WF_vars(Alive(PollThread))
    /\ WF_vars(Alive(CmdThread))
    /\ WF_vars(Alive(ProcThread))
    /\ \A w \in Workers : WF_vars(Alive(GiveBack(w)))
    /\ SF_vars(Alive(BufDone("proc")))

FairSpec == Spec /\ Fairness

-----------------------------------------------------------------------------
(* Properties                                                              *)

Times(q, x) == Cardinality({p \in DOMAIN q : q[p] = x})
Once(test) == IF test THEN 1 ELSE 0

\* The places the frame in b is at: the user, the queue of the cmd thread,
\* this thread itself and the mDataQ it is about to put it in, mDataQ, and
\* the threads that are giving it back.
Own(b) == [buf |-> b, of |-> session]
Holders(b) ==
    Cardinality({h \in held : h.buf = b}) + Times(cmd.queue, b)
    + Once(cmd.buf = b) + Once(cmd.buf = b /\ cmd.pc = "enqueue")
    + Times(proc.mDataQ, Own(b))
    + Cardinality({w \in Workers : doing[w] = Own(b) /\ buf_lock # w})

(* A buffer has one reference for each place its frame is at, so that it   *)
(* goes to the driver when the last of them is done with it, and only      *)
(* then.                                                                   *)
RefcountIsHolders == active => \A b \in Bufs : buf_refcnt[b] = Holders(b)

\* No unprotected order came to pass, and none is certain to.
Sound == broken = "none" /\ ~(poll.pc \in {"count", "hand"} /\ Over(poll.of))

(* While the stream is active the poll thread watches it exactly when      *)
(* buffers are counted as queued, or is about to learn that it has to.     *)
(* What is counted is what the driver has and, beside that, only what it   *)
(* refused: for those the fd stays polled when the driver has none left,   *)
(* and a buffer that was never counted does not keep it so.                *)
PolledIffQueued ==
    ctl \in {"active", "del"} /\ LockFree /\ Sound =>
        /\ queued_buffer_count =
             Cardinality(driver.queued) + Len(driver.ready) + Once(poll.pc = "count") + refused
        /\ entry <=> queued_buffer_count > 0
        /\ polled # entry => pipe # <<>>

-----------------------------------------------------------------------------
(* The inductive invariant                                                 *)

Live == ctl \notin {"stopped", "exited"}
Off == ~Live \/ ctl = "streamon"
InHand(b) == poll.pc \in {"count", "hand"} /\ poll.buf = b /\ poll.of = session

Types ==
    /\ ctl \in {"stopped", "streamon", "active", "del", "streamoff", "release", "join", "exited"}
    /\ session \in Nat /\ {active, m_bActive, entry, polled} \subseteq BOOLEAN
    /\ driver \in [queued : SUBSET Bufs, ready : Seq(Bufs), on : BOOLEAN]
    /\ buf_refcnt \in [Bufs -> Nat] /\ queued_buffer_count \in Int /\ refused \in Nat
    /\ buf_lock \in Workers \cup {None}
    /\ pipe \in Seq(BOOLEAN)
    /\ poll \in [pc : {"poll", "notify", "count", "hand"}, buf : Bufs \cup {None}, of : Nat]
    /\ cmd \in [pc : {"off", "wait", "call", "enqueue", "done", "exited"}, buf : Bufs \cup {None},
                queue : Seq(Bufs \cup {"EXIT"}), running : BOOLEAN]
    /\ proc \in [runs : BOOLEAN, jobs : Nat, exit : BOOLEAN, mDataQ : Seq(Frame)]
    /\ held \subseteq [via : {"bundle", "hal"}, buf : Bufs]
    /\ doing \in [Workers -> Frame \cup {None}]

\* What belongs to a session is there while it lasts.
Sessions ==
    /\ active <=> ~Off
    /\ ~Live => held = {} /\ ~driver.on /\ driver.ready = <<>>
    /\ ~Live /\ proc.runs => ctl = "exited" /\ proc.exit
    /\ Off => cmd = NoCmd

\* A frame is of this session, or of one before; of one before only, until
\* the driver streams.
Frames ==
    LET Past(of) == of <= session /\ (ctl = "streamon" => of < session) IN
    /\ poll.pc \in {"count", "hand"} => poll.buf \in Bufs /\ Past(poll.of)
    /\ \A w \in Workers : doing[w] # None => Past(doing[w].of)
    /\ \A i \in DOMAIN proc.mDataQ : Past(proc.mDataQ[i].of)

CmdOK ==
    /\ cmd.pc \in {"off", "wait", "exited"} <=> cmd.buf = None
    /\ cmd.pc \in {"call", "enqueue"} => doing["cmd"] = None

LockOK ==
    buf_lock # None =>
        ~Off /\ doing[buf_lock] # None /\ doing[buf_lock].of = session

\* The places at which b is with the driver, or on its way, and those on the
\* way of its frame to the user.
WithDriver(b) ==
    Once(b \in driver.queued) + Times(driver.ready, b) + Once(InHand(b))
    + Once(buf_lock # None /\ doing[buf_lock].buf = b)
OnTheWay(b) ==
    Once([via |-> "hal", buf |-> b] \in held) + Times(cmd.queue, b)
    + Once(cmd.buf = b /\ cmd.pc \in {"call", "enqueue"}) + Times(proc.mDataQ, Own(b))

\* A buffer is at one of these places at a time, and with the driver only
\* when nobody refers to it.
BufOK(b) ==
    /\ buf_refcnt[b] = Holders(b)
    /\ WithDriver(b) <= Once(buf_refcnt[b] = 0)
    /\ OnTheWay(b) <= 1

\* The driver's buffers and those it refused are counted until polling
\* stops, and every change of the entry is in the pipe before the poll
\* thread sees it.
CountOK ==
    /\ ctl \in {"streamon", "active", "del"} /\ broken = "none" =>
         /\ queued_buffer_count =
              Cardinality(driver.queued) + Len(driver.ready)
              + Once(poll.pc = "count" /\ poll.of = session) + Once(buf_lock # None) + refused
         /\ entry <=> queued_buffer_count > 0
    /\ polled # entry => pipe # <<>>

IInv ==
    /\ Types /\ Sessions /\ Frames /\ CmdOK /\ LockOK /\ CountOK
    /\ Live => \A b \in Bufs : BufOK(b)

-----------------------------------------------------------------------------
(* A frame the driver filled is read, unless the stream is stopped.        *)
FramesArrive ==
    \A b \in Bufs : Contains(driver.ready, b) ~> ~Contains(driver.ready, b) \/ broken # "none"

(* A start or stop ends: nobody who holds buf_lock waits for the poll      *)
(* thread, which takes it.                                                 *)
ControlEnds ==
    ctl \notin {"stopped", "active"} ~> ctl \in {"stopped", "active"} \/ broken # "none"

(* "since all streams are stopped, we are safe to release all buffers"     *)
(* (mm_camera_channel.c:1183): the poll thread works on none of them.      *)
SafeToRelease == broken # "late frame"

(* "we always assume qbuf will be done before channel/stream is fully      *)
(* stopped" (mm_camera.c:477).                                             *)
QbufInTime == broken # "late qbuf"

(* "flush data buf queue" at EXIT (QCameraStream.cpp): no frame is left    *)
(* for the next session.                                                   *)
OwnFrames == broken # "stale frame"

(* "step1: remove fd from data poll thread" of mm_stream_streamoff.        *)
StoppedIsNotPolled == ctl = "stopped" => ~entry
=============================================================================
