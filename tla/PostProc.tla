------------------------------ MODULE PostProc ------------------------------
(***************************************************************************)
(* A picture taken from the ZSL channel, from the request to the           *)
(* application's callback (QCameraPostProc.cpp, QCamera2HWICallbacks.cpp,  *)
(* mm_jpeg.c).                                                             *)
(*                                                                         *)
(*   sm        the state machine thread: takePicture, cancelPicture, the   *)
(*             JPEG events and SNAPSHOT_DONE                               *)
(*   channel   the thread of the ZSL channel that gives super buffers      *)
(*   proc      QCameraPostProcessor::dataProcessRoutine                    *)
(*   encoder   the job manager of mm_jpeg.c and the encoder's callbacks    *)
(*   reproc    the reprocess channel and its callback thread               *)
(*   notifier  QCameraCbNotifier::cbNotifyRoutine                          *)
(*                                                                         *)
(* A frame is a super buffer.  A use of the camera says what becomes of it *)
(* (kind: encoded as it is; reprocessed first, and then encoded, or given  *)
(* to the application, "yuv"; or given to it as it is, "raw"), whether the *)
(* application waits for a picture to be over before the next (patient),   *)
(* and how many images a picture has at most.                              *)
(* Longshot, its save thread, and captures without ZSL are left out.       *)
(***************************************************************************)
EXTENDS Naturals, Sequences, FiniteSets, SequencesExt

CONSTANTS
    Frames,         \* the super buffers of the ZSL channel
    Uses,           \* the uses of the camera to be considered
    MaxPictures     \* bound: pictures taken

ASSUME PostProcAssumption ==
    /\ IsFiniteSet(Frames) /\ Frames # {}
    /\ Uses \subseteq [kind : {"jpeg", "reproc", "raw", "yuv"}, patient : BOOLEAN,
                      images : Nat \ {0}]
    /\ MaxPictures \in Nat

VARIABLES
    use,            \* of the whole behaviour
    m_state,
    sm,             \* "idle", or why it waits in QCameraPostProcessor::stop
    evt_queue,      \* of the state machine
    pictures, asked, failed,    \* taken; images of the last; the application was told of an error
    channel,        \* frames asked for and not yet given, and those being given
    home,           \* how often the channel has a frame
    queues,
    proc,           \* the thread: where it is, mProcTh's commands, is_active, the job in hand
    sync_sem,
    encoder,        \* job_hist, the jobs to do and those going on
    reproc,         \* the channel exists; the frames it works on; paired: auxiliary, it was
                    \* not replaced while frames were on their way
    notifier        \* the thread, and mDataQ

apiVars == <<m_state, sm, pictures, asked>>
vars == <<use, apiVars, evt_queue, failed, channel, home, queues, proc, sync_sem,
          encoder, reproc, notifier>>

NoQueues == [inputPPQ |-> <<>>, ongoingPPQ |-> <<>>, inputJpegQ |-> <<>>,
             ongoingJpegQ |-> <<>>, inputRawQ |-> <<>>]

Init ==
    /\ use \in Uses
    /\ m_state = "previewing" /\ sm = "idle" /\ evt_queue = <<>>
    /\ pictures = 0 /\ asked = 0 /\ failed = FALSE
    /\ channel = [want |-> 0, cb |-> <<>>] /\ home = [f \in Frames |-> 1]
    /\ queues = NoQueues
    /\ proc = [pc |-> "idle", cmds |-> <<>>, active |-> FALSE, job |-> <<>>]
    /\ sync_sem = 0
    /\ encoder = [session |-> FALSE, hist |-> 0, todo |-> <<>>, ongoing |-> <<>>]
    /\ reproc = [on |-> FALSE, frames |-> <<>>, paired |-> TRUE]
    /\ notifier = [pc |-> "idle", cmds |-> <<>>, dataQ |-> <<>>, active |-> FALSE,
                   expected |-> 0, rcvd |-> 0, cb |-> <<>>]

-----------------------------------------------------------------------------
(* Frames, jobs and commands                                               *)

Count(s, f) == Cardinality({i \in DOMAIN s : s[i] = f})

(* releaseSuperBuf of each frame of a sequence                             *)
GiveBack(s) == home' = [f \in Frames |-> home[f] + Count(s, f)]

(* qcamera_jpeg_data_t: made is the frame that the image was made from,    *)
(* src the one that is released with the job.  jobId 0 is not yet known.   *)
Job(src, made) == [id |-> 0, src |-> src, made |-> made]
Sources(jobs) == [i \in DOMAIN jobs |-> jobs[i].src]

(* The one increasing sequence of the numbers in I, and what it picks      *)
Order(I) == {e \in [1 .. Cardinality(I) -> I] :
               /\ \A j, k \in DOMAIN e : j < k => e[j] < e[k]
               /\ \A i \in I : \E k \in DOMAIN e : e[k] = i}
Picked(s, e) == [k \in DOMAIN e |-> s[e[k]]]

(* QCameraCmdThread::sendCmd, without and with priority                    *)
Sent(thread, cmd) == [thread EXCEPT !.cmds = Append(@, cmd)]
SentFirst(thread, cmd) == [thread EXCEPT !.cmds = <<cmd>> \o @]
Received(thread) == [thread EXCEPT !.cmds = Tail(@)]

(* sendDataNotify: cb is the frame that goes with the callback, if any     *)
Notified(cb) == [Sent(notifier, "do") EXCEPT !.dataQ = Append(@, cb)]

(* QCameraPostProcessor::stop, as far as the wait for sync_sem; the        *)
(* callbacks are stopped first                                             *)
Stop(p, n, why) ==
    /\ notifier' = SentFirst(n, "stop")
    /\ proc' = SentFirst(p, "stop")
    /\ sm' = why

-----------------------------------------------------------------------------
(* The state machine thread                                                *)

(* What a patient application waits for: all that it can see has ended,    *)
(* and every thread had the time to return to its loop.                    *)
Settled ==
    /\ evt_queue = <<>> /\ channel.cb = <<>>
    /\ proc.pc = "idle" /\ proc.cmds = <<>> /\ notifier.pc = "idle" /\ notifier.cmds = <<>>
    /\ encoder.todo = <<>> /\ encoder.ongoing = <<>>

Reprocesses == use.kind \in {"reproc", "yuv"}

(* TAKE_PICTURE, QCamera2HardwareInterface::takePicture and                *)
(* QCameraPostProcessor::start, which replaces the reprocess channel.  When *)
(* the channel refuses the request the postprocessor is stopped at once;   *)
(* when an advanced capture does not start it is left as it is.            *)
TakePicture(n) ==
    LET p == Sent(proc, "start")
        m == SentFirst(notifier, "start")
    IN
    /\ sm = "idle" /\ m_state = "previewing" /\ pictures < MaxPictures
    /\ use.patient => Settled
    /\ pictures' = pictures + 1 /\ asked' = n /\ failed' = FALSE
    /\ reproc' = IF Reprocesses
                 THEN [on |-> TRUE, frames |-> <<>>,
                       paired |-> reproc.paired /\ queues.ongoingPPQ = <<>>]
                 ELSE reproc
    /\ \/ /\ m_state' = "pic_taking"
          /\ channel' = [channel EXCEPT !.want = n]
          /\ proc' = p /\ notifier' = m /\ UNCHANGED sm
       \/ Stop(p, m, "refused") /\ UNCHANGED <<m_state, channel>>
       \/ proc' = p /\ notifier' = m /\ UNCHANGED <<m_state, channel, sm>>
    /\ UNCHANGED <<use, evt_queue, home, queues, sync_sem, encoder>>

(* CANCEL_PICTURE in PREVIEW_PIC_TAKING, as far as the wait                *)
CancelPicture ==
    /\ sm = "idle" /\ m_state = "pic_taking"
    /\ Stop(proc, notifier, "cancel")
    /\ UNCHANGED <<use, m_state, pictures, asked, failed, evt_queue, channel, home,
                   queues, sync_sem, encoder, reproc>>

NextEvent(type) ==
    /\ sm = "idle" /\ evt_queue # <<>> /\ Head(evt_queue).type = type
    /\ evt_queue' = Tail(evt_queue)
    /\ UNCHANGED <<use, m_state, pictures, asked, channel, sync_sem, encoder, reproc>>

\* A mistake: the oldest job is taken to be the one (findJpegJobByJobId).
FlushOldest(id) ==
    LET jobs == queues.ongoingJpegQ IN
    /\ queues' = [queues EXCEPT !.ongoingJpegQ = IF jobs = <<>> THEN jobs ELSE Tail(jobs)]
    /\ GiveBack(IF jobs = <<>> THEN <<>> ELSE <<Head(jobs).src>>)

(* m_ongoingJpegQ.flushNodes(matchJobId): the job is found unless its id   *)
(* has not been stored yet; the others stay in their order                 *)
FlushJob(id) ==
    LET jobs == queues.ongoingJpegQ
        flushed == {i \in DOMAIN jobs : jobs[i].id = id}
    IN
    /\ \E e \in Order(DOMAIN jobs \ flushed) :
          queues' = [queues EXCEPT !.ongoingJpegQ = Picked(jobs, e)]
    /\ home' = [f \in Frames |-> home[f] + Cardinality({i \in flushed : jobs[i].src = f})]

(* JPEG_EVT_NOTIFY, processJpegEvt; PREVIEWING ignores it                  *)
JpegEvent ==
    /\ NextEvent("jpeg")
    /\ IF m_state = "pic_taking"
       THEN /\ FlushJob(Head(evt_queue).id)
            /\ notifier' = IF Head(evt_queue).ok THEN Notified(<<>>) ELSE notifier
            /\ failed' = (failed \/ ~Head(evt_queue).ok)
            /\ proc' = Sent(proc, "do")
       ELSE UNCHANGED <<queues, home, notifier, failed, proc>>
    /\ UNCHANGED sm

\* A mistake: PREVIEWING drops the event, as it does others.
SnapshotDoneUnanswered ==
    /\ NextEvent("done")
    /\ IF m_state = "pic_taking" THEN Stop(proc, notifier, "done")
       ELSE UNCHANGED <<notifier, proc, sm>>
    /\ UNCHANGED <<failed, home, queues>>

(* SNAPSHOT_DONE: PREVIEW_PIC_TAKING cancels what is left of the picture,  *)
(* PREVIEWING only answers                                                 *)
SnapshotDone ==
    /\ NextEvent("done")
    /\ IF m_state = "pic_taking" THEN Stop(proc, notifier, "done")
       ELSE notifier' = [notifier EXCEPT !.pc = "deliver"] /\ UNCHANGED <<proc, sm>>
    /\ UNCHANGED <<failed, home, queues>>

(* After QCameraPostProcessor::stop: the rest of cancelPicture and the     *)
(* answer to the caller; or that of takePicture                            *)
Stopped ==
    /\ sm # "idle" /\ sync_sem > 0
    /\ sync_sem' = sync_sem - 1 /\ sm' = "idle" /\ m_state' = "previewing"
    /\ channel' = IF sm = "refused" THEN channel ELSE [channel EXCEPT !.want = 0]
    /\ notifier' = IF sm = "done" THEN [notifier EXCEPT !.pc = "deliver"] ELSE notifier
    /\ UNCHANGED <<use, pictures, asked, failed, evt_queue, home, queues, proc,
                   encoder, reproc>>

StateMachine == JpegEvent \/ SnapshotDone \/ Stopped

-----------------------------------------------------------------------------
(* The ZSL channel                                                         *)

(* A super buffer is taken for the request, and waits for the callback;    *)
(* a request that is cancelled meanwhile does not call it back.            *)
Give(f) ==
    /\ channel.want > 0 /\ home[f] > 0
    /\ channel' = [want |-> channel.want - 1, cb |-> Append(channel.cb, f)]
    /\ home' = [home EXCEPT ![f] = @ - 1]
    /\ UNCHANGED <<use, apiVars, evt_queue, failed, queues, proc, sync_sem, encoder,
                   reproc, notifier>>

(* zsl_channel_cb, processData, processRawData: a raw frame wakes the      *)
(* thread twice                                                            *)
ZslChannelCb ==
    LET f == Head(channel.cb) IN
    /\ channel.cb # <<>>
    /\ channel' = [channel EXCEPT !.cb = Tail(@)]
    /\ queues' = CASE Reprocesses -> [queues EXCEPT !.inputPPQ = Append(@, f)]
                   [] use.kind = "raw" -> [queues EXCEPT !.inputRawQ = Append(@, <<f>>)]
                   [] use.kind = "jpeg" -> [queues EXCEPT !.inputJpegQ = Append(@, Job(f, f))]
    /\ proc' = IF use.kind = "raw" THEN Sent(Sent(proc, "do"), "do") ELSE Sent(proc, "do")
    /\ UNCHANGED <<use, apiVars, evt_queue, failed, home, sync_sem, encoder, reproc,
                   notifier>>

Channel == ZslChannelCb \/ \E f \in Frames : Give(f)

-----------------------------------------------------------------------------
(* The data-proc thread                                                    *)

ProcTakes(cmd) == proc.pc = "idle" /\ proc.cmds # <<>> /\ Head(proc.cmds) = cmd
procOnly == <<use, apiVars, evt_queue, channel, sync_sem, reproc>>
GoesTo(pc) == proc' = [proc EXCEPT !.pc = pc]

ProcStart ==
    /\ ProcTakes("start")
    /\ proc' = [Received(proc) EXCEPT !.active = TRUE]
    /\ UNCHANGED <<procOnly, failed, home, queues, encoder, notifier>>

AtMostOne(s) == IF s = <<>> THEN s ELSE <<Head(s)>>
First(s) == IF s = <<>> THEN s ELSE Head(s)
Rest(s) == IF s = <<>> THEN s ELSE Tail(s)

(* DO_NEXT_JOB when not active: one frame of each queue goes back          *)
ProcReturn ==
    /\ ProcTakes("do") /\ ~proc.active
    /\ proc' = Received(proc)
    /\ GiveBack(AtMostOne(Sources(queues.inputJpegQ)) \o First(queues.inputRawQ)
                  \o AtMostOne(queues.inputPPQ))
    /\ queues' = [queues EXCEPT !.inputJpegQ = Rest(@), !.inputRawQ = Rest(@), !.inputPPQ = Rest(@)]
    /\ UNCHANGED <<procOnly, failed, encoder, notifier>>

(* DO_NEXT_JOB when active: the job is among the ongoing ones before it    *)
(* is encoded                                                              *)
ProcDo ==
    /\ ProcTakes("do") /\ proc.active
    /\ IF queues.inputJpegQ = <<>>
       THEN proc' = [Received(proc) EXCEPT !.pc = "raw"] /\ UNCHANGED queues
       ELSE /\ proc' = [Received(proc) EXCEPT !.pc = "encode"]
            /\ queues' = [queues EXCEPT !.inputJpegQ = Tail(@),
                                        !.ongoingJpegQ = Append(@, Head(queues.inputJpegQ))]
    /\ UNCHANGED <<procOnly, failed, home, encoder, notifier>>

\* A mistake: a failed job is taken from the wrong end of the queue.
DropHead(jobs) == Tail(jobs)

(* dequeue(false), "dequeue the last one"                                  *)
DropLast(jobs) == Front(jobs)

(* mm_jpeg_start_job: the job's number is put over the session's id, which *)
(* has the lowest bit of JOB_ID_MAGICVAL where that of 256 comes to lie.   *)
JOB_HIST_MAX == 10000
NextId == LET h == encoder.hist % JOB_HIST_MAX IN IF h % 512 < 256 THEN h + 256 ELSE h

(* encodeData: creates the session when there is none, and starts the job; *)
(* may fail before that.  A raw image of the reprocessing is not encoded,  *)
(* and its job stays as it is.                                             *)
EncodeData ==
    LET job == Last(queues.ongoingJpegQ) IN
    /\ proc.pc = "encode"
    /\ \/ /\ encoder' = [encoder EXCEPT !.session = TRUE, !.hist = @ + 1,
                                        !.todo = Append(@, [id |-> NextId, src |-> job.src])]
          /\ proc' = [proc EXCEPT !.pc = "store", !.job = <<[job EXCEPT !.id = NextId]>>]
          /\ UNCHANGED <<failed, home, queues>>
       \/ /\ queues' = [queues EXCEPT !.ongoingJpegQ = DropLast(@)]
          /\ GiveBack(<<job.src>>)
          /\ failed' = TRUE
          /\ GoesTo("raw") /\ UNCHANGED encoder
       \/ use.kind = "reproc" /\ GoesTo("raw") /\ UNCHANGED <<queues, home, failed, encoder>>
    /\ UNCHANGED <<procOnly, notifier>>

(* "jpeg_job_data->jobId = jobId", after the encoder may have begun        *)
StoreJobId ==
    /\ proc.pc = "store"
    /\ queues' = [queues EXCEPT !.ongoingJpegQ = Front(@) \o proc.job]
    /\ proc' = [proc EXCEPT !.pc = "raw", !.job = <<>>]
    /\ UNCHANGED <<procOnly, failed, home, encoder, notifier>>

(* "process raw data if any": processRawImageImpl, which may fail.  The    *)
(* frame is one of the channel's, or was reprocessed.                      *)
ProcRaw ==
    LET cb == Head(queues.inputRawQ) IN
    /\ proc.pc = "raw" /\ GoesTo("pp")
    /\ IF queues.inputRawQ = <<>> THEN UNCHANGED <<queues, home, notifier, failed>>
       ELSE /\ queues' = [queues EXCEPT !.inputRawQ = Tail(@)]
            /\ \/ notifier' = Notified(cb) /\ UNCHANGED <<home, failed>>
               \/ GiveBack(cb) /\ failed' = TRUE /\ UNCHANGED notifier
    /\ UNCHANGED <<procOnly, encoder>>

(* The next frame to reprocess: it is among the ongoing ones before        *)
(* doReprocess.  The channel may be gone.                                  *)
ProcPP ==
    LET f == Head(queues.inputPPQ) IN
    /\ proc.pc = "pp"
    /\ IF queues.inputPPQ = <<>> THEN GoesTo("idle") /\ UNCHANGED <<queues, home, failed>>
       ELSE IF reproc.on
       THEN /\ queues' = [queues EXCEPT !.inputPPQ = Tail(@), !.ongoingPPQ = Append(@, f)]
            /\ GoesTo("reprocess") /\ UNCHANGED <<home, failed>>
       ELSE /\ queues' = [queues EXCEPT !.inputPPQ = Tail(@)]
            /\ GiveBack(<<f>>) /\ failed' = TRUE /\ GoesTo("idle")
    /\ UNCHANGED <<procOnly, encoder, notifier>>

(* QCameraReprocessChannel::doReprocess, which may fail                    *)
DoReprocess ==
    LET f == Last(queues.ongoingPPQ) IN
    /\ proc.pc = "reprocess" /\ GoesTo("idle")
    /\ \/ reproc' = [reproc EXCEPT !.frames = Append(@, f)] /\ UNCHANGED <<queues, home, failed>>
       \/ /\ queues' = [queues EXCEPT !.ongoingPPQ = DropLast(@)]
          /\ GiveBack(<<f>>) /\ failed' = TRUE /\ UNCHANGED reproc
    /\ UNCHANGED <<use, apiVars, evt_queue, channel, sync_sem, encoder, notifier>>

-----------------------------------------------------------------------------
(* STOP_DATA_PROC                                                          *)

ProcStop ==
    /\ ProcTakes("stop")
    /\ proc' = [Received(proc) EXCEPT !.active = FALSE, !.pc = "abort"]
    /\ UNCHANGED <<procOnly, failed, home, queues, encoder, notifier>>

HasJob(jobs, id) == \E i \in DOMAIN jobs : jobs[i].id = id

(* mm_jpeg_queue_remove_job_by_job_id: the first one is removed, at i      *)
FirstJob(jobs, id, i) == jobs[i].id = id /\ \A j \in 1 .. i - 1 : jobs[j].id # id

(* mm_jpeg_abort_job: it waits for the encoder to have stopped             *)
AbortJob(id) ==
    \/ \E i \in DOMAIN encoder.todo :
          /\ FirstJob(encoder.todo, id, i)
          /\ encoder' = [encoder EXCEPT !.todo = RemoveAt(@, i)]
    \/ /\ ~HasJob(encoder.todo, id)
       /\ encoder' = [encoder EXCEPT !.ongoing = IF HasJob(@, id) THEN <<>> ELSE @]

(* The next ongoing job is aborted,                                        *)
AbortNext ==
    /\ proc.pc = "abort"
    /\ IF queues.ongoingJpegQ = <<>> THEN GoesTo("destroy") /\ UNCHANGED <<queues, encoder>>
       ELSE /\ queues' = [queues EXCEPT !.ongoingJpegQ = Tail(@)]
            /\ AbortJob(Head(queues.ongoingJpegQ).id)
            /\ proc' = [proc EXCEPT !.pc = "release", !.job = <<Head(queues.ongoingJpegQ)>>]
    /\ UNCHANGED <<procOnly, failed, home, notifier>>

(* and then released: releaseJpegJobData.                                  *)
ReleaseAborted ==
    /\ proc.pc = "release"
    /\ GiveBack(Sources(proc.job))
    /\ proc' = [proc EXCEPT !.pc = "abort", !.job = <<>>]
    /\ UNCHANGED <<procOnly, failed, queues, encoder, notifier>>

(* mm_jpeg_destroy_session                                                 *)
DestroySession ==
    /\ proc.pc = "destroy" /\ GoesTo("flush")
    /\ encoder' = [encoder EXCEPT !.session = FALSE, !.todo = <<>>, !.ongoing = <<>>]
    /\ UNCHANGED <<procOnly, failed, home, queues, notifier>>

(* The reprocess channel is stopped and deleted, the queues are emptied,   *)
(* and the caller of stop() is woken.  No callback of that channel runs    *)
(* once it is stopped.                                                     *)
FlushQueues ==
    /\ proc.pc = "flush" /\ GoesTo("idle")
    /\ reproc' = [on |-> FALSE, frames |-> <<>>, paired |-> TRUE]
    /\ home' = LET frames == queues.ongoingPPQ \o Sources(queues.inputJpegQ) \o queues.inputPPQ
               IN  [f \in Frames |-> home[f] + Count(frames, f) + Count(queues.inputRawQ, <<f>>)]
    /\ queues' = NoQueues
    /\ sync_sem' = sync_sem + 1
    /\ UNCHANGED <<use, apiVars, evt_queue, failed, channel, encoder, notifier>>

DataProc ==
    \/ ProcStart \/ ProcReturn \/ ProcDo \/ EncodeData \/ StoreJobId \/ ProcRaw
    \/ ProcPP \/ DoReprocess \/ ProcStop \/ AbortNext \/ ReleaseAborted \/ DestroySession
    \/ FlushQueues

-----------------------------------------------------------------------------
(* The encoder and the reprocess channel                                   *)

encoderOnly == <<use, apiVars, failed, channel, home, queues, proc, sync_sem, reproc,
                 notifier>>

(* mm_jpeg_jobmgr_thread: the session has one handle                       *)
JobMgr ==
    /\ encoder.todo # <<>> /\ encoder.ongoing = <<>>
    /\ encoder' = [encoder EXCEPT !.todo = Tail(@), !.ongoing = <<Head(encoder.todo)>>]
    /\ UNCHANGED <<encoderOnly, evt_queue>>

(* mm_jpeg_fbd, or an error from the encoder: jpegEvtHandle, and then      *)
(* mm_jpegenc_job_done                                                     *)
JobDone(ok) ==
    /\ encoder.ongoing # <<>>
    /\ evt_queue' = Append(evt_queue, [type |-> "jpeg", id |-> encoder.ongoing[1].id, ok |-> ok])
    /\ encoder' = [encoder EXCEPT !.ongoing = <<>>]
    /\ UNCHANGED encoderOnly

(* postproc_channel_cb_routine, processPPData: the oldest ongoing frame is *)
(* taken for the one that was reprocessed.  A picture in YUV needs it no   *)
(* more, and the reprocessed one is a raw one.                             *)
ProcessPPData ==
    LET src == Head(queues.ongoingPPQ) IN
    /\ reproc.frames # <<>>
    /\ reproc' = [reproc EXCEPT !.frames = Tail(@)]
    /\ IF queues.ongoingPPQ = <<>> THEN UNCHANGED <<queues, proc, home>>
       ELSE /\ proc' = Sent(proc, "do")
            /\ \/ /\ use.kind = "reproc" /\ UNCHANGED home
                  /\ queues' = [queues EXCEPT !.ongoingPPQ = Tail(@),
                                   !.inputJpegQ = Append(@, Job(src, Head(reproc.frames)))]
               \/ /\ use.kind = "yuv" /\ GiveBack(<<src>>)
                  /\ queues' = [queues EXCEPT !.ongoingPPQ = Tail(@),
                                   !.inputRawQ = Append(@, <<>>)]
    /\ UNCHANGED <<use, apiVars, evt_queue, failed, channel, sync_sem, encoder, notifier>>

Hardware == JobMgr \/ ProcessPPData \/ \E ok \in BOOLEAN : JobDone(ok)

-----------------------------------------------------------------------------
(* The notifier                                                            *)

NotifierTakes(cmd) ==
    /\ notifier.pc = "idle" /\ notifier.cmds # <<>> /\ Head(notifier.cmds) = cmd
    /\ UNCHANGED <<use, apiVars, failed, channel, queues, proc, sync_sem, encoder, reproc>>

NotifierStart ==
    /\ NotifierTakes("start")
    /\ notifier' = [Received(notifier) EXCEPT !.active = TRUE, !.expected = asked, !.rcvd = 0]
    /\ UNCHANGED <<evt_queue, home>>

(* mDataQ.flushNodes(matchSnapshotNotifications), releaseNotifyData: a     *)
(* callback comes with a frame, <<f>>, or without                          *)
FlushCallbacks == home' = [f \in Frames |-> home[f] + Count(notifier.dataQ, <<f>>)]

NotifierStop ==
    /\ NotifierTakes("stop")
    /\ FlushCallbacks
    /\ notifier' = [Received(notifier) EXCEPT !.active = FALSE, !.expected = 0, !.rcvd = 0,
                                              !.dataQ = <<>>]
    /\ UNCHANGED evt_queue

(* A snapshot callback: dropped unless active.  The last of the picture    *)
(* waits for SNAPSHOT_DONE (processSyncEvt) before it is delivered.        *)
NotifierDo ==
    LET n == [Received(notifier) EXCEPT !.dataQ = Tail(@)]
        last == notifier.rcvd + 1 = notifier.expected
    IN
    /\ NotifierTakes("do")
    /\ IF notifier.dataQ = <<>>
       THEN notifier' = Received(notifier) /\ UNCHANGED <<evt_queue, home>>
       ELSE IF ~notifier.active
       THEN notifier' = n /\ GiveBack(Head(notifier.dataQ)) /\ UNCHANGED evt_queue
       ELSE /\ notifier' = [n EXCEPT !.rcvd = @ + 1, !.cb = Head(notifier.dataQ),
                                     !.pc = IF last THEN "wait" ELSE "deliver"]
            /\ evt_queue' = IF last THEN Append(evt_queue, [type |-> "done"]) ELSE evt_queue
            /\ UNCHANGED home

(* mDataCb, and release_cb                                                 *)
Deliver ==
    /\ notifier.pc = "deliver"
    /\ GiveBack(notifier.cb)
    /\ notifier' = [notifier EXCEPT !.pc = "idle", !.cb = <<>>]
    /\ UNCHANGED <<use, apiVars, evt_queue, failed, channel, queues, proc, sync_sem,
                   encoder, reproc>>

Notifier == NotifierStart \/ NotifierStop \/ NotifierDo \/ Deliver

-----------------------------------------------------------------------------
Application == CancelPicture \/ \E n \in 1..use.images : TakePicture(n)

Next == Application \/ StateMachine \/ Channel \/ DataProc \/ Hardware \/ Notifier

Spec == Init /\ [][Next]_vars

(* Each thread goes on, and so do the encoder and the hardware; nobody has *)
(* to take a picture or to cancel one.                                     *)
Fairness ==
    /\ WF_vars(StateMachine) /\ WF_vars(ZslChannelCb) /\ WF_vars(\E f \in Frames : Give(f))
    /\ WF_vars(DataProc) /\ WF_vars(JobMgr) /\ WF_vars(\E ok \in BOOLEAN : JobDone(ok))
    /\ WF_vars(ProcessPPData) /\ WF_vars(Notifier)

FairSpec == Spec /\ Fairness

-----------------------------------------------------------------------------
(* Properties                                                              *)

InHand == IF proc.pc = "release" THEN Sources(proc.job) ELSE <<>>

InQueues(f) ==
    Count(queues.inputPPQ, f) + Count(queues.ongoingPPQ, f) + Count(queues.inputRawQ, <<f>>)
      + Count(Sources(queues.inputJpegQ), f) + Count(Sources(queues.ongoingJpegQ), f)

InNotifier(f) == Count(notifier.dataQ, <<f>>) + Count(notifier.cb, f)

(* A frame is at one place, whatever fails and whenever a picture is       *)
(* cancelled: it is returned to the channel once, by whoever has it.       *)
HeldOnce ==
    \A f \in Frames :
      home[f] + Count(channel.cb, f) + InQueues(f) + Count(InHand, f) + InNotifier(f) = 1

(* The encoder has a frame only while its job holds it, so that no frame   *)
(* goes back to the camera while it is read, and an image is encoded with  *)
(* the frame it was made from, but for those that were on their way when   *)
(* the reprocess channel was replaced.                                     *)
EncoderReadsHeld ==
    /\ \A job \in Range(encoder.todo) \cup Range(encoder.ongoing) :
          job.src \in Range(Sources(queues.ongoingJpegQ))
    /\ \A job \in Range(queues.inputJpegQ) \cup Range(queues.ongoingJpegQ) :
          reproc.paired => job.made = job.src

\* Every frame is with a job whose end nobody noticed (JobsReleased).
NoFrameLeft ==
    /\ encoder.todo = <<>> /\ encoder.ongoing = <<>>
    /\ Frames \subseteq Range(Sources(queues.ongoingJpegQ))

\* A job was left by its raw image.
RawLeft == proc.pc \notin {"encode", "store"} /\ \E job \in Range(queues.ongoingJpegQ) : job.id = 0

(* The stop of a picture ends, and so does the wait for it, whatever the   *)
(* threads were doing; and the picture of an application that waits for    *)
(* the one before is delivered, or the application is told of an error, or *)
(* an image was a raw one.                                                 *)
PictureEnds ==
    /\ sm # "idle" ~> sm = "idle"
    /\ notifier.pc = "wait" ~> notifier.pc # "wait"
    /\ use.patient /\ m_state = "pic_taking" ~>
         m_state = "previewing" \/ failed \/ NoFrameLeft \/ RawLeft

(* The types, and what is true of the threads wherever they are.           *)
Jobs == [id : Nat, src : Frames, made : Frames]
EncoderJobs == [id : Nat \ {0}, src : Frames]
Events == [type : {"jpeg"}, id : Nat, ok : BOOLEAN] \cup [type : {"done"}]
Commands == {"start", "do", "stop"}
Callbacks == {<<>>} \cup {<<f>> : f \in Frames}
Stopping == {"abort", "release", "destroy", "flush"}

Queues == [inputPPQ : Seq(Frames), ongoingPPQ : Seq(Frames), inputJpegQ : Seq(Jobs),
           ongoingJpegQ : Seq(Jobs), inputRawQ : Seq(Callbacks)]
Procs == [pc : {"idle", "encode", "store", "raw", "pp", "reprocess"} \cup Stopping,
          cmds : Seq(Commands), active : BOOLEAN, job : Seq(Jobs)]
Encoders == [session : BOOLEAN, hist : Nat, todo : Seq(EncoderJobs), ongoing : Seq(EncoderJobs)]
Notifiers == [pc : {"idle", "deliver", "wait"}, cmds : Seq(Commands), dataQ : Seq(Callbacks),
              active : BOOLEAN, expected : Nat, rcvd : Nat, cb : Callbacks]

TypeOK ==
    /\ use \in Uses
    /\ m_state \in {"previewing", "pic_taking"} /\ sm \in {"idle", "refused", "cancel", "done"}
    /\ evt_queue \in Seq(Events)
    /\ pictures \in Nat /\ asked \in Nat /\ failed \in BOOLEAN
    /\ channel \in [want : Nat, cb : Seq(Frames)] /\ home \in [Frames -> Nat]
    /\ queues \in Queues /\ proc \in Procs /\ encoder \in Encoders /\ notifier \in Notifiers
    /\ reproc \in [on : BOOLEAN, frames : Seq(Frames), paired : BOOLEAN]
    /\ sync_sem \in Nat

(* The encoder works on one job, the notifier on one callback.             *)
OneAtATime ==
    /\ Len(encoder.ongoing) <= 1
    /\ notifier.pc = "idle" => notifier.cb = <<>>

(* A stop is on its way to the thread, under way or over, until the state  *)
(* machine goes on; and there is no reprocess channel when it is over.     *)
OneStop ==
    /\ Count(proc.cmds, "stop") + (IF proc.pc \in Stopping THEN 1 ELSE 0) + sync_sem
         = IF sm = "idle" THEN 0 ELSE 1
    /\ reproc.on => sync_sem = 0

(* The reprocess channel works on the frames that are ongoing, except for  *)
(* the one the thread is about to hand over, and for those that were on    *)
(* their way when it was replaced.                                         *)
Reprocessed ==
    /\ reproc.paired =>
         IF proc.pc = "reprocess"
         THEN \E f \in Frames : queues.ongoingPPQ = Append(reproc.frames, f)
         ELSE queues.ongoingPPQ = reproc.frames
    /\ Len(reproc.frames) + (IF proc.pc = "reprocess" THEN 1 ELSE 0) <= Len(queues.ongoingPPQ)
    /\ ~reproc.on => proc.pc # "reprocess" /\ reproc.frames = <<>>

(* The job in the thread's hands is the last of the ongoing ones, which    *)
(* has no number yet.                                                      *)
JobInHand ==
    LET jobs == queues.ongoingJpegQ IN
    /\ proc.pc \in {"encode", "store"} => jobs # <<>> /\ jobs[Len(jobs)].id = 0
    /\ proc.pc = "store" =>
         proc.job[1].id # 0 /\ proc.job = <<[jobs[Len(jobs)] EXCEPT !.id = proc.job[1].id]>>
    /\ proc.pc \in {"destroy", "flush"} => jobs = <<>>
    /\ \A i \in DOMAIN evt_queue : evt_queue[i].type = "jpeg" => evt_queue[i].id # 0

(* The number of an ongoing job, also when it is not stored yet            *)
Number(i) ==
    LET jobs == queues.ongoingJpegQ IN
    IF proc.pc = "store" /\ i = Len(jobs) THEN proc.job[1].id ELSE jobs[i].id

(* A number is that of one job and is not used again: the encoder's jobs   *)
(* are ongoing ones, and their ends are still to be told.                  *)
Numbered ==
    LET todo == encoder.todo
        ongoing == encoder.ongoing
    IN
    /\ \A job \in Range(todo) \cup Range(ongoing) :
          /\ job.id \in 256 .. 255 + encoder.hist
          /\ \E i \in DOMAIN queues.ongoingJpegQ :
               Number(i) = job.id /\ queues.ongoingJpegQ[i].src = job.src
          /\ \A i \in DOMAIN evt_queue : evt_queue[i].type = "jpeg" => evt_queue[i].id # job.id
    /\ \A i, j \in DOMAIN todo : todo[i].id = todo[j].id => i = j
    /\ \A i \in DOMAIN todo : \A job \in Range(ongoing) : todo[i].id # job.id
    /\ \A i \in DOMAIN evt_queue : evt_queue[i].type = "jpeg" => evt_queue[i].id <= 255 + encoder.hist

(* The image of a job is made from its frame, and a job that waits has no  *)
(* number.                                                                 *)
MadeOK ==
    /\ \A job \in Range(queues.inputJpegQ) : (reproc.paired => job.made = job.src) /\ job.id = 0
    /\ \A job \in Range(queues.ongoingJpegQ) : reproc.paired => job.made = job.src

(* As long as no number was used twice: that of job 256 is that of job 0.  *)
NumbersLast == encoder.hist <= 256

IInv ==
    /\ TypeOK /\ OneAtATime /\ OneStop /\ Reprocessed /\ JobInHand /\ MadeOK /\ HeldOnce
    /\ NumbersLast => Numbered

(* "Release jpeg job data" (QCameraPostProc.cpp:750): no job is left when  *)
(* the encoder and all threads are done.                                   *)
JobsReleased == Settled => queues.ongoingJpegQ = <<>>

(* "notify HWI that snapshot is done" (QCamera2HWICallbacks.cpp:1748): of  *)
(* the picture being taken, whether its application waited or not.         *)
AnyPictureEnds ==
    m_state = "pic_taking" ~> m_state = "previewing" \/ failed \/ NoFrameLeft

(* "original source frame for reproc" (QCameraPostProc.h:49): whatever was *)
(* on its way when the channel was replaced.                               *)
OriginalSource ==
    \A job \in Range(queues.inputJpegQ) \cup Range(queues.ongoingJpegQ) : job.made = job.src

(* "stop data proc" (QCameraPostProc.cpp:2023): the thread is not active   *)
(* once the stop has ended.                                                *)
StoppedIsInactive == Settled /\ m_state = "previewing" => ~proc.active
=============================================================================
