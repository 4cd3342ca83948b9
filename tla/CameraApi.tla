------------------------------ MODULE CameraApi ------------------------------
(***************************************************************************)
(* The threads of one open camera.                                         *)
(*                                                                         *)
(*    app       the framework's thread: lockAPI, processAPI, waitAPIResult *)
(*    sm        smEvtProcRoutine: API requests first, then events          *)
(*    deferred  defferedWorkRoutine, with the one job that starts the post *)
(*              processor for a still picture                              *)
(*    live      Live_Snapshot_thread                                       *)
(*    frame     the callback thread of the capturing channel               *)
(*    data      dataProcessRoutine: images go to the encoder               *)
(*    notify    cbNotifyRoutine: images go to the application              *)
(*                                                                         *)
(* Whoever waits for the deferred job sleeps on one condition, and the end *)
(* of the job signals it once.                                             *)
(***************************************************************************)
EXTENDS CameraStates

CONSTANTS
    Used,           \* the API events the application makes use of
    Careful,        \* it changes no parameters of a still picture being taken, and
                    \* asks a recording for nothing that needs a restart
    QueueBound      \* no new call while this many commands or events wait

ASSUME ApiAssumption == Used \subseteq ApiEvents /\ Careful \in BOOLEAN /\ QueueBound \in Nat \ {0}

VARIABLES
    hw,             \* the camera, the queues of its threads included
    apiQ,           \* api_queue of the state machine
    cur,            \* the request or event the state machine works on
    app,            \* the caller: where it is, what it asked for, what is next
    answered,       \* history: the request of the waiting caller was answered
    slot,           \* m_apiResult
    notify,         \* the notify thread
    asleep          \* the threads asleep in waitDefferedWork

vars == <<hw, apiQ, cur, app, answered, slot, notify, asleep>>

Plain(e) == Evt(e, FALSE, FALSE)
NoReq == Plain("none")
Recording == {"RECORDING", "VIDEO_PIC_TAKING"}

(* What an application may ask for, and in which order take_picture asks.  *)
Flagged == {"SET_PREVIEW_WINDOW", "SEND_COMMAND"}
Calls ==
    {<<Plain(e)>> : e \in Used \ (Flagged \cup
         {"SET_PARAMS", "PREPARE_SNAPSHOT", "STOP_CAPTURE_CHANNEL"})}
      \cup {<<[Plain(e) EXCEPT !.on = on]>> : e \in Used \cap Flagged, on \in BOOLEAN}
      \cup {<<Evt(e, zsl, hint)>> : e \in Used \cap {"SET_PARAMS"}, zsl, hint \in BOOLEAN}
      \cup {<<Plain(e), Plain("TAKE_PICTURE")>> : e \in Used \cap {"PREPARE_SNAPSHOT"}}

Reqs == {NoReq} \cup {Plain(e) :
                          e \in Events \cup {"STOP_CAPTURE_CHANNEL", "CANCEL_PICTURE"}}
          \cup UNION {{c[i] : i \in DOMAIN c} : c \in Calls}

Idle == [pc |-> "idle", req |-> NoReq, next |-> <<>>]
Nodes == [req : Reqs, by : {"app", "hal"}]

TypeOK ==
    /\ hw \in HwType
    /\ apiQ \in Seq(Nodes)
    /\ cur \in Nodes
    /\ app \in [pc : {"idle", "wait", "woken"}, req : Reqs, next : Seq(Reqs)]
    /\ answered \in BOOLEAN
    /\ slot \in ApiEvents
    /\ notify \in [pc : {"run", "done"}, active : BOOLEAN, long : BOOLEAN,
                   expected : 0 .. Burst, rcvd : Nat]
    /\ asleep \subseteq {"sm", "frame"}

Init ==
    /\ hw = Opened
    /\ apiQ = <<>>
    /\ cur = [req |-> NoReq, by |-> "hal"]
    /\ app = Idle
    /\ answered = FALSE
    /\ slot = "QUERY"
    /\ notify = [pc |-> "run", active |-> FALSE, long |-> FALSE, expected |-> 0, rcvd |-> 0]
    /\ asleep = {}

-----------------------------------------------------------------------------
(* app.  m_lock is held from processAPI until the wait.                    *)
Ask(c) ==
    /\ apiQ' = Append(apiQ, [req |-> Head(c), by |-> "app"])
    /\ app' = [pc |-> "wait", req |-> Head(c), next |-> Tail(c)]
    /\ answered' = FALSE

WithCare(e) ==
    Careful /\ e.evt = "SET_PARAMS" =>
        /\ hw.state # "PIC_TAKING"
        /\ hw.state \in Recording => ~NeedRestart(hw, e.on, e.hint)

Call ==
    /\ app.pc = "idle"
    /\ \A q \in {hw.notifyQ, hw.dataQ, hw.evtQ} : Len(q) < QueueBound
    /\ \E c \in Calls : WithCare(Head(c)) /\ Ask(c)
    /\ UNCHANGED <<hw, cur, slot, notify, asleep>>

(* A mistake: the caller takes whatever result there is.                   *)
waitAnyResult ==
    /\ app.pc = "woken"
    /\ \/ /\ app.next # <<>>
          /\ Ask(app.next)
       \/ /\ app.next = <<>>
          /\ app' = Idle /\ answered' = FALSE
          /\ UNCHANGED apiQ
    /\ slot' = "QUERY"
    /\ UNCHANGED <<hw, cur, notify, asleep>>

(* waitAPIResult: whatever broadcast woke the caller, it compares the one  *)
(* result there is with what it asked for.                                 *)
waitAPIResult ==
    /\ app.pc = "woken"
    /\ \/ /\ slot # app.req.evt
          /\ app' = [app EXCEPT !.pc = "wait"]
          /\ UNCHANGED <<apiQ, answered, slot>>
       \/ /\ slot = app.req.evt /\ app.next # <<>>
          /\ Ask(app.next)
          /\ slot' = "QUERY"
       \/ /\ slot = app.req.evt /\ app.next = <<>>
          /\ app' = Idle /\ answered' = FALSE /\ slot' = "QUERY"
          /\ UNCHANGED apiQ
    /\ UNCHANGED <<hw, cur, notify, asleep>>

-----------------------------------------------------------------------------
(* sm.  The node it works on, or would take from its queues next.          *)
Work == cur.req # NoReq \/ apiQ # <<>> \/ hw.evtQ # <<>>

Node == IF cur.req # NoReq THEN cur
        ELSE IF apiQ # <<>> THEN Head(apiQ)
        ELSE [req |-> Plain(Head(hw.evtQ)), by |-> "hal"]

Taken == [hw EXCEPT !.evtQ = IF cur.req = NoReq /\ apiQ = <<>> THEN Tail(@) ELSE @]
apiQTaken == IF cur.req = NoReq /\ apiQ # <<>> THEN Tail(apiQ) ELSE apiQ

(* A handler waits for the deferred job, for the live-snapshot thread, and,*)
(* when it stops a streaming capture channel, for its callback thread.     *)
CanFinish(o) ==
    /\ "sm" \notin asleep
    /\ ~(CancelsPicture(hw, Node.req) /\ hw.job)
    /\ ~(JoinsLive(hw, Node.req) /\ hw.live = "running")
    /\ ~(hw.ch["CAPTURE"] = "on" /\ o.hw.ch["CAPTURE"] # "on" /\ "frame" \in asleep)

(* The handler begins and has to wait.                                     *)
Block ==
    /\ Work /\ cur.req = NoReq
    /\ \A o \in Outcomes(Taken, Node.req) : ~CanFinish(o)
    /\ cur' = Node /\ hw' = Taken /\ apiQ' = apiQTaken
    /\ asleep' = IF CancelsPicture(hw, Node.req) /\ hw.job THEN asleep \cup {"sm"} ELSE asleep
    /\ UNCHANGED <<app, answered, slot, notify>>

(* signalAPIResult: one result for everybody, everybody is woken.  Nobody  *)
(* looks at the result before he is woken, so it is kept for a caller only.*)
signalAPIResult(n) ==
    LET prepared == n.req.evt = "PREP_SNAPSHOT_DONE"
    IN  IF app.pc = "idle" THEN UNCHANGED <<slot, app, answered>>
        ELSE /\ slot' = IF prepared THEN "PREPARE_SNAPSHOT" ELSE n.req.evt
             /\ app' = [app EXCEPT !.pc = "woken"]
             /\ answered' = (answered \/ (n.by = "app" /\ n.req = app.req)
                                 \/ (prepared /\ app.req.evt = "PREPARE_SNAPSHOT"))

(* signalEvtResult: the notify thread waits for the end of the picture.    *)
signalEvtResult == notify' = [notify EXCEPT !.pc = "run"]

Handle ==
    /\ Work
    /\ \E o \in Outcomes(Taken, Node.req) :
          /\ CanFinish(o)
          /\ hw' = o.hw
          /\ IF o.to = "api" THEN signalAPIResult(Node)
                             ELSE UNCHANGED <<slot, app, answered>>
          /\ IF o.to = "evt" THEN signalEvtResult ELSE UNCHANGED notify
    /\ cur' = [req |-> NoReq, by |-> "hal"]
    /\ apiQ' = apiQTaken
    /\ UNCHANGED asleep

-----------------------------------------------------------------------------
(* deferred: CMD_DEFF_PPROC_START.  A post processor that does not start   *)
(* takes the capture channel down, and with it its callback thread.        *)
JobDone ==
    /\ hw.job
    /\ \E r \in PostStart(hw) :
          LET h == IF r.ok THEN r.hw ELSE delChannel(r.hw, "CAPTURE")
          IN  /\ ~(hw.ch["CAPTURE"] = "on" /\ h.ch["CAPTURE"] # "on" /\ "frame" \in asleep)
              /\ hw' = [h EXCEPT !.job = FALSE]
    /\ IF asleep = {} THEN UNCHANGED asleep
                      ELSE \E t \in asleep : asleep' = asleep \ {t}
    /\ UNCHANGED <<apiQ, cur, app, answered, slot, notify>>

(* live: takeLiveSnapshot_internal.  What fails is cancelled with a        *)
(* request like the application's.                                         *)
LiveSnapshot ==
    /\ hw.live = "running"
    /\ \E r \in AndThen(PostStart(hw), LAMBDA p : startChannel(p, "SNAPSHOT")) :
          /\ hw' = [r.hw EXCEPT !.live = "ended"]
          /\ apiQ' = IF r.ok THEN apiQ
                     ELSE Append(apiQ, [req |-> Plain("CANCEL_PICTURE"), by |-> "hal"])
    /\ UNCHANGED <<cur, app, answered, slot, notify, asleep>>

(* frame: a frame of a picture.  The capture channel's callback waits for  *)
(* the post processor to be started.                                       *)
Frame ==
    /\ \E c \in {"ZSL", "SNAPSHOT", "CAPTURE"} :
          /\ hw.ch[c] = "on" /\ hw.due[c] > 0
          /\ "frame" \notin asleep
          /\ IF c = "CAPTURE" /\ hw.job
             THEN asleep' = asleep \cup {"frame"} /\ UNCHANGED hw
             ELSE /\ hw' = [hw EXCEPT !.due[c] = @ - 1, !.dataQ = Append(@, "JOB")]
                  /\ UNCHANGED asleep
    /\ UNCHANGED <<apiQ, cur, app, answered, slot, notify>>

(* data: STOP is part of PostStop.  The last frame of a still picture is   *)
(* the sign that its channel can stop.                                     *)
DataProc ==
    /\ hw.dataQ # <<>>
    /\ LET h == [hw EXCEPT !.dataQ = Tail(@)]
           single == Burst = 1 /\ ~hw.long /\ ~hw.hint /\ ~hw.zsl
       IN  \/ /\ Head(hw.dataQ) = "START"
              /\ hw' = [h EXCEPT !.dataOn = TRUE]
              /\ UNCHANGED apiQ
           \/ /\ Head(hw.dataQ) = "JOB" /\ ~hw.dataOn
              /\ hw' = h
              /\ UNCHANGED apiQ
           \/ /\ Head(hw.dataQ) = "JOB" /\ hw.dataOn
              /\ hw' \in {h, [h EXCEPT !.encoding = @ + 1]}
              /\ apiQ' = IF single
                         THEN Append(apiQ, [req |-> Plain("STOP_CAPTURE_CHANNEL"), by |-> "hal"])
                         ELSE apiQ
    /\ UNCHANGED <<cur, app, answered, slot, notify, asleep>>

-----------------------------------------------------------------------------
(* notify.  The last image of a picture is reported to the state machine   *)
(* before it is given to the application.                                  *)
Notify ==
    /\ notify.pc = "run" /\ hw.notifyQ # <<>>
    /\ LET n == Head(hw.notifyQ)
           last == ~notify.long /\ notify.expected > 0 /\ notify.rcvd + 1 = notify.expected
           h == [hw EXCEPT !.notifyQ = Tail(@)]
       IN  \/ /\ n = "START"
              /\ notify' = [notify EXCEPT !.active = TRUE, !.expected = Burst,
                                          !.long = hw.long, !.rcvd = 0]
              /\ hw' = h
           \/ /\ n = "STOP"
              /\ notify' = [notify EXCEPT !.active = FALSE, !.expected = 0, !.rcvd = 0]
              /\ hw' = [h EXCEPT !.notifyQ = SelectSeq(@, LAMBDA c : c # "JOB")]
           \/ /\ n = "JOB" /\ ~notify.active
              /\ hw' = h
              /\ UNCHANGED notify
           \/ /\ n = "JOB" /\ notify.active
              /\ notify' = [notify EXCEPT !.rcvd = IF notify.long THEN @ ELSE @ + 1,
                                          !.pc = IF last THEN "done" ELSE "run"]
              /\ hw' = IF last THEN [h EXCEPT !.evtQ = Append(@, "SNAPSHOT_DONE")] ELSE h
    /\ UNCHANGED <<apiQ, cur, app, answered, slot, asleep>>

-----------------------------------------------------------------------------
(* The encoder and the daemon answer.                                      *)
JpegDone ==
    /\ hw.encoding > 0
    /\ hw' = [hw EXCEPT !.encoding = @ - 1, !.evtQ = Append(@, "JPEG_EVT_NOTIFY")]
    /\ UNCHANGED <<apiQ, cur, app, answered, slot, notify, asleep>>

PrepSnapshotDone ==
    /\ hw.preparing
    /\ hw' = [hw EXCEPT !.preparing = FALSE, !.evtQ = Append(@, "PREP_SNAPSHOT_DONE")]
    /\ UNCHANGED <<apiQ, cur, app, answered, slot, notify, asleep>>

-----------------------------------------------------------------------------
Sm == Block \/ Handle
Hal == JobDone \/ LiveSnapshot \/ DataProc \/ Notify
Daemon == Frame \/ JpegDone \/ PrepSnapshotDone

Next == Call \/ waitAPIResult \/ Sm \/ Hal \/ Daemon

Spec == Init /\ [][Next]_vars

(* Every thread runs on, and the encoder and the daemon answer what they   *)
(* were given; the application need not call.                              *)
Fairness ==
    /\ WF_vars(waitAPIResult) /\ WF_vars(Sm) /\ WF_vars(JobDone) /\ WF_vars(LiveSnapshot)
    /\ WF_vars(DataProc) /\ WF_vars(Notify)
    /\ WF_vars(JpegDone) /\ WF_vars(PrepSnapshotDone)

FairSpec == Spec /\ Fairness

-----------------------------------------------------------------------------
(* The video channel streams exactly while the machine says a recording is *)
(* on, whatever start, stop, live snapshot or refusal of a driver came     *)
(* before (startRecording, stopRecording, cancelLiveSnapshot).             *)
VideoIffRecording == hw.ch["VIDEO"] = "on" <=> hw.state \in Recording

(* There is one source of preview frames: a change of the ZSL mode leaves  *)
(* no preview channel of the other mode behind (addZSLChannel,             *)
(* unpreparePreview).                                                      *)
OnePreview == hw.ch["ZSL"] = "none" \/ hw.ch["PREVIEW"] = "none"

(* PREVIEW_STOPPED, "preview is stopped" (QCameraStateMachine.h): nothing  *)
(* that feeds a preview or a recording streams, by whichever of the        *)
(* handlers and their error paths the state was reached.                   *)
StoppedMeansStopped ==
    hw.state = "PREVIEW_STOPPED" =>
        \A c \in {"ZSL", "PREVIEW", "VIDEO"} : hw.ch[c] # "on"

(* The notify thread waits in processSyncEvt without a timeout: whenever   *)
(* it does, the event it sent is still to be handled.                      *)
DoneIsComing ==
    notify.pc = "done" =>
        cur.req.evt = "SNAPSHOT_DONE" \/ Contains(hw.evtQ, "SNAPSHOT_DONE")

(* waitAPIResult returns the answer to the caller's own request, though    *)
(* there is one m_apiResult and the HAL's internal requests are answered   *)
(* through it too.  (CANCEL_PICTURE, which the live-snapshot thread also   *)
(* sends, cannot be told apart.)                                           *)
OwnAnswer ==
    app.pc = "woken" /\ slot = app.req.evt /\ app.req.evt # "CANCEL_PICTURE" => answered

(* The machine leaves PREPARE_SNAPSHOT: the answer of the daemon is        *)
(* handled however many calls are refused before.                          *)
PrepareEnds == hw.state = "PREPARE_SNAPSHOT" ~> hw.state # "PREPARE_SNAPSHOT"

-----------------------------------------------------------------------------
(* The inductive invariant.  Where nothing is refused, the preview is not  *)
(* restarted behind the application's back, and the application is         *)
(* careful, the channel of the preview is the one of the committed modes.  *)
Steady == Careful /\ ~ParamsFail /\ ~Restart

Record(h) == h = [f \in DOMAIN Opened |-> h[f]]

HwOK(h) ==
    /\ Record(h)
    /\ h.state \in States
    /\ h.zsl \in BOOLEAN /\ h.zslNew \in BOOLEAN
    /\ h.hint \in BOOLEAN /\ h.hintNew \in BOOLEAN
    /\ h.hintKey \in BOOLEAN /\ h.tmpHint \in BOOLEAN /\ h.long \in BOOLEAN
    /\ h.ch \in [Channels -> {"none", "idle", "on"}]
    /\ h.evtQ \in Seq(Events)

VideoOK(h) == h.ch["VIDEO"] = "on" <=> h.state \in Recording

(* The modes committed are the ones stored, a preview channel that exists  *)
(* is the one of these modes, and there is none while none can be needed.  *)
NoPreview(h) == h.ch["ZSL"] = "none" /\ h.ch["PREVIEW"] = "none"
ChannelFits(h) ==
    \A c \in {"ZSL", "PREVIEW"} : h.ch[c] # "none" => c = PreviewChannel(h)
ModesOK(h) ==
    /\ h.zslNew = h.zsl /\ h.hintNew = h.hint
    /\ ChannelFits(h)
    /\ h.state \in {"PREVIEW_STOPPED", "PIC_TAKING"} => NoPreview(h)

(* A change of the modes that still waits needs no restart it cannot have. *)
ParamsOK(h, e) ==
    e.evt = "SET_PARAMS" =>
        /\ h.state # "PIC_TAKING"
        /\ h.state \in Recording => ~NeedRestart(h, e.on, e.hint)

CameraOK(h) == HwOK(h) /\ VideoOK(h) /\ (Steady => ModesOK(h))

(* Requests of the caller, and which of them may be pending after another  *)
(* answer was taken for theirs.                                            *)
AnyReq == [evt : ApiEvents \cup Events \cup {"none"}, on : BOOLEAN, hint : BOOLEAN]
AnyNode == [req : AnyReq, by : {"app", "hal"}]

Harmless == {"CANCEL_PICTURE", "PREPARE_SNAPSHOT"}
HalEvents == Events \cup {"STOP_CAPTURE_CHANNEL", "CANCEL_PICTURE"}
AppReq(e) ==
    /\ e.evt \in ApiEvents \ {"STOP_CAPTURE_CHANNEL"}
    /\ e.evt = "PREPARE_SNAPSHOT" => e = Plain("PREPARE_SNAPSHOT")
NodeOK(h, n) ==
    /\ n.by = "app" => AppReq(n.req)
    /\ n.by = "hal" => n.req.evt \in HalEvents
    /\ Steady => ParamsOK(h, n.req)

(* At most one other request is pending, the one the caller waits for.     *)
Real(n) == n.by = "app" /\ n.req.evt \notin Harmless
Awaited(n) == n.req = app.req /\ app.pc # "idle" /\ ~answered

QueueOK ==
    /\ apiQ \in Seq(AnyNode)
    /\ \A i \in 1 .. Len(apiQ) :
         /\ NodeOK(hw, apiQ[i])
         /\ Real(apiQ[i]) =>
              /\ Awaited(apiQ[i]) /\ ~Real(cur)
              /\ \A j \in 1 .. Len(apiQ) : Real(apiQ[j]) => i = j

CurOK ==
    /\ cur \in AnyNode
    /\ cur.req # NoReq => NodeOK(hw, cur)
    /\ Real(cur) => Awaited(cur)

AppOK ==
    /\ app \in [pc : {"idle", "wait", "woken"}, req : AnyReq,
                 next : {<<>>, <<Plain("TAKE_PICTURE")>>}]
    /\ app.pc # "idle" => AppReq(app.req)

NotifyOK ==
    /\ notify \in [pc : {"run", "done"}, active : BOOLEAN, long : BOOLEAN,
                    expected : 0 .. Burst, rcvd : Nat]
    /\ DoneIsComing

IInv == CameraOK(hw) /\ QueueOK /\ CurOK /\ AppOK /\ NotifyOK /\ OwnAnswer

-----------------------------------------------------------------------------
(* What the code says and does not do.                                     *)

(* QCameraStateMachine.cpp:1850: "cannot set parameters that requires      *)
(* restart during recording": ZSL mode and recording hint are fixed then.  *)
ModesFixedWhileRecording ==
    [][hw.state \in Recording /\ hw'.state \in Recording
         => hw'.zsl = hw.zsl /\ hw'.hint = hw.hint]_vars

(* A caller whose request was answered returns (waitAPIResult).            *)
AnswerSeen == answered ~> app.pc = "idle"

(* waitDefferedWork "waits for a deffered task to finish": the task has    *)
(* one end, and it ends the wait of everybody.                             *)
DeferredWaitEnds == asleep # {} ~> asleep = {}
=============================================================================
