------------------------------ MODULE CameraHw ------------------------------
(***************************************************************************)
(* QCamera2HardwareInterface: what the handlers of the camera's state      *)
(* machine call.  The object is a record hw; an operation takes the record *)
(* and gives the set of its possible results, each a record                *)
(*                                                                         *)
(*    hw   the object afterwards                                           *)
(*    ok   whether the operation returned NO_ERROR                         *)
(*                                                                         *)
(* so that everything the drivers below may refuse is a choice.            *)
(*                                                                         *)
(* Pictures are JPEG.  Frames, streams and buffers are left out: a channel *)
(* is absent, built or streaming, and due counts the frames it still has   *)
(* to deliver for the picture that was asked for.                          *)
(***************************************************************************)
EXTENDS Naturals, SequencesExt

CONSTANTS
    Burst,          \* getNumOfSnapshots: images in one picture
    Restart,        \* persist.camera.feature.restart
    Advanced,       \* an advanced capture (UbiFocus, chroma flash) is set
    ParamsFail      \* a value, or the whole batch, of parameters may be refused

ASSUME CameraAssumption ==
    Burst \in Nat \ {0} /\ {Restart, Advanced, ParamsFail} \subseteq BOOLEAN

Channels == {"ZSL", "PREVIEW", "VIDEO", "SNAPSHOT", "CAPTURE"}

States == {"PREVIEW_STOPPED", "PREVIEW_READY", "PREVIEWING", "PREPARE_SNAPSHOT",
           "PIC_TAKING", "RECORDING", "VIDEO_PIC_TAKING", "PREVIEW_PIC_TAKING"}

(* Commands of the data and of the notify threads, events of the state     *)
(* machine.                                                                *)
Commands == {"START", "STOP", "JOB"}
Events == {"PREP_SNAPSHOT_DONE", "JPEG_EVT_NOTIFY", "SNAPSHOT_DONE"}

HwType == [
    state : States,                     \* m_state
    window : BOOLEAN,                   \* mPreviewWindow # NULL
    long : BOOLEAN,                     \* mLongshotEnabled
    zsl : BOOLEAN, zslNew : BOOLEAN,    \* m_bZslMode, m_bZslMode_new
    hint : BOOLEAN, hintNew : BOOLEAN,  \* m_bRecordingHint, m_bRecordingHint_new
    hintKey : BOOLEAN,                  \* KEY_RECORDING_HINT in the parameter map
    tmpHint : BOOLEAN,                  \* m_tempMap holds a new value of it
    ch : [Channels -> {"none", "idle", "on"}],      \* m_channels
    due : [Channels -> 0 .. Burst],
    preparing : BOOLEAN,                \* the daemon prepares a snapshot
    live : {"none", "running", "ended"},            \* mLiveSnapshotThread
    job : BOOLEAN,                      \* mReprocJob is ongoing
    dataQ : Seq(Commands), dataOn : BOOLEAN,        \* m_dataProcTh, its is_active
    encoding : Nat,                     \* m_ongoingJpegQ
    notifyQ : Seq(Commands),            \* commands of the QCameraCbNotifier
    evtQ : Seq(Events)]                 \* evt_queue of the state machine

(* The object of a camera just opened.                                     *)
Opened ==
    [state |-> "PREVIEW_STOPPED", window |-> FALSE, long |-> FALSE,
     zsl |-> FALSE, zslNew |-> FALSE, hint |-> FALSE, hintNew |-> FALSE,
     hintKey |-> FALSE, tmpHint |-> FALSE,
     ch |-> [c \in Channels |-> "none"], due |-> [c \in Channels |-> 0],
     preparing |-> FALSE, live |-> "none", job |-> FALSE,
     dataQ |-> <<>>, dataOn |-> FALSE, encoding |-> 0,
     notifyQ |-> <<>>, evtQ |-> <<>>]

-----------------------------------------------------------------------------
(* Results of operations, and one operation after another.                 *)
Works(h) == {[hw |-> h, ok |-> TRUE]}
Fails(h) == {[hw |-> h, ok |-> FALSE]}
Either(failed, worked) == Fails(failed) \cup Works(worked)

AndThen(R, F(_)) == UNION {IF r.ok THEN F(r.hw) ELSE {r} : r \in R}
OnFail(R, G(_)) == {IF r.ok THEN r ELSE [r EXCEPT !.hw = G(@)] : r \in R}
Whatever(R, F(_)) == UNION {F(r.hw) : r \in R}

-----------------------------------------------------------------------------
(* Channels.                                                               *)
delChannel(h, c) == [h EXCEPT !.ch[c] = "none", !.due[c] = 0]

stopChannel(h, c) ==
    [h EXCEPT !.ch[c] = IF @ = "on" THEN "idle" ELSE @, !.due[c] = 0]

(* A channel streams until it is stopped; what it owes once it runs are    *)
(* the frames of a capture that needs no request.                          *)
startChannel(h, c) ==
    LET owed == IF c = "SNAPSHOT" \/ (c = "CAPTURE" /\ ~h.long) THEN Burst ELSE 0
    IN  IF h.ch[c] = "none" THEN Fails(h)
        ELSE Either(h, [h EXCEPT !.ch[c] = "on", !.due[c] = owed])

(* The preview channel may be there already; every other is built anew,    *)
(* and the ZSL channel takes the place of the preview channel.             *)
addChannel(h, c) ==
    LET cleared == IF c = "ZSL" THEN delChannel(delChannel(h, "ZSL"), "PREVIEW")
                                ELSE delChannel(h, c)
    IN  IF c = "PREVIEW" /\ h.ch[c] # "none" THEN Works(h)
        ELSE Either(cleared, [cleared EXCEPT !.ch[c] = "idle"])

-----------------------------------------------------------------------------
(* Preview and recording.                                                  *)
PreviewChannel(h) == IF h.zsl /\ ~h.hint THEN "ZSL" ELSE "PREVIEW"

(* A mistake: the ZSL channel is forgotten.                                *)
unpreparePlainPreview(h) ==
    delChannel(delChannel(delChannel(h, "PREVIEW"), "VIDEO"), "SNAPSHOT")

unpreparePreview(h) ==
    delChannel(delChannel(delChannel(delChannel(h, "ZSL"), "PREVIEW"), "VIDEO"), "SNAPSHOT")

preparePreview(h) ==
    IF h.hint
    THEN OnFail(AndThen(addChannel(h, "SNAPSHOT"),
                LAMBDA s : AndThen(addChannel(s, "VIDEO"),
                LAMBDA v : addChannel(v, "PREVIEW"))),
                LAMBDA f : delChannel(delChannel(f, "SNAPSHOT"), "VIDEO"))
    ELSE addChannel(h, PreviewChannel(h))

startPreview(h) == startChannel(h, PreviewChannel(h))

stopPreview(h) == unpreparePreview(stopChannel(stopChannel(h, "ZSL"), "PREVIEW"))

(* The handlers' sequence: prepare, start, and give up when it fails.      *)
PrepareAndStart(h) ==
    AndThen(preparePreview(h), LAMBDA p : OnFail(startPreview(p), unpreparePreview))

-----------------------------------------------------------------------------
(* Parameters.  setZslMode writes the parameter map at once, so that the   *)
(* map and m_bZslMode_new agree; setRecordingHint compares with the map,   *)
(* which the hint set by startRecording never reaches.                     *)
NeedRestart(h, zsl, hint) ==
    zsl # h.zslNew \/ (hint # h.hintKey /\ hint # h.hint)

(* The values of one call are stored even when another one is refused.     *)
updateParameters(h, zsl, hint) ==
    LET stored == [h EXCEPT !.zslNew = zsl,
                            !.hintNew = IF hint # h.hintKey THEN hint ELSE @,
                            !.tmpHint = (hint # h.hintKey)]
    IN  IF ParamsFail THEN Either(stored, stored) ELSE Works(stored)

commitParamChanges(h) ==
    [h EXCEPT !.hintKey = IF h.tmpHint THEN h.hintNew ELSE @,
              !.tmpHint = FALSE, !.hint = h.hintNew, !.zsl = h.zslNew]

commitParameterChanges(h) ==
    (IF ParamsFail THEN Fails(h) ELSE {}) \cup Works(commitParamChanges(h))

updateRecordingHintValue(h) ==
    commitParameterChanges([h EXCEPT !.tmpHint = FALSE, !.hintNew = TRUE])

startRecording(h) ==
    LET start(p) == startChannel(p, "VIDEO")
    IN  IF h.hint THEN start(h)
        ELSE AndThen(AndThen(Whatever(updateRecordingHintValue(stopPreview(h)), preparePreview),
                             LAMBDA p : startChannel(p, "PREVIEW")), start)

stopRecording(h) == stopChannel(h, "VIDEO")

-----------------------------------------------------------------------------
(* The post processor.  Its commands START and STOP to the notify thread,  *)
(* and STOP to the data thread, go to the head of the queue; STOP to the   *)
(* data thread is waited for and throws the queued frames away.            *)
PostStarted(h) ==
    [h EXCEPT !.dataQ = Append(@, "START"), !.notifyQ = <<"START">> \o @]

(* It may fail before it has told its threads, or, for the picture of a    *)
(* still camera, after it, when the session with the encoder is created.   *)
PostStart(h) ==
    Either(h, PostStarted(h))
      \cup (IF h.hint \/ h.long \/ h.zsl THEN {} ELSE Fails(PostStarted(h)))

PostStop(h) ==
    [h EXCEPT !.notifyQ = <<"STOP">> \o @,
              !.dataQ = SelectSeq(@, LAMBDA c : c # "JOB"),
              !.dataOn = FALSE, !.encoding = 0]

-----------------------------------------------------------------------------
(* Pictures.                                                               *)
Requested(h, c) == [h EXCEPT !.due[c] = Burst]

startAdvancedCapture(h) == IF Advanced THEN Either(h, h) ELSE Works(h)

longShot(h) ==
    LET c == IF h.zsl THEN "ZSL" ELSE "CAPTURE"
    IN  IF h.ch[c] = "none" THEN Fails(h) ELSE Either(h, Requested(h, c))

takeZslPicture(h) ==
    LET take(p) == OnFail(Either(p, Requested(p, "ZSL")), PostStop)
    IN  IF h.ch["ZSL"] = "none" THEN Fails(h)
        ELSE AndThen(AndThen(PostStart(h), startAdvancedCapture), take)

(* The preview channel goes, the capture channel starts, and the start of  *)
(* the post processor is left to the deferred-work thread.                 *)
takeStillPicture(h) ==
    LET start(p)  == OnFail(startChannel(p, "CAPTURE"), LAMBDA f : delChannel(f, "CAPTURE"))
        defer(p)  == startAdvancedCapture([p EXCEPT !.job = TRUE])
        burst(p)  == IF p.long
                     THEN OnFail(longShot(p), LAMBDA f : delChannel(f, "CAPTURE"))
                     ELSE Works(p)
        preview   == delChannel(stopChannel(h, "PREVIEW"), "PREVIEW")
    IN  AndThen(AndThen(AndThen(addChannel(preview, "CAPTURE"), start), defer), burst)

takePicture(h) == IF h.zsl THEN takeZslPicture(h) ELSE takeStillPicture(h)

(* The channel is not deleted for good in either case: it stays in         *)
(* m_channels until the picture is cancelled.                              *)
stopCaptureChannel(h) == stopChannel(h, "CAPTURE")

cancelPicture(h) ==
    LET p == PostStop(h)
    IN  IF h.zsl THEN [p EXCEPT !.due["ZSL"] = 0]
        ELSE delChannel(stopChannel(p, "CAPTURE"), "CAPTURE")

(* A live snapshot is started by a thread of its own.                      *)
takeLiveSnapshot(h) == Either(h, [h EXCEPT !.live = "running"])

cancelLiveSnapshot(h) == stopChannel(PostStop([h EXCEPT !.live = "none"]), "SNAPSHOT")

isCaptureRunning(h) == h.state \in {"PIC_TAKING", "VIDEO_PIC_TAKING", "PREVIEW_PIC_TAKING"}

(* CAMERA_CMD_LONGSHOT_ON and CAMERA_CMD_LONGSHOT_OFF.                     *)
sendCommand(h, on) ==
    IF on THEN IF isCaptureRunning(h) THEN Fails(h) ELSE Works([h EXCEPT !.long = TRUE])
    ELSE LET p == IF h.long /\ isCaptureRunning(h)
                  THEN [cancelPicture(h) EXCEPT !.evtQ = Append(@, "SNAPSHOT_DONE")]
                  ELSE h
         IN  Works([p EXCEPT !.long = FALSE])

release(h) == [h EXCEPT !.ch = [c \in Channels |-> "none"], !.due = [c \in Channels |-> 0]]

(* The state machine is told that an image is encoded.  Nothing says that  *)
(* the job is still wanted.                                                *)
processJpegNotify(h) ==
    Either(h, [h EXCEPT !.notifyQ = Append(@, "JOB")])
=============================================================================
