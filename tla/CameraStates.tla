---------------------------- MODULE CameraStates ----------------------------
(***************************************************************************)
(* The handlers of QCameraStateMachine, one family of definitions for each *)
(* of its eight states.  A handler takes the camera and the event and      *)
(* gives the set of possible outcomes                                      *)
(*                                                                         *)
(*    hw   the camera afterwards, its m_state included                     *)
(*    ok   the status, where there is an answer                            *)
(*    to   who is answered: "api" (signalAPIResult), "evt"                 *)
(*         (signalEvtResult), or "none"                                    *)
(*                                                                         *)
(* An event is a record of its name and two flags, on and hint, used by    *)
(* the events that carry something: the window is set, the command is      *)
(* LONGSHOT_ON, the parameters ask for ZSL, for recording.                 *)
(*                                                                         *)
(* Events that are served alike by every state and change nothing kept     *)
(* here (callbacks, message types, queries, focus, metadata buffers, dump, *)
(* recording frames given back) are the one event QUERY.  THERMAL_NOTIFY,  *)
(* which nobody is answered, and the focus, zoom, face and statistics      *)
(* events are left out.                                                    *)
(***************************************************************************)
EXTENDS CameraHw

ApiEvents ==
    {"SET_PREVIEW_WINDOW", "SET_PARAMS", "START_PREVIEW", "START_NODISPLAY_PREVIEW",
     "STOP_PREVIEW", "START_RECORDING", "STOP_RECORDING", "PREPARE_SNAPSHOT",
     "TAKE_PICTURE", "CANCEL_PICTURE", "RELEASE", "SEND_COMMAND", "REG_FACE_IMAGE",
     "QUERY", "STOP_CAPTURE_CHANNEL"}

Evt(name, on, hint) == [evt |-> name, on |-> on, hint |-> hint]

-----------------------------------------------------------------------------
(* How a handler ends.                                                     *)
Goto(h, s) == [h EXCEPT !.state = s]
Answer(R) == {[hw |-> r.hw, ok |-> r.ok, to |-> "api"] : r \in R}
(* A mistake: nobody wakes the notify thread.                              *)
DoneQuietly(h) == {[hw |-> h, ok |-> TRUE, to |-> "none"]}

Done(h) == {[hw |-> h, ok |-> TRUE, to |-> "evt"]}
Ignored(h) == {[hw |-> h, ok |-> TRUE, to |-> "none"]}

Served(h) == Answer(Works(h))
Refused(h) == Answer(Fails(h))

(* The state after an operation: one if it worked, another if it failed.   *)
Then(R, worked, failed) ==
    {[r EXCEPT !.hw = Goto(@, IF r.ok THEN worked ELSE failed)] : r \in R}

(* SET_PARAMS of a running preview: stop, commit, prepare and start again. *)
RestartPreview(u, failed) ==
    Then(Whatever(commitParameterChanges(stopPreview(u)), PrepareAndStart),
         u.state, failed)

(* SET_PARAMS of a recording: refused when it would need a restart.        *)
CommitUnless(u, restart) == IF restart THEN Fails(u) ELSE commitParameterChanges(u)

-----------------------------------------------------------------------------
(* QCAMERA_SM_STATE_PREVIEW_STOPPED.                                       *)
StoppedParams(h, e) ==
    CASE e.evt = "SET_PREVIEW_WINDOW" -> Served([h EXCEPT !.window = e.on])
      [] e.evt = "SET_PARAMS" ->
            Answer(AndThen(updateParameters(h, e.on, e.hint), commitParameterChanges))
      [] OTHER -> {}

StoppedCalls(h, e) ==
    CASE e.evt = "START_PREVIEW" /\ ~h.window ->
            Answer(Then(preparePreview(h), "PREVIEW_READY", h.state))
      [] \/ e.evt = "START_PREVIEW" /\ h.window
         \/ e.evt = "START_NODISPLAY_PREVIEW" ->
            Answer(Then(PrepareAndStart(h), "PREVIEWING", h.state))
      [] e.evt = "RELEASE" -> Served(release(h))
      [] e.evt = "SEND_COMMAND" -> Answer(sendCommand(h, e.on))
      [] e.evt \in {"STOP_PREVIEW", "CANCEL_PICTURE", "REG_FACE_IMAGE", "QUERY"} -> Served(h)
      [] e.evt \in {"START_RECORDING", "STOP_RECORDING", "PREPARE_SNAPSHOT", "TAKE_PICTURE"} ->
            Refused(h)
      [] OTHER -> {}

-----------------------------------------------------------------------------
(* QCAMERA_SM_STATE_PREVIEW_READY.                                         *)
ReadyParams(h, e) ==
    LET windowed == [h EXCEPT !.window = e.on]
        reprepare(u) == Then(Whatever(commitParameterChanges(unpreparePreview(u)), preparePreview),
                             h.state, "PREVIEW_STOPPED")
        restart == NeedRestart(h, e.on, e.hint)
    IN  CASE e.evt = "SET_PREVIEW_WINDOW" /\ e.on ->
                Answer(Then(OnFail(startPreview(windowed), unpreparePreview),
                            "PREVIEWING", "PREVIEW_STOPPED"))
          [] e.evt = "SET_PREVIEW_WINDOW" /\ ~e.on -> Served(windowed)
          [] e.evt = "SET_PARAMS" ->
                Answer(AndThen(updateParameters(h, e.on, e.hint),
                               LAMBDA u : IF restart THEN reprepare(u) ELSE commitParameterChanges(u)))
          [] OTHER -> {}

ReadyCalls(h, e) ==
    CASE e.evt = "STOP_PREVIEW" -> Served(Goto(unpreparePreview(h), "PREVIEW_STOPPED"))
      [] e.evt = "SEND_COMMAND" -> Answer(sendCommand(h, e.on))
      [] e.evt \in {"START_PREVIEW", "REG_FACE_IMAGE", "QUERY"} -> Served(h)
      [] e.evt \in {"START_NODISPLAY_PREVIEW", "START_RECORDING", "STOP_RECORDING",
                    "PREPARE_SNAPSHOT", "TAKE_PICTURE", "CANCEL_PICTURE", "RELEASE"} ->
            Refused(h)
      [] OTHER -> {}

-----------------------------------------------------------------------------
(* QCAMERA_SM_STATE_PREVIEWING.                                            *)
PreviewingParams(h, e) ==
    LET restart == NeedRestart(h, e.on, e.hint)
    IN  CASE e.evt = "SET_PREVIEW_WINDOW" -> Refused(h)
          [] e.evt = "SET_PARAMS" ->
                Answer(AndThen(updateParameters(h, e.on, e.hint),
                               LAMBDA u : IF restart THEN RestartPreview(u, "PREVIEW_STOPPED")
                                                     ELSE commitParameterChanges(u)))
          [] OTHER -> {}

(* The state is set before the picture is taken and set back if it fails.  *)
PreviewingTakePicture(h) ==
    CASE h.hint ->
            Then(takeLiveSnapshot(h), "PREVIEW_PIC_TAKING", "PREVIEWING")
      [] ~h.hint /\ (h.zsl \/ h.long) ->
            Then(takePicture(h), "PREVIEW_PIC_TAKING", "PREVIEWING")
      [] OTHER ->
            Then(takePicture(h), "PIC_TAKING", "PREVIEW_STOPPED")

(* A mistake: the refusal of the daemon is not looked at.                  *)
PreviewingPrepareUnchecked(h) ==
    Ignored(Goto([h EXCEPT !.preparing = TRUE], "PREPARE_SNAPSHOT"))
      \cup Ignored(Goto(h, "PREPARE_SNAPSHOT"))

(* PREPARE_SNAPSHOT is answered when the daemon is ready, or refuses.      *)
PreviewingPrepare(h) ==
    Ignored(Goto([h EXCEPT !.preparing = TRUE], "PREPARE_SNAPSHOT")) \cup Refused(h)

PreviewingCalls(h, e) ==
    CASE e.evt = "STOP_PREVIEW" -> Served(Goto(stopPreview(h), "PREVIEW_STOPPED"))
      [] e.evt = "START_RECORDING" -> Answer(Then(startRecording(h), "RECORDING", h.state))
      [] e.evt = "PREPARE_SNAPSHOT" -> PreviewingPrepare(h)
      [] e.evt = "TAKE_PICTURE" -> Answer(PreviewingTakePicture(h))
      [] e.evt = "SEND_COMMAND" -> Answer(sendCommand(h, e.on))
      [] e.evt \in {"START_PREVIEW", "START_NODISPLAY_PREVIEW", "REG_FACE_IMAGE", "QUERY"} ->
            Served(h)
      [] e.evt \in {"CANCEL_PICTURE", "STOP_RECORDING", "RELEASE"} -> Refused(h)
      [] OTHER -> {}

-----------------------------------------------------------------------------
(* QCAMERA_SM_STATE_PREPARE_SNAPSHOT.  REG_FACE_IMAGE is not among the     *)
(* calls it refuses.                                                       *)
PrepareCalls(h, e) ==
    IF e.evt \in ApiEvents \ {"REG_FACE_IMAGE", "STOP_CAPTURE_CHANNEL"}
    THEN Refused(h) ELSE {}

(* The caller of PREPARE_SNAPSHOT is answered now.                         *)
PrepareDone(h) == Goto(h, "PREVIEWING")

-----------------------------------------------------------------------------
(* QCAMERA_SM_STATE_PIC_TAKING.                                            *)
PicTakingParams(h, e) ==
    CASE e.evt = "SET_PREVIEW_WINDOW" -> Refused(h)
      [] e.evt = "SET_PARAMS" ->
            Answer(AndThen(updateParameters(h, e.on, e.hint), commitParameterChanges))
      [] OTHER -> {}

(* The frames of the picture are all there: the channel stops, and, where  *)
(* the property asks for it, the preview comes back at once.               *)
PicTakingStopChannel(h) ==
    LET stopped == stopCaptureChannel(h)
    IN  IF Restart THEN AndThen(preparePreview(stopped), startPreview) ELSE Works(stopped)

PicTakingCalls(h, e) ==
    CASE e.evt \in {"STOP_PREVIEW", "CANCEL_PICTURE"} ->
            Served(Goto(cancelPicture(h), "PREVIEW_STOPPED"))
      [] e.evt = "SEND_COMMAND" /\ ~e.on ->
            Answer(Then(sendCommand(h, FALSE), "PREVIEWING", "PREVIEWING"))
      [] e.evt = "SEND_COMMAND" /\ e.on -> Answer(sendCommand(h, TRUE))
      [] e.evt = "TAKE_PICTURE" -> Answer(IF h.long THEN longShot(h) ELSE Fails(h))
      [] e.evt = "STOP_CAPTURE_CHANNEL" -> Answer(PicTakingStopChannel(h))
      [] e.evt \in {"REG_FACE_IMAGE", "QUERY"} -> Served(h)
      [] e.evt \in {"PREPARE_SNAPSHOT", "START_RECORDING", "STOP_RECORDING", "START_PREVIEW",
                    "START_NODISPLAY_PREVIEW", "RELEASE"} -> Refused(h)
      [] OTHER -> {}

PicTakingDone(h) ==
    Goto(cancelPicture(h), IF Restart THEN "PREVIEWING" ELSE "PREVIEW_STOPPED")

-----------------------------------------------------------------------------
(* QCAMERA_SM_STATE_RECORDING.                                             *)
RecordingParams(h, e) ==
    LET restart == NeedRestart(h, e.on, e.hint)
    IN  CASE e.evt = "SET_PREVIEW_WINDOW" -> Served(h)
          [] e.evt = "SET_PARAMS" ->
                Answer(AndThen(updateParameters(h, e.on, e.hint),
                               LAMBDA u : CommitUnless(u, restart)))
          [] OTHER -> {}

RecordingCalls(h, e) ==
    CASE e.evt = "TAKE_PICTURE" ->
            Answer(Then(takeLiveSnapshot(h), "VIDEO_PIC_TAKING", "RECORDING"))
      [] e.evt = "STOP_RECORDING" -> Served(Goto(stopRecording(h), "PREVIEWING"))
      [] e.evt = "STOP_PREVIEW" -> Served(Goto(stopPreview(stopRecording(h)), "PREVIEW_STOPPED"))
      [] e.evt = "SEND_COMMAND" -> Answer(sendCommand(h, e.on))
      [] e.evt \in {"START_PREVIEW", "START_RECORDING", "PREPARE_SNAPSHOT",
                    "REG_FACE_IMAGE", "QUERY"} -> Served(h)
      [] e.evt \in {"CANCEL_PICTURE", "START_NODISPLAY_PREVIEW", "RELEASE"} -> Refused(h)
      [] OTHER -> {}

-----------------------------------------------------------------------------
(* QCAMERA_SM_STATE_VIDEO_PIC_TAKING.                                      *)
VideoPicParams(h, e) ==
    LET restart == NeedRestart(h, e.on, e.hint)
    IN  CASE e.evt = "SET_PREVIEW_WINDOW" -> Refused(h)
          [] e.evt = "SET_PARAMS" ->
                Answer(AndThen(updateParameters(h, e.on, e.hint),
                               LAMBDA u : CommitUnless(u, restart)))
          [] OTHER -> {}

VideoPicCalls(h, e) ==
    LET p == cancelLiveSnapshot(h)
    IN  CASE e.evt = "CANCEL_PICTURE" -> Served(Goto(p, "RECORDING"))
          [] e.evt = "STOP_RECORDING" -> Served(Goto(stopRecording(p), "PREVIEWING"))
          [] e.evt = "STOP_PREVIEW" ->
                Served(Goto(stopPreview(stopRecording(p)), "PREVIEW_STOPPED"))
          [] e.evt = "SEND_COMMAND" -> Answer(sendCommand(h, e.on))
          [] e.evt \in {"REG_FACE_IMAGE", "QUERY"} -> Served(h)
          [] e.evt \in {"START_RECORDING", "START_PREVIEW", "START_NODISPLAY_PREVIEW",
                        "PREPARE_SNAPSHOT", "TAKE_PICTURE", "RELEASE"} -> Refused(h)
          [] OTHER -> {}

(* A mistake: the recording is left, as by STOP_RECORDING.                 *)
VideoPicDoneToPreview(h) == Goto(cancelLiveSnapshot(h), "PREVIEWING")

VideoPicDone(h) == Goto(cancelLiveSnapshot(h), "RECORDING")

-----------------------------------------------------------------------------
(* QCAMERA_SM_STATE_PREVIEW_PIC_TAKING.  A preview that cannot be started  *)
(* again leaves PIC_TAKING behind, not PREVIEW_STOPPED.                    *)
PreviewPicParams(h, e) ==
    LET restart == NeedRestart(h, e.on, e.hint)
    IN  CASE e.evt = "SET_PREVIEW_WINDOW" -> Refused(h)
          [] e.evt = "SET_PARAMS" ->
                Answer(AndThen(updateParameters(h, e.on, e.hint),
                               LAMBDA u : IF restart THEN RestartPreview(u, "PIC_TAKING")
                                                     ELSE commitParameterChanges(u)))
          [] OTHER -> {}

(* Which kind of picture is cancelled is read off the modes of now.        *)
PreviewPicCancel(h) ==
    IF h.zsl \/ h.long THEN cancelPicture(h) ELSE cancelLiveSnapshot(h)

(* A mistake: the picture is cancelled and the preview left running.       *)
PreviewPicStopPictureOnly(h) == Goto(PreviewPicCancel(h), "PREVIEW_STOPPED")

PreviewPicStopPreview(h) ==
    LET p == PreviewPicCancel(h)
    IN  Goto(unpreparePreview(IF h.zsl THEN stopChannel(p, "ZSL")
                              ELSE IF h.long THEN p ELSE stopChannel(p, "PREVIEW")),
             "PREVIEW_STOPPED")

PreviewPicCalls(h, e) ==
    CASE e.evt = "CANCEL_PICTURE" -> Served(Goto(PreviewPicCancel(h), "PREVIEWING"))
      [] e.evt = "STOP_PREVIEW" -> Served(PreviewPicStopPreview(h))
      [] e.evt = "START_RECORDING" ->
            Answer(IF h.zsl \/ h.long THEN Fails(h)
                   ELSE Then(startRecording(h), "VIDEO_PIC_TAKING", h.state))
      [] e.evt = "SEND_COMMAND" /\ ~e.on ->
            Answer(Then(sendCommand(h, FALSE), "PREVIEWING", "PREVIEWING"))
      [] e.evt = "SEND_COMMAND" /\ e.on -> Answer(sendCommand(h, TRUE))
      [] e.evt = "TAKE_PICTURE" -> Answer(IF h.long THEN longShot(h) ELSE Fails(h))
      [] e.evt \in {"REG_FACE_IMAGE", "QUERY"} -> Served(h)
      [] e.evt \in {"PREPARE_SNAPSHOT", "STOP_RECORDING", "START_PREVIEW",
                    "START_NODISPLAY_PREVIEW", "RELEASE"} -> Refused(h)
      [] OTHER -> {}

PreviewPicDone(h) == Goto(PreviewPicCancel(h), "PREVIEWING")

-----------------------------------------------------------------------------
(* stateMachine: the handler of the state the machine is in.               *)
ApiOutcomes(h, e) ==
    CASE h.state = "PREVIEW_STOPPED"     -> StoppedParams(h, e) \cup StoppedCalls(h, e)
      [] h.state = "PREVIEW_READY"       -> ReadyParams(h, e) \cup ReadyCalls(h, e)
      [] h.state = "PREVIEWING"          -> PreviewingParams(h, e) \cup PreviewingCalls(h, e)
      [] h.state = "PREPARE_SNAPSHOT"    -> PrepareCalls(h, e)
      [] h.state = "PIC_TAKING"          -> PicTakingParams(h, e) \cup PicTakingCalls(h, e)
      [] h.state = "RECORDING"           -> RecordingParams(h, e) \cup RecordingCalls(h, e)
      [] h.state = "VIDEO_PIC_TAKING"    -> VideoPicParams(h, e) \cup VideoPicCalls(h, e)
      [] h.state = "PREVIEW_PIC_TAKING"  -> PreviewPicParams(h, e) \cup PreviewPicCalls(h, e)

(* SNAPSHOT_DONE is answered in every state.                               *)
EventOutcomes(h, e) ==
    CASE e.evt = "SNAPSHOT_DONE" /\ h.state = "PIC_TAKING"         -> Done(PicTakingDone(h))
      [] e.evt = "SNAPSHOT_DONE" /\ h.state = "VIDEO_PIC_TAKING"   -> Done(VideoPicDone(h))
      [] e.evt = "SNAPSHOT_DONE" /\ h.state = "PREVIEW_PIC_TAKING" -> Done(PreviewPicDone(h))
      [] e.evt = "SNAPSHOT_DONE" /\ ~isCaptureRunning(h)           -> Done(h)
      [] e.evt = "JPEG_EVT_NOTIFY" /\ isCaptureRunning(h) ->
            {[hw |-> r.hw, ok |-> r.ok, to |-> "none"] : r \in processJpegNotify(h)}
      [] e.evt = "PREP_SNAPSHOT_DONE" /\ h.state = "PREPARE_SNAPSHOT" ->
            Served(PrepareDone(h))
      [] OTHER -> {}

(* An event no case of the switch names is dropped.                        *)
Outcomes(h, e) ==
    LET R == IF e.evt \in Events THEN EventOutcomes(h, e) ELSE ApiOutcomes(h, e)
    IN  IF R = {} THEN Ignored(h) ELSE R

(* The handlers that begin with cancelPicture, which waits for mReprocJob, *)
(* and those that begin with cancelLiveSnapshot, which joins the thread.   *)
CancelsPicture(h, e) ==
    \/ /\ e.evt \in {"STOP_PREVIEW", "CANCEL_PICTURE", "SNAPSHOT_DONE"}
       /\ h.state = "PIC_TAKING" \/ (h.state = "PREVIEW_PIC_TAKING" /\ (h.zsl \/ h.long))
    \/ e.evt = "SEND_COMMAND" /\ ~e.on /\ h.long /\ isCaptureRunning(h)

JoinsLive(h, e) ==
    \/ /\ e.evt \in {"STOP_PREVIEW", "CANCEL_PICTURE", "SNAPSHOT_DONE"}
       /\ h.state = "VIDEO_PIC_TAKING"
             \/ (h.state = "PREVIEW_PIC_TAKING" /\ ~h.zsl /\ ~h.long)
    \/ e.evt = "STOP_RECORDING" /\ h.state = "VIDEO_PIC_TAKING"
=============================================================================
