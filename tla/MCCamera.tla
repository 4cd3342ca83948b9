------------------------------ MODULE MCCamera ------------------------------
(* One camera, single-image pictures, and what an application makes of it. *)
EXTENDS CameraApi

(* Preview with and without a window, recording, pictures with the flash.  *)
Everyday == {"SET_PARAMS", "SET_PREVIEW_WINDOW", "START_PREVIEW", "STOP_PREVIEW",
             "START_RECORDING", "STOP_RECORDING", "PREPARE_SNAPSHOT", "CANCEL_PICTURE"}

(* What it takes to cancel a picture.                                     *)
Pictures == {"START_NODISPLAY_PREVIEW", "TAKE_PICTURE", "CANCEL_PICTURE"}
=============================================================================
