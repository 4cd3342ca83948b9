SPECIFICATION FairSpec
CONSTANTS
  Burst = 1
  Restart = FALSE
  Advanced = FALSE
  ParamsFail = FALSE
  Used <- Everyday
  Careful = TRUE
  QueueBound = 1
INVARIANTS VideoIffRecording OnePreview StoppedMeansStopped DoneIsComing OwnAnswer
PROPERTIES PrepareEnds
\* The application need not call.
CHECK_DEADLOCK FALSE
