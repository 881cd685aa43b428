\* A window of two frames; solves of any length up to ten frames, retries.
SPECIFICATION Spec
CONSTANTS
  MaxClone = 3
  WindowTime = 2
  WaitForJerk = TRUE
  StartTime = 1
  LastTime = 13
INVARIANTS
  TypeOK
  PinnedWhileSolving
  AttemptsFinished
  PendingSinceLaunch
  CatchUpNeverStarves
  WindowRebuilt
