\* Every second frame is a keyframe; windows of two keyframes; both threads fair.
SPECIFICATION FairSpec
CONSTANTS
  KeyframeStride = 2
  WindowSize = 2
  SolveStride = 1
  LastFrame = 6
INVARIANTS
  TypeOK
  WarmStartAgrees
  NoPublicationMissed
PROPERTIES
  OfflineUndisturbed
  PosesNeverRegress
  DueSolveStarts
  StopReturns
