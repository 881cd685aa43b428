\* A smaller list of keyframes: is every change of the counter news?
SPECIFICATION Spec
CONSTANTS
  KeyframeStride = 1
  WindowSize = 2
  SolveStride = 1
  LastFrame = 4
PROPERTY
  EveryFeedbackIsFresh
