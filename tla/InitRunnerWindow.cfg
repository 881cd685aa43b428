\* The window a commit leaves, after a solve longer than the window.
SPECIFICATION Spec
CONSTANTS
  MaxClone = 3
  WindowTime = 2
  WaitForJerk = TRUE
  StartTime = 1
  LastTime = 13
INVARIANT WindowWithinOptions
