\* Does a failed solve leave the state as a fresh one?
SPECIFICATION Spec
CONSTANTS
  Feats = {f1, f2}
  f1 = f1
  f2 = f2
  MaxClone = 2
  NumPose = 3
  WindowTime = 3
  WindowOffset = 1
  MaxFeat = 2
  MinFeat = 2
  MaxInitSlam = 1
  MaxIter = 2
  Disparities = {1}
  LastTime = 8
SYMMETRY MCSymmetry
INVARIANT FullReset
