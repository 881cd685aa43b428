\* Zero velocity updates between frames, as config/kaist enables them.
SPECIFICATION Spec
CONSTANTS
  MaxClone = 2
  MaxSlam = 1
  CoreSize = 16
  GateClones = 2
  MargClones = 2
  MarginalOffset = 6
  Feats = {f1}
  f1 = f1
  TryZupt = TRUE
  ZuptOnlyAtBeginning = FALSE
  InitRetried = FALSE
  LastTime = 9
  Times <- MCTimes
INVARIANT ClonesOwnSlot
