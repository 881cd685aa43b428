\* A solve longer than the window of IMU readings kept for it.
SPECIFICATION Spec
CONSTANTS
  f0 = f0
  f1 = f1
  Feats <- MCFeats
  CamOf <- MCCamOf
  MaxClone = 2
  GateClones = 2
  MargClones = 1
  MaxSlam = 1
  MaxMsckf = 1
  MaxSlamBatch = 1
  SlamDelay = 1
  CoreSize = 15
  InitWindow = 2
  InitLag = 1
  TryZupt = TRUE
  ZuptOnlyAtBeginning = FALSE
  LastTime = 5
INVARIANT PropagationCovered
CHECK_DEADLOCK FALSE
