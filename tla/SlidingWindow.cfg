\* Steady state, filling, landmarks and zero velocity updates, interleaved.
SPECIFICATION Spec
CONSTANTS
  MaxClone = 2
  MaxSlam = 2
  CoreSize = 16
  GateClones = 2
  MargClones = 2
  MarginalOffset = 6
  Feats = {f1, f2, f3}
  f1 = f1
  f2 = f2
  f3 = f3
  TryZupt = TRUE
  ZuptOnlyAtBeginning = FALSE
  InitRetried = TRUE
  LastTime = 5
  Times <- MCTimes
SYMMETRY FeatSymmetry
INVARIANTS
  TypeOK
  WindowBounded
  AnchorsLive
  ClonesCached
  LayoutTiles
  StartRowAgrees
  AnchorChangeFits
  FactorReady
  BudgetsHold
PROPERTY AnchorsMoveForward
