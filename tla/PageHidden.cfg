SPECIFICATION Spec
CONSTANTS
  MaxTasks = 2
  Kinds = {"seed"}
  MaxGeneration = 2
  MayHide = TRUE
INVARIANTS
  UnlockedViewHoldsSeeds
CHECK_DEADLOCK FALSE
