SPECIFICATION Spec
CONSTANTS
  MaxTasks = 2
  Kinds = {"seed"}
  MaxGeneration = 2
  MayHide = FALSE
PROPERTIES
  LockSticks
CHECK_DEADLOCK FALSE
