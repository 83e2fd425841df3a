SPECIFICATION StakingSpec
CONSTANTS
  Coins = {1, 2, 3, 4}
  Listings <- ChangingLists
  BatchSize = 2
  Tips = {tipA, tipB}
  MaxGeneration = 4
  Callers = {c1, c2}
  MaxAttempts = 3
INVARIANTS
  OneContinuation
  ConnectionIsCached
PROPERTIES
  SignsOnlyWhileCurrent
  ImplementsAuthority
  PermissionLossStops
  
  CallsAreAnswered
  NewerIsNotBlocked
CHECK_DEADLOCK FALSE
