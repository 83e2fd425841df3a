SPECIFICATION Spec
CONSTANTS
  Coins = {c1, c2}
  Collaterals = {k1}
  NoOutput = NoOutput
  MaxDelayed = 0
  ReadsMayFail = FALSE
SYMMETRY CoinSymmetry
INVARIANTS
  CoherentAtRest
  StakingExcludesSpending
PROPERTIES
  RestedSendsSpareCollateral
  StakingSparesCollateral
CHECK_DEADLOCK FALSE
