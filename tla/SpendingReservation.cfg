SPECIFICATION Spec
CONSTANTS
  Coins = {c1, c2}
  Collaterals = {k1}
  NoOutput = NoOutput
  MaxDelayed = 0
  ReadsMayFail = FALSE
PROPERTIES
  ReservedOnceRecorded
CHECK_DEADLOCK FALSE
