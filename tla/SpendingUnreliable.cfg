SPECIFICATION FairSpec
CONSTANTS
  Coins = {c1}
  Collaterals = {k1}
  NoOutput = NoOutput
  MaxDelayed = 1
  ReadsMayFail = TRUE
INVARIANTS
  RecordsAreBacked
PROPERTIES
  BusyClears
CHECK_DEADLOCK FALSE
