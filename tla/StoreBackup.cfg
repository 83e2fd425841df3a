SPECIFICATION StoreSpec
CONSTANTS
  x1 = x1
  x2 = x2
  x3 = x3
  x4 = x4
  t1 = t1
  t2 = t2
  Calls <- FourCalls
  Tabs <- TwoTabs
  TabOf <- TwoByTwo
  Passwords = {p1, p2}
  Keys = {1}
  NoWallet = NoWallet
  MaxRecords = 2
  Terms <- GoodTerms
  Erasable = FALSE
  Parts = {"store"}
  MaxTasks = 1
  Kinds = {"seed"}
  MaxGeneration = 1
  MayHide = TRUE
  MaxPhrases = 1
  MaxTyped = 1
  MaxPreviews = 1
  MaxPool = 1
  MaxChecks = 1
  MaxLoads = 1
  Addresses = 1
INVARIANTS
  EveryBackupRestores
CHECK_DEADLOCK FALSE
