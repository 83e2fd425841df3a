SPECIFICATION FairStoreSpec
CONSTANTS
  x1 = x1
  x2 = x2
  x3 = x3
  x4 = x4
  t1 = t1
  t2 = t2
  Calls <- FourCalls
  Tabs <- TwoTabs
  TabOf <- TwoByTwo
  Passwords = {p1, p2}
  Keys = {1, 2}
  NoWallet = NoWallet
  MaxRecords = 1
  Terms <- AllTerms
  Erasable = TRUE
  Parts = {"store", "page", "setup", "form", "tabs"}
  MaxTasks = 3
  Kinds = {"seed"}
  MaxGeneration = 3
  MayHide = TRUE
  MaxPhrases = 2
  MaxTyped = 5
  MaxPreviews = 2
  MaxPool = 2
  MaxChecks = 2
  MaxLoads = 2
  Addresses = 3
INVARIANTS
  NoStraySeeds
  UnlockedSeedsAreIntact
  RecordsBelong
  RefusedOnlyForRecords
  RevealsDieWithTheView
  BusyIsBacked
  SetupIsConfirmed
  FormsAreCleared
  LatestIsShown
PROPERTIES
  NeverOverwritten
  RevealsEnd
CHECK_DEADLOCK FALSE
