SPECIFICATION LegacySpec
CONSTANTS
  Parts = {"sync", "balances", "networks", "accounts", "promos", "redeem", "list"}
  Txs <- MCTxs
  Spends <- MCSpends
  Outputs <- MCOutputs
  Sendable <- MCSendable
  PageSize = 1
  Margin = 1
  Lag = 1
  MaxHeight = 2
  MaxAtOnce = 2
  MaxIncidents = 1
  Coins <- MCCoins
  Worth <- MCWorth
  Kind <- MCKind
  Rewards = {"d"}
  coinbaseMaturity = 1
  MaxBlock = 2
  MaxRefreshes = 2
  Explorers <- MCExplorers
  Nodes <- MCNodes
  MaxCalls = 1
  maxTrials = 2
  MaxSwitches = 1
  Keys = {w1, w2}
  Labels = {l1, l2}
  Pubkeys = {p1, p2}
  NoAccount = NoAccount
  MaxEdits = 2
  PromoCodes = {"p", "q"}
  CodeAmount = 2
  PROMO_FEE = 1
  hardwareConcurrency = 2
  Savings = 6
  StoredCodes = {"p"}
  NoPromo = NoPromo
  MaxListings = 3
  Creations = {1, 2}
  Typed <- MCTyped
  Ticks = {1, 2}
  MaxMoves = 1
  Gifts = {g, h}
  NoGift = NoGift
  Taps = {1, 2}
  MaxRedeems = 2
INVARIANTS
  CoinsAreTrue
  StoredIsMined
  HistoryIsShown
  
  FailsOnlyAfterAll
  NamesAreUnique
  PromosAreKept
CHECK_DEADLOCK FALSE
