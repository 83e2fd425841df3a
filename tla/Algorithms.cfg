SPECIFICATION AlgorithmsSpec
CONSTANTS
  Requests <- MCRequests
  Orders <- MCOrders
  MIN_FEE_PER_BYTE = 1
  COIN = 1000
  StakeSplitTarget = 2000
  Base = 14
  HASH_SIZE = 2
  PQ_PUBLIC_KEY_SIZE = 2
  PQ_SIGNATURE_SIZE = 2
  PQ_MAX_TX_BYTES = 300
  PQ_MAX_MASTERNODE_DATA_BYTES = 60
  NamedTransactions <- MCNamed
  PQ_MASTERNODE_COLLATERAL_SATS = 4000
  MainnetPort = 16
  MAX_BLOCK_BYTES = 5000
  MAX_TEMPLATE_AGE = 60
  ClockAllowance = 15
  Decimals = 2
  DefaultFeeRate = 1000
  Missing = Missing
  NoTxid = NoTxid
  Thrown = Thrown
  VaultKeys = {"s", "k"}
  HDKeys = {"s"}
  ImportedSecrets <- MCSecrets
  Passwords = {"p1", "p2"}
  NoPassword = NoPassword
  NoVault = NoVault
  Idle = Idle
  MaxAccounts = 3
  MaxVaults = 2
  MaxUserMoves = 4
  MAX_ACCOUNT_GAP = 2
  MaxPayments = 3
  MaxReloads = 1
INVARIANTS
  LeastThatPays
  PaymentsAreExact
  WireIsExact
  MessagesCommit
  PrincipalReturns
  TextsAreExact
  AnswersAreExact
  VaultsAreKept
CHECK_DEADLOCK FALSE
