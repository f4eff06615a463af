SPECIFICATION PurchasesSpec
CONSTANTS
  s1 = s1
  s2 = s2
  t1 = t1
  u1 = u1
  alice = alice
  carol = carol
  bob = bob
  dave = dave
  app = app
  NoValidator = NoValidator
  NoAccount = NoAccount
  Market = Market
  Validators = {s1, s2, t1}
  Accounts <- PurchaseAccounts
  WithdrawalAddress <- MCOwner
  CredsPrefix <- MCCredsPrefix
  ActivationEpoch <- MCActivation
  InitialBalance <- MCBalance
  OwnRequests = {}
  MayExit = {}
  MayBeSlashed = {}
  SlotsPerEpoch = 2
  StartSlot = 2
  MaxGap = 1
  RootsKept = 3
  ExitDelay = 2
  SlashDelay = 40
  SweepPeriod = 2
  CommitteePeriod = 1
  DequeueRate = 1
  QueueCap = 2
  Increment = 2
  MaxEffective = 4096
  FarFuture = 1000
  MaxSlot = 5
  Orders <- Asks
  Signed <- Asks
  Nonces = {1, 2, 3}
  Policies = {}
  Targets = {t1}
  Buyers = {dave}
  Payers = {dave, safe}
  Funds <- BidFunds
  RefPrices = {10, 20}
  PriceUnit = 64
  Bps = 10
  MaxDust = 2
  MaxProofAge = 1
  DequeueDelay = 1
  MaxAcceptWindow = 2
  AcceptWindow = 2
  MaxTrades = 2
  Nullifiers = {}
  Attestations = {}
  RequiredCredential <- MCRequired
  hook = hook
  safe = safe
  Bids <- MCBids
  Shipments <- MCShipments
  BidApp = app
  NoBid = NoBid
  Hook = hook
  PoolManager = PoolManager
  Predeploy = Predeploy
  Weth = Weth
  EtherFunds <- MCEther
  TokenFunds <- MCToken
  Rejecting = {safe}
  Values = {1, 6, 7}
  Fees = {1}
  Inputs = {2, 4, 5}
  Rates = {3}
  PoolDepth = 4
  Strays <- MCStrays
INVARIANTS
  BudgetsAccounted
  MatchesWithinTerms
  MakersMadeWhole
  RequestNamesLockedStake
  EtherNeverStuck
  WethBacked
  PurchasesCostPriceAndFee
\* the clock is bounded: the model stops at MaxSlot
CHECK_DEADLOCK FALSE
