SPECIFICATION FrontendSpec
CONSTANTS
  s1 = s1
  s2 = s2
  t1 = t1
  u1 = u1
  alice = alice
  carol = carol
  bob = bob
  dave = dave
  app = app
  NoValidator = NoValidator
  NoAccount = NoAccount
  Market = Market
  Validators = {s1, s2, t1, u1}
  Accounts <- FrontAccounts
  WithdrawalAddress <- FrontOwner
  CredsPrefix <- MCCredsPrefix
  ActivationEpoch <- MCActivation
  InitialBalance <- MCBalance
  OwnRequests = {}
  MayExit = {}
  MayBeSlashed = {}
  SlotsPerEpoch = 1
  StartSlot = 2
  MaxGap = 1
  RootsKept = 3
  ExitDelay = 1
  SlashDelay = 40
  SweepPeriod = 2
  CommitteePeriod = 1
  DequeueRate = 2
  QueueCap = 2
  Increment = 2
  MaxEffective = 4096
  FarFuture = 1000
  MaxSlot = 4
  Orders <- Asks
  Signed = {}
  Nonces = {1, 2, 3}
  Policies = {}
  Targets = {t1}
  Buyers = {}
  Payers = {}
  Funds <- FrontFunds
  RefPrices = {10, 20}
  PriceUnit = 64
  Bps = 10
  MaxDust = 2
  MaxProofAge = 1
  DequeueDelay = 0
  MaxAcceptWindow = 1
  AcceptWindow = 1
  MaxTrades = 2
  Nullifiers = {}
  Attestations = {}
  RequiredCredential <- MCRequired
  hook = hook
  Bids <- OneBid
  Shipments <- OneShipment
  BidApp = app
  NoBid = NoBid
  Hook = hook
  PoolManager = PoolManager
  Predeploy = Predeploy
  Weth = Weth
  EtherFunds <- FrontEther
  TokenFunds <- FrontToken
  Rejecting = {}
  Values = {}
  Fees = {1}
  Inputs = {}
  Rates = {3}
  PoolDepth = 10
  Strays <- NoStrays
  Users = {bob, dave}
  Pages <- Visits
  Router = Router
  Aqua = Aqua
  FeeBuffer = 2
  Slippage = 1
  MaxClicks = 2
INVARIANTS
  TypeOK
  PurchasesAreReal
  EtherPricesBounded
  RefundAdviceStands
  DemoFollowsTrade
\* the clock is bounded: the model stops at MaxSlot
CHECK_DEADLOCK FALSE
