SPECIFICATION FairSpec
CONSTANTS
  s1 = s1
  s2 = s2
  t1 = t1
  u1 = u1
  alice = alice
  carol = carol
  bob = bob
  dave = dave
  app = app
  NoValidator = NoValidator
  NoAccount = NoAccount
  Market = Market
  Validators = {s1, t1, u1}
  Accounts <- MCAccounts
  WithdrawalAddress <- MCOwner
  CredsPrefix <- MCCredsPrefix
  ActivationEpoch <- MCActivation
  InitialBalance <- MCBalance
  OwnRequests <- FrontRun
  MayExit = {}
  MayBeSlashed = {s1}
  SlotsPerEpoch = 2
  StartSlot = 2
  MaxGap = 2
  RootsKept = 3
  ExitDelay = 2
  SlashDelay = 40
  SweepPeriod = 2
  CommitteePeriod = 1
  DequeueRate = 1
  QueueCap = 2
  Increment = 2
  MaxEffective = 4096
  FarFuture = 1000
  MaxSlot = 14
  Orders <- OneOffer
  Signed <- OneOffer
  Nonces = {1, 2, 3}
  Policies = {}
  Targets = {t1}
  Buyers = {bob}
  Payers = {app}
  Funds <- MCFunds
  RefPrices = {}
  PriceUnit = 1
  Bps = 10
  MaxDust = 2
  MaxProofAge = 1
  DequeueDelay = 2
  MaxAcceptWindow = 5
  AcceptWindow = 5
  MaxTrades = 1
  Nullifiers = {}
  Attestations = {}
  RequiredCredential <- MCRequired
INVARIANTS
  DeliveredStakeMoved
  RefundKillsRequest
PROPERTIES
  EscrowReleased
\* the clock is bounded: the model stops at MaxSlot
CHECK_DEADLOCK FALSE
