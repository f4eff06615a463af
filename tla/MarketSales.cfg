SPECIFICATION Spec
CONSTANTS
  s1 = s1
  s2 = s2
  t1 = t1
  u1 = u1
  alice = alice
  carol = carol
  bob = bob
  dave = dave
  app = app
  NoValidator = NoValidator
  NoAccount = NoAccount
  Market = Market
  Validators = {s1, s2, t1}
  Accounts <- MCAccounts
  WithdrawalAddress <- MCOwner
  CredsPrefix <- MCCredsPrefix
  ActivationEpoch <- MCActivation
  InitialBalance <- MCBalance
  OwnRequests = {}
  MayExit = {s1}
  MayBeSlashed = {s1}
  SlotsPerEpoch = 2
  StartSlot = 2
  MaxGap = 1
  RootsKept = 3
  ExitDelay = 2
  SlashDelay = 40
  SweepPeriod = 2
  CommitteePeriod = 1
  DequeueRate = 1
  QueueCap = 2
  Increment = 2
  MaxEffective = 4096
  FarFuture = 1000
  MaxSlot = 8
  Orders <- ThreeOffers
  Signed = {}
  Nonces = {1, 2, 3}
  Policies = {}
  Targets = {t1}
  Buyers = {bob}
  Payers = {app}
  Funds <- MCFunds
  RefPrices = {}
  PriceUnit = 1
  Bps = 10
  MaxDust = 2
  MaxProofAge = 1
  DequeueDelay = 1
  MaxAcceptWindow = 5
  AcceptWindow = 4
  MaxTrades = 2
  Nullifiers = {}
  Attestations = {}
  RequiredCredential <- MCRequired
INVARIANTS
  SourceLock
  NonceFilledOnce
  EscrowBacksOpenTrades
  PayoutsMatchOutcomes
  AcceptanceProvable
PROPERTIES
  NoRefundOfAcceptedStake
  ImplementsDvP
\* the clock is bounded: the model stops at MaxSlot
CHECK_DEADLOCK FALSE
