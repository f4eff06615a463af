SPECIFICATION FairRelayerSpec
CONSTANTS
  s1 = s1
  s2 = s2
  t1 = t1
  u1 = u1
  alice = alice
  carol = carol
  bob = bob
  dave = dave
  app = app
  NoValidator = NoValidator
  NoAccount = NoAccount
  Market = Market
  Validators = {s1, t1, u1}
  Accounts <- MCAccounts
  WithdrawalAddress <- MCOwner
  CredsPrefix <- MCCredsPrefix
  ActivationEpoch <- MCActivation
  InitialBalance <- MCBalance
  OwnRequests = {}
  MayExit = {s1}
  MayBeSlashed = {s1}
  SlotsPerEpoch = 2
  StartSlot = 4
  MaxGap = 1
  RootsKept = 3
  ExitDelay = 4
  SlashDelay = 3
  SweepPeriod = 2
  CommitteePeriod = 1
  DequeueRate = 1
  QueueCap = 2
  Increment = 2
  MaxEffective = 4096
  FarFuture = 1000
  MaxSlot = 16
  Orders <- OneOffer
  Signed <- OneOffer
  Nonces = {1, 2, 3}
  Policies = {}
  Targets = {t1}
  Buyers = {bob}
  Payers = {app}
  Funds <- MCFunds
  RefPrices = {}
  PriceUnit = 1
  Bps = 10
  MaxDust = 2
  MaxProofAge = 1
  DequeueDelay = 1
  MaxAcceptWindow = 5
  AcceptWindow = 5
  MaxTrades = 1
  Nullifiers = {}
  Attestations = {}
  RequiredCredential <- MCRequired
  MaxOutage = 2
  MaxFaults = 1
  MaxSent = 2
INVARIANTS
  ProofsPass
PROPERTIES
  AcceptedNotRefunded
  RelaysProvableAcceptance
  RelayerReleasesEscrow
\* the clock is bounded: the model stops at MaxSlot
CHECK_DEADLOCK FALSE
