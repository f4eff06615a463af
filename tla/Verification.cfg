SPECIFICATION VerifiedSpec
CONSTANTS
  s1 = s1
  s2 = s2
  t1 = t1
  u1 = u1
  alice = alice
  carol = carol
  bob = bob
  dave = dave
  app = app
  NoValidator = NoValidator
  NoAccount = NoAccount
  Market = Market
  Validators = {s1, t1, u1}
  Accounts <- MCAccounts
  WithdrawalAddress <- MCOwner
  CredsPrefix <- MCCredsPrefix
  ActivationEpoch <- MCActivation
  InitialBalance <- MCBalance
  OwnRequests = {}
  MayExit = {}
  MayBeSlashed = {}
  SlotsPerEpoch = 1
  StartSlot = 2
  MaxGap = 1
  RootsKept = 3
  ExitDelay = 1
  SlashDelay = 40
  SweepPeriod = 2
  CommitteePeriod = 1
  DequeueRate = 2
  QueueCap = 2
  Increment = 2
  MaxEffective = 4096
  FarFuture = 1000
  MaxSlot = 4
  Orders <- OneOffer
  Signed = {}
  Nonces = {1, 2, 3}
  Policies = {"none", "document", "identity"}
  Targets = {t1}
  Buyers = {bob, dave}
  Payers = {app}
  Funds <- MCFunds
  RefPrices = {}
  PriceUnit = 1
  Bps = 10
  MaxDust = 2
  MaxProofAge = 1
  DequeueDelay = 0
  MaxAcceptWindow = 1
  AcceptWindow = 1
  MaxTrades = 1
  Nullifiers = {pia, pat}
  Attestations <- MCAttestations
  RequiredCredential <- MCRequired
  pia = pia
  pat = pat
  jpn = jpn
  irn = irn
  Persons = {pia, pat}
  Wallets <- MCWallets
  Documents = {pia, pat}
  Countries = {jpn, irn}
  IssuedBy <- MCIssuedBy
  Sanctioned = {irn}
  Ttl = 2
  MaxIssued = 2
INVARIANTS
  EligibleByConsent
  SanctionedKeptOut
  DocumentServesOneAccount
  OverwrittenExpiryRestorable
PROPERTIES
  VerifiedOrdersReachHolders
\* the clock is bounded: the model stops at MaxSlot
CHECK_DEADLOCK FALSE
