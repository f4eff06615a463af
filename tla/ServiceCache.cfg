SPECIFICATION Spec
CONSTANTS
  s1 = s1
  s2 = s2
  s3 = s3
  t1 = t1
  NoPair = NoPair
  LocalRoot = LocalRoot
  Validators = {s1, s2, s3, t1}
  Personas = {s1, t1}
  CredsPrefix <- MCPrefix
  InitialBalance <- MCBalance
  BaseSlot = 3
  Fills <- LateFill
  Checkpoints <- One
  ReplayPair = NoPair
  ReplayWithdrawable = 6
  SlotsPerEpoch = 2
  ExitLookahead = 1
  WithdrawabilityDelay = 2
  RingLength = 64
  Increment = 2
  MinActivation = 64
  MaxEffective = 4096
  MaxDust = 2
  FarFuture = 1000
  MaxTime = 5
  MaxFailures = 1
INVARIANTS
  CachedProofsAreBase
\* every request is answered in the end
CHECK_DEADLOCK FALSE
