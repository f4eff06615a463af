SPECIFICATION FairSpec
CONSTANTS
  alice = alice
  carol = carol
  Orders <- TwoOrders
  TradeIds = {1}
  Bids = {b1}
  Policies = {p1}
  NoBid = NoBid
  NoPolicy = NoPolicy
  Torn = Torn
  LogRange = 2
  MaxBlocks = 3
  MaxFaults = 2
INVARIANTS
  IndexMatchesChain
  ListingsSound
PROPERTIES
  CatchesUp
\* a torn file stops the indexer
CHECK_DEADLOCK FALSE
