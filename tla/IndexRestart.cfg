SPECIFICATION Spec
CONSTANTS
  alice = alice
  carol = carol
  Orders <- TwoOrders
  TradeIds = {1}
  Bids = {b1}
  Policies = {p1}
  NoBid = NoBid
  NoPolicy = NoPolicy
  Torn = Torn
  LogRange = 2
  MaxBlocks = 2
  MaxFaults = 1
INVARIANTS
  RestartsResume
\* a torn file stops the indexer
CHECK_DEADLOCK FALSE
