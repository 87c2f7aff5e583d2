CONSTANTS
  s1 = s1
  s2 = s2
  c1 = c1
  c2 = c2
  w1 = w1
  w2 = w2
  r1 = r1
  r2 = r2
  None = None
  Signals = {s1}
  TradeIds = {1}
  Digests = {c1}
  Hash <- OneHash
  Qty = 1
  DryRun = FALSE
  LateArrival = TRUE
  BookStatuses = {"NEW", "FILLED"}
  Submitters = {w1}
  Reconcilers = {r1, r2}
  Limit = 1
  AfterSubmitters = FALSE
  OneAtATime = FALSE
SPECIFICATION LiveSpec
CHECK_DEADLOCK FALSE
INVARIANTS
  RTypeOK
  OneOrderPerSignal
  RefusalMeansNoOrder
  NeverAheadOfExchange
PROPERTIES
  DoubtEnds
