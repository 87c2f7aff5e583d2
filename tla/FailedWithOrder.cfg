CONSTANTS
  s1 = s1
  s2 = s2
  c1 = c1
  c2 = c2
  w1 = w1
  w2 = w2
  r1 = r1
  r2 = r2
  None = None
  Signals = {s1}
  TradeIds = {1}
  Digests = {c1}
  Hash <- OneHash
  Qty = 3
  DryRun = FALSE
  LateArrival = FALSE
  BookStatuses = {"NEW", "PARTIALLY_FILLED", "FILLED", "CANCELED"}
  Submitters = {w1, w2}
  Reconcilers = {r1}
  Limit = 1
  AfterSubmitters = FALSE
  OneAtATime = FALSE
SPECIFICATION RSpec
CHECK_DEADLOCK FALSE
INVARIANTS
  FailedMeansNoOrder
