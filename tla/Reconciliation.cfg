CONSTANTS
  s1 = s1
  s2 = s2
  c1 = c1
  c2 = c2
  w1 = w1
  w2 = w2
  r1 = r1
  r2 = r2
  None = None
  Signals = {s1, s2}
  TradeIds = {1, 2}
  Digests = {c1, c2}
  Hash <- DistinctHash
  Qty = 2
  DryRun = FALSE
  LateArrival = FALSE
  BookStatuses = {"NEW", "PENDING_NEW", "PARTIALLY_FILLED", "FILLED", "CANCELED"}
  Submitters = {w1, w2}
  Reconcilers = {r1}
  Limit = 2
  AfterSubmitters = TRUE
  OneAtATime = TRUE
SPECIFICATION RSpec
CHECK_DEADLOCK FALSE
INVARIANTS
  TypeOK
  IInv
  WriteAhead
  SettledMatchesExchange
  MirrorNeverAhead
PROPERTIES
  TerminalIsFinal
  ImplementsLedger
