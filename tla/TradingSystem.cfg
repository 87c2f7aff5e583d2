CONSTANTS
  s1 = s1
  s2 = s2
  c1 = c1
  c2 = c2
  p1 = p1
  p2 = p2
  i1 = i1
  i2 = i2
  r1 = r1
  None = None
  Signals = {s1}
  TradeIds = {1}
  Digests = {c1}
  Hash <- OneHash
  Qty = 1
  DryRun = FALSE
  LateArrival = FALSE
  BookStatuses = {"FILLED"}
  Submitters <- EveryWorker
  Reconcilers = {r1}
  Limit = 1
  AfterSubmitters = TRUE
  OneAtATime = TRUE
  Processes = {p1, p2}
  Restarted = {p1}
  Workers = {i1}
  QueueSize = 1
SPECIFICATION SystemLiveSpec
CHECK_DEADLOCK FALSE
INVARIANTS
  SystemTypeOK
  OneOrderPerSignal
  DrainedMeansNothingSent
PROPERTIES
  ImplementsExecutor
  EverySignalConcluded
