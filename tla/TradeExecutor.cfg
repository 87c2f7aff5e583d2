CONSTANTS
  p1 = p1
  p2 = p2
  i1 = i1
  i2 = i2
  None = None
  Processes = {p1, p2}
  Restarted = {p1}
  Workers = {i1, i2}
  Trades = {1, 2}
  QueueSize = 1
SPECIFICATION ELiveSpec
INVARIANTS
  ETypeOK
  UnfinishedCounts
  DrainedMeansDone
  OneSubmitter
PROPERTIES
  EveryTradeGoesOut
