CONSTANTS
  t1 = t1
  t2 = t2
  t3 = t3
  Tasks = {t1, t2, t3}
  DB_POOL_SIZE = 1
  DB_MAX_OVERFLOW = 1
SPECIFICATION PoolLiveSpec
CHECK_DEADLOCK FALSE
INVARIANTS
  PoolTypeOK
  NothingLeaks
  RecordsWithoutWaiting
PROPERTIES
  EveryoneServed
