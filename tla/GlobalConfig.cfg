CONSTANTS
  Threads = {t1, t2, t3}
  Nothing = nothing
  MaxSets = 2
  MaxGets = 2
  MaxFails = 1
  MaxQueue = 1
SPECIFICATION FairSpec
CHECK_DEADLOCK FALSE
INVARIANT PoolUpToDate
PROPERTIES HeaderSettled CallsEnd
