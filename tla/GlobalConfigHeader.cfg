CONSTANTS
  Threads = {t1}
  Nothing = nothing
  MaxSets = 1
  MaxGets = 0
  MaxFails = 0
  MaxQueue = 1
SPECIFICATION Spec
CHECK_DEADLOCK FALSE
INVARIANTS WholeHeader
