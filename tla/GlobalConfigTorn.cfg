CONSTANTS
  Threads = {t1, t2}
  Nothing = nothing
  MaxSets = 2
  MaxGets = 1
  MaxFails = 0
  MaxQueue = 0
SPECIFICATION Spec
CHECK_DEADLOCK FALSE
INVARIANTS SizesOfOneCall
