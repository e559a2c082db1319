CONSTANTS
  Threads = {t1, t2, t3}
  NoThread = NoThread
  NoBlock = NoBlock
  Regions = {r1, r2, r3, r4}
  GroupSize = 2
  BlockCount = 1
  CounterMax = 15
  MaxUsed = 6
  Quiescent = TRUE
SPECIFICATION Spec
SYMMETRY Symmetry
INVARIANTS Ownership UseCountExact CapacityBound
PROPERTY AllocatorSpec
