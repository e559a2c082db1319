CONSTANTS
  Threads = {t1, t2}
  NoThread = NoThread
  NoBlock = NoBlock
  Regions = {r1, r2, r3}
  GroupSize = 2
  BlockCount = 4
  CounterMax = 15
  MaxUsed = 4
  Quiescent = FALSE
SPECIFICATION FairSpec
INVARIANT AllCountExact
PROPERTIES IndexKept LockReleased
