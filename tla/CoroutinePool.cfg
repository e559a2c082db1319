CONSTANTS
  Threads = {t1, t2, t3}
  Nobody = Nobody
  Absent = Absent
  Block = {b1, b2, b3}
  PoolSize = 0
  MaxSlots = 3
  MaxOthers = 1
  Mixed = FALSE
  Unlocked = FALSE
SPECIFICATION FairSpec
INVARIANTS IdIsIndex StacksDisjoint
PROPERTIES PoolSpec GrowthEnds
