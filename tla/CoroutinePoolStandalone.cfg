CONSTANTS
  Threads = {t1, t2}
  Nobody = Nobody
  Absent = Absent
  Block = {b1, b2, b3}
  PoolSize = 1
  MaxSlots = 3
  MaxOthers = 1
  Mixed = TRUE
  Unlocked = FALSE
SPECIFICATION Spec
INVARIANTS IdIsIndex
