CONSTANTS
  Threads = {t1}
  Sites = {s1}
  Once = once
  None = none
  ManageFp = FALSE
  FlushBufSize = 2
  Blocking = TRUE
  Linger = FALSE
  MaxMsgs = 2
  MaxStarts = 1
SPECIFICATION Spec
CHECK_DEADLOCK FALSE
INVARIANTS CollectsAll
