CONSTANTS
  Threads = {t1}
  Sites = {s1}
  Once = once
  None = none
  ManageFp = TRUE
  FlushBufSize = 3
  Blocking = FALSE
  Linger = TRUE
  MaxMsgs = 2
  MaxStarts = 1
SPECIFICATION Spec
CHECK_DEADLOCK FALSE
INVARIANTS ForceFlushes
