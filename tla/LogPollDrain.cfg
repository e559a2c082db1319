CONSTANTS
  Threads = {t1, t2}
  Sites = {s1}
  Once = once
  None = none
  ManageFp = TRUE
  FlushBufSize = 2
  Blocking = FALSE
  Linger = TRUE
  MaxMsgs = 2
  MaxStarts = 2
SPECIFICATION FairSpec
CHECK_DEADLOCK FALSE
INVARIANTS AllWritten
PROPERTIES HandledOnceSent
