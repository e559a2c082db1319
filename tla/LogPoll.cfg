CONSTANTS
  Threads = {t1, t2, t3}
  Sites = {s1}
  Once = once
  None = none
  ManageFp = TRUE
  FlushBufSize = 2
  Blocking = FALSE
  Linger = TRUE
  MaxMsgs = 3
  MaxStarts = 2
SPECIFICATION Spec
SYMMETRY Symmetry
CHECK_DEADLOCK FALSE
INVARIANTS SiteOfId SortedInPoll NodesLive AllWritten
