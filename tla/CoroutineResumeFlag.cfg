CONSTANTS
  Threads = {t1, t2}
  Coroutines = {c1, c2}
  Main = Main
  MaxJobs = 2
  TrustFlag = FALSE
SPECIFICATION Spec
CHECK_DEADLOCK FALSE
INVARIANT ResumableWhenFlagged
