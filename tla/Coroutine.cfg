CONSTANTS
  Threads = {t1, t2, t3}
  Coroutines = {c1, c2}
  Main = Main
  MaxJobs = 2
  TrustFlag = FALSE
SPECIFICATION FairSpec
CHECK_DEADLOCK FALSE
INVARIANTS CurrentIsStack OneRunner LostOnlyPastEnd RunsItsCallBack CallBackKept
PROPERTIES AbstractSpec ResumeReturns
