CONSTANTS
  Files = {f1, f2}
  NoFile = none
  Lengths = {1, 2}
  FlushBufSize = 4
  FlushDelay = 1
  FlushFirst = FALSE
  MaxLogs = 3
  MaxTime = 2
SPECIFICATION FileSpec
INVARIANTS PositionTold
