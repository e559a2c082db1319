CONSTANTS
  Files = {f1, f2}
  NoFile = none
  Lengths = {1, 2}
  FlushBufSize = 4
  FlushDelay = 1
  FlushFirst = TRUE
  MaxLogs = 3
  MaxTime = 2
SPECIFICATION FileSpec
INVARIANTS InItsFile FilesInOrder NotKept PositionTold
