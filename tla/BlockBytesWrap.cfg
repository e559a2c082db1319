CONSTANTS
  Word = 16
  Heap = 12
  MaxGroups = 2
  BlockCount = 1
  BlockSizes = {8}
  GroupSizes = {2}
  Wrapping = TRUE
SPECIFICATION Spec
CHECK_DEADLOCK FALSE
INVARIANTS BlocksApart
