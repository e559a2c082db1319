CONSTANTS
  Word = 16
  Heap = 12
  MaxGroups = 3
  BlockCount = 2
  BlockSizes = {1, 2, 3}
  GroupSizes = {1, 2, 4}
  Wrapping = FALSE
SPECIFICATION Spec
CHECK_DEADLOCK FALSE
INVARIANTS BlocksApart FlagsExact
