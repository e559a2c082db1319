CONSTANTS
  N = 2
  Size = 5
  Stride = 5
  Depth = 1
SPECIFICATION Spec
INVARIANTS Restored StackKept EntryByTheABI
PROPERTY SwitchSpec
