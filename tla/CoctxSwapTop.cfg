CONSTANTS
  N = 1
  Size = 6
  Stride = 6
  Depth = 1
SPECIFICATION Spec
PROPERTIES OwnStackOnly
