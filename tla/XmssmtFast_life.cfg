\* Three layers of height 5, the tree height of XMSSMT 20/4, 40/8 and 60/12.
SPECIFICATION Spec
CONSTANTS
  TreeHeight = 5
  Layers = 3
  UINT_SPACE = 65536
  BdsKs = {0, 1, 3}
  IndexSpace = 65536
  Garbage = {0, 255}
INVARIANTS
  SignaturesVerify
  StackContents
  InBounds
PROPERTIES
  OneMessagePerKey
  ImplementsSigner
  ImplementsBudget
