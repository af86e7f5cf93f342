\* Both implementations, three layers of height 3.
SPECIFICATION BothSpec
CONSTANTS
  TreeHeight = 3
  Layers = 3
  UINT_SPACE = 65536
  BdsKs = {0, 1}
  IndexSpace = 1024
  Garbage = {0, 255}
INVARIANTS
  SameAnswers
  SignaturesVerify
PROPERTIES
  ImplementsSigner
