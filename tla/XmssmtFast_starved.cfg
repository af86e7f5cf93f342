\* Four layers of height 3: more layers than updates per signature serve.
SPECIFICATION Spec
CONSTANTS
  TreeHeight = 3
  Layers = 4
  UINT_SPACE = 65536
  BdsKs = {0}
  IndexSpace = 8192
  Garbage = {0, 255}
INVARIANTS
  SignaturesVerify
