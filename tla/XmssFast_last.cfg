\* The signature of the last index, in a small tree.
SPECIFICATION Spec
CONSTANTS
  TreeHeight = 4
  UINT_SPACE = 65536
  BdsKs = {0}
  IndexSpace = 32
  Garbage = {0, 255}
INVARIANTS
  EverySignatureVerifies
