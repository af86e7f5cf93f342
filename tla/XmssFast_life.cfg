\* The shape of XMSS-SHA2_10_256 and its kin, and the bds_k that suit it.
SPECIFICATION Spec
CONSTANTS
  TreeHeight = 10
  UINT_SPACE = 65536
  BdsKs = {0, 1, 2, 4, 6, 8, 10}
  IndexSpace = 65536
  Garbage = {0, 255}
INVARIANTS
  SignaturesVerify
  StackIsTailNodes
  InBounds
PROPERTIES
  ImplementsSigner
