\* All 77 parameter sets and an unknown one, both implementations.
SPECIFICATION FairSpec
CONSTANTS
  Chunk = 2
  Leaves = 3
  MaxKeys = 2
INVARIANTS
  Filled
  ParamsAsNamed
  LayoutExact
  OpenExact
PROPERTIES
  FileInPlace
  KeypairEnds
