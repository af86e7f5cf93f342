\* The index field can hold more than the last index (XMSS, h < 8*index_bytes).
SPECIFICATION KeySpec
CONSTANTS
  Leaves = 128
  IndexSpace = 256
  FullHeightIs64 = FALSE
INVARIANTS
  KeyTypeOK
  OneTimeUse
  WipedIsSpent
PROPERTIES
  RefusalIsFinal
  ImplementsSigner
