\* w = 256, which xmss_xmssmt_initialize_params accepts too.
SPECIFICATION Spec
CONSTANTS
  N = 32
  Ws = {256}
  Bytes = {0, 1, 51, 128, 254, 255}
  Fills = {0, 51, 85, 255}
CHECK_DEADLOCK FALSE
INVARIANTS
  ChecksumKept
