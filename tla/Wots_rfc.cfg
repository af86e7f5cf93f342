\* The two values of w that RFC parameter sets use, digests of 32 bytes.
SPECIFICATION Spec
CONSTANTS
  N = 32
  Ws = {4, 16}
  Bytes = {0, 1, 51, 128, 254, 255}
  Fills = {0, 51, 85, 255}
CHECK_DEADLOCK FALSE
INVARIANTS
  FitsItsDigestOnly
  ChecksumKept
  DigestsIncomparable
