\* Three layers of height 2, 13 chains (n = 2, w = 4) of length 4, tree numbers that take
\* two words.  The key ends after 63 signatures.
SPECIFICATION Spec
CONSTANTS
  TreeHeight = 2
  Layers = 3
  WotsLen = 13
  WotsW = 4
  Word = 4
CHECK_DEADLOCK FALSE
INVARIANTS
  AddressUsedOnce
  VerifierFindsRoot
  SameWots
