\* As KeyIndex_full: is a spent key recognised?
SPECIFICATION KeySpec
CONSTANTS
  Leaves = 128
  IndexSpace = 128
  FullHeightIs64 = FALSE
INVARIANT
  WipedIsSpent
