\* Runs may be killed; the key takes more than one block (fast XMSSMT), and the
\* index field has values to spare (XMSSMT heights 20 and 60).
SPECIFICATION Spec
CONSTANTS
  Runs = {r1, r2, r3, r4}
  Leaves = 3
  IndexSpace = 5
  FullHeightIs64 = FALSE
  SkBlocks = 2
  SigBlocks = 2
  MayOverlap = FALSE
  MayCrash = TRUE
CHECK_DEADLOCK FALSE
INVARIANTS
  TypeOK
  NoKeyReuse
  SavedBeforeReleased
  ReleasedVerifies
PROPERTIES
  IndexNeverGoesBack
