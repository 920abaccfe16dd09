SPECIFICATION FairSpec
CONSTANTS
  FrameWidth = 4
  FrameHeight = 3
  Threshold = 1
  MaxTaskPixels = 7
  Group = 2
  Align = 2
  BehindMayDiffer = FALSE
INVARIANTS
  TypeOK
  ChangesCovered
  SpansWellFormed
  SpansInOrder
PROPERTIES
  DiffEnds
