SPECIFICATION Spec
CONSTANTS
  FrameWidth = 5
  FrameHeight = 3
  Threshold = 1
  MaxTaskPixels = 7
  Group = 2
  Align = 2
  BehindMayDiffer = FALSE
INVARIANTS
  RectanglesWellFormed
