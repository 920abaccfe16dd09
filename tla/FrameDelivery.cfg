SPECIFICATION FairSpec
CONSTANTS
  NumLines = 2
  Pixels <- TwoColours
  Black = 0
  MaxFrames = 2
  DisplayCanTurnOff = TRUE
INVARIANTS
  TypeOK
  NoFrameForgotten
  NoSleepThroughFrame
PROPERTIES
  LatestFrameShown
