SPECIFICATION FairSpec
CONSTANTS
  TaskSize = 2
  Capacity = 2
  TasksPerFrame = 1
  MaxFrames = 1
  MaxSignals = 1
  SnapshotMayFail = FALSE
PROPERTIES
  SpiThreadQuits
CHECK_DEADLOCK FALSE
