SPECIFICATION FairSpec
CONSTANTS
  TaskSize = 2
  Capacity = 3
  TasksPerFrame = 1
  MaxFrames = 1
  MaxSignals = 1
  SnapshotMayFail = TRUE
INVARIANTS
  TypeOK
  QueueSoundWhileRunning
  TwoFramesPending
PROPERTIES
  MainStopsWaiting
  QuitsWhenIdle
CHECK_DEADLOCK FALSE
