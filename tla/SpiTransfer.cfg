SPECIFICATION FairSpec
CONSTANTS
  Builds = {"thread_polled", "thread_dma", "single_polled", "single_dma", "kernel"}
  TaskKinds <- MCTaskKinds
  ExitTasks <- MCExitTasks
  MaxTasks = 2
  FifoSize = 3
  RxNeedsReading = 2
  DmaIsFaster = 4
  MinDma = 3
  MaxChunk = 3
  SourceSize = 12
  NumCbs = 10
  PumpLimit = 1
INVARIANTS
  TypeOK
  TasksSentInOrder
  SleepsWithBusIdle
  FreedMemoryIdle
PROPERTIES
  TasksRun
  QuitEnds
