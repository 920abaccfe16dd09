SPECIFICATION FairSpec
CONSTANTS
  QueueSize = 8
  Header = 1
  PayloadSizes <- SmallPayloads
  MaxTasks = 4
  CounterModulus = 64
INVARIANTS
  TypeOK
  LiveTasksIntact
  TransmittedInOrder
  NoLostWakeup
  BytesQueuedExact

PROPERTIES
  AllocTaskReturns
  EveryTaskRuns
  ImplementsFifo
