SPECIFICATION Spec
CONSTANTS
  Builds <- Polled
  Start = 40
  MaxTime = 75
  VsyncInterval = 2
  FrameInterval = 4
  IdleInterval = 6
  DeepInterval = 8
  IdleAge = 13
  DeepIdleAge = 20
  MaxSampleAge = 16
  SkipAge = 10
  HistogramSize = 3
  HistoryMaxSize = 2
  Throttles <- NoneOrLong
  MaxThrottle = 6
  MaxInterlaced = 2
  TimeModulus = 1000
  Uninitialized <- PastOrFuture
  MaxDelay = 1
CHECK_DEADLOCK FALSE
INVARIANT
  PolledAlways
