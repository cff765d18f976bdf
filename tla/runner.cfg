SPECIFICATION Spec
CONSTANTS
  Debounce = 1
  StartupTimeout = 1
  Probation = 1
  RasterFailures = 2
  ProbeInterval = 1
  MaxProbeInterval = 2
  MissedProbes = 2
  MaxAttempts = 2
  LossWindow = 1
  MaxLosses = 1
  HoldCap = 2
  WedgeAfter = 2
  Policies = {"restart", "exit", "log"}
  MaxEvents = 2
  MaxPosted = 1
INVARIANTS
  TypeOK
  FrameCallbackArmedOnce
  WatchingTicks
  NoEngineAfterQuit
PROPERTIES
  StartupNotInterrupted
  RendererWatched
  QueuedRebuildRuns
  StopReturns
CHECK_DEADLOCK FALSE
