SPECIFICATION Spec
CONSTANTS
  Debounce = 1
  StartupTimeout = 36
  Probation = 3
  RasterFailures = 3
  ProbeInterval = 1
  MaxProbeInterval = 12
  MissedProbes = 2
  MaxAttempts = 5
  LossWindow = 120
  MaxLosses = 3
  HoldCap = 48
  Policies = {"restart"}
  WedgeAfter = 12
  MaxEvents = 1
  MaxPosted = 1
PROPERTY
  NotExhaustedInQueue
CHECK_DEADLOCK FALSE
