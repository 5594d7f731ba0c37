CONSTANTS
  Requests = {r1, r2, r3}
  FailureThreshold = 1
  FailureWindow = 2
  OpenDuration = 3
  HalfOpenProbeTimeout = 2
  MaxLockDelay = 1
  MaxClock = 5
SPECIFICATION Spec
PROPERTIES
  OnlyProbeCloses
CHECK_DEADLOCK FALSE
