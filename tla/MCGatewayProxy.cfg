CONSTANTS
  Requests = {r1, r2, r3, r4}
  FailureThreshold = 2
  FailureWindow = 2
  OpenDuration = 3
  HalfOpenProbeTimeout = 2
  MaxLockDelay = 1
  MaxClock = 6
SPECIFICATION Spec
SYMMETRY Symmetry
INVARIANTS
  SlotTakenIffHalfOpen
  ThresholdCrosserFailsOver
  FallbackGetsWholeBody
PROPERTIES
  OpensOnRecentFailures
  OpensOnFreshFailures
  StaysOpen
  ProbesAreSpaced
CHECK_DEADLOCK FALSE
