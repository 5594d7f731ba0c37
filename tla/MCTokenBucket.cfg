CONSTANTS
  Callers = {c1, c2}
  Capacity = 2
  TokenUnits = 3
  SecondTicks = 2
  MinimumTTL = 1
  MaxNow = 15
SPECIFICATION BucketSpec
SYMMETRY Symmetry
INVARIANTS
  RateIsBounded
  RetryAfterSuffices
