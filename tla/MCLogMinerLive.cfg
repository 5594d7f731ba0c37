CONSTANTS
  Workers = {w1, w2}
  s1 = s1
  f1 = f1
  Seeds <- MCSeeds
  FingerprintOf <- MCFingerprintOf
  LeaseTTL = 1
  MaxRuns = 2
  NoWorker = NoWorker
SPECIFICATION FairSpec
PROPERTIES
  RunningRunEnds
CHECK_DEADLOCK FALSE
