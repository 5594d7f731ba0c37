CONSTANTS
  Workers = {w1, w2}
  s1 = s1
  s2 = s2
  f1 = f1
  Seeds <- MCSeeds
  FingerprintOf <- MCFingerprintOf
  LeaseTTL = 2
  MaxRuns = 2
  NoWorker = NoWorker
SPECIFICATION Spec
SYMMETRY Symmetry
INVARIANTS
  OneRunningRun
  PromotedIffGolden
PROPERTIES
  LedgerSpec
  CompletedRunKeepsItsSeeds
  CompletedRunCountsItsRows
CHECK_DEADLOCK FALSE
