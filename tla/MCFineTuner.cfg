SPECIFICATION Spec
CONSTANTS
  Processes = {p1, p2}
  RunIds = {r1, r2}
  Tables <- MCTables
  Key <- MCKey
  Content <- MCContent
  Usable <- MCUsable
  ValidationTenths = 5
  TestTenths = 2
  MaxCases = 4
INVARIANTS ManifestMeansAdapter SplitsUsable
PROPERTY RunIsImmutable
SYMMETRY Symmetry
CHECK_DEADLOCK FALSE
