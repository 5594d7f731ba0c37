SPECIFICATION Spec
CONSTANTS
  DocOf <- MCDocOf
  Generated <- MCGenerated
  Diffs <- MCDiffs
  DocStates <- MCDocStates
  TopK = 2
  MaxCandidates = 2
  MaxPushes = 2
  MaxJobs = 2
INVARIANT ChangesAccounted
PROPERTIES PushIsWhole PushOnAnalysedHead HeadingsKept
CHECK_DEADLOCK FALSE
