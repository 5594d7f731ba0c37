SPECIFICATION GateSpec
CONSTANTS
  GoldenTables <- MCTables
  ScopeOf <- MCScopeOf
  ModeOf <- MCModeOf
  JudgeScores <- MCJudgeScores
  PassThreshold = 800000
  MaxDrop = 30000
  MinAccuracy = 900000
INVARIANTS GateIsSound GateIsFair
CHECK_DEADLOCK FALSE
