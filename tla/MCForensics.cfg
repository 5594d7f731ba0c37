SPECIFICATION Spec
CONSTANTS
  Spans <- MCSpans
  Parent <- MCParent
  Start <- MCStart
  StepIndex <- MCStepIndex
  Ends <- MCEnds
  Arbitration = {6}
  ConfidenceThreshold = 6
  ConfidenceDrop = 2
  Traces = {t1}
  Callers = {c1, c2}
  Root = 1
  Concurrent = {7, 8}
  ToolOf <- MCToolOf
  MaxCrashes = 1
INVARIANTS RegistryAgrees CollectorDrains CauseIsSpecific
PROPERTY FeedbackKept
CHECK_DEADLOCK FALSE
