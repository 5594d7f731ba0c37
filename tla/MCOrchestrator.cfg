SPECIFICATION FairSpec
CONSTANTS
  Runs = {r1}
  Critics = {factual, logic, completeness}
  RetryAttempts = 2
  Sessions = {s1}
  LoggingEnabled = TRUE
  Requests <- EveryRequest
INVARIANT DraftIsReviewed
INVARIANT SuccessIsEarned
INVARIANT MemoryHoldsDelivered
INVARIANT RowHoldsVerdict
PROPERTY VerdictSticks
PROPERTY FeedbackSticks
PROPERTY RunEnds
CHECK_DEADLOCK FALSE
