SPECIFICATION Spec
CONSTANTS
  Requests <- MCRequests
  RequestOf <- MCRequestOf
  Similar <- MCSimilar
  Rows <- MCRows
  TTL = 1
  MaxTime = 2
INVARIANTS ServedIsOwn ComplexBypasses
PROPERTY ServedIsFresh
CHECK_DEADLOCK FALSE
