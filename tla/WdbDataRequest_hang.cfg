\* A minimum prognosis length, and an answer with constant fields only.
CONSTANTS
  Queries <- Mixed
  MaxQueries = 1
  Requests = {FALSE}
  Answers <- WithConstants
  nParalell = 1
  WaitSeconds = 1
  MayFail = FALSE
SPECIFICATION Spec
PROPERTY RequestReturns
CHECK_DEADLOCK FALSE
