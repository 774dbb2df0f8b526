\* Up to three queries, two workers at a time; anything may fail.
CONSTANTS
  Queries <- MustOrStop
  MaxQueries = 3
  Requests = {TRUE, FALSE}
  Answers <- Points
  nParalell = 2
  WaitSeconds = 0
  MayFail = TRUE
SPECIFICATION Spec
INVARIANTS
  TypeOK
  QueueMatchesRunning
  WorkersJoined
  StopMeansStop
  NothingLost
PROPERTIES
  RequestReturns
  ConnectionsComeBack
