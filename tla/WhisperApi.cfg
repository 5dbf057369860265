SPECIFICATION FairApiSpec
CONSTANTS
  Retries = 3
  Deadline = 4
  ProgressInterval = 2
  BackoffBase = 1
  BackoffCap = 2
  Pieces = 3
  Offline = FALSE
  LocalModel = FALSE
  MaxKills = 1
  Connections = {r1, r2, r3}
  PoolSize = 2
INVARIANTS
  ApiTypeOK
  OneAtATime
  ReadyIsTrue
  DeadlineHolds
  GivesUpOnlyWhenSpent
PROPERTIES
  RequestsEnd
  ModelIsLoaded
