SPECIFICATION FairStackSpec
CONSTANTS
  Retries = 1
  Deadline = 2
  ProgressInterval = 2
  BackoffBase = 1
  BackoffCap = 3
  Pieces = 1
  Offline = FALSE
  LocalModel = FALSE
  MaxKills = 0
  ProbeRetries = 3
CHECK_DEADLOCK FALSE
PROPERTIES
  AiServiceStarts
