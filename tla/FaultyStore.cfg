SPECIFICATION FaultySpec
CONSTANTS
  url = url
  silence = silence
  talk = talk
  sales = sales
  NoText = NoText
  Nobody = Nobody
  NotRouted = NotRouted
  Failure = Failure
  Mailboxes = {sales}
  Ids = {1, 2}
  Urls = {url}
  Words <- TwoWords
  Keys = {2}
  KeyId <- SameId
  KeyUrl <- SameUrl
  Skipped = {}
  Legacy = {}
  Unparsable = {}
  Unprocessable = {}
  Unsendable = {2}
  Configs <- Both
  MaxRetries = 1
  OverflowStep <- NoOverflow
  MaxLost = 0
  MaxCrashes = 1
  MaxRequeues = 0
  MaxFaults = 2
SYMMETRY SameWords
INVARIANTS
  FaultyTypeOK
  DurableIsWhole
  ThreadsShareOneView
  DurablyClosedIsTold
  EachFaultCostsOnce
PROPERTIES
  DurableResultIsKept
