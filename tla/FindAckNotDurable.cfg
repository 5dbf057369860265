SPECIFICATION FaultySpec
CONSTANTS
  url = url
  silence = silence
  talk = talk
  sales = sales
  NoText = NoText
  Nobody = Nobody
  NotRouted = NotRouted
  Failure = Failure
  Mailboxes = {sales}
  Ids = {1}
  Urls = {url}
  Words <- OneWord
  Keys = {1}
  KeyId <- SameId
  KeyUrl <- SameUrl
  Skipped = {}
  Legacy = {}
  Unparsable = {}
  Unprocessable = {}
  Unsendable = {}
  Configs <- OnlyEmail
  MaxRetries = 1
  OverflowStep <- NoOverflow
  MaxLost = 0
  MaxCrashes = 1
  MaxRequeues = 0
  MaxFaults = 1
INVARIANTS
  AcceptedIsDurable
