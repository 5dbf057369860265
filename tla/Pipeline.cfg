SPECIFICATION PipelineSpec
CONSTANTS
  silence = silence
  talk = talk
  sales = sales
  first = first
  second = second
  http = http
  slash = slash
  text = text
  NoText = NoText
  Nobody = Nobody
  NotRouted = NotRouted
  Failure = Failure
  Mailboxes = {sales}
  Ids = {1}
  Urls = {first, second, http, slash}
  Spelling <- Spellings
  Words <- AllWords
  Silence = silence
  Keys = {1, 2}
  Bucket <- TheBucket
  KeyName <- TwoNames
  KeyId <- TwoKeyIds
  KeyUrl <- TwoUrls
  Contents <- AllContents
  SummaryEnabled = TRUE
  Skipped = {2}
  Legacy = {}
  Unparsable <- RejectedUrls
  Unprocessable <- StuckUrls
  Unsendable = {}
  Configs <- OnlyEmail
  MaxRetries = 2
  OverflowStep <- NoOverflow
  MaxLost = 0
  MaxCrashes = 1
  MaxRequeues = 1
INVARIANTS
  PipelineTypeOK
  SeenObjectsHaveJobs
  FetchesWhatWasListed
  AnswersFitTheRecording
  FailuresHaveCauses
PROPERTIES
  OnlyRequestsRevive
  ImplementsTheService
