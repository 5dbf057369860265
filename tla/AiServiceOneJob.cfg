SPECIFICATION Spec
CONSTANTS
  u1 = u1
  u2 = u2
  u0 = u0
  silence = silence
  talk = talk
  sales = sales
  support = support
  NoText = NoText
  Nobody = Nobody
  NotRouted = NotRouted
  Failure = Failure
  Mailboxes = {sales, support}
  Ids = {1}
  Urls = {u0, u1, u2}
  Words <- TwoWords
  Keys = {}
  KeyId <- NoKeyId
  KeyUrl <- NoKeyUrl
  Skipped = {}
  Legacy = {1}
  Unparsable = {u0}
  Unprocessable = {}
  Unsendable = {}
  Configs <- ChangingConfig
  MaxRetries = 2
  OverflowStep = 2
  MaxLost = 2
  MaxCrashes = 2
  MaxRequeues = 2
INVARIANTS
  TypeOK
  OneAnswer
  AnswersTheRequest
  NoNeedlessResend
  RecordedRecipientsAreReal
  RetriesAreSpent
  HandsAreFresh
  MarksAreTrue
PROPERTIES
  SettledOnlyWhenTold
  ResultIsKept
  KeepsThePromise
