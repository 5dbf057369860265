SPECIFICATION Spec
CONSTANTS
  u1 = u1
  u2 = u2
  u0 = u0
  silence = silence
  talk = talk
  sales = sales
  support = support
  NoText = NoText
  Nobody = Nobody
  NotRouted = NotRouted
  Failure = Failure
  Mailboxes = {sales, support}
  Ids = {1}
  Urls = {u1}
  Words <- OneWord
  Keys = {}
  KeyId <- NoKeyId
  KeyUrl <- NoKeyUrl
  Skipped = {}
  Legacy = {}
  Unparsable = {}
  Unprocessable = {}
  Unsendable = {}
  Configs <- MovingMailbox
  MaxRetries = 2
  OverflowStep <- NoOverflow
  MaxLost = 0
  MaxCrashes = 1
  MaxRequeues = 0
INVARIANTS
  RecordedRecipientsAreReal
