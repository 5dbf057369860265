--------------------------- MODULE PipelineProofs ----------------------------
(***************************************************************************)
(* Proofs about Pipeline: taken apart into its calls, the processing of a  *)
(* job is still one of the behaviours of AiService - so everything proved  *)
(* of AiService holds of it - what it downloads for a scanned key is the   *)
(* object the scanner listed, no failure is told without its causes,       *)
(* and it is answered with what that recording says.                       *)
(***************************************************************************)
EXTENDS Pipeline, RecordUrlProofs, PromiseProofs, RowProofs

\* between whisper-api's answer and set_result a transcription is at hand
HeardInv == call \in {"summarize", "store"} => heard \in Words

\* the pipeline is only entered with a URL that parses
ParsedInv == pc = "work" => hand.row.url \notin Unparsable

-----------------------------------------------------------------------------
(* The refinement.                                                         *)

LEMMA WordsAreWords ==
  ASSUME NEW u
  PROVE  WordsOf(u) \subseteq Words
BY PipelineAssumption DEF WordsOf

LEMMA HeardStep ==
  ASSUME HeardInv, [PipelineNext]_pipelineVars
  PROVE  HeardInv'
<1>1. CASE Calls
  <2>1. CASE NameFile
    BY <2>1 DEF NameFile, Proceed, Interrupted, CallsEnd, HeardInv
  <2>2. CASE Download
    BY <2>2 DEF Download, Proceed, Interrupted, Blamed, CallsEnd, HeardInv
  <2>3. CASE AskWhisper
    <3>1. CASE Interrupted \/ Blamed
      BY <3>1 DEF Interrupted, Blamed, CallsEnd, HeardInv
    <3>2. CASE \E w \in WordsOf(hand.row.url) : Proceed(AfterWords(w)) /\ heard' = w
      BY <3>2, WordsAreWords DEF HeardInv
    <3> QED
      BY <2>3, <3>1, <3>2 DEF AskWhisper
  <2>4. CASE AskLlm
    <3>1. CASE Interrupted \/ Blamed
      BY <3>1 DEF Interrupted, Blamed, CallsEnd, HeardInv
    <3>2. CASE Processing("summarize") /\ Proceed("store") /\ UNCHANGED heard
      BY <3>2 DEF Processing, Proceed, HeardInv
    <3> QED
      BY <2>4, <3>1, <3>2 DEF AskLlm
  <2>5. CASE StoreResult
    BY <2>5 DEF StoreResult, CallsEnd, HeardInv
  <2> QED
    BY <1>1, <2>1, <2>2, <2>3, <2>4, <2>5 DEF Calls
<1>2. CASE OtherWork \/ OtherThreads
  BY <1>2 DEF OtherWork, OtherThreads, callVars, HeardInv
<1>3. CASE Crash
  BY <1>3 DEF Crash, CallsEnd, HeardInv
<1>4. CASE UNCHANGED pipelineVars
  BY <1>4 DEF pipelineVars, callVars, HeardInv
<1> QED
  BY <1>1, <1>2, <1>3, <1>4 DEF PipelineNext

\* Every call and every outcome is a step of the service or changes nothing of it.
LEMMA CallsAreWork ==
  ASSUME HeardInv, Calls
  PROVE  [Next]_vars
<1>1. ASSUME NEW c, Proceed(c)
      PROVE  [Next]_vars
  BY <1>1 DEF Proceed
<1>2. ASSUME Interrupted
      PROVE  Next
  BY <1>2 DEF Interrupted, Next, Work, WorkerNext
<1>3. ASSUME Blamed
      PROVE  Next
  BY <1>3 DEF Blamed, Next, Work, WorkerNext
<1>4. CASE NameFile
  BY <1>1, <1>2, <1>4 DEF NameFile
<1>5. CASE Download
  BY <1>1, <1>2, <1>3, <1>5 DEF Download
<1>6. CASE AskWhisper
  BY <1>1, <1>2, <1>3, <1>6 DEF AskWhisper
<1>7. CASE AskLlm
  BY <1>1, <1>2, <1>3, <1>7 DEF AskLlm
<1>8. CASE StoreResult
  <2>1. heard \in Words
    BY <1>8 DEF StoreResult, Processing, HeardInv
  <2>2. \E w \in Words : Transcribe(w)
    BY <1>8, <2>1 DEF StoreResult
  <2> QED
    BY <1>8, <2>2 DEF StoreResult, Next, Work, WorkerNext
<1> QED
  BY <1>4, <1>5, <1>6, <1>7, <1>8 DEF Calls

\* Worker._process call by call is one of the workers AiService allows: each outcome of
\* a download, a transcription or a summary is one of the three the worker model knows.
THEOREM PipelineImplementsTheService == PipelineSpec => ImplementsTheService
<1>1. PipelineInit => Init /\ HeardInv
  BY DEF PipelineInit, HeardInv
<1>2. HeardInv /\ [PipelineNext]_pipelineVars => HeardInv'
  BY HeardStep
<1>3. HeardInv /\ [PipelineNext]_pipelineVars => [Next]_vars
  <2> SUFFICES ASSUME HeardInv, [PipelineNext]_pipelineVars
               PROVE  [Next]_vars
    OBVIOUS
  <2>1. CASE Calls
    BY <2>1, CallsAreWork
  <2>2. CASE OtherWork \/ OtherThreads \/ Crash
    BY <2>2 DEF OtherWork, OtherThreads, Requests, Crash, Post, Next
  <2>3. CASE UNCHANGED pipelineVars
    BY <2>3 DEF pipelineVars
  <2> QED
    BY <2>1, <2>2, <2>3 DEF PipelineNext
<1> QED
  BY <1>1, <1>2, <1>3, PTL DEF PipelineSpec, ImplementsTheService, Spec

\* Call by call, with every failure a call can meet, the pipeline still keeps the promise
\* of the job queue: the two refinements compose.
THEOREM PipelineKeepsThePromise == PipelineSpec => KeepsThePromise
<1>1. PipelineSpec => Spec
  BY PipelineImplementsTheService DEF ImplementsTheService
<1> QED
  BY <1>1, ServiceKeepsThePromise
-----------------------------------------------------------------------------
(* What is fetched.                                                        *)

\* Only StartProcessing leads into the pipeline, and only with a URL that parses.
LEMMA ParsedStep ==
  ASSUME ParsedInv, [Next]_vars
  PROVE  ParsedInv'
<1>1. CASE Work
  <2>1. CASE StartProcessing
    BY <2>1 DEF StartProcessing, ParsedInv
  <2>2. CASE ReadDelivering \/ Deliver \/ SendAccepted \/ Mark \/ Route \/ DeliveriesDone \/ Pick
    BY <2>2 DEF ReadDelivering, Deliver, SendAccepted, Mark, Route, DeliveriesDone, Pick, ParsedInv
  <2>3. CASE SendAckLost \/ SendRefused \/ SettleFailed \/ SettleDone
    BY <2>3 DEF SendAckLost, SendRefused, SettleFailed, SettleDone, NextOfBatch, ParsedInv
  <2>4. CASE SendBreaks \/ PickNothing \/ WorkInterrupted
    <3>1. pc' \in {"cycle", "dead"}
      BY <2>4 DEF SendBreaks, PickNothing, WorkInterrupted, CycleRaises, CycleReturns
    <3> QED
      BY <3>1 DEF ParsedInv
  <2>5. CASE \E w \in Words : Transcribe(w)
    BY <2>5 DEF Transcribe, CycleReturns, ParsedInv
  <2>6. CASE PermanentError
    <3>1. pc' \in {"giveup", "again"}
      BY <2>6 DEF PermanentError
    <3> QED
      BY <3>1 DEF ParsedInv
  <2>7. CASE TryAgainLater \/ GiveUp
    BY <2>7 DEF TryAgainLater, GiveUp, CycleReturns, ParsedInv
  <2> QED
    BY <1>1, <2>1, <2>2, <2>3, <2>4, <2>5, <2>6, <2>7 DEF Work, WorkerNext
<1>2. CASE Post
  BY <1>2 DEF Post, PostNew, PostFailed, PostKnown, workerVars, threadVars, ParsedInv
<1>3. CASE Scan \/ Arrive
  BY <1>3 DEF Scan, Arrive, workerVars, threadVars, ParsedInv
<1>4. CASE \E next \in Configs : Restart(next)
  BY <1>4 DEF Restart, WorkerRestarts, ParsedInv
<1>5. CASE UNCHANGED vars
  BY <1>5 DEF vars, workerVars, threadVars, ParsedInv
<1> QED
  BY <1>1, <1>2, <1>3, <1>4, <1>5 DEF Next

LEMMA ListedIsRecorded ==
  ASSUME NEW k \in Keys, KeyUrl[k] \notin Unparsable
  PROVE  Recording[KeyUrl[k]].key = KeyName[k]
<1>1. KeyUrl[k] \in Urls \ Unparsable
  BY KeysAssumption
<1>2. Recording[KeyUrl[k]] = RecordingOf(ObjectUrl(Bucket, KeyName[k]))
  BY <1>1, UrlsAssumption DEF Recording
<1>3. Bucket \in Quoted /\ KeyName[k] \in Keyed /\ KeyName[k] # <<>> /\ KeyName[k][1] # "/"
  BY PipelineAssumption, NamesAssumption
<1> QED
  BY <1>2, <1>3, ScannedKeysComeBack

\* For every bucket and every name without a leading slash, the object downloaded for a
\* scanned key's URL is the object the scanner listed.
THEOREM ListedIsFetched == PipelineSpec => []FetchesWhatWasListed
<1>1. Init => ParsedInv
  BY DEF Init, WorkerInit, ParsedInv
<1>2. ParsedInv /\ [Next]_vars => ParsedInv'
  BY ParsedStep
<1>3. ParsedInv => FetchesWhatWasListed
  BY ListedIsRecorded DEF ParsedInv, FetchesWhatWasListed, Processing
<1>4. PipelineSpec => Spec
  BY PipelineImplementsTheService DEF ImplementsTheService
<1> QED
  BY <1>1, <1>2, <1>3, <1>4, PTL DEF Spec

-----------------------------------------------------------------------------
(* What the jobs are blamed for and answered with.  A URL names one object *)
(* at most, and what an object is never changes.                           *)

KindsInv == kind \in [Keys -> Kinds] /\ bucket \subseteq Keys

LEMMA OneObject ==
  ASSUME NEW u \in Urls \ Unparsable, NEW A, NEW B, ObjectIs(u, A), ObjectIs(u, B), KindsInv
  PROVE  \E k \in bucket : k \in Named[u] /\ kind[k] \in A \cap B
<1>1. PICK k \in bucket : k \in Named[u] /\ kind[k] \in A
  BY DEF ObjectIs
<1>2. PICK l \in bucket : l \in Named[u] /\ kind[l] \in B
  BY DEF ObjectIs
<1>3. KeyName[k] = KeyName[l] /\ k \in Keys /\ l \in Keys
  <2>1. Recording[u] = [bucket |-> Bucket, key |-> KeyName[k]] /\ k \in Keys
    BY <1>1 DEF Named
  <2>2. Recording[u] = [bucket |-> Bucket, key |-> KeyName[l]] /\ l \in Keys
    BY <1>2 DEF Named
  <2> QED
    BY <2>1, <2>2
<1>4. k = l
  BY <1>3, NamesAssumption
<1> QED
  BY <1>1, <1>2, <1>4

LEMMA ObjectsStay ==
  ASSUME NEW u, NEW A, ObjectIs(u, A), bucket \subseteq bucket', UNCHANGED kind
  PROVE  ObjectIs(u, A)'
BY DEF ObjectIs, Named

\* what a step other than a transcript or a permanent error does to a row
RowIsKept(old, new) ==
  /\ new.attempts \in 0 .. old.attempts
  /\ new.text = old.text
  /\ new.url = old.url \/ old.status = "failed"

RowsAreKept ==
  /\ \A j \in DOMAIN jobs : j \in DOMAIN jobs' /\ RowIsKept(jobs[j], jobs'[j])
  /\ \A j \in DOMAIN jobs' \ DOMAIN jobs : jobs'[j].text = NoText /\ jobs'[j].attempts = 0

LEMMA TableIsKept ==
  ASSUME TypeOK, UNCHANGED jobs
  PROVE  RowsAreKept
BY DEF TypeOK, StoreTypeOK, Row, RowsAreKept, RowIsKept

LEMMA RowUpdated ==
  ASSUME TypeOK, NEW j \in DOMAIN jobs, NEW row, Update(j, row), RowIsKept(jobs[j], row)
  PROVE  RowsAreKept
<1>1. /\ DOMAIN jobs' = DOMAIN jobs /\ jobs'[j] = row
      /\ \A k \in DOMAIN jobs \ {j} : jobs'[k] = jobs[k]
  BY DEF Update
<1>2. \A k \in DOMAIN jobs : jobs[k].attempts \in Nat
  BY DEF TypeOK, StoreTypeOK, Row
<1> QED
  BY <1>1, <1>2 DEF RowsAreKept, RowIsKept

LEMMA RowInserted ==
  ASSUME TypeOK, NEW j, j \notin DOMAIN jobs, NEW u, NEW s, Insert(j, Queued(u, s))
  PROVE  RowsAreKept
<1>1. /\ DOMAIN jobs' = DOMAIN jobs \cup {j}
      /\ \A k \in DOMAIN jobs : jobs'[k] = jobs[k]
      /\ jobs'[j].text = NoText /\ jobs'[j].attempts = 0
  BY DEF Insert, Queued
<1>2. \A k \in DOMAIN jobs : jobs[k].attempts \in Nat
  BY DEF TypeOK, StoreTypeOK, Row
<1> QED
  BY <1>1, <1>2 DEF RowsAreKept, RowIsKept

LEMMA WorkKeepsRows ==
  ASSUME TypeOK, ThreadInv, WorkerNext, ~PermanentError, ~\E w \in Words : Transcribe(w)
  PROVE  RowsAreKept
<1> USE DEF storeVars
<1>1. pc \in {"send", "mark", "close", "start", "work", "again", "giveup"} =>
        hand.id \in DOMAIN jobs /\ jobs[hand.id] \in Row
  BY DEF ThreadInv, ThreadAgrees, HandsAreFresh, Fresh, TypeOK, StoreTypeOK
<1>2. CASE \/ ReadDelivering \/ Deliver \/ SendAccepted \/ SendAckLost \/ SendRefused
           \/ SendBreaks \/ DeliveriesDone \/ PickNothing \/ Pick \/ WorkInterrupted
  BY <1>2, TableIsKept DEF ReadDelivering, Deliver, SendAccepted, SendAckLost, SendRefused,
       SendBreaks, DeliveriesDone, PickNothing, Pick, WorkInterrupted
<1>3. CASE Mark
  <2>1. RowIsKept(jobs[hand.id], [jobs[hand.id] EXCEPT !.delivered = @ \cup {Channel}])
    BY <1>1, <1>3 DEF Mark, Row, RowIsKept
  <2> QED
    BY <1>1, <1>3, <2>1, RowUpdated DEF Mark, MarkDeliveredTo
<1>4. CASE Route
  <2>1. RowIsKept(jobs[hand.id],
          [jobs[hand.id] EXCEPT !.emailed = IF "email" \in cfg.enabled THEN cfg.mailbox ELSE Nobody])
    BY <1>1, <1>4 DEF Route, Row, RowIsKept
  <2> QED
    BY <1>1, <1>4, <2>1, RowUpdated DEF Route, SetRouting
<1>5. ASSUME NEW s, SetStatus(hand.id, s), pc \in {"send", "close", "start", "again"}
      PROVE  RowsAreKept
  <2>1. RowIsKept(jobs[hand.id], [jobs[hand.id] EXCEPT !.status = s])
    BY <1>1, <1>5 DEF Row, RowIsKept
  <2> QED
    BY <1>1, <1>5, <2>1, RowUpdated DEF SetStatus
<1>6. CASE SettleFailed \/ SettleDone \/ StartProcessing \/ TryAgainLater
  BY <1>5, <1>6 DEF SettleFailed, SettleDone, StartProcessing, TryAgainLater
<1>7. CASE GiveUp
  <2>1. RowIsKept(jobs[hand.id],
          [jobs[hand.id] EXCEPT !.error = TRUE, !.delivered = {}, !.status = "delivering"])
    BY <1>1, <1>7 DEF GiveUp, Row, RowIsKept
  <2> QED
    BY <1>1, <1>7, <2>1, RowUpdated DEF GiveUp, SetFailedResult
<1> QED
  BY <1>2, <1>3, <1>4, <1>6, <1>7 DEF WorkerNext

LEMMA OthersKeepRows ==
  ASSUME TypeOK, Post \/ Scan \/ Arrive \/ \E next \in Configs : Restart(next)
  PROVE  RowsAreKept
<1> USE DEF storeVars
<1>1. CASE Post
  <2>1. PICK j \in Ids, u \in Urls : PostNew(j, u) \/ PostFailed(j, u) \/ PostKnown(j, u)
    BY <1>1 DEF Post
  <2>2. CASE PostNew(j, u)
    BY <2>2, RowInserted DEF PostNew, EnqueueNew
  <2>3. CASE PostFailed(j, u)
    <3> DEFINE row == [jobs[j] EXCEPT !.url = u, !.status = "queued", !.attempts = 0, !.error = FALSE]
    <3>1. j \in DOMAIN jobs /\ jobs[j] \in Row
      BY <2>3 DEF PostFailed, Requeue, TypeOK, StoreTypeOK
    <3>2. RowIsKept(jobs[j], row)
      BY <2>3, <3>1 DEF PostFailed, Requeue, Row, RowIsKept
    <3> QED
      BY <2>3, <3>1, <3>2, RowUpdated DEF PostFailed, Requeue
  <2>4. CASE PostKnown(j, u)
    BY <2>4, TableIsKept DEF PostKnown, EnqueueKnown
  <2> QED
    BY <2>1, <2>2, <2>3, <2>4
<1>2. CASE Scan
  <2>1. ASSUME NEW k \in Keys, InsertKey(k)
        PROVE  RowsAreKept
    BY <2>1, TableIsKept, RowInserted DEF InsertKey, EnqueueDiscovered
  <2>2. CASE ScanBegins \/ ScanDone \/ ScanFails \/ \E k \in Keys : SkipKey(k) \/ TakeKey(k)
    BY <2>2, TableIsKept DEF ScanBegins, ScanDone, ScanFails, SkipKey, TakeKey
  <2> QED
    BY <1>2, <2>1, <2>2 DEF Scan, ScannerNext
<1>3. CASE Arrive \/ \E next \in Configs : Restart(next)
  BY <1>3, TableIsKept DEF Arrive, Upload, Restart
<1> QED
  BY <1>1, <1>2, <1>3

\* the service's invariants before and after a step of the pipeline
PipelineStep ==
  /\ TypeOK /\ JobsInv /\ ThreadInv /\ ParsedInv /\ KindsInv
  /\ PipelineNext

LEMMA KindsStep ==
  ASSUME KindsInv, [PipelineNext]_pipelineVars
  PROVE  KindsInv' /\ bucket \subseteq bucket' /\ UNCHANGED kind
<1>1. bucket \subseteq bucket' /\ bucket' \subseteq Keys
  <2>1. CASE Calls
    BY <2>1 DEF Calls, NameFile, Download, AskWhisper, AskLlm, StoreResult, Proceed, Interrupted,
         Blamed, vars, scannerVars, KindsInv
  <2>2. CASE OtherWork \/ Crash
    BY <2>2 DEF OtherWork, Work, Crash, Restart, scannerVars, KindsInv
  <2>3. CASE OtherThreads
    BY <2>3 DEF OtherThreads, Requests, PostNew, PostFailed, PostKnown, Arrive, Upload, Scan,
         ScannerNext, ScanBegins, SkipKey, TakeKey, InsertKey, ScanDone, ScanFails, scannerVars,
         KindsInv
  <2> QED
    BY <2>1, <2>2, <2>3 DEF PipelineNext, pipelineVars, vars, scannerVars, KindsInv
<1>2. UNCHANGED kind
  BY DEF PipelineNext, pipelineVars, Calls, NameFile, Download, AskWhisper, AskLlm, StoreResult,
     Proceed, Interrupted, Blamed, OtherWork, OtherThreads, Crash
<1> QED
  BY <1>1, <1>2 DEF KindsInv

LEMMA PipelineAlways ==
  PipelineSpec => [][PipelineStep]_pipelineVars
<1>1. PipelineInit => KindsInv
  BY PipelineAssumption DEF PipelineInit, Init, ScannerInit, KindsInv
<1>2. KindsInv /\ [PipelineNext]_pipelineVars => KindsInv'
  BY KindsStep
<1>3. Init => ParsedInv
  BY DEF Init, WorkerInit, ParsedInv
<1>4. ParsedInv /\ [Next]_vars => ParsedInv'
  BY ParsedStep
<1>5. Init => TypeOK /\ JobsInv /\ ThreadInv
  BY InitInv, InitTypes
<1>6. TypeOK /\ JobsInv /\ ThreadInv /\ [Next]_vars => (TypeOK /\ JobsInv /\ ThreadInv)'
  BY NextKeepsInv, NextKeepsTypes
<1>7. PipelineSpec => Spec
  BY PipelineImplementsTheService DEF ImplementsTheService
<1>8. TypeOK /\ JobsInv /\ ThreadInv /\ ParsedInv /\ KindsInv /\ [PipelineNext]_pipelineVars
        => [PipelineStep]_pipelineVars
  BY DEF PipelineStep
<1> QED
  BY <1>1, <1>2, <1>3, <1>4, <1>5, <1>6, <1>7, <1>8, PTL DEF Spec, PipelineSpec

-----------------------------------------------------------------------------
(* The causes of a failure.  The counter of attempts lives in the row,     *)
(* which requests, scans and restarts pass by; that of the causes beside   *)
(* it.  No step raises the first without the second.                       *)

CausesInv == causes \in [Ids -> Nat]

AttemptsInv == \A j \in DOMAIN jobs : jobs[j].attempts <= causes[j]

CausesGrow == \A j \in Ids : causes'[j] >= causes[j]

LEMMA HeldAgainst ==
  ASSUME CausesInv, NEW a, Hold(a)
  PROVE  CausesInv' /\ CausesGrow
<1>1. \A j \in Ids : causes[j] \in Nat
  BY DEF CausesInv
<1>2. CASE hand.id \in Ids /\ IsCause(a)
  <2>1. causes' = [causes EXCEPT ![hand.id] = causes[hand.id] + 1] /\ causes[hand.id] + 1 \in Nat
    BY <1>1, <1>2 DEF Hold
  <2> QED
    BY <1>1, <1>2, <2>1 DEF CausesInv, CausesGrow
<1>3. CASE ~(hand.id \in Ids /\ IsCause(a))
  <2>1. causes' = causes
    <3> DEFINE more == [causes EXCEPT ![hand.id] = causes[hand.id] + 1]
    <3>1. hand.id \notin Ids => more = causes
      BY DEF CausesInv
    <3> QED
      BY <1>3, <3>1 DEF Hold
  <2> QED
    BY <1>1, <2>1 DEF CausesInv, CausesGrow
<1> QED
  BY <1>2, <1>3

LEMMA CausesStay ==
  ASSUME CausesInv, UNCHANGED causes
  PROVE  CausesInv' /\ CausesGrow
BY DEF CausesInv, CausesGrow

LEMMA CallsHold ==
  ASSUME CausesInv, Calls
  PROVE  CausesInv' /\ CausesGrow
<1>1. UNCHANGED causes \/ \E a : Hold(a)
  BY DEF Calls, NameFile, Download, AskWhisper, AskLlm, StoreResult
<1> QED
  BY <1>1, HeldAgainst, CausesStay

LEMMA CausesStep ==
  ASSUME CausesInv, [PipelineNext]_pipelineVars
  PROVE  CausesInv'
<1>1. CASE Calls
  BY <1>1, CallsHold
<1>2. CASE OtherWork \/ Crash \/ UNCHANGED pipelineVars
  BY <1>2 DEF OtherWork, Crash, pipelineVars, callVars, CausesInv
<1>3. CASE OtherThreads
  <2>1. UNCHANGED causes \/ \E j \in Ids : causes' = [causes EXCEPT ![j] = 0]
    BY <1>3 DEF OtherThreads, Requests
  <2> QED
    BY <2>1 DEF CausesInv
<1> QED
  BY <1>1, <1>2, <1>3 DEF PipelineNext

\* Every answer that ends a call in a permanent error is held against the job.
LEMMA BlameHasACause ==
  ASSUME Calls, Blamed
  PROVE  causes' = [causes EXCEPT ![hand.id] = @ + 1]
<1>1. pc' \in {"giveup", "again"}
  BY DEF Blamed, PermanentError
<1>2. ASSUME Interrupted PROVE FALSE
  BY <1>1, <1>2 DEF Interrupted, WorkInterrupted, CycleRaises
<1>3. ASSUME NEW c, pc = "work", Proceed(c) PROVE FALSE
  BY <1>1, <1>3 DEF Proceed, vars, workerVars, threadVars
<1>4. CASE Download
  <2>1. PICK a \in S3Answers(hand.row.url) : Hold(a) /\ S3Outcome(a) = "permanent"
    BY <1>2, <1>3, <1>4 DEF Download, Processing
  <2>2. a.reason \in {"refusal", "recording", "busy"}
    BY <2>1 DEF S3Answers, AnswersFor, Unwell, Refusals, S3Outcome, NoAnswer, Code, Success, Garbled
  <2>3. IsCause(a)
    BY <1>4, <2>2 DEF Download, Processing, IsCause
  <2> QED
    BY <2>1, <2>3 DEF Hold
<1>5. CASE AskWhisper
  <2>1. PICK a \in WhisperAnswers(hand.row.url) : Hold(a) /\ HttpOutcome(a) = "permanent"
    BY <1>2, <1>3, <1>5 DEF AskWhisper, Processing
  <2>2. IsCause(a)
    BY <2>1 DEF WhisperAnswers, AnswersFor, Unwell, Refusals, HttpOutcome, NoAnswer, Code, Success,
         Garbled, IsCause
  <2> QED
    BY <2>1, <2>2 DEF Hold
<1>6. CASE AskLlm
  <2>1. PICK a \in LlmAnswers(hand.row.url) : Hold(a) /\ HttpOutcome(a) = "permanent"
    BY <1>2, <1>3, <1>6 DEF AskLlm, Processing
  <2>2. IsCause(a)
    BY <2>1 DEF LlmAnswers, AnswersFor, Unwell, Refusals, HttpOutcome, NoAnswer, Code, Success,
         Garbled, IsCause
  <2> QED
    BY <2>1, <2>2 DEF Hold
<1>7. ~NameFile
  BY <1>2, <1>3 DEF NameFile, Processing
<1>8. ~StoreResult
  BY <1>1 DEF StoreResult, Transcribe, CycleReturns
<1> QED
  BY <1>4, <1>5, <1>6, <1>7, <1>8 DEF Calls

LEMMA KeptRowsKeepTheirCauses ==
  ASSUME TypeOK, CausesInv, AttemptsInv, RowsAreKept, CausesInv', CausesGrow, DOMAIN jobs' \subseteq Ids
  PROVE  AttemptsInv'
<1> SUFFICES ASSUME NEW j \in DOMAIN jobs'
             PROVE  jobs'[j].attempts <= causes'[j]
  BY DEF AttemptsInv
<1>1. j \in Ids /\ causes[j] \in Nat /\ causes'[j] \in Nat /\ causes'[j] >= causes[j]
  BY DEF CausesInv, CausesGrow
<1>2. CASE j \in DOMAIN jobs
  <2>1. jobs[j].attempts \in Nat /\ jobs[j].attempts <= causes[j]
    BY <1>2 DEF TypeOK, StoreTypeOK, Row, AttemptsInv
  <2>2. jobs'[j].attempts \in 0 .. jobs[j].attempts
    BY <1>2 DEF RowsAreKept, RowIsKept
  <2> QED
    BY <1>1, <2>1, <2>2
<1>3. CASE j \notin DOMAIN jobs
  BY <1>1, <1>3 DEF RowsAreKept
<1> QED
  BY <1>2, <1>3

LEMMA AttemptsHaveCauses ==
  ASSUME PipelineStep, CausesInv, AttemptsInv, StoreTypeOK'
  PROVE  AttemptsInv'
<1>1. CausesInv' /\ TypeOK
  BY CausesStep DEF PipelineStep
<1>2. ASSUME RowsAreKept, CausesGrow
      PROVE  AttemptsInv'
  BY <1>1, <1>2, KeptRowsKeepTheirCauses DEF StoreTypeOK
<1>3. CASE OtherWork
  <2>1. ~PermanentError /\ ~\E w \in Words : Transcribe(w)
    BY <1>3 DEF OtherWork, PermanentError, Transcribe
  <2>2. RowsAreKept
    BY <1>3, <2>1, WorkKeepsRows DEF OtherWork, Work, PipelineStep
  <2> QED
    BY <1>2, <1>3, <2>2, CausesStay DEF OtherWork, callVars
<1>4. CASE Crash
  BY <1>1, <1>2, <1>4, OthersKeepRows, CausesStay DEF Crash
<1>5. CASE OtherThreads
  <2>1. CASE UNCHANGED causes
    BY <1>1, <1>2, <1>5, <2>1, OthersKeepRows, CausesStay DEF OtherThreads, Requests, Post
  <2>2. ASSUME NEW j \in Ids, NEW u \in Urls, PostFailed(j, u), causes' = [causes EXCEPT ![j] = 0]
        PROVE  AttemptsInv'
    <3>1. /\ j \in DOMAIN jobs /\ DOMAIN jobs' = DOMAIN jobs
          /\ \A k \in DOMAIN jobs \ {j} : jobs'[k] = jobs[k]
      BY <2>2 DEF PostFailed, Requeue, Update
    <3>2. jobs'[j].attempts = 0
      <4>1. jobs[j] \in Row
        BY <1>1, <3>1 DEF TypeOK, StoreTypeOK
      <4> QED
        BY <2>2, <3>1, <4>1 DEF PostFailed, Requeue, Update, Row
    <3>3. causes'[j] = 0 /\ \A k \in Ids \ {j} : causes'[k] = causes[k]
      BY <2>2 DEF CausesInv
    <3>4. DOMAIN jobs \subseteq Ids
      BY <1>1 DEF TypeOK, StoreTypeOK
    <3> QED
      BY <3>1, <3>2, <3>3, <3>4 DEF AttemptsInv
  <2> QED
    BY <1>5, <2>1, <2>2 DEF OtherThreads, Requests
<1>6. CASE Calls /\ UNCHANGED jobs
  BY <1>1, <1>2, <1>6, TableIsKept, CallsHold
<1>7. CASE Calls /\ Blamed
  <2>1. pc = "work" /\ hand.id \in DOMAIN jobs /\ hand.id \in Ids /\ jobs[hand.id] \in Row
    BY <1>1, <1>7 DEF Blamed, PermanentError, PipelineStep, ThreadInv, HandsAreFresh, Fresh, TypeOK,
       StoreTypeOK
  <2>2. /\ DOMAIN jobs' = DOMAIN jobs
        /\ jobs'[hand.id].attempts = jobs[hand.id].attempts + 1
        /\ \A k \in DOMAIN jobs \ {hand.id} : jobs'[k] = jobs[k]
    BY <1>7, <2>1 DEF Blamed, PermanentError, IncrementAttempts, Update, Row
  <2>3. /\ causes'[hand.id] = causes[hand.id] + 1
        /\ \A k \in Ids \ {hand.id} : causes'[k] = causes[k]
    BY <1>7, <2>1, BlameHasACause DEF CausesInv
  <2>4. /\ DOMAIN jobs \subseteq Ids
        /\ jobs[hand.id].attempts \in Nat /\ causes[hand.id] \in Nat
    BY <1>1, <2>1 DEF TypeOK, StoreTypeOK, Row, CausesInv
  <2> QED
    BY <2>1, <2>2, <2>3, <2>4 DEF AttemptsInv
<1>8. CASE StoreResult
  <2>1. /\ hand.id \in DOMAIN jobs /\ jobs[hand.id] \in Row
        /\ jobs' = [jobs EXCEPT ![hand.id] =
             [jobs[hand.id] EXCEPT !.text = [url |-> hand.row.url, words |-> heard], !.error = FALSE,
                 !.delivered = {}, !.emailed = NotRouted, !.status = "delivering"]]
    BY <1>8 DEF StoreResult, Transcribe, SetResult, Update, PipelineStep, ThreadInv,
         HandsAreFresh, Fresh, TypeOK, StoreTypeOK
  <2>2. \A j \in DOMAIN jobs : jobs'[j].attempts = jobs[j].attempts
    BY <2>1 DEF Row
  <2>3. UNCHANGED causes /\ DOMAIN jobs' = DOMAIN jobs
    BY <1>8, <2>1 DEF StoreResult
  <2> QED
    BY <2>2, <2>3 DEF AttemptsInv
<1>9. Calls => UNCHANGED jobs \/ Blamed \/ StoreResult
  BY DEF Calls, NameFile, Download, AskWhisper, AskLlm, Proceed, Interrupted, WorkInterrupted,
       vars, storeVars
<1> QED
  BY <1>3, <1>4, <1>5, <1>6, <1>7, <1>8, <1>9 DEF PipelineStep, PipelineNext

\* No attempt is counted and no failure told without as many answers that are held against
\* the job since it was last queued: outages, unreadable answers and busy gateways leave it
\* alone, for all contents and interleavings with requests, scans and restarts.
THEOREM FailuresAreCaused == PipelineSpec => []FailuresHaveCauses
<1>1. PipelineInit => CausesInv /\ AttemptsInv
  <2> SUFFICES ASSUME PipelineInit PROVE CausesInv /\ AttemptsInv
    OBVIOUS
  <2>1. causes = [j \in Ids |-> 0]
    BY DEF PipelineInit
  <2>2. PICK old \in SUBSET Legacy :
          \E u \in [old -> Unparsable] : jobs = [j \in old |-> Queued(u[j], 0)]
    BY DEF PipelineInit, Init
  <2>3. \A j \in DOMAIN jobs : j \in Ids /\ jobs[j].attempts = 0
    <3>1. Init
      BY DEF PipelineInit
    <3> QED
      BY <2>2, <3>1, InitTypes DEF Queued, TypeOK, StoreTypeOK
  <2> QED
    BY <2>1, <2>3 DEF CausesInv, AttemptsInv
<1>2. CausesInv /\ [PipelineNext]_pipelineVars => CausesInv'
  BY CausesStep
<1>3. CausesInv /\ AttemptsInv /\ StoreTypeOK' /\ [PipelineStep]_pipelineVars => AttemptsInv'
  <2>1. CASE UNCHANGED pipelineVars
    BY <2>1 DEF pipelineVars, callVars, vars, storeVars, AttemptsInv
  <2> QED
    BY <2>1, AttemptsHaveCauses
<1>4. PipelineSpec => Spec
  BY PipelineImplementsTheService DEF ImplementsTheService
<1>5. TypeOK => StoreTypeOK
  BY DEF TypeOK
<1>6. TypeOK /\ CausesInv /\ AttemptsInv /\ RetriesAreSpent => FailuresHaveCauses
  <2> SUFFICES ASSUME TypeOK, CausesInv, AttemptsInv, RetriesAreSpent, NEW j \in DOMAIN jobs
               PROVE  /\ jobs[j].attempts <= causes[j]
                      /\ jobs[j].status \in {"delivering", "failed"} /\ jobs[j].text = NoText
                           => causes[j] >= MaxRetries \/ jobs[j].url \in Unparsable
    BY DEF FailuresHaveCauses
  <2>1. jobs[j].attempts \in Nat /\ causes[j] \in Nat /\ MaxRetries \in Nat
    BY RetriesAssumption DEF TypeOK, StoreTypeOK, Row, CausesInv
  <2>2. jobs[j].attempts <= causes[j]
    BY DEF AttemptsInv
  <2>3. jobs[j].status \in {"delivering", "failed"} /\ jobs[j].text = NoText
          => jobs[j].attempts >= MaxRetries \/ jobs[j].url \in Unparsable
    BY DEF RetriesAreSpent
  <2> QED
    BY <2>1, <2>2, <2>3
<1> QED
  BY <1>1, <1>2, <1>3, <1>4, <1>5, <1>6, PipelineAlways, TypesAreCorrect, RetriesAreCounted, PTL
     DEF PipelineSpec

-----------------------------------------------------------------------------
(* Type correctness.                                                       *)

\* a call is only pending while its job is in the pipeline
CallInv ==
  /\ call \in {"name", "download", "transcribe", "summarize", "store"}
  /\ heard \in Words \cup {NoText}
  /\ call # "name" => pc = "work"

LEMMA CallStep ==
  ASSUME CallInv, [PipelineNext]_pipelineVars
  PROVE  CallInv'
<1>1. ASSUME CallsEnd
      PROVE  CallInv'
  BY <1>1 DEF CallsEnd, CallInv
<1>2. ASSUME pc = "work", NEW c \in {"download", "transcribe", "summarize", "store"}, Proceed(c),
             heard' \in Words \cup {NoText}
      PROVE  CallInv'
  BY <1>2 DEF Proceed, vars, workerVars, threadVars, CallInv
<1>3. CASE NameFile
  BY <1>1, <1>2, <1>3 DEF NameFile, Processing, Interrupted, CallInv
<1>4. CASE Download
  BY <1>1, <1>2, <1>4 DEF Download, Processing, Interrupted, Blamed, CallInv
<1>5. CASE AskWhisper
  <2>1. ASSUME NEW w \in WordsOf(hand.row.url), Proceed(AfterWords(w)), heard' = w
        PROVE  CallInv'
    BY <1>2, <1>5, <2>1, WordsAreWords DEF AskWhisper, Processing, AfterWords
  <2> QED
    BY <1>1, <1>5, <2>1 DEF AskWhisper, Interrupted, Blamed
<1>6. CASE AskLlm
  BY <1>1, <1>2, <1>6 DEF AskLlm, Processing, Interrupted, Blamed, CallInv
<1>7. CASE StoreResult \/ Crash
  BY <1>1, <1>7 DEF StoreResult, Crash
<1>8. CASE OtherWork
  BY <1>8 DEF OtherWork, callVars, CallInv
<1>9. CASE OtherThreads
  BY <1>9 DEF OtherThreads, Requests, PostNew, PostFailed, PostKnown, Scan, Arrive,
       workerVars, threadVars, CallInv
<1>10. CASE UNCHANGED pipelineVars
  BY <1>10 DEF pipelineVars, callVars, vars, workerVars, threadVars, CallInv
<1> QED
  BY <1>3, <1>4, <1>5, <1>6, <1>7, <1>8, <1>9, <1>10 DEF PipelineNext, Calls

\* The state of the pipeline has its types, and no call outlives the processing it is of:
\* whatever raises, restarts or gives up leaves nothing pending.
THEOREM PipelineTypesAreCorrect == PipelineSpec => []PipelineTypeOK
<1>1. PipelineInit => KindsInv /\ CallInv
  BY PipelineAssumption DEF PipelineInit, Init, ScannerInit, KindsInv, CallInv
<1>2. KindsInv /\ [PipelineNext]_pipelineVars => KindsInv'
  BY KindsStep
<1>3. CallInv /\ [PipelineNext]_pipelineVars => CallInv'
  BY CallStep
<1>4. PipelineInit => CausesInv
  BY DEF PipelineInit, CausesInv
<1>5. CausesInv /\ [PipelineNext]_pipelineVars => CausesInv'
  BY CausesStep
<1>6. PipelineSpec => []TypeOK
  BY PipelineImplementsTheService, TypesAreCorrect DEF ImplementsTheService
<1>7. TypeOK /\ KindsInv /\ CallInv /\ CausesInv => PipelineTypeOK
  BY DEF KindsInv, CallInv, CausesInv, PipelineTypeOK
<1> QED
  BY <1>1, <1>2, <1>3, <1>4, <1>5, <1>6, <1>7, PTL DEF PipelineSpec

-----------------------------------------------------------------------------
(* The answers.                                                            *)

\* words that a recording named by u says, if it is of one of these kinds
Says(u, w, kinds) ==
  /\ u \in Urls \ Unparsable
  /\ \/ "silence" \in kinds /\ ObjectIs(u, {"silence"}) /\ w = Silence
     \/ ObjectIs(u, kinds \ {"silence"}) /\ w \in Words \ {Silence}

\* what the LLM has read, or was not asked to read
Summarized == IF SummaryEnabled THEN {"speech", "silence"} ELSE {"speech", "silence", "offending"}

\* how far the call in hand has come
CallsFit ==
  /\ call # "name" => pc = "work"
  /\ call = "transcribe" => ObjectIs(hand.row.url, Kinds)
  /\ call = "summarize" => SummaryEnabled /\ Says(hand.row.url, heard, {"speech", "offending"})
  /\ call = "store" => Says(hand.row.url, heard, Summarized)

RowsFit ==
  \A j \in DOMAIN jobs : jobs[j].text # NoText => Says(jobs[j].url, jobs[j].text.words, Summarized)

LEMMA SayingsStay ==
  ASSUME NEW u, NEW w, NEW ks, Says(u, w, ks), bucket \subseteq bucket', UNCHANGED kind
  PROVE  Says(u, w, ks)'
BY ObjectsStay DEF Says

\* the object a call was answered for: not of the kind that would have been rejected
LEMMA NotRejected ==
  ASSUME NEW u, ObjectIs(u, Kinds), KindsInv, NEW bad \in Kinds, ~ObjectIs(u, {bad})
  PROVE  ObjectIs(u, Kinds \ {bad})
BY DEF ObjectIs, KindsInv

LEMMA WhisperIsHeard ==
  ASSUME PipelineStep, CallsFit, Processing("transcribe"), ~ObjectIs(hand.row.url, {"corrupt"}),
         NEW w \in WordsOf(hand.row.url), call' = AfterWords(w), heard' = w,
         UNCHANGED <<vars, kind>>
  PROVE  CallsFit'
<1> DEFINE u == hand.row.url
<1>1. u \in Urls \ Unparsable /\ ObjectIs(u, Kinds) /\ pc = "work"
  BY DEF PipelineStep, ThreadInv, HandsAreFresh, Fresh, ParsedInv, TypeOK, StoreTypeOK, Row,
     Processing, CallsFit
<1>2. UNCHANGED <<pc, hand, bucket, kind>>
  BY DEF vars, workerVars, threadVars, scannerVars
<1>3. CASE ObjectIs(u, {"silence"})
  <2>1. w = Silence /\ call' = "store"
    BY <1>3 DEF WordsOf, AfterWords
  <2>2. Says(u, w, Summarized)
    BY <1>1, <1>3, <2>1 DEF Says, Summarized
  <2>3. Says(u, w, Summarized)'
    BY <1>2, <2>2, SayingsStay
  <2> QED
    BY <1>1, <1>2, <2>1, <2>3 DEF CallsFit
<1>4. CASE ~ObjectIs(u, {"silence"})
  <2>1. w \in Words \ {Silence}
    BY <1>4, PipelineAssumption DEF WordsOf
  <2>2. ObjectIs(u, {"speech", "offending"})
    BY <1>1, <1>4 DEF ObjectIs, Kinds
  <2>3. CASE SummaryEnabled
    <3>1. call' = "summarize"
      BY <2>1, <2>3 DEF AfterWords
    <3>2. Says(u, w, {"speech", "offending"})
      <4>1. {"speech", "offending"} \ {"silence"} = {"speech", "offending"}
        OBVIOUS
      <4> QED
        BY <1>1, <2>1, <2>2, <4>1 DEF Says
    <3>3. Says(u, w, {"speech", "offending"})'
      BY <1>2, <3>2, SayingsStay
    <3> QED
      BY <1>1, <1>2, <2>3, <3>1, <3>3 DEF CallsFit
  <2>4. CASE ~SummaryEnabled
    <3>1. call' = "store"
      BY <2>4 DEF AfterWords
    <3>2. Says(u, w, Summarized)
      <4>1. Summarized \ {"silence"} = {"speech", "offending"}
        BY <2>4 DEF Summarized
      <4> QED
        BY <1>1, <2>1, <2>2, <4>1 DEF Says
    <3>3. Says(u, w, Summarized)'
      BY <1>2, <3>2, SayingsStay
    <3> QED
      BY <1>1, <1>2, <3>1, <3>3 DEF CallsFit
  <2> QED
    BY <2>3, <2>4
<1> QED
  BY <1>3, <1>4

LEMMA LlmIsHeard ==
  ASSUME PipelineStep, CallsFit, Processing("summarize"), ~ObjectIs(hand.row.url, {"offending"}),
         call' = "store", UNCHANGED <<heard, vars, kind>>
  PROVE  CallsFit'
<1> DEFINE u == hand.row.url
<1>1. Says(u, heard, {"speech", "offending"}) /\ SummaryEnabled /\ pc = "work"
  BY DEF Processing, CallsFit
<1>2. UNCHANGED <<pc, hand, bucket, kind>>
  BY DEF vars, workerVars, threadVars, scannerVars
<1>3. heard \in Words \ {Silence} /\ u \in Urls \ Unparsable /\ ObjectIs(u, {"speech", "offending"})
  <2>1. "silence" \notin {"speech", "offending"}
    OBVIOUS
  <2>2. {"speech", "offending"} \ {"silence"} = {"speech", "offending"}
    OBVIOUS
  <2> QED
    BY <1>1, <2>1, <2>2 DEF Says
<1>4. ObjectIs(u, Summarized \ {"silence"})
  BY <1>1, <1>3 DEF ObjectIs, Summarized
<1>5. Says(u, heard, Summarized)
  BY <1>3, <1>4 DEF Says
<1>6. Says(u, heard, Summarized)'
  BY <1>2, <1>5, SayingsStay
<1> QED
  BY <1>1, <1>2, <1>6 DEF CallsFit

LEMMA CallsKeepFitting ==
  ASSUME PipelineStep, CallsFit
  PROVE  CallsFit'
<1>1. KindsInv /\ bucket \subseteq bucket' /\ UNCHANGED kind
  BY KindsStep DEF PipelineStep
<1>2. ASSUME call' = "name"
      PROVE  CallsFit'
  BY <1>2 DEF CallsFit
<1>3. ASSUME Processing("name"), Proceed("download")
      PROVE  CallsFit'
  BY <1>3 DEF CallsFit, Processing, Proceed, vars, workerVars, threadVars
<1>4. CASE NameFile
  BY <1>2, <1>3, <1>4 DEF NameFile, Interrupted, CallsEnd
<1>5. CASE Download
  <2>1. ASSUME NEW a \in S3Answers(hand.row.url), S3Outcome(a) = "ok", Proceed("transcribe")
        PROVE  CallsFit'
    <3>1. ObjectIs(hand.row.url, Kinds)
      BY <2>1 DEF S3Answers, AnswersFor, Unwell, Refusals, S3Outcome, NoAnswer, Code, Success, Garbled
    <3>2. ObjectIs(hand.row.url, Kinds)'
      BY <1>1, <3>1, ObjectsStay, <2>1 DEF Proceed, vars, workerVars, threadVars
    <3> QED
      BY <1>5, <2>1, <3>2 DEF Download, Processing, Proceed, CallsFit, vars, workerVars, threadVars
  <2> QED
    BY <1>2, <1>5, <2>1 DEF Download, Interrupted, Blamed, CallsEnd
<1>6. CASE AskWhisper
  <2>1. ASSUME NEW a \in WhisperAnswers(hand.row.url), HttpOutcome(a) = "ok",
               NEW w \in WordsOf(hand.row.url), Proceed(AfterWords(w)), heard' = w
        PROVE  CallsFit'
    <3>1. ~ObjectIs(hand.row.url, {"corrupt"})
      BY <2>1 DEF WhisperAnswers, AnswersFor, Unwell, Refusals, HttpOutcome, NoAnswer, Code, Success,
           Garbled
    <3> QED
      BY <1>6, <2>1, <3>1, WhisperIsHeard DEF AskWhisper, Proceed
  <2> QED
    BY <1>2, <1>6, <2>1 DEF AskWhisper, Interrupted, Blamed, CallsEnd
<1>7. CASE AskLlm
  <2>1. ASSUME NEW a \in LlmAnswers(hand.row.url), HttpOutcome(a) = "ok", Proceed("store"),
               UNCHANGED heard
        PROVE  CallsFit'
    <3>1. ~ObjectIs(hand.row.url, {"offending"})
      BY <2>1 DEF LlmAnswers, AnswersFor, Unwell, Refusals, HttpOutcome, NoAnswer, Code, Success,
           Garbled
    <3> QED
      BY <1>7, <2>1, <3>1, LlmIsHeard DEF AskLlm, Proceed
  <2> QED
    BY <1>2, <1>7, <2>1 DEF AskLlm, Interrupted, Blamed, CallsEnd
<1>8. CASE StoreResult \/ Crash
  BY <1>2, <1>8 DEF StoreResult, Crash, CallsEnd
<1>9. CASE OtherWork
  BY <1>2, <1>9 DEF OtherWork, callVars, CallsFit
<1>10. CASE OtherThreads
  <2>1. UNCHANGED <<pc, hand, call, heard>>
    BY <1>10 DEF OtherThreads, Requests, PostNew, PostFailed, PostKnown, Scan, Arrive,
         workerVars, threadVars
  <2>2. \A A : ObjectIs(hand.row.url, A) => ObjectIs(hand.row.url, A)'
    BY <1>1, <2>1, ObjectsStay
  <2>3. \A A : Says(hand.row.url, heard, A) => Says(hand.row.url, heard, A)'
    BY <1>1, <2>1, SayingsStay
  <2> QED
    BY <2>1, <2>2, <2>3 DEF CallsFit, Summarized
<1> QED
  BY <1>4, <1>5, <1>6, <1>7, <1>8, <1>9, <1>10 DEF PipelineStep, PipelineNext, Calls

LEMMA RowsKeepFitting ==
  ASSUME PipelineStep, CallsFit, RowsFit
  PROVE  RowsFit'
<1>1. bucket \subseteq bucket' /\ UNCHANGED kind
  BY KindsStep DEF PipelineStep
<1>2. ASSUME RowsAreKept
      PROVE  RowsFit'
  <2> SUFFICES ASSUME NEW j \in DOMAIN jobs', jobs'[j].text # NoText
               PROVE  Says(jobs[j].url, jobs[j].text.words, Summarized)'
    BY DEF RowsFit
  <2>1. j \in DOMAIN jobs /\ jobs'[j].text = jobs[j].text /\ jobs'[j].url = jobs[j].url
    BY <1>2 DEF RowsAreKept, RowIsKept, PipelineStep, JobsInv, RowsAgree
  <2>2. Says(jobs[j].url, jobs[j].text.words, Summarized)
    BY <2>1 DEF RowsFit
  <2>3. PICK u, w : u = jobs[j].url /\ w = jobs[j].text.words
    OBVIOUS
  <2>4. Says(u, w, Summarized)'
    BY <1>1, <2>2, <2>3, SayingsStay DEF Summarized
  <2> QED
    BY <2>1, <2>3, <2>4 DEF Says, Summarized, ObjectIs
<1>3. CASE OtherWork
  <2>1. ~PermanentError /\ ~\E w \in Words : Transcribe(w)
    BY <1>3 DEF OtherWork, PermanentError, Transcribe
  <2> QED
    BY <1>2, <1>3, <2>1, WorkKeepsRows DEF OtherWork, Work, PipelineStep
<1>4. CASE OtherThreads \/ Crash
  BY <1>2, <1>4, OthersKeepRows DEF OtherThreads, Requests, Post, Crash, PipelineStep
<1>5. CASE Calls /\ UNCHANGED jobs
  BY <1>2, <1>5, TableIsKept DEF PipelineStep
<1>6. pc = "work" => hand.id \in DOMAIN jobs /\ jobs[hand.id] \in Row /\ jobs[hand.id].url = hand.row.url
                       /\ jobs[hand.id].text = NoText
  BY DEF PipelineStep, ThreadInv, HandsAreFresh, Fresh, TypeOK, StoreTypeOK, JobsInv, RowsAgree
<1>7. ASSUME NEW row, pc = "work", Update(hand.id, row), row.url = hand.row.url,
             row.text # NoText => Says(hand.row.url, row.text.words, Summarized)
      PROVE  RowsFit'
  <2>1. /\ DOMAIN jobs' = DOMAIN jobs /\ jobs'[hand.id] = row
        /\ \A k \in DOMAIN jobs \ {hand.id} : jobs'[k] = jobs[k]
    BY <1>6, <1>7 DEF Update
  <2> SUFFICES ASSUME NEW j \in DOMAIN jobs', jobs'[j].text # NoText
               PROVE  Says(jobs[j].url, jobs[j].text.words, Summarized)'
    BY DEF RowsFit
  <2>2. Says(jobs'[j].url, jobs'[j].text.words, Summarized)
    BY <1>7, <2>1 DEF RowsFit
  <2>3. PICK u, w : u = jobs'[j].url /\ w = jobs'[j].text.words
    OBVIOUS
  <2>4. Says(u, w, Summarized)'
    BY <1>1, <2>2, <2>3, SayingsStay DEF Summarized
  <2> QED
    BY <2>3, <2>4 DEF Says, Summarized, ObjectIs
<1>8. CASE Calls /\ Blamed
  <2> DEFINE row == [jobs[hand.id] EXCEPT !.attempts = @ + 1, !.error = TRUE]
  <2>1. pc = "work" /\ Update(hand.id, row)
    BY <1>8 DEF Blamed, PermanentError, IncrementAttempts
  <2>2. row.url = hand.row.url /\ row.text = NoText
    BY <1>6, <2>1 DEF Row
  <2> QED
    BY <1>7, <2>1, <2>2
<1>9. CASE StoreResult
  <2> DEFINE t == [url |-> hand.row.url, words |-> heard]
             row == [jobs[hand.id] EXCEPT !.text = t, !.error = FALSE, !.delivered = {},
                                          !.emailed = NotRouted, !.status = "delivering"]
  <2>1. pc = "work" /\ Update(hand.id, row) /\ call = "store"
    BY <1>9 DEF StoreResult, Processing, Transcribe, SetResult
  <2>2. row.url = hand.row.url /\ row.text = t
    BY <1>6, <2>1 DEF Row
  <2>3. Says(hand.row.url, row.text.words, Summarized)
    BY <2>1, <2>2 DEF CallsFit
  <2> QED
    BY <1>7, <2>1, <2>2, <2>3
<1>10. Calls => UNCHANGED jobs \/ Blamed \/ StoreResult
  BY DEF Calls, NameFile, Download, AskWhisper, AskLlm, Proceed, Interrupted, WorkInterrupted,
       vars, storeVars
<1> QED
  BY <1>3, <1>4, <1>5, <1>8, <1>9, <1>10 DEF PipelineStep, PipelineNext

LEMMA SaidIsAnswered ==
  ASSUME KindsInv, NEW u, NEW w, Says(u, w, Summarized)
  PROVE  /\ ObjectIs(u, {"speech", "silence", "offending"})
         /\ w \in WordsOf(u)
         /\ SummaryEnabled => ~ObjectIs(u, {"offending"})
<1>1. CASE ObjectIs(u, {"silence"}) /\ w = Silence
  <2>1. ~ObjectIs(u, {"offending"})
    BY <1>1, OneObject DEF Says
  <2> QED
    BY <1>1, <2>1 DEF ObjectIs, WordsOf
<1>2. CASE ObjectIs(u, Summarized \ {"silence"}) /\ w \in Words \ {Silence}
  <2>1. Summarized \ {"silence"} = IF SummaryEnabled THEN {"speech"} ELSE {"speech", "offending"}
    BY DEF Summarized
  <2>2. ~ObjectIs(u, {"silence"})
    BY <1>2, <2>1, OneObject DEF Says
  <2>3. SummaryEnabled => ~ObjectIs(u, {"offending"})
    BY <1>2, <2>1, OneObject DEF Says
  <2>4. ObjectIs(u, {"speech", "silence", "offending"})
    BY <1>2, <2>1 DEF ObjectIs
  <2> QED
    BY <1>2, <2>2, <2>3, <2>4 DEF WordsOf
<1> QED
  BY <1>1, <1>2 DEF Says

\* A job is only ever answered with words that the one recording its URL names says, and
\* with a summary the LLM did not reject.
THEOREM AnswersFit == PipelineSpec => []AnswersFitTheRecording
<1>1. PipelineInit => CallsFit /\ RowsFit /\ KindsInv
  <2> SUFFICES ASSUME PipelineInit
               PROVE  CallsFit /\ RowsFit /\ KindsInv
    OBVIOUS
  <2>1. PICK old \in SUBSET Legacy :
          \E u \in [old -> Unparsable] : jobs = [j \in old |-> Queued(u[j], 0)]
    BY DEF PipelineInit, Init
  <2>2. RowsFit
    BY <2>1 DEF Queued, RowsFit
  <2> QED
    BY <2>2, PipelineAssumption DEF PipelineInit, Init, ScannerInit, KindsInv, CallsFit
<1>2. CallsFit /\ RowsFit /\ KindsInv /\ [PipelineStep]_pipelineVars
        => (CallsFit /\ RowsFit /\ KindsInv)'
  <2>1. CASE PipelineStep
    BY <2>1, CallsKeepFitting, RowsKeepFitting, KindsStep DEF PipelineStep
  <2>2. CASE UNCHANGED pipelineVars
    BY <2>2 DEF pipelineVars, callVars, vars, storeVars, workerVars, threadVars, scannerVars,
         CallsFit, RowsFit, KindsInv, Says, Summarized, ObjectIs, Named
  <2> QED
    BY <2>1, <2>2
<1>3. RowsFit /\ KindsInv => AnswersFitTheRecording
  BY SaidIsAnswered DEF RowsFit, AnswersFitTheRecording
<1> QED
  BY <1>1, <1>2, <1>3, PipelineAlways, PTL DEF PipelineSpec
=============================================================================
