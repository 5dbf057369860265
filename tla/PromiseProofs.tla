---------------------------- MODULE PromiseProofs ----------------------------
(***************************************************************************)
(* The service keeps the promise of JobQueue, for every instance: each of  *)
(* its steps is one step of the queue a client sees, or none.              *)
(***************************************************************************)
EXTENDS AiServiceProofs

PromiseStep == Promise!QueueNext \/ UNCHANGED Promise!queueVars

\* what a client can tell of a row
PhaseOf(row) ==
  IF row.status \in {"queued", "processing"} THEN "accepted"
  ELSE IF row.status = "delivering" THEN "answered" ELSE row.status

Sight(row) ==
  [phase |-> PhaseOf(row),
   answer |-> IF PhaseOf(row) \in {"absent", "accepted"} THEN NoText ELSE Answer(row)]

LEMMA BarsAreSights ==
  ASSUME NEW j \in Ids
  PROVE  /\ j \notin DOMAIN jobs => PhaseBar[j] = "absent" /\ AnswerBar[j] = NoText
         /\ j \in DOMAIN jobs => /\ PhaseBar[j] = Sight(jobs[j]).phase
                                 /\ AnswerBar[j] = Sight(jobs[j]).answer
         /\ j \notin DOMAIN jobs' => PhaseBar'[j] = "absent" /\ AnswerBar'[j] = NoText
         /\ j \in DOMAIN jobs' => /\ PhaseBar'[j] = Sight(jobs'[j]).phase
                                  /\ AnswerBar'[j] = Sight(jobs'[j]).answer
<1>1. j \in DOMAIN jobs => Phase(j) = Sight(jobs[j]).phase
  BY DEF Phase, Sight, PhaseOf
<1>2. j \in DOMAIN jobs' => Phase(j)' = Sight(jobs'[j]).phase
  BY DEF Phase, Sight, PhaseOf
<1>3. j \in DOMAIN jobs => AnswerBar[j] = Sight(jobs[j]).answer
  BY DEF AnswerBar, Phase, Sight, PhaseOf, Answer
<1>4. j \in DOMAIN jobs' => AnswerBar'[j] = Sight(jobs'[j]).answer
  BY DEF AnswerBar, Phase, Sight, PhaseOf, Answer
<1> QED
  BY <1>1, <1>2, <1>3, <1>4 DEF PhaseBar, AnswerBar, Phase

\* what the channels heard, as functions of two arguments
LEMMA HeardIsTable ==
  /\ HeardBar = [k \in Ids |-> HeardBar[k]]
  /\ HeardBar' = [k \in Ids |-> HeardBar'[k]]
  /\ \A k \in Ids : HeardBar[k] = [c \in Channels |-> HeardBar[k][c]]
  /\ \A k \in Ids : HeardBar'[k] = [c \in Channels |-> HeardBar'[k][c]]
BY DEF HeardBar

\* after a job is queued again nobody has heard of it
LEMMA HearingStartsAfresh ==
  ASSUME NEW j \in Ids, \A c \in Channels : got'[j][c] = <<>>,
         \A k \in Ids \ {j} : got'[k] = got[k]
  PROVE  HeardBar' = [HeardBar EXCEPT ![j] = [c \in Channels |-> NoText]]
<1>1. HeardBar'[j] = [c \in Channels |-> NoText]
  BY DEF HeardBar
<1>2. \A k \in Ids \ {j} : HeardBar'[k] = HeardBar[k]
  BY DEF HeardBar
<1> QED
  BY <1>1, <1>2, HeardIsTable

\* A step after which every row looks as before.
LEMMA Unseen ==
  ASSUME DOMAIN jobs' = DOMAIN jobs, UNCHANGED got,
         \A k \in DOMAIN jobs : Sight(jobs'[k]) = Sight(jobs[k])
  PROVE  UNCHANGED Promise!queueVars
<1>1. \A k \in Ids : PhaseBar'[k] = PhaseBar[k] /\ AnswerBar'[k] = AnswerBar[k]
  BY BarsAreSights
<1>2. PhaseBar' = PhaseBar
  BY <1>1 DEF PhaseBar
<1>3. AnswerBar' = AnswerBar
  BY <1>1 DEF AnswerBar
<1>4. HeardBar' = HeardBar
  BY DEF HeardBar
<1> QED
  BY <1>2, <1>3, <1>4 DEF Promise!queueVars

\* A step that writes the row of one job changes the promise of no other.
LEMMA OneJobChanges ==
  ASSUME NEW j \in Ids,
         \A k \in Ids \ {j} : (k \in DOMAIN jobs) = (k \in DOMAIN jobs'),
         \A k \in DOMAIN jobs \ {j} : jobs'[k] = jobs[k]
  PROVE  /\ PhaseBar' = [PhaseBar EXCEPT ![j] = PhaseBar'[j]]
         /\ AnswerBar' = [AnswerBar EXCEPT ![j] = AnswerBar'[j]]
<1>1. \A k \in Ids \ {j} : PhaseBar'[k] = PhaseBar[k] /\ AnswerBar'[k] = AnswerBar[k]
  BY BarsAreSights
<1>2. PhaseBar' = [PhaseBar EXCEPT ![j] = PhaseBar'[j]]
  BY <1>1 DEF PhaseBar
<1>3. AnswerBar' = [AnswerBar EXCEPT ![j] = AnswerBar'[j]]
  BY <1>1 DEF AnswerBar
<1> QED
  BY <1>2, <1>3

\* a job of which no message is there has not been heard of
LEMMA NothingHeard ==
  ASSUME TypeOK, JobsInv, NEW j \in Ids,
         j \in DOMAIN jobs => jobs[j].status \in {"queued", "processing"}
  PROVE  \A c \in Channels : got[j][c] = <<>> /\ HeardBar[j][c] = NoText
<1>1. \A c \in Channels : got[j][c] \in Seq(Message) /\ DOMAIN got[j][c] = {}
  BY DEF TypeOK, WorkerTypeOK, JobsInv, MessagesAreAnswers
<1>2. \A c \in Channels : got[j][c] = <<>>
  BY <1>1, NothingInIt
<1> QED
  BY <1>2 DEF HeardBar

-----------------------------------------------------------------------------
(* Submit.                                                                 *)

LEMMA NewJobIsSubmitted ==
  ASSUME TypeOK, JobsInv, NEW j \in Ids \ DOMAIN jobs, NEW u, NEW s,
         Insert(j, Queued(u, s)), UNCHANGED got
  PROVE  Promise!Submit(j)
<1>1. /\ DOMAIN jobs' = DOMAIN jobs \cup {j}
      /\ \A k \in DOMAIN jobs : jobs'[k] = jobs[k]
      /\ jobs'[j].status = "queued"
  BY DEF Insert, Queued
<1>2. PhaseBar[j] = "absent" /\ PhaseBar'[j] = "accepted" /\ AnswerBar'[j] = NoText
  BY <1>1, BarsAreSights DEF Sight, PhaseOf
<1>3. HeardBar' = [HeardBar EXCEPT ![j] = [c \in Channels |-> NoText]]
  BY NothingHeard, HearingStartsAfresh
<1> QED
  BY <1>1, <1>2, <1>3, OneJobChanges DEF Promise!Submit

LEMMA FailedJobIsSubmitted ==
  ASSUME TypeOK, NEW j \in Ids, NEW u, Requeue(j, u),
         got' = [got EXCEPT ![j] = [c \in Channels |-> <<>>]]
  PROVE  Promise!Submit(j)
<1>1. /\ j \in DOMAIN jobs /\ jobs[j].status = "failed"
      /\ DOMAIN jobs' = DOMAIN jobs
      /\ \A k \in DOMAIN jobs \ {j} : jobs'[k] = jobs[k]
      /\ jobs'[j].status = "queued"
  BY DEF Requeue, Update, TypeOK, StoreTypeOK, Row
<1>2. PhaseBar[j] = "failed" /\ PhaseBar'[j] = "accepted" /\ AnswerBar'[j] = NoText
  BY <1>1, BarsAreSights DEF Sight, PhaseOf
<1>3. /\ \A c \in Channels : got'[j][c] = <<>>
      /\ \A k \in Ids \ {j} : got'[k] = got[k]
  BY DEF TypeOK, WorkerTypeOK
<1>4. HeardBar' = [HeardBar EXCEPT ![j] = [c \in Channels |-> NoText]]
  BY <1>3, HearingStartsAfresh
<1> QED
  BY <1>1, <1>2, <1>4, OneJobChanges DEF Promise!Submit

-----------------------------------------------------------------------------
(* Decide, Tell and Close.                                                 *)

LEMMA AnswerIsDecided ==
  ASSUME TypeOK, NEW j \in DOMAIN jobs, NEW row, Update(j, row), UNCHANGED got,
         jobs[j].status = "processing", row.status = "delivering"
  PROVE  Promise!Decide(j, Answer(row))
<1>1. /\ j \in Ids
      /\ DOMAIN jobs' = DOMAIN jobs /\ jobs'[j] = row
      /\ \A k \in DOMAIN jobs \ {j} : jobs'[k] = jobs[k]
  BY DEF Update, TypeOK, StoreTypeOK
<1>2. PhaseBar[j] = "accepted" /\ PhaseBar'[j] = "answered" /\ AnswerBar'[j] = Answer(row)
  BY <1>1, BarsAreSights DEF Sight, PhaseOf
<1>3. HeardBar' = HeardBar
  BY DEF HeardBar
<1> QED
  BY <1>1, <1>2, <1>3, OneJobChanges DEF Promise!Decide

LEMMA SendTells ==
  ASSUME TypeOK, ThreadInv, Sending, Accepted, UNCHANGED jobs
  PROVE  Promise!Tell(hand.id, Channel)
<1> DEFINE j == hand.id
           c == Channel
<1>1. j \in Ids /\ c \in Channels
  BY DEF Sending, TypeOK, WorkerTypeOK, Held, Holding, Channel, Channels
<1>2. j \in DOMAIN jobs /\ jobs[j].status = "delivering" /\ jobs[j].text = hand.row.text
  BY DEF Sending, ThreadInv, HandsAreFresh, Fresh
<1>3. PhaseBar[j] = "answered" /\ AnswerBar[j] = Answer(jobs[j])
  BY <1>1, <1>2, BarsAreSights DEF Sight, PhaseOf
<1>4. Content.body = AnswerBar[j]
  BY <1>2, <1>3 DEF Content, Answer, IsError
<1>5. /\ got[j][c] \in Seq(Message)
      /\ got'[j][c] = Append(got[j][c], Content)
      /\ \A k \in Ids, d \in Channels : k # j \/ d # c => got'[k][d] = got[k][d]
  BY <1>1 DEF Accepted, TypeOK, WorkerTypeOK
<1>6. got'[j][c] # <<>> /\ got'[j][c][Len(got'[j][c])] = Content
  BY <1>5
<1>7. HeardBar'[j][c] = AnswerBar[j]
  BY <1>1, <1>4, <1>6 DEF HeardBar
<1>8. \A k \in Ids, d \in Channels : k # j \/ d # c => HeardBar'[k][d] = HeardBar[k][d]
  BY <1>5 DEF HeardBar
<1>9. HeardBar' = [HeardBar EXCEPT ![j][c] = AnswerBar[j]]
  BY <1>1, <1>7, <1>8, HeardIsTable
<1>10. PhaseBar' = PhaseBar /\ AnswerBar' = AnswerBar
  BY DEF PhaseBar, AnswerBar, Phase, Answer
<1> QED
  BY <1>3, <1>9, <1>10 DEF Promise!Tell

\* what a recorded channel was told last is the answer
LEMMA RecordedHeardTheAnswer ==
  ASSUME TypeOK, JobsInv, NEW j \in DOMAIN jobs, jobs[j].status = "delivering",
         NEW c \in jobs[j].delivered
  PROVE  c \in Channels /\ HeardBar[j][c] = Answer(jobs[j])
<1>1. j \in Ids /\ c \in Channels
  BY DEF TypeOK, StoreTypeOK, Row
<1>2. DOMAIN got[j][c] # {}
  BY DEF JobsInv, MarksAreTrue, Told
<1>3. got[j][c] \in Seq(Message) /\ got[j][c] # <<>>
  BY <1>1, <1>2 DEF TypeOK, WorkerTypeOK
<1>4. Len(got[j][c]) \in DOMAIN got[j][c]
  BY <1>3
<1>5. got[j][c][Len(got[j][c])].body = Answer(jobs[j])
  BY <1>1, <1>4 DEF JobsInv, MessagesAreAnswers
<1> QED
  BY <1>1, <1>3, <1>5 DEF HeardBar

LEMMA SettlingCloses ==
  ASSUME TypeOK, JobsInv, ThreadInv, pc \in {"send", "close"}, todo = {},
         NEW s \in {"done", "failed"}, s = "failed" <=> hand.row.text = NoText,
         SetStatus(hand.id, s), UNCHANGED got
  PROVE  Promise!Close(hand.id, cfg.enabled)
<1> DEFINE j == hand.id
<1>1. /\ j \in DOMAIN jobs /\ j \in Ids /\ jobs[j] \in Row
      /\ jobs[j].status = "delivering" /\ jobs[j].text = hand.row.text
      /\ cfg.enabled \subseteq jobs[j].delivered
  BY DEF ThreadInv, HandsAreFresh, Fresh, TypeOK, StoreTypeOK
<1>2. /\ DOMAIN jobs' = DOMAIN jobs
      /\ \A k \in DOMAIN jobs \ {j} : jobs'[k] = jobs[k]
      /\ jobs'[j].status = s /\ jobs'[j].text = jobs[j].text
  BY <1>1 DEF SetStatus, Update, Row
<1>3. PhaseBar[j] = "answered" /\ AnswerBar[j] = Answer(jobs[j])
  BY <1>1, BarsAreSights DEF Sight, PhaseOf
<1>4. PhaseBar'[j] = s /\ AnswerBar'[j] = Answer(jobs[j])
  BY <1>1, <1>2, BarsAreSights DEF Sight, PhaseOf, Answer
<1>5. s = IF AnswerBar[j] = Failure THEN "failed" ELSE "done"
  BY <1>1, <1>3, FailureAssumption DEF Answer, Row
<1>6. AnswerBar' = AnswerBar
  BY <1>1, <1>2, <1>3, <1>4, OneJobChanges DEF AnswerBar
<1>7. \A c \in cfg.enabled : HeardBar[j][c] = AnswerBar[j]
  BY <1>1, <1>3, RecordedHeardTheAnswer
<1>8. HeardBar' = HeardBar
  BY DEF HeardBar
<1> QED
  BY <1>1, <1>2, <1>3, <1>4, <1>5, <1>6, <1>7, <1>8, OneJobChanges DEF Promise!Close

-----------------------------------------------------------------------------
(* Every step of the service.                                              *)

LEMMA OneRowUnseen ==
  ASSUME NEW j \in DOMAIN jobs, NEW row, Update(j, row), UNCHANGED got,
         Sight(row) = Sight(jobs[j])
  PROVE  UNCHANGED Promise!queueVars
<1>1. DOMAIN jobs' = DOMAIN jobs /\ \A k \in DOMAIN jobs : Sight(jobs'[k]) = Sight(jobs[k])
  BY DEF Update
<1> QED
  BY <1>1, Unseen

LEMMA DeliveryKeepsThePromise ==
  ASSUME TypeOK, JobsInv, ThreadInv,
         Mark \/ SettleFailed \/ Route \/ SettleDone \/ SendAccepted \/ SendAckLost
  PROVE  PromiseStep
<1> USE DEF storeVars, channelVars
<1>1. pc \in {"send", "mark", "close"} =>
        /\ hand.id \in DOMAIN jobs /\ hand.id \in Ids /\ jobs[hand.id] \in Row
        /\ jobs[hand.id].status = "delivering"
        /\ jobs[hand.id].text = hand.row.text
        /\ cfg.enabled \in SUBSET Channels \ {{}}
  BY DEF ThreadInv, HandsAreFresh, Fresh, TypeOK, StoreTypeOK, WorkerTypeOK, Config
<1>2. CASE Mark
  <2> DEFINE row == [jobs[hand.id] EXCEPT !.delivered = @ \cup {Channel}]
  <2>1. Sight(row) = Sight(jobs[hand.id])
    BY <1>1, <1>2 DEF Mark, Row, Sight, PhaseOf, Answer
  <2> QED
    BY <1>1, <1>2, <2>1, OneRowUnseen DEF Mark, MarkDeliveredTo, PromiseStep
<1>3. CASE Route
  <2> DEFINE row == [jobs[hand.id] EXCEPT
                       !.emailed = IF "email" \in cfg.enabled THEN cfg.mailbox ELSE Nobody]
  <2>1. Sight(row) = Sight(jobs[hand.id])
    BY <1>1, <1>3 DEF Route, Row, Sight, PhaseOf, Answer
  <2> QED
    BY <1>1, <1>3, <2>1, OneRowUnseen DEF Route, SetRouting, PromiseStep
<1>4. CASE SettleFailed
  BY <1>1, <1>4, SettlingCloses DEF SettleFailed, IsError, PromiseStep, Promise!QueueNext
<1>5. CASE SettleDone
  BY <1>1, <1>5, SettlingCloses
     DEF SettleDone, ThreadInv, ThreadAgrees, PromiseStep, Promise!QueueNext
<1>6. CASE SendAccepted \/ SendAckLost
  <2>1. Channel \in Channels /\ pc = "send"
    BY <1>6 DEF SendAccepted, SendAckLost, Sending, Channel, Channels
  <2> QED
    BY <1>1, <1>6, <2>1, SendTells
       DEF SendAccepted, SendAckLost, PromiseStep, Promise!QueueNext
<1> QED
  BY <1>2, <1>3, <1>4, <1>5, <1>6

LEMMA ProcessingKeepsThePromise ==
  ASSUME TypeOK, JobsInv, ThreadInv,
         \/ StartProcessing \/ \E w \in Words : Transcribe(w)
         \/ PermanentError \/ TryAgainLater \/ GiveUp
  PROVE  PromiseStep
<1>1. pc \in {"start", "work", "again", "giveup"} =>
        /\ hand.id \in DOMAIN jobs /\ hand.id \in Ids /\ jobs[hand.id] \in Row
        /\ jobs[hand.id].status \in {"queued", "processing"}
        /\ pc # "start" => jobs[hand.id].status = "processing"
        /\ jobs[hand.id].text = NoText
  BY DEF ThreadInv, ThreadAgrees, HandsAreFresh, JobsInv, RowsAgree, TypeOK, StoreTypeOK
<1>2. ASSUME NEW s \in {"queued", "processing"}, SetStatus(hand.id, s), UNCHANGED channelVars,
             pc \in {"start", "again"}
      PROVE  PromiseStep
  <2>1. Sight([jobs[hand.id] EXCEPT !.status = s]) = Sight(jobs[hand.id])
    BY <1>1, <1>2 DEF Row, Sight, PhaseOf
  <2> QED
    BY <1>1, <1>2, <2>1, OneRowUnseen DEF SetStatus, channelVars, PromiseStep
<1>3. CASE StartProcessing
  BY <1>2, <1>3 DEF StartProcessing
<1>4. CASE TryAgainLater
  BY <1>2, <1>4 DEF TryAgainLater
<1>5. CASE PermanentError
  <2> DEFINE row == [jobs[hand.id] EXCEPT !.attempts = @ + 1, !.error = TRUE]
  <2>1. Sight(row) = Sight(jobs[hand.id])
    BY <1>1, <1>5 DEF PermanentError, Row, Sight, PhaseOf, Answer
  <2> QED
    BY <1>1, <1>5, <2>1, OneRowUnseen DEF PermanentError, IncrementAttempts, channelVars, PromiseStep
<1>6. ASSUME NEW w \in Words, Transcribe(w)
      PROVE  PromiseStep
  <2> DEFINE t == [url |-> hand.row.url, words |-> w]
             row == [jobs[hand.id] EXCEPT !.text = t, !.error = FALSE, !.delivered = {},
                                          !.emailed = NotRouted, !.status = "delivering"]
  <2>1. t \in Texts
    BY <1>6 DEF Transcribe, Texts, TypeOK, WorkerTypeOK, Holding, Held, Row
  <2>2. row.status = "delivering" /\ Answer(row) = t
    BY <1>1, <1>6, <2>1, TextAssumption DEF Transcribe, Row, Answer
  <2>3. Promise!Decide(hand.id, t)
    BY <1>1, <1>6, <2>2, AnswerIsDecided DEF Transcribe, SetResult, channelVars
  <2> QED
    BY <1>1, <1>6, <2>1, <2>3 DEF Transcribe, PromiseStep, Promise!QueueNext
<1>7. CASE GiveUp
  <2> DEFINE row == [jobs[hand.id] EXCEPT !.error = TRUE, !.delivered = {}, !.status = "delivering"]
  <2>1. row.status = "delivering" /\ Answer(row) = Failure
    BY <1>1, <1>7 DEF GiveUp, Row, Answer
  <2>2. Promise!Decide(hand.id, Failure)
    BY <1>1, <1>7, <2>1, AnswerIsDecided DEF GiveUp, SetFailedResult, channelVars
  <2> QED
    BY <1>1, <1>7, <2>2 DEF GiveUp, PromiseStep, Promise!QueueNext
<1> QED
  BY <1>3, <1>4, <1>5, <1>6, <1>7

LEMMA ScanKeepsThePromise ==
  ASSUME TypeOK, JobsInv, Scan
  PROVE  PromiseStep
<1> USE DEF Scan, workerVars, channelVars, storeVars
<1>1. CASE UNCHANGED jobs
  BY <1>1, Unseen DEF PromiseStep
<1>2. CASE \E k \in Keys : InsertKey(k) /\ ~UNCHANGED jobs
  <2>1. PICK k \in Keys : InsertKey(k) /\ ~UNCHANGED jobs
    BY <1>2
  <2>2. KeyId[k] \in Ids \ DOMAIN jobs /\ Insert(KeyId[k], Queued(KeyUrl[k], stamp))
    BY <2>1, KeysAssumption DEF InsertKey, EnqueueDiscovered
  <2> QED
    BY <2>2, NewJobIsSubmitted DEF PromiseStep, Promise!QueueNext
<1> QED
  BY <1>1, <1>2 DEF ScannerNext, ScanBegins, ScanDone, ScanFails, SkipKey, TakeKey

LEMMA RequestsKeepThePromise ==
  ASSUME TypeOK, JobsInv, Post
  PROVE  PromiseStep
<1> USE DEF workerVars, threadVars, channelVars, storeVars
<1>1. PICK j \in Ids, u \in Urls : PostNew(j, u) \/ PostFailed(j, u) \/ PostKnown(j, u)
  BY DEF Post
<1>2. CASE PostNew(j, u)
  BY <1>2, NewJobIsSubmitted DEF PostNew, EnqueueNew, PromiseStep, Promise!QueueNext
<1>3. CASE PostFailed(j, u)
  BY <1>3, FailedJobIsSubmitted DEF PostFailed, PromiseStep, Promise!QueueNext
<1>4. CASE PostKnown(j, u)
  BY <1>4, Unseen DEF PostKnown, EnqueueKnown, PromiseStep
<1> QED
  BY <1>1, <1>2, <1>3, <1>4

LEMMA StepKeepsThePromise ==
  ASSUME TypeOK, JobsInv, ThreadInv, [Next]_vars
  PROVE  PromiseStep
<1> USE DEF storeVars, channelVars
<1>1. CASE Work
  <2>1. CASE \/ ReadDelivering \/ Deliver \/ SendRefused \/ SendBreaks
             \/ DeliveriesDone \/ PickNothing \/ Pick \/ WorkInterrupted
    <3>1. UNCHANGED <<jobs, got>>
      BY <2>1 DEF ReadDelivering, Deliver, SendRefused, SendBreaks,
                  DeliveriesDone, PickNothing, Pick, WorkInterrupted
    <3> QED
      BY <3>1, Unseen DEF PromiseStep
  <2> QED
    BY <1>1, <2>1, DeliveryKeepsThePromise, ProcessingKeepsThePromise DEF Work, WorkerNext
<1>2. CASE Arrive \/ UNCHANGED vars \/ \E next \in Configs : Restart(next)
  <2>1. UNCHANGED <<jobs, got>>
    BY <1>2 DEF Arrive, Upload, vars, workerVars, Restart
  <2> QED
    BY <2>1, Unseen DEF PromiseStep
<1> QED
  BY <1>1, <1>2, ScanKeepsThePromise, RequestsKeepThePromise DEF Next

LEMMA InitKeepsThePromise ==
  ASSUME Init
  PROVE  Promise!QueueInit
<1>1. PICK old \in SUBSET Legacy :
        \E u \in [old -> Unparsable] : jobs = [j \in old |-> Queued(u[j], 0)]
  BY DEF Init
<1>2. DOMAIN jobs = old /\ old \subseteq Ids /\ \A j \in old : jobs[j].status = "queued"
  BY <1>1, ServiceAssumption DEF Queued
<1>3. PhaseBar = [j \in Ids |-> IF j \in old THEN "accepted" ELSE "absent"]
  BY <1>2 DEF PhaseBar, Phase
<1>4. AnswerBar = [j \in Ids |-> NoText]
  BY <1>2 DEF AnswerBar, Phase
<1>5. HeardBar = [j \in Ids |-> [c \in Channels |-> NoText]]
  BY DEF Init, WorkerInit, HeardBar
<1> QED
  BY <1>2, <1>3, <1>4, <1>5 DEF Promise!QueueInit

\* The service implements JobQueue, for every set of jobs, recordings and configurations
\* and every bound: a job gets one answer, every channel hears that one, and the job is
\* closed when a whole set of channels has heard it.
THEOREM ServiceKeepsThePromise == Spec => KeepsThePromise
<1>1. Init => TypeOK /\ JobsInv /\ ThreadInv /\ Promise!QueueInit
  BY InitInv, InitTypes, InitKeepsThePromise
<1>2. TypeOK /\ JobsInv /\ ThreadInv /\ [Next]_vars => (TypeOK /\ JobsInv /\ ThreadInv)'
  BY NextKeepsInv, NextKeepsTypes
<1>3. TypeOK /\ JobsInv /\ ThreadInv /\ [Next]_vars
        => [Promise!QueueNext]_(Promise!queueVars)
  BY StepKeepsThePromise DEF PromiseStep
<1> QED
  BY <1>1, <1>2, <1>3, PTL DEF Spec, KeepsThePromise, Promise!QueueSpec
=============================================================================
