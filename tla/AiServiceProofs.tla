--------------------------- MODULE AiServiceProofs --------------------------
(***************************************************************************)
(* Proofs about the whole service, for every set of jobs, recordings and   *)
(* configurations and every bound.                                         *)
(***************************************************************************)
EXTENDS AiService, TLAPS

-----------------------------------------------------------------------------
(* Type correctness: first what the store's operations do to the table.    *)

TableOK(t) == DOMAIN t \subseteq Ids /\ t \in [DOMAIN t -> Row]

LEMMA QueuedIsRow ==
  ASSUME NEW u \in Urls, NEW s \in Nat PROVE Queued(u, s) \in Row
BY DEF Queued, Row, Status

LEMMA InsertOK ==
  ASSUME TableOK(jobs), NEW j \in Ids, NEW row \in Row, Insert(j, row)
  PROVE  TableOK(jobs')
BY DEF TableOK, Insert

LEMMA UpdateOK ==
  ASSUME TableOK(jobs), NEW j, NEW row, j \in DOMAIN jobs => row \in Row, Update(j, row)
  PROVE  TableOK(jobs')
BY DEF TableOK, Update

LEMMA RowOK ==
  ASSUME TableOK(jobs), NEW j \in DOMAIN jobs
  PROVE  jobs[j] \in Row /\ j \in Ids
BY DEF TableOK

LEMMA StoreOperationsOK ==
  ASSUME TableOK(jobs), NEW j
  PROVE  /\ \A s \in Status : SetStatus(j, s) => TableOK(jobs')
         /\ \A t \in Texts : SetResult(j, t) => TableOK(jobs')
         /\ SetFailedResult(j) => TableOK(jobs')
         /\ \A c \in Channels : MarkDeliveredTo(j, c) => TableOK(jobs')
         /\ IncrementAttempts(j) => TableOK(jobs')
         /\ \A to \in Mailboxes \cup {Nobody} : SetRouting(j, to) => TableOK(jobs')
<1>1. ASSUME NEW s \in Status, SetStatus(j, s) PROVE TableOK(jobs')
  BY <1>1, UpdateOK, RowOK DEF SetStatus, Row
<1>2. ASSUME NEW t \in Texts, SetResult(j, t) PROVE TableOK(jobs')
  BY <1>2, UpdateOK, RowOK DEF SetResult, Row, Status
<1>3. ASSUME SetFailedResult(j) PROVE TableOK(jobs')
  BY <1>3, UpdateOK, RowOK DEF SetFailedResult, Row, Status
<1>4. ASSUME NEW c \in Channels, MarkDeliveredTo(j, c) PROVE TableOK(jobs')
  BY <1>4, UpdateOK, RowOK DEF MarkDeliveredTo, Row
<1>5. ASSUME IncrementAttempts(j) PROVE TableOK(jobs')
  <2> DEFINE row == [jobs[j] EXCEPT !.attempts = @ + 1, !.error = TRUE]
  <2>1. ASSUME j \in DOMAIN jobs PROVE row \in Row
    <3>1. jobs[j] \in Row BY <2>1, RowOK
    <3>2. jobs[j].attempts \in Nat BY <3>1 DEF Row
    <3>3. jobs[j].attempts + 1 \in Nat BY <3>2
    <3> QED BY <3>1, <3>3 DEF Row
  <2> QED BY <1>5, <2>1, UpdateOK DEF IncrementAttempts
<1>6. ASSUME NEW to \in Mailboxes \cup {Nobody}, SetRouting(j, to) PROVE TableOK(jobs')
  BY <1>6, UpdateOK, RowOK DEF SetRouting, Row
<1> QED BY <1>1, <1>2, <1>3, <1>4, <1>5, <1>6

LEMMA RequestsKeepTypes ==
  ASSUME TypeOK, Post PROVE TypeOK'
<1> USE DEF TypeOK, StoreTypeOK, WorkerTypeOK, ScannerTypeOK, workerVars, threadVars,
            channelVars, scannerVars, scanVars
<1>1. PICK j \in Ids, u \in Urls : PostNew(j, u) \/ PostFailed(j, u) \/ PostKnown(j, u)
  BY DEF Post
<1>2. TableOK(jobs)
  BY DEF TableOK
<1>3. CASE PostNew(j, u)
  <2>1. TableOK(jobs')
    BY <1>2, <1>3, InsertOK, QueuedIsRow DEF PostNew, EnqueueNew
  <2> QED BY <1>3, <2>1 DEF PostNew, EnqueueNew, TableOK
<1>4. CASE PostFailed(j, u)
  <2>1. TableOK(jobs')
    BY <1>2, <1>4, UpdateOK, RowOK DEF PostFailed, Requeue, Row, Status
  <2>2. got' \in [Ids -> [Channels -> Seq(Message)]]
    BY <1>4 DEF PostFailed
  <2>3. requeues' \in 0 .. MaxRequeues
    BY <1>4, ServiceAssumption DEF PostFailed
  <2> QED BY <1>4, <2>1, <2>2, <2>3 DEF PostFailed, Requeue, TableOK
<1>5. CASE PostKnown(j, u)
  BY <1>5 DEF PostKnown, EnqueueKnown, storeVars
<1> QED BY <1>1, <1>3, <1>4, <1>5

LEMMA ScanKeepsTypes ==
  ASSUME TypeOK, Scan PROVE TypeOK'
<1> USE DEF TypeOK, StoreTypeOK, WorkerTypeOK, ScannerTypeOK, Scan, workerVars, threadVars,
            channelVars, storeVars
<1>1. CASE ScanBegins
  BY <1>1 DEF ScanBegins
<1>2. CASE ScanDone \/ ScanFails
  BY <1>2 DEF ScanDone, ScanFails, ScanEnds
<1>3. ASSUME NEW k \in Keys, SkipKey(k) PROVE TypeOK'
  BY <1>3 DEF SkipKey
<1>4. ASSUME NEW k \in Keys, TakeKey(k) PROVE TypeOK'
  BY <1>4 DEF TakeKey
<1>5. ASSUME NEW k \in Keys, InsertKey(k) PROVE TypeOK'
  <2>1. KeyId[k] \in Ids /\ KeyUrl[k] \in Urls
    BY KeysAssumption
  <2>2. TableOK(jobs')
    BY <1>5, <2>1, InsertOK, QueuedIsRow DEF InsertKey, EnqueueDiscovered, TableOK
  <2> QED BY <1>5, <2>2 DEF InsertKey, EnqueueDiscovered, TableOK
<1> QED BY <1>1, <1>2, <1>3, <1>4, <1>5 DEF ScannerNext

LEMMA DeliveryKeepsTypes ==
  ASSUME TypeOK, Work,
         ReadDelivering \/ Deliver \/ SendAccepted \/ SendAckLost \/ SendRefused \/ SendBreaks
           \/ Mark \/ SettleFailed \/ Route \/ SettleDone \/ DeliveriesDone
  PROVE  TypeOK'
<1> USE DEF TypeOK, StoreTypeOK, WorkerTypeOK, ScannerTypeOK, scannerVars, scanVars,
            channelVars, storeVars, Work, Pcs, Holding
<1>1. TableOK(jobs)
  BY DEF TableOK
<1>2. Channel \in Channels
  BY DEF Channel, Channels
<1>3. ASSUME pc = "send", Accepted PROVE got' \in [Ids -> [Channels -> Seq(Message)]]
  <2>1. hand.row \in Row /\ hand.id \in Ids
    BY <1>3 DEF Held
  <2>2. Content \in Message
    BY <2>1 DEF Content, Message, IsError, Row, Config
  <2> QED BY <1>2, <1>3, <2>1, <2>2 DEF Accepted
<1>4. CASE ReadDelivering
  BY <1>1, <1>4, RowOK DEF ReadDelivering, ListDelivering, WithStatus
<1>5. CASE Deliver
  BY <1>5 DEF Deliver, Held, Config
<1>6. CASE SendAccepted
  BY <1>3, <1>6 DEF SendAccepted, Sending
<1>7. CASE SendAckLost
  <2>1. lost' \in 0 .. MaxLost
    BY <1>7, LostAssumption DEF SendAckLost
  <2> QED BY <1>3, <1>7, <2>1 DEF SendAckLost, Sending, NextOfBatch
<1>8. CASE SendRefused
  BY <1>8 DEF SendRefused, NextOfBatch
<1>9. CASE SendBreaks
  BY <1>9, OverflowAssumption DEF SendBreaks, CycleRaises, Forget, Empty
<1>10. CASE Mark
  <2>1. TableOK(jobs')
    BY <1>1, <1>2, <1>10, StoreOperationsOK DEF Mark
  <2> QED BY <1>10, <2>1 DEF Mark, TableOK
<1>11. CASE SettleFailed
  <2>1. TableOK(jobs')
    BY <1>1, <1>11, StoreOperationsOK DEF SettleFailed, Status
  <2> QED BY <1>11, <2>1 DEF SettleFailed, NextOfBatch, TableOK
<1>12. CASE Route
  <2>1. TableOK(jobs')
    BY <1>1, <1>12, StoreOperationsOK DEF Route, Config
  <2> QED BY <1>12, <2>1 DEF Route, TableOK
<1>13. CASE SettleDone
  <2>1. TableOK(jobs')
    BY <1>1, <1>13, StoreOperationsOK DEF SettleDone, Status
  <2> QED BY <1>13, <2>1 DEF SettleDone, NextOfBatch, TableOK
<1>14. CASE DeliveriesDone
  BY <1>14 DEF DeliveriesDone
<1> QED BY <1>4, <1>5, <1>6, <1>7, <1>8, <1>9, <1>10, <1>11, <1>12, <1>13, <1>14

LEMMA ProcessingKeepsTypes ==
  ASSUME TypeOK, Work,
         \/ PickNothing \/ Pick \/ StartProcessing \/ \E w \in Words : Transcribe(w)
         \/ WorkInterrupted \/ PermanentError \/ TryAgainLater \/ GiveUp
  PROVE  TypeOK'
<1> USE DEF TypeOK, StoreTypeOK, WorkerTypeOK, ScannerTypeOK, scannerVars, scanVars,
            channelVars, storeVars, Work, Pcs, Holding
<1>1. TableOK(jobs)
  BY DEF TableOK
<1>2. CASE PickNothing
  <2>1. CASE CycleRaises
    BY <1>2, <2>1, OverflowAssumption DEF PickNothing, CycleRaises, Forget, Empty
  <2>2. CASE CycleReturns
    BY <1>2, <2>2 DEF PickNothing, CycleReturns, Forget, Empty
  <2> QED BY <1>2, <2>1, <2>2 DEF PickNothing
<1>3. CASE Pick
  BY <1>1, <1>3, RowOK DEF Pick, Pending, WithStatus, Held
<1>4. CASE StartProcessing
  <2>1. TableOK(jobs')
    BY <1>1, <1>4, StoreOperationsOK DEF StartProcessing, Status
  <2> QED BY <1>4, <2>1 DEF StartProcessing, TableOK
<1>5. ASSUME NEW w \in Words, Transcribe(w) PROVE TypeOK'
  <2>1. [url |-> hand.row.url, words |-> w] \in Texts
    BY <1>5 DEF Transcribe, Texts, Held, Row
  <2>2. TableOK(jobs')
    BY <1>1, <1>5, <2>1, StoreOperationsOK DEF Transcribe
  <2> QED BY <1>5, <2>2 DEF Transcribe, CycleReturns, Forget, Empty, TableOK
<1>6. CASE WorkInterrupted
  BY <1>6, OverflowAssumption DEF WorkInterrupted, CycleRaises, Forget, Empty
<1>7. CASE PermanentError
  <2>1. TableOK(jobs')
    BY <1>1, <1>7, StoreOperationsOK DEF PermanentError
  <2> QED BY <1>7, <2>1 DEF PermanentError, TableOK
<1>8. CASE TryAgainLater
  <2>1. TableOK(jobs')
    BY <1>1, <1>8, StoreOperationsOK DEF TryAgainLater, Status
  <2> QED BY <1>8, <2>1 DEF TryAgainLater, CycleReturns, Forget, Empty, TableOK
<1>9. CASE GiveUp
  <2>1. TableOK(jobs')
    BY <1>1, <1>9, StoreOperationsOK DEF GiveUp
  <2> QED BY <1>9, <2>1 DEF GiveUp, CycleReturns, Forget, Empty, TableOK
<1> QED BY <1>2, <1>3, <1>4, <1>5, <1>6, <1>7, <1>8, <1>9

LEMMA InitTypes == Init => TypeOK
<1> SUFFICES ASSUME Init PROVE TypeOK
  OBVIOUS
<1> USE DEF Init, TypeOK
<1>1. StoreTypeOK
  <2>0. PICK old \in SUBSET Legacy :
          \E u \in [old -> Unparsable] : jobs = [j \in old |-> Queued(u[j], 0)]
    OBVIOUS
  <2>1. PICK u \in [old -> Unparsable] : jobs = [j \in old |-> Queued(u[j], 0)]
    BY <2>0
  <2>2. \A j \in old : Queued(u[j], 0) \in Row
    BY InputAssumption, QueuedIsRow
  <2> QED BY <2>1, <2>2, ServiceAssumption DEF StoreTypeOK
<1>2. WorkerTypeOK
  <2>1. cfg \in Config /\ lost \in 0 .. MaxLost
    BY LostAssumption, ServiceAssumption DEF WorkerInit
  <2>2. DOMAIN batch \subseteq Ids /\ batch \in [DOMAIN batch -> Row]
    BY DEF WorkerInit, Empty
  <2>3. got \in [Ids -> [Channels -> Seq(Message)]]
    BY DEF WorkerInit
  <2> QED BY <2>1, <2>2, <2>3 DEF WorkerInit, WorkerTypeOK, Pcs, Holding
<1>3. ScannerTypeOK
  BY DEF ScannerInit, ScannerTypeOK
<1> QED BY <1>1, <1>2, <1>3, ServiceAssumption

LEMMA NextKeepsTypes == TypeOK /\ [Next]_vars => TypeOK'
<1> SUFFICES ASSUME TypeOK, [Next]_vars PROVE TypeOK'
  OBVIOUS
<1>1. CASE Work
  BY <1>1, DeliveryKeepsTypes, ProcessingKeepsTypes DEF Work, WorkerNext
<1>2. CASE Arrive
  BY <1>2 DEF Arrive, Upload, TypeOK, StoreTypeOK, WorkerTypeOK, ScannerTypeOK,
              workerVars, threadVars, channelVars, storeVars, scanVars
<1>3. ASSUME NEW next \in Configs, Restart(next) PROVE TypeOK'
  <2> USE <1>3 DEF Restart, TypeOK, storeVars, channelVars
  <2>1. StoreTypeOK'
    BY DEF StoreTypeOK
  <2>2. WorkerTypeOK'
    BY ServiceAssumption DEF WorkerRestarts, WorkerTypeOK, Empty, Pcs, Holding
  <2>3. ScannerTypeOK'
    BY DEF ScanEnds, ScannerTypeOK
  <2> QED BY <2>1, <2>2, <2>3, ServiceAssumption
<1>4. CASE UNCHANGED vars
  BY <1>4 DEF vars, workerVars, threadVars, channelVars, storeVars, scannerVars, scanVars,
              TypeOK, StoreTypeOK, WorkerTypeOK, ScannerTypeOK
<1> QED BY <1>1, <1>2, <1>3, <1>4, RequestsKeepTypes, ScanKeepsTypes DEF Next

\* TypeOK holds in every state of the service, for every set of jobs and keys, every
\* configuration and every bound.
THEOREM TypesAreCorrect == Spec => []TypeOK
  BY InitTypes, NextKeepsTypes, PTL DEF Spec

-----------------------------------------------------------------------------
(* The invariant ServiceInv.  What the two tables of a job - its row and   *)
(* the messages its channels accepted - must satisfy, and what the thread  *)
(* may hold, are preserved separately by each kind of step.  The rows and  *)
(* the thread need nothing of the messages, the marks need nothing of what *)
(* else was sent: FaultyStoreProofs uses each part where the others fail.  *)

JobsInv == RowsAgree /\ MessagesAreAnswers /\ MarksAreTrue
ThreadInv == ThreadAgrees /\ HandsAreFresh /\ SendPrecedesMark

TablesKept ==
  /\ RowsAgree'
  /\ MarksAreTrue => MarksAreTrue'
  /\ MessagesAreAnswers => MessagesAreAnswers'

LEMMA SameTables ==
  ASSUME RowsAgree, UNCHANGED <<jobs, got>> PROVE TablesKept
BY DEF TablesKept, RowsAgree, MessagesAreAnswers, MarksAreTrue, Told, Answer

LEMMA QuietSteps ==
  ASSUME RowsAgree, ThreadInv, UNCHANGED <<jobs, got, cfg, pc, batch, hand, todo>>
  PROVE  TablesKept /\ ThreadInv'
BY SameTables DEF ThreadInv, ThreadAgrees, HandsAreFresh, SendPrecedesMark, Told, Answer, Fresh,
       Channel

LEMMA NewJob ==
  ASSUME TypeOK, RowsAgree, ThreadInv, NEW j \in Ids \ DOMAIN jobs, NEW u \in Urls, NEW s \in Nat,
         Insert(j, Queued(u, s)), UNCHANGED <<got, cfg, pc, batch, hand, todo>>
  PROVE  TablesKept /\ ThreadInv'
<1>1. /\ DOMAIN jobs' = DOMAIN jobs \cup {j}
      /\ \A k \in DOMAIN jobs : jobs'[k] = jobs[k]
      /\ jobs'[j] = Queued(u, s)
  BY DEF Insert
<1>2. jobs'[j].status = "queued" /\ jobs'[j].text = NoText
  BY <1>1 DEF Queued
<1>3. RowsAgree'
  BY <1>1, <1>2 DEF RowsAgree
<1>4. ASSUME MessagesAreAnswers PROVE MessagesAreAnswers'
  BY <1>1, <1>4 DEF MessagesAreAnswers, Answer
<1>5. ASSUME MarksAreTrue PROVE MarksAreTrue'
  BY <1>1, <1>2, <1>5 DEF MarksAreTrue, Told, Answer
<1>6. ThreadAgrees'
  BY <1>1 DEF ThreadInv, ThreadAgrees, HandsAreFresh
<1>7. HandsAreFresh'
  BY <1>1 DEF ThreadInv, HandsAreFresh, Fresh
<1>8. SendPrecedesMark'
  BY DEF ThreadInv, SendPrecedesMark, Told, Answer, Channel
<1> QED BY <1>3, <1>4, <1>5, <1>6, <1>7, <1>8 DEF TablesKept, ThreadInv

LEMMA RequestsKeepInv ==
  ASSUME TypeOK, RowsAgree, ThreadInv, Post PROVE TablesKept /\ ThreadInv'
<1>1. PICK j \in Ids, u \in Urls : PostNew(j, u) \/ PostFailed(j, u) \/ PostKnown(j, u)
  BY DEF Post
<1>2. CASE PostNew(j, u)
  BY <1>2, NewJob DEF PostNew, EnqueueNew, workerVars, threadVars, channelVars,
                      TypeOK, StoreTypeOK
<1>3. CASE PostKnown(j, u)
  BY <1>3, QuietSteps DEF PostKnown, EnqueueKnown, workerVars, threadVars, channelVars, storeVars
<1>4. CASE PostFailed(j, u)
  <2>1. /\ j \in DOMAIN jobs /\ jobs[j].status = "failed"
        /\ DOMAIN jobs' = DOMAIN jobs
        /\ \A k \in DOMAIN jobs \ {j} : jobs'[k] = jobs[k]
    BY <1>4 DEF PostFailed, Requeue, Update
  <2>2. jobs'[j].status = "queued" /\ jobs'[j].text = jobs[j].text
    BY <1>4, <2>1 DEF PostFailed, Requeue, Update, TypeOK, StoreTypeOK, Row
  <2>3. /\ \A c \in Channels : got'[j][c] = <<>>
        /\ \A k \in Ids \ {j} : got'[k] = got[k]
    BY <1>4 DEF PostFailed, TypeOK, WorkerTypeOK
  <2>4. UNCHANGED <<cfg, pc, batch, hand, todo>>
    BY <1>4 DEF PostFailed, threadVars
  <2>5. jobs[j].text = NoText
    BY <2>1 DEF RowsAgree
  <2>6. RowsAgree'
    BY <2>1, <2>2, <2>5 DEF RowsAgree
  <2>7. ASSUME MessagesAreAnswers PROVE MessagesAreAnswers'
    BY <2>1, <2>3, <2>7 DEF MessagesAreAnswers, Answer
  <2>8. ASSUME MarksAreTrue PROVE MarksAreTrue'
    BY <2>1, <2>2, <2>3, <2>8 DEF MarksAreTrue, Told, Answer, TypeOK, StoreTypeOK
  <2>9. ThreadAgrees'
    BY <2>1, <2>4 DEF ThreadInv, ThreadAgrees, HandsAreFresh
  <2>10. HandsAreFresh'
    BY <2>1, <2>4 DEF ThreadInv, ThreadAgrees, HandsAreFresh, Fresh
  <2>11. SendPrecedesMark'
    <3>1. pc = "mark" => hand.id \in Ids \ {j}
      BY <2>1 DEF ThreadInv, HandsAreFresh, Fresh, TypeOK, StoreTypeOK
    <3> QED BY <2>3, <2>4, <3>1 DEF ThreadInv, SendPrecedesMark, Told, Answer, Channel
  <2> QED BY <2>6, <2>7, <2>8, <2>9, <2>10, <2>11 DEF TablesKept, ThreadInv
<1> QED BY <1>1, <1>2, <1>3, <1>4

LEMMA ScanKeepsInv ==
  ASSUME TypeOK, RowsAgree, ThreadInv, Scan PROVE TablesKept /\ ThreadInv'
<1> USE DEF Scan, workerVars, threadVars, channelVars, storeVars
<1>1. CASE ScanBegins \/ ScanDone \/ ScanFails
  BY <1>1, QuietSteps DEF ScanBegins, ScanDone, ScanFails
<1>2. ASSUME NEW k \in Keys, SkipKey(k) \/ TakeKey(k) PROVE TablesKept /\ ThreadInv'
  BY <1>2, QuietSteps DEF SkipKey, TakeKey
<1>3. ASSUME NEW k \in Keys, InsertKey(k) PROVE TablesKept /\ ThreadInv'
  <2>1. KeyId[k] \in Ids /\ KeyUrl[k] \in Urls /\ stamp \in Nat
    BY KeysAssumption DEF TypeOK, ScannerTypeOK
  <2>2. CASE UNCHANGED jobs
    BY <1>3, <2>2, QuietSteps
  <2>3. CASE KeyId[k] \notin DOMAIN jobs /\ Insert(KeyId[k], Queued(KeyUrl[k], stamp))
    BY <1>3, <2>1, <2>3, NewJob
  <2> QED BY <1>3, <2>2, <2>3 DEF InsertKey, EnqueueDiscovered
<1> QED BY <1>1, <1>2, <1>3 DEF ScannerNext

\* the thread puts down what it holds and keeps none of its snapshot
LEMMA LettingGo ==
  ASSUME NEW p \in {"cycle", "pick", "dead"}, pc' = p, DOMAIN batch' = {}
  PROVE  ThreadInv'
BY DEF ThreadInv, ThreadAgrees, HandsAreFresh, SendPrecedesMark

\* the thread writes the row of the job it holds, and nothing else changes in the tables
LEMMA OneRowChanges ==
  ASSUME TypeOK, RowsAgree, NEW j \in DOMAIN jobs, NEW row, Update(j, row), UNCHANGED got,
         row.text # NoText => row.status \in {"delivering", "done"},
         row.status = "done" => row.text # NoText,
         MessagesAreAnswers =>
           \/ \A c \in Channels : got[j][c] = <<>>
           \/ row.text = jobs[j].text /\ row.status \in {"delivering", "done", "failed"},
         MarksAreTrue /\ row.status \in {"delivering", "done", "failed"} =>
           \A c \in row.delivered : Told(j, c, Answer(row))
  PROVE  TablesKept /\ DOMAIN jobs' = DOMAIN jobs /\ jobs'[j] = row
                    /\ \A k \in DOMAIN jobs \ {j} : jobs'[k] = jobs[k]
<1>1. /\ DOMAIN jobs' = DOMAIN jobs
      /\ jobs'[j] = row
      /\ \A k \in DOMAIN jobs \ {j} : jobs'[k] = jobs[k]
  BY DEF Update
<1>2. RowsAgree'
  BY <1>1 DEF RowsAgree
<1>3. ASSUME MessagesAreAnswers PROVE MessagesAreAnswers'
  BY <1>1, <1>3 DEF MessagesAreAnswers, Answer
<1>4. ASSUME MarksAreTrue PROVE MarksAreTrue'
  BY <1>1, <1>4 DEF MarksAreTrue, Told, Answer
<1> QED BY <1>1, <1>2, <1>3, <1>4 DEF TablesKept

LEMMA SendKeepsInv ==
  ASSUME TypeOK, RowsAgree, ThreadInv, Accepted, Sending, UNCHANGED jobs
  PROVE  /\ TablesKept
         /\ \E i \in DOMAIN got'[hand.id][Channel] :
              got'[hand.id][Channel][i].body = Answer(hand.row)
<1> DEFINE j == hand.id
           c == Channel
           n == Len(got[j][c])
<1>1. j \in Ids /\ c \in Channels /\ hand.row \in Row
  BY DEF Sending, TypeOK, WorkerTypeOK, Held, Holding, Channel, Channels
<1>2. got[j][c] \in Seq(Message) /\ n \in Nat
  BY <1>1 DEF TypeOK, WorkerTypeOK
<1>3. /\ got'[j][c] = Append(got[j][c], Content)
      /\ \A k \in Ids, d \in Channels : k # j \/ d # c => got'[k][d] = got[k][d]
  BY <1>1 DEF Accepted, TypeOK, WorkerTypeOK
<1>4. /\ DOMAIN got'[j][c] = 1 .. n + 1
      /\ got'[j][c][n + 1] = Content
      /\ DOMAIN got[j][c] = 1 .. n
      /\ \A i \in 1 .. n : got'[j][c][i] = got[j][c][i]
  BY <1>2, <1>3
<1>5. /\ j \in DOMAIN jobs
      /\ jobs[j].status = "delivering"
      /\ jobs[j].text = hand.row.text
  BY DEF ThreadInv, HandsAreFresh, Fresh, Sending
<1>6. Content.body = Answer(jobs[j]) /\ Content.body = Answer(hand.row)
  BY <1>5 DEF Content, Answer, IsError
<1>7. ASSUME MessagesAreAnswers PROVE MessagesAreAnswers'
  <2> SUFFICES ASSUME NEW k \in Ids, NEW d \in Channels, NEW i \in DOMAIN got'[k][d]
               PROVE  /\ k \in DOMAIN jobs
                      /\ jobs[k].status \in {"delivering", "done", "failed"}
                      /\ got'[k][d][i].body = Answer(jobs[k])
    BY DEF MessagesAreAnswers, Answer
  <2>1. CASE k = j /\ d = c /\ i = n + 1
    BY <1>4, <1>5, <1>6, <2>1
  <2>2. CASE k = j /\ d = c /\ i # n + 1
    <3>1. i \in 1 .. n
      BY <1>2, <1>4, <2>2
    <3> QED BY <1>1, <1>4, <1>7, <2>2, <3>1 DEF MessagesAreAnswers
  <2>3. CASE k # j \/ d # c
    BY <1>3, <1>7, <2>3 DEF MessagesAreAnswers
  <2> QED BY <2>1, <2>2, <2>3
<1>8. ASSUME NEW k \in Ids, NEW d \in Channels, NEW b, Told(k, d, b)
      PROVE  Told(k, d, b)'
  <2>1. CASE k = j /\ d = c
    <3>1. PICK i \in 1 .. n : got[j][c][i].body = b
      BY <1>4, <1>8, <2>1 DEF Told
    <3>2. i \in DOMAIN got'[j][c] /\ got'[j][c][i].body = b
      BY <1>2, <1>4, <3>1
    <3> QED BY <2>1, <3>2 DEF Told
  <2>2. CASE k # j \/ d # c
    BY <1>3, <1>8, <2>2 DEF Told
  <2> QED BY <2>1, <2>2
<1>9. ASSUME MarksAreTrue PROVE MarksAreTrue'
  <2> SUFFICES ASSUME NEW k \in DOMAIN jobs,
                      jobs[k].status \in {"delivering", "done", "failed"},
                      NEW d \in jobs[k].delivered
               PROVE  Told(k, d, Answer(jobs[k]))'
    BY DEF MarksAreTrue
  <2>1. k \in Ids /\ d \in Channels
    BY DEF TypeOK, StoreTypeOK, Row
  <2>2. Told(k, d, Answer(jobs[k]))
    BY <1>9 DEF MarksAreTrue
  <2>3. Told(k, d, Answer(jobs[k]))' <=> \E i \in DOMAIN got'[k][d] :
                                            got'[k][d][i].body = Answer(jobs[k])
    BY DEF Told, Answer
  <2>4. \E i \in DOMAIN got'[k][d] : got'[k][d][i].body = Answer(jobs[k])
    BY <1>8, <2>1, <2>2 DEF Told
  <2> QED BY <2>3, <2>4
<1>10. RowsAgree'
  BY DEF RowsAgree
<1>11. n + 1 \in DOMAIN got'[j][c]
  BY <1>2, <1>4
<1> QED BY <1>3, <1>4, <1>6, <1>7, <1>9, <1>10, <1>11 DEF TablesKept

LEMMA DeliveryKeepsInv ==
  ASSUME TypeOK, RowsAgree, ThreadInv, Work,
         ReadDelivering \/ Deliver \/ SendAccepted \/ SendAckLost \/ SendRefused \/ SendBreaks
           \/ Mark \/ SettleFailed \/ Route \/ SettleDone \/ DeliveriesDone
  PROVE  TablesKept /\ ThreadInv'
<1> USE DEF channelVars, storeVars
<1>1. Channel \in Channels
  BY DEF Channel, Channels
<1>2. pc \in {"send", "mark", "close"} =>
        /\ hand.id \in DOMAIN jobs /\ hand.id \in Ids /\ jobs[hand.id] \in Row
        /\ jobs[hand.id].status = "delivering"
        /\ jobs[hand.id].text = hand.row.text
        /\ hand.id \notin DOMAIN batch
        /\ MarksAreTrue =>
             \A c \in jobs[hand.id].delivered : Told(hand.id, c, Answer(jobs[hand.id]))
  BY DEF ThreadInv, ThreadAgrees, HandsAreFresh, Fresh, TypeOK, StoreTypeOK, MarksAreTrue
<1>3. CASE ReadDelivering
  <2>1. TablesKept
    BY <1>3, SameTables DEF ReadDelivering
  <2>2. ThreadInv'
    BY <1>3 DEF ReadDelivering, ListDelivering, WithStatus, ThreadInv, ThreadAgrees,
                HandsAreFresh, SendPrecedesMark
  <2> QED BY <2>1, <2>2
<1>4. CASE Deliver
  <2>1. TablesKept
    BY <1>4, SameTables DEF Deliver
  <2>2. PICK j \in DOMAIN batch :
          /\ hand' = [id |-> j, row |-> batch[j]]
          /\ batch' = [k \in DOMAIN batch \ {j} |-> batch[k]]
          /\ todo' = cfg.enabled \ batch[j].delivered
    BY <1>4 DEF Deliver
  <2>3. ThreadAgrees'
    BY <1>4, <2>2 DEF Deliver, ThreadInv, ThreadAgrees
  <2>4. HandsAreFresh'
    BY <1>4, <2>2 DEF Deliver, ThreadInv, ThreadAgrees, HandsAreFresh, Fresh
  <2> QED BY <1>4, <2>1, <2>3, <2>4 DEF Deliver, ThreadInv, SendPrecedesMark
<1>5. ASSUME NextOfBatch(worked', refused'), UNCHANGED <<jobs, cfg>>, pc = "send"
      PROVE ThreadInv'
  BY <1>5 DEF NextOfBatch, ThreadInv, ThreadAgrees, HandsAreFresh, SendPrecedesMark
<1>6. CASE SendAccepted
  <2>1. TablesKept
    BY <1>6, SendKeepsInv DEF SendAccepted
  <2>2. SendPrecedesMark'
    BY <1>6, SendKeepsInv DEF SendAccepted, SendPrecedesMark, Told, Answer, Channel
  <2>3. ThreadAgrees' /\ HandsAreFresh'
    BY <1>6 DEF SendAccepted, Sending, ThreadInv, ThreadAgrees, HandsAreFresh, Fresh
  <2> QED BY <2>1, <2>2, <2>3 DEF ThreadInv
<1>7. CASE SendAckLost
  <2>1. TablesKept
    BY <1>7, SendKeepsInv DEF SendAckLost
  <2> QED BY <1>5, <1>7, <2>1 DEF SendAckLost, Sending, NextOfBatch
<1>8. CASE SendRefused
  BY <1>5, <1>8, SameTables DEF SendRefused, Sending, NextOfBatch
<1>9. CASE SendBreaks
  BY <1>9, SameTables, LettingGo DEF SendBreaks, CycleRaises, Forget, Empty
<1>10. CASE Mark
  <2> DEFINE row == [jobs[hand.id] EXCEPT !.delivered = @ \cup {Channel}]
  <2>1. /\ row.status = "delivering" /\ row.text = hand.row.text
        /\ row.url = jobs[hand.id].url /\ row.error = jobs[hand.id].error
        /\ row.delivered = jobs[hand.id].delivered \cup {Channel}
    BY <1>2, <1>10 DEF Mark, Row
  <2>2. Update(hand.id, row)
    BY <1>10 DEF Mark, MarkDeliveredTo
  <2>3. Told(hand.id, Channel, Answer(hand.row))
    BY <1>10 DEF Mark, ThreadInv, SendPrecedesMark
  <2>4. MarksAreTrue => \A c \in row.delivered : Told(hand.id, c, Answer(row))
    BY <1>2, <1>10, <2>1, <2>3 DEF Mark, Answer
  <2>5. /\ TablesKept /\ DOMAIN jobs' = DOMAIN jobs /\ jobs'[hand.id] = row
        /\ \A k \in DOMAIN jobs \ {hand.id} : jobs'[k] = jobs[k]
    BY <1>2, <1>10, <2>1, <2>2, <2>4, OneRowChanges DEF Mark
  <2>6. ThreadAgrees'
    BY <1>2, <1>10, <2>5 DEF Mark, ThreadInv, ThreadAgrees, HandsAreFresh
  <2>7. HandsAreFresh'
    BY <1>2, <1>10, <2>1, <2>5 DEF Mark, ThreadInv, HandsAreFresh, Fresh
  <2> QED BY <1>10, <2>5, <2>6, <2>7 DEF Mark, ThreadInv, SendPrecedesMark
<1>11. ASSUME NEW s \in {"done", "failed"}, SetStatus(hand.id, s), UNCHANGED <<cfg, got>>,
              NextOfBatch(worked', refused'), pc \in {"send", "close"},
              s = "done" <=> hand.row.text # NoText
       PROVE  TablesKept /\ ThreadInv'
  <2> DEFINE row == [jobs[hand.id] EXCEPT !.status = s]
  <2>1. row.status = s /\ row.text = hand.row.text /\ row.delivered = jobs[hand.id].delivered
    BY <1>2, <1>11 DEF Row
  <2>2. MarksAreTrue => \A c \in row.delivered : Told(hand.id, c, Answer(row))
    BY <1>2, <1>11, <2>1 DEF Answer
  <2>3. /\ TablesKept /\ DOMAIN jobs' = DOMAIN jobs
        /\ \A k \in DOMAIN jobs \ {hand.id} : jobs'[k] = jobs[k]
    BY <1>2, <1>11, <2>1, <2>2, OneRowChanges DEF SetStatus
  <2>4. ThreadInv'
    BY <1>2, <1>11, <2>3 DEF NextOfBatch, ThreadInv, ThreadAgrees, HandsAreFresh, SendPrecedesMark
  <2> QED BY <2>3, <2>4
<1>12. CASE SettleFailed
  BY <1>11, <1>12 DEF SettleFailed, IsError, NextOfBatch
<1>13. CASE SettleDone
  BY <1>11, <1>13 DEF SettleDone, NextOfBatch, ThreadInv, ThreadAgrees
<1>14. CASE Route
  <2> DEFINE row == [jobs[hand.id] EXCEPT
                       !.emailed = IF "email" \in cfg.enabled THEN cfg.mailbox ELSE Nobody]
  <2>1. /\ row.status = "delivering" /\ row.text = hand.row.text
        /\ row.url = jobs[hand.id].url /\ row.error = jobs[hand.id].error
        /\ row.delivered = jobs[hand.id].delivered
    BY <1>2, <1>14 DEF Route, Row
  <2>2. MarksAreTrue => \A c \in row.delivered : Told(hand.id, c, Answer(row))
    BY <1>2, <1>14, <2>1 DEF Route, Answer
  <2>3. /\ TablesKept /\ DOMAIN jobs' = DOMAIN jobs /\ jobs'[hand.id] = row
        /\ \A k \in DOMAIN jobs \ {hand.id} : jobs'[k] = jobs[k]
    BY <1>2, <1>14, <2>1, <2>2, OneRowChanges DEF Route, SetRouting
  <2>4. ThreadAgrees'
    BY <1>2, <1>14, <2>3 DEF Route, IsError, ThreadInv, ThreadAgrees, HandsAreFresh
  <2>5. HandsAreFresh'
    BY <1>2, <1>14, <2>1, <2>3 DEF Route, ThreadInv, HandsAreFresh, Fresh
  <2> QED BY <1>14, <2>3, <2>4, <2>5 DEF Route, ThreadInv, SendPrecedesMark
<1>15. CASE DeliveriesDone
  BY <1>15, SameTables, LettingGo DEF DeliveriesDone
<1> QED BY <1>3, <1>4, <1>6, <1>7, <1>8, <1>9, <1>10, <1>12, <1>13, <1>14, <1>15

\* A sequence without a position is the empty one (a channel that has accepted nothing).
LEMMA NothingInIt ==
  ASSUME NEW S, NEW s \in Seq(S), DOMAIN s = {}
  PROVE  s = <<>>
<1>1. Len(s) \in Nat /\ DOMAIN s = 1 .. Len(s)
  OBVIOUS
<1>2. Len(s) = 0
  BY <1>1
<1> QED BY <1>2

LEMMA ProcessingKeepsInv ==
  ASSUME TypeOK, RowsAgree, ThreadInv, Work,
         \/ PickNothing \/ Pick \/ StartProcessing \/ \E w \in Words : Transcribe(w)
         \/ WorkInterrupted \/ PermanentError \/ TryAgainLater \/ GiveUp
  PROVE  TablesKept /\ ThreadInv'
<1> USE DEF channelVars, storeVars
<1>1. pc \in {"start", "work", "again", "giveup"} =>
        /\ hand.id \in DOMAIN jobs /\ hand.id \in Ids /\ jobs[hand.id] \in Row
        /\ jobs[hand.id].status \in {"queued", "processing"}
        /\ jobs[hand.id].text = NoText
        /\ MessagesAreAnswers => \A c \in Channels : got[hand.id][c] = <<>>
        /\ DOMAIN batch = {}
  <2> SUFFICES ASSUME pc \in {"start", "work", "again", "giveup"}
               PROVE  /\ hand.id \in DOMAIN jobs /\ hand.id \in Ids /\ jobs[hand.id] \in Row
                      /\ jobs[hand.id].status \in {"queued", "processing"}
                      /\ jobs[hand.id].text = NoText
                      /\ MessagesAreAnswers => \A c \in Channels : got[hand.id][c] = <<>>
                      /\ DOMAIN batch = {}
    OBVIOUS
  <2>1. /\ hand.id \in DOMAIN jobs /\ jobs[hand.id].status \in {"queued", "processing"}
        /\ DOMAIN batch = {}
    BY DEF ThreadInv, ThreadAgrees, HandsAreFresh
  <2>2. hand.id \in Ids /\ jobs[hand.id] \in Row
    BY <2>1 DEF TypeOK, StoreTypeOK
  <2>3. jobs[hand.id].text = NoText
    BY <2>1 DEF RowsAgree
  <2>4. MessagesAreAnswers => \A c \in Channels : got[hand.id][c] = <<>>
    <3> SUFFICES ASSUME MessagesAreAnswers, NEW c \in Channels PROVE got[hand.id][c] = <<>>
      OBVIOUS
    <3>1. got[hand.id][c] \in Seq(Message)
      BY <2>2 DEF TypeOK, WorkerTypeOK
    <3>2. DOMAIN got[hand.id][c] = {}
      BY <2>1, <2>2 DEF MessagesAreAnswers
    <3> QED BY <3>1, <3>2, NothingInIt
  <2> QED BY <2>1, <2>2, <2>3, <2>4
<1>2. CASE PickNothing
  <2>1. CASE CycleRaises
    BY <1>2, <2>1, SameTables, LettingGo DEF PickNothing, CycleRaises, Forget, Empty
  <2>2. CASE CycleReturns
    BY <1>2, <2>2, SameTables, LettingGo DEF PickNothing, CycleReturns, Forget, Empty
  <2> QED BY <1>2, <2>1, <2>2 DEF PickNothing
<1>3. CASE Pick
  <2>1. TablesKept
    BY <1>3, SameTables DEF Pick
  <2>2. ThreadInv'
    BY <1>3 DEF Pick, Pending, WithStatus, ThreadInv, ThreadAgrees, HandsAreFresh, Fresh,
                SendPrecedesMark
  <2> QED BY <2>1, <2>2
<1>4. CASE StartProcessing
  <2> DEFINE row == [jobs[hand.id] EXCEPT !.status = "processing"]
  <2>1. /\ row.status = "processing" /\ row.text = jobs[hand.id].text
        /\ row.url = jobs[hand.id].url /\ row.error = jobs[hand.id].error
        /\ row.delivered = jobs[hand.id].delivered
    BY <1>1, <1>4 DEF StartProcessing, Row
  <2>2. /\ TablesKept /\ DOMAIN jobs' = DOMAIN jobs /\ jobs'[hand.id] = row
        /\ \A k \in DOMAIN jobs \ {hand.id} : jobs'[k] = jobs[k]
    BY <1>1, <1>4, <2>1, OneRowChanges DEF StartProcessing, SetStatus
  <2>3. ThreadInv'
    BY <1>1, <1>4, <2>1, <2>2 DEF StartProcessing, ThreadInv, ThreadAgrees, HandsAreFresh, Fresh,
                                  SendPrecedesMark
  <2> QED BY <2>2, <2>3
<1>5. ASSUME NEW w \in Words, Transcribe(w) PROVE TablesKept /\ ThreadInv'
  <2> DEFINE t == [url |-> hand.row.url, words |-> w]
             row == [jobs[hand.id] EXCEPT !.text = t, !.error = FALSE, !.delivered = {},
                                          !.emailed = NotRouted, !.status = "delivering"]
  <2>1. t # NoText
    BY <1>5, TextAssumption DEF Transcribe, Texts, TypeOK, WorkerTypeOK, Holding, Held, Row
  <2>2. row.status = "delivering" /\ row.text = t /\ row.delivered = {}
    BY <1>1, <1>5 DEF Transcribe, Row
  <2>3. TablesKept
    BY <1>1, <1>5, <2>1, <2>2, OneRowChanges DEF Transcribe, SetResult
  <2> QED BY <1>5, <2>3, LettingGo DEF Transcribe, CycleReturns, Forget, Empty
<1>6. CASE WorkInterrupted
  BY <1>6, SameTables, LettingGo DEF WorkInterrupted, CycleRaises, Forget, Empty
<1>7. CASE PermanentError
  <2> DEFINE row == [jobs[hand.id] EXCEPT !.attempts = @ + 1, !.error = TRUE]
  <2>1. row.status = "processing" /\ row.text = jobs[hand.id].text
    BY <1>1, <1>7 DEF PermanentError, Row, ThreadInv, ThreadAgrees
  <2>2. /\ TablesKept /\ DOMAIN jobs' = DOMAIN jobs /\ jobs'[hand.id] = row
        /\ \A k \in DOMAIN jobs \ {hand.id} : jobs'[k] = jobs[k]
    BY <1>1, <1>7, <2>1, OneRowChanges DEF PermanentError, IncrementAttempts
  <2>3. ThreadInv'
    BY <1>1, <1>7, <2>1, <2>2 DEF PermanentError, ThreadInv, ThreadAgrees, HandsAreFresh,
                                  SendPrecedesMark
  <2> QED BY <2>2, <2>3
<1>8. CASE TryAgainLater
  <2> DEFINE row == [jobs[hand.id] EXCEPT !.status = "queued"]
  <2>1. row.status = "queued" /\ row.text = jobs[hand.id].text
    BY <1>1, <1>8 DEF TryAgainLater, Row
  <2>2. TablesKept
    BY <1>1, <1>8, <2>1, OneRowChanges DEF TryAgainLater, SetStatus
  <2> QED BY <1>8, <2>2, LettingGo DEF TryAgainLater, CycleReturns, Forget, Empty
<1>9. CASE GiveUp
  <2> DEFINE row == [jobs[hand.id] EXCEPT !.error = TRUE, !.delivered = {}, !.status = "delivering"]
  <2>1. row.status = "delivering" /\ row.text = jobs[hand.id].text /\ row.delivered = {}
    BY <1>1, <1>9 DEF GiveUp, Row
  <2>2. TablesKept
    BY <1>1, <1>9, <2>1, OneRowChanges DEF GiveUp, SetFailedResult
  <2> QED BY <1>9, <2>2, LettingGo DEF GiveUp, CycleReturns, Forget, Empty
<1> QED BY <1>2, <1>3, <1>4, <1>5, <1>6, <1>7, <1>8, <1>9

LEMMA InitInv == Init => JobsInv /\ ThreadInv
<1> SUFFICES ASSUME Init PROVE JobsInv /\ ThreadInv
  OBVIOUS
<1>0. PICK old \in SUBSET Legacy :
        \E u \in [old -> Unparsable] : jobs = [j \in old |-> Queued(u[j], 0)]
  BY DEF Init
<1>1. PICK u \in [old -> Unparsable] : jobs = [j \in old |-> Queued(u[j], 0)]
  BY <1>0
<1>2. \A j \in DOMAIN jobs : jobs[j].status = "queued" /\ jobs[j].text = NoText
  BY <1>1 DEF Queued
<1>3. \A j \in Ids, c \in Channels : got[j][c] = <<>>
  BY DEF Init, WorkerInit
<1>4. JobsInv
  BY <1>2, <1>3 DEF JobsInv, RowsAgree, MessagesAreAnswers, MarksAreTrue
<1>5. ThreadInv
  BY DEF Init, WorkerInit, Empty, ThreadInv, ThreadAgrees, HandsAreFresh, SendPrecedesMark
<1> QED BY <1>4, <1>5

LEMMA NextKeepsView ==
  ASSUME TypeOK, RowsAgree, ThreadInv, [Next]_vars PROVE TablesKept /\ ThreadInv'
<1>1. CASE Work
  BY <1>1, DeliveryKeepsInv, ProcessingKeepsInv DEF Work, WorkerNext
<1>2. CASE Arrive
  BY <1>2, QuietSteps DEF Arrive, Upload, workerVars, threadVars, channelVars, storeVars
<1>3. ASSUME NEW next \in Configs, Restart(next) PROVE TablesKept /\ ThreadInv'
  BY <1>3, SameTables, LettingGo DEF Restart, WorkerRestarts, Empty, storeVars, channelVars
<1>4. CASE UNCHANGED vars
  BY <1>4, QuietSteps DEF vars, workerVars, threadVars, channelVars, storeVars
<1> QED BY <1>1, <1>2, <1>3, <1>4, RequestsKeepInv, ScanKeepsInv DEF Next

LEMMA NextKeepsInv ==
  ASSUME TypeOK, JobsInv, ThreadInv, [Next]_vars PROVE JobsInv' /\ ThreadInv'
BY NextKeepsView DEF JobsInv, TablesKept

\* The inductive invariant holds in every reachable state of the service.
THEOREM InvariantHolds == Spec => []ServiceInv
<1>1. Init => TypeOK /\ JobsInv /\ ThreadInv
  BY InitInv, InitTypes
<1>2. TypeOK /\ JobsInv /\ ThreadInv /\ [Next]_vars => (TypeOK /\ JobsInv /\ ThreadInv)'
  BY NextKeepsInv, NextKeepsTypes
<1>3. JobsInv /\ ThreadInv => ServiceInv
  BY DEF JobsInv, ThreadInv, ServiceInv
<1> QED BY <1>1, <1>2, <1>3, PTL DEF Spec

\* The worker never acts on a stale copy of a job, whatever requests, scans, restarts and
\* deliveries happen while it holds one.
THEOREM WorkerIsNeverStale == Spec => []HandsAreFresh
<1>1. ServiceInv => HandsAreFresh
  BY DEF ServiceInv
<1> QED BY <1>1, InvariantHolds, PTL

\* A channel is recorded as delivered only if it has accepted the job's current answer.
THEOREM RecordedChannelsWereTold == Spec => []MarksAreTrue
<1>1. ServiceInv => MarksAreTrue
  BY DEF ServiceInv
<1> QED BY <1>1, InvariantHolds, PTL

\* All messages of one life of a job carry the same answer, on whichever channel they went.
THEOREM AnswersAgree == Spec => []OneAnswer
<1>1. ServiceInv => OneAnswer
  BY DEF ServiceInv, OneAnswer, MessagesAreAnswers
<1> QED BY <1>1, InvariantHolds, PTL

-----------------------------------------------------------------------------
(* Settling a job.  Only SettleFailed and SettleDone take a row out of     *)
(* `delivering` towards the end; there the loop over the channels is over, *)
(* so every configured channel is recorded, and the records are true.      *)

SettlesWhenTold ==
  \A j \in DOMAIN jobs :
    jobs[j].status = "delivering" /\ jobs'[j].status \in {"done", "failed"}
      => \A c \in cfg.enabled : Told(j, c, Answer(jobs[j]))

\* a step that leaves every row alone, or adds one
LEMMA RowsStay ==
  ASSUME \A j \in DOMAIN jobs : jobs'[j] = jobs[j] PROVE SettlesWhenTold
BY DEF SettlesWhenTold

\* a step that writes one row and does not settle it
LEMMA OneRowStaysOpen ==
  ASSUME NEW h \in DOMAIN jobs, NEW row, Update(h, row), row.status \notin {"done", "failed"}
  PROVE  SettlesWhenTold
<1>1. jobs'[h] = row /\ \A k \in DOMAIN jobs \ {h} : jobs'[k] = jobs[k]
  BY DEF Update
<1> QED BY <1>1 DEF SettlesWhenTold

LEMMA SettlingIsAfterTelling ==
  ASSUME TypeOK, MarksAreTrue, ThreadInv, pc \in {"send", "close"}, todo = {},
         NEW s \in Status, SetStatus(hand.id, s)
  PROVE  SettlesWhenTold
<1>1. hand.id \in DOMAIN jobs /\ jobs[hand.id].status = "delivering"
  BY DEF ThreadInv, HandsAreFresh, Fresh
<1>2. cfg.enabled \subseteq jobs[hand.id].delivered
  BY DEF ThreadInv, HandsAreFresh
<1>3. \A c \in cfg.enabled : Told(hand.id, c, Answer(jobs[hand.id]))
  BY <1>1, <1>2 DEF MarksAreTrue
<1>4. \A k \in DOMAIN jobs \ {hand.id} : jobs'[k] = jobs[k]
  BY DEF SetStatus, Update
<1> QED BY <1>3, <1>4 DEF SettlesWhenTold

LEMMA WorkSettlesWhenTold ==
  ASSUME TypeOK, MarksAreTrue, ThreadInv, WorkerNext PROVE SettlesWhenTold
<1> USE DEF storeVars
<1>1. pc \in {"send", "mark", "start", "work", "again", "giveup"} =>
        hand.id \in DOMAIN jobs /\ jobs[hand.id] \in Row
  BY DEF ThreadInv, ThreadAgrees, HandsAreFresh, Fresh, TypeOK, StoreTypeOK
<1>2. CASE \/ ReadDelivering \/ Deliver \/ SendAccepted \/ SendAckLost \/ SendRefused
           \/ SendBreaks \/ DeliveriesDone \/ PickNothing \/ Pick \/ WorkInterrupted
  BY <1>2, RowsStay DEF ReadDelivering, Deliver, SendAccepted, SendAckLost, SendRefused,
       SendBreaks, DeliveriesDone, PickNothing, Pick, WorkInterrupted
<1>3. CASE Mark
  <2> DEFINE row == [jobs[hand.id] EXCEPT !.delivered = @ \cup {Channel}]
  <2>1. row.status = "delivering"
    BY <1>1, <1>3 DEF Mark, Row, ThreadInv, HandsAreFresh
  <2> QED BY <1>1, <1>3, <2>1, OneRowStaysOpen DEF Mark, MarkDeliveredTo
<1>4. CASE SettleFailed
  BY <1>4, SettlingIsAfterTelling DEF SettleFailed, Status
<1>5. CASE SettleDone
  BY <1>5, SettlingIsAfterTelling DEF SettleDone, Status, ThreadInv, ThreadAgrees
<1>6. CASE Route
  <2> DEFINE row == [jobs[hand.id] EXCEPT
                       !.emailed = IF "email" \in cfg.enabled THEN cfg.mailbox ELSE Nobody]
  <2>1. row.status = "delivering"
    BY <1>1, <1>6 DEF Route, Row, ThreadInv, HandsAreFresh
  <2> QED BY <1>1, <1>6, <2>1, OneRowStaysOpen DEF Route, SetRouting
<1>7. CASE StartProcessing
  BY <1>1, <1>7, OneRowStaysOpen DEF StartProcessing, SetStatus, Row
<1>8. ASSUME NEW w \in Words, Transcribe(w) PROVE SettlesWhenTold
  BY <1>1, <1>8, OneRowStaysOpen DEF Transcribe, SetResult, Row
<1>9. CASE PermanentError
  <2> DEFINE row == [jobs[hand.id] EXCEPT !.attempts = @ + 1, !.error = TRUE]
  <2>1. row.status = "processing"
    BY <1>1, <1>9 DEF PermanentError, Row, ThreadInv, ThreadAgrees
  <2> QED BY <1>1, <1>9, <2>1, OneRowStaysOpen DEF PermanentError, IncrementAttempts
<1>10. CASE TryAgainLater
  BY <1>1, <1>10, OneRowStaysOpen DEF TryAgainLater, SetStatus, Row
<1>11. CASE GiveUp
  BY <1>1, <1>11, OneRowStaysOpen DEF GiveUp, SetFailedResult, Row
<1> QED BY <1>2, <1>3, <1>4, <1>5, <1>6, <1>7, <1>8, <1>9, <1>10, <1>11 DEF WorkerNext

LEMMA StepSettlesWhenTold ==
  ASSUME TypeOK, MarksAreTrue, ThreadInv, [Next]_vars PROVE SettlesWhenTold
<1> USE DEF storeVars
<1>1. CASE Work
  BY <1>1, WorkSettlesWhenTold DEF Work
<1>2. ASSUME NEW j \in Ids, NEW u \in Urls, PostNew(j, u) \/ PostFailed(j, u) \/ PostKnown(j, u)
      PROVE  SettlesWhenTold
  <2>1. CASE PostNew(j, u)
    BY <2>1, RowsStay DEF PostNew, EnqueueNew, Insert
  <2>2. CASE PostFailed(j, u)
    <3>1. j \in DOMAIN jobs /\ jobs[j] \in Row
      BY <2>2 DEF PostFailed, Requeue, TypeOK, StoreTypeOK
    <3> QED BY <2>2, <3>1, OneRowStaysOpen DEF PostFailed, Requeue, Row
  <2>3. CASE PostKnown(j, u)
    BY <2>3, RowsStay DEF PostKnown, EnqueueKnown
  <2> QED BY <1>2, <2>1, <2>2, <2>3
<1>3. CASE Scan
  <2>1. \A j \in DOMAIN jobs : jobs'[j] = jobs[j]
    BY <1>3 DEF Scan, ScannerNext, ScanBegins, ScanDone, ScanFails, SkipKey, TakeKey, InsertKey,
                EnqueueDiscovered, Insert
  <2> QED BY <2>1, RowsStay
<1>4. CASE Arrive \/ UNCHANGED vars \/ \E next \in Configs : Restart(next)
  BY <1>4, RowsStay DEF Arrive, Upload, vars, Restart
<1> QED BY <1>1, <1>2, <1>3, <1>4 DEF Next, Post

\* No job is settled before every channel the service is configured with has accepted its
\* current answer.
THEOREM JobsSettleWhenTold == Spec => SettledOnlyWhenTold
<1>1. Init => TypeOK /\ JobsInv /\ ThreadInv
  BY InitInv, InitTypes
<1>2. TypeOK /\ JobsInv /\ ThreadInv /\ [Next]_vars => (TypeOK /\ JobsInv /\ ThreadInv)'
  BY NextKeepsInv, NextKeepsTypes
<1>3. TypeOK /\ JobsInv /\ ThreadInv /\ [Next]_vars
        => [\A j \in DOMAIN jobs :
              jobs[j].status = "delivering" /\ jobs'[j].status \in {"done", "failed"}
                => \A c \in cfg.enabled : Told(j, c, Answer(jobs[j]))]_vars
  BY StepSettlesWhenTold DEF SettlesWhenTold, JobsInv
<1> QED BY <1>1, <1>2, <1>3, PTL DEF Spec, SettledOnlyWhenTold

-----------------------------------------------------------------------------
(* The scanner.  It records a key only together with the job, and no step  *)
(* of the service ever removes a job.                                      *)

LEMMA JobsStayAndKeysFollow ==
  ASSUME [Next]_vars, SeenObjectsHaveJobs PROVE SeenObjectsHaveJobs'
<1> USE DEF storeVars, SeenObjectsHaveJobs
<1>1. CASE Work
  BY <1>1 DEF Work, WorkerNext, ReadDelivering, Deliver, SendAccepted, SendAckLost, SendRefused,
       SendBreaks, Mark, SettleFailed, Route, SettleDone, DeliveriesDone, PickNothing, Pick,
       StartProcessing, Transcribe, WorkInterrupted, PermanentError, TryAgainLater, GiveUp,
       Update, MarkDeliveredTo, SetStatus, SetRouting, SetResult, SetFailedResult,
       IncrementAttempts
<1>2. CASE Post
  BY <1>2 DEF Post, PostNew, PostFailed, PostKnown, EnqueueNew, Requeue, EnqueueKnown,
       Insert, Update
<1>3. CASE Scan
  <2>1. ASSUME NEW k \in Keys, InsertKey(k) PROVE SeenObjectsHaveJobs'
    BY <2>1 DEF InsertKey, EnqueueDiscovered, Insert
  <2>2. CASE ScanBegins \/ ScanDone \/ ScanFails \/ \E k \in Keys : SkipKey(k) \/ TakeKey(k)
    BY <2>2 DEF ScanBegins, ScanDone, ScanFails, SkipKey, TakeKey
  <2> QED BY <1>3, <2>1, <2>2 DEF Scan, ScannerNext
<1>4. CASE Arrive \/ UNCHANGED vars \/ \E next \in Configs : Restart(next)
  BY <1>4 DEF Arrive, Upload, vars, Restart
<1> QED BY <1>1, <1>2, <1>3, <1>4 DEF Next

\* A key of the bucket counts as seen only if its job exists, across scans that fail
\* and restarts.
THEOREM NoRecordingIsLost == Spec => []SeenObjectsHaveJobs
<1>1. Init => SeenObjectsHaveJobs
  BY DEF Init, SeenObjectsHaveJobs
<1>2. [Next]_vars /\ SeenObjectsHaveJobs => SeenObjectsHaveJobs'
  BY JobsStayAndKeysFollow
<1> QED BY <1>1, <1>2, PTL DEF Spec
=============================================================================
