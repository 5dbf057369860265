------------------------------ MODULE RowProofs ------------------------------
(***************************************************************************)
(* How the row of a job may move in one step, and what follows from it for *)
(* results and requests; then what retries, lost answers and restarts may  *)
(* cost: attempts of a job and messages to a channel.                      *)
(***************************************************************************)
EXTENDS AiServiceProofs

Underway == {"queued", "processing"}

Same(old, new) == new.text = old.text /\ new.url = old.url

\* only the job being delivered may get another mark
SameMarks(old, new) == old.status # "delivering" => new.delivered = old.delivered

SameMail(old, new) == new.emailed = old.emailed

\* emailed_to is written once every configured channel is recorded for a result
IsRouted(old, new) ==
  /\ old.status = "delivering" /\ old.text # NoText
  /\ cfg.enabled \subseteq old.delivered
  /\ new.emailed = IF "email" \in cfg.enabled THEN cfg.mailbox ELSE Nobody

RowMoves(old, new) ==
  \/ /\ Same(old, new) /\ SameMarks(old, new) /\ new.status = old.status
     /\ SameMail(old, new) \/ IsRouted(old, new)
  \/ /\ Same(old, new) /\ SameMarks(old, new) /\ SameMail(old, new)
     /\ old.status \in Underway /\ new.status \in Underway
  \/ /\ old.status = "processing" /\ new.status = "delivering"
     /\ old.text = NoText /\ new.url = old.url
     /\ \/ new.text = NoText /\ SameMail(old, new)
        \/ new.text.url = new.url /\ new.emailed = NotRouted
  \/ /\ Same(old, new) /\ SameMail(old, new)
     /\ old.status = "delivering" /\ new.status \in {"done", "failed"}
  \/ /\ old.status = "failed" /\ new.status = "queued"
     /\ new.text = old.text /\ SameMail(old, new)
     /\ requeues' = requeues + 1

RowsMove ==
  /\ \A j \in DOMAIN jobs : j \in DOMAIN jobs' /\ RowMoves(jobs[j], jobs'[j])
  /\ \A j \in DOMAIN jobs' \ DOMAIN jobs :
       /\ jobs'[j].status = "queued" /\ jobs'[j].text = NoText
       /\ jobs'[j].delivered = {} /\ jobs'[j].emailed = NotRouted

LEMMA NoRowMoves ==
  ASSUME UNCHANGED jobs
  PROVE  RowsMove
BY DEF RowsMove, RowMoves, Same, SameMarks, SameMail

LEMMA OneRowMoves ==
  ASSUME NEW j \in DOMAIN jobs, NEW row, Update(j, row), RowMoves(jobs[j], row)
  PROVE  RowsMove
<1>1. /\ DOMAIN jobs' = DOMAIN jobs /\ jobs'[j] = row
      /\ \A k \in DOMAIN jobs \ {j} : jobs'[k] = jobs[k]
  BY DEF Update
<1> QED
  BY <1>1 DEF RowsMove, RowMoves, Same, SameMarks, SameMail

LEMMA OneRowAppears ==
  ASSUME NEW j, j \notin DOMAIN jobs, NEW u, NEW s, Insert(j, Queued(u, s))
  PROVE  RowsMove
<1>1. /\ DOMAIN jobs' = DOMAIN jobs \cup {j}
      /\ \A k \in DOMAIN jobs : jobs'[k] = jobs[k]
      /\ jobs'[j].status = "queued" /\ jobs'[j].text = NoText
      /\ jobs'[j].delivered = {} /\ jobs'[j].emailed = NotRouted
  BY DEF Insert, Queued
<1> QED
  BY <1>1 DEF RowsMove, RowMoves, Same, SameMarks, SameMail

LEMMA WorkMovesRows ==
  ASSUME TypeOK, RowsAgree, ThreadInv, WorkerNext
  PROVE  RowsMove
<1> USE DEF storeVars
<1>1. pc \in {"send", "mark", "close", "start", "work", "again", "giveup"} =>
        hand.id \in DOMAIN jobs /\ jobs[hand.id] \in Row
  BY DEF ThreadInv, ThreadAgrees, HandsAreFresh, Fresh, TypeOK, StoreTypeOK
<1>2. CASE \/ ReadDelivering \/ Deliver \/ SendAccepted \/ SendAckLost \/ SendRefused
           \/ SendBreaks \/ DeliveriesDone \/ PickNothing \/ Pick \/ WorkInterrupted
  BY <1>2, NoRowMoves DEF ReadDelivering, Deliver, SendAccepted, SendAckLost, SendRefused,
       SendBreaks, DeliveriesDone, PickNothing, Pick, WorkInterrupted
<1>3. CASE Mark
  <2> DEFINE row == [jobs[hand.id] EXCEPT !.delivered = @ \cup {Channel}]
  <2>1. RowMoves(jobs[hand.id], row)
    BY <1>1, <1>3 DEF Mark, Row, ThreadInv, HandsAreFresh, RowMoves, Same, SameMarks, SameMail
  <2> QED
    BY <1>1, <1>3, <2>1, OneRowMoves DEF Mark, MarkDeliveredTo
<1>4. CASE Route
  <2> DEFINE row == [jobs[hand.id] EXCEPT
                       !.emailed = IF "email" \in cfg.enabled THEN cfg.mailbox ELSE Nobody]
  <2>1. RowMoves(jobs[hand.id], row)
    BY <1>1, <1>4 DEF Route, IsError, ThreadInv, HandsAreFresh, Fresh, Row, RowMoves, Same, SameMarks,
           IsRouted
  <2> QED
    BY <1>1, <1>4, <2>1, OneRowMoves DEF Route, SetRouting
<1>5. ASSUME NEW s \in {"done", "failed"}, SetStatus(hand.id, s), pc \in {"send", "close"}
      PROVE  RowsMove
  <2>1. RowMoves(jobs[hand.id], [jobs[hand.id] EXCEPT !.status = s])
    BY <1>1, <1>5 DEF ThreadInv, HandsAreFresh, Row, RowMoves, Same, SameMarks, SameMail
  <2> QED
    BY <1>1, <1>5, <2>1, OneRowMoves DEF SetStatus
<1>6. ASSUME NEW s \in Underway, SetStatus(hand.id, s), pc \in {"start", "again"}
      PROVE  RowsMove
  <2>1. RowMoves(jobs[hand.id], [jobs[hand.id] EXCEPT !.status = s])
    BY <1>1, <1>6 DEF ThreadInv, ThreadAgrees, HandsAreFresh, Row, RowMoves, Same, SameMarks, SameMail, Underway
  <2> QED
    BY <1>1, <1>6, <2>1, OneRowMoves DEF SetStatus
<1>7. CASE SettleFailed \/ SettleDone
  BY <1>5, <1>7 DEF SettleFailed, SettleDone
<1>8. CASE StartProcessing \/ TryAgainLater
  BY <1>6, <1>8 DEF StartProcessing, TryAgainLater, Underway
<1>9. CASE PermanentError
  <2> DEFINE row == [jobs[hand.id] EXCEPT !.attempts = @ + 1, !.error = TRUE]
  <2>1. RowMoves(jobs[hand.id], row)
    BY <1>1, <1>9 DEF PermanentError, Row, RowMoves, Same, SameMarks, SameMail
  <2> QED
    BY <1>1, <1>9, <2>1, OneRowMoves DEF PermanentError, IncrementAttempts
<1>10. pc \in {"work", "giveup"} =>
         jobs[hand.id].status = "processing" /\ jobs[hand.id].text = NoText
  BY <1>1 DEF ThreadInv, ThreadAgrees, RowsAgree
<1>11. ASSUME NEW w \in Words, Transcribe(w)
       PROVE  RowsMove
  <2> DEFINE t == [url |-> hand.row.url, words |-> w]
             row == [jobs[hand.id] EXCEPT !.text = t, !.error = FALSE, !.delivered = {},
                                          !.emailed = NotRouted, !.status = "delivering"]
  <2>1. t.url = jobs[hand.id].url
    BY <1>11 DEF Transcribe, ThreadInv, HandsAreFresh, Fresh
  <2>2. /\ row.status = "delivering" /\ row.text = t /\ row.url = jobs[hand.id].url
        /\ row.emailed = NotRouted
    BY <1>1, <1>11 DEF Transcribe, Row
  <2>3. RowMoves(jobs[hand.id], row)
    BY <1>10, <1>11, <2>1, <2>2 DEF Transcribe, RowMoves, SameMail
  <2> QED
    BY <1>1, <1>11, <2>3, OneRowMoves DEF Transcribe, SetResult
<1>12. CASE GiveUp
  <2> DEFINE row == [jobs[hand.id] EXCEPT !.error = TRUE, !.delivered = {}, !.status = "delivering"]
  <2>1. RowMoves(jobs[hand.id], row)
    BY <1>1, <1>10, <1>12 DEF GiveUp, Row, RowMoves, SameMail
  <2> QED
    BY <1>1, <1>12, <2>1, OneRowMoves DEF GiveUp, SetFailedResult
<1> QED
  BY <1>2, <1>3, <1>4, <1>7, <1>8, <1>9, <1>11, <1>12 DEF WorkerNext

LEMMA StepMovesRows ==
  ASSUME TypeOK, RowsAgree, ThreadInv, [Next]_vars
  PROVE  RowsMove
<1> USE DEF storeVars
<1>1. CASE Work
  BY <1>1, WorkMovesRows DEF Work
<1>2. CASE Post
  <2>1. PICK j \in Ids, u \in Urls : PostNew(j, u) \/ PostFailed(j, u) \/ PostKnown(j, u)
    BY <1>2 DEF Post
  <2>2. CASE PostNew(j, u)
    BY <2>2, OneRowAppears DEF PostNew, EnqueueNew
  <2>3. CASE PostFailed(j, u)
    <3> DEFINE row == [jobs[j] EXCEPT !.url = u, !.status = "queued", !.attempts = 0, !.error = FALSE]
    <3>1. j \in DOMAIN jobs /\ jobs[j] \in Row
      BY <2>3 DEF PostFailed, Requeue, TypeOK, StoreTypeOK
    <3>2. RowMoves(jobs[j], row)
      BY <2>3, <3>1 DEF PostFailed, Requeue, Row, RowMoves, SameMail
    <3> QED
      BY <2>3, <3>1, <3>2, OneRowMoves DEF PostFailed, Requeue
  <2>4. CASE PostKnown(j, u)
    BY <2>4, NoRowMoves DEF PostKnown, EnqueueKnown
  <2> QED
    BY <2>1, <2>2, <2>3, <2>4
<1>3. CASE Scan
  <2>1. ASSUME NEW k \in Keys, InsertKey(k)
        PROVE  RowsMove
    BY <2>1, NoRowMoves, OneRowAppears DEF InsertKey, EnqueueDiscovered
  <2>2. CASE ScanBegins \/ ScanDone \/ ScanFails \/ \E k \in Keys : SkipKey(k) \/ TakeKey(k)
    BY <2>2, NoRowMoves DEF ScanBegins, ScanDone, ScanFails, SkipKey, TakeKey
  <2> QED
    BY <1>3, <2>1, <2>2 DEF Scan, ScannerNext
<1>4. CASE Arrive \/ UNCHANGED vars \/ \E next \in Configs : Restart(next)
  BY <1>4, NoRowMoves DEF Arrive, Upload, vars, Restart
<1> QED
  BY <1>1, <1>2, <1>3, <1>4 DEF Next

ServiceStep == TypeOK /\ JobsInv /\ ThreadInv /\ [Next]_vars /\ (TypeOK /\ JobsInv /\ ThreadInv)'

LEMMA AlwaysServiceStep == Spec => [][ServiceStep]_vars
<1>1. Init => TypeOK /\ JobsInv /\ ThreadInv
  BY InitInv, InitTypes
<1>2. TypeOK /\ JobsInv /\ ThreadInv /\ [Next]_vars => (TypeOK /\ JobsInv /\ ThreadInv)'
  BY NextKeepsInv, NextKeepsTypes
<1>3. TypeOK /\ JobsInv /\ ThreadInv /\ [Next]_vars /\ (TypeOK /\ JobsInv /\ ThreadInv)'
        => [ServiceStep]_vars
  BY DEF ServiceStep
<1> QED
  BY <1>1, <1>2, <1>3, PTL DEF Spec

LEMMA ResultsStay ==
  ASSUME TypeOK, RowsAgree, ThreadInv, [Next]_vars
  PROVE  \A j \in DOMAIN jobs : jobs[j].text # NoText =>
           /\ j \in DOMAIN jobs'
           /\ jobs'[j].text = jobs[j].text
           /\ jobs'[j].status \in {"delivering", "done"}
           /\ jobs[j].status = "done" => jobs'[j].status = "done"
<1> SUFFICES ASSUME NEW j \in DOMAIN jobs, jobs[j].text # NoText
             PROVE  /\ j \in DOMAIN jobs'
                    /\ jobs'[j].text = jobs[j].text
                    /\ jobs'[j].status \in {"delivering", "done"}
                    /\ jobs[j].status = "done" => jobs'[j].status = "done"
  OBVIOUS
<1>1. j \in DOMAIN jobs' /\ RowMoves(jobs[j], jobs'[j])
  BY StepMovesRows DEF RowsMove
<1>2. jobs[j].status \in {"delivering", "done"}
  BY DEF RowsAgree
<1>3. jobs'[j].text = jobs[j].text
  BY <1>1, <1>2 DEF RowMoves, Same
<1>4. jobs'[j].status \in {"delivering", "done"}
  BY <1>1, <1>3, NextKeepsView DEF TablesKept, RowsAgree
<1> QED
  BY <1>1, <1>2, <1>3, <1>4 DEF RowMoves, Same, Underway

\* A stored transcript is never replaced, and its job never goes back: neither a repeated
\* request nor a scan, a restart or a failed delivery makes the service transcribe again.
THEOREM ResultsAreKept == Spec => ResultIsKept
<1>1. [ServiceStep]_vars
        => [\A j \in DOMAIN jobs : jobs[j].text # NoText =>
              /\ jobs'[j].text = jobs[j].text
              /\ jobs'[j].status \in {"delivering", "done"}
              /\ jobs[j].status = "done" => jobs'[j].status = "done"]_vars
  BY ResultsStay DEF ServiceStep, JobsInv
<1> QED
  BY <1>1, AlwaysServiceStep, PTL DEF ResultIsKept

\* Only an accepted request takes a failed job back into the queue, whatever the scanner
\* lists and however often the process restarts.
THEOREM OnlyRequestsReviveJobs == Spec => OnlyRequestsRevive
<1>1. ServiceStep
        => \A j \in DOMAIN jobs :
             jobs[j].status = "failed" /\ jobs'[j].status # "failed" => requeues' = requeues + 1
  BY StepMovesRows DEF ServiceStep, JobsInv, RowsMove, RowMoves, Underway
<1>2. [ServiceStep]_vars
        => [\A j \in DOMAIN jobs :
              jobs[j].status = "failed" /\ jobs'[j].status # "failed" => requeues' = requeues + 1]_vars
  BY <1>1
<1> QED
  BY <1>2, AlwaysServiceStep, PTL DEF OnlyRequestsRevive

-----------------------------------------------------------------------------
(* Whose recording a transcript is of.                                     *)

TextsFitRequests ==
  \A j \in DOMAIN jobs : jobs[j].text # NoText => jobs[j].text.url = jobs[j].url

LEMMA TextsKeepFitting ==
  ASSUME ServiceStep, TextsFitRequests
  PROVE  TextsFitRequests'
<1> SUFFICES ASSUME NEW j \in DOMAIN jobs', jobs'[j].text # NoText
             PROVE  jobs'[j].text.url = jobs'[j].url
  BY DEF TextsFitRequests
<1>1. j \in DOMAIN jobs /\ RowMoves(jobs[j], jobs'[j])
  BY StepMovesRows DEF ServiceStep, JobsInv, RowsMove
<1>2. jobs[j].status = "failed" => jobs[j].text = NoText
  BY <1>1 DEF ServiceStep, JobsInv, RowsAgree
<1> QED
  BY <1>1, <1>2 DEF RowMoves, Same, TextsFitRequests

\* A transcript that reached a channel is of the recording that the job's last accepted
\* request names.
THEOREM AnswersAreRequested == Spec => []AnswersTheRequest
<1>1. Init => TextsFitRequests
  <2> SUFFICES ASSUME Init
               PROVE  TextsFitRequests
    OBVIOUS
  <2>1. PICK old \in SUBSET Legacy :
          \E u \in [old -> Unparsable] : jobs = [j \in old |-> Queued(u[j], 0)]
    BY DEF Init
  <2> QED
    BY <2>1 DEF Queued, TextsFitRequests
<1>2. TextsFitRequests /\ [ServiceStep]_vars => TextsFitRequests'
  BY TextsKeepFitting DEF TextsFitRequests, vars, storeVars
<1>3. TextsFitRequests /\ ServiceInv => AnswersTheRequest
  BY DEF TextsFitRequests, ServiceInv, MessagesAreAnswers, Answer, AnswersTheRequest
<1>4. Spec => Init
  BY DEF Spec
<1> QED
  BY <1>1, <1>2, <1>3, <1>4, AlwaysServiceStep, InvariantHolds, PTL

-----------------------------------------------------------------------------
(* Attempts.  What they may come to is counted in the times the thread was *)
(* torn from its work, n: a restart here, a failed write in FaultyStore.   *)

\* the thread is about to report the failure of j
GivingUp(j) == pc = "giveup" /\ hand.id = j

OutOfTries(row) == row.attempts >= MaxRetries \/ row.url \in Unparsable

Covered(row, n) ==
  /\ row.attempts <= MaxRetries + n
  /\ row.status \in {"delivering", "failed"} /\ row.text = NoText => OutOfTries(row)

\* A job still under way has an attempt left, or the thread is giving it up; each of the n
\* times the thread was torn from its work may have taken one such job away from it.
RowPaid(j, n) ==
  /\ Covered(jobs[j], n)
  /\ jobs[j].status \in Underway /\ ~GivingUp(j) => jobs[j].attempts < MaxRetries + n

Paid(n) ==
  /\ \A j \in DOMAIN jobs : RowPaid(j, n)
  /\ pc = "giveup" => OutOfTries(jobs[hand.id])

LEMMA CountsAreNumbers ==
  ASSUME TypeOK
  PROVE  /\ MaxRetries \in Nat \ {0} /\ crashes \in Nat /\ lost \in Nat
         /\ \A j \in DOMAIN jobs : jobs[j].attempts \in Nat
BY RetriesAssumption, ServiceAssumption, LostAssumption
   DEF TypeOK, WorkerTypeOK, StoreTypeOK, Row

\* a step that writes no row
LEMMA TablePaid ==
  ASSUME TypeOK, NEW n \in Nat, Paid(n), UNCHANGED jobs,
         UNCHANGED <<pc, hand>> \/ (pc # "giveup" /\ pc' # "giveup")
  PROVE  Paid(n)'
BY DEF Paid, RowPaid, Covered, GivingUp, OutOfTries

\* a step of the thread that writes the row of the job it holds
LEMMA HeldRowPaid ==
  ASSUME TypeOK, ThreadInv, NEW n \in Nat, Paid(n),
         pc \in {"send", "mark", "close", "start", "work", "again", "giveup"},
         NEW row, Update(hand.id, row), pc' = "giveup" => hand' = hand /\ OutOfTries(row),
         Covered(row, n), row.status \in Underway /\ pc' # "giveup" => row.attempts < MaxRetries + n
  PROVE  Paid(n)'
<1>1. PICK j \in DOMAIN jobs : j = hand.id
  BY DEF ThreadInv, ThreadAgrees, HandsAreFresh, Fresh
<1>2. /\ DOMAIN jobs' = DOMAIN jobs /\ jobs'[j] = row
      /\ \A k \in DOMAIN jobs \ {j} : jobs'[k] = jobs[k]
  BY <1>1 DEF Update
<1>3. RowPaid(j, n)'
  BY <1>1, <1>2 DEF RowPaid, Covered, OutOfTries, GivingUp
<1>4. ASSUME NEW k \in DOMAIN jobs \ {j}
      PROVE  RowPaid(k, n)'
  <2>1. RowPaid(k, n) /\ ~GivingUp(k)
    BY <1>1, <1>4 DEF Paid, GivingUp
  <2> QED
    BY <1>2, <2>1 DEF RowPaid, Covered, OutOfTries
<1>5. (pc = "giveup" => OutOfTries(jobs[hand.id]))'
  BY <1>1, <1>2 DEF OutOfTries
<1> QED
  BY <1>2, <1>3, <1>4, <1>5 DEF Paid

LEMMA WorkIsPaid ==
  ASSUME TypeOK, RowsAgree, ThreadInv, NEW n \in Nat, Paid(n), WorkerNext
  PROVE  Paid(n)'
<1> USE DEF storeVars
<1>1. pc \in {"send", "mark", "close", "start", "work", "again", "giveup"} =>
        hand.id \in DOMAIN jobs /\ jobs[hand.id] \in Row /\ RowPaid(hand.id, n)
  BY DEF ThreadInv, ThreadAgrees, HandsAreFresh, Fresh, TypeOK, StoreTypeOK, Paid
<1>2. CASE \/ ReadDelivering \/ Deliver \/ SendAccepted \/ DeliveriesDone \/ Pick
           \/ SendAckLost \/ SendRefused
  BY <1>2, TablePaid DEF ReadDelivering, Deliver, SendAccepted, DeliveriesDone, Pick,
       SendAckLost, SendRefused, NextOfBatch, Sending
<1>3. CASE SendBreaks \/ PickNothing \/ WorkInterrupted
  <2>1. pc # "giveup" /\ pc' # "giveup" /\ UNCHANGED jobs
    BY <1>3 DEF SendBreaks, PickNothing, WorkInterrupted, Sending, CycleRaises, CycleReturns
  <2> QED
    BY <2>1, TablePaid
<1>4. CASE Mark
  <2> DEFINE row == [jobs[hand.id] EXCEPT !.delivered = @ \cup {Channel}]
  <2>1. /\ row.status = "delivering" /\ row.text = jobs[hand.id].text
        /\ row.url = jobs[hand.id].url /\ row.attempts = jobs[hand.id].attempts
        /\ jobs[hand.id].status = "delivering"
    BY <1>1, <1>4 DEF Mark, Row, ThreadInv, HandsAreFresh
  <2> QED
    BY <1>1, <1>4, <2>1, HeldRowPaid
       DEF Mark, MarkDeliveredTo, RowPaid, Covered, OutOfTries, Underway
<1>5. CASE Route
  <2> DEFINE row == [jobs[hand.id] EXCEPT
                       !.emailed = IF "email" \in cfg.enabled THEN cfg.mailbox ELSE Nobody]
  <2>1. /\ row.status = "delivering" /\ row.text = jobs[hand.id].text
        /\ row.url = jobs[hand.id].url /\ row.attempts = jobs[hand.id].attempts
        /\ jobs[hand.id].status = "delivering"
    BY <1>1, <1>5 DEF Route, Row, ThreadInv, HandsAreFresh
  <2> QED
    BY <1>1, <1>5, <2>1, HeldRowPaid DEF Route, SetRouting, RowPaid, Covered, OutOfTries, Underway
<1>6. ASSUME NEW s \in {"done", "failed"}, SetStatus(hand.id, s), pc \in {"send", "close"},
             pc' = "deliver"
      PROVE  Paid(n)'
  <2> DEFINE row == [jobs[hand.id] EXCEPT !.status = s]
  <2>1. /\ row.status = s /\ row.text = jobs[hand.id].text
        /\ row.url = jobs[hand.id].url /\ row.attempts = jobs[hand.id].attempts
        /\ jobs[hand.id].status = "delivering"
    BY <1>1, <1>6 DEF Row, ThreadInv, HandsAreFresh
  <2> QED
    BY <1>1, <1>6, <2>1, HeldRowPaid DEF SetStatus, RowPaid, Covered, OutOfTries, Underway
<1>7. CASE SettleFailed \/ SettleDone
  BY <1>6, <1>7 DEF SettleFailed, SettleDone, NextOfBatch
<1>8. CASE StartProcessing
  <2> DEFINE row == [jobs[hand.id] EXCEPT !.status = "processing"]
  <2>1. /\ row.status = "processing" /\ row.text = jobs[hand.id].text
        /\ row.url = jobs[hand.id].url /\ row.attempts = jobs[hand.id].attempts
        /\ jobs[hand.id].status \in Underway /\ row.url = hand.row.url
    BY <1>1, <1>8 DEF StartProcessing, Row, ThreadInv, HandsAreFresh, Fresh, Underway
  <2>2. row.attempts < MaxRetries + n
    BY <1>1, <1>8, <2>1 DEF StartProcessing, RowPaid, Covered, GivingUp
  <2>3. pc' = "giveup" => OutOfTries(row)
    BY <1>8, <2>1 DEF StartProcessing, OutOfTries
  <2> QED
    BY <1>1, <1>8, <2>1, <2>2, <2>3, HeldRowPaid, CountsAreNumbers
       DEF StartProcessing, SetStatus, RowPaid, Covered
<1>9. CASE TryAgainLater
  <2> DEFINE row == [jobs[hand.id] EXCEPT !.status = "queued"]
  <2>1. /\ row.status = "queued" /\ row.attempts = jobs[hand.id].attempts
        /\ jobs[hand.id].status \in Underway
    BY <1>1, <1>9 DEF TryAgainLater, Row, ThreadInv, ThreadAgrees, Underway
  <2>2. row.attempts < MaxRetries + n
    BY <1>1, <1>9, <2>1 DEF TryAgainLater, RowPaid, Covered, GivingUp
  <2> QED
    BY <1>1, <1>9, <2>1, <2>2, HeldRowPaid DEF TryAgainLater, SetStatus, CycleReturns, RowPaid, Covered
<1>10. ASSUME NEW w \in Words, Transcribe(w)
       PROVE  Paid(n)'
  <2> DEFINE t == [url |-> hand.row.url, words |-> w]
             row == [jobs[hand.id] EXCEPT !.text = t, !.error = FALSE, !.delivered = {},
                                          !.emailed = NotRouted, !.status = "delivering"]
  <2>1. t # NoText
    BY <1>10, TextAssumption DEF Transcribe, Texts, TypeOK, WorkerTypeOK, Holding, Held, Row
  <2>2. row.status = "delivering" /\ row.text = t /\ row.attempts = jobs[hand.id].attempts
    BY <1>1, <1>10 DEF Transcribe, Row
  <2> QED
    BY <1>1, <1>10, <2>1, <2>2, HeldRowPaid
       DEF Transcribe, SetResult, CycleReturns, RowPaid, Covered, Underway
<1>11. CASE PermanentError
  <2> DEFINE row == [jobs[hand.id] EXCEPT !.attempts = @ + 1, !.error = TRUE]
  <2>1. /\ row.status = "processing" /\ row.attempts = jobs[hand.id].attempts + 1
        /\ jobs[hand.id].attempts < MaxRetries + n
    BY <1>1, <1>11 DEF PermanentError, Row, ThreadInv, ThreadAgrees, RowPaid, Covered, GivingUp, Underway
  <2>2. row.attempts <= MaxRetries + n
    BY <1>1, <2>1, <1>11, CountsAreNumbers DEF PermanentError
  <2>3. pc' = "giveup" => OutOfTries(row)
    BY <1>11, <2>1 DEF PermanentError, OutOfTries
  <2>4. pc' # "giveup" => row.attempts < MaxRetries + n
    BY <1>1, <1>11, <2>1, CountsAreNumbers DEF PermanentError
  <2> QED
    BY <1>1, <1>11, <2>1, <2>2, <2>3, <2>4, HeldRowPaid DEF PermanentError, IncrementAttempts, Covered
<1>12. CASE GiveUp
  <2> DEFINE row == [jobs[hand.id] EXCEPT !.error = TRUE, !.delivered = {}, !.status = "delivering"]
  <2>1. /\ row.status = "delivering" /\ row.attempts = jobs[hand.id].attempts
        /\ row.url = jobs[hand.id].url
    BY <1>1, <1>12 DEF GiveUp, Row
  <2>2. OutOfTries(row)
    BY <1>12, <2>1 DEF GiveUp, Paid, OutOfTries
  <2> QED
    BY <1>1, <1>12, <2>1, <2>2, HeldRowPaid
       DEF GiveUp, SetFailedResult, CycleReturns, RowPaid, Covered, Underway
<1> QED
  BY <1>2, <1>3, <1>4, <1>5, <1>7, <1>8, <1>9, <1>10, <1>11, <1>12 DEF WorkerNext

\* a job that is new, or new again, has spent nothing
LEMMA FreshRowPaid ==
  ASSUME TypeOK, NEW n \in Nat, Paid(n), UNCHANGED <<pc, hand>>,
         NEW j, \A k \in DOMAIN jobs' \ {j} : k \in DOMAIN jobs /\ jobs'[k] = jobs[k],
         jobs'[j].attempts = 0, jobs'[j].status = "queued",
         pc = "giveup" => hand.id # j /\ hand.id \in DOMAIN jobs'
  PROVE  Paid(n)'
<1>1. 0 < MaxRetries + n /\ 0 <= MaxRetries + n
  BY CountsAreNumbers
<1>2. RowPaid(j, n)'
  BY <1>1 DEF RowPaid, Covered, Underway
<1>3. ASSUME NEW k \in DOMAIN jobs' \ {j}
      PROVE  RowPaid(k, n)'
  BY <1>3 DEF Paid, RowPaid, Covered, GivingUp, OutOfTries
<1> QED
  BY <1>2, <1>3 DEF Paid, OutOfTries

LEMMA InsertIsPaid ==
  ASSUME TypeOK, ThreadInv, NEW n \in Nat, Paid(n), UNCHANGED <<pc, hand>>,
         NEW j, j \notin DOMAIN jobs, NEW u, NEW s, Insert(j, Queued(u, s))
  PROVE  Paid(n)'
<1>1. /\ DOMAIN jobs' = DOMAIN jobs \cup {j}
      /\ \A k \in DOMAIN jobs : jobs'[k] = jobs[k]
      /\ jobs'[j].attempts = 0 /\ jobs'[j].status = "queued"
  BY DEF Insert, Queued
<1>2. pc = "giveup" => hand.id \in DOMAIN jobs
  BY DEF ThreadInv, ThreadAgrees
<1> QED
  BY <1>1, <1>2, FreshRowPaid

\* a step of the running process
Running == Post \/ Work \/ Scan \/ Arrive

LEMMA StepIsPaid ==
  ASSUME TypeOK, RowsAgree, ThreadInv, NEW n \in Nat, Paid(n), Running \/ UNCHANGED vars
  PROVE  Paid(n)'
<1> USE DEF storeVars, workerVars, threadVars
<1>1. CASE Work
  BY <1>1, WorkIsPaid DEF Work
<1>2. CASE Post
  <2>1. PICK j \in Ids, u \in Urls : PostNew(j, u) \/ PostFailed(j, u) \/ PostKnown(j, u)
    BY <1>2 DEF Post
  <2>2. CASE PostNew(j, u)
    BY <2>2, InsertIsPaid DEF PostNew, EnqueueNew
  <2>3. CASE PostFailed(j, u)
    <3>1. /\ DOMAIN jobs' = DOMAIN jobs /\ j \in DOMAIN jobs /\ jobs[j].status = "failed"
          /\ \A k \in DOMAIN jobs \ {j} : jobs'[k] = jobs[k]
          /\ jobs'[j].attempts = 0 /\ jobs'[j].status = "queued"
      BY <2>3 DEF PostFailed, Requeue, Update, TypeOK, StoreTypeOK, Row
    <3>2. pc = "giveup" => hand.id \in DOMAIN jobs /\ jobs[hand.id].status = "processing"
      BY DEF ThreadInv, ThreadAgrees
    <3> QED
      BY <2>3, <3>1, <3>2, FreshRowPaid DEF PostFailed
  <2>4. CASE PostKnown(j, u)
    BY <2>4, TablePaid DEF PostKnown, EnqueueKnown
  <2> QED
    BY <2>1, <2>2, <2>3, <2>4
<1>3. CASE Scan
  <2>1. ASSUME NEW k \in Keys, InsertKey(k)
        PROVE  Paid(n)'
    BY <1>3, <2>1, InsertIsPaid, TablePaid DEF Scan, InsertKey, EnqueueDiscovered
  <2>2. CASE ScanBegins \/ ScanDone \/ ScanFails \/ \E k \in Keys : SkipKey(k) \/ TakeKey(k)
    BY <1>3, <2>2, TablePaid DEF Scan, ScanBegins, ScanDone, ScanFails, SkipKey, TakeKey
  <2> QED
    BY <1>3, <2>1, <2>2 DEF Scan, ScannerNext
<1>4. CASE Arrive \/ UNCHANGED vars
  BY <1>4, TablePaid DEF Arrive, Upload, vars
<1> QED
  BY <1>1, <1>2, <1>3, <1>4 DEF Running

\* The thread is torn from its work: one more time that a job may need another attempt.
LEMMA TornIsPaid ==
  ASSUME NEW n \in Nat, TypeOK', \A j \in DOMAIN jobs' : Covered(jobs'[j], n), pc' # "giveup"
  PROVE  Paid(n + 1)'
<1> SUFFICES ASSUME NEW j \in DOMAIN jobs'
             PROVE  RowPaid(j, n + 1)'
  BY DEF Paid
<1>1. jobs'[j].attempts \in Nat /\ MaxRetries \in Nat
  BY RetriesAssumption DEF TypeOK, StoreTypeOK, Row
<1>2. jobs'[j].attempts <= MaxRetries + n
  BY DEF Covered
<1>3. jobs'[j].attempts < MaxRetries + (n + 1) /\ jobs'[j].attempts <= MaxRetries + (n + 1)
  BY <1>1, <1>2
<1> QED
  BY <1>3 DEF RowPaid, Covered, OutOfTries

LEMMA NothingIsOwed ==
  ASSUME Init
  PROVE  Paid(0)
<1>1. PICK old \in SUBSET Legacy :
        \E u \in [old -> Unparsable] : jobs = [j \in old |-> Queued(u[j], 0)]
  BY DEF Init
<1>2. \A j \in DOMAIN jobs : jobs[j].attempts = 0 /\ jobs[j].status = "queued"
  BY <1>1 DEF Queued
<1>3. 0 < MaxRetries + 0 /\ 0 <= MaxRetries + 0 /\ pc = "cycle"
  BY RetriesAssumption DEF Init, WorkerInit
<1> QED
  BY <1>2, <1>3 DEF Paid, RowPaid, Covered, Underway

LEMMA CrashesPay ==
  ASSUME ServiceStep, Paid(crashes)
  PROVE  Paid(crashes)'
<1>1. PICK n \in Nat : n = crashes
  BY CountsAreNumbers DEF ServiceStep
<1>2. TypeOK /\ TypeOK' /\ RowsAgree /\ ThreadInv /\ [Next]_vars
  BY DEF ServiceStep, JobsInv
<1>3. CASE Running \/ UNCHANGED vars
  <2>1. Paid(n)'
    BY <1>1, <1>2, <1>3, StepIsPaid
  <2>2. crashes' = n
    BY <1>1, <1>3 DEF Running, Post, PostNew, PostFailed, PostKnown, Work, Scan, Arrive, vars
  <2> QED
    BY <2>1, <2>2
<1>4. ASSUME NEW next \in Configs, Restart(next)
      PROVE  Paid(crashes)'
  <2>1. UNCHANGED jobs /\ crashes' = n + 1 /\ pc' # "giveup"
    BY <1>1, <1>4 DEF Restart, WorkerRestarts, storeVars
  <2>2. \A j \in DOMAIN jobs : Covered(jobs[j], n)
    BY <1>1 DEF Paid, RowPaid
  <2>3. Paid(n + 1)'
    BY <1>2, <2>1, <2>2, TornIsPaid
  <2> QED
    BY <2>1, <2>3
<1> QED
  BY <1>2, <1>3, <1>4 DEF Next, Running

\* A failure is told only when the tries of this life of the job are used up or its URL
\* cannot be parsed, and restarts in the middle of giving up cost one try each, no more.
THEOREM RetriesAreCounted == Spec => []RetriesAreSpent
<1>1. Init => Paid(crashes)
  BY NothingIsOwed DEF Init
<1>2. Paid(crashes) /\ [ServiceStep]_vars => Paid(crashes)'
  <2>1. Paid(crashes) /\ UNCHANGED vars => Paid(crashes)'
    BY DEF vars, storeVars, workerVars, threadVars, Paid, RowPaid, Covered, GivingUp, OutOfTries
  <2> QED
    BY <2>1, CrashesPay
<1>3. Paid(crashes) => RetriesAreSpent
  BY DEF Paid, RowPaid, Covered, OutOfTries, RetriesAreSpent
<1>4. Spec => Init
  BY DEF Spec
<1> QED
  BY <1>1, <1>2, <1>3, <1>4, AlwaysServiceStep, PTL

-----------------------------------------------------------------------------
(* Messages.  Every repetition of a message is paid for by a lost answer   *)
(* or a restart; a channel that is not recorded has had no message that    *)
(* is not paid for - but for the one the thread is about to record.        *)

BeingMarked(j, c) == pc = "mark" /\ hand.id = j /\ Channel = c

\* the marks of a job under way are those of its last life
Recorded(j, c) ==
  j \in DOMAIN jobs /\ jobs[j].status \notin Underway /\ c \in jobs[j].delivered

Economical(j, c, n) ==
  /\ Len(got[j][c]) <= 1 + lost + n
  /\ ~BeingMarked(j, c) /\ ~Recorded(j, c) => Len(got[j][c]) <= lost + n

Frugal(n) ==
  /\ \A j \in Ids, c \in Channels : Economical(j, c, n)
  /\ pc \in {"send", "mark"} => todo \cap jobs[hand.id].delivered = {}

LEMMA LengthsAreNumbers ==
  ASSUME TypeOK
  PROVE  /\ lost \in Nat /\ crashes \in Nat
         /\ \A j \in Ids, c \in Channels : got[j][c] \in Seq(Message) /\ Len(got[j][c]) \in Nat
BY CountsAreNumbers DEF TypeOK, WorkerTypeOK

\* no message, no record, and the thread neither sends nor records
LEMMA QuietIsFrugal ==
  ASSUME TypeOK, NEW n \in Nat, Frugal(n), UNCHANGED <<got, lost, jobs>>,
         \/ UNCHANGED <<pc, hand, todo>>
         \/ pc # "mark" /\ pc' \notin {"send", "mark"}
  PROVE  Frugal(n)'
BY DEF Frugal, Economical, Recorded, BeingMarked, Channel

\* one row is written without touching delivered_to
LEMMA SameMarksAreFrugal ==
  ASSUME TypeOK, ThreadInv, NEW n \in Nat, Frugal(n), UNCHANGED <<got, lost>>,
         NEW j \in DOMAIN jobs, NEW row, Update(j, row), row.delivered = jobs[j].delivered,
         row.status \in Underway => jobs[j].status \in Underway,
         \/ UNCHANGED <<pc, hand, todo>>
         \/ pc # "mark" /\ pc' \notin {"send", "mark"}
  PROVE  Frugal(n)'
<1>1. /\ DOMAIN jobs' = DOMAIN jobs /\ jobs'[j] = row
      /\ \A k \in DOMAIN jobs \ {j} : jobs'[k] = jobs[k]
  BY DEF Update
<1>2. \A k \in DOMAIN jobs : /\ jobs'[k].delivered = jobs[k].delivered
                             /\ jobs'[k].status \in Underway => jobs[k].status \in Underway
  BY <1>1
<1>3. \A k \in Ids, c \in Channels : Economical(k, c, n)'
  BY <1>1, <1>2 DEF Frugal, Economical, Recorded, BeingMarked, Channel
<1>4. pc \in {"send", "mark"} => hand.id \in DOMAIN jobs
  BY DEF ThreadInv, HandsAreFresh, Fresh, TypeOK, WorkerTypeOK
<1>5. (pc \in {"send", "mark"} => todo \cap jobs[hand.id].delivered = {})'
  <2>1. CASE UNCHANGED <<pc, hand, todo>>
    BY <1>1, <1>2, <1>4, <2>1 DEF Frugal
  <2>2. CASE pc' \notin {"send", "mark"}
    BY <2>2
  <2> QED
    BY <2>1, <2>2
<1> QED
  BY <1>3, <1>5 DEF Frugal

\* the answer of a job is decided: nothing of it has been sent
LEMMA DecidingIsFrugal ==
  ASSUME TypeOK, NEW n \in Nat, Frugal(n), UNCHANGED <<got, lost>>,
         NEW j \in DOMAIN jobs, jobs[j].status \in Underway, NEW row, Update(j, row),
         pc # "mark", pc' = "cycle"
  PROVE  Frugal(n)'
<1>1. /\ DOMAIN jobs' = DOMAIN jobs
      /\ \A k \in DOMAIN jobs \ {j} : jobs'[k] = jobs[k]
      /\ j \in Ids
  BY DEF Update, TypeOK, StoreTypeOK
<1>2. ASSUME NEW c \in Channels
      PROVE  Economical(j, c, n)'
  <2>1. Len(got[j][c]) <= lost + n /\ Len(got[j][c]) <= 1 + lost + n
    BY <1>1 DEF Frugal, Economical, Recorded, BeingMarked
  <2> QED
    BY <2>1 DEF Economical
<1>3. \A k \in Ids \ {j}, c \in Channels : Economical(k, c, n)'
  BY <1>1 DEF Frugal, Economical, Recorded, BeingMarked
<1> QED
  BY <1>2, <1>3 DEF Frugal

\* a message to a channel that is not recorded
LEMMA SendingIsFrugal ==
  ASSUME TypeOK, ThreadInv, NEW n \in Nat, Frugal(n), Sending, Accepted, UNCHANGED jobs,
         \/ pc' = "mark" /\ UNCHANGED <<hand, todo, lost>>
         \/ pc' = "deliver" /\ lost' = lost + 1
  PROVE  Frugal(n)'
<1>1. PICK j \in Ids : j = hand.id
  BY DEF Sending, TypeOK, WorkerTypeOK, Held, Holding
<1>2. PICK c \in Channels : c = Channel
  BY DEF Channel, Channels
<1>3. j \in DOMAIN jobs /\ c \in todo /\ c \notin jobs[j].delivered /\ pc = "send"
  BY <1>1, <1>2 DEF Sending, Channel, Frugal, ThreadInv, HandsAreFresh, Fresh,
                    TypeOK, WorkerTypeOK, Channels
<1>4. /\ got'[j][c] = Append(got[j][c], Content)
      /\ \A k \in Ids, d \in Channels : k # j \/ d # c => got'[k][d] = got[k][d]
  BY <1>1, <1>2 DEF Accepted, TypeOK, WorkerTypeOK
<1>5. Len(got'[j][c]) = Len(got[j][c]) + 1
  BY <1>4, LengthsAreNumbers
<1>6. Len(got[j][c]) <= lost + n
  BY <1>3 DEF Frugal, Economical, Recorded, BeingMarked
<1>7. lost' \in Nat /\ lost <= lost' /\ crashes \in Nat /\ lost \in Nat
  BY LengthsAreNumbers
<1>8. Economical(j, c, n)'
  <2>1. Len(got'[j][c]) <= 1 + lost' + n
    BY <1>5, <1>6, <1>7, LengthsAreNumbers
  <2>2. CASE pc' = "mark" /\ UNCHANGED <<hand, todo, lost>>
    BY <1>1, <1>2, <2>1, <2>2 DEF Economical, Recorded, BeingMarked, Channel
  <2>3. CASE lost' = lost + 1
    <3>1. Len(got'[j][c]) <= lost' + n
      BY <1>5, <1>6, <1>7, <2>3, LengthsAreNumbers
    <3> QED
      BY <2>1, <3>1 DEF Economical
  <2> QED
    BY <2>2, <2>3
<1>9. ASSUME NEW k \in Ids, NEW d \in Channels, k # j \/ d # c
      PROVE  Economical(k, d, n)'
  <2>1. got'[k][d] = got[k][d] /\ Economical(k, d, n) /\ ~BeingMarked(k, d)
    BY <1>3, <1>4, <1>9 DEF Frugal, BeingMarked
  <2>2. Len(got[k][d]) <= 1 + lost' + n
    BY <1>7, <2>1, LengthsAreNumbers DEF Economical
  <2>3. ~Recorded(k, d) => Len(got[k][d]) <= lost' + n
    BY <1>7, <2>1, LengthsAreNumbers DEF Economical
  <2> QED
    BY <2>1, <2>2, <2>3 DEF Economical, Recorded
<1>10. (pc \in {"send", "mark"} => todo \cap jobs[hand.id].delivered = {})'
  BY <1>3 DEF Frugal
<1> QED
  BY <1>8, <1>9, <1>10 DEF Frugal

LEMMA MarkingIsFrugal ==
  ASSUME TypeOK, ThreadInv, NEW n \in Nat, Frugal(n), Mark
  PROVE  Frugal(n)'
<1> USE DEF channelVars
<1>1. PICK j \in DOMAIN jobs : j = hand.id /\ j \in Ids /\ jobs[j] \in Row
  BY DEF Mark, ThreadInv, HandsAreFresh, Fresh, TypeOK, StoreTypeOK
<1>2. PICK c \in Channels : c = Channel
  BY DEF Channel, Channels
<1>3. /\ DOMAIN jobs' = DOMAIN jobs
      /\ jobs'[j].delivered = jobs[j].delivered \cup {c}
      /\ jobs'[j].status = "delivering" /\ jobs[j].status = "delivering"
      /\ \A k \in DOMAIN jobs \ {j} : jobs'[k] = jobs[k]
  BY <1>1, <1>2 DEF Mark, MarkDeliveredTo, Update, Row, ThreadInv, HandsAreFresh
<1>4. \A k \in Ids, d \in Channels : Economical(k, d, n)'
  BY <1>1, <1>2, <1>3 DEF Mark, Frugal, Economical, Recorded, BeingMarked, Underway
<1>5. (pc \in {"send", "mark"} => todo \cap jobs[hand.id].delivered = {})'
  BY <1>1, <1>2, <1>3 DEF Mark, Frugal
<1> QED
  BY <1>4, <1>5 DEF Frugal

LEMMA WorkIsFrugal ==
  ASSUME TypeOK, RowsAgree, ThreadInv, NEW n \in Nat, Frugal(n), WorkerNext
  PROVE  Frugal(n)'
<1> USE DEF storeVars, channelVars
<1>1. pc \in {"send", "close", "start", "work", "again", "giveup"} =>
        hand.id \in DOMAIN jobs /\ jobs[hand.id] \in Row
  BY DEF ThreadInv, ThreadAgrees, HandsAreFresh, Fresh, TypeOK, StoreTypeOK
<1>2. CASE ReadDelivering \/ DeliveriesDone \/ Pick \/ SendRefused
  BY <1>2, QuietIsFrugal DEF ReadDelivering, DeliveriesDone, Pick, SendRefused, NextOfBatch,
       Sending
<1>3. CASE SendBreaks \/ PickNothing \/ WorkInterrupted
  <2>1. pc # "mark" /\ pc' \notin {"send", "mark"} /\ UNCHANGED <<jobs, got, lost>>
    BY <1>3 DEF SendBreaks, PickNothing, WorkInterrupted, Sending, CycleRaises, CycleReturns
  <2> QED
    BY <2>1, QuietIsFrugal
<1>4. CASE Deliver
  <2>1. PICK j \in DOMAIN batch : /\ hand' = [id |-> j, row |-> batch[j]]
                                  /\ todo' = cfg.enabled \ batch[j].delivered
    BY <1>4 DEF Deliver
  <2>2. jobs[j] = batch[j] /\ pc' = "send" /\ pc = "deliver" /\ UNCHANGED <<jobs, got, lost>>
    BY <1>4, <2>1 DEF Deliver, ThreadInv, HandsAreFresh
  <2> QED
    BY <2>1, <2>2 DEF Frugal, Economical, Recorded, BeingMarked
<1>5. CASE SendAccepted
  BY <1>5, SendingIsFrugal DEF SendAccepted
<1>6. CASE SendAckLost
  BY <1>6, SendingIsFrugal DEF SendAckLost, NextOfBatch
<1>7. CASE Mark
  BY <1>7, MarkingIsFrugal
<1>8. ASSUME NEW s, SetStatus(hand.id, s), pc' \notin {"send", "mark"}, UNCHANGED <<got, lost>>,
             \/ pc \in {"send", "close"} /\ s \in {"done", "failed"}
             \/ pc \in {"start", "again"} /\ s \in Underway
      PROVE  Frugal(n)'
  <2> DEFINE row == [jobs[hand.id] EXCEPT !.status = s]
  <2>1. row.delivered = jobs[hand.id].delivered /\ row.status = s
    BY <1>1, <1>8 DEF Row
  <2>2. pc \in {"start", "again"} => jobs[hand.id].status \in Underway
    BY DEF ThreadInv, ThreadAgrees, HandsAreFresh, Underway
  <2>3. row.status \in Underway => jobs[hand.id].status \in Underway
    BY <1>8, <2>1, <2>2 DEF Underway
  <2> QED
    BY <1>1, <1>8, <2>1, <2>3, SameMarksAreFrugal DEF SetStatus
<1>9. CASE SettleFailed \/ SettleDone
  BY <1>8, <1>9 DEF SettleFailed, SettleDone, NextOfBatch
<1>10. CASE StartProcessing \/ TryAgainLater
  BY <1>8, <1>10 DEF StartProcessing, TryAgainLater, CycleReturns, Underway
<1>11. CASE Route
  <2> DEFINE row == [jobs[hand.id] EXCEPT
                       !.emailed = IF "email" \in cfg.enabled THEN cfg.mailbox ELSE Nobody]
  <2>1. row.delivered = jobs[hand.id].delivered /\ row.status = jobs[hand.id].status
    BY <1>1, <1>11 DEF Route, Row
  <2> QED
    BY <1>1, <1>11, <2>1, SameMarksAreFrugal DEF Route, SetRouting
<1>12. CASE PermanentError
  <2> DEFINE row == [jobs[hand.id] EXCEPT !.attempts = @ + 1, !.error = TRUE]
  <2>1. row.delivered = jobs[hand.id].delivered /\ row.status = jobs[hand.id].status
    BY <1>1, <1>12 DEF PermanentError, Row
  <2> QED
    BY <1>1, <1>12, <2>1, SameMarksAreFrugal DEF PermanentError, IncrementAttempts
<1>13. pc \in {"work", "giveup"} => jobs[hand.id].status \in Underway
  BY DEF ThreadInv, ThreadAgrees, Underway
<1>14. CASE (\E w \in Words : Transcribe(w)) \/ GiveUp
  BY <1>1, <1>13, <1>14, DecidingIsFrugal
     DEF Transcribe, GiveUp, SetResult, SetFailedResult, CycleReturns
<1> QED
  BY <1>2, <1>3, <1>4, <1>5, <1>6, <1>7, <1>9, <1>10, <1>11, <1>12, <1>14 DEF WorkerNext

LEMMA InsertIsFrugal ==
  ASSUME ThreadInv, NEW n \in Nat, Frugal(n), UNCHANGED <<pc, hand, todo, got, lost>>,
         NEW j, j \notin DOMAIN jobs, NEW u, NEW s, Insert(j, Queued(u, s))
  PROVE  Frugal(n)'
<1>1. /\ DOMAIN jobs' = DOMAIN jobs \cup {j}
      /\ \A k \in DOMAIN jobs : jobs'[k] = jobs[k]
      /\ jobs'[j].delivered = {}
  BY DEF Insert, Queued
<1>2. \A k \in Ids, c \in Channels : Economical(k, c, n)'
  BY <1>1 DEF Frugal, Economical, Recorded, BeingMarked, Channel
<1>3. pc \in {"send", "mark"} => hand.id \in DOMAIN jobs
  BY DEF ThreadInv, HandsAreFresh, Fresh
<1> QED
  BY <1>1, <1>2, <1>3 DEF Frugal

LEMMA StepIsFrugal ==
  ASSUME TypeOK, RowsAgree, ThreadInv, NEW n \in Nat, Frugal(n), Running \/ UNCHANGED vars
  PROVE  Frugal(n)'
<1> USE DEF storeVars, workerVars, threadVars, channelVars
<1>1. CASE Work
  BY <1>1, WorkIsFrugal DEF Work
<1>2. CASE Post
  <2>1. PICK j \in Ids, u \in Urls : PostNew(j, u) \/ PostFailed(j, u) \/ PostKnown(j, u)
    BY <1>2 DEF Post
  <2>2. CASE PostNew(j, u)
    BY <2>2, InsertIsFrugal DEF PostNew, EnqueueNew
  <2>3. CASE PostFailed(j, u)
    <3>1. /\ DOMAIN jobs' = DOMAIN jobs /\ j \in DOMAIN jobs /\ jobs[j].status = "failed"
          /\ \A k \in DOMAIN jobs \ {j} : jobs'[k] = jobs[k]
      BY <2>3 DEF PostFailed, Requeue, Update
    <3>2. /\ \A c \in Channels : got'[j][c] = <<>>
          /\ \A k \in Ids \ {j} : got'[k] = got[k]
      BY <2>3 DEF PostFailed, TypeOK, WorkerTypeOK
    <3>3. UNCHANGED <<pc, hand, todo, lost>>
      BY <2>3 DEF PostFailed
    <3>4. pc \in {"send", "mark"} => hand.id \in DOMAIN jobs \ {j}
      BY <3>1 DEF ThreadInv, HandsAreFresh, Fresh
    <3>5. \A c \in Channels : Economical(j, c, n)'
      <4>1. 0 <= lost + n /\ 0 <= 1 + lost + n
        BY LengthsAreNumbers
      <4>2. \A c \in Channels : Len(got'[j][c]) = 0
        BY <3>2
      <4> QED
        BY <3>3, <4>1, <4>2 DEF Economical
    <3>6. \A k \in Ids \ {j}, c \in Channels : Economical(k, c, n)'
      BY <3>1, <3>2, <3>3 DEF Frugal, Economical, Recorded, BeingMarked, Channel
    <3> QED
      BY <3>1, <3>3, <3>4, <3>5, <3>6 DEF Frugal
  <2>4. CASE PostKnown(j, u)
    BY <2>4, QuietIsFrugal DEF PostKnown, EnqueueKnown
  <2> QED
    BY <2>1, <2>2, <2>3, <2>4
<1>3. CASE Scan
  <2>1. ASSUME NEW k \in Keys, InsertKey(k)
        PROVE  Frugal(n)'
    BY <1>3, <2>1, QuietIsFrugal, InsertIsFrugal DEF Scan, InsertKey, EnqueueDiscovered
  <2>2. CASE ScanBegins \/ ScanDone \/ ScanFails \/ \E k \in Keys : SkipKey(k) \/ TakeKey(k)
    BY <1>3, <2>2, QuietIsFrugal DEF Scan, ScanBegins, ScanDone, ScanFails, SkipKey, TakeKey
  <2> QED
    BY <1>3, <2>1, <2>2 DEF Scan, ScannerNext
<1>4. CASE Arrive \/ UNCHANGED vars
  BY <1>4, QuietIsFrugal DEF Arrive, Upload, vars
<1> QED
  BY <1>1, <1>2, <1>3, <1>4 DEF Running

\* The thread is torn from its work, maybe between a message and its mark, and what it
\* wrote may be undone: one more time that a channel may be sent its message again.
LEMMA TornIsFrugal ==
  ASSUME TypeOK, NEW n \in Nat, Frugal(n), UNCHANGED <<got, lost>>, pc' \notin {"send", "mark"}
  PROVE  Frugal(n + 1)'
<1> SUFFICES ASSUME NEW j \in Ids, NEW c \in Channels
             PROVE  Economical(j, c, n + 1)'
  BY DEF Frugal
<1>1. Len(got[j][c]) <= 1 + lost + n
  BY DEF Frugal, Economical
<1>2. Len(got[j][c]) <= lost + (n + 1) /\ Len(got[j][c]) <= 1 + lost + (n + 1)
  BY <1>1, LengthsAreNumbers
<1> QED
  BY <1>2 DEF Economical

LEMMA NothingIsSent ==
  ASSUME Init
  PROVE  Frugal(0)
<1>1. \A j \in Ids, c \in Channels : Len(got[j][c]) = 0
  BY DEF Init, WorkerInit
<1>2. 0 <= lost + 0 /\ 0 <= 1 + lost + 0 /\ pc = "cycle"
  BY DEF Init, WorkerInit
<1> QED
  BY <1>1, <1>2 DEF Frugal, Economical

LEMMA CrashesPayForMessages ==
  ASSUME ServiceStep, Frugal(crashes)
  PROVE  Frugal(crashes)'
<1>1. PICK n \in Nat : n = crashes
  BY CountsAreNumbers DEF ServiceStep
<1>2. TypeOK /\ RowsAgree /\ ThreadInv /\ [Next]_vars
  BY DEF ServiceStep, JobsInv
<1>3. CASE Running \/ UNCHANGED vars
  <2>1. Frugal(n)'
    BY <1>1, <1>2, <1>3, StepIsFrugal
  <2>2. crashes' = n
    BY <1>1, <1>3 DEF Running, Post, PostNew, PostFailed, PostKnown, Work, Scan, Arrive, vars
  <2> QED
    BY <2>1, <2>2
<1>4. ASSUME NEW next \in Configs, Restart(next)
      PROVE  Frugal(crashes)'
  <2>1. UNCHANGED <<got, lost>> /\ crashes' = n + 1 /\ pc' \notin {"send", "mark"}
    BY <1>1, <1>4 DEF Restart, WorkerRestarts, channelVars
  <2>2. Frugal(n + 1)'
    BY <1>1, <1>2, <2>1, TornIsFrugal
  <2> QED
    BY <2>1, <2>2
<1> QED
  BY <1>2, <1>3, <1>4 DEF Next, Running

\* A channel hears an answer again only for a lost acknowledgement or a restart, and once
\* for each: delivered_to, re-read by every cycle, keeps the others from being resent.
THEOREM ResendsArePaidFor == Spec => []NoNeedlessResend
<1>1. Init => Frugal(crashes)
  BY NothingIsSent DEF Init
<1>2. Frugal(crashes) /\ [ServiceStep]_vars => Frugal(crashes)'
  <2>1. Frugal(crashes) /\ UNCHANGED vars => Frugal(crashes)'
    BY DEF vars, storeVars, workerVars, threadVars, channelVars, Frugal, Economical,
           Recorded, BeingMarked, Channel
  <2> QED
    BY <2>1, CrashesPayForMessages
<1>3. Frugal(crashes) => NoNeedlessResend
  BY DEF Frugal, Economical, NoNeedlessResend
<1>4. Spec => Init
  BY DEF Spec
<1> QED
  BY <1>1, <1>2, <1>3, <1>4, AlwaysServiceStep, PTL

-----------------------------------------------------------------------------
(* Recipients.  What a step may do to the messages of one job, and what    *)
(* follows for the recipients recorded with it.                            *)

GetsMail(j, c, m) ==
  /\ got'[j] = [got[j] EXCEPT ![c] = Append(@, m)]
  /\ c = "email" => m.to = cfg.mailbox

MailMoves(j) ==
  \/ got'[j] = got[j]
  \/ \E c \in Channels, m \in Message : GetsMail(j, c, m)
  \/ /\ j \in DOMAIN jobs /\ jobs[j].status = "failed" /\ requeues' = requeues + 1
     /\ got'[j] = [c \in Channels |-> <<>>]

\* every message accepted for the job stays accepted
MessagesStay(j) ==
  \A c \in Channels : \A i \in DOMAIN got[j][c] :
    i \in DOMAIN got'[j][c] /\ got'[j][c][i] = got[j][c][i]

LEMMA SendingMovesMail ==
  ASSUME TypeOK, Accepted, Sending
  PROVE  \A j \in Ids : MailMoves(j)
<1>1. hand.id \in Ids /\ hand.row \in Row /\ cfg \in Config
  BY DEF Sending, TypeOK, WorkerTypeOK, Held, Holding
<1>2. Channel \in Channels
  BY DEF Channel, Channels
<1>3. Content \in Message /\ (Channel = "email" => Content.to = cfg.mailbox)
  BY <1>1 DEF Content, Message, IsError, Row, Config
<1>4. /\ got'[hand.id] = [got[hand.id] EXCEPT ![Channel] = Append(@, Content)]
      /\ \A k \in Ids \ {hand.id} : got'[k] = got[k]
  BY <1>1 DEF Accepted, TypeOK, WorkerTypeOK
<1>5. GetsMail(hand.id, Channel, Content)
  BY <1>3, <1>4 DEF GetsMail
<1> QED
  BY <1>2, <1>3, <1>4, <1>5 DEF MailMoves

LEMMA StepMovesMail ==
  ASSUME TypeOK, [Next]_vars
  PROVE  \A j \in Ids : MailMoves(j)
<1> USE DEF workerVars, channelVars
<1>1. CASE UNCHANGED got
  BY <1>1 DEF MailMoves
<1>2. CASE Work
  <2>1. CASE SendAccepted \/ SendAckLost
    BY <2>1, SendingMovesMail DEF SendAccepted, SendAckLost
  <2>2. CASE ~(SendAccepted \/ SendAckLost)
    BY <1>1, <1>2, <2>2 DEF Work, WorkerNext, ReadDelivering, Deliver, SendRefused, SendBreaks, Mark,
       SettleFailed, Route, SettleDone, DeliveriesDone, PickNothing, Pick, StartProcessing,
       Transcribe, WorkInterrupted, PermanentError, TryAgainLater, GiveUp
  <2> QED
    BY <2>1, <2>2
<1>3. CASE Post
  <2>1. PICK j \in Ids, u \in Urls : PostNew(j, u) \/ PostFailed(j, u) \/ PostKnown(j, u)
    BY <1>3 DEF Post
  <2>2. CASE PostFailed(j, u)
    <3>1. /\ j \in DOMAIN jobs /\ jobs[j].status = "failed" /\ requeues' = requeues + 1
          /\ got'[j] = [c \in Channels |-> <<>>]
          /\ \A k \in Ids \ {j} : got'[k] = got[k]
      BY <2>2 DEF PostFailed, Requeue, TypeOK, WorkerTypeOK
    <3> QED
      BY <3>1 DEF MailMoves
  <2> QED
    BY <1>1, <2>1, <2>2 DEF PostNew, PostKnown
<1>4. CASE Scan \/ Arrive \/ UNCHANGED vars \/ \E next \in Configs : Restart(next)
  BY <1>1, <1>4 DEF Scan, Arrive, vars, Restart
<1> QED
  BY <1>2, <1>3, <1>4 DEF Next

LEMMA AcceptedMessagesStay ==
  ASSUME TypeOK, [Next]_vars, NEW j \in Ids,
         (j \in DOMAIN jobs => jobs[j].status # "failed") \/ UNCHANGED requeues
  PROVE  MessagesStay(j)
<1>1. MailMoves(j) /\ requeues \in Nat
  BY StepMovesMail, ServiceAssumption DEF TypeOK
<1>2. ASSUME NEW c \in Channels, NEW i \in DOMAIN got[j][c]
      PROVE  i \in DOMAIN got'[j][c] /\ got'[j][c][i] = got[j][c][i]
  <2>1. CASE got'[j] = got[j]
    BY <2>1
  <2>2. ASSUME NEW d \in Channels, NEW m \in Message, GetsMail(j, d, m)
        PROVE  i \in DOMAIN got'[j][c] /\ got'[j][c][i] = got[j][c][i]
    <3>1. got[j][c] \in Seq(Message) /\ got[j] \in [Channels -> Seq(Message)]
      BY DEF TypeOK, WorkerTypeOK
    <3>2. got'[j][c] = got[j][c] \/ got'[j][c] = Append(got[j][c], m)
      BY <2>2, <3>1 DEF GetsMail
    <3> QED
      BY <3>1, <3>2
  <2>3. requeues' # requeues + 1 \/ ~(j \in DOMAIN jobs /\ jobs[j].status = "failed")
    BY <1>1
  <2> QED
    BY <1>1, <2>1, <2>2, <2>3 DEF MailMoves
<1> QED
  BY <1>2 DEF MessagesStay

LEMMA ConfigurationStays ==
  ASSUME [Next]_vars
  PROVE  UNCHANGED cfg \/ cfg' \in Configs
<1>1. CASE Work
  BY <1>1 DEF Work, WorkerNext, ReadDelivering, Deliver, SendAccepted, SendAckLost, SendRefused,
     SendBreaks, Mark, SettleFailed, Route, SettleDone, DeliveriesDone, PickNothing, Pick,
     StartProcessing, Transcribe, WorkInterrupted, PermanentError, TryAgainLater, GiveUp
<1>2. CASE Post
  BY <1>2 DEF Post, PostNew, PostFailed, PostKnown, workerVars
<1>3. CASE Scan \/ Arrive \/ UNCHANGED vars \/ \E next \in Configs : Restart(next)
  BY <1>3 DEF Scan, Arrive, vars, Restart, workerVars
<1> QED
  BY <1>1, <1>2, <1>3 DEF Next

RecipientsAreFixed == \A c, d \in Configs : c.mailbox = d.mailbox

\* the recipients recorded for a result were sent it; a failure has none
Addressed(j) ==
  /\ jobs[j].text = NoText => jobs[j].emailed = NotRouted
  /\ jobs[j].text # NoText /\ jobs[j].emailed \in Mailboxes
       => jobs[j].emailed = cfg.mailbox /\ DOMAIN got[j]["email"] # {}

RecipientsInv ==
  /\ cfg \in Configs
  /\ \A j \in Ids : \A i \in DOMAIN got[j]["email"] : got[j]["email"][i].to = cfg.mailbox
  /\ \A j \in DOMAIN jobs : Addressed(j)

LEMMA RecipientsStay ==
  ASSUME RecipientsAreFixed, RecipientsInv, ServiceStep
  PROVE  RecipientsInv'
<1>1. cfg' \in Configs /\ cfg'.mailbox = cfg.mailbox
  BY ConfigurationStays DEF ServiceStep, RecipientsInv, RecipientsAreFixed
<1>2. ASSUME NEW j \in Ids
      PROVE  \A i \in DOMAIN got'[j]["email"] : got'[j]["email"][i].to = cfg.mailbox
  <2>1. /\ got[j] \in [Channels -> Seq(Message)] /\ got[j]["email"] \in Seq(Message)
        /\ \A i \in DOMAIN got[j]["email"] : got[j]["email"][i].to = cfg.mailbox
    BY DEF ServiceStep, TypeOK, WorkerTypeOK, Channels, RecipientsInv
  <2>2. MailMoves(j)
    BY StepMovesMail DEF ServiceStep
  <2>3. ASSUME NEW c \in Channels, NEW m \in Message, GetsMail(j, c, m)
        PROVE  \A i \in DOMAIN got'[j]["email"] : got'[j]["email"][i].to = cfg.mailbox
    <3>1. CASE c = "email"
      <4>1. got'[j]["email"] = Append(got[j]["email"], m)
        BY <2>1, <2>3, <3>1 DEF GetsMail
      <4> QED
        BY <2>1, <2>3, <3>1, <4>1 DEF GetsMail
    <3>2. CASE c # "email"
      <4>1. got'[j]["email"] = got[j]["email"]
        BY <2>1, <2>3, <3>2 DEF GetsMail
      <4> QED
        BY <2>1, <4>1
    <3> QED
      BY <3>1, <3>2
  <2> QED
    BY <2>1, <2>2, <2>3 DEF MailMoves, Channels
<1>3. ASSUME NEW j \in DOMAIN jobs'
      PROVE  Addressed(j)'
  <2>1. CASE j \notin DOMAIN jobs
    BY <1>3, <2>1, StepMovesRows DEF ServiceStep, JobsInv, RowsMove, Addressed
  <2>2. CASE j \in DOMAIN jobs
    <3>1. /\ RowMoves(jobs[j], jobs'[j]) /\ Addressed(j) /\ j \in Ids
          /\ jobs[j].text # NoText => jobs[j].status # "failed"
      BY <2>2, StepMovesRows
         DEF ServiceStep, JobsInv, RowsAgree, RowsMove, RecipientsInv, TypeOK, StoreTypeOK
    <3>2. jobs[j].text # NoText /\ DOMAIN got[j]["email"] # {} => DOMAIN got'[j]["email"] # {}
      BY <3>1, AcceptedMessagesStay DEF ServiceStep, MessagesStay, Channels
    <3>3. CASE SameMail(jobs[j], jobs'[j]) /\ jobs'[j].text = jobs[j].text
      BY <1>1, <3>1, <3>2, <3>3 DEF Addressed, SameMail
    <3>4. CASE IsRouted(jobs[j], jobs'[j]) /\ jobs'[j].text = jobs[j].text
      <4>1. "email" \in cfg.enabled => DOMAIN got[j]["email"] # {}
        BY <2>2, <3>4 DEF ServiceStep, JobsInv, MarksAreTrue, Told, IsRouted
      <4> QED
        BY <1>1, <3>2, <3>4, <4>1, RoutedAssumption DEF Addressed, IsRouted
    <3>5. CASE jobs'[j].emailed = NotRouted
      BY <3>5, RoutedAssumption DEF Addressed
    <3> QED
      BY <3>1, <3>3, <3>4, <3>5 DEF RowMoves, Same, SameMail
  <2> QED
    BY <2>1, <2>2
<1> QED
  BY <1>1, <1>2, <1>3 DEF RecipientsInv

\* The recipients recorded for a job that is done are those of a message the mail server
\* accepted for it, as long as no restart brings other recipients.
THEOREM RecipientsAreReal ==
  ASSUME RecipientsAreFixed
  PROVE  Spec => []RecordedRecipientsAreReal
<1>1. Init => RecipientsInv
  <2> SUFFICES ASSUME Init
               PROVE  RecipientsInv
    OBVIOUS
  <2>1. PICK old \in SUBSET Legacy :
          \E u \in [old -> Unparsable] : jobs = [j \in old |-> Queued(u[j], 0)]
    BY DEF Init
  <2>2. \A j \in DOMAIN jobs : Addressed(j)
    BY <2>1 DEF Queued, Addressed
  <2> QED
    BY <2>2 DEF Init, WorkerInit, RecipientsInv, Channels
<1>2. RecipientsInv /\ [ServiceStep]_vars => RecipientsInv'
  <2>1. RecipientsInv /\ UNCHANGED <<cfg, jobs, got>> => RecipientsInv'
    BY DEF RecipientsInv, Addressed
  <2> QED
    BY <2>1, RecipientsStay DEF vars, storeVars, workerVars, channelVars
<1>3. RecipientsInv /\ ServiceInv /\ TypeOK => RecordedRecipientsAreReal
  BY DEF RecipientsInv, Addressed, ServiceInv, RowsAgree, TypeOK, StoreTypeOK,
         RecordedRecipientsAreReal
<1>4. Spec => Init
  BY DEF Spec
<1> QED
  BY <1>1, <1>2, <1>3, <1>4, AlwaysServiceStep, InvariantHolds, TypesAreCorrect, PTL
=============================================================================
