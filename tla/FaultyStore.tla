---------------------------- MODULE FaultyStore -----------------------------
(***************************************************************************)
(* The service over a database file that another process may hold locked   *)
(* (a backup, an operator's sqlite3 shell).  Python's sqlite3 opens a      *)
(* transaction with the first INSERT or UPDATE and JobStore commits it     *)
(* before its method returns.  When the lock is not free within the        *)
(* driver's timeout either the statement or the COMMIT raises              *)
(* OperationalError.  No caller rolls back: after a failed COMMIT the      *)
(* writes stay in the open transaction of the one connection all threads   *)
(* share, visible to all of them, until somebody's next commit succeeds -  *)
(* or the process ends, and they are gone.                                 *)
(*                                                                         *)
(* `jobs` and `objects` are what the connection sees; `durable` is what    *)
(* the file holds.                                                         *)
(***************************************************************************)
EXTENDS AiService

CONSTANT MaxFaults    \* bound: how many writes or commits meet a locked database

ASSUME FaultsAssumption == MaxFaults \in Nat

VARIABLES
  durable,    \* the tables as of the last successful commit
  raising,    \* the worker's last commit failed: the exception is leaving run_once
  accepted,   \* ids a client holds a 200 answer for (since the job was last queued)
  faults      \* how many writes or commits have failed

faultVars == <<durable, raising, accepted, faults>>
faultyVars == <<vars, faultVars>>

Tables == [jobs |-> jobs, objects |-> objects]

FaultyTypeOK ==
  /\ TypeOK
  /\ DOMAIN durable.jobs \subseteq Ids
  /\ durable.jobs \in [DOMAIN durable.jobs -> Row]
  /\ durable.objects \subseteq Keys
  /\ raising \in BOOLEAN
  /\ accepted \subseteq Ids
  /\ faults \in 0 .. MaxFaults

FaultyInit ==
  /\ Init
  /\ durable = Tables
  /\ raising = FALSE /\ accepted = {} /\ faults = 0

\* one transaction: whatever earlier callers left in it is committed as well
Commits == durable' = [jobs |-> jobs', objects |-> objects'] /\ UNCHANGED faults

Fault == faults < MaxFaults /\ faults' = faults + 1

CommitFails == Fault /\ UNCHANGED durable

-----------------------------------------------------------------------------
(* Requests: an exception of enqueue is answered 500.                      *)

Write(j, u) == PostNew(j, u) \/ PostFailed(j, u)

PostAccepted(j, u) ==
  /\ Write(j, u)
  /\ Commits
  /\ accepted' = accepted \cup {j}
  /\ UNCHANGED raising

\* (a request whose first statement raises leaves nothing behind and is no step)
PostUnanswered(j, u) ==
  /\ Write(j, u)
  /\ CommitFails
  /\ accepted' = accepted \ {j}
  /\ UNCHANGED raising

\* the row is there: nothing is written, nothing is committed, the answer is 200
PostAcknowledged(j, u) ==
  /\ PostKnown(j, u)
  /\ accepted' = accepted \cup {j}
  /\ UNCHANGED <<durable, raising, faults>>

Request ==
  \E j \in Ids, u \in Urls :
    PostAccepted(j, u) \/ PostUnanswered(j, u) \/ PostAcknowledged(j, u)

-----------------------------------------------------------------------------
(* The worker.                                                             *)

StoreCalls ==
  \/ Mark \/ SettleFailed \/ Route \/ SettleDone \/ StartProcessing
  \/ \E w \in Words : Transcribe(w)
  \/ PermanentError \/ TryAgainLater \/ GiveUp

OtherCalls ==
  \/ ReadDelivering \/ Deliver
  \/ SendAccepted \/ SendAckLost \/ SendRefused \/ SendBreaks
  \/ DeliveriesDone \/ PickNothing \/ Pick \/ WorkInterrupted

\* everything around the worker and the database stays as it is
NothingElse == UNCHANGED <<scannerVars, crashes, requeues, accepted>>

WorkerWrites ==
  /\ ~raising /\ StoreCalls /\ NothingElse
  /\ \/ Commits /\ UNCHANGED raising
     \/ CommitFails /\ raising' = TRUE

\* the statement itself raises, which it cannot inside an open transaction
WriteFails ==
  /\ ~raising /\ durable = Tables
  /\ pc \in {"mark", "close", "start", "again", "giveup", "send"}
  /\ pc = "send" => todo = {}
  /\ Fault
  /\ CycleRaises
  /\ NothingElse
  /\ UNCHANGED <<storeVars, cfg, channelVars, durable, raising>>

\* no except clause below run_forever knows the exception
Unwinds ==
  /\ raising /\ raising' = FALSE
  /\ CycleRaises
  /\ NothingElse
  /\ UNCHANGED <<storeVars, cfg, channelVars, durable, faults>>

WorkerGoesOn ==
  /\ ~raising /\ OtherCalls /\ NothingElse
  /\ UNCHANGED <<durable, raising, faults>>

-----------------------------------------------------------------------------
(* The scanner: an exception ends the scan.                                *)

InsertKeyCommits(k) == InsertKey(k) /\ Commits

InsertKeyFails(k) ==
  /\ spc = "insert" /\ IsNextKey(k)
  /\ \/ EnqueueDiscovered(k, stamp) /\ (k \in objects => durable # Tables)
     \/ durable = Tables /\ UNCHANGED <<jobs, objects>>
  /\ CommitFails
  /\ ScanEnds
  /\ UNCHANGED <<now, bucket>>

ScannerReads ==
  /\ ScanBegins \/ ScanDone \/ ScanFails \/ \E k \in Keys : SkipKey(k) \/ TakeKey(k)
  /\ UNCHANGED <<durable, faults>>

FaultyScan ==
  /\ ScannerReads \/ \E k \in Keys : InsertKeyCommits(k) \/ InsertKeyFails(k)
  /\ UNCHANGED <<workerVars, crashes, requeues, raising, accepted>>

-----------------------------------------------------------------------------
FaultyArrive == Arrive /\ UNCHANGED faultVars

\* the connection is gone, its open transaction with it
CrashRollsBack(next) ==
  /\ crashes < MaxCrashes
  /\ crashes' = crashes + 1
  /\ jobs' = durable.jobs /\ objects' = durable.objects
  /\ cfg' = next
  /\ WorkerRestarts
  /\ ScanEnds
  /\ raising' = FALSE
  /\ UNCHANGED <<now, channelVars, bucket, requeues, durable, accepted, faults>>

FaultyNext ==
  \/ Request
  \/ WorkerWrites \/ WriteFails \/ Unwinds \/ WorkerGoesOn
  \/ FaultyScan \/ FaultyArrive
  \/ \E next \in Configs : CrashRollsBack(next)

FaultySpec == FaultyInit /\ [][FaultyNext]_faultyVars

-----------------------------------------------------------------------------
(* Properties.                                                             *)

\* "Atomically remember a scanned object and queue its job": the file never holds a key
\* as seen without its job, whoever's commit happens to carry which part of the writes
\* that failed commits left behind.
DurableIsWhole == \A k \in durable.objects : KeyId[k] \in DOMAIN durable.jobs

\* After the exception the other threads go on with rows that are not in the file.  What
\* a thread holds is still what the connection sees, and the rows still agree.
ThreadsShareOneView == HandsAreFresh /\ RowsAgree

\* A channel that the file records for an answer has accepted one; and a job is closed in
\* the file only after every channel was told something - although the commits of the
\* marks, the transcript and the closing status may all have failed and been made up for
\* by another thread's commit.
DurablyClosedIsTold ==
  \A j \in DOMAIN durable.jobs :
    /\ \A c \in durable.jobs[j].delivered : got[j][c] # <<>>
    /\ durable.jobs[j].status \in {"done", "failed"}
         => \A c \in cfg.enabled : Told(j, c, Answer(durable.jobs[j]))

\* "Stored before delivery so a restart never re-transcribes": a transcript that reached
\* the file is never replaced, and the file never goes back from done.
DurableResultIsKept ==
  [][\A j \in DOMAIN durable.jobs : durable.jobs[j].text # NoText =>
       /\ durable'.jobs[j].text = durable.jobs[j].text
       /\ durable.jobs[j].status = "done" => durable'.jobs[j].status = "done"]_faultyVars

\* Whatever a locked database makes the threads repeat, each failed write is paid for once:
\* one more message to a channel or one more attempt of a job, no endless resending.
EachFaultCostsOnce ==
  /\ \A j \in Ids : \A c \in Channels : Len(got[j][c]) <= 1 + lost + crashes + faults
  /\ \A j \in DOMAIN jobs : jobs[j].attempts <= MaxRetries + crashes + faults

\* "200: job stored durably": a job a client was told is accepted survives a crash.
AcceptedIsDurable == accepted \subseteq DOMAIN durable.jobs
=============================================================================
