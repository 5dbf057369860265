-------------------------- MODULE FaultyStoreProofs --------------------------
(***************************************************************************)
(* Proofs about FaultyStore, for every number of failed writes and         *)
(* commits, whoever's commit makes up for them.                            *)
(*                                                                         *)
(* A step of FaultyStore is one of four: the process goes on as in         *)
(* AiService and commits what it wrote or does not; the worker's cycle is  *)
(* torn off; an insert of the scanner fails, before or after its first     *)
(* write; a crash leaves only what the file holds.                         *)
(***************************************************************************)
EXTENDS FaultyStore, RowProofs, PromiseProofs

GoesOn ==
  /\ Running \/ UNCHANGED vars
  /\ UNCHANGED crashes
  /\ \/ Commits
     \/ UNCHANGED <<durable, faults>>
     \/ CommitFails
  /\ \/ UNCHANGED raising
     \/ ~raising /\ raising' = TRUE /\ faults' = faults + 1
  /\ accepted' \subseteq accepted \cup Ids

IsTornOff == WriteFails \/ Unwinds

InsertFails ==
  /\ \E k \in Keys : InsertKeyFails(k)
  /\ UNCHANGED <<workerVars, crashes, requeues, raising, accepted>>

RollsBack == \E next \in Configs : CrashRollsBack(next)

LEMMA FaultySteps ==
  ASSUME [FaultyNext]_faultyVars
  PROVE  GoesOn \/ IsTornOff \/ InsertFails \/ RollsBack
<1>1. CASE Request
  BY <1>1 DEF Request, PostAccepted, PostUnanswered, PostAcknowledged, Write, GoesOn, Running, Post, PostNew, PostFailed, PostKnown
<1>2. CASE WorkerWrites
  <2>1. Work /\ UNCHANGED <<crashes, accepted>>
    BY <1>2 DEF WorkerWrites, StoreCalls, NothingElse, Work, WorkerNext
  <2> QED
    BY <1>2, <2>1 DEF WorkerWrites, GoesOn, Running, CommitFails, Fault
<1>3. CASE WorkerGoesOn
  <2>1. Work /\ UNCHANGED <<crashes, accepted>>
    BY <1>3 DEF WorkerGoesOn, OtherCalls, NothingElse, Work, WorkerNext
  <2> QED
    BY <1>3, <2>1 DEF WorkerGoesOn, GoesOn, Running
<1>4. CASE FaultyScan
  <2>1. CASE ScannerReads
    <3>1. Scan
      BY <1>4, <2>1 DEF FaultyScan, ScannerReads, Scan, ScannerNext
    <3> QED
      BY <1>4, <2>1, <3>1 DEF FaultyScan, ScannerReads, GoesOn, Running
  <2>2. ASSUME NEW k \in Keys, InsertKeyCommits(k)
        PROVE  GoesOn
    <3>1. Scan
      BY <1>4, <2>2 DEF FaultyScan, InsertKeyCommits, Scan, ScannerNext
    <3> QED
      BY <1>4, <2>2, <3>1 DEF FaultyScan, InsertKeyCommits, GoesOn, Running
  <2>3. CASE \E k \in Keys : InsertKeyFails(k)
    BY <1>4, <2>3 DEF FaultyScan, InsertFails
  <2> QED
    BY <1>4, <2>1, <2>2, <2>3 DEF FaultyScan
<1>5. CASE FaultyArrive \/ UNCHANGED faultyVars
  BY <1>5 DEF FaultyArrive, faultyVars, faultVars, GoesOn, Running, Arrive, vars
<1> QED
  BY <1>1, <1>2, <1>3, <1>4, <1>5 DEF FaultyNext, IsTornOff, RollsBack

LEMMA GoingOnIsAStep ==
  ASSUME GoesOn
  PROVE  [Next]_vars
BY DEF GoesOn, Running, Next

\* the worker's exception touches no row and no message, and the thread lets go of its job
LEMMA TearingOff ==
  ASSUME IsTornOff
  PROVE  /\ UNCHANGED <<jobs, objects, now, cfg, got, lost, scannerVars, durable, crashes,
                        requeues, accepted>>
         /\ pc' \in {"cycle", "dead"} /\ DOMAIN batch' = {} /\ hand' = Idle /\ todo' = {}
         /\ UNCHANGED <<worked, refused>>
         /\ step' = step \/ step' = step + 1
BY DEF IsTornOff, WriteFails, Unwinds, NothingElse, CycleRaises, Forget, Empty, storeVars,
       channelVars

\* an insert that fails leaves the thread alone, and at most a queued job in the table
LEMMA FailedInsert ==
  ASSUME InsertFails
  PROVE  /\ UNCHANGED <<workerVars, now, bucket, durable>>
         /\ ScanEnds
         /\ objects' = objects \/ \E k \in Keys : objects' = objects \cup {k}
         /\ \/ UNCHANGED jobs
            \/ \E k \in Keys : KeyId[k] \notin DOMAIN jobs /\ Insert(KeyId[k], Queued(KeyUrl[k], stamp))
BY DEF InsertFails, InsertKeyFails, CommitFails, EnqueueDiscovered

-----------------------------------------------------------------------------
(* The file is whole.                                                      *)

LEMMA VisibleStaysWhole ==
  ASSUME SeenObjectsHaveJobs, DurableIsWhole, [FaultyNext]_faultyVars
  PROVE  SeenObjectsHaveJobs'
<1>1. CASE GoesOn
  BY <1>1, GoingOnIsAStep, JobsStayAndKeysFollow
<1>2. CASE IsTornOff
  BY <1>2, TearingOff DEF SeenObjectsHaveJobs
<1>3. CASE InsertFails
  BY <1>3 DEF InsertFails, InsertKeyFails, EnqueueDiscovered, Insert, SeenObjectsHaveJobs
<1>4. CASE RollsBack
  BY <1>4 DEF RollsBack, CrashRollsBack, DurableIsWhole, SeenObjectsHaveJobs
<1> QED
  BY <1>1, <1>2, <1>3, <1>4, FaultySteps

\* Only a commit writes the file, and it writes what the connection sees.
LEMMA FileIsWritten ==
  ASSUME [FaultyNext]_faultyVars
  PROVE  \/ UNCHANGED durable
         \/ GoesOn /\ durable' = [jobs |-> jobs', objects |-> objects']
<1>1. CASE GoesOn
  BY <1>1 DEF GoesOn, Commits, CommitFails
<1>2. CASE IsTornOff \/ InsertFails \/ RollsBack
  BY <1>2, TearingOff DEF InsertFails, InsertKeyFails, CommitFails, RollsBack, CrashRollsBack
<1> QED
  BY <1>1, <1>2, FaultySteps

\* The file never holds a key as seen without its job, whatever part of the writes of
\* failed commits another thread's commit carries into it, and neither does what the
\* threads see after a crash has rolled the rest back.
THEOREM FileIsWhole == FaultySpec => []DurableIsWhole /\ []SeenObjectsHaveJobs
<1>1. FaultyInit => DurableIsWhole /\ SeenObjectsHaveJobs
  BY DEF FaultyInit, Init, Tables, DurableIsWhole, SeenObjectsHaveJobs
<1>2. DurableIsWhole /\ SeenObjectsHaveJobs /\ [FaultyNext]_faultyVars
        => (DurableIsWhole /\ SeenObjectsHaveJobs)'
  <2> SUFFICES ASSUME DurableIsWhole, SeenObjectsHaveJobs, [FaultyNext]_faultyVars
               PROVE  (DurableIsWhole /\ SeenObjectsHaveJobs)'
    OBVIOUS
  <2>1. SeenObjectsHaveJobs'
    BY VisibleStaysWhole
  <2>2. DurableIsWhole'
    BY <2>1, FileIsWritten DEF SeenObjectsHaveJobs, DurableIsWhole
  <2> QED
    BY <2>1, <2>2
<1> QED
  BY <1>1, <1>2, PTL DEF FaultySpec

-----------------------------------------------------------------------------
(* Types.                                                                  *)

LEMMA TypesSurviveInsert ==
  ASSUME FaultyTypeOK, InsertFails
  PROVE  TypeOK'
<1> USE DEF FaultyTypeOK, TypeOK
<1>1. StoreTypeOK'
  <2>1. \A k \in Keys : KeyId[k] \in Ids /\ Queued(KeyUrl[k], stamp) \in Row
    BY KeysAssumption, QueuedIsRow DEF ScannerTypeOK
  <2>2. TableOK(jobs')
    BY <2>1, FailedInsert, InsertOK DEF TableOK, StoreTypeOK
  <2> QED
    BY <2>2, FailedInsert DEF TableOK, StoreTypeOK
<1>2. WorkerTypeOK'
  BY FailedInsert DEF workerVars, threadVars, channelVars, WorkerTypeOK
<1>3. ScannerTypeOK'
  BY FailedInsert DEF ScanEnds, ScannerTypeOK
<1> QED
  BY <1>1, <1>2, <1>3 DEF InsertFails

LEMMA TypesSurviveTearing ==
  ASSUME FaultyTypeOK, IsTornOff
  PROVE  TypeOK'
<1> USE DEF FaultyTypeOK, TypeOK
<1>1. StoreTypeOK' /\ ScannerTypeOK'
  BY TearingOff DEF StoreTypeOK, ScannerTypeOK, scannerVars, scanVars
<1>2. WorkerTypeOK'
  <2>1. step' \in Nat
    BY TearingOff DEF WorkerTypeOK
  <2>2. batch' = Empty
    BY DEF IsTornOff, WriteFails, Unwinds, CycleRaises, Forget
  <2> QED
    BY <2>1, <2>2, TearingOff DEF WorkerTypeOK, Pcs, Holding, Empty
<1> QED
  BY <1>1, <1>2, TearingOff

LEMMA TypesSurviveRollback ==
  ASSUME FaultyTypeOK, RollsBack
  PROVE  TypeOK'
<1> USE DEF FaultyTypeOK, TypeOK
<1>0. PICK next \in Configs : CrashRollsBack(next)
  BY DEF RollsBack
<1> USE <1>0 DEF CrashRollsBack
<1>1. StoreTypeOK'
  BY DEF StoreTypeOK
<1>2. WorkerTypeOK'
  BY ServiceAssumption DEF WorkerTypeOK, WorkerRestarts, channelVars, Pcs, Holding, Empty
<1>3. ScannerTypeOK'
  BY DEF ScannerTypeOK, ScanEnds
<1>4. crashes' \in 0 .. MaxCrashes
  BY ServiceAssumption
<1> QED
  BY <1>1, <1>2, <1>3, <1>4

LEMMA FaultyStepKeepsTypes ==
  ASSUME FaultyTypeOK, [FaultyNext]_faultyVars
  PROVE  FaultyTypeOK'
<1>1. TypeOK'
  <2>1. CASE GoesOn
    BY <2>1, GoingOnIsAStep, NextKeepsTypes DEF FaultyTypeOK
  <2> QED
    BY <2>1, FaultySteps, TypesSurviveInsert, TypesSurviveTearing, TypesSurviveRollback
<1>2. /\ DOMAIN durable'.jobs \subseteq Ids
      /\ durable'.jobs \in [DOMAIN durable'.jobs -> Row]
      /\ durable'.objects \subseteq Keys
  BY <1>1, FileIsWritten DEF FaultyTypeOK, TypeOK, StoreTypeOK
<1>3. Fault => faults' \in 0 .. MaxFaults
  BY FaultsAssumption DEF Fault, FaultyTypeOK
<1>4. raising' \in BOOLEAN /\ accepted' \subseteq Ids /\ faults' \in 0 .. MaxFaults
  <2>1. CASE GoesOn
    BY <1>3, <2>1 DEF GoesOn, Commits, CommitFails, FaultyTypeOK
  <2>2. CASE IsTornOff
    BY <1>3, <2>2 DEF IsTornOff, WriteFails, Unwinds, NothingElse, FaultyTypeOK
  <2>3. CASE InsertFails
    BY <1>3, <2>3 DEF InsertFails, InsertKeyFails, CommitFails, FaultyTypeOK
  <2>4. CASE RollsBack
    BY <2>4 DEF RollsBack, CrashRollsBack, FaultyTypeOK
  <2> QED
    BY <2>1, <2>2, <2>3, <2>4, FaultySteps
<1> QED
  BY <1>1, <1>2, <1>4 DEF FaultyTypeOK

LEMMA FaultyInitTypes ==
  ASSUME FaultyInit
  PROVE  FaultyTypeOK
<1>1. TypeOK
  BY InitTypes DEF FaultyInit
<1>2. durable.jobs = jobs /\ durable.objects = objects
  BY DEF FaultyInit, Tables
<1>3. faults \in 0 .. MaxFaults
  BY FaultsAssumption DEF FaultyInit
<1> QED
  BY <1>1, <1>2, <1>3 DEF FaultyInit, FaultyTypeOK, TypeOK, StoreTypeOK

\* Every variable keeps its type over a database that may be locked at any write, the rows
\* the file holds and the rows a crash brings back included.
THEOREM FaultyTypesAreCorrect == FaultySpec => []FaultyTypeOK
<1>1. FaultyInit => FaultyTypeOK
  BY FaultyInitTypes
<1>2. FaultyTypeOK /\ [FaultyNext]_faultyVars => FaultyTypeOK'
  BY FaultyStepKeepsTypes
<1> QED
  BY <1>1, <1>2, PTL DEF FaultySpec

-----------------------------------------------------------------------------
(* One view.  The rows of the connection agree although they may not be in *)
(* the file, and what a crash would bring back is an earlier state of      *)
(* them: no transcript of it has been replaced, no job of it reopened.     *)

RowAgrees(row) ==
  /\ row.text # NoText => row.status \in {"delivering", "done"}
  /\ row.status = "done" => row.text # NoText

Behind(old, new) ==
  old.text # NoText =>
    /\ new.text = old.text
    /\ old.status = "done" => new.status = "done"

FileIsBehind ==
  \A j \in DOMAIN durable.jobs :
    /\ RowAgrees(durable.jobs[j])
    /\ j \in DOMAIN jobs /\ Behind(durable.jobs[j], jobs[j])

ViewInv == FaultyTypeOK /\ RowsAgree /\ ThreadInv /\ FileIsBehind

LEMMA InsertMovesRows ==
  ASSUME InsertFails
  PROVE  RowsMove
BY FailedInsert, NoRowMoves, OneRowAppears

LEMMA InsertKeepsView ==
  ASSUME TypeOK, RowsAgree, ThreadInv, InsertFails
  PROVE  TablesKept /\ ThreadInv'
<1>1. UNCHANGED <<got, cfg, pc, batch, hand, todo>>
  BY FailedInsert DEF workerVars, threadVars, channelVars
<1>2. CASE UNCHANGED jobs
  BY <1>1, <1>2, QuietSteps
<1>3. ASSUME NEW k \in Keys, KeyId[k] \notin DOMAIN jobs,
             Insert(KeyId[k], Queued(KeyUrl[k], stamp))
      PROVE  TablesKept /\ ThreadInv'
  <2>1. KeyId[k] \in Ids /\ KeyUrl[k] \in Urls /\ stamp \in Nat
    BY KeysAssumption DEF TypeOK, ScannerTypeOK
  <2> QED
    BY <1>1, <1>3, <2>1, NewJob
<1> QED
  BY <1>2, <1>3, FailedInsert

LEMMA ViewStays ==
  ASSUME ViewInv, [FaultyNext]_faultyVars
  PROVE  RowsAgree' /\ ThreadInv'
<1> USE DEF ViewInv, FaultyTypeOK
<1>1. CASE GoesOn
  BY <1>1, GoingOnIsAStep, NextKeepsView DEF TablesKept
<1>2. CASE IsTornOff
  <2>1. RowsAgree'
    BY <1>2, TearingOff, SameTables DEF TablesKept
  <2>2. ThreadInv'
    BY <1>2, TearingOff, LettingGo
  <2> QED
    BY <2>1, <2>2
<1>3. CASE InsertFails
  BY <1>3, InsertKeepsView DEF TablesKept
<1>4. CASE RollsBack
  <2>1. jobs' = durable.jobs /\ pc' = "cycle" /\ DOMAIN batch' = {}
    BY <1>4 DEF RollsBack, CrashRollsBack, WorkerRestarts, Empty
  <2>2. RowsAgree'
    BY <2>1 DEF FileIsBehind, RowAgrees, RowsAgree
  <2>3. ThreadInv'
    BY <2>1, LettingGo
  <2> QED
    BY <2>2, <2>3
<1> QED
  BY <1>1, <1>2, <1>3, <1>4, FaultySteps

\* while the process lives, its view only goes forward
LEMMA ViewGoesForward ==
  ASSUME ViewInv, [FaultyNext]_faultyVars, ~RollsBack
  PROVE  \A j \in DOMAIN jobs : j \in DOMAIN jobs' /\ Behind(jobs[j], jobs'[j])
<1> USE DEF ViewInv, FaultyTypeOK
<1>1. CASE GoesOn
  <2>1. [Next]_vars
    BY <1>1, GoingOnIsAStep
  <2> QED
    BY <2>1, ResultsStay, StepMovesRows DEF RowsMove, Behind
<1>2. CASE IsTornOff
  BY <1>2, TearingOff DEF Behind
<1>3. CASE InsertFails
  BY <1>3, FailedInsert DEF Insert, Behind
<1> QED
  BY <1>1, <1>2, <1>3, FaultySteps

LEMMA FileStaysBehind ==
  ASSUME ViewInv, RowsAgree', [FaultyNext]_faultyVars
  PROVE  FileIsBehind'
<1>1. CASE GoesOn /\ durable' = [jobs |-> jobs', objects |-> objects']
  BY <1>1 DEF FileIsBehind, RowsAgree, RowAgrees, Behind
<1>2. CASE UNCHANGED durable
  <2>1. CASE RollsBack
    BY <2>1, <1>2 DEF RollsBack, CrashRollsBack, FileIsBehind, Behind, ViewInv
  <2>2. CASE ~RollsBack
    <3> SUFFICES ASSUME NEW j \in DOMAIN durable.jobs
                 PROVE  j \in DOMAIN jobs' /\ Behind(durable.jobs[j], jobs'[j])
      BY <1>2 DEF ViewInv, FileIsBehind
    <3>1. /\ RowAgrees(durable.jobs[j])
          /\ j \in DOMAIN jobs /\ Behind(durable.jobs[j], jobs[j])
      BY DEF ViewInv, FileIsBehind
    <3>2. j \in DOMAIN jobs' /\ Behind(jobs[j], jobs'[j])
      BY <2>2, <3>1, ViewGoesForward
    <3> QED
      BY <3>1, <3>2 DEF Behind
  <2> QED
    BY <2>1, <2>2
<1> QED
  BY <1>1, <1>2, FileIsWritten

LEMMA FaultyInitView ==
  ASSUME FaultyInit
  PROVE  ViewInv
<1>1. RowsAgree /\ ThreadInv
  BY InitInv DEF FaultyInit, JobsInv
<1>2. durable.jobs = jobs
  BY DEF FaultyInit, Tables
<1> QED
  BY <1>1, <1>2, FaultyInitTypes DEF ViewInv, FileIsBehind, RowsAgree, RowAgrees, Behind

FaultyStep == ViewInv /\ [FaultyNext]_faultyVars /\ ViewInv'

LEMMA AlwaysFaultyStep == FaultySpec => []ViewInv /\ [][FaultyStep]_faultyVars
<1>1. FaultyInit => ViewInv
  BY FaultyInitView
<1>2. ViewInv /\ [FaultyNext]_faultyVars => ViewInv'
  BY ViewStays, FileStaysBehind, FaultyStepKeepsTypes DEF ViewInv
<1>3. ViewInv /\ [FaultyNext]_faultyVars /\ ViewInv' => [FaultyStep]_faultyVars
  BY DEF FaultyStep
<1> QED
  BY <1>1, <1>2, <1>3, PTL DEF FaultySpec

\* What a thread holds is what the connection sees and the rows agree, although commits
\* failed and a crash may have taken back what the threads had already acted on.
THEOREM ThreadsSeeOneTable == FaultySpec => []ThreadsShareOneView
<1>1. ViewInv => ThreadsShareOneView
  BY DEF ViewInv, ThreadInv, ThreadsShareOneView
<1> QED
  BY <1>1, AlwaysFaultyStep, PTL

\* A transcript that reached the file is never replaced there, and the file never takes a
\* job back from done - whoever commits, and whatever a crash brought back in between.
THEOREM DurableResultsAreKept == FaultySpec => DurableResultIsKept
<1>1. FaultyStep
        => \A j \in DOMAIN durable.jobs : durable.jobs[j].text # NoText =>
             /\ durable'.jobs[j].text = durable.jobs[j].text
             /\ durable.jobs[j].status = "done" => durable'.jobs[j].status = "done"
  <2> SUFFICES ASSUME FaultyStep, NEW j \in DOMAIN durable.jobs, durable.jobs[j].text # NoText
               PROVE  /\ durable'.jobs[j].text = durable.jobs[j].text
                      /\ durable.jobs[j].status = "done" => durable'.jobs[j].status = "done"
    OBVIOUS
  <2>1. CASE GoesOn /\ durable' = [jobs |-> jobs', objects |-> objects']
    <3>1. j \in DOMAIN jobs /\ Behind(durable.jobs[j], jobs[j]) /\ RowAgrees(durable.jobs[j])
      BY DEF FaultyStep, ViewInv, FileIsBehind
    <3>2. jobs[j].text # NoText /\ jobs[j].text = durable.jobs[j].text
      BY <3>1 DEF Behind
    <3>3. /\ jobs'[j].text = jobs[j].text
          /\ jobs[j].status = "done" => jobs'[j].status = "done"
      BY <2>1, <3>1, <3>2, GoingOnIsAStep, ResultsStay DEF FaultyStep, ViewInv, FaultyTypeOK
    <3> QED
      BY <2>1, <3>1, <3>2, <3>3 DEF Behind
  <2> QED
    BY <2>1, FileIsWritten DEF FaultyStep
<1>2. [FaultyStep]_faultyVars
        => [\A j \in DOMAIN durable.jobs : durable.jobs[j].text # NoText =>
              /\ durable'.jobs[j].text = durable.jobs[j].text
              /\ durable.jobs[j].status = "done" => durable'.jobs[j].status = "done"]_faultyVars
  BY <1>1
<1> QED
  BY <1>2, AlwaysFaultyStep, PTL DEF DurableResultIsKept

-----------------------------------------------------------------------------
(* What a locked database may cost.  Restarts and failed writes each tear  *)
(* the thread off once; a failed commit has torn it off only when its      *)
(* exception has left run_once.                                            *)

Spent == crashes + (IF raising THEN faults - 1 ELSE faults)

CountsInv == ViewInv /\ (raising => faults >= 1)

LEMMA SpentIsANumber ==
  ASSUME CountsInv
  PROVE  /\ crashes \in Nat /\ faults \in Nat /\ raising \in BOOLEAN
         /\ Spent \in Nat /\ Spent <= crashes + faults
<1>1. crashes \in Nat /\ faults \in Nat /\ raising \in BOOLEAN
  BY ServiceAssumption, FaultsAssumption DEF CountsInv, ViewInv, FaultyTypeOK, TypeOK
<1> QED
  BY <1>1 DEF CountsInv, Spent

LEMMA SpendingGrows ==
  ASSUME CountsInv, [FaultyNext]_faultyVars, ViewInv'
  PROVE  /\ CountsInv'
         /\ Spent' \in Nat /\ Spent' >= Spent
         /\ IsTornOff \/ RollsBack => Spent' >= Spent + 1
<1>1. crashes \in Nat /\ faults \in Nat /\ raising \in BOOLEAN /\ Spent \in Nat
  BY SpentIsANumber
<1>2. CASE GoesOn
  <2>1. /\ UNCHANGED crashes
        /\ faults' = faults \/ faults' = faults + 1
        /\ UNCHANGED raising \/ (~raising /\ raising' /\ faults' = faults + 1)
    BY <1>2 DEF GoesOn, Commits, CommitFails, Fault
  <2>2. /\ Spent' \in Nat /\ Spent' >= Spent
        /\ raising' => faults' >= 1
    BY <1>1, <2>1 DEF CountsInv, Spent
  <2>3. IsTornOff => Spent' >= Spent + 1
    BY <1>1 DEF IsTornOff, WriteFails, Unwinds, Fault, NothingElse, Spent
  <2>4. ~RollsBack
    BY <1>1, <2>1 DEF RollsBack, CrashRollsBack
  <2> QED
    BY <2>2, <2>3, <2>4 DEF CountsInv
<1>3. CASE WriteFails \/ Unwinds
  <2>1. Spent' = Spent + 1 /\ ~raising'
    BY <1>1, <1>3 DEF WriteFails, Unwinds, Fault, NothingElse, Spent
  <2> QED
    BY <1>1, <2>1 DEF CountsInv
<1>4. CASE InsertFails
  <2>1. /\ Spent' = Spent + 1 /\ crashes' = crashes
        /\ raising' => faults' >= 1
    BY <1>1, <1>4 DEF InsertFails, InsertKeyFails, CommitFails, Fault, Spent
  <2>2. ~RollsBack
    BY <1>1, <2>1 DEF RollsBack, CrashRollsBack
  <2> QED
    BY <1>1, <2>1, <2>2 DEF CountsInv
<1>5. CASE RollsBack
  <2>1. crashes' = crashes + 1 /\ faults' = faults /\ ~raising'
    BY <1>5 DEF RollsBack, CrashRollsBack
  <2>2. Spent' \in Nat /\ Spent' >= Spent + 1
    BY <1>1, <2>1 DEF CountsInv, Spent
  <2> QED
    BY <1>1, <2>1, <2>2 DEF CountsInv
<1> QED
  BY <1>2, <1>3, <1>4, <1>5, FaultySteps DEF IsTornOff

FileCovered(n) == \A j \in DOMAIN durable.jobs : Covered(durable.jobs[j], n)

Bill(n) == Paid(n) /\ Frugal(n) /\ FileCovered(n)

LEMMA MoreIsEnough ==
  ASSUME FaultyTypeOK, NEW n \in Nat, NEW m \in Nat, n <= m, Bill(n)
  PROVE  Bill(m)
<1> USE DEF Bill, FaultyTypeOK
<1>1. \A a \in Nat : (a <= MaxRetries + n => a <= MaxRetries + m)
                     /\ (a < MaxRetries + n => a < MaxRetries + m)
  BY CountsAreNumbers
<1>2. Paid(m)
  BY <1>1, CountsAreNumbers DEF Paid, RowPaid, Covered
<1>3. FileCovered(m)
  BY <1>1 DEF FileCovered, Covered, Row
<1>4. \A l \in Nat : (l <= lost + n => l <= lost + m) /\ (l <= 1 + lost + n => l <= 1 + lost + m)
  BY LengthsAreNumbers
<1>5. Frugal(m)
  BY <1>4, LengthsAreNumbers DEF Frugal, Economical
<1> QED
  BY <1>2, <1>3, <1>5

LEMMA BillAfterGoingOn ==
  ASSUME CountsInv, NEW n \in Nat, Bill(n),
         GoesOn \/ InsertFails, [FaultyNext]_faultyVars
  PROVE  Bill(n)'
<1> USE DEF Bill, CountsInv, ViewInv, FaultyTypeOK
<1>1. CASE GoesOn
  <2>1. Paid(n)' /\ Frugal(n)'
    BY <1>1, StepIsPaid, StepIsFrugal DEF GoesOn
  <2>2. FileCovered(n)'
    BY <1>1, <2>1, FileIsWritten DEF FileCovered, Covered, OutOfTries, Paid, RowPaid
  <2> QED
    BY <2>1, <2>2
<1>2. CASE InsertFails
  <2>1. UNCHANGED <<pc, hand, todo, got, lost, durable>>
    BY <1>2, FailedInsert DEF workerVars, threadVars, channelVars
  <2>2. Paid(n)' /\ Frugal(n)'
    BY <1>2, <2>1, FailedInsert, TablePaid, QuietIsFrugal, InsertIsPaid, InsertIsFrugal
  <2> QED
    BY <2>1, <2>2 DEF FileCovered, Covered, OutOfTries
<1> QED
  BY <1>1, <1>2

LEMMA BillAfterTearing ==
  ASSUME CountsInv, NEW n \in Nat, Bill(n), IsTornOff \/ RollsBack, ViewInv'
  PROVE  Bill(n + 1)'
<1> USE DEF Bill, CountsInv, ViewInv, FaultyTypeOK
<1>1. UNCHANGED <<got, lost, durable>> /\ pc' \in {"cycle", "dead"}
  BY TearingOff DEF RollsBack, CrashRollsBack, WorkerRestarts, channelVars
<1>2. \A j \in DOMAIN jobs' : Covered(jobs'[j], n)
  BY TearingOff DEF RollsBack, CrashRollsBack, Paid, RowPaid, FileCovered
<1>3. Paid(n + 1)' /\ Frugal(n + 1)'
  BY <1>1, <1>2, TornIsPaid, TornIsFrugal
<1>4. FileCovered(n + 1)'
  <2>1. \A a \in Nat : a <= MaxRetries + n => a <= MaxRetries + (n + 1)
    BY CountsAreNumbers
  <2> QED
    BY <1>1, <2>1 DEF FileCovered, Covered, OutOfTries, Row
<1> QED
  BY <1>3, <1>4

BillIsPaid == \E n \in Nat : n = Spent /\ Bill(n)

LEMMA StepPaysTheBill ==
  ASSUME CountsInv, BillIsPaid, FaultyStep
  PROVE  CountsInv' /\ BillIsPaid'
<1>1. PICK n \in Nat : n = Spent /\ Bill(n)
  BY DEF BillIsPaid
<1>2. CountsInv'
  BY SpendingGrows DEF FaultyStep
<1>3. PICK m \in Nat : m = Spent'
  BY SpendingGrows DEF FaultyStep
<1>4. CASE GoesOn \/ InsertFails
  <2>1. n <= m
    BY <1>1, <1>3, SpendingGrows DEF FaultyStep
  <2>2. Bill(m)
    BY <1>1, <2>1, MoreIsEnough DEF CountsInv, ViewInv
  <2>3. Bill(m)'
    BY <1>4, <2>2, BillAfterGoingOn DEF FaultyStep
  <2> QED
    BY <1>2, <1>3, <2>3 DEF BillIsPaid
<1>5. CASE IsTornOff \/ RollsBack
  <2>1. n + 1 <= m
    BY <1>1, <1>3, <1>5, SpendingGrows DEF FaultyStep
  <2>2. PICK p \in Nat : p = m - 1 /\ n <= p /\ p + 1 = m
    BY <2>1
  <2>3. Bill(p)
    BY <1>1, <2>2, MoreIsEnough DEF CountsInv, ViewInv
  <2>4. Bill(p + 1)'
    BY <1>5, <2>3, BillAfterTearing DEF FaultyStep
  <2> QED
    BY <1>2, <1>3, <2>2, <2>4 DEF BillIsPaid
<1> QED
  BY <1>4, <1>5, FaultySteps DEF FaultyStep

\* Whatever a locked database makes the threads repeat is paid for once by each restart
\* and each failed write: one more message to a channel, one more attempt of a job.
THEOREM FaultsCostOnce == FaultySpec => []EachFaultCostsOnce
<1>1. FaultyInit => CountsInv /\ BillIsPaid
  <2> SUFFICES ASSUME FaultyInit
               PROVE  CountsInv /\ BillIsPaid
    OBVIOUS
  <2>1. ViewInv /\ raising = FALSE /\ faults = 0 /\ crashes = 0 /\ durable.jobs = jobs
    BY FaultyInitView DEF FaultyInit, Init, Tables
  <2>2. Paid(0) /\ Frugal(0)
    BY NothingIsOwed, NothingIsSent DEF FaultyInit
  <2>3. FileCovered(0)
    BY <2>1, <2>2 DEF FileCovered, Paid, RowPaid
  <2>4. Spent = 0
    BY <2>1 DEF Spent
  <2> QED
    BY <2>1, <2>2, <2>3, <2>4 DEF CountsInv, BillIsPaid, Bill
<1>2. CountsInv /\ BillIsPaid /\ [FaultyStep]_faultyVars => (CountsInv /\ BillIsPaid)'
  <2>1. ASSUME CountsInv, BillIsPaid, UNCHANGED faultyVars
        PROVE  (CountsInv /\ BillIsPaid)'
    <3>1. FaultyStep
      <4>1. ViewInv'
        BY <2>1, ViewStays, FileStaysBehind, FaultyStepKeepsTypes DEF CountsInv, ViewInv
      <4> QED
        BY <2>1, <4>1 DEF FaultyStep, CountsInv
    <3> QED
      BY <2>1, <3>1, StepPaysTheBill
  <2> QED
    BY <2>1, StepPaysTheBill
<1>3. CountsInv /\ BillIsPaid => EachFaultCostsOnce
  <2> SUFFICES ASSUME CountsInv, BillIsPaid
               PROVE  EachFaultCostsOnce
    OBVIOUS
  <2>1. PICK n \in Nat : n = Spent /\ Bill(n)
    BY DEF BillIsPaid
  <2>2. n <= crashes + faults /\ crashes \in Nat /\ faults \in Nat
    BY <2>1, SpentIsANumber
  <2>3. TypeOK
    BY DEF CountsInv, ViewInv, FaultyTypeOK
  <2>4. \A j \in Ids, c \in Channels : Len(got[j][c]) <= 1 + lost + crashes + faults
    <3>1. \A l \in Nat : l <= 1 + lost + n => l <= 1 + lost + crashes + faults
      BY <2>2, <2>3, CountsAreNumbers
    <3> QED
      BY <2>1, <2>3, <3>1, LengthsAreNumbers DEF Bill, Frugal, Economical
  <2>5. \A j \in DOMAIN jobs : jobs[j].attempts <= MaxRetries + crashes + faults
    <3>1. \A a \in Nat : a <= MaxRetries + n => a <= MaxRetries + crashes + faults
      BY <2>2, <2>3, CountsAreNumbers
    <3> QED
      BY <2>1, <2>3, <3>1, CountsAreNumbers DEF Bill, Paid, RowPaid, Covered
  <2> QED
    BY <2>4, <2>5 DEF EachFaultCostsOnce
<1> QED
  BY <1>1, <1>2, <1>3, AlwaysFaultyStep, PTL DEF FaultySpec

-----------------------------------------------------------------------------
(* What the file calls done was told.  A new request for a failed job, or  *)
(* another set of channels after a restart, makes the file say less than   *)
(* the connection for a while; without them every row, in the file and in  *)
(* the connection, is true of what the channels accepted.                  *)

NothingIsAskedTwice == MaxRequeues = 0
ChannelsAreFixed == \A c, d \in Configs : c.enabled = d.enabled

SoundRow(j, row) ==
  /\ row.status \in Underway => row.delivered = {}
  /\ \A c \in row.delivered : Told(j, c, Answer(row))
  /\ row.status \in {"done", "failed"} => \A c \in cfg.enabled : Told(j, c, Answer(row))

SoundTable(t) == \A j \in DOMAIN t : SoundRow(j, t[j])

SoundInv == cfg \in Configs /\ SoundTable(jobs) /\ SoundTable(durable.jobs)

\* a table that does not change says as little about the channels as before
LEMMA SoundTableStays ==
  ASSUME \A j \in Ids : MessagesStay(j), cfg'.enabled = cfg.enabled, cfg \in Config,
         NEW t, DOMAIN t \subseteq Ids, t \in [DOMAIN t -> Row], SoundTable(t)
  PROVE  SoundTable(t)'
<1> SUFFICES ASSUME NEW j \in DOMAIN t
             PROVE  SoundRow(j, t[j])'
  BY DEF SoundTable
<1>1. j \in Ids /\ t[j].delivered \subseteq Channels /\ cfg.enabled \subseteq Channels
  BY DEF Row, Config
<1>2. PICK b : b = Answer(t[j])
  OBVIOUS
<1>3. \A c \in Channels : Told(j, c, b) => Told(j, c, b)'
  BY <1>1 DEF MessagesStay, Told
<1>4. SoundRow(j, t[j])
  BY DEF SoundTable
<1>5. \A c \in Channels : Told(j, c, Answer(t[j])) => Told(j, c, Answer(t[j]))'
  BY <1>2, <1>3 DEF Answer
<1> QED
  BY <1>1, <1>4, <1>5 DEF SoundRow

LEMMA ChannelsStay ==
  ASSUME ChannelsAreFixed, cfg \in Configs, [FaultyNext]_faultyVars
  PROVE  cfg' \in Configs /\ cfg'.enabled = cfg.enabled
<1>1. UNCHANGED cfg \/ cfg' \in Configs
  BY FaultySteps, GoingOnIsAStep, ConfigurationStays, TearingOff, FailedInsert
     DEF workerVars, RollsBack, CrashRollsBack
<1> QED
  BY <1>1 DEF ChannelsAreFixed

LEMMA MessagesAreKept ==
  ASSUME ViewInv, NothingIsAskedTwice, [FaultyNext]_faultyVars, ViewInv'
  PROVE  \A j \in Ids : MessagesStay(j)
<1>1. CASE GoesOn
  <2>1. UNCHANGED requeues
    BY DEF ViewInv, FaultyTypeOK, TypeOK, NothingIsAskedTwice
  <2> QED
    BY <1>1, <2>1, GoingOnIsAStep, AcceptedMessagesStay DEF ViewInv, FaultyTypeOK
<1>2. CASE IsTornOff \/ InsertFails \/ RollsBack
  <2>1. UNCHANGED got
    BY <1>2, TearingOff, FailedInsert DEF workerVars, channelVars, RollsBack, CrashRollsBack
  <2> QED
    BY <2>1 DEF MessagesStay
<1> QED
  BY <1>1, <1>2, FaultySteps

LEMMA SoundAfterGoingOn ==
  ASSUME ViewInv, SoundInv, NothingIsAskedTwice, GoesOn, ViewInv', cfg'.enabled = cfg.enabled,
         \A j \in Ids : MessagesStay(j)
  PROVE  SoundTable(jobs)'
<1> USE DEF ViewInv, FaultyTypeOK
<1>1. MarksAreTrue
  BY DEF SoundInv, SoundTable, SoundRow, MarksAreTrue
<1>2. [Next]_vars
  BY GoingOnIsAStep
<1>3. MarksAreTrue'
  BY <1>1, <1>2, NextKeepsView DEF TablesKept
<1>4. SettlesWhenTold
  BY <1>1, <1>2, StepSettlesWhenTold
<1>5. requeues \in 0 .. 0 /\ requeues' \in 0 .. 0
  BY DEF NothingIsAskedTwice, TypeOK
<1>6. RowsMove
  BY <1>2, StepMovesRows
<1>7. ASSUME NEW j \in DOMAIN jobs', j \notin DOMAIN jobs
      PROVE  SoundRow(j, jobs[j])'
  BY <1>6, <1>7 DEF RowsMove, SoundRow
<1>8. ASSUME NEW j \in DOMAIN jobs', j \in DOMAIN jobs
      PROVE  SoundRow(j, jobs[j])'
  <2>1. /\ RowMoves(jobs[j], jobs'[j])
        /\ ~(jobs[j].status = "failed" /\ jobs'[j].status = "queued")
    BY <1>5, <1>6, <1>8 DEF RowsMove, RowMoves, Underway
  <2>2. SoundRow(j, jobs[j]) /\ jobs'[j].status \in Status
    BY <1>8 DEF SoundInv, SoundTable, TypeOK, StoreTypeOK, Row
  <2>3. jobs'[j].status \in Underway => jobs'[j].delivered = {}
    BY <2>1, <2>2 DEF RowMoves, SameMarks, SoundRow, Underway
  <2>4. \A c \in jobs'[j].delivered : Told(j, c, Answer(jobs[j]))'
    BY <1>3, <2>2, <2>3 DEF MarksAreTrue, Underway, Status
  <2>5. ASSUME jobs'[j].status \in {"done", "failed"}, NEW c \in cfg.enabled
        PROVE  Told(j, c, Answer(jobs[j]))'
    <3>1. jobs'[j].text = jobs[j].text /\ jobs[j].status \in {"delivering", "done", "failed"}
      BY <2>1, <2>5 DEF RowMoves, Same, Underway
    <3>2. Told(j, c, Answer(jobs[j]))
      BY <1>4, <1>8, <2>1, <2>2, <2>5, <3>1 DEF SoundRow, SettlesWhenTold, RowMoves, Underway
    <3>3. PICK b : b = Answer(jobs[j])
      OBVIOUS
    <3>4. j \in Ids /\ c \in Channels
      BY <1>8 DEF TypeOK, StoreTypeOK, WorkerTypeOK, Config
    <3>5. Told(j, c, b)'
      BY <3>2, <3>3, <3>4 DEF MessagesStay, Told
    <3> QED
      BY <3>1, <3>3, <3>5 DEF Answer
  <2> QED
    BY <2>3, <2>4, <2>5 DEF SoundRow
<1> QED
  BY <1>7, <1>8 DEF SoundTable

LEMMA SoundStays ==
  ASSUME ViewInv, SoundInv, NothingIsAskedTwice, ChannelsAreFixed,
         [FaultyNext]_faultyVars, ViewInv'
  PROVE  SoundInv'
<1>1. cfg' \in Configs /\ cfg'.enabled = cfg.enabled /\ cfg \in Config
  BY ChannelsStay DEF SoundInv, ViewInv, FaultyTypeOK, TypeOK, WorkerTypeOK
<1>2. PICK t : t = jobs
  OBVIOUS
<1>3. PICK d : d = durable.jobs
  OBVIOUS
<1>4. /\ DOMAIN t \subseteq Ids /\ t \in [DOMAIN t -> Row] /\ SoundTable(t)
      /\ DOMAIN d \subseteq Ids /\ d \in [DOMAIN d -> Row] /\ SoundTable(d)
  BY <1>2, <1>3 DEF SoundInv, ViewInv, FaultyTypeOK, TypeOK, StoreTypeOK
<1>5. \A j \in Ids : MessagesStay(j)
  BY MessagesAreKept
<1>6. SoundTable(t)' /\ SoundTable(d)'
  BY <1>1, <1>4, <1>5, SoundTableStays
<1>7. SoundTable(jobs)'
  <2>1. CASE GoesOn
    BY <1>1, <1>5, <2>1, SoundAfterGoingOn
  <2>2. CASE IsTornOff
    BY <1>2, <1>6, <2>2, TearingOff
  <2>3. CASE InsertFails
    <3> SUFFICES ASSUME NEW j \in DOMAIN jobs'
                 PROVE  SoundRow(j, jobs[j])'
      BY DEF SoundTable
    <3>1. CASE j \in DOMAIN jobs
      <4>1. jobs'[j] = t[j] /\ j \in DOMAIN t
        BY <1>2, <2>3, <3>1, FailedInsert DEF Insert
      <4> QED
        BY <1>6, <4>1 DEF SoundTable
    <3>2. CASE j \notin DOMAIN jobs
      BY <2>3, <3>2, InsertMovesRows DEF RowsMove, SoundRow
    <3> QED
      BY <3>1, <3>2
  <2>4. CASE RollsBack
    BY <1>3, <1>6, <2>4 DEF RollsBack, CrashRollsBack
  <2> QED
    BY <2>1, <2>2, <2>3, <2>4, FaultySteps
<1>8. SoundTable(durable.jobs)'
  BY <1>3, <1>6, <1>7, FileIsWritten
<1> QED
  BY <1>1, <1>7, <1>8 DEF SoundInv

\* A channel the file records has accepted a message, and a job the file calls done or
\* failed was told to every channel - although the commits of the marks, of the transcript
\* and of the status may all have failed and been made up for by another thread's.  The
\* property speaks of the messages of the job's present life and of the channels enabled
\* now: it is stated for jobs asked for once and for restarts that keep the channels.
THEOREM ClosedInTheFileWasTold ==
  ASSUME NothingIsAskedTwice, ChannelsAreFixed
  PROVE  FaultySpec => []DurablyClosedIsTold
<1>1. FaultyInit => SoundInv
  <2> SUFFICES ASSUME FaultyInit
               PROVE  SoundInv
    OBVIOUS
  <2>1. PICK old \in SUBSET Legacy :
          \E u \in [old -> Unparsable] : jobs = [j \in old |-> Queued(u[j], 0)]
    BY DEF FaultyInit, Init
  <2>2. SoundTable(jobs)
    BY <2>1 DEF SoundTable, SoundRow, Queued
  <2> QED
    BY <2>2 DEF SoundInv, FaultyInit, Init, Tables
<1>2. SoundInv /\ [FaultyStep]_faultyVars => SoundInv'
  <2>1. SoundInv /\ FaultyStep => SoundInv'
    BY SoundStays DEF FaultyStep
  <2>2. SoundInv /\ UNCHANGED faultyVars => SoundInv'
    BY DEF faultyVars, faultVars, vars, storeVars, workerVars, channelVars, SoundInv, SoundTable,
           SoundRow, Told
  <2> QED
    BY <2>1, <2>2
<1>3. SoundInv => DurablyClosedIsTold
  BY DEF SoundInv, SoundTable, SoundRow, Told, DurablyClosedIsTold
<1>4. FaultySpec => FaultyInit
  BY DEF FaultySpec
<1> QED
  BY <1>1, <1>2, <1>3, <1>4, AlwaysFaultyStep, PTL

-----------------------------------------------------------------------------
(* The promise.  Only a crash can take back what a channel was told: while *)
(* the process lives, failed writes and commits are hidden from a client.  *)

LEMMA LockedStepKeepsMessages ==
  ASSUME ViewInv, JobsInv, [FaultyNext]_faultyVars, ~RollsBack
  PROVE  JobsInv'
<1> USE DEF ViewInv, FaultyTypeOK
<1>1. TablesKept
  <2>1. CASE GoesOn
    BY <2>1, GoingOnIsAStep, NextKeepsView
  <2>2. CASE IsTornOff
    BY <2>2, TearingOff, SameTables
  <2>3. CASE InsertFails
    BY <2>3, InsertKeepsView
  <2> QED
    BY <2>1, <2>2, <2>3, FaultySteps
<1> QED
  BY <1>1 DEF JobsInv, TablesKept

LEMMA LockedStepKeepsThePromise ==
  ASSUME ViewInv, JobsInv, [FaultyNext]_faultyVars, ~RollsBack
  PROVE  PromiseStep
<1> USE DEF ViewInv, FaultyTypeOK
<1>1. CASE GoesOn
  BY <1>1, GoingOnIsAStep, StepKeepsThePromise
<1>2. CASE IsTornOff
  BY <1>2, TearingOff, Unseen DEF PromiseStep
<1>3. CASE InsertFails
  <2>1. UNCHANGED got
    BY <1>3, FailedInsert DEF workerVars, channelVars
  <2>2. CASE UNCHANGED jobs
    BY <2>1, <2>2, Unseen DEF PromiseStep
  <2>3. ASSUME NEW k \in Keys, KeyId[k] \notin DOMAIN jobs,
               Insert(KeyId[k], Queued(KeyUrl[k], stamp))
        PROVE  PromiseStep
    <3>1. KeyId[k] \in Ids \ DOMAIN jobs
      BY <2>3, KeysAssumption
    <3> QED
      BY <2>1, <2>3, <3>1, NewJobIsSubmitted DEF PromiseStep, Promise!QueueNext
  <2> QED
    BY <1>3, <2>2, <2>3, FailedInsert
<1> QED
  BY <1>1, <1>2, <1>3, FaultySteps

\* A database that is locked again and again breaks no promise: as long as the process
\* lives, a job gets one answer, every channel hears that one, and the job is closed when
\* all have heard it, however many writes and commits failed in between.  (A crash may
\* take back a transcript that a channel was told and no commit had reached.)
THEOREM LocksKeepThePromise == FaultySpec => ([](crashes = 0) => KeepsThePromise)
<1>1. FaultyInit => ViewInv /\ JobsInv /\ Promise!QueueInit
  BY FaultyInitView, InitInv, InitKeepsThePromise DEF FaultyInit
<1>2. ViewInv /\ crashes' = 0 /\ [FaultyNext]_faultyVars => ~RollsBack
  BY DEF RollsBack, CrashRollsBack, ViewInv, FaultyTypeOK, TypeOK
<1>3. ViewInv /\ JobsInv /\ crashes' = 0 /\ [FaultyNext]_faultyVars => JobsInv'
  BY <1>2, LockedStepKeepsMessages
<1>4. ViewInv /\ JobsInv /\ crashes' = 0 /\ [FaultyNext]_faultyVars
        => [Promise!QueueNext]_(Promise!queueVars)
  BY <1>2, LockedStepKeepsThePromise DEF PromiseStep
<1> DEFINE Alive == crashes = 0
<1>5. Alive' <=> crashes' = 0
  OBVIOUS
<1> HIDE DEF Alive
<1>6. FaultySpec => ([]Alive => KeepsThePromise)
  BY <1>1, <1>3, <1>4, <1>5, AlwaysFaultyStep, PTL
     DEF FaultySpec, KeepsThePromise, Promise!QueueSpec
<1> QED
  BY <1>6 DEF Alive
=============================================================================
