----------------------------- MODULE AiService ------------------------------
(***************************************************************************)
(* One ai-service process and what surrounds it: the HTTP handler of       *)
(* POST /requestTranscription, the worker thread and the scanner thread    *)
(* share one JobStore; the process may crash between any two steps and is  *)
(* started again by the container runtime, possibly with another           *)
(* configuration.  There is never more than one process (replicas: 1,      *)
(* strategy Recreate).                                                     *)
(***************************************************************************)
EXTENDS Worker, Scanner

CONSTANTS
  Legacy,       \* jobs an older database may hold, with URLs that are now rejected
  Configs,      \* the configurations an operator may start the service with
  MaxCrashes,   \* bound: how often the process is restarted
  MaxRequeues   \* bound: how often failed jobs are posted again

ASSUME ServiceAssumption ==
  /\ Legacy \subseteq Ids
  /\ Configs \subseteq Config
  /\ MaxCrashes \in Nat /\ MaxRequeues \in Nat

VARIABLES
  crashes,    \* how often the process has been restarted
  requeues    \* how often a failed job has been queued again

vars == <<storeVars, workerVars, scannerVars, crashes, requeues>>

Init ==
  /\ \E old \in SUBSET Legacy : \E u \in [old -> Unparsable] :
       jobs = [j \in old |-> Queued(u[j], 0)]
  /\ objects = {}
  /\ now = 1
  /\ cfg \in Configs
  /\ WorkerInit
  /\ ScannerInit
  /\ crashes = 0
  /\ requeues = 0

-----------------------------------------------------------------------------
(* POST /requestTranscription: a URL that does not parse is answered 400,  *)
(* any other request ends in JobStore.enqueue.                             *)

PostNew(j, u) ==
  /\ u \notin Unparsable
  /\ EnqueueNew(j, u)
  /\ UNCHANGED <<workerVars, scannerVars, crashes, requeues>>

\* a new life of the job: what the channels accepted before belongs to the last one
PostFailed(j, u) ==
  /\ u \notin Unparsable
  /\ requeues < MaxRequeues
  /\ Requeue(j, u)
  /\ got' = [got EXCEPT ![j] = [c \in Channels |-> <<>>]]
  /\ requeues' = requeues + 1
  /\ UNCHANGED <<cfg, threadVars, lost, scannerVars, crashes>>

PostKnown(j, u) ==
  /\ u \notin Unparsable
  /\ EnqueueKnown(j)
  /\ UNCHANGED <<workerVars, scannerVars, crashes, requeues>>

Post == \E j \in Ids, u \in Urls : PostNew(j, u) \/ PostFailed(j, u) \/ PostKnown(j, u)

-----------------------------------------------------------------------------
\* both threads lose everything but the database; `next` is what load_config returns
Restart(next) ==
  /\ crashes < MaxCrashes
  /\ crashes' = crashes + 1
  /\ cfg' = next
  /\ WorkerRestarts
  /\ ScanEnds
  /\ UNCHANGED <<storeVars, channelVars, bucket, requeues>>

Work == WorkerNext /\ UNCHANGED <<scannerVars, crashes, requeues>>

Scan == ScannerNext /\ UNCHANGED <<workerVars, crashes, requeues>>

Arrive == (\E k \in Keys : Upload(k)) /\ UNCHANGED <<workerVars, crashes, requeues>>

Next == Post \/ Work \/ Scan \/ Arrive \/ \E next \in Configs : Restart(next)

Spec == Init /\ [][Next]_vars

(* Fairness.  Both threads run whenever they can (daemon threads of one process, blocked *)
(* only by finite timeouts and sleeps).  The other services are not ours: that a service *)
(* which is asked again and again answers in the end is an assumption on the environment,*)
(* stated per job, per channel and per listed key.                                       *)
Threads == WF_vars(Work) /\ WF_vars(Scan)

ServicesAnswer ==
  \A j \in Ids : SF_vars(pc = "work" /\ hand.id = j /\ Work /\ jobs' # jobs)

ChannelsAnswer(channels) ==
  \A j \in Ids, c \in channels :
    SF_vars(Sending /\ hand.id = j /\ Channel = c /\ Work /\ pc' = "mark")

ListingsAnswer ==
  \A k \in Keys : SF_vars(spc = "list" /\ IsNextKey(k) /\ Scan /\ spc' # "wait")

FairSpec == Spec /\ Threads /\ ServicesAnswer /\ ChannelsAnswer(Channels) /\ ListingsAnswer

\* BPM may stay down for ever; everything else answers in the end
FairSpecWithoutBpm == Spec /\ Threads /\ ServicesAnswer /\ ChannelsAnswer({"email"}) /\ ListingsAnswer

-----------------------------------------------------------------------------
(* Type correctness and safety.                                            *)

TypeOK ==
  /\ StoreTypeOK /\ WorkerTypeOK /\ ScannerTypeOK
  /\ crashes \in 0 .. MaxCrashes
  /\ requeues \in 0 .. MaxRequeues

Answer(row) == IF row.text = NoText THEN Failure ELSE row.text

Told(j, c, body) == \E i \in DOMAIN got[j][c] : got[j][c][i].body = body

\* A job leaves `delivering` for `done` or `failed` only after every channel the
\* service is configured with has accepted this very answer - the stored transcript, or
\* the failure notice - since the job was last queued.  (_deliver reads the accepted
\* channels from a snapshot taken before the other jobs of the batch were delivered, and
\* delivered_to outlives restarts, re-queueing and changes of the configuration.)
SettledOnlyWhenTold ==
  [][\A j \in DOMAIN jobs :
       jobs[j].status = "delivering" /\ jobs'[j].status \in {"done", "failed"}
         => \A c \in cfg.enabled : Told(j, c, Answer(jobs[j]))]_vars

\* Whatever the channels accept in one life of a job, over all retries and restarts, says
\* the same: never a failure and a result, never two different transcripts.
OneAnswer ==
  \A j \in Ids : \A c, d \in Channels :
    \A i \in DOMAIN got[j][c], k \in DOMAIN got[j][d] : got[j][c][i].body = got[j][d][k].body

\* A transcript that was sent is of the recording the job's last accepted request names,
\* although the worker transcribes the URL it read before and a request may replace it.
AnswersTheRequest ==
  \A j \in Ids : \A c \in Channels : \A i \in DOMAIN got[j][c] :
    got[j][c][i].body = Failure \/ got[j][c][i].body.url = jobs[j].url

\* "One that already accepted is not resent": a channel accepts the answer again only
\* when an acknowledgement was lost or the process went down before it was recorded.
NoNeedlessResend ==
  \A j \in Ids : \A c \in Channels : Len(got[j][c]) <= 1 + lost + crashes

\* A failure is only notified after MAX_RETRIES permanent errors of this life of the job
\* (or for a URL that cannot be parsed at all), and no more than one further attempt per
\* restart is ever spent.
RetriesAreSpent ==
  \A j \in DOMAIN jobs :
    /\ jobs[j].status \in {"delivering", "failed"} /\ jobs[j].text = NoText
         => jobs[j].attempts >= MaxRetries \/ jobs[j].url \in Unparsable
    /\ jobs[j].attempts <= MaxRetries + crashes

\* "Stored before delivery so a restart never re-transcribes": once a transcript is
\* stored neither it nor the job's progress towards `done` is ever undone.
ResultIsKept ==
  [][\A j \in DOMAIN jobs : jobs[j].text # NoText =>
       /\ jobs'[j].text = jobs[j].text
       /\ jobs'[j].status \in {"delivering", "done"}
       /\ jobs[j].status = "done" => jobs'[j].status = "done"]_vars

\* What the worker holds in its hands or still has to deliver is what the table says now:
\* a Job record read before a send, a sleep or another job's delivery is never stale,
\* whatever requests and scans did meanwhile (only the channels marked since are newer).
Fresh(j, row) ==
  /\ j \in DOMAIN jobs
  /\ jobs[j].url = row.url /\ jobs[j].text = row.text /\ jobs[j].error = row.error
  /\ row.delivered \subseteq jobs[j].delivered

HandsAreFresh ==
  /\ \A j \in DOMAIN batch : j \in DOMAIN jobs /\ jobs[j] = batch[j]
  /\ pc \in {"send", "mark", "close"} =>
       /\ Fresh(hand.id, hand.row)
       /\ jobs[hand.id].status = "delivering"
       /\ cfg.enabled \ todo \subseteq jobs[hand.id].delivered
  /\ pc \in {"start", "work"} =>
       /\ Fresh(hand.id, hand.row)
       /\ jobs[hand.id].status \in {"queued", "processing"}

\* A channel recorded in delivered_to has accepted the current answer.
MarksAreTrue ==
  \A j \in DOMAIN jobs : jobs[j].status \in {"delivering", "done", "failed"} =>
    \A c \in jobs[j].delivered : Told(j, c, Answer(jobs[j]))

\* An object counts as seen only once its job exists: no crash can lose a recording.
SeenObjectsHaveJobs == \A k \in objects : KeyId[k] \in DOMAIN jobs

\* "A failed job is not re-queued by the next scan": only a new request revives one.
OnlyRequestsRevive ==
  [][\A j \in DOMAIN jobs :
       jobs[j].status = "failed" /\ jobs'[j].status # "failed" => requeues' = requeues + 1]_vars

\* "Recorded at delivery: who it actually went to": emailed_to names a mailbox the
\* channel really accepted the result for.
RecordedRecipientsAreReal ==
  \A j \in DOMAIN jobs : jobs[j].status = "done" /\ jobs[j].emailed \in Mailboxes =>
    \E i \in DOMAIN got[j]["email"] : got[j]["email"][i].to = jobs[j].emailed

-----------------------------------------------------------------------------
(* The inductive invariant behind the properties above.                    *)

\* full_text is NULL exactly as long as no result is decided
RowsAgree ==
  \A j \in DOMAIN jobs :
    /\ jobs[j].text # NoText => jobs[j].status \in {"delivering", "done"}
    /\ jobs[j].status = "done" => jobs[j].text # NoText

\* where the thread stands says what it holds and in which status those jobs are
ThreadAgrees ==
  /\ pc \notin {"deliver", "send", "mark", "close"} => DOMAIN batch = {}
  /\ \A j \in DOMAIN batch : jobs[j].status = "delivering"
  /\ pc \in {"send", "mark", "close"} => hand.id \notin DOMAIN batch
  /\ pc = "mark" => todo # {}
  /\ pc = "close" => todo = {} /\ hand.row.text # NoText
  /\ pc \in {"start", "work", "again", "giveup"} => hand.id \in DOMAIN jobs
  /\ pc \in {"work", "again", "giveup"} => jobs[hand.id].status = "processing"

\* nothing has been sent but the answer the table holds
MessagesAreAnswers ==
  \A j \in Ids : \A c \in Channels : \A i \in DOMAIN got[j][c] :
    /\ j \in DOMAIN jobs
    /\ jobs[j].status \in {"delivering", "done", "failed"}
    /\ got[j][c][i].body = Answer(jobs[j])

SendPrecedesMark == pc = "mark" => Told(hand.id, Channel, Answer(hand.row))

ServiceInv ==
  RowsAgree /\ ThreadAgrees /\ HandsAreFresh /\ MessagesAreAnswers /\ MarksAreTrue
            /\ SendPrecedesMark

-----------------------------------------------------------------------------
(* Liveness.                                                               *)

Settled(j) == j \in DOMAIN jobs /\ jobs[j].status \in {"done", "failed"}
Unsettled(j) == j \in DOMAIN jobs /\ jobs[j].status \notin {"done", "failed"}

\* "It will eventually be processed and delivered (or marked failed)", restarts included,
\* when the services it depends on answer in the end.
AcceptedIsSettled == \A j \in Ids : Unsettled(j) ~> Settled(j)

\* "Each channel is retried independently until it accepts": an answer waiting for
\* delivery reaches the mailbox even if BPM never comes back.
EmailGoesOut ==
  \A j \in Ids : Unsettled(j) /\ jobs[j].status = "delivering" /\ "email" \in cfg.enabled
                   ~> got[j]["email"] # <<>>

\* Every recording put into the bucket gets its job, across failed listings and restarts.
RecordingsAreQueued == \A k \in Keys \ Skipped : k \in bucket ~> KeyId[k] \in DOMAIN jobs

-----------------------------------------------------------------------------
(* The service implements the promise of JobQueue: what a job's row and the messages     *)
(* the channels accepted amount to is what a client can know of the job.                 *)

Phase(j) ==
  IF j \notin DOMAIN jobs THEN "absent"
  ELSE CASE jobs[j].status \in {"queued", "processing"} -> "accepted"
         [] jobs[j].status = "delivering" -> "answered"
         [] OTHER -> jobs[j].status

PhaseBar == [j \in Ids |-> Phase(j)]
AnswerBar ==
  [j \in Ids |-> IF Phase(j) \in {"absent", "accepted"} THEN NoText ELSE Answer(jobs[j])]
HeardBar ==
  [j \in Ids |-> [c \in Channels |->
     IF got[j][c] = <<>> THEN NoText ELSE got[j][c][Len(got[j][c])].body]]

Promise == INSTANCE JobQueue
             WITH Jobs <- Ids, Results <- Texts, NoAnswer <- NoText, Listeners <- Channels,
                  phase <- PhaseBar, answer <- AnswerBar, heard <- HeardBar

\* Every behaviour of the service is one the promise allows.
KeepsThePromise == Promise!QueueSpec
=============================================================================
