# A formal model of ai-stt

ai-stt turns recorded phone calls into transcripts with a summary. Two programs do it:

* **ai-service** accepts requests (`POST /requestTranscription`, or objects found in a
  bucket), keeps them in a SQLite queue, downloads each recording, has it transcribed and
  summarized, and delivers the answer to BPM and by e-mail;
* **whisper-api** serves the speech-to-text model that ai-service calls.

This directory models both in TLA+. TLC checks the models on small instances; TLAPS proves
every safety property that TLC checks on a correct run, for instances of any size. All paths
below are relative to the repository.

## 1. The system

| component | state | operations | talks to |
|---|---|---|---|
| job store, `ai_service/db.py` | tables `jobs` and `s3_objects` | `enqueue`, `enqueue_discovered`, `next_pending`, `list_delivering`, `set_status`, `set_result`, `set_failed_result`, `mark_delivered_to`, `increment_attempts`, `set_routing`, reports | called by the three threads of ai-service under one lock |
| worker, `ai_service/worker.py` | the position in its cycle, the snapshot of delivering jobs, the job in hand, the backoff step | `run_forever`, `run_once`, `_process`, `_deliver` | store, S3, whisper-api, LLM, BPM, SMTP |
| bucket scanner, `ai_service/scanner.py` | the keys known when the scan began, the listing | `scan_once`, `run_forever` | store, S3 |
| request API, `ai_service/app.py` | none | `POST /requestTranscription`; reports | store |
| delivery channels, `ai_service/callback.py`, `mailer.py` | none (what was accepted is theirs) | `deliver` | BPM, SMTP |
| e-mail routing, `ai_service/routing.py`, `mailer.py` | the routing table, read at startup | `parse_routing`, `match_client`, `route_message` | called by the e-mail channel and the worker |
| pipeline calls, `s3io.py`, `transcribe.py`, `summarize.py` | none | `parse_call_record_url`, `audio_suffix`, `download`, `transcribe_file`, `summarize` | S3, whisper-api, LLM |
| model download, `whisper_api/download.py` | the model cache, the attempt, the deadline | `ensure_model` | the model hub |
| transcription server, `whisper_api/app.py`, `engine.py` | the loaded engine or the load error, the engine's lock | `/health`, `/v1/audio/transcriptions` | clients |
| local stack, `docker-compose.yml` | container health | health check, `depends_on`, `restart` | the container runtime |
| configuration, metrics, prompts, formats, images, Helm chart | | | not modelled, see section 7 |

**What is hard about it.** Three threads of ai-service share one table and keep copies of
rows while others write. The process can die between any two commits and comes back, possibly
with another configuration, while BPM and the mail server remember what they accepted. An
acknowledgement can get lost. A failed job can be posted again and then lives a second life
with the leftovers of the first in its row. Everything is retried for ever, so one job's
trouble must not become every job's. The database file itself can be locked by another process,
while the threads go on over a connection nobody rolls back. In whisper-api the model is fetched under one deadline
by threads that cannot be cancelled, requests arrive meanwhile, and transcriptions and health
probes share a pool of threads. `PROJECT.json` lists these hazards line by line with the
properties that watch over them.

## 2. The modules

```
JobStore ──► Worker ──┐
        └──► Scanner ─┴─► AiService ──► MCAiService                  (TLC)
                              │  ├────► FaultyStore ──► MCFaultyStore
                              │  └────► Pipeline ─────► MCPipeline
                              │ RecordUrl ─┘
                              └─ implements ─► JobQueue
ModelDownload ──► WhisperApi
             └──► LocalStack
EmailRouting ──► MCEmailRouting

AiService ──► AiServiceProofs ─┬─► PromiseProofs ─┬─► PipelineProofs    (TLAPS)
                               └─► RowProofs ─────┤
RecordUrl ──► RecordUrlProofs ────────────────────┘
FaultyStore, RowProofs, PromiseProofs ──► FaultyStoreProofs
WhisperApi ──► DownloadProofs
EmailRouting ──► EmailRoutingProofs
```

### JobStore
`jobs` is a function from the ids present to rows, `objects` the set of scanned keys, `now`
the clock. Every method of the class holds the lock until its commit, so every method is one
operator and one atomic step. `full_text` and `summary` are always written together and are
one value: the recording it was made from and what was heard. `error` is reduced to whether
it is set, the routing columns to `emailed_to`.

### Worker
`pc` names the call the thread makes next: `cycle` (list_delivering), `deliver` (the loop of
`run_once`), `send`, `mark`, `close` (inside `_deliver`), `pick` (next_pending), `start`,
`work`, `again`, `giveup` (inside `_process`), and `dead` when an exception has left
`run_forever`. `batch` is the snapshot of `list_delivering`, `hand` the frozen `Job` record
that is being handled, `todo` the channels `_deliver` still has to visit. `got`, outside the
process, records per job and channel what was accepted since the job was last queued. A call
to another service has all the outcomes the code distinguishes: for a channel accepted,
accepted with the answer lost, refused (`InfrastructureError`), or an exception that
`run_once` does not catch (`Unsendable`); for the pipeline a transcript, an infrastructure
error, a permanent error, or always an unexpected exception (`Unprocessable`). Waiting
(backoff, poll interval) is a step that takes no part in the state, except that `step` counts
the backoff, because its arithmetic can fail.

### Scanner
One action per call: read the known keys and list, skip a key, call `enqueue_discovered`
(which reads the clock before it waits for the lock), the insertion, the end or the failure of
the listing.

### AiService
Composes the request handler, `Worker` and `Scanner` over one `JobStore`, and adds the crash
and restart of the process (`Restart`: both threads start over, the tables stay, the
configuration may differ). `Init` is the first start, over an empty database or one that
already holds queued jobs whose URL the present code no longer accepts (`worker.py:92`
handles those).

### RecordUrl, Pipeline
`RecordUrl` is `object_url`, `parse_call_record_url` and `audio_suffix` over texts of any
length, in which only the characters the code tells apart are distinguished: the slash, what
ends a path (`#`, `?`), the extension, any other; in a URL each may be quoted. `Pipeline` takes
the processing of a job apart: `call` is the next call of `_process` (`name`, `download`,
`transcribe`, `summarize`, `store`), `kind` what each object of the bucket is, `heard` the
transcription between whisper-api's answer and `set_result`. Which outcome a call has is no
longer free: it follows from the HTTP status and body the service answers (`S3Outcome`,
`HttpOutcome`). A service may answer that it is down or busy (`Unwell`), refuse for a reason of
its own, such as a revoked key (`Refusals`), or serve, unless the recording the URL names is
what it rejects. `causes` counts the answers held against each job since it was last queued; it
is a history variable that no action reads. Held against a job are what its recording is rejected
for, every refusal, and a busy storage, but not a busy whisper-api or LLM: `s3io.py:57` makes a
permanent error of every client error, 429 included, where `transcribe.py:43` treats 429 as an
outage. The assumptions tie
the constants of `AiService` to the texts: `Unparsable` is what the parser rejects,
`Unprocessable` what `audio_suffix` raises on. Every other thread runs as in `AiService`.

### FaultyStore
The same service over a database file that another process may hold locked. `jobs` and
`objects` are what the connection shared by all threads sees, `durable` what the file holds.
Each write of each thread either commits (with whatever earlier callers left pending), fails at
its COMMIT and leaves its rows in the open transaction, or fails at its first statement and
leaves nothing; a statement cannot fail inside an open transaction, which has the lock already.
`raising` is the exception on its way to `run_forever` (`Unwinds`). A crash brings back what
the file holds. `accepted` are the ids for which a client has a 200.

### JobQueue
What a client may rely on, without saying how: a job is accepted, answered once, every
channel that hears of it hears that answer, and it is closed only when a non-empty set of
channels has heard it; only a failed job can be submitted again. `AiService` defines the
refinement mapping (`PhaseBar`, `AnswerBar`, `HeardBar`), and `KeepsThePromise` states that
every behaviour of the service is one of `JobQueue`.

### ModelDownload, WhisperApi, LocalStack
`ModelDownload` is the loader: `ensure_model` with its download thread, timed joins, delays,
attempts and deadline, then `Engine(...)`, or the exit of the process. Time is a clock in
ticks that cannot pass the moment a join or a sleep ends before the loader has returned from
it. Pieces fetched stay in the cache over restarts. `WhisperApi` adds the requests, an unbounded
number of them over a bounded number of connections: checked on the event loop, read, handed
to a thread of the pool, waiting for the engine's lock; what is answered at once leaves no
trace and is no step.
`LocalStack` adds compose's health check and the start of ai-service behind it.

### EmailRouting
A routing table is the sequence of entries `parse_routing` visits, a domain the sequence of
its labels, a label the sequence of words `_normalize` makes of it (`Normalized`: a hyphen
splits it), a company the sequence of its normalized words. The state machine is the reading
of the table; the matching is operators over the accepted table, which the invariants compare
with what the documentation says of them over all calls of the instance. The loop with `best`,
`best_len` and a strict comparison is the first of the routes with the longest match
(`BestOf`); `order` is the order in which the routes stand, `InFile` in the model, any other in
the property about it.

## 3. What the runs check

| run | instance | shows |
|---|---|---|
| AiServiceOneJob | 1 id, possibly from an older database with a URL that no longer parses; 3 URLs, 2 different transcripts, 3 configurations, 2 crashes, 2 lost answers, 2 re-queues, MAX_RETRIES 2 | type invariant, `OneAnswer`, `AnswersTheRequest`, `NoNeedlessResend`, `RecordedRecipientsAreReal` (with one table), `RetriesAreSpent`, `HandsAreFresh`, `MarksAreTrue`, `SettledOnlyWhenTold`, `ResultIsKept`, `KeepsThePromise` |
| AiServiceTwoJobs | 2 ids, one of them scanned, posted or both; e-mail; 1 crash, failing listings; fair | the inductive invariant `ServiceInv`, `KeepsThePromise` with jobs that overtake each other, and in the end `AcceptedIsSettled` and `RecordingsAreQueued` |
| Pipeline | 2 objects of all 4 kinds each, 4 URLs in 3 spellings, 1 job, MAX_RETRIES 2, 1 crash, 1 re-queue | `FetchesWhatWasListed`, `AnswersFitTheRecording`, `FailuresHaveCauses`, `OnlyRequestsRevive`, `SeenObjectsHaveJobs`, `ImplementsTheService` |
| FaultyStore | 2 ids, one of them scanned and raising in its delivery, both channels, 2 faults, 1 crash | `DurableIsWhole`, `ThreadsShareOneView`, `DurablyClosedIsTold`, `EachFaultCostsOnce`, `DurableResultIsKept` |
| WhisperApi | 3 connections used for ever, 2 pool threads, 3 attempts, deadline 4, 3 pieces, 1 kill | `OneAtATime`, `ReadyIsTrue`, `DeadlineHolds`, `GivesUpOnlyWhenSpent`, `RequestsEnd`, `ModelIsLoaded` |
| EmailRouting | every table of at most 4 entries over 2 domains, one below the other, 3 names, two of them as long as each other, 2 teams; calls that show any of 3 domains and 4 names | `OrderDecidesOnlyTies`, `MostSpecificWins`, `KnownClientsAreRouted` |

Six runs are expected to fail; each refutes a sentence of the repository by what the code
does.

* **FindLongOutage.** `Backoff.next` (`worker.py:23`) multiplies before it applies the cap.
  After 1024 failing cycles in a row `5.0 * 2**1024` raises `OverflowError` inside the except
  clause of `run_forever`, and the worker thread is gone while HTTP goes on. `errors.py:7`
  promises "Retried indefinitely".  The run lets it happen at step 2.
* **FindBpmHoldsEmail.** `_deliver` stops at the first channel that fails, and BPM comes
  first: as long as BPM is down no e-mail is sent. `README.md:23`: "Each channel is retried
  independently until it accepts".
* **FindRecipients.** The recorded recipients are computed again when the delivery ends
  (`worker.py:174`). After a restart with another routing table they are not those the mail
  went to. `app.py:117`: "who it actually went to". With one fixed table the property holds
  (AiServiceOneJob).
* **FindHealthRoute.** `docker-compose.yml:42` probes `/healthz`; whisper-api serves
  `/health`. The container never becomes healthy and ai-service is never started.
* **FindPoisonUrl.** `parse_call_record_url` tests the suffix before it unquotes the key,
  `audio_suffix` (`worker.py:99`) afterwards. `s3://a/a%2F.mp3` is accepted with 200 and raises a
  `ValueError` that nothing below `run_forever` catches; the job stays `processing`, is the
  oldest, and is picked again for ever, so that the jobs behind it wait as well. The design
  (`docs/superpowers/specs/2026-07-06-ai-stt-bpm-integration-design.md:98`) promises that an
  accepted job "**will** eventually be processed and delivered (or marked `failed`)".
* **FindAckNotDurable.** When the COMMIT of `enqueue` fails, the request gets 500, but its row
  stays in the open transaction. The repeated request finds the row, writes nothing and gets
  200. A crash before the next successful commit loses the job. The same document, line 98:
  "job stored durably", and line 195: "The service never loses an accepted job".

**Bounds.** The crash, loss, fault and re-queue counters (`MaxCrashes`, `MaxLost`, `MaxFaults`,
`MaxRequeues`, `MaxKills`) bound actions of the environment in their guards. Two of each in the
one-job instance let the second one fall into the recovery from the first; with two jobs one
crash is enough to fall into the middle of a snapshot. One job suffices for the properties of a
row's life, two for those about order, since no step relates more than the job in hand to
another one. Two words let a second transcription differ from the first (`FaultyStore` treats
them as symmetric: no definition tells one from the other); three URLs let a re-POST replace
the recording and an old row hold a rejected one. Two faults let one thread's commit fail while
another's writes are pending, and make the transcript and its deliveries fail in turn.
`OverflowStep` stands for 1024: small where the dead thread is to be reached, `NoOverflow`
elsewhere, so that the liveness runs assume outages shorter than that. The two keys of
`Pipeline` are `a/#.mp3`, which has to be quoted and keeps a slash, and `a.mp3`, which a client
can also name by an `http` URL; names of any length are left to the proofs. Which status codes a service answers with is
enumerated by what the code tells apart, one or two of each class; an attempt has one cause, so
that `MaxRetries`, crashes and re-queues bound `causes`. The clock of
`WhisperApi` runs to the deadline: deadline 4 with progress interval 2 leaves room for a stuck
attempt, a delay and an attempt that the deadline cuts. Two-job liveness is checked for
e-mail alone, since a second channel multiplies the states of the snapshot; that one channel's
outage holds another back is the subject of FindBpmHoldsEmail. `EmailRouting` has two teams
because every rule compares entries pairwise; of three
names two tie in length, the case in which the order does decide; four entries allow a client with a name, a domain
and an alias next to a conflicting entry of another team.

Deadlock is checked in every run but FindHealthRoute and EmailRouting, where the system stops
when its work is done: the model is loaded or cannot be built, the table is read.

**Fairness.** `Threads`: the worker's and the scanner's thread keep running (daemon threads
that block only for finite timeouts and sleeps). `ServicesAnswer`, `ChannelsAnswer` and
`ListingsAnswer` are assumptions on the environment: a service asked again and again answers
in the end; strong fairness, because each failure leads away from the call and back to it. They are
what the code's "retried until" is worth: without them nothing can be promised.
`FairSpecWithoutBpm` drops BPM's. `FairPipeline` says the same call by call: a download, a
transcription or a summary asked for again and again comes to a decision, for or against the
job. Requests, uploads, faults and crashes are never forced. In `WhisperApi` the loader, the
clock and the container runtime are weakly fair, a hub asked for ever delivers in the end
(`DownloadFairness`), and the next step of the request on each connection is strongly fair:
the lock and the pool serve those who wait, and a transcription ends.

## 4. What is proved

`AiServiceProofs` proves for every value of the constants, under the assumptions named in
`JobStore`, `Worker`, `Scanner` and `AiService` (types of the constants; `NoText`, `Nobody`,
`NotRouted` and `Failure` are none of the values they stand next to; keys and ids are numbers,
for the order of rows):

| theorem | statement |
|---|---|
| `TypesAreCorrect` | `Spec => []TypeOK` |
| `InvariantHolds` | `Spec => []ServiceInv` |
| `WorkerIsNeverStale` | `Spec => []HandsAreFresh` |
| `RecordedChannelsWereTold` | `Spec => []MarksAreTrue` |
| `AnswersAgree` | `Spec => []OneAnswer` |
| `JobsSettleWhenTold` | `Spec => SettledOnlyWhenTold` |
| `NoRecordingIsLost` | `Spec => []SeenObjectsHaveJobs` |

`OneAnswer` is not inductive. That two messages agree follows from each being the answer the
table holds now (`MessagesAreAnswers`); that a send keeps this needs the record in the
worker's hand to be the row's (`HandsAreFresh`); that no one changes the row meanwhile needs
the row to be `delivering`, hence what `pc` says about the statuses of the job in hand and
those in the snapshot (`ThreadAgrees`), and that a transcript exists only in `delivering` and
`done` rows (`RowsAgree`). `MarksAreTrue` needs in addition that the message was accepted
before it is marked (`SendPrecedesMark`). Their conjunction is `ServiceInv`, inductive
together with `TypeOK`; TLC checks it in AiServiceTwoJobs. The proof takes one lemma per
group of actions: requests, scans, deliveries, the pipeline, restarts.

`SettledOnlyWhenTold` is about steps: only `SettleFailed` and `SettleDone` settle a row, after
the loop over the channels (`todo = {}`), when `HandsAreFresh` says every configured channel is
recorded and `MarksAreTrue` that each of them accepted the answer. `SeenObjectsHaveJobs` is
inductive as it stands: no step removes a job.

The lemmas about single steps ask for less than `ServiceInv`: what a step needs of the rows, the
worker's place and its records (`RowsAgree`, `ThreadInv`), and that it then keeps these, keeps
the marks true if they were, and the messages answers if they were (`TablesKept`). So they serve
`FaultyStore` as well, where a crash takes rows back that the channels have already heard of.

`PromiseProofs` and `RowProofs` build on `ServiceInv`, under the same assumptions:

| theorem | statement |
|---|---|
| `ServiceKeepsThePromise` | `Spec => KeepsThePromise` |
| `ResultsAreKept` | `Spec => ResultIsKept` |
| `OnlyRequestsReviveJobs` | `Spec => OnlyRequestsRevive` |
| `AnswersAreRequested` | `Spec => []AnswersTheRequest` |
| `RetriesAreCounted` | `Spec => []RetriesAreSpent` |
| `ResendsArePaidFor` | `Spec => []NoNeedlessResend` |
| `RecipientsAreReal` | `RecipientsAreFixed` implies `Spec => []RecordedRecipientsAreReal` |

The refinement looks at one job at a time: its *sight* is the phase, the answer and the channels
that have heard it, which `PhaseBar`, `AnswerBar` and `HeardBar` compute from row and messages.
Each action changes the sight of one job at most, and that change is a `Submit`, `Decide`, `Tell`
or `Close` of `JobQueue`, or none. `Tell` needs that the message is the row's answer
(`MessagesAreAnswers`), `Close` that every enabled channel has accepted it (`MarksAreTrue`).

`RowProofs` reduces all actions to the few ways in which a row can move (`RowMoves`): nothing
changes but attempts, marks and recipients; between `queued` and `processing`; an answer is
decided while there is none; a delivery is closed; a request revives a failure. The first two
theorems are read off these moves, the third adds the invariant that a transcript is of the row's
URL (`TextsFitRequests`).

Two theorems count. `RetriesAreSpent` holds because a job under way has a try left, or the
thread is just giving it up, and each time the thread is torn from its work may take one such
job away from it (`Paid`). `NoNeedlessResend` holds because a channel that is not recorded has
had no message that is not paid for by a lost answer or such a time, but for the one about to be
recorded, and the thread sends only where nothing is recorded (`Frugal`). Both invariants are
kept for any number `n` of such times; in `AiService` it is the number of restarts.

`RecipientsAreReal` assumes that all configurations name the same recipients
(`RecipientsAreFixed`); the run FindRecipients shows that the property fails without it. The
invariant says of every row with a transcript that the recipients recorded are the configured
ones, and that if there are any the mail server has accepted a message (`Addressed`).

`RecordUrlProofs` and `PipelineProofs` prove, under the assumptions named in `RecordUrl` and
`Pipeline` (above all `NamesAssumption`: no key of the scanned bucket begins with a slash, and
no two objects share a name):

| theorem | statement |
|---|---|
| `ScannedKeysComeBack` | `RecordingOf(ObjectUrl(b, k)) = [bucket \|-> b, key \|-> k]` |
| `ScannedKeysParse` | `Parses(ObjectUrl(b, k)) <=> IsAudio(k)` |
| `PipelineImplementsTheService` | `PipelineSpec => ImplementsTheService` |
| `PipelineKeepsThePromise` | `PipelineSpec => KeepsThePromise` |
| `ListedIsFetched` | `PipelineSpec => []FetchesWhatWasListed` |
| `FailuresAreCaused` | `PipelineSpec => []FailuresHaveCauses` |
| `AnswersFit` | `PipelineSpec => []AnswersFitTheRecording` |
| `PipelineTypesAreCorrect` | `PipelineSpec => []PipelineTypeOK` |

The first two are about texts of any length: quoting leaves no `#` that could end the path
(`PathIsWhole`), the one slash that `lstrip` takes is the URL's own (`SlashIsStripped`), and a
quoted text reads as audio exactly when the key does (`QuotedKeyIsAudio`). The refinement needs
one invariant, that a transcription is at hand between whisper-api's answer and `set_result`
(`HeardInv`); each call is then a step of `Worker` or a stutter. `ListedIsFetched` follows from
`ScannedKeysComeBack` and from the pipeline being entered with URLs that parse (`ParsedInv`).
`AnswersFit` rests on a URL naming one object at most (`OneObject`): what a service rejects or
transcribes is then *the* recording. It follows the words through the calls (`CallsFit`) into the
row (`RowsFit`), while uploads may add objects but change none. `FailuresAreCaused` says that no
attempt is counted without an answer held against the job, and that a job fails only after
`MAX_RETRIES` of these, or because its URL does not parse. It rests on the attempts of a row never
exceeding its causes (`AttemptsInv`): a call that ends in a permanent error heard an answer held
against the job (`BlameHasACause`), and no other step adds an attempt. That a failure is told
only when the attempts are spent is the first half of `RetriesAreSpent` (`RetriesAreCounted`).

`FaultyStoreProofs` proves, for every number of failing writes and commits and for every other
thread's commit that may make up for them:

| theorem | statement |
|---|---|
| `FileIsWhole` | `FaultySpec => []DurableIsWhole /\ []SeenObjectsHaveJobs` |
| `FaultyTypesAreCorrect` | `FaultySpec => []FaultyTypeOK` |
| `ThreadsSeeOneTable` | `FaultySpec => []ThreadsShareOneView` |
| `DurableResultsAreKept` | `FaultySpec => DurableResultIsKept` |
| `FaultsCostOnce` | `FaultySpec => []EachFaultCostsOnce` |
| `ClosedInTheFileWasTold` | `NothingIsAskedTwice` and `ChannelsAreFixed` imply `FaultySpec => []DurablyClosedIsTold` |
| `LocksKeepThePromise` | `FaultySpec => ([](crashes = 0) => KeepsThePromise)` |

A step of `FaultyStore` is one of four (`FaultySteps`): the process goes on as in `AiService` and
commits or does not; the worker's cycle is torn off; an insert of the scanner fails; a crash
leaves only what the file holds. The first is a step of `AiService`, so its lemmas apply; the
others touch little. In between, a row of the file is an earlier state of the row the connection
sees (`FileIsBehind`): both agree with the rules of the table, and a transcript in the file is
also in the connection. That is what a crash falls back on, and what makes `ThreadsShareOneView`
and `DurableResultIsKept` inductive (`ViewInv`). `EachFaultCostsOnce` is the counting of
`RowProofs` with the crashes and faults as its `n`, less the fault whose exception has not yet
reached `run_forever` (`Spent`), and with the file's rows covered too (`Bill`).

`DurablyClosedIsTold` holds because every row, in the file and in the connection, is true of what
was accepted (`SoundInv`). Its two assumptions are about what the property can speak of: a second
request for a failed job starts a new tally of messages while the file may still hold the failed
row, and another configuration enables other channels than those the job was closed for. The run
checks it under the same two.

`LocksKeepThePromise` says that failing writes and commits alone are invisible to a client: until
the first crash the service over a locked database still implements `JobQueue`. The lemmas of
`PromiseProofs` apply to the first kind of step, a cycle torn off is a stutter, an insert that
fails is a submission or nothing. The promise cannot be stated beyond a crash: a transcript whose
commit failed may be in a channel when the crash takes it back, and the next attempt may hear other
words. A transcript that did reach the file is never replaced (`DurableResultsAreKept`).

`DownloadProofs` proves, for every number of retries, every deadline and backoff, every number
of connections and every pool, under `DownloadAssumption` and `PoolAssumption`:

| theorem | statement |
|---|---|
| `DownloadTypeCorrect` | `DownloadSpec => []DownloadTypeOK` |
| `DownloadIsBounded` | `DownloadSpec => []DeadlineHolds` |
| `ExitsAreEarned` | `DownloadSpec => []GivesUpOnlyWhenSpent` |
| `ServingDoesNotDisturb` | `ApiSpec => DownloadSpec` |
| `ApiTypeCorrect` | `ApiSpec => []ApiTypeOK` |
| `EngineIsExclusive` | `ApiSpec => []OneAtATime` |
| `ReadyMeansLoaded` | `ApiSpec => []ReadyIsTrue` |

The deadline holds because every wait the loader begins is cut to end by then
(`WaitsEndInTime`) and time does not run past the end of a wait (`WaitsInTime`); the exit is
earned because the failures counted are those of the attempts made (`FailuresAreAttempts`).
`ReadyIsTrue` needs that a request is past the engine check also while it waits for a thread of
the pool, which its position alone does not tell from a health probe (`PastTheCheck`).

`EmailRoutingProofs` proves, under `RoutingAssumption` (a listed domain has a label, a listed name
a word and a length), for tables of any length over any number of routes, domains and names, and
for every set of domains and names a call may show:

| theorem | statement |
|---|---|
| `RoutingTypesAreCorrect` | `RoutingSpec => []RoutingTypeOK` |
| `OrderDecidesTiesOnly` | `RoutingSpec => []OrderDecidesOnlyTies` |
| `TheMostSpecificWins` | `RoutingSpec => []MostSpecificWins` |
| `KnownClientsReachATeam` | `RoutingSpec => []KnownClientsAreRouted` |

The invariant of `parse_routing` is that each route has finitely many keys and that `seen` knows
each as that route's (`RoutesAreFinite`, `KeysAreSeen`). The loops then find what they look for:
`BestOf` a route with a longest match (`BestIsLongest`), `_route_for_domain` that of a most
specific domain (`DomainIsRouted`), `_route_for_company` that of a longest name
(`NameIsRouted`). Two most specific domains of one address are its suffixes and equally long,
hence the same domain and the same route's (`OneBestDomain`), whatever the order. Two longest
names found in different orders are one name, hence one route's, or tied: two different names of
one length that both occur. Only there does the strict comparison of `routing.py` leave the
decision to the order of the file. That
a finite set of numbers has a largest and a smallest is proved from a smallest counterexample
(`NoDescent`), the library's theorem that the subsets of a finite set are well-founded: its
induction theorems, which take a predicate as a parameter, cannot be used with these provers.

Only model-checked, not proved: liveness (`AcceptedIsSettled`, `RecordingsAreQueued`,
`RequestsEnd`, `ModelIsLoaded`), which rests on fairness and ENABLED and is beyond the prover.
`LocalStack` has no property that holds.

## 5. Plan of the work that remains

1. *More proofs.* Every safety property of a passing run is proved. What is left is to state
   more: what remains of the promise of `JobQueue` after a crash of `FaultyStore`, where two
   answers of a job may differ only if the first had not reached the file.
2. *More of the model.* The file-name rules of `route_message` in `EmailRouting`, per-recipient
   refusal in the e-mail channel, the probes' clock in `LocalStack`.

## 6. Reading the correspondence

`PROJECT.json` maps every definition that models code to its lines. Names are those of the
source in TLA+ spelling (`SetFailedResult` is `set_failed_result`). Definitions named after a
mistake (`RequeueAnyButDone`, `MarkNothing`, `TakeLockUnlocked`...) stand right before the
definition they distort. No specification uses them: each shows that a property would notice
that mistake.

## 7. What is not modelled

Configuration parsing happens before anything runs; the models take its results as
constants. Metrics, the GET endpoints and the routing reports only read. Prompts, formatting,
message layout, TLS and authentication have no state that the properties depend on; that
a service refuses a key (401, 403) is one of the answers of `Pipeline`. The regular expressions and the normalization
of `routing.py` are abstracted to the domains, names and words they yield; its file-name rules and the
partial refusal of a mail's recipients are not modelled. Database migrations run once, before
the threads start. `FaultyStore` knows one kind of failure, a locked file: on a full disk SQLite
rolls back by itself, and reads fail only under an exclusive lock, which other programs hold for
an instant. Of the Helm chart the models use that there is one replica which is recreated, never
overlapped. How long a health check waits compared with a download is not modelled: as long as
the probe asks for the wrong route (FindHealthRoute) no timing helps. `mark_failed` of the store is called by tests
only.
