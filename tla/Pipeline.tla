------------------------------ MODULE Pipeline ------------------------------
(***************************************************************************)
(* The service with the processing of a job taken apart into the calls of  *)
(* Worker._process: audio_suffix, the S3 download, the request to          *)
(* whisper-api, the one to the LLM, and set_result.  Worker leaves it open *)
(* whether `work` ends in a transcript, an infrastructure error or a       *)
(* permanent one; here that follows from what the services answer, and     *)
(* what they can answer from the recording that the job's URL names.       *)
(***************************************************************************)
EXTENDS AiService, RecordUrl

CONSTANTS
  Bucket,          \* the scanned bucket
  Spelling,        \* the text of each URL
  KeyName,         \* the text of each key of the scanned bucket
  Contents,        \* what the objects of the bucket may be: functions from the keys to Kinds
  Silence,         \* the transcript without words
  SummaryEnabled   \* summary_enabled

\* a recording, one without speech, a file that does not decode, a recording whose
\* transcript the LLM rejects
Kinds == {"speech", "silence", "corrupt", "offending"}

ASSUME PipelineAssumption ==
  /\ Bucket \in Quoted /\ KeyName \in [Keys -> Keyed] /\ Contents \subseteq [Keys -> Kinds]
  /\ Silence \in Words /\ SummaryEnabled \in BOOLEAN
  /\ Spelling \in [Urls -> RecordUrls]

\* an object has a name, and none in the scanned bucket begins with a slash: lstrip would
\* take it, and the job would be that of another object; no two have the same name
ASSUME NamesAssumption ==
  /\ \A k \in Keys : KeyName[k] # <<>> /\ KeyName[k][1] # "/"
  /\ \A k, l \in Keys : KeyName[k] = KeyName[l] => k = l

\* the words the service model takes as given are what the code makes of the texts
ASSUME UrlsAssumption ==
  /\ \A k \in Keys : Spelling[KeyUrl[k]] = ObjectUrl(Bucket, KeyName[k])
  /\ Unparsable = {u \in Urls : ~Parses(Spelling[u])}
  /\ Unprocessable =
       {u \in Urls \ Unparsable : ~IsAudio(RecordingOf(Spelling[u]).key)}

VARIABLES
  kind,   \* what each key's object is, once it is uploaded
  call,   \* the next call of the job being processed
  heard,  \* the transcription, between whisper-api's answer and set_result
  causes  \* history: the answers that each job was refused with since it was last queued

callVars == <<call, heard, causes>>
pipelineVars == <<vars, kind, callVars>>

PipelineTypeOK ==
  /\ TypeOK
  /\ kind \in [Keys -> Kinds]
  /\ call \in {"name", "download", "transcribe", "summarize", "store"}
  /\ heard \in Words \cup {NoText}
  /\ call # "name" => pc = "work"
  /\ causes \in [Ids -> Nat]

PipelineInit ==
  /\ Init /\ kind \in Contents
  /\ call = "name" /\ heard = NoText /\ causes = [j \in Ids |-> 0]

-----------------------------------------------------------------------------
(* The services.  An answer is an HTTP status, with a body that reads as    *)
(* it should or not; or there is none (refused, timed out).  Why it was     *)
(* given is not in it: no code reads the reason, only `causes` does.        *)

NoAnswer == [status |-> 0, valid |-> FALSE, reason |-> "outage"]
Garbled == [status |-> 200, valid |-> FALSE, reason |-> "outage"]
Code(n, why) == [status |-> n, valid |-> TRUE, reason |-> why]
Success == Code(200, "served")

Unwell == {NoAnswer, Garbled, Code(500, "outage"), Code(503, "outage"), Code(429, "busy")}

\* a revoked key, a request that came too slowly, a parameter the service does not know:
\* client errors for which the recording can do nothing
Refusals == {Code(n, "refusal") : n \in {401, 403, 408, 422}}

RecordingAsWritten ==
  [u \in Urls \ Unparsable |-> [bucket |-> BucketPart(Spelling[u]),
                               key |-> AsWritten(KeyPart(Spelling[u]))]]

\* bucket and key that parse_call_record_url takes from each URL it accepts
Recording == [u \in Urls \ Unparsable |-> RecordingOf(Spelling[u])]

\* the objects that URL names; the scanned bucket holds all there are, once uploaded
Named ==
  [u \in Urls \ Unparsable |->
     {k \in Keys : Recording[u] = [bucket |-> Bucket, key |-> KeyName[k]]}]

ObjectIs(u, kinds) == \E k \in bucket : k \in Named[u] /\ kind[k] \in kinds

\* what a service can answer, if it rejects a bad recording with status n
AnswersFor(bad, n) == Unwell \cup Refusals \cup {IF bad THEN Code(n, "recording") ELSE Success}

S3Answers(u) == AnswersFor(~ObjectIs(u, Kinds), 404)

WhisperAnswers(u) == AnswersFor(ObjectIs(u, {"corrupt"}), 400)

LlmAnswers(u) == AnswersFor(ObjectIs(u, {"offending"}), 400)

OutcomeForgetsClientErrors(a) ==
  IF a = NoAnswer \/ a.status >= 500 THEN "infrastructure" ELSE "ok"

\* download: the job is to blame for every client error, 429 included (what boto raises
\* for a body that breaks off is no PermanentJobError either, and ends the cycle as well)
S3Outcome(a) ==
  IF a = Success THEN "ok" ELSE IF a.status \in 400 .. 499 THEN "permanent" ELSE "infrastructure"

OutcomeBlamesTheBusy(a) ==
  IF a = NoAnswer \/ a.status >= 500 THEN "infrastructure"
  ELSE IF a.status >= 400 THEN "permanent"
  ELSE IF a.valid THEN "ok" ELSE "infrastructure"

\* transcribe_file and summarize: a dependency that is busy is no fault of the job
HttpOutcome(a) ==
  IF a = NoAnswer \/ a.status >= 500 \/ a.status = 429 THEN "infrastructure"
  ELSE IF a.status >= 400 THEN "permanent"
  ELSE IF a.valid THEN "ok" ELSE "infrastructure"

-----------------------------------------------------------------------------
(* The calls.                                                              *)

Processing(c) == pc = "work" /\ call = c

CallsEnd == call' = "name" /\ heard' = NoText

\* a refusal, or what the services answer for a bad recording, is held against the job;
\* so is a storage that is busy, but not a busy gateway
IsCause(a) ==
  \/ a.reason \in {"refusal", "recording"}
  \/ a.reason = "busy" /\ call = "download"

Hold(a) == causes' = IF IsCause(a) THEN [causes EXCEPT ![hand.id] = @ + 1] ELSE causes

Proceed(c) ==
  /\ call' = c
  /\ UNCHANGED <<vars, kind>>

InterruptedRequeues ==
  /\ SetStatus(hand.id, "queued")
  /\ CycleRaises
  /\ CallsEnd
  /\ UNCHANGED <<objects, now, cfg, channelVars, scannerVars, crashes, requeues, kind>>

Interrupted == WorkInterrupted /\ CallsEnd /\ UNCHANGED <<scannerVars, crashes, requeues, kind>>

Blamed == PermanentError /\ CallsEnd /\ UNCHANGED <<scannerVars, crashes, requeues, kind>>

\* audio_suffix of the unquoted key; its ValueError is caught by no except clause of
\* _process and leaves run_once
NameFile ==
  /\ Processing("name")
  /\ IF IsAudio(Recording[hand.row.url].key)
       THEN Proceed("download") /\ UNCHANGED heard
       ELSE Interrupted
  /\ UNCHANGED causes

Download ==
  /\ Processing("download")
  /\ \E a \in S3Answers(hand.row.url) :
       /\ Hold(a)
       /\ \/ S3Outcome(a) = "ok" /\ Proceed("transcribe") /\ UNCHANGED heard
          \/ S3Outcome(a) = "permanent" /\ Blamed
          \/ S3Outcome(a) = "infrastructure" /\ Interrupted

WordsOf(u) == IF ObjectIs(u, {"silence"}) THEN {Silence} ELSE Words \ {Silence}

\* summarize makes no request when it is switched off or the transcript is empty
AfterWords(w) == IF SummaryEnabled /\ w # Silence THEN "summarize" ELSE "store"

AskWhisper ==
  /\ Processing("transcribe")
  /\ \E a \in WhisperAnswers(hand.row.url) :
       /\ Hold(a)
       /\ \/ /\ HttpOutcome(a) = "ok"
             /\ \E w \in WordsOf(hand.row.url) : Proceed(AfterWords(w)) /\ heard' = w
          \/ HttpOutcome(a) = "permanent" /\ Blamed
          \/ HttpOutcome(a) = "infrastructure" /\ Interrupted

AskLlm ==
  /\ Processing("summarize")
  /\ \E a \in LlmAnswers(hand.row.url) :
       /\ Hold(a)
       /\ \/ HttpOutcome(a) = "ok" /\ Proceed("store") /\ UNCHANGED heard
          \/ HttpOutcome(a) = "permanent" /\ Blamed
          \/ HttpOutcome(a) = "infrastructure" /\ Interrupted

StoreResult ==
  /\ Processing("store")
  /\ Transcribe(heard)
  /\ CallsEnd
  /\ UNCHANGED <<scannerVars, crashes, requeues, kind, causes>>

Calls == NameFile \/ Download \/ AskWhisper \/ AskLlm \/ StoreResult

\* every other step of the worker
OtherWork == pc # "work" /\ Work /\ UNCHANGED <<kind, callVars>>

\* a failed job that is queued again begins anew
Requests ==
  \E j \in Ids, u \in Urls :
    \/ PostFailed(j, u) /\ causes' = [causes EXCEPT ![j] = 0]
    \/ (PostNew(j, u) \/ PostKnown(j, u)) /\ UNCHANGED causes

OtherThreads ==
  /\ \/ Requests
     \/ (Scan \/ Arrive) /\ UNCHANGED causes
  /\ UNCHANGED <<kind, call, heard>>

\* a crash ends the calls as well
Crash == (\E next \in Configs : Restart(next)) /\ CallsEnd /\ UNCHANGED <<kind, causes>>

PipelineNext == Calls \/ OtherWork \/ OtherThreads \/ Crash

PipelineSpec == PipelineInit /\ [][PipelineNext]_pipelineVars

(* Fairness: the threads run; a service, a channel or a listing that is asked for the    *)
(* same job again and again comes to a decision in the end - success or a refusal that   *)
(* is the job's own fault.                                                               *)
Decided == call' # "name" \/ jobs' # jobs

CallsAreAnswered ==
  \A j \in Ids, c \in {"download", "transcribe", "summarize"} :
    SF_pipelineVars(Calls /\ call = c /\ hand.id = j /\ Decided)

MailIsTaken ==
  \A j \in Ids, c \in Channels :
    SF_pipelineVars(OtherWork /\ Sending /\ hand.id = j /\ Channel = c /\ pc' = "mark")

PipelineThreads ==
  /\ WF_pipelineVars(Calls \/ OtherWork)
  /\ WF_pipelineVars(Scan /\ UNCHANGED <<kind, callVars>>)
  /\ \A k \in Keys :
       SF_pipelineVars(Scan /\ UNCHANGED <<kind, callVars>> /\ spc = "list" /\ IsNextKey(k) /\ spc' # "wait")

FairPipeline == PipelineSpec /\ PipelineThreads /\ CallsAreAnswered /\ MailIsTaken

-----------------------------------------------------------------------------
(* Properties.                                                             *)

\* The worker as it is written is one of the workers that AiService allows: every call
\* and every outcome is a step of the service model or changes nothing it can see.
ImplementsTheService == Spec

\* "Never counted toward a job's attempts", "the dependency is busy, not the input bad":
\* however outages, unreadable answers and busy gateways mix with crashes and re-queues,
\* an attempt is only spent on an answer that is held against the job, and a failure only
\* told after MAX_RETRIES of those since the job was last queued, or of a URL that does
\* not parse.  (Held against a job are, besides what its recording is rejected for, the
\* 4xx of a revoked key, as documented, and every 4xx of the storage, 429 included.)
FailuresHaveCauses ==
  \A j \in DOMAIN jobs :
    /\ jobs[j].attempts <= causes[j]
    /\ jobs[j].status \in {"delivering", "failed"} /\ jobs[j].text = NoText
         => causes[j] >= MaxRetries \/ jobs[j].url \in Unparsable

\* The recording that is fetched for a scanned key is the object the scanner listed:
\* quoting and unquoting, both suffix tests and the prefix slash lose nothing on the way.
FetchesWhatWasListed ==
  Processing("download") =>
    \A k \in Keys : hand.row.url = KeyUrl[k] => Recording[hand.row.url].key = KeyName[k]

\* The transcript a job is answered with is one of a recording that is there, decodes and
\* says these words: no answer is made of an object that another key names.
AnswersFitTheRecording ==
  \A j \in DOMAIN jobs : jobs[j].text # NoText =>
    /\ ObjectIs(jobs[j].url, {"speech", "silence", "offending"})
    /\ jobs[j].text.words \in WordsOf(jobs[j].url)
    /\ SummaryEnabled => ~ObjectIs(jobs[j].url, {"offending"})
=============================================================================
