---------------------------- MODULE ModelDownload ----------------------------
(***************************************************************************)
(* The start of whisper-api: the loader thread fetches the model before it *)
(* loads it (whisper_api/download.py, ensure_model), in a download thread  *)
(* of its own per attempt, under one deadline for all attempts.  Past it,  *)
(* or after the last attempt, the process exits (whisper_api/app.py,       *)
(* _load_engine) and the container runtime starts it again; the files      *)
(* fetched so far stay in the model cache and are resumed.                 *)
(*                                                                         *)
(* Time is the monotonic clock the loader reads, in ticks.  The loader's   *)
(* own steps take no time: the clock may not pass the moment a timed join  *)
(* or a sleep ends before the loader has returned from it.                 *)
(***************************************************************************)
EXTENDS Integers

CONSTANTS
  Retries,           \* WHISPER_DOWNLOAD_RETRIES
  Deadline,          \* WHISPER_DOWNLOAD_TIMEOUT_SECONDS
  ProgressInterval,  \* how often the progress is reported
  BackoffBase,       \* the first delay after a failed attempt
  BackoffCap,        \* the longest one
  Pieces,            \* the size of the model, in pieces that are kept once fetched
  Offline,           \* HF_HUB_OFFLINE
  LocalModel,        \* WHISPER_MODEL is a directory
  MaxKills           \* bound: how often the container is killed from outside

ASSUME DownloadAssumption ==
  /\ Retries \in Nat \ {0} /\ Deadline \in Nat /\ ProgressInterval \in Nat \ {0}
  /\ BackoffBase \in Nat /\ BackoffCap \in Nat
  /\ Pieces \in Nat /\ MaxKills \in Nat
  /\ Offline \in BOOLEAN /\ LocalModel \in BOOLEAN

VARIABLES
  cached,    \* pieces in the model cache: they survive the process
  lpc,       \* where the loader stands: "join", "sleep", "build", "loaded", "broken",
             \* "fatal" (load_error is set, about to exit) or "exited"
  attempt,   \* the attempt of ensure_model
  fetch,     \* the download thread: "none", "alive", "got" or "failed"
  clock,     \* since the process started
  wake,      \* when the loader's join or sleep ends by itself
  failures,  \* attempts of this process that failed (a history of the run)
  kills      \* how often the container was killed

loaderVars == <<lpc, attempt, fetch, clock, wake, failures>>
downloadVars == <<cached, loaderVars, kills>>

DownloadTypeOK ==
  /\ cached \in 0 .. Pieces
  /\ lpc \in {"join", "sleep", "build", "loaded", "broken", "fatal", "exited"}
  /\ attempt \in 1 .. Retries
  /\ fetch \in {"none", "alive", "got", "failed"}
  /\ clock \in Nat /\ wake \in Nat
  /\ failures \in 0 .. Retries
  /\ kills \in 0 .. MaxKills

Least(a, b) == IF a <= b THEN a ELSE b

\* the timeout of the timed join: a progress interval, but not past the deadline
JoinUntil == clock + Least(ProgressInterval, Deadline - clock)

DelayPastTheDeadline(n) == Least(BackoffBase * 2 ^ (n - 1), BackoffCap)

Delay(n) == Least(Least(BackoffBase * 2 ^ (n - 1), BackoffCap), Deadline - clock)

FirstStep == IF LocalModel THEN "build" ELSE "join"
FirstFetch == IF LocalModel THEN "none" ELSE "alive"
FirstWake == Least(ProgressInterval, Deadline)

DownloadInit ==
  /\ cached = 0 /\ kills = 0
  /\ lpc = FirstStep /\ attempt = 1 /\ fetch = FirstFetch
  /\ clock = 0 /\ wake = FirstWake /\ failures = 0

\* a new process: ensure_model returns a local model at once, else attempt 1 begins
ProcessStarts ==
  /\ lpc' = FirstStep /\ attempt' = 1 /\ fetch' = FirstFetch
  /\ clock' = 0 /\ wake' = FirstWake /\ failures' = 0

-----------------------------------------------------------------------------
(* The download thread (the hub client; its network is not ours).          *)

Piece ==
  /\ fetch = "alive" /\ ~Offline /\ cached < Pieces
  /\ cached' = cached + 1
  /\ UNCHANGED <<loaderVars, kills>>

FetchDone ==
  /\ fetch = "alive" /\ cached = Pieces
  /\ fetch' = "got"
  /\ UNCHANGED <<cached, lpc, attempt, clock, wake, failures, kills>>

FetchFails ==
  /\ fetch = "alive"
  /\ fetch' = "failed" /\ failures' = failures + 1
  /\ UNCHANGED <<cached, lpc, attempt, clock, wake, kills>>

-----------------------------------------------------------------------------
(* The loader.                                                             *)

\* time passes while the loader waits and nothing has woken it
Tick ==
  /\ clock < wake
  /\ lpc = "sleep" \/ (lpc = "join" /\ fetch = "alive")
  /\ clock' = clock + 1
  /\ UNCHANGED <<cached, lpc, attempt, fetch, wake, failures, kills>>

\* the join timed out and the thread is still alive: report and join again, or raise
JoinTimesOut ==
  /\ lpc = "join" /\ fetch = "alive" /\ clock >= wake
  /\ IF clock >= Deadline
       THEN lpc' = "fatal" /\ UNCHANGED wake
       ELSE wake' = JoinUntil /\ UNCHANGED lpc
  /\ UNCHANGED <<cached, attempt, fetch, clock, failures, kills>>

ModelFetched ==
  /\ lpc = "join" /\ fetch = "got"
  /\ lpc' = "build"
  /\ UNCHANGED <<cached, attempt, fetch, clock, wake, failures, kills>>

AttemptFailedTooSoon ==
  /\ lpc = "join" /\ fetch = "failed"
  /\ IF attempt + 1 >= Retries \/ Offline
       THEN lpc' = "fatal" /\ UNCHANGED wake
       ELSE lpc' = "sleep" /\ wake' = clock + Delay(attempt)
  /\ UNCHANGED <<cached, attempt, fetch, clock, failures, kills>>

AttemptFailedOnceMore ==
  /\ lpc = "join" /\ fetch = "failed"
  /\ IF attempt > Retries \/ Offline
       THEN lpc' = "fatal" /\ UNCHANGED wake
       ELSE lpc' = "sleep" /\ wake' = clock + Delay(attempt)
  /\ UNCHANGED <<cached, attempt, fetch, clock, failures, kills>>

\* DownloadError after the last attempt (or the only one, offline), else a delay
AttemptFailed ==
  /\ lpc = "join" /\ fetch = "failed"
  /\ IF attempt = Retries \/ Offline
       THEN lpc' = "fatal" /\ UNCHANGED wake
       ELSE lpc' = "sleep" /\ wake' = clock + Delay(attempt)
  /\ UNCHANGED <<cached, attempt, fetch, clock, failures, kills>>

NextAttempt ==
  /\ lpc = "sleep" /\ clock >= wake
  /\ lpc' = "join" /\ attempt' = attempt + 1 /\ fetch' = "alive" /\ wake' = JoinUntil
  /\ UNCHANGED <<cached, clock, failures, kills>>

\* Engine(model_path): WhisperModel loads the fetched files
Build ==
  /\ lpc = "build"
  /\ lpc' = "loaded"
  /\ UNCHANGED <<cached, attempt, fetch, clock, wake, failures, kills>>

\* any exception but DownloadError: load_error, and the process stays up
BuildFails ==
  /\ lpc = "build"
  /\ lpc' = "broken"
  /\ UNCHANGED <<cached, attempt, fetch, clock, wake, failures, kills>>

FatalStaysUp == lpc = "fatal" /\ lpc' = "broken"
                /\ UNCHANGED <<cached, attempt, fetch, clock, wake, failures, kills>>

\* on_fatal: os._exit(1); the download thread dies with the process
Exit ==
  /\ lpc = "fatal"
  /\ lpc' = "exited" /\ fetch' = "none"
  /\ UNCHANGED <<cached, attempt, clock, wake, failures, kills>>

\* restart: unless-stopped
ContainerRestarts ==
  /\ lpc = "exited"
  /\ ProcessStarts
  /\ UNCHANGED <<cached, kills>>

\* the host or an operator restarts the container
Killed ==
  /\ lpc # "exited" /\ kills < MaxKills
  /\ kills' = kills + 1
  /\ ProcessStarts
  /\ UNCHANGED cached

Loader == JoinTimesOut \/ ModelFetched \/ AttemptFailed \/ NextAttempt \/ Build \/ BuildFails \/ Exit

DownloadNext ==
  \/ Piece \/ FetchDone \/ FetchFails \/ Tick
  \/ Loader
  \/ ContainerRestarts \/ Killed

DownloadSpec == DownloadInit /\ [][DownloadNext]_downloadVars

(* Fairness: the loader and the clock run, the runtime restarts an exited container; a   *)
(* hub that is asked for ever delivers a piece in the end, and does not only complete the *)
(* model when the loader has just given up.                                              *)
DownloadFairness ==
  /\ WF_downloadVars(Loader) /\ WF_downloadVars(Tick) /\ WF_downloadVars(ContainerRestarts)
  /\ SF_downloadVars(Piece) /\ SF_downloadVars(FetchDone /\ lpc = "join")

FairDownloadSpec == DownloadSpec /\ DownloadFairness

-----------------------------------------------------------------------------
(* Properties.                                                             *)

\* WHISPER_DOWNLOAD_TIMEOUT_SECONDS bounds the whole download: whatever the attempts and
\* the delays between them do, the loader is not waiting any more once it has passed.
DeadlineHolds == lpc \in {"join", "sleep"} => clock <= Deadline

\* The loader gives the process up only when the deadline has passed or all attempts have
\* failed (one is enough offline).
GivesUpOnlyWhenSpent ==
  lpc \in {"fatal", "exited"} =>
    clock >= Deadline \/ failures = Retries \/ (Offline /\ failures > 0)

\* "So a restart resumes the partial files": however short the deadline is for one
\* process, the model is there in the end, over as many restarts as that takes, and what is
\* left running has loaded it, or has all of it and failed to build it.
ModelIsLoaded ==
  <>[](lpc = "loaded" \/ (lpc = "broken" /\ (cached = Pieces \/ LocalModel)))
=============================================================================
