--------------------------- MODULE DownloadProofs ----------------------------
(***************************************************************************)
(* Proofs about ModelDownload and WhisperApi, for every number of retries, *)
(* every deadline, every delay between attempts, every number of           *)
(* connections and every size of the pool.                                 *)
(***************************************************************************)
EXTENDS WhisperApi, FiniteSetTheorems, TLAPS

-----------------------------------------------------------------------------
(* The delay between two attempts.                                         *)

\* SMT has no arithmetic of powers; the number of subsets of 1 .. n is one
LEMMA PowersAreNumbers ==
  ASSUME NEW n \in Nat
  PROVE  2 ^ n \in Nat
<1>1. IsFiniteSet(1 .. n) /\ Cardinality(1 .. n) = n
  BY FS_Interval
<1>2. IsFiniteSet(SUBSET (1 .. n)) /\ Cardinality(SUBSET (1 .. n)) = 2 ^ n
  BY <1>1, FS_SUBSET
<1> QED
  BY <1>2, FS_CardinalityType

\* A delay or a join is over at the deadline at the latest.
LEMMA WaitsEndInTime ==
  ASSUME DownloadTypeOK, clock <= Deadline
  PROVE  /\ JoinUntil \in clock .. Deadline
         /\ clock + Delay(attempt) \in clock .. Deadline
<1>1. clock \in Nat /\ attempt - 1 \in Nat
  BY DownloadAssumption DEF DownloadTypeOK
<1>2. BackoffBase * 2 ^ (attempt - 1) \in Nat
  <2>1. 2 ^ (attempt - 1) \in Nat
    BY <1>1, PowersAreNumbers
  <2> DEFINE power == 2 ^ (attempt - 1)
  <2> HIDE DEF power
  <2>2. BackoffBase * power \in Nat
    BY <2>1, DownloadAssumption DEF power
  <2> QED
    BY <2>2 DEF power
<1> DEFINE grown == BackoffBase * 2 ^ (attempt - 1)
<1> HIDE DEF grown
<1>3. Least(Least(grown, BackoffCap), Deadline - clock) \in 0 .. Deadline - clock
  BY <1>1, <1>2, DownloadAssumption DEF Least, grown
<1>4. Least(ProgressInterval, Deadline - clock) \in 0 .. Deadline - clock
  BY <1>1, DownloadAssumption DEF Least
<1> QED
  BY <1>1, <1>3, <1>4, DownloadAssumption DEF JoinUntil, Delay, grown

-----------------------------------------------------------------------------
(* The loader.                                                             *)

\* a wait of the loader ends by the deadline, and the clock does not pass its end
WaitsInTime == lpc \in {"join", "sleep"} => clock <= wake /\ wake <= Deadline

\* the failures are those of the attempts made so far, this one's when it has failed
FailuresAreAttempts ==
  /\ fetch = "alive" => failures = attempt - 1
  /\ fetch = "failed" => failures = attempt
  /\ lpc = "sleep" => fetch = "failed" /\ attempt < Retries /\ ~Offline
  /\ lpc = "join" => fetch # "none"

LoaderInv ==
  /\ DownloadTypeOK /\ WaitsInTime /\ FailuresAreAttempts /\ GivesUpOnlyWhenSpent

LEMMA FreshProcess ==
  ASSUME DownloadTypeOK, ProcessStarts, cached' \in 0 .. Pieces, kills' \in 0 .. MaxKills
  PROVE  LoaderInv'
<1>1. FirstWake \in 0 .. Deadline
  BY DownloadAssumption DEF FirstWake, Least
<1> QED
  BY <1>1, DownloadAssumption
     DEF ProcessStarts, FirstStep, FirstFetch, LoaderInv, DownloadTypeOK, WaitsInTime,
         FailuresAreAttempts, GivesUpOnlyWhenSpent

LEMMA LoaderStep ==
  ASSUME LoaderInv, [DownloadNext]_downloadVars
  PROVE  LoaderInv'
<1> USE DownloadAssumption DEF LoaderInv, DownloadTypeOK, WaitsInTime, FailuresAreAttempts,
        GivesUpOnlyWhenSpent, loaderVars
<1>1. CASE Piece
  BY <1>1 DEF Piece
<1>2. CASE FetchDone
  BY <1>2 DEF FetchDone
<1>3. CASE FetchFails
  BY <1>3 DEF FetchFails
<1>4. CASE Tick
  BY <1>4 DEF Tick
<1>5. CASE JoinTimesOut
  <2>1. clock <= Deadline => JoinUntil \in clock .. Deadline
    BY WaitsEndInTime
  <2> QED
    BY <1>5, <2>1 DEF JoinTimesOut
<1>6. CASE ModelFetched
  BY <1>6 DEF ModelFetched
<1>7. CASE AttemptFailed
  <2>1. clock <= Deadline /\ clock + Delay(attempt) \in clock .. Deadline
    BY <1>7, WaitsEndInTime DEF AttemptFailed
  <2> QED
    BY <1>7, <2>1 DEF AttemptFailed
<1>8. CASE NextAttempt
  <2>1. JoinUntil \in clock .. Deadline
    BY <1>8, WaitsEndInTime DEF NextAttempt
  <2> QED
    BY <1>8, <2>1 DEF NextAttempt
<1>9. CASE Build \/ BuildFails \/ Exit
  BY <1>9 DEF Build, BuildFails, Exit
<1>10. CASE ContainerRestarts \/ Killed
  <2>1. ProcessStarts /\ cached' \in 0 .. Pieces /\ kills' \in 0 .. MaxKills
    BY <1>10 DEF ContainerRestarts, Killed
  <2> QED
    BY <2>1, FreshProcess
<1>11. CASE UNCHANGED downloadVars
  BY <1>11 DEF downloadVars
<1> QED
  BY <1>1, <1>2, <1>3, <1>4, <1>5, <1>6, <1>7, <1>8, <1>9, <1>10, <1>11
     DEF DownloadNext, Loader
LEMMA LoaderStarts ==
  ASSUME DownloadInit
  PROVE  LoaderInv
<1>1. FirstWake \in 0 .. Deadline
  BY DownloadAssumption DEF FirstWake, Least
<1> QED
  BY <1>1, DownloadAssumption
     DEF DownloadInit, FirstStep, FirstFetch, LoaderInv, DownloadTypeOK, WaitsInTime,
         FailuresAreAttempts, GivesUpOnlyWhenSpent

LEMMA LoaderAlways == DownloadSpec => []LoaderInv
BY LoaderStarts, LoaderStep, PTL DEF DownloadSpec

\* The variables of the loader keep their types: in particular no attempt fails twice.
THEOREM DownloadTypeCorrect == DownloadSpec => []DownloadTypeOK
<1>1. LoaderInv => DownloadTypeOK
  BY DEF LoaderInv
<1> QED
  BY <1>1, LoaderAlways, PTL

\* Whatever number of attempts is configured and however the delays between them grow, the
\* loader does not wait past WHISPER_DOWNLOAD_TIMEOUT_SECONDS.
THEOREM DownloadIsBounded == DownloadSpec => []DeadlineHolds
<1>1. LoaderInv => DeadlineHolds
  BY DownloadAssumption DEF LoaderInv, WaitsInTime, DownloadTypeOK, DeadlineHolds
<1> QED
  BY <1>1, LoaderAlways, PTL

\* The process is given up only when the deadline has passed or the attempts are spent.
THEOREM ExitsAreEarned == DownloadSpec => []GivesUpOnlyWhenSpent
<1>1. LoaderInv => GivesUpOnlyWhenSpent
  BY DEF LoaderInv
<1> QED
  BY <1>1, LoaderAlways, PTL

-----------------------------------------------------------------------------
(* The requests.                                                           *)

\* past the engine check: reading its body, or anywhere after it
PastTheCheck(r) ==
  at[r] \in {"body", "lock", "engine"} \/ (at[r] = "pool" /\ kind[r] # "health")

\* the lock and the request in the engine go together, and whoever is past the check, or
\* was told that the process is ready, has a loaded model
RequestsInv ==
  /\ ApiTypeOK
  /\ \A r \in Connections : at[r] = "engine" => holder = r
  /\ ready \/ (\E r \in Connections : PastTheCheck(r)) => lpc = "loaded"

\* the loader's steps, and those that end the process, are steps of ModelDownload
LEMMA LoadIsDownload ==
  ASSUME [ApiNext]_apiVars
  PROVE  [DownloadNext]_downloadVars
<1>1. ASSUME NEW r \in Connections, Arrive(r) \/ Proceed(r)
      PROVE  UNCHANGED downloadVars
  BY <1>1 DEF Arrive, Proceed, ReadBody, EnterPool, AnswerProbe, TakeLock, Transcribed,
              EngineRaises
<1> QED
  BY <1>1 DEF ApiNext, Load, DownloadNext, Loader, apiVars

\* a model that is loaded stays loaded until the process ends
LEMMA LoadedStaysLoaded ==
  ASSUME Load, lpc = "loaded"
  PROVE  lpc' = "loaded"
BY DEF Load, Piece, FetchDone, FetchFails, Tick, JoinTimesOut, ModelFetched, AttemptFailed,
       NextAttempt, Build, BuildFails, ContainerRestarts, loaderVars

LEMMA RequestsStep ==
  ASSUME LoaderInv, RequestsInv, [ApiNext]_apiVars
  PROVE  RequestsInv'
<1> USE DEF RequestsInv, ApiTypeOK, PastTheCheck
<1>1. DownloadTypeOK'
  BY LoadIsDownload, LoaderStep DEF LoaderInv
<1>2. CASE Load /\ UNCHANGED requestVars
  <2>1. lpc = "loaded" => lpc' = "loaded"
    BY <1>2, LoadedStaysLoaded
  <2> QED
    BY <1>1, <1>2, <2>1 DEF requestVars
<1>3. CASE (Exit \/ Killed) /\ ProcessEnds
  BY <1>1, <1>3, PoolAssumption DEF ProcessEnds
<1>4. ASSUME NEW r \in Connections, Arrive(r)
      PROVE  RequestsInv'
  BY <1>1, <1>4 DEF Arrive, EngineCheck, Kinds, downloadVars, loaderVars
<1>5. ASSUME NEW r \in Connections, ReadBody(r) \/ EnterPool(r) \/ AnswerProbe(r)
      PROVE  RequestsInv'
  BY <1>1, <1>5 DEF ReadBody, EnterPool, AnswerProbe, EngineCheck, Over, Goes, downloadVars,
                    loaderVars
<1>6. ASSUME NEW r \in Connections, TakeLock(r)
      PROVE  RequestsInv'
  BY <1>1, <1>6, PoolAssumption DEF TakeLock, Goes, downloadVars, loaderVars
<1>7. ASSUME NEW r \in Connections, Transcribed(r) \/ EngineRaises(r)
      PROVE  RequestsInv'
  BY <1>1, <1>7 DEF Transcribed, EngineRaises, Over, downloadVars, loaderVars
<1>8. CASE UNCHANGED apiVars
  BY <1>1, <1>8 DEF apiVars, requestVars, downloadVars, loaderVars
<1> QED
  BY <1>2, <1>3, <1>4, <1>5, <1>6, <1>7, <1>8 DEF ApiNext, Proceed

LEMMA RequestsAlways == ApiSpec => []RequestsInv
<1>1. ApiInit => LoaderInv /\ RequestsInv
  BY LoaderStarts DEF ApiInit, LoaderInv, RequestsInv, ApiTypeOK, PastTheCheck
<1>2. LoaderInv /\ RequestsInv /\ [ApiNext]_apiVars => (LoaderInv /\ RequestsInv)'
  BY LoadIsDownload, LoaderStep, RequestsStep
<1> QED
  BY <1>1, <1>2, PTL DEF ApiSpec

\* Together with the requests the loader is still the loader of ModelDownload, so that its
\* theorems hold of the whole process.
THEOREM ServingDoesNotDisturb == ApiSpec => DownloadSpec
<1>1. ApiInit => DownloadInit
  BY DEF ApiInit
<1> QED
  BY <1>1, LoadIsDownload, PTL DEF ApiSpec, DownloadSpec

\* The variables of the whole process keep their types.
THEOREM ApiTypeCorrect == ApiSpec => []ApiTypeOK
<1>1. RequestsInv => ApiTypeOK
  BY DEF RequestsInv
<1> QED
  BY <1>1, RequestsAlways, PTL

\* However many requests there are and however many threads the pool has, one request at a
\* time is in the engine.
THEOREM EngineIsExclusive == ApiSpec => []OneAtATime
<1>1. RequestsInv => OneAtATime
  BY DEF RequestsInv, OneAtATime
<1> QED
  BY <1>1, RequestsAlways, PTL

\* Whoever is past the engine check, or was told that the process is ready, has a loaded
\* model; none of the check's awaits and no step of the loader in between loses it.
THEOREM ReadyMeansLoaded == ApiSpec => []ReadyIsTrue
<1>1. RequestsInv => ReadyIsTrue
  BY DEF RequestsInv, PastTheCheck, ReadyIsTrue
<1> QED
  BY <1>1, RequestsAlways, PTL
=============================================================================
