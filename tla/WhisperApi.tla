----------------------------- MODULE WhisperApi -----------------------------
(***************************************************************************)
(* The whisper-api process: while the loader thread of ModelDownload works *)
(* on the model, requests are already served (whisper_api/app.py).  A      *)
(* transcription request is checked on the event loop, then runs in a      *)
(* thread of the pool that it shares with the health probes, and there     *)
(* waits for the engine's lock (whisper_api/engine.py).  A client that has *)
(* gone away changes nothing: its request is carried to its end.           *)
(***************************************************************************)
EXTENDS ModelDownload, FiniteSets

CONSTANTS
  Connections,    \* bound: as many requests are under way at once
  PoolSize        \* threads of the pool that run_in_threadpool and `def` handlers use

\* what is asked for; "corrupt" is an upload that does not decode
Kinds == {"health", "audio", "empty", "corrupt"}

Nothing == "nothing"
NoOne == "no one"

ASSUME PoolAssumption == PoolSize \in Nat \ {0} /\ NoOne \notin Connections

VARIABLES
  kind,     \* per connection, what it asks for, or Nothing
  at,       \* where the request stands: "body", "pool", "lock" or "engine"; or "idle"
  holder,   \* Engine._lock: the connection whose request holds it, or NoOne
  ready     \* a health probe of this process was answered 200 (a history of the run)

requestVars == <<kind, at, holder, ready>>
apiVars == <<downloadVars, requestVars>>

ApiTypeOK ==
  /\ DownloadTypeOK
  /\ kind \in [Connections -> Kinds \cup {Nothing}]
  /\ at \in [Connections -> {"idle", "body", "pool", "lock", "engine"}]
  /\ holder \in Connections \cup {NoOne}
  /\ ready \in BOOLEAN

ApiInit ==
  /\ DownloadInit
  /\ kind = [r \in Connections |-> Nothing] /\ at = [r \in Connections |-> "idle"]
  /\ holder = NoOne /\ ready = FALSE

-----------------------------------------------------------------------------
EngineCheckMissesTheLoad == lpc \in {"loaded", "build"}

\* _require_engine returns; otherwise it answers 500 (the load has failed) or 503
EngineCheck == lpc = "loaded"

\* the request is answered, its connection is free again
Over(r) == at' = [at EXCEPT ![r] = "idle"] /\ kind' = [kind EXCEPT ![r] = Nothing]

Goes(r, place) == at' = [at EXCEPT ![r] = place] /\ UNCHANGED kind

InPool == {r \in Connections : at[r] \in {"lock", "engine"}}

\* The event loop runs the handler up to its first await.  A request it answers at once
\* (401, 422, 500, 503) leaves nothing behind and is no step here.
Arrive(r) ==
  /\ at[r] = "idle" /\ lpc # "exited"
  /\ \E k \in Kinds :
       /\ kind' = [kind EXCEPT ![r] = k]
       /\ \/ k = "health" /\ at' = [at EXCEPT ![r] = "pool"]
          \/ k # "health" /\ EngineCheck /\ at' = [at EXCEPT ![r] = "body"]
  /\ UNCHANGED <<downloadVars, holder, ready>>

\* the upload has been read: 400 if there is none
ReadBody(r) ==
  /\ at[r] = "body"
  /\ IF kind[r] = "empty" THEN Over(r) ELSE Goes(r, "pool")
  /\ UNCHANGED <<downloadVars, holder, ready>>

\* a thread of the pool takes a transcription up and asks for the engine's lock
EnterPool(r) ==
  /\ at[r] = "pool" /\ kind[r] # "health" /\ Cardinality(InPool) < PoolSize
  /\ Goes(r, "lock")
  /\ UNCHANGED <<downloadVars, holder, ready>>

\* a thread of the pool answers a probe
AnswerProbe(r) ==
  /\ at[r] = "pool" /\ kind[r] = "health" /\ Cardinality(InPool) < PoolSize
  /\ Over(r)
  /\ ready' = (ready \/ EngineCheck)
  /\ UNCHANGED <<downloadVars, holder>>

TakeLockUnlocked(r) ==
  /\ at[r] = "lock"
  /\ holder' = r /\ Goes(r, "engine")
  /\ UNCHANGED <<downloadVars, ready>>

TakeLock(r) ==
  /\ at[r] = "lock" /\ holder = NoOne
  /\ holder' = r /\ Goes(r, "engine")
  /\ UNCHANGED <<downloadVars, ready>>

Transcribed(r) ==
  /\ at[r] = "engine" /\ kind[r] = "audio"
  /\ Over(r)
  /\ holder' = NoOne
  /\ UNCHANGED <<downloadVars, ready>>

EngineRaisesKeepsLock(r) ==
  /\ at[r] = "engine"
  /\ Over(r)
  /\ UNCHANGED <<downloadVars, holder, ready>>

\* a decode error (400), at once or while the segments are read; any other exception (500)
EngineRaises(r) ==
  /\ at[r] = "engine"
  /\ Over(r)
  /\ holder' = NoOne
  /\ UNCHANGED <<downloadVars, ready>>

Proceed(r) ==
  \/ ReadBody(r) \/ EnterPool(r) \/ AnswerProbe(r)
  \/ TakeLock(r) \/ Transcribed(r) \/ EngineRaises(r)

\* the connections of a process that ends are reset
ProcessEnds ==
  /\ kind' = [r \in Connections |-> Nothing] /\ at' = [r \in Connections |-> "idle"]
  /\ holder' = NoOne /\ ready' = FALSE

Load ==
  \/ Piece \/ FetchDone \/ FetchFails \/ Tick
  \/ JoinTimesOut \/ ModelFetched \/ AttemptFailed \/ NextAttempt \/ Build \/ BuildFails
  \/ ContainerRestarts

ApiNext ==
  \/ Load /\ UNCHANGED requestVars
  \/ (Exit \/ Killed) /\ ProcessEnds
  \/ \E r \in Connections : Arrive(r) \/ Proceed(r)

ApiSpec == ApiInit /\ [][ApiNext]_apiVars

(* Fairness: the event loop and the threads of the pool run, a transcription ends, and   *)
(* no request that waits for a pool thread or for the lock is passed over for ever.      *)
FairApiSpec == ApiSpec /\ DownloadFairness /\ \A r \in Connections : SF_apiVars(Proceed(r))

-----------------------------------------------------------------------------
(* Properties.                                                             *)

\* "One model instance: serialize concurrent requests": never two transcriptions at once.
OneAtATime ==
  \A r, s \in Connections : at[r] = "engine" /\ at[s] = "engine" => r = s

\* A health probe says ready, and a request gets past the engine check to the engine, only
\* when the model is loaded, and then the model stays loaded as long as this process lives.
ReadyIsTrue ==
  ready \/ (\E r \in Connections : at[r] \in {"body", "lock", "engine"}) => lpc = "loaded"

\* Every request comes to its end - a transcription that raised, a corrupt upload or an
\* endless stream of requests for the engine holds no later one up for ever, and no health
\* probe either, although the probes share the threads of the pool.
RequestsEnd == \A r \in Connections : at[r] # "idle" ~> at[r] = "idle"
=============================================================================
