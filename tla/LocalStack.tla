----------------------------- MODULE LocalStack ------------------------------
(***************************************************************************)
(* `docker compose --profile local-whisper up`: compose starts whisper-api *)
(* and waits until its health check passes before it starts ai-service     *)
(* (docker-compose.yml).  The containers' runtime is external; whisper-api *)
(* itself is the loader of ModelDownload.                                  *)
(***************************************************************************)
EXTENDS ModelDownload

CONSTANT ProbeRetries     \* failing probes in a row that make a container unhealthy

VARIABLES
  health,   \* of the whisper-api container: "starting", "healthy" or "unhealthy"
  misses,   \* failing probes in a row
  ai        \* the ai-service container: "waiting", "started" or "aborted"

stackVars == <<health, misses, ai>>
allVars == <<downloadVars, stackVars>>

StackInit == DownloadInit /\ health = "starting" /\ misses = 0 /\ ai = "waiting"

\* the routes whisper-api serves, and the one the health check asks for
Routes == {"/health", "/v1/audio/transcriptions"}
ProbedRoute == "/healthz"

ProbePasses == ProbedRoute \in Routes /\ lpc = "loaded"

\* a failing probe does not count within start_period
Probe ==
  /\ lpc # "exited"
  /\ IF ProbePasses
       THEN health' = "healthy" /\ misses' = 0
       ELSE /\ misses' \in {misses, misses + 1} /\ misses' <= ProbeRetries
            /\ health' = IF misses' = ProbeRetries THEN "unhealthy" ELSE health
  /\ UNCHANGED <<downloadVars, ai>>

\* depends_on: condition: service_healthy
StartAiService ==
  /\ ai = "waiting" /\ health = "healthy"
  /\ ai' = "started"
  /\ UNCHANGED <<downloadVars, health, misses>>

AbortAiService ==
  /\ ai = "waiting" /\ health = "unhealthy"
  /\ ai' = "aborted"
  /\ UNCHANGED <<downloadVars, health, misses>>

\* the health of a container that starts again is unknown
Whisper ==
  \/ /\ Piece \/ FetchDone \/ FetchFails \/ Tick \/ Loader
     /\ UNCHANGED stackVars
  \/ /\ ContainerRestarts \/ Killed
     /\ health' = "starting" /\ misses' = 0 /\ UNCHANGED ai

StackNext == Whisper \/ Probe \/ StartAiService \/ AbortAiService

FairStackSpec ==
  /\ StackInit /\ [][StackNext]_allVars
  /\ WF_allVars(Probe) /\ WF_allVars(StartAiService)

\* "ai-service then waits for whisper-api to become healthy": once the model is loaded and
\* the container has not been given up, the next probe passes and ai-service is started.
AiServiceStarts ==
  lpc = "loaded" /\ health = "starting" /\ ai = "waiting" ~> ai = "started" \/ lpc # "loaded"
=============================================================================
