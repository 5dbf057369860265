------------------------------ MODULE JobQueue ------------------------------
(***************************************************************************)
(* What ai-service promises the systems around it, without saying how: a   *)
(* job that was accepted gets one answer, every channel that hears of the  *)
(* job hears that answer, and the job is closed only when a whole set of   *)
(* channels has heard it.  Only a job that ended in a failure may be       *)
(* submitted again, and then it starts afresh.                             *)
(***************************************************************************)
CONSTANTS
  Jobs,       \* the ids a client may submit
  Results,    \* the transcripts a job may be answered with
  Failure,    \* the notice that a job failed
  NoAnswer,   \* nothing has been decided yet
  Listeners   \* the delivery channels

VARIABLES
  phase,    \* "absent", "accepted", "answered", "done" or "failed"
  answer,   \* the answer of the job, once there is one
  heard     \* per job and listener, the last thing it was told about the job

queueVars == <<phase, answer, heard>>

QueueInit ==
  /\ \E early \in SUBSET Jobs :
       phase = [j \in Jobs |-> IF j \in early THEN "accepted" ELSE "absent"]
  /\ answer = [j \in Jobs |-> NoAnswer]
  /\ heard = [j \in Jobs |-> [c \in Listeners |-> NoAnswer]]

\* a request is accepted, for a new job or for one that has failed
Submit(j) ==
  /\ phase[j] \in {"absent", "failed"}
  /\ phase' = [phase EXCEPT ![j] = "accepted"]
  /\ answer' = [answer EXCEPT ![j] = NoAnswer]
  /\ heard' = [heard EXCEPT ![j] = [c \in Listeners |-> NoAnswer]]

Decide(j, a) ==
  /\ phase[j] = "accepted"
  /\ phase' = [phase EXCEPT ![j] = "answered"]
  /\ answer' = [answer EXCEPT ![j] = a]
  /\ UNCHANGED heard

Tell(j, c) ==
  /\ phase[j] = "answered"
  /\ heard' = [heard EXCEPT ![j][c] = answer[j]]
  /\ UNCHANGED <<phase, answer>>

Close(j, listeners) ==
  /\ phase[j] = "answered"
  /\ \A c \in listeners : heard[j][c] = answer[j]
  /\ phase' = [phase EXCEPT ![j] = IF answer[j] = Failure THEN "failed" ELSE "done"]
  /\ UNCHANGED <<answer, heard>>

QueueNext ==
  \E j \in Jobs :
    \/ Submit(j)
    \/ \E a \in Results \cup {Failure} : Decide(j, a)
    \/ \E c \in Listeners : Tell(j, c)
    \/ \E listeners \in SUBSET Listeners \ {{}} : Close(j, listeners)

QueueSpec == QueueInit /\ [][QueueNext]_queueVars
=============================================================================
