------------------------------ MODULE JobStore ------------------------------
(***************************************************************************)
(* The durable job queue of ai_service/db.py: the two SQLite tables and    *)
(* the operations of class JobStore.  Every method holds the store's lock  *)
(* from its first statement to its commit, so each is one atomic step of   *)
(* the modules that use it.  The rows survive a restart of the process;    *)
(* nothing else in the service does.                                       *)
(*                                                                         *)
(* full_text and summary are always written together and are one value     *)
(* here, a transcript: the recording it was made from and what was heard.  *)
(***************************************************************************)
EXTENDS Integers, FiniteSets, Sequences

CONSTANTS
  Ids,          \* call_record_id values; their order is the tie-break of created_at
  Urls,         \* call_record_url values
  Words,        \* what a transcription may hear (one of them is the empty transcript)
  NoText,       \* full_text IS NULL
  Mailboxes,    \* recipient lists the routing table can select
  Nobody,       \* emailed_to of a job routed while e-mail was off
  NotRouted,    \* route_by = '': the job has not been routed
  Keys,         \* object keys of the scanned bucket
  KeyId,        \* call_record_id_for: the id derived from a key
  KeyUrl        \* object_url: the URL derived from a key

Texts == [url : Urls, words : Words]

ASSUME IdsAssumption == Ids \subseteq Nat
ASSUME TextAssumption == NoText \notin Texts
ASSUME RoutedAssumption == Nobody \notin Mailboxes /\ NotRouted \notin Mailboxes \cup {Nobody}
ASSUME KeysAssumption == KeyId \in [Keys -> Ids] /\ KeyUrl \in [Keys -> Urls]

Channels == {"bpm", "email"}

Status == {"queued", "processing", "delivering", "done", "failed"}

Row == [ status    : Status,
         url       : Urls,
         attempts  : Nat,
         error     : BOOLEAN,                 \* error IS NOT NULL
         text      : Texts \cup {NoText},
         delivered : SUBSET Channels,         \* delivered_to
         emailed   : Mailboxes \cup {Nobody, NotRouted},
         created   : Nat ]                    \* created_at

VARIABLES
  jobs,     \* table jobs: a function from the ids present to their rows
  objects,  \* table s3_objects: the keys already turned into jobs
  now       \* the clock read for created_at; every reading is later than the last

storeVars == <<jobs, objects, now>>

StoreTypeOK ==
  /\ DOMAIN jobs \subseteq Ids
  /\ jobs \in [DOMAIN jobs -> Row]
  /\ objects \subseteq Keys
  /\ now \in Nat

-----------------------------------------------------------------------------
(* The queries.                                                            *)

\* ORDER BY created_at, call_record_id
Before(j, k) == \/ jobs[j].created < jobs[k].created
                \/ jobs[j].created = jobs[k].created /\ j < k

IsOldest(j, S) == j \in S /\ \A k \in S \ {j} : Before(j, k)

WithStatus(S) == {j \in DOMAIN jobs : jobs[j].status \in S}

PendingForgetsProcessing == WithStatus({"queued"})
PendingSeesDelivering == WithStatus({"queued", "processing", "delivering"})

Pending == WithStatus({"queued", "processing"})

\* the frozen Job records that the caller keeps while the table moves on
ListDelivering == [j \in WithStatus({"delivering"}) |-> jobs[j]]

-----------------------------------------------------------------------------
(* The updates: each is one UPDATE or INSERT and its commit.               *)

Queued(u, stamp) ==
  [ status |-> "queued", url |-> u, attempts |-> 0, error |-> FALSE, text |-> NoText,
    delivered |-> {}, emailed |-> NotRouted, created |-> stamp ]

Insert(j, row) == jobs' = [k \in DOMAIN jobs \cup {j} |-> IF k = j THEN row ELSE jobs[k]]

Update(j, row) == jobs' = [jobs EXCEPT ![j] = row]

\* enqueue of an id the table does not hold
EnqueueNew(j, u) ==
  /\ j \notin DOMAIN jobs
  /\ Insert(j, Queued(u, now))
  /\ now' = now + 1
  /\ UNCHANGED objects

RequeueAnyButDone(j, u) ==
  /\ j \in DOMAIN jobs
  /\ jobs[j].status # "done"
  /\ Update(j, [jobs[j] EXCEPT !.url = u, !.status = "queued", !.attempts = 0, !.error = FALSE])
  /\ UNCHANGED <<objects, now>>

RequeueKeepsAttempts(j, u) ==
  /\ j \in DOMAIN jobs
  /\ jobs[j].status = "failed"
  /\ Update(j, [jobs[j] EXCEPT !.url = u, !.status = "queued", !.error = FALSE])
  /\ UNCHANGED <<objects, now>>

\* enqueue of a failed job: delivered_to and created_at keep their old values
Requeue(j, u) ==
  /\ j \in DOMAIN jobs
  /\ jobs[j].status = "failed"
  /\ Update(j, [jobs[j] EXCEPT !.url = u, !.status = "queued", !.attempts = 0, !.error = FALSE])
  /\ UNCHANGED <<objects, now>>

\* enqueue of a job in any other status: nothing is written
EnqueueKnown(j) ==
  /\ j \in DOMAIN jobs
  /\ jobs[j].status # "failed"
  /\ UNCHANGED storeVars

DiscoveredReplaces(k, stamp) ==
  /\ objects' = objects \cup {k}
  /\ IF k \in objects THEN UNCHANGED jobs
                      ELSE Insert(KeyId[k], Queued(KeyUrl[k], stamp))

\* enqueue_discovered: INSERT OR IGNORE into both tables; `stamp` was read before the lock
EnqueueDiscovered(k, stamp) ==
  /\ objects' = objects \cup {k}
  /\ IF k \in objects \/ KeyId[k] \in DOMAIN jobs
       THEN UNCHANGED jobs
       ELSE Insert(KeyId[k], Queued(KeyUrl[k], stamp))

SetStatus(j, s) == Update(j, [jobs[j] EXCEPT !.status = s])

SetResult(j, t) ==
  Update(j, [jobs[j] EXCEPT !.text = t, !.error = FALSE, !.delivered = {},
                            !.emailed = NotRouted, !.status = "delivering"])

SetFailedResultKeepsDelivered(j) ==
  Update(j, [jobs[j] EXCEPT !.error = TRUE, !.status = "delivering"])

\* full_text stays NULL: that is what tells a failure from a result later
SetFailedResult(j) ==
  Update(j, [jobs[j] EXCEPT !.error = TRUE, !.delivered = {}, !.status = "delivering"])

MarkNothing(j, c) == UNCHANGED jobs

MarkDeliveredTo(j, c) == Update(j, [jobs[j] EXCEPT !.delivered = @ \cup {c}])

IncrementAttempts(j) == Update(j, [jobs[j] EXCEPT !.attempts = @ + 1, !.error = TRUE])

SetRouting(j, to) == Update(j, [jobs[j] EXCEPT !.emailed = to])
=============================================================================
