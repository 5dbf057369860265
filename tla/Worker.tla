------------------------------- MODULE Worker -------------------------------
(***************************************************************************)
(* The background thread of ai_service/worker.py, one action per call that *)
(* reads or writes the store or talks to another service.                  *)
(*                                                                         *)
(*   run_once:  list_delivering, then _deliver of each job of that list,   *)
(*              then next_pending and _process of that job                 *)
(*   run_forever: run_once again and again; a raised error backs off       *)
(*                                                                         *)
(* What the channels (BPM's result endpoint, the SMTP server) have         *)
(* accepted is the variable `got`, outside the process.                    *)
(***************************************************************************)
EXTENDS JobStore

CONSTANTS
  MaxRetries,     \* MAX_RETRIES
  OverflowStep,   \* the Backoff step whose delay no float can hold (1024 in the code),
                  \* or NoOverflow: every outage is shorter than that many cycles
  Unparsable,     \* URLs parse_call_record_url rejects
  Unprocessable,  \* URLs that parse but whose processing always raises another exception
  Unsendable,     \* ids whose delivery raises something other than InfrastructureError
  Failure,        \* the body of a failure notice
  MaxLost         \* bound: how many acknowledgements of a channel may get lost

ASSUME RetriesAssumption == MaxRetries \in Nat \ {0}
NoOverflow == -1

ASSUME OverflowAssumption == OverflowStep \in Nat \cup {NoOverflow}
ASSUME InputAssumption == Unparsable \cup Unprocessable \subseteq Urls /\ Unsendable \subseteq Ids
ASSUME FailureAssumption == Failure \notin Texts
ASSUME LostAssumption == MaxLost \in Nat

Config == [ enabled : SUBSET Channels \ {{}},   \* bpm_enabled, email_enabled
            mailbox : Mailboxes ]               \* what the routing table selects

Held == [id : Ids, row : Row]       \* a Job record in the worker's hands
Idle == [id |-> -1]

Message == [body : Texts \cup {Failure}, to : Mailboxes \cup {"bpm"}]

VARIABLES
  cfg,      \* the configuration the process was started with
  pc,       \* the call the worker thread makes next
  batch,    \* the rest of run_once's list_delivering() snapshot
  hand,     \* the job being delivered or processed, as it was when it was read
  todo,     \* the channels _deliver still has to visit
  worked,   \* run_once's local `worked`
  refused,  \* run_once's local `delivery_error` is set
  step,     \* Backoff._step
  got,      \* per job and channel, the messages accepted since the job was last queued
  lost      \* how many acknowledgements have been lost so far

threadVars == <<pc, batch, hand, todo, worked, refused, step>>
channelVars == <<got, lost>>
workerVars == <<cfg, threadVars, channelVars>>

Pcs == {"cycle", "deliver", "send", "mark", "close", "pick", "start", "work",
        "again", "giveup", "dead"}
Holding == {"send", "mark", "close", "start", "work", "again", "giveup"}

WorkerTypeOK ==
  /\ cfg \in Config
  /\ pc \in Pcs
  /\ DOMAIN batch \subseteq Ids
  /\ batch \in [DOMAIN batch -> Row]
  /\ IF pc \in Holding THEN hand \in Held ELSE hand = Idle
  /\ todo \subseteq Channels
  /\ worked \in BOOLEAN
  /\ refused \in BOOLEAN
  /\ step \in Nat
  /\ got \in [Ids -> [Channels -> Seq(Message)]]
  /\ lost \in 0 .. MaxLost

Empty == [j \in {} |-> Idle]        \* the snapshot is used up

WorkerInit ==
  /\ pc = "cycle" /\ batch = Empty /\ hand = Idle /\ todo = {}
  /\ worked = FALSE /\ refused = FALSE /\ step = 0
  /\ got = [j \in Ids |-> [c \in Channels |-> <<>>]]
  /\ lost = 0

\* a new thread enters run_forever: nothing of the old one is left
WorkerRestarts ==
  /\ pc' = "cycle" /\ batch' = Empty /\ hand' = Idle /\ todo' = {}
  /\ worked' = FALSE /\ refused' = FALSE /\ step' = 0

-----------------------------------------------------------------------------
(* The ends of run_once.                                                   *)

ForgetKeepsHand == batch' = Empty /\ todo' = {} /\ UNCHANGED <<hand, worked, refused>>

Forget == batch' = Empty /\ hand' = Idle /\ todo' = {} /\ UNCHANGED <<worked, refused>>

CycleReturns == pc' = "cycle" /\ step' = 0 /\ Forget

\* Backoff.next: its power of two no longer converts to a float at OverflowStep, the
\* OverflowError leaves the except clause and run_forever with it, the thread is gone
CycleRaises ==
  /\ pc' = IF step = OverflowStep THEN "dead" ELSE "cycle"
  /\ step' = IF step = OverflowStep \/ OverflowStep = NoOverflow THEN step ELSE step + 1
  /\ Forget

\* run_once goes on with the next job of the snapshot
NextOfBatch(w, r) ==
  /\ pc' = "deliver" /\ hand' = Idle /\ todo' = {}
  /\ worked' = w /\ refused' = r
  /\ UNCHANGED <<batch, step>>

-----------------------------------------------------------------------------
(* The delivery loop.                                                      *)

ReadDelivering ==
  /\ pc = "cycle"
  /\ pc' = "deliver" /\ batch' = ListDelivering
  /\ worked' = FALSE /\ refused' = FALSE
  /\ UNCHANGED <<storeVars, cfg, hand, todo, step, channelVars>>

\* _deliver is called with the next job of the snapshot
Deliver ==
  /\ pc = "deliver"
  /\ \E j \in DOMAIN batch :
       /\ IsOldest(j, DOMAIN batch)
       /\ hand' = [id |-> j, row |-> batch[j]]
       /\ batch' = [k \in DOMAIN batch \ {j} |-> batch[k]]
       /\ todo' = cfg.enabled \ batch[j].delivered
  /\ pc' = "send"
  /\ UNCHANGED <<storeVars, cfg, worked, refused, step, channelVars>>

\* _channels: BPM first, then e-mail
Channel == IF "bpm" \in todo THEN "bpm" ELSE "email"

\* a delivering job without a transcript is a failure to be notified
IsError == hand.row.text = NoText

Content == [body |-> IF IsError THEN Failure ELSE hand.row.text,
            to   |-> IF Channel = "email" THEN cfg.mailbox ELSE "bpm"]

Accepted == got' = [got EXCEPT ![hand.id][Channel] = Append(@, Content)]

Sending == pc = "send" /\ todo # {}

\* the channel accepts the message and the worker hears it
SendAccepted ==
  /\ Sending /\ hand.id \notin Unsendable
  /\ Accepted
  /\ pc' = "mark"
  /\ UNCHANGED <<storeVars, cfg, batch, hand, todo, worked, refused, step, lost>>

\* the channel accepts the message and the answer is lost: InfrastructureError
SendAckLost ==
  /\ Sending /\ hand.id \notin Unsendable /\ lost < MaxLost
  /\ Accepted
  /\ lost' = lost + 1
  /\ NextOfBatch(worked, TRUE)
  /\ UNCHANGED <<storeVars, cfg>>

\* the channel is down or refuses: InfrastructureError, run_once goes on with the next job
SendRefused ==
  /\ Sending /\ hand.id \notin Unsendable
  /\ NextOfBatch(worked, TRUE)
  /\ UNCHANGED <<storeVars, cfg, channelVars>>

\* any other exception leaves run_once
SendBreaks ==
  /\ Sending /\ hand.id \in Unsendable
  /\ CycleRaises
  /\ UNCHANGED <<storeVars, cfg, channelVars>>

Mark ==
  /\ pc = "mark"
  /\ MarkDeliveredTo(hand.id, Channel)
  /\ todo' = todo \ {Channel}
  /\ pc' = "send"
  /\ UNCHANGED <<objects, now, cfg, batch, hand, worked, refused, step, channelVars>>

\* every channel has accepted a failure
SettleFailed ==
  /\ pc = "send" /\ todo = {} /\ IsError
  /\ SetStatus(hand.id, "failed")
  /\ NextOfBatch(TRUE, refused)
  /\ UNCHANGED <<objects, now, cfg, channelVars>>

RouteEarly ==
  /\ pc = "send" /\ ~IsError
  /\ SetRouting(hand.id, IF "email" \in cfg.enabled THEN cfg.mailbox ELSE Nobody)
  /\ pc' = "close"
  /\ UNCHANGED <<objects, now, cfg, batch, hand, todo, worked, refused, step, channelVars>>

\* every channel has accepted a result: route_message and set_routing
Route ==
  /\ pc = "send" /\ todo = {} /\ ~IsError
  /\ SetRouting(hand.id, IF "email" \in cfg.enabled THEN cfg.mailbox ELSE Nobody)
  /\ pc' = "close"
  /\ UNCHANGED <<objects, now, cfg, batch, hand, todo, worked, refused, step, channelVars>>

SettleDone ==
  /\ pc = "close"
  /\ SetStatus(hand.id, "done")
  /\ NextOfBatch(TRUE, refused)
  /\ UNCHANGED <<objects, now, cfg, channelVars>>

DeliveriesDone ==
  /\ pc = "deliver" /\ DOMAIN batch = {}
  /\ pc' = "pick"
  /\ UNCHANGED <<storeVars, cfg, batch, hand, todo, worked, refused, step, channelVars>>

-----------------------------------------------------------------------------
(* The processing of one job.                                              *)

\* next_pending finds nothing: run_once raises the delivery error or returns
PickNothing ==
  /\ pc = "pick" /\ Pending = {}
  /\ IF ~worked /\ refused THEN CycleRaises ELSE CycleReturns
  /\ UNCHANGED <<storeVars, cfg, channelVars>>

Pick ==
  /\ pc = "pick"
  /\ \E j \in Pending : IsOldest(j, Pending) /\ hand' = [id |-> j, row |-> jobs[j]]
  /\ pc' = "start"
  /\ UNCHANGED <<storeVars, cfg, batch, todo, worked, refused, step, channelVars>>

\* set_status(processing), then parse_call_record_url of the URL read by next_pending
StartProcessing ==
  /\ pc = "start"
  /\ SetStatus(hand.id, "processing")
  /\ pc' = IF hand.row.url \in Unparsable THEN "giveup" ELSE "work"
  /\ UNCHANGED <<objects, now, cfg, batch, hand, todo, worked, refused, step, channelVars>>

\* download, transcribe_file and summarize succeed; set_result
Transcribe(w) ==
  /\ pc = "work" /\ hand.row.url \notin Unprocessable
  /\ SetResult(hand.id, [url |-> hand.row.url, words |-> w])
  /\ CycleReturns
  /\ UNCHANGED <<objects, now, cfg, channelVars>>

\* one of them raises InfrastructureError, or anything but a PermanentJobError:
\* the job stays `processing` and the error reaches run_forever
WorkInterrupted ==
  /\ pc = "work"
  /\ CycleRaises
  /\ UNCHANGED <<storeVars, cfg, channelVars>>

PermanentErrorGivesUpEarly ==
  /\ pc = "work" /\ hand.row.url \notin Unprocessable
  /\ IncrementAttempts(hand.id)
  /\ pc' = IF jobs[hand.id].attempts + 2 >= MaxRetries THEN "giveup" ELSE "again"
  /\ UNCHANGED <<objects, now, cfg, batch, hand, todo, worked, refused, step, channelVars>>

\* one of them raises PermanentJobError
PermanentError ==
  /\ pc = "work" /\ hand.row.url \notin Unprocessable
  /\ IncrementAttempts(hand.id)
  /\ pc' = IF jobs[hand.id].attempts + 1 >= MaxRetries THEN "giveup" ELSE "again"
  /\ UNCHANGED <<objects, now, cfg, batch, hand, todo, worked, refused, step, channelVars>>

TryAgainLater ==
  /\ pc = "again"
  /\ SetStatus(hand.id, "queued")
  /\ CycleReturns
  /\ UNCHANGED <<objects, now, cfg, channelVars>>

GiveUp ==
  /\ pc = "giveup"
  /\ SetFailedResult(hand.id)
  /\ CycleReturns
  /\ UNCHANGED <<objects, now, cfg, channelVars>>

WorkerNext ==
  \/ ReadDelivering \/ Deliver
  \/ SendAccepted \/ SendAckLost \/ SendRefused \/ SendBreaks
  \/ Mark \/ SettleFailed \/ Route \/ SettleDone \/ DeliveriesDone
  \/ PickNothing \/ Pick \/ StartProcessing
  \/ \E w \in Words : Transcribe(w)
  \/ WorkInterrupted \/ PermanentError \/ TryAgainLater \/ GiveUp
=============================================================================
