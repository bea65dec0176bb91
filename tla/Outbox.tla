------------------------------- MODULE Outbox -------------------------------
(* One outgoing WhatsApp message of backend/apps/inbox: the row             *)
(* send_message stores, the dispatch_message tasks that may deliver it to   *)
(* Meta, the watchdog of stuck rows, and the delivery statuses Meta's       *)
(* webhooks apply to the row.  Each commit and each call to Meta is a step  *)
(* of its own, tasks may be delivered twice, workers may die anywhere, and  *)
(* a task that cannot be published is lost.                                 *)
EXTENDS Integers, FiniteSets

CONSTANTS
  Tasks,          \* dispatch_message tasks of the message, at most at once
  Reports,        \* the statuses Meta reports for it
  MaxSendRetries, \* MAX_SEND_RETRIES
  MaxWaits,       \* bound: times the limiter asks to wait
  MaxDeaths,      \* bound: workers killed
  MaxLost         \* bound: tasks lost, or delivered twice, by the broker

ReportedStatuses == {"sent", "delivered", "read", "failed"}

ASSUME OutboxAssumption ==
  /\ Reports \subseteq ReportedStatuses
  /\ MaxSendRetries \in Nat /\ MaxWaits \in Nat /\ MaxDeaths \in Nat /\ MaxLost \in Nat

VARIABLES
  status,    \* Message.status, "none" before the row is stored
  optedOut,  \* Message.error_code is one of POLICY_SKIP_CODES
  wamid,     \* Message.wamid is stored
  task,      \* where each dispatch_message task is
  retries,   \* task.request.retries
  accepted,  \* times Meta accepted the message
  news,      \* message_delivery_updated events not yet received
  waits, deaths, lost  \* counters of the bounds

row == <<status, optedOut, wamid>>
bounds == <<waits, deaths, lost>>
outboxVars == <<row, task, retries, accepted, news, bounds>>

MessageStatuses == {"none", "queued", "sending"} \cup ReportedStatuses

(* An event carries the status and the error code of the row.               *)
Event(s, out) == IF s = "failed" /\ out THEN "opted_out" ELSE s
Events == ReportedStatuses \cup {"opted_out"}

(* A task is working from its claim until its last update of the row.       *)
Working == {"claimed", "allowed", "accepted"}
TaskPlaces == {"none", "queued", "parted", "retrying", "telling"} \cup Working

OutboxTypeOK ==
  /\ status \in MessageStatuses /\ optedOut \in BOOLEAN /\ wamid \in BOOLEAN
  /\ task \in [Tasks -> TaskPlaces]
  /\ retries \in [Tasks -> 0 .. MaxSendRetries]
  /\ accepted \in Nat
  /\ news \subseteq Events
  /\ waits \in 0 .. MaxWaits /\ deaths \in 0 .. MaxDeaths /\ lost \in 0 .. MaxLost

OutboxInit ==
  /\ status = "none" /\ optedOut = FALSE /\ wamid = FALSE
  /\ task = [t \in Tasks |-> "none"]
  /\ retries = [t \in Tasks |-> 0]
  /\ accepted = 0 /\ news = {}
  /\ waits = 0 /\ deaths = 0 /\ lost = 0

Go(t, place) == task' = [task EXCEPT ![t] = place] /\ UNCHANGED retries
Ends(t) == task' = [task EXCEPT ![t] = "none"] /\ retries' = [retries EXCEPT ![t] = 0]

(* A task lost or doubled by the broker, a worker killed.                   *)
Mishap == lost < MaxLost /\ lost' = lost + 1 /\ UNCHANGED <<waits, deaths>>
Death == deaths < MaxDeaths /\ deaths' = deaths + 1 /\ UNCHANGED <<waits, lost>>

-----------------------------------------------------------------------------
(* send_message and enqueue: the row is stored and, on commit, a task is    *)
(* published (robust: a failure is logged).  The idempotency key lets       *)
(* nobody store it again.                                                   *)
Send ==
  /\ status = "none" /\ status' = "queued"
  /\ \E t \in Tasks : task[t] = "none" /\ \/ Go(t, "queued") /\ UNCHANGED bounds
                                          \/ UNCHANGED <<task, retries>> /\ Mishap
  /\ UNCHANGED <<optedOut, wamid, accepted, news>>

(* _claim. *)
Claim(t) ==
  /\ task[t] = "queued"
  /\ IF status = "queued"
     THEN status' = "sending" /\ Go(t, "claimed")
     ELSE UNCHANGED status /\ Ends(t)
  /\ UNCHANGED <<optedOut, wamid, accepted, news, bounds>>

(* _fail: only a row still being sent, then the event is told.              *)
Fail(t, out) ==
  /\ IF status = "sending"
     THEN status' = "failed" /\ optedOut' = out /\ Go(t, "telling")
     ELSE UNCHANGED <<status, optedOut>> /\ Ends(t)
  /\ UNCHANGED wamid

(* _release, before the task publishes its successor.                       *)
Release(t, place) ==
  /\ status' = IF status = "sending" THEN "queued" ELSE status
  /\ Go(t, place)
  /\ UNCHANGED <<optedOut, wamid>>

(* BUG of _retry_or_fail: one retry too many. *)
RetryOnceMore(t) ==
  \/ retries[t] <= MaxSendRetries /\ Release(t, "retrying")
  \/ Fail(t, FALSE)

(* _retry_or_fail. *)
RetryOrFail(t) ==
  \/ retries[t] < MaxSendRetries /\ Release(t, "retrying")
  \/ Fail(t, FALSE)

(* check_dispatch_policy refuses. *)
PolicyRefuses(t) ==
  /\ task[t] = "claimed"
  /\ \E out \in BOOLEAN : Fail(t, out)
  /\ UNCHANGED <<accepted, news, bounds>>

(* The limiter asks to wait. *)
LimiterWaits(t) ==
  /\ task[t] = "claimed" /\ waits < MaxWaits
  /\ Release(t, "parted")
  /\ waits' = waits + 1
  /\ UNCHANGED <<accepted, news, deaths, lost>>

Passes(t) ==
  /\ task[t] = "claimed"
  /\ Go(t, "allowed")
  /\ UNCHANGED <<row, accepted, news, bounds>>

(* apply_async with a countdown starts a task anew; task.retry counts.      *)
Publishes(t) ==
  /\ task[t] \in {"parted", "retrying"}
  /\ \/ /\ task' = [task EXCEPT ![t] = "queued"]
        /\ retries' = [retries EXCEPT ![t] = IF task[t] = "parted" THEN 0 ELSE @ + 1]
        /\ UNCHANGED bounds
     \/ Ends(t) /\ Mishap
  /\ UNCHANGED <<row, accepted, news>>

(* The media file is missing or its upload fails: nothing has been sent.    *)
UploadFails(t) ==
  /\ task[t] = "allowed"
  /\ RetryOrFail(t)
  /\ UNCHANGED <<accepted, news, bounds>>

(* Meta answers with an error and has sent nothing. *)
MetaRefuses(t) ==
  /\ task[t] = "allowed"
  /\ RetryOrFail(t)
  /\ UNCHANGED <<accepted, news, bounds>>

MetaAccepts(t) ==
  /\ task[t] = "allowed"
  /\ accepted' = accepted + 1
  /\ Go(t, "accepted")
  /\ UNCHANGED <<row, news, bounds>>

(* BUG of dispatch_message: a network error while sending is retried. *)
AnswerLostRetries(t) ==
  /\ task[t] = "accepted"
  /\ RetryOrFail(t)
  /\ UNCHANGED <<accepted, news, bounds>>

(* NetworkError, or an answer without an id: delivery is unknown.           *)
AnswerLost(t) ==
  /\ task[t] = "accepted"
  /\ Fail(t, FALSE)
  /\ UNCHANGED <<accepted, news, bounds>>

StoresWamid(t) ==
  /\ task[t] = "accepted"
  /\ IF status = "sending"
     THEN status' = "sent" /\ wamid' = TRUE /\ Go(t, "telling")
     ELSE UNCHANGED <<status, wamid>> /\ Ends(t)
  /\ UNCHANGED <<optedOut, accepted, news, bounds>>

(* refresh_from_db and emit_delivery_updated, which may tell a status a     *)
(* webhook stored meanwhile.                                                *)
Tells(t) ==
  /\ task[t] = "telling"
  /\ news' = news \cup {Event(status, optedOut)}
  /\ Ends(t)
  /\ UNCHANGED <<row, accepted, bounds>>

(* The worker is lost and its task delivered again (acks_late and           *)
(* reject_on_worker_lost), or the time limit ends the task for good (which  *)
(* for a task about to publish is a lost publication, see Publishes).       *)
Dies(t) ==
  /\ task[t] \notin {"none", "queued"}
  /\ \/ Go(t, "queued")
     \/ task[t] \notin {"parted", "retrying"} /\ Ends(t)
  /\ Death
  /\ UNCHANGED <<row, accepted, news>>

(* The broker delivers a waiting task twice (visibility_timeout).           *)
DeliveredTwice(t, u) ==
  /\ task[t] = "queued" /\ task[u] = "none"
  /\ task' = [task EXCEPT ![u] = "queued"]
  /\ retries' = [retries EXCEPT ![u] = retries[t]]
  /\ Mishap
  /\ UNCHANGED <<row, accepted, news>>

(* BUG of fail_stuck_messages: the rows that wait to be sent are failed. *)
FailQueued ==
  /\ status = "queued" /\ \A t \in Tasks : task[t] \notin Working
  /\ status' = "failed" /\ optedOut' = FALSE
  /\ news' = news \cup {"failed"}
  /\ UNCHANGED <<wamid, task, retries, accepted, bounds>>

(* fail_stuck_messages: after 15 minutes, when CELERY_TASK_TIME_LIMIT (five *)
(* minutes) has ended the task that claimed the row.                        *)
FailStuck ==
  /\ status = "sending" /\ \A t \in Tasks : task[t] \notin Working
  /\ status' = "failed" /\ optedOut' = FALSE
  /\ news' = news \cup {"failed"}
  /\ UNCHANGED <<wamid, task, retries, accepted, bounds>>

-----------------------------------------------------------------------------
(* _target_status: sent < delivered < read; failed beats what is not        *)
(* delivered yet, and a later delivered or read beats failed.               *)
Rank == [s \in {"sent", "delivered", "read"} |->
           CASE s = "sent" -> 1 [] s = "delivered" -> 2 [] s = "read" -> 3]

(* BUG of _target_status: the status reported last is stored. *)
LatestStatus(current, new) == new

TargetStatus(current, new) ==
  CASE new = "failed" -> IF current \in {"delivered", "read"} THEN current ELSE "failed"
    [] new # "failed" /\ current = "failed" -> IF new = "sent" THEN "failed" ELSE new
    [] new # "failed" /\ current \in DOMAIN Rank ->
         IF Rank[new] > Rank[current] THEN new ELSE current
    [] OTHER -> new

(* apply_status, on the row found by its wamid and locked; the event is     *)
(* emitted on commit, if the worker lives.                                  *)
ApplyStatus(s, told) ==
  /\ wamid
  /\ status' = TargetStatus(status, s)
  /\ optedOut' = (optedOut /\ status' = status)
  /\ news' = IF told /\ status' # status THEN news \cup {status'} ELSE news
  /\ UNCHANGED <<wamid, task, retries, accepted>>

Dispatch(t) ==
  \/ Claim(t) \/ PolicyRefuses(t) \/ LimiterWaits(t) \/ Passes(t) \/ Publishes(t)
  \/ UploadFails(t) \/ MetaRefuses(t) \/ MetaAccepts(t)
  \/ AnswerLost(t) \/ StoresWamid(t) \/ Tells(t)

Sending ==
  \/ Send \/ FailStuck
  \/ \E t \in Tasks : Dispatch(t) \/ Dies(t)
  \/ \E t, u \in Tasks : DeliveredTwice(t, u)

(* What the webhooks and the receivers of the events do to the outbox.      *)
StatusApplied ==
  \E s \in Reports, told \in BOOLEAN : ApplyStatus(s, told) /\ UNCHANGED bounds

EventReceived ==
  /\ \E n \in news : news' = news \ {n}
  /\ UNCHANGED <<row, task, retries, accepted, bounds>>

OutboxNext == Sending \/ StatusApplied \/ EventReceived

OutboxSpec == OutboxInit /\ [][OutboxNext]_outboxVars

-----------------------------------------------------------------------------
(* PROPERTIES *)

(* Whatever is delivered twice, retried, released, killed or failed by the  *)
(* watchdog, the customer receives the message at most once.                *)
SentAtMostOnce == accepted <= 1

(* The argument: at most one task works on the row, and only while it is    *)
(* sending or has just been failed; once Meta has accepted the message no   *)
(* task can get hold of the row again.                                      *)
OutboxInv ==
  /\ \A t \in Tasks : task[t] = "retrying" => retries[t] < MaxSendRetries
  /\ \A t \in Tasks : task[t] = "telling" => status \in ReportedStatuses
  /\ \A t, u \in Tasks : task[t] \in Working /\ task[u] \in Working => t = u
  /\ \A t \in Tasks : task[t] \in Working => status = "sending"
  /\ accepted <= 1
  /\ \A t \in Tasks : task[t] = "accepted" => accepted = 1
  /\ accepted = 1 => /\ status \notin {"none", "queued"}
                     /\ \A t \in Tasks : task[t] \notin {"claimed", "allowed"}
  /\ wamid => accepted = 1 /\ status \in ReportedStatuses
=============================================================================
