------------------------------ MODULE Delivery ------------------------------
(* A campaign message on its way: the outbox that sends it, Meta, which     *)
(* reports its statuses in any order from the moment it accepted it, the    *)
(* webhook inbox the reports go through, the inbox receiver that looks for  *)
(* the message of a report while the outbox may still be storing its wamid, *)
(* and the campaign's recipient, which hears of each change by events that  *)
(* overtake one another.                                                    *)
EXTENDS Outbox, WebhookInbox

CONSTANT MaxFaults  \* bound: workers killed, tasks lost or doubled, and waits, in all

(* Every status is reported in a delivery of its own.                       *)
ASSUME DeliveryAssumption == Deliveries = Reports /\ MaxFaults \in Nat

VARIABLES
  look,      \* what on_message_status has found out in each task
  recent,    \* the report is younger than UNKNOWN_WAMID_RETRY_WINDOW
  applied,   \* the reports whose message was found
  recipient  \* CampaignRecipient.status

receiverVars == <<look, recent, applied, recipient>>
deliveryVars == <<outboxVars, inboxVars, receiverVars>>

DeliveryTypeOK ==
  /\ OutboxTypeOK /\ InboxTypeOK
  /\ look \in [Reports -> [Slots -> {"first", "doubt", "again"}]]
  /\ recent \in [Reports -> BOOLEAN]
  /\ applied \subseteq Reports
  /\ recipient \in {"queued", "skipped"} \cup ReportedStatuses

DeliveryInit ==
  /\ OutboxInit /\ InboxInit
  /\ look = [s \in Reports |-> [k \in Slots |-> "first"]]
  /\ recent = [s \in Reports |-> TRUE]
  /\ applied = {}
  /\ recipient = "queued"

Looks(s, k, found) == look' = [look EXCEPT ![s][k] = found]

WithinFaults == (waits + deaths + lost + kills + unpublished)' <= MaxFaults

OnlyOutbox == UNCHANGED <<inboxVars, receiverVars>> /\ WithinFaults
OnlyInbox == UNCHANGED <<outboxVars, receiverVars>> /\ WithinFaults

(* The outbox's own steps. *)
OutboxRuns == Sending /\ OnlyOutbox

(* Meta reports a status of a message it has accepted. *)
MetaReports(s) ==
  /\ accepted > 0
  /\ Receive(s)
  /\ OnlyInbox

(* The countdowns of the retries add up to 31 minutes, so the last one runs *)
(* when the report has left the window.                                     *)
TaskRuns(s, k) ==
  /\ job[s][k] = "queued" /\ tries[s][k] = MaxRetries => ~recent[s]
  /\ Process(s, k)
  /\ Looks(s, k, "first")
  /\ UNCHANGED <<outboxVars, recent, applied, recipient>>
  /\ WithinFaults

TaskDies(s, k) == WorkerDies(s, k) /\ OnlyInbox

BeatRequeues(s) == RequeueStuck(s) /\ OnlyInbox

(* Ten minutes after the report: CELERY_TASK_TIME_LIMIT (five minutes) has  *)
(* ended the task that sent the message.  A processed report has no further *)
(* use of its age.                                                          *)
WindowPasses(s) ==
  /\ recent[s] /\ delivery[s] \notin {"none", "processed"}
  /\ \A t \in Tasks : task[t] # "accepted"
  /\ recent' = [recent EXCEPT ![s] = FALSE]
  /\ UNCHANGED <<outboxVars, inboxVars, look, applied, recipient>>

-----------------------------------------------------------------------------
(* on_message_status, statement by statement: each reads what is committed. *)

Running(s, k, found) == job[s][k] = "running" /\ look[s][k] = found

(* The row is found and locked, and the status applied and told.            *)
AppliesStatus(s, k) ==
  /\ job[s][k] = "running" /\ look[s][k] # "doubt"
  /\ ApplyStatus(s, TRUE)
  /\ Handled(s, k, "processed")
  /\ applied' = applied \cup {s}
  /\ UNCHANGED <<bounds, look, recent, recipient>>

(* The same, and the worker dies before the event is told.                  *)
AppliesStatusAndDies(s, k) ==
  /\ job[s][k] = "running" /\ look[s][k] # "doubt"
  /\ ApplyStatus(s, FALSE)
  /\ WorkerDies(s, k)
  /\ applied' = applied \cup {s}
  /\ UNCHANGED <<bounds, look, recent, recipient>>
  /\ WithinFaults

FindsNothing(s, k) ==
  /\ Running(s, k, "first") /\ ~wamid
  /\ Looks(s, k, "doubt")
  /\ UNCHANGED <<outboxVars, inboxVars, recent, applied, recipient>>

(* BUG of on_message_status: no second look for the message. *)
IgnoresAtOnce(s, k) ==
  /\ Running(s, k, "doubt")
  /\ \/ /\ recent[s]
        /\ Handled(s, k, "erred")
     \/ /\ status # "sending" \/ ~recent[s]
        /\ Handled(s, k, "processed")
  /\ UNCHANGED <<outboxVars, receiverVars>>

(* _wamid_may_still_arrive: this message, or another of the number, is      *)
(* being sent; the task fails and is retried.                               *)
Doubts(s, k) ==
  /\ Running(s, k, "doubt")
  /\ \/ /\ recent[s]
        /\ Handled(s, k, "erred")
        /\ UNCHANGED look
     \/ /\ status # "sending" \/ ~recent[s]
        /\ Looks(s, k, "again")
        /\ UNCHANGED inboxVars
  /\ UNCHANGED <<outboxVars, recent, applied, recipient>>

(* The second look finds nothing either: not a message of ours.             *)
Ignores(s, k) ==
  /\ Running(s, k, "again") /\ ~wamid
  /\ Handled(s, k, "processed")
  /\ UNCHANGED <<outboxVars, receiverVars>>

Receives(s, k) ==
  \/ AppliesStatus(s, k) \/ FindsNothing(s, k) \/ Doubts(s, k) \/ Ignores(s, k)

-----------------------------------------------------------------------------
(* campaigns apply_delivery_update. *)

RecipientRank == [s \in {"queued"} \cup DOMAIN Rank |-> IF s = "queued" THEN 0 ELSE Rank[s]]

RecipientTarget(current, event) ==
  CASE current = "skipped" -> "skipped"
    [] event \in {"opted_out", "failed"} /\ current # "skipped" ->
         CASE current = "queued" /\ event = "opted_out" -> "skipped"
           [] current \in {"delivered", "read"} -> current
           [] OTHER -> "failed"
    [] event \in {"sent", "delivered", "read"} /\ current = "failed" ->
         IF event = "sent" THEN "failed" ELSE event
    [] OTHER -> IF RecipientRank[event] > RecipientRank[current] THEN event ELSE current

(* BUG of apply_delivery_update: the recipient takes the status told last. *)
HearsLatest ==
  /\ \E n \in news : /\ news' = news \ {n}
                     /\ recipient' = IF n = "opted_out" THEN "skipped" ELSE n
  /\ UNCHANGED <<row, task, retries, accepted, bounds, inboxVars, look, recent, applied>>

RecipientHears ==
  /\ \E n \in news : news' = news \ {n} /\ recipient' = RecipientTarget(recipient, n)
  /\ UNCHANGED <<row, task, retries, accepted, bounds, inboxVars, look, recent, applied>>

DeliveryNext ==
  \/ OutboxRuns \/ RecipientHears
  \/ \E s \in Reports : MetaReports(s) \/ BeatRequeues(s) \/ WindowPasses(s)
  \/ \E s \in Reports, k \in Slots :
       \/ TaskRuns(s, k) \/ TaskDies(s, k)
       \/ Receives(s, k) \/ AppliesStatusAndDies(s, k)

DeliverySpec == DeliveryInit /\ [][DeliveryNext]_deliveryVars

(* Celery runs what is queued, the beat its passes, a process its           *)
(* callbacks; time passes.  Meta need not report anything.                  *)
DeliveryGoesOn ==
  \/ \E t \in Tasks : Dispatch(t) /\ OnlyOutbox
  \/ FailStuck /\ OnlyOutbox
  \/ RecipientHears
  \/ \E s \in Reports :
       \/ WindowPasses(s) \/ BeatRequeues(s)
       \/ \E k \in Slots : TaskRuns(s, k) \/ Receives(s, k)

(* There is no endless supply of such steps, so it is enough that some step *)
(* is taken as long as there is one.                                        *)
DeliveryFairness == WF_deliveryVars(DeliveryGoesOn)

FairDeliverySpec == DeliverySpec /\ DeliveryFairness

-----------------------------------------------------------------------------
(* PROPERTIES *)

(* The furthest of a set of reports, whatever the order they came in.       *)
Furthest(S) ==
  CASE "read" \in S -> "read"
    [] "read" \notin S /\ "delivered" \in S -> "delivered"
    [] S \cap {"read", "delivered"} = {} /\ "failed" \in S -> "failed"
    [] OTHER -> "sent"

(* The row of a message that was sent shows the furthest status of those    *)
(* applied, in whatever order the webhooks were handled.                    *)
StatusIsFurthest == wamid => status = Furthest(applied)

(* A report handled while the outbox was storing the wamid is not lost: a   *)
(* delivery marked processed was applied if its message is, or ever         *)
(* becomes, known by its wamid.                                             *)
NoReportIgnored ==
  \A s \in Reports : delivery[s] = "processed" /\ wamid => s \in applied

(* Every report is applied in the end, unless the answer of Meta was lost   *)
(* with the wamid or the broker refused a retry.  (A report once stored     *)
(* stays, so "again and again" is "in the end".)                            *)
ReportsArrive ==
  \A s \in Reports :
    []<>(delivery[s] # "none" =>
           s \in applied \/ s \in abandoned \/ (delivery[s] = "processed" /\ ~wamid))

(* A message that was stored is sent or fails, however often workers die,   *)
(* unless the broker lost its task.                                         *)
MessageSettles == []<>(status # "none" => status \in ReportedStatuses \/ lost > 0)

(* The recipient ends with the status of its message, although events       *)
(* overtake one another; only a worker that dies before it tells, or a lost *)
(* task, leaves it behind.                                                  *)
Mirrors ==
  recipient = IF status \in {"none", "queued", "sending"} THEN "queued"
              ELSE IF Event(status, optedOut) = "opted_out" THEN "skipped" ELSE status

RecipientCatchesUp == <>[](Mirrors \/ deaths > 0 \/ kills > 0 \/ lost > 0)
=============================================================================
