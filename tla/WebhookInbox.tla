---------------------------- MODULE WebhookInbox ----------------------------
(* Meta's webhook deliveries in backend/apps/webhooks: each is stored once, *)
(* a process_event task claims it, emits its events to the receivers and    *)
(* finishes it, failed ones are retried, and requeue_stuck_events picks up  *)
(* what a dead worker or the broker lost.  Whether the receivers succeed is *)
(* the environment's choice here.                                           *)
EXTENDS Integers, FiniteSets

CONSTANTS
  Deliveries,     \* the distinct bodies Meta posts
  Slots,          \* process_event tasks of a delivery, at most at once
  MaxRetries,     \* MAX_RETRIES
  MaxWorkerDeaths,    \* bound: workers killed
  MaxUnpublished      \* bound: tasks the broker does not accept

ASSUME InboxAssumption ==
  MaxRetries \in Nat /\ MaxWorkerDeaths \in Nat /\ MaxUnpublished \in Nat

VARIABLES
  delivery,   \* WebhookEvent.status, "none" before it is stored
  attempts,   \* WebhookEvent.attempts
  job,        \* where each process_event task is
  tries,      \* task.request.retries
  abandoned,  \* unparseable deliveries, and those whose retry was not accepted
  kills, unpublished  \* counters of the bounds

inboxBounds == <<kills, unpublished>>
inboxVars == <<delivery, attempts, job, tries, abandoned, inboxBounds>>

DeliveryStatuses == {"none", "received", "processing", "processed", "unroutable", "failed"}
Outcomes == {"processed", "unroutable", "unparsed", "erred"}
JobPlaces == {"none", "queued", "running", "retrying"} \cup Outcomes

InboxTypeOK ==
  /\ delivery \in [Deliveries -> DeliveryStatuses]
  /\ attempts \in [Deliveries -> 0 .. MaxRetries + 1]
  /\ job \in [Deliveries -> [Slots -> JobPlaces]]
  /\ tries \in [Deliveries -> [Slots -> 0 .. MaxRetries]]
  /\ abandoned \subseteq Deliveries
  /\ kills \in 0 .. MaxWorkerDeaths /\ unpublished \in 0 .. MaxUnpublished

InboxInit ==
  /\ delivery = [e \in Deliveries |-> "none"]
  /\ attempts = [e \in Deliveries |-> 0]
  /\ job = [e \in Deliveries |-> [k \in Slots |-> "none"]]
  /\ tries = [e \in Deliveries |-> [k \in Slots |-> 0]]
  /\ abandoned = {}
  /\ kills = 0 /\ unpublished = 0

Put(e, k, place) == job' = [job EXCEPT ![e][k] = place] /\ UNCHANGED tries
Over(e, k) == job' = [job EXCEPT ![e][k] = "none"] /\ tries' = [tries EXCEPT ![e][k] = 0]
(* Attempts are counted as far as the properties tell them apart. *)
CountAttempt(e) ==
  attempts' = [attempts EXCEPT ![e] = IF @ > MaxRetries THEN @ ELSE @ + 1]
Becomes(e, s) == delivery' = [delivery EXCEPT ![e] = s]
Refused == unpublished < MaxUnpublished /\ unpublished' = unpublished + 1 /\ UNCHANGED kills

(* A task holds the row from its claim until it finishes it.                *)
Holding == {"running"} \cup Outcomes
Held(e) == \E k \in Slots : job[e][k] \in Holding

-----------------------------------------------------------------------------
(* enqueue_on_commit: a broker outage is logged.                            *)
EnqueueOnCommit(e) ==
  \/ \E k \in Slots :
       /\ job[e][k] = "none" /\ Put(e, k, "queued")
       /\ UNCHANGED inboxBounds
  \/ UNCHANGED <<job, tries>> /\ Refused

(* The callback stores a body it has not seen.                              *)
Receive(e) ==
  /\ delivery[e] = "none" /\ Becomes(e, "received")
  /\ EnqueueOnCommit(e)
  /\ UNCHANGED <<attempts, abandoned>>

(* BUG of claim_event: rows in processing are claimed as well. *)
ClaimProcessing(e, k) ==
  /\ job[e][k] = "queued"
  /\ IF delivery[e] \in {"received", "failed", "processing"}
     THEN /\ Becomes(e, "processing") /\ Put(e, k, "running")
          /\ CountAttempt(e)
     ELSE Over(e, k) /\ UNCHANGED <<delivery, attempts>>
  /\ UNCHANGED <<abandoned, inboxBounds>>

(* claim_event. *)
ClaimEvent(e, k) ==
  /\ job[e][k] = "queued"
  /\ IF delivery[e] \in {"received", "failed"}
     THEN /\ Becomes(e, "processing") /\ Put(e, k, "running")
          /\ CountAttempt(e)
     ELSE Over(e, k) /\ UNCHANGED <<delivery, attempts>>
  /\ UNCHANGED <<abandoned, inboxBounds>>

(* The body is parsed and routed, and the receivers have run.  A body that  *)
(* cannot be parsed is not retried.                                         *)
Handled(e, k, outcome) ==
  /\ job[e][k] = "running"
  /\ Put(e, k, outcome)
  /\ abandoned' = IF outcome = "unparsed" THEN abandoned \cup {e} ELSE abandoned
  /\ UNCHANGED <<delivery, attempts, inboxBounds>>

(* BUG of process_event: one retry too many. *)
FinishOneOver(e, k) ==
  /\ job[e][k] \in Outcomes
  /\ LET outcome == job[e][k] IN
     /\ IF delivery[e] = "processing"
        THEN Becomes(e, IF outcome \in {"erred", "unparsed"} THEN "failed" ELSE outcome)
        ELSE UNCHANGED delivery
     /\ IF outcome = "erred" /\ tries[e][k] <= MaxRetries THEN Put(e, k, "retrying") ELSE Over(e, k)
  /\ UNCHANGED <<attempts, abandoned, inboxBounds>>

(* BUG of process_event: the last retry is not made. *)
FinishOneShort(e, k) ==
  /\ job[e][k] \in Outcomes
  /\ LET outcome == job[e][k] IN
     /\ IF delivery[e] = "processing"
        THEN Becomes(e, IF outcome \in {"erred", "unparsed"} THEN "failed" ELSE outcome)
        ELSE UNCHANGED delivery
     /\ IF outcome = "erred" /\ tries[e][k] + 1 < MaxRetries THEN Put(e, k, "retrying")
                                                             ELSE Over(e, k)
  /\ UNCHANGED <<attempts, abandoned, inboxBounds>>

(* _finish, which does nothing to a row that is no longer processing, and   *)
(* for an error the decision to retry.                                      *)
FinishEvent(e, k) ==
  /\ job[e][k] \in Outcomes
  /\ LET outcome == job[e][k] IN
     /\ IF delivery[e] = "processing"
        THEN Becomes(e, IF outcome \in {"erred", "unparsed"} THEN "failed" ELSE outcome)
        ELSE UNCHANGED delivery
     /\ IF outcome = "erred" /\ tries[e][k] < MaxRetries THEN Put(e, k, "retrying") ELSE Over(e, k)
  /\ UNCHANGED <<attempts, abandoned, inboxBounds>>

(* self.retry publishes the task again; nothing picks the failed row up     *)
(* when the broker does not accept it.                                      *)
PublishRetry(e, k) ==
  /\ job[e][k] = "retrying"
  /\ \/ /\ job' = [job EXCEPT ![e][k] = "queued"]
        /\ tries' = [tries EXCEPT ![e][k] = @ + 1]
        /\ UNCHANGED <<abandoned, inboxBounds>>
     \/ Over(e, k) /\ abandoned' = abandoned \cup {e} /\ Refused
  /\ UNCHANGED <<delivery, attempts>>

(* The worker is lost and its task delivered again, or the time limit ends  *)
(* the task for good.                                                       *)
WorkerDies(e, k) ==
  /\ job[e][k] \notin {"none", "queued"}
  /\ kills < MaxWorkerDeaths /\ kills' = kills + 1
  /\ \/ Put(e, k, "queued")
     \/ job[e][k] # "retrying" /\ Over(e, k)
  /\ UNCHANGED <<delivery, attempts, abandoned, unpublished>>

(* BUG of requeue_stuck_events: only rows that were never claimed. *)
RequeueReceived(e) ==
  /\ delivery[e] = "received" /\ ~Held(e)
  /\ Becomes(e, "received")
  /\ EnqueueOnCommit(e)
  /\ UNCHANGED <<attempts, abandoned>>

(* requeue_stuck_events: 15 minutes without a change, by when the time      *)
(* limit (five minutes) has ended whichever task held the row.              *)
RequeueStuck(e) ==
  /\ delivery[e] \in {"received", "processing"} /\ ~Held(e)
  /\ Becomes(e, "received")
  /\ EnqueueOnCommit(e)
  /\ UNCHANGED <<attempts, abandoned>>

Process(e, k) ==
  \/ ClaimEvent(e, k) \/ FinishEvent(e, k) \/ PublishRetry(e, k)

InboxNext ==
  \E e \in Deliveries :
    \/ Receive(e) \/ RequeueStuck(e)
    \/ \E k \in Slots : Process(e, k) \/ WorkerDies(e, k)
    \/ \E k \in Slots, outcome \in Outcomes : Handled(e, k, outcome)

InboxSpec == InboxInit /\ [][InboxNext]_inboxVars

-----------------------------------------------------------------------------
(* PROPERTIES *)

(* However often the broker doubles a task and the beat requeues a row, the *)
(* receivers of a delivery never run in two workers at once.                *)
OneHolder ==
  \A e \in Deliveries : \A j, k \in Slots :
    job[e][j] \in Holding /\ job[e][k] \in Holding => j = k

(* A failed delivery is waiting for its retry, unless it was tried once and *)
(* MaxRetries times more, or its retry could not be published.              *)
FailedIsRetried ==
  \A e \in Deliveries :
    delivery[e] = "failed" =>
      \/ \E k \in Slots : job[e][k] # "none"
      \/ attempts[e] > MaxRetries \/ e \in abandoned
=============================================================================
