------------------------------ MODULE Campaign ------------------------------
(* One campaign of backend/apps/campaigns: its requests, the send_batch      *)
(* chain that queues the recipients' messages, the delivery reports that     *)
(* come back, and start_due, which starts it and looks after its chain.      *)
(* Every transaction locks the campaign's row, or locks it with its counter  *)
(* update before it commits, so each is one step; what a process does after  *)
(* the commit is a step of its own.                                          *)
EXTENDS Integers, FiniteSets

CONSTANTS
  Recipients,   \* the audience's contacts, numbered in the order of sending
  Batches,      \* send_batch tasks at most at once
  BatchSize,    \* CAMPAIGN_BATCH_SIZE
  MaxKicks,     \* bound: requests between their commit and on_commit
  MaxSetbacks    \* bound: tasks and events lost, workers killed, Meta's refusals

ASSUME CampaignAssumption ==
  /\ Recipients \subseteq Int /\ IsFiniteSet(Recipients)
  /\ BatchSize \in Nat \ {0} /\ MaxKicks \in Nat \ {0} /\ MaxSetbacks \in Nat

VARIABLES
  campaign,   \* Campaign.status
  started,    \* started_at is set
  due,        \* scheduled_at has passed
  recipients, \* CampaignRecipient.status, "none" where there is no row
  counter,    \* the row's *_count columns
  key,        \* batch_lock_key is in the cache
  batch,      \* where each send_batch task is
  kicks,      \* kick_batch calls of requests, waiting for on_commit
  ready,      \* the template is approved and the number connected
  messages,   \* the status of each recipient's inbox message
  reported,       \* its MessageDeliveryUpdated events not yet handled
  after,      \* per update of a recipient: what its worker still calls after the commit
  unsent,     \* per batch task: recipients whose dispatch_message it has yet to publish
  stranded,   \* recipients whose message no dispatch_message task will come for
  setbacks    \* counter of the bound

campaignVars == <<campaign, started, due, recipients, counter, key, batch, kicks, ready, messages,
                  reported, after, unsent, stranded, setbacks>>
campaignRow == <<campaign, started, due, recipients, counter>>
chainVars == <<key, batch, kicks>>
dispatches == <<unsent, stranded>>
inboxSide == <<messages, reported, after, dispatches>>

CampaignStatuses ==
  {"draft", "scheduled", "running", "paused", "completed", "cancelled", "failed"}
Pausable == {"scheduled", "running"}
Cancellable == {"scheduled", "running", "paused"}
Finished == {"completed", "cancelled", "failed"}

(* delivered stands for read as well. *)
Buckets == [none |-> {}, pending |-> {}, skipped |-> {"skipped"}, queued |-> {"queued"},
            sent |-> {"sent"}, delivered |-> {"sent", "delivered"}, failed |-> {"failed"}]
Counters == {"skipped", "queued", "sent", "delivered", "failed"}
RecipientStatuses == DOMAIN Buckets
UpdateStatuses == {"sent", "delivered", "failed"}
Calls == Recipients \X UpdateStatuses \X {"pause", "complete"}

CampaignTypeOK ==
  /\ campaign \in CampaignStatuses /\ started \in BOOLEAN /\ due \in BOOLEAN
  /\ recipients \in [Recipients -> RecipientStatuses]
  /\ counter \in [Counters -> 0 .. Cardinality(Recipients)]
  /\ key \in BOOLEAN
  /\ batch \in [Batches -> {"none", "waiting", "begun", "kicking", "completing"}]
  /\ kicks \in 0 .. MaxKicks /\ ready \in BOOLEAN
  /\ messages \in [Recipients -> {"none", "queued", "sent", "delivered", "failed"}]
  /\ reported \in [Recipients -> SUBSET UpdateStatuses]
  /\ after \subseteq Calls
  /\ unsent \in [Batches -> SUBSET Recipients] /\ stranded \subseteq Recipients
  /\ setbacks \in 0 .. MaxSetbacks

CampaignInit ==
  /\ campaign = "draft" /\ started = FALSE /\ due = FALSE
  /\ recipients = [r \in Recipients |-> "none"]
  /\ counter = [c \in Counters |-> 0]
  /\ key = FALSE /\ batch = [b \in Batches |-> "none"] /\ kicks = 0 /\ ready = TRUE
  /\ messages = [r \in Recipients |-> "none"]
  /\ reported = [r \in Recipients |-> {}] /\ after = {}
  /\ unsent = [b \in Batches |-> {}] /\ stranded = {}
  /\ setbacks = 0

Setback == setbacks < MaxSetbacks /\ setbacks' = setbacks + 1
In(statuses) == {r \in Recipients : recipients[r] \in statuses}

-----------------------------------------------------------------------------
(* The counters: transition_delta and apply_stats of the rows that change,  *)
(* and recompute_stats of all of them.                                      *)
Counted(rows) == [c \in Counters |-> Cardinality({r \in Recipients : c \in Buckets[rows[r]]})]

ApplyStats(rows) ==
  counter' = [c \in Counters |->
    LET changed == {r \in Recipients : rows[r] # recipients[r]}
        sum == counter[c] + Cardinality({r \in changed : c \in Buckets[rows[r]]})
                          - Cardinality({r \in changed : c \in Buckets[recipients[r]]})
    IN IF sum < 0 THEN 0 ELSE sum]

(* kick_batch after the commit, by a process that holds task b or none:     *)
(* cache.add, and apply_async, which the broker may not take.               *)
ScheduleBatch(b) ==
  IF key
  THEN batch' = [batch EXCEPT ![b] = "none"] /\ UNCHANGED <<key, setbacks>>
  ELSE /\ key' = TRUE
       /\ \/ batch' = [batch EXCEPT ![b] = "waiting"] /\ UNCHANGED setbacks
          \/ batch' = [batch EXCEPT ![b] = "none"] /\ Setback
FreeSlot(b) == batch[b] = "none" /\ unsent[b] = {}

(* _materialise: new rows, each pending or skipped, and at least one of the *)
(* contacts can receive the campaign.                                       *)
Materialise ==
  \E audience \in SUBSET Recipients : \E eligible \in SUBSET audience \ {{}} :
    /\ recipients' = [r \in Recipients |->
         IF r \in eligible THEN "pending" ELSE IF r \in audience THEN "skipped" ELSE "none"]
    /\ counter' = [c \in Counters |-> IF c = "skipped" THEN Cardinality(audience \ eligible) ELSE 0]

Kick == kicks < MaxKicks /\ kicks' = kicks + 1

Launch ==
  /\ campaign = "draft" /\ ready
  /\ Materialise
  /\ \/ /\ campaign' = "running" /\ started' = TRUE /\ due' = FALSE
        /\ Kick
     \/ campaign' = "scheduled" /\ due' = FALSE /\ UNCHANGED <<started, kicks>>
  /\ UNCHANGED <<key, batch, ready, inboxSide, setbacks>>

(* update_campaign of a scheduled campaign: a new time, and the audience    *)
(* evaluated again when its inputs are sent.                                *)
UpdateScheduled ==
  /\ campaign = "scheduled"
  /\ due' = FALSE
  /\ \/ ready /\ Materialise
     \/ UNCHANGED <<recipients, counter>>
  /\ UNCHANGED <<campaign, started, chainVars, ready, inboxSide, setbacks>>

TimeComes ==
  /\ ~started /\ campaign \in {"scheduled", "paused"} /\ ~due
  /\ due' = TRUE
  /\ UNCHANGED <<campaign, started, recipients, counter, chainVars, ready, inboxSide, setbacks>>

(* pause, and pause_active for an event of Meta.                            *)
Pause ==
  /\ campaign \in Pausable
  /\ campaign' = "paused"
  /\ UNCHANGED <<started, due, recipients, counter, chainVars, ready, inboxSide, setbacks>>

Resume ==
  /\ campaign = "paused" /\ ready
  /\ IF ~started /\ ~due
     THEN campaign' = "scheduled" /\ UNCHANGED <<started, kicks>>
     ELSE campaign' = "running" /\ started' = TRUE /\ Kick
  /\ UNCHANGED <<due, recipients, counter, key, batch, ready, inboxSide, setbacks>>

Cancelled == [r \in Recipients |-> IF recipients[r] = "pending" THEN "skipped" ELSE recipients[r]]

Cancel ==
  /\ campaign \in Cancellable
  /\ campaign' = "cancelled" /\ recipients' = Cancelled /\ ApplyStats(Cancelled)
  /\ UNCHANGED <<started, due, chainVars, ready, inboxSide, setbacks>>

OnCommit(b) ==
  /\ kicks > 0 /\ kicks' = kicks - 1
  /\ FreeSlot(b) /\ ScheduleBatch(b)
  /\ UNCHANGED <<campaignRow, ready, inboxSide>>

(* The template loses its approval, or the number its connection; and back. *)
ApprovalLost ==
  /\ ready /\ ready' = FALSE /\ Setback
  /\ UNCHANGED <<campaignRow, chainVars, inboxSide>>
ApprovalBack ==
  /\ ~ready /\ ready' = TRUE
  /\ UNCHANGED <<campaignRow, chainVars, inboxSide, setbacks>>

-----------------------------------------------------------------------------
(* start_scheduled, which pauses a campaign the plan does not include.      *)
StartScheduled ==
  /\ campaign = "scheduled" /\ due
  /\ \/ campaign' = "running" /\ started' = TRUE /\ Kick
     \/ campaign' = "paused" /\ UNCHANGED <<started, kicks>>
  /\ UNCHANGED <<due, recipients, counter, key, batch, ready, inboxSide, setbacks>>

(* BUG of complete_if_done: queued recipients are not waited for. *)
CompleteIfDoneUnqueued ==
  IF campaign = "running" /\ In({"pending"}) = {}
  THEN LET counts == Counted(recipients) IN
       /\ counter' = counts
       /\ campaign' = IF counts["failed"] > 0 /\ counts["sent"] = 0 THEN "failed" ELSE "completed"
  ELSE UNCHANGED <<counter, campaign>>

CompleteIfDone ==
  IF campaign = "running" /\ In({"pending", "queued"}) = {}
  THEN LET counts == Counted(recipients) IN
       /\ counter' = counts
       /\ campaign' = IF counts["failed"] > 0 /\ counts["sent"] = 0 THEN "failed" ELSE "completed"
  ELSE UNCHANGED <<counter, campaign>>

(* BUG of start_due: it does not kick the chain of a running campaign. *)
WatchdogCompletes ==
  /\ campaign = "running"
  /\ CompleteIfDone
  /\ UNCHANGED <<started, due, recipients, chainVars, ready, inboxSide, setbacks>>

(* start_due and a running campaign.                                        *)
Watchdog ==
  /\ campaign = "running"
  /\ IF In({"pending"}) # {}
     THEN /\ \E b \in Batches : FreeSlot(b) /\ ScheduleBatch(b)
          /\ UNCHANGED <<campaign, counter, kicks>>
     ELSE CompleteIfDone /\ UNCHANGED <<chainVars, setbacks>>
  /\ UNCHANGED <<started, due, recipients, ready, inboxSide>>

KeyExpires ==
  /\ key /\ key' = FALSE
  /\ UNCHANGED <<campaignRow, batch, kicks, ready, inboxSide, setbacks>>

(* send_batch starts: a duplicate may be scheduled from here on.            *)
BatchBegins(b) ==
  /\ batch[b] = "waiting"
  /\ batch' = [batch EXCEPT ![b] = "begun"] /\ key' = FALSE
  /\ UNCHANGED <<campaignRow, kicks, ready, inboxSide, setbacks>>

Chosen ==
  CHOOSE S \in SUBSET In({"pending"}) :
    /\ Cardinality(S) = BatchSize \/ (Cardinality(S) < BatchSize /\ S = In({"pending"}))
    /\ \A r \in S, q \in In({"pending"}) \ S : r < q

Enqueued(rows) == {r \in In({"pending"}) : rows[r] = "queued"}

(* _send_batch: each recipient's message is queued, for enqueue to dispatch *)
(* after the commit, or the recipient is skipped or fails; an error that    *)
(* stops the campaign leaves it, and those behind it, pending.              *)
SendChosen(b) ==
  \E done \in {S \in SUBSET Chosen : \A r \in S, q \in Chosen \ S : r < q} :
  \E outcome \in [done -> {"queued", "skipped", "failed"}] :
    LET rows == [r \in Recipients |-> IF r \in done THEN outcome[r] ELSE recipients[r]] IN
    /\ recipients' = rows /\ ApplyStats(rows)
    /\ messages' = [r \in Recipients |->
         IF r \in done /\ outcome[r] = "queued" THEN "queued" ELSE messages[r]]
    /\ unsent' = [unsent EXCEPT ![b] = Enqueued(rows)]
    /\ IF done # Chosen
       THEN /\ campaign' = "paused" /\ batch' = [batch EXCEPT ![b] = "none"]
       ELSE /\ batch' = [batch EXCEPT ![b] =
                 IF \E r \in Recipients : rows[r] = "pending" THEN "kicking" ELSE "completing"]
            /\ UNCHANGED campaign

(* BUG of _send_batch: a campaign that was stopped is sent all the same. *)
SendBatchStopped(b) ==
  /\ batch[b] = "begun"
  /\ IF ~ready
     THEN /\ campaign' = "paused" /\ batch' = [batch EXCEPT ![b] = "none"]
          /\ UNCHANGED <<recipients, counter, messages, unsent>>
     ELSE SendChosen(b)
  /\ UNCHANGED <<started, due, key, kicks, ready, reported, after, stranded, setbacks>>

SendBatch(b) ==
  /\ batch[b] = "begun"
  /\ \/ /\ campaign # "running"
        /\ batch' = [batch EXCEPT ![b] = "none"]
        /\ UNCHANGED <<campaign, recipients, counter, messages, unsent>>
     \/ /\ campaign = "running" /\ ~ready
        /\ campaign' = "paused" /\ batch' = [batch EXCEPT ![b] = "none"]
        /\ UNCHANGED <<recipients, counter, messages, unsent>>
     \/ campaign = "running" /\ ready /\ SendChosen(b)
  /\ UNCHANGED <<started, due, key, kicks, ready, reported, after, stranded, setbacks>>

(* sending.enqueue after the commit, a callback for each message; the kick  *)
(* and complete_if_done come behind them.                                   *)
Publish(b, r) ==
  /\ r \in unsent[b] /\ unsent' = [unsent EXCEPT ![b] = @ \ {r}]
  /\ UNCHANGED <<campaignRow, chainVars, ready, messages, reported, after, stranded, setbacks>>

(* The broker refuses the task (the callback is robust: it is only logged),  *)
(* or the retry that dispatch publishes.  No pass looks for queued messages. *)
TaskLost(r) ==
  /\ messages[r] = "queued" /\ r \notin stranded /\ \A b \in Batches : r \notin unsent[b]
  /\ Setback /\ stranded' = stranded \cup {r}
  /\ UNCHANGED <<campaignRow, chainVars, ready, messages, reported, after, unsent>>

BatchKicks(b) ==
  /\ batch[b] = "kicking" /\ unsent[b] = {} /\ ScheduleBatch(b)
  /\ UNCHANGED <<campaignRow, kicks, ready, inboxSide>>

BatchCompletes(b) ==
  /\ batch[b] = "completing" /\ unsent[b] = {} /\ batch' = [batch EXCEPT ![b] = "none"]
  /\ CompleteIfDone
  /\ UNCHANGED <<started, due, recipients, key, kicks, ready, inboxSide, setbacks>>

(* Tasks are acknowledged late: a killed worker's task is delivered again,   *)
(* but goes on with whoever is pending then.  What was not published is not. *)
BatchDies(b) ==
  /\ batch[b] \in {"begun", "kicking", "completing"} \/ unsent[b] # {}
  /\ Setback
  /\ batch' = [batch EXCEPT ![b] = "waiting"]
  /\ stranded' = stranded \cup unsent[b] /\ unsent' = [unsent EXCEPT ![b] = {}]
  /\ UNCHANGED <<campaignRow, key, kicks, ready, messages, reported, after>>
RequestDies ==
  /\ kicks > 0 /\ kicks' = kicks - 1 /\ Setback
  /\ UNCHANGED <<campaignRow, key, batch, ready, inboxSide>>

-----------------------------------------------------------------------------
(* The inbox reports what becomes of the messages, from several workers.     *)
MessageBecomes(r, s) ==
  /\ <<messages[r], s>> \in {<<"queued", "sent">>, <<"queued", "failed">>,
                            <<"sent", "delivered">>, <<"sent", "failed">>}
  /\ r \notin stranded /\ \A b \in Batches : r \notin unsent[b]
  /\ messages' = [messages EXCEPT ![r] = s]
  /\ reported' = [reported EXCEPT ![r] = @ \cup {s}]
  /\ UNCHANGED <<campaignRow, chainVars, ready, after, dispatches, setbacks>>

(* _target_status.                                                          *)
ProgressRank == [queued |-> 0, sent |-> 1, delivered |-> 2]
ProgressTarget(current, new) ==
  CASE current \notin DOMAIN ProgressRank \cup {"failed"} -> current
    [] new = "failed" -> IF current = "delivered" THEN current ELSE "failed"
    [] current = "failed" -> IF new = "delivered" THEN new ELSE current
    [] OTHER -> IF ProgressRank[new] > ProgressRank[current] THEN new ELSE current

(* apply_delivery_update, in a worker of its own.  A policy error skips a    *)
(* queued recipient, and a blocking one pauses the campaign after the commit.*)
ApplyDeliveryUpdate(r, new) ==
  /\ new \in reported[r] /\ reported' = [reported EXCEPT ![r] = @ \ {new}]
  /\ \E target \in IF new = "failed" /\ recipients[r] = "queued"
                   THEN {"failed", "skipped"} ELSE {ProgressTarget(recipients[r], new)} :
       LET rows == [recipients EXCEPT ![r] = target]
           done == IF recipients[r] = "queued" THEN {"complete"} ELSE {} IN
       /\ recipients' = rows /\ ApplyStats(rows)
       /\ IF target = recipients[r] THEN UNCHANGED after
          ELSE \E pauses \in SUBSET (IF target = "failed" THEN {"pause"} ELSE {}) :
                 after' = after \cup {<<r, new, call>> : call \in pauses \cup done}
  /\ UNCHANGED <<campaign, started, due, chainVars, ready, messages, dispatches, setbacks>>

(* The pause comes first, then complete_if_done. *)
AfterUpdate(r, new) ==
  /\ \/ /\ <<r, new, "pause">> \in after /\ after' = after \ {<<r, new, "pause">>}
        /\ campaign' = IF campaign \in Pausable THEN "paused" ELSE campaign
        /\ UNCHANGED counter
     \/ /\ <<r, new, "pause">> \notin after /\ <<r, new, "complete">> \in after
        /\ after' = after \ {<<r, new, "complete">>}
        /\ CompleteIfDone
  /\ UNCHANGED <<started, due, recipients, chainVars, ready, messages, reported, dispatches, setbacks>>

(* A report that no receiver handled, or whose worker dies on the way.      *)
ReportLost(r, new) ==
  /\ Setback
  /\ \/ new \in reported[r] /\ reported' = [reported EXCEPT ![r] = @ \ {new}] /\ UNCHANGED after
     \/ LET calls == {<<r, new, "pause">>, <<r, new, "complete">>} IN
        calls \cap after # {} /\ after' = after \ calls /\ UNCHANGED reported
  /\ UNCHANGED <<campaignRow, chainVars, ready, messages, dispatches>>

-----------------------------------------------------------------------------
CampaignNext ==
  \/ Launch \/ UpdateScheduled \/ TimeComes \/ Pause \/ Resume \/ Cancel
  \/ ApprovalLost \/ ApprovalBack \/ StartScheduled \/ Watchdog \/ KeyExpires \/ RequestDies
  \/ \E b \in Batches :
       OnCommit(b) \/ BatchBegins(b) \/ SendBatch(b) \/ BatchKicks(b) \/ BatchCompletes(b)
       \/ BatchDies(b) \/ \E r \in Recipients : Publish(b, r)
  \/ \E r \in Recipients :
       \/ \E s \in UpdateStatuses :
            \/ MessageBecomes(r, s) \/ ApplyDeliveryUpdate(r, s)
            \/ AfterUpdate(r, s) \/ ReportLost(r, s)
       \/ TaskLost(r)

(* Beat runs start_due every minute, and its key expires.  The workers take  *)
(* tasks and events, and a message whose task is not lost is settled (that   *)
(* is what Delivery's MessageSettles says).                                  *)
BatchesGo == \E b \in Batches :
  \/ BatchBegins(b) \/ SendBatch(b) \/ BatchKicks(b) \/ BatchCompletes(b)
  \/ \E r \in Recipients : Publish(b, r)
MessagesSettle == \E r \in Recipients : MessageBecomes(r, "sent") \/ MessageBecomes(r, "failed")
UpdatesGo == \E r \in Recipients, s \in UpdateStatuses : AfterUpdate(r, s) \/ ApplyDeliveryUpdate(r, s)

(* There is no endless supply of such steps, so it is enough that some step *)
(* is taken as long as there is one.                                        *)
CampaignGoesOn == Watchdog \/ KeyExpires \/ BatchesGo \/ MessagesSettle \/ UpdatesGo
CampaignFairness == WF_campaignVars(CampaignGoesOn)

CampaignSpec == CampaignInit /\ [][CampaignNext]_campaignVars

FairCampaignSpec == CampaignSpec /\ CampaignFairness

-----------------------------------------------------------------------------
(* Properties.                                                              *)

\* The counters the seller sees are those of the rows, whatever overlaps:
\* batches, cancellations and reports change them by deltas.
CountersMatchRows == counter = Counted(recipients)

\* A campaign that is over has nobody left to send to, and one that ended by
\* itself ended after every message it queued had been reported on.
OverMeansDone ==
  /\ campaign \in Finished => In({"pending"}) = {}
  /\ campaign \in {"completed", "failed"} => In({"queued"}) = {}

\* What the seller sees of a campaign is what happened: its counters and its
\* end.
ProgressIsTrue == CountersMatchRows /\ OverMeansDone

\* A recipient is queued only by a batch of a running campaign, whatever
\* tasks a pause or a cancellation left behind.
StoppedIsStopped ==
  [][\A r \in Recipients : recipients'[r] = "queued" /\ recipients[r] # "queued" =>
       campaign = "running"]_campaignVars

\* A running campaign ends, or is paused or cancelled, though batch tasks and keys
\* are lost and workers die; but not when a recipient stays queued because the
\* dispatch_message of its message was lost or never published, or because the
\* report of what became of the message was lost.
Forgotten(r) ==
  recipients[r] = "queued" /\ (IF messages[r] = "queued" THEN r \in stranded ELSE reported[r] = {})
CampaignEnds == []<>(campaign # "running" \/ \E r \in Recipients : Forgotten(r))
=============================================================================
