------------------------- MODULE WebhookInboxProofs -------------------------
(* What is proved about WebhookInbox for any deliveries, any number of      *)
(* tasks of each and any bounds: its type invariant, that one worker at     *)
(* most holds a delivery, and that a failed one is waiting for its retry.   *)
EXTENDS WebhookInbox, TLAPS

(* A task that holds the row finds it in processing, and the attempts       *)
(* counted on the row are more than the retries any task of it has used.    *)
TaskInv(e, k) ==
  /\ job[e][k] \in Holding => delivery[e] = "processing"
  /\ job[e][k] \in Holding \cup {"retrying"} => attempts[e] > tries[e][k]
  /\ job[e][k] = "queued" => attempts[e] >= tries[e][k]
  /\ job[e][k] = "retrying" => tries[e][k] < MaxRetries
  /\ job[e][k] = "none" => tries[e][k] = 0
  /\ job[e][k] = "unparsed" => e \in abandoned

InboxIInv ==
  /\ InboxTypeOK
  /\ \A e \in Deliveries, k \in Slots : TaskInv(e, k)
  /\ OneHolder
  /\ FailedIsRetried

(* Only task k of delivery e changes its place and its retries.             *)
MovesTask(e, k, place, r) ==
  /\ job' = [job EXCEPT ![e][k] = place]
  /\ tries' = [tries EXCEPT ![e][k] = r]

LEMMA Moved ==
  ASSUME InboxTypeOK, NEW e \in Deliveries, NEW k \in Slots,
         NEW place \in JobPlaces, NEW r \in 0 .. MaxRetries, MovesTask(e, k, place, r)
  PROVE  /\ job' \in [Deliveries -> [Slots -> JobPlaces]]
         /\ tries' \in [Deliveries -> [Slots -> 0 .. MaxRetries]]
         /\ job'[e][k] = place /\ tries'[e][k] = r
         /\ \A j \in Slots \ {k} : job'[e][j] = job[e][j] /\ tries'[e][j] = tries[e][j]
         /\ \A f \in Deliveries \ {e} : job'[f] = job[f] /\ tries'[f] = tries[f]
<1>1. job[e] \in [Slots -> JobPlaces] /\ tries[e] \in [Slots -> 0 .. MaxRetries]
  BY DEF InboxTypeOK
<1>2. /\ job' = [job EXCEPT ![e] = [job[e] EXCEPT ![k] = place]]
      /\ tries' = [tries EXCEPT ![e] = [tries[e] EXCEPT ![k] = r]]
  BY DEF MovesTask
<1>3. /\ [job[e] EXCEPT ![k] = place] \in [Slots -> JobPlaces]
      /\ [tries[e] EXCEPT ![k] = r] \in [Slots -> 0 .. MaxRetries]
  BY <1>1
<1>4. /\ job'[e] = [job[e] EXCEPT ![k] = place]
      /\ tries'[e] = [tries[e] EXCEPT ![k] = r]
      /\ \A f \in Deliveries \ {e} : job'[f] = job[f] /\ tries'[f] = tries[f]
  BY <1>2 DEF InboxTypeOK
<1>5. /\ job' \in [Deliveries -> [Slots -> JobPlaces]]
      /\ tries' \in [Deliveries -> [Slots -> 0 .. MaxRetries]]
  BY <1>2, <1>3 DEF InboxTypeOK
<1> QED
  BY <1>1, <1>4, <1>5

LEMMA PutMoves ==
  ASSUME InboxTypeOK, NEW e \in Deliveries, NEW k \in Slots, NEW place, Put(e, k, place)
  PROVE  MovesTask(e, k, place, tries[e][k]) /\ tries[e][k] \in 0 .. MaxRetries
<1>1. tries = [tries EXCEPT ![e][k] = tries[e][k]]
  BY DEF InboxTypeOK
<1> QED
  BY <1>1 DEF Put, MovesTask, InboxTypeOK

LEMMA OverMoves ==
  ASSUME NEW e \in Deliveries, NEW k \in Slots, Over(e, k)
  PROVE  MovesTask(e, k, "none", 0) /\ "none" \in JobPlaces /\ 0 \in 0 .. MaxRetries
BY InboxAssumption DEF Over, MovesTask, JobPlaces

(* What a step that concerns task k of delivery e owes the invariant.       *)
LEMMA StepKeepsInv ==
  ASSUME InboxIInv, NEW e \in Deliveries, NEW k \in Slots,
         NEW place \in JobPlaces, NEW r \in 0 .. MaxRetries, MovesTask(e, k, place, r),
         delivery' \in [Deliveries -> DeliveryStatuses],
         attempts' \in [Deliveries -> 0 .. MaxRetries + 1],
         \A f \in Deliveries \ {e} : delivery'[f] = delivery[f] /\ attempts'[f] = attempts[f],
         attempts'[e] >= attempts[e],
         abandoned \subseteq abandoned', abandoned' \subseteq Deliveries,
         kills' \in 0 .. MaxWorkerDeaths, unpublished' \in 0 .. MaxUnpublished,
         TaskInv(e, k)',
         place \in Holding => \A j \in Slots \ {k} : job[e][j] \notin Holding,
         delivery'[e] # delivery[e] => \A j \in Slots \ {k} : job[e][j] \notin Holding,
         delivery'[e] = "failed" =>
           \/ place # "none" \/ attempts'[e] > MaxRetries \/ e \in abandoned'
           \/ delivery[e] = "failed" /\ job[e][k] = "none"
  PROVE  InboxIInv'
<1> USE DEF InboxIInv
<1>1. /\ job' \in [Deliveries -> [Slots -> JobPlaces]]
      /\ tries' \in [Deliveries -> [Slots -> 0 .. MaxRetries]]
      /\ job'[e][k] = place /\ tries'[e][k] = r
      /\ \A j \in Slots \ {k} : job'[e][j] = job[e][j] /\ tries'[e][j] = tries[e][j]
      /\ \A f \in Deliveries \ {e} : job'[f] = job[f] /\ tries'[f] = tries[f]
  BY Moved
<1>2. InboxTypeOK'
  BY <1>1 DEF InboxTypeOK
<1>3. (\A f \in Deliveries, j \in Slots : TaskInv(f, j))'
  <2> SUFFICES ASSUME NEW f \in Deliveries, NEW j \in Slots PROVE TaskInv(f, j)'
    OBVIOUS
  <2>1. CASE f # e
    BY <1>1, <2>1 DEF TaskInv
  <2>2. CASE f = e /\ j = k
    BY <2>2
  <2>3. CASE f = e /\ j # k
    <3>1. job'[e][j] = job[e][j] /\ tries'[e][j] = tries[e][j] /\ TaskInv(e, j)
      BY <1>1, <2>3
    <3>2. job[e][j] \in Holding => delivery'[e] = "processing"
      BY <2>3, <3>1 DEF TaskInv
    <3>3. attempts[e] \in Nat /\ attempts'[e] \in Nat /\ tries[e][j] \in Nat
      BY <2>3 DEF InboxTypeOK
    <3> QED
      BY <2>3, <3>1, <3>2, <3>3 DEF TaskInv
  <2> QED
    BY <2>1, <2>2, <2>3
<1>4. OneHolder'
  <2> SUFFICES ASSUME NEW f \in Deliveries, NEW i \in Slots, NEW j \in Slots,
                      job'[f][i] \in Holding, job'[f][j] \in Holding
               PROVE  i = j
    BY DEF OneHolder
  <2> QED
    BY <1>1 DEF OneHolder
<1>5. FailedIsRetried'
  <2> SUFFICES ASSUME NEW f \in Deliveries, delivery'[f] = "failed"
               PROVE  \/ \E j \in Slots : job'[f][j] # "none"
                      \/ attempts'[f] > MaxRetries \/ f \in abandoned'
    BY DEF FailedIsRetried
  <2>1. CASE f # e
    BY <1>1, <2>1 DEF FailedIsRetried
  <2>2. CASE f = e /\ delivery[e] = "failed" /\ job[e][k] = "none"
    <3>1. \/ \E j \in Slots \ {k} : job[e][j] # "none"
          \/ attempts[e] > MaxRetries \/ e \in abandoned
      BY <2>2 DEF FailedIsRetried
    <3>2. attempts[e] \in Nat /\ attempts'[e] \in Nat
      BY DEF InboxTypeOK
    <3> QED
      BY <1>1, <2>2, <3>1, <3>2, InboxAssumption
  <2>3. CASE f = e /\ ~(delivery[e] = "failed" /\ job[e][k] = "none")
    BY <1>1, <2>3
  <2> QED
    BY <2>1, <2>2, <2>3
<1> QED
  BY <1>2, <1>3, <1>4, <1>5

-----------------------------------------------------------------------------
(* One lemma for each step. *)

LEMMA InboxInitInv == InboxInit => InboxIInv
<1> SUFFICES ASSUME InboxInit PROVE InboxIInv
  OBVIOUS
<1>1. InboxTypeOK
  BY InboxAssumption DEF InboxInit, InboxTypeOK, DeliveryStatuses, JobPlaces
<1>2. \A e \in Deliveries, k \in Slots : TaskInv(e, k)
  BY DEF InboxInit, TaskInv, Holding, Outcomes
<1>3. OneHolder /\ FailedIsRetried
  BY DEF InboxInit, OneHolder, FailedIsRetried, Holding, Outcomes
<1> QED
  BY <1>1, <1>2, <1>3 DEF InboxIInv

(* Receive and RequeueStuck: a row nobody holds is received, and a task may *)
(* or may not be published.                                                 *)
LEMMA ReceivedKeepsInv ==
  ASSUME InboxIInv, NEW e \in Deliveries, ~Held(e), Becomes(e, "received"),
         EnqueueOnCommit(e), UNCHANGED <<attempts, abandoned>>
  PROVE  InboxIInv'
<1> USE DEF InboxIInv
<1>1. /\ delivery' \in [Deliveries -> DeliveryStatuses] /\ delivery'[e] = "received"
      /\ \A f \in Deliveries \ {e} : delivery'[f] = delivery[f]
  BY DEF Becomes, InboxTypeOK, DeliveryStatuses
<1>2. \A j \in Slots : job[e][j] \notin Holding
  BY DEF Held
<1>3. CASE \E k \in Slots : job[e][k] = "none" /\ Put(e, k, "queued") /\ UNCHANGED inboxBounds
  <2>1. PICK k \in Slots : job[e][k] = "none" /\ Put(e, k, "queued") /\ UNCHANGED inboxBounds
    BY <1>3
  <2>2. MovesTask(e, k, "queued", 0) /\ 0 \in 0 .. MaxRetries
    BY <2>1, PutMoves, InboxAssumption DEF TaskInv
  <2>3. "queued" \in JobPlaces \ (Holding \cup {"none"})
    BY DEF JobPlaces, Holding, Outcomes
  <2>4. TaskInv(e, k)'
    <3>1. job'[e][k] = "queued" /\ tries'[e][k] = 0
      BY <2>2, <2>3, Moved
    <3>2. attempts'[e] >= 0
      BY DEF InboxTypeOK
    <3> QED
      BY <3>1, <3>2 DEF TaskInv, Holding, Outcomes
  <2>5. kills' \in 0 .. MaxWorkerDeaths /\ unpublished' \in 0 .. MaxUnpublished
    BY <2>1 DEF inboxBounds, InboxTypeOK
  <2>6. attempts' = attempts /\ attempts \in [Deliveries -> 0 .. MaxRetries + 1]
        /\ abandoned' = abandoned /\ abandoned \subseteq Deliveries
    BY DEF InboxTypeOK
  <2>7. attempts'[e] >= attempts[e]
    BY <2>6, InboxAssumption
  <2> QED
    BY <1>1, <1>2, <2>2, <2>3, <2>4, <2>5, <2>6, <2>7, StepKeepsInv
<1>4. CASE UNCHANGED <<job, tries>> /\ Refused
  <2>1. kills' \in 0 .. MaxWorkerDeaths /\ unpublished' \in 0 .. MaxUnpublished
    BY <1>4, InboxAssumption DEF Refused, InboxTypeOK
  <2>2. InboxTypeOK'
    BY <1>1, <1>4, <2>1 DEF InboxTypeOK
  <2>3. (\A f \in Deliveries, k \in Slots : TaskInv(f, k))'
    BY <1>1, <1>2, <1>4 DEF TaskInv
  <2>4. OneHolder' /\ FailedIsRetried'
    BY <1>1, <1>4 DEF OneHolder, FailedIsRetried
  <2> QED
    BY <2>2, <2>3, <2>4
<1> QED
  BY <1>3, <1>4 DEF EnqueueOnCommit

(* A task that ends leaves a row that did not just fail, or one whose       *)
(* retries are used up.                                                     *)
LEMMA EndedTaskKeepsInv ==
  ASSUME InboxIInv, NEW e \in Deliveries, NEW k \in Slots, Over(e, k),
         UNCHANGED <<delivery, attempts>>,
         abandoned \subseteq abandoned', abandoned' \subseteq Deliveries,
         kills' \in 0 .. MaxWorkerDeaths, unpublished' \in 0 .. MaxUnpublished,
         delivery[e] # "failed" \/ e \in abandoned'
  PROVE  InboxIInv'
<1> USE DEF InboxIInv
<1>1. MovesTask(e, k, "none", 0) /\ "none" \in JobPlaces /\ 0 \in 0 .. MaxRetries
  BY OverMoves
<1>2. job'[e][k] = "none" /\ tries'[e][k] = 0
  BY <1>1, Moved
<1>3. TaskInv(e, k)' /\ "none" \notin Holding
  BY <1>2 DEF TaskInv, Holding, Outcomes
<1>4. /\ delivery' \in [Deliveries -> DeliveryStatuses] /\ delivery' = delivery
      /\ attempts' \in [Deliveries -> 0 .. MaxRetries + 1] /\ attempts' = attempts
      /\ attempts'[e] >= attempts[e]
  BY InboxAssumption DEF InboxTypeOK
<1> QED
  BY <1>1, <1>3, <1>4, StepKeepsInv

LEMMA ClaimEventKeepsInv ==
  ASSUME InboxIInv, NEW e \in Deliveries, NEW k \in Slots, ClaimEvent(e, k)
  PROVE  InboxIInv'
<1> USE DEF InboxIInv
<1>1. /\ abandoned' = abandoned /\ abandoned \subseteq Deliveries
      /\ kills' \in 0 .. MaxWorkerDeaths /\ unpublished' \in 0 .. MaxUnpublished
  BY DEF ClaimEvent, inboxBounds, InboxTypeOK
<1>2. attempts[e] \in Nat /\ tries[e][k] \in Nat /\ tries[e][k] <= MaxRetries
  BY InboxAssumption DEF InboxTypeOK
<1>3. CASE delivery[e] \in {"received", "failed"}
  <2>1. Becomes(e, "processing") /\ Put(e, k, "running") /\ CountAttempt(e)
    BY <1>3 DEF ClaimEvent
  <2>2. /\ delivery' \in [Deliveries -> DeliveryStatuses] /\ delivery'[e] = "processing"
        /\ \A f \in Deliveries \ {e} : delivery'[f] = delivery[f]
    BY <2>1 DEF Becomes, InboxTypeOK, DeliveryStatuses
  <2>3. /\ attempts' \in [Deliveries -> 0 .. MaxRetries + 1]
        /\ attempts'[e] = IF attempts[e] > MaxRetries THEN attempts[e] ELSE attempts[e] + 1
        /\ \A f \in Deliveries \ {e} : attempts'[f] = attempts[f]
    BY <2>1, InboxAssumption DEF CountAttempt, InboxTypeOK
  <2>4. \A j \in Slots : job[e][j] \notin Holding
    BY <1>3 DEF TaskInv
  <2>5. "running" \in Holding \cap JobPlaces /\ "running" # "none"
    BY DEF Holding, JobPlaces
  <2>6. MovesTask(e, k, "running", tries[e][k]) /\ tries[e][k] \in 0 .. MaxRetries
    BY <2>1, PutMoves
  <2>7. job'[e][k] = "running" /\ tries'[e][k] = tries[e][k]
    BY <2>5, <2>6, Moved
  <2>8. attempts[e] >= tries[e][k]
    BY DEF ClaimEvent, TaskInv
  <2>9. attempts'[e] > tries[e][k] /\ attempts'[e] >= attempts[e]
    BY <1>2, <2>3, <2>8, InboxAssumption
  <2>10. TaskInv(e, k)'
    BY <2>2, <2>7, <2>9 DEF TaskInv
  <2> QED
    BY <1>1, <2>2, <2>3, <2>4, <2>5, <2>6, <2>9, <2>10, StepKeepsInv
<1>4. CASE delivery[e] \notin {"received", "failed"}
  <2>1. Over(e, k) /\ UNCHANGED <<delivery, attempts>>
    BY <1>4 DEF ClaimEvent
  <2> QED
    BY <1>1, <1>4, <2>1, EndedTaskKeepsInv
<1> QED
  BY <1>3, <1>4

(* The worker that holds the row puts it down or goes on with it.           *)
LEMMA HandledKeepsInv ==
  ASSUME InboxIInv, NEW e \in Deliveries, NEW k \in Slots, NEW outcome \in Outcomes,
         Handled(e, k, outcome)
  PROVE  InboxIInv'
<1> USE DEF InboxIInv
<1>1. /\ job[e][k] = "running" /\ Put(e, k, outcome)
      /\ UNCHANGED <<delivery, attempts, inboxBounds>>
  BY DEF Handled
<1>2. abandoned \subseteq abandoned' /\ abandoned' \subseteq Deliveries
  BY DEF Handled, InboxTypeOK
<1>3. kills' \in 0 .. MaxWorkerDeaths /\ unpublished' \in 0 .. MaxUnpublished
  BY <1>1 DEF inboxBounds, InboxTypeOK
<1>4. MovesTask(e, k, outcome, tries[e][k]) /\ tries[e][k] \in 0 .. MaxRetries
  BY <1>1, PutMoves
<1>5. outcome \in JobPlaces /\ outcome \in Holding
      /\ outcome \notin {"none", "queued", "running", "retrying"} /\ "running" \in Holding
  BY DEF JobPlaces, Holding, Outcomes
<1>6. job'[e][k] = outcome /\ tries'[e][k] = tries[e][k]
  BY <1>4, <1>5, Moved
<1>7. delivery[e] = "processing" /\ attempts[e] > tries[e][k]
  BY <1>1, <1>5 DEF TaskInv
<1>8. TaskInv(e, k)'
  BY <1>1, <1>5, <1>6, <1>7 DEF TaskInv, Handled
<1>9. \A j \in Slots \ {k} : job[e][j] \notin Holding
  BY <1>1, <1>5 DEF OneHolder
<1>10. /\ delivery' \in [Deliveries -> DeliveryStatuses] /\ delivery' = delivery
       /\ attempts' \in [Deliveries -> 0 .. MaxRetries + 1] /\ attempts' = attempts
       /\ attempts'[e] >= attempts[e]
  BY <1>1, InboxAssumption DEF InboxTypeOK
<1> QED
  BY <1>2, <1>3, <1>4, <1>5, <1>7, <1>8, <1>9, <1>10, StepKeepsInv

(* The row fails only under a task that goes on to its retry, has used up   *)
(* its retries, or found a body that cannot be parsed.                      *)
LEMMA FinishEventKeepsInv ==
  ASSUME InboxIInv, NEW e \in Deliveries, NEW k \in Slots, FinishEvent(e, k)
  PROVE  InboxIInv'
<1> USE DEF InboxIInv
<1>1. job[e][k] \in Outcomes /\ UNCHANGED <<attempts, abandoned, inboxBounds>>
  BY DEF FinishEvent
<1>2. job[e][k] \in Holding /\ job[e][k] \notin {"none", "queued", "retrying"}
  BY <1>1 DEF Holding, Outcomes
<1>3. delivery[e] = "processing" /\ attempts[e] > tries[e][k]
  BY <1>2 DEF TaskInv
<1>4. Becomes(e, IF job[e][k] \in {"erred", "unparsed"} THEN "failed" ELSE job[e][k])
  BY <1>3 DEF FinishEvent
<1>5. /\ delivery' \in [Deliveries -> DeliveryStatuses]
      /\ delivery'[e] = IF job[e][k] \in {"erred", "unparsed"} THEN "failed" ELSE job[e][k]
      /\ \A f \in Deliveries \ {e} : delivery'[f] = delivery[f]
  BY <1>1, <1>4 DEF Becomes, InboxTypeOK, DeliveryStatuses, Outcomes
<1>6. \A j \in Slots \ {k} : job[e][j] \notin Holding
  BY <1>2 DEF OneHolder
<1>7. /\ attempts' \in [Deliveries -> 0 .. MaxRetries + 1] /\ attempts' = attempts
      /\ attempts'[e] >= attempts[e]
      /\ abandoned' = abandoned /\ abandoned \subseteq Deliveries
      /\ kills' \in 0 .. MaxWorkerDeaths /\ unpublished' \in 0 .. MaxUnpublished
  BY <1>1, InboxAssumption DEF inboxBounds, InboxTypeOK
<1>8. tries[e][k] \in 0 .. MaxRetries /\ attempts[e] \in Nat
  BY InboxAssumption DEF InboxTypeOK
<1>9. CASE job[e][k] = "erred" /\ tries[e][k] < MaxRetries
  <2>1. MovesTask(e, k, "retrying", tries[e][k])
    BY <1>9, PutMoves DEF FinishEvent
  <2>2. "retrying" \in JobPlaces \ (Holding \cup {"none"})
    BY DEF JobPlaces, Holding, Outcomes
  <2>3. job'[e][k] = "retrying" /\ tries'[e][k] = tries[e][k]
    BY <1>8, <2>1, <2>2, Moved
  <2>4. TaskInv(e, k)'
    BY <1>3, <1>7, <1>9, <2>2, <2>3 DEF TaskInv
  <2> QED
    BY <1>5, <1>6, <1>7, <1>8, <2>1, <2>2, <2>4, StepKeepsInv
<1>10. CASE ~(job[e][k] = "erred" /\ tries[e][k] < MaxRetries)
  <2>1. Over(e, k)
    BY <1>10 DEF FinishEvent
  <2>2. MovesTask(e, k, "none", 0) /\ "none" \in JobPlaces /\ 0 \in 0 .. MaxRetries
    BY <2>1, OverMoves
  <2>3. job'[e][k] = "none" /\ tries'[e][k] = 0 /\ "none" \notin Holding
    BY <2>2, Moved DEF Holding, Outcomes
  <2>4. TaskInv(e, k)'
    BY <2>3 DEF TaskInv
  <2>5. delivery'[e] = "failed" => attempts'[e] > MaxRetries \/ e \in abandoned'
    <3>1. CASE job[e][k] = "erred"
      BY <1>3, <1>7, <1>8, <1>10, <3>1, InboxAssumption
    <3>2. CASE job[e][k] # "erred"
      BY <1>1, <1>5, <1>7, <3>2 DEF Outcomes, TaskInv
    <3> QED
      BY <3>1, <3>2
  <2> QED
    BY <1>5, <1>6, <1>7, <2>2, <2>3, <2>4, <2>5, StepKeepsInv
<1> QED
  BY <1>9, <1>10

LEMMA PublishRetryKeepsInv ==
  ASSUME InboxIInv, NEW e \in Deliveries, NEW k \in Slots, PublishRetry(e, k)
  PROVE  InboxIInv'
<1> USE DEF InboxIInv
<1>1. job[e][k] = "retrying" /\ UNCHANGED <<delivery, attempts>>
  BY DEF PublishRetry
<1>2. CASE Over(e, k) /\ abandoned' = abandoned \cup {e} /\ Refused
  <2>1. kills' \in 0 .. MaxWorkerDeaths /\ unpublished' \in 0 .. MaxUnpublished
    BY <1>2, InboxAssumption DEF Refused, InboxTypeOK
  <2>2. abandoned \subseteq abandoned' /\ abandoned' \subseteq Deliveries /\ e \in abandoned'
    BY <1>2 DEF InboxTypeOK
  <2> QED
    BY <1>1, <1>2, <2>1, <2>2, EndedTaskKeepsInv
<1>3. CASE /\ job' = [job EXCEPT ![e][k] = "queued"]
           /\ tries' = [tries EXCEPT ![e][k] = @ + 1]
           /\ UNCHANGED <<abandoned, inboxBounds>>
  <2>1. tries[e][k] < MaxRetries /\ attempts[e] > tries[e][k]
    BY <1>1 DEF TaskInv
  <2>2. tries[e][k] + 1 \in 0 .. MaxRetries /\ attempts[e] \in Nat /\ tries[e][k] \in Nat
    BY <2>1, InboxAssumption DEF InboxTypeOK
  <2>3. MovesTask(e, k, "queued", tries[e][k] + 1)
    BY <1>3 DEF MovesTask
  <2>4. "queued" \in JobPlaces \ (Holding \cup {"none"})
    BY DEF JobPlaces, Holding, Outcomes
  <2>5. job'[e][k] = "queued" /\ tries'[e][k] = tries[e][k] + 1
    BY <2>2, <2>3, <2>4, Moved
  <2>6. /\ delivery' \in [Deliveries -> DeliveryStatuses] /\ delivery' = delivery
        /\ attempts' \in [Deliveries -> 0 .. MaxRetries + 1] /\ attempts' = attempts
        /\ attempts'[e] >= attempts[e]
        /\ abandoned' = abandoned /\ abandoned \subseteq Deliveries
        /\ kills' \in 0 .. MaxWorkerDeaths /\ unpublished' \in 0 .. MaxUnpublished
    BY <1>1, <1>3, InboxAssumption DEF inboxBounds, InboxTypeOK
  <2>7. TaskInv(e, k)'
    BY <2>1, <2>2, <2>4, <2>5, <2>6 DEF TaskInv
  <2> QED
    BY <2>2, <2>3, <2>4, <2>6, <2>7, StepKeepsInv
<1> QED
  BY <1>2, <1>3 DEF PublishRetry

LEMMA WorkerDiesKeepsInv ==
  ASSUME InboxIInv, NEW e \in Deliveries, NEW k \in Slots, WorkerDies(e, k)
  PROVE  InboxIInv'
<1> USE DEF InboxIInv
<1>1. job[e][k] \notin {"none", "queued"} /\ UNCHANGED <<delivery, attempts, abandoned, unpublished>>
  BY DEF WorkerDies
<1>2. kills' \in 0 .. MaxWorkerDeaths /\ unpublished' \in 0 .. MaxUnpublished
  BY InboxAssumption DEF WorkerDies, InboxTypeOK
<1>3. job[e][k] \in Holding \cup {"retrying"}
  BY <1>1 DEF InboxTypeOK, JobPlaces, Holding
<1>4. abandoned' = abandoned /\ abandoned \subseteq Deliveries
  BY <1>1 DEF InboxTypeOK
<1>5. CASE Put(e, k, "queued")
  <2>1. MovesTask(e, k, "queued", tries[e][k]) /\ tries[e][k] \in 0 .. MaxRetries
    BY <1>5, PutMoves
  <2>2. "queued" \in JobPlaces \ (Holding \cup {"none"})
    BY DEF JobPlaces, Holding, Outcomes
  <2>3. job'[e][k] = "queued" /\ tries'[e][k] = tries[e][k]
    BY <2>1, <2>2, Moved
  <2>4. /\ delivery' \in [Deliveries -> DeliveryStatuses] /\ delivery' = delivery
        /\ attempts' \in [Deliveries -> 0 .. MaxRetries + 1] /\ attempts' = attempts
        /\ attempts[e] \in Nat /\ tries[e][k] \in Nat
    BY <1>1, InboxAssumption DEF InboxTypeOK
  <2>5. attempts'[e] >= attempts[e] /\ attempts[e] >= tries[e][k]
    BY <1>3, <2>4 DEF TaskInv
  <2>6. TaskInv(e, k)'
    BY <2>2, <2>3, <2>4, <2>5 DEF TaskInv
  <2> QED
    BY <1>2, <1>4, <2>1, <2>2, <2>4, <2>5, <2>6, StepKeepsInv
<1>6. CASE job[e][k] # "retrying" /\ Over(e, k)
  <2>1. delivery[e] = "processing"
    BY <1>3, <1>6 DEF TaskInv
  <2> QED
    BY <1>1, <1>2, <1>4, <1>6, <2>1, EndedTaskKeepsInv
<1> QED
  BY <1>5, <1>6 DEF WorkerDies

LEMMA InboxNextInv == InboxIInv /\ [InboxNext]_inboxVars => InboxIInv'
<1> SUFFICES ASSUME InboxIInv, [InboxNext]_inboxVars PROVE InboxIInv'
  OBVIOUS
<1>1. ASSUME NEW e \in Deliveries, Receive(e) PROVE InboxIInv'
  <2>1. ~Held(e)
    BY <1>1 DEF Receive, Held, InboxIInv, TaskInv
  <2> QED
    BY <1>1, <2>1, ReceivedKeepsInv DEF Receive
<1>2. ASSUME NEW e \in Deliveries, RequeueStuck(e) PROVE InboxIInv'
  BY <1>2, ReceivedKeepsInv DEF RequeueStuck
<1>3. ASSUME NEW e \in Deliveries, NEW k \in Slots, Process(e, k) PROVE InboxIInv'
  BY <1>3, ClaimEventKeepsInv, FinishEventKeepsInv, PublishRetryKeepsInv DEF Process
<1>4. CASE UNCHANGED inboxVars
  BY <1>4 DEF InboxIInv, InboxTypeOK, TaskInv, OneHolder, FailedIsRetried, inboxVars, inboxBounds
<1> QED
  BY <1>1, <1>2, <1>3, <1>4, WorkerDiesKeepsInv, HandledKeepsInv DEF InboxNext

(* Every variable of the inbox keeps its type. *)
THEOREM InboxTypeCorrect == InboxSpec => []InboxTypeOK
<1>1. InboxIInv => InboxTypeOK
  BY DEF InboxIInv
<1> QED
  BY InboxInitInv, InboxNextInv, <1>1, PTL DEF InboxSpec

(* However often tasks are doubled, requeued or killed, the receivers of a  *)
(* delivery never run in two workers at once.                               *)
THEOREM InboxOneHolder == InboxSpec => []OneHolder
<1>1. InboxIInv => OneHolder
  BY DEF InboxIInv
<1> QED
  BY InboxInitInv, InboxNextInv, <1>1, PTL DEF InboxSpec

(* A failed delivery waits for its retry, has used them all, cannot be      *)
(* parsed, or lost its retry to the broker: for any number of retries.      *)
THEOREM InboxFailedIsRetried == InboxSpec => []FailedIsRetried
<1>1. InboxIInv => FailedIsRetried
  BY DEF InboxIInv
<1> QED
  BY InboxInitInv, InboxNextInv, <1>1, PTL DEF InboxSpec
=============================================================================
