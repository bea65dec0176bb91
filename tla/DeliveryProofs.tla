--------------------------- MODULE DeliveryProofs ---------------------------
(* What is proved about Outbox and about Delivery, for any number of tasks  *)
(* and any bounds.  The outbox keeps its types, and Meta accepts a message  *)
(* at most once.  Delivery is that outbox and a webhook inbox running       *)
(* together, so that what is proved about each holds of it; the row of a    *)
(* message shows the furthest status of the reports applied; and no report  *)
(* is ignored whose message is, or ever becomes, known.                     *)
EXTENDS MCDelivery, WebhookInboxProofs, CampaignProofs

(* The outbox.                                                              *)
IInv == OutboxTypeOK /\ OutboxInv

(* A step that takes task t to a place where it does not work, and leaves   *)
(* the other tasks alone.                                                   *)
Rests(t) ==
  \E place \in TaskPlaces \ Working, r \in 0 .. MaxSendRetries :
    /\ task' = [task EXCEPT ![t] = place] /\ retries' = [retries EXCEPT ![t] = r]
    /\ place = "retrying" => r < MaxSendRetries
    /\ place = "telling" => status' \in ReportedStatuses

LEMMA GoRests ==
  ASSUME OutboxTypeOK, NEW t \in Tasks, NEW place \in TaskPlaces \ Working, Go(t, place),
         place = "retrying" => retries[t] < MaxSendRetries,
         place = "telling" => status' \in ReportedStatuses
  PROVE  Rests(t)
<1>1. retries' = [retries EXCEPT ![t] = retries[t]] /\ retries[t] \in 0 .. MaxSendRetries
  BY DEF OutboxTypeOK, Go
<1> QED
  BY <1>1 DEF Rests, Go

LEMMA EndsRests ==
  ASSUME NEW t \in Tasks, Ends(t)
  PROVE  Rests(t)
<1>1. "none" \in TaskPlaces \ Working
  BY DEF TaskPlaces, Working
<1>2. 0 \in 0 .. MaxSendRetries
  BY OutboxAssumption
<1> QED
  BY <1>1, <1>2 DEF Rests, Ends

LEMMA RestsTyped ==
  ASSUME OutboxTypeOK, NEW t \in Tasks, Rests(t)
  PROVE  /\ task' \in [Tasks -> TaskPlaces] /\ retries' \in [Tasks -> 0 .. MaxSendRetries]
         /\ task'[t] \notin Working
         /\ task'[t] = "retrying" => retries'[t] < MaxSendRetries
         /\ task'[t] = "telling" => status' \in ReportedStatuses
         /\ \A u \in Tasks \ {t} : task'[u] = task[u] /\ retries'[u] = retries[u]
BY DEF OutboxTypeOK, Rests

(* A task that rests cannot break the invariant, as long as the row keeps   *)
(* the status it had or leaves sending for the queue or for good.           *)
LEMMA RestingKeepsInv ==
  ASSUME IInv, NEW t \in Tasks, Rests(t),
         UNCHANGED <<wamid, accepted>>,
         status' \in MessageStatuses,
         \/ status' = status
         \/ /\ task[t] \in Working
            /\ status' \in {"queued", "failed"} /\ ~wamid
            /\ status' = "queued" => accepted = 0
  PROVE  OutboxInv'
<1> USE DEF IInv, OutboxInv
<1>1. /\ task'[t] \notin Working
      /\ task'[t] = "retrying" => retries'[t] < MaxSendRetries
      /\ task'[t] = "telling" => status' \in ReportedStatuses
      /\ \A u \in Tasks \ {t} : task'[u] = task[u] /\ retries'[u] = retries[u]
  BY RestsTyped
<1>2. {"claimed", "allowed", "accepted"} = Working
  BY DEF Working
<1>3. (\A u, v \in Tasks : task[u] \in Working /\ task[v] \in Working => u = v)'
  BY <1>1
<1>4. (\A u \in Tasks : task[u] \in Working => status = "sending")'
  <2>1. CASE status' = status
    BY <1>1, <2>1
  <2>2. CASE task[t] \in Working
    <3>1. \A u \in Tasks : task'[u] \notin Working
      BY <1>1, <2>2
    <3> QED
      BY <3>1
  <2> QED
    BY <2>1, <2>2
<1>5. (\A u \in Tasks : task[u] = "accepted" => accepted = 1)'
  BY <1>1, <1>2
<1>6. (accepted = 1 => /\ status \notin {"none", "queued"}
                       /\ \A u \in Tasks : task[u] \notin {"claimed", "allowed"})'
  BY <1>1, <1>2
<1>7. (wamid => accepted = 1 /\ status \in ReportedStatuses)'
  <2>1. CASE status' = status
    BY <2>1
  <2>2. CASE ~wamid
    BY <2>2
  <2> QED
    BY <2>1, <2>2
<1>8. (\A u \in Tasks : task[u] = "retrying" => retries[u] < MaxSendRetries)'
  BY <1>1
<1>9. (\A u \in Tasks : task[u] = "telling" => status \in ReportedStatuses)'
  <2>1. CASE status' = status
    BY <1>1, <2>1
  <2>2. CASE task[t] \in Working
    <3>1. status \notin ReportedStatuses
      BY <2>2 DEF ReportedStatuses
    <3>2. \A u \in Tasks \ {t} : task'[u] # "telling"
      BY <1>1, <3>1
    <3> QED
      BY <1>1, <3>2
  <2> QED
    BY <2>1, <2>2
<1> QED
  BY <1>3, <1>4, <1>5, <1>6, <1>7, <1>8, <1>9

-----------------------------------------------------------------------------
(* The two ways a working task gives its row up. *)

LEMMA FailKeepsInv ==
  ASSUME IInv, NEW t \in Tasks, NEW out \in BOOLEAN, task[t] \in Working, Fail(t, out),
         UNCHANGED <<accepted, news, bounds>>
  PROVE  IInv'
<1>1. status = "sending" /\ ~wamid
  BY DEF IInv, OutboxInv, ReportedStatuses
<1>2. "telling" \in TaskPlaces \ Working
  BY DEF TaskPlaces, Working
<1>3. Rests(t) /\ status' = "failed" /\ optedOut' = out /\ UNCHANGED wamid
  BY <1>1, <1>2, GoRests DEF Fail, IInv, ReportedStatuses
<1>4. status' \in MessageStatuses
  BY <1>3 DEF MessageStatuses, ReportedStatuses
<1>5. OutboxTypeOK'
  BY <1>3, <1>4, RestsTyped DEF IInv, OutboxTypeOK, bounds
<1>6. OutboxInv'
  BY <1>1, <1>3, <1>4, RestingKeepsInv
<1> QED
  BY <1>5, <1>6 DEF IInv

LEMMA ReleaseKeepsInv ==
  ASSUME IInv, NEW t \in Tasks, task[t] \in {"claimed", "allowed"},
         NEW place \in {"parted", "retrying"}, Release(t, place),
         place = "retrying" => retries[t] < MaxSendRetries,
         UNCHANGED <<accepted, news>>, waits' \in 0 .. MaxWaits, UNCHANGED <<deaths, lost>>
  PROVE  IInv'
<1>1. task[t] \in Working
  BY DEF Working
<1>2. status = "sending" /\ ~wamid /\ accepted = 0
  <2>1. accepted # 1 /\ accepted \in Nat /\ accepted <= 1
    BY DEF IInv, OutboxInv, OutboxTypeOK
  <2>2. status = "sending"
    BY <1>1 DEF IInv, OutboxInv
  <2> QED
    BY <2>1, <2>2 DEF IInv, OutboxInv
<1>3. place \in TaskPlaces \ Working
  BY DEF TaskPlaces, Working
<1>4. Rests(t) /\ status' = "queued" /\ UNCHANGED <<optedOut, wamid>>
  BY <1>2, <1>3, GoRests DEF Release, IInv
<1>5. status' \in MessageStatuses
  BY <1>4 DEF MessageStatuses
<1>6. OutboxTypeOK'
  BY <1>4, <1>5, RestsTyped DEF IInv, OutboxTypeOK
<1>7. OutboxInv'
  BY <1>1, <1>2, <1>4, <1>5, RestingKeepsInv
<1> QED
  BY <1>6, <1>7 DEF IInv

LEMMA RetryOrFailKeepsInv ==
  ASSUME IInv, NEW t \in Tasks, task[t] = "allowed", RetryOrFail(t),
         UNCHANGED <<accepted, news, bounds>>
  PROVE  IInv'
<1>1. CASE retries[t] < MaxSendRetries /\ Release(t, "retrying")
  <2>1. waits' \in 0 .. MaxWaits /\ UNCHANGED <<deaths, lost>>
    BY DEF bounds, IInv, OutboxTypeOK
  <2> QED
    BY <1>1, <2>1, ReleaseKeepsInv
<1>2. CASE Fail(t, FALSE)
  <2>1. task[t] \in Working
    BY DEF Working
  <2> QED
    BY <1>2, <2>1, FailKeepsInv
<1> QED
  BY <1>1, <1>2 DEF RetryOrFail

-----------------------------------------------------------------------------
(* Every step keeps the invariant. *)

LEMMA InitInv == OutboxInit => IInv
<1> SUFFICES ASSUME OutboxInit PROVE IInv
  OBVIOUS
<1>1. OutboxTypeOK
  <2>1. /\ status \in MessageStatuses /\ optedOut \in BOOLEAN /\ wamid \in BOOLEAN
        /\ task \in [Tasks -> TaskPlaces] /\ accepted \in Nat /\ news \subseteq Events
    BY DEF OutboxInit, MessageStatuses, TaskPlaces
  <2>2. /\ retries \in [Tasks -> 0 .. MaxSendRetries]
        /\ waits \in 0 .. MaxWaits /\ deaths \in 0 .. MaxDeaths /\ lost \in 0 .. MaxLost
    BY OutboxAssumption DEF OutboxInit
  <2> QED
    BY <2>1, <2>2 DEF OutboxTypeOK
<1>2. OutboxInv
  BY DEF OutboxInit, OutboxInv, Working
<1> QED
  BY <1>1, <1>2 DEF IInv

LEMMA SendKeepsInv ==
  ASSUME IInv, Send
  PROVE  IInv'
<1>1. status = "none" /\ status' = "queued" /\ ~wamid /\ UNCHANGED <<optedOut, wamid, accepted, news>>
  BY DEF Send, IInv, OutboxInv, ReportedStatuses
<1>2. accepted = 0
  BY <1>1 DEF IInv, OutboxInv, OutboxTypeOK
<1>3. \A u \in Tasks : task[u] \notin Working \cup {"telling"}
  BY <1>1 DEF IInv, OutboxInv, ReportedStatuses
<1>4. /\ task' \in [Tasks -> TaskPlaces] /\ retries' \in [Tasks -> 0 .. MaxSendRetries]
      /\ \A u \in Tasks : task'[u] \notin Working \cup {"telling"}
      /\ \A u \in Tasks : task'[u] = "retrying" => retries'[u] < MaxSendRetries
      /\ waits' \in 0 .. MaxWaits /\ deaths' \in 0 .. MaxDeaths /\ lost' \in 0 .. MaxLost
  <2>1. PICK t \in Tasks : \/ Go(t, "queued") /\ UNCHANGED bounds
                           \/ UNCHANGED <<task, retries>> /\ Mishap
    BY DEF Send
  <2>2. CASE Go(t, "queued") /\ UNCHANGED bounds
    BY <1>3, <2>2 DEF Go, bounds, IInv, OutboxTypeOK, OutboxInv, TaskPlaces, Working
  <2>3. CASE UNCHANGED <<task, retries>> /\ Mishap
    BY <1>3, <2>3, OutboxAssumption DEF Mishap, IInv, OutboxTypeOK, OutboxInv
  <2> QED
    BY <2>1, <2>2, <2>3
<1>5. OutboxTypeOK'
  BY <1>1, <1>4 DEF IInv, OutboxTypeOK, MessageStatuses
<1>6. OutboxInv'
  BY <1>1, <1>2, <1>4 DEF OutboxInv, Working
<1> QED
  BY <1>5, <1>6 DEF IInv

LEMMA ClaimKeepsInv ==
  ASSUME IInv, NEW t \in Tasks, Claim(t)
  PROVE  IInv'
<1>1. CASE status = "queued"
  <2>1. /\ status' = "sending" /\ Go(t, "claimed")
        /\ UNCHANGED <<optedOut, wamid, accepted, news, bounds>>
    BY <1>1 DEF Claim
  <2>2. accepted = 0 /\ ~wamid /\ \A u \in Tasks : task[u] \notin Working \cup {"telling"}
    BY <1>1 DEF IInv, OutboxInv, OutboxTypeOK, ReportedStatuses
  <2>3. task' = [task EXCEPT ![t] = "claimed"] /\ UNCHANGED retries
    BY <2>1 DEF Go
  <2>4. OutboxTypeOK'
    BY <2>1, <2>3 DEF IInv, OutboxTypeOK, MessageStatuses, TaskPlaces, Working, bounds
  <2>5. /\ task'[t] = "claimed"
        /\ \A u \in Tasks \ {t} : task'[u] = task[u]
    BY <2>3 DEF IInv, OutboxTypeOK
  <2>6. OutboxInv'
    BY <2>1, <2>2, <2>3, <2>5 DEF IInv, OutboxInv, Working
  <2> QED
    BY <2>4, <2>6 DEF IInv
<1>2. CASE status # "queued"
  <2>1. Ends(t) /\ UNCHANGED <<row, accepted, news, bounds>>
    BY <1>2 DEF Claim, row
  <2>2. Rests(t)
    BY <2>1, EndsRests
  <2>3. OutboxTypeOK'
    BY <2>1, <2>2, RestsTyped DEF IInv, OutboxTypeOK, row, bounds
  <2>4. OutboxInv'
    BY <2>1, <2>2, RestingKeepsInv DEF IInv, OutboxTypeOK, row
  <2> QED
    BY <2>3, <2>4 DEF IInv
<1> QED
  BY <1>1, <1>2

LEMMA PassesKeepsInv ==
  ASSUME IInv, NEW t \in Tasks, Passes(t)
  PROVE  IInv'
<1>1. /\ task[t] = "claimed" /\ task' = [task EXCEPT ![t] = "allowed"]
      /\ UNCHANGED <<row, retries, accepted, news, bounds>>
  BY DEF Passes, Go
<1>2. OutboxTypeOK'
  BY <1>1 DEF IInv, OutboxTypeOK, TaskPlaces, Working, row, bounds
<1>3. \A u \in Tasks : task'[u] \in Working <=> task[u] \in Working
  BY <1>1 DEF IInv, OutboxTypeOK, Working
<1>4. OutboxInv'
  BY <1>1, <1>3 DEF IInv, OutboxTypeOK, OutboxInv, row
<1> QED
  BY <1>2, <1>4 DEF IInv

(* The heart of the matter: a task allowed to send is the first. *)
LEMMA MetaAcceptsKeepsInv ==
  ASSUME IInv, NEW t \in Tasks, MetaAccepts(t)
  PROVE  IInv'
<1>1. /\ task[t] = "allowed" /\ task' = [task EXCEPT ![t] = "accepted"]
      /\ accepted' = accepted + 1
      /\ UNCHANGED <<row, retries, news, bounds>>
  BY DEF MetaAccepts, Go
<1>2. accepted = 0 /\ accepted' = 1
  BY <1>1 DEF IInv, OutboxInv, OutboxTypeOK
<1>3. OutboxTypeOK'
  BY <1>1, <1>2 DEF IInv, OutboxTypeOK, TaskPlaces, Working, row, bounds
<1>4. status = "sending" /\ \A u \in Tasks \ {t} : task[u] \notin Working
  BY <1>1 DEF IInv, OutboxInv, Working
<1>5. task'[t] = "accepted" /\ \A u \in Tasks \ {t} : task'[u] \notin Working
  BY <1>1, <1>4 DEF IInv, OutboxTypeOK
<1>6. OutboxInv'
  BY <1>1, <1>2, <1>4, <1>5 DEF IInv, OutboxInv, Working, row
<1> QED
  BY <1>3, <1>6 DEF IInv

LEMMA StoresWamidKeepsInv ==
  ASSUME IInv, NEW t \in Tasks, StoresWamid(t)
  PROVE  IInv'
<1>1. task[t] = "accepted" /\ status = "sending" /\ accepted = 1
  BY DEF StoresWamid, IInv, OutboxInv, Working
<1>2. /\ status' = "sent" /\ wamid' = TRUE /\ Go(t, "telling")
      /\ UNCHANGED <<optedOut, accepted, news, bounds>>
  BY <1>1 DEF StoresWamid
<1>3. Rests(t)
  BY <1>2, GoRests DEF IInv, TaskPlaces, Working, ReportedStatuses
<1>4. \A u \in Tasks :
        /\ task'[u] \notin Working
        /\ task'[u] = "retrying" => retries'[u] < MaxSendRetries
  BY <1>1, <1>3, RestsTyped DEF IInv, OutboxInv, Working
<1>5. OutboxTypeOK'
  BY <1>2, <1>3, RestsTyped
     DEF IInv, OutboxTypeOK, MessageStatuses, ReportedStatuses, bounds
<1>6. OutboxInv'
  BY <1>1, <1>2, <1>4 DEF OutboxInv, Working, ReportedStatuses
<1> QED
  BY <1>5, <1>6 DEF IInv

LEMMA EventTyped ==
  ASSUME OutboxTypeOK, status \in ReportedStatuses
  PROVE  Event(status, optedOut) \in Events
BY DEF Event, Events, OutboxTypeOK, ReportedStatuses

(* Steps of tasks that work on nothing. *)
LEMMA RestingTaskKeepsInv ==
  ASSUME IInv, NEW t \in Tasks, Publishes(t) \/ Dies(t)
  PROVE  IInv'
<1>1. Rests(t) /\ UNCHANGED <<row, accepted, news>>
  <2>1. CASE Publishes(t)
    <3>1. CASE Ends(t)
      BY <2>1, <3>1, EndsRests DEF Publishes
    <3>2. CASE /\ task' = [task EXCEPT ![t] = "queued"]
               /\ retries' = [retries EXCEPT ![t] = IF task[t] = "parted" THEN 0 ELSE @ + 1]
      <4>1. (IF task[t] = "parted" THEN 0 ELSE retries[t] + 1) \in 0 .. MaxSendRetries
        BY <2>1, OutboxAssumption DEF Publishes, IInv, OutboxTypeOK, OutboxInv
      <4>2. "queued" \in TaskPlaces \ Working
        BY DEF TaskPlaces, Working
      <4>3. retries' = [retries EXCEPT ![t] = IF task[t] = "parted" THEN 0 ELSE retries[t] + 1]
        BY <3>2 DEF IInv, OutboxTypeOK
      <4> QED
        BY <2>1, <3>2, <4>1, <4>2, <4>3 DEF Publishes, Rests
    <3> QED
      BY <2>1, <3>1, <3>2 DEF Publishes
  <2>2. CASE Dies(t)
    <3>1. "queued" \in TaskPlaces \ Working
      BY DEF TaskPlaces, Working
    <3> QED
      BY <2>2, <3>1, GoRests, EndsRests DEF Dies, IInv
  <2> QED
    BY <2>1, <2>2
<1>2. waits' \in 0 .. MaxWaits /\ deaths' \in 0 .. MaxDeaths /\ lost' \in 0 .. MaxLost
  BY OutboxAssumption DEF IInv, OutboxTypeOK, Publishes, Dies, Mishap, Death, bounds
<1>3. OutboxTypeOK'
  BY <1>1, <1>2, RestsTyped DEF IInv, OutboxTypeOK, row
<1>4. OutboxInv'
  BY <1>1, RestingKeepsInv DEF IInv, OutboxTypeOK, row
<1> QED
  BY <1>3, <1>4 DEF IInv

LEMMA TellsKeepsInv ==
  ASSUME IInv, NEW t \in Tasks, Tells(t)
  PROVE  IInv'
<1>1. Rests(t) /\ UNCHANGED <<row, accepted, bounds>>
  BY EndsRests DEF Tells
<1>2. news' \subseteq Events
  BY EventTyped DEF Tells, IInv, OutboxTypeOK, OutboxInv
<1>3. OutboxTypeOK'
  BY <1>1, <1>2, RestsTyped DEF IInv, OutboxTypeOK, row, bounds
<1>4. OutboxInv'
  BY <1>1, RestingKeepsInv DEF IInv, OutboxTypeOK, row
<1> QED
  BY <1>3, <1>4 DEF IInv

LEMMA DeliveredTwiceKeepsInv ==
  ASSUME IInv, NEW t \in Tasks, NEW u \in Tasks, DeliveredTwice(t, u)
  PROVE  IInv'
<1>1. Rests(u) /\ UNCHANGED <<row, accepted, news>>
  <2>1. "queued" \in TaskPlaces \ Working /\ retries[t] \in 0 .. MaxSendRetries
    BY DEF TaskPlaces, Working, IInv, OutboxTypeOK
  <2> QED
    BY <2>1 DEF DeliveredTwice, Rests
<1>2. waits' \in 0 .. MaxWaits /\ deaths' \in 0 .. MaxDeaths /\ lost' \in 0 .. MaxLost
  BY OutboxAssumption DEF IInv, OutboxTypeOK, DeliveredTwice, Mishap
<1>3. OutboxTypeOK'
  BY <1>1, <1>2, RestsTyped DEF IInv, OutboxTypeOK, row
<1>4. OutboxInv'
  BY <1>1, RestingKeepsInv DEF IInv, OutboxTypeOK, row
<1> QED
  BY <1>3, <1>4 DEF IInv

(* The watchdog finds no task at work. *)
LEMMA FailStuckKeepsInv ==
  ASSUME IInv, FailStuck
  PROVE  IInv'
<1>1. /\ status = "sending" /\ status' = "failed" /\ optedOut' = FALSE
      /\ \A t \in Tasks : task[t] \notin Working
      /\ news' = news \cup {"failed"}
      /\ UNCHANGED <<wamid, task, retries, accepted, bounds>>
  BY DEF FailStuck
<1>2. OutboxTypeOK'
  BY <1>1 DEF IInv, OutboxTypeOK, MessageStatuses, ReportedStatuses, Events, bounds
<1>3. OutboxInv'
  BY <1>1 DEF IInv, OutboxInv, ReportedStatuses, Working
<1> QED
  BY <1>2, <1>3 DEF IInv

(* A status is applied to a row that no task has got: it stays reported.    *)
LEMMA ApplyStatusKeepsInv ==
  ASSUME IInv, NEW s \in Reports, NEW told \in BOOLEAN, ApplyStatus(s, told), UNCHANGED bounds
  PROVE  IInv'
<1>1. status \in ReportedStatuses /\ accepted = 1
  BY DEF ApplyStatus, IInv, OutboxInv
<1>2. \A t \in Tasks : task[t] \notin Working
  BY <1>1 DEF IInv, OutboxInv, ReportedStatuses
<1>3. s \in ReportedStatuses
  BY OutboxAssumption
<1>4. status' \in ReportedStatuses
  BY <1>1, <1>3 DEF ApplyStatus, TargetStatus, Rank, ReportedStatuses
<1>5. OutboxTypeOK'
  BY <1>4 DEF ApplyStatus, IInv, OutboxTypeOK, MessageStatuses, Events, bounds
<1>6. OutboxInv'
  BY <1>1, <1>2, <1>4 DEF ApplyStatus, IInv, OutboxInv, ReportedStatuses, Working
<1> QED
  BY <1>5, <1>6 DEF IInv

LEMMA DispatchKeepsInv ==
  ASSUME IInv, NEW t \in Tasks, Dispatch(t)
  PROVE  IInv'
<1>1. CASE PolicyRefuses(t)
  <2>1. PICK out \in BOOLEAN : Fail(t, out)
    BY <1>1 DEF PolicyRefuses
  <2>2. task[t] \in Working /\ UNCHANGED <<accepted, news, bounds>>
    BY <1>1 DEF PolicyRefuses, Working
  <2> QED
    BY <2>1, <2>2, FailKeepsInv
<1>2. CASE LimiterWaits(t)
  <2>1. waits' \in 0 .. MaxWaits
    BY <1>2, OutboxAssumption DEF LimiterWaits, IInv, OutboxTypeOK
  <2> QED
    BY <1>2, <2>1, ReleaseKeepsInv DEF LimiterWaits
<1>3. CASE UploadFails(t) \/ MetaRefuses(t)
  BY <1>3, RetryOrFailKeepsInv DEF UploadFails, MetaRefuses
<1>4. CASE AnswerLost(t)
  BY <1>4, FailKeepsInv DEF AnswerLost, Working
<1> QED
  BY <1>1, <1>2, <1>3, <1>4, ClaimKeepsInv, PassesKeepsInv, MetaAcceptsKeepsInv,
     StoresWamidKeepsInv, RestingTaskKeepsInv, TellsKeepsInv DEF Dispatch

LEMMA NextInv == IInv /\ [OutboxNext]_outboxVars => IInv'
<1> SUFFICES ASSUME IInv, [OutboxNext]_outboxVars PROVE IInv'
  OBVIOUS
<1>1. CASE Sending
  BY <1>1, SendKeepsInv, FailStuckKeepsInv, DispatchKeepsInv, RestingTaskKeepsInv,
     DeliveredTwiceKeepsInv DEF Sending
<1>2. CASE StatusApplied
  BY <1>2, ApplyStatusKeepsInv DEF StatusApplied
<1>3. CASE EventReceived
  <2>1. UNCHANGED <<row, task, retries, accepted, bounds>> /\ news' \subseteq news
    BY <1>3 DEF EventReceived
  <2> QED
    BY <2>1 DEF IInv, OutboxTypeOK, OutboxInv, row, bounds
<1>4. CASE UNCHANGED outboxVars
  BY <1>4 DEF IInv, OutboxTypeOK, OutboxInv, outboxVars, row, bounds
<1> QED
  BY <1>1, <1>2, <1>3, <1>4 DEF OutboxNext

(* For any number of tasks, whatever fails: one task at most works on the   *)
(* row, and none can get hold of it once Meta has accepted the message.     *)
THEOREM OutboxInvariant == OutboxSpec => []OutboxInv
<1>1. IInv => OutboxInv
  BY DEF IInv
<1> QED
  BY InitInv, NextInv, <1>1, PTL DEF OutboxSpec

(* Every variable of the outbox keeps its type. *)
THEOREM OutboxTypeCorrect == OutboxSpec => []OutboxTypeOK
<1>1. IInv => OutboxTypeOK
  BY DEF IInv
<1> QED
  BY InitInv, NextInv, <1>1, PTL DEF OutboxSpec

(* The customer receives the message at most once, for any number of tasks, *)
(* retries, waits, deaths and doubled tasks.                                *)
THEOREM OutboxSendsOnce == OutboxSpec => []SentAtMostOnce
<1>1. OutboxInv => SentAtMostOnce
  BY DEF OutboxInv, SentAtMostOnce
<1> QED
  BY OutboxInvariant, <1>1, PTL

-----------------------------------------------------------------------------
(* The composition with the webhook inbox.                                  *)
LEMMA DeliveryInitParts == DeliveryInit => OutboxInit /\ InboxInit
BY DEF DeliveryInit

(* The receivers do to the outbox what its own model lets the webhooks do.  *)
LEMMA StepOfOutbox == [DeliveryNext]_deliveryVars => [OutboxNext]_outboxVars
<1> SUFFICES ASSUME [DeliveryNext]_deliveryVars PROVE [OutboxNext]_outboxVars
  OBVIOUS
<1>1. CASE OutboxRuns
  BY <1>1 DEF OutboxRuns, OutboxNext
<1>2. CASE RecipientHears
  <2>1. EventReceived
    BY <1>2 DEF RecipientHears, EventReceived
  <2> QED
    BY <2>1 DEF OutboxNext
<1>3. CASE \E s \in Reports : MetaReports(s) \/ BeatRequeues(s) \/ WindowPasses(s)
  BY <1>3 DEF MetaReports, BeatRequeues, WindowPasses, OnlyInbox
<1>4. CASE \E s \in Reports, k \in Slots :
             TaskRuns(s, k) \/ TaskDies(s, k) \/ FindsNothing(s, k) \/ Doubts(s, k) \/ Ignores(s, k)
  BY <1>4 DEF TaskRuns, TaskDies, FindsNothing, Doubts, Ignores, OnlyInbox
<1>5. CASE \E s \in Reports, k \in Slots : AppliesStatus(s, k) \/ AppliesStatusAndDies(s, k)
  <2>1. StatusApplied
    BY <1>5 DEF AppliesStatus, AppliesStatusAndDies, StatusApplied
  <2> QED
    BY <2>1 DEF OutboxNext
<1>6. CASE UNCHANGED deliveryVars
  BY <1>6 DEF deliveryVars
<1> QED
  BY <1>1, <1>2, <1>3, <1>4, <1>5, <1>6 DEF DeliveryNext, Receives

LEMMA StepOfInbox == [DeliveryNext]_deliveryVars => [InboxNext]_inboxVars
<1> SUFFICES ASSUME [DeliveryNext]_deliveryVars PROVE [InboxNext]_inboxVars
  OBVIOUS
<1> USE DeliveryAssumption
<1>1. CASE OutboxRuns \/ RecipientHears
  BY <1>1 DEF OutboxRuns, RecipientHears, OnlyOutbox
<1>2. ASSUME NEW s \in Reports, MetaReports(s) \/ BeatRequeues(s) \/ WindowPasses(s)
      PROVE  [InboxNext]_inboxVars
  BY <1>2 DEF MetaReports, BeatRequeues, WindowPasses, InboxNext
<1>3. ASSUME NEW s \in Reports, NEW k \in Slots,
             TaskRuns(s, k) \/ TaskDies(s, k) \/ AppliesStatusAndDies(s, k)
      PROVE  [InboxNext]_inboxVars
  BY <1>3 DEF TaskRuns, TaskDies, AppliesStatusAndDies, InboxNext
<1>4. ASSUME NEW s \in Reports, NEW k \in Slots, Receives(s, k)
      PROVE  [InboxNext]_inboxVars
  <2>1. "processed" \in Outcomes /\ "erred" \in Outcomes
    BY DEF Outcomes
  <2>2. UNCHANGED inboxVars \/ \E outcome \in Outcomes : Handled(s, k, outcome)
    BY <1>4, <2>1 DEF Receives, AppliesStatus, FindsNothing, Doubts, Ignores
  <2> QED
    BY <2>2 DEF InboxNext
<1>5. CASE UNCHANGED deliveryVars
  BY <1>5 DEF deliveryVars
<1> QED
  BY <1>1, <1>2, <1>3, <1>4, <1>5 DEF DeliveryNext

(* The composition implements the outbox, with its environment made real.   *)
THEOREM DeliveryImplementsOutbox == DeliverySpec => OutboxSpec
BY DeliveryInitParts, StepOfOutbox, PTL DEF DeliverySpec, OutboxSpec

(* It implements the webhook inbox too. *)
THEOREM DeliveryImplementsInbox == DeliverySpec => InboxSpec
BY DeliveryInitParts, StepOfInbox, PTL DEF DeliverySpec, InboxSpec

(* The customer receives a campaign message at most once, whatever Meta     *)
(* reports of it and whatever the webhooks do.                              *)
THEOREM DeliverySendsOnce == DeliverySpec => []SentAtMostOnce
BY DeliveryImplementsOutbox, OutboxSendsOnce, PTL

-----------------------------------------------------------------------------
(* The invariant of the composition. *)

(* Meta has accepted the message, and nobody is about to store its wamid.   *)
Gone == accepted = 1 /\ \A t \in Tasks : task[t] # "accepted"

Concluded(s) == delivery[s] = "processed" \/ \E k \in Slots : job[s][k] = "processed"

(* A report exists only of an accepted message.  When it is old, or its     *)
(* receiver has seen no message being sent, the wamid is stored by now or   *)
(* never will be; so a report concluded unapplied is of an unknown message. *)
ReportInv(s) ==
  /\ delivery[s] # "none" => accepted = 1
  /\ ~recent[s] => Gone
  /\ \A k \in Slots : look[s][k] = "again" => Gone
  /\ Concluded(s) => s \in applied \/ (Gone /\ ~wamid)

RowInv ==
  /\ wamid => status = Furthest(applied)
  /\ ~wamid => applied = {}

ReceiversTyped ==
  /\ look \in [Reports -> [Slots -> {"first", "doubt", "again"}]]
  /\ recent \in [Reports -> BOOLEAN]
  /\ applied \subseteq Reports
  /\ recipient \in {"queued", "skipped"} \cup ReportedStatuses

DeliveryIInv ==
  /\ IInv /\ InboxIInv
  /\ ReceiversTyped
  /\ RowInv
  /\ \A s \in Reports : ReportInv(s)

-----------------------------------------------------------------------------
(* What a step of the outbox leaves true. *)

(* TargetStatus joins the reports, in whatever order they are applied.      *)
LEMMA TargetIsFurthest ==
  ASSUME NEW S \in SUBSET ReportedStatuses, NEW s \in ReportedStatuses
  PROVE  TargetStatus(Furthest(S), s) = Furthest(S \cup {s})
BY DEF TargetStatus, Furthest, Rank, ReportedStatuses

(* A stored wamid stays, the message stays accepted, and a reported row     *)
(* changes by a report only.                                                *)
LEMMA SendingSteps ==
  ASSUME IInv, IInv', Sending
  PROVE  /\ wamid => wamid' /\ status' = status
         /\ wamid' /\ ~wamid => status' = "sent"
         /\ accepted = 1 => accepted' = 1
         /\ Gone => Gone' /\ (wamid' => wamid)
<1> USE DEF IInv, OutboxInv, OutboxTypeOK
<1>1. ASSUME Send \/ FailStuck
      PROVE  /\ UNCHANGED <<wamid, accepted>> /\ (wamid => status' = status)
             /\ \A t \in Tasks : task'[t] = "accepted" => task[t] = "accepted"
  BY <1>1 DEF Send, Go, FailStuck, ReportedStatuses
<1>2. ASSUME NEW t \in Tasks, Fail(t, TRUE) \/ Fail(t, FALSE) \/ Release(t, "retrying") \/ Release(t, "parted")
      PROVE  /\ UNCHANGED wamid /\ (wamid => status' = status)
             /\ \A u \in Tasks : task'[u] = "accepted" => task[u] = "accepted"
  BY <1>2 DEF Fail, Release, Go, Ends, ReportedStatuses
<1>3. ASSUME NEW t \in Tasks, PolicyRefuses(t) \/ LimiterWaits(t) \/ UploadFails(t)
                              \/ MetaRefuses(t) \/ AnswerLost(t)
      PROVE  /\ UNCHANGED <<wamid, accepted>> /\ (wamid => status' = status)
             /\ \A u \in Tasks : task'[u] = "accepted" => task[u] = "accepted"
  <2>1. Fail(t, TRUE) \/ Fail(t, FALSE) \/ Release(t, "retrying") \/ Release(t, "parted")
    BY <1>3 DEF PolicyRefuses, LimiterWaits, UploadFails, MetaRefuses, AnswerLost, RetryOrFail
  <2>2. UNCHANGED accepted
    BY <1>3 DEF PolicyRefuses, LimiterWaits, UploadFails, MetaRefuses, AnswerLost
  <2> QED
    BY <1>2, <2>1, <2>2
<1>4. ASSUME NEW t \in Tasks, Claim(t) \/ Passes(t) \/ Publishes(t) \/ Tells(t) \/ Dies(t)
      PROVE  /\ UNCHANGED <<wamid, accepted>> /\ (wamid => status' = status)
             /\ \A u \in Tasks : task'[u] = "accepted" => task[u] = "accepted"
  BY <1>4 DEF Claim, Passes, Publishes, Tells, Dies, Go, Ends, row, ReportedStatuses
<1>5. ASSUME NEW t \in Tasks, NEW u \in Tasks, DeliveredTwice(t, u)
      PROVE  /\ UNCHANGED <<wamid, accepted>> /\ (wamid => status' = status)
             /\ \A v \in Tasks : task'[v] = "accepted" => task[v] = "accepted"
  BY <1>5 DEF DeliveredTwice, row
<1>6. ASSUME NEW t \in Tasks, MetaAccepts(t)
      PROVE  accepted # 1 /\ ~wamid /\ UNCHANGED wamid
  BY <1>6 DEF MetaAccepts, row
<1>7. ASSUME NEW t \in Tasks, StoresWamid(t)
      PROVE  /\ task[t] = "accepted" /\ ~wamid /\ UNCHANGED accepted
             /\ wamid' => status' = "sent"
  BY <1>7 DEF StoresWamid, Working, ReportedStatuses
<1> QED
  BY <1>1, <1>3, <1>4, <1>5, <1>6, <1>7 DEF Sending, Dispatch, Gone

-----------------------------------------------------------------------------
(* What a step of the inbox leaves true. *)

LEMMA MovesConcludeNothing ==
  ASSUME InboxTypeOK, NEW e \in Deliveries, NEW k \in Slots,
         NEW place \in JobPlaces \ {"processed"}, NEW r \in 0 .. MaxRetries, MovesTask(e, k, place, r),
         \A f \in Deliveries : delivery'[f] = "processed" => Concluded(f)
  PROVE  \A f \in Deliveries : Concluded(f)' => Concluded(f)
<1> SUFFICES ASSUME NEW f \in Deliveries, NEW j \in Slots, job'[f][j] = "processed"
             PROVE  job[f][j] = "processed"
  BY DEF Concluded
<1>1. /\ job'[e][k] = place
      /\ \A i \in Slots \ {k} : job'[e][i] = job[e][i]
      /\ \A g \in Deliveries \ {e} : job'[g] = job[g]
  BY Moved
<1> QED
  BY <1>1

(* Only a handler that ends well concludes a delivery. *)
LEMMA NothingConcluded ==
  ASSUME InboxIInv, NEW e \in Deliveries, NEW new \in BOOLEAN,
         IF new THEN Receive(e)
         ELSE \/ RequeueStuck(e)
              \/ \E k \in Slots : Process(e, k) \/ WorkerDies(e, k) \/ Handled(e, k, "erred")
  PROVE  \A f \in Deliveries :
           /\ Concluded(f)' => Concluded(f)
           /\ delivery'[f] # "none" => delivery[f] # "none" \/ new
<1> USE DEF InboxIInv
<1>1. {"queued", "running", "retrying", "erred", "none"} \subseteq JobPlaces \ {"processed"}
  BY DEF JobPlaces, Outcomes
<1>2. ASSUME NEW k \in Slots, NEW place \in {"queued", "running", "retrying", "erred"}, Put(e, k, place),
             \A f \in Deliveries : delivery'[f] = "processed" => Concluded(f)
      PROVE  \A f \in Deliveries : Concluded(f)' => Concluded(f)
  BY <1>1, <1>2, PutMoves, MovesConcludeNothing
<1>3. ASSUME NEW k \in Slots, Over(e, k),
             \A f \in Deliveries : delivery'[f] = "processed" => Concluded(f)
      PROVE  \A f \in Deliveries : Concluded(f)' => Concluded(f)
  BY <1>1, <1>3, OverMoves, MovesConcludeNothing
<1>4. CASE IF new THEN Receive(e) ELSE RequeueStuck(e)
  <2>1. Becomes(e, "received") /\ EnqueueOnCommit(e)
    BY <1>4 DEF Receive, RequeueStuck
  <2>2. \A f \in Deliveries : /\ delivery'[f] = "processed" => Concluded(f)
                              /\ delivery'[f] # "none" => delivery[f] # "none" \/ new
    BY <1>4, <2>1 DEF Becomes, InboxTypeOK, Concluded, Receive, RequeueStuck
  <2>3. CASE UNCHANGED job
    BY <2>2, <2>3 DEF Concluded
  <2> QED
    BY <1>2, <2>1, <2>2, <2>3 DEF EnqueueOnCommit
<1>5. ASSUME NEW k \in Slots, ClaimEvent(e, k)
      PROVE  \A f \in Deliveries : /\ Concluded(f)' => Concluded(f)
                                   /\ delivery'[f] # "none" => delivery[f] # "none"
  <2>1. \A f \in Deliveries : /\ delivery'[f] = "processed" => Concluded(f)
                              /\ delivery'[f] # "none" => delivery[f] # "none"
    BY <1>5 DEF ClaimEvent, Becomes, InboxTypeOK, Concluded
  <2>2. Put(e, k, "running") \/ Over(e, k)
    BY <1>5 DEF ClaimEvent
  <2> QED
    BY <1>2, <1>3, <2>1, <2>2
<1>6. ASSUME NEW k \in Slots, FinishEvent(e, k)
      PROVE  \A f \in Deliveries : /\ Concluded(f)' => Concluded(f)
                                   /\ delivery'[f] # "none" => delivery[f] # "none"
  <2>1. \A f \in Deliveries : /\ delivery'[f] = "processed" => Concluded(f)
                              /\ delivery'[f] # "none" => delivery[f] # "none"
    BY <1>6 DEF FinishEvent, Becomes, InboxTypeOK, Concluded, Outcomes
  <2>2. Put(e, k, "retrying") \/ Over(e, k)
    BY <1>6 DEF FinishEvent
  <2> QED
    BY <1>2, <1>3, <2>1, <2>2
<1>7. ASSUME NEW k \in Slots, UNCHANGED delivery,
             \/ Over(e, k) \/ Put(e, k, "queued") \/ Put(e, k, "erred")
             \/ /\ job' = [job EXCEPT ![e][k] = "queued"]
                /\ tries' = [tries EXCEPT ![e][k] = @ + 1]
                /\ tries[e][k] < MaxRetries
      PROVE  \A f \in Deliveries : /\ Concluded(f)' => Concluded(f)
                                   /\ delivery'[f] # "none" => delivery[f] # "none"
  <2>1. \A f \in Deliveries : delivery'[f] = "processed" => Concluded(f)
    BY <1>7 DEF Concluded
  <2>2. CASE /\ job' = [job EXCEPT ![e][k] = "queued"]
             /\ tries' = [tries EXCEPT ![e][k] = @ + 1]
             /\ tries[e][k] < MaxRetries
    <3>1. MovesTask(e, k, "queued", tries[e][k] + 1)
      BY <2>2 DEF MovesTask
    <3>2. tries[e][k] + 1 \in 0 .. MaxRetries
      BY <2>2, InboxAssumption DEF InboxTypeOK
    <3> QED
      BY <1>1, <1>7, <2>1, <3>1, <3>2, MovesConcludeNothing
  <2> QED
    BY <1>2, <1>3, <1>7, <2>1, <2>2
<1>8. ASSUME NEW k \in Slots, PublishRetry(e, k) \/ WorkerDies(e, k) \/ Handled(e, k, "erred")
      PROVE  \A f \in Deliveries : /\ Concluded(f)' => Concluded(f)
                                   /\ delivery'[f] # "none" => delivery[f] # "none"
  BY <1>7, <1>8 DEF PublishRetry, WorkerDies, Handled, TaskInv
<1> QED
  BY <1>4, <1>5, <1>6, <1>8 DEF Process

-----------------------------------------------------------------------------
(* The steps keep the invariant. *)

(* What a step owes the invariant about a report. *)
LEMMA ReportKept ==
  ASSUME NEW s \in Reports, ReportInv(s),
         accepted = 1 => accepted' = 1,
         Gone => Gone' /\ (wamid' => wamid),
         s \in applied => s \in applied',
         delivery'[s] # "none" => delivery[s] # "none" \/ accepted' = 1,
         ~recent'[s] => ~recent[s] \/ Gone',
         \A k \in Slots : look'[s][k] = "again" => look[s][k] = "again" \/ Gone',
         Concluded(s)' => Concluded(s) \/ s \in applied' \/ (Gone' /\ ~wamid')
  PROVE  ReportInv(s)'
BY DEF ReportInv

LEMMA DeliveryInitInv == DeliveryInit => DeliveryIInv
<1> SUFFICES ASSUME DeliveryInit PROVE DeliveryIInv
  OBVIOUS
<1>1. IInv /\ InboxIInv
  BY DeliveryInitParts, InitInv, InboxInitInv
<1>2. ReceiversTyped /\ RowInv
  BY DEF DeliveryInit, OutboxInit, ReceiversTyped, RowInv
<1>3. \A s \in Reports : ReportInv(s)
  BY DeliveryAssumption DEF DeliveryInit, OutboxInit, InboxInit, ReportInv, Concluded
<1> QED
  BY <1>1, <1>2, <1>3 DEF DeliveryIInv

LEMMA OutboxRunsKeepsInv ==
  ASSUME DeliveryIInv, IInv', OutboxRuns
  PROVE  ReceiversTyped' /\ RowInv' /\ \A s \in Reports : ReportInv(s)'
<1> USE DEF DeliveryIInv
<1>1. Sending /\ UNCHANGED <<inboxVars, receiverVars>>
  BY DEF OutboxRuns, OnlyOutbox
<1>2. /\ wamid => wamid' /\ status' = status
      /\ wamid' /\ ~wamid => status' = "sent"
      /\ accepted = 1 => accepted' = 1
      /\ Gone => Gone' /\ (wamid' => wamid)
  BY <1>1, SendingSteps
<1>3. ReceiversTyped'
  BY <1>1 DEF ReceiversTyped, receiverVars
<1>4. RowInv'
  BY <1>1, <1>2 DEF RowInv, Furthest, receiverVars
<1>5. ASSUME NEW s \in Reports PROVE ReportInv(s)'
  BY <1>1, <1>2, <1>5, ReportKept DEF Concluded, inboxVars, receiverVars
<1> QED
  BY <1>3, <1>4, <1>5

LEMMA RecipientHearsKeepsInv ==
  ASSUME DeliveryIInv, RecipientHears
  PROVE  ReceiversTyped' /\ RowInv' /\ \A s \in Reports : ReportInv(s)'
<1> USE DEF DeliveryIInv
<1>1. PICK n \in news : recipient' = RecipientTarget(recipient, n)
  BY DEF RecipientHears
<1>2. UNCHANGED <<row, task, accepted, inboxVars, look, recent, applied>>
  BY DEF RecipientHears
<1>3. n \in Events
  BY DEF IInv, OutboxTypeOK
<1>4. recipient' \in {"queued", "skipped"} \cup ReportedStatuses
  BY <1>1, <1>3 DEF RecipientTarget, RecipientRank, Rank, Events, ReceiversTyped, ReportedStatuses
<1>5. ReceiversTyped'
  BY <1>2, <1>4 DEF ReceiversTyped
<1>6. RowInv'
  BY <1>2 DEF RowInv, Furthest, row
<1>7. ASSUME NEW s \in Reports PROVE ReportInv(s)'
  BY <1>2, <1>7 DEF ReportInv, Concluded, Gone, row, inboxVars
<1> QED
  BY <1>5, <1>6, <1>7

(* The inbox's own steps. *)
LEMMA InboxStepKeepsInv ==
  ASSUME DeliveryIInv, NEW s \in Reports,
         \/ MetaReports(s) \/ BeatRequeues(s)
         \/ \E k \in Slots : TaskRuns(s, k) \/ TaskDies(s, k)
  PROVE  ReceiversTyped' /\ RowInv' /\ \A e \in Reports : ReportInv(e)'
<1> USE DEF DeliveryIInv
<1>1. UNCHANGED <<outboxVars, recent, applied, recipient>>
  BY DEF MetaReports, BeatRequeues, TaskRuns, TaskDies, OnlyInbox, receiverVars
<1>2. UNCHANGED look \/ \E k \in Slots : Looks(s, k, "first")
  BY DEF MetaReports, BeatRequeues, TaskRuns, TaskDies, OnlyInbox, receiverVars
<1>3. /\ look' \in [Reports -> [Slots -> {"first", "doubt", "again"}]]
      /\ \A e \in Reports, k \in Slots : look'[e][k] = "again" => look[e][k] = "again"
  BY <1>2 DEF Looks, ReceiversTyped
<1>4. PICK new \in BOOLEAN :
        IF new THEN MetaReports(s)
        ELSE BeatRequeues(s) \/ \E k \in Slots : TaskRuns(s, k) \/ TaskDies(s, k)
  OBVIOUS
<1>5. IF new THEN Receive(s)
      ELSE \/ RequeueStuck(s)
           \/ \E k \in Slots : Process(s, k) \/ WorkerDies(s, k) \/ Handled(s, k, "erred")
  BY <1>4 DEF MetaReports, BeatRequeues, TaskRuns, TaskDies
<1>6. \A e \in Reports : /\ Concluded(e)' => Concluded(e)
                         /\ delivery'[e] # "none" => delivery[e] # "none" \/ new
  BY <1>5, NothingConcluded, DeliveryAssumption
<1>7. new => accepted = 1
  BY <1>4 DEF MetaReports, IInv, OutboxInv, OutboxTypeOK
<1>8. ReceiversTyped' /\ RowInv'
  BY <1>1, <1>3 DEF ReceiversTyped, RowInv, Furthest, outboxVars, row
<1>9. ASSUME NEW e \in Reports PROVE ReportInv(e)'
  BY <1>1, <1>3, <1>6, <1>7, <1>9, ReportKept DEF Gone, outboxVars, row
<1> QED
  BY <1>8, <1>9

(* Time passes: no task is about to store the wamid. *)
LEMMA WindowPassesKeepsInv ==
  ASSUME DeliveryIInv, NEW s \in Reports, WindowPasses(s)
  PROVE  ReceiversTyped' /\ RowInv' /\ \A e \in Reports : ReportInv(e)'
<1> USE DEF DeliveryIInv
<1>1. /\ delivery[s] # "none" /\ \A t \in Tasks : task[t] # "accepted"
      /\ recent' = [recent EXCEPT ![s] = FALSE]
      /\ UNCHANGED <<outboxVars, inboxVars, look, applied, recipient>>
  BY DEF WindowPasses
<1>2. Gone
  BY <1>1 DEF ReportInv, Gone
<1>3. Gone' /\ UNCHANGED <<wamid, status, accepted>>
  BY <1>1, <1>2 DEF Gone, outboxVars, row
<1>4. ReceiversTyped' /\ RowInv'
  BY <1>1, <1>3 DEF ReceiversTyped, RowInv, Furthest
<1>5. ASSUME NEW e \in Reports PROVE ReportInv(e)'
  BY <1>1, <1>2, <1>3, <1>5, ReportKept DEF Concluded, inboxVars
<1> QED
  BY <1>4, <1>5

(* The receiver finds no message of the wamid. *)
LEMMA ReceiverWaitsKeepsInv ==
  ASSUME DeliveryIInv, NEW s \in Reports, NEW k \in Slots,
         FindsNothing(s, k) \/ Doubts(s, k) \/ Ignores(s, k)
  PROVE  ReceiversTyped' /\ RowInv' /\ \A e \in Reports : ReportInv(e)'
<1> USE DEF DeliveryIInv
<1>1. /\ job[s][k] = "running"
      /\ UNCHANGED <<outboxVars, recent, applied, recipient>>
  BY DEF FindsNothing, Doubts, Ignores, Running, receiverVars
<1>2. accepted = 1
  BY <1>1, DeliveryAssumption DEF InboxIInv, TaskInv, Holding, ReportInv
<1>3. UNCHANGED look \/ Looks(s, k, "doubt") \/ (Looks(s, k, "again") /\ Gone)
  <2>1. CASE Doubts(s, k) /\ Looks(s, k, "again")
    <3>1. status # "sending" \/ ~recent[s] \/ UNCHANGED look
      BY <2>1 DEF Doubts
    <3>2. status # "sending" => Gone
      BY <1>2 DEF IInv, OutboxInv, Gone, Working
    <3> QED
      BY <2>1, <3>1, <3>2 DEF ReportInv
  <2> QED
    BY <2>1 DEF FindsNothing, Doubts, Ignores, receiverVars
<1>4. /\ look' \in [Reports -> [Slots -> {"first", "doubt", "again"}]]
      /\ \A e \in Reports, j \in Slots : look'[e][j] = "again" => look[e][j] = "again" \/ Gone
  BY <1>3 DEF Looks, ReceiversTyped
<1>5. \A e \in Reports : /\ Concluded(e)' => Concluded(e) \/ (Gone /\ ~wamid)
                         /\ delivery'[e] # "none" => delivery[e] # "none"
  <2>1. CASE UNCHANGED inboxVars
    BY <2>1 DEF Concluded, inboxVars
  <2>2. CASE Handled(s, k, "erred")
    BY <2>2, NothingConcluded, DeliveryAssumption
  <2>3. CASE Ignores(s, k)
    <3>1. Gone /\ ~wamid
      BY <2>3 DEF Ignores, Running, ReportInv
    <3>2. UNCHANGED delivery
      BY <2>3 DEF Ignores, Handled
    <3> QED
      BY <3>1, <3>2
  <2> QED
    BY <2>1, <2>2, <2>3 DEF FindsNothing, Doubts
<1>6. ReceiversTyped' /\ RowInv'
  BY <1>1, <1>4 DEF ReceiversTyped, RowInv, Furthest, outboxVars, row
<1>7. ASSUME NEW e \in Reports PROVE ReportInv(e)'
  BY <1>1, <1>4, <1>5, <1>7, ReportKept DEF Gone, outboxVars, row
<1> QED
  BY <1>6, <1>7

(* The receiver applies its report, told or not. *)
LEMMA AppliesKeepsInv ==
  ASSUME DeliveryIInv, NEW s \in Reports, NEW k \in Slots,
         AppliesStatus(s, k) \/ AppliesStatusAndDies(s, k)
  PROVE  ReceiversTyped' /\ RowInv' /\ \A e \in Reports : ReportInv(e)'
<1> USE DEF DeliveryIInv
<1>1. PICK told \in BOOLEAN : ApplyStatus(s, told)
  BY DEF AppliesStatus, AppliesStatusAndDies
<1>2. applied' = applied \cup {s} /\ UNCHANGED <<bounds, look, recent, recipient>>
  BY DEF AppliesStatus, AppliesStatusAndDies
<1>3. wamid /\ status' = TargetStatus(status, s) /\ UNCHANGED <<wamid, task, accepted>>
  BY <1>1 DEF ApplyStatus
<1>4. applied \in SUBSET ReportedStatuses /\ s \in ReportedStatuses
  BY OutboxAssumption DEF ReceiversTyped
<1>5. ReceiversTyped'
  BY <1>2 DEF ReceiversTyped
<1>6. status' = Furthest(applied \cup {s})
  BY <1>3, <1>4, TargetIsFurthest DEF RowInv
<1>7. RowInv'
  BY <1>2, <1>3, <1>6 DEF RowInv, Furthest
<1>8. \A e \in Reports : /\ Concluded(e)' => Concluded(e) \/ e = s
                         /\ delivery'[e] # "none" => delivery[e] # "none"
  <2>1. CASE AppliesStatusAndDies(s, k)
    <3>1. WorkerDies(s, k)
      BY <2>1 DEF AppliesStatusAndDies
    <3> QED
      BY <3>1, NothingConcluded, DeliveryAssumption
  <2>2. CASE AppliesStatus(s, k)
    <3>1. UNCHANGED delivery /\ Put(s, k, "processed")
      BY <2>2 DEF AppliesStatus, Handled
    <3>2. \A e \in Reports \ {s} : job'[e] = job[e]
      BY <3>1, DeliveryAssumption DEF Put, InboxIInv, InboxTypeOK
    <3> QED
      BY <3>1, <3>2 DEF Concluded
  <2> QED
    BY <2>1, <2>2
<1>9. ASSUME NEW e \in Reports PROVE ReportInv(e)'
  BY <1>2, <1>3, <1>8, <1>9, ReportKept DEF Gone
<1> QED
  BY <1>5, <1>7, <1>9

LEMMA DeliveryNextInv == DeliveryIInv /\ [DeliveryNext]_deliveryVars => DeliveryIInv'
<1> SUFFICES ASSUME DeliveryIInv, [DeliveryNext]_deliveryVars PROVE DeliveryIInv'
  OBVIOUS
<1>1. IInv' /\ InboxIInv'
  BY StepOfOutbox, StepOfInbox, NextInv, InboxNextInv DEF DeliveryIInv
<1>2. CASE OutboxRuns \/ RecipientHears
  BY <1>1, <1>2, OutboxRunsKeepsInv, RecipientHearsKeepsInv DEF DeliveryIInv
<1>3. ASSUME NEW s \in Reports, MetaReports(s) \/ BeatRequeues(s) \/ WindowPasses(s)
      PROVE  DeliveryIInv'
  BY <1>1, <1>3, InboxStepKeepsInv, WindowPassesKeepsInv DEF DeliveryIInv
<1>4. ASSUME NEW s \in Reports, NEW k \in Slots,
             TaskRuns(s, k) \/ TaskDies(s, k) \/ Receives(s, k) \/ AppliesStatusAndDies(s, k)
      PROVE  DeliveryIInv'
  BY <1>1, <1>4, InboxStepKeepsInv, ReceiverWaitsKeepsInv, AppliesKeepsInv
     DEF DeliveryIInv, Receives
<1>5. CASE UNCHANGED deliveryVars
  <2>1. ReceiversTyped' /\ RowInv'
    BY <1>5 DEF DeliveryIInv, deliveryVars, receiverVars, outboxVars, row,
                ReceiversTyped, RowInv, Furthest
  <2>2. ASSUME NEW s \in Reports PROVE ReportInv(s)'
    BY <1>5, <2>2 DEF DeliveryIInv, deliveryVars, receiverVars, outboxVars, row, inboxVars,
                      ReportInv, Concluded, Gone
  <2> QED
    BY <1>1, <2>1, <2>2 DEF DeliveryIInv
<1> QED
  BY <1>2, <1>3, <1>4, <1>5 DEF DeliveryNext

LEMMA DeliveryInvariant == DeliverySpec => []DeliveryIInv
BY DeliveryInitInv, DeliveryNextInv, PTL DEF DeliverySpec

(* Every variable of the composition keeps its type. *)
THEOREM DeliveryTypeCorrect == DeliverySpec => []DeliveryTypeOK
<1>1. DeliveryIInv => DeliveryTypeOK
  BY DEF DeliveryIInv, IInv, InboxIInv, ReceiversTyped, DeliveryTypeOK
<1> QED
  BY DeliveryInvariant, <1>1, PTL

(* The row shows the furthest status of the reports applied to it, in       *)
(* whatever order and however often they come.                              *)
THEOREM DeliveryShowsFurthest == DeliverySpec => []StatusIsFurthest
<1>1. DeliveryIInv => StatusIsFurthest
  BY DEF DeliveryIInv, RowInv, StatusIsFurthest
<1> QED
  BY DeliveryInvariant, <1>1, PTL

(* No report that was marked processed unapplied is one of a known message, *)
(* although it may arrive before the wamid of its message is stored.        *)
THEOREM DeliveryIgnoresNoReport == DeliverySpec => []NoReportIgnored
<1>1. DeliveryIInv => NoReportIgnored
  BY DEF DeliveryIInv, ReportInv, Concluded, NoReportIgnored
<1> QED
  BY DeliveryInvariant, <1>1, PTL

-----------------------------------------------------------------------------
(* The message and its campaign, checked together, keep their types.        *)
THEOREM MessagingTypeCorrect == MessagingSpec => []MessagingTypeOK
<1>1. MessagingInit => DeliveryInit /\ CampaignInit
  BY DEF MessagingInit
<1>2. [MessagingNext]_messagingVars => [DeliveryNext]_deliveryVars /\ [CampaignNext]_campaignVars
  BY DEF MessagingNext, messagingVars
<1>3. MessagingSpec => MessagingInit /\ [][MessagingNext]_messagingVars
  BY DEF MessagingSpec
<1>4. MessagingSpec => DeliverySpec /\ CampaignSpec
  BY <1>1, <1>2, <1>3, PTL DEF DeliverySpec, CampaignSpec
<1> QED
  BY <1>4, DeliveryTypeCorrect, CampaignTypeCorrect, PTL DEF MessagingTypeOK
=============================================================================
