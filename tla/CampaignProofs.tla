--------------------------- MODULE CampaignProofs ---------------------------
(* What is proved about Campaign for any audience, any number of batch      *)
(* tasks and any bounds: its type invariant, that what the seller sees of   *)
(* it is true, and that a stopped campaign sends to nobody.                 *)
EXTENDS Campaign, FiniteSetTheorems, TLAPS

CampaignInv == CampaignTypeOK /\ ProgressIsTrue

Rows == [Recipients -> RecipientStatuses]
InBucket(rows, c) == {r \in Recipients : c \in Buckets[rows[r]]}

LEMMA RowsAreTyped ==
  /\ RecipientStatuses = {"none", "pending", "skipped", "queued", "sent", "delivered", "failed"}
  /\ \A s \in RecipientStatuses : Buckets[s] \subseteq Counters
BY DEF RecipientStatuses, Buckets, Counters

-----------------------------------------------------------------------------
(* The counters.                                                            *)

LEMMA CountedIsTyped ==
  ASSUME NEW rows
  PROVE  Counted(rows) \in [Counters -> 0 .. Cardinality(Recipients)]
<1>1. ASSUME NEW c \in Counters
      PROVE  Cardinality({r \in Recipients : c \in Buckets[rows[r]]}) \in 0 .. Cardinality(Recipients)
  <2>1. {r \in Recipients : c \in Buckets[rows[r]]} \in SUBSET Recipients
    OBVIOUS
  <2>2. IsFiniteSet(Recipients)
    BY CampaignAssumption
  <2> QED
    BY <2>1, <2>2, FS_Subset, FS_CardinalityType
<1> QED
  BY <1>1 DEF Counted

LEMMA Parts ==
  ASSUME NEW S, IsFiniteSet(S), NEW T
  PROVE  /\ Cardinality(S) = Cardinality(S \ T) + Cardinality(S \cap T)
         /\ Cardinality(S) \in Nat /\ Cardinality(S \ T) \in Nat /\ Cardinality(S \cap T) \in Nat
<1>1. S \cap T \in SUBSET S /\ S \ T \in SUBSET S
  OBVIOUS
<1>2. IsFiniteSet(S \cap T) /\ IsFiniteSet(S \ T)
  BY <1>1, FS_Subset
<1>3. Cardinality(S) \in Nat /\ Cardinality(S \ T) \in Nat /\ Cardinality(S \cap T) \in Nat
  BY <1>2, FS_CardinalityType
<1>4. Cardinality(S \ T) = Cardinality(S) - Cardinality(S \cap T)
  BY FS_Difference
<1> QED
  BY <1>3, <1>4

LEMMA PartsSwapped ==
  ASSUME NEW old, IsFiniteSet(old), NEW new, IsFiniteSet(new), NEW changed,
         old \ changed = new \ changed
  PROVE  /\ Cardinality(old) + Cardinality(new \cap changed) - Cardinality(old \cap changed)
              = Cardinality(new)
         /\ Cardinality(new) \in Nat
<1>1. /\ Cardinality(old) = Cardinality(old \ changed) + Cardinality(old \cap changed)
      /\ Cardinality(old \ changed) \in Nat /\ Cardinality(old \cap changed) \in Nat
  BY Parts
<1>2. /\ Cardinality(new) = Cardinality(new \ changed) + Cardinality(new \cap changed)
      /\ Cardinality(new \ changed) \in Nat /\ Cardinality(new \cap changed) \in Nat
      /\ Cardinality(new) \in Nat
  BY Parts
<1>3. Cardinality(old \ changed) = Cardinality(new \ changed)
  OBVIOUS
<1> QED
  BY <1>1, <1>2, <1>3

(* The sum of the rows' deltas is the difference of the counts: the         *)
(* recipients that did not change are in the same bucket before and after.  *)
LEMMA StatsAreCounts ==
  ASSUME CountersMatchRows, NEW rows, ApplyStats(rows)
  PROVE  counter' = Counted(rows)
<1> DEFINE changed == {r \in Recipients : rows[r] # recipients[r]}
<1>1. ASSUME NEW c \in Counters
      PROVE  LET sum == counter[c] + Cardinality({r \in changed : c \in Buckets[rows[r]]})
                                   - Cardinality({r \in changed : c \in Buckets[recipients[r]]})
             IN (IF sum < 0 THEN 0 ELSE sum) = Cardinality(InBucket(rows, c))
  <2> DEFINE old == InBucket(recipients, c)  new == InBucket(rows, c)
  <2>1. old \in SUBSET Recipients /\ new \in SUBSET Recipients /\ IsFiniteSet(Recipients)
    BY CampaignAssumption DEF InBucket
  <2>2. IsFiniteSet(old) /\ IsFiniteSet(new)
    BY <2>1, FS_Subset
  <2>4. old \ changed = new \ changed
    BY DEF InBucket
  <2>5. /\ {r \in changed : c \in Buckets[rows[r]]} = new \cap changed
        /\ {r \in changed : c \in Buckets[recipients[r]]} = old \cap changed
    BY DEF InBucket
  <2>6. counter[c] = Cardinality(old)
    BY DEF CountersMatchRows, Counted, InBucket
  <2>7. /\ counter[c] + Cardinality(new \cap changed) - Cardinality(old \cap changed) = Cardinality(new)
        /\ Cardinality(new) \in Nat
    <3> HIDE DEF old, new, changed
    <3>1. /\ Cardinality(old) + Cardinality(new \cap changed) - Cardinality(old \cap changed)
               = Cardinality(new)
          /\ Cardinality(new) \in Nat
      BY <2>2, <2>4, PartsSwapped, Zenon
    <3> QED
      BY <2>6, <3>1
  <2>8. (IF Cardinality(new) < 0 THEN 0 ELSE Cardinality(new)) = Cardinality(new)
    <3> HIDE DEF new
    <3> QED
      BY <2>7
  <2> QED
    BY <2>5, <2>7, <2>8, Zenon
<1>2. Counted(rows) = [c \in Counters |-> Cardinality(InBucket(rows, c))]
  BY DEF Counted, InBucket
<1> QED
  BY <1>1, <1>2 DEF ApplyStats

LEMMA MaterialiseCounts ==
  ASSUME Materialise
  PROVE  /\ recipients' \in Rows /\ counter' = Counted(recipients')
         /\ \A r \in Recipients : recipients'[r] # "queued"
<1>1. PICK audience \in SUBSET Recipients, eligible \in SUBSET Recipients :
        /\ eligible \subseteq audience
        /\ recipients' = [r \in Recipients |->
             IF r \in eligible THEN "pending" ELSE IF r \in audience THEN "skipped" ELSE "none"]
        /\ counter' = [c \in Counters |-> IF c = "skipped" THEN Cardinality(audience \ eligible) ELSE 0]
  BY DEF Materialise
<1>2. recipients' \in Rows /\ \A r \in Recipients : recipients'[r] \in {"none", "pending", "skipped"}
  BY <1>1, RowsAreTyped DEF Rows
<1>3. InBucket(recipients', "skipped") = audience \ eligible
  BY <1>1 DEF InBucket, Buckets
<1>4. \A c \in Counters \ {"skipped"} : InBucket(recipients', c) = {}
  BY <1>2 DEF InBucket, Buckets
<1>5. \A c \in Counters : counter'[c] = Cardinality(InBucket(recipients', c))
  BY <1>1, <1>3, <1>4, FS_EmptySet
<1>6. counter' = [c \in Counters |-> Cardinality(InBucket(recipients', c))]
  BY <1>1, <1>5
<1> QED
  BY <1>2, <1>6 DEF Counted, InBucket

-----------------------------------------------------------------------------
(* Types.  The counters are typed by what they count.                       *)

FlagsTyped == started \in BOOLEAN /\ due \in BOOLEAN /\ key \in BOOLEAN /\ ready \in BOOLEAN

ChainTyped ==
  /\ campaign \in CampaignStatuses
  /\ recipients \in Rows
  /\ batch \in [Batches -> {"none", "waiting", "begun", "kicking", "completing"}]
  /\ kicks \in 0 .. MaxKicks
  /\ setbacks \in 0 .. MaxSetbacks

InboxTyped ==
  /\ messages \in [Recipients -> {"none", "queued", "sent", "delivered", "failed"}]
  /\ reported \in [Recipients -> SUBSET UpdateStatuses]
  /\ after \subseteq Calls
  /\ unsent \in [Batches -> SUBSET Recipients] /\ stranded \subseteq Recipients

OthersTyped == ChainTyped /\ InboxTyped

LEMMA InboxRests ==
  ASSUME InboxTyped, UNCHANGED inboxSide
  PROVE  InboxTyped'
BY DEF InboxTyped, inboxSide, dispatches

LEMMA TypeSplits ==
  CampaignTypeOK <=>
    FlagsTyped /\ OthersTyped /\ counter \in [Counters -> 0 .. Cardinality(Recipients)]
BY Zenon DEF CampaignTypeOK, FlagsTyped, OthersTyped, ChainTyped, InboxTyped, Rows

(* What befalls a report of the inbox. *)
ReportHandled(r, s) ==
  MessageBecomes(r, s) \/ ApplyDeliveryUpdate(r, s) \/ AfterUpdate(r, s) \/ ReportLost(r, s)

LEMMA ScheduleTyped ==
  ASSUME OthersTyped, NEW b \in Batches, ScheduleBatch(b)
  PROVE  /\ setbacks' \in 0 .. MaxSetbacks
         /\ batch' \in [Batches -> {"none", "waiting", "begun", "kicking", "completing"}]
BY CampaignAssumption DEF ScheduleBatch, OthersTyped, ChainTyped, InboxTyped, Setback

LEMMA CompletionTyped ==
  ASSUME OthersTyped, CompleteIfDone
  PROVE  campaign' \in CampaignStatuses
BY DEF CompleteIfDone, OthersTyped, ChainTyped, InboxTyped, CampaignStatuses

LEMMA TargetTyped ==
  ASSUME NEW current \in RecipientStatuses, NEW new \in UpdateStatuses
  PROVE  /\ ProgressTarget(current, new) \in RecipientStatuses
         /\ ProgressTarget(current, new) \in {"pending", "queued"} => ProgressTarget(current, new) = current
BY RowsAreTyped DEF ProgressTarget, ProgressRank, UpdateStatuses

LEMMA OwnersType ==
  ASSUME OthersTyped,
         Launch \/ UpdateScheduled \/ TimeComes \/ Pause \/ Resume \/ Cancel
           \/ ApprovalLost \/ ApprovalBack \/ StartScheduled \/ KeyExpires \/ RequestDies
  PROVE  OthersTyped'
<1> ChainTyped /\ InboxTyped
  BY DEF OthersTyped
<1>0. InboxTyped'
  <2>1. UNCHANGED inboxSide
    BY DEF Launch, UpdateScheduled, TimeComes, Pause, Resume, Cancel, ApprovalLost, ApprovalBack,
           StartScheduled, KeyExpires, RequestDies
  <2> QED
    BY <2>1, InboxRests
<1>1. CASE Launch \/ UpdateScheduled
  BY <1>0, <1>1, MaterialiseCounts, CampaignAssumption
     DEF Launch, UpdateScheduled, OthersTyped, ChainTyped, Kick, chainVars, CampaignStatuses
<1>2. CASE TimeComes \/ Pause \/ Resume \/ StartScheduled \/ KeyExpires
  BY <1>0, <1>2, CampaignAssumption
     DEF TimeComes, Pause, Resume, StartScheduled, KeyExpires, OthersTyped, ChainTyped, Kick, campaignRow,
         chainVars, CampaignStatuses
<1>3. CASE Cancel
  <2>1. Cancelled \in Rows
    BY RowsAreTyped DEF ChainTyped, Cancelled, Rows
  <2> QED
    BY <1>0, <1>3, <2>1 DEF Cancel, OthersTyped, ChainTyped, chainVars, CampaignStatuses
<1>4. CASE ApprovalLost \/ ApprovalBack \/ RequestDies
  BY <1>0, <1>4, CampaignAssumption
     DEF ApprovalLost, ApprovalBack, RequestDies, OthersTyped, ChainTyped, Setback, campaignRow, chainVars
<1> QED
  BY <1>1, <1>2, <1>3, <1>4

LEMMA BatchesType ==
  ASSUME OthersTyped, NEW b \in Batches,
         \/ OnCommit(b) \/ BatchBegins(b) \/ SendBatch(b) \/ BatchKicks(b) \/ BatchCompletes(b)
         \/ BatchDies(b) \/ \E r \in Recipients : Publish(b, r)
  PROVE  OthersTyped'
<1> ChainTyped /\ InboxTyped
  BY DEF OthersTyped
<1>0. ASSUME OnCommit(b) \/ BatchKicks(b) \/ BatchBegins(b) \/ BatchCompletes(b)
      PROVE  InboxTyped'
  <2>1. UNCHANGED inboxSide
    BY <1>0 DEF OnCommit, BatchKicks, BatchBegins, BatchCompletes
  <2> QED
    BY <2>1, InboxRests
<1>1. CASE OnCommit(b) \/ BatchKicks(b)
  BY <1>0, <1>1, ScheduleTyped, CampaignAssumption
     DEF OnCommit, BatchKicks, OthersTyped, ChainTyped, campaignRow
<1>2. CASE BatchBegins(b)
  BY <1>0, <1>2 DEF BatchBegins, OthersTyped, ChainTyped, campaignRow
<1>6. CASE BatchDies(b)
  <2>1. ChainTyped'
    BY <1>6, CampaignAssumption DEF BatchDies, ChainTyped, Setback, campaignRow
  <2>2. InboxTyped'
    BY <1>6 DEF BatchDies, InboxTyped
  <2> QED
    BY <2>1, <2>2 DEF OthersTyped
<1>3. CASE SendBatch(b)
  <2>1. CASE UNCHANGED <<recipients, messages, unsent>>
             /\ batch' = [batch EXCEPT ![b] = "none"] /\ campaign' \in {campaign, "paused"}
    BY <1>3, <2>1 DEF SendBatch, OthersTyped, ChainTyped, InboxTyped, CampaignStatuses
  <2>2. CASE SendChosen(b)
    <3>1. PICK done \in SUBSET Chosen :
            \E outcome \in [done -> {"queued", "skipped", "failed"}] :
              /\ recipients' = [r \in Recipients |-> IF r \in done THEN outcome[r] ELSE recipients[r]]
              /\ messages' = [r \in Recipients |->
                   IF r \in done /\ outcome[r] = "queued" THEN "queued" ELSE messages[r]]
      BY <2>2 DEF SendChosen
    <3>2. recipients' \in Rows
      BY <3>1, RowsAreTyped DEF OthersTyped, ChainTyped, InboxTyped, Rows
    <3>3. messages' \in [Recipients -> {"none", "queued", "sent", "delivered", "failed"}]
      BY <3>1 DEF OthersTyped, ChainTyped, InboxTyped
    <3>5. unsent' \in [Batches -> SUBSET Recipients]
      <4>1. PICK queued \in SUBSET Recipients : unsent' = [unsent EXCEPT ![b] = queued]
        <5>1. \A rows : Enqueued(rows) \in SUBSET Recipients
          BY DEF Enqueued, In
        <5>2. PICK rows : unsent' = [unsent EXCEPT ![b] = Enqueued(rows)]
          BY <2>2, Zenon DEF SendChosen
        <5> QED
          BY <5>1, <5>2
      <4> QED
        BY <4>1 DEF InboxTyped
    <3>4. /\ campaign' \in {campaign, "paused"}
          /\ batch' \in [Batches -> {"none", "waiting", "begun", "kicking", "completing"}]
      BY <2>2 DEF SendChosen, OthersTyped, ChainTyped, InboxTyped
    <3> QED
      BY <1>3, <3>2, <3>3, <3>4, <3>5 DEF SendBatch, OthersTyped, ChainTyped, InboxTyped, CampaignStatuses
  <2> QED
    BY <1>3, <2>1, <2>2 DEF SendBatch
<1>4. CASE BatchCompletes(b)
  BY <1>0, <1>4, CompletionTyped DEF BatchCompletes, OthersTyped, ChainTyped
<1>5. ASSUME NEW r \in Recipients, Publish(b, r)
      PROVE  OthersTyped'
  BY <1>5 DEF Publish, OthersTyped, ChainTyped, InboxTyped, campaignRow, chainVars
<1> QED
  BY <1>1, <1>2, <1>3, <1>4, <1>5, <1>6

LEMMA ReportsType ==
  ASSUME OthersTyped, NEW r \in Recipients,
         TaskLost(r) \/ \E s \in UpdateStatuses : ReportHandled(r, s)
  PROVE  OthersTyped'
<1>1. ASSUME NEW s \in UpdateStatuses, MessageBecomes(r, s)
      PROVE  OthersTyped'
  BY <1>1 DEF MessageBecomes, OthersTyped, ChainTyped, InboxTyped, campaignRow, chainVars, dispatches
<1>2. ASSUME NEW s \in UpdateStatuses, ApplyDeliveryUpdate(r, s)
      PROVE  OthersTyped'
  <2>1. {"failed", "skipped", ProgressTarget(recipients[r], s)} \subseteq RecipientStatuses
    BY TargetTyped, RowsAreTyped DEF OthersTyped, ChainTyped, InboxTyped, Rows
  <2>2. PICK target \in {"failed", "skipped", ProgressTarget(recipients[r], s)} :
          recipients' = [recipients EXCEPT ![r] = target]
    BY <1>2 DEF ApplyDeliveryUpdate
  <2>3. recipients' \in Rows
    BY <2>1, <2>2 DEF OthersTyped, ChainTyped, InboxTyped, Rows
  <2>4. after' \subseteq Calls
    <3>1. CASE after' = after
      BY <3>1 DEF OthersTyped, ChainTyped, InboxTyped
    <3>2. ASSUME NEW calls \in SUBSET {"pause", "complete"},
                 after' = after \cup {<<r, s, call>> : call \in calls}
          PROVE  after' \subseteq Calls
      <4>1. {<<r, s, call>> : call \in calls} \subseteq Calls
        BY DEF Calls
      <4> QED
        BY <3>2, <4>1 DEF OthersTyped, ChainTyped, InboxTyped
    <3>3. ASSUME NEW pauses \in SUBSET {"pause"}, NEW done \in {{}, {"complete"}},
                 after' = after \cup {<<r, s, call>> : call \in pauses \cup done}
          PROVE  after' \subseteq Calls
      <4>1. pauses \cup done \in SUBSET {"pause", "complete"}
        OBVIOUS
      <4> QED
        BY <3>2, <3>3, <4>1
    <3> QED
      BY <1>2, <3>1, <3>3 DEF ApplyDeliveryUpdate
  <2>5. reported' \in [Recipients -> SUBSET UpdateStatuses]
    BY <1>2 DEF ApplyDeliveryUpdate, OthersTyped, ChainTyped, InboxTyped
  <2> QED
    BY <1>2, <2>3, <2>4, <2>5 DEF ApplyDeliveryUpdate, OthersTyped, ChainTyped, InboxTyped, chainVars, dispatches
<1>3. ASSUME NEW s \in UpdateStatuses, AfterUpdate(r, s)
      PROVE  OthersTyped'
  <2>1. after' \subseteq after
    BY <1>3 DEF AfterUpdate
  <2>2. campaign' \in CampaignStatuses
    BY <1>3, CompletionTyped DEF AfterUpdate, OthersTyped, ChainTyped, InboxTyped, CampaignStatuses
  <2> QED
    BY <1>3, <2>1, <2>2 DEF AfterUpdate, OthersTyped, ChainTyped, InboxTyped, chainVars, dispatches
<1>4. ASSUME NEW s \in UpdateStatuses, ReportLost(r, s)
      PROVE  OthersTyped'
  BY <1>4, CampaignAssumption DEF ReportLost, OthersTyped, ChainTyped, InboxTyped, Setback, campaignRow, chainVars, dispatches
<1>5. CASE TaskLost(r)
  BY <1>5, CampaignAssumption DEF TaskLost, OthersTyped, ChainTyped, InboxTyped, Setback, campaignRow, chainVars
<1> QED
  BY <1>1, <1>2, <1>3, <1>4, <1>5 DEF ReportHandled

LEMMA OthersStep ==
  ASSUME OthersTyped, [CampaignNext]_campaignVars
  PROVE  OthersTyped'
<1>1. CASE Watchdog
  <2>1. CASE \E b \in Batches : ScheduleBatch(b) /\ UNCHANGED <<campaign, kicks>>
    BY <1>1, <2>1, ScheduleTyped DEF Watchdog, OthersTyped, ChainTyped, InboxTyped, inboxSide, dispatches
  <2>2. CASE CompleteIfDone /\ UNCHANGED <<chainVars, setbacks>>
    BY <1>1, <2>2, CompletionTyped DEF Watchdog, OthersTyped, ChainTyped, InboxTyped, chainVars, inboxSide, dispatches
  <2> QED
    BY <1>1, <2>1, <2>2 DEF Watchdog
<1>2. CASE UNCHANGED campaignVars
  BY <1>2 DEF campaignVars, OthersTyped, ChainTyped, InboxTyped
<1> QED
  BY <1>1, <1>2, OwnersType, BatchesType, ReportsType DEF CampaignNext, ReportHandled

LEMMA FlagsStep ==
  ASSUME FlagsTyped, [CampaignNext]_campaignVars
  PROVE  FlagsTyped'
<1>1. ASSUME NEW b \in Batches, ScheduleBatch(b)
      PROVE  key' \in BOOLEAN
  BY <1>1, Zenon DEF ScheduleBatch, FlagsTyped
<1>2. CASE Launch \/ UpdateScheduled \/ TimeComes \/ Pause \/ Resume \/ Cancel
  BY <1>2, Zenon DEF Launch, UpdateScheduled, TimeComes, Pause, Resume, Cancel, FlagsTyped, chainVars
<1>3. CASE ApprovalLost \/ ApprovalBack \/ StartScheduled \/ KeyExpires \/ RequestDies
  BY <1>3, Zenon DEF ApprovalLost, ApprovalBack, StartScheduled, KeyExpires, RequestDies, FlagsTyped,
                     chainVars, campaignRow
<1>4. CASE Watchdog
  BY <1>1, <1>4, Zenon DEF Watchdog, FlagsTyped, chainVars
<1>5. ASSUME NEW b \in Batches,
             \/ OnCommit(b) \/ BatchBegins(b) \/ SendBatch(b) \/ BatchKicks(b) \/ BatchCompletes(b)
             \/ BatchDies(b) \/ \E r \in Recipients : Publish(b, r)
      PROVE  FlagsTyped'
  BY <1>1, <1>5, Zenon DEF OnCommit, BatchBegins, SendBatch, BatchKicks, BatchCompletes, BatchDies,
                           Publish, FlagsTyped, campaignRow, chainVars
<1>6. ASSUME NEW r \in Recipients,
             TaskLost(r) \/ \E s \in UpdateStatuses : ReportHandled(r, s)
      PROVE  FlagsTyped'
  BY <1>6, Zenon DEF ReportHandled, MessageBecomes, ApplyDeliveryUpdate, AfterUpdate, ReportLost,
                     TaskLost, FlagsTyped, campaignRow, chainVars
<1>7. CASE UNCHANGED campaignVars
  BY <1>7, Zenon DEF campaignVars, FlagsTyped
<1> QED
  BY <1>2, <1>3, <1>4, <1>5, <1>6, <1>7, Zenon DEF CampaignNext, ReportHandled

-----------------------------------------------------------------------------
(* What a step does to the recipients and to the counters.                  *)

(* The only steps that make a recipient pending or queued.                  *)
Opens == Launch \/ UpdateScheduled \/ \E b \in Batches : SendBatch(b)

LEMMA OtherStepsSettle ==
  ASSUME OthersTyped, [CampaignNext]_campaignVars, ~Opens
  PROVE  \A r \in Recipients : recipients'[r] \in {"pending", "queued"} => recipients'[r] = recipients[r]
<1>1. CASE UNCHANGED recipients
  BY <1>1
<1>2. CASE Cancel
  BY <1>2 DEF Cancel, Cancelled
<1>3. ASSUME NEW q \in Recipients, NEW s \in UpdateStatuses, ApplyDeliveryUpdate(q, s)
      PROVE  \A r \in Recipients : recipients'[r] \in {"pending", "queued"} => recipients'[r] = recipients[r]
  <2>1. recipients \in Rows /\ recipients[q] \in RecipientStatuses
    BY DEF OthersTyped, ChainTyped, InboxTyped, Rows
  <2>2. PICK target \in {"failed", "skipped", ProgressTarget(recipients[q], s)} :
          recipients' = [recipients EXCEPT ![q] = target]
    BY <1>3 DEF ApplyDeliveryUpdate
  <2>3. target \in {"pending", "queued"} => target = recipients[q]
    BY <2>1, TargetTyped
  <2> QED
    BY <2>1, <2>2, <2>3 DEF Rows
<1> QED
  BY <1>1, <1>2, <1>3
     DEF Opens, CampaignNext, TimeComes, Pause, Resume, OnCommit, ApprovalLost, ApprovalBack,
         StartScheduled, Watchdog, KeyExpires, BatchBegins, Publish, TaskLost, BatchKicks, BatchCompletes, BatchDies,
         RequestDies, MessageBecomes, AfterUpdate, ReportLost, campaignRow, campaignVars

LEMMA CompletionCounts ==
  ASSUME CountersMatchRows, CompleteIfDone, UNCHANGED recipients
  PROVE  CountersMatchRows'
BY DEF CompleteIfDone, CountersMatchRows, Counted

LEMMA CountersStep ==
  ASSUME OthersTyped, CountersMatchRows, [CampaignNext]_campaignVars
  PROVE  CountersMatchRows'
<1> USE DEF CountersMatchRows
<1>1. CASE UNCHANGED <<recipients, counter>>
  BY <1>1 DEF Counted
<1>2. CASE Launch \/ UpdateScheduled
  BY <1>1, <1>2, MaterialiseCounts DEF Launch, UpdateScheduled
<1>3. CASE Cancel
  BY <1>3, StatsAreCounts DEF Cancel
<1>4. ASSUME NEW b \in Batches, SendBatch(b)
      PROVE  CountersMatchRows'
  <2>1. CASE SendChosen(b)
    BY <2>1, StatsAreCounts DEF SendChosen
  <2> QED
    BY <1>1, <1>4, <2>1 DEF SendBatch
<1>5. ASSUME NEW r \in Recipients, NEW s \in UpdateStatuses, ApplyDeliveryUpdate(r, s)
      PROVE  CountersMatchRows'
  BY <1>5, StatsAreCounts DEF ApplyDeliveryUpdate
<1>6. CASE Watchdog
  BY <1>1, <1>6, CompletionCounts DEF Watchdog
<1>7. ASSUME NEW b \in Batches, BatchCompletes(b)
      PROVE  CountersMatchRows'
  BY <1>7, CompletionCounts DEF BatchCompletes
<1>8. ASSUME NEW r \in Recipients, NEW s \in UpdateStatuses, AfterUpdate(r, s)
      PROVE  CountersMatchRows'
  BY <1>1, <1>8, CompletionCounts DEF AfterUpdate
<1> QED
  BY <1>1, <1>2, <1>3, <1>4, <1>5, <1>6, <1>7, <1>8
     DEF CampaignNext, TimeComes, Pause, Resume, OnCommit, ApprovalLost, ApprovalBack,
         StartScheduled, KeyExpires, BatchBegins, Publish, TaskLost, BatchKicks, BatchDies,
         RequestDies, MessageBecomes, ReportLost, campaignRow, campaignVars

-----------------------------------------------------------------------------
(* A campaign's end.                                                        *)

LEMMA OpeningKeepsItOpen ==
  ASSUME Opens
  PROVE  campaign' \notin Finished \/ UNCHANGED <<campaign, recipients>>
<1>1. ASSUME NEW b \in Batches, SendBatch(b)
      PROVE  campaign' \notin Finished \/ UNCHANGED <<campaign, recipients>>
  BY <1>1 DEF SendBatch, SendChosen, Finished
<1> QED
  BY <1>1 DEF Opens, Launch, UpdateScheduled, Finished

(* A step that ends the campaign: nobody is left, and, unless the seller    *)
(* ended it, nobody is waited for.                                          *)
LEMMA EndingIsDone ==
  ASSUME OthersTyped, [CampaignNext]_campaignVars, campaign' \in Finished, campaign' # campaign
  PROVE  /\ \A r \in Recipients : recipients'[r] # "pending"
         /\ campaign' \in {"completed", "failed"} => \A r \in Recipients : recipients'[r] # "queued"
<1>1. CASE Cancel
  BY <1>1 DEF Cancel, Cancelled
<1>2. CASE CompleteIfDone /\ UNCHANGED recipients
  BY <1>2 DEF CompleteIfDone, In
<1> QED
  BY <1>1, <1>2, OpeningKeepsItOpen
     DEF Opens, CampaignNext, TimeComes, Pause, Resume, OnCommit, ApprovalLost, ApprovalBack,
         StartScheduled, Watchdog, KeyExpires, BatchBegins, Publish, TaskLost, BatchKicks, BatchCompletes, BatchDies,
         RequestDies, MessageBecomes, ApplyDeliveryUpdate, AfterUpdate, ReportLost, campaignRow,
         campaignVars, Finished

LEMMA OverStep ==
  ASSUME OthersTyped, OverMeansDone, [CampaignNext]_campaignVars
  PROVE  OverMeansDone'
<1>1. CASE campaign' \notin Finished
  BY <1>1 DEF OverMeansDone, Finished
<1>2. CASE campaign' \in Finished /\ campaign' # campaign
  BY <1>2, EndingIsDone DEF OverMeansDone, In
<1>3. CASE campaign' \in Finished /\ campaign' = campaign
  <2>1. \A r \in Recipients : recipients'[r] \in {"pending", "queued"} => recipients'[r] = recipients[r]
    BY <1>3, OpeningKeepsItOpen, OtherStepsSettle
  <2> QED
    BY <1>3, <2>1 DEF OverMeansDone, In
<1> QED
  BY <1>1, <1>2, <1>3

-----------------------------------------------------------------------------
LEMMA CampaignInvInit ==
  ASSUME CampaignInit
  PROVE  CampaignInv
<1>1. OthersTyped
  BY CampaignAssumption, RowsAreTyped DEF CampaignInit, OthersTyped, ChainTyped, InboxTyped, Rows, CampaignStatuses
<1>4. FlagsTyped
  BY Zenon DEF CampaignInit, FlagsTyped
<1>2. CountersMatchRows
  <2>1. \A c \in Counters : {r \in Recipients : c \in Buckets[recipients[r]]} = {}
    BY DEF CampaignInit, Buckets
  <2> QED
    BY <2>1, FS_EmptySet DEF CampaignInit, CountersMatchRows, Counted
<1>3. OverMeansDone
  BY DEF CampaignInit, OverMeansDone, Finished
<1> QED
  BY <1>1, <1>2, <1>3, <1>4, CountedIsTyped, TypeSplits DEF CampaignInv, ProgressIsTrue, CountersMatchRows

LEMMA CampaignInvStep ==
  ASSUME CampaignInv, [CampaignNext]_campaignVars
  PROVE  CampaignInv'
<1>1. FlagsTyped /\ OthersTyped /\ CountersMatchRows /\ OverMeansDone
  BY TypeSplits DEF CampaignInv, ProgressIsTrue
<1>2. FlagsTyped' /\ OthersTyped' /\ CountersMatchRows' /\ OverMeansDone'
  BY <1>1, FlagsStep, OthersStep, CountersStep, OverStep
<1>3. counter' \in [Counters -> 0 .. Cardinality(Recipients)]
  BY <1>2, CountedIsTyped DEF CountersMatchRows
<1>4. CampaignTypeOK'
  BY <1>2, <1>3, Zenon DEF CampaignTypeOK, FlagsTyped, OthersTyped, ChainTyped, InboxTyped, Rows
<1> QED
  BY <1>2, <1>4 DEF CampaignInv, ProgressIsTrue

\* The types and the truth of the progress hold in every reachable state,
\* for any audience, any number of batch tasks and any losses.
THEOREM CampaignInvariant == CampaignSpec => []CampaignInv
<1>1. CampaignInit => CampaignInv
  BY CampaignInvInit
<1>2. CampaignInv /\ [CampaignNext]_campaignVars => CampaignInv'
  BY CampaignInvStep
<1> QED
  BY <1>1, <1>2, PTL DEF CampaignSpec

\* Campaign's variables keep their types.
THEOREM CampaignTypeCorrect == CampaignSpec => []CampaignTypeOK
<1>1. CampaignInv => CampaignTypeOK
  BY DEF CampaignInv
<1> QED
  BY <1>1, CampaignInvariant, PTL

\* The counters are the counts of the rows, and a campaign that is over has
\* nobody left to send to: apply_stats's deltas never drift from
\* recompute_stats, and complete_if_done never ends a campaign early.
THEOREM CampaignProgressIsTrue == CampaignSpec => []ProgressIsTrue
<1>1. CampaignInv => ProgressIsTrue
  BY DEF CampaignInv
<1> QED
  BY <1>1, CampaignInvariant, PTL

\* Nobody is queued by a campaign that does not run: send_batch reads the
\* status again under the campaign's lock.
THEOREM CampaignStopped == CampaignSpec => StoppedIsStopped
<1>1. ASSUME CampaignInv, [CampaignNext]_campaignVars
      PROVE  [\A r \in Recipients : recipients'[r] = "queued" /\ recipients[r] # "queued" =>
                campaign = "running"]_campaignVars
  <2>1. OthersTyped
    BY <1>1, TypeSplits DEF CampaignInv
  <2>2. CASE ~Opens
    BY <1>1, <2>1, <2>2, OtherStepsSettle
  <2>3. CASE Launch \/ UpdateScheduled
    BY <2>3, MaterialiseCounts DEF Launch, UpdateScheduled
  <2>4. ASSUME NEW b \in Batches, SendBatch(b)
        PROVE  campaign = "running" \/ UNCHANGED recipients
    BY <2>4 DEF SendBatch
  <2> QED
    BY <2>2, <2>3, <2>4 DEF Opens
<1> QED
  BY <1>1, CampaignInvariant, PTL DEF CampaignSpec, StoppedIsStopped
=============================================================================
