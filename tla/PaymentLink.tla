---------------------------- MODULE PaymentLink ----------------------------
(* One payment link of the payments app (backend/apps/payments/services.py):*)
(* its outbox row, the link it stands for on the seller's gateway, and the  *)
(* processes that work on both.  A gateway call is made without a row lock, *)
(* so every operation is a sequence of steps: read the row, call the        *)
(* gateway, apply the answer under select_for_update, and run the on_commit *)
(* callback that emits the event.  Other processes run between the steps,   *)
(* calls fail with or without having taken effect, and processes die.       *)
EXTENDS Naturals, FiniteSets

CONSTANTS
  Workers,          \* processes that run the operations (web and Celery)
  Operations,       \* the operations they may start, a subset of AllOperations
  Payments,         \* what a buyer may pay, a subset of AllPayments
  GatewayErrors,    \* the gateway calls that may fail, a subset of AllCalls
  PollOffsets,      \* len(POLL_OFFSETS_MINUTES)
  MaxFinalRetries,  \* MAX_FINAL_POLL_RETRIES
  MaxCrashes,       \* bound: processes lost in the middle of an operation
  AccountChanges    \* bound: edits of the seller's gateway account

AllOperations == {"create", "cancel", "refresh", "webhook"}
AllCalls == {"create", "fetch", "cancel"}
AllPayments == {"paid", "mispaid", "partial"}

ASSUME WorkersAssumption == Workers # {}
ASSUME OperationsAssumption == Operations \subseteq AllOperations
ASSUME PaymentsAssumption == Payments \subseteq AllPayments
ASSUME ErrorsAssumption == GatewayErrors \subseteq AllCalls
ASSUME PollAssumption == PollOffsets \in Nat \ {0} /\ MaxFinalRetries \in Nat
ASSUME BoundsAssumption == MaxCrashes \in Nat /\ AccountChanges \in Nat

(* TERMINAL_STATUSES. *)
Terminal == {"paid", "expired", "cancelled", "failed"}
Statuses == {"absent", "creating", "created"} \cup Terminal
(* The outcomes that have an event: a failed link has none. *)
Announceable == {"paid", "expired", "cancelled"}
(* LINK_STATUSES of the providers; "mispaid" is a paid link whose amount or *)
(* currency is not the row's (_payment_problem), "none" is no link yet.     *)
GatewayStatuses ==
  {"none", "created", "paid", "mispaid", "partial", "expired", "cancelled"}

PCs == {"idle", "create_call", "created", "drop_call", "read_refresh",
        "fetch_call", "final_cancel_call", "cancel_call", "apply", "close",
        "emit"}

Calls == [pc : PCs, seen : GatewayStatuses, final : BOOLEAN,
          lastTry : BOOLEAN, as : Announceable, hook : BOOLEAN]

(* A poll count beyond the last retry is as good as the first one beyond.   *)
PollCap == PollOffsets + MaxFinalRetries + 1

VARIABLES
  status,     \* PaymentLink.status, "absent" before the row exists
  hasId,      \* PaymentLink.provider_link_id and short_url are set
  pollCount,  \* PaymentLink.poll_count, saturating at PollCap
  due,        \* next_poll_at has passed
  past,       \* expires_at + FINAL_POLL_DELAY has passed
  gateway,    \* the link on the gateway
  account,    \* PaymentAccount: "usable", "invalid", or "gone"
  edits,      \* account edits made so far (bounded by AccountChanges)
  processed,  \* gateway statuses whose webhook event has processed_at
  call,       \* what each process is doing
  announced,  \* events emitted, per outcome
  crashes     \* processes lost so far (bounded by MaxCrashes)

row == <<status, hasId, pollCount>>
clock == <<due, past>>
vars == <<row, clock, gateway, account, edits, processed, call, announced, crashes>>

Idle == [pc |-> "idle", seen |-> "none", final |-> FALSE,
         lastTry |-> FALSE, as |-> "expired", hook |-> FALSE]

TypeOK ==
  /\ status \in Statuses
  /\ hasId \in BOOLEAN
  /\ pollCount \in 0 .. PollCap
  /\ due \in BOOLEAN
  /\ past \in BOOLEAN
  /\ gateway \in GatewayStatuses
  /\ account \in {"usable", "invalid", "gone"}
  /\ edits \in 0 .. AccountChanges
  /\ processed \subseteq GatewayStatuses
  /\ call \in [Workers -> Calls]
  /\ announced \in [Announceable -> Nat]
  /\ crashes \in 0 .. MaxCrashes

Init ==
  /\ status = "absent"
  /\ hasId = FALSE
  /\ pollCount = 0
  /\ due = FALSE
  /\ past = FALSE
  /\ gateway = "none"
  /\ account = "usable"
  /\ edits = 0
  /\ processed = {}
  /\ call = [w \in Workers |-> Idle]
  /\ announced = [o \in Announceable |-> 0]
  /\ crashes = 0

At(w, pc) == call[w].pc = pc
Become(w, c) == call' = [call EXCEPT ![w] = c]
Return(w) == Become(w, Idle)
Goto(w, pc) == Become(w, [call[w] EXCEPT !.pc = pc])
Saw(w, s, pc) == Become(w, [call[w] EXCEPT !.pc = pc, !.seen = s])
GotoAs(w, pc, o) == Become(w, [call[w] EXCEPT !.pc = pc, !.as = o])

-----------------------------------------------------------------------------
(* The shared endings of the operations: one database transaction each.    *)

(* BUG of apply_link_state: no check of the amount and the currency. *)
SettlesUnchecked(seen) == seen # "created"

(* How apply_link_state reads a fetched status; the statuses it leaves out *)
(* ("mispaid", "partial", "created") change nothing that matters here.     *)
Settles(seen) == seen \in Announceable

(* The transaction settles the row as o and registers the event on commit. *)
SettleRow(w, o) ==
  /\ status' = o
  /\ due' = FALSE
  /\ GotoAs(w, "emit", o)

(* A webhook event gets its processed_at when its link update has returned. *)
MarkProcessed(w) ==
  processed' = IF call[w].hook THEN processed \cup {call[w].seen} ELSE processed

(* apply_link_state: the row is re-read under the lock, and a row settled   *)
(* in the meantime stays as it is.                                          *)
ApplyLinkState(w) ==
  /\ At(w, "apply")
  /\ IF status \notin Terminal /\ Settles(call[w].seen)
     THEN SettleRow(w, call[w].seen) /\ UNCHANGED processed
     ELSE Return(w) /\ MarkProcessed(w) /\ UNCHANGED <<status, due>>
  /\ UNCHANGED <<hasId, pollCount, past, gateway, account, edits, announced,
                 crashes>>

(* BUG of _close_locally: the status is not read again under the lock. *)
CloseLocallyUnlocked(w) ==
  /\ At(w, "close")
  /\ SettleRow(w, call[w].as)
  /\ UNCHANGED <<hasId, pollCount, past, gateway, account, edits, processed,
                 announced, crashes>>

(* _close_locally: settle the row without another word to the gateway. *)
CloseLocally(w) ==
  /\ At(w, "close")
  /\ IF status \notin Terminal
     THEN SettleRow(w, call[w].as)
     ELSE Return(w) /\ UNCHANGED <<status, due>>
  /\ UNCHANGED <<hasId, pollCount, past, gateway, account, edits, processed,
                 announced, crashes>>

(* The on_commit callback of _emit_on_commit: send_robust to the receivers. *)
Emit(w) ==
  /\ At(w, "emit")
  /\ announced' = [announced EXCEPT ![call[w].as] = @ + 1]
  /\ Return(w)
  /\ MarkProcessed(w)
  /\ UNCHANGED <<row, clock, gateway, account, edits, crashes>>

-----------------------------------------------------------------------------
(* create_payment_link, idempotent on reference_id. *)

(* The row is saved before the gateway is called.  A second caller finds    *)
(* the row (get, or IntegrityError and get) and calls the gateway again     *)
(* while the row is still creating.                                         *)
CreateStart(w) ==
  /\ "create" \in Operations
  /\ At(w, "idle")
  /\ account = "usable"
  /\ status \in {"absent", "creating"}
  /\ status' = "creating"
  /\ Goto(w, "create_call")
  /\ UNCHANGED <<hasId, pollCount, clock, gateway, account, edits, processed,
                 announced, crashes>>

(* The gateway is idempotent on the reference: it answers with the link it  *)
(* already has, whatever became of it.                                      *)
CreateAnswered(w) ==
  /\ At(w, "create_call")
  /\ gateway' = IF gateway = "none" THEN "created" ELSE gateway
  /\ Saw(w, gateway', "created")
  /\ UNCHANGED <<row, clock, account, edits, processed, announced, crashes>>

(* A retryable error leaves the row creating; the link may exist on the     *)
(* gateway all the same (a timed-out answer).                               *)
CreateRetryable(w) ==
  /\ At(w, "create_call")
  /\ "create" \in GatewayErrors
  /\ gateway' \in {gateway, IF gateway = "none" THEN "created" ELSE gateway}
  /\ Return(w)
  /\ UNCHANGED <<row, clock, account, edits, processed, announced, crashes>>

(* _record_create_error(failed=True): a final error settles a row that is   *)
(* still creating as failed; rejected API keys also invalidate the account. *)
CreateRefused(w) ==
  /\ At(w, "create_call")
  /\ "create" \in GatewayErrors
  /\ status' = IF status = "creating" THEN "failed" ELSE status
  /\ account' \in {account, IF account = "gone" THEN "gone" ELSE "invalid"}
  /\ Return(w)
  /\ UNCHANGED <<hasId, pollCount, clock, gateway, edits, processed,
                 announced, crashes>>

(* _apply_created, under the row lock. *)
ApplyCreated(w) ==
  /\ At(w, "created")
  /\ \/ /\ status = "creating"
        /\ status' = "created"
        /\ hasId' = TRUE
        /\ pollCount' = 0
        /\ due' = FALSE
        /\ past' \in {past, FALSE}    \* the gateway may allow more time
        /\ IF call[w].seen = "created" THEN Return(w) ELSE Goto(w, "apply")
     \/ /\ status = "cancelled"
        /\ ~hasId
        /\ hasId' = TRUE
        /\ Goto(w, "drop_call")
        /\ UNCHANGED <<status, pollCount, clock>>
     \/ /\ status # "creating"
        /\ ~(status = "cancelled" /\ ~hasId)
        /\ IF status = "created" /\ call[w].seen # "created"
           THEN Goto(w, "apply")
           ELSE Return(w)
        /\ UNCHANGED <<row, clock>>
  /\ UNCHANGED <<gateway, account, edits, processed, announced, crashes>>

(* The row was cancelled while the create call was in flight: the new link  *)
(* is cancelled on the gateway, and its answer or error is dropped.         *)
DropCreated(w) ==
  /\ At(w, "drop_call")
  /\ gateway' \in {IF gateway = "created" THEN "cancelled" ELSE gateway}
                  \cup (IF "cancel" \in GatewayErrors THEN {gateway} ELSE {})
  /\ Return(w)
  /\ UNCHANGED <<row, clock, account, edits, processed, announced, crashes>>

-----------------------------------------------------------------------------
(* cancel_payment_link. *)

(* The row is read without a lock.  Without a gateway id, or without the    *)
(* account, the row alone is closed.                                        *)
CancelRead(w) ==
  /\ "cancel" \in Operations
  /\ At(w, "idle")
  /\ status \in {"creating", "created"}
  /\ IF ~hasId \/ account = "gone"
     THEN GotoAs(w, "close", "cancelled")
     ELSE Goto(w, "cancel_call")
  /\ UNCHANGED <<row, clock, gateway, account, edits, processed, announced, crashes>>

(* provider.cancel_link: an open link is cancelled, any other is returned   *)
(* as it is.                                                                *)
CancelledThere == IF gateway = "created" THEN "cancelled" ELSE gateway

CancelAnswered(w) ==
  /\ At(w, "cancel_call")
  /\ gateway' = CancelledThere
  /\ Saw(w, gateway', "apply")
  /\ UNCHANGED <<row, clock, account, edits, processed, announced, crashes>>

CancelError(w) ==
  /\ At(w, "cancel_call")
  /\ "cancel" \in GatewayErrors
  /\ gateway' \in {gateway, CancelledThere}
  /\ Return(w)
  /\ UNCHANGED <<row, clock, account, edits, processed, announced, crashes>>

-----------------------------------------------------------------------------
(* refresh_payment_link (the buyer's return page, a webhook without state)  *)
(* and the polls of poll_due_links, which share _refresh.                   *)

RefreshStart(w) ==
  /\ "refresh" \in Operations
  /\ At(w, "idle")
  /\ status # "absent"
  /\ Goto(w, "read_refresh")
  /\ UNCHANGED <<row, clock, gateway, account, edits, processed, announced, crashes>>

IsFinalPoll == pollCount >= PollOffsets \/ past

(* The claim of poll_due_links: the count and the next time are saved       *)
(* before the gateway is asked.                                             *)
PollClaim(w) ==
  /\ At(w, "idle")
  /\ status = "created"
  /\ due
  /\ pollCount' = IF pollCount < PollCap THEN pollCount + 1 ELSE pollCount
  /\ due' = FALSE
  /\ Become(w, [Idle EXCEPT !.pc = "read_refresh",
                            !.final = IsFinalPoll,
                            !.lastTry = pollCount' > PollOffsets + MaxFinalRetries])
  /\ UNCHANGED <<status, hasId, past, gateway, account, edits, processed,
                 announced, crashes>>

RefreshRead(w) ==
  /\ At(w, "read_refresh")
  /\ \/ /\ status \in Terminal \/ ~hasId
        /\ Return(w)
     \/ /\ status \notin Terminal /\ hasId /\ account = "gone"
        /\ IF call[w].final
           THEN GotoAs(w, "close", "expired")
           ELSE Return(w)
     \/ /\ status \notin Terminal /\ hasId /\ account # "gone"
        /\ Goto(w, "fetch_call")
  /\ UNCHANGED <<row, clock, gateway, account, edits, processed, announced, crashes>>

(* BUG of _refresh: the final poll forgets to cancel on the gateway. *)
FetchAnsweredNoCancel(w) ==
  /\ At(w, "fetch_call")
  /\ IF call[w].final /\ gateway \in {"created", "partial"}
     THEN GotoAs(w, "close", "expired")
     ELSE Saw(w, gateway, "apply")
  /\ UNCHANGED <<row, clock, gateway, account, edits, processed, announced, crashes>>

FetchAnswered(w) ==
  /\ At(w, "fetch_call")
  /\ Saw(w, gateway, IF call[w].final /\ gateway \in {"created", "partial"}
                     THEN "final_cancel_call" ELSE "apply")
  /\ UNCHANGED <<row, clock, gateway, account, edits, processed, announced, crashes>>

(* BUG of poll_due_links: the last retry does not close the row. *)
FetchErrorGivesUp(w) ==
  /\ At(w, "fetch_call")
  /\ "fetch" \in GatewayErrors
  /\ Return(w)
  /\ UNCHANGED <<row, clock, gateway, account, edits, processed, announced, crashes>>

(* A failed fetch is retried by the next poll; the last retry of the final  *)
(* poll closes the row without having heard from the gateway.               *)
FetchError(w) ==
  /\ At(w, "fetch_call")
  /\ "fetch" \in GatewayErrors
  /\ IF call[w].final /\ call[w].lastTry
     THEN GotoAs(w, "close", "expired")
     ELSE Return(w)
  /\ UNCHANGED <<row, clock, gateway, account, edits, processed, announced, crashes>>

(* BUG of _refresh: the answer of the cancellation is not looked at. *)
FinalCancelAnsweredBlind(w) ==
  /\ At(w, "final_cancel_call")
  /\ gateway' = CancelledThere
  /\ GotoAs(w, "close", "expired")
  /\ UNCHANGED <<row, clock, account, edits, processed, announced, crashes>>

(* The final poll stops late payments on the gateway before it closes the   *)
(* row; a payment that came in between is applied instead.                  *)
FinalCancelAnswered(w) ==
  /\ At(w, "final_cancel_call")
  /\ gateway' = CancelledThere
  /\ IF gateway' \in {"paid", "mispaid"}
     THEN Saw(w, gateway', "apply")
     ELSE GotoAs(w, "close", "expired")
  /\ UNCHANGED <<row, clock, account, edits, processed, announced, crashes>>

FinalCancelError(w) ==
  /\ At(w, "final_cancel_call")
  /\ "cancel" \in GatewayErrors
  /\ gateway' \in {gateway, CancelledThere}
  /\ GotoAs(w, "close", "expired")
  /\ UNCHANGED <<row, clock, account, edits, processed, announced, crashes>>

-----------------------------------------------------------------------------
(* handle_merchant_webhook: the gateway tells, once or more and maybe late, *)
(* the status a link came to have.  Events that carry processed_at are      *)
(* skipped; one that names a link whose id is not saved yet is marked       *)
(* processed at once and never applied.  ("Open" and outdated part-payment  *)
(* events change nothing here and are left out; an event without a state    *)
(* starts a refresh.)                                                       *)
WebhookDelivered(w) ==
  /\ "webhook" \in Operations
  /\ At(w, "idle")
  /\ gateway \notin {"none", "created"} \cup processed
  /\ IF hasId
     THEN /\ Become(w, [Idle EXCEPT !.pc = "apply", !.seen = gateway, !.hook = TRUE])
          /\ UNCHANGED processed
     ELSE /\ processed' = processed \cup {gateway}
          /\ UNCHANGED call
  /\ UNCHANGED <<row, clock, gateway, account, edits, announced, crashes>>

-----------------------------------------------------------------------------
(* The world outside the payments app. *)

(* The buyer opens the URL, which the row carries with the gateway's id. *)
BuyerPays ==
  /\ hasId
  /\ \/ gateway = "created" /\ gateway' \in Payments
     \/ gateway = "partial" /\ gateway' = "paid"
  /\ UNCHANGED <<row, clock, account, edits, processed, call, announced, crashes>>

(* The link runs out, or the seller cancels it on the gateway's own site. *)
GatewayCloses ==
  /\ gateway = "created"
  /\ gateway' \in {"expired", "cancelled"}
  /\ UNCHANGED <<row, clock, account, edits, processed, call, announced, crashes>>

(* update_account, verify_account and the account's DELETE. *)
SellerEditsAccount ==
  /\ edits < AccountChanges
  /\ edits' = edits + 1
  /\ account' \in {"usable", "invalid", "gone"}
  /\ UNCHANGED <<row, clock, gateway, processed, call, announced, crashes>>

(* Time passes next_poll_at.  The final poll is never scheduled before      *)
(* expires_at + FINAL_POLL_DELAY.                                           *)
PollFallsDue ==
  /\ status = "created"
  /\ ~due
  /\ pollCount >= PollOffsets => past
  /\ due' = TRUE
  /\ UNCHANGED <<row, past, gateway, account, edits, processed, call,
                 announced, crashes>>

DeadlinePasses ==
  /\ status # "absent"
  /\ ~past
  /\ past' = TRUE
  /\ UNCHANGED <<row, due, gateway, account, edits, processed, call,
                 announced, crashes>>

(* A process dies: what it had not committed, and an event it had not yet   *)
(* emitted, are gone.  Celery delivers its task again (acks_late), which is *)
(* another start of the operation.                                          *)
Crash(w) ==
  /\ crashes < MaxCrashes
  /\ ~At(w, "idle")
  /\ crashes' = crashes + 1
  /\ Return(w)
  /\ UNCHANGED <<row, clock, gateway, account, edits, processed, announced>>

-----------------------------------------------------------------------------
(* The steps a process that started an operation goes on to take. *)
Continue(w) ==
  \/ CreateAnswered(w) \/ CreateRetryable(w) \/ CreateRefused(w)
  \/ ApplyCreated(w) \/ DropCreated(w)
  \/ CancelAnswered(w) \/ CancelError(w)
  \/ RefreshRead(w) \/ FetchAnswered(w) \/ FetchError(w)
  \/ FinalCancelAnswered(w) \/ FinalCancelError(w)
  \/ ApplyLinkState(w) \/ CloseLocally(w) \/ Emit(w)

Start(w) ==
  \/ CreateStart(w) \/ CancelRead(w) \/ RefreshStart(w)
  \/ PollClaim(w) \/ WebhookDelivered(w)

Environment ==
  \/ BuyerPays \/ GatewayCloses \/ SellerEditsAccount
  \/ PollFallsDue \/ DeadlinePasses

Next ==
  \/ \E w \in Workers : Start(w) \/ Continue(w) \/ Crash(w)
  \/ Environment

Spec == Init /\ [][Next]_vars

(* A process that lives goes on; the beat process starts a poll every       *)
(* minute, so a poll that is due again and again is claimed; time passes.   *)
Fairness ==
  /\ \A w \in Workers : WF_vars(Continue(w))
  /\ SF_vars(\E w \in Workers : PollClaim(w))
  /\ WF_vars(PollFallsDue)
  /\ WF_vars(DeadlinePasses)

FairSpec == Spec /\ Fairness

-----------------------------------------------------------------------------
(* PROPERTIES *)

(* The inductive invariant of the proofs.                                   *)
Emitting(w) == At(w, "emit")

(* A process that has seen the link paid in full cannot be wrong about it:  *)
(* the gateway never takes a full payment back.                             *)
SeenPaidIsPaid ==
  /\ \A w \in Workers : call[w].seen = "paid" => gateway = "paid"
  /\ status = "paid" => gateway = "paid"

(* Between the commit that settles the row and the event it registers, one  *)
(* process alone holds that event; afterwards nobody does.                  *)
OneEmitter ==
  /\ \A w \in Workers : Emitting(w) =>
       /\ status = call[w].as
       /\ \A o \in Announceable : announced[o] = 0
  /\ \A v, w \in Workers : Emitting(v) /\ Emitting(w) => v = w

AnnouncedOutcome ==
  \A o \in Announceable :
    /\ announced[o] \in {0, 1}
    /\ announced[o] = 1 => status = o

(* A close without the gateway's word never claims a payment. *)
ClosesAsUnpaid == \A w \in Workers : At(w, "close") => call[w].as # "paid"

LinkInv ==
  TypeOK /\ SeenPaidIsPaid /\ ClosesAsUnpaid /\ OneEmitter /\ AnnouncedOutcome

(* Refinement: whatever the interleaving of creators, cancellers, polls,    *)
(* return pages and webhooks, the link is settled once, as paid only when   *)
(* the gateway holds the full amount, and its one event is its outcome's.   *)
Promise == INSTANCE LinkPromise WITH
  outcome <- IF status \in Terminal THEN status ELSE "open",
  paidInFull <- gateway = "paid",
  announced <- announced

PromiseKept == Promise!Spec

(* Liveness: polling settles every link that was created, although fetches  *)
(* fail, processes die and the account may be gone.  The exception is a     *)
(* link paid with another amount: the final poll finds it paid, applies     *)
(* nothing, and is scheduled again for ever.                                *)
CreatedLinkSettles ==
  status = "created" ~> (status \in Terminal \/ gateway = "mispaid")

(* Liveness: while the gateway answers, money the buyer paid in full is     *)
(* found, also when it arrives between the final poll's fetch and its       *)
(* cancellation, and when its webhook came before the link's id was saved.  *)
PaymentIsFound == gateway = "paid" ~> status = "paid"

(* While the gateway answers, a link that ran out here can no longer be     *)
(* paid there (wave-3-commerce.md, "Confirmation": the final poll "cancels  *)
(* a still-open link on the gateway, then marks it expired").               *)
ExpiredIsClosedThere == status = "expired" => gateway # "created"

(* A cancelled link, once nobody is working on it any more, can no longer   *)
(* be paid on the gateway (cancel_payment_links of orders/lifecycle.py:     *)
(* "Cancel the order's open payment links on the gateway").                 *)
CancelledIsClosedThere ==
  status = "cancelled" /\ (\A w \in Workers : At(w, "idle"))
    => gateway # "created"
=============================================================================
