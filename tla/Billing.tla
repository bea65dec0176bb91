------------------------------- MODULE Billing -------------------------------
(* The plan of one workspace (backend/apps/billing): an auto-pay            *)
(* subscription at Razorpay, or one prepaid period at a time, paid through  *)
(* an order that the return page and the gateway's webhook both fulfil.     *)
(*                                                                          *)
(* Requests of the owner call a gateway between an unlocked read of the     *)
(* Subscription and the lock under which they write it; webhooks, the       *)
(* return page and the beat's passes write it meanwhile.  A plan stands for *)
(* a plan and its interval; paid time is counted in periods not yet over.   *)
EXTENDS Integers, FiniteSets

CONSTANTS
  Plans, TrialPlan,
  Orders,      \* prepaid orders the owner may create
  Subs,        \* Razorpay subscriptions that may be created
  Requests,    \* requests of the owner that can be under way at once
  MaxFaults    \* bound: gateway calls that fail, callbacks lost with their process

NoPlan == "none"
NoSub == "none"
ASSUME BillingAssumption ==
  /\ NoPlan \notin Plans /\ TrialPlan \in Plans /\ NoSub \notin Subs
  /\ MaxFaults \in Nat /\ IsFiniteSet(Orders)

VARIABLES
  sub,        \* the Subscription row
  left,       \* prepaid periods until current_period_end (Razorpay counts auto-pay ones)
  trialOver,
  planOf,     \* the plan of each order and of each Razorpay subscription
  row,        \* BillingOrder.status
  there,      \* the order at its gateway
  page,       \* the return page's request for each order
  rzp,        \* each subscription at Razorpay
  mail,       \* Razorpay's events on their way
  dropping,   \* superseded subscriptions whose cancellation was left to on_commit
  request,
  faults,
  fulfilled,  \* observer: how often each order was fulfilled
  over,       \* observer: Razorpay subscriptions whose plan has ended here
  reused,     \* observer: checkouts offered again after they had been superseded
  unasked,    \* observer: subscriptions whose plan was cancelled by a request that asked
              \* Razorpay about another one, or about none
  forgotten,  \* observer: checkouts that were paid when a cancellation forgot them
  uncancelled \* observer: subscriptions whose cancellation failed and was only logged

orderVars == <<row, there, page, fulfilled>>
gatewayVars == <<rzp, mail, dropping>>
rowVars == <<sub, left, over>>
crossed == <<reused, unasked, forgotten>>
observed == <<crossed, uncancelled>>
billingVars == <<rowVars, trialOver, planOf, orderVars, gatewayVars, request, faults, observed>>

SubStatuses == {"trialing", "pending", "active", "halted", "cancelled", "expired"}
SubRow == [status : SubStatuses, plan : Plans, prepaid : BOOLEAN, tracked : Subs \cup {NoSub},
           activated : BOOLEAN, atEnd : BOOLEAN, checkout : Plans \cup {NoPlan}]

\* subscription.authenticated and activated do to the row what charged does.
EventKinds == {"charged", "pending", "halted", "ended"}

\* What Razorpay charges, or tries to.
Charging == {"active", "pending", "halted"}
IdleRequest == [op |-> "idle", id |-> NoSub, plan |-> NoPlan, inCheckout |-> FALSE,
                atPeriodEnd |-> FALSE, atCycleEnd |-> FALSE]

Ended(s) == s.status \in {"cancelled", "expired"}

\* checkout_in_progress
InCheckout(s) == s.tracked # NoSub /\ ~s.activated

\* Every variable has its type; a checkout in progress is one of a subscription
\* that was created at Razorpay.
BillingTypeOK ==
  /\ sub \in SubRow /\ left \in 0 .. Cardinality(Orders) + 1
  /\ trialOver \in BOOLEAN
  /\ planOf \in [Orders \cup Subs -> Plans \cup {NoPlan}]
  /\ row \in [Orders -> {"none", "created", "ended", "paid"}]
  /\ there \in [Orders -> {"none", "open", "terminating", "closed", "paid"}]
  /\ page \in [Orders -> {"idle", "found"}]
  /\ rzp \in [Subs -> {"none", "created", "offered", "active", "pending", "halted", "lastcycle", "ended"}]
  /\ mail \subseteq EventKinds \X Subs
  /\ \A rs \in {dropping, over, reused, unasked, forgotten, uncancelled} : rs \subseteq Subs
  /\ request \in [Requests -> [op : {"idle", "start", "cancel", "asked", "verify"}, id : Subs \cup {NoSub},
                               plan : Plans \cup {NoPlan}, inCheckout : BOOLEAN,
                               atPeriodEnd : BOOLEAN, atCycleEnd : BOOLEAN]]
  /\ faults \in 0 .. MaxFaults
  /\ fulfilled \in [Orders -> Nat]
  /\ InCheckout(sub) => rzp[sub.tracked] \notin {"none", "created"} /\ sub.checkout # NoPlan

BillingInit ==
  /\ sub = [status |-> "trialing", plan |-> TrialPlan, prepaid |-> FALSE, tracked |-> NoSub,
            activated |-> FALSE, atEnd |-> FALSE, checkout |-> NoPlan]
  /\ left = 0 /\ over = {} /\ trialOver = FALSE
  /\ planOf = [x \in Orders \cup Subs |-> NoPlan]
  /\ row = [o \in Orders |-> "none"] /\ there = [o \in Orders |-> "none"]
  /\ page = [o \in Orders |-> "idle"] /\ fulfilled = [o \in Orders |-> 0]
  /\ rzp = [r \in Subs |-> "none"] /\ mail = {} /\ dropping = {}
  /\ request = [q \in Requests |-> IdleRequest]
  /\ faults = 0 /\ reused = {} /\ unasked = {} /\ forgotten = {} /\ uncancelled = {}

\* subscription.save()
Save(s) ==
  /\ sub' = s
  /\ over' = IF Ended(s) /\ s.activated /\ s.tracked # NoSub THEN over \cup {s.tracked} ELSE over

Fault == faults < MaxFaults /\ faults' = faults + 1

---------------------------------------------------------------------------
(* Prepaid orders.                                                          *)

\* start_cashfree_checkout and start_razorpay_order_checkout: the row is stored
\* after the gateway has the order, and before the owner gets its session.
StartOrderCheckout(o, p) ==
  /\ row[o] = "none"
  /\ ~(sub.status = "active" /\ ~sub.prepaid)
  /\ row' = [row EXCEPT ![o] = "created"]
  /\ there' = [there EXCEPT ![o] = "open"]
  /\ planOf' = [planOf EXCEPT ![o] = p]
  /\ UNCHANGED <<rowVars, trialOver, page, fulfilled, gatewayVars, request, faults, observed>>

\* The owner pays, also an order the gateway was about to end.
OwnerPays(o) ==
  /\ there[o] \in {"open", "terminating"}
  /\ there' = [there EXCEPT ![o] = "paid"]
  /\ UNCHANGED <<rowVars, trialOver, planOf, row, page, fulfilled, gatewayVars, request, faults, observed>>

OrderLapses(o) ==
  /\ there[o] \in {"open", "terminating"}
  /\ \E end \in {"terminating", "closed"} : there' = [there EXCEPT ![o] = end]
  /\ UNCHANGED <<rowVars, trialOver, planOf, row, page, fulfilled, gatewayVars, request, faults, observed>>

\* An active prepaid plan, bought again.
Renewal(o) == sub.status = "active" /\ sub.prepaid /\ sub.plan = planOf[o] /\ left > 0

\* BUG of fulfil_order: only an active subscription is cancelled.
SupersededActive == sub.status = "active"

\* A Razorpay subscription that may still be paid, or charges.
Superseded == InCheckout(sub) \/ sub.status \in {"active", "pending", "halted"}

\* BUG of fulfil_order: a subscription open at Razorpay stays the plan's.
FulfilledTracking(o) ==
  [sub EXCEPT !.plan = planOf[o], !.status = "active", !.prepaid = TRUE, !.atEnd = FALSE,
              !.activated = TRUE, !.checkout = NoPlan]

\* What fulfil_order makes of the row.
Fulfilled(o) ==
  [sub EXCEPT !.plan = planOf[o], !.status = "active", !.prepaid = TRUE, !.atEnd = FALSE,
              !.activated = TRUE, !.checkout = NoPlan, !.tracked = NoSub]

Fulfils(o) ==
  /\ Save(Fulfilled(o))
  /\ left' = IF Renewal(o) THEN left + 1 ELSE 1
  /\ dropping' = IF Superseded /\ sub.tracked # NoSub THEN dropping \cup {sub.tracked} ELSE dropping
  /\ row' = [row EXCEPT ![o] = "paid"]
  /\ fulfilled' = [fulfilled EXCEPT ![o] = @ + 1]

\* BUG of fulfil_order: an order that was marked failed or expired stays so.
FulfilOrderCreated(o) ==
  IF row[o] # "created" THEN UNCHANGED <<rowVars, dropping, row, fulfilled>> ELSE Fulfils(o)

\* BUG of fulfil_order: the order's status is not read again under the lock.
FulfilOrderAgain(o) == Fulfils(o)

\* fulfil_order
FulfilOrder(o) ==
  IF row[o] = "paid" THEN UNCHANGED <<rowVars, dropping, row, fulfilled>> ELSE Fulfils(o)

\* verify_cashfree_checkout and verify_razorpay_order_checkout, up to the gateway's answer.
PageAsks(o) ==
  /\ page[o] = "idle" /\ row[o] \in {"created", "ended"}
  /\ page' = [page EXCEPT ![o] = IF there[o] = "paid" THEN "found" ELSE @]
  /\ row' = [row EXCEPT ![o] = IF there[o] \in {"terminating", "closed"} THEN "ended" ELSE @]
  /\ UNCHANGED <<rowVars, trialOver, planOf, there, fulfilled, gatewayVars, request, faults, observed>>

PageFulfils(o) ==
  /\ page[o] = "found"
  /\ page' = [page EXCEPT ![o] = "idle"]
  /\ FulfilOrder(o)
  /\ UNCHANGED <<trialOver, planOf, there, rzp, mail, request, faults, observed>>

\* The dashboard verifies when the payment window closes, or when the browser
\* comes back from the gateway.
ReturnPage(o) == PageAsks(o) \/ PageFulfils(o)

\* _order_paid and handle_cashfree_event: a gateway repeats its webhook until it
\* is answered, and sometimes after that.
OrderWebhook(o) ==
  /\ there[o] = "paid"
  /\ FulfilOrder(o)
  /\ UNCHANGED <<trialOver, planOf, there, page, rzp, mail, request, faults, observed>>

---------------------------------------------------------------------------
(* Auto-pay: the owner's requests.                                          *)

Answered(q) == request' = [request EXCEPT ![q] = IdleRequest]

\* _reusable_checkout: an open checkout of the same plan that is not paid.
Reusable(p) == InCheckout(sub) /\ sub.checkout = p /\ rzp[sub.tracked] = "offered"

\* start_razorpay_checkout up to Razorpay's answer.
StartCheckout(q, p) ==
  /\ request[q] = IdleRequest /\ sub.status # "active"
  /\ \E r \in Subs :
       /\ IF Reusable(p)
          THEN r = sub.tracked /\ UNCHANGED <<rzp, planOf>>
          ELSE /\ rzp[r] = "none"
               /\ rzp' = [rzp EXCEPT ![r] = "created"]
               /\ planOf' = [planOf EXCEPT ![r] = p]
       /\ request' = [request EXCEPT ![q] = [IdleRequest EXCEPT !.op = "start", !.id = r, !.plan = p]]
  /\ UNCHANGED <<rowVars, trialOver, orderVars, mail, dropping, faults, observed>>

\* Its transaction: refused when a plan became active meanwhile.
CheckoutStored(q) ==
  LET r == request[q].id IN
  /\ request[q].op = "start"
  /\ IF sub.status = "active"
     THEN UNCHANGED <<rowVars, rzp, dropping>>
     ELSE /\ Save([sub EXCEPT !.tracked = r, !.checkout = request[q].plan,
                              !.activated = @ /\ sub.tracked = r,
                              !.status = IF @ = "trialing" THEN "pending" ELSE @])
          /\ dropping' = IF sub.tracked \in {r, NoSub} THEN dropping ELSE dropping \cup {sub.tracked}
          /\ rzp' = [rzp EXCEPT ![r] = IF @ = "created" THEN "offered" ELSE @]
          /\ UNCHANGED left
  /\ reused' = IF sub'.tracked = r /\ sub.tracked # r /\ rzp[r] # "created" THEN reused \cup {r} ELSE reused
  /\ Answered(q)
  /\ UNCHANGED <<trialOver, planOf, orderVars, mail, faults, unasked, forgotten, uncancelled>>

\* Razorpay ends a subscription and says so.
EndsThere(r) ==
  /\ rzp' = [rzp EXCEPT ![r] = "ended"]
  /\ mail' = IF rzp[r] = "ended" THEN mail ELSE mail \cup {<<"ended", r>>}

\* _cancel_quietly of a superseded subscription, after the commit: a failure is
\* only logged, and the process may have died.
CancelQuietly(r) ==
  /\ r \in dropping /\ dropping' = dropping \ {r}
  /\ \/ EndsThere(r) /\ UNCHANGED <<faults, uncancelled>>
     \/ Fault /\ uncancelled' = uncancelled \cup {r} /\ UNCHANGED <<rzp, mail>>
  /\ UNCHANGED <<rowVars, trialOver, planOf, orderVars, request, crossed>>

\* The Razorpay subscription that a cancellation is about, if any.
ToCancel == IF InCheckout(sub) \/ ~sub.prepaid THEN sub.tracked ELSE NoSub

\* cancel_subscription: what it decides on is read without a lock.
CancelReads(q, atPeriodEnd) ==
  /\ request[q] = IdleRequest
  /\ ~(Ended(sub) /\ ~InCheckout(sub))
  /\ request' = [request EXCEPT ![q] =
       [IdleRequest EXCEPT !.op = "cancel", !.inCheckout = InCheckout(sub), !.atPeriodEnd = atPeriodEnd,
          !.id = ToCancel,
          !.atCycleEnd = atPeriodEnd /\ sub.status = "active" /\ ~InCheckout(sub)]]
  /\ UNCHANGED <<rowVars, trialOver, planOf, orderVars, gatewayVars, faults, observed>>

\* The call to Razorpay, which refuses to cancel what has ended.  A failure
\* ends the request, unless an open checkout was to be cancelled.
CancelAsks(q) ==
  LET r == request[q].id IN
  /\ request[q].op = "cancel"
  /\ \/ /\ r = NoSub
        /\ request' = [request EXCEPT ![q].op = "asked"]
        /\ UNCHANGED <<rzp, mail, faults, uncancelled>>
     \/ /\ r # NoSub
        /\ request' = [request EXCEPT ![q].op = "asked"]
        /\ IF request[q].atCycleEnd /\ rzp[r] = "active"
           THEN rzp' = [rzp EXCEPT ![r] = "lastcycle"] /\ UNCHANGED mail
           ELSE EndsThere(r)
        /\ UNCHANGED <<faults, uncancelled>>
     \/ /\ r # NoSub
        /\ Fault \/ (rzp[r] = "ended" /\ UNCHANGED faults)
        /\ IF request[q].inCheckout
           THEN request' = [request EXCEPT ![q].op = "asked"] /\ uncancelled' = uncancelled \cup {r}
           ELSE Answered(q) /\ UNCHANGED uncancelled
        /\ UNCHANGED <<rzp, mail>>
  /\ UNCHANGED <<rowVars, trialOver, planOf, orderVars, dropping, crossed>>

\* abandon_checkout
Abandoned(keepTrial) ==
  [sub EXCEPT !.tracked = NoSub, !.checkout = NoPlan,
     !.status = IF @ \in {"trialing", "pending"}
                THEN IF ~keepTrial THEN "cancelled" ELSE IF trialOver THEN "expired" ELSE "trialing"
                ELSE IF @ = "halted" THEN "cancelled" ELSE @]

\* What CancelStored makes of a row whose checkout it does not forget.
Cancelled(asked) ==
  IF (sub.status = "trialing" /\ asked.atPeriodEnd) \/ (sub.status = "active" /\ asked.atCycleEnd)
  THEN [sub EXCEPT !.atEnd = TRUE]
  ELSE IF Ended(sub) THEN sub ELSE [sub EXCEPT !.status = "cancelled", !.atEnd = FALSE]

CancelStored(q) ==
  LET asked == request[q] IN
  /\ asked.op = "asked"
  /\ IF asked.inCheckout /\ sub.tracked = asked.id
     THEN /\ LET s == Abandoned(asked.atPeriodEnd) IN Save([s EXCEPT !.atEnd = s.status = "trialing"])
          /\ forgotten' = IF sub.status = "active" THEN forgotten \cup {asked.id} ELSE forgotten
          /\ UNCHANGED unasked
     ELSE /\ Save(Cancelled(asked))
          /\ unasked' = IF Ended(sub) \/ ~Ended(sub') THEN unasked
                        ELSE unasked \cup ({sub.tracked} \ {asked.id, NoSub})
          /\ UNCHANGED forgotten
  /\ Answered(q)
  /\ UNCHANGED <<left, trialOver, planOf, orderVars, gatewayVars, faults, reused, uncancelled>>

---------------------------------------------------------------------------
(* Auto-pay: Razorpay.                                                      *)

\* activate
Activate(r) ==
  IF Ended(sub) /\ sub.activated
  THEN UNCHANGED rowVars
  ELSE /\ Save([sub EXCEPT !.plan = planOf[r], !.status = "active", !.prepaid = FALSE,
                           !.activated = TRUE, !.checkout = NoPlan])
       /\ left' = 0

\* verify_razorpay_checkout: the return page of an authorised subscription.
VerifyReads(q) ==
  /\ request[q] = IdleRequest
  /\ sub.tracked # NoSub /\ rzp[sub.tracked] \in {"active", "lastcycle"}
  /\ request' = [request EXCEPT ![q] = [IdleRequest EXCEPT !.op = "verify", !.id = sub.tracked]]
  /\ UNCHANGED <<rowVars, trialOver, planOf, orderVars, gatewayVars, faults, observed>>

VerifyStored(q) ==
  /\ request[q].op = "verify"
  /\ IF sub.tracked = request[q].id THEN Activate(request[q].id) ELSE UNCHANGED rowVars
  /\ Answered(q)
  /\ UNCHANGED <<trialOver, planOf, orderVars, gatewayVars, faults, observed>>

\* The owner authorises the subscription in Razorpay Checkout, and is charged.
Authorise(r) ==
  /\ rzp[r] = "offered"
  /\ rzp' = [rzp EXCEPT ![r] = "active"]
  /\ mail' = mail \cup {<<"charged", r>>}
  /\ UNCHANGED <<rowVars, trialOver, planOf, orderVars, dropping, request, faults, observed>>

\* Charges fail and succeed, and a last cycle ends.
RazorpayMoves(r) ==
  /\ \/ rzp[r] = "active" /\ rzp' = [rzp EXCEPT ![r] = "pending"] /\ mail' = mail \cup {<<"pending", r>>}
     \/ rzp[r] = "pending" /\ rzp' = [rzp EXCEPT ![r] = "halted"] /\ mail' = mail \cup {<<"halted", r>>}
     \/ /\ rzp[r] \in {"pending", "halted"}
        /\ rzp' = [rzp EXCEPT ![r] = "active"] /\ mail' = mail \cup {<<"charged", r>>}
     \/ rzp[r] = "lastcycle" /\ EndsThere(r)
  /\ UNCHANGED <<rowVars, trialOver, planOf, orderVars, dropping, request, faults, observed>>

\* _set_status
SetStatus(status) == Save(IF Ended(sub) THEN sub ELSE [sub EXCEPT !.status = status])

\* _ended: expired when the period of the event is over, else cancelled.
PlanEnds ==
  IF InCheckout(sub)
  THEN Save([Abandoned(TRUE) EXCEPT !.atEnd = FALSE])
  ELSE \E end \in {"cancelled", "expired"} : Save([sub EXCEPT !.status = end, !.atEnd = FALSE])

\* handle_delivery: an event is handled once, in any order; those of a
\* subscription that is not the plan's are not.
RazorpayEvent(kind, r) ==
  /\ <<kind, r>> \in mail /\ mail' = mail \ {<<kind, r>>}
  /\ IF sub.tracked # r
     THEN UNCHANGED rowVars
     ELSE \/ kind = "charged" /\ Activate(r)
          \/ kind \in {"pending", "halted"} /\ SetStatus(kind) /\ UNCHANGED left
          \/ kind = "ended" /\ PlanEnds /\ UNCHANGED left
  /\ UNCHANGED <<trialOver, planOf, orderVars, rzp, dropping, request, faults, observed>>

---------------------------------------------------------------------------
(* Time, and the beat.                                                      *)

PeriodPasses ==
  /\ left > 0 /\ left' = left - 1
  /\ UNCHANGED <<sub, over, trialOver, planOf, orderVars, gatewayVars, request, faults, observed>>

TrialEnds ==
  /\ ~trialOver /\ trialOver' = TRUE
  /\ UNCHANGED <<rowVars, planOf, orderVars, gatewayVars, request, faults, observed>>

TrialEnded == trialOver /\ sub.status \in {"trialing", "pending"} /\ ~sub.activated /\ left = 0

ExpireTrials ==
  /\ TrialEnded
  /\ Save([sub EXCEPT !.status = "expired", !.atEnd = FALSE])
  /\ UNCHANGED <<left, trialOver, planOf, orderVars, gatewayVars, request, faults, observed>>

ExpirePrepaid ==
  /\ sub.prepaid /\ sub.status = "active" /\ left = 0
  /\ Save([sub EXCEPT !.status = IF sub.atEnd THEN "cancelled" ELSE "expired", !.atEnd = FALSE])
  /\ UNCHANGED <<left, trialOver, planOf, orderVars, gatewayVars, request, faults, observed>>

---------------------------------------------------------------------------

BillingNext ==
  \/ \E o \in Orders, p \in Plans : StartOrderCheckout(o, p)
  \/ \E o \in Orders : OwnerPays(o) \/ OrderLapses(o) \/ ReturnPage(o) \/ OrderWebhook(o)
  \/ \E q \in Requests :
       \/ \E p \in Plans : StartCheckout(q, p)
       \/ \E atPeriodEnd \in BOOLEAN : CancelReads(q, atPeriodEnd)
       \/ CheckoutStored(q) \/ CancelAsks(q) \/ CancelStored(q)
       \/ VerifyReads(q) \/ VerifyStored(q)
  \/ \E r \in Subs :
       \/ CancelQuietly(r) \/ Authorise(r) \/ RazorpayMoves(r)
       \/ \E kind \in EventKinds : RazorpayEvent(kind, r)
  \/ PeriodPasses \/ TrialEnds \/ ExpireTrials \/ ExpirePrepaid

BillingSpec == BillingInit /\ [][BillingNext]_billingVars

\* The gateways repeat their webhooks, and the beat runs.
BillingFairness ==
  /\ \A o \in Orders : WF_billingVars(OrderWebhook(o))
  /\ WF_billingVars(ExpirePrepaid) /\ WF_billingVars(PeriodPasses)

FairBillingSpec == BillingSpec /\ BillingFairness

---------------------------------------------------------------------------

\* An order is fulfilled once, although the return page and the webhook find it
\* paid at the same time and the webhook is repeated; and nothing that was not
\* paid is.
OrderFulfilledOnce ==
  \A o \in Orders :
    /\ fulfilled[o] = IF row[o] = "paid" THEN 1 ELSE 0
    /\ row[o] = "paid" => there[o] = "paid"

\* Nothing but its time, its owner and an order for another plan takes away what
\* was paid in advance: no event of an earlier auto-pay subscription, no pass
\* over trials, no second order.
PrepaidPlanStands ==
  [][sub.status = "active" /\ sub.prepaid /\ left > 0 =>
       \/ sub'.status = "active" /\ sub'.prepaid /\ sub'.plan = sub.plan /\ left' >= left
       \/ PeriodPasses
       \/ \E o \in Orders : row[o] # "paid" /\ row'[o] = "paid" /\ planOf[o] # sub.plan
       \/ \E q \in Requests : request[q].op = "asked" /\ request'[q] = IdleRequest]_billingVars

\* An auto-pay plan that has ended is not revived by a late event of its
\* subscription, only by another payment; unless a request offered its checkout
\* again, that had found it unpaid before all this.
EndedIsNotRevived ==
  [][sub.status # "active" /\ sub'.status = "active" => sub'.tracked \notin over \ reused]_billingVars

\* What is late does not take away what was paid in advance, nor revive an
\* auto-pay plan that ended.  (It may set back an auto-pay plan that runs:
\* pending and halted events are applied whenever they come.)
PlansStand == PrepaidPlanStands /\ EndedIsNotRevived

\* An active plan is paid: in advance, or through a Razorpay subscription whose
\* events will end it.  One that is neither was left by a cancellation that
\* took a paid checkout for an open one.
ActivePlanIsPaid ==
  sub.status = "active" /\ ~sub.prepaid =>
    IF sub.tracked = NoSub THEN forgotten # {} ELSE rzp[sub.tracked] \in Charging \cup {"lastcycle", "ended"}

Settled == mail = {} /\ dropping = {} /\ \A q \in Requests : request[q] = IdleRequest

\* When everything on its way has arrived, Razorpay charges for no subscription
\* but the one of the plan, and not for one that has ended here.  There are two
\* ways to one that it does charge for, and each names it: its cancellation
\* failed and the code only logged that, or its plan was cancelled by a request
\* that had not asked Razorpay about it.
NoChargeWithoutPlan ==
  Settled =>
    \A r \in Subs \ (uncancelled \cup unasked) :
      rzp[r] \in Charging => sub.tracked = r /\ ~Ended(sub)

\* Who has a plan pays for it, and who pays has one, whichever requests cross
\* and calls fail: what does not match is what a crossed request or a failed
\* call was about.
ChargesMatchPlan == ActivePlanIsPaid /\ NoChargeWithoutPlan

\* A paid order is applied in the end, also one that the return page had marked
\* failed while the gateway was about to end it.
\* (A paid order stays paid at the gateway, so "again and again" is "in the end".)
PaidOrderIsApplied == \A o \in Orders : []<>(there[o] = "paid" => row[o] = "paid")
=============================================================================
