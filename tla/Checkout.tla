------------------------------ MODULE Checkout ------------------------------
(* One order of backend/apps/orders from checkout to fulfilment: the buyer's*)
(* taps, the seller's dashboard, the Celery task that creates the payment   *)
(* link of each attempt, the payment events, the cancellations queued on    *)
(* commit, and the beat task that expires checkouts.  Every handler locks   *)
(* the order, so each of its transactions is one action; the processes      *)
(* interleave between them.  The payment links are those LinkPromise        *)
(* promises (PaymentLink is the detailed model), and "others" are the       *)
(* orders that compete for the same stock.                                  *)
EXTENDS Integers, FiniteSets, OrderStatus

CONSTANTS
  OrderKinds,    \* what the buyer may order
  Requirements,  \* what the booking_payment of bookings may be
  Subtotal,      \* the price of the items, without the COD fee
  Advance,       \* Order.advance_paise
  CodFee,        \* StoreSettings.cod_fee_paise
  Capacity,      \* the units in stock at first; the order wants one
  TracksStock,   \* the product's stock_qty is set when the checkout starts
  SellerActs,    \* the seller uses the dashboard
  MaxAttempts,   \* bound: payment attempts of the buyer
  MaxRetries,    \* PAYMENT_LINK_MAX_RETRIES
  GatewayFaults, \* gateway calls may fail, or be overtaken by another process
  MaxLosses      \* bound: processes, callbacks and queued tasks lost

BookingPayments == {"store_default", "advance", "full"}

ASSUME KindAssumption == OrderKinds \subseteq Kinds /\ Requirements \subseteq BookingPayments
ASSUME AmountsAssumption ==
  /\ Subtotal \in Nat /\ Advance \in Nat /\ CodFee \in Nat
  /\ 0 < Advance /\ Advance < Subtotal
ASSUME StockAssumption == Capacity \in Nat /\ TracksStock \in BOOLEAN
ASSUME FaultsAssumption == GatewayFaults \in BOOLEAN /\ SellerActs \in BOOLEAN
ASSUME LimitsAssumption ==
  MaxAttempts \in Nat /\ MaxRetries \in Nat /\ MaxLosses \in Nat

Attempts == 1 .. MaxAttempts

(* OPEN_LINK_STATUSES, and how a link ends. *)
OpenLink == {"creating", "created"}
LinkOutcomes == {"paid", "expired", "cancelled", "failed"}

PaymentStatuses ==
  {"unpaid", "paid", "advance_paid", "cod_pending", "cod_collected",
   "refunded_manual"}

VARIABLES
  status, payStatus, method, payAdvance, total, amountPaid,
  attempt,    \* Order.checkout_attempt
  overdue,    \* expires_at has passed
  canceller,  \* who cancelled the order last
  kind, requirement,  \* Order.kind and booking_payment
  reserved,   \* Order.stock_reserved
  took,       \* reserving took a unit of tracked stock
  tracked, stock,  \* Product.stock_qty: whether it is a number, and which
  others,     \* units held by other orders
  gone,       \* units a cancellation did not put back on the shelf
  link,       \* status of each attempt's payment link
  gateway,    \* the same link on the gateway
  amount,     \* what it charges
  url,        \* it has a short_url
  sent,       \* the buyer was sent the URL
  news,       \* its event: none, due, heard by the receivers, or lost
  task,       \* the send_payment_link task of each attempt
  retries,    \* its retries so far
  cancelDue,  \* a committed transaction left cancel_payment_links to run
  cancelling, \* the open links cancel_payment_links found and has to cancel
  blind,      \* those of them it read before they had a gateway id
  orphaned,   \* observer: links that were closed so although they had an id by then
  expiry,     \* the expire_checkouts pass that works on the order
  losses      \* what was lost so far (bounded by MaxLosses)

money == <<payStatus, method, payAdvance, total, amountPaid>>
notes == <<canceller, kind, requirement>>
order == <<status, money, attempt, overdue, notes>>
inventory == <<reserved, took, tracked, stock, others, gone>>
links == <<link, gateway, amount, url, sent, news>>
tasks == <<task, retries>>
closing == <<cancelling, blind, orphaned>>
jobs == <<cancelDue, closing>>
vars == <<order, inventory, links, tasks, jobs, expiry, losses>>

NoExpiry == [pc |-> "idle", todo |-> {}, blind |-> {}, mine |-> {}]

TypeOK ==
  /\ status \in Statuses
  /\ payStatus \in PaymentStatuses
  /\ method \in {"none", "online", "cod", "pay_at_shop"}
  /\ payAdvance \in BOOLEAN
  /\ total \in {Subtotal, Subtotal + CodFee}
  /\ amountPaid \in Nat
  /\ attempt \in 0 .. MaxAttempts
  /\ overdue \in BOOLEAN
  /\ canceller \in {"none", "buyer", "seller"}
  /\ kind \in OrderKinds /\ requirement \in Requirements \cup {"store_default"}
  /\ reserved \in BOOLEAN /\ took \in BOOLEAN /\ tracked \in BOOLEAN
  /\ stock \in Nat /\ others \in Nat /\ gone \in Nat
  /\ link \in [Attempts -> {"none"} \cup OpenLink \cup LinkOutcomes]
  /\ gateway \in [Attempts -> {"none", "open", "paid", "closed"}]
  /\ amount \in [Attempts -> {0, Advance, Subtotal}]
  /\ url \in [Attempts -> BOOLEAN]
  /\ sent \in [Attempts -> BOOLEAN]
  /\ news \in [Attempts -> {"none", "due", "heard", "lost"}]
  /\ task \in [Attempts -> {"none", "queued", "started", "calling", "sending", "failing", "done"}]
  /\ retries \in [Attempts -> 0 .. MaxRetries]
  /\ cancelDue \in BOOLEAN
  /\ cancelling \in SUBSET Attempts /\ blind \in SUBSET Attempts /\ orphaned \in SUBSET Attempts
  /\ expiry \in [pc : {"idle", "picked", "closing"}, todo : SUBSET Attempts,
                 blind : SUBSET Attempts, mine : SUBSET Attempts]
  /\ losses \in 0 .. MaxLosses

(* start_checkout: prices that changed must be confirmed first. *)
FirstStep(k) == IF k = "delivery" THEN "awaiting_address" ELSE "awaiting_time"

Init ==
  /\ kind \in OrderKinds
  /\ requirement \in IF kind = "booking" THEN Requirements ELSE {"store_default"}
  /\ status \in {"awaiting_confirmation", FirstStep(kind)}
  /\ payStatus = "unpaid" /\ method = "none" /\ payAdvance = FALSE
  /\ total = Subtotal /\ amountPaid = 0
  /\ attempt = 0 /\ overdue = FALSE /\ canceller = "none"
  /\ reserved = FALSE /\ took = FALSE
  /\ tracked = TracksStock /\ stock = Capacity /\ others = 0 /\ gone = 0
  /\ link = [a \in Attempts |-> "none"]
  /\ gateway = [a \in Attempts |-> "none"]
  /\ amount = [a \in Attempts |-> 0]
  /\ url = [a \in Attempts |-> FALSE]
  /\ sent = [a \in Attempts |-> FALSE]
  /\ news = [a \in Attempts |-> "none"]
  /\ task = [a \in Attempts |-> "none"]
  /\ retries = [a \in Attempts |-> 0]
  /\ cancelDue = FALSE /\ cancelling = {} /\ blind = {} /\ orphaned = {}
  /\ expiry = NoExpiry
  /\ losses = 0

Set(f, a, v) == [f EXCEPT ![a] = v]

OpenLinks == {a \in Attempts : link[a] \in OpenLink}
Current(a) == status = "pending_payment" /\ attempt = a

(* set_status: every move inside the checkout comes with a new deadline,    *)
(* and leaving it clears expires_at.                                        *)
MoveTo(to) == status' = to /\ overdue' = FALSE

-----------------------------------------------------------------------------
(* Stock: catalog reserve_stock and release_stock, and the order's flag.    *)

Counted == kind = "delivery" /\ tracked

CanReserve == reserved \/ ~Counted \/ stock > 0

(* BUG of catalog reserve_stock: the UPDATE has no stock_qty__gte. *)
ReserveUnchecked ==
  /\ reserved' = TRUE
  /\ IF ~reserved /\ Counted
     THEN stock' = stock - 1 /\ took' = TRUE
     ELSE UNCHANGED <<stock, took>>
  /\ UNCHANGED <<tracked, others, gone>>

Reserve ==
  /\ CanReserve
  /\ reserved' = TRUE
  /\ IF ~reserved /\ Counted
     THEN stock' = stock - 1 /\ took' = TRUE
     ELSE UNCHANGED <<stock, took>>
  /\ UNCHANGED <<tracked, others, gone>>

(* The stock comes back wherever stock_qty is a number at that moment. *)
Release ==
  /\ reserved' = FALSE
  /\ stock' = IF reserved /\ Counted THEN stock + 1 ELSE stock
  /\ took' = FALSE
  /\ UNCHANGED <<tracked, others, gone>>

(* cancel_order with restock = False. *)
Forfeit ==
  /\ reserved' = FALSE
  /\ gone' = IF took THEN gone + 1 ELSE gone
  /\ took' = FALSE
  /\ UNCHANGED <<tracked, stock, others>>

OthersReserve ==
  /\ Counted /\ stock > 0
  /\ stock' = stock - 1 /\ others' = others + 1
  /\ UNCHANGED <<order, reserved, took, tracked, gone, links, tasks, jobs, expiry, losses>>

OthersRelease ==
  /\ others > 0
  /\ stock' = stock + 1 /\ others' = others - 1
  /\ UNCHANGED <<order, reserved, took, tracked, gone, links, tasks, jobs, expiry, losses>>

(* The seller sets stock_qty of a product whose stock was not counted. *)
SellerStartsTracking ==
  /\ ~tracked
  /\ tracked' = TRUE /\ stock' = Capacity
  /\ UNCHANGED <<order, reserved, took, others, gone, links, tasks, jobs, expiry, losses>>

-----------------------------------------------------------------------------
(* The buyer's taps. *)

ConfirmPrices ==
  /\ status = "awaiting_confirmation"
  /\ MoveTo(FirstStep(kind))
  /\ UNCHANGED <<money, attempt, notes, inventory, links, tasks, jobs, expiry, losses>>

(* The address, or the day and the window, are accepted. *)
GiveDetails ==
  /\ status = FirstStep(kind)
  /\ MoveTo("awaiting_payment_method")
  /\ UNCHANGED <<money, attempt, notes, inventory, links, tasks, jobs, expiry, losses>>

(* A day, another address: the answer renews the deadline. *)
AnswerAgain ==
  /\ status = FirstStep(kind)
  /\ overdue' = FALSE
  /\ UNCHANGED <<status, money, attempt, notes, inventory, links, tasks, jobs,
                 expiry, losses>>

(* _chk_pay and _chk_retry: the attempt's task is queued on commit.         *)
ChooseOnline(advance) ==
  /\ status = "awaiting_payment_method"
  /\ advance => kind = "booking" /\ requirement = "advance"
  /\ attempt < MaxAttempts
  /\ Reserve
  /\ method' = "online" /\ payAdvance' = advance /\ total' = Subtotal
  /\ attempt' = attempt + 1
  /\ MoveTo("pending_payment")
  /\ task' = Set(task, attempt', "queued")
  /\ UNCHANGED <<payStatus, amountPaid, notes, links, retries, jobs, expiry, losses>>

ChooseCod ==
  /\ status = "awaiting_payment_method"
  /\ kind = "delivery"
  /\ Reserve
  /\ method' = "cod" /\ payStatus' = "cod_pending" /\ total' = Subtotal + CodFee
  /\ MoveTo("confirmed")
  /\ UNCHANGED <<payAdvance, amountPaid, attempt, notes, links, tasks, jobs,
                 expiry, losses>>

ChooseShop ==
  /\ status = "awaiting_payment_method"
  /\ kind = "booking" /\ requirement = "store_default"
  /\ method' = "pay_at_shop" /\ payStatus' = "cod_pending" /\ total' = Subtotal
  /\ MoveTo("requested")
  /\ UNCHANGED <<payAdvance, amountPaid, attempt, notes, inventory, links, tasks,
                 jobs, expiry, losses>>

(* cancel_order. *)
CancelOrder(who, restock) ==
  /\ IF restock THEN Release ELSE Forfeit
  /\ canceller' = who /\ UNCHANGED <<kind, requirement>>
  /\ cancelDue' = TRUE
  /\ MoveTo("cancelled")
  /\ UNCHANGED <<money, attempt, links, tasks, closing, expiry, losses>>

(* Cancel, edit the cart, start another checkout; or "Yes, cancel" on a     *)
(* reminder of a confirmed booking.                                         *)
BuyerCancels ==
  /\ status \in CheckoutStatuses \/ (kind = "booking" /\ status = "confirmed")
  /\ CancelOrder("buyer", TRUE)

-----------------------------------------------------------------------------
(* The seller's dashboard (and the seller's WhatsApp commands). *)

SellerCancels(restock) ==
  /\ SellerActs
  /\ "cancelled" \in Manual(kind, status)
  /\ CancelOrder("seller", restock)

(* transition and confirm_booking. *)
SellerMoves(to) ==
  /\ SellerActs
  /\ to \in Manual(kind, status) \ {"cancelled"}
  /\ MoveTo(to)
  /\ UNCHANGED <<money, attempt, notes, inventory, links, tasks, jobs, expiry, losses>>

SellerRecords(newPayStatus) ==
  /\ SellerActs
  /\ payStatus' = newPayStatus
  /\ UNCHANGED <<status, method, payAdvance, total, amountPaid, attempt, overdue,
                 notes, inventory, links, tasks, jobs, expiry, losses>>

MarkCodCollected ==
  /\ payStatus = "cod_pending"
  /\ \/ method = "cod" /\ status \in {"shipped", "delivered"}
     \/ method = "pay_at_shop" /\ status \in {"confirmed", "completed"}
  /\ SellerRecords("cod_collected")

MarkBalancePaid ==
  /\ payStatus = "advance_paid"
  /\ status \in {"confirmed", "completed"}
  /\ SellerRecords("paid")

MarkRefunded ==
  /\ payStatus \in {"paid", "advance_paid"}
  /\ status \in {"cancelled", "needs_attention"}
  /\ SellerRecords("refunded_manual")

-----------------------------------------------------------------------------
(* The payment links, as LinkPromise has them. *)

LinkSettles(a, o) ==
  /\ link' = Set(link, a, o)
  /\ news' = Set(news, a, "due")

(* The buyer opens the URL. *)
BuyerPays(a) ==
  /\ sent[a] /\ gateway[a] = "open"
  /\ gateway' = Set(gateway, a, "paid")
  /\ UNCHANGED <<order, inventory, link, amount, url, sent, news, tasks, jobs, expiry,
                 losses>>

(* BUG of the return page: the buyer coming back counts as a payment. *)
PaymentAssumed(a) ==
  /\ link[a] = "created" /\ gateway[a] \in {"open", "paid"}
  /\ LinkSettles(a, "paid")
  /\ UNCHANGED <<order, inventory, gateway, amount, url, sent, tasks, jobs, expiry, losses>>

(* A poll, a webhook or the return page finds the payment. *)
PaymentFound(a) ==
  /\ link[a] = "created" /\ gateway[a] = "paid"
  /\ LinkSettles(a, "paid")
  /\ UNCHANGED <<order, inventory, gateway, amount, url, sent, tasks, jobs, expiry, losses>>

(* The link runs out; or it is cancelled on the gateway's own site, which   *)
(* the receivers take just as an expiry.  When the gateway keeps failing,   *)
(* the final poll gives up on a link it cannot see.                         *)
LinkEnds(a) ==
  /\ link[a] = "created"
  /\ LinkSettles(a, "expired")
  /\ \/ gateway[a] \in {"open", "closed"} /\ gateway' = Set(gateway, a, "closed")
     \/ GatewayFaults /\ UNCHANGED gateway
  /\ UNCHANGED <<order, inventory, amount, url, sent, tasks, jobs, expiry, losses>>

(* _close_locally, under the lock: an open row is closed, whatever the      *)
(* gateway has answered meanwhile.                                          *)
CloseLocally(a) ==
  \/ /\ link[a] \in OpenLink /\ LinkSettles(a, "cancelled")
     /\ orphaned' = IF link[a] = "created" THEN orphaned \cup {a} ELSE orphaned
     /\ UNCHANGED <<gateway, amount, url, sent>>
  \/ link[a] \notin OpenLink /\ UNCHANGED <<links, orphaned>>

(* BUG of cancel_payment_link: the gateway's answer is not looked at. *)
CancelLinkBlind(a) ==
  /\ link[a] = "created" /\ gateway[a] # "open"
  /\ LinkSettles(a, "cancelled")
  /\ UNCHANGED <<gateway, amount, url, sent>>

(* BUG of cancel_payment_link: the gateway is not called. *)
CancelLinkUncalled(a) ==
  /\ link[a] = "created"
  /\ LinkSettles(a, IF gateway[a] = "paid" THEN "paid" ELSE "cancelled")
  /\ UNCHANGED <<gateway, amount, url, sent>>

(* payments.cancel_payment_link of a link whose id it has read.  The        *)
(* gateway's answer says paid or cancelled, and is applied under the lock;  *)
(* when the gateway account is gone the row is closed alone.                *)
CancelLink(a) ==
  /\ link[a] = "created"
  /\ \/ gateway[a] # "open" /\ LinkSettles(a, IF gateway[a] = "paid" THEN "paid" ELSE "cancelled")
     \/ GatewayFaults /\ LinkSettles(a, "cancelled")
  /\ UNCHANGED <<gateway, amount, url, sent>>

(* Its call ends a link on the gateway that can still be paid.              *)
GatewayCancels(a) ==
  /\ a \in cancelling \cup expiry.todo
  /\ link[a] = "created" /\ gateway[a] = "open"
  /\ gateway' = Set(gateway, a, "closed")
  /\ UNCHANGED <<order, inventory, link, amount, url, sent, news, tasks, jobs, expiry, losses>>

(* The call fails, or its answer is lost: the row stays open.               *)
CancelLinkFails(a) ==
  /\ GatewayFaults /\ link[a] = "created"
  /\ UNCHANGED links

-----------------------------------------------------------------------------
(* orders.send_payment_link, the task of an attempt. *)

Fail(a) == task' = Set(task, a, "failing") /\ UNCHANGED retries

RetryOrFail(a) ==
  IF retries[a] < MaxRetries
  THEN /\ task' = Set(task, a, "queued")
       /\ retries' = Set(retries, a, retries[a] + 1)
  ELSE Fail(a)

LinkAmount ==
  IF payAdvance /\ requirement = "advance" /\ Advance < total THEN Advance ELSE total

(* The order is read without a lock: a task whose attempt is over ends, and *)
(* the others go on with what they read, whatever happens meanwhile.        *)
TaskReadsOrder(a) ==
  /\ task[a] = "queued"
  /\ task' = Set(task, a, IF Current(a) THEN "started" ELSE "done")
  /\ amount' = IF Current(a) /\ link[a] = "none" THEN Set(amount, a, LinkAmount) ELSE amount
  /\ UNCHANGED <<order, inventory, link, gateway, url, sent, news, retries, jobs,
                 expiry, losses>>

(* create_payment_link saves the row and calls the gateway; a link that has *)
(* been created before is returned as it is.                                *)
TaskCreates(a) ==
  /\ task[a] = "started"
  /\ \/ /\ link[a] \in {"none", "creating"}
        /\ link' = Set(link, a, "creating")
        /\ task' = Set(task, a, "calling")
        /\ UNCHANGED retries
     \/ /\ link[a] \notin {"none", "creating"}
        /\ IF url[a]
           THEN task' = Set(task, a, "sending") /\ UNCHANGED retries
           ELSE RetryOrFail(a)
        /\ UNCHANGED link
  /\ UNCHANGED <<order, inventory, gateway, amount, url, sent, news, jobs, expiry, losses>>

(* PaymentAccountMissing or PaymentAccountInvalid, before the row is read.  *)
TaskHasNoAccount(a) ==
  /\ GatewayFaults
  /\ task[a] = "started"
  /\ Fail(a)
  /\ UNCHANGED <<order, inventory, links, jobs, expiry, losses>>

(* _apply_created: a row cancelled during the call is cancelled on the      *)
(* gateway as well.                                                         *)
GatewayAnswers(a) ==
  /\ task[a] = "calling"
  /\ task' = Set(task, a, "sending")
  /\ url' = Set(url, a, TRUE)
  /\ \/ /\ link[a] = "creating"
        /\ link' = Set(link, a, "created")
        /\ gateway' = IF gateway[a] = "none" THEN Set(gateway, a, "open") ELSE gateway
     \/ /\ link[a] # "creating"
        /\ \E g \in {"closed"} \cup (IF GatewayFaults THEN {"open"} ELSE {}) :
             gateway' = Set(gateway, a, g)
        /\ UNCHANGED link
  /\ UNCHANGED <<order, inventory, amount, sent, news, retries, jobs, expiry, losses>>

GatewayFails(a) ==
  /\ GatewayFaults
  /\ task[a] = "calling"
  /\ \/ /\ RetryOrFail(a)
        /\ gateway' \in {gateway, IF gateway[a] = "none" THEN Set(gateway, a, "open") ELSE gateway}
        /\ UNCHANGED link
     \/ /\ Fail(a)
        /\ link' = IF link[a] = "creating" THEN Set(link, a, "failed") ELSE link
        /\ UNCHANGED gateway
  /\ UNCHANGED <<order, inventory, amount, url, sent, news, jobs, expiry, losses>>

(* Under the lock: the URL is sent while the attempt is current; otherwise  *)
(* all open links of the order are cancelled.                               *)
TaskSends(a) ==
  /\ task[a] = "sending"
  /\ task' = Set(task, a, "done")
  /\ IF Current(a)
     THEN sent' = Set(sent, a, TRUE) /\ UNCHANGED cancelDue
     ELSE cancelDue' = TRUE /\ UNCHANGED sent
  /\ UNCHANGED <<order, inventory, link, gateway, amount, url, news, retries,
                 closing, expiry, losses>>

(* payment_link_failed. *)
TaskFails(a) ==
  /\ task[a] = "failing"
  /\ task' = Set(task, a, "done")
  /\ IF Current(a)
     THEN Release /\ MoveTo("awaiting_payment_method")
     ELSE UNCHANGED <<inventory, status, overdue>>
  /\ UNCHANGED <<money, attempt, notes, links, retries, jobs, expiry, losses>>

(* send_payment_reminders: the open link of the current attempt is sent     *)
(* once more.                                                               *)
Remind(a) ==
  /\ Current(a) /\ link[a] = "created" /\ url[a]
  /\ sent' = Set(sent, a, TRUE)
  /\ UNCHANGED <<order, inventory, link, gateway, amount, url, news, tasks, jobs,
                 expiry, losses>>

-----------------------------------------------------------------------------
(* The receivers of the payment events, which run in the process that       *)
(* settled the link, after its commit.                                      *)

Hear(a) == news[a] = "due" /\ news' = Set(news, a, "heard")

CancelledBySeller == status = "cancelled" /\ canceller = "seller"

(* BUG of on_payment_link_paid: whoever cancelled, the order is revived. *)
RevivesAny ==
  status \in CheckoutStatuses \cup {"expired", "cancelled"} /\ CanReserve

(* A checkout, or one that closed without the seller's doing, is finished   *)
(* if the stock is (still) there.                                           *)
Revives ==
  /\ status \in CheckoutStatuses \cup {"expired", "cancelled"}
  /\ ~CancelledBySeller
  /\ CanReserve

(* Another payment for such an order is only noted, for the seller to       *)
(* refund.                                                                  *)
AlreadyPaid == payStatus \in {"paid", "refunded_manual"}

(* on_payment_link_paid. *)
HearPaid(a) ==
  /\ link[a] = "paid" /\ Hear(a)
  /\ IF AlreadyPaid
     THEN UNCHANGED <<order, inventory, cancelDue>>
     ELSE /\ amountPaid' = amountPaid + amount[a]
          /\ payStatus' = IF amountPaid' >= total THEN "paid" ELSE "advance_paid"
          /\ method' = "online"
          /\ cancelDue' = TRUE
          /\ \/ Revives /\ Reserve /\ MoveTo(Done(kind))
             \/ /\ status \in CheckoutStatuses \cup {"expired", "cancelled"} /\ ~Revives
                /\ MoveTo("needs_attention")
                /\ UNCHANGED inventory
             \/ /\ status \notin CheckoutStatuses \cup {"expired", "cancelled"}
                /\ UNCHANGED <<status, overdue, inventory>>
          /\ UNCHANGED <<payAdvance, total, attempt, notes>>
  /\ UNCHANGED <<link, gateway, amount, url, sent, tasks, closing, expiry, losses>>

LatestLink(a) == link[a] # "none" /\ \A b \in Attempts : b > a => link[b] = "none"

(* BUG of on_payment_link_closed: the stock stays reserved. *)
HearClosedKeepsStock(a) ==
  /\ link[a] \in {"expired", "cancelled"} /\ Hear(a)
  /\ IF status = "pending_payment" /\ LatestLink(a)
     THEN MoveTo("awaiting_payment_method")
     ELSE UNCHANGED <<status, overdue>>
  /\ UNCHANGED <<money, attempt, notes, inventory, link, gateway, amount, url, sent,
                 tasks, jobs, expiry, losses>>

(* on_payment_link_closed. *)
HearClosed(a) ==
  /\ link[a] \in {"expired", "cancelled"} /\ Hear(a)
  /\ IF status = "pending_payment" /\ LatestLink(a)
     THEN Release /\ MoveTo("awaiting_payment_method")
     ELSE UNCHANGED <<inventory, status, overdue>>
  /\ UNCHANGED <<money, attempt, notes, link, gateway, amount, url, sent, tasks, jobs,
                 expiry, losses>>

-----------------------------------------------------------------------------
(* cancel_payment_links, after the commit: the open links are listed, then  *)
(* cancelled one by one; a failure skips the link.  Each row is read again, *)
(* without a lock: one that has no gateway id yet will be closed alone.     *)

ListOpenLinks ==
  /\ cancelDue
  /\ cancelDue' = FALSE
  /\ cancelling' = cancelling \cup OpenLinks
  /\ UNCHANGED <<order, inventory, links, tasks, blind, orphaned, expiry, losses>>

CancelReadsNoId(a) ==
  /\ a \in cancelling /\ link[a] = "creating"
  /\ cancelling' = cancelling \ {a} /\ blind' = blind \cup {a}
  /\ UNCHANGED <<order, inventory, links, tasks, cancelDue, orphaned, expiry, losses>>

CancelListed(a) ==
  /\ a \in cancelling
  /\ cancelling' = cancelling \ {a}
  /\ \/ CancelLink(a)
     \/ CancelLinkFails(a)
     \/ link[a] \notin OpenLink /\ UNCHANGED links
  /\ UNCHANGED <<order, inventory, tasks, cancelDue, blind, orphaned, expiry, losses>>

CancelBlind(a) ==
  /\ a \in blind
  /\ blind' = blind \ {a}
  /\ CloseLocally(a)
  /\ UNCHANGED <<order, inventory, tasks, cancelDue, cancelling, expiry, losses>>

-----------------------------------------------------------------------------
(* expire_checkouts: list the orders that are due; for each, list its open  *)
(* links and cancel them without the lock; then lock the order, look again, *)
(* and expire it.                                                           *)

DeadlinePasses ==
  /\ status \in CheckoutStatuses
  /\ expiry.pc = "idle"    \* the pass compares with the time it started at
  /\ overdue' = TRUE
  /\ UNCHANGED <<status, money, attempt, notes, inventory, links, tasks, jobs, expiry,
                 losses>>

(* BUG of expire_checkouts: an order waiting for its link is left out. *)
ExpiryStartsButPending ==
  /\ expiry.pc = "idle"
  /\ status \in CheckoutStatuses \ {"pending_payment"} /\ overdue
  /\ expiry' = [NoExpiry EXCEPT !.pc = "picked"]
  /\ UNCHANGED <<order, inventory, links, tasks, jobs, losses>>

ExpiryStarts ==
  /\ expiry.pc = "idle"
  /\ status \in CheckoutStatuses /\ overdue
  /\ expiry' = [NoExpiry EXCEPT !.pc = "picked"]
  /\ UNCHANGED <<order, inventory, links, tasks, jobs, losses>>

(* The orders before it on the list come first. *)
ExpiryListsLinks ==
  /\ expiry.pc = "picked"
  /\ expiry' = [NoExpiry EXCEPT !.pc = "closing", !.todo = OpenLinks]
  /\ UNCHANGED <<order, inventory, links, tasks, jobs, losses>>

ExpiryReadsNoId(a) ==
  /\ a \in expiry.todo /\ link[a] = "creating"
  /\ expiry' = [expiry EXCEPT !.todo = @ \ {a}, !.blind = @ \cup {a}]
  /\ UNCHANGED <<order, inventory, links, tasks, jobs, losses>>

Settling(a) == link[a] \in OpenLink /\ link'[a] \notin OpenLink

(* The pass is done with a link; one that turns out paid ends it.           *)
ExpiryClosed(a) ==
  expiry' = IF link'[a] = "paid" THEN NoExpiry
            ELSE [expiry EXCEPT !.todo = @ \ {a}, !.blind = @ \ {a},
                                !.mine = IF Settling(a) THEN @ \cup {a} ELSE @]

(* _links_closed: a link that turns out paid, or an error worth a retry,    *)
(* ends the pass; a final error, or an account that is gone, skips the link.*)
ExpiryCancels(a) ==
  /\ a \in expiry.todo
  /\ \/ CancelLink(a) /\ ExpiryClosed(a)
     \/ CancelLinkFails(a) /\ expiry' \in {NoExpiry, [expiry EXCEPT !.todo = @ \ {a}]}
     \/ link[a] \notin OpenLink /\ UNCHANGED links /\ ExpiryClosed(a)
  /\ UNCHANGED <<order, inventory, tasks, jobs, losses>>

ExpiryClosesBlind(a) ==
  /\ a \in expiry.blind
  /\ CloseLocally(a) /\ ExpiryClosed(a)
  /\ UNCHANGED <<order, inventory, tasks, cancelDue, cancelling, blind, losses>>

(* The receivers of the links it cancelled have run by then. *)
LinksClosed ==
  /\ expiry.pc = "closing" /\ expiry.todo = {} /\ expiry.blind = {}
  /\ \A a \in expiry.mine : news[a] # "due"

(* BUG of expire_checkouts: the locked order is not looked at again. *)
ExpiryExpiresUnchecked ==
  /\ LinksClosed
  /\ expiry' = NoExpiry
  /\ Release /\ MoveTo("expired")
  /\ UNCHANGED <<money, attempt, notes, links, tasks, jobs, losses>>

ExpiryExpires ==
  /\ LinksClosed
  /\ expiry' = NoExpiry
  /\ IF status \in CheckoutStatuses /\ overdue
     THEN Release /\ MoveTo("expired")
     ELSE UNCHANGED <<status, overdue, inventory>>
  /\ UNCHANGED <<money, attempt, notes, links, tasks, jobs, losses>>

-----------------------------------------------------------------------------
(* What gets lost.  A task is acknowledged late: when its worker dies it is *)
(* delivered again.  A callback on commit is not, nor a pass of the beat.   *)

Lose == losses < MaxLosses /\ losses' = losses + 1

LoseNews(a) ==
  /\ Lose
  /\ news[a] = "due" /\ news' = Set(news, a, "lost")
  /\ expiry' = IF a \in expiry.mine THEN NoExpiry ELSE expiry
  /\ UNCHANGED <<order, inventory, link, gateway, amount, url, sent, tasks, jobs>>

LoseTask(a) ==
  /\ Lose
  /\ \/ task[a] = "queued" /\ task' = Set(task, a, "done")
     \/ task[a] \in {"started", "calling", "sending", "failing"} /\ task' = Set(task, a, "queued")
  /\ UNCHANGED <<order, inventory, links, retries, jobs, expiry>>

LoseCancellation ==
  /\ Lose
  /\ cancelDue \/ cancelling # {} \/ blind # {}
  /\ cancelDue' = FALSE /\ cancelling' = {} /\ blind' = {}
  /\ UNCHANGED <<order, inventory, links, tasks, orphaned, expiry>>

LoseExpiry ==
  /\ Lose
  /\ expiry.pc # "idle" /\ expiry' = NoExpiry
  /\ UNCHANGED <<order, inventory, links, tasks, jobs>>

-----------------------------------------------------------------------------
Buyer ==
  \/ ConfirmPrices \/ GiveDetails \/ AnswerAgain
  \/ \E advance \in BOOLEAN : ChooseOnline(advance)
  \/ ChooseCod \/ ChooseShop \/ BuyerCancels
  \/ \E a \in Attempts : BuyerPays(a)

Seller ==
  \/ \E restock \in BOOLEAN : SellerCancels(restock)
  \/ \E to \in Statuses : SellerMoves(to)
  \/ MarkCodCollected \/ MarkBalancePaid \/ MarkRefunded

Shelf == OthersReserve \/ OthersRelease \/ SellerStartsTracking

Task(a) ==
  \/ TaskReadsOrder(a) \/ TaskCreates(a) \/ TaskHasNoAccount(a)
  \/ GatewayAnswers(a) \/ GatewayFails(a)
  \/ TaskSends(a) \/ TaskFails(a)

Receivers(a) == HearPaid(a) \/ HearClosed(a)

Cancellation ==
  \/ ListOpenLinks
  \/ \E a \in Attempts : CancelReadsNoId(a) \/ CancelListed(a) \/ CancelBlind(a)

Expiry ==
  \/ ExpiryStarts \/ ExpiryListsLinks \/ ExpiryExpires
  \/ \E a \in Attempts : ExpiryReadsNoId(a) \/ ExpiryCancels(a) \/ ExpiryClosesBlind(a)

Losses ==
  \/ \E a \in Attempts : LoseNews(a) \/ LoseTask(a)
  \/ LoseCancellation \/ LoseExpiry

Next ==
  \/ Buyer \/ Seller \/ Shelf \/ DeadlinePasses
  \/ \E a \in Attempts : PaymentFound(a) \/ LinkEnds(a) \/ Remind(a) \/ GatewayCancels(a)
  \/ \E a \in Attempts : Task(a) \/ Receivers(a)
  \/ Cancellation \/ Expiry \/ Losses

Spec == Init /\ [][Next]_vars

(* Celery runs its queued tasks, and a process that committed runs its      *)
(* callbacks; the beat starts a pass every five minutes; time passes; and a *)
(* created link is settled in the end (PaymentLink's CreatedLinkSettles).   *)
(* The attempts and the retries of their tasks are numbered, so it is       *)
(* enough that some step of theirs is taken as long as there is one; the    *)
(* passes of the beat have no end.                                          *)
AttemptsGoOn ==
  \/ Cancellation
  \/ \E a \in Attempts : Task(a) \/ Receivers(a) \/ PaymentFound(a) \/ LinkEnds(a) \/ GatewayCancels(a)

Fairness == WF_vars(AttemptsGoOn) /\ WF_vars(Expiry) /\ WF_vars(DeadlinePasses)

FairSpec == Spec /\ Fairness

-----------------------------------------------------------------------------
(* PROPERTIES *)

(* Every unit is on the shelf, with another order, with this one, or given  *)
(* up by a cancellation: no order of reservations, releases, expiries and   *)
(* revivals loses or duplicates stock.                                      *)
StockBalanced ==
  tracked => stock + others + gone + (IF took THEN 1 ELSE 0) = Capacity

(* Stock is held for an order exactly while it may be waiting for the money *)
(* of an online payment: a checkout step before that, an expired or a       *)
(* cancelled order holds none.                                              *)
StockFollowsStatus ==
  /\ status = "pending_payment" => reserved
  /\ status \in (CheckoutStatuses \ {"pending_payment"}) \cup {"expired", "cancelled"}
       => ~reserved

(* Stock is conserved, and held for exactly the orders that wait for money. *)
StockKept == StockBalanced /\ StockFollowsStatus

(* Once the orders app has heard that a link was paid, the order says so    *)
(* and is no longer a checkout, nor an expired one, whatever expiry, retry, *)
(* cancellation or second payment is on its way.                            *)
PaidOrderIsKept ==
  \A a \in Attempts : link[a] = "paid" /\ news[a] = "heard" =>
    /\ payStatus \in {"paid", "advance_paid", "refunded_manual"}
    /\ status \notin CheckoutStatuses \cup {"expired"}

(* An order is worked on only when it is to be paid in cash, or a gateway   *)
(* really holds a payment for it.                                           *)
FulfilledIsPaidFor ==
  status \in OpenStatuses \cup {"delivered", "completed", "no_show"} =>
    \/ payStatus \in {"cod_pending", "cod_collected"}
    \/ \E a \in Attempts : gateway[a] = "paid"

(* What the buyer paid is kept, and nothing is worked on that was not paid. *)
PaymentsStand == PaidOrderIsKept /\ FulfilledIsPaidFor

(* A link for the whole total, paid, leaves nothing due: only the advance   *)
(* of a booking that requires one makes an order advance_paid.              *)
OnlyAdvancesLeaveABalance ==
  payStatus = "advance_paid" => kind = "booking" /\ requirement = "advance"

(* A late payment never undoes the seller's cancellation: the order is at   *)
(* most flagged for the seller.                                             *)
SellerCancelStands ==
  [][CancelledBySeller => status' \in {"cancelled", "needs_attention"}]_vars

(* The table of orders/transitions.py allows every move the handlers make,  *)
(* so none of them raises InvalidOrderTransition halfway; only a payment    *)
(* moves an expired or a cancelled order (force).                           *)
TableAllowsEveryMove ==
  [][status' # status =>
       \/ CanMove(kind, status, status')
       \/ status \in {"expired", "cancelled"} /\ amountPaid' > amountPaid]_vars

(* Whatever is heard, and however late: the order only makes moves of its   *)
(* table, and none that undoes the seller's cancellation.                   *)
MovesAreLegal == TableAllowsEveryMove /\ SellerCancelStands

Settled ==
  /\ ~cancelDue /\ cancelling = {} /\ blind = {}
  /\ \A a \in Attempts : task[a] \in {"none", "done"}

(* The links of which the code keeps track: a link that was read before it  *)
(* had its id, and is closed in the row alone when it has one, stays        *)
(* payable, and nobody looks for its payment (PaymentLink shows the race).  *)
Followed == Attempts \ orphaned

(* As long as the gateway answers and nothing is lost, the buyer never has  *)
(* two links in hand that can both be paid, but for orphaned ones.          *)
AtMostOnePayable ==
  Cardinality({a \in Followed : sent[a] /\ gateway[a] = "open"}) <= 1

(* When everything queued has run, a cancelled order cannot be paid any     *)
(* more by a link that is not orphaned, even if it was being created        *)
(* meanwhile.                                                               *)
CancelledIsNotPayable ==
  status = "cancelled" /\ Settled => \A a \in Followed : gateway[a] # "open"

(* What the buyer can pay: one link, and none of a cancelled order, where   *)
(* no cancellation was decided on a row without an id.                      *)
PayableLinks == AtMostOnePayable /\ CancelledIsNotPayable

(* The money of every payment reaches its order, whatever closed the order  *)
(* meanwhile, unless the link it was made with is orphaned.  (What was paid *)
(* stays paid, so "again and again" is "in the end".)                       *)
PaymentReachesOrder ==
  \A a \in Attempts :
    []<>(gateway[a] = "paid" /\ a \in Followed =>
           amountPaid > 0 /\ status \notin CheckoutStatuses \cup {"expired"})

(* "Cancel their links first, then release stock": neither can an expired   *)
(* one.                                                                     *)
ExpiredIsNotPayable ==
  status = "expired" /\ Settled => \A a \in Attempts : gateway[a] # "open"

Promise(a) == INSTANCE LinkPromise WITH
  outcome <- IF link[a] \in {"none"} \cup OpenLink THEN "open" ELSE link[a],
  paidInFull <- gateway[a] = "paid",
  announced <- [o \in {"paid", "expired", "cancelled"} |->
                  IF link[a] = o /\ news[a] = "heard" THEN 1 ELSE 0]

(* Every link of the order behaves as the payments app promises (and as     *)
(* PaymentLink keeps), so nothing here rests on a link the payments app     *)
(* would not produce.                                                       *)
LinksKeepPromise ==
  /\ \A a \in Attempts : Promise(a)!Init
  /\ [][\A a \in Attempts : [Promise(a)!Next]_(Promise(a)!vars)]_vars

(* Once the buyer stops answering, the deadline, the passes of the beat and *)
(* the events end every checkout, even when the gateway keeps failing and a *)
(* task, an event or a pass is lost.                                        *)
CheckoutEnds ==
  <>[][~AnswerAgain]_vars => []<>(status \notin CheckoutStatuses)

(* "Expire checkouts past expires_at: cancel their links first, then        *)
(* release stock": a pass that cancelled the link of an abandoned checkout  *)
(* expires it.                                                              *)
ExpiryPassExpires ==
  [][LinksClosed /\ expiry'.pc = "idle" /\ expiry.mine # {} /\ status \in CheckoutStatuses
     /\ expiry.mine = {attempt}
       => status' = "expired"]_vars
=============================================================================
