# TLA+ models of the WhatsApp commerce platform

This directory models the concurrent core of the repository: the backend under `backend/` (Django, Celery, PostgreSQL,
Redis), where several processes, a payment gateway or Meta, and the clock act on the same rows; and the part of the
dashboard under `frontend/` that keeps state of its own: the session of its tabs, its realtime connection, and a
conversation with sends that have not been answered. Modules are checked with TLC on small instances; the theorems in the
`*Proofs` modules are checked by TLAPS for every value of the constants. `PROJECT.json` lists the runs, the mutants that
show each property can fail, the source lines every definition stands for, the hazards and the findings.

## 1. The system

| part (`backend/apps`, `frontend/src`) | state it keeps | operations | modelled by |
|---|---|---|---|
| `payments` | `PaymentAccount`, `PaymentLink` (an outbox row per checkout attempt), `PaymentWebhookEvent` | create, cancel, refresh, poll a link; apply a gateway state; merchant webhook; edit or delete the account | `PaymentLink`, contract `LinkPromise` |
| `orders` | `Order`, `OrderItem`, `OrderEvent`, `StoreSettings` | the buyer's taps, the seller's actions, `send_payment_link`, payment receivers, `expire_checkouts`, reminders | `Checkout`, table `OrderStatus` |
| `catalog` | `Product.stock_qty`, Meta sync jobs | reserve and release stock, pricing, sync to Meta's catalogue | stock in `Checkout` |
| `webhooks` | `WebhookEvent` per Meta delivery | store, claim, process, retry, requeue, purge | `WebhookInbox` |
| `inbox` | `Conversation`, `Message` (outgoing messages are an outbox) | send, dispatch, apply delivery statuses, fail stuck messages | `Outbox`, and `Delivery` for its receivers |
| `campaigns` | `Campaign`, recipients, statistics | schedule, send batches, pause, cancel, complete, apply delivery updates | `Campaign`; one recipient in `Delivery` |
| `billing` | `Subscription`, `BillingOrder`, invoices, usage | check out a plan, fulfil an order once (return page, webhook), cancel, follow Razorpay's events, expire | `Billing` |
| `offers` | `OfferCode`, `OfferClaim` | claim against a capacity, apply to a checkout, redeem, release | `Offer` |
| `accounts` | users, refresh tokens and their blacklist | log in and out, rotate the refresh cookie, change the password | with the dashboard's session, in `Session` |
| dashboard: `lib/auth`, `api/client.ts` | access token and refresh in flight per tab; marker, cookie jar, lock per browser | refresh, retry, log in and out, broadcast | `Session` |
| dashboard: `lib/realtime` | socket, timer, status of the connection | connect, stop, reconnect, refetch what was missed | `Realtime` |
| dashboard: `features/dashboard/inbox/hooks` | cached thread, outbox of optimistic sends | send, retry, discard, frames, refetches | `Thread` |
| `shop`, `automations`, `seller_alerts`, `contacts`, `whatsapp`, `message_templates` | bot session, rules, alert de-duplication, imports, accounts, templates | see `PROJECT.json` | not modelled |
| `tenants`, `analytics`, `developer_api`, `common`, `config`, the rest of `frontend`, `infra`, `scripts` | roles, reports, screens | request validation, reads | not modelled |

How they interact. Apps call each other's `services` and hear each other through Django signals (`common/events.py`,
`emit` runs every receiver in the emitting process and isolates its failures). Events and task enqueues are registered
with `transaction.on_commit`: they happen after the commit, in the same process, and die with it. Celery acknowledges
tasks late (`CELERY_TASK_ACKS_LATE`, `CELERY_TASK_REJECT_ON_WORKER_LOST`), so a task whose worker died runs again; beat starts the periodic
passes. Row locks (`select_for_update`) guard each read-check-write, but never a call to a gateway or to Meta. The dashboard
calls the API with a short-lived access token, renews it with a cookie every use of which replaces it, and hears of
changes over one WebSocket per workspace, whose group the inbox broadcasts to.

What is hard in it:

* **interleaving**: the buyer's return page, the merchant webhook, the poll, a cancellation and the create task all
  work on one payment link; the buyer, the seller, the receivers and the expiry pass all work on one order;
* **calls without a lock**: a gateway call sits between the read of a row and the lock under which its answer is
  applied; the call may fail after it took effect;
* **crashes between commit and callback**: an event or a task that was registered on commit is lost;
* **reordering**: events of an older payment attempt arrive while a newer one is current;
* **time**: final polls, link expiry and checkout expiry race with the buyer's payment;
* **webhooks that overtake the answer**: Meta reports a status before the outbox has stored the message's wamid, and
  reports it out of order;
* **shared counters**: several orders compete for the last unit of stock, claims for the last place of an offer, and
  batches, cancellations and reports change a campaign's counters by deltas;
* **stale decisions**: a request of billing decides on an unlocked read, calls Razorpay, and stores what it decided;
* **a browser with two tabs**: both refresh with one cookie, and hear of each other late;
* **optimistic state**: the answer of a send, the frame of its message and a refetch that read earlier cross.

What makes each part correct: a link is settled once, as paid only when the gateway holds the full amount, and its
event is the outcome's; stock is conserved; a payment that was heard is never forgotten by an expiry, a retry or a
cancellation; the seller's cancellation stands; the buyer never holds two payable links; every checkout ends; a message is sent at
most once whatever is retried; a stored webhook is handled by one worker at a time and in the end; a status report is
never dropped because it came too early; a campaign's counters are true, it sends nothing once stopped, and it ends; a
prepaid order is fulfilled once, no late event touches a plan it is not about, and who pays for a plan has it; the places of
an offer are not given twice; the user keeps the session nobody ended and loses it everywhere when it ended; a tab has one
connection and makes up for what it missed; a send is stored once, and the thread shows every message.

## 2. Modules

### `LinkPromise` - what the orders app relies on
Three variables: the outcome of a link, whether the gateway holds the full amount, how often each outcome was
announced. A link is settled once; `paid` only when paid in full; the announcement is made at most once (an event can
be lost with its process) and only for the outcome.

### `PaymentLink` - one link in detail (`payments/services.py`)
The state is the row (`status`, `hasId` for `provider_link_id`, `pollCount`), what the clock has passed (`due` for
`next_poll_at`, `past` for `expires_at + FINAL_POLL_DELAY`), the link on the gateway, the seller's account, the
webhook events marked processed, what each process is doing (`call`) and the events emitted. An operation is a chain
of steps, one per transaction or gateway call: `create_payment_link` is `CreateStart` (the outbox row is saved), then
`CreateAnswered`, `CreateRetryable` or `CreateRefused`, then `ApplyCreated` under the lock, `DropCreated` for a row that was
cancelled meanwhile; `cancel_payment_link` is `CancelRead`, `CancelAnswered`/`CancelError`, `ApplyLinkState`; `_refresh` is
`RefreshRead`, `FetchAnswered`/`FetchError`, the final poll's `FinalCancel...`, and `ApplyLinkState` or `CloseLocally`; the
transaction that settles the row hands over to `Emit`, the `on_commit` callback. `Crash` stops a process anywhere.
Amounts are abstracted to "paid" and "mispaid" (another amount or currency), the clock to the two facts above; the
webhook that only says "still open" changes nothing and is left out. `PollCap` saturates the poll count.

### `OrderStatus` - the tables of `orders/transitions.py`
`Manual`, `System` and `CanMove` for deliveries and bookings. `draft` is left out: no code path of a checkout produces it.

### `Checkout` - one order from checkout to fulfilment (`orders/checkout.py`, `lifecycle.py`, `tasks.py`, `receivers.py`)
Every handler locks the order (or the conversation, then the order), so each of its transactions is one action.
The state is the order (status, payment status, method, amounts, attempt, whether `expires_at` passed, who cancelled),
the stock (with `others`, the orders that compete for it), and per attempt the payment link as `LinkPromise` has it,
its event, and its `send_payment_link` task. Steps that the code takes outside the lock are separate actions: the
gateway call of the task, `cancel_payment_links`, and `expire_checkouts` (list what is due, list the order's open links, close them, lock
and look again). Both close a link through `cancel_payment_link`, which is a chain of its own: it reads the row without a lock; a link
with an id is cancelled at the gateway (`GatewayCancels`) and the answer applied under the lock (`CancelLink`, or
`CancelLinkFails`); one without (`CancelReadsNoId`, `ExpiryReadsNoId`) is closed in the row alone (`CancelBlind`, `ExpiryClosesBlind`), even if
its id has come by then. `blind` are the links that wait for that. The
link's task reads the order in one step (`TaskReadsOrder`) and creates the link in another (`TaskCreates`). Losses are actions too: an event, a queued
or running task, a pending cancellation, a pass.
Abstracted: the item list is one unit of one product, prices are constants, a day, a window or an address is accepted
or answered again, wording and messages are left out (a message that carries a payable URL is `sent`). Offers that
change the price of a checkout are not modelled.
One variable is an observer, not state of the code: `orphaned` are the links that `CloseLocally` closed in the row alone although they
had a gateway id by then (the race of `PaymentLink_cancel_race`, which needs no fault). Such a link is payable for good and
nobody looks for its payment, so `PayableLinks` and `PaymentReachesOrder` except these links by name, and no other.

### `Outbox` - one outgoing message (`inbox/tasks.py`, `sending.py`, `receivers.py`)
The state is the row (`status`, `wamid`, and `optedOut`: its error code is one of the campaigns' `POLICY_SKIP_CODES`), and
where each `dispatch_message` task of it is: waiting at the broker, working (`claimed`, `allowed` to send, `accepted` by
Meta), about to publish its successor (`parted` after the limiter, `retrying` after an error), or about to emit the event
(`telling`). `_claim`, `_release`, `_fail`, `_retry_or_fail` are operators of that name, and `dispatch_message` the
actions of `Dispatch`: one per commit or call to Meta. A task may be lost or delivered twice by the broker; a killed
worker's task is delivered again or ended by the time limit. `FailStuck` is the watchdog, `ApplyStatus` and
`TargetStatus` what a status webhook does to the row. `accepted` counts how often Meta took the message: the code cannot
see it, the customer can. The message's content, the media and the conversation are left out.

### `WebhookInbox` - Meta's deliveries (`webhooks/tasks.py`, `views.py`)
Per delivery the stored row (`delivery`, `attempts`) and the `process_event` tasks (`job`, `tries`). `Receive`, `ClaimEvent`, `Handled`
(the body is parsed and the receivers have run, with any outcome), `FinishEvent`, `PublishRetry`, `RequeueStuck`, and
`WorkerDies`. `abandoned` are the deliveries that cannot be parsed and those whose retry the broker did not take.
`attempts` is counted up to one more than the retries, which is all the properties tell apart.

### `Delivery` - a campaign message end to end
`Delivery` extends both and adds `on_message_status`, statement by statement (look for the message, doubt whether its
wamid may still arrive, look again), the age of a report (`recent`), and the campaign's recipient, which hears the
events in any order (`apply_delivery_update`). `StatusApplied` and `EventReceived`, the environment of `Outbox`, become
real steps; so does the outcome of `Handled`. Meta may report a status from the moment it accepted the message.

### `Campaign` - a campaign from launch to its end (`campaigns/services.py`, `tasks.py`, `receivers.py`)
The state is the row (status, counters, `started`, whether `scheduled_at` is `due`), its recipients, the cache key
`batch_lock_key`, the `send_batch` tasks, the `kick_batch` calls that wait for a commit, the recipients' messages as far as the
campaign sees them, and the reports on their way. Every transaction locks the campaign, so each is one step; `send_batch`
is `BatchBegins` (the key is deleted), `SendBatch` (the locked batch, read again), then, after the commit, `Publish` for each message it
queued (`sending.enqueue`) and `BatchKicks` or `BatchCompletes`; `apply_delivery_update` is the locked step, then `AfterUpdate` (the pause of a
blocking error, then `complete_if_done`), which several workers may owe for one recipient at once. `stranded` are the recipients whose
`dispatch_message` was not published or was lost: no pass looks for their messages. `ApplyStats` is `transition_delta` with `apply_stats`, deltas clamped at zero, and `Counted` is
`recompute_stats`; that they agree is a property. A task, a request, a worker or a report may be lost at any point (`MaxSetbacks`).
The audience's rules, template parameters, replies and costs are left out; the messages are those of `Outbox`, reduced to
the moves its properties allow.

### `Billing` - the plan of one workspace (`billing/services.py`, `webhooks.py`, `tasks.py`)
The state is the `Subscription` row, the orders here and at their gateway, the subscriptions at Razorpay, its events on their way,
the cancellations left to `on_commit`, and the owner's requests. A request that calls Razorpay is a chain: `start_razorpay_checkout` is
`StartCheckout` and `CheckoutStored`, `cancel_subscription` is `CancelReads` (without a lock), `CancelAsks` and `CancelStored`,
`verify_razorpay_checkout` is `VerifyReads` and `VerifyStored`. The return page is `PageAsks` and `PageFulfils`; `FulfilOrder` is
`fulfil_order` under its lock, wherever it is called from. Events arrive in any order and are handled once each. A plan stands for
a plan and its interval, and time is counted in periods. Four observers name the subscriptions that crossed requests and failed calls left
in a state the code does not repair: `reused` (a checkout offered again after it had been superseded), `unasked` (its plan was cancelled
by a request that had asked Razorpay about another one), `forgotten` (a checkout that was paid when a cancellation forgot it) and
`uncancelled` (its cancellation failed and was only logged). The properties except these subscriptions, each where it must. Invoices, prices, reminders, usage and entitlements are left out.

### `Offer` - one offer code and its claims (`offers/services.py`, `receivers.py`)
The offer's row is locked where its places are counted, so each of those transactions is one step. Buyers claim
(`HandleCodeMessage`), a checkout applies the newest open claim (`ApplyToCheckout`), staff redeem, orders close and are delivered, and
their events are handled later, in any order, by `OrderStatusChanged`. Orders are only as much of `Checkout` as offers see;
`PaidLate` is its late payment. An offer ends once; a seller's edits of a live offer are left out; whether it fits an order is
left open but fixed.

### `Session` - the session of a browser (`frontend/src/lib/auth`, `api/client.ts`, `accounts/views.py`)
Tabs hold an access token and the refresh they have in flight; they share the marker in `localStorage`, the cookie and a Web
Lock, and hear of each other through two queues (broadcasts and storage events) that are handled in either order. A refresh goes
through `GrantLock`, `ServeRefresh` (the API blacklists the token it was sent and issues the next) and the step that takes the
answer. A refresh token and its access token have one number. A logout is served as it is sent (`LogoutServed`). `Reload`, a lost answer and a session revoked by a change of password are actions.

### `Realtime` - the connection of a tab (`frontend/src/lib/realtime`, `inbox/consumers.py`, `common/ws_auth.py`)
A call of `connect()` is a chain (ticket, membership check, groups, open) that occupies a slot until its socket closes; the timer, the
`online` event and `start` each begin one. The workspace is a number of changes (`version`), the tab's queries show some of them (`shown`), and
each socket has frames on their way. A removal from the workspace or a change of role, in any workspace, closes the user's sockets; a broadcast
may fail (`ChangeUnheard`). `strays` are timers that `this.timer` no longer names.

### `Thread` - a conversation in a tab (`inbox/hooks/thread.ts`, `hooks/realtime.ts`, `components/Thread.tsx`)
The API's rows with their statuses, the cached thread, the refetch under way with what it read, the outbox entry and the requests of each
send, and the frames that are due. A send and its retries carry one Idempotency-Key, which names it. Frames are announced on commit by
whichever process committed, so they form a set: the tab takes them in any order, `_fail` and `dispatch_message` read the row again before they announce it
(`AnnouncedAnew`), and one may not come at all (`FrameLost`). A refetch may fail. `behind` names what `ThreadShowsAll` excepts until the tab
begins to refetch: a message whose frame came while the tab was sending, when that send failed; one whose status was patched under a page read before it;
one whose frames came in the wrong order (`patchMessageStatus` takes whatever comes last); one whose frame was lost; and everything after a failed refetch.

### `MCDelivery`, `MCJobs`, `MCDashboard` - parts that share no state
These three put several models into one run: `part` says which of them runs in a behaviour and the others rest, so the
states add up instead of multiplying. `MCJobs` also divides `Billing` into scopes, each with a pair of what can meet. Properties whose parts
belong together are stated as one conjunction of named parts (`MovesAreLegal`, `PlansStand`, `PlacesKept`, `ProgressIsTrue`, `ChargesMatchPlan`,
`ThreadShowsAll`, ...).

## 3. Runs

| run | instance | what it shows |
|---|---|---|
| `PaymentLink_faults` | 2 processes, all operations, every gateway call may fail, 1 crash, 1 account edit, 1 poll before the final one and 1 retry of it; or a calm gateway without cancellations | type correctness, the inductive invariant `LinkInv`, the refinement `PromiseKept` of `LinkPromise`, and under fairness `CreatedLinkSettles`; where the gateway answers, `CalmPaymentIsFound` and `CalmExpiredIsClosedThere` |
| `Checkout_faults` | delivery of counted stock with competitors, 2 attempts, gateway faults, 1 loss | stock is conserved and follows the status (`StockKept`), heard payments stand and nothing is fulfilled unpaid (`PaymentsStand`), every link is one `LinkPromise` allows (`LinksKeepPromise`), and under fairness `CheckoutEnds` |
| `Checkout_kinds` | delivery or booking, with an advance or as the store decides, 2 attempts, acting seller, 1 retry of a task, no fault and no loss | `PaymentsStand`, `MovesAreLegal`; and for all links but those a cancellation closed on a read without an id, `PayableLinks` and under fairness `PaymentReachesOrder` |
| `Delivery_faults` | a message: 2 dispatch tasks, reports `delivered` and `failed`, 1 webhook task each, 1 retry, 1 mishap; and a campaign: 2 recipients in batches of 1, 1 setback | `SentAtMostOnce`, `StatusIsFurthest`, `NoReportIgnored`, and under fairness `ReportsArrive`, `MessageSettles`, `RecipientCatchesUp`; `ProgressIsTrue`, `StoppedIsStopped`, and under fairness `CampaignEnds` |
| `Jobs` | a Meta delivery: 2 tasks, 2 retries, 2 deaths, 2 refused publications; billing: 2 plans, 2 orders, 2 Razorpay subscriptions, 2 requests in four scopes, 1 failed call, 2 events on their way at once; an offer: 2 buyers, 2 claims, 2 orders, 1 place | `OneHolder`, `FailedIsRetried`; `OrderFulfilledOnce`, `ChargesMatchPlan`, `PlansStand`, and under fairness `PaidOrderIsApplied`; `PlacesKept` |
| `Dashboard` | a session: 2 tabs, 2 tokens, 1 login, 1 logout, 1 fault, with and without Web Locks; a thread: 1 send with a retry, 1 other message, the statuses `sent` and `failed` of each, 1 mishap; a connection: 2 chains, 2 changes, 2 drops (cuts, failed tickets and broadcasts, revoked sessions), 1 `online` event | `SessionIsKept`, and under fairness `LogoutReachesEveryTab`; `StoredOnce`, `ThreadShowsAll`; `OneConnection`, and under fairness `MissedIsMadeUp` |
| `PaymentLink_cancel_race`, `Checkout_expiry_pass`, `Checkout_expired_payable`, `Checkout_cod_fee`, `Offer_revived`, `Dashboard_logout` | | violations: see the findings |

Bounds. Two processes are enough for any two operations to overlap; three would only add a second bystander. Two
attempts are the least with an "earlier" and a "current" link, which is what the event handlers tell apart. One unit
of stock makes the order and its competitors meet at the last one. One crash, loss or account edit at any point is the
single fault of each scenario; `MaxLosses`, `MaxCrashes`, `AccountChanges`, `MaxAttempts` are bounds of the models, `PollOffsets`,
`MaxFinalRetries`, `MaxRetries` are the code's constants made small. Deadlock checking is off in every configuration, because
the modelled things really end: an order is over, a link is settled, a message and its reports are handled, the bounded
changes of a tab are shown. Two tasks are the least that can meet on one row. Meta's deliveries share nothing, so `Jobs` has one;
`Delivery` has two reports, one that `TargetStatus` may put after or before the other, and one webhook task each, because
`OneHolder` shows that a second does nothing while the first holds the row. `MaxFaults` bounds the mishaps of `Delivery` in
all: every single one at every point; combinations are covered by `Jobs` and, for safety, by the theorems.

A campaign of two recipients in batches of one is the least whose chain goes round; a second `send_batch` task at the same
time changed nothing when it was tried outside the runs, and the theorems hold for any number. Each of the four scopes of `Billing` has
two of the things that can cross, and one has one of each kind. One place of an offer, two claims and two orders make the second
claim meet a full offer, and a closed order give its place to the other. Two tabs are the least that can use one cookie up
behind each other's back, two chains the least that can overlap. One send with one retry, one other message, two statuses that can overtake one
another (one that is only patched, one that is refetched too) and one mishap reach every branch of `Thread`; the theorems hold for every status and number. Two events of Razorpay on their
way at once (`InScope` of `MCJobs`) are the least that can be handled in the wrong order.

Time in `Outbox`, `WebhookInbox` and `Delivery`. `CELERY_TASK_TIME_LIMIT` is 5 minutes, the watchdog and the requeueing pass wait for
15: neither acts while a task is at work on the row, which is their guard. The window in which an unknown wamid is
worth a retry is 10 minutes, twice the time limit, so a report leaves it only when no task is about to store the
wamid (`WindowPasses`). The webhook retries wait 1, 2, 4, 8 and 16 minutes, so the last one runs after the window.

Fairness. `PaymentLink`: a process that is alive goes on (weak fairness of `Continue`); the beat starts
`payments.poll_open_links` every minute and its claim skips locked rows, so a link that is due again and again is
claimed (strong fairness of `PollClaim`); time passes. `Checkout`: Celery runs queued tasks, a process that committed
runs its callbacks, the beat runs the expiry pass, time passes, and a created link is settled in the end, which is
`CreatedLinkSettles` of `PaymentLink`. Nothing is assumed of buyers, sellers, the gateway or losses.
`Delivery`: Celery runs queued tasks, receivers return, a live process goes on, the beat runs its passes and
time passes; nothing is assumed of Meta, the broker's mishaps or deaths. In these two and in `Campaign` the steps of the tasks, receivers
and passes are numbered: attempts, retries, reports and recipients run out. So it is enough to ask that some such step is taken
as long as there is one, whichever it is (weak fairness of `AttemptsGoOn`, `DeliveryGoesOn`, `CampaignGoesOn`), which asks less of the
scheduling than the fairness of each step does and is what TLC can check in time. The passes of `Checkout`'s beat have no end and are
asked for apart (`Expiry`). What the code does not recover from is excepted in
the properties by name: a webhook whose retry the broker refused stays failed (`abandoned`), a message whose task the
broker lost stays queued (`lost`), and an event that dies with its process leaves the recipient behind (`deaths`, `kills`). `CheckoutEnds` is stated
for a buyer who stops answering: picking days for ever renews the deadline for ever, which the code intends.
`Campaign`: the beat runs `start_due` every minute, the cache key expires, batch tasks are taken, a live worker publishes what it queued, and events
are handled; and the inbox settles every message whose task was published and not lost, which is `MessageSettles` of `Delivery`, assumed here.
`CampaignEnds` excepts a campaign one of whose recipients stays queued for good (`Forgotten`): its task is `stranded`, or the report of its message was lost. `Billing`: a gateway repeats its webhook until it is answered, the beat runs, time
passes. `Session`: the API and the event loops go on, the lock is granted in turn, and a tab that holds a token goes on calling the API: it is
assumed to be in use, which is how it finds out that its token has expired. `Realtime`: timers fire, the API goes on. `Thread` has no
liveness property: `ThreadShowsAll` speaks of the states in which nothing is on its way. In the runs of several parts, fairness is asked of the part that runs.

Most liveness properties have the form `[]<>(P => Q)`: again and again, what happened (`P`) has been dealt with (`Q`). Where both stay
true once they are, as a stored report or a payment does, this says that `Q` follows `P` in the end; elsewhere (`LogoutReachesEveryTab`,
`MissedIsMadeUp`, `CampaignEnds`) it says that no behaviour stays for ever in a state where `Q` is owed.

Mutants. Each property of a passing run has a mutant (`BUG of ...` in the modules): a dropped check, a lost lock, a missing
release. The run finds the property violated under it.

## 4. Findings

* `Checkout_expiry_pass`: the pass that cancels the link of an abandoned checkout triggers `on_payment_link_closed` in its
  own process, which renews `expires_at`; the pass then skips the order. It expires one deadline later, so an
  abandoned checkout lives about twice its documented time.
* `Checkout_expired_payable`: the pass lists open links before it locks the order. A link that `send_payment_link`
  creates in between is sent, the order expires, and the link stays payable.
* `PaymentLink_cancel_race`: `cancel_payment_link` decides on an unlocked read that there is no gateway id yet; when the
  create call saves it before `_close_locally` locks the row, the link is closed here and open there.
* `Checkout_cod_fee`: a payment heard after the buyer turned to cash on delivery is compared with a total that
  includes the COD fee, so a fully paid delivery becomes `advance_paid`.
* `Dashboard_logout`: a refresh that is on its way when a logout completes still runs to its end: it stores the new token, sets the
  marker and broadcasts it, so that every tab is signed in again after `tokenStore.clear`.
* `Offer_revived`: an order that expires gives its claim back; a late payment revives the order with its discount, but nothing
  applies the claim again, so its delivery redeems none and the buyer can use it once more.

Seen while modelling, and visible in the models without a run of their own:

* payments: the final poll expires a row although its cancellation failed (so `ExpiredIsClosedThere` is claimed for a gateway that
  answers); an event is emitted at most once, not exactly once; a link paid with another amount is polled for ever;
* orders: stock of a product that starts to be counted between reservation and release is given back without having been
  taken (so `StockKept` is checked with stock counted from the start); a second payment of a paid order is noted but not
  added to `amount_paid_paise`;
* orders: an order settled in cash can be due again: with faults and one loss the buyer takes cash, the seller marks it collected, and the payment of
  an older link, heard then, makes a delivery `advance_paid` (`on_payment_link_paid` sets the payment status by the amount of that link alone);
* orders: the race of `PaymentLink_cancel_race` leaves the link of a cancelled order, or of an order that took another method, payable for good (`orphaned`);
* billing: `cancel_subscription` decides on an unlocked read, so two requests can cross. A plan is then cancelled here by a request that asked Razorpay
  about another subscription, and Razorpay goes on charging for one that has no plan (`unasked`); or a checkout that was paid meanwhile is forgotten, and its plan
  runs with nothing that is charged for it (`forgotten`). A request that found a checkout unpaid may offer it again after it was superseded, and its payment
  then revives its plan (`reused`). A late `pending` or `halted` event sets back the status of a plan that was charged since;
* campaigns: a campaign whose last message failed is marked failed ("No messages were sent") although that message may be reported as delivered later; a
  recipient whose message's task is not published after the batch's commit, or is lost, or whose report is lost, stays queued, and the campaign
  runs for ever (`Forgotten`): the watchdog completes a campaign only when nobody is queued;
* offers: a claim that stopped fitting is released while the order keeps its discount; the lost event of a closed order keeps its
  place; some transactions lock the order, then the claim, others the reverse, so PostgreSQL may have to end one of them;
* dashboard: a second `connect()` that overlaps the first leaves a socket nobody closes (`overlapped`, which `OneConnection` excepts); a member who is
  removed between the membership check of a socket and its group join keeps that socket, for the frame that would close it was sent before it joined;
  what frames in the wrong order, lost frames and failed refetches leave in the thread (`behind`) stays there until something else makes the tab refetch.

## 5. Proofs

The theorems hold for every value of the constants; their assumptions are those named in the modules (`OutboxAssumption`,
`InboxAssumption`, `DeliveryAssumption`, `CampaignAssumption`, `OfferAssumption`, `BillingAssumption`, `SessionAssumption`,
`RealtimeAssumption`, `ThreadAssumption`, and those of `PaymentLink` and `Checkout`), and TLC evaluates them in the runs. Every safety
property a passing run checks is the subject of a theorem. Two (`StockKept`, `PayableLinks`) are
stated with a hypothesis, which their run makes too; it is named below.

| module | property of a run | theorem |
|---|---|---|
| `PaymentLinkProofs` | `TypeOK`, `LinkInv`, `PromiseKept`, `CalmExpiredIsClosedThere` | `TypeCorrect`, `LinkInvariant`, `Refinement`, `CalmStaysClosed` |
| `CheckoutProofs` | `TypeOK`, `StockKept`, `PaymentsStand`, `LinksKeepPromise` | `CheckoutTypes`, `CheckoutKeepsStock`, `PaymentsAreKept`, `LinksAreAsPromised` |
| | `MovesAreLegal` | `MovesStayLegal` |
| | `PayableLinks` (gateway answers, nothing is lost) | `OneLinkIsPayable` |
| `DeliveryProofs` | `MessagingTypeOK`, `SentAtMostOnce`, `StatusIsFurthest`, `NoReportIgnored` | `MessagingTypeCorrect`, `DeliverySendsOnce`, `DeliveryShowsFurthest`, `DeliveryIgnoresNoReport` |
| `CampaignProofs` | `ProgressIsTrue`, `StoppedIsStopped` | `CampaignProgressIsTrue`, `CampaignStopped` |
| `WebhookInboxProofs` | `OneHolder`, `FailedIsRetried` | `InboxOneHolder`, `InboxFailedIsRetried` |
| `BillingProofs` | `OrderFulfilledOnce`, `PlansStand`, `ChargesMatchPlan` | `BillingFulfilsOnce`, `BillingPlansStand`, `BillingChargesMatch` |
| `OfferProofs` | `PlacesKept`, `JobsTypeOK` | `OfferKeepsPlaces`, `JobsAreSafe` |
| `DashboardProofs` | `SessionIsKept`, `OneConnection`, `StoredOnce`, `ThreadShowsAll`, `DashboardTypeOK` | `SessionStaysKept`, `RealtimeOneConnection`, `ThreadStoredOnce`, `ThreadMissesNothing`, `DashboardIsSafe` |

`JobsAreSafe`, `DashboardIsSafe` and `MessagingTypeCorrect` are about the specifications the runs check, parts side by side: the part that rests
changes nothing, the one that runs takes a step of its own, so the invariant of each part carries over.

### Payments and orders

`PaymentLinkProofs`. `LinkInv` is the inductive invariant (it stands in `PaymentLink`, and TLC checks it). `TypeOK` alone does not exclude
that a row settled by one process is settled again by a second that read it earlier, or that two processes are about to emit for one
outcome. So the invariant relates the row to the processes: a process that is about to emit carries the row's own outcome; at most one does, and while one
does nothing has been announced; an outcome is announced at most once and only when it is the row's; a status a process saw
as paid is paid on the gateway for good; a row settled as paid is paid on the gateway. In `Refinement` every step either
stutters on the abstract variables, or is `Pay`, `Settle` or `Announce`.
`ExpiredStaysClosed` assumes that the gateway answers every call and that the account stays (`GatewayErrors = {}`, `AccountChanges = 0`). Its
invariant `CalmInv` says who knows what: a process on its way to close the row as expired, or that saw the link expired, has it from
the gateway; what is closed there stays closed; and whoever asks about a link asks about one that exists. `CalmStaysClosed` carries this over to
the behaviours the run takes: every step of a calm one is a step of `PaymentLink` without errors.

`CheckoutProofs`. `CheckoutInv` (`CheckoutInductive`) adds to the types what the three groups of variables know of one another. The order: it is `unpaid`
exactly while it is a checkout, expired or cancelled; what it shows as paid is paid at a gateway. The stock: with stock counted from the start, a unit is
taken exactly while the order holds its reservation (`StockCounted`), which `StockKept` follows from. The links: a URL exists before it is sent, is sent
before it is paid, and a task that is calling the gateway has no URL yet. From it follow, with faults and losses of any number, the types, `StockKept` (with stock counted
from the start, `TracksStock`; without it `StockIsHeldForPayments`), `PaymentsStand`, the refinement of `LinkPromise` by every link
(`LinksAreAsPromised`), and the two halves of `MovesAreLegal`, `MovesFollowTable` and `CancelledBySellerStays` (`MovesStayLegal`).

The rest needs a gateway that answers and no lost process (`Calm == ~GatewayFaults /\ MaxLosses = 0`), as its run has it. `CalmInv`
(`CalmInductive`) says of each attempt that its task runs once; that the gateway has what the row says, unless the link is orphaned; that a new
attempt, and cash, is chosen only when those before are over and the order has heard so; and that the link of a cancelled order is on a list, about to be put on
one, waits to be closed blind, or its task will see the cancellation, unless it is orphaned. `OneLinkIsPayable` follows for any number of attempts. The hypothesis is
needed: a call that fails leaves a payable link behind, and the code only logs it; so is the exception, for the race that orphans a link needs no fault.
That an order settled in full is never due again is not claimed: section 4 tells how it is.

### Messages and campaigns

`DeliveryProofs`, the outbox. `accepted <= 1` is not inductive: a task that is `allowed` to send must know that nobody has sent. So `OutboxInv` says that at most one
task works on a row, only while the row is `sending`, and that once Meta accepted the message no task is before its call and the row is never
`queued` again. Most steps put one task down: `RestingKeepsInv` treats them together; `MetaAcceptsKeepsInv` is the step the invariant exists for.

`WebhookInboxProofs`. The invariant adds that a task which holds the row finds it in `processing`, and that the attempts counted on the row exceed the
retries any task has used, so that a task which gives up leaves a row with `attempts > MaxRetries`.

`DeliveryProofs`, the composition. `Delivery` implements both parts (`DeliveryImplementsOutbox`, `DeliveryImplementsInbox`), so that their theorems
carry over. `DeliveryIgnoresNoReport` rests on `Gone`: Meta accepted the message and nobody is about to store its wamid. `Gone` is
stable, it holds when a report is old and when the receiver has seen no message being sent, and under it an unknown wamid
stays unknown; so a report concluded unapplied is not one of a message of ours. `TargetIsFurthest` is the lemma that
`_target_status` joins reports whatever their order.

`CampaignProofs`. The invariant is the types with `ProgressIsTrue`, which is inductive: the counters are the counts of the rows, and a campaign that is over
has nobody left. `StatsAreCounts` is the lemma it rests on: adding the delta of the rows that changed to their old count gives their new
count, so the code's clamp at zero never acts. `EndingIsDone` is the step the second half exists for.

### Plans and offers

`BillingProofs`. `BillingFulfilsOnce` rests on `OrdersInv`: an order the return page found paid is paid at its gateway, and stays so. `BillingPlansStand` adds
`SubInv`: Razorpay has offered the subscription a row tracks, an active prepaid plan tracks none, and
a row that tracks a subscription whose plan has ended is the ended row, but for a subscription whose checkout was offered again (`reused`).
`BillingChargesMatch` adds `ChargeInv`, because who pays and who has a plan differ as long as something is on its way, and the property speaks of the moment nothing is.
Its parts name what is on its way: an activated plan that is tracked was paid there (`StatusFits`); an event tells something that happened (`MailFits`); a request carries
what Razorpay answered (`RequestsFit`); while the first charge of a tracked checkout is not yet applied its event is in the mail
(`ChargeHeard`); and a subscription Razorpay may charge is the row's, or a cancellation of it is registered on commit (`NoStray`). The exceptions are those
of the property, each a set of subscriptions: `forgotten` for a plan with nothing that is charged for it, `uncancelled` and `unasked` for a subscription that is
charged for without a plan. What is not in them matches, whichever requests cross and whichever calls fail.
`BillingTypeCorrect` needs two more facts: a request that stores a checkout stores one Razorpay created, and the periods paid in advance are at most the orders
paid and one, for which the orders are a finite set (`BillingAssumption`).

`OfferProofs`. The invariant adds to `PlacesKept` that a claim is applied to an order that was begun and that the claims staff redeemed beyond the
places stay redeemed; `NoPlaceTaken` is the lemma of the counting, by the library's facts on cardinality.

### The dashboard

`DashboardProofs`, the thread. That a quiet thread is current is not inductive: while frames and refetches are under way it is not. The invariant
says instead that whatever is not `behind` will be shown: by a frame on its way, by a refetch that has not read or has read
it as it is, or because it is shown already (`KeptIsShown`). It holds for frames in any order because a frame that leaves a status other than the row's,
while the frame of the row's status is not due any more, puts its message `behind` (`SetBack`).

The connection. Unless an `online` event came while a `connect()` was under way, there is one chain or one timer, `this.socket` names the socket of the one chain in
use, no timer is forgotten, and after `stop()` there is neither (`Single`). One socket at most is a consequence; the count of timers and sockets alone
does not say that the next `connect()` finds none.

The session. `SessionTypeCorrect` holds with Web Locks and without, and needs that the refresh a tab's callers share is one of its own that is under way. `SessionIsKept`
speaks of browsers with Web Locks, and its invariant `LockInv` of what the lock protects: only the holder is beyond waiting (`OnlyHolderRuns`); a token a refresh was sent with is
live, or ended, or one whose successor was lost on the way (`RunsFit`), and so is the one in the jar, unless the holder has just been granted its successor
(`JarKnown`); and while nothing ended the session, every tab's refresh was sent with the token in the jar and none is refused (`KeptUp`).

### What is only model-checked

Liveness (`CreatedLinkSettles`, `CalmPaymentIsFound`, `CheckoutEnds`, `PaymentReachesOrder`, `ReportsArrive`, `MessageSettles`, `RecipientCatchesUp`, `CampaignEnds`,
`PaidOrderIsApplied`, `LogoutReachesEveryTab`, `MissedIsMadeUp`): fairness and `ENABLED` are out of the prover's reach. The six properties the findings are about
are violated, so there is nothing to prove of them. Nothing was proved by induction over data, which is out of its reach too; no module uses a recursive operator.

## 6. Not modelled

* Meta's catalogue sync (`catalog/sync.py`): mostly calls of Meta's API and bookkeeping of handles. Its one hazard is listed: the
  debounce key is set before the sync is queued on commit, so a transaction that rolls back leaves the key and no sync.
* A pass that would find messages that stay queued because their task was not published or was lost: the code has none. `MessageSettles` and `CampaignEnds`
  except them by name.
* `shop`, `automations`, `seller_alerts`, `contacts`, `whatsapp`, `message_templates`: menus, texts, matching of rules, imports and sequences of
  calls, each under one lock or the pattern of a modelled part; see the note of each component in `PROJECT.json`.
* Roles, tenants, reports, the developer API, infrastructure and scripts: permission checks, queries, deployment.
* The rest of the frontend: screens, forms, tables, builders, the mocked API of its tests and the public site. Most of its TypeScript
  is of this kind: it renders what the API answered and keeps no state that outlives a screen. So the share of the TypeScript
  that a map of definitions to lines can cover is small, and the modelled core of the repository is Python. The TypeScript
  with a protocol of its own (`lib/auth`, `lib/realtime`, the inbox's hooks, the checkout hook of billing) is mapped.

## 7. What is left

1. A contract for the inbox, as `LinkPromise` is for payments: that `Delivery` implements it, proved, and that `Campaign` uses it in place of its
   own message moves. Contracts of the same kind for a session (a token the API accepts, or none) and for an offer's places.
2. `PayableLinks` with faults and losses: a weaker hypothesis than `Calm`, which names the links that a failed call or a lost process leaves behind as `orphaned`
   names those of the race.
3. `CatalogSync` and contact imports; the pricing operators as pure functions checked against a reference definition.
