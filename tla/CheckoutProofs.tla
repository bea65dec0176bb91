--------------------------- MODULE CheckoutProofs ---------------------------
(* What is proved about Checkout for any kinds of orders, prices, stock,     *)
(* number of attempts, retries and losses: its type invariant, that stock   *)
(* follows the order and no unit is lost, that what the buyer paid stands,  *)
(* that its links keep LinkPromise, and that the order makes only moves of  *)
(* its table; and, as long as the gateway answers and nothing is lost, what *)
(* can be paid.                                                             *)
EXTENDS Checkout, FiniteSetTheorems, TLAPS

(* What an order shows before it is paid, or promised in cash.              *)
Before == CheckoutStatuses \cup {"expired"}

OrderFacts ==
  /\ status \in CheckoutStatuses => total = Subtotal /\ status \in Steps(kind)
  /\ status \in Before => payStatus = "unpaid"
  /\ payStatus = "unpaid" => status \in Before \cup {"cancelled"}

(* A unit of counted stock is taken exactly while it is reserved.           *)
TakenIfReserved == tracked /\ (took <=> reserved /\ kind = "delivery")
Balance == stock + others + gone + (IF took THEN 1 ELSE 0) = Capacity
StockCounted == TakenIfReserved /\ Balance

LinkFacts(a) ==
  /\ url[a] => link[a] \notin {"none", "creating"}
  /\ task[a] = "calling" => ~url[a] /\ link[a] # "none"
  /\ task[a] = "sending" => url[a]
  /\ sent[a] => url[a]
  /\ gateway[a] = "paid" => sent[a]
  /\ link[a] = "paid" => gateway[a] = "paid"
  /\ link[a] # "none" \/ task[a] = "started" => amount[a] > 0

(* A payment the order shows is on the gateway.                             *)
PaidIsThere ==
  payStatus \in {"paid", "advance_paid", "refunded_manual"} =>
    \E a \in Attempts : gateway[a] = "paid"

-----------------------------------------------------------------------------
(* The type invariant, by what the actions touch together.                  *)
OrderTypes ==
  /\ status \in Statuses
  /\ payStatus \in PaymentStatuses
  /\ method \in {"none", "online", "cod", "pay_at_shop"}
  /\ payAdvance \in BOOLEAN
  /\ total \in {Subtotal, Subtotal + CodFee}
  /\ amountPaid \in Nat
  /\ attempt \in 0 .. MaxAttempts
  /\ overdue \in BOOLEAN
  /\ canceller \in {"none", "buyer", "seller"}
  /\ kind \in OrderKinds /\ requirement \in Requirements \cup {"store_default"}

Flags == reserved \in BOOLEAN /\ took \in BOOLEAN /\ tracked \in BOOLEAN
Counts == stock \in Nat /\ others \in Nat /\ gone \in Nat
InventoryTypes == Flags /\ Counts

LinkStatuses == {"none"} \cup OpenLink \cup LinkOutcomes
TaskPlaces == {"none", "queued", "started", "calling", "sending", "failing", "done"}

LinkTypes ==
  /\ link \in [Attempts -> LinkStatuses]
  /\ gateway \in [Attempts -> {"none", "open", "paid", "closed"}]
  /\ amount \in [Attempts -> {0, Advance, Subtotal}]
  /\ url \in [Attempts -> BOOLEAN]
  /\ sent \in [Attempts -> BOOLEAN]
  /\ news \in [Attempts -> {"none", "due", "heard", "lost"}]

TaskTypes ==
  /\ task \in [Attempts -> TaskPlaces]
  /\ retries \in [Attempts -> 0 .. MaxRetries]

Passes ==
  [pc : {"idle", "picked", "closing"}, todo : SUBSET Attempts, blind : SUBSET Attempts,
   mine : SUBSET Attempts]

JobTypes ==
  /\ cancelDue \in BOOLEAN
  /\ cancelling \in SUBSET Attempts /\ blind \in SUBSET Attempts /\ orphaned \in SUBSET Attempts
  /\ expiry \in Passes
  /\ losses \in 0 .. MaxLosses

LEMMA TypesByPart ==
  TypeOK <=> OrderTypes /\ InventoryTypes /\ LinkTypes /\ TaskTypes /\ JobTypes
BY DEF TypeOK, OrderTypes, InventoryTypes, Flags, Counts, LinkTypes, TaskTypes, JobTypes, Passes, LinkStatuses,
       TaskPlaces

-----------------------------------------------------------------------------
(* The order.                                                               *)
OrderMoves ==
  \/ ConfirmPrices \/ GiveDetails \/ AnswerAgain
  \/ \E advance \in BOOLEAN : ChooseOnline(advance)
  \/ ChooseCod \/ ChooseShop \/ BuyerCancels \/ Seller \/ DeadlinePasses \/ ExpiryExpires
  \/ \E a \in Attempts : TaskFails(a) \/ Receivers(a)

LEMMA OtherStepsLeaveOrder ==
  ASSUME [Next]_vars, ~OrderMoves
  PROVE  UNCHANGED order
BY Zenon DEF Next, vars, OrderMoves, Buyer, Shelf, Task, Cancellation, Expiry, Losses, BuyerPays,
       OthersReserve, OthersRelease, SellerStartsTracking, PaymentFound, LinkEnds, Remind,
       TaskReadsOrder, TaskCreates, TaskHasNoAccount, GatewayAnswers, GatewayFails, TaskSends,
       GatewayCancels, ListOpenLinks, CancelReadsNoId, CancelListed, CancelBlind, ExpiryStarts,
       ExpiryListsLinks, ExpiryReadsNoId, ExpiryCancels, ExpiryClosesBlind, LoseNews, LoseTask,
       LoseCancellation, LoseExpiry

LEMMA StepsAreStatuses ==
  ASSUME kind \in Kinds
  PROVE  /\ FirstStep(kind) \in Steps(kind) \cap CheckoutStatuses
         /\ "awaiting_payment_method" \in Steps(kind) /\ "pending_payment" \in Steps(kind)
         /\ Done(kind) \in OpenStatuses
BY DEF Kinds, FirstStep, Steps, CheckoutStatuses, OpenStatuses, Done

LEMMA ManualMoves ==
  ASSUME NEW to \in Manual(kind, status) \ {"cancelled"}
  PROVE  /\ to \in Statuses \ (CheckoutStatuses \cup {"expired", "cancelled"})
         /\ status \in OpenStatuses
BY DEF Manual, Statuses, CheckoutStatuses, OpenStatuses, ClosedStatuses, Steps

LEMMA OrderStep ==
  ASSUME OrderTypes, LinkTypes, OrderFacts, [Next]_vars
  PROVE  OrderTypes' /\ OrderFacts'
<1> USE KindAssumption, AmountsAssumption, LimitsAssumption
<1> kind \in Kinds
  BY DEF OrderTypes
<1>1. CASE UNCHANGED order
  BY <1>1 DEF order, money, notes, OrderTypes, OrderFacts
<1>2. CASE ConfirmPrices \/ GiveDetails \/ AnswerAgain
  BY <1>2, StepsAreStatuses
     DEF ConfirmPrices, GiveDetails, AnswerAgain, MoveTo, money, notes, OrderTypes, OrderFacts,
         Statuses, CheckoutStatuses, Before
<1>3. ASSUME NEW advance \in BOOLEAN, ChooseOnline(advance)
      PROVE  OrderTypes' /\ OrderFacts'
  <2>1. /\ status' = "pending_payment" /\ overdue' = FALSE /\ method' = "online"
        /\ payAdvance' \in BOOLEAN /\ total' = Subtotal
        /\ attempt' = attempt + 1 /\ attempt < MaxAttempts
        /\ status = "awaiting_payment_method" /\ UNCHANGED <<payStatus, amountPaid, notes>>
    BY <1>3 DEF ChooseOnline, MoveTo
  <2>2. attempt' \in 0 .. MaxAttempts
    BY <2>1 DEF OrderTypes
  <2> QED
    BY <2>1, <2>2, StepsAreStatuses
       DEF notes, OrderTypes, OrderFacts, Statuses, CheckoutStatuses, Before
<1>4. CASE ChooseCod \/ ChooseShop
  BY <1>4 DEF ChooseCod, ChooseShop, MoveTo, notes, OrderTypes, OrderFacts, Statuses,
              CheckoutStatuses, OpenStatuses, Before, PaymentStatuses
<1>5. ASSUME NEW who \in {"buyer", "seller"}, NEW restock \in BOOLEAN, CancelOrder(who, restock)
      PROVE  OrderTypes' /\ OrderFacts'
  BY <1>5 DEF CancelOrder, MoveTo, money, OrderTypes, OrderFacts, Statuses, CheckoutStatuses,
              ClosedStatuses, Before
<1>6. ASSUME NEW to \in Statuses, SellerMoves(to)
      PROVE  OrderTypes' /\ OrderFacts'
  BY <1>6, ManualMoves DEF SellerMoves, MoveTo, money, notes, OrderTypes, OrderFacts, Before,
                           CheckoutStatuses, OpenStatuses
<1>7. CASE MarkCodCollected \/ MarkBalancePaid \/ MarkRefunded
  BY <1>7 DEF MarkCodCollected, MarkBalancePaid, MarkRefunded, SellerRecords, notes, OrderTypes,
              OrderFacts, PaymentStatuses
<1>8. CASE DeadlinePasses
  BY <1>8 DEF DeadlinePasses, money, notes, OrderTypes, OrderFacts
<1>9. ASSUME NEW a \in Attempts, TaskFails(a) \/ HearClosed(a)
      PROVE  OrderTypes' /\ OrderFacts'
  BY <1>9, StepsAreStatuses
     DEF TaskFails, HearClosed, Current, MoveTo, money, notes, OrderTypes, OrderFacts, Statuses,
         CheckoutStatuses, Before
<1>10. ASSUME NEW a \in Attempts, HearPaid(a)
       PROVE  OrderTypes' /\ OrderFacts'
  <2>1. CASE AlreadyPaid
    BY <1>10, <2>1 DEF HearPaid, order, money, notes, OrderTypes, OrderFacts
  <2>2. CASE ~AlreadyPaid
    <3>1. amount[a] \in Nat
      BY DEF LinkTypes
    <3>2. /\ amountPaid' = amountPaid + amount[a] /\ payStatus' \in {"paid", "advance_paid"}
          /\ method' = "online" /\ UNCHANGED <<payAdvance, total, attempt, notes>>
      BY <1>10, <2>2 DEF HearPaid
    <3>3. \/ MoveTo(Done(kind)) \/ MoveTo("needs_attention")
          \/ status \notin CheckoutStatuses \cup {"expired", "cancelled"} /\ UNCHANGED <<status, overdue>>
      BY <1>10, <2>2 DEF HearPaid
    <3>4. /\ status' \in Statuses \ (CheckoutStatuses \cup {"expired", "cancelled"})
          /\ overdue' \in BOOLEAN
      BY <3>3, StepsAreStatuses
         DEF MoveTo, OrderTypes, Statuses, CheckoutStatuses, OpenStatuses
    <3>5. OrderTypes'
      BY <3>1, <3>2, <3>4 DEF notes, OrderTypes, PaymentStatuses
    <3> QED
      BY <3>2, <3>4, <3>5 DEF OrderFacts, Before
  <2> QED
    BY <2>1, <2>2
<1>11. CASE ExpiryExpires
  BY <1>11 DEF ExpiryExpires, MoveTo, money, notes, OrderTypes, OrderFacts, Statuses,
               CheckoutStatuses, ClosedStatuses, Before
<1> QED
  BY <1>1, <1>2, <1>3, <1>4, <1>5, <1>6, <1>7, <1>8, <1>9, <1>10, <1>11, OtherStepsLeaveOrder
     DEF OrderMoves, Seller, BuyerCancels, SellerCancels, Receivers
-----------------------------------------------------------------------------
(* The stock.                                                               *)
Worked == OpenStatuses \cup {"delivered", "completed", "no_show"}
Deciding == CheckoutStatuses \ {"pending_payment"}

LEMMA Reserving ==
  ASSUME InventoryTypes, Reserve, UNCHANGED kind
  PROVE  InventoryTypes' /\ reserved' /\ (StockCounted => StockCounted')
<1> USE StockAssumption DEF Reserve, CanReserve, Counted, InventoryTypes
<1>1. reserved'
  OBVIOUS
<1>2. Flags'
  BY DEF Flags
<1>3. Counts'
  BY DEF Flags, Counts
<1>4. TakenIfReserved => TakenIfReserved'
  BY DEF Flags, TakenIfReserved
<1>5. StockCounted => Balance'
  BY DEF Flags, Counts, StockCounted, TakenIfReserved, Balance
<1> QED
  BY <1>1, <1>2, <1>3, <1>4, <1>5 DEF StockCounted

LEMMA Releasing ==
  ASSUME InventoryTypes, Release \/ Forfeit, UNCHANGED kind
  PROVE  InventoryTypes' /\ ~reserved' /\ (StockCounted => StockCounted')
<1> USE StockAssumption DEF Release, Forfeit, Counted, InventoryTypes
<1>1. ~reserved' /\ ~took'
  OBVIOUS
<1>2. Flags'
  BY DEF Flags
<1>3. Counts'
  BY DEF Counts
<1>4. TakenIfReserved => TakenIfReserved'
  BY DEF Flags, TakenIfReserved
<1>5. ASSUME StockCounted PROVE Balance'
  <2>1. CASE took
    <3>1. /\ \/ stock' = stock + 1 /\ gone' = gone
             \/ stock' = stock /\ gone' = gone + 1
          /\ UNCHANGED others
      BY <1>5, <2>1 DEF StockCounted, TakenIfReserved
    <3>2. stock + others + gone + 1 = Capacity
      BY <1>5, <2>1 DEF StockCounted, Balance
    <3>3. stock' + others' + gone' + 0 = Capacity
      BY <3>1, <3>2 DEF Counts
    <3> QED
      BY <1>1, <3>3 DEF Balance
  <2>2. CASE ~took
    <3>1. ~(Counted /\ reserved)
      BY <1>5, <2>2 DEF StockCounted, TakenIfReserved
    <3> QED
      BY <1>1, <1>5, <2>2, <3>1 DEF Counts, StockCounted, Balance
  <2> QED
    BY <2>1, <2>2
<1> QED
  BY <1>1, <1>2, <1>3, <1>4, <1>5 DEF StockCounted

LEMMA ShelfKeeps ==
  ASSUME InventoryTypes, Shelf
  PROVE  InventoryTypes' /\ UNCHANGED <<status, kind, reserved>> /\ (StockCounted => StockCounted')
<1>1. UNCHANGED <<status, kind, reserved, took, gone>>
  BY DEF Shelf, OthersReserve, OthersRelease, SellerStartsTracking, order, notes
<1>2. \/ stock > 0 /\ stock' = stock - 1 /\ others' = others + 1 /\ tracked' = tracked
      \/ others > 0 /\ stock' = stock + 1 /\ others' = others - 1 /\ tracked' = tracked
      \/ ~tracked /\ tracked' = TRUE /\ stock' = Capacity /\ others' = others
  BY DEF Shelf, OthersReserve, OthersRelease, SellerStartsTracking
<1>3. Flags' /\ Counts'
  <2>1. Flags'
    BY <1>1, <1>2 DEF InventoryTypes, Flags
  <2>2. Counts'
    BY <1>1, <1>2, StockAssumption DEF InventoryTypes, Counts
  <2> QED
    BY <2>1, <2>2
<1>4. StockCounted => TakenIfReserved'
  BY <1>1, <1>2 DEF StockCounted, TakenIfReserved
<1>5. ASSUME StockCounted PROVE Balance'
  <2>0. \/ stock' = stock - 1 /\ others' = others + 1
        \/ stock' = stock + 1 /\ others' = others - 1
    BY <1>2, <1>5 DEF StockCounted, TakenIfReserved
  <2>1. stock' + others' = stock + others
    BY <2>0 DEF InventoryTypes, Counts
  <2>2. (IF took' THEN 1 ELSE 0) = (IF took THEN 1 ELSE 0)
    BY <1>1
  <2>3. (IF took THEN 1 ELSE 0) \in Nat
    OBVIOUS
  <2> QED
    BY <1>1, <1>2, <1>3, <1>5, <2>1, <2>2, <2>3 DEF InventoryTypes, Counts, StockCounted, Balance
<1> QED
  BY <1>1, <1>3, <1>4, <1>5 DEF InventoryTypes, StockCounted

(* What a step does to the stock, and where it takes the order.             *)
StockMove ==
  \/ /\ UNCHANGED inventory
     /\ \/ status' = status
        \/ status \in Deciding /\ status' \in Deciding
        \/ status' \in Worked
  \/ Reserve /\ status' \in {"pending_payment"} \cup Worked
  \/ (Release \/ Forfeit) /\ status' # "pending_payment"
  \/ Shelf

LEMMA KindStands ==
  ASSUME [Next]_vars
  PROVE  UNCHANGED <<kind, requirement>>
<1>1. CASE UNCHANGED order
  BY <1>1 DEF order, notes
<1>2. CASE OrderMoves
  BY <1>2, Zenon
     DEF OrderMoves, ConfirmPrices, GiveDetails, AnswerAgain, ChooseOnline, ChooseCod, ChooseShop,
         BuyerCancels, Seller, SellerCancels, CancelOrder, SellerMoves, MarkCodCollected,
         MarkBalancePaid, MarkRefunded, SellerRecords, DeadlinePasses, ExpiryExpires, TaskFails,
         Receivers, HearClosed, HearPaid, order, notes
<1> QED
  BY <1>1, <1>2, OtherStepsLeaveOrder

LEMMA OtherStepsLeaveInventory ==
  ASSUME [Next]_vars, ~OrderMoves, ~Shelf
  PROVE  UNCHANGED inventory
BY Zenon DEF Next, vars, OrderMoves, Buyer, Task, Cancellation, Expiry, Losses, BuyerPays,
       PaymentFound, LinkEnds, Remind,
       TaskReadsOrder, TaskCreates, TaskHasNoAccount, GatewayAnswers, GatewayFails, TaskSends,
       GatewayCancels, ListOpenLinks, CancelReadsNoId, CancelListed, CancelBlind, ExpiryStarts,
       ExpiryListsLinks, ExpiryReadsNoId, ExpiryCancels, ExpiryClosesBlind, LoseNews, LoseTask,
       LoseCancellation, LoseExpiry

LEMMA StockMoves ==
  ASSUME OrderTypes, [Next]_vars
  PROVE  StockMove
<1> kind \in Kinds
  BY KindAssumption DEF OrderTypes
<1>1. CASE UNCHANGED order /\ UNCHANGED inventory
  BY <1>1 DEF order, StockMove
<1>2. CASE ConfirmPrices \/ GiveDetails \/ AnswerAgain \/ DeadlinePasses
  BY <1>2, StepsAreStatuses
     DEF ConfirmPrices, GiveDetails, AnswerAgain, DeadlinePasses, FirstStep, MoveTo, StockMove,
         Deciding, CheckoutStatuses
<1>3. ASSUME NEW advance \in BOOLEAN, ChooseOnline(advance)
      PROVE  StockMove
  BY <1>3 DEF ChooseOnline, MoveTo, StockMove
<1>4. CASE ChooseCod \/ ChooseShop
  BY <1>4 DEF ChooseCod, ChooseShop, MoveTo, StockMove, Worked, OpenStatuses
<1>5. ASSUME NEW who \in {"buyer", "seller"}, NEW restock \in BOOLEAN, CancelOrder(who, restock)
      PROVE  StockMove
  BY <1>5 DEF CancelOrder, MoveTo, StockMove
<1>6. ASSUME NEW to \in Statuses, SellerMoves(to)
      PROVE  StockMove
  BY <1>6, ManualMoves DEF SellerMoves, MoveTo, StockMove, Worked, Statuses, ClosedStatuses
<1>7. CASE MarkCodCollected \/ MarkBalancePaid \/ MarkRefunded
  BY <1>7 DEF MarkCodCollected, MarkBalancePaid, MarkRefunded, SellerRecords, StockMove
<1>8. ASSUME NEW a \in Attempts, TaskFails(a) \/ HearClosed(a)
      PROVE  StockMove
  BY <1>8 DEF TaskFails, HearClosed, MoveTo, StockMove
<1>9. ASSUME NEW a \in Attempts, HearPaid(a)
      PROVE  StockMove
  BY <1>9, StepsAreStatuses DEF HearPaid, MoveTo, StockMove, Worked, OpenStatuses, order
<1>10. CASE ExpiryExpires
  BY <1>10 DEF ExpiryExpires, MoveTo, StockMove
<1>11. CASE Shelf
  BY <1>11 DEF StockMove
<1> QED
  BY <1>1, <1>2, <1>3, <1>4, <1>5, <1>6, <1>7, <1>8, <1>9, <1>10, <1>11, OtherStepsLeaveOrder,
     OtherStepsLeaveInventory
     DEF OrderMoves, Seller, BuyerCancels, SellerCancels, Receivers

LEMMA StockStep ==
  ASSUME OrderTypes, InventoryTypes, StockFollowsStatus, [Next]_vars
  PROVE  InventoryTypes' /\ StockFollowsStatus' /\ (StockCounted => StockCounted')
<1> UNCHANGED kind
  BY KindStands
<1>1. CASE /\ UNCHANGED inventory
           /\ \/ status' = status
              \/ status \in Deciding /\ status' \in Deciding
              \/ status' \in Worked
  BY <1>1 DEF inventory, InventoryTypes, Flags, Counts, StockFollowsStatus, StockCounted, TakenIfReserved,
              Balance, Deciding, Worked, CheckoutStatuses,
              OpenStatuses
<1>2. CASE Reserve /\ status' \in {"pending_payment"} \cup Worked
  BY <1>2, Reserving DEF StockFollowsStatus, Worked, CheckoutStatuses, OpenStatuses
<1>3. CASE (Release \/ Forfeit) /\ status' # "pending_payment"
  BY <1>3, Releasing DEF StockFollowsStatus
<1>4. CASE Shelf
  BY <1>4, ShelfKeeps DEF StockFollowsStatus
<1> QED
  BY <1>1, <1>2, <1>3, <1>4, StockMoves DEF StockMove
-----------------------------------------------------------------------------
(* The links and the tasks.                                                 *)
linkVars == <<links, tasks>>
LinksInv == LinkTypes /\ TaskTypes /\ \A a \in Attempts : LinkFacts(a)

(* The steps with which a cancellation or a pass is done with the link.     *)
Closes(a) == CancelListed(a) \/ CancelBlind(a) \/ ExpiryCancels(a) \/ ExpiryClosesBlind(a)

(* The steps of attempt a.                                                  *)
LinkMoves(a) ==
  \/ BuyerPays(a) \/ PaymentFound(a) \/ LinkEnds(a) \/ Remind(a) \/ Task(a) \/ Receivers(a)
  \/ GatewayCancels(a) \/ Closes(a) \/ LoseNews(a) \/ LoseTask(a)

LEMMA OtherStepsLeaveLinks ==
  ASSUME [Next]_vars, ~\E a \in Attempts : LinkMoves(a),
         ~\E advance \in BOOLEAN : ChooseOnline(advance)
  PROVE  UNCHANGED linkVars
BY Zenon
   DEF Next, vars, LinkMoves, Buyer, Seller, Shelf, Cancellation, Expiry, Losses, ConfirmPrices,
       GiveDetails, AnswerAgain, ChooseCod, ChooseShop, BuyerCancels, CancelOrder, SellerCancels,
       SellerMoves, MarkCodCollected, MarkBalancePaid, MarkRefunded, SellerRecords, OthersReserve,
       OthersRelease, SellerStartsTracking, DeadlinePasses, ListOpenLinks, CancelReadsNoId,
       ExpiryStarts, ExpiryListsLinks, ExpiryReadsNoId, ExpiryExpires, LoseCancellation, LoseExpiry,
       Closes, linkVars

LEMMA LinkSettled ==
  ASSUME LinksInv, NEW a \in Attempts, link[a] \in OpenLink,
         NEW o \in {"paid", "expired", "cancelled"}, LinkSettles(a, o),
         o = "paid" => gateway[a] = "paid",
         gateway' = gateway \/ (gateway[a] # "paid" /\ gateway' = Set(gateway, a, "closed")),
         UNCHANGED <<amount, url, sent, tasks>>
  PROVE  LinksInv'
<1> USE DEF LinksInv, Set, tasks
<1>1. LinkTypes' /\ TaskTypes'
  BY DEF LinkSettles, LinkTypes, TaskTypes, LinkStatuses, LinkOutcomes
<1>2. ASSUME NEW x \in Attempts PROVE LinkFacts(x)'
  BY <1>2 DEF LinkSettles, LinkTypes, TaskTypes, LinkFacts, OpenLink
<1> QED
  BY <1>1, <1>2

(* What such a step does to the link.                                       *)
LEMMA ClosesLinks ==
  ASSUME NEW a \in Attempts, Closes(a)
  PROVE  /\ CancelLink(a) \/ CloseLocally(a) \/ UNCHANGED links
         /\ UNCHANGED tasks
BY Zenon DEF Closes, CancelListed, CancelBlind, ExpiryCancels, ExpiryClosesBlind, CancelLinkFails

LEMMA LinkCloses ==
  ASSUME LinksInv, NEW a \in Attempts, Closes(a)
  PROVE  \/ UNCHANGED links
         \/ /\ link[a] \in OpenLink /\ UNCHANGED <<gateway, amount, url, sent>>
            /\ \/ LinkSettles(a, "cancelled")
               \/ LinkSettles(a, "paid") /\ gateway[a] = "paid" /\ link[a] = "created"
<1>1. CASE CancelLink(a)
  BY <1>1 DEF CancelLink, OpenLink
<1>2. CASE CloseLocally(a)
  BY <1>2 DEF CloseLocally
<1> QED
  BY <1>1, <1>2, ClosesLinks

LEMMA LinkCancelled ==
  ASSUME LinksInv, NEW a \in Attempts, Closes(a)
  PROVE  LinksInv'
<1>0. UNCHANGED tasks
  BY ClosesLinks
<1>1. CASE UNCHANGED links
  BY <1>0, <1>1 DEF links, tasks, LinksInv, LinkTypes, TaskTypes, LinkFacts
<1>2. CASE ~UNCHANGED links
  <2>1. /\ link[a] \in OpenLink /\ UNCHANGED <<gateway, amount, url, sent>>
        /\ \/ LinkSettles(a, "cancelled")
           \/ LinkSettles(a, "paid") /\ gateway[a] = "paid"
    BY <1>2, LinkCloses
  <2> QED
    BY <1>0, <2>1, LinkSettled
<1> QED
  BY <1>1, <1>2

LEMMA LinkCancelledThere ==
  ASSUME LinksInv, NEW a \in Attempts, GatewayCancels(a)
  PROVE  LinksInv'
<1>1. /\ gateway' = [gateway EXCEPT ![a] = "closed"] /\ gateway[a] = "open"
      /\ UNCHANGED <<link, amount, url, sent, news, task, retries>>
  BY DEF GatewayCancels, tasks, Set
<1> QED
  BY <1>1 DEF LinksInv, LinkTypes, TaskTypes, LinkFacts

LEMMA TaskReads ==
  ASSUME OrderTypes, OrderFacts, LinksInv, NEW a \in Attempts, TaskReadsOrder(a)
  PROVE  LinksInv'
<1> USE DEF LinksInv, Set
<1>1. (LinkAmount \in {Advance, Subtotal} /\ LinkAmount > 0) \/ ~Current(a)
  BY AmountsAssumption
     DEF LinkAmount, Current, OrderTypes, OrderFacts, CheckoutStatuses
<1>2. UNCHANGED <<link, gateway, url, sent, news, retries>>
  BY DEF TaskReadsOrder
<1>3. PICK place \in {"started", "done"} :
        /\ task' = [task EXCEPT ![a] = place]
        /\ \/ UNCHANGED amount /\ (place = "started" => link[a] # "none")
           \/ \E x \in {Advance, Subtotal} : x > 0 /\ amount' = [amount EXCEPT ![a] = x]
  BY <1>1 DEF TaskReadsOrder
<1>4. LinkTypes' /\ TaskTypes'
  BY <1>2, <1>3 DEF LinkTypes, TaskTypes, TaskPlaces
<1>5. ASSUME NEW x \in Attempts PROVE LinkFacts(x)'
  BY <1>2, <1>3, <1>5 DEF LinkTypes, TaskTypes, LinkFacts
<1> QED
  BY <1>4, <1>5

(* A task that neither calls the gateway nor sends, nor has read the order. *)
LEMMA TaskMoved ==
  ASSUME LinksInv, NEW a \in Attempts, UNCHANGED links, retries' \in [Attempts -> 0 .. MaxRetries],
         NEW place \in TaskPlaces \ {"started", "calling", "sending"}, task' = Set(task, a, place)
  PROVE  LinksInv'
<1> USE DEF LinksInv, Set, links
<1>1. LinkTypes' /\ TaskTypes'
  BY DEF LinkTypes, TaskTypes
<1>2. ASSUME NEW x \in Attempts PROVE LinkFacts(x)'
  BY <1>2 DEF TaskTypes, TaskPlaces, LinkFacts
<1> QED
  BY <1>1, <1>2

LEMMA RetriesCounted ==
  ASSUME TaskTypes, NEW a \in Attempts, RetryOrFail(a) \/ Fail(a)
  PROVE  /\ retries' \in [Attempts -> 0 .. MaxRetries]
         /\ \E place \in {"queued", "failing"} : task' = Set(task, a, place)
BY LimitsAssumption DEF TaskTypes, RetryOrFail, Fail, Set

LEMMA TaskStep ==
  ASSUME OrderTypes, OrderFacts, LinksInv, NEW a \in Attempts, Task(a)
  PROVE  LinksInv'
<1> USE DEF LinksInv, Set
<1> TaskTypes
  OBVIOUS
<1>1. CASE TaskReadsOrder(a)
  BY <1>1, TaskReads
<1>2. CASE TaskCreates(a)
  <2>0. UNCHANGED <<gateway, amount, url, sent, news>>
    BY <1>2 DEF TaskCreates
  <2>1. CASE link[a] \in {"none", "creating"}
    <3>1. /\ link' = [link EXCEPT ![a] = "creating"] /\ task' = [task EXCEPT ![a] = "calling"]
          /\ task[a] = "started" /\ UNCHANGED retries
      BY <1>2, <2>1 DEF TaskCreates
    <3>2. LinkTypes' /\ TaskTypes'
      BY <2>0, <3>1 DEF LinkTypes, TaskTypes, LinkStatuses, OpenLink, TaskPlaces
    <3>3. ASSUME NEW x \in Attempts PROVE LinkFacts(x)'
      BY <2>0, <2>1, <3>1, <3>3 DEF LinkTypes, TaskTypes, LinkFacts
    <3> QED
      BY <3>2, <3>3
  <2>2. CASE link[a] \notin {"none", "creating"} /\ url[a]
    <3>1. /\ task' = [task EXCEPT ![a] = "sending"] /\ UNCHANGED <<link, retries>>
      BY <1>2, <2>2 DEF TaskCreates
    <3>2. LinkTypes' /\ TaskTypes'
      BY <2>0, <3>1 DEF LinkTypes, TaskTypes, TaskPlaces
    <3>3. ASSUME NEW x \in Attempts PROVE LinkFacts(x)'
      BY <2>0, <2>2, <3>1, <3>3 DEF TaskTypes, LinkFacts
    <3> QED
      BY <3>2, <3>3
  <2>3. CASE link[a] \notin {"none", "creating"} /\ ~url[a]
    <3>1. UNCHANGED links /\ RetryOrFail(a)
      BY <1>2, <2>3 DEF TaskCreates, links
    <3> QED
      BY <3>1, RetriesCounted, TaskMoved DEF TaskPlaces
  <2> QED
    BY <2>1, <2>2, <2>3
<1>3. CASE TaskHasNoAccount(a)
  BY <1>3, RetriesCounted, TaskMoved DEF TaskHasNoAccount, TaskPlaces
<1>4. CASE GatewayAnswers(a)
  <2>1. /\ task[a] = "calling" /\ task' = [task EXCEPT ![a] = "sending"]
        /\ url' = [url EXCEPT ![a] = TRUE]
        /\ UNCHANGED <<amount, sent, news, retries>>
    BY <1>4 DEF GatewayAnswers
  <2>2. PICK l \in LinkStatuses \ {"none", "creating"} :
          /\ link' = [link EXCEPT ![a] = l]
          /\ l = link[a] \/ l = "created"
    BY <1>4, <2>1 DEF GatewayAnswers, LinkTypes, LinkStatuses, OpenLink, LinkFacts
  <2>3. PICK g \in {"open", "closed", gateway[a]} : gateway' = [gateway EXCEPT ![a] = g]
    BY <1>4 DEF GatewayAnswers, LinkTypes
  <2>4. gateway[a] # "paid" /\ link[a] # "paid" /\ link[a] # "none"
    BY <2>1 DEF LinkFacts
  <2>5. LinkTypes' /\ TaskTypes'
    <3>1. link' \in [Attempts -> LinkStatuses]
      BY <2>2 DEF LinkTypes
    <3>2. gateway' \in [Attempts -> {"none", "open", "paid", "closed"}]
      BY <2>3 DEF LinkTypes
    <3> QED
      BY <2>1, <3>1, <3>2 DEF LinkTypes, TaskTypes, TaskPlaces
  <2>6. ASSUME NEW x \in Attempts PROVE LinkFacts(x)'
    <3>1. CASE x = a
      BY <2>1, <2>2, <2>3, <2>4, <3>1 DEF LinkTypes, TaskTypes, LinkFacts
    <3>2. CASE x # a
      BY <2>1, <2>2, <2>3, <2>6, <3>2 DEF LinkTypes, TaskTypes, LinkFacts
    <3> QED
      BY <3>1, <3>2
  <2> QED
    BY <2>5, <2>6
<1>5. CASE GatewayFails(a)
  <2>0. /\ UNCHANGED <<amount, url, sent, news>>
        /\ RetryOrFail(a) \/ Fail(a)
        /\ task[a] = "calling"
    BY <1>5 DEF GatewayFails
  <2>1. PICK place \in {"queued", "failing"} : task' = [task EXCEPT ![a] = place]
    BY <2>0, RetriesCounted
  <2>2. retries' \in [Attempts -> 0 .. MaxRetries]
    BY <2>0, RetriesCounted
  <2>3. PICK g \in {"open", gateway[a]} :
          /\ gateway' = [gateway EXCEPT ![a] = g]
          /\ g = gateway[a] \/ gateway[a] = "none"
    BY <1>5 DEF GatewayFails, LinkTypes
  <2>4. PICK l \in {"failed", link[a]} :
          /\ link' = [link EXCEPT ![a] = l]
          /\ l = link[a] \/ link[a] = "creating"
    BY <1>5 DEF GatewayFails, LinkTypes
  <2>5. LinkTypes' /\ TaskTypes'
    <3>1. link' \in [Attempts -> LinkStatuses]
      BY <2>4 DEF LinkTypes, LinkStatuses, LinkOutcomes
    <3>2. gateway' \in [Attempts -> {"none", "open", "paid", "closed"}]
      BY <2>3 DEF LinkTypes
    <3> QED
      BY <2>0, <2>1, <2>2, <3>1, <3>2 DEF LinkTypes, TaskTypes, TaskPlaces
  <2>6. ASSUME NEW x \in Attempts PROVE LinkFacts(x)'
    <3>1. CASE x = a
      BY <2>0, <2>1, <2>3, <2>4, <3>1 DEF LinkTypes, TaskTypes, LinkFacts
    <3>2. CASE x # a
      BY <2>0, <2>1, <2>3, <2>4, <2>6, <3>2 DEF LinkTypes, TaskTypes, LinkFacts
    <3> QED
      BY <3>1, <3>2
  <2> QED
    BY <2>5, <2>6
<1>6. CASE TaskSends(a)
  <2>1. /\ task[a] = "sending" /\ task' = [task EXCEPT ![a] = "done"]
        /\ UNCHANGED <<link, gateway, amount, url, news, retries>>
    BY <1>6 DEF TaskSends
  <2>2. sent' = [sent EXCEPT ![a] = TRUE] \/ UNCHANGED sent
    BY <1>6 DEF TaskSends
  <2>3. LinkTypes' /\ TaskTypes'
    BY <2>1, <2>2 DEF LinkTypes, TaskTypes, TaskPlaces
  <2>4. ASSUME NEW x \in Attempts PROVE LinkFacts(x)'
    BY <2>1, <2>2, <2>4 DEF LinkTypes, TaskTypes, LinkFacts
  <2> QED
    BY <2>3, <2>4
<1>7. CASE TaskFails(a)
  BY <1>7, TaskMoved DEF TaskFails, TaskTypes, TaskPlaces
<1> QED
  BY <1>1, <1>2, <1>3, <1>4, <1>5, <1>6, <1>7 DEF Task
LEMMA LinksStep ==
  ASSUME OrderTypes, OrderFacts, LinksInv, [Next]_vars
  PROVE  LinksInv'
<1>1. CASE UNCHANGED linkVars
  BY <1>1 DEF linkVars, links, tasks, LinksInv, LinkTypes, TaskTypes, LinkFacts
<1>2. ASSUME NEW advance \in BOOLEAN, ChooseOnline(advance)
      PROVE  LinksInv'
  <2>1. attempt + 1 \in Attempts /\ task' = Set(task, attempt + 1, "queued") /\ UNCHANGED <<links, retries>>
    BY <1>2, LimitsAssumption DEF ChooseOnline, Attempts, OrderTypes
  <2> QED
    BY <2>1, TaskMoved DEF TaskPlaces, LinksInv, TaskTypes
<1>3. ASSUME NEW a \in Attempts, LinkMoves(a)
      PROVE  LinksInv'
  <2> USE DEF LinksInv
  <2>1. CASE BuyerPays(a)
    <3>1. /\ gateway' = [gateway EXCEPT ![a] = "paid"] /\ sent[a]
          /\ UNCHANGED <<link, amount, url, sent, news, task, retries>>
      BY <2>1 DEF BuyerPays, tasks, Set
    <3> QED
      BY <3>1 DEF LinkTypes, TaskTypes, LinkFacts
  <2>2. CASE PaymentFound(a)
    BY <2>2, LinkSettled DEF PaymentFound, OpenLink
  <2>3. CASE LinkEnds(a)
    BY <2>3, LinkSettled DEF LinkEnds, OpenLink
  <2>4. CASE Remind(a)
    <3>1. /\ sent' = [sent EXCEPT ![a] = TRUE] /\ url[a]
          /\ UNCHANGED <<link, gateway, amount, url, news, task, retries>>
      BY <2>4 DEF Remind, tasks, Set
    <3> QED
      BY <3>1 DEF LinkTypes, TaskTypes, LinkFacts
  <2>5. CASE Task(a)
    BY <2>5, TaskStep
  <2>6. CASE Receivers(a) \/ LoseNews(a)
    <3>1. /\ \E n \in {"heard", "lost"} : news' = [news EXCEPT ![a] = n]
          /\ UNCHANGED <<link, gateway, amount, url, sent, task, retries>>
      BY <2>6 DEF Receivers, HearPaid, HearClosed, Hear, LoseNews, tasks, Set
    <3> QED
      BY <3>1 DEF LinkTypes, TaskTypes, LinkFacts
  <2>7. CASE Closes(a)
    BY <2>7, LinkCancelled
  <2>8. CASE GatewayCancels(a)
    BY <2>8, LinkCancelledThere
  <2>9. CASE LoseTask(a)
    <3>1. \E place \in {"queued", "done"} : task' = Set(task, a, place)
      BY <2>9 DEF LoseTask
    <3>2. UNCHANGED <<links, retries>>
      BY <2>9 DEF LoseTask
    <3> QED
      BY <3>1, <3>2, TaskMoved DEF TaskPlaces, TaskTypes
  <2> QED
    BY <1>3, <2>1, <2>2, <2>3, <2>4, <2>5, <2>6, <2>7, <2>8, <2>9 DEF LinkMoves
<1> QED
  BY <1>1, <1>2, <1>3, OtherStepsLeaveLinks

(* What the gateway was paid stays paid.                                    *)
LEMMA PaidThereStands ==
  ASSUME LinksInv, [Next]_vars, NEW a \in Attempts, gateway[a] = "paid"
  PROVE  gateway'[a] = "paid"
<1>1. CASE UNCHANGED linkVars \/ \E advance \in BOOLEAN : ChooseOnline(advance)
  BY <1>1 DEF linkVars, links, ChooseOnline
<1>2. ASSUME NEW x \in Attempts, LinkMoves(x)
      PROVE  gateway'[a] = "paid"
  <2>1. CASE UNCHANGED gateway
    BY <2>1
  <2>2. CASE BuyerPays(x) \/ PaymentFound(x) \/ LinkEnds(x)
    BY <2>2 DEF BuyerPays, PaymentFound, LinkEnds, Set, LinksInv, LinkTypes
  <2>3. CASE Closes(x) \/ GatewayCancels(x)
    <3>1. CASE GatewayCancels(x)
      BY <3>1 DEF GatewayCancels, Set, LinksInv, LinkTypes
    <3>2. CASE Closes(x)
      BY <3>2, LinkCloses DEF links
    <3> QED
      BY <2>3, <3>1, <3>2
  <2>4. CASE GatewayAnswers(x)
    <3>1. x # a
      BY <2>4 DEF GatewayAnswers, LinksInv, LinkFacts
    <3> QED
      BY <2>4, <3>1 DEF GatewayAnswers, Set, LinksInv, LinkTypes
  <2>5. CASE GatewayFails(x)
    BY <2>5 DEF GatewayFails, Set, LinksInv, LinkTypes
  <2>6. UNCHANGED gateway \/ BuyerPays(x) \/ PaymentFound(x) \/ LinkEnds(x) \/ Closes(x)
        \/ GatewayCancels(x) \/ GatewayAnswers(x) \/ GatewayFails(x)
    BY <1>2, Zenon
       DEF LinkMoves, Remind, Task, TaskReadsOrder, TaskCreates, TaskHasNoAccount, TaskSends,
           TaskFails, Receivers, HearPaid, HearClosed, LoseNews, LoseTask, links
  <2> QED
    BY <2>1, <2>2, <2>3, <2>4, <2>5, <2>6
<1> QED
  BY <1>1, <1>2, OtherStepsLeaveLinks
-----------------------------------------------------------------------------
(* What runs behind the order.                                              *)
JobSteps ==
  \/ Cancellation \/ Expiry \/ Losses \/ BuyerCancels
  \/ \E restock \in BOOLEAN : SellerCancels(restock)
  \/ \E a \in Attempts : TaskSends(a) \/ HearPaid(a)

LEMMA OtherStepsLeaveJobs ==
  ASSUME [Next]_vars, ~JobSteps
  PROVE  UNCHANGED <<jobs, expiry, losses>>
BY Zenon
   DEF Next, vars, JobSteps, Buyer, Seller, Shelf, Task, Receivers, ConfirmPrices,
       GiveDetails, AnswerAgain, ChooseOnline, ChooseCod, ChooseShop, BuyerPays,
       SellerMoves, MarkCodCollected, MarkBalancePaid, MarkRefunded, SellerRecords, OthersReserve,
       OthersRelease, SellerStartsTracking, DeadlinePasses, PaymentFound, LinkEnds, Remind,
       GatewayCancels, TaskReadsOrder, TaskCreates, TaskHasNoAccount, GatewayAnswers, GatewayFails,
       TaskFails, HearClosed

LEMMA PassStep ==
  ASSUME expiry \in Passes, Expiry
  PROVE  expiry' \in Passes
<1>1. NoExpiry \in Passes /\ [NoExpiry EXCEPT !.pc = "picked"] \in Passes
  BY DEF NoExpiry, Passes
<1>2. CASE ExpiryStarts \/ ExpiryExpires
  BY <1>1, <1>2 DEF ExpiryStarts, ExpiryExpires
<1>3. CASE ExpiryListsLinks
  <2>1. [NoExpiry EXCEPT !.pc = "closing", !.todo = OpenLinks] \in Passes
    BY DEF NoExpiry, Passes, OpenLinks
  <2> QED
    BY <1>3, <2>1 DEF ExpiryListsLinks
<1>4. ASSUME NEW a \in Attempts, ExpiryReadsNoId(a)
      PROVE  expiry' \in Passes
  <2>1. [expiry EXCEPT !.todo = @ \ {a}, !.blind = @ \cup {a}] \in Passes
    BY DEF Passes
  <2> QED
    BY <1>4, <2>1 DEF ExpiryReadsNoId
<1>5. ASSUME NEW a \in Attempts, ExpiryClosed(a)
      PROVE  expiry' \in Passes
  <2> DEFINE mine == IF Settling(a) THEN expiry.mine \cup {a} ELSE expiry.mine
  <2>1. mine \in SUBSET Attempts
    BY DEF Passes
  <2>2. expiry' = NoExpiry
        \/ expiry' = [expiry EXCEPT !.todo = @ \ {a}, !.blind = @ \ {a}, !.mine = mine]
    BY <1>5 DEF ExpiryClosed
  <2> HIDE DEF mine
  <2>3. [expiry EXCEPT !.todo = @ \ {a}, !.blind = @ \ {a}, !.mine = mine] \in Passes
    BY <2>1 DEF Passes
  <2> QED
    BY <1>1, <2>2, <2>3
<1>6. ASSUME NEW a \in Attempts, ExpiryCancels(a)
      PROVE  expiry' \in Passes
  <2>1. [expiry EXCEPT !.todo = @ \ {a}] \in Passes
    BY DEF Passes
  <2> QED
    BY <1>1, <1>5, <1>6, <2>1 DEF ExpiryCancels
<1>7. ASSUME NEW a \in Attempts, ExpiryClosesBlind(a)
      PROVE  expiry' \in Passes
  BY <1>5, <1>7 DEF ExpiryClosesBlind
<1> QED
  BY <1>2, <1>3, <1>4, <1>6, <1>7 DEF Expiry

LEMMA JobsStep ==
  ASSUME JobTypes, [Next]_vars
  PROVE  JobTypes'
<1> USE DEF JobTypes
<1>1. CASE UNCHANGED <<jobs, expiry, losses>>
  BY <1>1 DEF jobs, closing
<1>2. CASE Cancellation
  BY <1>2 DEF Cancellation, ListOpenLinks, CancelReadsNoId, CancelListed, CancelBlind, CloseLocally, OpenLinks
<1>3. CASE Expiry
  <2>1. expiry' \in Passes
    BY <1>3, PassStep
  <2>2. UNCHANGED <<cancelDue, cancelling, blind, losses>> /\ orphaned' \in SUBSET Attempts
    BY <1>3 DEF Expiry, ExpiryStarts, ExpiryListsLinks, ExpiryReadsNoId, ExpiryExpires,
                ExpiryCancels, ExpiryClosesBlind, CloseLocally, jobs, closing
  <2> QED
    BY <2>1, <2>2
<1>4. CASE Losses
  <2>1. losses' \in 0 .. MaxLosses
    BY <1>4, LimitsAssumption DEF Losses, Lose, LoseNews, LoseTask, LoseCancellation, LoseExpiry
  <2>2. expiry' \in {expiry, NoExpiry}
    BY <1>4 DEF Losses, LoseNews, LoseTask, LoseCancellation, LoseExpiry
  <2>3. /\ UNCHANGED orphaned
        /\ UNCHANGED jobs \/ (cancelDue' = FALSE /\ cancelling' = {} /\ blind' = {})
    BY <1>4 DEF Losses, LoseNews, LoseTask, LoseCancellation, LoseExpiry, jobs, closing
  <2>4. NoExpiry \in Passes
    BY DEF NoExpiry, Passes
  <2>5. expiry' \in Passes
    BY <2>2, <2>4
  <2> QED
    BY <2>1, <2>3, <2>5 DEF jobs, closing
<1>5. CASE \/ BuyerCancels \/ \E restock \in BOOLEAN : SellerCancels(restock)
           \/ \E a \in Attempts : TaskSends(a) \/ HearPaid(a)
  <2>1. UNCHANGED <<closing, expiry, losses>> /\ (cancelDue' = TRUE \/ UNCHANGED cancelDue)
    BY <1>5, Zenon DEF BuyerCancels, SellerCancels, CancelOrder, TaskSends, HearPaid
  <2> QED
    BY <2>1 DEF closing
<1> QED
  BY <1>1, <1>2, <1>3, <1>4, <1>5, OtherStepsLeaveJobs DEF JobSteps

-----------------------------------------------------------------------------
(* The payments.                                                            *)
LEMMA PaidIsThereStep ==
  ASSUME OrderTypes, OrderFacts, LinksInv, PaidIsThere, [Next]_vars
  PROVE  PaidIsThere'
<1>1. CASE payStatus' = payStatus
  BY <1>1, PaidThereStands DEF PaidIsThere
<1>2. CASE ChooseCod \/ ChooseShop \/ MarkCodCollected
  BY <1>2 DEF ChooseCod, ChooseShop, MarkCodCollected, SellerRecords, PaidIsThere
<1>3. CASE MarkBalancePaid \/ MarkRefunded
  BY <1>3, PaidThereStands DEF MarkBalancePaid, MarkRefunded, PaidIsThere
<1>4. ASSUME NEW a \in Attempts, HearPaid(a)
      PROVE  PaidIsThere'
  <2>1. gateway[a] = "paid"
    BY <1>4 DEF HearPaid, LinksInv, LinkFacts
  <2> QED
    BY <2>1, PaidThereStands DEF PaidIsThere
<1> QED
  BY <1>1, <1>2, <1>3, <1>4, OtherStepsLeaveOrder, Zenon
     DEF OrderMoves, ConfirmPrices, GiveDetails, AnswerAgain, ChooseOnline, BuyerCancels, Seller,
         SellerCancels, CancelOrder, SellerMoves, DeadlinePasses, ExpiryExpires, TaskFails,
         Receivers, HearClosed, order, money

Paid == {"paid", "advance_paid", "refunded_manual"}

LEMMA PaidStands ==
  ASSUME OrderTypes, OrderFacts, [Next]_vars, payStatus \in Paid
  PROVE  payStatus' \in Paid
<1>1. CASE payStatus' = payStatus
  BY <1>1
<1>2. CASE ChooseCod \/ ChooseShop
  BY <1>2 DEF ChooseCod, ChooseShop, OrderFacts, Before, CheckoutStatuses, Paid
<1>3. CASE MarkCodCollected \/ MarkBalancePaid \/ MarkRefunded
  BY <1>3 DEF MarkCodCollected, MarkBalancePaid, MarkRefunded, SellerRecords, Paid
<1>4. ASSUME NEW a \in Attempts, HearPaid(a)
      PROVE  payStatus' \in Paid
  BY <1>4 DEF HearPaid, order, money, Paid
<1> QED
  BY <1>1, <1>2, <1>3, <1>4, OtherStepsLeaveOrder, Zenon
     DEF OrderMoves, ConfirmPrices, GiveDetails, AnswerAgain, ChooseOnline, BuyerCancels, Seller,
         SellerCancels, CancelOrder, SellerMoves, DeadlinePasses, ExpiryExpires, TaskFails,
         Receivers, HearClosed, order, money

(* The payment of a link is heard by the receiver, and by nothing else.     *)
LEMMA HeardByReceiver ==
  ASSUME LinksInv, [Next]_vars, NEW a \in Attempts, link'[a] = "paid", news'[a] = "heard"
  PROVE  (link[a] = "paid" /\ news[a] = "heard") \/ HearPaid(a)
<1>1. CASE UNCHANGED <<link, news>>
  BY <1>1
<1>2. ASSUME NEW x \in Attempts, NEW o \in {"paid", "expired", "cancelled"}, LinkSettles(x, o)
      PROVE  link[a] = "paid" /\ news[a] = "heard"
  BY <1>2 DEF LinkSettles, Set, LinksInv, LinkTypes
<1>3. ASSUME NEW x \in Attempts, HearPaid(x) \/ HearClosed(x)
      PROVE  (link[a] = "paid" /\ news[a] = "heard") \/ HearPaid(a)
  BY <1>3 DEF HearPaid, HearClosed, Hear, Set, LinksInv, LinkTypes
<1>4. ASSUME NEW x \in Attempts, LoseNews(x)
      PROVE  link[a] = "paid" /\ news[a] = "heard"
  BY <1>4 DEF LoseNews, Set, LinksInv, LinkTypes
<1>5. ASSUME NEW x \in Attempts, TaskCreates(x) \/ GatewayAnswers(x) \/ GatewayFails(x)
      PROVE  link[a] = "paid" /\ news[a] = "heard"
  BY <1>5 DEF TaskCreates, GatewayAnswers, GatewayFails, Set, LinksInv, LinkTypes
<1>6. ASSUME NEW x \in Attempts, LinkMoves(x)
      PROVE  \/ UNCHANGED <<link, news>>
             \/ \E o \in {"paid", "expired", "cancelled"} : LinkSettles(x, o)
             \/ HearPaid(x) \/ HearClosed(x) \/ LoseNews(x) \/ TaskCreates(x) \/ GatewayAnswers(x)
             \/ GatewayFails(x)
  <2>1. CASE Closes(x)
    BY <2>1, LinkCloses DEF links
  <2>2. CASE PaymentFound(x) \/ LinkEnds(x)
    BY <2>2 DEF PaymentFound, LinkEnds
  <2> QED
    BY <1>6, <2>1, <2>2, Zenon
       DEF LinkMoves, BuyerPays, GatewayCancels, Remind, Task, TaskReadsOrder, TaskHasNoAccount,
           TaskSends, TaskFails, Receivers, LoseTask, links
<1>7. ASSUME NEW advance \in BOOLEAN, ChooseOnline(advance)
      PROVE  UNCHANGED <<link, news>>
  BY <1>7 DEF ChooseOnline, links
<1> QED
  BY <1>1, <1>2, <1>3, <1>4, <1>5, <1>6, <1>7, OtherStepsLeaveLinks DEF linkVars, links

LEMMA PaidOrderStep ==
  ASSUME OrderTypes, OrderFacts, OrderFacts', LinksInv, PaidOrderIsKept, [Next]_vars
  PROVE  PaidOrderIsKept'
<1> SUFFICES ASSUME NEW a \in Attempts, link'[a] = "paid", news'[a] = "heard"
             PROVE  payStatus' \in Paid /\ status' \notin CheckoutStatuses \cup {"expired"}
  BY DEF PaidOrderIsKept, Paid
<1>1. CASE link[a] = "paid" /\ news[a] = "heard"
  BY <1>1, PaidStands DEF PaidOrderIsKept, OrderFacts, Before, Paid
<1>2. CASE HearPaid(a)
  <2>1. payStatus' \in Paid
    BY <1>2 DEF HearPaid, AlreadyPaid, order, money, Paid
  <2> QED
    BY <2>1 DEF OrderFacts, Before, Paid
<1> QED
  BY <1>1, <1>2, HeardByReceiver

-----------------------------------------------------------------------------
(* The inductive invariant.                                                 *)
CheckoutInv ==
  /\ TypeOK /\ OrderFacts
  /\ StockFollowsStatus /\ (TracksStock => StockCounted)
  /\ \A a \in Attempts : LinkFacts(a)
  /\ PaidOrderIsKept /\ PaidIsThere

LEMMA CheckoutInvInit == Init => CheckoutInv
<1> SUFFICES ASSUME Init PROVE CheckoutInv
  OBVIOUS
<1> USE KindAssumption, AmountsAssumption, StockAssumption, LimitsAssumption DEF Init
<1> kind \in Kinds
  OBVIOUS
<1>1. status \in Steps(kind) \cap Deciding
  BY StepsAreStatuses DEF FirstStep, Steps, Deciding, CheckoutStatuses, Kinds
<1>2. OrderTypes /\ OrderFacts
  <2>1. requirement \in Requirements \cup {"store_default"}
    OBVIOUS
  <2>2. status \in Statuses /\ OrderFacts
    BY <1>1 DEF OrderFacts, Statuses, Before, Deciding
  <2>3. attempt \in 0 .. MaxAttempts /\ amountPaid \in Nat /\ total \in {Subtotal, Subtotal + CodFee}
    OBVIOUS
  <2>4. payAdvance \in BOOLEAN /\ overdue \in BOOLEAN
    OBVIOUS
  <2>5. /\ payStatus \in PaymentStatuses /\ method \in {"none", "online", "cod", "pay_at_shop"}
        /\ canceller \in {"none", "buyer", "seller"} /\ kind \in OrderKinds
    BY DEF PaymentStatuses
  <2> QED
    BY <2>1, <2>2, <2>3, <2>4, <2>5, Zenon DEF OrderTypes
<1>3. InventoryTypes /\ StockFollowsStatus /\ (TracksStock => StockCounted)
  <2>1. Flags /\ Counts
    BY DEF Flags, Counts
  <2>2. StockFollowsStatus
    BY <1>1 DEF StockFollowsStatus, Deciding
  <2>3. TracksStock => TakenIfReserved
    BY DEF TakenIfReserved
  <2>4. Balance
    BY DEF Balance
  <2> QED
    BY <2>1, <2>2, <2>3, <2>4 DEF InventoryTypes, StockCounted
<1>4. LinkTypes /\ TaskTypes
  BY DEF LinkTypes, TaskTypes, LinkStatuses, TaskPlaces
<1>5. \A a \in Attempts : LinkFacts(a)
  BY DEF LinkFacts
<1>6. JobTypes
  <2>1. NoExpiry \in Passes
    BY DEF NoExpiry, Passes
  <2>2. losses \in 0 .. MaxLosses
    OBVIOUS
  <2>3. /\ cancelDue \in BOOLEAN
        /\ cancelling \in SUBSET Attempts /\ blind \in SUBSET Attempts /\ orphaned \in SUBSET Attempts
    OBVIOUS
  <2> QED
    BY <2>1, <2>2, <2>3, Zenon DEF JobTypes
<1>7. PaidOrderIsKept /\ PaidIsThere
  BY DEF PaidOrderIsKept, PaidIsThere
<1> QED
  BY <1>2, <1>3, <1>4, <1>5, <1>6, <1>7, TypesByPart DEF CheckoutInv

LEMMA CheckoutInvStep ==
  ASSUME CheckoutInv, [Next]_vars
  PROVE  CheckoutInv'
<1>0. /\ OrderTypes /\ InventoryTypes /\ JobTypes /\ LinksInv /\ LinkTypes
      /\ OrderFacts /\ StockFollowsStatus /\ PaidOrderIsKept /\ PaidIsThere
  BY TypesByPart DEF CheckoutInv, LinksInv
<1>1. OrderTypes' /\ OrderFacts'
  BY <1>0, OrderStep
<1>2. InventoryTypes' /\ StockFollowsStatus' /\ (StockCounted => StockCounted')
  BY <1>0, StockStep
<1>3. LinksInv'
  BY <1>0, LinksStep
<1>4. JobTypes'
  BY <1>0, JobsStep
<1>5. PaidIsThere'
  BY <1>0, PaidIsThereStep
<1>6. PaidOrderIsKept'
  BY <1>0, <1>1, PaidOrderStep
<1>7. TypeOK'
  BY <1>1, <1>2, <1>3, <1>4
     DEF LinksInv, TypeOK, OrderTypes, InventoryTypes, Flags, Counts, LinkTypes, TaskTypes, JobTypes,
         Passes, LinkStatuses, TaskPlaces
<1> QED
  BY <1>1, <1>2, <1>3, <1>5, <1>6, <1>7 DEF CheckoutInv, LinksInv

\* The inductive invariant, from which the theorems of this section follow: stock is
\* taken exactly while it is reserved, an order is "unpaid" exactly while it is a
\* checkout (or closed as one), a URL exists before it is sent and is paid, and what
\* the order shows as paid a gateway has.
THEOREM CheckoutInductive == Spec => []CheckoutInv
<1>1. Init => CheckoutInv
  BY CheckoutInvInit
<1>2. CheckoutInv /\ [Next]_vars => CheckoutInv'
  BY CheckoutInvStep
<1> QED
  BY <1>1, <1>2, PTL DEF Spec

\* One order of the shop stays an order, whatever its buyer, its seller, its tasks and
\* the gateway do at the same time.
THEOREM CheckoutTypes == Spec => []TypeOK
<1>1. CheckoutInv => TypeOK
  BY DEF CheckoutInv
<1> QED
  BY <1>1, CheckoutInductive, PTL

\* Stock counted from the start is conserved, and held for exactly the orders
\* that wait for money.
THEOREM CheckoutKeepsStock ==
  ASSUME TracksStock
  PROVE  Spec => []StockKept
<1>1. CheckoutInv => StockKept
  BY DEF CheckoutInv, StockKept, StockCounted, Balance, StockBalanced
<1> QED
  BY <1>1, CheckoutInductive, PTL

\* Whether the stock is counted or not, it is held while an online payment is
\* awaited, and by no order before that, nor by an expired or a cancelled one.
THEOREM StockIsHeldForPayments == Spec => []StockFollowsStatus
<1>1. CheckoutInv => StockFollowsStatus
  BY DEF CheckoutInv
<1> QED
  BY <1>1, CheckoutInductive, PTL

\* What the buyer paid is kept by the order, and nothing is worked on that was not
\* paid for or promised in cash.
THEOREM PaymentsAreKept == Spec => []PaymentsStand
<1>1. TypeOK /\ OrderFacts /\ PaidIsThere => FulfilledIsPaidFor
  BY DEF TypeOK, OrderFacts, PaidIsThere, FulfilledIsPaidFor, PaymentStatuses, Before,
         CheckoutStatuses, OpenStatuses
<1>2. CheckoutInv => PaymentsStand
  BY <1>1 DEF CheckoutInv, PaymentsStand
<1> QED
  BY <1>2, CheckoutInductive, PTL
-----------------------------------------------------------------------------
(* The moves of the order.                                                  *)
Move ==
  status' # status =>
    \/ CanMove(kind, status, status')
    \/ status \in {"expired", "cancelled"} /\ amountPaid' > amountPaid

LEMMA CheckoutMoves ==
  ASSUME kind \in Kinds, status \in Steps(kind)
  PROVE  /\ \A to \in (Steps(kind) \cup {Done(kind), "expired", "needs_attention"}) \ {status} :
              CanMove(kind, status, to)
         /\ CanMove(kind, status, "cancelled")
<1>1. Manual(kind, status) = {"cancelled"}
  BY DEF Manual, Steps, CheckoutStatuses
<1>2. System(kind, status) = (Steps(kind) \cup {Done(kind), "expired", "needs_attention"}) \ {status}
  BY DEF System
<1> QED
  BY <1>1, <1>2 DEF CanMove

LEMMA MoveStep ==
  ASSUME OrderTypes, OrderFacts, LinksInv, [Next]_vars
  PROVE  Move
<1> kind \in Kinds
  BY KindAssumption DEF OrderTypes
<1>0. status \in CheckoutStatuses => status \in Steps(kind)
  BY DEF OrderFacts
<1>1. CASE UNCHANGED status
  BY <1>1 DEF Move
<1>2. CASE ConfirmPrices \/ GiveDetails
  BY <1>0, <1>2, StepsAreStatuses, CheckoutMoves
     DEF ConfirmPrices, GiveDetails, MoveTo, Move, FirstStep, CheckoutStatuses
<1>3. CASE \E advance \in BOOLEAN : ChooseOnline(advance)
  BY <1>0, <1>3, StepsAreStatuses, CheckoutMoves DEF ChooseOnline, MoveTo, Move, CheckoutStatuses
<1>4. CASE ChooseCod \/ ChooseShop
  BY <1>0, <1>4, CheckoutMoves DEF ChooseCod, ChooseShop, MoveTo, Move, CheckoutStatuses, Done
<1>5. CASE BuyerCancels
  <2>1. status' = "cancelled"
    BY <1>5 DEF BuyerCancels, CancelOrder, MoveTo
  <2>2. CASE status \in CheckoutStatuses
    BY <1>0, <2>1, <2>2, CheckoutMoves DEF Move
  <2>3. CASE kind = "booking" /\ status = "confirmed"
    BY <2>1, <2>3 DEF Move, CanMove, Manual, Steps, CheckoutStatuses
  <2> QED
    BY <1>5, <2>2, <2>3 DEF BuyerCancels
<1>6. CASE Seller
  <2>1. status' \in Manual(kind, status) \/ UNCHANGED status
    BY <1>6 DEF Seller, SellerCancels, CancelOrder, SellerMoves, MoveTo, MarkCodCollected,
                MarkBalancePaid, MarkRefunded, SellerRecords
  <2> QED
    BY <2>1 DEF Move, CanMove
<1>7. ASSUME NEW a \in Attempts, TaskFails(a) \/ HearClosed(a)
      PROVE  Move
  BY <1>0, <1>7, StepsAreStatuses, CheckoutMoves
     DEF TaskFails, HearClosed, Current, MoveTo, Move, CheckoutStatuses
<1>8. ASSUME NEW a \in Attempts, HearPaid(a)
      PROVE  Move
  <2>1. CASE UNCHANGED status
    BY <2>1 DEF Move
  <2>2. CASE ~UNCHANGED status
    <3>1. /\ status \in CheckoutStatuses \cup {"expired", "cancelled"}
          /\ status' \in {Done(kind), "needs_attention"}
          /\ amountPaid' = amountPaid + amount[a]
      BY <1>8, <2>2 DEF HearPaid, Revives, MoveTo, order
    <3>2. amount[a] \in Nat /\ amount[a] > 0
      BY <1>8, AmountsAssumption DEF HearPaid, LinksInv, LinkTypes, LinkFacts
    <3>3. amountPaid' > amountPaid
      BY <3>1, <3>2 DEF OrderTypes
    <3> QED
      BY <1>0, <2>2, <3>1, <3>3, CheckoutMoves DEF Move
  <2> QED
    BY <2>1, <2>2
<1>9. CASE ExpiryExpires
  BY <1>0, <1>9, CheckoutMoves DEF ExpiryExpires, MoveTo, Move
<1> QED
  BY <1>1, <1>2, <1>3, <1>4, <1>5, <1>6, <1>7, <1>8, <1>9, OtherStepsLeaveOrder, Zenon
     DEF OrderMoves, Receivers, AnswerAgain, DeadlinePasses, order

LEMMA SellerCancelStep ==
  ASSUME OrderTypes, CancelledBySeller, [Next]_vars
  PROVE  status' \in {"cancelled", "needs_attention"}
<1>0. status = "cancelled"
  BY DEF CancelledBySeller
<1>1. CASE UNCHANGED status
  BY <1>0, <1>1
<1>2. CASE ConfirmPrices \/ GiveDetails \/ (\E advance \in BOOLEAN : ChooseOnline(advance)) \/ ChooseCod
           \/ ChooseShop \/ BuyerCancels
  BY <1>0, <1>2
     DEF ConfirmPrices, GiveDetails, ChooseOnline, ChooseCod, ChooseShop, BuyerCancels, CancelOrder,
         MoveTo, FirstStep
<1>3. CASE Seller
  <2>1. Manual(kind, status) = {}
    BY <1>0 DEF Manual, Steps, CheckoutStatuses
  <2> QED
    BY <1>0, <1>3, <2>1 DEF Seller, SellerCancels, SellerMoves, MarkCodCollected, MarkBalancePaid,
                            MarkRefunded, SellerRecords
<1>4. ASSUME NEW a \in Attempts, TaskFails(a) \/ HearClosed(a)
      PROVE  status' \in {"cancelled", "needs_attention"}
  BY <1>0, <1>4 DEF TaskFails, HearClosed, Current
<1>5. ASSUME NEW a \in Attempts, HearPaid(a)
      PROVE  status' \in {"cancelled", "needs_attention"}
  BY <1>0, <1>5 DEF HearPaid, Revives, CancelledBySeller, MoveTo, order
<1>6. CASE ExpiryExpires
  BY <1>0, <1>6 DEF ExpiryExpires, CheckoutStatuses
<1> QED
  BY <1>1, <1>2, <1>3, <1>4, <1>5, <1>6, OtherStepsLeaveOrder, Zenon
     DEF OrderMoves, Receivers, AnswerAgain, DeadlinePasses, order

\* The table of orders/transitions.py allows every move the handlers make.
THEOREM MovesFollowTable == Spec => TableAllowsEveryMove
<1>1. CheckoutInv /\ [Next]_vars => [Move]_vars
  BY MoveStep, TypesByPart DEF CheckoutInv, LinksInv
<1> QED
  BY <1>1, CheckoutInductive, PTL DEF Spec, TableAllowsEveryMove, Move

\* A late payment never undoes the seller's cancellation.
THEOREM CancelledBySellerStays == Spec => SellerCancelStands
<1>1. CheckoutInv /\ [Next]_vars =>
        [CancelledBySeller => status' \in {"cancelled", "needs_attention"}]_vars
  BY SellerCancelStep, TypesByPart DEF CheckoutInv
<1> QED
  BY <1>1, CheckoutInductive, PTL DEF Spec, SellerCancelStands
\* Whatever is heard, however late, and whatever is lost: the order makes only moves of
\* its table, and none that undoes the seller's cancellation.
THEOREM MovesStayLegal == Spec => MovesAreLegal
BY MovesFollowTable, CancelledBySellerStays DEF MovesAreLegal
-----------------------------------------------------------------------------
(* The links keep LinkPromise.                                              *)
PromisedOutcomes == {"paid", "expired", "cancelled"}

SamePaid(a) == gateway'[a] = "paid" <=> gateway[a] = "paid"

(* What a step can do to link a, as LinkPromise sees it.                    *)
LinkStays(a) == link'[a] = link[a] /\ news'[a] = news[a] /\ SamePaid(a)
LinkIsMade(a) ==
  /\ link[a] \in {"none", "creating"} /\ link'[a] \in OpenLink
  /\ news'[a] = news[a] /\ SamePaid(a)
LinkIsPaid(a) ==
  /\ gateway[a] # "paid" /\ gateway'[a] = "paid"
  /\ link'[a] = link[a] /\ news'[a] = news[a]
LinkIsSettled(a) ==
  /\ link[a] \in OpenLink /\ link'[a] \in PromisedOutcomes
  /\ link'[a] = "paid" => gateway[a] = "paid"
  /\ news'[a] = "due" /\ SamePaid(a)
LinkIsRefused(a) ==
  /\ link[a] = "creating" /\ link'[a] = "failed"
  /\ news'[a] = news[a] /\ SamePaid(a)
LinkIsHeard(a) ==
  /\ link[a] \in PromisedOutcomes /\ link'[a] = link[a]
  /\ news[a] = "due" /\ news'[a] = "heard" /\ SamePaid(a)
NewsIsLost(a) ==
  /\ news[a] = "due" /\ news'[a] = "lost"
  /\ link'[a] = link[a] /\ SamePaid(a)

LinkStep(a) ==
  \/ LinkStays(a) \/ LinkIsMade(a) \/ LinkIsPaid(a) \/ LinkIsSettled(a) \/ LinkIsRefused(a)
  \/ LinkIsHeard(a) \/ NewsIsLost(a)

LEMMA PromiseInit == ASSUME Init, NEW a \in Attempts PROVE Promise(a)!Init
BY DEF Init, Promise!Init, Promise!Outcomes, OpenLink

LEMMA SettlingLink ==
  ASSUME LinksInv, NEW x \in Attempts, link[x] \in OpenLink, NEW o \in PromisedOutcomes,
         LinkSettles(x, o), o = "paid" => gateway[x] = "paid",
         gateway' = gateway \/ (gateway[x] # "paid" /\ gateway' = Set(gateway, x, "closed")),
         NEW a \in Attempts
  PROVE  LinkStep(a)
<1>1. CASE x = a
  <2>1. link'[a] = o /\ news'[a] = "due" /\ SamePaid(a)
    BY <1>1 DEF LinkSettles, Set, LinksInv, LinkTypes, SamePaid
  <2> QED
    BY <1>1, <2>1 DEF LinkIsSettled, LinkStep
<1>2. CASE x # a
  BY <1>2 DEF LinkSettles, Set, LinksInv, LinkTypes, SamePaid, LinkStays, LinkStep
<1> QED
  BY <1>1, <1>2

LEMMA LinkSteps ==
  ASSUME LinksInv, [Next]_vars, NEW a \in Attempts
  PROVE  LinkStep(a)
<1> USE DEF LinksInv
<1>1. CASE UNCHANGED <<link, gateway, news>>
  BY <1>1 DEF LinkStep, LinkStays, SamePaid
<1>2. ASSUME NEW x \in Attempts, BuyerPays(x)
      PROVE  LinkStep(a)
  BY <1>2 DEF BuyerPays, Set, LinkTypes, LinkStep, LinkStays, LinkIsPaid, SamePaid
<1>3. ASSUME NEW x \in Attempts, PaymentFound(x) \/ LinkEnds(x) \/ Closes(x)
      PROVE  LinkStep(a)
  <2>1. CASE PaymentFound(x)
    BY <2>1, SettlingLink DEF PaymentFound, OpenLink, PromisedOutcomes
  <2>2. CASE LinkEnds(x)
    BY <2>2, SettlingLink DEF LinkEnds, OpenLink, PromisedOutcomes
  <2>3. CASE Closes(x)
    <3>1. CASE UNCHANGED links
      BY <1>1, <3>1 DEF links
    <3>2. CASE ~UNCHANGED links
      <4>1. /\ link[x] \in OpenLink /\ gateway' = gateway
            /\ \/ LinkSettles(x, "cancelled")
               \/ LinkSettles(x, "paid") /\ gateway[x] = "paid"
        BY <2>3, <3>2, LinkCloses
      <4> QED
        BY <4>1, SettlingLink DEF PromisedOutcomes
    <3> QED
      BY <3>1, <3>2
  <2> QED
    BY <1>3, <2>1, <2>2, <2>3
<1>4. ASSUME NEW x \in Attempts, GatewayCancels(x)
      PROVE  LinkStep(a)
  BY <1>4 DEF GatewayCancels, Set, LinkTypes, LinkStep, LinkStays, SamePaid
<1>5. ASSUME NEW x \in Attempts, HearPaid(x) \/ HearClosed(x)
      PROVE  LinkStep(a)
  <2>1. /\ link[x] \in PromisedOutcomes /\ news[x] = "due" /\ news' = [news EXCEPT ![x] = "heard"]
        /\ UNCHANGED <<link, gateway>>
    BY <1>5 DEF HearPaid, HearClosed, Hear, Set, PromisedOutcomes
  <2> QED
    BY <2>1 DEF LinkTypes, LinkStep, LinkStays, LinkIsHeard, SamePaid
<1>6. ASSUME NEW x \in Attempts, LoseNews(x)
      PROVE  LinkStep(a)
  BY <1>6 DEF LoseNews, Set, LinkTypes, LinkStep, LinkStays, NewsIsLost, SamePaid
<1>7. ASSUME NEW x \in Attempts, TaskCreates(x)
      PROVE  LinkStep(a)
  BY <1>7 DEF TaskCreates, Set, LinkTypes, OpenLink, LinkStep, LinkStays, LinkIsMade, SamePaid
<1>8. ASSUME NEW x \in Attempts, GatewayAnswers(x)
      PROVE  LinkStep(a)
  <2>1. gateway[x] # "paid" /\ UNCHANGED news
    BY <1>8 DEF GatewayAnswers, LinkFacts
  <2>2. SamePaid(a)
    BY <1>8, <2>1 DEF GatewayAnswers, Set, LinkTypes, SamePaid
  <2>3. link'[a] = link[a] \/ (link[a] = "creating" /\ link'[a] = "created")
    BY <1>8 DEF GatewayAnswers, Set, LinkTypes
  <2> QED
    BY <2>1, <2>2, <2>3 DEF OpenLink, LinkStep, LinkStays, LinkIsMade
<1>9. ASSUME NEW x \in Attempts, GatewayFails(x)
      PROVE  LinkStep(a)
  <2>1. UNCHANGED news
    BY <1>9 DEF GatewayFails
  <2>2. SamePaid(a)
    BY <1>9 DEF GatewayFails, Set, LinkTypes, SamePaid
  <2>3. link'[a] = link[a] \/ (link[a] = "creating" /\ link'[a] = "failed")
    BY <1>9 DEF GatewayFails, Set, LinkTypes
  <2> QED
    BY <2>1, <2>2, <2>3 DEF LinkStep, LinkStays, LinkIsRefused
<1>10. ASSUME NEW x \in Attempts, LinkMoves(x)
       PROVE  \/ UNCHANGED <<link, gateway, news>>
              \/ BuyerPays(x) \/ PaymentFound(x) \/ LinkEnds(x) \/ Closes(x) \/ GatewayCancels(x)
              \/ HearPaid(x) \/ HearClosed(x) \/ LoseNews(x) \/ TaskCreates(x) \/ GatewayAnswers(x)
              \/ GatewayFails(x)
  BY <1>10, Zenon
     DEF LinkMoves, Remind, Task, TaskReadsOrder, TaskHasNoAccount, TaskSends,
         TaskFails, Receivers, LoseTask, links
<1>11. ASSUME NEW advance \in BOOLEAN, ChooseOnline(advance)
       PROVE  UNCHANGED <<link, gateway, news>>
  BY <1>11 DEF ChooseOnline, links
<1> QED
  BY <1>1, <1>2, <1>3, <1>4, <1>5, <1>6, <1>7, <1>8, <1>9, <1>10, <1>11, OtherStepsLeaveLinks
     DEF linkVars, links

LEMMA PromiseStep ==
  ASSUME NEW a \in Attempts, LinkStep(a)
  PROVE  [Promise(a)!Next]_(Promise(a)!vars)
<1> USE DEF OpenLink, PromisedOutcomes
<1> DEFINE outcome == IF link[a] \in {"none"} \cup OpenLink THEN "open" ELSE link[a]
           paidInFull == gateway[a] = "paid"
           announced == [o \in {"paid", "expired", "cancelled"} |->
                           IF link[a] = o /\ news[a] = "heard" THEN 1 ELSE 0]
<1>1. CASE LinkStays(a) \/ LinkIsMade(a) \/ NewsIsLost(a)
  <2>1. outcome' = outcome /\ paidInFull' = paidInFull
    BY <1>1 DEF LinkStays, LinkIsMade, NewsIsLost, SamePaid
  <2>2. announced' = announced
    BY <1>1 DEF LinkStays, LinkIsMade, NewsIsLost
  <2> QED
    BY <2>1, <2>2 DEF Promise!vars
<1>2. CASE LinkIsPaid(a)
  BY <1>2 DEF LinkIsPaid, Promise!Pay, Promise!Next
<1>3. ASSUME LinkIsSettled(a) \/ LinkIsRefused(a)
      PROVE  Promise(a)!Next
  <2>1. /\ outcome = "open" /\ outcome' = link'[a] /\ paidInFull' = paidInFull
        /\ link'[a] = "paid" => paidInFull
    BY <1>3 DEF LinkIsSettled, LinkIsRefused, SamePaid
  <2>2. announced' = announced
    BY <1>3 DEF LinkIsSettled, LinkIsRefused
  <2>3. link'[a] \in {"paid", "expired", "cancelled", "failed"}
    BY <1>3 DEF LinkIsSettled, LinkIsRefused
  <2>4. Promise(a)!Settle(link'[a])
    BY <2>1, <2>2 DEF Promise!Settle
  <2> QED
    BY <2>3, <2>4 DEF Promise!Next, Promise!Outcomes
<1>4. ASSUME LinkIsHeard(a)
      PROVE  Promise(a)!Next
  <2>1. PICK o \in {"paid", "expired", "cancelled"} : o = link[a]
    BY <1>4 DEF LinkIsHeard
  <2>2. Promise(a)!Announce(o)
    BY <1>4, <2>1 DEF LinkIsHeard, SamePaid, Promise!Announce
  <2> QED
    BY <2>2 DEF Promise!Next, Promise!Outcomes
<1> QED
  BY <1>1, <1>2, <1>3, <1>4 DEF LinkStep

\* Every link of the order behaves as the payments app promises: what is
\* proved about the order rests on no link that app would not produce.
THEOREM LinksAreAsPromised == Spec => LinksKeepPromise
<1>1. Init => \A a \in Attempts : Promise(a)!Init
  BY PromiseInit
<1>2. CheckoutInv /\ [Next]_vars =>
        [\A a \in Attempts : [Promise(a)!Next]_(Promise(a)!vars)]_vars
  BY LinkSteps, PromiseStep, TypesByPart DEF CheckoutInv, LinksInv
<1> QED
  BY <1>1, <1>2, CheckoutInductive, PTL DEF Spec, LinksKeepPromise
-----------------------------------------------------------------------------
(* As long as the gateway answers and nothing is lost.                      *)
Calm == ~GatewayFaults /\ MaxLosses = 0

(* A link whose end the order has heard, and that nobody can pay any more   *)
(* unless it is orphaned.                                                   *)
Over(a) ==
  /\ link[a] \in {"expired", "cancelled"} /\ news[a] = "heard"
  /\ a \in orphaned \/ gateway[a] \in {"none", "closed"}

(* The task of an attempt runs once, and the gateway has what the row says, *)
(* but for orphaned links.                                                  *)
CalmLink(a) ==
  /\ task[a] \in {"none", "queued", "started"} => link[a] = "none"
  /\ task[a] = "calling" => link[a] \in {"creating", "cancelled"}
  /\ task[a] = "calling" \/ link[a] \in {"none", "creating"} => gateway[a] = "none"
  /\ task[a] # "failing"
  /\ link[a] = "creating" => task[a] = "calling"
  /\ link[a] = "created" => gateway[a] # "none"
  /\ gateway[a] = "open" => link[a] = "created" \/ a \in orphaned
  /\ link[a] \in {"expired", "cancelled"} => gateway[a] \in {"none", "closed"} \/ a \in orphaned

(* A new attempt is made, and cash is promised, when the others are over.   *)
CalmAttempt(a) ==
  /\ a > attempt => task[a] = "none"
  /\ a < attempt => Over(a)
  /\ a = attempt /\ status \in Deciding => Over(a)
  /\ a = attempt /\ payStatus \in {"cod_pending", "cod_collected"} => Over(a)

(* A cancelled order's link is about to be cancelled.                       *)
Withdrawn(a) ==
  status = "cancelled" /\ link[a] = "created" =>
    cancelDue \/ a \in cancelling \/ task[a] = "sending"

CalmInv == \A a \in Attempts : CalmLink(a) /\ CalmAttempt(a) /\ Withdrawn(a)

LEMMA NothingIsLost ==
  ASSUME Calm, JobTypes
  PROVE  ~Losses
BY DEF Calm, JobTypes, Losses, Lose, LoseNews, LoseTask, LoseCancellation, LoseExpiry

LEMMA CalmLinkCloses ==
  ASSUME Calm, JobTypes, LinksInv, NEW x \in Attempts, CalmLink(x), Closes(x)
  PROVE  \/ UNCHANGED links
         \/ /\ link[x] \in OpenLink /\ news' = Set(news, x, "due") /\ UNCHANGED gateway
            /\ \/ link' = Set(link, x, "paid") /\ link[x] = "created" /\ gateway[x] = "paid"
               \/ /\ link' = Set(link, x, "cancelled")
                  /\ x \in orphaned' \/ gateway[x] \in {"none", "closed"}
<1>1. CASE CancelLink(x)
  <2>1. link[x] = "created" /\ gateway[x] \in {"paid", "closed"} /\ UNCHANGED gateway
    BY <1>1 DEF CancelLink, CalmLink, Calm, LinksInv, LinkTypes
  <2>2. LinkSettles(x, IF gateway[x] = "paid" THEN "paid" ELSE "cancelled")
    BY <1>1 DEF CancelLink, Calm
  <2> QED
    BY <2>1, <2>2 DEF LinkSettles, OpenLink
<1>2. ASSUME CancelBlind(x) \/ ExpiryClosesBlind(x), ~UNCHANGED links
      PROVE  /\ link[x] \in OpenLink /\ news' = Set(news, x, "due") /\ UNCHANGED gateway
             /\ link' = Set(link, x, "cancelled")
             /\ x \in orphaned' \/ gateway[x] \in {"none", "closed"}
  <2>1. /\ link[x] \in OpenLink /\ news' = Set(news, x, "due") /\ UNCHANGED gateway
        /\ link' = Set(link, x, "cancelled")
    BY <1>2 DEF CancelBlind, ExpiryClosesBlind, CloseLocally, LinkSettles
  <2>2. CASE link[x] = "creating"
    BY <2>1, <2>2 DEF CalmLink
  <2>3. CASE link[x] = "created"
    BY <1>2, <2>3, <2>1 DEF CancelBlind, ExpiryClosesBlind, CloseLocally, OpenLink
  <2> QED
    BY <2>1, <2>2, <2>3 DEF OpenLink
<1>3. CASE ~CancelLink(x) /\ ~CancelBlind(x) /\ ~ExpiryClosesBlind(x)
  BY <1>3 DEF Closes, CancelListed, ExpiryCancels, CancelLinkFails
<1> QED
  BY <1>1, <1>2, <1>3

LEMMA NothingIsForgotten ==
  ASSUME [Next]_vars
  PROVE  orphaned \subseteq orphaned'
<1>1. CASE UNCHANGED orphaned
  BY <1>1
<1>2. ASSUME NEW a \in Attempts, CloseLocally(a)
      PROVE  orphaned \subseteq orphaned'
  BY <1>2 DEF CloseLocally
<1>3. CASE Cancellation
  BY <1>1, <1>2, <1>3 DEF Cancellation, ListOpenLinks, CancelReadsNoId, CancelListed, CancelBlind
<1>4. CASE Expiry
  BY <1>1, <1>2, <1>4 DEF Expiry, ExpiryStarts, ExpiryListsLinks, ExpiryReadsNoId, ExpiryExpires,
                          ExpiryCancels, ExpiryClosesBlind, jobs, closing
<1>5. CASE Losses
  BY <1>1, <1>5 DEF Losses, LoseNews, LoseTask, LoseCancellation, LoseExpiry, jobs, closing
<1>6. CASE Seller
  BY <1>1, <1>6, Zenon DEF Seller, SellerCancels, SellerMoves, MarkCodCollected, MarkBalancePaid,
                    MarkRefunded, SellerRecords, CancelOrder, jobs, closing
<1>7. CASE Buyer
  BY <1>1, <1>7, Zenon DEF Buyer, ConfirmPrices, GiveDetails, AnswerAgain, ChooseOnline, ChooseCod,
                    ChooseShop, BuyerCancels, BuyerPays, CancelOrder, jobs, closing
<1>8. CASE Shelf \/ DeadlinePasses
  BY <1>1, <1>8 DEF Shelf, OthersReserve, OthersRelease, SellerStartsTracking, DeadlinePasses,
                    jobs, closing
<1>9. ASSUME NEW a \in Attempts,
             Task(a) \/ Receivers(a) \/ PaymentFound(a) \/ LinkEnds(a) \/ Remind(a) \/ GatewayCancels(a)
      PROVE  UNCHANGED orphaned
  BY <1>9, Zenon DEF Task, TaskReadsOrder, TaskCreates, TaskHasNoAccount, GatewayAnswers, GatewayFails,
                    TaskSends, TaskFails, Receivers, HearPaid, HearClosed, PaymentFound, LinkEnds,
                    Remind, GatewayCancels, jobs, closing
<1>10. CASE UNCHANGED vars
  BY <1>1, <1>10 DEF vars, jobs, closing
<1> QED
  BY <1>1, <1>3, <1>4, <1>5, <1>6, <1>7, <1>8, <1>9, <1>10 DEF Next

LEMMA CalmLinkStep ==
  ASSUME Calm, OrderTypes, OrderFacts, JobTypes, LinksInv, CalmInv, [Next]_vars, NEW a \in Attempts
  PROVE  CalmLink(a)'
<1> \A x \in Attempts : CalmLink(x) /\ LinkFacts(x)
  BY DEF CalmInv, LinksInv
<1> orphaned \subseteq orphaned'
  BY NothingIsForgotten
<1> LinkTypes /\ TaskTypes
  BY DEF LinksInv
<1> USE DEF Set, LinkTypes, TaskTypes
<1>1. CASE UNCHANGED <<link, gateway, task>>
  BY <1>1 DEF CalmLink
<1>2. ASSUME NEW advance \in BOOLEAN, ChooseOnline(advance)
      PROVE  CalmLink(a)'
  <2>1. /\ attempt + 1 \in Attempts /\ task' = [task EXCEPT ![attempt + 1] = "queued"]
        /\ UNCHANGED <<link, gateway>>
    BY <1>2, LimitsAssumption DEF ChooseOnline, Attempts, OrderTypes, links
  <2>2. task[attempt + 1] = "none"
    BY <2>1, LimitsAssumption DEF CalmInv, CalmAttempt, OrderTypes
  <2> QED
    BY <2>1, <2>2 DEF CalmLink
<1>3. ASSUME NEW x \in Attempts, BuyerPays(x)
      PROVE  CalmLink(a)'
  BY <1>3 DEF BuyerPays, tasks, CalmLink
<1>4. ASSUME NEW x \in Attempts, PaymentFound(x) \/ LinkEnds(x)
      PROVE  CalmLink(a)'
  BY <1>4 DEF PaymentFound, LinkEnds, LinkSettles, tasks, CalmLink, Calm
<1>5. ASSUME NEW x \in Attempts, Closes(x), ~UNCHANGED links
      PROVE  CalmLink(a)'
  <2>0. UNCHANGED <<task, gateway>>
    BY <1>5, ClosesLinks, CalmLinkCloses DEF tasks
  <2>1. CASE x = a
    BY <1>5, <2>0, <2>1, CalmLinkCloses DEF CalmLink, OpenLink
  <2>2. CASE x # a
    <3>1. link'[a] = link[a]
      BY <1>5, <2>2, CalmLinkCloses
    <3> QED
      BY <2>0, <3>1 DEF CalmLink
  <2> QED
    BY <2>1, <2>2
<1>6. ASSUME NEW x \in Attempts, TaskReadsOrder(x)
      PROVE  CalmLink(a)'
  BY <1>6 DEF TaskReadsOrder, CalmLink
<1>7. ASSUME NEW x \in Attempts, TaskCreates(x)
      PROVE  CalmLink(a)'
  BY <1>7 DEF TaskCreates, CalmLink
<1>8. ASSUME NEW x \in Attempts, GatewayAnswers(x)
      PROVE  CalmLink(a)'
  BY <1>8 DEF GatewayAnswers, CalmLink, Calm
<1>9. ASSUME NEW x \in Attempts, TaskSends(x)
      PROVE  CalmLink(a)'
  BY <1>9 DEF TaskSends, CalmLink
<1>10. ASSUME NEW x \in Attempts, LinkMoves(x)
       PROVE  \/ UNCHANGED <<link, gateway, task>>
              \/ BuyerPays(x) \/ PaymentFound(x) \/ LinkEnds(x) \/ GatewayCancels(x)
              \/ (Closes(x) /\ ~UNCHANGED links) \/ TaskReadsOrder(x) \/ TaskCreates(x) \/ GatewayAnswers(x) \/ TaskSends(x)
  <2>1. ~TaskHasNoAccount(x) /\ ~GatewayFails(x) /\ ~TaskFails(x)
    BY DEF Calm, TaskHasNoAccount, GatewayFails, TaskFails, CalmLink
  <2>2. ~LoseNews(x) /\ ~LoseTask(x)
    BY NothingIsLost DEF Losses
  <2>3. CASE Closes(x)
    BY <2>3, ClosesLinks, Zenon DEF links, tasks
  <2> QED
    BY <1>10, <2>1, <2>2, <2>3, Zenon
       DEF LinkMoves, Remind, Task, Receivers, HearPaid, HearClosed, links, tasks
<1>11. ASSUME NEW x \in Attempts, GatewayCancels(x)
       PROVE  CalmLink(a)'
  BY <1>11 DEF GatewayCancels, tasks, CalmLink
<1> QED
  BY <1>1, <1>2, <1>3, <1>4, <1>5, <1>6, <1>7, <1>8, <1>9, <1>10, <1>11, OtherStepsLeaveLinks
     DEF linkVars, links, tasks

LEMMA OverStays ==
  ASSUME Calm, JobTypes, LinksInv, CalmInv, [Next]_vars, NEW a \in Attempts, Over(a)
  PROVE  Over(a)'
<1> LinkTypes /\ TaskTypes
  BY DEF LinksInv
<1> orphaned \subseteq orphaned'
  BY NothingIsForgotten
<1> USE DEF Set, LinkTypes, Over
<1>1. CASE UNCHANGED <<link, gateway, news>>
  BY <1>1
<1>2. ASSUME NEW x \in Attempts, LinkMoves(x), x # a
      PROVE  UNCHANGED <<link[a], gateway[a], news[a]>>
  <2>1. CASE Closes(x) \/ GatewayCancels(x)
    <3>1. CASE Closes(x)
      BY <1>2, <3>1, LinkCloses DEF LinkSettles, links
    <3>2. CASE GatewayCancels(x)
      BY <1>2, <3>2 DEF GatewayCancels
    <3> QED
      BY <2>1, <3>1, <3>2
  <2>2. CASE HearPaid(x) \/ HearClosed(x) \/ LoseNews(x)
    BY <1>2, <2>2 DEF HearPaid, HearClosed, Hear, LoseNews
  <2>3. CASE BuyerPays(x) \/ PaymentFound(x) \/ LinkEnds(x)
    BY <1>2, <2>3 DEF BuyerPays, PaymentFound, LinkEnds, LinkSettles
  <2>4. CASE TaskCreates(x) \/ GatewayAnswers(x) \/ GatewayFails(x)
    BY <1>2, <2>4 DEF TaskCreates, GatewayAnswers, GatewayFails
  <2>5. CASE ~(Closes(x) \/ GatewayCancels(x)) /\ ~(HearPaid(x) \/ HearClosed(x) \/ LoseNews(x))
             /\ ~(BuyerPays(x) \/ PaymentFound(x) \/ LinkEnds(x))
             /\ ~(TaskCreates(x) \/ GatewayAnswers(x) \/ GatewayFails(x))
    <3>1. UNCHANGED <<link, gateway, news>>
      BY <1>2, <2>5, Zenon
         DEF LinkMoves, Remind, Task, TaskReadsOrder, TaskHasNoAccount, TaskSends, TaskFails,
             Receivers, LoseTask, links
    <3> QED
      BY <3>1
  <2> QED
    BY <2>1, <2>2, <2>3, <2>4, <2>5
<1>3. ASSUME LinkMoves(a)
      PROVE  Over(a)'
  <2>1. ~GatewayFails(a) /\ ~LoseNews(a)
    BY NothingIsLost DEF Calm, GatewayFails, Losses
  <2>2. ~GatewayCancels(a) /\ ~HearPaid(a) /\ ~HearClosed(a) /\ ~PaymentFound(a) /\ ~LinkEnds(a)
    BY DEF GatewayCancels, HearPaid, HearClosed, Hear, PaymentFound, LinkEnds
  <2>6. CASE Closes(a)
    BY <2>6, LinkCloses DEF OpenLink, links
  <2>7. CASE BuyerPays(a)
    BY <2>7 DEF BuyerPays
  <2>3. CASE TaskCreates(a)
    BY <2>3 DEF TaskCreates
  <2>4. CASE GatewayAnswers(a)
    BY <2>4 DEF GatewayAnswers, Calm
  <2>5. CASE ~TaskCreates(a) /\ ~GatewayAnswers(a) /\ ~Closes(a) /\ ~BuyerPays(a)
    <3>1. UNCHANGED <<link, gateway, news>>
      BY <1>3, <2>1, <2>2, <2>5, Zenon
         DEF LinkMoves, Remind, Task, TaskReadsOrder, TaskHasNoAccount, TaskSends, TaskFails,
             Receivers, LoseTask, links
    <3> QED
      BY <3>1
  <2> QED
    BY <2>3, <2>4, <2>5, <2>6, <2>7
<1>4. ASSUME NEW advance \in BOOLEAN, ChooseOnline(advance)
      PROVE  UNCHANGED <<link, gateway, news>>
  BY <1>4 DEF ChooseOnline, links
<1>5. CASE \E x \in Attempts : LinkMoves(x)
  BY <1>2, <1>3, <1>5
<1> QED
  BY <1>1, <1>4, <1>5, OtherStepsLeaveLinks DEF linkVars, links

(* Only the link of the current attempt is on its way, paid or payable.     *)
LEMMA OnlyTheCurrentLink ==
  ASSUME OrderTypes, CalmInv, NEW a \in Attempts, link[a] # "none", ~Over(a)
  PROVE  a = attempt
<1>1. CalmLink(a) /\ CalmAttempt(a)
  BY DEF CalmInv
<1>2. attempt \in Int /\ a \in Int
  BY LimitsAssumption DEF OrderTypes, Attempts
<1> QED
  BY <1>1, <1>2 DEF CalmLink, CalmAttempt

(* How a step moves the attempts.                                           *)
LEMMA TasksBegin ==
  ASSUME OrderTypes, TaskTypes, [Next]_vars, NEW a \in Attempts, task[a] = "none"
  PROVE  task'[a] = "none" \/ (a = attempt + 1 /\ \E advance \in BOOLEAN : ChooseOnline(advance))
<1> USE DEF Set, TaskTypes
<1>1. CASE UNCHANGED task
  BY <1>1
<1>2. ASSUME NEW advance \in BOOLEAN, ChooseOnline(advance)
      PROVE  task'[a] = "none" \/ a = attempt + 1
  BY <1>2 DEF ChooseOnline
<1>3. ASSUME NEW x \in Attempts, Task(x) \/ LoseTask(x)
      PROVE  task'[a] = "none"
  <2>1. x # a
    BY <1>3 DEF Task, TaskReadsOrder, TaskCreates, TaskHasNoAccount, GatewayAnswers, GatewayFails,
                TaskSends, TaskFails, LoseTask
  <2> QED
    BY <1>3, <2>1 DEF Task, TaskReadsOrder, TaskCreates, TaskHasNoAccount, GatewayAnswers,
                GatewayFails, TaskSends, TaskFails, LoseTask, Fail, RetryOrFail
<1>4. ASSUME NEW x \in Attempts, LinkMoves(x), ~Task(x), ~LoseTask(x)
      PROVE  UNCHANGED task
  BY <1>4, ClosesLinks, Zenon
     DEF LinkMoves, BuyerPays, PaymentFound, LinkEnds, Remind, Receivers, HearPaid,
         HearClosed, GatewayCancels, LoseNews, tasks
<1> QED
  BY <1>1, <1>2, <1>3, <1>4, OtherStepsLeaveLinks DEF linkVars, tasks

LEMMA AttemptsBegin ==
  ASSUME [Next]_vars, ~\E advance \in BOOLEAN : ChooseOnline(advance)
  PROVE  UNCHANGED attempt
BY OtherStepsLeaveOrder, Zenon
   DEF OrderMoves, ConfirmPrices, GiveDetails, AnswerAgain, ChooseCod, ChooseShop, BuyerCancels,
       Seller, SellerCancels, CancelOrder, SellerMoves, MarkCodCollected, MarkBalancePaid,
       MarkRefunded, SellerRecords, DeadlinePasses, ExpiryExpires, TaskFails, Receivers, HearPaid,
       HearClosed, order

(* The buyer chooses again, or pays in cash, when the attempt is over.      *)
LEMMA DecidingAgain ==
  ASSUME Calm, OrderTypes, OrderFacts, JobTypes, LinksInv, CalmInv, [Next]_vars,
         status' \in Deciding, NEW a \in Attempts, a = attempt
  PROVE  Over(a)'
<1>1. CASE status \in Deciding
  <2>1. Over(a)
    BY <1>1 DEF CalmInv, CalmAttempt
  <2> QED
    BY <2>1, OverStays
<1>2. ASSUME status \notin Deciding
      PROVE  \E x \in Attempts : HearClosed(x) /\ status = "pending_payment"
  <2>1. ~UNCHANGED order
    BY <1>2 DEF order
  <2>2. ~ConfirmPrices /\ ~GiveDetails /\ ~AnswerAgain
    BY <1>2 DEF ConfirmPrices, GiveDetails, AnswerAgain, Deciding, CheckoutStatuses, FirstStep
  <2>3. ~(\E advance \in BOOLEAN : ChooseOnline(advance)) /\ ~ChooseCod /\ ~ChooseShop
        /\ ~DeadlinePasses
    BY <1>2 DEF ChooseOnline, ChooseCod, ChooseShop, MoveTo, Deciding, CheckoutStatuses,
                DeadlinePasses
  <2>4. ~BuyerCancels /\ ~ExpiryExpires
    BY <1>2 DEF BuyerCancels, CancelOrder, ExpiryExpires, MoveTo, Deciding, CheckoutStatuses
  <2>5. ~Seller
    BY <1>2, ManualMoves DEF Seller, SellerCancels, CancelOrder, SellerMoves, MarkCodCollected,
                MarkBalancePaid, MarkRefunded, SellerRecords, MoveTo, Deciding, CheckoutStatuses
  <2>6. \A x \in Attempts : ~TaskFails(x)
    BY DEF TaskFails, CalmInv, CalmLink
  <2>7. \A x \in Attempts : ~HearPaid(x)
    BY <1>2 DEF HearPaid, Revives, MoveTo, order, Done, Deciding, CheckoutStatuses
  <2>8. PICK x \in Attempts : HearClosed(x)
    BY <2>1, <2>2, <2>3, <2>4, <2>5, <2>6, <2>7, OtherStepsLeaveOrder DEF OrderMoves, Receivers
  <2> QED
    BY <1>2, <2>8 DEF HearClosed
<1>3. ASSUME NEW x \in Attempts, HearClosed(x)
      PROVE  Over(a)'
  <2>1. link[x] # "none" /\ ~Over(x)
    BY <1>3 DEF HearClosed, Hear, Over
  <2>2. x = a
    BY <2>1, OnlyTheCurrentLink
  <2>3. CalmLink(a) /\ orphaned \subseteq orphaned'
    BY NothingIsForgotten DEF CalmInv
  <2> QED
    BY <1>3, <2>2, <2>3 DEF HearClosed, Hear, Set, LinksInv, LinkTypes, Over, CalmLink
<1> QED
  BY <1>1, <1>2, <1>3

LEMMA PaidInCash ==
  ASSUME Calm, OrderTypes, OrderFacts, JobTypes, LinksInv, CalmInv, [Next]_vars,
         payStatus' \in {"cod_pending", "cod_collected"}, NEW a \in Attempts, a = attempt
  PROVE  Over(a)'
<1>1. CASE payStatus \in {"cod_pending", "cod_collected"}
  <2>1. Over(a)
    BY <1>1 DEF CalmInv, CalmAttempt
  <2> QED
    BY <2>1, OverStays
<1>2. CASE ChooseCod \/ ChooseShop
  <2>1. status \in Deciding
    BY <1>2 DEF ChooseCod, ChooseShop, Deciding, CheckoutStatuses
  <2>2. Over(a)
    BY <2>1 DEF CalmInv, CalmAttempt
  <2> QED
    BY <2>2, OverStays
<1>3. CASE UNCHANGED payStatus
  BY <1>1, <1>3
<1>4. CASE MarkCodCollected \/ MarkBalancePaid \/ MarkRefunded
  BY <1>1, <1>4 DEF MarkCodCollected, MarkBalancePaid, MarkRefunded, SellerRecords
<1>5. ASSUME NEW x \in Attempts, HearPaid(x)
      PROVE  UNCHANGED payStatus
  BY <1>5 DEF HearPaid, order, money
<1> QED
  BY <1>1, <1>2, <1>3, <1>4, <1>5, OtherStepsLeaveOrder, Zenon
     DEF OrderMoves, ConfirmPrices, GiveDetails, AnswerAgain, ChooseOnline, BuyerCancels, Seller,
         SellerCancels, CancelOrder, SellerMoves, DeadlinePasses, ExpiryExpires, TaskFails,
         Receivers, HearClosed, order, money

LEMMA CalmAttemptStep ==
  ASSUME Calm, OrderTypes, OrderFacts, JobTypes, LinksInv, CalmInv, [Next]_vars, NEW a \in Attempts
  PROVE  CalmAttempt(a)'
<1> LinkTypes /\ TaskTypes /\ CalmAttempt(a)
  BY DEF LinksInv, CalmInv
<1> attempt \in Int /\ a \in Int
  BY LimitsAssumption DEF OrderTypes, Attempts
<1>1. CASE \E advance \in BOOLEAN : ChooseOnline(advance)
  <2>1. /\ attempt' = attempt + 1 /\ status' = "pending_payment"
        /\ status \in Deciding /\ status \in Before /\ UNCHANGED payStatus
    BY <1>1 DEF ChooseOnline, MoveTo, Deciding, Before, CheckoutStatuses
  <2>2. payStatus' = "unpaid"
    BY <2>1 DEF OrderFacts
  <2>3. a > attempt' => task'[a] = "none"
    BY <2>1, TasksBegin DEF CalmAttempt
  <2>4. a < attempt' => Over(a)'
    BY <2>1, OverStays DEF CalmAttempt
  <2> QED
    BY <2>1, <2>2, <2>3, <2>4 DEF CalmAttempt, Deciding
<1>2. CASE ~\E advance \in BOOLEAN : ChooseOnline(advance)
  <2>1. attempt' = attempt
    BY <1>2, AttemptsBegin
  <2>2. a > attempt' => task'[a] = "none"
    BY <1>2, <2>1, TasksBegin DEF CalmAttempt
  <2>3. a < attempt' => Over(a)'
    BY <2>1, OverStays DEF CalmAttempt
  <2> QED
    BY <2>1, <2>2, <2>3, DecidingAgain, PaidInCash DEF CalmAttempt
<1> QED
  BY <1>1, <1>2

LEMMA CancelledByCancelOrder ==
  ASSUME OrderTypes, [Next]_vars, status' = "cancelled"
  PROVE  status = "cancelled" \/ cancelDue' = TRUE
<1>1. CASE UNCHANGED status
  BY <1>1
<1>2. CASE BuyerCancels
  BY <1>2 DEF BuyerCancels, CancelOrder
<1>3. CASE Seller
  <2>1. CASE \E restock \in BOOLEAN : SellerCancels(restock)
    BY <2>1 DEF SellerCancels, CancelOrder
  <2>2. CASE \E to \in Statuses : SellerMoves(to)
    BY <2>2 DEF SellerMoves, MoveTo
  <2>3. CASE MarkCodCollected \/ MarkBalancePaid \/ MarkRefunded
    BY <1>1, <2>3 DEF MarkCodCollected, MarkBalancePaid, MarkRefunded, SellerRecords
  <2> QED
    BY <1>3, <2>1, <2>2, <2>3 DEF Seller
<1>4. CASE ConfirmPrices \/ GiveDetails \/ AnswerAgain \/ (\E advance \in BOOLEAN : ChooseOnline(advance))
           \/ ChooseCod \/ ChooseShop \/ DeadlinePasses \/ ExpiryExpires
  BY <1>4 DEF ConfirmPrices, GiveDetails, AnswerAgain, ChooseOnline, ChooseCod, ChooseShop,
              DeadlinePasses, ExpiryExpires, MoveTo, FirstStep
<1>5. ASSUME NEW x \in Attempts, TaskFails(x) \/ HearClosed(x) \/ HearPaid(x)
      PROVE  status = "cancelled" \/ cancelDue' = TRUE
  BY <1>5 DEF TaskFails, HearClosed, HearPaid, MoveTo, Done, order
<1> QED
  BY <1>1, <1>2, <1>3, <1>4, <1>5, OtherStepsLeaveOrder DEF OrderMoves, Receivers, order

(* What was to be cancelled is cancelled, or stays to be.                   *)
LEMMA WithdrawnStays ==
  ASSUME Calm, JobTypes, LinksInv, CalmInv, [Next]_vars, NEW a \in Attempts,
         status = "cancelled", link[a] = "created", link'[a] = "created",
         cancelDue \/ a \in cancelling \/ task[a] = "sending"
  PROVE  cancelDue' \/ a \in cancelling' \/ task'[a] = "sending"
<1> LinkTypes /\ TaskTypes
  BY DEF LinksInv
<1> USE DEF Set
<1>0. ~Losses
  BY NothingIsLost
<1>1. CASE ListOpenLinks
  BY <1>1 DEF ListOpenLinks, OpenLinks, OpenLink, tasks
<1>2. ASSUME NEW x \in Attempts, CancelListed(x)
      PROVE  cancelDue' \/ a \in cancelling' \/ task'[a] = "sending"
  <2>1. x # a
    BY <1>2 DEF CancelListed, CancelLink, LinkSettles, CancelLinkFails, OpenLink, LinkTypes, Calm
  <2> QED
    BY <1>2, <2>1 DEF CancelListed, tasks
<1>13. ASSUME NEW x \in Attempts, CancelReadsNoId(x)
       PROVE  cancelDue' \/ a \in cancelling' \/ task'[a] = "sending"
  <2>1. x # a
    BY <1>13 DEF CancelReadsNoId
  <2> QED
    BY <1>13, <2>1 DEF CancelReadsNoId, tasks
<1>3. ASSUME NEW x \in Attempts, TaskSends(x)
      PROVE  cancelDue' \/ a \in cancelling' \/ task'[a] = "sending"
  <2>1. cancelDue' = TRUE
    BY <1>3 DEF TaskSends, Current
  <2> QED
    BY <2>1
<1>4. ASSUME NEW x \in Attempts, TaskReadsOrder(x) \/ TaskCreates(x) \/ GatewayAnswers(x) \/ TaskFails(x)
      PROVE  UNCHANGED jobs /\ (task[a] = "sending" => task'[a] = "sending")
  BY <1>4 DEF TaskReadsOrder, TaskCreates, GatewayAnswers, TaskFails, Fail, RetryOrFail, TaskTypes
<1>5. ASSUME NEW x \in Attempts, TaskHasNoAccount(x) \/ GatewayFails(x)
      PROVE  FALSE
  BY <1>5 DEF TaskHasNoAccount, GatewayFails, Calm
<1>6. ASSUME NEW x \in Attempts, HearPaid(x)
      PROVE  UNCHANGED <<cancelling, tasks>> /\ (cancelDue' = TRUE \/ UNCHANGED cancelDue)
  BY <1>6 DEF HearPaid, closing
<1>7. ASSUME NEW who \in {"buyer", "seller"}, NEW restock \in BOOLEAN, CancelOrder(who, restock)
      PROVE  cancelDue' = TRUE
  BY <1>7 DEF CancelOrder
<1>8. CASE \E advance \in BOOLEAN : ChooseOnline(advance)
  BY <1>8 DEF ChooseOnline
<1>9. CASE UNCHANGED <<cancelDue, cancelling, tasks>>
  BY <1>9 DEF tasks
<1>10. \/ UNCHANGED <<cancelDue, cancelling, tasks>> \/ ListOpenLinks
       \/ (\E x \in Attempts : CancelListed(x) \/ CancelReadsNoId(x))
       \/ (\E x \in Attempts : TaskSends(x) \/ TaskReadsOrder(x) \/ TaskCreates(x)
             \/ GatewayAnswers(x) \/ TaskFails(x) \/ TaskHasNoAccount(x) \/ GatewayFails(x)
             \/ HearPaid(x))
       \/ BuyerCancels \/ (\E restock \in BOOLEAN : SellerCancels(restock))
       \/ (\E advance \in BOOLEAN : ChooseOnline(advance))
  BY <1>0, Zenon
     DEF Next, vars, Buyer, Seller, Shelf, Task, Receivers, Cancellation, Expiry, ConfirmPrices,
         GiveDetails, AnswerAgain, ChooseCod, ChooseShop, BuyerPays, SellerMoves,
         MarkCodCollected, MarkBalancePaid, MarkRefunded, SellerRecords, OthersReserve,
         OthersRelease, SellerStartsTracking, DeadlinePasses, PaymentFound, LinkEnds, Remind,
         GatewayCancels, HearClosed, CancelBlind, ExpiryStarts, ExpiryListsLinks, ExpiryReadsNoId,
         ExpiryExpires, ExpiryCancels, ExpiryClosesBlind, jobs, closing
<1>11. CASE UNCHANGED jobs /\ (task[a] = "sending" => task'[a] = "sending")
  BY <1>11 DEF jobs, closing
<1>12. ASSUME NEW x \in Attempts, HearPaid(x)
       PROVE  cancelDue' \/ a \in cancelling' \/ task'[a] = "sending"
  BY <1>6, <1>12 DEF tasks
<1> QED
  BY <1>1, <1>2, <1>3, <1>4, <1>5, <1>7, <1>8, <1>9, <1>10, <1>11, <1>12, <1>13
     DEF BuyerCancels, SellerCancels

LEMMA CreatedByAnswer ==
  ASSUME LinksInv, [Next]_vars, NEW a \in Attempts, link[a] # "created", link'[a] = "created"
  PROVE  task'[a] = "sending"
<1> LinkTypes /\ TaskTypes
  BY DEF LinksInv
<1> USE DEF Set, LinkTypes, TaskTypes
<1>1. CASE UNCHANGED link
  BY <1>1
<1>2. ASSUME NEW x \in Attempts, NEW o \in PromisedOutcomes, LinkSettles(x, o)
      PROVE  link'[a] # "created"
  BY <1>2 DEF LinkSettles, PromisedOutcomes
<1>3. ASSUME NEW x \in Attempts, TaskCreates(x) \/ GatewayFails(x)
      PROVE  link'[a] # "created"
  BY <1>3 DEF TaskCreates, GatewayFails
<1>4. ASSUME NEW x \in Attempts, GatewayAnswers(x)
      PROVE  task'[a] = "sending"
  BY <1>4 DEF GatewayAnswers
<1>5. ASSUME NEW x \in Attempts, LinkMoves(x)
      PROVE  \/ UNCHANGED link
             \/ \E o \in PromisedOutcomes : LinkSettles(x, o)
             \/ TaskCreates(x) \/ GatewayAnswers(x) \/ GatewayFails(x)
  <2>1. CASE Closes(x)
    BY <2>1, LinkCloses DEF PromisedOutcomes, links
  <2>2. CASE PaymentFound(x) \/ LinkEnds(x)
    BY <2>2 DEF PaymentFound, LinkEnds, PromisedOutcomes
  <2>3. CASE ~Closes(x) /\ ~(PaymentFound(x) \/ LinkEnds(x))
    BY <1>5, <2>3, Zenon
       DEF LinkMoves, BuyerPays, Remind, GatewayCancels, Task, TaskReadsOrder, TaskHasNoAccount,
           TaskSends, TaskFails, Receivers, HearPaid, HearClosed, LoseNews, LoseTask, links
  <2> QED
    BY <2>1, <2>2, <2>3
<1>6. ASSUME NEW advance \in BOOLEAN, ChooseOnline(advance)
      PROVE  UNCHANGED link
  BY <1>6 DEF ChooseOnline, links
<1> QED
  BY <1>1, <1>2, <1>3, <1>4, <1>5, <1>6, OtherStepsLeaveLinks DEF linkVars, links

LEMMA WithdrawnStep ==
  ASSUME Calm, OrderTypes, JobTypes, LinksInv, CalmInv, [Next]_vars, NEW a \in Attempts
  PROVE  Withdrawn(a)'
<1> SUFFICES ASSUME status' = "cancelled", link'[a] = "created"
             PROVE  cancelDue' \/ a \in cancelling' \/ task'[a] = "sending"
  BY DEF Withdrawn
<1>1. CASE status # "cancelled"
  <2>1. cancelDue' = TRUE
    BY <1>1, CancelledByCancelOrder
  <2> QED
    BY <2>1
<1>2. CASE status = "cancelled" /\ link[a] = "created"
  BY <1>2, WithdrawnStays DEF CalmInv, Withdrawn
<1>3. CASE link[a] # "created"
  BY <1>3, CreatedByAnswer
<1> QED
  BY <1>1, <1>2, <1>3

LEMMA CalmInvInit == Init => CalmInv
<1> SUFFICES ASSUME Init, NEW a \in Attempts
             PROVE  CalmLink(a) /\ CalmAttempt(a) /\ Withdrawn(a)
  BY DEF CalmInv
<1> attempt = 0 /\ a \in Nat /\ a > 0
  BY LimitsAssumption DEF Init, Attempts
<1> QED
  BY DEF Init, CalmLink, CalmAttempt, Withdrawn

\* The invariant of the calm: each task runs once and the gateway has what the row
\* says, unless a cancellation closed the row on what it had read before the id came;
\* a new attempt, or cash, is only chosen when the attempts before are over and the
\* order has heard so; and the link of a cancelled order is on somebody's list.
THEOREM CalmInductive == Calm /\ Spec => []CalmInv
<1> SUFFICES ASSUME Calm PROVE Spec => []CalmInv
  OBVIOUS
<1>1. CheckoutInv /\ CalmInv /\ [Next]_vars => CalmInv'
  <2> SUFFICES ASSUME CheckoutInv, CalmInv, [Next]_vars, NEW a \in Attempts
               PROVE  CalmLink(a)' /\ CalmAttempt(a)' /\ Withdrawn(a)'
    BY DEF CalmInv
  <2>1. OrderTypes /\ OrderFacts /\ JobTypes /\ LinksInv
    BY TypesByPart DEF CheckoutInv, LinksInv
  <2> QED
    BY <2>1, CalmLinkStep, CalmAttemptStep, WithdrawnStep
<1> QED
  BY <1>1, CalmInvInit, CheckoutInductive, PTL DEF Spec

\* As long as the gateway answers and no process is lost, a buyer who tries again and
\* again never has two links that can both be paid, and once everything that was
\* queued has run no link of a cancelled order can be paid, even one that was being
\* created while the order was cancelled.  Excepted are the links that
\* cancel_payment_link read before their id was saved and closed in the row alone
\* after it was: nothing makes up for those.
THEOREM OneLinkIsPayable ==
  ASSUME Calm
  PROVE  Spec => []PayableLinks
<1>1. CheckoutInv /\ CalmInv => AtMostOnePayable
  <2> SUFFICES ASSUME CheckoutInv, CalmInv PROVE AtMostOnePayable
    OBVIOUS
  <2> DEFINE InHand == {a \in Followed : sent[a] /\ gateway[a] = "open"}
  <2>1. OrderTypes
    BY TypesByPart DEF CheckoutInv
  <2>2. InHand \subseteq {attempt}
    <3> SUFFICES ASSUME NEW a \in InHand PROVE a = attempt
      OBVIOUS
    <3>1. a \in Attempts /\ link[a] # "none" /\ ~Over(a)
      BY DEF CalmInv, CalmLink, Over, Followed
    <3> QED
      BY <2>1, <3>1, OnlyTheCurrentLink
  <2>3. IsFiniteSet({attempt}) /\ Cardinality({attempt}) = 1
    BY FS_Singleton
  <2>4. Cardinality(InHand) <= 1
    BY <2>2, <2>3, FS_Subset
  <2> QED
    BY <2>4 DEF AtMostOnePayable
<1>2. CheckoutInv /\ CalmInv => CancelledIsNotPayable
  BY DEF CalmInv, CalmLink, Withdrawn, CancelledIsNotPayable, Settled, Followed
<1> QED
  BY <1>1, <1>2, CheckoutInductive, CalmInductive, PTL DEF PayableLinks
=============================================================================
