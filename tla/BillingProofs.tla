---------------------------- MODULE BillingProofs ----------------------------
(* What is proved about Billing for any plans, orders, subscriptions and    *)
(* concurrent requests: its types; a prepaid order is fulfilled once; what  *)
(* was paid in advance is taken away by nothing late, and a plan that ended *)
(* is revived by no late event; who has a plan pays for it, and who pays    *)
(* has one.                                                                 *)
EXTENDS Billing, FiniteSetTheorems, TLAPS

-----------------------------------------------------------------------------
(* Orders.  A row is stored after the gateway has the order, and what the   *)
(* gateway was paid for stays paid for.                                     *)
OrderTypes ==
  /\ row \in [Orders -> {"none", "created", "ended", "paid"}]
  /\ there \in [Orders -> {"none", "open", "terminating", "closed", "paid"}]
  /\ page \in [Orders -> {"idle", "found"}]
  /\ fulfilled \in [Orders -> Nat]

OrderFacts(o) ==
  /\ fulfilled[o] = IF row[o] = "paid" THEN 1 ELSE 0
  /\ row[o] = "paid" \/ page[o] = "found" => there[o] = "paid"
  /\ row[o] = "none" => there[o] = "none" /\ page[o] = "idle"

OrdersInv == OrderTypes /\ \A o \in Orders : OrderFacts(o)

(* What happens to the order of a step.                                     *)
OrderStep(o) ==
  \/ (\E p \in Plans : StartOrderCheckout(o, p)) \/ OwnerPays(o) \/ OrderLapses(o)
  \/ ReturnPage(o) \/ OrderWebhook(o)

LEMMA OtherStepsLeaveOrders ==
  ASSUME [BillingNext]_billingVars, ~\E o \in Orders : OrderStep(o)
  PROVE  UNCHANGED orderVars
BY Zenon DEF BillingNext, OrderStep, billingVars, orderVars, StartCheckout, CheckoutStored, CancelReads,
       CancelAsks, CancelStored, VerifyReads, VerifyStored, CancelQuietly, Authorise, RazorpayMoves,
       RazorpayEvent, PeriodPasses, TrialEnds, ExpireTrials, ExpirePrepaid

LEMMA FulfilledOnce ==
  ASSUME OrdersInv, NEW o \in Orders, FulfilOrder(o), there[o] = "paid", UNCHANGED there,
         page' = page \/ page' = [page EXCEPT ![o] = "idle"]
  PROVE  OrdersInv'
<1>1. CASE row[o] = "paid"
  <2>1. UNCHANGED <<row, fulfilled>>
    BY <1>1 DEF FulfilOrder
  <2> QED
    BY <2>1 DEF OrdersInv, OrderTypes, OrderFacts
<1>2. CASE row[o] # "paid"
  <2>1. row' = [row EXCEPT ![o] = "paid"] /\ fulfilled' = [fulfilled EXCEPT ![o] = fulfilled[o] + 1]
    BY <1>2 DEF FulfilOrder, Fulfils
  <2>2. fulfilled[o] = 0
    BY <1>2 DEF OrdersInv, OrderFacts
  <2>3. OrderTypes'
    BY <2>1 DEF OrdersInv, OrderTypes
  <2> QED
    BY <2>1, <2>2, <2>3 DEF OrdersInv, OrderTypes, OrderFacts
<1> QED
  BY <1>1, <1>2

LEMMA OrdersStep ==
  ASSUME OrdersInv, [BillingNext]_billingVars
  PROVE  OrdersInv'
<1>1. CASE UNCHANGED orderVars
  BY <1>1 DEF orderVars, OrdersInv, OrderTypes, OrderFacts
<1>2. ASSUME NEW o \in Orders, NEW p \in Plans, StartOrderCheckout(o, p)
      PROVE  OrdersInv'
  BY <1>2 DEF StartOrderCheckout, OrdersInv, OrderTypes, OrderFacts
<1>3. ASSUME NEW o \in Orders, OwnerPays(o) \/ OrderLapses(o)
      PROVE  OrdersInv'
  <2>1. PICK state \in {"paid", "terminating", "closed"} :
          there' = [there EXCEPT ![o] = state] /\ there[o] \in {"open", "terminating"}
    BY <1>3 DEF OwnerPays, OrderLapses
  <2>2. UNCHANGED <<row, page, fulfilled>>
    BY <1>3 DEF OwnerPays, OrderLapses
  <2> QED
    BY <2>1, <2>2 DEF OrdersInv, OrderTypes, OrderFacts
<1>4. ASSUME NEW o \in Orders, PageAsks(o)
      PROVE  OrdersInv'
  <2>1. /\ page[o] = "idle" /\ row[o] \in {"created", "ended"}
        /\ page' = [page EXCEPT ![o] = IF there[o] = "paid" THEN "found" ELSE page[o]]
        /\ row' = [row EXCEPT ![o] = IF there[o] \in {"terminating", "closed"} THEN "ended" ELSE row[o]]
        /\ UNCHANGED <<there, fulfilled>>
    BY <1>4 DEF PageAsks
  <2>2. OrderTypes'
    BY <2>1 DEF OrdersInv, OrderTypes
  <2> QED
    BY <2>1, <2>2 DEF OrdersInv, OrderTypes, OrderFacts
<1>5. ASSUME NEW o \in Orders, PageFulfils(o) \/ OrderWebhook(o)
      PROVE  OrdersInv'
  <2>1. there[o] = "paid"
    BY <1>5 DEF PageFulfils, OrderWebhook, OrdersInv, OrderFacts
  <2>2. FulfilOrder(o) /\ UNCHANGED there /\ (page' = page \/ page' = [page EXCEPT ![o] = "idle"])
    BY <1>5 DEF PageFulfils, OrderWebhook
  <2> QED
    BY <2>1, <2>2, FulfilledOnce
<1> QED
  BY <1>1, <1>2, <1>3, <1>4, <1>5, OtherStepsLeaveOrders DEF OrderStep, ReturnPage

LEMMA OrdersInit == BillingInit => OrdersInv
BY DEF BillingInit, OrdersInv, OrderTypes, OrderFacts

\* A prepaid order is fulfilled once, and only when it was paid, whatever the
\* return page and the repeated webhook of each order do at the same time.
THEOREM BillingFulfilsOnce == BillingSpec => []OrderFulfilledOnce
<1>1. BillingInit => OrdersInv
  BY OrdersInit
<1>2. OrdersInv /\ [BillingNext]_billingVars => OrdersInv'
  BY OrdersStep
<1>3. OrdersInv => OrderFulfilledOnce
  BY DEF OrdersInv, OrderFacts, OrderFulfilledOnce
<1> QED
  BY <1>1, <1>2, <1>3, PTL DEF BillingSpec

-----------------------------------------------------------------------------
(* The Subscription row.  A subscription at Razorpay is tracked only when   *)
(* its checkout was stored, and then Razorpay has offered it; a prepaid     *)
(* plan tracks none; and, reused checkouts apart, a subscription whose plan *)
(* has ended is tracked by no row but the one it ended.                     *)
Row == [status : SubStatuses, plan : Plans \cup {NoPlan}, prepaid : BOOLEAN,
        tracked : Subs \cup {NoSub}, activated : BOOLEAN, atEnd : BOOLEAN,
        checkout : Plans \cup {NoPlan}]
RzpStates == {"none", "created", "offered", "active", "pending", "halted", "lastcycle", "ended"}
Asked == [op : {"idle", "start", "cancel", "asked", "verify"}, id : Subs \cup {NoSub},
          plan : Plans \cup {NoPlan}, inCheckout : BOOLEAN, atPeriodEnd : BOOLEAN,
          atCycleEnd : BOOLEAN]

Offered(r) == rzp[r] \notin {"none", "created"}

GatewayTypes ==
  /\ rzp \in [Subs -> RzpStates]
  /\ request \in [Requests -> Asked]
  /\ planOf \in [Orders \cup Subs -> Plans \cup {NoPlan}]
RequestsKnow ==
  \A q \in Requests :
    /\ request[q].op = "start" => request[q].id \in Subs /\ rzp[request[q].id] # "none"
    /\ request[q].op = "verify" => request[q].id \in Subs
RowTypes == sub \in Row /\ left \in Nat /\ over \subseteq Subs
TrackedIsOffered == \A r \in Subs : r = sub.tracked \/ r \in over => Offered(r)
PrepaidTracksNone == sub.prepaid /\ sub.status = "active" => sub.tracked = NoSub
EndedStaysEnded == sub.tracked \in over \ reused => Ended(sub) /\ sub.activated

RowInv == RowTypes /\ TrackedIsOffered /\ PrepaidTracksNone /\ EndedStaysEnded
SubInv == GatewayTypes /\ RequestsKnow /\ RowInv

(* What has been paid there, and what is over, stays so.                    *)
PaidThere == {"active", "pending", "halted", "lastcycle", "ended"}
OverThere == {"lastcycle", "ended"}
PaymentsStayMade ==
  \A x \in Subs :
    /\ rzp[x] \in PaidThere => rzp'[x] \in PaidThere
    /\ rzp[x] \in OverThere => rzp'[x] \in OverThere
    /\ rzp[x] = "ended" => rzp'[x] = "ended"

LEMMA EndingThere ==
  ASSUME GatewayTypes, NEW r \in Subs, EndsThere(r)
  PROVE  /\ rzp' \in [Subs -> RzpStates]
         /\ \A x \in Subs : (Offered(x) => Offered(x)') /\ (rzp[x] # "none" => rzp'[x] # "none")
         /\ PaymentsStayMade
BY DEF EndsThere, GatewayTypes, RzpStates, Offered, PaymentsStayMade, PaidThere, OverThere

LEMMA WhoMovesRazorpay ==
  ASSUME [BillingNext]_billingVars
  PROVE  \/ UNCHANGED rzp
         \/ \E q \in Requests : (\E p \in Plans : StartCheckout(q, p)) \/ CheckoutStored(q) \/ CancelAsks(q)
         \/ \E r \in Subs : CancelQuietly(r) \/ Authorise(r) \/ RazorpayMoves(r)
BY Zenon
   DEF BillingNext, billingVars, orderVars, gatewayVars, StartOrderCheckout, OwnerPays, OrderLapses,
       ReturnPage, PageAsks, PageFulfils, OrderWebhook, CancelReads, CancelStored, VerifyReads,
       VerifyStored, RazorpayEvent, PeriodPasses, TrialEnds, ExpireTrials, ExpirePrepaid

LEMMA RzpStep ==
  ASSUME SubInv, [BillingNext]_billingVars
  PROVE  /\ rzp' \in [Subs -> RzpStates]
         /\ \A x \in Subs : (Offered(x) => Offered(x)') /\ (rzp[x] # "none" => rzp'[x] # "none")
         /\ PaymentsStayMade
<1>0. rzp \in [Subs -> RzpStates] /\ request \in [Requests -> Asked] /\ GatewayTypes
  BY DEF SubInv, GatewayTypes
<1>1. CASE UNCHANGED rzp
  BY <1>0, <1>1 DEF Offered, PaymentsStayMade, PaidThere, OverThere
<1>2. ASSUME NEW q \in Requests, NEW p \in Plans, StartCheckout(q, p)
      PROVE  UNCHANGED rzp \/ \E r \in Subs : rzp[r] = "none" /\ rzp' = [rzp EXCEPT ![r] = "created"]
  BY <1>2 DEF StartCheckout
<1>3. ASSUME NEW q \in Requests, CheckoutStored(q)
      PROVE  UNCHANGED rzp \/ \E r \in Subs : rzp' = [rzp EXCEPT ![r] = IF @ = "created" THEN "offered" ELSE @]
  <2>1. request[q].id \in Subs
    BY <1>3 DEF CheckoutStored, SubInv, RequestsKnow
  <2> QED
    BY <1>3, <2>1, Zenon DEF CheckoutStored
<1>4. ASSUME NEW q \in Requests, CancelAsks(q)
      PROVE  \/ UNCHANGED rzp
             \/ \E r \in Subs : EndsThere(r) \/ (rzp[r] = "active" /\ rzp' = [rzp EXCEPT ![r] = "lastcycle"])
  <2>1. request[q].id \in Subs \/ request[q].id = NoSub
    BY <1>0 DEF Asked
  <2> QED
    BY <1>4, <2>1, Zenon DEF CancelAsks
<1>5. ASSUME NEW r \in Subs, CancelQuietly(r) \/ Authorise(r) \/ RazorpayMoves(r)
      PROVE  \/ UNCHANGED rzp
             \/ EndsThere(r)
             \/ /\ rzp[r] \in {"offered", "active", "pending", "halted"}
                /\ \E to \in {"active", "pending", "halted"} : rzp' = [rzp EXCEPT ![r] = to]
  BY <1>5 DEF CancelQuietly, Authorise, RazorpayMoves
<1>6. ASSUME NEW r \in Subs, rzp[r] \in {"offered", "active", "pending", "halted"},
             NEW to \in {"active", "pending", "halted", "lastcycle"}, rzp' = [rzp EXCEPT ![r] = to]
      PROVE  /\ rzp' \in [Subs -> RzpStates]
             /\ \A x \in Subs : (Offered(x) => Offered(x)') /\ (rzp[x] # "none" => rzp'[x] # "none")
             /\ PaymentsStayMade
  BY <1>0, <1>6 DEF RzpStates, Offered, PaymentsStayMade, PaidThere, OverThere
<1>7. ASSUME NEW r \in Subs, rzp[r] = "none", rzp' = [rzp EXCEPT ![r] = "created"]
      PROVE  /\ rzp' \in [Subs -> RzpStates]
             /\ \A x \in Subs : (Offered(x) => Offered(x)') /\ (rzp[x] # "none" => rzp'[x] # "none")
             /\ PaymentsStayMade
  BY <1>0, <1>7 DEF RzpStates, Offered, PaymentsStayMade, PaidThere, OverThere
<1>8. ASSUME NEW r \in Subs, rzp' = [rzp EXCEPT ![r] = IF @ = "created" THEN "offered" ELSE @]
      PROVE  /\ rzp' \in [Subs -> RzpStates]
             /\ \A x \in Subs : (Offered(x) => Offered(x)') /\ (rzp[x] # "none" => rzp'[x] # "none")
             /\ PaymentsStayMade
  BY <1>0, <1>8 DEF RzpStates, Offered, PaymentsStayMade, PaidThere, OverThere
<1> QED
  BY <1>0, <1>1, <1>2, <1>3, <1>4, <1>5, <1>6, <1>7, <1>8, WhoMovesRazorpay, EndingThere

(* What a step does to a request.                                           *)
LEMMA IdleIsAsked == IdleRequest \in Asked /\ IdleRequest.op = "idle"
BY Zenon DEF IdleRequest, Asked, NoSub, NoPlan

LEMMA WhoseRequest ==
  ASSUME [BillingNext]_billingVars
  PROVE  \/ UNCHANGED request
         \/ \E q \in Requests : \/ \E p \in Plans : StartCheckout(q, p)
                                \/ \E atPeriodEnd \in BOOLEAN : CancelReads(q, atPeriodEnd)
                                \/ CancelAsks(q) \/ VerifyReads(q) \/ Answered(q)
BY Zenon
   DEF BillingNext, billingVars, CheckoutStored, CancelStored, VerifyStored, StartOrderCheckout,
       OwnerPays, OrderLapses, ReturnPage, PageAsks, PageFulfils, OrderWebhook, CancelQuietly,
       Authorise, RazorpayMoves, RazorpayEvent, PeriodPasses, TrialEnds, ExpireTrials, ExpirePrepaid

LEMMA RequestMoves ==
  ASSUME SubInv, [BillingNext]_billingVars
  PROVE  \/ UNCHANGED request
         \/ \E q \in Requests, asked \in Asked :
              /\ request' = [request EXCEPT ![q] = asked]
              /\ asked.op = "start" => asked.id \in Subs /\ rzp'[asked.id] # "none"
              /\ asked.op = "verify" => asked.id \in Subs
<1>0. request \in [Requests -> Asked] /\ rzp \in [Subs -> RzpStates] /\ sub \in Row
  BY DEF SubInv, GatewayTypes, RowInv, RowTypes
<1>1. ASSUME NEW q \in Requests, Answered(q)
      PROVE  request' = [request EXCEPT ![q] = IdleRequest]
  BY <1>1 DEF Answered
<1>2. ASSUME NEW q \in Requests, NEW p \in Plans, StartCheckout(q, p)
      PROVE  \E asked \in Asked : /\ request' = [request EXCEPT ![q] = asked]
                                  /\ asked.op = "start" /\ asked.id \in Subs /\ rzp'[asked.id] # "none"
  <2>1. PICK r \in Subs :
          /\ request' = [request EXCEPT ![q] = [IdleRequest EXCEPT !.op = "start", !.id = r, !.plan = p]]
          /\ \/ Reusable(p) /\ r = sub.tracked /\ UNCHANGED rzp
             \/ rzp' = [rzp EXCEPT ![r] = "created"]
    BY <1>2 DEF StartCheckout
  <2>2. rzp'[r] # "none"
    BY <1>0, <2>1 DEF Reusable
  <2> DEFINE asked == [IdleRequest EXCEPT !.op = "start", !.id = r, !.plan = p]
  <2>3. asked \in Asked /\ asked.op = "start" /\ asked.id = r
    BY IdleIsAsked DEF Asked
  <2> QED
    BY <2>1, <2>2, <2>3
<1>3. ASSUME NEW q \in Requests, NEW atPeriodEnd \in BOOLEAN, CancelReads(q, atPeriodEnd)
      PROVE  \E asked \in Asked : request' = [request EXCEPT ![q] = asked] /\ asked.op = "cancel"
  <2> DEFINE asked == [IdleRequest EXCEPT !.op = "cancel", !.inCheckout = InCheckout(sub),
                         !.atPeriodEnd = atPeriodEnd, !.id = ToCancel,
                         !.atCycleEnd = atPeriodEnd /\ sub.status = "active" /\ ~InCheckout(sub)]
  <2>1. request' = [request EXCEPT ![q] = asked]
    BY <1>3, Zenon DEF CancelReads
  <2>2. ToCancel \in Subs \cup {NoSub}
    BY <1>0 DEF ToCancel, Row
  <2>3. InCheckout(sub) \in BOOLEAN /\ (atPeriodEnd /\ sub.status = "active" /\ ~InCheckout(sub)) \in BOOLEAN
    BY Zenon DEF InCheckout
  <2>4. asked \in Asked /\ asked.op = "cancel"
    <3> HIDE DEF ToCancel, InCheckout
    <3>1. \A i, a \in BOOLEAN, x \in Subs \cup {NoSub}, b \in BOOLEAN :
            LET new == [IdleRequest EXCEPT !.op = "cancel", !.inCheckout = i, !.atPeriodEnd = a, !.id = x,
                                           !.atCycleEnd = b]
            IN new \in Asked /\ new.op = "cancel"
      BY IdleIsAsked DEF Asked
    <3> QED
      BY <2>2, <2>3, <3>1, Zenon
  <2> QED
    BY <2>1, <2>4
<1>4. ASSUME NEW q \in Requests, CancelAsks(q)
      PROVE  \E asked \in Asked : request' = [request EXCEPT ![q] = asked] /\ asked.op \in {"asked", "idle"}
  <2>1. request' = [request EXCEPT ![q].op = "asked"] \/ request' = [request EXCEPT ![q] = IdleRequest]
    BY <1>4, Zenon DEF CancelAsks, Answered
  <2>2. CASE request' = [request EXCEPT ![q].op = "asked"]
    <3>1. [request[q] EXCEPT !.op = "asked"] \in Asked /\ [request[q] EXCEPT !.op = "asked"].op = "asked"
      BY <1>0 DEF Asked
    <3>2. request' = [request EXCEPT ![q] = [request[q] EXCEPT !.op = "asked"]]
      BY <1>0, <2>2
    <3> QED
      BY <3>1, <3>2
  <2> QED
    BY <2>1, <2>2, IdleIsAsked
<1>5. ASSUME NEW q \in Requests, VerifyReads(q)
      PROVE  \E asked \in Asked : /\ request' = [request EXCEPT ![q] = asked]
                                  /\ asked.op = "verify" /\ asked.id \in Subs
  <2>1. sub.tracked \in Subs
    BY <1>0, <1>5 DEF VerifyReads, Row
  <2> DEFINE asked == [IdleRequest EXCEPT !.op = "verify", !.id = sub.tracked]
  <2>2. request' = [request EXCEPT ![q] = asked]
    BY <1>5 DEF VerifyReads
  <2>3. asked \in Asked /\ asked.op = "verify" /\ asked.id = sub.tracked
    BY <2>1, IdleIsAsked DEF Asked
  <2> QED
    BY <2>1, <2>2, <2>3
<1> QED
  BY <1>1, <1>2, <1>3, <1>4, <1>5, WhoseRequest, IdleIsAsked

LEMMA PlanOfChanges ==
  ASSUME [BillingNext]_billingVars
  PROVE  \/ UNCHANGED planOf
         \/ \E x \in Orders \cup Subs, p \in Plans : planOf' = [planOf EXCEPT ![x] = p]
BY Zenon
   DEF BillingNext, billingVars, StartCheckout, CheckoutStored, CancelReads, CancelAsks, CancelStored,
       VerifyReads, VerifyStored, StartOrderCheckout, OwnerPays, OrderLapses, ReturnPage, PageAsks,
       PageFulfils, OrderWebhook, CancelQuietly, Authorise, RazorpayMoves, RazorpayEvent,
       PeriodPasses, TrialEnds, ExpireTrials, ExpirePrepaid

LEMMA PlanOfStep ==
  ASSUME SubInv, [BillingNext]_billingVars
  PROVE  planOf' \in [Orders \cup Subs -> Plans \cup {NoPlan}]
<1>1. planOf \in [Orders \cup Subs -> Plans \cup {NoPlan}]
  BY DEF SubInv, GatewayTypes
<1> QED
  BY <1>1, PlanOfChanges

LEMMA GatewayStep ==
  ASSUME SubInv, [BillingNext]_billingVars
  PROVE  GatewayTypes' /\ RequestsKnow'
<1>1. CASE UNCHANGED request
  BY <1>1, RzpStep, PlanOfStep DEF SubInv, GatewayTypes, RequestsKnow
<1>2. ASSUME NEW q \in Requests, NEW asked \in Asked,
             request' = [request EXCEPT ![q] = asked],
             asked.op = "start" => asked.id \in Subs /\ rzp'[asked.id] # "none",
             asked.op = "verify" => asked.id \in Subs
      PROVE  GatewayTypes' /\ RequestsKnow'
  BY <1>2, RzpStep, PlanOfStep DEF SubInv, GatewayTypes, RequestsKnow
<1> QED
  BY <1>1, <1>2, RequestMoves

-----------------------------------------------------------------------------
(* What a step does to the row.                                             *)
Halts == \E status \in {"pending", "halted"} : SetStatus(status)

LEMMA RowMoves ==
  ASSUME SubInv, [BillingNext]_billingVars
  PROVE  \/ UNCHANGED rowVars
         \/ PeriodPasses \/ ExpireTrials \/ ExpirePrepaid
         \/ \E o \in Orders : row[o] # "paid" /\ Fulfils(o)
         \/ \E q \in Requests : CheckoutStored(q) \/ CancelStored(q)
         \/ \E r \in Subs : sub.tracked = r /\ Activate(r)
         \/ sub.tracked \in Subs /\ (Halts \/ PlanEnds) /\ UNCHANGED left
<1>1. ASSUME NEW o \in Orders, FulfilOrder(o)
      PROVE  UNCHANGED rowVars \/ (row[o] # "paid" /\ Fulfils(o))
  BY <1>1, Zenon DEF FulfilOrder
<1>2. ASSUME NEW q \in Requests, VerifyStored(q)
      PROVE  UNCHANGED rowVars \/ \E r \in Subs : sub.tracked = r /\ Activate(r)
  BY <1>2, Zenon DEF VerifyStored, SubInv, RequestsKnow
<1>3. ASSUME NEW r \in Subs, NEW kind \in EventKinds, RazorpayEvent(kind, r)
      PROVE  \/ UNCHANGED rowVars
             \/ sub.tracked = r /\ Activate(r)
             \/ sub.tracked \in Subs /\ (Halts \/ PlanEnds) /\ UNCHANGED left
  BY <1>3, Zenon DEF RazorpayEvent, Halts
<1> QED
  BY <1>1, <1>2, <1>3, Zenon
     DEF BillingNext, billingVars, StartCheckout, CancelReads, CancelAsks, VerifyReads,
         StartOrderCheckout, OwnerPays, OrderLapses, ReturnPage, PageAsks, PageFulfils, OrderWebhook,
         CancelQuietly, Authorise, RazorpayMoves, TrialEnds

LEMMA WhoIsObserved ==
  ASSUME [BillingNext]_billingVars
  PROVE  \/ UNCHANGED observed
         \/ \E q \in Requests : CheckoutStored(q) \/ CancelStored(q) \/ CancelAsks(q)
         \/ \E r \in Subs : CancelQuietly(r)
BY Zenon
   DEF BillingNext, billingVars, observed, crossed, StartCheckout, CancelReads, VerifyReads,
       VerifyStored, StartOrderCheckout, OwnerPays, OrderLapses, ReturnPage, PageAsks, PageFulfils,
       OrderWebhook, Authorise, RazorpayMoves, RazorpayEvent, PeriodPasses, TrialEnds, ExpireTrials,
       ExpirePrepaid

LEMMA ObserversGrow ==
  ASSUME [BillingNext]_billingVars
  PROVE  /\ reused \subseteq reused' /\ unasked \subseteq unasked'
         /\ forgotten \subseteq forgotten' /\ uncancelled \subseteq uncancelled'
<1>1. ASSUME NEW q \in Requests, CheckoutStored(q)
      PROVE  reused \subseteq reused' /\ UNCHANGED <<unasked, forgotten, uncancelled>>
  BY <1>1 DEF CheckoutStored
<1>2. ASSUME NEW q \in Requests, CancelStored(q)
      PROVE  unasked \subseteq unasked' /\ forgotten \subseteq forgotten' /\ UNCHANGED <<reused, uncancelled>>
  <2>1. \/ UNCHANGED unasked
        \/ unasked' = unasked \cup ({sub.tracked} \ {request[q].id, NoSub})
    BY <1>2, Zenon DEF CancelStored
  <2>2. UNCHANGED forgotten \/ forgotten' = forgotten \cup {request[q].id}
    BY <1>2, Zenon DEF CancelStored
  <2> QED
    BY <1>2, <2>1, <2>2 DEF CancelStored
<1>3. ASSUME NEW q \in Requests, CancelAsks(q)
      PROVE  uncancelled \subseteq uncancelled' /\ UNCHANGED crossed
  <2>1. UNCHANGED uncancelled \/ uncancelled' = uncancelled \cup {request[q].id}
    BY <1>3, Zenon DEF CancelAsks
  <2> QED
    BY <1>3, <2>1 DEF CancelAsks
<1>4. ASSUME NEW r \in Subs, CancelQuietly(r)
      PROVE  uncancelled \subseteq uncancelled' /\ UNCHANGED crossed
  BY <1>4 DEF CancelQuietly
<1> QED
  BY <1>1, <1>2, <1>3, <1>4, WhoIsObserved DEF observed, crossed

(* What has to hold of a row for its save to keep the invariant.            *)
LEMMA SaveKeeps ==
  ASSUME SubInv, [BillingNext]_billingVars, NEW s \in Row, Save(s), left' \in Nat,
         s.tracked \in {sub.tracked, NoSub} \/ Offered(s.tracked)',
         s.prepaid /\ s.status = "active" => s.tracked = NoSub,
         s.tracked \in over \ reused' => Ended(s) /\ s.activated
  PROVE  RowInv'
<1>1. /\ sub' = s
      /\ over' = IF Ended(s) /\ s.activated /\ s.tracked # NoSub THEN over \cup {s.tracked} ELSE over
  BY DEF Save
<1>2. over \subseteq Subs /\ sub \in Row /\ s.tracked \in Subs \cup {NoSub}
  BY DEF SubInv, RowInv, RowTypes, Row
<1>3. RowTypes'
  BY <1>1, <1>2 DEF RowTypes
<1>4. TrackedIsOffered'
  <2>1. \A r \in over' : r \in over \/ r = s.tracked
    BY <1>1
  <2>2. s.tracked \in Subs => Offered(s.tracked)'
    <3>1. CASE s.tracked = sub.tracked
      BY <3>1, RzpStep DEF SubInv, RowInv, TrackedIsOffered
    <3>2. CASE s.tracked = NoSub
      BY <3>2, BillingAssumption
    <3> QED
      BY <3>1, <3>2
  <2>3. \A r \in over : Offered(r)'
    BY <1>2, RzpStep DEF SubInv, RowInv, TrackedIsOffered
  <2>4. \A r \in Subs : r = sub'.tracked \/ r \in over' => Offered(r)'
    BY <1>1, <2>1, <2>2, <2>3, Zenon
  <2> QED
    BY <2>4 DEF TrackedIsOffered, Offered
<1>5. PrepaidTracksNone'
  BY <1>1 DEF PrepaidTracksNone
<1>6. EndedStaysEnded'
  BY <1>1, Zenon DEF EndedStaysEnded, Ended
<1> QED
  BY <1>3, <1>4, <1>5, <1>6 DEF RowInv

(* The rows that are saved.                                                 *)
LEMMA StatusRow ==
  ASSUME sub \in Row, NEW status \in SubStatuses, NEW atEnd \in BOOLEAN
  PROVE  LET s == [sub EXCEPT !.status = status, !.atEnd = atEnd] IN
         /\ s \in Row /\ s.status = status /\ s.tracked = sub.tracked
         /\ s.prepaid = sub.prepaid /\ s.activated = sub.activated
BY DEF Row

LEMMA AbandonedRow ==
  ASSUME sub \in Row, NEW keepTrial \in BOOLEAN, NEW atEnd \in BOOLEAN
  PROVE  LET s == [Abandoned(keepTrial) EXCEPT !.atEnd = atEnd] IN s \in Row /\ s.tracked = NoSub
<1>1. PICK status \in SubStatuses :
        Abandoned(keepTrial) = [sub EXCEPT !.tracked = NoSub, !.checkout = NoPlan, !.status = status]
  <2> DEFINE new == IF sub.status \in {"trialing", "pending"}
                    THEN IF ~keepTrial THEN "cancelled" ELSE IF trialOver THEN "expired" ELSE "trialing"
                    ELSE IF sub.status = "halted" THEN "cancelled" ELSE sub.status
  <2>1. Abandoned(keepTrial) = [sub EXCEPT !.tracked = NoSub, !.checkout = NoPlan, !.status = new]
    BY Zenon DEF Abandoned
  <2>2. sub.status \in SubStatuses
    BY DEF Row
  <2>3. new \in SubStatuses
    BY <2>2, Zenon DEF SubStatuses
  <2> QED
    BY <2>1, <2>3
<1> QED
  BY <1>1 DEF Row

LEMMA NotEndedNotOver ==
  ASSUME RowInv, reused \subseteq reused', ~Ended(sub) \/ ~sub.activated
  PROVE  sub.tracked \notin over \ reused'
BY DEF RowInv, EndedStaysEnded

LEMMA EndedStill ==
  ASSUME RowInv, reused \subseteq reused'
  PROVE  sub.tracked \in over \ reused' => Ended(sub) /\ sub.activated
BY DEF RowInv, EndedStaysEnded

LEMMA NoneIsOver ==
  ASSUME RowInv
  PROVE  NoSub \notin over
BY BillingAssumption DEF RowInv, RowTypes

LEMMA PassesKeep ==
  ASSUME SubInv, [BillingNext]_billingVars, PeriodPasses \/ ExpireTrials \/ ExpirePrepaid
  PROVE  RowInv'
<1>0. /\ RowInv /\ sub \in Row /\ left \in Nat /\ reused \subseteq reused'
  BY ObserversGrow DEF SubInv, RowInv, RowTypes
<1>1. CASE PeriodPasses
  <2>1. /\ UNCHANGED <<sub, over, rzp, reused>> /\ left' \in Nat
    BY <1>0, <1>1 DEF PeriodPasses, gatewayVars, observed, crossed
  <2> QED
    BY <1>0, <2>1
       DEF RowInv, RowTypes, TrackedIsOffered, Offered, PrepaidTracksNone, EndedStaysEnded, Ended
<1>2. CASE ExpireTrials
  <2> DEFINE s == [sub EXCEPT !.status = "expired", !.atEnd = FALSE]
  <2>1. Save(s) /\ left' = left /\ sub.status \in {"trialing", "pending"}
    BY <1>2, Zenon DEF ExpireTrials, TrialEnded
  <2>2. s \in Row /\ s.status = "expired" /\ s.tracked = sub.tracked
    BY <1>0, StatusRow DEF SubStatuses
  <2>3. sub.tracked \notin over \ reused'
    BY <1>0, <2>1, NotEndedNotOver DEF Ended
  <2> HIDE DEF s
  <2> QED
    BY <1>0, <2>1, <2>2, <2>3, SaveKeeps
<1>3. CASE ExpirePrepaid
  <2>1. PICK status \in {"cancelled", "expired"} :
          Save([sub EXCEPT !.status = status, !.atEnd = FALSE])
    BY <1>3, Zenon DEF ExpirePrepaid
  <2>2. left' = left /\ sub.status = "active"
    BY <1>3 DEF ExpirePrepaid
  <2> DEFINE s == [sub EXCEPT !.status = status, !.atEnd = FALSE]
  <2>3. s \in Row /\ s.status = status /\ s.tracked = sub.tracked
    BY <1>0, StatusRow DEF SubStatuses
  <2>4. sub.tracked \notin over \ reused'
    BY <1>0, <2>2, NotEndedNotOver DEF Ended
  <2>5. Save(s)
    BY <2>1
  <2> HIDE DEF s
  <2> QED
    BY <1>0, <2>1, <2>2, <2>3, <2>4, <2>5, SaveKeeps
<1> QED
  BY <1>1, <1>2, <1>3

LEMMA FulfilmentKeeps ==
  ASSUME SubInv, [BillingNext]_billingVars, NEW o \in Orders, Fulfils(o)
  PROVE  RowInv'
<1>1. sub \in Row /\ left \in Nat /\ planOf[o] \in Plans \cup {NoPlan} /\ RowInv
  BY DEF SubInv, RowInv, RowTypes, GatewayTypes
<1>2. Fulfilled(o) \in Row /\ Fulfilled(o).tracked = NoSub
  BY <1>1 DEF Fulfilled, Row, SubStatuses
<1>3. Save(Fulfilled(o)) /\ left' \in Nat
  BY <1>1 DEF Fulfils
<1>4. NoSub \notin over
  BY <1>1, NoneIsOver
<1> QED
  BY <1>2, <1>3, <1>4, SaveKeeps

LEMMA ActivationKeeps ==
  ASSUME SubInv, [BillingNext]_billingVars, NEW r \in Subs, sub.tracked = r, Activate(r)
  PROVE  RowInv' /\ (~UNCHANGED rowVars => r \notin over \ reused /\ sub'.tracked = r)
<1>0. sub \in Row /\ left \in Nat /\ planOf[r] \in Plans \cup {NoPlan} /\ RowInv /\ reused \subseteq reused'
  BY ObserversGrow DEF SubInv, RowInv, RowTypes, GatewayTypes
<1>1. CASE Ended(sub) /\ sub.activated
  <2>1. UNCHANGED rowVars
    BY <1>1, Zenon DEF Activate
  <2>2. \A x \in Subs : Offered(x) => Offered(x)'
    BY RzpStep
  <2>3. TrackedIsOffered'
    BY <1>0, <2>1, <2>2 DEF rowVars, RowInv, TrackedIsOffered, Offered
  <2>4. RowTypes' /\ PrepaidTracksNone'
    BY <1>0, <2>1 DEF rowVars, RowInv, RowTypes, PrepaidTracksNone
  <2>5. EndedStaysEnded'
    BY <1>1, <2>1, Zenon DEF rowVars, EndedStaysEnded, Ended
  <2> QED
    BY <2>1, <2>3, <2>4, <2>5 DEF RowInv
<1>2. CASE ~(Ended(sub) /\ sub.activated)
  <2> DEFINE s == [sub EXCEPT !.plan = planOf[r], !.status = "active", !.prepaid = FALSE,
                              !.activated = TRUE, !.checkout = NoPlan]
  <2>1. Save(s) /\ left' = 0
    BY <1>2, Zenon DEF Activate
  <2>2. s \in Row /\ s.tracked = r /\ ~s.prepaid /\ s.status = "active"
    BY <1>0 DEF Row, SubStatuses
  <2>3. r \notin over \ reused' /\ r \notin over \ reused
    <3>1. r \notin over \ reused
      BY <1>0, <1>2, Zenon DEF RowInv, EndedStaysEnded
    <3> QED
      BY <1>0, <3>1
  <2> HIDE DEF s
  <2>4. RowInv'
    BY <2>1, <2>2, <2>3, SaveKeeps
  <2>5. sub'.tracked = r
    BY <2>1, <2>2 DEF Save
  <2> QED
    BY <2>3, <2>4, <2>5
<1> QED
  BY <1>1, <1>2

LEMMA EventsKeep ==
  ASSUME SubInv, [BillingNext]_billingVars, Halts \/ PlanEnds, UNCHANGED left
  PROVE  RowInv' /\ (sub.status # "active" => sub'.status # "active")
<1>0. sub \in Row /\ left' \in Nat /\ RowInv /\ reused \subseteq reused'
  BY ObserversGrow DEF SubInv, RowInv, RowTypes
<1>1. CASE Halts
  <2>1. CASE Ended(sub)
    <3>1. Save(sub)
      BY <1>1, <2>1, Zenon DEF Halts, SetStatus
    <3>2. sub.tracked \in over \ reused' => Ended(sub) /\ sub.activated
      BY <1>0, EndedStill
    <3>3. sub.prepaid /\ sub.status = "active" => sub.tracked = NoSub
      BY <1>0 DEF RowInv, PrepaidTracksNone
    <3> QED
      BY <1>0, <3>1, <3>2, <3>3, SaveKeeps DEF Save
  <2>2. CASE ~Ended(sub)
    <3>0. PICK status \in {"pending", "halted"} : Save([sub EXCEPT !.status = status])
      BY <1>1, <2>2, Zenon DEF Halts, SetStatus
    <3> DEFINE s == [sub EXCEPT !.status = status]
    <3>1. Save(s)
      BY <3>0
    <3>2. s \in Row /\ s.status = status /\ s.tracked = sub.tracked
      BY <1>0 DEF Row, SubStatuses
    <3>3. sub.tracked \notin over \ reused'
      BY <1>0, <2>2, NotEndedNotOver
    <3> HIDE DEF s
    <3> QED
      BY <1>0, <3>1, <3>2, <3>3, SaveKeeps DEF Save
  <2> QED
    BY <2>1, <2>2
<1>2. CASE PlanEnds
  <2>1. CASE InCheckout(sub)
    <3> DEFINE s == [Abandoned(TRUE) EXCEPT !.atEnd = FALSE]
    <3>1. Save(s)
      BY <1>2, <2>1, Zenon DEF PlanEnds
    <3>2. s \in Row /\ s.tracked = NoSub
      BY <1>0, AbandonedRow
    <3>3. sub.status # "active" => s.status # "active"
      BY <1>0 DEF Abandoned, Row
    <3>4. NoSub \notin over
      BY <1>0, NoneIsOver
    <3> HIDE DEF s
    <3> QED
      BY <1>0, <3>1, <3>2, <3>3, <3>4, SaveKeeps DEF Save
  <2>2. CASE ~InCheckout(sub)
    <3>1. PICK end \in {"cancelled", "expired"} : Save([sub EXCEPT !.status = end, !.atEnd = FALSE])
      BY <1>2, <2>2, Zenon DEF PlanEnds
    <3> DEFINE s == [sub EXCEPT !.status = end, !.atEnd = FALSE]
    <3>2. s \in Row /\ s.status = end /\ s.tracked = sub.tracked /\ s.activated = sub.activated
      BY <1>0, StatusRow DEF SubStatuses
    <3>3. Save(s)
      BY <3>1
    <3>4. s.tracked \in over \ reused' => Ended(s) /\ s.activated
      BY <1>0, <3>2, EndedStill, Zenon DEF Ended
    <3> HIDE DEF s
    <3> QED
      BY <1>0, <3>1, <3>2, <3>3, <3>4, SaveKeeps DEF Save
  <2> QED
    BY <2>1, <2>2
<1> QED
  BY <1>1, <1>2

LEMMA CheckoutKeeps ==
  ASSUME SubInv, [BillingNext]_billingVars, NEW q \in Requests, CheckoutStored(q)
  PROVE  /\ RowInv'
         /\ sub.status = "active" => UNCHANGED rowVars
         /\ sub.status # "active" => sub'.status # "active"
<1>3. PICK r \in Subs : r = request[q].id
  BY DEF SubInv, RequestsKnow, CheckoutStored
<1>0. /\ sub \in Row /\ left \in Nat /\ RowInv /\ rzp[r] # "none" /\ reused \subseteq reused'
      /\ rzp \in [Subs -> RzpStates] /\ request[q].plan \in Plans \cup {NoPlan}
  BY <1>3, ObserversGrow DEF SubInv, RowInv, RowTypes, RequestsKnow, GatewayTypes, CheckoutStored, Asked
<1>1. CASE sub.status = "active"
  <2>1. UNCHANGED <<rowVars, rzp>>
    <3>1. UNCHANGED <<rowVars, rzp, dropping>>
      BY <1>1, Zenon DEF CheckoutStored
    <3> QED
      BY <3>1
  <2>2. EndedStaysEnded'
    BY <1>0, <2>1, EndedStill, Zenon DEF rowVars, EndedStaysEnded, Ended
  <2>3. RowTypes' /\ PrepaidTracksNone' /\ TrackedIsOffered'
    BY <1>0, <2>1 DEF rowVars, RowInv, RowTypes, PrepaidTracksNone, TrackedIsOffered, Offered
  <2> QED
    BY <1>1, <2>1, <2>2, <2>3 DEF RowInv
<1>2. CASE sub.status # "active"
  <2> DEFINE kept == sub.activated /\ sub.tracked = r
             status == IF sub.status = "trialing" THEN "pending" ELSE sub.status
             s == [sub EXCEPT !.tracked = r, !.checkout = request[q].plan, !.activated = kept,
                              !.status = status]
  <2>1. /\ Save([sub EXCEPT !.tracked = r, !.checkout = request[q].plan,
                            !.activated = @ /\ sub.tracked = r,
                            !.status = IF @ = "trialing" THEN "pending" ELSE @])
        /\ rzp' = [rzp EXCEPT ![r] = IF @ = "created" THEN "offered" ELSE @]
        /\ left' = left
    BY <1>2, <1>3, Zenon DEF CheckoutStored
  <2>2. Save(s)
    BY <2>1, Zenon
  <2>3. kept \in BOOLEAN /\ status \in SubStatuses /\ status # "active"
    BY <1>0, <1>2 DEF Row, SubStatuses
  <2>4. \A k \in BOOLEAN, w \in SubStatuses :
          LET new == [sub EXCEPT !.tracked = r, !.checkout = request[q].plan, !.activated = k, !.status = w]
          IN new \in Row /\ new.tracked = r /\ new.status = w /\ new.activated = k
    BY <1>0 DEF Row
  <2>5. s \in Row /\ s.tracked = r /\ s.status = status /\ s.activated = kept
    <3> HIDE DEF kept, status
    <3> QED
      BY <2>3, <2>4, Zenon
  <2>6. Offered(r)'
    BY <1>0, <2>1 DEF Offered, RzpStates
  <2>7. r \notin reused' => rzp[r] = "created" \/ sub.tracked = r
    <3>1. sub'.tracked = r
      BY <2>2, <2>5 DEF Save
    <3> QED
      BY <1>3, <3>1 DEF CheckoutStored
  <2>8. r \in over \ reused' => Ended(s) /\ s.activated
    <3>1. r \in over => rzp[r] # "created"
      BY <1>0 DEF RowInv, TrackedIsOffered, Offered
    <3>2. r \in over \ reused' => sub.tracked = r /\ Ended(sub) /\ sub.activated
      BY <1>0, <2>7, <3>1, EndedStill
    <3>3. Ended(sub) => status = sub.status
      BY DEF Ended
    <3> QED
      BY <2>5, <3>2, <3>3, Zenon DEF Ended
  <2> HIDE DEF s, kept, status
  <2> QED
    BY <1>0, <1>2, <2>1, <2>2, <2>3, <2>5, <2>6, <2>8, SaveKeeps DEF Save
<1> QED
  BY <1>1, <1>2

LEMMA CancellationKeeps ==
  ASSUME SubInv, [BillingNext]_billingVars, NEW q \in Requests, CancelStored(q)
  PROVE  RowInv' /\ (sub.status # "active" => sub'.status # "active")
<1>0. /\ sub \in Row /\ left \in Nat /\ RowInv /\ request[q] \in Asked /\ reused \subseteq reused'
      /\ left' = left
  BY ObserversGrow DEF SubInv, RowInv, RowTypes, GatewayTypes, CancelStored
<1> DEFINE asked == request[q]
           kept == Abandoned(asked.atPeriodEnd)
           s1 == [kept EXCEPT !.atEnd = kept.status = "trialing"]
<1>1. \/ Save(s1) \/ (~Ended(sub) /\ Save([sub EXCEPT !.atEnd = TRUE]))
      \/ (~Ended(sub) /\ Save([sub EXCEPT !.status = "cancelled", !.atEnd = FALSE])) \/ Save(sub)
  <2>1. sub.status \in {"trialing", "active"} => ~Ended(sub)
    BY DEF Ended
  <2> QED
    BY <2>1, Zenon DEF CancelStored, Cancelled
<1>2. CASE Save(s1)
  <2>1. asked.atPeriodEnd \in BOOLEAN
    BY <1>0 DEF Asked
  <2>2. (kept.status = "trialing") \in BOOLEAN
    OBVIOUS
  <2>3. s1 \in Row /\ s1.tracked = NoSub
    BY <1>0, <2>1, <2>2, AbandonedRow, Zenon
  <2>4. sub.status # "active" => s1.status # "active"
    BY <1>0 DEF Abandoned, Row
  <2>5. NoSub \notin over
    BY <1>0, NoneIsOver
  <2> HIDE DEF s1
  <2> QED
    BY <1>0, <1>2, <2>3, <2>4, <2>5, SaveKeeps DEF Save
<1>3. CASE ~Ended(sub) /\ Save([sub EXCEPT !.atEnd = TRUE])
  <2> DEFINE s == [sub EXCEPT !.atEnd = TRUE]
  <2>1. /\ s \in Row /\ s.tracked = sub.tracked /\ s.status = sub.status
        /\ (s.prepaid => sub.prepaid)
    BY <1>0 DEF Row
  <2>2. sub.tracked \notin over \ reused'
    BY <1>0, <1>3, NotEndedNotOver
  <2>3. Save(s)
    BY <1>3
  <2>4. s.prepaid /\ s.status = "active" => s.tracked = NoSub
    BY <1>0, <2>1, Zenon DEF RowInv, PrepaidTracksNone
  <2> HIDE DEF s
  <2> QED
    BY <1>0, <2>1, <2>2, <2>3, <2>4, SaveKeeps DEF Save
<1>4. CASE ~Ended(sub) /\ Save([sub EXCEPT !.status = "cancelled", !.atEnd = FALSE])
  <2> DEFINE s == [sub EXCEPT !.status = "cancelled", !.atEnd = FALSE]
  <2>1. s \in Row /\ s.status = "cancelled" /\ s.tracked = sub.tracked
    BY <1>0, StatusRow DEF SubStatuses
  <2>2. sub.tracked \notin over \ reused'
    BY <1>0, <1>4, NotEndedNotOver
  <2>3. Save(s)
    BY <1>4
  <2> HIDE DEF s
  <2> QED
    BY <1>0, <2>1, <2>2, <2>3, SaveKeeps DEF Save
<1>5. CASE Save(sub)
  <2>1. sub.tracked \in over \ reused' => Ended(sub) /\ sub.activated
    BY <1>0, EndedStill
  <2>2. sub.prepaid /\ sub.status = "active" => sub.tracked = NoSub
    BY <1>0 DEF RowInv, PrepaidTracksNone
  <2> QED
    BY <1>0, <1>5, <2>1, <2>2, SaveKeeps DEF Save
<1> QED
  BY <1>1, <1>2, <1>3, <1>4, <1>5

LEMMA SubStep ==
  ASSUME SubInv, [BillingNext]_billingVars
  PROVE  SubInv'
<1>1. CASE UNCHANGED rowVars
  <2>1. \A x \in Subs : Offered(x) => Offered(x)'
    BY RzpStep
  <2>2. RowInv /\ reused \subseteq reused'
    BY ObserversGrow DEF SubInv
  <2>3. EndedStaysEnded'
    BY <1>1, <2>2, EndedStill, Zenon DEF rowVars, EndedStaysEnded, Ended
  <2>4. RowTypes' /\ PrepaidTracksNone' /\ TrackedIsOffered'
    BY <1>1, <2>1, <2>2 DEF rowVars, RowInv, RowTypes, PrepaidTracksNone, TrackedIsOffered, Offered
  <2> QED
    BY <2>3, <2>4, GatewayStep DEF RowInv, SubInv
<1>2. CASE ~UNCHANGED rowVars
  BY <1>2, RowMoves, PassesKeep, FulfilmentKeeps, ActivationKeeps, EventsKeep, CheckoutKeeps,
     CancellationKeeps, GatewayStep DEF SubInv
<1> QED
  BY <1>1, <1>2

-----------------------------------------------------------------------------
LEMMA SubInit ==
  ASSUME BillingInit
  PROVE  SubInv
<1>1. sub.tracked = NoSub /\ ~sub.prepaid /\ over = {} /\ sub \in Row /\ left \in Nat
  BY BillingAssumption DEF BillingInit, Row, SubStatuses
<1>2. GatewayTypes
  BY IdleIsAsked DEF BillingInit, GatewayTypes, RzpStates
<1>3. RequestsKnow
  BY IdleIsAsked DEF BillingInit, RequestsKnow
<1>4. RowInv
  BY <1>1, BillingAssumption
     DEF RowInv, RowTypes, TrackedIsOffered, PrepaidTracksNone, EndedStaysEnded
<1> QED
  BY <1>2, <1>3, <1>4 DEF SubInv

LEMMA PrepaidStep ==
  ASSUME OrdersInv, SubInv, [BillingNext]_billingVars,
         sub.status = "active", sub.prepaid, left > 0
  PROVE  \/ sub'.status = "active" /\ sub'.prepaid /\ sub'.plan = sub.plan /\ left' >= left
         \/ PeriodPasses
         \/ \E o \in Orders : row[o] # "paid" /\ row'[o] = "paid" /\ planOf[o] # sub.plan
         \/ \E q \in Requests : request[q].op = "asked" /\ request'[q] = IdleRequest
<1>1. sub.tracked \notin Subs /\ left \in Nat /\ sub \in Row
  BY BillingAssumption DEF SubInv, RowInv, RowTypes, PrepaidTracksNone
<1>2. CASE UNCHANGED rowVars
  BY <1>1, <1>2 DEF rowVars
<1>3. ASSUME NEW o \in Orders, row[o] # "paid", Fulfils(o)
      PROVE  \/ sub'.status = "active" /\ sub'.prepaid /\ sub'.plan = sub.plan /\ left' >= left
             \/ row'[o] = "paid" /\ planOf[o] # sub.plan
  <2>1. CASE planOf[o] = sub.plan
    <3>1. left' = left + 1
      BY <2>1, <1>3 DEF Fulfils, Renewal
    <3>2. sub'.status = "active" /\ sub'.prepaid /\ sub'.plan = sub.plan
      BY <1>1, <1>3, <2>1 DEF Fulfils, Fulfilled, Save, Row
    <3> QED
      BY <1>1, <3>1, <3>2
  <2>2. CASE planOf[o] # sub.plan
    BY <1>3, <2>2 DEF Fulfils, OrdersInv, OrderTypes
  <2> QED
    BY <2>1, <2>2
<1>4. ASSUME NEW q \in Requests, CancelStored(q)
      PROVE  request[q].op = "asked" /\ request'[q] = IdleRequest
  BY <1>4 DEF CancelStored, Answered, SubInv, GatewayTypes
<1>5. ASSUME NEW q \in Requests, CheckoutStored(q)
      PROVE  UNCHANGED rowVars
  BY <1>5, CheckoutKeeps
<1>6. ~ExpireTrials /\ ~ExpirePrepaid
  BY DEF ExpireTrials, TrialEnded, ExpirePrepaid
<1> QED
  BY <1>1, <1>2, <1>3, <1>4, <1>5, <1>6, RowMoves

LEMMA RevivalStep ==
  ASSUME SubInv, [BillingNext]_billingVars, sub.status # "active", sub'.status = "active"
  PROVE  sub'.tracked \notin over \ reused
<1>1. ~UNCHANGED rowVars /\ ~PeriodPasses /\ sub \in Row
  BY DEF rowVars, PeriodPasses, SubInv, RowInv, RowTypes
<1>2. ~ExpireTrials /\ ~ExpirePrepaid
  BY <1>1 DEF ExpireTrials, ExpirePrepaid, Save, Row
<1>3. ASSUME NEW o \in Orders, Fulfils(o)
      PROVE  sub'.tracked \notin over \ reused
  <2>1. sub'.tracked = NoSub
    BY <1>1, <1>3 DEF Fulfils, Fulfilled, Save, Row
  <2> QED
    BY <2>1, NoneIsOver DEF SubInv
<1> QED
  BY <1>1, <1>2, <1>3, RowMoves, ActivationKeeps, EventsKeep, CheckoutKeeps, CancellationKeeps

\* What was paid in advance stands, and an auto-pay plan that ended is revived
\* only through a checkout that was offered again, whatever events, passes and
\* requests come late or at the same time.
THEOREM BillingPlansStand == BillingSpec => PlansStand
<1>1. BillingInit => OrdersInv /\ SubInv
  BY SubInit, OrdersInit
<1>2. OrdersInv /\ SubInv /\ [BillingNext]_billingVars => OrdersInv' /\ SubInv'
  BY OrdersStep, SubStep
<1>3. OrdersInv /\ SubInv /\ [BillingNext]_billingVars =>
        [sub.status = "active" /\ sub.prepaid /\ left > 0 =>
           \/ sub'.status = "active" /\ sub'.prepaid /\ sub'.plan = sub.plan /\ left' >= left
           \/ PeriodPasses
           \/ \E o \in Orders : row[o] # "paid" /\ row'[o] = "paid" /\ planOf[o] # sub.plan
           \/ \E q \in Requests : request[q].op = "asked" /\ request'[q] = IdleRequest]_billingVars
  BY PrepaidStep
<1>4. OrdersInv /\ SubInv /\ [BillingNext]_billingVars =>
        [sub.status # "active" /\ sub'.status = "active" => sub'.tracked \notin over \ reused]_billingVars
  BY RevivalStep
<1>5. BillingSpec => PrepaidPlanStands
  BY <1>1, <1>2, <1>3, PTL DEF BillingSpec, PrepaidPlanStands
<1>6. BillingSpec => EndedIsNotRevived
  BY <1>1, <1>2, <1>4, PTL DEF BillingSpec, EndedIsNotRevived
<1> QED
  BY <1>5, <1>6 DEF PlansStand

-----------------------------------------------------------------------------
(* Who is charged.  An activated plan that is tracked has been paid there,  *)
(* a prepaid one tracks nothing; an event on its way tells what happened;   *)
(* requests know what Razorpay answered; the first charge of a checkout is  *)
(* heard of before anything else; and what Razorpay may charge is tracked   *)
(* or about to be cancelled, but for the subscriptions that an observer     *)
(* names.                                                                   *)
ChargeTypes == mail \subseteq EventKinds \X Subs /\ dropping \subseteq Subs /\ faults \in 0 .. MaxFaults

StatusFits ==
  /\ sub.status = "active" => sub.activated
  /\ sub.status = "trialing" => sub.tracked = NoSub
  /\ sub.prepaid /\ sub.activated => sub.tracked = NoSub
  /\ sub.tracked # NoSub /\ sub.activated => rzp[sub.tracked] \in PaidThere
  /\ sub.status = "active" /\ ~sub.prepaid /\ forgotten = {} => sub.tracked # NoSub
  /\ sub.tracked # NoSub /\ ~sub.activated => sub.checkout # NoPlan
MailFits ==
  \A r \in Subs :
    /\ <<"charged", r>> \in mail => rzp[r] \in PaidThere
    /\ <<"ended", r>> \in mail => rzp[r] = "ended"
RequestFits(asked, states, failed) ==
  /\ asked.op = "verify" => states[asked.id] \in PaidThere
  /\ asked.op = "start" => asked.plan \in Plans
  /\ asked.inCheckout => asked.id # NoSub
  /\ asked.op = "asked" /\ asked.id # NoSub /\ asked.id \notin failed => states[asked.id] \in OverThere
RequestsFit == \A q \in Requests : RequestFits(request[q], rzp, uncancelled)
ChargeHeard ==
  sub.tracked # NoSub /\ sub.tracked \notin reused /\ ~sub.activated /\ rzp[sub.tracked] \in Charging =>
    <<"charged", sub.tracked>> \in mail
MayCharge == Charging \cup {"offered"}
Excepted == uncancelled \cup unasked
NoStray ==
  \A r \in Subs :
    r \notin Excepted =>
      /\ rzp[r] \in MayCharge => r \in dropping \/ sub.tracked = r
      /\ rzp[r] \in Charging /\ r \notin dropping => ~Ended(sub) \/ ~sub.activated
ReusedIsDropped ==
  \A r \in Subs : r \in reused /\ r \notin Excepted => r \in dropping \/ rzp[r] \in OverThere

ChargeInv ==
  ChargeTypes /\ StatusFits /\ MailFits /\ RequestsFit /\ ChargeHeard /\ NoStray /\ ReusedIsDropped

(* Events and requests.                                                     *)
LEMMA MailStep ==
  ASSUME SubInv, ChargeInv, [BillingNext]_billingVars
  PROVE  mail' \subseteq EventKinds \X Subs /\ MailFits'
<1>0. /\ mail \subseteq EventKinds \X Subs /\ MailFits /\ PaymentsStayMade /\ rzp \in [Subs -> RzpStates]
  BY RzpStep DEF ChargeInv, ChargeTypes, SubInv, GatewayTypes
<1>1. ASSUME mail' \subseteq mail
      PROVE  mail' \subseteq EventKinds \X Subs /\ MailFits'
  BY <1>0, <1>1 DEF MailFits, PaymentsStayMade
<1>2. ASSUME NEW r \in Subs, NEW kind \in {"charged", "pending", "halted"}, mail' = mail \cup {<<kind, r>>},
             kind = "charged" => rzp'[r] = "active"
      PROVE  mail' \subseteq EventKinds \X Subs /\ MailFits'
  <2>1. <<kind, r>> \in EventKinds \X Subs
    BY <1>2 DEF EventKinds
  <2>2. mail' \subseteq EventKinds \X Subs
    BY <1>0, <1>2, <2>1
  <2>3. ASSUME NEW x \in Subs, <<"charged", x>> \in mail'
        PROVE  rzp'[x] \in PaidThere
    BY <1>0, <1>2, <2>3 DEF MailFits, PaymentsStayMade, PaidThere
  <2>4. ASSUME NEW x \in Subs, <<"ended", x>> \in mail'
        PROVE  rzp'[x] = "ended"
    BY <1>0, <1>2, <2>4 DEF MailFits, PaymentsStayMade
  <2> QED
    BY <2>2, <2>3, <2>4 DEF MailFits
<1>3. ASSUME NEW r \in Subs, EndsThere(r)
      PROVE  mail' \subseteq EventKinds \X Subs /\ MailFits'
  <2>1. rzp'[r] = "ended" /\ mail' \subseteq mail \cup {<<"ended", r>>}
    BY <1>0, <1>3 DEF EndsThere
  <2>2. <<"ended", r>> \in EventKinds \X Subs
    BY DEF EventKinds
  <2>3. ASSUME NEW x \in Subs, <<"charged", x>> \in mail'
        PROVE  rzp'[x] \in PaidThere
    BY <1>0, <2>1, <2>3 DEF MailFits, PaymentsStayMade, PaidThere
  <2>4. ASSUME NEW x \in Subs, <<"ended", x>> \in mail'
        PROVE  rzp'[x] = "ended"
    BY <1>0, <2>1, <2>4 DEF MailFits, PaymentsStayMade
  <2> QED
    BY <1>0, <2>1, <2>2, <2>3, <2>4 DEF MailFits
<1>4. ASSUME NEW q \in Requests, CancelAsks(q)
      PROVE  mail' \subseteq mail \/ \E r \in Subs : EndsThere(r)
  <2>1. request[q].id \in Subs \/ request[q].id = NoSub
    BY DEF SubInv, GatewayTypes, Asked
  <2> QED
    BY <1>4, <2>1, Zenon DEF CancelAsks
<1>5. ASSUME NEW r \in Subs, CancelQuietly(r)
      PROVE  mail' \subseteq mail \/ EndsThere(r)
  BY <1>5, Zenon DEF CancelQuietly
<1>6. ASSUME NEW r \in Subs, Authorise(r) \/ RazorpayMoves(r)
      PROVE  \/ EndsThere(r)
             \/ \E kind \in {"charged", "pending", "halted"} :
                  mail' = mail \cup {<<kind, r>>} /\ (kind = "charged" => rzp'[r] = "active")
  BY <1>0, <1>6 DEF Authorise, RazorpayMoves
<1>7. \/ mail' \subseteq mail
      \/ \E q \in Requests : CancelAsks(q)
      \/ \E r \in Subs : CancelQuietly(r) \/ Authorise(r) \/ RazorpayMoves(r)
  <2>1. \/ UNCHANGED mail
        \/ \E q \in Requests : CancelAsks(q)
        \/ \E r \in Subs : \/ CancelQuietly(r) \/ Authorise(r) \/ RazorpayMoves(r)
                           \/ \E kind \in EventKinds : RazorpayEvent(kind, r)
    BY Zenon
       DEF BillingNext, billingVars, gatewayVars, StartOrderCheckout, OwnerPays, OrderLapses,
           ReturnPage, PageAsks, PageFulfils, OrderWebhook, StartCheckout, CheckoutStored, CancelReads,
           CancelStored, VerifyReads, VerifyStored, PeriodPasses, TrialEnds, ExpireTrials, ExpirePrepaid
  <2>2. ASSUME NEW r \in Subs, NEW kind \in EventKinds, RazorpayEvent(kind, r)
        PROVE  mail' \subseteq mail
    BY <2>2 DEF RazorpayEvent
  <2> QED
    BY <2>1, <2>2
<1> QED
  BY <1>1, <1>2, <1>3, <1>4, <1>5, <1>6, <1>7

LEMMA FaultsStep ==
  ASSUME ChargeInv, [BillingNext]_billingVars
  PROVE  faults' \in 0 .. MaxFaults
<1>1. UNCHANGED faults \/ Fault
  BY Zenon
     DEF BillingNext, billingVars, StartCheckout, CheckoutStored, CancelReads, CancelAsks, CancelStored,
         VerifyReads, VerifyStored, StartOrderCheckout, OwnerPays, OrderLapses, ReturnPage, PageAsks,
         PageFulfils, OrderWebhook, CancelQuietly, Authorise, RazorpayMoves, RazorpayEvent,
         PeriodPasses, TrialEnds, ExpireTrials, ExpirePrepaid
<1> QED
  BY <1>1, BillingAssumption DEF Fault, ChargeInv, ChargeTypes

LEMMA RequestsFitStep ==
  ASSUME SubInv, ChargeInv, [BillingNext]_billingVars
  PROVE  RequestsFit'
<1>0. /\ request \in [Requests -> Asked] /\ rzp \in [Subs -> RzpStates] /\ PaymentsStayMade
      /\ uncancelled \subseteq uncancelled' /\ RequestsFit /\ sub \in Row
  BY RzpStep, ObserversGrow DEF SubInv, GatewayTypes, ChargeInv, RowInv, RowTypes
<1>1. ASSUME NEW q \in Requests
      PROVE  RequestFits(request[q], rzp', uncancelled')
  <2>1. request[q].id \in Subs \/ request[q].id = NoSub
    BY <1>0 DEF Asked
  <2>2. request[q].op = "verify" => request[q].id \in Subs
    BY DEF SubInv, RequestsKnow
  <2> QED
    BY <1>0, <2>1, <2>2, Zenon DEF RequestsFit, RequestFits, PaymentsStayMade
<1>2. ASSUME NEW q \in Requests, NEW asked, RequestFits(asked, rzp', uncancelled'),
             request' = [request EXCEPT ![q] = asked]
      PROVE  RequestsFit'
  BY <1>0, <1>1, <1>2 DEF RequestsFit
<1>3. RequestFits(IdleRequest, rzp', uncancelled')
  BY DEF IdleRequest, RequestFits
<1>4. ASSUME NEW q \in Requests, NEW p \in Plans, StartCheckout(q, p)
      PROVE  \E asked : request' = [request EXCEPT ![q] = asked] /\ RequestFits(asked, rzp', uncancelled')
  <2>1. PICK r \in Subs :
          request' = [request EXCEPT ![q] = [IdleRequest EXCEPT !.op = "start", !.id = r, !.plan = p]]
    BY <1>4, Zenon DEF StartCheckout
  <2>2. RequestFits([IdleRequest EXCEPT !.op = "start", !.id = r, !.plan = p], rzp', uncancelled')
    BY DEF IdleRequest, RequestFits
  <2> QED
    BY <2>1, <2>2
<1>5. ASSUME NEW q \in Requests, NEW atPeriodEnd \in BOOLEAN, CancelReads(q, atPeriodEnd)
      PROVE  \E asked : request' = [request EXCEPT ![q] = asked] /\ RequestFits(asked, rzp', uncancelled')
  <2> DEFINE asked == [IdleRequest EXCEPT !.op = "cancel", !.inCheckout = InCheckout(sub),
                         !.atPeriodEnd = atPeriodEnd, !.id = ToCancel,
                         !.atCycleEnd = atPeriodEnd /\ sub.status = "active" /\ ~InCheckout(sub)]
  <2>1. request' = [request EXCEPT ![q] = asked]
    BY <1>5, Zenon DEF CancelReads
  <2>2. asked.op = "cancel" /\ (asked.inCheckout => asked.id # NoSub)
    <3>1. InCheckout(sub) => ToCancel # NoSub
      BY Zenon DEF ToCancel, InCheckout
    <3>2. asked.op = "cancel" /\ asked.inCheckout = InCheckout(sub) /\ asked.id = ToCancel
      BY DEF IdleRequest
    <3> HIDE DEF asked
    <3> QED
      BY <3>1, <3>2
  <2> HIDE DEF asked
  <2> QED
    BY <2>1, <2>2 DEF RequestFits
<1>6. ASSUME NEW q \in Requests, CancelAsks(q)
      PROVE  \E asked : request' = [request EXCEPT ![q] = asked] /\ RequestFits(asked, rzp', uncancelled')
  <2>0. request[q].inCheckout => request[q].id # NoSub
    BY DEF ChargeInv, RequestsFit, RequestFits
  <2>1. CASE request' = [request EXCEPT ![q] = IdleRequest]
    BY <1>3, <2>1
  <2>2. CASE request' = [request EXCEPT ![q].op = "asked"] /\ request[q].id \in uncancelled'
    <3> DEFINE asked == [request[q] EXCEPT !.op = "asked"]
    <3>1. request' = [request EXCEPT ![q] = asked] /\ asked.op = "asked"
          /\ asked.id = request[q].id /\ asked.inCheckout = request[q].inCheckout
      BY <1>0, <2>2 DEF Asked
    <3> HIDE DEF asked
    <3> QED
      BY <2>0, <2>2, <3>1 DEF RequestFits
  <2>3. CASE /\ request' = [request EXCEPT ![q].op = "asked"]
             /\ request[q].id = NoSub \/ rzp'[request[q].id] \in OverThere
    <3> DEFINE asked == [request[q] EXCEPT !.op = "asked"]
    <3>1. request' = [request EXCEPT ![q] = asked] /\ asked.op = "asked"
          /\ asked.id = request[q].id /\ asked.inCheckout = request[q].inCheckout
      BY <1>0, <2>3 DEF Asked
    <3> HIDE DEF asked
    <3> QED
      BY <2>0, <2>3, <3>1 DEF RequestFits
  <2>4. request[q].id \in Subs \/ request[q].id = NoSub
    BY <1>0 DEF Asked
  <2>6. ASSUME NEW r \in Subs, EndsThere(r) \/ rzp' = [rzp EXCEPT ![r] = "lastcycle"]
        PROVE  rzp'[r] \in OverThere
    BY <1>0, <2>6 DEF EndsThere, OverThere
  <2> QED
    BY <1>6, <2>1, <2>2, <2>3, <2>4, <2>6, Zenon DEF CancelAsks, Answered
<1>7. ASSUME NEW q \in Requests, VerifyReads(q)
      PROVE  \E asked : request' = [request EXCEPT ![q] = asked] /\ RequestFits(asked, rzp', uncancelled')
  <2>1. /\ request' = [request EXCEPT ![q] = [IdleRequest EXCEPT !.op = "verify", !.id = sub.tracked]]
        /\ rzp'[sub.tracked] \in PaidThere
    BY <1>0, <1>7 DEF VerifyReads, Row, gatewayVars, PaidThere
  <2>2. RequestFits([IdleRequest EXCEPT !.op = "verify", !.id = sub.tracked], rzp', uncancelled')
    BY <2>1 DEF RequestFits, IdleRequest
  <2> QED
    BY <2>1, <2>2
<1>8. ASSUME NEW q \in Requests, Answered(q)
      PROVE  request' = [request EXCEPT ![q] = IdleRequest]
  BY <1>8 DEF Answered
<1>9. CASE UNCHANGED request
  BY <1>1, <1>9 DEF RequestsFit
<1> QED
  BY <1>2, <1>3, <1>4, <1>5, <1>6, <1>7, <1>8, <1>9, WhoseRequest

-----------------------------------------------------------------------------
(* Steps that leave the row, and those that save it.                        *)
RowFits == StatusFits /\ ChargeHeard /\ NoStray

LEMMA ChargeFacts ==
  ASSUME SubInv, ChargeInv, [BillingNext]_billingVars
  PROVE  /\ reused \subseteq reused' /\ forgotten \subseteq forgotten'
         /\ \A r \in Subs : r \notin Excepted' => r \notin Excepted
         /\ PaymentsStayMade
         /\ sub \in Row /\ rzp \in [Subs -> RzpStates]
         /\ StatusFits /\ ChargeHeard /\ NoStray
BY ObserversGrow, RzpStep DEF SubInv, GatewayTypes, RowInv, RowTypes, ChargeInv, Excepted

LEMMA RowStays ==
  ASSUME SubInv, ChargeInv, [BillingNext]_billingVars, UNCHANGED sub,
         \A r \in Subs :
           /\ rzp'[r] \in Charging =>
                rzp[r] \in Charging \/ (rzp[r] = "offered" /\ <<"charged", r>> \in mail')
           /\ rzp'[r] = "offered" => rzp[r] = "offered"
           /\ <<"charged", r>> \in mail => <<"charged", r>> \in mail' \/ (sub.tracked = r => sub.activated)
           /\ r \in dropping => r \in dropping' \/ r \in uncancelled' \/ rzp'[r] = "ended"
  PROVE  RowFits'
<1>0. /\ reused \subseteq reused' /\ forgotten \subseteq forgotten'
      /\ \A r \in Subs : r \notin Excepted' => r \notin Excepted
      /\ PaymentsStayMade /\ StatusFits /\ ChargeHeard /\ NoStray
      /\ sub.tracked \in Subs \cup {NoSub}
  BY ChargeFacts DEF Row
<1>1. StatusFits'
  <2>1. forgotten' = {} => forgotten = {}
    BY <1>0
  <2> QED
    BY <1>0, <2>1, Zenon DEF StatusFits, PaymentsStayMade
<1>2. ChargeHeard'
  <2>1. sub.tracked \notin reused' => sub.tracked \notin reused
    BY <1>0
  <2> QED
    BY <1>0, <2>1, Zenon DEF ChargeHeard
<1>3. ASSUME NEW r \in Subs, r \notin Excepted'
      PROVE  /\ rzp'[r] \in MayCharge => r \in dropping' \/ sub'.tracked = r
             /\ rzp'[r] \in Charging /\ r \notin dropping' => ~Ended(sub') \/ ~sub'.activated
  <2>1. /\ rzp[r] \in MayCharge => r \in dropping \/ sub.tracked = r
        /\ rzp[r] \in Charging /\ r \notin dropping => ~Ended(sub) \/ ~sub.activated
    BY <1>0, <1>3, Zenon DEF NoStray
  <2>2. CASE r \in dropping
    <3>1. r \in dropping' \/ rzp'[r] = "ended"
      BY <1>3, <2>2 DEF Excepted
    <3> QED
      BY <3>1 DEF MayCharge, Charging
  <2>3. CASE r \notin dropping
    <3>1. rzp'[r] \in MayCharge => rzp[r] \in MayCharge
      BY DEF MayCharge
    <3>2. rzp[r] = "offered" => rzp[r] \notin PaidThere
      BY DEF PaidThere
    <3>3. r # NoSub
      BY BillingAssumption
    <3>4. rzp'[r] \in MayCharge => r \in dropping' \/ sub'.tracked = r
      BY <2>1, <2>3, <3>1, Zenon
    <3>5. rzp'[r] \in Charging /\ r \notin dropping' => ~Ended(sub) \/ ~sub.activated
      <4>1. CASE rzp[r] \in Charging
        BY <2>1, <2>3, <4>1
      <4>2. CASE rzp[r] = "offered"
        <5>1. sub.tracked = r
          BY <2>1, <2>3, <4>2 DEF MayCharge
        <5>2. ~sub.activated
          BY <1>0, <3>2, <3>3, <4>2, <5>1, Zenon DEF StatusFits
        <5> QED
          BY <5>2
      <4> QED
        BY <4>1, <4>2
    <3> QED
      BY <3>4, <3>5, Zenon DEF Ended
  <2> QED
    BY <2>2, <2>3
<1>4. NoStray'
  BY <1>3, Zenon DEF NoStray, Ended
<1> QED
  BY <1>1, <1>2, <1>4 DEF RowFits

LEMMA GatewayFits ==
  ASSUME SubInv, ChargeInv, [BillingNext]_billingVars,
         \/ UNCHANGED <<sub, rzp, mail, dropping>>
         \/ \E q \in Requests : (\E p \in Plans : StartCheckout(q, p)) \/ CancelAsks(q)
         \/ \E r \in Subs : CancelQuietly(r) \/ Authorise(r) \/ RazorpayMoves(r)
  PROVE  RowFits'
<1>0. rzp \in [Subs -> RzpStates] /\ request \in [Requests -> Asked]
  BY DEF SubInv, GatewayTypes
<1>1. CASE UNCHANGED <<sub, rzp, mail, dropping>>
  BY <1>1, RowStays
<1>2. ASSUME UNCHANGED <<sub, mail, dropping>>, NEW r \in Subs, NEW to \in {"created", "lastcycle"},
             rzp' = [rzp EXCEPT ![r] = to]
      PROVE  RowFits'
  BY <1>0, <1>2, RowStays DEF Charging
<1>3. ASSUME UNCHANGED sub, NEW r \in Subs, EndsThere(r), dropping' = dropping \/ dropping' = dropping \ {r}
      PROVE  RowFits'
  <2>1. rzp' = [rzp EXCEPT ![r] = "ended"] /\ mail \subseteq mail'
    BY <1>3 DEF EndsThere
  <2> QED
    BY <1>0, <1>3, <2>1, RowStays DEF Charging
<1>4. ASSUME NEW q \in Requests, NEW p \in Plans, StartCheckout(q, p)
      PROVE  RowFits'
  <2>1. UNCHANGED <<sub, mail, dropping>> /\ \E r \in Subs : UNCHANGED rzp \/ rzp' = [rzp EXCEPT ![r] = "created"]
    BY <1>4 DEF StartCheckout, rowVars
  <2> QED
    BY <1>1, <1>2, <2>1
<1>5. ASSUME NEW q \in Requests, CancelAsks(q)
      PROVE  RowFits'
  <2>1. request[q].id \in Subs \/ request[q].id = NoSub
    BY <1>0 DEF Asked
  <2>2. UNCHANGED <<sub, dropping>>
    BY <1>5 DEF CancelAsks, rowVars
  <2>3. \/ UNCHANGED <<rzp, mail>>
        \/ \E r \in Subs : (rzp' = [rzp EXCEPT ![r] = "lastcycle"] /\ UNCHANGED mail) \/ EndsThere(r)
    BY <1>5, <2>1, Zenon DEF CancelAsks
  <2> QED
    BY <1>1, <1>2, <1>3, <2>2, <2>3
<1>6. ASSUME NEW r \in Subs, CancelQuietly(r)
      PROVE  RowFits'
  <2>1. UNCHANGED sub /\ dropping' = dropping \ {r}
    BY <1>6 DEF CancelQuietly, rowVars
  <2>2. CASE EndsThere(r)
    BY <1>3, <2>1, <2>2
  <2>3. CASE uncancelled' = uncancelled \cup {r} /\ UNCHANGED <<rzp, mail>>
    BY <2>1, <2>3, RowStays
  <2> QED
    BY <1>6, <2>2, <2>3 DEF CancelQuietly
<1>7. ASSUME NEW r \in Subs, Authorise(r) \/ RazorpayMoves(r)
      PROVE  RowFits'
  <2>1. UNCHANGED <<sub, dropping>>
    BY <1>7 DEF Authorise, RazorpayMoves, rowVars
  <2>2. CASE EndsThere(r)
    BY <1>3, <2>1, <2>2
  <2>3. CASE /\ rzp[r] \in {"offered", "pending", "halted"} /\ rzp' = [rzp EXCEPT ![r] = "active"]
             /\ mail' = mail \cup {<<"charged", r>>}
    BY <1>0, <2>1, <2>3, RowStays DEF Charging
  <2>4. CASE /\ rzp[r] \in {"active", "pending"} /\ mail \subseteq mail'
             /\ \E to \in {"pending", "halted"} : rzp' = [rzp EXCEPT ![r] = to]
    BY <1>0, <2>1, <2>4, RowStays DEF Charging
  <2> QED
    BY <1>7, <2>2, <2>3, <2>4 DEF Authorise, RazorpayMoves
<1> QED
  BY <1>1, <1>4, <1>5, <1>6, <1>7

-----------------------------------------------------------------------------
(* Each save of the row.                                                    *)

\* A row that tracks nothing, over a subscription that Razorpay cannot charge.
LEMMA UntrackedFits ==
  ASSUME SubInv, ChargeInv, [BillingNext]_billingVars, UNCHANGED <<rzp>>, dropping \subseteq dropping',
         sub'.tracked = NoSub,
         sub'.status = "active" => sub'.activated /\ (sub'.prepaid \/ forgotten' # {}),
         sub.tracked # NoSub /\ sub.tracked \notin Excepted' =>
           sub.tracked \in dropping' \/ rzp[sub.tracked] \in OverThere
  PROVE  RowFits'
<1>0. NoStray /\ \A r \in Subs : r \notin Excepted' => r \notin Excepted
  BY ChargeFacts
<1>1. StatusFits' /\ ChargeHeard'
  BY DEF StatusFits, ChargeHeard
<1>2. ASSUME NEW r \in Subs, r \notin Excepted', rzp[r] \in MayCharge
      PROVE  r \in dropping'
  <2>1. r \in dropping \/ sub.tracked = r
    BY <1>0, <1>2 DEF NoStray
  <2>2. rzp[r] \notin OverThere
    BY <1>2 DEF OverThere, MayCharge, Charging
  <2> QED
    BY <1>2, <2>1, <2>2, BillingAssumption
<1>3. Charging \subseteq MayCharge
  BY DEF MayCharge
<1>4. \A r \in Subs : r \notin Excepted' /\ rzp'[r] \in MayCharge => r \in dropping'
  BY <1>2
<1>5. NoStray'
  BY <1>3, <1>4 DEF NoStray
<1> QED
  BY <1>1, <1>5 DEF RowFits

LEMMA FulfilmentFits ==
  ASSUME SubInv, ChargeInv, [BillingNext]_billingVars, NEW o \in Orders, Fulfils(o), UNCHANGED rzp
  PROVE  RowFits'
<1>0. /\ sub \in Row /\ StatusFits /\ NoStray
      /\ \A r \in Subs : r \notin Excepted' => r \notin Excepted
      /\ rzp \in [Subs -> RzpStates]
  BY ChargeFacts
<1>1. /\ sub'.tracked = NoSub /\ sub'.status = "active" /\ sub'.prepaid /\ sub'.activated
  BY <1>0 DEF Fulfils, Fulfilled, Save, Row
<1>2. dropping \subseteq dropping' /\ (Superseded /\ sub.tracked # NoSub => sub.tracked \in dropping')
  BY DEF Fulfils
<1>3. ASSUME ~Superseded, sub.tracked # NoSub, sub.tracked \notin Excepted'
      PROVE  sub.tracked \in dropping' \/ rzp[sub.tracked] \in OverThere
  <2>1. sub.activated /\ sub.status \notin {"active", "pending", "halted", "trialing"}
    BY <1>0, <1>3, Zenon DEF Superseded, InCheckout, StatusFits
  <2>2. Ended(sub)
    BY <1>0, <2>1 DEF Row, SubStatuses, Ended
  <2>3. sub.tracked \in Subs /\ rzp[sub.tracked] \in PaidThere
    BY <1>0, <1>3, <2>1 DEF Row, StatusFits
  <2>4. rzp[sub.tracked] \notin Charging \/ sub.tracked \in dropping
    BY <1>0, <1>3, <2>1, <2>2, <2>3, Zenon DEF NoStray
  <2> QED
    BY <1>2, <2>3, <2>4 DEF PaidThere, OverThere, Charging
<1> QED
  BY <1>1, <1>2, <1>3, UntrackedFits

LEMMA ActivationFits ==
  ASSUME SubInv, ChargeInv, [BillingNext]_billingVars, NEW r \in Subs, sub.tracked = r, Activate(r),
         rzp[r] \in PaidThere, UNCHANGED <<rzp, dropping>>, mail' = mail \/ mail' = mail \ {<<"charged", r>>}
  PROVE  RowFits'
<1>0. /\ sub \in Row /\ StatusFits /\ NoStray
      /\ \A x \in Subs : x \notin Excepted' => x \notin Excepted
  BY ChargeFacts
<1>1. CASE Ended(sub) /\ sub.activated
  <2>1. UNCHANGED rowVars
    BY <1>1, Zenon DEF Activate
  <2>2. UNCHANGED sub
    BY <2>1 DEF rowVars
  <2> QED
    BY <1>1, <2>2, RowStays
<1>2. CASE ~(Ended(sub) /\ sub.activated)
  <2>1. Save([sub EXCEPT !.plan = planOf[r], !.status = "active", !.prepaid = FALSE,
                         !.activated = TRUE, !.checkout = NoPlan])
    BY <1>2, Zenon DEF Activate
  <2>2. sub'.tracked = r /\ sub'.status = "active" /\ ~sub'.prepaid /\ sub'.activated
    BY <1>0, <2>1 DEF Save, Row
  <2>3. StatusFits' /\ ChargeHeard'
    BY <2>2, BillingAssumption DEF StatusFits, ChargeHeard
  <2>4. ~Ended(sub')
    BY <2>2 DEF Ended
  <2>5. NoStray'
    BY <1>0, <2>2, <2>4, Zenon DEF NoStray, Ended
  <2> QED
    BY <2>3, <2>5 DEF RowFits
<1> QED
  BY <1>1, <1>2

\* A status that is neither active nor trialing, on the same subscription.
LEMMA StatusChangeFits ==
  ASSUME SubInv, ChargeInv, [BillingNext]_billingVars, NEW s, Save(s),
         s.status \notin {"active", "trialing"},
         s.tracked = sub.tracked, s.prepaid = sub.prepaid, s.activated = sub.activated,
         s.checkout = sub.checkout,
         UNCHANGED <<rzp, dropping>>,
         \A r \in Subs : <<"charged", r>> \in mail => <<"charged", r>> \in mail',
         Ended(s) /\ sub.tracked # NoSub /\ sub.tracked \notin Excepted' /\ sub.activated =>
           rzp[sub.tracked] \in OverThere
  PROVE  RowFits'
<1>0. /\ sub \in Row /\ StatusFits /\ ChargeHeard /\ NoStray
      /\ reused \subseteq reused'
      /\ \A r \in Subs : r \notin Excepted' => r \notin Excepted
      /\ sub' = s
  BY ChargeFacts DEF Save
<1>1. StatusFits'
  BY <1>0, Zenon DEF StatusFits
<1>2. sub.tracked \in Subs \cup {NoSub}
  BY <1>0 DEF Row
<1>3. ChargeHeard'
  <2>1. sub.tracked \notin reused' => sub.tracked \notin reused
    BY <1>0
  <2> QED
    BY <1>0, <1>2, <2>1, Zenon DEF ChargeHeard
<1>4. ASSUME NEW r \in Subs, r \notin Excepted'
      PROVE  /\ rzp[r] \in MayCharge => r \in dropping \/ sub.tracked = r
             /\ rzp[r] \in Charging /\ r \notin dropping => ~Ended(s) \/ ~s.activated
  <2>1. rzp[r] \in MayCharge => r \in dropping \/ sub.tracked = r
    BY <1>0, <1>4, Zenon DEF NoStray
  <2>2. rzp[r] \in Charging => rzp[r] \notin OverThere /\ rzp[r] \in MayCharge
    BY DEF OverThere, MayCharge, Charging
  <2>3. r # NoSub
    BY BillingAssumption
  <2> QED
    BY <1>4, <2>1, <2>2, <2>3, Zenon
<1>5. NoStray'
  BY <1>0, <1>4, Zenon DEF NoStray, Ended
<1> QED
  BY <1>1, <1>3, <1>5 DEF RowFits

LEMMA PassesFit ==
  ASSUME SubInv, ChargeInv, [BillingNext]_billingVars, ExpireTrials \/ ExpirePrepaid
  PROVE  RowFits'
<1>0. sub \in Row /\ StatusFits
  BY ChargeFacts
<1>1. PICK status \in {"cancelled", "expired"} : Save([sub EXCEPT !.status = status, !.atEnd = FALSE])
  BY Zenon DEF ExpireTrials, ExpirePrepaid
<1> DEFINE s == [sub EXCEPT !.status = status, !.atEnd = FALSE]
<1>2. /\ s.status = status /\ s.tracked = sub.tracked /\ s.prepaid = sub.prepaid
      /\ s.activated = sub.activated /\ s.checkout = sub.checkout
  BY <1>0 DEF Row
<1>3. UNCHANGED <<rzp, mail, dropping>>
  BY DEF ExpireTrials, ExpirePrepaid, gatewayVars
<1>4. sub.activated => sub.tracked = NoSub
  <2>1. CASE ExpireTrials
    BY <2>1, Zenon DEF ExpireTrials, TrialEnded
  <2>2. CASE ExpirePrepaid
    BY <1>0, <2>2, Zenon DEF ExpirePrepaid, StatusFits
  <2> QED
    BY <2>1, <2>2
<1>5. Save(s) /\ s.status \notin {"active", "trialing"}
  BY <1>1, <1>2
<1> HIDE DEF s
<1> QED
  BY <1>2, <1>3, <1>4, <1>5, StatusChangeFits

LEMMA AbandonedFields ==
  ASSUME sub \in Row, NEW keepTrial \in BOOLEAN, NEW atEnd \in BOOLEAN
  PROVE  LET s == [Abandoned(keepTrial) EXCEPT !.atEnd = atEnd] IN
         /\ s.tracked = NoSub
         /\ s.status = "active" => sub.status = "active"
  BY DEF Abandoned, Row

LEMMA EventFits ==
  ASSUME SubInv, ChargeInv, [BillingNext]_billingVars, NEW r \in Subs, NEW kind \in EventKinds,
         RazorpayEvent(kind, r)
  PROVE  RowFits'
<1>0. /\ sub \in Row /\ StatusFits /\ MailFits
  BY ChargeFacts DEF ChargeInv
<1>1. UNCHANGED <<rzp, dropping>> /\ <<kind, r>> \in mail /\ mail' = mail \ {<<kind, r>>}
  BY DEF RazorpayEvent
<1>2. CASE sub.tracked # r
  <2>1. UNCHANGED sub
    BY <1>2 DEF RazorpayEvent, rowVars
  <2> QED
    BY <1>1, <1>2, <2>1, RowStays
<1>3. CASE sub.tracked = r /\ kind = "charged" /\ Activate(r)
  BY <1>0, <1>1, <1>3, ActivationFits DEF MailFits
<1>4. CASE sub.tracked = r /\ kind \in {"pending", "halted"} /\ SetStatus(kind)
  <2>1. CASE Ended(sub)
    <3>1. UNCHANGED sub
      BY <1>4, <2>1 DEF SetStatus, Save
    <3> QED
      BY <1>1, <1>4, <3>1, RowStays
  <2>2. CASE ~Ended(sub)
    <3> DEFINE s == [sub EXCEPT !.status = kind]
    <3>1. /\ s.status = kind /\ s.tracked = sub.tracked /\ s.prepaid = sub.prepaid
          /\ s.activated = sub.activated /\ s.checkout = sub.checkout
      BY <1>0 DEF Row
    <3>2. Save(s)
      BY <1>4, <2>2, Zenon DEF SetStatus
    <3>3. ~Ended(s) /\ s.status \notin {"active", "trialing"}
      BY <1>4, <3>1 DEF Ended
    <3>4. \A x \in Subs : <<"charged", x>> \in mail => <<"charged", x>> \in mail'
      BY <1>1, <1>4
    <3> HIDE DEF s
    <3> QED
      BY <1>1, <3>1, <3>2, <3>3, <3>4, StatusChangeFits
  <2> QED
    BY <2>1, <2>2
<1>5. CASE sub.tracked = r /\ kind = "ended" /\ PlanEnds
  <2>1. rzp[r] = "ended" /\ rzp[r] \in OverThere
    BY <1>0, <1>1, <1>5 DEF MailFits, OverThere
  <2>2. CASE InCheckout(sub)
    <3> DEFINE s == [Abandoned(TRUE) EXCEPT !.atEnd = FALSE]
    <3>1. Save(s)
      BY <1>5, <2>2, Zenon DEF PlanEnds
    <3>2. s.tracked = NoSub /\ (s.status = "active" => sub.status = "active")
      BY <1>0, AbandonedFields
    <3>3. sub.status # "active"
      BY <1>0, <2>2, Zenon DEF StatusFits, InCheckout
    <3>4. sub' = s
      BY <3>1 DEF Save
    <3> HIDE DEF s
    <3> QED
      BY <1>1, <1>5, <2>1, <3>2, <3>3, <3>4, UntrackedFits
  <2>3. CASE ~InCheckout(sub)
    <3>1. PICK end \in {"cancelled", "expired"} : Save([sub EXCEPT !.status = end, !.atEnd = FALSE])
      BY <1>5, <2>3, Zenon DEF PlanEnds
    <3> DEFINE s == [sub EXCEPT !.status = end, !.atEnd = FALSE]
    <3>2. /\ s.status = end /\ s.tracked = sub.tracked /\ s.prepaid = sub.prepaid
          /\ s.activated = sub.activated /\ s.checkout = sub.checkout
      BY <1>0 DEF Row
    <3>3. Save(s) /\ s.status \notin {"active", "trialing"}
      BY <3>1, <3>2
    <3>4. \A x \in Subs : <<"charged", x>> \in mail => <<"charged", x>> \in mail'
      BY <1>1, <1>5
    <3> HIDE DEF s
    <3> QED
      BY <1>1, <1>5, <2>1, <3>2, <3>3, <3>4, StatusChangeFits
  <2> QED
    BY <2>2, <2>3
<1> QED
  BY <1>2, <1>3, <1>4, <1>5, Zenon DEF RazorpayEvent

LEMMA CheckoutFits ==
  ASSUME SubInv, ChargeInv, [BillingNext]_billingVars, NEW q \in Requests, CheckoutStored(q)
  PROVE  RowFits'
<1>0. /\ sub \in Row /\ StatusFits /\ ChargeHeard /\ NoStray /\ PaymentsStayMade
      /\ reused \subseteq reused'
      /\ \A x \in Subs : x \notin Excepted' => x \notin Excepted
      /\ rzp \in [Subs -> RzpStates]
  BY ChargeFacts
<1>1. PICK r \in Subs : r = request[q].id
  BY DEF SubInv, RequestsKnow, CheckoutStored
<1>2. UNCHANGED mail /\ request[q].plan \in Plans
  BY DEF CheckoutStored, ChargeInv, RequestsFit, RequestFits
<1>3. CASE sub.status = "active"
  <2>1. UNCHANGED <<rowVars, rzp, dropping>>
    BY <1>3, Zenon DEF CheckoutStored
  <2>2. UNCHANGED <<sub, rzp, mail, dropping>>
    BY <1>2, <2>1 DEF rowVars
  <2> QED
    BY <2>2, GatewayFits
<1>4. CASE sub.status # "active"
  <2> DEFINE kept == sub.activated /\ sub.tracked = r
             status == IF sub.status = "trialing" THEN "pending" ELSE sub.status
             s == [sub EXCEPT !.tracked = r, !.checkout = request[q].plan, !.activated = kept,
                              !.status = status]
  <2>1. /\ Save([sub EXCEPT !.tracked = r, !.checkout = request[q].plan,
                            !.activated = @ /\ sub.tracked = r,
                            !.status = IF @ = "trialing" THEN "pending" ELSE @])
        /\ rzp' = [rzp EXCEPT ![r] = IF @ = "created" THEN "offered" ELSE @]
        /\ dropping' = IF sub.tracked \in {r, NoSub} THEN dropping ELSE dropping \cup {sub.tracked}
    BY <1>1, <1>4, Zenon DEF CheckoutStored
  <2>2. sub' = s
    BY <2>1, Zenon DEF Save
  <2>3. \A k, w :
          LET new == [sub EXCEPT !.tracked = r, !.checkout = request[q].plan, !.activated = k, !.status = w]
          IN /\ new.tracked = r /\ new.status = w /\ new.activated = k /\ new.checkout = request[q].plan
             /\ new.prepaid = sub.prepaid
    BY <1>0 DEF Row
  <2>4. /\ sub'.tracked = r /\ sub'.checkout = request[q].plan /\ sub'.prepaid = sub.prepaid
        /\ sub'.status = status /\ sub'.activated = kept
    BY <2>2, <2>3
  <2> HIDE DEF s
  <2>5. status \notin {"active", "trialing"}
    BY <1>4
  <2>6. sub'.activated => sub.activated /\ sub.tracked = r
    BY <2>4
  <2>7. r # NoSub /\ NoPlan \notin Plans
    BY BillingAssumption
  <2>8. StatusFits'
    <3>1. sub'.status \notin {"active", "trialing"}
      BY <2>4, <2>5
    <3>2. sub'.prepaid /\ sub'.activated => FALSE
      BY <1>0, <2>4, <2>6, <2>7, Zenon DEF StatusFits
    <3>3. sub'.activated => rzp'[sub'.tracked] \in PaidThere
      BY <1>0, <2>4, <2>6, <2>7, Zenon DEF StatusFits, PaymentsStayMade
    <3> QED
      BY <1>2, <2>4, <2>7, <3>1, <3>2, <3>3, Zenon DEF StatusFits
  <2>9. r \notin reused' => rzp[r] = "created" \/ sub.tracked = r
    BY <1>1, <2>4 DEF CheckoutStored
  <2>10. /\ rzp[r] = "created" => rzp'[r] = "offered"
         /\ rzp[r] # "created" => rzp'[r] = rzp[r]
         /\ \A x \in Subs : x # r => rzp'[x] = rzp[x]
    BY <1>0, <2>1
  <2>11. ChargeHeard'
    <3>1. ASSUME r \notin reused', ~sub'.activated, rzp'[r] \in Charging
          PROVE  <<"charged", r>> \in mail
      <4>1. sub.tracked = r /\ rzp[r] = rzp'[r]
        BY <2>9, <2>10, <3>1 DEF Charging
      <4>2. ~sub.activated /\ r \notin reused
        BY <1>0, <2>4, <3>1, <4>1
      <4> QED
        BY <1>0, <2>7, <3>1, <4>1, <4>2, Zenon DEF ChargeHeard
    <3> QED
      BY <1>2, <2>4, <3>1, Zenon DEF ChargeHeard
  <2>12. ASSUME NEW x \in Subs, x \notin Excepted'
         PROVE  /\ rzp'[x] \in MayCharge => x \in dropping' \/ sub'.tracked = x
                /\ rzp'[x] \in Charging /\ x \notin dropping' => ~Ended(sub') \/ ~sub'.activated
    <3>1. /\ rzp[x] \in MayCharge => x \in dropping \/ sub.tracked = x
          /\ rzp[x] \in Charging /\ x \notin dropping => ~Ended(sub) \/ ~sub.activated
      BY <1>0, <2>12, Zenon DEF NoStray
    <3>2. dropping \subseteq dropping' /\ (x = sub.tracked => x \in dropping' \/ x = r)
      BY <2>1, BillingAssumption
    <3>3. CASE x # r
      <4>1. rzp'[x] = rzp[x] /\ (rzp[x] \in Charging => rzp[x] \in MayCharge)
        BY <2>10, <3>3 DEF MayCharge
      <4>2. rzp[x] \in MayCharge => x \in dropping'
        BY <3>1, <3>2, <3>3
      <4> QED
        BY <4>1, <4>2
    <3>4. CASE x = r
      <4>1. rzp'[x] \in Charging => rzp[x] = rzp'[x]
        BY <2>10, <3>4 DEF Charging
      <4>2. Ended(sub') => Ended(sub)
        BY <2>4 DEF Ended
      <4> QED
        BY <2>4, <2>6, <3>1, <3>2, <3>4, <4>1, <4>2, Zenon
    <3> QED
      BY <3>3, <3>4
  <2>13. NoStray'
    BY <2>12, Zenon DEF NoStray, Ended
  <2> QED
    BY <2>8, <2>11, <2>13 DEF RowFits
<1> QED
  BY <1>3, <1>4

LEMMA CancellationFits ==
  ASSUME SubInv, ChargeInv, [BillingNext]_billingVars, NEW q \in Requests, CancelStored(q)
  PROVE  RowFits'
<1> DEFINE asked == request[q]
           kept == Abandoned(asked.atPeriodEnd)
           s1 == [kept EXCEPT !.atEnd = kept.status = "trialing"]
           s2 == [sub EXCEPT !.atEnd = TRUE]
           s3 == [sub EXCEPT !.status = "cancelled", !.atEnd = FALSE]
<1>0. /\ sub \in Row /\ StatusFits /\ ChargeHeard /\ NoStray /\ asked \in Asked
      /\ reused \subseteq reused' /\ forgotten \subseteq forgotten'
      /\ \A r \in Subs : r \notin Excepted' => r \notin Excepted
      /\ UNCHANGED <<rzp, mail, dropping, uncancelled>>
  BY ChargeFacts DEF SubInv, GatewayTypes, CancelStored, gatewayVars
<1>1. \/ /\ Save(s1) /\ asked.inCheckout /\ sub.tracked = asked.id
         /\ sub.status = "active" => asked.id \in forgotten'
      \/ Save(s2)
      \/ /\ Save(s3) /\ ~Ended(sub)
         /\ Ended(sub') => unasked' = unasked \cup ({sub.tracked} \ {asked.id, NoSub})
      \/ Save(sub)
  <2>1. CASE asked.inCheckout /\ sub.tracked = asked.id
    <3>1. Save(s1) /\ forgotten' = IF sub.status = "active" THEN forgotten \cup {asked.id} ELSE forgotten
      BY <2>1, Zenon DEF CancelStored
    <3> HIDE DEF s1
    <3> QED
      BY <2>1, <3>1
  <2>2. CASE ~(asked.inCheckout /\ sub.tracked = asked.id)
    <3>1. /\ Save(Cancelled(asked))
          /\ unasked' = IF Ended(sub) \/ ~Ended(sub') THEN unasked
                        ELSE unasked \cup ({sub.tracked} \ {asked.id, NoSub})
      BY <2>2, Zenon DEF CancelStored
    <3>2. Cancelled(asked) = s2 \/ (Cancelled(asked) = s3 /\ ~Ended(sub)) \/ Cancelled(asked) = sub
      BY Zenon DEF Cancelled
    <3> HIDE DEF s1, s2, s3, asked
    <3> QED
      BY <3>1, <3>2
  <2> QED
    BY <2>1, <2>2
<1>3. asked.id # NoSub /\ asked.id \notin Excepted' => rzp[asked.id] \in OverThere
  <2>1. asked.op = "asked" /\ RequestFits(asked, rzp, uncancelled)
    BY DEF CancelStored, ChargeInv, RequestsFit
  <2> QED
    BY <1>0, <2>1 DEF RequestFits, Excepted
<1>4. CASE /\ Save(s1) /\ asked.inCheckout /\ sub.tracked = asked.id
           /\ sub.status = "active" => asked.id \in forgotten'
  <2>1. asked.atPeriodEnd \in BOOLEAN /\ (kept.status = "trialing") \in BOOLEAN
    BY <1>0 DEF Asked
  <2>2. s1.tracked = NoSub /\ (s1.status = "active" => sub.status = "active")
        /\ (s1.activated => sub.activated) /\ (sub.activated => s1.activated)
    BY <1>0, <2>1 DEF Abandoned, Row
  <2>3. sub' = s1
    BY <1>4 DEF Save
  <2> HIDE DEF s1, asked
  <2>4. s1.status = "active" => s1.activated
    BY <1>0, <2>2, Zenon DEF StatusFits
  <2>5. s1.status = "active" => forgotten' # {}
    BY <1>4, <2>2
  <2> QED
    BY <1>0, <1>3, <1>4, <2>2, <2>3, <2>4, <2>5, UntrackedFits
<1>5. CASE Save(s2)
  <2>1. /\ s2.tracked = sub.tracked /\ s2.status = sub.status /\ s2.checkout = sub.checkout
        /\ s2.activated = sub.activated /\ s2.prepaid = sub.prepaid
    BY <1>0 DEF Row
  <2>2. sub' = s2
    BY <1>5 DEF Save
  <2> HIDE DEF s2
  <2>3. /\ sub'.tracked = sub.tracked /\ sub'.status = sub.status /\ sub'.checkout = sub.checkout
        /\ sub'.activated = sub.activated /\ sub'.prepaid = sub.prepaid /\ rzp' = rzp /\ mail' = mail
        /\ dropping' = dropping
    BY <1>0, <2>1, <2>2, Zenon
  <2>4. StatusFits'
    <3>1. forgotten' = {} => forgotten = {}
      BY <1>0
    <3> QED
      BY <1>0, <2>3, <3>1, Zenon DEF StatusFits
  <2>5. ChargeHeard'
    <3>1. sub.tracked \notin reused' => sub.tracked \notin reused
      BY <1>0
    <3> QED
      BY <1>0, <2>3, <3>1, Zenon DEF ChargeHeard
  <2>6. NoStray'
    BY <1>0, <2>3, Zenon DEF NoStray, Ended
  <2> QED
    BY <2>4, <2>5, <2>6 DEF RowFits
<1>6. CASE /\ Save(s3) /\ ~Ended(sub)
           /\ Ended(sub') => unasked' = unasked \cup ({sub.tracked} \ {asked.id, NoSub})
  <2>1. /\ s3.tracked = sub.tracked /\ s3.status = "cancelled" /\ s3.checkout = sub.checkout
        /\ s3.activated = sub.activated /\ s3.prepaid = sub.prepaid
    BY <1>0 DEF Row
  <2>2. sub.tracked # NoSub /\ sub.tracked \notin Excepted' => rzp[sub.tracked] \in OverThere
    <3>1. sub' = s3 /\ Ended(s3)
      BY <1>6, <2>1 DEF Save, Ended
    <3>2. Ended(sub')
      BY <3>1, Zenon
    <3>3. sub.tracked # NoSub /\ sub.tracked \notin unasked' => sub.tracked = asked.id
      BY <1>6, <3>2
    <3> QED
      BY <1>3, <3>3 DEF Excepted
  <2> HIDE DEF s3, asked
  <2> QED
    BY <1>0, <1>6, <2>1, <2>2, StatusChangeFits
<1>7. CASE Save(sub)
  <2>1. UNCHANGED <<sub, rzp, mail, dropping>>
    BY <1>0, <1>7 DEF Save
  <2> QED
    BY <2>1, GatewayFits
<1> QED
  BY <1>1, <1>4, <1>5, <1>6, <1>7

-----------------------------------------------------------------------------
LEMMA StepKinds ==
  ASSUME [BillingNext]_billingVars
  PROVE  \/ UNCHANGED <<sub, rzp, mail, dropping>>
         \/ \E q \in Requests : \/ (\E p \in Plans : StartCheckout(q, p)) \/ CancelAsks(q)
                                \/ CheckoutStored(q) \/ CancelStored(q) \/ VerifyStored(q)
         \/ \E r \in Subs : \/ CancelQuietly(r) \/ Authorise(r) \/ RazorpayMoves(r)
                            \/ \E kind \in EventKinds : RazorpayEvent(kind, r)
         \/ \E o \in Orders : Fulfils(o) /\ UNCHANGED <<rzp, mail>>
         \/ ExpireTrials \/ ExpirePrepaid
<1>1. ASSUME NEW o \in Orders, FulfilOrder(o), UNCHANGED <<rzp, mail>>
      PROVE  UNCHANGED <<sub, rzp, mail, dropping>> \/ (Fulfils(o) /\ UNCHANGED <<rzp, mail>>)
  BY <1>1, Zenon DEF FulfilOrder, rowVars
<1> QED
  BY <1>1, Zenon
     DEF BillingNext, billingVars, rowVars, gatewayVars, StartOrderCheckout, OwnerPays, OrderLapses,
         ReturnPage, PageAsks, PageFulfils, OrderWebhook, CancelReads, VerifyReads, PeriodPasses, TrialEnds

LEMMA DroppingMoves ==
  ASSUME [BillingNext]_billingVars
  PROVE  \/ UNCHANGED dropping
         \/ \E o \in Orders : Fulfils(o)
         \/ \E q \in Requests : CheckoutStored(q)
         \/ \E r \in Subs : CancelQuietly(r)
BY StepKinds, Zenon
   DEF StartCheckout, CancelAsks, CancelStored, VerifyStored, Authorise, RazorpayMoves, RazorpayEvent,
       ExpireTrials, ExpirePrepaid, gatewayVars

LEMMA DroppingStep ==
  ASSUME SubInv, ChargeInv, [BillingNext]_billingVars
  PROVE  dropping' \subseteq Subs
<1>1. sub.tracked \in Subs \cup {NoSub} /\ dropping \subseteq Subs
  BY DEF SubInv, RowInv, RowTypes, Row, ChargeInv, ChargeTypes
<1>2. ASSUME NEW o \in Orders, Fulfils(o)
      PROVE  dropping' \subseteq Subs
  BY <1>1, <1>2 DEF Fulfils
<1>3. ASSUME NEW q \in Requests, CheckoutStored(q)
      PROVE  dropping' \subseteq Subs
  <2>1. \/ UNCHANGED dropping
        \/ dropping' = IF sub.tracked \in {request[q].id, NoSub} THEN dropping ELSE dropping \cup {sub.tracked}
    BY <1>3, Zenon DEF CheckoutStored
  <2> QED
    BY <1>1, <2>1
<1>4. ASSUME NEW r \in Subs, CancelQuietly(r)
      PROVE  dropping' \subseteq dropping
  BY <1>4 DEF CancelQuietly
<1> QED
  BY <1>1, <1>2, <1>3, <1>4, DroppingMoves

(* A checkout that is offered again was superseded, and is still to be      *)
(* cancelled at Razorpay, or was.                                           *)
LEMMA ReusedStep ==
  ASSUME SubInv, ChargeInv, [BillingNext]_billingVars
  PROVE  ReusedIsDropped'
<1>0. /\ \A r \in Subs : r \notin Excepted' => r \notin Excepted
      /\ PaymentsStayMade /\ NoStray /\ ReusedIsDropped /\ rzp \in [Subs -> RzpStates]
  BY ChargeFacts DEF ChargeInv
<1>1. ASSUME NEW r \in Subs, rzp[r] \in OverThere
      PROVE  rzp'[r] \in OverThere
  BY <1>0, <1>1 DEF PaymentsStayMade
<1>2. ASSUME NEW r \in Subs, r \in dropping, r \notin Excepted'
      PROVE  r \in dropping' \/ rzp'[r] \in OverThere
  <2>1. ASSUME NEW o \in Orders, Fulfils(o)
        PROVE  r \in dropping'
    BY <1>2, <2>1 DEF Fulfils
  <2>2. ASSUME NEW q \in Requests, CheckoutStored(q)
        PROVE  r \in dropping'
    <3>1. \/ UNCHANGED dropping
          \/ dropping' = IF sub.tracked \in {request[q].id, NoSub} THEN dropping ELSE dropping \cup {sub.tracked}
      BY <2>2, Zenon DEF CheckoutStored
    <3> QED
      BY <1>2, <3>1
  <2>3. ASSUME NEW x \in Subs, CancelQuietly(x)
        PROVE  r \in dropping' \/ rzp'[r] \in OverThere
    <3>1. CASE x # r
      BY <1>2, <2>3, <3>1 DEF CancelQuietly
    <3>2. CASE x = r
      <4>1. EndsThere(r)
        BY <1>2, <2>3, <3>2 DEF CancelQuietly, Excepted
      <4> QED
        BY <1>0, <4>1 DEF EndsThere, OverThere
    <3> QED
      BY <3>1, <3>2
  <2> QED
    BY <1>2, <2>1, <2>2, <2>3, DroppingMoves
<1>3. ASSUME NEW q \in Requests, CheckoutStored(q), NEW r \in Subs, r \in reused', r \notin reused,
             r \notin Excepted'
      PROVE  r \in dropping \/ rzp[r] \in OverThere
  <2>1. r = request[q].id /\ sub.tracked # r /\ rzp[r] # "created" /\ rzp[r] # "none"
    BY <1>3 DEF CheckoutStored, SubInv, RequestsKnow
  <2>2. rzp[r] \in MayCharge => r \in dropping
    BY <1>0, <1>3, <2>1 DEF NoStray
  <2> QED
    BY <1>0, <2>1, <2>2 DEF RzpStates, MayCharge, Charging, OverThere
<1>4. UNCHANGED reused \/ \E q \in Requests : CheckoutStored(q)
  BY Zenon
     DEF BillingNext, billingVars, observed, crossed, StartCheckout, CancelReads, CancelAsks,
         CancelStored, CancelQuietly, VerifyReads, VerifyStored, StartOrderCheckout, OwnerPays,
         OrderLapses, ReturnPage, PageAsks, PageFulfils, OrderWebhook, Authorise, RazorpayMoves,
         RazorpayEvent, PeriodPasses, TrialEnds, ExpireTrials, ExpirePrepaid
<1>5. ASSUME NEW r \in Subs, r \in reused', r \notin Excepted'
      PROVE  r \in dropping' \/ rzp'[r] \in OverThere
  <2>1. r \in dropping \/ rzp[r] \in OverThere
    BY <1>0, <1>3, <1>4, <1>5 DEF ReusedIsDropped
  <2> QED
    BY <1>1, <1>2, <1>5, <2>1
<1> QED
  BY <1>5 DEF ReusedIsDropped

LEMMA ChargeStep ==
  ASSUME SubInv, ChargeInv, [BillingNext]_billingVars
  PROVE  ChargeInv'
<1>1. ASSUME NEW q \in Requests, VerifyStored(q)
      PROVE  RowFits'
  <2>1. UNCHANGED <<rzp, mail, dropping>>
    BY <1>1 DEF VerifyStored, gatewayVars
  <2>2. CASE sub.tracked = request[q].id
    <3>1. /\ request[q].id \in Subs /\ Activate(request[q].id)
          /\ rzp[request[q].id] \in PaidThere
      BY <1>1, <2>2 DEF VerifyStored, SubInv, RequestsKnow, ChargeInv, RequestsFit, RequestFits
    <3> QED
      BY <2>1, <2>2, <3>1, ActivationFits
  <2>3. CASE sub.tracked # request[q].id
    BY <1>1, <2>1, <2>3, GatewayFits DEF VerifyStored, rowVars
  <2> QED
    BY <2>2, <2>3
<1>2. RowFits'
  BY <1>1, StepKinds, GatewayFits, FulfilmentFits, PassesFit, EventFits, CheckoutFits, CancellationFits
<1>3. ChargeTypes'
  BY MailStep, DroppingStep, FaultsStep DEF ChargeTypes
<1> QED
  BY <1>2, <1>3, MailStep, RequestsFitStep, ReusedStep DEF ChargeInv, RowFits

LEMMA ChargeInit ==
  ASSUME BillingInit
  PROVE  ChargeInv
<1>1. /\ sub.status = "trialing" /\ sub.tracked = NoSub /\ mail = {} /\ dropping = {} /\ faults = 0
      /\ rzp = [r \in Subs |-> "none"] /\ request = [q \in Requests |-> IdleRequest]
  BY DEF BillingInit
<1>2. RequestsFit
  BY <1>1, IdleIsAsked DEF RequestsFit, RequestFits, IdleRequest
<1>3. StatusFits
  BY <1>1, Zenon DEF StatusFits, BillingInit
<1>4. ChargeHeard
  BY <1>1, Zenon DEF ChargeHeard
<1>5. NoStray /\ ReusedIsDropped
  BY <1>1 DEF NoStray, ReusedIsDropped, MayCharge, Charging, BillingInit
<1> QED
  BY <1>1, <1>2, <1>3, <1>4, <1>5, BillingAssumption DEF ChargeInv, ChargeTypes, MailFits

LEMMA ChargesFit ==
  ASSUME SubInv, ChargeInv
  PROVE  ChargesMatchPlan
<1>1. ActivePlanIsPaid
  <2>1. ASSUME sub.status = "active", ~sub.prepaid
        PROVE  IF sub.tracked = NoSub THEN forgotten # {} ELSE rzp[sub.tracked] \in PaidThere
    BY <2>1, Zenon DEF ChargeInv, StatusFits
  <2>2. PaidThere \subseteq Charging \cup {"lastcycle", "ended"}
    BY DEF PaidThere, Charging
  <2> QED
    BY <2>1, <2>2 DEF ActivePlanIsPaid
<1>2. ASSUME Settled, NEW r \in Subs, r \notin Excepted, rzp[r] \in Charging
      PROVE  sub.tracked = r /\ ~Ended(sub)
  <2>1. dropping = {} /\ mail = {} /\ rzp[r] \in MayCharge
    BY <1>2 DEF Settled, MayCharge
  <2>2. r \notin dropping /\ <<"charged", r>> \notin mail /\ r # NoSub
    BY <2>1, BillingAssumption
  <2>3. sub.tracked = r /\ (~Ended(sub) \/ ~sub.activated)
    BY <1>2, <2>1, <2>2, Zenon DEF ChargeInv, NoStray
  <2>4. r \notin reused
    BY <1>2, <2>2 DEF ChargeInv, ReusedIsDropped, OverThere, Charging
  <2>5. sub.activated
    BY <1>2, <2>2, <2>3, <2>4, Zenon DEF ChargeInv, ChargeHeard
  <2> QED
    BY <2>3, <2>5
<1>3. NoChargeWithoutPlan
  BY <1>2 DEF NoChargeWithoutPlan, Excepted
<1> QED
  BY <1>1, <1>3 DEF ChargesMatchPlan

\* Who has a plan pays for it, and who pays has one, for any requests that cross
\* and any calls that fail: a plan that runs unpaid was left by a cancellation
\* that forgot a paid checkout; and once everything on its way has arrived, what
\* Razorpay charges for beside a plan that runs is a subscription whose
\* cancellation failed, or whose plan was cancelled unasked.
THEOREM BillingChargesMatch == BillingSpec => []ChargesMatchPlan
<1>1. BillingInit => SubInv /\ ChargeInv
  BY SubInit, ChargeInit
<1>2. SubInv /\ ChargeInv /\ [BillingNext]_billingVars => SubInv' /\ ChargeInv'
  BY SubStep, ChargeStep
<1>3. SubInv /\ ChargeInv => ChargesMatchPlan
  BY ChargesFit
<1> QED
  BY <1>1, <1>2, <1>3, PTL DEF BillingSpec

-----------------------------------------------------------------------------
(* Plans and paid time.  What was ordered has a plan, and there is no more  *)
(* paid time than paid orders.                                              *)
PaidOrders == {o \in Orders : row[o] = "paid"}
PlansFit ==
  /\ sub.plan \in Plans
  /\ \A o \in Orders : row[o] # "none" => planOf[o] \in Plans
  /\ \A r \in Subs : rzp[r] # "none" => planOf[r] \in Plans
\* Whoever is to be cancelled was created.
CreatedBefore ==
  /\ \A r \in dropping : rzp[r] # "none"
  /\ \A q \in Requests : request[q].id # NoSub => rzp[request[q].id] # "none"
PeriodsFit == left <= Cardinality(PaidOrders)

LEMMA RowOfOrderMoves ==
  ASSUME OrdersInv, [BillingNext]_billingVars, NEW o \in Orders
  PROVE  /\ row[o] = "paid" => row'[o] = "paid"
         /\ row'[o] = "paid" => row[o] # "none"
         /\ row'[o] # "none" => row[o] # "none" \/ \E p \in Plans : StartOrderCheckout(o, p)
<1>0. OrderTypes /\ OrderFacts(o)
  BY DEF OrdersInv
<1>1. CASE UNCHANGED orderVars
  BY <1>0, <1>1 DEF orderVars
<1>2. ASSUME NEW x \in Orders, NEW p \in Plans, StartOrderCheckout(x, p)
      PROVE  row' = [row EXCEPT ![x] = "created"] /\ row[x] = "none"
  BY <1>2 DEF StartOrderCheckout
<1>3. ASSUME NEW x \in Orders, OwnerPays(x) \/ OrderLapses(x)
      PROVE  row' = row
  BY <1>3 DEF OwnerPays, OrderLapses
<1>4. ASSUME NEW x \in Orders, PageAsks(x)
      PROVE  /\ row[x] \in {"created", "ended"}
             /\ row' = [row EXCEPT ![x] = IF there[x] \in {"terminating", "closed"} THEN "ended" ELSE row[x]]
  BY <1>4 DEF PageAsks
<1>5. ASSUME NEW x \in Orders, PageFulfils(x) \/ OrderWebhook(x)
      PROVE  row' = row \/ (row[x] # "none" /\ row' = [row EXCEPT ![x] = "paid"])
  <2>1. there[x] = "paid"
    BY <1>5 DEF PageFulfils, OrderWebhook, OrdersInv, OrderFacts
  <2>2. row[x] # "none"
    BY <2>1 DEF OrdersInv, OrderFacts
  <2>3. FulfilOrder(x)
    BY <1>5 DEF PageFulfils, OrderWebhook
  <2>4. row' = row \/ row' = [row EXCEPT ![x] = "paid"]
    BY <2>3, Zenon DEF FulfilOrder, Fulfils
  <2> QED
    BY <2>2, <2>4
<1>6. UNCHANGED orderVars \/ \E x \in Orders : OrderStep(x)
  BY OtherStepsLeaveOrders
<1>7. CASE \E x \in Orders : OrderStep(x)
  <2>1. PICK x \in Orders : OrderStep(x)
    BY <1>7
  <2>2. CASE \E p \in Plans : StartOrderCheckout(x, p)
    BY <1>0, <1>2, <2>2 DEF OrderTypes
  <2>3. CASE OwnerPays(x) \/ OrderLapses(x)
    BY <1>0, <1>3, <2>3
  <2>4. CASE PageAsks(x)
    BY <1>0, <1>4, <2>4 DEF OrderTypes
  <2>5. CASE PageFulfils(x) \/ OrderWebhook(x)
    BY <1>0, <1>5, <2>5 DEF OrderTypes
  <2> QED
    BY <2>1, <2>2, <2>3, <2>4, <2>5 DEF OrderStep, ReturnPage
<1> QED
  BY <1>1, <1>6, <1>7

LEMMA PlanOfMoves ==
  ASSUME SubInv, [BillingNext]_billingVars, NEW x \in Orders \cup Subs, planOf[x] \in Plans
  PROVE  planOf'[x] \in Plans
BY PlanOfChanges DEF SubInv, GatewayTypes

LEMMA CreatedStep ==
  ASSUME SubInv, ChargeInv, CreatedBefore, [BillingNext]_billingVars
  PROVE  CreatedBefore'
<1>0. /\ rzp \in [Subs -> RzpStates] /\ rzp' \in [Subs -> RzpStates]
      /\ request \in [Requests -> Asked] /\ dropping \subseteq Subs
      /\ \A x \in Subs : rzp[x] # "none" => rzp'[x] # "none"
      /\ sub \in Row
  BY RzpStep DEF SubInv, GatewayTypes, ChargeInv, ChargeTypes, RowInv, RowTypes
<1>1. sub.tracked \in Subs => rzp[sub.tracked] # "none" /\ rzp'[sub.tracked] # "none"
  BY <1>0 DEF SubInv, RowInv, TrackedIsOffered, Offered
<1>2. sub.tracked \in Subs \cup {NoSub}
  BY <1>0 DEF Row
<1>3. ASSUME NEW r \in dropping'
      PROVE  rzp'[r] # "none"
  <2>1. dropping' \subseteq dropping \/ (sub.tracked # NoSub /\ dropping' = dropping \cup {sub.tracked})
    <3>1. ASSUME NEW o \in Orders, Fulfils(o)
          PROVE  dropping' = dropping \/ (sub.tracked # NoSub /\ dropping' = dropping \cup {sub.tracked})
      BY <3>1, Zenon DEF Fulfils
    <3>2. ASSUME NEW q \in Requests, CheckoutStored(q)
          PROVE  dropping' = dropping \/ (sub.tracked # NoSub /\ dropping' = dropping \cup {sub.tracked})
      <4>1. \/ UNCHANGED dropping
            \/ dropping' = IF sub.tracked \in {request[q].id, NoSub} THEN dropping ELSE dropping \cup {sub.tracked}
        BY <3>2, Zenon DEF CheckoutStored
      <4> QED
        BY <4>1
    <3>3. ASSUME NEW x \in Subs, CancelQuietly(x)
          PROVE  dropping' \subseteq dropping
      BY <3>3 DEF CancelQuietly
    <3> QED
      BY <3>1, <3>2, <3>3, DroppingMoves
  <2> QED
    BY <1>0, <1>1, <1>2, <1>3, <2>1 DEF CreatedBefore
<1>4. ASSUME NEW q \in Requests, request'[q].id # NoSub
      PROVE  rzp'[request'[q].id] # "none"
  <2>1. \A x \in Requests : request[x].id # NoSub => request[x].id \in Subs /\ rzp'[request[x].id] # "none"
    BY <1>0 DEF Asked, CreatedBefore
  <2>2. CASE UNCHANGED request
    BY <1>4, <2>1, <2>2
  <2>3. ASSUME NEW x \in Requests, NEW asked, request' = [request EXCEPT ![x] = asked],
               asked.id # NoSub => rzp'[asked.id] # "none"
        PROVE  rzp'[request'[q].id] # "none"
    BY <1>0, <1>4, <2>1, <2>3
  <2>4. ASSUME NEW x \in Requests, NEW p \in Plans, StartCheckout(x, p)
        PROVE  \E asked : request' = [request EXCEPT ![x] = asked] /\ (asked.id # NoSub => rzp'[asked.id] # "none")
    <3>1. PICK r \in Subs :
            /\ request' = [request EXCEPT ![x] = [IdleRequest EXCEPT !.op = "start", !.id = r, !.plan = p]]
            /\ \/ Reusable(p) /\ r = sub.tracked /\ UNCHANGED rzp
               \/ rzp' = [rzp EXCEPT ![r] = "created"]
      BY <2>4 DEF StartCheckout
    <3>2. rzp'[r] # "none"
      BY <1>0, <1>1, <3>1
    <3>3. [IdleRequest EXCEPT !.op = "start", !.id = r, !.plan = p].id = r
      BY DEF IdleRequest
    <3> QED
      BY <3>1, <3>2, <3>3
  <2>5. ASSUME NEW x \in Requests, NEW atPeriodEnd \in BOOLEAN, CancelReads(x, atPeriodEnd)
        PROVE  \E asked : request' = [request EXCEPT ![x] = asked] /\ (asked.id # NoSub => rzp'[asked.id] # "none")
    <3> DEFINE asked == [IdleRequest EXCEPT !.op = "cancel", !.inCheckout = InCheckout(sub),
                           !.atPeriodEnd = atPeriodEnd, !.id = ToCancel,
                           !.atCycleEnd = atPeriodEnd /\ sub.status = "active" /\ ~InCheckout(sub)]
    <3>1. request' = [request EXCEPT ![x] = asked]
      BY <2>5, Zenon DEF CancelReads
    <3>2. \A i, a, y, b :
            [IdleRequest EXCEPT !.op = "cancel", !.inCheckout = i, !.atPeriodEnd = a, !.id = y,
                                !.atCycleEnd = b].id = y
      BY DEF IdleRequest
    <3>3. asked.id = ToCancel
      BY <3>2
    <3>4. ToCancel # NoSub => ToCancel = sub.tracked
      BY DEF ToCancel
    <3> HIDE DEF asked
    <3> QED
      BY <1>1, <1>2, <3>1, <3>3, <3>4
  <2>6. ASSUME NEW x \in Requests, CancelAsks(x)
        PROVE  \E asked : request' = [request EXCEPT ![x] = asked] /\ (asked.id # NoSub => rzp'[asked.id] # "none")
    <3>1. request' = [request EXCEPT ![x].op = "asked"] \/ request' = [request EXCEPT ![x] = IdleRequest]
      BY <2>6, Zenon DEF CancelAsks, Answered
    <3>2. CASE request' = [request EXCEPT ![x].op = "asked"]
      <4>1. [request[x] EXCEPT !.op = "asked"].id = request[x].id
        BY <1>0 DEF Asked
      <4>2. request' = [request EXCEPT ![x] = [request[x] EXCEPT !.op = "asked"]]
        BY <1>0, <3>2
      <4> QED
        BY <2>1, <4>1, <4>2
    <3>3. IdleRequest.id = NoSub
      BY DEF IdleRequest
    <3> QED
      BY <3>1, <3>2, <3>3
  <2>7. ASSUME NEW x \in Requests, VerifyReads(x)
        PROVE  \E asked : request' = [request EXCEPT ![x] = asked] /\ (asked.id # NoSub => rzp'[asked.id] # "none")
    <3>1. request' = [request EXCEPT ![x] = [IdleRequest EXCEPT !.op = "verify", !.id = sub.tracked]]
      BY <2>7 DEF VerifyReads
    <3>2. [IdleRequest EXCEPT !.op = "verify", !.id = sub.tracked].id = sub.tracked
      BY DEF IdleRequest
    <3> QED
      BY <1>1, <1>2, <3>1, <3>2
  <2>8. ASSUME NEW x \in Requests, Answered(x)
        PROVE  \E asked : request' = [request EXCEPT ![x] = asked] /\ asked.id = NoSub
    <3>1. request' = [request EXCEPT ![x] = IdleRequest] /\ IdleRequest.id = NoSub
      BY <2>8 DEF Answered, IdleRequest
    <3> QED
      BY <3>1, Zenon
  <2>9. \/ UNCHANGED request
        \/ \E x \in Requests : \/ \E p \in Plans : StartCheckout(x, p)
                               \/ \E atPeriodEnd \in BOOLEAN : CancelReads(x, atPeriodEnd)
                               \/ CancelAsks(x) \/ VerifyReads(x) \/ Answered(x)
    BY WhoseRequest
  <2> QED
    BY <2>2, <2>3, <2>4, <2>5, <2>6, <2>7, <2>8, <2>9
<1> QED
  BY <1>3, <1>4 DEF CreatedBefore

LEMMA CreatedThere ==
  ASSUME SubInv, CreatedBefore, [BillingNext]_billingVars, NEW r \in Subs, rzp[r] = "none", rzp'[r] # "none"
  PROVE  planOf'[r] \in Plans
<1>0. rzp \in [Subs -> RzpStates] /\ planOf \in [Orders \cup Subs -> Plans \cup {NoPlan}]
  BY DEF SubInv, GatewayTypes
<1>1. ASSUME NEW q \in Requests, NEW p \in Plans, StartCheckout(q, p)
      PROVE  planOf'[r] \in Plans
  BY <1>0, <1>1 DEF StartCheckout
<1>2. ASSUME NEW q \in Requests, CheckoutStored(q)
      PROVE  FALSE
  <2>1. request[q].id \in Subs /\ rzp[request[q].id] # "none"
    BY <1>2 DEF CheckoutStored, SubInv, RequestsKnow
  <2>2. \/ UNCHANGED rzp
        \/ rzp' = [rzp EXCEPT ![request[q].id] = IF @ = "created" THEN "offered" ELSE @]
    BY <1>2, Zenon DEF CheckoutStored
  <2> QED
    BY <1>0, <2>1, <2>2
<1>3. ASSUME NEW q \in Requests, CancelAsks(q)
      PROVE  FALSE
  <2>1. request[q].id # NoSub => rzp[request[q].id] # "none"
    BY DEF CreatedBefore
  <2>2. \/ UNCHANGED rzp
        \/ /\ request[q].id # NoSub
           /\ \E to \in {"lastcycle", "ended"} : rzp' = [rzp EXCEPT ![request[q].id] = to]
    BY <1>3, Zenon DEF CancelAsks, EndsThere
  <2> QED
    BY <1>0, <2>1, <2>2
<1>4. ASSUME NEW x \in Subs, CancelQuietly(x) \/ Authorise(x) \/ RazorpayMoves(x)
      PROVE  FALSE
  <2>1. UNCHANGED rzp \/ (rzp[x] # "none" /\ \E to : rzp' = [rzp EXCEPT ![x] = to])
    BY <1>4 DEF CancelQuietly, Authorise, RazorpayMoves, EndsThere, CreatedBefore
  <2> QED
    BY <1>0, <2>1
<1>5. \/ UNCHANGED rzp
      \/ \E q \in Requests : (\E p \in Plans : StartCheckout(q, p)) \/ CheckoutStored(q) \/ CancelAsks(q)
      \/ \E x \in Subs : CancelQuietly(x) \/ Authorise(x) \/ RazorpayMoves(x)
  BY WhoMovesRazorpay
<1> QED
  BY <1>1, <1>2, <1>3, <1>4, <1>5

LEMMA PlanMoves ==
  ASSUME OrdersInv, SubInv, [BillingNext]_billingVars
  PROVE  \/ sub'.plan = sub.plan
         \/ \E o \in Orders : row'[o] = "paid" /\ sub'.plan = planOf[o]
         \/ \E r \in Subs : sub.tracked = r /\ sub'.plan = planOf[r]
<1>0. sub \in Row /\ row \in [Orders -> {"none", "created", "ended", "paid"}]
  BY DEF SubInv, RowInv, RowTypes, OrdersInv, OrderTypes
<1>1. CASE UNCHANGED rowVars
  BY <1>1 DEF rowVars
<1>2. CASE PeriodPasses \/ ExpireTrials \/ ExpirePrepaid
  <2>1. UNCHANGED sub \/ \E status : Save([sub EXCEPT !.status = status, !.atEnd = FALSE])
    BY <1>2, Zenon DEF PeriodPasses, ExpireTrials, ExpirePrepaid
  <2> QED
    BY <1>0, <2>1 DEF Save, Row
<1>3. ASSUME NEW o \in Orders, Fulfils(o)
      PROVE  row'[o] = "paid" /\ sub'.plan = planOf[o]
  BY <1>0, <1>3 DEF Fulfils, Fulfilled, Save, Row
<1>4. ASSUME NEW q \in Requests, CheckoutStored(q)
      PROVE  sub'.plan = sub.plan
  <2>1. \/ UNCHANGED sub
        \/ \E t, c, a, w : Save([sub EXCEPT !.tracked = t, !.checkout = c, !.activated = a, !.status = w])
    BY <1>4, Zenon DEF CheckoutStored, rowVars
  <2> QED
    BY <1>0, <2>1 DEF Save, Row
<1>5. ASSUME NEW keepTrial, NEW e, Save([Abandoned(keepTrial) EXCEPT !.atEnd = e])
      PROVE  sub'.plan = sub.plan
  BY <1>0, <1>5 DEF Abandoned, Row, Save
<1>6. ASSUME NEW status, NEW e, Save([sub EXCEPT !.status = status, !.atEnd = e])
      PROVE  sub'.plan = sub.plan
  BY <1>0, <1>6 DEF Row, Save
<1>7. ASSUME NEW q \in Requests, CancelStored(q)
      PROVE  sub'.plan = sub.plan
  <2>1. \/ \E k, e : Save([Abandoned(k) EXCEPT !.atEnd = e])
        \/ Save([sub EXCEPT !.atEnd = TRUE])
        \/ Save([sub EXCEPT !.status = "cancelled", !.atEnd = FALSE]) \/ Save(sub)
    BY <1>7, Zenon DEF CancelStored, Cancelled
  <2>2. CASE Save([sub EXCEPT !.atEnd = TRUE]) \/ Save(sub)
    BY <1>0, <2>2 DEF Save, Row
  <2> QED
    BY <1>5, <1>6, <2>1, <2>2
<1>8. ASSUME NEW r \in Subs, Activate(r)
      PROVE  sub'.plan = sub.plan \/ sub'.plan = planOf[r]
  <2>1. \/ UNCHANGED sub
        \/ Save([sub EXCEPT !.plan = planOf[r], !.status = "active", !.prepaid = FALSE,
                            !.activated = TRUE, !.checkout = NoPlan])
    BY <1>8, Zenon DEF Activate, rowVars
  <2> QED
    BY <1>0, <2>1 DEF Save, Row
<1>9. CASE Halts \/ PlanEnds
  <2>1. \/ \E k, e : Save([Abandoned(k) EXCEPT !.atEnd = e])
        \/ \E status, e : Save([sub EXCEPT !.status = status, !.atEnd = e])
        \/ (\E status : Save([sub EXCEPT !.status = status])) \/ Save(sub)
    BY <1>9, Zenon DEF Halts, SetStatus, PlanEnds
  <2>2. CASE (\E status : Save([sub EXCEPT !.status = status])) \/ Save(sub)
    BY <1>0, <2>2 DEF Save, Row
  <2> QED
    BY <1>5, <1>6, <2>1, <2>2
<1> QED
  BY <1>1, <1>2, <1>3, <1>4, <1>7, <1>8, <1>9, RowMoves

LEMMA PlansStep ==
  ASSUME OrdersInv, SubInv, ChargeInv, CreatedBefore, PlansFit, [BillingNext]_billingVars
  PROVE  PlansFit'
<1>1. ASSUME NEW o \in Orders, row'[o] # "none"
      PROVE  planOf'[o] \in Plans
  <2>1. CASE row[o] # "none"
    BY <2>1, PlanOfMoves DEF PlansFit
  <2>2. ASSUME NEW p \in Plans, StartOrderCheckout(o, p)
        PROVE  planOf'[o] \in Plans
    BY <2>2 DEF StartOrderCheckout, SubInv, GatewayTypes
  <2> QED
    BY <1>1, <2>1, <2>2, RowOfOrderMoves
<1>2. ASSUME NEW r \in Subs, rzp'[r] # "none"
      PROVE  planOf'[r] \in Plans
  BY <1>2, CreatedThere, PlanOfMoves DEF PlansFit
<1>3. sub'.plan \in Plans
  <2>1. ASSUME NEW r \in Subs, sub.tracked = r
        PROVE  planOf[r] \in Plans
    BY <2>1 DEF SubInv, RowInv, TrackedIsOffered, Offered, PlansFit
  <2>2. ASSUME NEW o \in Orders, row'[o] = "paid"
        PROVE  planOf[o] \in Plans
    BY <2>2, RowOfOrderMoves DEF PlansFit
  <2> QED
    BY <2>1, <2>2, PlanMoves DEF PlansFit
<1> QED
  BY <1>1, <1>2, <1>3 DEF PlansFit

LEMMA PeriodsStep ==
  ASSUME OrdersInv, SubInv, PeriodsFit, [BillingNext]_billingVars
  PROVE  PeriodsFit'
<1>1. /\ PaidOrders \in SUBSET Orders /\ PaidOrders' \in SUBSET Orders /\ PaidOrders \in SUBSET PaidOrders'
  BY RowOfOrderMoves DEF PaidOrders
<1>2. IsFiniteSet(PaidOrders) /\ IsFiniteSet(PaidOrders')
  BY <1>1, FS_Subset, BillingAssumption
<1>3. /\ Cardinality(PaidOrders) \in Nat /\ Cardinality(PaidOrders') \in Nat
      /\ Cardinality(PaidOrders) <= Cardinality(PaidOrders')
  BY <1>1, <1>2, FS_Subset, FS_CardinalityType
<1>4. left \in Nat /\ left <= Cardinality(PaidOrders)
  BY DEF SubInv, RowInv, RowTypes, PeriodsFit
<1>5. ASSUME left' <= left \/ left' = 0
      PROVE  left' <= Cardinality(PaidOrders')
  <2>1. left' \in Nat
    BY SubStep DEF SubInv, RowInv, RowTypes
  <2> HIDE DEF PaidOrders
  <2> QED
    BY <1>3, <1>4, <1>5, <2>1
<1>6. ASSUME NEW o \in Orders, row[o] # "paid", Fulfils(o)
      PROVE  left' <= Cardinality(PaidOrders')
  <2>1. row'[o] = "paid"
    BY <1>6 DEF Fulfils, OrdersInv, OrderTypes
  <2>2. o \notin PaidOrders /\ PaidOrders \cup {o} \in SUBSET PaidOrders'
    BY <1>1, <1>6, <2>1 DEF PaidOrders
  <2>3. /\ Cardinality(PaidOrders \cup {o}) = Cardinality(PaidOrders) + 1
        /\ Cardinality(PaidOrders \cup {o}) <= Cardinality(PaidOrders')
    BY <1>2, <2>2, FS_AddElement, FS_Subset
  <2>4. left' = left + 1 \/ left' = 1
    BY <1>6 DEF Fulfils
  <2> HIDE DEF PaidOrders
  <2> QED
    BY <1>3, <1>4, <2>3, <2>4
<1>7. ASSUME NEW r \in Subs, Activate(r)
      PROVE  left' = left \/ left' = 0
  BY <1>7, Zenon DEF Activate, rowVars
<1>8. PeriodPasses => left' = left - 1
  BY DEF PeriodPasses
<1>9. ASSUME NEW q \in Requests, CheckoutStored(q) \/ CancelStored(q)
      PROVE  left' = left
  BY <1>9, Zenon DEF CheckoutStored, CancelStored, rowVars
<1>10. ExpireTrials \/ ExpirePrepaid \/ UNCHANGED rowVars => left' = left
  BY Zenon DEF ExpireTrials, ExpirePrepaid, rowVars
<1> QED
  BY <1>4, <1>5, <1>6, <1>7, <1>8, <1>9, <1>10, RowMoves DEF PeriodsFit

ObservedTypes == \A rs \in {reused, unasked, forgotten, uncancelled} : rs \subseteq Subs

LEMMA TrialOverStep ==
  ASSUME trialOver \in BOOLEAN, [BillingNext]_billingVars
  PROVE  trialOver' \in BOOLEAN
<1>1. UNCHANGED trialOver \/ trialOver' = TRUE
  BY Zenon
     DEF BillingNext, billingVars, StartCheckout, CheckoutStored, CancelReads, CancelAsks, CancelStored,
         VerifyReads, VerifyStored, StartOrderCheckout, OwnerPays, OrderLapses, ReturnPage, PageAsks,
         PageFulfils, OrderWebhook, CancelQuietly, Authorise, RazorpayMoves, RazorpayEvent,
         PeriodPasses, TrialEnds, ExpireTrials, ExpirePrepaid
<1> QED
  BY <1>1

LEMMA ObservedStep ==
  ASSUME SubInv, ChargeInv, ObservedTypes, [BillingNext]_billingVars
  PROVE  ObservedTypes'
<1>0. /\ reused \subseteq Subs /\ unasked \subseteq Subs /\ forgotten \subseteq Subs /\ uncancelled \subseteq Subs
      /\ sub.tracked \in Subs \cup {NoSub} /\ request \in [Requests -> Asked]
  BY DEF ObservedTypes, SubInv, GatewayTypes, RowInv, RowTypes, Row
<1> DEFINE Typed == /\ reused' \subseteq Subs /\ unasked' \subseteq Subs
                    /\ forgotten' \subseteq Subs /\ uncancelled' \subseteq Subs
<1>1. ASSUME NEW q \in Requests, CheckoutStored(q)
      PROVE  Typed
  BY <1>0, <1>1 DEF CheckoutStored, SubInv, RequestsKnow
<1>2. ASSUME NEW q \in Requests, CancelStored(q)
      PROVE  Typed
  <2>1. UNCHANGED unasked \/ unasked' = unasked \cup ({sub.tracked} \ {request[q].id, NoSub})
    BY <1>2, Zenon DEF CancelStored
  <2>2. \/ UNCHANGED forgotten
        \/ /\ request[q].inCheckout /\ sub.tracked = request[q].id
           /\ forgotten' = forgotten \cup {request[q].id}
    BY <1>2, Zenon DEF CancelStored
  <2>3. request[q].inCheckout => request[q].id # NoSub
    BY DEF ChargeInv, RequestsFit, RequestFits
  <2> QED
    BY <1>0, <1>2, <2>1, <2>2, <2>3 DEF CancelStored
<1>3. ASSUME NEW q \in Requests, CancelAsks(q)
      PROVE  Typed
  <2>1. \/ UNCHANGED uncancelled
        \/ request[q].id # NoSub /\ uncancelled' = uncancelled \cup {request[q].id}
    BY <1>3, Zenon DEF CancelAsks
  <2>2. request[q].id \in Subs \cup {NoSub}
    BY <1>0 DEF Asked
  <2> QED
    BY <1>0, <1>3, <2>1, <2>2 DEF CancelAsks, crossed
<1>4. ASSUME NEW r \in Subs, CancelQuietly(r)
      PROVE  Typed
  BY <1>0, <1>4 DEF CancelQuietly, crossed
<1>5. UNCHANGED observed \/ Typed
  <2>1. \/ UNCHANGED observed
        \/ \E q \in Requests : CheckoutStored(q) \/ CancelStored(q) \/ CancelAsks(q)
        \/ \E r \in Subs : CancelQuietly(r)
    BY WhoIsObserved
  <2> QED
    BY <1>1, <1>2, <1>3, <1>4, <2>1
<1>6. Typed
  BY <1>0, <1>5 DEF observed, crossed
<1> QED
  BY <1>6 DEF ObservedTypes

LEMMA BillingTypes ==
  ASSUME OrdersInv, SubInv, ChargeInv, PlansFit, PeriodsFit, trialOver \in BOOLEAN, ObservedTypes
  PROVE  BillingTypeOK
<1>1. sub \in SubRow
  BY DEF SubInv, RowInv, RowTypes, Row, SubRow, PlansFit
<1>2. left \in 0 .. Cardinality(Orders) + 1
  <2>1. PaidOrders \in SUBSET Orders
    BY DEF PaidOrders
  <2>2. Cardinality(PaidOrders) \in Nat /\ Cardinality(PaidOrders) <= Cardinality(Orders) /\ Cardinality(Orders) \in Nat
    BY <2>1, FS_Subset, FS_CardinalityType, BillingAssumption
  <2> QED
    BY <2>2 DEF SubInv, RowInv, RowTypes, PeriodsFit
<1>3. InCheckout(sub) => rzp[sub.tracked] \notin {"none", "created"} /\ sub.checkout # NoPlan
  <2>1. InCheckout(sub) => sub.tracked \in Subs /\ sub.checkout # NoPlan
    BY <1>1, Zenon DEF InCheckout, SubRow, ChargeInv, StatusFits
  <2> QED
    BY <2>1 DEF SubInv, RowInv, TrackedIsOffered, Offered
<1> QED
  BY <1>1, <1>2, <1>3
     DEF BillingTypeOK, OrdersInv, OrderTypes, SubInv, GatewayTypes, RzpStates, Asked, RowInv, RowTypes,
         ChargeInv, ChargeTypes, ObservedTypes

BillingInv ==
  /\ OrdersInv /\ SubInv /\ ChargeInv /\ CreatedBefore /\ PlansFit /\ PeriodsFit
  /\ trialOver \in BOOLEAN /\ ObservedTypes

LEMMA BillingInitInv ==
  ASSUME BillingInit
  PROVE  BillingInv
<1>1. CreatedBefore
  BY DEF BillingInit, CreatedBefore, IdleRequest
<1>2. PlansFit
  BY BillingAssumption DEF BillingInit, PlansFit
<1>3. PeriodsFit
  <2>1. PaidOrders \in SUBSET Orders
    BY DEF PaidOrders
  <2>2. Cardinality(PaidOrders) \in Nat
    BY <2>1, FS_Subset, FS_CardinalityType, BillingAssumption
  <2> QED
    BY <2>2 DEF BillingInit, PeriodsFit
<1> QED
  BY <1>1, <1>2, <1>3, OrdersInit, SubInit, ChargeInit DEF BillingInv, BillingInit, ObservedTypes

LEMMA BillingStep ==
  ASSUME BillingInv, [BillingNext]_billingVars
  PROVE  BillingInv'
BY OrdersStep, SubStep, ChargeStep, CreatedStep, PlansStep, PeriodsStep, TrialOverStep,
   ObservedStep DEF BillingInv

\* Every variable has its type, and a checkout in progress is one of a
\* subscription that was created at Razorpay.
THEOREM BillingTypeCorrect == BillingSpec => []BillingTypeOK
<1>1. BillingInit => BillingInv
  BY BillingInitInv
<1>2. BillingInv /\ [BillingNext]_billingVars => BillingInv'
  BY BillingStep
<1>3. BillingInv => BillingTypeOK
  BY BillingTypes DEF BillingInv
<1> QED
  BY <1>1, <1>2, <1>3, PTL DEF BillingSpec
=============================================================================
