------------------------------- MODULE MCJobs -------------------------------
(* The webhook inbox, billing and an offer for TLC: they share no state, so *)
(* one run checks a behaviour of each, and the others rest.  Billing runs   *)
(* in several scopes: its prepaid orders, its Razorpay subscriptions and    *)
(* its requests are each met in pairs, and all with each other.             *)
EXTENDS WebhookInbox, Billing, Offer

VARIABLE part  \* which of them runs, and in which scope

jobsVars == <<inboxVars, billingVars, offerVars, part>>

Scope(orders, subs, requests, plans, failures) ==
  [orders |-> orders, subs |-> subs, requests |-> requests, plans |-> plans, failures |-> failures]
Scopes ==
  {Scope({"o1", "o2"}, {}, {"q1"}, Plans, 0), Scope({}, {"r1", "r2"}, {"q1"}, Plans, 0),
   Scope({}, {"r1"}, {"q1", "q2"}, {TrialPlan}, MaxFaults),
   Scope({"o1"}, {"r1"}, {"q1"}, Plans, MaxFaults)}
Inbox == [inbox |-> TRUE]
Offers == [offers |-> TRUE]

InScope ==
  /\ \A o \in Orders : row[o] # "none" => o \in part.orders
  /\ \A r \in Subs : rzp[r] # "none" => r \in part.subs
  /\ rzp["r1"] = "none" => rzp["r2"] = "none"  \* they are numbered as they are created
  /\ \A q \in Requests : request[q] # IdleRequest => q \in part.requests
  /\ \A x \in Orders \cup Subs : planOf[x] \in part.plans \cup {NoPlan}
  /\ faults <= part.failures
  /\ Cardinality(mail) <= 2  \* bound: events on their way at once

JobsInit ==
  /\ InboxInit /\ BillingInit /\ OfferInit
  /\ part \in {Inbox, Offers} \cup Scopes

JobsNext ==
  \/ part = Inbox /\ InboxNext /\ UNCHANGED <<billingVars, offerVars, part>>
  \/ /\ part = Offers /\ OfferNext /\ UNCHANGED <<inboxVars, billingVars, part>>
     /\ holder'[1] # "c2"  \* the buyers are numbered as they claim
  \/ /\ part \in Scopes /\ BillingNext /\ UNCHANGED <<inboxVars, offerVars, part>>
     /\ InScope'

JobsSpec ==
  JobsInit /\ [][JobsNext]_jobsVars /\ BillingFairness

\* Type correctness of the three parts.
JobsTypeOK == InboxTypeOK /\ BillingTypeOK /\ OfferTypeOK
=============================================================================
