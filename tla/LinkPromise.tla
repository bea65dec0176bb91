---------------------------- MODULE LinkPromise ----------------------------
(* What the payments app promises the orders app about one payment link,    *)
(* whoever looks at the link first: a link is settled once and for all; it  *)
(* is settled as paid only when the gateway holds the full amount; and the  *)
(* outcome is announced (PaymentLinkPaid, PaymentLinkExpired or             *)
(* PaymentLinkCancelled) at most once, never another outcome's event.       *)
(* PaymentLink implements this specification.                               *)
EXTENDS Naturals

Outcomes == {"paid", "expired", "cancelled"}

VARIABLES
  outcome,    \* "open", or how the link was settled
  paidInFull, \* the gateway holds the full amount of this link
  announced   \* how often each outcome's event was emitted

vars == <<outcome, paidInFull, announced>>

Init ==
  /\ outcome = "open"
  /\ paidInFull = FALSE
  /\ announced = [o \in Outcomes |-> 0]

(* The buyer pays on the gateway, possibly after the link was settled here. *)
Pay ==
  /\ ~paidInFull
  /\ paidInFull' = TRUE
  /\ UNCHANGED <<outcome, announced>>

Settle(o) ==
  /\ outcome = "open"
  /\ o = "paid" => paidInFull
  /\ outcome' = o
  /\ UNCHANGED <<paidInFull, announced>>

(* An event can be lost with the process that committed the outcome, so     *)
(* nothing obliges this step to happen.                                     *)
Announce(o) ==
  /\ outcome = o
  /\ announced[o] = 0
  /\ announced' = [announced EXCEPT ![o] = 1]
  /\ UNCHANGED <<outcome, paidInFull>>

Next ==
  \/ Pay
  \/ \E o \in Outcomes \cup {"failed"} : Settle(o)
  \/ \E o \in Outcomes : Announce(o)

Spec == Init /\ [][Next]_vars
=============================================================================
