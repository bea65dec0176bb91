-------------------------------- MODULE Offer --------------------------------
(* One offer code of backend/apps/offers: buyers claim it, a checkout        *)
(* applies an open claim, staff redeem claims at the counter, and the events *)
(* of the orders, handled after their commits by several processes, release  *)
(* or redeem what was applied.  The offer's row is locked wherever its       *)
(* places are counted, so each of those transactions is one step.            *)
EXTENDS Integers, FiniteSets

CONSTANTS
  Contacts,       \* the buyers
  Claims, Sales,  \* rows of OfferClaim, and orders, numbered as they are created
  MaxUses,        \* OfferCode.max_uses
  MaxPerContact   \* OfferCode.max_uses_per_contact

ASSUME OfferAssumption ==
  /\ Claims \subseteq Nat /\ IsFiniteSet(Claims) /\ Sales \subseteq Nat
  /\ MaxUses \in Nat /\ MaxPerContact \in Nat

VARIABLES
  claim,      \* OfferClaim.status, "none" before it is created
  holder,     \* whose claim it is
  appliedTo,  \* OfferClaim.order
  offered,    \* the offer is live
  order,      \* Order.status: "checkout" until the buyer chooses how to pay, then
              \* "placed", "again" when he is asked again; and once it expired or
              \* was cancelled "closed", or "dropped" if it never had a link
  buyer,      \* whose order it is
  discount,   \* Order.offer_claim_id
  told,       \* the order's events that were not handled yet
  hooks,      \* contacts whose code message has yet to look for a checkout
  overrides   \* listed claims that staff redeemed

offerVars == <<claim, holder, appliedTo, offered, order, buyer, discount, told, hooks,
               overrides>>
claimVars == <<claim, holder, appliedTo, hooks, overrides>>
offerOrders == <<order, buyer, discount, told>>

NoClaim == -1
NoOrder == -1
Nobody == "nobody"
Used == {"applied", "redeemed"}
Choosing == {"checkout", "again"}
Closed == {"dropped", "closed"}

OfferTypeOK ==
  /\ claim \in [Claims -> {"none", "claimed", "applied", "redeemed", "expired"}]
  /\ holder \in [Claims -> Contacts \cup {Nobody}]
  /\ appliedTo \in [Claims -> Sales \cup {NoOrder}]
  /\ offered \in BOOLEAN
  /\ order \in [Sales -> {"none", "placed", "fulfilled"} \cup Choosing \cup Closed]
  /\ buyer \in [Sales -> Contacts \cup {Nobody}]
  /\ discount \in [Sales -> Claims \cup {NoClaim}]
  /\ told \in [Sales -> SUBSET {"closed", "fulfilled"}]
  /\ hooks \subseteq Contacts /\ overrides \subseteq Claims

OfferInit ==
  /\ claim = [k \in Claims |-> "none"] /\ holder = [k \in Claims |-> Nobody]
  /\ appliedTo = [k \in Claims |-> NoOrder]
  /\ offered = TRUE
  /\ order = [o \in Sales |-> "none"] /\ buyer = [o \in Sales |-> Nobody]
  /\ discount = [o \in Sales |-> NoClaim] /\ told = [o \in Sales |-> {}]
  /\ hooks = {} /\ overrides = {}

-----------------------------------------------------------------------------
UsesCount == Cardinality({k \in Claims : claim[k] \in Used})

(* BUG of apply_to_checkout: the places are counted when a claim is made,   *)
(* and not again when it is applied.                                        *)
CapacityAsClaimed == TRUE

HasCapacity == UsesCount < MaxUses
CapacityToApply == HasCapacity
ClaimsOf(c) == {k \in Claims : holder[k] = c}
Newest(k, S) == k \in S /\ \A j \in S : j <= k
IsNew(k) == claim[k] = "none" /\ \A j \in Claims : j < k => claim[j] # "none"

(* handle_code_message makes a claim, or answers with the contact's newest; *)
(* if that is open it then looks for a checkout, after its commit.          *)
HandleCodeMessage(c) ==
  /\ offered
  /\ IF Cardinality(ClaimsOf(c)) < MaxPerContact /\ HasCapacity
     THEN /\ \E k \in Claims :
               /\ IsNew(k)
               /\ claim' = [claim EXCEPT ![k] = "claimed"]
               /\ holder' = [holder EXCEPT ![k] = c]
          /\ hooks' = hooks \cup {c}
     ELSE /\ \E k \in Claims : Newest(k, ClaimsOf(c)) /\ claim[k] = "claimed"
          /\ hooks' = hooks \cup {c}
          /\ UNCHANGED <<claim, holder>>
  /\ UNCHANGED <<appliedTo, offered, offerOrders, overrides>>

(* apply_to_checkout of an order of contact c, and what _apply_offer writes *)
(* on the order.  Whether a live offer fits the order is left open (its     *)
(* kind, its items, its subtotal), but it does not change.                  *)
Released(k) == /\ claim' = [claim EXCEPT ![k] = "claimed"]
               /\ appliedTo' = [appliedTo EXCEPT ![k] = NoOrder]
Candidates(o, c) ==
  {k \in ClaimsOf(c) : claim[k] = "claimed" \/ (claim[k] = "applied" /\ appliedTo[k] = o)}

ApplyToCheckout(o, c) ==
  LET mine == {k \in Candidates(o, c) : claim[k] = "applied"}
      open == Candidates(o, c) \ mine IN
  \/ /\ offered /\ mine # {}              \* it is still usable
     /\ UNCHANGED <<claim, appliedTo, discount>>
  \/ /\ offered /\ mine = {} /\ CapacityToApply
     /\ \E k \in open :
          /\ Newest(k, open)
          /\ claim' = [claim EXCEPT ![k] = "applied"]
          /\ appliedTo' = [appliedTo EXCEPT ![k] = o]
          /\ discount' = [discount EXCEPT ![o] = k]
  \/ /\ mine = {}                         \* no claim, no place, or it does not fit
     /\ UNCHANGED <<claim, appliedTo, discount>>
  \/ /\ mine # {} /\ ~offered             \* not any more
     /\ \E k \in mine : Released(k)
     /\ UNCHANGED discount

(* apply_offer_to_active_checkout, for the message that waits for it.       *)
ApplyToActiveCheckout(c) ==
  /\ c \in hooks /\ hooks' = hooks \ {c}
  /\ LET active == {o \in Sales : buyer[o] = c /\ order[o] \in Choosing} IN
     IF active = {} THEN UNCHANGED <<claim, appliedTo, discount>>
     ELSE \E o \in active : ApplyToCheckout(o, c)
  /\ UNCHANGED <<holder, offered, order, buyer, told, overrides>>

(* redeem_claim of a claim that staff picked from the list: the places are  *)
(* not counted (a staff override).                                          *)
RedeemListed(k) ==
  /\ claim[k] \in {"claimed", "applied"}
  /\ claim' = [claim EXCEPT ![k] = "redeemed"]
  /\ overrides' = IF claim[k] = "claimed" THEN overrides \cup {k} ELSE overrides
  /\ UNCHANGED <<hooks, holder, appliedTo, offered, offerOrders>>

(* redeem_at_counter: the buyer's open claim, or a new one.                 *)
RedeemAtCounter(c) ==
  /\ offered
  /\ LET open == {k \in ClaimsOf(c) : claim[k] \in {"claimed", "applied"}} IN
     \E k \in Claims :
       /\ IF open = {}
          THEN /\ IsNew(k) /\ Cardinality(ClaimsOf(c)) < MaxPerContact /\ HasCapacity
               /\ holder' = [holder EXCEPT ![k] = c]
          ELSE /\ Newest(k, open) /\ (claim[k] = "claimed" => HasCapacity)
               /\ UNCHANGED holder
       /\ claim' = [claim EXCEPT ![k] = "redeemed"]
  /\ UNCHANGED <<hooks, appliedTo, offered, offerOrders, overrides>>

OfferEnds ==
  /\ offered /\ offered' = FALSE
  /\ UNCHANGED <<claimVars, offerOrders>>

(* The nightly expire_claims.                                               *)
ExpireClaims ==
  /\ ~offered /\ \E k \in Claims : claim[k] = "claimed"
  /\ claim' = [k \in Claims |-> IF claim[k] = "claimed" THEN "expired" ELSE claim[k]]
  /\ UNCHANGED <<hooks, holder, appliedTo, offered, offerOrders, overrides>>

-----------------------------------------------------------------------------
(* The orders, as far as offers see them (Checkout is the detailed model).  *)
BeginsCheckout(o, c) ==
  /\ order[o] = "none" /\ \A p \in Sales : p < o => order[p] # "none"
  /\ \A p \in Sales : buyer[p] = c => order[p] \notin Choosing
  /\ order' = [order EXCEPT ![o] = "checkout"] /\ buyer' = [buyer EXCEPT ![o] = c]
  /\ ApplyToCheckout(o, c)
  /\ UNCHANGED <<hooks, holder, offered, told, overrides>>

Moves(o, to, event) ==
  /\ order' = [order EXCEPT ![o] = to]
  /\ told' = [told EXCEPT ![o] = @ \cup event]
  /\ UNCHANGED <<buyer, discount, claimVars, offered>>

(* The buyer chooses how to pay, and is asked again when the link is closed *)
(* or fails; the seller delivers what was paid.                             *)
PlacesOrder(o) == order[o] \in Choosing /\ Moves(o, "placed", {})
AsksAgain(o) == order[o] = "placed" /\ Moves(o, "again", {})
Delivers(o) == order[o] = "placed" /\ Moves(o, "fulfilled", {"fulfilled"})
Drops(o) == order[o] = "checkout" /\ Moves(o, "dropped", {"closed"})
Closes(o) == order[o] \in {"placed", "again"} /\ Moves(o, "closed", {"closed"})

(* on_payment_link_paid confirms an order that was closed, or the seller    *)
(* does who was told of the payment: its discount stays as it is.           *)
PaidLate(o) == order[o] = "closed" /\ Moves(o, "placed", {})

(* on_order_status_changed: release_for_order_id and redeem_for_order_id.   *)
OrderStatusChanged(o, event) ==
  /\ event \in told[o] /\ told' = [told EXCEPT ![o] = @ \ {event}]
  /\ LET mine == {k \in Claims : claim[k] = "applied" /\ appliedTo[k] = o} IN
     /\ claim' = [k \in Claims |-> IF k \in mine
                    THEN (IF event = "closed" THEN "claimed" ELSE "redeemed") ELSE claim[k]]
     /\ appliedTo' = [k \in Claims |-> IF k \in mine /\ event = "closed" THEN NoOrder ELSE appliedTo[k]]
  /\ UNCHANGED <<hooks, holder, offered, order, buyer, discount, overrides>>

-----------------------------------------------------------------------------
OfferNext ==
  \/ \E c \in Contacts : HandleCodeMessage(c) \/ ApplyToActiveCheckout(c) \/ RedeemAtCounter(c)
  \/ \E k \in Claims : RedeemListed(k)
  \/ OfferEnds \/ ExpireClaims
  \/ \E o \in Sales :
       \/ \E c \in Contacts : BeginsCheckout(o, c)
       \/ PlacesOrder(o) \/ AsksAgain(o) \/ Delivers(o) \/ Drops(o) \/ Closes(o) \/ PaidLate(o)
       \/ \E event \in {"closed", "fulfilled"} : OrderStatusChanged(o, event)

OfferSpec == OfferInit /\ [][OfferNext]_offerVars

-----------------------------------------------------------------------------
(* Properties.                                                              *)

\* No more places are given than the offer has, however many claims race for
\* the last one; only staff who redeem a listed claim may exceed them.
WithinMaxUses == UsesCount <= MaxUses + Cardinality(overrides)

\* An order has the discount of at most one claim, which its buyer holds.
OneClaimEach ==
  \A k \in Claims : claim[k] = "applied" =>
    /\ buyer[appliedTo[k]] = holder[k] /\ discount[appliedTo[k]] = k

\* An order that closed holds no place once its event was handled.
ClosedHoldsNone ==
  \A k \in Claims : claim[k] = "applied" =>
    order[appliedTo[k]] \notin Closed \/ "closed" \in told[appliedTo[k]]

\* The places of an offer are kept for those who use them.
PlacesKept == WithinMaxUses /\ OneClaimEach /\ ClosedHoldsNone

\* While an offer runs, the claim of a discounted order that was paid and
\* delivered is redeemed (docs/contracts/services-and-offers.md).
FulfilledIsRedeemed ==
  offered => \A o \in Sales :
    order[o] = "fulfilled" /\ discount[o] # NoClaim /\ told[o] = {} =>
      claim[discount[o]] = "redeemed"
=============================================================================
