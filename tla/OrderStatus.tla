---------------------------- MODULE OrderStatus ----------------------------
(* The order status machine of backend/apps/orders/transitions.py: an order *)
(* is a delivery or a booking, and each kind has its own table.             *)

Kinds == {"delivery", "booking"}

(* CHECKOUT_STATUSES and OPEN_STATUSES; "draft" is never used by checkout.  *)
CheckoutStatuses ==
  {"awaiting_confirmation", "awaiting_address", "awaiting_time",
   "awaiting_payment_method", "pending_payment"}
OpenStatuses == {"requested", "confirmed", "packed", "shipped", "needs_attention"}
ClosedStatuses == {"delivered", "completed", "no_show", "cancelled", "expired"}
Statuses == CheckoutStatuses \cup OpenStatuses \cup ClosedStatuses

(* KIND_CHECKOUT_STATUSES. *)
Steps(kind) ==
  CheckoutStatuses \ (IF kind = "delivery" THEN {"awaiting_time"} ELSE {"awaiting_address"})

(* TRANSITIONS: what the dashboard, the seller on WhatsApp and the buyer's  *)
(* cancellation may do.                                                     *)
Manual(kind, from) ==
  CASE from \in Steps(kind) -> {"cancelled"}
    [] kind = "delivery" /\ from = "confirmed" -> {"packed", "shipped", "cancelled"}
    [] kind = "delivery" /\ from = "packed" -> {"shipped", "cancelled"}
    [] kind = "delivery" /\ from = "shipped" -> {"delivered"}
    [] kind = "delivery" /\ from = "needs_attention" -> {"confirmed", "cancelled"}
    [] kind = "booking" /\ from = "requested" -> {"confirmed", "cancelled"}
    [] kind = "booking" /\ from = "confirmed" -> {"completed", "no_show", "cancelled"}
    [] kind = "booking" /\ from = "needs_attention" -> {"requested", "cancelled"}
    [] OTHER -> {}

(* CHECKOUT_DONE: where a finished checkout lands. *)
Done(kind) == IF kind = "delivery" THEN "confirmed" ELSE "requested"

(* SYSTEM_TRANSITIONS: the extra moves of the system out of a checkout. *)
System(kind, from) ==
  IF from \in Steps(kind)
  THEN (Steps(kind) \cup {Done(kind), "expired", "needs_attention"}) \ {from}
  ELSE {}

(* can_transition with system=True. *)
CanMove(kind, from, to) == to \in Manual(kind, from) \cup System(kind, from)
=============================================================================
