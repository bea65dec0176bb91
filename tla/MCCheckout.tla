----------------------------- MODULE MCCheckout -----------------------------
(* Checkout for TLC.  In the configurations a delivery costs 2 and its COD  *)
(* fee 1; a booking costs 3 with an advance of 1, so that neither two       *)
(* advances nor one pay it; one unit is in stock, so that the order and its *)
(* competitors meet at the last one.                                        *)
EXTENDS Checkout
=============================================================================
