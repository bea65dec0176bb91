--------------------------- MODULE MCPaymentLink ---------------------------
(* PaymentLink for TLC.  The configuration takes two processes, one         *)
(* scheduled poll before the final one and one retry of it: enough for any  *)
(* two operations to overlap and for every branch of the polling.  Workers  *)
(* are model values; symmetry is not used, because liveness is checked.     *)
(* A behaviour is calm, or everything that can go wrong may: calm, the      *)
(* gateway answers every call, nobody cancels and the account stays.        *)
EXTENDS PaymentLink

VARIABLE calm

Calm == INSTANCE PaymentLink
          WITH Operations <- {"create", "refresh", "webhook"}, Payments <- {"paid", "mispaid"},
               GatewayErrors <- {}, AccountChanges <- 0

MCInit == Init /\ calm \in BOOLEAN
MCNext == (IF calm THEN Calm!Next ELSE Next) /\ UNCHANGED calm
MCSpec == MCInit /\ [][MCNext]_<<vars, calm>> /\ Fairness

\* While the gateway answers, a link that is expired here can no longer be
\* paid there (refresh_payment_link cancels it before it closes the row).
CalmExpiredIsClosedThere == calm => ExpiredIsClosedThere

\* While the gateway answers, a link that was paid in full is found paid,
\* whatever the final poll was doing when the buyer paid.
CalmPaymentIsFound == calm => PaymentIsFound
=============================================================================
