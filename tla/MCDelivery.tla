----------------------------- MODULE MCDelivery -----------------------------
(* Delivery and Campaign for TLC: one message of a campaign on its way, and *)
(* a campaign as a whole, whose messages are only as much of Delivery as it *)
(* sees.  The run checks a behaviour of each, and the other rests.          *)
(* Delivery has two dispatch tasks, the least that can meet, and one        *)
(* webhook task for each report: WebhookInbox shows that no two of them run *)
(* at once.  The campaign has two recipients in batches of one, so that its *)
(* chain goes round.                                                        *)
EXTENDS Delivery, Campaign

VARIABLE part  \* which of them runs

messagingVars == <<deliveryVars, campaignVars, part>>

MessagingInit == DeliveryInit /\ CampaignInit /\ part \in {"message", "campaign"}

MessagingNext ==
  \/ part = "message" /\ DeliveryNext /\ UNCHANGED <<campaignVars, part>>
  \/ part = "campaign" /\ CampaignNext /\ UNCHANGED <<deliveryVars, part>>

(* DeliveryFairness and CampaignFairness, asked of the one that runs.       *)
MessagingFairness ==
  /\ WF_deliveryVars(part = "message" /\ DeliveryGoesOn)
  /\ WF_campaignVars(part = "campaign" /\ CampaignGoesOn)

MessagingSpec == MessagingInit /\ [][MessagingNext]_messagingVars /\ MessagingFairness

\* Type correctness of both parts.
MessagingTypeOK == DeliveryTypeOK /\ CampaignTypeOK
=============================================================================
