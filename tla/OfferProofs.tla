----------------------------- MODULE OfferProofs -----------------------------
(* What is proved about Offer for any buyers, claims and orders and any      *)
(* number of places: its type invariant, and that its places are kept; and,  *)
(* of the composition the runs check, that each of its parts keeps its       *)
(* promises.                                                                 *)
EXTENDS MCJobs, BillingProofs, WebhookInboxProofs

Places == {k \in Claims : claim[k] \in Used}

(* A claim is applied to an order that was begun; the staff's overrides are *)
(* redeemed, and a redeemed claim stays so.                                 *)
AppliedToOrders ==
  \A k \in Claims : claim[k] = "applied" => appliedTo[k] \in Sales /\ order[appliedTo[k]] # "none"
OverridesRedeemed == \A k \in overrides : claim[k] = "redeemed"

OfferInv == OfferTypeOK /\ AppliedToOrders /\ OverridesRedeemed /\ PlacesKept

-----------------------------------------------------------------------------
(* Counting places.                                                         *)

LEMMA PlacesAreFinite ==
  ASSUME OfferTypeOK
  PROVE  /\ IsFiniteSet(Places) /\ IsFiniteSet(overrides)
         /\ UsesCount = Cardinality(Places)
         /\ UsesCount \in Nat /\ Cardinality(overrides) \in Nat
<1>1. IsFiniteSet(Claims)
  BY OfferAssumption
<1>2. Places \in SUBSET Claims /\ overrides \in SUBSET Claims
  BY DEF Places, OfferTypeOK
<1>3. IsFiniteSet(Places) /\ IsFiniteSet(overrides)
  BY <1>1, <1>2, FS_Subset
<1>4. Cardinality(Places) \in Nat /\ Cardinality(overrides) \in Nat
  BY <1>3, FS_CardinalityType
<1> QED
  BY <1>3, <1>4 DEF UsesCount, Places

(* No step but a redemption from the list takes a place beyond MaxUses.      *)
LEMMA NoPlaceTaken ==
  ASSUME OfferTypeOK, WithinMaxUses, Places' \subseteq Places, overrides' = overrides
  PROVE  WithinMaxUses'
<1>1. UsesCount' = Cardinality(Places')
  BY DEF UsesCount, Places
<1>2. Cardinality(Places') <= Cardinality(Places) /\ IsFiniteSet(Places')
  BY PlacesAreFinite, FS_Subset
<1>3. Cardinality(Places') \in Nat
  BY <1>2, FS_CardinalityType
<1> QED
  BY <1>1, <1>2, <1>3, PlacesAreFinite, OfferAssumption DEF WithinMaxUses

LEMMA OneMorePlace ==
  ASSUME OfferTypeOK, NEW k \in Claims, Places' \subseteq Places \cup {k}
  PROVE  UsesCount' \in Nat /\ UsesCount' <= UsesCount + 1
<1>1. IsFiniteSet(Places) /\ UsesCount = Cardinality(Places) /\ UsesCount \in Nat
  BY PlacesAreFinite
<1>2. /\ IsFiniteSet(Places \cup {k})
      /\ Cardinality(Places \cup {k}) =
           IF k \in Places THEN Cardinality(Places) ELSE Cardinality(Places) + 1
  BY <1>1, FS_AddElement
<1>3. /\ Cardinality(Places \cup {k}) \in Nat
      /\ Cardinality(Places') <= Cardinality(Places \cup {k}) /\ IsFiniteSet(Places')
  BY <1>2, FS_Subset, FS_CardinalityType
<1>4. Cardinality(Places') \in Nat
  BY <1>3, FS_CardinalityType
<1>5. UsesCount' = Cardinality(Places')
  BY DEF UsesCount, Places
<1> QED
  BY <1>1, <1>2, <1>3, <1>4, <1>5

LEMMA FreePlaceTaken ==
  ASSUME OfferTypeOK, HasCapacity, NEW k \in Claims, Places' \subseteq Places \cup {k},
         overrides' = overrides
  PROVE  WithinMaxUses'
BY OneMorePlace, PlacesAreFinite, OfferAssumption DEF WithinMaxUses, HasCapacity

LEMMA PlaceOverridden ==
  ASSUME OfferTypeOK, WithinMaxUses, NEW k \in Claims, k \notin overrides,
         Places' \subseteq Places \cup {k}, overrides' = overrides \cup {k}
  PROVE  WithinMaxUses'
<1>1. Cardinality(overrides') = Cardinality(overrides) + 1
  BY PlacesAreFinite, FS_AddElement
<1> QED
  BY <1>1, OneMorePlace, PlacesAreFinite, OfferAssumption DEF WithinMaxUses

-----------------------------------------------------------------------------
(* Types.                                                                   *)

LEMMA ApplyKeepsType ==
  ASSUME OfferTypeOK, NEW o \in Sales, NEW c \in Contacts, ApplyToCheckout(o, c)
  PROVE  /\ claim' \in [Claims -> {"none", "claimed", "applied", "redeemed", "expired"}]
         /\ appliedTo' \in [Claims -> Sales \cup {NoOrder}]
         /\ discount' \in [Sales -> Claims \cup {NoClaim}]
BY DEF OfferTypeOK, ApplyToCheckout, Candidates, ClaimsOf, Newest, Released

LEMMA MovesKeepsType ==
  ASSUME OfferTypeOK, NEW o \in Sales,
         NEW to \in {"placed", "fulfilled", "again", "dropped", "closed"},
         NEW event \in SUBSET {"closed", "fulfilled"}, Moves(o, to, event)
  PROVE  OfferTypeOK'
BY DEF OfferTypeOK, Moves, claimVars, Closed, Choosing

LEMMA TypeStep ==
  ASSUME OfferTypeOK, [OfferNext]_offerVars
  PROVE  OfferTypeOK'
<1>1. ASSUME NEW c \in Contacts, HandleCodeMessage(c)
      PROVE  OfferTypeOK'
  BY <1>1 DEF HandleCodeMessage, OfferTypeOK, offerOrders, IsNew
<1>2. ASSUME NEW c \in Contacts, ApplyToActiveCheckout(c)
      PROVE  OfferTypeOK'
  <2>1. /\ claim' \in [Claims -> {"none", "claimed", "applied", "redeemed", "expired"}]
        /\ appliedTo' \in [Claims -> Sales \cup {NoOrder}]
        /\ discount' \in [Sales -> Claims \cup {NoClaim}]
    BY <1>2, ApplyKeepsType DEF ApplyToActiveCheckout, OfferTypeOK
  <2> QED
    BY <1>2, <2>1 DEF ApplyToActiveCheckout, OfferTypeOK
<1>3. ASSUME NEW c \in Contacts, RedeemAtCounter(c)
      PROVE  OfferTypeOK'
  BY <1>3 DEF RedeemAtCounter, OfferTypeOK, offerOrders
<1>4. ASSUME NEW k \in Claims, RedeemListed(k)
      PROVE  OfferTypeOK'
  BY <1>4 DEF RedeemListed, OfferTypeOK, offerOrders
<1>5. CASE OfferEnds \/ ExpireClaims
  BY <1>5 DEF OfferEnds, ExpireClaims, OfferTypeOK, offerOrders, claimVars
<1>6. ASSUME NEW o \in Sales, NEW c \in Contacts, BeginsCheckout(o, c)
      PROVE  OfferTypeOK'
  <2>1. /\ claim' \in [Claims -> {"none", "claimed", "applied", "redeemed", "expired"}]
        /\ appliedTo' \in [Claims -> Sales \cup {NoOrder}]
        /\ discount' \in [Sales -> Claims \cup {NoClaim}]
    BY <1>6, ApplyKeepsType DEF BeginsCheckout
  <2> QED
    BY <1>6, <2>1 DEF BeginsCheckout, OfferTypeOK, Choosing
<1>7. ASSUME NEW o \in Sales,
             \/ PlacesOrder(o) \/ AsksAgain(o) \/ Delivers(o) \/ Drops(o) \/ Closes(o) \/ PaidLate(o)
      PROVE  OfferTypeOK'
  BY <1>7, MovesKeepsType
     DEF PlacesOrder, AsksAgain, Delivers, Drops, Closes, PaidLate
<1>8. ASSUME NEW o \in Sales, NEW event \in {"closed", "fulfilled"}, OrderStatusChanged(o, event)
      PROVE  OfferTypeOK'
  BY <1>8 DEF OrderStatusChanged, OfferTypeOK
<1>9. CASE UNCHANGED offerVars
  BY <1>9 DEF offerVars, OfferTypeOK
<1> QED
  BY <1>1, <1>2, <1>3, <1>4, <1>5, <1>6, <1>7, <1>8, <1>9 DEF OfferNext

-----------------------------------------------------------------------------
(* The places.                                                              *)

LEMMA PlacesStep ==
  ASSUME OfferTypeOK, OverridesRedeemed, WithinMaxUses, OfferNext
  PROVE  WithinMaxUses' /\ OverridesRedeemed'
<1>0. overrides \subseteq Claims
  BY DEF OfferTypeOK
<1>1. ASSUME NEW c \in Contacts, HandleCodeMessage(c)
      PROVE  WithinMaxUses' /\ OverridesRedeemed'
  <2>1. Places' \subseteq Places /\ OverridesRedeemed' /\ overrides' = overrides
    BY <1>0, <1>1 DEF HandleCodeMessage, OfferTypeOK, Places, Used, IsNew, OverridesRedeemed
  <2> QED
    BY <2>1, NoPlaceTaken
<1>2. ASSUME NEW o \in Sales, NEW c \in Contacts, ApplyToCheckout(o, c), overrides' = overrides
      PROVE  WithinMaxUses' /\ OverridesRedeemed'
  <2>1. OverridesRedeemed'
    BY <1>0, <1>2 DEF ApplyToCheckout, Candidates, ClaimsOf, Newest, Released, OfferTypeOK, OverridesRedeemed
  <2>2. \/ Places' \subseteq Places
        \/ HasCapacity /\ \E k \in Claims : Places' \subseteq Places \cup {k}
    BY <1>2 DEF ApplyToCheckout, Candidates, ClaimsOf, Newest, Released, OfferTypeOK, Places, Used,
                CapacityToApply
  <2> QED
    BY <1>2, <2>1, <2>2, NoPlaceTaken, FreePlaceTaken
<1>3. ASSUME NEW c \in Contacts, ApplyToActiveCheckout(c)
      PROVE  WithinMaxUses' /\ OverridesRedeemed'
  <2>1. CASE \E o \in Sales : ApplyToCheckout(o, c)
    BY <1>2, <1>3, <2>1 DEF ApplyToActiveCheckout
  <2>2. CASE claim' = claim
    <3>1. Places' \subseteq Places /\ OverridesRedeemed' /\ overrides' = overrides
      BY <1>3, <2>2 DEF ApplyToActiveCheckout, Places, OverridesRedeemed
    <3> QED
      BY <3>1, NoPlaceTaken
  <2> QED
    BY <1>3, <2>1, <2>2 DEF ApplyToActiveCheckout
<1>4. ASSUME NEW o \in Sales, NEW c \in Contacts, BeginsCheckout(o, c)
      PROVE  WithinMaxUses' /\ OverridesRedeemed'
  BY <1>2, <1>4 DEF BeginsCheckout
<1>5. ASSUME NEW k \in Claims, RedeemListed(k)
      PROVE  WithinMaxUses' /\ OverridesRedeemed'
  <2>1. OverridesRedeemed'
    BY <1>0, <1>5 DEF RedeemListed, OfferTypeOK, OverridesRedeemed
  <2>2. CASE claim[k] = "applied"
    <3>1. Places' \subseteq Places /\ overrides' = overrides
      BY <1>5, <2>2 DEF RedeemListed, OfferTypeOK, Places, Used
    <3> QED
      BY <2>1, <3>1, NoPlaceTaken
  <2>3. CASE claim[k] = "claimed"
    <3>1. /\ k \notin overrides /\ overrides' = overrides \cup {k}
          /\ Places' \subseteq Places \cup {k}
      BY <1>5, <2>3 DEF RedeemListed, OfferTypeOK, OverridesRedeemed, Places
    <3> QED
      BY <2>1, <3>1, PlaceOverridden
  <2> QED
    BY <1>5, <2>2, <2>3 DEF RedeemListed
<1>6. ASSUME NEW c \in Contacts, RedeemAtCounter(c)
      PROVE  WithinMaxUses' /\ OverridesRedeemed'
  <2>1. PICK k \in Claims :
          /\ claim' = [claim EXCEPT ![k] = "redeemed"]
          /\ claim[k] = "applied" \/ HasCapacity
    BY <1>6 DEF RedeemAtCounter, Newest
  <2>2. overrides' = overrides
    BY <1>6 DEF RedeemAtCounter
  <2>3. OverridesRedeemed'
    BY <1>0, <2>1, <2>2 DEF OfferTypeOK, OverridesRedeemed
  <2>4. CASE claim[k] = "applied"
    <3>1. Places' \subseteq Places
      BY <2>1, <2>4 DEF OfferTypeOK, Places, Used
    <3> QED
      BY <2>2, <2>3, <3>1, NoPlaceTaken
  <2>5. CASE HasCapacity
    <3>1. Places' \subseteq Places \cup {k}
      BY <2>1 DEF OfferTypeOK, Places, Used
    <3> QED
      BY <2>2, <2>3, <2>5, <3>1, FreePlaceTaken
  <2> QED
    BY <2>1, <2>4, <2>5
<1>7. CASE \/ OfferEnds \/ ExpireClaims
           \/ \E o \in Sales : \/ PlacesOrder(o) \/ AsksAgain(o) \/ Delivers(o)
                               \/ Drops(o) \/ Closes(o) \/ PaidLate(o)
                               \/ \E event \in {"closed", "fulfilled"} : OrderStatusChanged(o, event)
  <2>1. Places' \subseteq Places /\ overrides' = overrides
    BY <1>7 DEF OfferEnds, ExpireClaims, PlacesOrder, AsksAgain, Delivers, Drops, Closes, PaidLate,
                Moves, OrderStatusChanged, claimVars, OfferTypeOK, Places, Used
  <2>2. OverridesRedeemed'
    BY <1>0, <1>7 DEF OfferEnds, ExpireClaims, PlacesOrder, AsksAgain, Delivers, Drops, Closes, PaidLate,
                Moves, OrderStatusChanged, claimVars, OfferTypeOK, OverridesRedeemed
  <2> QED
    BY <2>1, <2>2, NoPlaceTaken
<1> QED
  BY <1>1, <1>3, <1>4, <1>5, <1>6, <1>7 DEF OfferNext

-----------------------------------------------------------------------------
(* The orders the claims are applied to.                                    *)

OrderFits(k) ==
  claim[k] = "applied" =>
    /\ appliedTo[k] \in Sales /\ order[appliedTo[k]] # "none"
    /\ buyer[appliedTo[k]] = holder[k] /\ discount[appliedTo[k]] = k
    /\ order[appliedTo[k]] \notin Closed \/ "closed" \in told[appliedTo[k]]

LEMMA OrderFitsIs ==
  (\A k \in Claims : OrderFits(k)) <=> AppliedToOrders /\ OneClaimEach /\ ClosedHoldsNone
BY DEF OrderFits, AppliedToOrders, OneClaimEach, ClosedHoldsNone

(* A claim that is applied to an order is its buyer's, and so the one that  *)
(* apply_to_checkout finds; no other is applied beside it.                  *)
LEMMA ApplyFits ==
  ASSUME OfferTypeOK, \A k \in Claims : OrderFits(k),
         NEW o \in Sales, NEW c \in Contacts, ApplyToCheckout(o, c),
         order[o] = "none" \/ (buyer[o] = c /\ order[o] \in Choosing),
         buyer' = [buyer EXCEPT ![o] = c] /\ holder' = holder /\ told' = told,
         order' = [order EXCEPT ![o] = IF @ = "none" THEN "checkout" ELSE @]
  PROVE  (\A k \in Claims : OrderFits(k))'
<1>1. order'[o] \in Choosing /\ buyer'[o] = c
  BY DEF OfferTypeOK, Choosing
<1>2. \A p \in Sales \ {o} : order'[p] = order[p] /\ buyer'[p] = buyer[p]
  BY DEF OfferTypeOK
<1>3. \A k \in Claims : claim[k] = "applied" /\ appliedTo[k] = o =>
        k \in Candidates(o, c) /\ claim[k] = "applied"
  BY DEF OrderFits, Candidates, ClaimsOf
<1>4. CASE UNCHANGED <<claim, appliedTo, discount>>
  BY <1>1, <1>2, <1>3, <1>4 DEF OrderFits, Candidates, ClaimsOf, OfferTypeOK, Closed, Choosing
<1>5. ASSUME NEW j \in Claims, j \in Candidates(o, c), Released(j), discount' = discount
      PROVE  (\A k \in Claims : OrderFits(k))'
  BY <1>1, <1>2, <1>3, <1>5 DEF OrderFits, Candidates, ClaimsOf, Released, OfferTypeOK, Closed, Choosing
<1>6. ASSUME NEW j \in Claims, j \in Candidates(o, c),
             {k \in Candidates(o, c) : claim[k] = "applied"} = {},
             claim' = [claim EXCEPT ![j] = "applied"],
             appliedTo' = [appliedTo EXCEPT ![j] = o],
             discount' = [discount EXCEPT ![o] = j]
      PROVE  (\A k \in Claims : OrderFits(k))'
  <2>1. \A k \in Claims : claim[k] = "applied" => appliedTo[k] # o
    BY <1>3, <1>6
  <2>2. \A k \in Claims \ {j} : claim'[k] = claim[k] /\ appliedTo'[k] = appliedTo[k]
    BY <1>6 DEF OfferTypeOK
  <2>3. \A p \in Sales \ {o} : discount'[p] = discount[p]
    BY <1>6 DEF OfferTypeOK
  <2>4. appliedTo'[j] = o /\ discount'[o] = j /\ holder[j] = c
    BY <1>6 DEF OfferTypeOK, Candidates, ClaimsOf
  <2>5. ASSUME NEW k \in Claims, k # j
        PROVE  OrderFits(k)'
    BY <1>2, <2>1, <2>2, <2>3, <2>5 DEF OrderFits
  <2>6. OrderFits(j)'
    BY <1>1, <2>4 DEF OrderFits, Choosing, Closed
  <2> QED
    BY <2>5, <2>6
<1> QED
  BY <1>4, <1>5, <1>6 DEF ApplyToCheckout, Newest, Candidates, ClaimsOf

LEMMA SalesStep ==
  ASSUME OfferTypeOK, \A k \in Claims : OrderFits(k), OfferNext
  PROVE  (\A k \in Claims : OrderFits(k))'
<1>1. ASSUME NEW c \in Contacts, HandleCodeMessage(c)
      PROVE  (\A k \in Claims : OrderFits(k))'
  BY <1>1 DEF HandleCodeMessage, OrderFits, IsNew, offerOrders, OfferTypeOK
<1>2. ASSUME NEW c \in Contacts, ApplyToActiveCheckout(c)
      PROVE  (\A k \in Claims : OrderFits(k))'
  <2>1. CASE UNCHANGED <<claim, appliedTo, discount>>
    BY <1>2, <2>1 DEF ApplyToActiveCheckout, OrderFits
  <2>2. ASSUME NEW o \in Sales, buyer[o] = c, order[o] \in Choosing, ApplyToCheckout(o, c)
        PROVE  (\A k \in Claims : OrderFits(k))'
    <3>1. /\ buyer' = [buyer EXCEPT ![o] = c] /\ holder' = holder /\ told' = told
          /\ order' = [order EXCEPT ![o] = IF @ = "none" THEN "checkout" ELSE @]
      BY <1>2, <2>2 DEF ApplyToActiveCheckout, OfferTypeOK, Choosing
    <3> QED
      BY <2>2, <3>1, ApplyFits
  <2> QED
    BY <1>2, <2>1, <2>2 DEF ApplyToActiveCheckout
<1>3. ASSUME NEW o \in Sales, NEW c \in Contacts, BeginsCheckout(o, c)
      PROVE  (\A k \in Claims : OrderFits(k))'
  <2>1. order[o] = "none" /\ order' = [order EXCEPT ![o] = IF @ = "none" THEN "checkout" ELSE @]
    BY <1>3 DEF BeginsCheckout, OfferTypeOK
  <2> QED
    BY <1>3, <2>1, ApplyFits DEF BeginsCheckout
<1>4. ASSUME NEW k \in Claims, RedeemListed(k)
      PROVE  (\A j \in Claims : OrderFits(j))'
  BY <1>4 DEF RedeemListed, OrderFits, offerOrders, OfferTypeOK
<1>5. ASSUME NEW c \in Contacts, RedeemAtCounter(c)
      PROVE  (\A k \in Claims : OrderFits(k))'
  <2>1. PICK k \in Claims :
          /\ claim' = [claim EXCEPT ![k] = "redeemed"]
          /\ holder' = holder \/ (holder' = [holder EXCEPT ![k] = c])
    BY <1>5 DEF RedeemAtCounter
  <2> QED
    BY <1>5, <2>1 DEF RedeemAtCounter, OrderFits, offerOrders, OfferTypeOK
<1>6. CASE OfferEnds \/ ExpireClaims
  BY <1>6 DEF OfferEnds, ExpireClaims, OrderFits, claimVars, offerOrders, OfferTypeOK
<1>7. ASSUME NEW o \in Sales,
             \/ PlacesOrder(o) \/ AsksAgain(o) \/ Delivers(o) \/ Drops(o) \/ Closes(o) \/ PaidLate(o)
      PROVE  (\A k \in Claims : OrderFits(k))'
  <2>1. PICK to \in {"placed", "again", "fulfilled", "dropped", "closed"},
             event \in SUBSET {"closed", "fulfilled"} :
          Moves(o, to, event) /\ (to \in Closed => "closed" \in event)
    BY <1>7 DEF PlacesOrder, AsksAgain, Delivers, Drops, Closes, PaidLate, Closed
  <2> QED
    BY <2>1 DEF Moves, OrderFits, claimVars, OfferTypeOK
<1>8. ASSUME NEW o \in Sales, NEW event \in {"closed", "fulfilled"}, OrderStatusChanged(o, event)
      PROVE  (\A k \in Claims : OrderFits(k))'
  <2>1. ASSUME NEW k \in Claims, claim'[k] = "applied"
        PROVE  claim[k] = "applied" /\ appliedTo[k] # o /\ appliedTo'[k] = appliedTo[k]
    BY <1>8, <2>1 DEF OrderStatusChanged, OfferTypeOK
  <2>2. \A p \in Sales \ {o} : told'[p] = told[p]
    BY <1>8 DEF OrderStatusChanged, OfferTypeOK
  <2> QED
    BY <1>8, <2>1, <2>2 DEF OrderStatusChanged, OrderFits
<1> QED
  BY <1>1, <1>2, <1>3, <1>4, <1>5, <1>6, <1>7, <1>8 DEF OfferNext

-----------------------------------------------------------------------------
LEMMA OfferInitInv == OfferInit => OfferInv
<1> SUFFICES ASSUME OfferInit PROVE OfferInv
  OBVIOUS
<1>1. OfferTypeOK /\ AppliedToOrders /\ OverridesRedeemed /\ OneClaimEach /\ ClosedHoldsNone
  BY DEF OfferInit, OfferTypeOK, AppliedToOrders, OverridesRedeemed, OneClaimEach, ClosedHoldsNone
<1>2. Places = {} /\ overrides = {}
  BY DEF OfferInit, Places, Used
<1>3. UsesCount = 0 /\ Cardinality(overrides) = 0
  BY <1>1, <1>2, PlacesAreFinite, FS_EmptySet
<1> QED
  BY <1>1, <1>3, OfferAssumption DEF OfferInv, PlacesKept, WithinMaxUses

LEMMA OfferStep ==
  ASSUME OfferInv, [OfferNext]_offerVars
  PROVE  OfferInv'
<1>1. OfferTypeOK'
  BY TypeStep DEF OfferInv
<1>2. CASE OfferNext
  BY <1>1, <1>2, PlacesStep, SalesStep, OrderFitsIs
     DEF OfferInv, PlacesKept, OrderFits, AppliedToOrders, OneClaimEach, ClosedHoldsNone
<1>3. CASE UNCHANGED offerVars
  BY <1>3 DEF OfferInv, PlacesKept, OfferTypeOK, AppliedToOrders, OverridesRedeemed, WithinMaxUses,
              UsesCount, OneClaimEach, ClosedHoldsNone, offerVars
<1> QED
  BY <1>2, <1>3

(* The inductive invariant.                                                 *)
THEOREM OfferInvariant == OfferSpec => []OfferInv
<1>1. OfferInv /\ [OfferNext]_offerVars => OfferInv'
  BY OfferStep
<1> QED
  BY OfferInitInv, <1>1, PTL DEF OfferSpec

(* Type correctness of an offer (offers/services.py) for all constants.     *)
THEOREM OfferTypeCorrect == OfferSpec => []OfferTypeOK
<1>1. OfferInv => OfferTypeOK
  BY DEF OfferInv
<1> QED
  BY OfferInvariant, <1>1, PTL

(* However many buyers, claims and orders race for them, the places of an   *)
(* offer are not given twice, each applied claim is the discount of the one *)
(* order it is applied to, and a closed order gives its place back.         *)
THEOREM OfferKeepsPlaces == OfferSpec => []PlacesKept
<1>1. OfferInv => PlacesKept
  BY DEF OfferInv
<1> QED
  BY OfferInvariant, <1>1, PTL

-----------------------------------------------------------------------------
(* The inbox, billing and an offer as the runs check them, side by side:     *)
(* each keeps its types and its promises.                                    *)
THEOREM JobsAreSafe ==
  JobsSpec =>
    /\ [](JobsTypeOK /\ OneHolder /\ FailedIsRetried /\ OrderFulfilledOnce /\ ChargesMatchPlan /\ PlacesKept)
    /\ PlansStand
<1>1. JobsInit => InboxInit /\ BillingInit /\ OfferInit
  BY DEF JobsInit
<1>2. [JobsNext]_jobsVars => [InboxNext]_inboxVars /\ [BillingNext]_billingVars /\ [OfferNext]_offerVars
  BY DEF JobsNext, jobsVars
<1>3. JobsSpec => JobsInit /\ [][JobsNext]_jobsVars
  BY DEF JobsSpec
<1>4. JobsSpec => InboxSpec /\ BillingSpec /\ OfferSpec
  BY <1>1, <1>2, <1>3, PTL DEF InboxSpec, BillingSpec, OfferSpec
<1>5. InboxTypeOK /\ BillingTypeOK /\ OfferTypeOK => JobsTypeOK
  BY DEF JobsTypeOK
<1> QED
  BY <1>4, <1>5, InboxTypeCorrect, BillingTypeCorrect, OfferTypeCorrect, InboxOneHolder,
     InboxFailedIsRetried, BillingFulfilsOnce, BillingChargesMatch, BillingPlansStand, OfferKeepsPlaces, PTL
=============================================================================
