------------------------- MODULE StoreServicesProofs -------------------------
(***************************************************************************)
(* What is proved of the store's services put side by side: a behaviour of *)
(* the whole is a behaviour of each part, so that the whole has the types  *)
(* and keeps the promises that the parts have and keep on their own; and   *)
(* the samples of a computation are inputs of which its theorem speaks.    *)
(***************************************************************************)
EXTENDS MCStoreServices, CounterProofs, CustomerProofs, ProviderProofs, StorefrontProofs

(* The parts whose first state names values that are symmetric in others.  *)
Checking == part = "attempts"
Drafting == part = "drafts"

(* A step of the whole is a step of a part, or leaves the part alone.      *)
LEMMA LedgerMoves == [Next]_vars => [LedgerNext]_ledgerVars
BY DEF Next, vars

LEMMA InboxMoves == [Next]_vars => [InboxNext]_inboxVars
BY DEF Next, vars

LEMMA ConnectionMoves == [Next]_vars => [ConnectionNext]_connectionVars
BY DEF Next, vars

LEMMA PushMoves == [Next]_vars => [PushNext]_pushVars
BY DEF Next, vars

LEMMA DiningMoves == [Next]_vars => [DiningNext]_diningVars
BY DEF Next, vars

LEMMA CatalogMoves == [Next]_vars => [CatalogNext]_catalogVars
BY DEF Next, vars

LEMMA AttemptsMove == [Next]_vars => [AttemptsNext]_attemptVars
BY DEF Next, vars

LEMMA DraftsMove == [Next]_vars => [DraftsNext]_draftVars
BY DEF Next, vars

LEMMA FeedMoves == [Next]_vars => [FeedNext]_feedVars
BY DEF Next, vars

LEMMA AccessMoves == [Next]_vars => [AccessNext]_accessVars
BY DEF Next, vars

(* The part that moves and the sample are chosen once.                     *)
LEMMA ChoiceStays == [Next]_vars => part' = part /\ sample' = sample
BY DEF Next, vars

(* At first every part is in a first state of its own, but for those whose *)
(* first state is set up only when they are to move.                       *)
LEMMA PartsStart ==
  Init => /\ LedgerInit /\ InboxInit /\ ConnectionInit /\ PushInit /\ DiningInit
          /\ CatalogInit /\ FeedInit /\ AccessInit
          /\ (Checking => AttemptsInit) /\ (Drafting => DraftsInit)
BY DEF Init, Checking, Drafting

(* The services share no state: whatever one of them does, the behaviour   *)
(* of the store is a behaviour of each, from its own first state.          *)
THEOREM ServicesApart ==
  Spec => /\ LedgerSpec /\ InboxSpec /\ ConnectionSpec /\ PushSpec /\ DiningSpec
          /\ CatalogSpec /\ FeedSpec /\ AccessSpec
          /\ (Checking => AttemptsSpec) /\ (Drafting => DraftsSpec)
BY PartsStart, LedgerMoves, InboxMoves, ConnectionMoves, PushMoves, DiningMoves, CatalogMoves,
   AttemptsMove, DraftsMove, FeedMoves, AccessMoves, PTL
   DEF Spec, LedgerSpec, InboxSpec, ConnectionSpec, PushSpec, DiningSpec, CatalogSpec, FeedSpec,
       AccessSpec, AttemptsSpec, DraftsSpec

(* The state of the part that moves has the types its module gives it, in  *)
(* every store: any orders, readers, senders, tables, tills and devices.   *)
THEOREM ServicesTyped == Spec => []ServicesTypeOK
<1> DEFINE Typed == /\ LedgerTypeOK /\ InboxTypeOK /\ ConnectionTypeOK /\ PushTypeOK /\ DiningTypeOK
                   /\ CatalogTypeOK /\ FeedTypeOK /\ AccessTypeOK
                   /\ (Checking => AttemptsTypeOK) /\ (Drafting => DraftsTypeOK)
<1>1. CatalogInv => CatalogTypeOK
  BY DEF CatalogInv
<1>2. DraftsInv => DraftsTypeOK
  BY DEF DraftsInv
<1>3. [Next]_vars => (Checking <=> Checking') /\ (Drafting <=> Drafting')
  BY ChoiceStays DEF Checking, Drafting
<1>4. Typed => ServicesTypeOK
  BY DEF ServicesTypeOK, Checking, Drafting
<1>5. QED
  BY ServicesApart, LedgerTypeInvariance, AlertsAreLate, ConnectionInvariance, PushInvariance,
     BillsStaySettled, CatalogInvariance, EveryNewOrderRings, AccessFollowsProof, ConfirmedOnce,
     DraftsInvariance, <1>1, <1>2, <1>3, <1>4, PTL DEF Spec

(* What was not set up at first stays so while another part moves.         *)
ServicesRest == (Checking \/ AttemptsAsleep) /\ (Drafting \/ DraftsAsleep)

LEMMA ServicesRestStays == Spec => []ServicesRest
<1>1. Init => ServicesRest
  BY DEF Init, ServicesRest, Checking, Drafting
<1>2. ServicesRest /\ [Next]_vars => ServicesRest'
  <2>1. SUFFICES ASSUME ServicesRest, [Next]_vars PROVE ServicesRest'
    OBVIOUS
  <2>2. part' = part
    BY <2>1, ChoiceStays
  <2>3. Checking \/ UNCHANGED attemptVars
    BY <2>1 DEF Next, vars, Checking
  <2>4. Drafting \/ UNCHANGED draftVars
    BY <2>1 DEF Next, vars, Drafting
  <2>5. Checking' \/ AttemptsAsleep'
    BY <2>1, <2>2, <2>3 DEF ServicesRest, Checking, AttemptsAsleep, attemptVars
  <2>6. Drafting' \/ DraftsAsleep'
    BY <2>1, <2>2, <2>4 DEF ServicesRest, Drafting, DraftsAsleep, draftVars
  <2>7. QED
    BY <2>5, <2>6 DEF ServicesRest
<1>3. QED
  BY <1>1, <1>2, PTL DEF Spec

(* What the parts promise holds of the whole store, all at once and at all *)
(* times: of rewards, credits and conversions, of the inbox and the        *)
(* credential, of notifications, bills, promotions, checkouts, drafts, the *)
(* feed and access.                                                        *)
THEOREM ServicesKeepPromises ==
  Spec => /\ [](/\ CreditWhereDue /\ CyclesAddUp /\ RewardSpentOnce /\ SnapshotMatchesHistory
                /\ ConversionIsUse /\ TriesWithinReach /\ CredentialFollowsStatus
                /\ CredentialWrittenOnce /\ NewestLast /\ OneCopyPerClaim /\ BillsSettled
                /\ PromotionsApart /\ OneOrderPerCheckout /\ ConvertedAsSaved /\ NewOrdersRing
                /\ AccessIsProved)
          /\ ClosedAsSeen
<1>1. [Next]_vars => (Checking <=> Checking') /\ (Drafting <=> Drafting')
  BY ChoiceStays DEF Checking, Drafting
<1>2. AttemptsAsleep => OneOrderPerCheckout
  BY DEF AttemptsAsleep, OneOrderPerCheckout, LiveOrders
<1>3. DraftsAsleep => ConvertedAsSaved
  BY DEF DraftsAsleep, ConvertedAsSaved
<1>4. ServicesRest => (Checking \/ OneOrderPerCheckout) /\ (Drafting \/ ConvertedAsSaved)
  BY <1>2, <1>3 DEF ServicesRest
<1>5. Spec => [](OneOrderPerCheckout /\ ConvertedAsSaved)
  BY ServicesApart, ServicesRestStays, ConfirmedOnce, DraftsConvertAsSaved, <1>1, <1>4, PTL DEF Spec
<1>6. QED
  BY ServicesApart, CreditedWhereDue, EveryCycleAddsUp, NoRewardSpentTwice, SnapshotIsHistory,
     ConvertedByUse, AlertsAreLate, ConnectionInvariance, PushInvariance, BillsStaySettled,
     WaitersCloseWhatTheySaw, PromotionsNeverMeet, EveryNewOrderRings, AccessFollowsProof, <1>5, PTL

-----------------------------------------------------------------------------
(* The computations.                                                       *)

(* The sample is one of its part's.                                        *)
Sampled == sample \in SamplesOf(part)

LEMMA AlwaysSampled == Spec => []Sampled
<1>1. Init => Sampled
  BY DEF Init, Sampled
<1>2. Sampled /\ [Next]_vars => Sampled'
  <2>1. SUFFICES ASSUME Sampled, [Next]_vars PROVE Sampled'
    OBVIOUS
  <2>2. part' = part /\ sample' = sample
    BY <2>1, ChoiceStays
  <2>3. QED
    BY <2>1, <2>2 DEF Sampled, SamplesOf
<1>3. QED
  BY <1>1, <1>2, PTL DEF Spec

(* The figures of the samples are those of customers who have ordered.     *)
LEMMA FiguresOfCustomers == Figures \subseteq Situation
BY DEF Figures, Situation

(* The application and the database put a customer into one segment: the   *)
(* samples are customers, and the two agree on every customer.             *)
THEOREM ServicesAgreeOnSegments == Spec => []SegmentsAgree
<1>1. Sampled => SegmentsAgree
  <2>1. SUFFICES ASSUME Sampled, part = "segments" PROVE AgreeOn(sample)
    BY DEF SegmentsAgree
  <2>2. sample \in Figures
    BY <2>1 DEF Sampled, SamplesOf
  <2>3. QED
    BY <2>2, FiguresOfCustomers, SegmentsNeverDiffer
<1>2. QED
  BY AlwaysSampled, <1>1, PTL

(* The schedules of the samples fit a week and a day that are long enough  *)
(* for their weekdays and windows, and end late enough for a whole week to *)
(* be scanned before.                                                      *)
LEMMA SampledTimetables ==
  ASSUME Week \in 3..5, Day >= 4, NEW s \in Timetables
  PROVE  /\ s \in Timetable
         /\ s.starts \subseteq {8, 11}
         /\ \A end \in s.ends : end >= Epoch + Week
<1>1. /\ s.starts \in {{}, {8}, {11}} /\ s.ends \in {{}, {11}, {17}}
      /\ s.weekdays \in {{}, {0}, {1, 2}}
      /\ s.window \in {{}, {[start |-> 1, end |-> 3]}, {[start |-> 3, end |-> 1]}}
      /\ s = [starts |-> s.starts, ends |-> s.ends, weekdays |-> s.weekdays, window |-> s.window]
  BY DEF Timetables
<1>2. s.starts \in OptionalDates /\ s.ends \in OptionalDates
  BY <1>1 DEF OptionalDates
<1>3. 0 \in 0..Week - 1 /\ 1 \in 0..Week - 1 /\ 2 \in 0..Week - 1
  OBVIOUS
<1>4. s.weekdays \in SUBSET (0..Week - 1)
  BY <1>1, <1>3
<1>5. 1 \in 0..Day - 1 /\ 3 \in 0..Day - 1
  BY ScheduleAssumption
<1>6. s.window \in SUBSET [start : 0..Day - 1, end : 0..Day - 1]
  BY <1>1, <1>5
<1>7. s \in Timetable
  BY <1>1, <1>2, <1>4, <1>6 DEF Timetable
<1>8. s.starts \subseteq {8, 11}
  BY <1>1
<1>9. \A end \in s.ends : end >= Epoch + Week
  BY <1>1 DEF Epoch
<1>10. QED
  BY <1>7, <1>8, <1>9

(* The scan of two schedules finds the moments at which both are active:   *)
(* over a week and a day that hold the samples, and as far ahead as it is  *)
(* looked.                                                                 *)
THEOREM ServicesFindOverlaps ==
  ASSUME Week \in 3..5, Day >= 4, LookAhead >= 11 + 2 * Week
  PROVE  Spec => []OverlapsFound
<1>1. ASSUME Sampled, part = "schedule" PROVE OverlapIsExact(sample.l, sample.r)
  <2>1. sample \in TimetablePairs
    BY <1>1 DEF Sampled, SamplesOf
  <2>2. sample.l \in Timetables /\ sample.r \in Timetables
    BY <2>1 DEF TimetablePairs
  <2>3. sample.l \in Timetable /\ sample.r \in Timetable
    BY <2>2, SampledTimetables
  <2>4. ScansAWeek(sample.l, sample.r)
    BY <2>2, SampledTimetables DEF ScansAWeek
  <2>5. \A first \in sample.l.starts \cup sample.r.starts : first \in {8, 11}
    BY <2>2, SampledTimetables
  <2>6. LookAhead \in Nat
    BY ScheduleAssumption
  <2>7. \A first \in sample.l.starts \cup sample.r.starts : 1 <= first /\ first + 2 * Week <= LookAhead
    BY <2>5, <2>6
  <2>8. 3 * Week <= LookAhead
    BY <2>6
  <2>9. QED
    BY <2>3, <2>4, <2>7, <2>8, OverlapExact
<1>2. Sampled => OverlapsFound
  BY <1>1 DEF OverlapsFound
<1>3. QED
  BY AlwaysSampled, <1>2, PTL

(* The parts of a sampled cart are parts of a cart.                        *)
LEMMA SampledTerms ==
  /\ ItemOffers \subseteq ItemOffer /\ ComboLines \subseteq ComboLine /\ CartOffers \subseteq CartOffer
  /\ Coupons \subseteq Coupon /\ ManualDiscounts \subseteq ManualDiscount /\ HeldRewards \subseteq Reward
<1>1. {4} \in Optional(Nat) /\ {2} \in Optional(Nat) /\ {} \in Optional(Nat)
  BY DEF Optional
<1>2. ItemOffers \subseteq ItemOffer
  BY DEF ItemOffers, ItemOffer
<1>3. ComboLines \subseteq ComboLine
  BY DEF ComboLines, ComboLine
<1>4. CartOffers \subseteq CartOffer
  BY <1>1 DEF CartOffers, CartOffer
<1>5. Coupons \subseteq Coupon
  BY <1>1 DEF Coupons, Coupon
<1>6. ManualDiscounts \subseteq ManualDiscount
  BY DEF ManualDiscounts, ManualDiscount
<1>7. HeldRewards \subseteq Reward
  BY <1>1 DEF HeldRewards, HalfOff, Reward
<1>8. QED
  BY <1>2, <1>3, <1>4, <1>5, <1>6, <1>7

LEMMA OneIsOptional ==
  ASSUME NEW S, NEW T, S \subseteq T
  PROVE  /\ \A O \in AtMostOne(S) : O \in Optional(T)
         /\ {} \in Optional(T)
         /\ \A x \in S : {x} \in Optional(T)
BY DEF AtMostOne, Optional

(* A cart is offered benefits of one kind.                                 *)
LEMMA SampledBenefits ==
  ASSUME NEW b \in Benefits
  PROVE  /\ b.coupon \in Optional(Coupon) /\ b.manual \in Optional(ManualDiscount)
         /\ b.rewards \in SUBSET Reward /\ b.chosen \in Optional(Reward)
         /\ b.manual = {} \/ b.chosen = {}
<1>1. HalfOff \in Reward
  BY SampledTerms DEF HeldRewards
<1>2. /\ \A k \in Coupons : {k} \in Optional(Coupon)
      /\ \A m \in ManualDiscounts : {m} \in Optional(ManualDiscount)
      /\ \A r \in HeldRewards : {r} \in Optional(Reward)
      /\ {} \in Optional(Coupon) /\ {} \in Optional(ManualDiscount) /\ {} \in Optional(Reward)
  BY SampledTerms, OneIsOptional
<1>3. CASE b = NoBenefit
  BY <1>2, <1>3 DEF NoBenefit
<1>4. CASE \E k \in Coupons : b = [NoBenefit EXCEPT !.coupon = {k}]
  BY <1>2, <1>4 DEF NoBenefit
<1>5. CASE \E m \in ManualDiscounts : b = [NoBenefit EXCEPT !.manual = {m}]
  BY <1>2, <1>5 DEF NoBenefit
<1>6. CASE \E r \in HeldRewards : b = [NoBenefit EXCEPT !.rewards = {r}, !.chosen = {r}]
  BY <1>2, <1>6, SampledTerms DEF NoBenefit
<1>7. CASE \E k \in Coupons : b = [NoBenefit EXCEPT !.coupon = {k}, !.rewards = {HalfOff}]
  BY <1>1, <1>2, <1>7 DEF NoBenefit
<1>8. QED
  BY <1>3, <1>4, <1>5, <1>6, <1>7 DEF Benefits

(* A sampled cart is a cart.                                               *)
LEMMA SampledCarts == PricedCarts \subseteq Cart
<1> SUFFICES ASSUME NEW c \in PricedCarts PROVE c \in Cart
  OBVIOUS
<1>1. PICK units \in {0, 1, 3, 5, 15}, product \in ProductTerms, bundle \in AtMostOne(ComboLines),
           offer \in AtMostOne(CartOffers), terms \in DeliveryTerms, benefit \in Benefits :
        c = [units |-> units, deal |-> product.deal, promotion |-> product.promotion, bundle |-> bundle,
             cartOffer |-> offer, freeDelivery |-> terms.free, fee |-> terms.fee, minimum |-> 6,
             coupon |-> benefit.coupon, manual |-> benefit.manual, rewards |-> benefit.rewards,
             chosen |-> benefit.chosen]
  BY DEF PricedCarts
<1>2. /\ bundle \in Optional(ComboLine) /\ offer \in Optional(CartOffer)
      /\ \A O \in AtMostOne(ItemOffers) : O \in Optional(ItemOffer)
  BY SampledTerms, OneIsOptional
<1>3. {} \in Optional(ItemOffer) /\ {} \in Optional(Nat) /\ {4} \in Optional(Nat) /\ {3} \in Optional(Nat)
  BY DEF Optional
<1>4. /\ product.deal \in Optional(ItemOffer) /\ product.promotion \in Optional(Nat)
      /\ product.deal = {} \/ product.promotion = {}
  BY <1>2, <1>3 DEF ProductTerms
<1>5. terms.free \in Optional(Nat) /\ terms.fee \in Nat
  BY <1>3 DEF DeliveryTerms
<1>6. /\ benefit.coupon \in Optional(Coupon) /\ benefit.manual \in Optional(ManualDiscount)
      /\ benefit.rewards \in SUBSET Reward /\ benefit.chosen \in Optional(Reward)
      /\ benefit.manual = {} \/ benefit.chosen = {}
  BY SampledBenefits
<1>7. units \in Nat
  OBVIOUS
<1>8. QED
  BY <1>1, <1>2, <1>4, <1>5, <1>6, <1>7 DEF Cart

(* A quote takes a cart to the price counted unit by unit: the samples are *)
(* carts, and it does so of every cart.                                    *)
THEOREM ServicesQuoteAsAdvertised == Spec => []QuoteIsAdvertised
<1>1. Sampled => QuoteIsAdvertised
  <2>1. SUFFICES ASSUME Sampled, part = "pricing" PROVE PricedAsAdvertised(sample)
    BY DEF QuoteIsAdvertised
  <2>2. sample \in PricedCarts
    BY <2>1 DEF Sampled, SamplesOf
  <2>3. QED
    BY <2>2, SampledCarts, EveryCartAsAdvertised
<1>2. QED
  BY AlwaysSampled, <1>1, PTL
=============================================================================
