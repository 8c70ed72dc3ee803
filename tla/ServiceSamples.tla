----------------------------- MODULE ServiceSamples -----------------------------
(***************************************************************************)
(* The inputs over which the pure computations of the store are compared   *)
(* with what they are meant to be: a customer's figures, two schedules, a  *)
(* cart. Amounts are small and a percentage is a part of ten.              *)
(***************************************************************************)
EXTENDS Naturals

(* Averages below, between and above the bounds of the thresholds, at each *)
(* distance from the last order where a segment may change.                *)
Figures ==
  {c \in [count : 1..6, last : {0}, gaps : 0..45 \cup {69, 70, 71}, intervals : 0..5, now : 0..50,
          recovered : {{}, {0}, {10}}] : c.intervals = c.count - 1}

(* With and without a first date, an end, weekdays, and a window within    *)
(* the day or across midnight.                                             *)
Timetables ==
  {s \in [starts : {{}, {8}, {11}}, ends : {{}, {11}, {17}}, weekdays : {{}, {0}, {1, 2}},
          window : {{}, {[start |-> 1, end |-> 3]}, {[start |-> 3, end |-> 1]}}] :
     \A first \in s.starts, end \in s.ends : first < end}

TimetablePairs == [l : Timetables, r : Timetables]

AtMostOne(S) == {{}} \cup {{x} : x \in S}

ItemOffers ==
  {[kind |-> "FIXED", price |-> 4, most |-> 2], [kind |-> "QUANTITY", price |-> 13, need |-> 3, most |-> 1],
   [kind |-> "BOGO", buy |-> 1, get |-> 1, most |-> 2]}
ComboLines == {[count |-> 2, price |-> 7, delta |-> 1], [count |-> 1, price |-> 9, delta |-> 1]}
CartOffers ==
  {[type |-> "FIXED", value |-> 5, min |-> 12, most |-> {}],
   [type |-> "PERCENTAGE", value |-> 3, min |-> 0, most |-> {4}]}
Coupons ==
  {[type |-> "FIXED", value |-> 5, most |-> {}, min |-> 0, usable |-> TRUE],
   [type |-> "PERCENTAGE", value |-> 9, most |-> {}, min |-> 10, usable |-> TRUE],
   [type |-> "FIXED", value |-> 5, most |-> {}, min |-> 0, usable |-> FALSE]}
ManualDiscounts == {[mode |-> "FIXED", value |-> 6], [mode |-> "PERCENTAGE", value |-> 5]}
HalfOff == [type |-> "PERCENT", value |-> 5, most |-> {}, min |-> 0]
HeldRewards ==
  {HalfOff, [type |-> "PERCENT", value |-> 2, most |-> {2}, min |-> 10],
   [type |-> "FIXED", value |-> 9, min |-> 0], [type |-> "FIXED", value |-> 3, min |-> 20],
   [type |-> "PRODUCT", value |-> 5, min |-> 0]}

(* A coupon, a discount of the till, a reward that is chosen, or one that  *)
(* a coupon stands in the way of.                                          *)
NoBenefit == [coupon |-> {}, manual |-> {}, rewards |-> {}, chosen |-> {}]
Benefits ==
  {NoBenefit} \cup {[NoBenefit EXCEPT !.coupon = {k}] : k \in Coupons}
  \cup {[NoBenefit EXCEPT !.manual = {m}] : m \in ManualDiscounts}
  \cup {[NoBenefit EXCEPT !.rewards = {r}, !.chosen = {r}] : r \in HeldRewards}
  \cup {[NoBenefit EXCEPT !.coupon = {k}, !.rewards = {HalfOff}] : k \in Coupons}

(* What a product is offered for: by an offer, or by a promotion.          *)
ProductTerms ==
  [deal : AtMostOne(ItemOffers), promotion : {{}}] \cup [deal : {{}}, promotion : {{4}}]
DeliveryTerms == [free : {{}}, fee : {0, 4}] \cup [free : {{3}}, fee : {4}]

PricedCarts ==
  {[units |-> units, deal |-> product.deal, promotion |-> product.promotion, bundle |-> bundle,
    cartOffer |-> offer, freeDelivery |-> delivery.free, fee |-> delivery.fee, minimum |-> 6,
    coupon |-> benefit.coupon, manual |-> benefit.manual, rewards |-> benefit.rewards,
    chosen |-> benefit.chosen] :
     units \in {0, 1, 3, 5, 15}, product \in ProductTerms, bundle \in AtMostOne(ComboLines),
     offer \in AtMostOne(CartOffers), delivery \in DeliveryTerms, benefit \in Benefits}
=============================================================================
