----------------------------- MODULE QuotePricing -----------------------------
(***************************************************************************)
(* The price of a cart, as the server computes it from discounts, against  *)
(* the price a reader of the offers expects, counted unit by unit. A cart  *)
(* has units of one product, combos of other products, at most one offer   *)
(* of each kind that is active now, and a coupon, a manual discount of the *)
(* till or rewards of loyalty; an absent thing is an empty set. A store    *)
(* whose active offers conflict prices no cart (see OfferCatalog), and the *)
(* zone that gives the delivery fee is taken as resolved.                  *)
(***************************************************************************)
EXTENDS Integers, FiniteSetsExt, Functions

CONSTANTS
  MaxCents,      \* MAX_DATABASE_CENTS
  Whole,         \* what a percentage is a part of
  Base,          \* basePrice of the product
  Extra,         \* price of the options of a unit or of a combo
  BundleBase     \* base prices of the components of a combo

ASSUME PricingAssumption ==
  {MaxCents, Whole, Base, Extra, BundleBase} \subseteq Nat /\ Whole > 0

InCents(n) == n \in 0..MaxCents
Total(op(_), S) == SumFunctionOnSet([x \in S |-> op(x)], S)

ShareOf(kind, value, base) == IF kind = "FIXED" THEN value ELSE (base * value) \div Whole
Capped(base, value, most) == Min({base, value} \cup most)

(*--------------------------- The automatic offers ------------------------*)
(* What one application of an item offer saves, and how often it applies.  *)
GainOf(d) ==
  CASE d.kind = "FIXED"    -> Base - d.price
    [] d.kind = "QUANTITY" -> Base * d.need - d.price
    [] d.kind = "BOGO"     -> Base * d.get

GroupSize(d) ==
  CASE d.kind = "FIXED" -> 1 [] d.kind = "QUANTITY" -> d.need [] d.kind = "BOGO" -> d.buy + d.get

Applications(d, units) == Min({units \div GroupSize(d), d.most})

(* createProductPromotion writes the promotion twice: the offer that the   *)
(* quote reads has the default of maxApplicationsPerOrder.                 *)
MirrorOf(price) == [kind |-> "FIXED", price |-> price, most |-> 1]

Deals(c) == c.deal \cup {MirrorOf(price) : price \in c.promotion}

ItemSaving(c) == Total(LAMBDA d : Max({0, GainOf(d)}) * Applications(d, c.units), Deals(c))

(* A combo whose price saves nothing is an issue, and is not priced.       *)
Saves(b) == b.price + b.delta < BundleBase
Bundles(c) == {b \in c.bundle : Saves(b)}
BundleSaving(c) == Total(LAMBDA b : (BundleBase - b.price - b.delta) * b.count, Bundles(c))

Subtotal(c) ==
  (Base + Extra) * c.units + Total(LAMBDA b : (BundleBase + Extra) * b.count, Bundles(c))

ItemNet(c) == Subtotal(c) - ItemSaving(c) - BundleSaving(c)

CartSaving(c) ==
  Total(LAMBDA o : IF ItemNet(c) >= o.min
                   THEN Capped(ItemNet(c), ShareOf(o.type, o.value, ItemNet(c)), o.most) ELSE 0,
        c.cartOffer)

Merchandise(c) == ItemNet(c) - CartSaving(c)

WaivedFee(c) == IF \E min \in c.freeDelivery : Merchandise(c) >= min THEN c.fee ELSE 0

CouponApplies(c) == {k \in c.coupon : k.usable /\ Merchandise(c) >= k.min}
CouponSaving(c) ==
  Total(LAMBDA k : Capped(Merchandise(c), ShareOf(k.type, k.value, Merchandise(c)), k.most),
        CouponApplies(c))

(*------------------------------- The quote -------------------------------*)
IssuesOf(c) ==
  {issue \in {"OFFER_UNAVAILABLE", "MIN_ORDER_NOT_REACHED", "COUPON_INVALID"} :
     \/ issue = "OFFER_UNAVAILABLE" /\ Bundles(c) # c.bundle
     \/ issue = "MIN_ORDER_NOT_REACHED" /\ Subtotal(c) < c.minimum
     \/ issue = "COUPON_INVALID" /\ CouponApplies(c) # c.coupon}

BaseQuote(c) ==
  LET automatic == ItemSaving(c) + BundleSaving(c) + CartSaving(c) + WaivedFee(c)
      discount  == automatic + CouponSaving(c)
  IN  [subtotal |-> Subtotal(c), automatic |-> automatic, coupon |-> CouponSaving(c),
       manual |-> 0, loyalty |-> 0, discount |-> discount, fee |-> c.fee,
       total |-> Subtotal(c) - discount + c.fee, issues |-> IssuesOf(c),
       adjusted |-> ItemSaving(c) + BundleSaving(c) + CartSaving(c) + WaivedFee(c) + CouponSaving(c)]

(* assertCheckoutFinancialInvariants, for the loyalty discount it is told. *)
TotalsAgree(q, loyalty) ==
  /\ InCents(q.subtotal) /\ InCents(q.discount) /\ InCents(q.subtotal - q.discount) /\ InCents(q.total)
  /\ q.adjusted = q.discount
  /\ q.automatic + q.coupon + q.manual + loyalty = q.discount
  /\ q.subtotal - q.discount + q.fee = q.total

(* The cart offer's percentage is computed by multiplying cents.           *)
Computable(c) == \A o \in c.cartOffer : o.type = "PERCENTAGE" => InCents(ItemNet(c) * o.value)

(* calculateCheckoutQuote: no quote when the arithmetic throws.            *)
Quoted(c) == {q \in {BaseQuote(c)} : Computable(c) /\ TotalsAgree(q, 0)}

Discounted(q, field, amount) ==
  [q EXCEPT ![field] = amount, !.discount = @ + amount, !.total = @ - amount, !.adjusted = @ + amount]

(* applyAuthorizedPosManualDiscount; Math.round rounds a half up.          *)
ManualSaving(m, base) ==
  IF m.mode = "FIXED" THEN m.value ELSE (2 * base * m.value + Whole) \div (2 * Whole)

Eligible(q) == q.subtotal - q.automatic - q.coupon

WithManual(c, q) ==
  IF c.manual = {} THEN {q}
  ELSE {Discounted(q, "manual", ManualSaving(m, Eligible(q))) :
          m \in {m \in c.manual : Eligible(q) > 0 /\ ManualSaving(m, Eligible(q)) \in 1..Eligible(q)}}

(*------------------------------- Rewards ---------------------------------*)
(* Faulty: a reward is taken off the goods before the offers.              *)
RewardBaseGross(q) == q.subtotal

RewardBase(q) == Max({0, q.subtotal - q.automatic})

RewardSaving(c, q, r) ==
  CASE r.type = "FIXED"   -> Min({r.value, RewardBase(q)})
    [] r.type = "PERCENT" -> Capped(RewardBase(q), (RewardBase(q) * r.value) \div Whole, r.most)
    [] r.type = "PRODUCT" ->
       IF c.units = 0 THEN 0
       ELSE Min({r.value, Base, Max({0, Base * c.units - ItemSaving(c)}) \div c.units, RewardBase(q)})

Considered(c, q, r) == CouponApplies(c) = {} /\ q.subtotal >= r.min
RewardEligible(c, q, r) == Considered(c, q, r) /\ RewardSaving(c, q, r) > 0

(* Every reward held is evaluated, a percentage by multiplying cents.      *)
Evaluable(c, q) ==
  \A r \in c.rewards : r.type = "PERCENT" /\ Considered(c, q, r) => InCents(RewardBase(q) * r.value)

(* attachAuthorizedLoyaltyBenefits                                         *)
WithReward(c, q) ==
  IF ~Evaluable(c, q) THEN {}
  ELSE IF c.chosen = {} THEN {q}
  ELSE {Discounted(q, "loyalty", RewardSaving(c, q, r)) : r \in {r \in c.chosen : RewardEligible(c, q, r)}}

(* What the checkout prices; the till has no rewards, the storefront no    *)
(* manual discount.                                                        *)
Priced(c) == UNION {UNION {WithReward(c, p) : p \in WithManual(c, q)} : q \in Quoted(c)}

(* createOrder repeats the check of the totals and leaves the loyalty      *)
(* discount out of it.                                                     *)
OrderAccepts(q) == q.issues = {} /\ TotalsAgree(q, 0)

(*------------------------------ Properties -------------------------------*)
(* What unit u of q costs under an offer; a group is charged on its first. *)
UnitCharge(d, q, u) ==
  LET group    == ((u - 1) \div GroupSize(d)) + 1
      position == ((u - 1) % GroupSize(d)) + 1
      offered  == group <= d.most /\ group * GroupSize(d) <= q
  IN  CASE ~offered -> Base
        [] offered /\ d.kind = "FIXED" -> Min({Base, d.price})
        [] offered /\ d.kind = "QUANTITY" /\ Base * d.need <= d.price -> Base
        [] offered /\ d.kind = "QUANTITY" /\ Base * d.need > d.price -> IF position = 1 THEN d.price ELSE 0
        [] offered /\ d.kind = "BOGO" -> IF position > d.buy THEN 0 ELSE Base

GoodsCharge(c) ==
  (IF Deals(c) = {} THEN Base * c.units
   ELSE Total(LAMBDA u : Total(LAMBDA d : UnitCharge(d, c.units, u), Deals(c)), 1..c.units))
  + Extra * c.units + Total(LAMBDA b : (b.price + b.delta + Extra) * b.count, Bundles(c))

(* The named exceptions: a reward or an offer whose percentage is too wide *)
(* for the arithmetic, a delivery given free on goods that a coupon leaves *)
(* worth less than it, and the discounts that find nothing to take from.   *)
TooWide(c) == ~Computable(c) \/ \E q \in {BaseQuote(c)} : ~Evaluable(c, q)
FeeBeyondGoods(c) == Merchandise(c) - CouponSaving(c) < WaivedFee(c)
NothingToTake(c) ==
  LET q == BaseQuote(c)
  IN  \/ c.manual # {} /\ WithManual(c, q) = {}
      \/ \E r \in c.chosen : ~RewardEligible(c, q, r)

(* The discounts the server records take the cart to the price counted     *)
(* unit by unit, each next discount off what the one before left; nothing  *)
(* goes below zero, a coupon and a reward never meet, and a cart within    *)
(* the range of cents has a price but for the three named exceptions.      *)
PricedAsAdvertised(c) ==
  /\ \A q \in Priced(c) :
       LET goods == GoodsCharge(c) - CartSaving(c)
           net   == goods - q.coupon - q.manual - q.loyalty
       IN  /\ q.total = net + (c.fee - WaivedFee(c))
           /\ q.subtotal >= q.discount /\ net >= WaivedFee(c)
           /\ q.loyalty > 0 => q.coupon = 0 /\ q.loyalty <= goods
           /\ \A k \in CouponApplies(c) : q.coupon <= goods /\ (k.type = "FIXED" => q.coupon <= k.value)
  /\ (InCents(Subtotal(c)) /\ InCents(Subtotal(c) + c.fee) /\ Priced(c) = {})
       => TooWide(c) \/ FeeBeyondGoods(c) \/ NothingToTake(c)

(* A promotion of a product replaces its base price, on every unit.        *)
PromotedPrice(c) ==
  \A price \in c.promotion : ItemSaving(c) = (Base - price) * c.units

(* A quote that carries a reward can become an order.                      *)
RewardReachesOrder(c) ==
  \A q \in Priced(c) : q.loyalty > 0 /\ q.issues = {} => OrderAccepts(q)
=============================================================================
