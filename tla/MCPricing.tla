------------------------------- MODULE MCPricing -------------------------------
(***************************************************************************)
(* What the documents say of a cart's price, over the sample carts.        *)
(***************************************************************************)
EXTENDS QuotePricing, ServiceSamples

VARIABLE cart

Spec == cart \in PricedCarts /\ [][UNCHANGED cart]_cart

(* A promotion of a product replaces its base price on every unit, as      *)
(* docs/operations/combos-promotions.md describes it.                      *)
PromotionForEveryUnit == PromotedPrice(cart)

(* A reward that the checkout lets the customer choose, and prices, makes  *)
(* it into an order, as checkout-form.tsx invites the customer to.         *)
ChosenRewardReachesOrder == RewardReachesOrder(cart)
=============================================================================
