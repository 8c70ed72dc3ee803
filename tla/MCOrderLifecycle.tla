-------------------------- MODULE MCOrderLifecycle --------------------------
(***************************************************************************)
(* Instances of OrderLifecycle for TLC: the shapes of order each run       *)
(* explores.                                                               *)
(***************************************************************************)
EXTENDS OrderLifecycle, TLC

Storefront(modality, method) ==
  [modality |-> modality, method |-> method, online |-> FALSE, pos |-> FALSE]
Till(modality, method) ==
  [modality |-> modality, method |-> method, online |-> FALSE, pos |-> TRUE]
OnlinePix(modality) ==
  [modality |-> modality, method |-> "PIX", online |-> TRUE, pos |-> FALSE]

(* Every way of paying a person, with each modality at least once.         *)
CounterShapes ==
  {Storefront("DELIVERY", "CARD_ON_DELIVERY"), Storefront("PICKUP", "PIX"),
   Storefront("PICKUP", "CASH"), Till("DINE_IN", "CARD_IN_PERSON"), Till("DELIVERY", "PIX")}

OnlineShapes == {OnlinePix("PICKUP")}
OnlineTableShapes == {OnlinePix("DINE_IN")}

(* One order that reserves the coupon and one that uses it at checkout.    *)
MixedShapes == {OnlinePix("PICKUP"), Storefront("PICKUP", "CASH")}

(* One order of any of these shapes.                                       *)
EveryShape == CounterShapes \cup OnlineShapes

(* Bound: an online order, on which the gateway's executions act too, is   *)
(* written less often, seen by one member of staff, and claims nothing.    *)
OnlineVersions == 4
OneOrderBound ==
  (\E o \in Orders : Online(o))' =>
    /\ \A o \in Orders : order'[o].version <= OnlineVersions
    /\ \A u \in Staff \ Managers : seen'[u] = None
    /\ \A o \in Orders : offer'[o] = "NONE" /\ reservation'[o] = "NONE"

(* Gateway executions are interchangeable, and so are order ids.           *)
GatewaySymmetry == Permutations(Gateways)
OrderSymmetry == Permutations(Orders)

=============================================================================
