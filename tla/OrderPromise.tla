---------------------------- MODULE OrderPromise ----------------------------
(***************************************************************************)
(* What customers, kitchen and till may see happen to an order, whoever    *)
(* acts and however their transactions interleave: the promise the order   *)
(* lifecycle keeps.                                                        *)
(***************************************************************************)
EXTENDS Naturals

CONSTANTS Orders, None
VARIABLE face   \* status and payment status of every order, None before checkout

Kitchen == <<"PENDING", "CONFIRMED", "PREPARING", "READY", "OUT_FOR_DELIVERY">>
InKitchen(st) == \E i \in 1..5 : Kitchen[i] = st

Shows(o, st, pay) == face' = [face EXCEPT ![o] = [status |-> st, pay |-> pay]]

(* An order appears open and unpaid, or comes accepted from the till.      *)
Appear(o) ==
  /\ face[o] = None
  /\ \/ Shows(o, "AWAITING_PAYMENT", "PENDING")
     \/ Shows(o, "PENDING", "PENDING")
     \/ \E pay \in {"PENDING", "PAID"} : Shows(o, "CONFIRMED", pay)

(* An online order enters the store's queue paid.                          *)
Activate(o) ==
  /\ face[o] = [status |-> "AWAITING_PAYMENT", pay |-> "PENDING"]
  /\ Shows(o, "PENDING", "PAID")

(* One step along the kitchen, either way; money is not touched, and no    *)
(* refunded order is worked on.                                            *)
Work(o) ==
  /\ face[o] # None /\ face[o].pay # "REFUNDED"
  /\ \E i, j \in 1..5 :
       /\ face[o].status = Kitchen[i] /\ (j = i + 1 \/ i = j + 1)
       /\ Shows(o, Kitchen[j], face[o].pay)

(* Delivery ends the order, paid.                                          *)
Deliver(o) ==
  /\ face[o] # None /\ face[o].status \in {"READY", "OUT_FOR_DELIVERY"}
  /\ face[o].pay \in {"PENDING", "PAID"}
  /\ Shows(o, "DELIVERED", "PAID")

(* Cancellation ends it too; money taken is returned first.                *)
Cancel(o) ==
  /\ face[o] # None /\ face[o].status \notin {"DELIVERED", "CANCELLED"}
  /\ face[o].pay # "PAID"
  /\ \E pay \in {"CANCELLED", "FAILED", "REFUNDED"} : 
       /\ (pay = "REFUNDED") <=> (face[o].pay = "REFUNDED")
       /\ Shows(o, "CANCELLED", pay)

(* The payment of a live order moves on its own.  Once delivered it can    *)
(* only be returned.                                                       *)
Settle(o) ==
  /\ face[o] # None
  /\ \E pay \in {"PENDING", "CUSTOMER_REPORTED_PAID", "PAID", "FAILED", "REFUNDED"} :
       /\ (pay = "REFUNDED") <=> (face[o].pay = "PAID")
       /\ pay # "REFUNDED" => InKitchen(face[o].status)
       /\ face[o].pay # "REFUNDED"
       /\ Shows(o, face[o].status, pay)

Init == face = [o \in Orders |-> None]

(* A step that anyone sees.                                                *)
Next == face' # face /\ \E o \in Orders :
  Appear(o) \/ Activate(o) \/ Work(o) \/ Deliver(o) \/ Cancel(o) \/ Settle(o)

Spec == Init /\ [][Next]_face

=============================================================================
