---------------------------- MODULE OrderWorkflow ----------------------------
(***************************************************************************)
(* The decision tables of the order domain: which status an order may take *)
(* next, which payment operation its payment admits, and what a status     *)
(* read from Mercado Pago asks of the local order.  Pure operators, shared *)
(* by every module that writes an order row.                               *)
(***************************************************************************)

OrderStatuses ==
  {"AWAITING_PAYMENT", "PENDING", "CONFIRMED", "PREPARING", "READY",
   "OUT_FOR_DELIVERY", "DELIVERED", "CANCELLED"}

PaymentStatuses ==
  {"PENDING", "CUSTOMER_REPORTED_PAID", "PAID", "FAILED", "CANCELLED", "REFUNDED"}

Modalities == {"PICKUP", "DELIVERY", "DINE_IN"}
Methods == {"PIX", "CASH", "CARD_ON_DELIVERY", "CARD_IN_PERSON"}

(* What is fixed when an order is placed: how it leaves the store, how it  *)
(* is paid, whether Mercado Pago collects it, whether the till placed it.  *)
Shape == [modality : Modalities, method : Methods, online : BOOLEAN, pos : BOOLEAN]

(* The shapes createOrderOnce and the CHECK on orders let in.              *)
ValidShape(sh) ==
  /\ sh.online => sh.method = "PIX" /\ ~sh.pos
  /\ sh.modality = "DINE_IN" => sh.method # "CARD_ON_DELIVERY"
  /\ (sh.modality = "DINE_IN" /\ sh.method = "PIX") => sh.online \/ sh.pos
  /\ (sh.modality # "DINE_IN" /\ ~sh.pos) => sh.method # "CARD_IN_PERSON"
  /\ sh.pos /\ sh.method = "CARD_ON_DELIVERY" => sh.modality = "DELIVERY"
  /\ sh.pos /\ sh.method = "CARD_IN_PERSON" => sh.modality # "DELIVERY"

(* orders_dine_in_shape_check: the part of the row's CHECK that reads the  *)
(* status columns, evaluated by PostgreSQL on every UPDATE.                *)
RowCheck(sh, st, pay) ==
  sh.modality = "DINE_IN" =>
    /\ st # "OUT_FOR_DELIVERY"
    /\ st = "DELIVERED" => pay = "PAID"

-----------------------------------------------------------------------------
(* Order status.                                                           *)

(* Faulty: anything but a failed payment completes an order.               *)
CompletesUnlessFailed(sh, pay) == pay # "FAILED"

CanCompleteOrder(sh, pay) ==
  IF sh.modality = "DINE_IN" \/ sh.method = "PIX"
  THEN pay = "PAID"
  ELSE pay \in {"PENDING", "PAID"}

ForwardEdges ==
  {<<"PENDING", "CONFIRMED">>, <<"CONFIRMED", "PREPARING">>, <<"PREPARING", "READY">>}

ForwardTransition(sh, st, pay, next) ==
  \/ <<st, next>> \in ForwardEdges
  \/ /\ st = "READY" /\ sh.modality = "DELIVERY"
     /\ next = "OUT_FOR_DELIVERY"
  \/ /\ st = "READY" /\ sh.modality # "DELIVERY"
     /\ next = "DELIVERED" /\ CanCompleteOrder(sh, pay)
  \/ /\ st = "OUT_FOR_DELIVERY"
     /\ next = "DELIVERED" /\ CanCompleteOrder(sh, pay)

CanTransitionOrder(sh, st, pay, next) ==
  /\ st \notin {"AWAITING_PAYMENT", "DELIVERED", "CANCELLED"}
  /\ \/ next = "CANCELLED"
     \/ pay # "REFUNDED" /\ ForwardTransition(sh, st, pay, next)

(* Faulty: a delivery can be undone.                                       *)
ReversibleWithDelivery ==
  {<<"CONFIRMED", "PENDING">>, <<"PREPARING", "CONFIRMED">>, <<"READY", "PREPARING">>,
   <<"OUT_FOR_DELIVERY", "READY">>, <<"DELIVERED", "READY">>}

ReversibleEdges ==
  {<<"CONFIRMED", "PENDING">>, <<"PREPARING", "CONFIRMED">>,
   <<"READY", "PREPARING">>, <<"OUT_FOR_DELIVERY", "READY">>}

(* The outbox event a status change is announced with.                     *)
EventTypeForStatus(st) ==
  IF st = "CONFIRMED" THEN "ORDER_ACCEPTED"
  ELSE IF st = "PREPARING" THEN "ORDER_PREPARING"
  ELSE IF st = "READY" THEN "ORDER_READY"
  ELSE IF st = "OUT_FOR_DELIVERY" THEN "ORDER_DISPATCHED"
  ELSE IF st = "DELIVERED" THEN "ORDER_COMPLETED"
  ELSE "ORDER_CANCELLED"

-----------------------------------------------------------------------------
(* Payment status.                                                         *)

PaymentEdges ==
  {<<"PENDING", "CUSTOMER_REPORTED_PAID">>, <<"PENDING", "PAID">>, <<"PENDING", "CANCELLED">>,
   <<"CUSTOMER_REPORTED_PAID", "PAID">>, <<"CUSTOMER_REPORTED_PAID", "FAILED">>,
   <<"CUSTOMER_REPORTED_PAID", "CANCELLED">>,
   <<"PAID", "REFUNDED">>, <<"FAILED", "PENDING">>, <<"FAILED", "CANCELLED">>}

PaymentOperations ==
  {"REPORT_BY_CUSTOMER", "CONFIRM_MANUALLY", "CONFIRM_ON_COMPLETION",
   "MARK_FAILED", "RETRY_FAILED", "CANCEL", "REFUND"}

OperationTarget(op) ==
  IF op = "REPORT_BY_CUSTOMER" THEN "CUSTOMER_REPORTED_PAID"
  ELSE IF op \in {"CONFIRM_MANUALLY", "CONFIRM_ON_COMPLETION"} THEN "PAID"
  ELSE IF op = "MARK_FAILED" THEN "FAILED"
  ELSE IF op = "RETRY_FAILED" THEN "PENDING"
  ELSE IF op = "CANCEL" THEN "CANCELLED"
  ELSE "REFUNDED"

OperationMatchesMethod(method, st, op) ==
  /\ op \in {"REPORT_BY_CUSTOMER", "MARK_FAILED", "RETRY_FAILED"} => method = "PIX"
  /\ op = "CONFIRM_MANUALLY" => method \in {"PIX", "CASH", "CARD_IN_PERSON"}
  /\ op = "CONFIRM_ON_COMPLETION" =>
       method \in {"CASH", "CARD_ON_DELIVERY"} /\ st \in {"READY", "OUT_FOR_DELIVERY"}

CanTransitionPayment(method, st, pay, op) ==
  /\ <<pay, OperationTarget(op)>> \in PaymentEdges
  /\ st = "CANCELLED" => pay = "PAID"
  /\ OperationMatchesMethod(method, st, op)
  /\ st = "DELIVERED" => op = "REFUND"

-----------------------------------------------------------------------------
(* What a status mapped from Mercado Pago asks of the local order.         *)

(* What the mapper makes of a provider status.  REVIEW is one it does not  *)
(* know, a partial refund among them.                                      *)
ProviderStates ==
  {"PENDING", "PAID", "FAILED", "EXPIRED", "CANCELLED", "REFUNDED", "REVIEW"}

Noop == [kind |-> "NOOP"]
Alert(code) == [kind |-> "ALERT", code |-> code]
Transition(pay, st, reason) ==
  [kind |-> "TRANSITION", pay |-> pay, status |-> st, reason |-> reason]

(* Faulty decisions.  A failed Pix sends the order to the store unpaid; a  *)
(* payment that comes too late is dropped; a refund cancels whatever       *)
(* became of the order.                                                    *)
DecideFallback(pay, st, mapped) ==
  IF mapped \in {"FAILED", "EXPIRED"} /\ st = "AWAITING_PAYMENT"
  THEN Transition("FAILED", "PENDING", "PROVIDER_FAILED") ELSE Noop
DecideSilently(pay, st, mapped) ==
  IF mapped = "PAID" /\ pay = "PENDING" /\ st = "AWAITING_PAYMENT"
  THEN Transition("PAID", "PENDING", "NONE") ELSE Noop

DecideProviderTransition(pay, st, mapped) ==
  LET open == pay = "PENDING" /\ st = "AWAITING_PAYMENT" IN
  IF mapped \in {"PENDING", "REVIEW"} THEN Noop
  ELSE IF pay = "REFUNDED" THEN
    IF mapped = "REFUNDED" THEN Noop ELSE Alert("NON_MONOTONIC_AFTER_REFUND")
  ELSE IF pay = "PAID" THEN
    IF mapped = "PAID" THEN Noop
    ELSE IF mapped = "REFUNDED" THEN Transition("REFUNDED", st, "NONE")
    ELSE Alert("NON_MONOTONIC_AFTER_PAID")
  ELSE IF mapped = "REFUNDED" THEN Alert("REFUND_WITHOUT_PAID")
  ELSE IF mapped = "PAID" THEN
    IF open THEN Transition("PAID", "PENDING", "NONE") ELSE Alert("PAID_AFTER_LOCAL_FINAL_STATE")
  ELSE IF ~open THEN Alert("INCOMPATIBLE_PROVIDER_TRANSITION")
  ELSE IF mapped = "CANCELLED" THEN Transition("CANCELLED", "CANCELLED", "PROVIDER_CANCELLED")
  ELSE IF mapped = "EXPIRED" THEN Transition("FAILED", "CANCELLED", "PROVIDER_EXPIRED")
  ELSE Transition("FAILED", "CANCELLED", "PROVIDER_FAILED")

=============================================================================
