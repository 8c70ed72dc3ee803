--------------------------- MODULE OrderLifecycle ---------------------------
(***************************************************************************)
(* An order from checkout to its end, with everything one database         *)
(* transaction of the application writes beside it: the Payment row, the   *)
(* offer usage, the coupon reservation and counter, the last status        *)
(* history row, the outbox and the provider alerts.                        *)
(*                                                                         *)
(* Actors: customers at checkout, staff with a possibly stale screen, the  *)
(* gateway workers (webhook, tracking page, cron) that talk to Mercado     *)
(* Pago in several steps, and Mercado Pago itself.                         *)
(*                                                                         *)
(* A dashboard transaction is one action: it reads the row, and its        *)
(* compare-and-set on version, status and paymentStatus makes the read and *)
(* the write one step.  A gateway transaction is two, because what it      *)
(* decides comes from a read made before its compare-and-set.              *)
(***************************************************************************)
EXTENDS OrderWorkflow, Naturals, FiniteSets

CONSTANTS
  Orders,         \* order ids the store can hand out
  Staff,          \* dashboard users
  Managers,       \* OWNER and MANAGER: may cancel orders and refund payments
  Gateways,       \* concurrent executions of the Mercado Pago code
  Shapes,         \* the shapes of order this instance explores
  MaxVersion,     \* bound: no order is written beyond this version
  MaxUsages,      \* coupons.maxUsages of the one coupon modelled
  MaxOfferUses,   \* storeOffer.maxTotalUses of the one offer modelled
  None

ASSUME StaffAssumption == Managers \subseteq Staff /\ None \notin Staff
ASSUME ShapesAssumption ==
  Shapes \subseteq {sh \in Shape : ValidShape(sh)} /\ None \notin Shapes
ASSUME NoneAssumption ==
  None \notin Orders /\ None \notin [status : OrderStatuses, pay : PaymentStatuses]
ASSUME BoundsAssumption == MaxVersion \in Nat /\ MaxUsages \in Nat /\ MaxOfferUses \in Nat

VARIABLES
  shape,        \* what checkout fixed, None while the order does not exist
  order,        \* the mutable columns of orders: status, paymentStatus, version
  payment,      \* payments.status
  lastChange,   \* the newest order_status_history row
  offer,        \* store_offer_usages.status
  reservation,  \* coupon_reservations.status
  usageCount,   \* coupons.usageCount
  couponUses,   \* orders with a coupon_usages row
  outbox,       \* order_outbox_events rows
  charge,       \* mercado_pago_payments: creationStatus and providerStatus
  alerts,       \* open payment_provider_alerts
  age,          \* 1: the Pix is overdue (30 min); 2: its reservation lapsed (35 min)
  seen,         \* the row each user's screen shows
  job,          \* what each gateway execution is doing and what it has read
  remote        \* the order as Mercado Pago holds it

orderVars == <<order, payment, lastChange, outbox>>
claimVars == <<offer, reservation, usageCount, couponUses>>
mpVars == <<charge, alerts, age, job, remote>>
vars == <<shape, orderVars, claimVars, mpVars, seen>>

Rows == [status : OrderStatuses, pay : PaymentStatuses, version : 0..MaxVersion]
ClaimStates == {"NONE", "RESERVED", "ACTIVE", "CONSUMED", "RELEASED", "EXPIRED"}
EventTypes ==
  {"ORDER_CREATED", "ORDER_ACCEPTED", "ORDER_PREPARING", "ORDER_READY", "ORDER_DISPATCHED",
   "ORDER_COMPLETED", "ORDER_CANCELLED", "ORDER_TRANSITION_UNDONE", "PAYMENT_UPDATED",
   "ORDER_INTERNAL_NOTE_ADDED"}
AlertCodes ==
  {"NON_MONOTONIC_AFTER_REFUND", "NON_MONOTONIC_AFTER_PAID", "REFUND_WITHOUT_PAID",
   "PAID_AFTER_LOCAL_FINAL_STATE", "INCOMPATIBLE_PROVIDER_TRANSITION", "UNMAPPED_STATUS",
   "ORDER_CREATE_FAILED"}

FinalRemote == ProviderStates \ {"PENDING"}

Placed(o) == shape[o] # None
Online(o) == Placed(o) /\ shape[o].online

Stages == {"IDLE", "CHARGING", "CHARGED", "FETCHED", "SYNC", "EXPIRE", "FAIL"}
Idle == [stage |-> "IDLE", order |-> None, mapped |-> "PENDING", overdue |-> FALSE,
         row |-> None, resv |-> "NONE"]

-----------------------------------------------------------------------------
(* What every writer of an order shares.                                   *)

(* Faulty: the row changes and its version does not.                       *)
WriteOrderUnversioned(o, st, pay) ==
  order' = [order EXCEPT ![o] = [status |-> st, pay |-> pay, version |-> @.version]]

(* The compare-and-set UPDATE on orders, together with the CHECK           *)
(* PostgreSQL evaluates on the new row.                                    *)
WriteOrder(o, st, pay) ==
  /\ order[o].version < MaxVersion
  /\ RowCheck(shape[o], st, pay)
  /\ order' = [order EXCEPT ![o] = [status |-> st, pay |-> pay, version |-> @.version + 1]]

(* Faulty: the order's paymentStatus moves without its payment.            *)
WritePaymentForgotten(o, pay) == payment' = payment

WritePayment(o, pay) == payment' = [payment EXCEPT ![o] = pay]

(* Faulty: the order's id where the author's belongs.                      *)
WriteHistorySwapped(o, st, by, undo) ==
  lastChange' = [lastChange EXCEPT ![o] =
    [from |-> order[o].status, to |-> st, by |-> o, undo |-> undo,
     version |-> order[o].version + 1]]

WriteHistory(o, st, by, undo) ==
  lastChange' = [lastChange EXCEPT ![o] =
    [from |-> order[o].status, to |-> st, by |-> by, undo |-> undo,
     version |-> order[o].version + 1]]

Event(o, type, version, st, pay) ==
  [order |-> o, type |-> type, version |-> version, status |-> st, pay |-> pay]

(* Faulty: the events carry the version that was read; only the payment's  *)
(* event is sent when two are due.                                         *)
AnnounceReadVersion(o, types, st, pay) ==
  outbox' = outbox \cup {Event(o, type, order[o].version, st, pay) : type \in types}
AnnouncePaymentOnly(o, types, st, pay) ==
  outbox' = outbox \cup {Event(o, type, order[o].version + 1, st, pay) :
    type \in IF "PAYMENT_UPDATED" \in types THEN {"PAYMENT_UPDATED"} ELSE types}

Announce(o, types, st, pay) ==
  outbox' = outbox \cup {Event(o, type, order[o].version + 1, st, pay) : type \in types}

(* Faulty: the usage stays reserved.                                       *)
SettleOfferForgotten(o, outcome) == offer' = offer

(* UPDATE store_offer_usages ... WHERE status = 'RESERVED'.                *)
SettleOffer(o, outcome) ==
  offer' = IF offer[o] = "RESERVED" THEN [offer EXCEPT ![o] = outcome] ELSE offer

(* getOrderSnapshot and assertPaymentConsistency.                          *)
Consistent(o) == payment[o] = order[o].pay

(* The version the user's screen shows is still the row's.                 *)
Fresh(u, o) ==
  /\ Placed(o)
  /\ seen[u] # None
  /\ seen[u].order = o
  /\ seen[u].row.version = order[o].version

(* A user opens or refreshes an order.                                     *)
Look(u, o) ==
  /\ Placed(o)
  /\ seen' = [seen EXCEPT ![u] = [order |-> o, row |-> order[o]]]
  /\ UNCHANGED <<shape, orderVars, claimVars, mpVars>>

-----------------------------------------------------------------------------
(* Checkout.                                                               *)

LiveReservations == {o \in Orders : reservation[o] = "ACTIVE" /\ age[o] < 2}
(* Faulty: one use too many.                                               *)
CouponFreeOffByOne == usageCount + Cardinality(LiveReservations) <= MaxUsages
CouponFree == usageCount + Cardinality(LiveReservations) < MaxUsages

OfferHolders == {o \in Orders : offer[o] \in {"RESERVED", "CONSUMED"}}
(* Faulty: one use too many.                                               *)
OfferFreeOffByOne == Cardinality(OfferHolders) <= MaxOfferUses
OfferFree == Cardinality(OfferHolders) < MaxOfferUses

(* The claims createOrderOnce makes in the order's own transaction: an     *)
(* online order only reserves the coupon, any other uses it at once.       *)
ClaimAtCheckout(o, sh, coupon, discounted) ==
  /\ coupon => CouponFree
  /\ discounted => OfferFree
  /\ offer' = IF discounted THEN [offer EXCEPT ![o] = "RESERVED"] ELSE offer
  /\ IF coupon /\ sh.online
     THEN /\ reservation' = [reservation EXCEPT ![o] = "ACTIVE"]
          /\ UNCHANGED <<usageCount, couponUses>>
     ELSE /\ usageCount' = IF coupon THEN usageCount + 1 ELSE usageCount
          /\ couponUses' = IF coupon THEN couponUses \cup {o} ELSE couponUses
          /\ UNCHANGED reservation

Place(o, sh, coupon, discounted) ==
  LET st == IF sh.online THEN "AWAITING_PAYMENT" ELSE "PENDING" IN
  /\ ~Placed(o) /\ ~sh.pos
  /\ ClaimAtCheckout(o, sh, coupon, discounted)
  /\ shape' = [shape EXCEPT ![o] = sh]
  /\ order' = [order EXCEPT ![o] = [status |-> st, pay |-> "PENDING", version |-> 0]]
  /\ payment' = [payment EXCEPT ![o] = "PENDING"]
  /\ lastChange' = [lastChange EXCEPT ![o] =
       [from |-> None, to |-> st, by |-> None, undo |-> FALSE, version |-> 0]]
  /\ outbox' = IF sh.online THEN outbox
               ELSE outbox \cup {Event(o, "ORDER_CREATED", 0, st, "PENDING")}
  /\ UNCHANGED <<mpVars, seen>>

(* The till creates, accepts and, when paid at once, confirms the payment  *)
(* in one transaction.  Creation and acceptance can carry the same         *)
(* timestamp, so either row may sort as the newest of the history.         *)
PlacePos(u, o, sh, coupon, discounted, paidNow) ==
  LET pay == IF paidNow THEN "PAID" ELSE "PENDING"
      version == IF paidNow THEN 2 ELSE 1
  IN
  /\ ~Placed(o) /\ sh.pos /\ version <= MaxVersion
  /\ paidNow => /\ CanTransitionPayment(sh.method, "CONFIRMED", "PENDING", "CONFIRM_MANUALLY")
                /\ sh.modality = "DELIVERY" => sh.method = "PIX"
  /\ ClaimAtCheckout(o, sh, coupon, discounted)
  /\ shape' = [shape EXCEPT ![o] = sh]
  /\ order' = [order EXCEPT ![o] = [status |-> "CONFIRMED", pay |-> pay, version |-> version]]
  /\ payment' = [payment EXCEPT ![o] = pay]
  /\ \E newest \in {[from |-> None, to |-> "PENDING", by |-> u, undo |-> FALSE, version |-> 0],
                    [from |-> "PENDING", to |-> "CONFIRMED", by |-> u, undo |-> FALSE,
                     version |-> 1]} :
       lastChange' = [lastChange EXCEPT ![o] = newest]
  /\ outbox' = outbox
       \cup {Event(o, "ORDER_CREATED", 0, "PENDING", "PENDING"),
             Event(o, "ORDER_ACCEPTED", 1, "CONFIRMED", "PENDING")}
       \cup (IF paidNow THEN {Event(o, "PAYMENT_UPDATED", 2, "CONFIRMED", "PAID")} ELSE {})
  /\ UNCHANGED <<mpVars, seen>>

-----------------------------------------------------------------------------
(* The dashboard: order status.                                            *)

(* acceptOrder .. completeOrder.  Completing an unpaid order that is paid  *)
(* in person also confirms its payment.                                    *)
Advance(u, o, next) ==
  LET sh == shape[o]
      row == order[o]
      onCompletion == /\ next = "DELIVERED" /\ row.pay = "PENDING"
                      /\ sh.modality # "DINE_IN" /\ sh.method # "PIX"
      pay == IF onCompletion THEN "PAID" ELSE row.pay
  IN
  /\ Fresh(u, o) /\ Consistent(o)
  /\ next # "CANCELLED"
  /\ CanTransitionOrder(sh, row.status, row.pay, next)
  /\ onCompletion =>
       CanTransitionPayment(sh.method, row.status, row.pay, "CONFIRM_ON_COMPLETION")
  /\ WriteOrder(o, next, pay)
  /\ WritePayment(o, pay)
  /\ IF next = "DELIVERED" /\ pay = "PAID" THEN SettleOffer(o, "CONSUMED") ELSE UNCHANGED offer
  /\ WriteHistory(o, next, u, FALSE)
  /\ Announce(o, {EventTypeForStatus(next)}
                 \cup (IF onCompletion THEN {"PAYMENT_UPDATED"} ELSE {}), next, pay)
  /\ UNCHANGED <<shape, reservation, usageCount, couponUses, mpVars, seen>>

Cancel(u, o) ==
  LET sh == shape[o]
      row == order[o]
      cancelPayment == row.pay \in {"PENDING", "CUSTOMER_REPORTED_PAID", "FAILED"}
      pay == IF cancelPayment THEN "CANCELLED" ELSE row.pay
  IN
  /\ Fresh(u, o) /\ Consistent(o) /\ u \in Managers
  /\ CanTransitionOrder(sh, row.status, row.pay, "CANCELLED")
  /\ row.pay # "PAID"
  /\ ~sh.online
  /\ cancelPayment => CanTransitionPayment(sh.method, row.status, row.pay, "CANCEL")
  /\ WriteOrder(o, "CANCELLED", pay)
  /\ WritePayment(o, pay)
  /\ SettleOffer(o, "RELEASED")
  /\ reservation' = IF reservation[o] = "ACTIVE"
                    THEN [reservation EXCEPT ![o] = "RELEASED"] ELSE reservation
  /\ WriteHistory(o, "CANCELLED", u, FALSE)
  /\ Announce(o, {"ORDER_CANCELLED"} \cup (IF cancelPayment THEN {"PAYMENT_UPDATED"} ELSE {}),
              "CANCELLED", pay)
  /\ UNCHANGED <<shape, usageCount, couponUses, mpVars, seen>>

(* Faulty: any later write of the order is overlooked.                     *)
UndoableLater(u, o) ==
  LET last == lastChange[o] IN
  /\ <<order[o].status, last.from>> \in ReversibleEdges
  /\ last.to = order[o].status
  /\ last.by = u /\ ~last.undo

(* The newest history row is a forward step of this user's own, and the    *)
(* last thing that happened to the order.                                  *)
Undoable(u, o) ==
  LET last == lastChange[o] IN
  /\ <<order[o].status, last.from>> \in ReversibleEdges
  /\ last.to = order[o].status
  /\ last.by = u /\ ~last.undo
  /\ last.version = order[o].version

(* undoLastOrderTransition.  The two-minute window is a choice: the action *)
(* may simply not be taken.                                                *)
Undo(u, o) ==
  LET back == lastChange[o].from
      pay == order[o].pay
  IN
  /\ Fresh(u, o) /\ Consistent(o) /\ Undoable(u, o)
  /\ WriteOrder(o, back, pay)
  /\ WriteHistory(o, back, u, TRUE)
  /\ Announce(o, {"ORDER_TRANSITION_UNDONE"}, back, pay)
  /\ UNCHANGED <<shape, payment, claimVars, mpVars, seen>>

(* addOrderInternalNote: any status, the version alone is compared.        *)
AddNote(u, o) ==
  /\ Fresh(u, o)
  /\ WriteOrder(o, order[o].status, order[o].pay)
  /\ Announce(o, {"ORDER_INTERNAL_NOTE_ADDED"}, order[o].status, order[o].pay)
  /\ UNCHANGED <<shape, payment, lastChange, claimVars, mpVars, seen>>

-----------------------------------------------------------------------------
(* Payments handled by people.                                             *)

(* transitionPayment: the order's status stays, its version moves.         *)
ChangePayment(o, op) ==
  LET row == order[o] IN
  /\ Placed(o) /\ Consistent(o) /\ ~shape[o].online
  /\ CanTransitionPayment(shape[o].method, row.status, row.pay, op)
  /\ WriteOrder(o, row.status, OperationTarget(op))
  /\ WritePayment(o, OperationTarget(op))
  /\ Announce(o, {"PAYMENT_UPDATED"}, row.status, OperationTarget(op))
  /\ UNCHANGED <<shape, lastChange, claimVars, mpVars, seen>>

ConfirmManualPayment(u, o) ==
  /\ Fresh(u, o) /\ order[o].status # "CANCELLED"
  /\ ChangePayment(o, "CONFIRM_MANUALLY")

MarkPaymentFailed(u, o) == Fresh(u, o) /\ ChangePayment(o, "MARK_FAILED")
RetryFailedPayment(u, o) == Fresh(u, o) /\ ChangePayment(o, "RETRY_FAILED")
RefundPayment(u, o) == Fresh(u, o) /\ u \in Managers /\ ChangePayment(o, "REFUND")

(* The customer's "I have paid" button, reached with the report token only *)
(* a storefront order carries.                                             *)
ReportPayment(o) ==
  /\ Placed(o) /\ ~shape[o].pos /\ shape[o].modality # "DINE_IN"
  /\ ChangePayment(o, "REPORT_BY_CUSTOMER")

-----------------------------------------------------------------------------
(* Mercado Pago: creating the charge.                                      *)

Payable(o) == order[o].status = "AWAITING_PAYMENT" /\ order[o].pay = "PENDING"
                /\ payment[o] = "PENDING"

StartJob(g, o, stage) ==
  /\ job[g].stage = "IDLE"
  /\ job' = [job EXCEPT ![g] = [Idle EXCEPT !.stage = stage, !.order = o]]
Proceed(g, stage) == job' = [job EXCEPT ![g].stage = stage]
FinishJob(g) == job' = [job EXCEPT ![g] = Idle]

(* ensureMercadoPagoPixCreated up to the POST.  A definitive failure wiped *)
(* the payer's e-mail, without which there is no request to send.          *)
StartCharge(g, o) ==
  /\ Online(o) /\ Payable(o)
  /\ charge[o].synced = "NONE" /\ charge[o].creation \in {"PENDING", "RETRYABLE_ERROR"}
  /\ StartJob(g, o, "CHARGING")
  /\ UNCHANGED <<shape, orderVars, claimVars, charge, alerts, age, remote, seen>>

(* The POST reaches Mercado Pago; the idempotency key makes a repeated one *)
(* answer with the same order.                                             *)
ChargeAccepted(g) ==
  LET o == job[g].order IN
  /\ job[g].stage = "CHARGING"
  /\ remote' = [remote EXCEPT ![o] = IF @ = "NONE" THEN "PENDING" ELSE @]
  /\ Proceed(g, "CHARGED")
  /\ UNCHANGED <<shape, orderVars, claimVars, charge, alerts, age, seen>>

(* A timeout, 429 or 5xx: the charge may exist, the creation is retried.   *)
ChargeLost(g) ==
  LET o == job[g].order IN
  /\ job[g].stage = "CHARGING"
  /\ \/ UNCHANGED remote
     \/ remote' = [remote EXCEPT ![o] = IF @ = "NONE" THEN "PENDING" ELSE @]
  /\ charge' = IF charge[o].creation \in {"PENDING", "RETRYABLE_ERROR"}
               THEN [charge EXCEPT ![o].creation = "RETRYABLE_ERROR"] ELSE charge
  /\ FinishJob(g)
  /\ UNCHANGED <<shape, orderVars, claimVars, alerts, age, seen>>

(* A deterministic refusal: the creation failed for good.                  *)
ChargeRefused(g) ==
  /\ job[g].stage = "CHARGING" /\ remote[job[g].order] = "NONE"
  /\ Proceed(g, "EXPIRE")
  /\ UNCHANGED <<shape, orderVars, claimVars, charge, alerts, age, remote, seen>>

(* recordMercadoPagoCreatedOrder: what the POST's response said, whatever  *)
(* another execution has recorded in the meantime.                         *)
RecordCharge(g) ==
  /\ job[g].stage = "CHARGED"
  /\ charge' = [charge EXCEPT ![job[g].order] = [creation |-> "CREATED", synced |-> "PENDING"]]
  /\ FinishJob(g)
  /\ UNCHANGED <<shape, orderVars, claimVars, alerts, age, remote, seen>>

(* failCreation's transaction reads the rows ...                           *)
ReadForFailure(g) ==
  LET o == job[g].order IN
  /\ job[g].stage = "EXPIRE"
  /\ job' = [job EXCEPT ![g].stage = "FAIL", ![g].row = order[o], ![g].resv = reservation[o]]
  /\ UNCHANGED <<shape, orderVars, claimVars, charge, alerts, age, remote, seen>>

(* ... marks the creation failed, and cancels the order if it still is the *)
(* one it read.  When it is not, the transaction commits all the same.     *)
CommitFailure(g) ==
  LET o == job[g].order
      row == job[g].row
      wins == row = order[o] /\ Payable(o)
  IN
  /\ job[g].stage = "FAIL"
  /\ charge' = [charge EXCEPT ![o].creation = "FAILED"]
  /\ IF wins
     THEN /\ WriteOrder(o, "CANCELLED", "FAILED")
          /\ WritePayment(o, "FAILED")
          /\ WriteHistory(o, "CANCELLED", None, FALSE)
          /\ reservation' = IF job[g].resv = "ACTIVE"
                            THEN [reservation EXCEPT ![o] = "RELEASED"] ELSE reservation
          /\ SettleOffer(o, "RELEASED")
          /\ alerts' = alerts \cup {[order |-> o, code |-> "ORDER_CREATE_FAILED"]}
          /\ Announce(o, {"PAYMENT_UPDATED"}, "CANCELLED", "FAILED")
     ELSE UNCHANGED <<orderVars, offer, reservation, alerts>>
  /\ FinishJob(g)
  /\ UNCHANGED <<shape, usageCount, couponUses, age, remote, seen>>

-----------------------------------------------------------------------------
(* Mercado Pago: reading the charge and reconciling it.                    *)

(* The rows the cron selects.                                              *)
Candidate(o) ==
  /\ Online(o) /\ order[o].status = "AWAITING_PAYMENT" /\ payment[o] = "PENDING"
  /\ \/ charge[o].creation \in {"PENDING", "RETRYABLE_ERROR"}
     \/ charge[o].creation = "CREATED" /\ charge[o].synced \notin FinalRemote

Overdue(o) == Candidate(o) /\ age[o] >= 1

(* The cron gives up on a charge that was never recorded.                  *)
StartExpiry(g, o) ==
  /\ Overdue(o) /\ charge[o].synced = "NONE"
  /\ StartJob(g, o, "EXPIRE")
  /\ UNCHANGED <<shape, orderVars, claimVars, charge, alerts, age, remote, seen>>

(* GET /v1/orders/{id}, for a webhook, the tracking page, the cron or the  *)
(* recovery of an ambiguous creation.  Only the cron knows it is overdue.  *)
Fetch(g, o, overdue) ==
  /\ Online(o) /\ remote[o] # "NONE"
  /\ overdue => Overdue(o) /\ charge[o].synced # "NONE"
  /\ job[g].stage = "IDLE"
  /\ job' = [job EXCEPT ![g] = [Idle EXCEPT !.stage = "FETCHED", !.order = o,
                                            !.mapped = remote[o], !.overdue = overdue]]
  /\ UNCHANGED <<shape, orderVars, claimVars, charge, alerts, age, remote, seen>>

(* reconcileMercadoPagoOrder's transaction reads the rows ...              *)
ReadForSync(g) ==
  LET o == job[g].order IN
  /\ job[g].stage = "FETCHED"
  /\ job' = [job EXCEPT ![g].stage = "SYNC", ![g].row = order[o], ![g].resv = reservation[o]]
  /\ UNCHANGED <<shape, orderVars, claimVars, charge, alerts, age, remote, seen>>

Decision(g) ==
  DecideProviderTransition(job[g].row.pay, job[g].row.status, job[g].mapped)

RecordSync(g) ==
  charge' = [charge EXCEPT ![job[g].order] = [creation |-> "CREATED", synced |-> job[g].mapped]]

OpenAlerts == {a \in alerts : a.code # "ORDER_CREATE_FAILED"}

(* ... and, when nothing is to change, records what it saw.                *)
CommitNoted(g) ==
  LET o == job[g].order
      d == Decision(g)
      code == IF d.kind = "ALERT" THEN {d.code}
              ELSE IF job[g].mapped = "REVIEW" THEN {"UNMAPPED_STATUS"} ELSE {}
  IN
  /\ job[g].stage = "SYNC" /\ d.kind # "TRANSITION"
  /\ RecordSync(g)
  /\ alerts' = OpenAlerts \cup {[order |-> o, code |-> c] : c \in code}
  /\ IF job[g].overdue /\ job[g].row.pay = "PENDING"
     THEN job' = [job EXCEPT ![g] = [Idle EXCEPT !.stage = "EXPIRE", !.order = o]]
     ELSE FinishJob(g)
  /\ UNCHANGED <<shape, orderVars, claimVars, age, remote, seen>>

(* A reservation is spent by the payment even if it lapsed meanwhile; the  *)
(* counter's CHECK then refuses a use beyond the coupon's limit.           *)
SpendReservation(o, held, d) ==
  IF d.pay = "PAID" /\ held \notin {"NONE", "CONSUMED"}
  THEN /\ usageCount < MaxUsages
       /\ usageCount' = usageCount + 1
       /\ couponUses' = couponUses \cup {o}
       /\ reservation' = [reservation EXCEPT ![o] = "CONSUMED"]
  ELSE /\ UNCHANGED <<usageCount, couponUses>>
       /\ reservation' = IF d.pay \in {"FAILED", "CANCELLED"} /\ held = "ACTIVE"
                         THEN [reservation EXCEPT ![o] =
                                IF d.reason = "PROVIDER_EXPIRED" THEN "EXPIRED" ELSE "RELEASED"]
                         ELSE reservation

(* The transaction that moves the order.                                   *)
CommitSync(g) ==
  LET o == job[g].order
      d == Decision(g)
  IN
  /\ job[g].stage = "SYNC" /\ d.kind = "TRANSITION"
  /\ job[g].row = order[o]
  /\ WriteOrder(o, d.status, d.pay)
  /\ WritePayment(o, d.pay)
  /\ IF d.status # order[o].status
     THEN WriteHistory(o, d.status, None, FALSE) ELSE UNCHANGED lastChange
  /\ SpendReservation(o, job[g].resv, d)
  /\ IF d.pay \in {"FAILED", "CANCELLED"}
     THEN SettleOffer(o, IF d.reason = "PROVIDER_EXPIRED" THEN "EXPIRED" ELSE "RELEASED")
     ELSE UNCHANGED offer
  /\ Announce(o, {"PAYMENT_UPDATED"}
                 \cup (IF order[o].status = "AWAITING_PAYMENT" /\ d.status = "PENDING"
                       THEN {"ORDER_CREATED"} ELSE {}), d.status, d.pay)
  /\ RecordSync(g)
  /\ alerts' = OpenAlerts
  /\ FinishJob(g)
  /\ UNCHANGED <<shape, age, remote, seen>>

(* A lost compare-and-set, a refused CHECK, a crash or the end of the      *)
(* worker's time: the open transaction leaves nothing behind.              *)
Abandon(g) ==
  /\ job[g].stage # "IDLE"
  /\ FinishJob(g)
  /\ UNCHANGED <<shape, orderVars, claimVars, charge, alerts, age, remote, seen>>

(* The cron's last statement: every lapsed reservation of an order still   *)
(* waiting for its payment.                                                *)
ExpireReservations ==
  LET lapsed == {o \in Orders : reservation[o] = "ACTIVE" /\ age[o] = 2
                                /\ order[o].status = "AWAITING_PAYMENT"
                                /\ order[o].pay = "PENDING"}
  IN
  /\ lapsed # {}
  /\ reservation' = [o \in Orders |-> IF o \in lapsed THEN "EXPIRED" ELSE reservation[o]]
  /\ UNCHANGED <<shape, orderVars, offer, usageCount, couponUses, mpVars, seen>>

-----------------------------------------------------------------------------
(* The clock and Mercado Pago.                                             *)

Tick(o) ==
  /\ Online(o) /\ age[o] < 2
  /\ age' = [age EXCEPT ![o] = @ + 1]
  /\ UNCHANGED <<shape, orderVars, claimVars, charge, alerts, job, remote, seen>>

RemoteSteps ==
  {<<"PENDING", st>> : st \in {"PAID", "FAILED", "EXPIRED", "CANCELLED"}}
    \cup {<<"PAID", "REFUNDED">>, <<"PAID", "REVIEW">>, <<"REVIEW", "REFUNDED">>}

RemoteMoves(o, st) ==
  /\ <<remote[o], st>> \in RemoteSteps
  /\ remote' = [remote EXCEPT ![o] = st]
  /\ UNCHANGED <<shape, orderVars, claimVars, charge, alerts, age, job, seen>>

-----------------------------------------------------------------------------
Init ==
  /\ shape = [o \in Orders |-> None]
  /\ order = [o \in Orders |-> [status |-> "PENDING", pay |-> "PENDING", version |-> 0]]
  /\ payment = [o \in Orders |-> "PENDING"]
  /\ lastChange = [o \in Orders |->
       [from |-> None, to |-> "PENDING", by |-> None, undo |-> FALSE, version |-> 0]]
  /\ offer = [o \in Orders |-> "NONE"]
  /\ reservation = [o \in Orders |-> "NONE"]
  /\ usageCount = 0
  /\ couponUses = {}
  /\ outbox = {}
  /\ charge = [o \in Orders |-> [creation |-> "PENDING", synced |-> "NONE"]]
  /\ alerts = {}
  /\ age = [o \in Orders |-> 0]
  /\ seen = [u \in Staff |-> None]
  /\ job = [g \in Gateways |-> Idle]
  /\ remote = [o \in Orders |-> "NONE"]

Checkout ==
  \E o \in {n \in Orders : ~Placed(n)}, sh \in Shapes, coupon, discounted \in BOOLEAN :
    \/ Place(o, sh, coupon, discounted)
    \/ \E u \in Staff, paidNow \in BOOLEAN : PlacePos(u, o, sh, coupon, discounted, paidNow)

Dashboard ==
  \E u \in Staff, o \in Orders :
    \/ Look(u, o)
    \/ \E next \in OrderStatuses : Advance(u, o, next)
    \/ Cancel(u, o)
    \/ Undo(u, o)
    \/ AddNote(u, o)
    \/ ConfirmManualPayment(u, o)
    \/ MarkPaymentFailed(u, o)
    \/ RetryFailedPayment(u, o)
    \/ RefundPayment(u, o)

Gateway ==
  \E g \in Gateways :
    \/ \E o \in Orders : StartCharge(g, o) \/ StartExpiry(g, o)
    \/ \E o \in Orders, overdue \in BOOLEAN : Fetch(g, o, overdue)
    \/ ChargeAccepted(g) \/ ChargeLost(g) \/ ChargeRefused(g) \/ RecordCharge(g)
    \/ ReadForFailure(g) \/ CommitFailure(g)
    \/ ReadForSync(g) \/ CommitNoted(g) \/ CommitSync(g)
    \/ Abandon(g)

Environment ==
  \/ ExpireReservations
  \/ \E o \in Orders : ReportPayment(o) \/ Tick(o)
  \/ \E o \in Orders, st \in ProviderStates : RemoteMoves(o, st)

Next == Checkout \/ Dashboard \/ Gateway \/ Environment

Spec == Init /\ [][Next]_vars

-----------------------------------------------------------------------------
(* Properties.                                                             *)

Snapshots == [order : Orders, row : Rows]
Jobs == [stage : Stages, order : Orders \cup {None}, mapped : ProviderStates,
         overdue : BOOLEAN, row : Rows \cup {None}, resv : ClaimStates]

OrdersTypeOK ==
  /\ shape \in [Orders -> Shapes \cup {None}]
  /\ order \in [Orders -> Rows]
  /\ payment \in [Orders -> PaymentStatuses]
  /\ lastChange \in [Orders -> [from : OrderStatuses \cup {None}, to : OrderStatuses,
                                by : Staff \cup {None}, undo : BOOLEAN,
                                version : 0..MaxVersion]]
  /\ outbox \subseteq [order : Orders, type : EventTypes, version : 0..MaxVersion,
                       status : OrderStatuses, pay : PaymentStatuses]

ClaimsTypeOK ==
  /\ offer \in [Orders -> ClaimStates]
  /\ reservation \in [Orders -> ClaimStates]
  /\ usageCount \in Nat
  /\ couponUses \subseteq Orders

ProviderTypeOK ==
  /\ charge \in [Orders -> [creation : {"PENDING", "CREATED", "RETRYABLE_ERROR", "FAILED"},
                            synced : ProviderStates \cup {"NONE"}]]
  /\ alerts \subseteq [order : Orders, code : AlertCodes]
  /\ age \in [Orders -> 0..2]
  /\ remote \in [Orders -> ProviderStates \cup {"NONE"}]

ActorsTypeOK ==
  /\ seen \in [Staff -> Snapshots \cup {None}]
  /\ job \in [Gateways -> Jobs]
  /\ \A g \in Gateways :
       /\ job[g].stage # "IDLE" => job[g].order \in Orders
       /\ job[g].stage \in {"SYNC", "FAIL"} => job[g].row \in Rows

(* Every variable holds what its column can hold, and a gateway execution  *)
(* that works has an order, and a row once it has read one.                *)
TypeOK == OrdersTypeOK /\ ClaimsTypeOK /\ ProviderTypeOK /\ ActorsTypeOK

(* The rule the deferred constraint trigger enforces at every commit: an   *)
(* order's paymentStatus and its payment's status never differ.  The model *)
(* has no such trigger, so this shows that no writer ever relies on it.    *)
PaymentRowAgrees == \A o \in Orders : Placed(o) => payment[o] = order[o].pay

(* What makes "expectedVersion" enough: a screen or an open transaction    *)
(* that holds the current version of an order holds its current status and *)
(* payment status.  No writer changes a row without moving its version.    *)
VersionPinsRow ==
  /\ \A u \in Staff : seen[u] # None =>
       LET o == seen[u].order IN
       /\ seen[u].row.version <= order[o].version
       /\ seen[u].row.version = order[o].version => seen[u].row = order[o]
  /\ \A g \in Gateways : job[g].stage \in {"SYNC", "FAIL"} =>
       LET o == job[g].order IN
       /\ job[g].row.version <= order[o].version
       /\ job[g].row.version = order[o].version => job[g].row = order[o]

(* Status and payment of an order, whoever wrote them last: what is        *)
(* delivered was paid, a paid order is never cancelled, a payment is       *)
(* cancelled only with its order, and an order that waits for its Pix is   *)
(* an online one whose payment is open.                                    *)
StatusAgreesWithPayment ==
  \A o \in Orders : Placed(o) =>
    LET st == order[o].status
        pay == order[o].pay
    IN
    /\ st = "DELIVERED" => pay \in {"PAID", "REFUNDED"}
    /\ st = "CANCELLED" => pay \in {"CANCELLED", "FAILED", "REFUNDED"}
    /\ pay = "CANCELLED" => st = "CANCELLED"
    /\ st = "AWAITING_PAYMENT" => shape[o].online /\ pay = "PENDING"

(* No online order reaches the kitchen before Mercado Pago confirmed its   *)
(* Pix, and none is worked on while unpaid.                                *)
OnlinePaidBeforeKitchen ==
  \A o \in Orders :
    (Online(o) /\ order[o].status \notin {"AWAITING_PAYMENT", "CANCELLED"})
      => order[o].pay \in {"PAID", "REFUNDED"}

(* Every version of an order was announced, and the events of its current  *)
(* version carry its current status and payment: a consumer that applies   *)
(* the outbox in version order ends with the row.  An online order is      *)
(* silent at version 0.                                                    *)
OutboxCoversHistory ==
  \A o \in Orders : Placed(o) =>
    LET mine == {e \in outbox : e.order = o}
        row == order[o]
    IN
    /\ \A v \in (IF shape[o].online THEN 1 ELSE 0)..row.version : \E e \in mine : e.version = v
    /\ \A e \in mine :
         /\ e.version <= row.version
         /\ e.version = row.version => e.status = row.status /\ e.pay = row.pay

(* The store hears of an order exactly once, when it can be worked on: at  *)
(* checkout, or for an online order when its payment is confirmed and not  *)
(* before, and no event about working on it precedes that one.             *)
CreatedAnnouncedOnce ==
  \A o \in Orders : Placed(o) =>
    LET created == {e \in outbox : e.order = o /\ e.type = "ORDER_CREATED"}
        worked == {e \in outbox : e.order = o /\ e.type \notin
                    {"ORDER_CREATED", "PAYMENT_UPDATED", "ORDER_INTERNAL_NOTE_ADDED"}}
        actionable == ~shape[o].online \/ order[o].pay \in {"PAID", "REFUNDED"}
    IN
    /\ Cardinality(created) = (IF actionable THEN 1 ELSE 0)
    /\ \A w \in worked : \E c \in created : c.version < w.version

(* What an order holds of a limited offer or coupon is settled when the    *)
(* order is: a cancelled order gives back what it reserved, a delivered    *)
(* one has spent it, a paid online order has spent its coupon.             *)
ClaimsSettled ==
  \A o \in Orders : Placed(o) =>
    /\ order[o].status = "CANCELLED" =>
         offer[o] \in {"NONE", "RELEASED", "EXPIRED"} /\ reservation[o] \notin {"ACTIVE", "CONSUMED"}
    /\ order[o].status = "DELIVERED" => offer[o] \in {"NONE", "CONSUMED"}
    /\ order[o].status \notin {"DELIVERED", "CANCELLED"} => offer[o] \in {"NONE", "RESERVED"}
    /\ (Online(o) /\ order[o].pay \in {"PAID", "REFUNDED"}) =>
         reservation[o] \in {"NONE", "CONSUMED"}

(* The coupon's counter is the number of its uses and stays within its     *)
(* limit, and an online order used it exactly if it spent its reservation. *)
CouponLedger ==
  /\ usageCount = Cardinality(couponUses) /\ usageCount <= MaxUsages
  /\ \A o \in Orders : Online(o) => (o \in couponUses <=> reservation[o] = "CONSUMED")

(* A limited offer is never granted more often than its limit.             *)
OfferLimit == Cardinality(OfferHolders) <= MaxOfferUses

(* Uses that are limited are taken by checkouts at once, by approvals of   *)
(* Pix and by reservations that run out: the books stay true and within    *)
(* the limits.                                                             *)
LimitsHeld == CouponLedger /\ OfferLimit

(* Money the application has seen at Mercado Pago and its order row does   *)
(* not reflect has an open alert: it is never dropped in silence.          *)
NoSilentDivergence ==
  \A o \in Orders :
    LET alerted == \E a \in alerts : a.order = o IN
    /\ (charge[o].synced = "PAID" /\ order[o].pay \notin {"PAID", "REFUNDED"}) => alerted
    /\ (charge[o].synced = "REFUNDED" /\ order[o].pay # "REFUNDED") => alerted

(* A step that takes a status back is the undo of the very last status     *)
(* change, and keeps the payment as it was.                                *)
Backward == [][\A o \in Orders :
  <<order[o].status, order'[o].status>> \in ReversibleEdges =>
    /\ order'[o].pay = order[o].pay /\ payment'[o] = payment[o]
    /\ lastChange[o].version = order[o].version
    /\ order'[o].status = lastChange[o].from /\ lastChange[o].by = lastChange'[o].by
    /\ ~lastChange[o].undo]_vars

(* The lifecycle implements OrderPromise: seen as status and payment       *)
(* alone, every step of every actor is one of the steps promised there.    *)
face == [o \in Orders |-> IF Placed(o)
                          THEN [status |-> order[o].status, pay |-> order[o].pay] ELSE None]
Promise == INSTANCE OrderPromise
PromiseKept == Promise!Spec

-----------------------------------------------------------------------------
(* What the documentation says and some states contradict.                 *)

(* "Full refund from PAID": a payment that may be refunded can be, whatever *)
(* the order's modality.  The refund of a delivered table order writes a   *)
(* row the CHECK on orders refuses.                                        *)
AdmittedRefundIsWritable ==
  \A o \in Orders :
    (Placed(o) /\ CanTransitionPayment(shape[o].method, order[o].status, order[o].pay, "REFUND"))
      => RowCheck(shape[o], order[o].status, "REFUNDED")

(* "The cron expires overdue Pix": an overdue order whose Pix was never    *)
(* taken past PENDING by the provider is among the rows the cron selects.  *)
OverduePixIsSelected ==
  \A o \in Orders :
    (Online(o) /\ order[o].status = "AWAITING_PAYMENT" /\ age[o] >= 1
       /\ remote[o] \in {"NONE", "PENDING"}) => Candidate(o)

(* "An approved payment consumes the reservation": when a gateway is about *)
(* to record an approved payment, the coupon still has room for its use.   *)
ApprovedPaymentSpendsReservation ==
  \A g \in Gateways :
    (/\ job[g].stage = "SYNC" /\ job[g].mapped = "PAID"
     /\ job[g].row = order[job[g].order] /\ Payable(job[g].order)
     /\ job[g].resv # "NONE") => usageCount < MaxUsages

=============================================================================
