------------------------- MODULE OrderLifecycleProofs -------------------------
(***************************************************************************)
(* Safety of OrderLifecycle, for any sets of orders, users, gateway        *)
(* executions and shapes, and any bounds.                                  *)
(*                                                                         *)
(* What each building block of a transaction writes gives the type of every*)
(* variable. RowStep says, once and for every action of every actor, what  *)
(* a step can do to order rows: it touches at most one order, and moves its*)
(* status and payment in one of eight ways. The invariants about rows then *)
(* follow from those eight ways alone.                                     *)
(*                                                                         *)
(* EventStep says as much of the events that go with the write of a row;   *)
(* that the outbox covers every version and that an order is announced     *)
(* exactly once follow without looking at actions. ClaimStep says it of the*)
(* claims of orders. Money at Mercado Pago that an order row does not      *)
(* reflect has an open alert, even though every reconciliation of any order*)
(* resolves the store's alerts of failed creations.                        *)
(***************************************************************************)
EXTENDS OrderLifecycle, Integers, FiniteSetTheorems, TLAPS

-----------------------------------------------------------------------------
(* Types: what the building blocks of a writer produce, then every         *)
(* action.                                                                 *)

(* What the building blocks of a writer produce.                           *)

(* A write that passes its guards produces a row of the table, and the     *)
(* version its history row and events carry is within bounds.              *)
LEMMA WriteOrderType ==
  ASSUME OrdersTypeOK, NEW o \in Orders, NEW st \in OrderStatuses, NEW pay \in PaymentStatuses,
         WriteOrder(o, st, pay)
  PROVE  /\ order' \in [Orders -> Rows]
         /\ order[o].version + 1 \in 0..MaxVersion
BY BoundsAssumption, SMT DEF OrdersTypeOK, WriteOrder, Rows

(* The row of the payment keeps its type when a writer sets its status.    *)
LEMMA WritePaymentType ==
  ASSUME OrdersTypeOK, NEW o \in Orders, NEW pay \in PaymentStatuses, WritePayment(o, pay)
  PROVE  payment' \in [Orders -> PaymentStatuses]
BY DEF OrdersTypeOK, WritePayment

HistoryRows == [from : OrderStatuses \cup {None}, to : OrderStatuses, by : Staff \cup {None},
                undo : BOOLEAN, version : 0..MaxVersion]

(* The last row of the history keeps its type when a writer adds one.      *)
LEMMA WriteHistoryType ==
  ASSUME OrdersTypeOK, NEW o \in Orders, NEW st \in OrderStatuses,
         NEW by \in Staff \cup {None}, NEW undo \in BOOLEAN,
         order[o].version + 1 \in 0..MaxVersion, WriteHistory(o, st, by, undo)
  PROVE  lastChange' \in [Orders -> HistoryRows]
<1>1. [from |-> order[o].status, to |-> st, by |-> by, undo |-> undo,
       version |-> order[o].version + 1] \in HistoryRows
  BY DEF OrdersTypeOK, HistoryRows, Rows
<1> QED
  BY <1>1 DEF OrdersTypeOK, WriteHistory, HistoryRows

Events == [order : Orders, type : EventTypes, version : 0..MaxVersion,
           status : OrderStatuses, pay : PaymentStatuses]

(* The rows a writer adds to the outbox are events.                        *)
LEMMA AnnounceType ==
  ASSUME OrdersTypeOK, NEW o \in Orders, NEW st \in OrderStatuses, NEW pay \in PaymentStatuses,
         NEW types \in SUBSET EventTypes,
         order[o].version + 1 \in 0..MaxVersion, Announce(o, types, st, pay)
  PROVE  outbox' \subseteq Events
<1>1. \A type \in types : Event(o, type, order[o].version + 1, st, pay) \in Events
  BY DEF Events, Event
<1> QED
  BY <1>1 DEF OrdersTypeOK, Announce, Events

(* Whatever the provider's status and the order's state, a transition asks *)
(* for statuses that exist, and an alert for a code that does.             *)
LEMMA DecisionType ==
  ASSUME NEW pay \in PaymentStatuses, NEW st \in OrderStatuses, NEW mapped \in ProviderStates
  PROVE  LET d == DecideProviderTransition(pay, st, mapped) IN
         /\ d.kind \in {"NOOP", "ALERT", "TRANSITION"}
         /\ d.kind = "ALERT" => d.code \in AlertCodes
         /\ d.kind = "TRANSITION" =>
              /\ d.pay \in PaymentStatuses /\ d.status \in OrderStatuses
              /\ \/ /\ pay = "PENDING" /\ st = "AWAITING_PAYMENT"
                    /\ d.status = "PENDING" /\ d.pay = "PAID"
                 \/ /\ pay = "PENDING" /\ st = "AWAITING_PAYMENT"
                    /\ d.status = "CANCELLED" /\ d.pay \in {"FAILED", "CANCELLED"}
                 \/ /\ pay = "PAID" /\ d.status = st /\ d.pay = "REFUNDED"
BY SMTT(60) DEF DecideProviderTransition, PaymentStatuses, OrderStatuses, ProviderStates, AlertCodes,
   Noop, Alert, Transition

(* An operation on a payment leads to a status of payments.                *)
LEMMA OperationTargetType ==
  ASSUME NEW op \in PaymentOperations
  PROVE  OperationTarget(op) \in PaymentStatuses
BY DEF OperationTarget, PaymentOperations, PaymentStatuses

(* The event that names a status is an event.                              *)
LEMMA EventTypeForStatusType ==
  ASSUME NEW st
  PROVE  EventTypeForStatus(st) \in EventTypes
BY DEF EventTypeForStatus, EventTypes

(* Settling an offer's claim leaves a claim in one of its states.          *)
LEMMA SettleOfferType ==
  ASSUME ClaimsTypeOK, NEW o \in Orders, NEW outcome \in ClaimStates, SettleOffer(o, outcome)
  PROVE  offer' \in [Orders -> ClaimStates]
BY DEF ClaimsTypeOK, SettleOffer

(* What a checkout claims of a coupon and of an offer keeps the types.     *)
LEMMA ClaimAtCheckoutType ==
  ASSUME ClaimsTypeOK, NEW o \in Orders, NEW sh, NEW coupon, NEW discounted,
         ClaimAtCheckout(o, sh, coupon, discounted)
  PROVE  ClaimsTypeOK'
<1>1. offer' \in [Orders -> ClaimStates]
  BY DEF ClaimsTypeOK, ClaimAtCheckout, ClaimStates
<1>2. reservation' \in [Orders -> ClaimStates]
  BY DEF ClaimsTypeOK, ClaimAtCheckout, ClaimStates
<1>3. usageCount' \in Nat
  BY DEF ClaimsTypeOK, ClaimAtCheckout
<1>4. couponUses' \subseteq Orders
  BY DEF ClaimsTypeOK, ClaimAtCheckout
<1> QED
  BY <1>1, <1>2, <1>3, <1>4 DEF ClaimsTypeOK

(* The parts of the state most steps leave alone.                          *)
LEMMA OrdersKept ==
  ASSUME OrdersTypeOK, UNCHANGED <<shape, orderVars>>
  PROVE  OrdersTypeOK'
BY DEF OrdersTypeOK, orderVars

(* Steps that touch no claim keep the types of claims.                     *)
LEMMA ClaimsKept ==
  ASSUME ClaimsTypeOK, UNCHANGED claimVars
  PROVE  ClaimsTypeOK'
BY DEF ClaimsTypeOK, claimVars

(* Steps that touch nothing of the provider keep its types.                *)
LEMMA ProviderKept ==
  ASSUME ProviderTypeOK, UNCHANGED <<charge, alerts, age, remote>>
  PROVE  ProviderTypeOK'
BY DEF ProviderTypeOK

(* Steps that touch no screen and no job keep the types of both.           *)
LEMMA ActorsKept ==
  ASSUME ActorsTypeOK, UNCHANGED <<seen, job>>
  PROVE  ActorsTypeOK'
BY DEF ActorsTypeOK

(* Every writer of an existing order writes a row, a payment and events,   *)
(* and a history row when the status moves.                                *)
LEMMA WriterType ==
  ASSUME OrdersTypeOK, NEW o \in Orders,
         NEW st \in OrderStatuses, NEW pay \in PaymentStatuses,
         NEW types \in SUBSET EventTypes, NEW by \in Staff \cup {None}, NEW undo \in BOOLEAN,
         WriteOrder(o, st, pay),
         WritePayment(o, pay) \/ UNCHANGED payment,
         WriteHistory(o, st, by, undo) \/ UNCHANGED lastChange,
         Announce(o, types, st, pay),
         UNCHANGED shape
  PROVE  OrdersTypeOK'
<1>1. order' \in [Orders -> Rows] /\ order[o].version + 1 \in 0..MaxVersion
  BY WriteOrderType
<1>2. payment' \in [Orders -> PaymentStatuses]
  BY WritePaymentType DEF OrdersTypeOK
<1>3. lastChange' \in [Orders -> HistoryRows]
  <2>1. CASE WriteHistory(o, st, by, undo)
    BY <1>1, <2>1, WriteHistoryType
  <2>2. CASE UNCHANGED lastChange
    BY <2>2 DEF OrdersTypeOK, HistoryRows
  <2> QED  BY <2>1, <2>2
<1>4. outbox' \subseteq Events
  BY <1>1, AnnounceType
<1> QED
  BY <1>1, <1>2, <1>3, <1>4 DEF OrdersTypeOK, HistoryRows, Events

(* A gateway execution takes a next state that makes sense.                *)
LEMMA JobType ==
  ASSUME ActorsTypeOK, NEW g \in Gateways, NEW next \in Jobs,
         next.stage # "IDLE" => next.order \in Orders,
         next.stage \in {"SYNC", "FAIL"} => next.row \in Rows,
         job' = [job EXCEPT ![g] = next], UNCHANGED seen
  PROVE  ActorsTypeOK'
BY DEF ActorsTypeOK

(* A gateway whose job is over is idle.                                    *)
LEMMA FinishJobType ==
  ASSUME ActorsTypeOK, NEW g \in Gateways, FinishJob(g), UNCHANGED seen
  PROVE  ActorsTypeOK'
<1>1. Idle \in Jobs
  BY DEF Idle, Jobs, Stages, ProviderStates, ClaimStates
<1>2. Idle.stage = "IDLE"
  BY DEF Idle
<1> QED
  BY <1>1, <1>2, JobType DEF FinishJob

(* A gateway that takes up an order has a job of the right type.           *)
LEMMA StartJobType ==
  ASSUME ActorsTypeOK, NEW g \in Gateways, NEW o \in Orders, NEW stage \in {"CHARGING", "EXPIRE"},
         job' = [job EXCEPT ![g] = [Idle EXCEPT !.stage = stage, !.order = o]], UNCHANGED seen
  PROVE  ActorsTypeOK'
<1> DEFINE next == [Idle EXCEPT !.stage = stage, !.order = o]
<1>1. next \in Jobs /\ next.stage = stage /\ next.order = o
  BY DEF Idle, Jobs, Stages, ProviderStates, ClaimStates
<1> HIDE DEF next
<1> QED
  BY <1>1, JobType DEF next

(* A job that goes on to its next stage keeps its type.                    *)
LEMMA ProceedType ==
  ASSUME ActorsTypeOK, NEW g \in Gateways, NEW stage \in {"CHARGED", "EXPIRE"},
         job[g].stage # "IDLE", Proceed(g, stage), UNCHANGED seen
  PROVE  ActorsTypeOK'
<1> DEFINE next == [job[g] EXCEPT !.stage = stage]
<1>1. next \in Jobs /\ next.stage = stage /\ next.order \in Orders
  BY DEF ActorsTypeOK, Jobs, Stages
<1>2. job' = [job EXCEPT ![g] = next]
  BY DEF Proceed, ActorsTypeOK
<1> HIDE DEF next
<1> QED
  BY <1>1, <1>2, JobType

(* A job that has read the row and the reservation of its order keeps its  *)
(* type.                                                                   *)
LEMMA ReadType ==
  ASSUME OrdersTypeOK, ClaimsTypeOK, ActorsTypeOK,
         NEW g \in Gateways, NEW stage \in {"SYNC", "FAIL"}, job[g].stage # "IDLE",
         job' = [job EXCEPT ![g].stage = stage, ![g].row = order[job[g].order],
                            ![g].resv = reservation[job[g].order]],
         UNCHANGED seen
  PROVE  ActorsTypeOK'
<1> DEFINE o == job[g].order
           next == [job[g] EXCEPT !.stage = stage, !.row = order[o], !.resv = reservation[o]]
<1>1. o \in Orders /\ order[o] \in Rows /\ reservation[o] \in ClaimStates
  BY DEF OrdersTypeOK, ClaimsTypeOK, ActorsTypeOK
<1>2. next \in Jobs /\ next.order = o /\ next.row = order[o]
  BY <1>1 DEF ActorsTypeOK, Jobs, Stages
<1>3. job' = [job EXCEPT ![g] = next]
  BY DEF ActorsTypeOK
<1> HIDE DEF next
<1> QED
  BY <1>1, <1>2, <1>3, JobType

-----------------------------------------------------------------------------
(* Every action preserves the types.                                       *)

(* Placing an order, in the storefront or at the till, keeps all types.    *)
LEMMA CheckoutType ==
  ASSUME TypeOK, NEW o \in Orders, NEW sh \in Shapes, NEW coupon \in BOOLEAN,
         NEW discounted \in BOOLEAN,
         \/ Place(o, sh, coupon, discounted)
         \/ \E u \in Staff, paidNow \in BOOLEAN : PlacePos(u, o, sh, coupon, discounted, paidNow)
  PROVE  TypeOK'
<1> USE DEF TypeOK
<1>1. CASE Place(o, sh, coupon, discounted)
  <2>1. shape' \in [Orders -> Shapes \cup {None}] /\ payment' \in [Orders -> PaymentStatuses]
    BY <1>1 DEF Place, OrdersTypeOK, PaymentStatuses
  <2>2. order' \in [Orders -> Rows]
    BY <1>1, BoundsAssumption DEF Place, OrdersTypeOK, Rows, OrderStatuses, PaymentStatuses
  <2>3. lastChange' \in [Orders -> HistoryRows]
    BY <1>1, BoundsAssumption DEF Place, OrdersTypeOK, HistoryRows, OrderStatuses
  <2>4. outbox' \subseteq Events
    BY <1>1, BoundsAssumption
    DEF Place, OrdersTypeOK, Events, Event, EventTypes, OrderStatuses, PaymentStatuses
  <2>5. OrdersTypeOK'
    BY <2>1, <2>2, <2>3, <2>4 DEF OrdersTypeOK, HistoryRows, Events
  <2>6. ClaimsTypeOK'
    BY <1>1, ClaimAtCheckoutType DEF Place
  <2>7. ProviderTypeOK' /\ ActorsTypeOK'
    BY <1>1, ProviderKept, ActorsKept DEF Place, mpVars
  <2> QED  BY <2>5, <2>6, <2>7
<1>2. ASSUME NEW u \in Staff, NEW paidNow \in BOOLEAN,
             PlacePos(u, o, sh, coupon, discounted, paidNow)
      PROVE  TypeOK'
  <2> DEFINE pay == IF paidNow THEN "PAID" ELSE "PENDING"
             version == IF paidNow THEN 2 ELSE 1
  <2>1. shape' \in [Orders -> Shapes \cup {None}] /\ payment' \in [Orders -> PaymentStatuses]
    BY <1>2 DEF PlacePos, OrdersTypeOK, PaymentStatuses
  <2>2. version \in 0..MaxVersion /\ 1 \in 0..MaxVersion /\ 0 \in 0..MaxVersion
    BY <1>2, BoundsAssumption DEF PlacePos
  <2>3. order' \in [Orders -> Rows]
    BY <1>2, <2>2 DEF PlacePos, OrdersTypeOK, Rows, OrderStatuses, PaymentStatuses
  <2>4. lastChange' \in [Orders -> HistoryRows]
    <3> DEFINE placed == [from |-> None, to |-> "PENDING", by |-> u, undo |-> FALSE, version |-> 0]
               accepted == [from |-> "PENDING", to |-> "CONFIRMED", by |-> u, undo |-> FALSE,
                            version |-> 1]
    <3>1. PICK newest \in {placed, accepted} : lastChange' = [lastChange EXCEPT ![o] = newest]
      BY <1>2 DEF PlacePos
    <3>2. placed \in HistoryRows /\ accepted \in HistoryRows
      BY <2>2 DEF HistoryRows, OrderStatuses
    <3> HIDE DEF placed, accepted
    <3> QED
      BY <3>1, <3>2 DEF OrdersTypeOK, HistoryRows
  <2>5. outbox' \subseteq Events
    <3>1. /\ Event(o, "ORDER_CREATED", 0, "PENDING", "PENDING") \in Events
          /\ Event(o, "ORDER_ACCEPTED", 1, "CONFIRMED", "PENDING") \in Events
          /\ paidNow => Event(o, "PAYMENT_UPDATED", 2, "CONFIRMED", "PAID") \in Events
      BY <2>2 DEF Events, Event, EventTypes, OrderStatuses, PaymentStatuses
    <3>2. outbox \subseteq Events
      BY DEF OrdersTypeOK, Events
    <3> QED
      BY <1>2, <3>1, <3>2 DEF PlacePos
  <2>6. OrdersTypeOK'
    BY <2>1, <2>3, <2>4, <2>5 DEF OrdersTypeOK, HistoryRows, Events
  <2>7. ClaimsTypeOK'
    BY <1>2, ClaimAtCheckoutType DEF PlacePos
  <2>8. ProviderTypeOK' /\ ActorsTypeOK'
    BY <1>2, ProviderKept, ActorsKept DEF PlacePos, mpVars
  <2> QED  BY <2>6, <2>7, <2>8
<1> QED
  BY <1>1, <1>2

(* Advancing an order keeps all types.                                     *)
LEMMA AdvanceType ==
  ASSUME TypeOK, NEW u \in Staff, NEW o \in Orders, NEW next \in OrderStatuses,
         Advance(u, o, next)
  PROVE  TypeOK'
<1> USE DEF TypeOK
<1> DEFINE row == order[o]
           onCompletion == /\ next = "DELIVERED" /\ row.pay = "PENDING"
                           /\ shape[o].modality # "DINE_IN" /\ shape[o].method # "PIX"
           pay == IF onCompletion THEN "PAID" ELSE row.pay
           types == {EventTypeForStatus(next)}
                      \cup (IF onCompletion THEN {"PAYMENT_UPDATED"} ELSE {})
<1>1. pay \in PaymentStatuses
  BY DEF OrdersTypeOK, Rows, PaymentStatuses
<1>2. types \in SUBSET EventTypes
  BY EventTypeForStatusType DEF EventTypes
<1>3. /\ WriteOrder(o, next, pay) /\ WritePayment(o, pay)
      /\ WriteHistory(o, next, u, FALSE) /\ Announce(o, types, next, pay)
      /\ UNCHANGED <<shape, reservation, usageCount, couponUses, mpVars, seen>>
      /\ SettleOffer(o, "CONSUMED") \/ UNCHANGED offer
  BY DEF Advance
<1> HIDE DEF pay, types
<1>4. OrdersTypeOK'
  BY <1>1, <1>2, <1>3, WriterType
<1>5. offer' \in [Orders -> ClaimStates]
  <2>1. CASE SettleOffer(o, "CONSUMED")
    BY <2>1, SettleOfferType DEF ClaimStates
  <2>2. CASE UNCHANGED offer
    BY <2>2 DEF ClaimsTypeOK
  <2> QED  BY <1>3, <2>1, <2>2
<1>6. ClaimsTypeOK'
  BY <1>3, <1>5 DEF ClaimsTypeOK
<1>7. ProviderTypeOK' /\ ActorsTypeOK'
  BY <1>3, ProviderKept, ActorsKept DEF mpVars
<1> QED
  BY <1>4, <1>6, <1>7

(* Cancelling an order keeps all types.                                    *)
LEMMA CancelType ==
  ASSUME TypeOK, NEW u \in Staff, NEW o \in Orders, Cancel(u, o)
  PROVE  TypeOK'
<1> USE DEF TypeOK
<1> DEFINE row == order[o]
           cancelPayment == row.pay \in {"PENDING", "CUSTOMER_REPORTED_PAID", "FAILED"}
           pay == IF cancelPayment THEN "CANCELLED" ELSE row.pay
           types == {"ORDER_CANCELLED"} \cup (IF cancelPayment THEN {"PAYMENT_UPDATED"} ELSE {})
<1>1. pay \in PaymentStatuses /\ "CANCELLED" \in OrderStatuses
  BY DEF OrdersTypeOK, Rows, PaymentStatuses, OrderStatuses
<1>2. types \in SUBSET EventTypes
  BY DEF EventTypes
<1>3. /\ WriteOrder(o, "CANCELLED", pay) /\ WritePayment(o, pay)
      /\ WriteHistory(o, "CANCELLED", u, FALSE) /\ Announce(o, types, "CANCELLED", pay)
      /\ SettleOffer(o, "RELEASED")
      /\ reservation' = IF reservation[o] = "ACTIVE"
                        THEN [reservation EXCEPT ![o] = "RELEASED"] ELSE reservation
      /\ UNCHANGED <<shape, usageCount, couponUses, mpVars, seen>>
  BY DEF Cancel
<1> HIDE DEF pay, types
<1>4. OrdersTypeOK'
  BY <1>1, <1>2, <1>3, WriterType
<1>5. offer' \in [Orders -> ClaimStates]
  BY <1>3, SettleOfferType DEF ClaimStates
<1>6. ClaimsTypeOK'
  BY <1>3, <1>5 DEF ClaimsTypeOK, ClaimStates
<1>7. ProviderTypeOK' /\ ActorsTypeOK'
  BY <1>3, ProviderKept, ActorsKept DEF mpVars
<1> QED
  BY <1>4, <1>6, <1>7

(* Undoing the last change keeps all types.                                *)
LEMMA UndoType ==
  ASSUME TypeOK, NEW u \in Staff, NEW o \in Orders, Undo(u, o)
  PROVE  TypeOK'
<1> USE DEF TypeOK
<1> DEFINE back == lastChange[o].from
           pay == order[o].pay
           types == {"ORDER_TRANSITION_UNDONE"}
<1>1. back \in OrderStatuses
  BY DEF Undo, Undoable, ReversibleEdges, OrderStatuses
<1>2. pay \in PaymentStatuses /\ types \in SUBSET EventTypes
  BY DEF OrdersTypeOK, Rows, EventTypes
<1>3. /\ WriteOrder(o, back, pay) /\ UNCHANGED payment
      /\ WriteHistory(o, back, u, TRUE) /\ Announce(o, types, back, pay)
      /\ UNCHANGED <<shape, claimVars, mpVars, seen>>
  BY DEF Undo
<1> HIDE DEF back, pay, types
<1>4. OrdersTypeOK'
  BY <1>1, <1>2, <1>3, WriterType
<1> QED
  BY <1>3, <1>4, ClaimsKept, ProviderKept, ActorsKept DEF mpVars

(* Adding a note keeps all types.                                          *)
LEMMA AddNoteType ==
  ASSUME TypeOK, NEW u \in Staff, NEW o \in Orders, AddNote(u, o)
  PROVE  TypeOK'
<1> USE DEF TypeOK
<1> DEFINE st == order[o].status
           pay == order[o].pay
           types == {"ORDER_INTERNAL_NOTE_ADDED"}
<1>1. st \in OrderStatuses /\ pay \in PaymentStatuses /\ types \in SUBSET EventTypes
  BY DEF OrdersTypeOK, Rows, EventTypes
<1>2. /\ WriteOrder(o, st, pay) /\ UNCHANGED <<payment, lastChange>>
      /\ Announce(o, types, st, pay) /\ UNCHANGED <<shape, claimVars, mpVars, seen>>
  BY DEF AddNote
<1> HIDE DEF st, pay, types
<1>3. OrdersTypeOK'
  BY <1>1, <1>2, WriterType
<1> QED
  BY <1>2, <1>3, ClaimsKept, ProviderKept, ActorsKept DEF mpVars

(* Changing a payment by hand keeps all types.                             *)
LEMMA ChangePaymentType ==
  ASSUME TypeOK, NEW o \in Orders, NEW op \in PaymentOperations, ChangePayment(o, op)
  PROVE  TypeOK'
<1> USE DEF TypeOK
<1> DEFINE st == order[o].status
           pay == OperationTarget(op)
           types == {"PAYMENT_UPDATED"}
<1>1. st \in OrderStatuses /\ pay \in PaymentStatuses /\ types \in SUBSET EventTypes
  BY OperationTargetType DEF OrdersTypeOK, Rows, EventTypes
<1>2. /\ WriteOrder(o, st, pay) /\ WritePayment(o, pay) /\ UNCHANGED lastChange
      /\ Announce(o, types, st, pay) /\ UNCHANGED <<shape, claimVars, mpVars, seen>>
  BY DEF ChangePayment
<1> HIDE DEF st, pay, types
<1>3. OrdersTypeOK'
  BY <1>1, <1>2, WriterType
<1> QED
  BY <1>2, <1>3, ClaimsKept, ProviderKept, ActorsKept DEF mpVars

(* Every step of the staff keeps all types.                                *)
LEMMA DashboardType ==
  ASSUME TypeOK, Dashboard
  PROVE  TypeOK'
<1> USE DEF TypeOK
<1> PICK u \in Staff, o \in Orders :
      \/ Look(u, o)
      \/ \E next \in OrderStatuses : Advance(u, o, next)
      \/ Cancel(u, o) \/ Undo(u, o) \/ AddNote(u, o)
      \/ ConfirmManualPayment(u, o) \/ MarkPaymentFailed(u, o)
      \/ RetryFailedPayment(u, o) \/ RefundPayment(u, o)
  BY DEF Dashboard
<1>1. CASE Look(u, o)
  <2>1. ActorsTypeOK'
    BY <1>1 DEF Look, mpVars, ActorsTypeOK, OrdersTypeOK, Snapshots
  <2> QED
    BY <1>1, <2>1, OrdersKept, ClaimsKept, ProviderKept DEF Look, mpVars
<1>2. ASSUME NEW op \in PaymentOperations, ChangePayment(o, op)
      PROVE  TypeOK'
  BY <1>2, ChangePaymentType
<1>3. CASE ConfirmManualPayment(u, o) \/ MarkPaymentFailed(u, o)
             \/ RetryFailedPayment(u, o) \/ RefundPayment(u, o)
  BY <1>2, <1>3 DEF ConfirmManualPayment, MarkPaymentFailed, RetryFailedPayment, RefundPayment,
                    PaymentOperations
<1> QED
  BY <1>1, <1>3, AdvanceType, CancelType, UndoType, AddNoteType

(* The gateway's failure transaction.                                      *)
LEMMA CommitFailureType ==
  ASSUME TypeOK, NEW g \in Gateways, CommitFailure(g)
  PROVE  TypeOK'
<1> USE DEF TypeOK
<1> DEFINE o == job[g].order
           wins == job[g].row = order[o] /\ Payable(o)
           types == {"PAYMENT_UPDATED"}
<1>1. o \in Orders
  BY DEF CommitFailure, ActorsTypeOK
<1>2. ActorsTypeOK'
  BY FinishJobType DEF CommitFailure
<1>3. charge' = [charge EXCEPT ![o].creation = "FAILED"]
      /\ UNCHANGED <<shape, usageCount, couponUses, age, remote, seen>>
  BY DEF CommitFailure
<1>4. CASE wins
  <2>1. /\ WriteOrder(o, "CANCELLED", "FAILED") /\ WritePayment(o, "FAILED")
        /\ WriteHistory(o, "CANCELLED", None, FALSE)
        /\ reservation' = IF job[g].resv = "ACTIVE"
                          THEN [reservation EXCEPT ![o] = "RELEASED"] ELSE reservation
        /\ SettleOffer(o, "RELEASED")
        /\ alerts' = alerts \cup {[order |-> o, code |-> "ORDER_CREATE_FAILED"]}
        /\ Announce(o, types, "CANCELLED", "FAILED")
    BY <1>4 DEF CommitFailure
  <2>2. "CANCELLED" \in OrderStatuses /\ "FAILED" \in PaymentStatuses
        /\ types \in SUBSET EventTypes /\ "ORDER_CREATE_FAILED" \in AlertCodes
    BY DEF OrderStatuses, PaymentStatuses, EventTypes, AlertCodes
  <2> HIDE DEF types, o
  <2>3. OrdersTypeOK'
    BY <1>1, <1>3, <2>1, <2>2, WriterType
  <2>4. offer' \in [Orders -> ClaimStates]
    BY <1>1, <2>1, SettleOfferType DEF ClaimStates
  <2>5. ClaimsTypeOK'
    BY <1>1, <1>3, <2>1, <2>4 DEF ClaimsTypeOK, ClaimStates
  <2>6. ProviderTypeOK'
    BY <1>1, <1>3, <2>1, <2>2 DEF ProviderTypeOK
  <2> QED  BY <1>2, <2>3, <2>5, <2>6
<1>5. CASE ~wins
  <2>1. UNCHANGED <<orderVars, offer, reservation, alerts>>
    BY <1>5 DEF CommitFailure
  <2>2. ClaimsTypeOK' /\ OrdersTypeOK'
    BY <1>3, <2>1, ClaimsKept, OrdersKept DEF claimVars
  <2>3. ProviderTypeOK'
    BY <1>1, <1>3, <2>1 DEF ProviderTypeOK
  <2> QED  BY <1>2, <2>2, <2>3
<1> QED
  BY <1>4, <1>5

(* What a gateway is about to write, from the row it has read.             *)
LEMMA DecisionOfJob ==
  ASSUME TypeOK, NEW g \in Gateways, job[g].stage = "SYNC"
  PROVE  /\ job[g].order \in Orders /\ job[g].row \in Rows
         /\ job[g].row.pay \in PaymentStatuses /\ job[g].row.status \in OrderStatuses
         /\ job[g].mapped \in ProviderStates /\ job[g].resv \in ClaimStates
BY DEF TypeOK, ActorsTypeOK, Jobs, Rows

(* Writing what the provider says of a charge keeps all types.             *)
LEMMA CommitSyncType ==
  ASSUME TypeOK, NEW g \in Gateways, CommitSync(g)
  PROVE  TypeOK'
<1> USE DEF TypeOK
<1> DEFINE o == job[g].order
           d == Decision(g)
           types == {"PAYMENT_UPDATED"}
                      \cup (IF order[o].status = "AWAITING_PAYMENT" /\ d.status = "PENDING"
                            THEN {"ORDER_CREATED"} ELSE {})
           outcome == IF d.reason = "PROVIDER_EXPIRED" THEN "EXPIRED" ELSE "RELEASED"
<1>1. /\ job[g].stage = "SYNC" /\ d.kind = "TRANSITION"
      /\ WriteOrder(o, d.status, d.pay) /\ WritePayment(o, d.pay)
      /\ WriteHistory(o, d.status, None, FALSE) \/ UNCHANGED lastChange
      /\ SpendReservation(o, job[g].resv, d)
      /\ SettleOffer(o, outcome) \/ UNCHANGED offer
      /\ Announce(o, types, d.status, d.pay)
      /\ RecordSync(g) /\ alerts' = OpenAlerts /\ FinishJob(g)
      /\ UNCHANGED <<shape, age, remote, seen>>
  BY DEF CommitSync
<1>2. d.pay \in PaymentStatuses /\ d.status \in OrderStatuses
  BY <1>1, DecisionOfJob, DecisionType DEF Decision
<1>3. o \in Orders /\ types \in SUBSET EventTypes /\ outcome \in {"EXPIRED", "RELEASED"}
  BY <1>1, DecisionOfJob DEF EventTypes
<1>4. ActorsTypeOK'
  BY <1>1, FinishJobType
<1>5. charge' = [charge EXCEPT ![o] = [creation |-> "CREATED", synced |-> job[g].mapped]]
  BY <1>1 DEF RecordSync
<1> HIDE DEF d, types, outcome
<1>6. OrdersTypeOK'
  BY <1>1, <1>2, <1>3, WriterType
<1>7. offer' \in [Orders -> ClaimStates]
  <2>1. CASE SettleOffer(o, outcome)
    BY <1>3, <2>1, SettleOfferType DEF ClaimStates
  <2>2. CASE UNCHANGED offer
    BY <2>2 DEF ClaimsTypeOK
  <2> QED  BY <1>1, <2>1, <2>2
<1>8. reservation' \in [Orders -> ClaimStates]
  BY <1>1, <1>3 DEF SpendReservation, ClaimsTypeOK, ClaimStates
<1>9. usageCount' \in Nat /\ couponUses' \subseteq Orders
  BY <1>1, <1>3 DEF SpendReservation, ClaimsTypeOK
<1>10. ClaimsTypeOK'
  BY <1>7, <1>8, <1>9 DEF ClaimsTypeOK
<1>11. ProviderTypeOK'
  BY <1>1, <1>3, <1>5, DecisionOfJob DEF ProviderTypeOK, OpenAlerts
<1> QED
  BY <1>4, <1>6, <1>10, <1>11

(* Noting a divergence without writing the order keeps all types.          *)
LEMMA CommitNotedType ==
  ASSUME TypeOK, NEW g \in Gateways, CommitNoted(g)
  PROVE  TypeOK'
<1> USE DEF TypeOK
<1> DEFINE o == job[g].order
           d == Decision(g)
           code == IF d.kind = "ALERT" THEN {d.code}
                   ELSE IF job[g].mapped = "REVIEW" THEN {"UNMAPPED_STATUS"} ELSE {}
<1>1. /\ job[g].stage = "SYNC"
      /\ charge' = [charge EXCEPT ![o] = [creation |-> "CREATED", synced |-> job[g].mapped]]
      /\ alerts' = OpenAlerts \cup {[order |-> o, code |-> c] : c \in code}
      /\ \/ job' = [job EXCEPT ![g] = [Idle EXCEPT !.stage = "EXPIRE", !.order = o]]
         \/ FinishJob(g)
      /\ UNCHANGED <<shape, orderVars, claimVars, age, remote, seen>>
  BY DEF CommitNoted, RecordSync
<1>2. o \in Orders
  BY <1>1, DecisionOfJob
<1>3. code \subseteq AlertCodes
  BY <1>1, DecisionOfJob, DecisionType DEF Decision, AlertCodes
<1> HIDE DEF code, d
<1>4. ActorsTypeOK'
  BY <1>1, <1>2, StartJobType, FinishJobType
<1>5. charge' \in [Orders -> [creation : {"PENDING", "CREATED", "RETRYABLE_ERROR", "FAILED"},
                              synced : ProviderStates \cup {"NONE"}]]
  BY <1>1, <1>2, DecisionOfJob DEF ProviderTypeOK
<1>6. alerts' \subseteq [order : Orders, code : AlertCodes]
  BY <1>1, <1>2, <1>3 DEF ProviderTypeOK, OpenAlerts
<1>7. ProviderTypeOK'
  BY <1>1, <1>5, <1>6 DEF ProviderTypeOK
<1> QED
  BY <1>1, <1>4, <1>7, OrdersKept, ClaimsKept

(* The gateway's steps outside its two transactions.                       *)
LEMMA ChargingType ==
  ASSUME TypeOK, NEW g \in Gateways,
         ChargeAccepted(g) \/ ChargeLost(g) \/ ChargeRefused(g) \/ RecordCharge(g)
  PROVE  TypeOK'
<1> USE DEF TypeOK
<1> DEFINE o == job[g].order
<1>1. o \in Orders /\ job[g].stage # "IDLE"
  BY DEF ChargeAccepted, ChargeLost, ChargeRefused, RecordCharge, ActorsTypeOK
<1>2. ActorsTypeOK'
  BY <1>1, FinishJobType, ProceedType DEF ChargeAccepted, ChargeLost, ChargeRefused, RecordCharge
<1>3. remote' \in [Orders -> ProviderStates \cup {"NONE"}]
  BY <1>1 DEF ChargeAccepted, ChargeLost, ChargeRefused, RecordCharge, ProviderTypeOK,
              ProviderStates
<1>4. charge' \in [Orders -> [creation : {"PENDING", "CREATED", "RETRYABLE_ERROR", "FAILED"},
                              synced : ProviderStates \cup {"NONE"}]]
  BY <1>1 DEF ChargeAccepted, ChargeLost, ChargeRefused, RecordCharge, ProviderTypeOK,
              ProviderStates
<1>5. UNCHANGED <<shape, orderVars, claimVars, alerts, age, seen>>
  BY DEF ChargeAccepted, ChargeLost, ChargeRefused, RecordCharge
<1>6. ProviderTypeOK'
  BY <1>3, <1>4, <1>5 DEF ProviderTypeOK
<1> QED
  BY <1>2, <1>5, <1>6, OrdersKept, ClaimsKept

(* Every step of a gateway keeps all types.                                *)
LEMMA GatewayType ==
  ASSUME TypeOK, Gateway
  PROVE  TypeOK'
<1> USE DEF TypeOK
<1> PICK g \in Gateways :
      \/ \E o \in Orders : StartCharge(g, o) \/ StartExpiry(g, o)
      \/ \E o \in Orders, overdue \in BOOLEAN : Fetch(g, o, overdue)
      \/ ChargeAccepted(g) \/ ChargeLost(g) \/ ChargeRefused(g) \/ RecordCharge(g)
      \/ ReadForFailure(g) \/ CommitFailure(g)
      \/ ReadForSync(g) \/ CommitNoted(g) \/ CommitSync(g)
      \/ Abandon(g)
  BY DEF Gateway
<1>1. ASSUME NEW o \in Orders, StartCharge(g, o) \/ StartExpiry(g, o)
      PROVE  TypeOK'
  BY <1>1, OrdersKept, ClaimsKept, ProviderKept, StartJobType DEF StartCharge, StartExpiry, StartJob
<1>2. ASSUME NEW o \in Orders, NEW overdue \in BOOLEAN, Fetch(g, o, overdue)
      PROVE  TypeOK'
  <2> DEFINE next == [Idle EXCEPT !.stage = "FETCHED", !.order = o, !.mapped = remote[o],
                                  !.overdue = overdue]
  <2>1. remote[o] \in ProviderStates
    BY <1>2 DEF Fetch, ProviderTypeOK
  <2>2. next \in Jobs /\ next.stage = "FETCHED" /\ next.order = o
    BY <2>1 DEF Idle, Jobs, Stages, ProviderStates, ClaimStates
  <2>3. job' = [job EXCEPT ![g] = next] /\ UNCHANGED seen
    BY <1>2 DEF Fetch
  <2> HIDE DEF next
  <2>4. ActorsTypeOK'
    BY <2>2, <2>3, JobType
  <2> QED
    BY <1>2, <2>4, OrdersKept, ClaimsKept, ProviderKept DEF Fetch
<1>3. CASE ReadForFailure(g) \/ ReadForSync(g)
  <2>1. ActorsTypeOK'
    BY <1>3, ReadType DEF ReadForFailure, ReadForSync
  <2> QED
    BY <1>3, <2>1, OrdersKept, ClaimsKept, ProviderKept DEF ReadForFailure, ReadForSync
<1>4. CASE Abandon(g)
  BY <1>4, FinishJobType, OrdersKept, ClaimsKept, ProviderKept DEF Abandon
<1> QED
  BY <1>1, <1>2, <1>3, <1>4, ChargingType, CommitFailureType, CommitNotedType, CommitSyncType

(* Every step of the provider and of time keeps all types.                 *)
LEMMA EnvironmentType ==
  ASSUME TypeOK, Environment
  PROVE  TypeOK'
<1> USE DEF TypeOK
<1>1. CASE ExpireReservations
  <2>1. ClaimsTypeOK'
    BY <1>1 DEF ExpireReservations, ClaimsTypeOK, ClaimStates
  <2> QED
    BY <1>1, <2>1, OrdersKept, ProviderKept, ActorsKept DEF ExpireReservations, mpVars
<1>2. ASSUME NEW o \in Orders, ReportPayment(o)
      PROVE  TypeOK'
  BY <1>2, ChangePaymentType DEF ReportPayment, PaymentOperations
<1>3. ASSUME NEW o \in Orders, Tick(o)
      PROVE  TypeOK'
  <2>1. ProviderTypeOK'
    BY <1>3 DEF Tick, ProviderTypeOK
  <2> QED
    BY <1>3, <2>1, OrdersKept, ClaimsKept, ActorsKept DEF Tick
<1>4. ASSUME NEW o \in Orders, NEW st \in ProviderStates, RemoteMoves(o, st)
      PROVE  TypeOK'
  <2>1. ProviderTypeOK'
    BY <1>4 DEF RemoteMoves, ProviderTypeOK
  <2> QED
    BY <1>4, <2>1, OrdersKept, ClaimsKept, ActorsKept DEF RemoteMoves
<1> QED
  BY <1>1, <1>2, <1>3, <1>4 DEF Environment

(* The first state has the types.                                          *)
LEMMA TypeInit ==
  ASSUME Init
  PROVE  TypeOK
<1>1. OrdersTypeOK
  BY BoundsAssumption DEF Init, OrdersTypeOK, Rows, OrderStatuses, PaymentStatuses
<1>2. ClaimsTypeOK /\ ProviderTypeOK
  BY DEF Init, ClaimsTypeOK, ClaimStates, ProviderTypeOK
<1>3. ActorsTypeOK
  BY DEF Init, ActorsTypeOK, Idle, Jobs, Stages, ProviderStates, ClaimStates
<1> QED
  BY <1>1, <1>2, <1>3 DEF TypeOK

(* Every step keeps the types.                                             *)
LEMMA TypeStep ==
  ASSUME TypeOK, [Next]_vars
  PROVE  TypeOK'
<1>1. CASE UNCHANGED vars
  <2>1. UNCHANGED <<shape, orderVars, claimVars, charge, alerts, age, remote, seen, job>>
    BY <1>1 DEF vars, mpVars
  <2> QED
    BY <2>1, OrdersKept, ClaimsKept, ProviderKept, ActorsKept DEF TypeOK
<1>2. CASE Checkout
  BY <1>2, CheckoutType DEF Checkout
<1> QED
  BY <1>1, <1>2, DashboardType, GatewayType, EnvironmentType DEF Next

(* Every reachable state is one the columns, enums and constraints of the  *)
(* schema allow, whatever the actors do.                                   *)
THEOREM TypeCorrect == Spec => []TypeOK
BY TypeInit, TypeStep, PTL DEF Spec

-----------------------------------------------------------------------------
(* The rows of orders.                                                     *)

(* The inductive invariant.                                                *)

(* Screens and gateway executions only ever hold orders that exist; the    *)
(* gateway only works on online ones.                                      *)
ActorsSawPlaced ==
  /\ \A u \in Staff : seen[u] # None => Placed(seen[u].order)
  /\ \A g \in Gateways : job[g].stage # "IDLE" => Online(job[g].order)

(* The newest history row is never ahead of its order, and when it is the  *)
(* last thing that happened and went forward, the order is not refunded.   *)
(* Undo needs this: it never looks at the payment status.                  *)
LastForwardUnrefunded ==
  \A o \in Orders :
    /\ lastChange[o].version <= order[o].version
    /\ (/\ lastChange[o].version = order[o].version
        /\ <<order[o].status, lastChange[o].from>> \in ReversibleEdges)
         => order[o].pay # "REFUNDED"

Inv ==
  /\ TypeOK
  /\ ActorsSawPlaced
  /\ LastForwardUnrefunded
  /\ PaymentRowAgrees
  /\ StatusAgreesWithPayment
  /\ OnlinePaidBeforeKitchen
  /\ VersionPinsRow

-----------------------------------------------------------------------------
(* What a step can do to order rows.                                       *)

RowKept(o) == shape'[o] = shape[o] /\ order'[o] = order[o] /\ payment'[o] = payment[o]

Created(o) ==
  /\ ~Placed(o) /\ shape'[o] \in Shapes
  /\ payment'[o] = order'[o].pay
  /\ \/ order'[o] = [status |-> "AWAITING_PAYMENT", pay |-> "PENDING", version |-> 0]
        /\ shape'[o].online
     \/ /\ ~shape'[o].online
        /\ \/ order'[o].status = "PENDING" /\ order'[o].pay = "PENDING"
           \/ order'[o].status = "CONFIRMED" /\ order'[o].pay \in {"PENDING", "PAID"}

(* The ways an existing order moves from st, pay to st2, pay2.             *)
Move(sh, st, pay, st2, pay2) ==
  \/ st2 = st /\ pay2 = pay
  \/ /\ st2 # "CANCELLED" /\ CanTransitionOrder(sh, st, pay, st2)
     /\ pay2 = IF st2 = "DELIVERED" /\ pay = "PENDING"
                  /\ sh.modality # "DINE_IN" /\ sh.method # "PIX"
               THEN "PAID" ELSE pay
  \/ /\ st2 = "CANCELLED" /\ CanTransitionOrder(sh, st, pay, st2)
     /\ pay # "PAID" /\ ~sh.online
     /\ pay2 = IF pay \in {"PENDING", "CUSTOMER_REPORTED_PAID", "FAILED"} THEN "CANCELLED" ELSE pay
  \/ <<st, st2>> \in ReversibleEdges /\ pay2 = pay /\ pay # "REFUNDED"
  \/ /\ st2 = st /\ ~sh.online
     /\ \E op \in PaymentOperations \ {"CANCEL"} :
          CanTransitionPayment(sh.method, st, pay, op) /\ pay2 = OperationTarget(op)
  \/ st = "AWAITING_PAYMENT" /\ pay = "PENDING" /\ st2 = "PENDING" /\ pay2 = "PAID"
  \/ /\ st = "AWAITING_PAYMENT" /\ pay = "PENDING"
     /\ st2 = "CANCELLED" /\ pay2 \in {"FAILED", "CANCELLED"}
  \/ st2 = st /\ pay = "PAID" /\ pay2 = "REFUNDED"

Moved(o) ==
  /\ Placed(o) /\ shape'[o] = shape[o]
  /\ order'[o].version = order[o].version + 1
  /\ payment'[o] = order'[o].pay
  /\ Move(shape[o], order[o].status, order[o].pay, order'[o].status, order'[o].pay)

Touched(o) == (Created(o) \/ Moved(o)) /\ \A p \in Orders \ {o} : RowKept(p)

(* A writer that makes a move allowed for the order touches its row and no *)
(* other.                                                                  *)
LEMMA RowWrite ==
  ASSUME TypeOK, NEW o \in Orders, Placed(o), NEW st \in OrderStatuses, NEW pay \in PaymentStatuses,
         WriteOrder(o, st, pay),
         WritePayment(o, pay) \/ (UNCHANGED payment /\ payment[o] = pay),
         UNCHANGED shape,
         Move(shape[o], order[o].status, order[o].pay, st, pay)
  PROVE  Touched(o)
<1>1. order' = [order EXCEPT ![o] = [status |-> st, pay |-> pay, version |-> order[o].version + 1]]
  BY DEF WriteOrder, TypeOK, OrdersTypeOK
<1>2. /\ order'[o].status = st /\ order'[o].pay = pay
      /\ order'[o].version = order[o].version + 1
  BY <1>1 DEF TypeOK, OrdersTypeOK
<1>3. payment'[o] = pay
  BY DEF WritePayment, TypeOK, OrdersTypeOK
<1>4. Moved(o)
  BY <1>2, <1>3 DEF Moved
<1>5. \A p \in Orders \ {o} : RowKept(p)
  BY <1>1 DEF RowKept, WritePayment, TypeOK, OrdersTypeOK
<1> QED
  BY <1>4, <1>5 DEF Touched

(* Placing an order makes its row and leaves the others alone.             *)
LEMMA CheckoutRows ==
  ASSUME Inv, NEW o \in Orders, NEW sh \in Shapes, NEW coupon, NEW discounted,
         \/ Place(o, sh, coupon, discounted)
         \/ \E u \in Staff, paidNow \in BOOLEAN : PlacePos(u, o, sh, coupon, discounted, paidNow)
  PROVE  Touched(o)
<1>1. /\ shape \in [Orders -> Shapes \cup {None}] /\ order \in [Orders -> Rows]
      /\ payment \in [Orders -> PaymentStatuses]
  BY DEF Inv, TypeOK, OrdersTypeOK
<1>2. CASE Place(o, sh, coupon, discounted)
  <2>1. /\ shape'[o] = sh /\ payment'[o] = "PENDING"
        /\ order'[o] = [status |-> IF sh.online THEN "AWAITING_PAYMENT" ELSE "PENDING",
                        pay |-> "PENDING", version |-> 0]
        /\ ~Placed(o)
    BY <1>1, <1>2 DEF Place
  <2>2. sh.online \in BOOLEAN
    BY ShapesAssumption DEF Shape
  <2>3. Created(o)
    BY <2>1, <2>2 DEF Created
  <2>4. \A p \in Orders \ {o} : RowKept(p)
    BY <1>1, <1>2 DEF Place, RowKept
  <2> QED  BY <2>3, <2>4 DEF Touched
<1>3. ASSUME NEW u \in Staff, NEW paidNow \in BOOLEAN,
             PlacePos(u, o, sh, coupon, discounted, paidNow)
      PROVE  Touched(o)
  <2> DEFINE pay == IF paidNow THEN "PAID" ELSE "PENDING"
             version == IF paidNow THEN 2 ELSE 1
  <2>1. /\ shape'[o] = sh /\ payment'[o] = pay /\ ~Placed(o) /\ sh.pos
        /\ order'[o] = [status |-> "CONFIRMED", pay |-> pay, version |-> version]
    BY <1>1, <1>3 DEF PlacePos
  <2>2. ~sh.online
    BY <2>1, ShapesAssumption DEF ValidShape
  <2>3. Created(o)
    BY <2>1, <2>2 DEF Created
  <2>4. \A p \in Orders \ {o} : RowKept(p)
    BY <1>1, <1>3 DEF PlacePos, RowKept
  <2> QED  BY <2>3, <2>4 DEF Touched
<1> QED
  BY <1>2, <1>3

(* Advancing an order is an allowed move of its row.                       *)
LEMMA AdvanceRows ==
  ASSUME Inv, NEW u \in Staff, NEW o \in Orders, NEW next \in OrderStatuses, Advance(u, o, next)
  PROVE  Touched(o)
<1> DEFINE row == order[o]
           pay == IF next = "DELIVERED" /\ row.pay = "PENDING"
                     /\ shape[o].modality # "DINE_IN" /\ shape[o].method # "PIX"
                  THEN "PAID" ELSE row.pay
<1>1. pay \in PaymentStatuses
  BY DEF Inv, TypeOK, OrdersTypeOK, Rows, PaymentStatuses
<1>2. /\ WriteOrder(o, next, pay) /\ WritePayment(o, pay) /\ UNCHANGED shape
      /\ Placed(o) /\ next # "CANCELLED"
      /\ CanTransitionOrder(shape[o], row.status, row.pay, next)
  BY DEF Advance, Fresh
<1>3. Move(shape[o], row.status, row.pay, next, pay)
  BY <1>2 DEF Move
<1> HIDE DEF pay
<1> QED
  BY <1>1, <1>2, <1>3, RowWrite DEF Inv

(* Cancelling an order is an allowed move of its row.                      *)
LEMMA CancelRows ==
  ASSUME Inv, NEW u \in Staff, NEW o \in Orders, Cancel(u, o)
  PROVE  Touched(o)
<1> DEFINE row == order[o]
           pay == IF row.pay \in {"PENDING", "CUSTOMER_REPORTED_PAID", "FAILED"}
                  THEN "CANCELLED" ELSE row.pay
<1>1. pay \in PaymentStatuses /\ "CANCELLED" \in OrderStatuses
  BY DEF Inv, TypeOK, OrdersTypeOK, Rows, PaymentStatuses, OrderStatuses
<1>2. /\ WriteOrder(o, "CANCELLED", pay) /\ WritePayment(o, pay) /\ UNCHANGED shape
      /\ Placed(o) /\ row.pay # "PAID" /\ ~shape[o].online
      /\ CanTransitionOrder(shape[o], row.status, row.pay, "CANCELLED")
  BY DEF Cancel, Fresh
<1>3. Move(shape[o], row.status, row.pay, "CANCELLED", pay)
  BY <1>2 DEF Move
<1> HIDE DEF pay
<1> QED
  BY <1>1, <1>2, <1>3, RowWrite DEF Inv

(* Undoing a change is an allowed move of its row.                         *)
LEMMA UndoRows ==
  ASSUME Inv, NEW u \in Staff, NEW o \in Orders, Undo(u, o)
  PROVE  Touched(o)
<1> DEFINE back == lastChange[o].from
           pay == order[o].pay
<1>1. back \in OrderStatuses /\ <<order[o].status, back>> \in ReversibleEdges
  BY DEF Undo, Undoable, ReversibleEdges, OrderStatuses
<1>2. pay \in PaymentStatuses
  BY DEF Inv, TypeOK, OrdersTypeOK, Rows
<1>3. /\ WriteOrder(o, back, pay) /\ UNCHANGED payment /\ UNCHANGED shape
      /\ Placed(o) /\ payment[o] = pay /\ lastChange[o].version = order[o].version
  BY DEF Undo, Fresh, Consistent, Undoable
<1>4. pay # "REFUNDED"
  BY <1>1, <1>3 DEF Inv, LastForwardUnrefunded
<1>5. Move(shape[o], order[o].status, pay, back, pay)
  BY <1>1, <1>4 DEF Move
<1> HIDE DEF back, pay
<1> QED
  BY <1>1, <1>2, <1>3, <1>5, RowWrite DEF Inv, pay

(* A note moves nothing but the version of the row.                        *)
LEMMA AddNoteRows ==
  ASSUME Inv, NEW u \in Staff, NEW o \in Orders, AddNote(u, o)
  PROVE  Touched(o)
<1> DEFINE st == order[o].status
           pay == order[o].pay
<1>1. st \in OrderStatuses /\ pay \in PaymentStatuses
  BY DEF Inv, TypeOK, OrdersTypeOK, Rows
<1>2. WriteOrder(o, st, pay) /\ UNCHANGED payment /\ UNCHANGED shape /\ Placed(o)
  BY DEF AddNote, Fresh
<1>3. payment[o] = pay
  BY <1>2 DEF Inv, PaymentRowAgrees
<1>4. Move(shape[o], order[o].status, order[o].pay, st, pay)
  BY DEF Move
<1> HIDE DEF st, pay
<1> QED
  BY <1>1, <1>2, <1>3, <1>4, RowWrite DEF Inv

(* A change of a payment by hand is an allowed move of the row.            *)
LEMMA ChangePaymentRows ==
  ASSUME Inv, NEW o \in Orders, NEW op \in PaymentOperations \ {"CANCEL"}, ChangePayment(o, op)
  PROVE  Touched(o)
<1> DEFINE st == order[o].status
           pay == OperationTarget(op)
<1>1. st \in OrderStatuses /\ pay \in PaymentStatuses
  BY OperationTargetType DEF Inv, TypeOK, OrdersTypeOK, Rows
<1>2. /\ WriteOrder(o, st, pay) /\ WritePayment(o, pay) /\ UNCHANGED shape
      /\ Placed(o) /\ ~shape[o].online
      /\ CanTransitionPayment(shape[o].method, st, order[o].pay, op)
  BY DEF ChangePayment
<1>3. Move(shape[o], order[o].status, order[o].pay, st, pay)
  BY <1>2 DEF Move
<1> HIDE DEF st, pay
<1> QED
  BY <1>1, <1>2, <1>3, RowWrite DEF Inv

(* A charge that could not be made touches one row at most.                *)
LEMMA CommitFailureRows ==
  ASSUME Inv, NEW g \in Gateways, CommitFailure(g)
  PROVE  (\A p \in Orders : RowKept(p)) \/ \E o \in Orders : Touched(o)
<1> DEFINE o == job[g].order
           wins == job[g].row = order[o] /\ Payable(o)
<1>1. o \in Orders /\ Placed(o)
  BY DEF Inv, TypeOK, ActorsTypeOK, ActorsSawPlaced, Online, CommitFailure
<1>2. CASE wins
  <2>1. /\ WriteOrder(o, "CANCELLED", "FAILED") /\ WritePayment(o, "FAILED") /\ UNCHANGED shape
        /\ order[o].status = "AWAITING_PAYMENT" /\ order[o].pay = "PENDING"
    BY <1>2 DEF CommitFailure, Payable
  <2>2. "CANCELLED" \in OrderStatuses /\ "FAILED" \in PaymentStatuses
    BY DEF OrderStatuses, PaymentStatuses
  <2>3. Move(shape[o], order[o].status, order[o].pay, "CANCELLED", "FAILED")
    BY <2>1 DEF Move
  <2> HIDE DEF o
  <2>4. Touched(o)
    BY <1>1, <2>1, <2>2, <2>3, RowWrite DEF Inv
  <2> QED  BY <1>1, <2>4
<1>3. CASE ~wins
  BY <1>3 DEF CommitFailure, orderVars, RowKept
<1> QED
  BY <1>2, <1>3

(* What the provider says of a charge is an allowed move of the row.       *)
LEMMA CommitSyncRows ==
  ASSUME Inv, NEW g \in Gateways, CommitSync(g)
  PROVE  \E o \in Orders : Touched(o)
<1> DEFINE o == job[g].order
           d == Decision(g)
<1>1. o \in Orders /\ Placed(o)
  BY DEF Inv, TypeOK, ActorsTypeOK, ActorsSawPlaced, Online, CommitSync
<1>2. /\ job[g].stage = "SYNC" /\ d.kind = "TRANSITION" /\ job[g].row = order[o]
      /\ WriteOrder(o, d.status, d.pay) /\ WritePayment(o, d.pay) /\ UNCHANGED shape
  BY DEF CommitSync
<1>3. d = DecideProviderTransition(order[o].pay, order[o].status, job[g].mapped)
  BY <1>2 DEF Decision
<1>4. /\ d.status \in OrderStatuses /\ d.pay \in PaymentStatuses
      /\ \/ /\ order[o].pay = "PENDING" /\ order[o].status = "AWAITING_PAYMENT"
            /\ d.status = "PENDING" /\ d.pay = "PAID"
         \/ /\ order[o].pay = "PENDING" /\ order[o].status = "AWAITING_PAYMENT"
            /\ d.status = "CANCELLED" /\ d.pay \in {"FAILED", "CANCELLED"}
         \/ order[o].pay = "PAID" /\ d.status = order[o].status /\ d.pay = "REFUNDED"
  <2>1. /\ job[g].mapped \in ProviderStates
        /\ order[o].pay \in PaymentStatuses /\ order[o].status \in OrderStatuses
    BY <1>2, DecisionOfJob DEF Inv
  <2> HIDE DEF d, o
  <2> QED
    BY <1>2, <1>3, <2>1, DecisionType
<1> HIDE DEF d
<1>5. Move(shape[o], order[o].status, order[o].pay, d.status, d.pay)
  BY <1>4 DEF Move
<1>6. Touched(o)
  <2> HIDE DEF o
  <2> QED
    BY <1>1, <1>2, <1>4, <1>5, RowWrite DEF Inv
<1> QED
  BY <1>1, <1>6

(* Whoever acts, at most one order row changes, and in one of the ways of  *)
(* Created and Move.                                                       *)
LEMMA RowStep ==
  ASSUME Inv, [Next]_vars
  PROVE  (\A p \in Orders : RowKept(p)) \/ \E o \in Orders : Touched(o)
<1> DEFINE Quiet == UNCHANGED <<shape, orderVars>>
<1>1. ASSUME Quiet  PROVE \A p \in Orders : RowKept(p)
  BY <1>1 DEF RowKept, orderVars
<1>2. CASE UNCHANGED vars
  BY <1>1, <1>2 DEF vars
<1>3. CASE Checkout
  BY <1>3, CheckoutRows DEF Checkout
<1>4. CASE Dashboard
  <2> PICK u \in Staff, o \in Orders :
        \/ Look(u, o)
        \/ \E next \in OrderStatuses : Advance(u, o, next)
        \/ Cancel(u, o) \/ Undo(u, o) \/ AddNote(u, o)
        \/ ConfirmManualPayment(u, o) \/ MarkPaymentFailed(u, o)
        \/ RetryFailedPayment(u, o) \/ RefundPayment(u, o)
    BY <1>4 DEF Dashboard
  <2>1. CASE Look(u, o)
    BY <1>1, <2>1 DEF Look
  <2>2. CASE ConfirmManualPayment(u, o) \/ MarkPaymentFailed(u, o)
               \/ RetryFailedPayment(u, o) \/ RefundPayment(u, o)
    <3>1. \E op \in PaymentOperations \ {"CANCEL"} : ChangePayment(o, op)
      BY <2>2 DEF ConfirmManualPayment, MarkPaymentFailed, RetryFailedPayment, RefundPayment,
                  PaymentOperations
    <3> QED  BY <3>1, ChangePaymentRows
  <2> QED
    BY <2>1, <2>2, AdvanceRows, CancelRows, UndoRows, AddNoteRows
<1>5. CASE Gateway
  <2>1. ASSUME NEW g \in Gateways, CommitFailure(g) \/ CommitSync(g)
        PROVE  (\A p \in Orders : RowKept(p)) \/ \E o \in Orders : Touched(o)
    BY <2>1, CommitFailureRows, CommitSyncRows
  <2>2. \/ \E g \in Gateways : CommitFailure(g) \/ CommitSync(g)
        \/ Quiet
    BY <1>5 DEF Gateway, StartCharge, StartExpiry, Fetch, ChargeAccepted, ChargeLost, ChargeRefused,
                RecordCharge, ReadForFailure, ReadForSync, CommitNoted, Abandon
  <2> QED
    BY <1>1, <2>1, <2>2
<1>6. CASE Environment
  <2>1. ASSUME NEW o \in Orders, ReportPayment(o)
        PROVE  Touched(o)
    BY <2>1, ChangePaymentRows DEF ReportPayment, PaymentOperations
  <2>2. (\E o \in Orders : ReportPayment(o)) \/ Quiet
    BY <1>6 DEF Environment, ExpireReservations, Tick, RemoteMoves
  <2> QED
    BY <1>1, <2>1, <2>2
<1> QED
  BY <1>2, <1>3, <1>4, <1>5, <1>6 DEF Next

-----------------------------------------------------------------------------
(* The invariants on rows follow from what a step can do to a row.         *)

(* An order that has been placed has a valid shape and a row of the right  *)
(* type.                                                                   *)
LEMMA ShapeFacts ==
  ASSUME Inv, NEW o \in Orders, Placed(o)
  PROVE  /\ shape[o] \in Shapes /\ ValidShape(shape[o])
         /\ order[o].status \in OrderStatuses /\ order[o].pay \in PaymentStatuses
BY ShapesAssumption DEF Inv, TypeOK, OrdersTypeOK, Placed, Rows

(* After a row is created or moved its status and its payment agree again. *)
LEMMA StatusStep ==
  ASSUME Inv, NEW o \in Orders, Created(o) \/ Moved(o)
  PROVE  LET st == order'[o].status
             pay == order'[o].pay
         IN  /\ st = "DELIVERED" => pay \in {"PAID", "REFUNDED"}
             /\ st = "CANCELLED" => pay \in {"CANCELLED", "FAILED", "REFUNDED"}
             /\ pay = "CANCELLED" => st = "CANCELLED"
             /\ st = "AWAITING_PAYMENT" => shape'[o].online /\ pay = "PENDING"
<1> DEFINE st == order[o].status
           pay == order[o].pay
           st2 == order'[o].status
           pay2 == order'[o].pay
           sh == shape[o]
           Good == /\ st2 = "DELIVERED" => pay2 \in {"PAID", "REFUNDED"}
                   /\ st2 = "CANCELLED" => pay2 \in {"CANCELLED", "FAILED", "REFUNDED"}
                   /\ pay2 = "CANCELLED" => st2 = "CANCELLED"
                   /\ st2 = "AWAITING_PAYMENT" => shape'[o].online /\ pay2 = "PENDING"
<1> SUFFICES Good
  OBVIOUS
<1>1. CASE Created(o)
  BY <1>1 DEF Created
<1>2. CASE Moved(o)
  <2>1. /\ Placed(o) /\ shape'[o] = sh /\ Move(sh, st, pay, st2, pay2)
        /\ pay \in PaymentStatuses /\ st \in OrderStatuses
    BY <1>2, ShapeFacts DEF Moved
  <2>2. /\ st = "DELIVERED" => pay \in {"PAID", "REFUNDED"}
        /\ st = "CANCELLED" => pay \in {"CANCELLED", "FAILED", "REFUNDED"}
        /\ pay = "CANCELLED" => st = "CANCELLED"
        /\ st = "AWAITING_PAYMENT" => sh.online /\ pay = "PENDING"
    BY <2>1 DEF Inv, StatusAgreesWithPayment
  <2> HIDE DEF st, pay, st2, pay2, sh
  <2>3. CASE st2 = st /\ pay2 = pay
    BY <2>1, <2>2, <2>3
  <2>4. CASE /\ st2 # "CANCELLED" /\ CanTransitionOrder(sh, st, pay, st2)
             /\ pay2 = IF st2 = "DELIVERED" /\ pay = "PENDING"
                          /\ sh.modality # "DINE_IN" /\ sh.method # "PIX"
                       THEN "PAID" ELSE pay
    BY <2>2, <2>4 DEF CanTransitionOrder, ForwardTransition, ForwardEdges, CanCompleteOrder
  <2>5. CASE /\ st2 = "CANCELLED" /\ CanTransitionOrder(sh, st, pay, st2)
             /\ pay # "PAID" /\ ~sh.online
             /\ pay2 = IF pay \in {"PENDING", "CUSTOMER_REPORTED_PAID", "FAILED"}
                       THEN "CANCELLED" ELSE pay
    BY <2>1, <2>5 DEF PaymentStatuses
  <2>6. CASE <<st, st2>> \in ReversibleEdges /\ pay2 = pay
    BY <2>2, <2>6 DEF ReversibleEdges
  <2>7. ASSUME st2 = st, ~sh.online,
               NEW op \in PaymentOperations \ {"CANCEL"},
               CanTransitionPayment(sh.method, st, pay, op), pay2 = OperationTarget(op)
        PROVE  Good
    BY <2>1, <2>2, <2>7 DEF CanTransitionPayment, OperationTarget, PaymentOperations, PaymentEdges
  <2>8. CASE st = "AWAITING_PAYMENT" /\ pay = "PENDING" /\ st2 = "PENDING" /\ pay2 = "PAID"
    BY <2>8
  <2>9. CASE /\ st = "AWAITING_PAYMENT" /\ pay = "PENDING"
             /\ st2 = "CANCELLED" /\ pay2 \in {"FAILED", "CANCELLED"}
    BY <2>9
  <2>10. CASE st2 = st /\ pay = "PAID" /\ pay2 = "REFUNDED"
    BY <2>1, <2>2, <2>10
  <2> QED
    BY <2>1, <2>3, <2>4, <2>5, <2>6, <2>7, <2>8, <2>9, <2>10 DEF Move
<1> QED
  BY <1>1, <1>2

(* After a row is created or moved an order paid online is under way only  *)
(* once it is paid.                                                        *)
LEMMA OnlineStep ==
  ASSUME Inv, NEW o \in Orders, Created(o) \/ Moved(o)
  PROVE  (Online(o)' /\ order'[o].status \notin {"AWAITING_PAYMENT", "CANCELLED"})
           => order'[o].pay \in {"PAID", "REFUNDED"}
<1> DEFINE st == order[o].status
           pay == order[o].pay
           st2 == order'[o].status
           pay2 == order'[o].pay
           sh == shape[o]
<1> SUFFICES ASSUME shape'[o].online, st2 \notin {"AWAITING_PAYMENT", "CANCELLED"}
             PROVE  pay2 \in {"PAID", "REFUNDED"}
  BY DEF Online
<1>1. CASE Created(o)
  BY <1>1 DEF Created
<1>2. CASE Moved(o)
  <2>1. /\ Placed(o) /\ sh.online /\ Move(sh, st, pay, st2, pay2)
    BY <1>2 DEF Moved
  <2>2. /\ st \notin {"AWAITING_PAYMENT", "CANCELLED"} => pay \in {"PAID", "REFUNDED"}
        /\ st = "CANCELLED" => pay # "PAID"
    BY <2>1 DEF Inv, OnlinePaidBeforeKitchen, StatusAgreesWithPayment, Online
  <2> HIDE DEF st, pay, st2, pay2, sh
  <2> QED
    BY <2>1, <2>2 DEF Move, CanTransitionOrder, ReversibleEdges
<1> QED
  BY <1>1, <1>2

-----------------------------------------------------------------------------
(* What a step can do to screens, gateway executions and history rows.     *)

(* Steps of the staff leave the jobs alone, and change what a screen shows *)
(* only by looking.                                                        *)
LEMMA DashboardKeeps ==
  ASSUME Dashboard
  PROVE  /\ UNCHANGED job
         /\ UNCHANGED seen \/ \E u \in Staff, o \in Orders : Look(u, o)
<1> PICK u \in Staff, o \in Orders :
      \/ Look(u, o)
      \/ \E next \in OrderStatuses : Advance(u, o, next)
      \/ Cancel(u, o) \/ Undo(u, o) \/ AddNote(u, o)
      \/ ConfirmManualPayment(u, o) \/ MarkPaymentFailed(u, o)
      \/ RetryFailedPayment(u, o) \/ RefundPayment(u, o)
  BY DEF Dashboard
<1>1. CASE Look(u, o)
  BY <1>1 DEF Look, mpVars
<1>2. CASE \E next \in OrderStatuses : Advance(u, o, next)
  BY <1>2 DEF Advance, mpVars
<1>3. CASE Cancel(u, o) \/ Undo(u, o) \/ AddNote(u, o)
  BY <1>3 DEF Cancel, Undo, AddNote, mpVars
<1>4. CASE ConfirmManualPayment(u, o) \/ MarkPaymentFailed(u, o)
             \/ RetryFailedPayment(u, o) \/ RefundPayment(u, o)
  BY <1>4 DEF ConfirmManualPayment, MarkPaymentFailed, RetryFailedPayment, RefundPayment,
              ChangePayment, mpVars
<1> QED
  BY <1>1, <1>2, <1>3, <1>4

(* What a member of the staff sees stays, or becomes a row as it stands.   *)
LEMMA SeenStep ==
  ASSUME Inv, [Next]_vars, NEW u \in Staff
  PROVE  \/ seen'[u] = seen[u]
         \/ \E o \in Orders : Placed(o) /\ seen'[u] = [order |-> o, row |-> order[o]]
                                /\ shape' = shape /\ order' = order
<1>1. CASE \E v \in Staff, o \in Orders : Look(v, o)
  <2> PICK v \in Staff, o \in Orders : Look(v, o)
    BY <1>1
  <2>1. /\ Placed(o) /\ shape' = shape /\ order' = order
        /\ seen' = [seen EXCEPT ![v] = [order |-> o, row |-> order[o]]]
    BY DEF Look, orderVars
  <2>2. seen \in [Staff -> Snapshots \cup {None}]
    BY DEF Inv, TypeOK, ActorsTypeOK
  <2>3. CASE u = v
    BY <2>1, <2>2, <2>3
  <2>4. CASE u # v
    BY <2>1, <2>2, <2>4
  <2> QED  BY <2>3, <2>4
<1>2. CASE UNCHANGED vars
  BY <1>2 DEF vars
<1>3. CASE Checkout
  BY <1>3 DEF Checkout, Place, PlacePos
<1>4. CASE Dashboard /\ ~ \E v \in Staff, o \in Orders : Look(v, o)
  BY <1>4, DashboardKeeps
<1>5. CASE Gateway
  BY <1>5 DEF Gateway, StartCharge, StartExpiry, Fetch, ChargeAccepted, ChargeLost, ChargeRefused,
              RecordCharge, ReadForFailure, CommitFailure, ReadForSync, CommitNoted, CommitSync,
              Abandon
<1>6. CASE Environment
  BY <1>6 DEF Environment, ExpireReservations, ReportPayment, ChangePayment, Tick, RemoteMoves
<1> QED
  BY <1>1, <1>2, <1>3, <1>4, <1>5, <1>6 DEF Next

(* A gateway execution stays as it is, ends, works on an online order      *)
(* without having read its row, or has just read it.                       *)
JobMoves(g) ==
  \/ job'[g] = job[g]
  \/ job'[g].stage = "IDLE"
  \/ job'[g].stage \notin {"IDLE", "SYNC", "FAIL"} /\ Online(job'[g].order) /\ shape' = shape
  \/ /\ job[g].stage # "IDLE" /\ job'[g].order = job[g].order
     /\ job'[g].row = order[job[g].order] /\ job'[g].resv = reservation[job[g].order]
     /\ shape' = shape /\ order' = order /\ reservation' = reservation

(* Every step moves a job in one of the ways named by JobMoves.            *)
LEMMA JobStep ==
  ASSUME Inv, [Next]_vars, NEW g \in Gateways
  PROVE  JobMoves(g)
<1>1. /\ job \in [Gateways -> Jobs]
      /\ \A h \in Gateways : job[h].stage # "IDLE" => Online(job[h].order)
  BY DEF Inv, TypeOK, ActorsTypeOK, ActorsSawPlaced
<1>2. CASE Gateway
  <2> PICK h \in Gateways :
        \/ \E o \in Orders : StartCharge(h, o) \/ StartExpiry(h, o)
        \/ \E o \in Orders, overdue \in BOOLEAN : Fetch(h, o, overdue)
        \/ ChargeAccepted(h) \/ ChargeLost(h) \/ ChargeRefused(h) \/ RecordCharge(h)
        \/ ReadForFailure(h) \/ CommitFailure(h)
        \/ ReadForSync(h) \/ CommitNoted(h) \/ CommitSync(h)
        \/ Abandon(h)
    BY <1>2 DEF Gateway
  <2>1. ASSUME NEW next, job' = [job EXCEPT ![h] = next], h # g
        PROVE  JobMoves(g)
    BY <1>1, <2>1 DEF JobMoves
  <2>2. Idle.stage = "IDLE"
    BY DEF Idle
  <2>3. ASSUME FinishJob(h)  PROVE JobMoves(g)
    BY <1>1, <2>1, <2>2, <2>3 DEF JobMoves, FinishJob
  <2>4. ASSUME NEW o \in Orders, Online(o), NEW stage \in {"CHARGING", "EXPIRE"},
               job' = [job EXCEPT ![h] = [Idle EXCEPT !.stage = stage, !.order = o]],
               shape' = shape
        PROVE  JobMoves(g)
    BY <1>1, <2>1, <2>4 DEF JobMoves, Idle
  <2>5. ASSUME job[h].stage # "IDLE", NEW stage \in {"CHARGED", "EXPIRE"},
               job' = [job EXCEPT ![h].stage = stage], shape' = shape
        PROVE  JobMoves(g)
    <3>1. job'[h].order = job[h].order /\ job'[h].stage = stage
      BY <1>1, <2>5 DEF Jobs
    <3>2. h # g => job'[g] = job[g]
      BY <1>1, <2>5
    <3> QED
      BY <1>1, <2>5, <3>1, <3>2 DEF JobMoves
  <2>6. CASE \E o \in Orders : StartCharge(h, o) \/ StartExpiry(h, o)
    BY <2>4, <2>6 DEF StartCharge, StartExpiry, StartJob, Overdue, Candidate
  <2>7. CASE \E o \in Orders, overdue \in BOOLEAN : Fetch(h, o, overdue)
    <3> PICK o \in Orders, overdue \in BOOLEAN : Fetch(h, o, overdue)
      BY <2>7
    <3>1. /\ job' = [job EXCEPT ![h] = [Idle EXCEPT !.stage = "FETCHED", !.order = o,
                                                    !.mapped = remote[o], !.overdue = overdue]]
          /\ Online(o) /\ shape' = shape
      BY DEF Fetch
    <3>2. h = g => job'[g].stage = "FETCHED" /\ job'[g].order = o
      BY <1>1, <3>1 DEF Idle
    <3> QED
      BY <2>1, <3>1, <3>2 DEF JobMoves
  <2>8. CASE ReadForFailure(h) \/ ReadForSync(h)
    <3>1. /\ job[h].stage # "IDLE" /\ shape' = shape /\ order' = order
          /\ reservation' = reservation
          /\ \E stage \in Stages :
               job' = [job EXCEPT ![h].stage = stage, ![h].row = order[job[h].order],
                                  ![h].resv = reservation[job[h].order]]
      BY <2>8 DEF ReadForFailure, ReadForSync, Stages, orderVars, claimVars
    <3>2. /\ job'[h].order = job[h].order /\ job'[h].row = order[job[h].order]
          /\ job'[h].resv = reservation[job[h].order]
      BY <1>1, <3>1 DEF Jobs
    <3>3. h # g => job'[g] = job[g]
      BY <1>1, <3>1
    <3> QED
      BY <3>1, <3>2, <3>3 DEF JobMoves
  <2>9. CASE CommitNoted(h)
    <3>1. job[h].order \in Orders /\ Online(job[h].order)
      BY <1>1, <2>9 DEF CommitNoted, Inv, TypeOK, ActorsTypeOK
    <3> QED
      BY <2>3, <2>4, <2>9, <3>1 DEF CommitNoted
  <2> QED
    BY <2>3, <2>5, <2>6, <2>7, <2>8, <2>9
    DEF ChargeAccepted, ChargeLost, ChargeRefused, RecordCharge, CommitFailure, CommitSync, Abandon,
        Proceed
<1>3. CASE UNCHANGED job
  BY <1>3 DEF JobMoves
<1>4. Gateway \/ UNCHANGED job
  <2>1. CASE UNCHANGED vars
    BY <2>1 DEF vars, mpVars
  <2>2. CASE Checkout
    BY <2>2 DEF Checkout, Place, PlacePos, mpVars
  <2>3. CASE Dashboard
    BY <2>3, DashboardKeeps
  <2>4. CASE Environment
    <3>1. \A o \in Orders : ReportPayment(o) => UNCHANGED job
      BY DEF ReportPayment, ChangePayment, mpVars
    <3> QED
      BY <2>4, <3>1 DEF Environment, ExpireReservations, Tick, RemoteMoves, mpVars
  <2> QED  BY <2>1, <2>2, <2>3, <2>4 DEF Next
<1> QED
  BY <1>2, <1>3, <1>4

(* The newest history row of an order stays, or is the one of this step.   *)
HistoryMoves(o) ==
  \/ /\ lastChange'[o] = lastChange[o]
     /\ order'[o] = order[o] \/ order'[o].version = order[o].version + 1
  \/ /\ lastChange'[o].version <= order'[o].version
     /\ <<order'[o].status, lastChange'[o].from>> \in ReversibleEdges
          => order'[o].pay # "REFUNDED"

(* A writer leaves a history whose last row is of the version it wrote.    *)
LEMMA HistoryWrite ==
  ASSUME Inv, NEW o \in Orders, NEW st \in OrderStatuses, NEW pay \in PaymentStatuses,
         NEW by, NEW undo, WriteOrder(o, st, pay),
         \/ /\ WriteHistory(o, st, by, undo)
            /\ <<st, order[o].status>> \in ReversibleEdges => pay # "REFUNDED"
         \/ UNCHANGED lastChange
  PROVE  \A p \in Orders : HistoryMoves(p)
<1>1. /\ order \in [Orders -> Rows] /\ lastChange \in [Orders -> HistoryRows]
  BY DEF Inv, TypeOK, OrdersTypeOK, HistoryRows
<1>2. /\ order'[o].version = order[o].version + 1 /\ order'[o].status = st /\ order'[o].pay = pay
      /\ \A p \in Orders \ {o} : order'[p] = order[p]
  BY <1>1 DEF WriteOrder
<1>3. CASE UNCHANGED lastChange
  BY <1>2, <1>3 DEF HistoryMoves
<1>4. CASE /\ WriteHistory(o, st, by, undo)
           /\ <<st, order[o].status>> \in ReversibleEdges => pay # "REFUNDED"
  <2>1. /\ lastChange'[o].from = order[o].status
        /\ lastChange'[o].version = order[o].version + 1
        /\ \A p \in Orders \ {o} : lastChange'[p] = lastChange[p]
    BY <1>1, <1>4 DEF WriteHistory
  <2>2. order[o].version + 1 <= order'[o].version
    BY <1>1, <1>2 DEF Rows
  <2> QED
    BY <1>2, <1>4, <2>1, <2>2 DEF HistoryMoves
<1> QED
  BY <1>3, <1>4

(* Every step moves the history in one of the ways named by HistoryMoves.  *)
LEMMA HistoryStep ==
  ASSUME Inv, [Next]_vars, NEW p \in Orders
  PROVE  HistoryMoves(p)
<1> DEFINE Quiet == UNCHANGED <<shape, orderVars>>
<1>1. ASSUME Quiet  PROVE HistoryMoves(p)
  BY <1>1 DEF HistoryMoves, orderVars
<1>2. /\ order \in [Orders -> Rows] /\ lastChange \in [Orders -> HistoryRows]
  BY DEF Inv, TypeOK, OrdersTypeOK, HistoryRows
<1>3. CASE UNCHANGED vars
  BY <1>1, <1>3 DEF vars
<1>4. CASE Checkout
  <2> PICK o \in Orders, sh \in Shapes, coupon \in BOOLEAN, discounted \in BOOLEAN :
        \/ Place(o, sh, coupon, discounted)
        \/ \E u \in Staff, paidNow \in BOOLEAN : PlacePos(u, o, sh, coupon, discounted, paidNow)
    BY <1>4 DEF Checkout
  <2>1. CASE p # o
    BY <1>2, <2>1 DEF Place, PlacePos, HistoryMoves
  <2>2. ASSUME p = o  PROVE /\ order'[p].version \in {0, 1, 2}
                            /\ order'[p].pay # "REFUNDED"
                            /\ lastChange'[p].version <= order'[p].version
    <3>1. CASE Place(o, sh, coupon, discounted)
      BY <1>2, <2>2, <3>1 DEF Place
    <3>2. ASSUME NEW u \in Staff, NEW paidNow \in BOOLEAN,
                 PlacePos(u, o, sh, coupon, discounted, paidNow)
          PROVE  /\ order'[p].version \in {0, 1, 2} /\ order'[p].pay # "REFUNDED"
                 /\ lastChange'[p].version <= order'[p].version
      <4>1. order'[p].version \in {1, 2} /\ order'[p].pay # "REFUNDED"
        BY <1>2, <2>2, <3>2 DEF PlacePos
      <4>2. lastChange'[p].version \in {0, 1}
        BY <1>2, <2>2, <3>2 DEF PlacePos
      <4> QED  BY <4>1, <4>2
    <3> QED  BY <3>1, <3>2
  <2> QED
    BY <2>1, <2>2 DEF HistoryMoves
<1>5. CASE Dashboard
  <2> PICK u \in Staff, o \in Orders :
        \/ Look(u, o)
        \/ \E next \in OrderStatuses : Advance(u, o, next)
        \/ Cancel(u, o) \/ Undo(u, o) \/ AddNote(u, o)
        \/ ConfirmManualPayment(u, o) \/ MarkPaymentFailed(u, o)
        \/ RetryFailedPayment(u, o) \/ RefundPayment(u, o)
    BY <1>5 DEF Dashboard
  <2>1. order[o].status \in OrderStatuses /\ order[o].pay \in PaymentStatuses
    BY <1>2 DEF Rows
  <2>2. CASE Look(u, o)
    BY <1>1, <2>2 DEF Look
  <2>3. ASSUME NEW next \in OrderStatuses, Advance(u, o, next)
        PROVE  HistoryMoves(p)
    <3>1. PICK pay \in PaymentStatuses :
            /\ WriteOrder(o, next, pay) /\ WriteHistory(o, next, u, FALSE) /\ pay # "REFUNDED"
      BY <2>1, <2>3 DEF Advance, CanTransitionOrder, PaymentStatuses
    <3> QED  BY <3>1, HistoryWrite
  <2>4. CASE Cancel(u, o)
    <3>1. "CANCELLED" \in OrderStatuses /\ <<"CANCELLED", order[o].status>> \notin ReversibleEdges
      BY DEF OrderStatuses, ReversibleEdges
    <3>2. PICK pay \in PaymentStatuses :
            WriteOrder(o, "CANCELLED", pay) /\ WriteHistory(o, "CANCELLED", u, FALSE)
      BY <2>1, <2>4 DEF Cancel, PaymentStatuses
    <3> QED  BY <3>1, <3>2, HistoryWrite
  <2>5. CASE Undo(u, o)
    <3> DEFINE back == lastChange[o].from
               pay == order[o].pay
    <3>1. /\ back \in OrderStatuses /\ WriteOrder(o, back, pay) /\ WriteHistory(o, back, u, TRUE)
          /\ <<order[o].status, back>> \in ReversibleEdges
          /\ lastChange[o].version = order[o].version
      BY <2>5 DEF Undo, Undoable, ReversibleEdges, OrderStatuses
    <3>2. pay # "REFUNDED"
      BY <3>1 DEF Inv, LastForwardUnrefunded
    <3> HIDE DEF back, pay
    <3> QED  BY <2>1, <3>1, <3>2, HistoryWrite DEF pay
  <2>6. CASE AddNote(u, o)
    <3>1. WriteOrder(o, order[o].status, order[o].pay) /\ UNCHANGED lastChange
      BY <2>6 DEF AddNote
    <3> QED  BY <2>1, <3>1, HistoryWrite
  <2>7. CASE ConfirmManualPayment(u, o) \/ MarkPaymentFailed(u, o)
               \/ RetryFailedPayment(u, o) \/ RefundPayment(u, o)
    <3>1. \E op \in PaymentOperations :
            WriteOrder(o, order[o].status, OperationTarget(op)) /\ UNCHANGED lastChange
      BY <2>7 DEF ConfirmManualPayment, MarkPaymentFailed, RetryFailedPayment, RefundPayment,
                  ChangePayment, PaymentOperations
    <3> QED  BY <2>1, <3>1, HistoryWrite, OperationTargetType
  <2> QED
    BY <2>2, <2>3, <2>4, <2>5, <2>6, <2>7
<1>6. CASE Gateway
  <2>1. ASSUME NEW g \in Gateways, CommitFailure(g)
        PROVE  HistoryMoves(p)
    <3> DEFINE o == job[g].order
    <3>1. o \in Orders
      BY <2>1 DEF CommitFailure, Inv, TypeOK, ActorsTypeOK
    <3>2. \/ WriteOrder(o, "CANCELLED", "FAILED") /\ WriteHistory(o, "CANCELLED", None, FALSE)
          \/ Quiet
      BY <2>1 DEF CommitFailure, orderVars
    <3>3. "CANCELLED" \in OrderStatuses /\ "FAILED" \in PaymentStatuses
      BY DEF OrderStatuses, PaymentStatuses
    <3> HIDE DEF o, Quiet
    <3> QED  BY <1>1, <3>1, <3>2, <3>3, HistoryWrite
  <2>2. ASSUME NEW g \in Gateways, CommitSync(g)
        PROVE  HistoryMoves(p)
    <3> DEFINE o == job[g].order
               d == Decision(g)
    <3>1. /\ job[g].stage = "SYNC" /\ d.kind = "TRANSITION" /\ job[g].row = order[o]
          /\ WriteOrder(o, d.status, d.pay)
          /\ \/ d.status # order[o].status /\ WriteHistory(o, d.status, None, FALSE)
             \/ UNCHANGED lastChange
      BY <2>2 DEF CommitSync
    <3>2. o \in Orders
      BY <3>1, DecisionOfJob DEF Inv
    <3>3. d = DecideProviderTransition(job[g].row.pay, job[g].row.status, job[g].mapped)
      BY DEF Decision
    <3> HIDE DEF d, o
    <3>4. /\ d.status \in OrderStatuses /\ d.pay \in PaymentStatuses
          /\ d.status # order[o].status => d.pay # "REFUNDED"
      BY <3>1, <3>3, DecisionOfJob, DecisionType DEF Inv
    <3> QED  BY <3>1, <3>2, <3>4, HistoryWrite
  <2>3. \/ \E g \in Gateways : CommitFailure(g) \/ CommitSync(g)
        \/ Quiet
    BY <1>6 DEF Gateway, StartCharge, StartExpiry, Fetch, ChargeAccepted, ChargeLost, ChargeRefused,
                RecordCharge, ReadForFailure, ReadForSync, CommitNoted, Abandon
  <2> QED
    BY <1>1, <2>1, <2>2, <2>3
<1>7. CASE Environment
  <2>1. ASSUME NEW o \in Orders, ReportPayment(o)
        PROVE  HistoryMoves(p)
    <3>1. /\ WriteOrder(o, order[o].status, OperationTarget("REPORT_BY_CUSTOMER"))
          /\ UNCHANGED lastChange
      BY <2>1 DEF ReportPayment, ChangePayment
    <3>2. OperationTarget("REPORT_BY_CUSTOMER") \in PaymentStatuses
          /\ order[o].status \in OrderStatuses
      BY <1>2, OperationTargetType DEF PaymentOperations, Rows
    <3> QED  BY <3>1, <3>2, HistoryWrite
  <2>2. (\E o \in Orders : ReportPayment(o)) \/ Quiet
    BY <1>7 DEF Environment, ExpireReservations, Tick, RemoteMoves
  <2> QED
    BY <1>1, <2>1, <2>2
<1> QED
  BY <1>3, <1>4, <1>5, <1>6, <1>7 DEF Next

-----------------------------------------------------------------------------
(* The invariant is inductive.                                             *)

(* The first state satisfies the inductive invariant.                      *)
LEMMA InvInit ==
  ASSUME Init
  PROVE  Inv
<1>1. TypeOK
  BY TypeInit
<1>2. \A o \in Orders : ~Placed(o)
  BY DEF Init, Placed
<1>3. ActorsSawPlaced
  BY DEF Init, ActorsSawPlaced, Idle
<1>4. LastForwardUnrefunded
  BY DEF Init, LastForwardUnrefunded
<1>5. PaymentRowAgrees /\ StatusAgreesWithPayment /\ OnlinePaidBeforeKitchen
  BY <1>2 DEF PaymentRowAgrees, StatusAgreesWithPayment, OnlinePaidBeforeKitchen, Online
<1>6. VersionPinsRow
  BY DEF Init, VersionPinsRow, Idle
<1> QED
  BY <1>1, <1>3, <1>4, <1>5, <1>6 DEF Inv

(* A placed order stays placed, and its row only changes with its version. *)
LEMMA PlacedStep ==
  ASSUME Inv, [Next]_vars, NEW o \in Orders, Placed(o)
  PROVE  /\ shape'[o] = shape[o]
         /\ order'[o] = order[o] \/ order'[o].version = order[o].version + 1
BY RowStep DEF RowKept, Touched, Created, Moved

(* What screens and jobs have read is of orders that are placed.           *)
LEMMA ActorsSawPlacedStep ==
  ASSUME Inv, [Next]_vars
  PROVE  ActorsSawPlaced'
<1>1. TypeOK /\ TypeOK' /\ ActorsSawPlaced
  BY TypeStep DEF Inv
<1>2. ASSUME NEW u \in Staff, seen'[u] # None
      PROVE  shape'[seen'[u].order] # None
  <2>1. CASE seen'[u] = seen[u]
    <3>1. seen[u].order \in Orders /\ Placed(seen[u].order)
      BY <1>1, <1>2, <2>1 DEF ActorsSawPlaced, TypeOK, ActorsTypeOK, Snapshots
    <3> QED  BY <2>1, <3>1, PlacedStep DEF Placed
  <2>2. CASE \E o \in Orders : Placed(o) /\ seen'[u] = [order |-> o, row |-> order[o]]
                                 /\ shape' = shape /\ order' = order
    BY <2>2 DEF Placed
  <2> QED  BY <2>1, <2>2, SeenStep
<1>3. ASSUME NEW g \in Gateways, job'[g].stage # "IDLE"
      PROVE  shape'[job'[g].order] # None /\ shape'[job'[g].order].online
  <2>1. CASE job'[g] = job[g]
    <3>1. job[g].order \in Orders /\ Online(job[g].order)
      BY <1>1, <1>3, <2>1 DEF ActorsSawPlaced, TypeOK, ActorsTypeOK
    <3> QED  BY <2>1, <3>1, PlacedStep DEF Placed, Online
  <2>2. CASE Online(job'[g].order) /\ shape' = shape
    BY <2>2 DEF Online, Placed
  <2>3. CASE job[g].stage # "IDLE" /\ job'[g].order = job[g].order /\ shape' = shape
    BY <1>1, <2>3 DEF ActorsSawPlaced, Online, Placed
  <2> QED  BY <1>3, <2>1, <2>2, <2>3, JobStep DEF JobMoves
<1> QED
  BY <1>2, <1>3 DEF ActorsSawPlaced, Placed, Online

(* A row that was read and still has its version is still the row that was *)
(* read.                                                                   *)
LEMMA VersionPinsStep ==
  ASSUME Inv, [Next]_vars
  PROVE  VersionPinsRow'
<1>1. TypeOK /\ ActorsSawPlaced /\ VersionPinsRow /\ order \in [Orders -> Rows]
  BY DEF Inv, TypeOK, OrdersTypeOK
<1>2. ASSUME NEW o \in Orders, Placed(o), NEW row \in Rows,
             row.version <= order[o].version, row.version = order[o].version => row = order[o]
      PROVE  /\ row.version <= order'[o].version
             /\ row.version = order'[o].version => row = order'[o]
  <2>1. row.version \in Int /\ order[o].version \in Int
    BY <1>1, <1>2 DEF Rows
  <2>2. order'[o] = order[o] \/ order'[o].version = order[o].version + 1
    BY <1>2, PlacedStep
  <2> QED  BY <1>2, <2>1, <2>2
<1>3. ASSUME NEW u \in Staff, seen'[u] # None
      PROVE  /\ seen'[u].row.version <= order'[seen'[u].order].version
             /\ seen'[u].row.version = order'[seen'[u].order].version
                  => seen'[u].row = order'[seen'[u].order]
  <2>1. CASE seen'[u] = seen[u]
    <3>1. /\ seen[u].order \in Orders /\ seen[u].row \in Rows
          /\ Placed(seen[u].order)
          /\ seen[u].row.version <= order[seen[u].order].version
          /\ seen[u].row.version = order[seen[u].order].version => seen[u].row = order[seen[u].order]
      BY <1>1, <1>3, <2>1 DEF ActorsSawPlaced, VersionPinsRow, TypeOK, ActorsTypeOK, Snapshots
    <3> QED  BY <1>2, <2>1, <3>1
  <2>2. CASE \E o \in Orders : seen'[u] = [order |-> o, row |-> order[o]] /\ order' = order
    <3> PICK o \in Orders : seen'[u] = [order |-> o, row |-> order[o]] /\ order' = order
      BY <2>2
    <3>1. order[o].version <= order[o].version
      BY <1>1 DEF Rows
    <3> QED  BY <3>1
  <2> QED  BY <2>1, <2>2, SeenStep
<1>4. ASSUME NEW g \in Gateways, job'[g].stage \in {"SYNC", "FAIL"}
      PROVE  /\ job'[g].row.version <= order'[job'[g].order].version
             /\ job'[g].row.version = order'[job'[g].order].version
                  => job'[g].row = order'[job'[g].order]
  <2>1. CASE job'[g] = job[g]
    <3>1. /\ job[g].order \in Orders /\ job[g].row \in Rows
          /\ Placed(job[g].order)
          /\ job[g].row.version <= order[job[g].order].version
          /\ job[g].row.version = order[job[g].order].version => job[g].row = order[job[g].order]
      BY <1>1, <1>4, <2>1 DEF ActorsSawPlaced, VersionPinsRow, TypeOK, ActorsTypeOK, Online
    <3> QED  BY <1>2, <2>1, <3>1
  <2>2. CASE /\ job[g].stage # "IDLE" /\ job'[g].order = job[g].order
             /\ job'[g].row = order[job[g].order] /\ order' = order
    <3>1. job[g].order \in Orders
      BY <1>1, <2>2 DEF TypeOK, ActorsTypeOK
    <3>2. order[job[g].order].version <= order[job[g].order].version
      BY <1>1, <3>1 DEF Rows
    <3> QED  BY <2>2, <3>2
  <2> QED  BY <1>4, <2>1, <2>2, JobStep DEF JobMoves
<1> QED
  BY <1>3, <1>4 DEF VersionPinsRow

(* Every step keeps the inductive invariant.                               *)
LEMMA InvStep ==
  ASSUME Inv, [Next]_vars
  PROVE  Inv'
<1>1. TypeOK'
  BY TypeStep DEF Inv
<1>2. \A o \in Orders : RowKept(o) \/ Created(o) \/ Moved(o)
  BY RowStep DEF Touched
<1>3. LastForwardUnrefunded'
  <2>1. ASSUME NEW o \in Orders
        PROVE  /\ lastChange'[o].version <= order'[o].version
               /\ (/\ lastChange'[o].version = order'[o].version
                   /\ <<order'[o].status, lastChange'[o].from>> \in ReversibleEdges)
                    => order'[o].pay # "REFUNDED"
    <3>1. /\ lastChange[o].version \in Int /\ order[o].version \in Int
          /\ lastChange[o].version <= order[o].version
          /\ (/\ lastChange[o].version = order[o].version
              /\ <<order[o].status, lastChange[o].from>> \in ReversibleEdges)
               => order[o].pay # "REFUNDED"
      BY DEF Inv, LastForwardUnrefunded, TypeOK, OrdersTypeOK, Rows
    <3> QED  BY <3>1, HistoryStep DEF HistoryMoves
  <2> QED  BY <2>1 DEF LastForwardUnrefunded
<1>4. PaymentRowAgrees'
  BY <1>2 DEF Inv, PaymentRowAgrees, RowKept, Created, Moved, Placed
<1>5. StatusAgreesWithPayment'
  BY <1>2, StatusStep DEF Inv, StatusAgreesWithPayment, RowKept, Placed
<1>6. OnlinePaidBeforeKitchen'
  BY <1>2, OnlineStep DEF Inv, OnlinePaidBeforeKitchen, RowKept, Placed, Online
<1> QED
  BY <1>1, <1>3, <1>4, <1>5, <1>6, ActorsSawPlacedStep, VersionPinsStep DEF Inv

(* The invariant holds in every reachable state, and with it the safety    *)
(* properties the runs check on small instances.                           *)
THEOREM Invariance == Spec => []Inv
BY InvInit, InvStep, PTL DEF Spec

(* An order's paymentStatus and its payment's status never differ: the     *)
(* deferred trigger of the schema never fires.                             *)
THEOREM PaymentAgreement == Spec => []PaymentRowAgrees
<1>1. Inv => PaymentRowAgrees
  BY DEF Inv
<1> QED  BY <1>1, Invariance, PTL

(* Comparing the version is enough: whoever holds an order's current       *)
(* version, a screen or an open transaction, holds its current row.        *)
THEOREM VersionPinning == Spec => []VersionPinsRow
<1>1. Inv => VersionPinsRow
  BY DEF Inv
<1> QED  BY <1>1, Invariance, PTL

(* What is delivered was paid, a paid order is never cancelled, and a      *)
(* payment is cancelled only with its order.                               *)
THEOREM StatusPaymentAgreement == Spec => []StatusAgreesWithPayment
<1>1. Inv => StatusAgreesWithPayment
  BY DEF Inv
<1> QED  BY <1>1, Invariance, PTL

(* No unpaid online order is ever in the kitchen.                          *)
THEOREM OnlinePaidFirst == Spec => []OnlinePaidBeforeKitchen
<1>1. Inv => OnlinePaidBeforeKitchen
  BY DEF Inv
<1> QED  BY <1>1, Invariance, PTL

-----------------------------------------------------------------------------
(* The lifecycle implements OrderPromise.                                  *)

(* The first state is a first state of what the store promises.            *)
LEMMA FaceInit ==
  ASSUME Init
  PROVE  Promise!Init
BY DEF Init, Promise!Init, face, Placed

(* An existing order that moves shows one of the promised steps, or none.  *)
LEMMA MoveIsPromised ==
  ASSUME Inv, NEW o \in Orders, Moved(o), \A p \in Orders \ {o} : RowKept(p)
  PROVE  UNCHANGED face \/ Promise!Work(o) \/ Promise!Deliver(o) \/ Promise!Cancel(o)
           \/ Promise!Activate(o) \/ Promise!Settle(o)
<1> DEFINE st == order[o].status
           pay == order[o].pay
           st2 == order'[o].status
           pay2 == order'[o].pay
           sh == shape[o]
<1>1. /\ Placed(o) /\ shape'[o] = sh /\ Move(sh, st, pay, st2, pay2)
      /\ ValidShape(sh) /\ st \in OrderStatuses /\ pay \in PaymentStatuses
  BY ShapeFacts DEF Moved
<1>2. /\ st = "CANCELLED" => pay # "PAID"
      /\ st = "DELIVERED" => pay \in {"PAID", "REFUNDED"}
      /\ st = "AWAITING_PAYMENT" => sh.online /\ pay = "PENDING"
      /\ pay = "CANCELLED" => st = "CANCELLED"
  BY <1>1 DEF Inv, StatusAgreesWithPayment
<1>3. /\ face[o] = [status |-> st, pay |-> pay] /\ face[o] # None
      /\ face[o].status = st /\ face[o].pay = pay
      /\ Promise!Shows(o, st2, pay2)
  <2>1. order[o] \in Rows /\ order'[o].status = st2 /\ order'[o].pay = pay2
    BY DEF Inv, TypeOK, OrdersTypeOK
  <2>2. face[o] = [status |-> st, pay |-> pay]
    BY <1>1 DEF face
  <2>3. [status |-> st, pay |-> pay] # None
    BY <1>1, NoneAssumption
  <2>4. Placed(o)'
    BY <1>1 DEF Placed
  <2>5. face' = [face EXCEPT ![o] = [status |-> st2, pay |-> pay2]]
    BY <2>4 DEF face, RowKept, Placed
  <2> QED  BY <2>2, <2>3, <2>5 DEF Promise!Shows
<1> HIDE DEF st, pay, st2, pay2, sh
<1>4. CASE st2 = st /\ pay2 = pay
  <2>1. face = [p \in Orders |-> face[p]]
    BY DEF face
  <2>2. face' = [face EXCEPT ![o] = face[o]]
    BY <1>3, <1>4 DEF Promise!Shows
  <2> QED  BY <2>1, <2>2
<1>5. CASE /\ st2 # "CANCELLED" /\ CanTransitionOrder(sh, st, pay, st2)
           /\ pay2 = IF st2 = "DELIVERED" /\ pay = "PENDING"
                        /\ sh.modality # "DINE_IN" /\ sh.method # "PIX"
                     THEN "PAID" ELSE pay
  <2>1. ForwardTransition(sh, st, pay, st2) /\ pay # "REFUNDED"
    BY <1>5 DEF CanTransitionOrder
  <2>2. CASE st2 = "DELIVERED"
    <3>1. /\ st \in {"READY", "OUT_FOR_DELIVERY"} /\ pay \in {"PENDING", "PAID"} /\ pay2 = "PAID"
      BY <1>5, <2>1, <2>2 DEF ForwardTransition, ForwardEdges, CanCompleteOrder
    <3> QED  BY <1>3, <2>2, <3>1 DEF Promise!Deliver
  <2>3. CASE st2 # "DELIVERED"
    <3>1. pay2 = pay
      BY <1>5, <2>3
    <3>2. <<st, st2>> \in {<<"PENDING", "CONFIRMED">>, <<"CONFIRMED", "PREPARING">>,
                           <<"PREPARING", "READY">>, <<"READY", "OUT_FOR_DELIVERY">>}
      BY <2>1, <2>3 DEF ForwardTransition, ForwardEdges
    <3>3. \E i, j \in 1..5 :
            /\ st = Promise!Kitchen[i] /\ (j = i + 1 \/ i = j + 1) /\ st2 = Promise!Kitchen[j]
      BY <3>2 DEF Promise!Kitchen
    <3>4. Promise!Work(o)
      BY <1>3, <2>1, <3>1, <3>3 DEF Promise!Work
    <3> QED  BY <3>4
  <2> QED  BY <2>2, <2>3
<1>6. CASE /\ st2 = "CANCELLED" /\ CanTransitionOrder(sh, st, pay, st2)
           /\ pay # "PAID" /\ ~sh.online
           /\ pay2 = IF pay \in {"PENDING", "CUSTOMER_REPORTED_PAID", "FAILED"}
                     THEN "CANCELLED" ELSE pay
  <2>1. st \notin {"DELIVERED", "CANCELLED"}
    BY <1>6 DEF CanTransitionOrder
  <2>2. pay2 \in {"CANCELLED", "REFUNDED"} /\ (pay2 = "REFUNDED" <=> pay = "REFUNDED")
    BY <1>1, <1>2, <1>6, <2>1 DEF PaymentStatuses
  <2>3. Promise!Cancel(o)
    BY <1>3, <1>6, <2>1, <2>2 DEF Promise!Cancel
  <2> QED  BY <2>3
<1>7. CASE <<st, st2>> \in ReversibleEdges /\ pay2 = pay /\ pay # "REFUNDED"
  <2>1. \E i, j \in 1..5 :
          /\ st = Promise!Kitchen[i] /\ (j = i + 1 \/ i = j + 1) /\ st2 = Promise!Kitchen[j]
    BY <1>7 DEF Promise!Kitchen, ReversibleEdges
  <2>2. Promise!Work(o)
    BY <1>3, <1>7, <2>1 DEF Promise!Work
  <2> QED  BY <2>2
<1>8. ASSUME st2 = st, ~sh.online,
             NEW op \in PaymentOperations \ {"CANCEL"},
             CanTransitionPayment(sh.method, st, pay, op), pay2 = OperationTarget(op)
      PROVE  Promise!Settle(o)
  <2>1. /\ pay2 \in {"PENDING", "CUSTOMER_REPORTED_PAID", "PAID", "FAILED", "REFUNDED"}
        /\ pay2 = "REFUNDED" <=> pay = "PAID"
        /\ pay # "REFUNDED"
    BY <1>8 DEF CanTransitionPayment, OperationTarget, PaymentOperations, PaymentEdges
  <2>2. pay2 # "REFUNDED" => st \in {"PENDING", "CONFIRMED", "PREPARING", "READY", "OUT_FOR_DELIVERY"}
    BY <1>1, <1>2, <1>8 DEF CanTransitionPayment, OperationTarget, PaymentOperations, PaymentEdges,
                            OrderStatuses
  <2>3. st \in {"PENDING", "CONFIRMED", "PREPARING", "READY", "OUT_FOR_DELIVERY"}
          => \E i \in 1..5 : Promise!Kitchen[i] = st
    BY DEF Promise!Kitchen
  <2> QED  BY <1>3, <1>8, <2>1, <2>2, <2>3 DEF Promise!Settle, Promise!InKitchen
<1>9. CASE st = "AWAITING_PAYMENT" /\ pay = "PENDING" /\ st2 = "PENDING" /\ pay2 = "PAID"
  BY <1>3, <1>9 DEF Promise!Activate
<1>10. CASE /\ st = "AWAITING_PAYMENT" /\ pay = "PENDING"
            /\ st2 = "CANCELLED" /\ pay2 \in {"FAILED", "CANCELLED"}
  <2>1. Promise!Cancel(o)
    BY <1>3, <1>10 DEF Promise!Cancel
  <2> QED  BY <2>1
<1>11. CASE st2 = st /\ pay = "PAID" /\ pay2 = "REFUNDED"
  BY <1>3, <1>11 DEF Promise!Settle
<1> QED
  BY <1>1, <1>4, <1>5, <1>6, <1>7, <1>8, <1>9, <1>10, <1>11 DEF Move

(* An order that is created appears in the way that is promised.           *)
LEMMA CreationIsPromised ==
  ASSUME Inv, NEW o \in Orders, Created(o), \A p \in Orders \ {o} : RowKept(p)
  PROVE  Promise!Appear(o)
<1> DEFINE st == order'[o].status
           pay == order'[o].pay
<1>1. face[o] = None
  BY DEF face, Created
<1>2. Placed(o)'
  BY ShapesAssumption DEF Created, Placed
<1>3. face' = [face EXCEPT ![o] = [status |-> st, pay |-> pay]]
  BY <1>2 DEF face, RowKept, Placed
<1>4. \/ st = "AWAITING_PAYMENT" /\ pay = "PENDING"
      \/ st = "PENDING" /\ pay = "PENDING"
      \/ st = "CONFIRMED" /\ pay \in {"PENDING", "PAID"}
  BY DEF Created
<1> HIDE DEF st, pay
<1> QED
  BY <1>1, <1>3, <1>4 DEF Promise!Appear, Promise!Shows

(* Every step of the code is a step, or a stutter, of what is promised.    *)
LEMMA FaceStep ==
  ASSUME Inv, [Next]_vars
  PROVE  [Promise!Next]_face
<1>1. CASE \A p \in Orders : RowKept(p)
  BY <1>1 DEF RowKept, face, Placed
<1>2. ASSUME NEW o \in Orders, Touched(o)
      PROVE  [Promise!Next]_face
  BY <1>2, MoveIsPromised, CreationIsPromised DEF Touched, Promise!Next
<1> QED
  BY <1>1, <1>2, RowStep

(* Whatever staff, gateways, customers and Mercado Pago do, what they show *)
(* of an order is a behaviour of OrderPromise.                             *)
THEOREM PromiseRefinement == Spec => PromiseKept
BY Invariance, FaceInit, FaceStep, PTL DEF Spec, PromiseKept, Promise!Spec

-----------------------------------------------------------------------------
(* Events and history.                                                     *)

Settled == {"PAID", "REFUNDED"}
Neutral == {"PAYMENT_UPDATED", "ORDER_INTERNAL_NOTE_ADDED"}

(* A write of an existing order's row, with its events.                    *)
Writes(o, st, pay, types) ==
  /\ Placed(o) /\ UNCHANGED shape
  /\ types # {}
  /\ WriteOrder(o, st, pay)
  /\ Announce(o, types, st, pay)

(* The events of a write, seen from the order's announcement: either it is *)
(* the payment that makes an online order actionable, or an order that was *)
(* actionable stays so, and only such an order is worked on.               *)
TypesDue(o, pay, types) ==
  \/ /\ shape[o].online /\ order[o].pay \notin Settled /\ pay = "PAID"
     /\ types = {"PAYMENT_UPDATED", "ORDER_CREATED"}
  \/ /\ "ORDER_CREATED" \notin types
     /\ shape[o].online => (pay \in Settled <=> order[o].pay \in Settled)
     /\ types \subseteq Neutral \/ ~shape[o].online \/ order[o].pay \in Settled

EventWrite ==
  \E o \in Orders, st \in OrderStatuses, pay \in PaymentStatuses, types \in SUBSET EventTypes :
    Writes(o, st, pay, types) /\ TypesDue(o, pay, types)

EventQuiet == UNCHANGED <<shape, order, outbox>>

-----------------------------------------------------------------------------
(* Which events go with which write, action by action.                     *)

(* What the inductive invariant says of an order paid online, and of the   *)
(* types of a row.                                                         *)
LEMMA OnlineFacts ==
  ASSUME Inv, NEW o \in Orders, Placed(o)
  PROVE  /\ shape[o].online => shape[o].method = "PIX" /\ ~shape[o].pos
         /\ (shape[o].online /\ order[o].status \notin {"AWAITING_PAYMENT", "CANCELLED"})
              => order[o].pay \in Settled
         /\ order[o].status \in OrderStatuses /\ order[o].pay \in PaymentStatuses
BY ShapeFacts DEF ValidShape, Inv, OnlinePaidBeforeKitchen, Online, Settled

(* Advancing an order announces what TypesDue asks for.                    *)
LEMMA AdvanceEvents ==
  ASSUME Inv, NEW u \in Staff, NEW o \in Orders, NEW next \in OrderStatuses, Advance(u, o, next)
  PROVE  EventWrite
<1> DEFINE row == order[o]
           due == /\ next = "DELIVERED" /\ row.pay = "PENDING"
                  /\ shape[o].modality # "DINE_IN" /\ shape[o].method # "PIX"
           pay == IF due THEN "PAID" ELSE row.pay
           types == {EventTypeForStatus(next)} \cup (IF due THEN {"PAYMENT_UPDATED"} ELSE {})
<1>1. /\ Writes(o, next, pay, types)
      /\ CanTransitionOrder(shape[o], row.status, row.pay, next) /\ next # "CANCELLED"
  BY DEF Advance, Fresh, Writes
<1>2. Placed(o) /\ row.status \notin {"AWAITING_PAYMENT", "CANCELLED"}
  BY <1>1 DEF Writes, CanTransitionOrder
<1>3. pay \in PaymentStatuses /\ types \in SUBSET EventTypes
  BY <1>2, OnlineFacts, EventTypeForStatusType DEF PaymentStatuses, EventTypes
<1>4. TypesDue(o, pay, types)
  <2>1. "ORDER_CREATED" \notin types
    BY DEF EventTypeForStatus
  <2>2. shape[o].online => pay = row.pay /\ row.pay \in Settled
    BY <1>2, OnlineFacts
  <2> QED  BY <2>1, <2>2 DEF TypesDue
<1> HIDE DEF pay, types
<1> QED
  BY <1>1, <1>3, <1>4 DEF EventWrite

(* Cancelling an order announces what TypesDue asks for.                   *)
LEMMA CancelEvents ==
  ASSUME Inv, NEW u \in Staff, NEW o \in Orders, Cancel(u, o)
  PROVE  EventWrite
<1> DEFINE row == order[o]
           due == row.pay \in {"PENDING", "CUSTOMER_REPORTED_PAID", "FAILED"}
           pay == IF due THEN "CANCELLED" ELSE row.pay
           types == {"ORDER_CANCELLED"} \cup (IF due THEN {"PAYMENT_UPDATED"} ELSE {})
<1>1. Writes(o, "CANCELLED", pay, types) /\ ~shape[o].online /\ Placed(o)
  BY DEF Cancel, Fresh, Writes
<1>2. /\ pay \in PaymentStatuses /\ types \in SUBSET EventTypes /\ "CANCELLED" \in OrderStatuses
  BY <1>1, OnlineFacts DEF PaymentStatuses, EventTypes, OrderStatuses
<1>3. TypesDue(o, pay, types)
  BY <1>1 DEF TypesDue
<1> HIDE DEF pay, types
<1> QED
  BY <1>1, <1>2, <1>3 DEF EventWrite

(* Undoing a change announces what TypesDue asks for.                      *)
LEMMA UndoEvents ==
  ASSUME Inv, NEW u \in Staff, NEW o \in Orders, Undo(u, o)
  PROVE  EventWrite
<1> DEFINE back == lastChange[o].from
           pay == order[o].pay
           types == {"ORDER_TRANSITION_UNDONE"}
<1>1. /\ Writes(o, back, pay, types) /\ Placed(o)
      /\ <<order[o].status, back>> \in ReversibleEdges
  BY DEF Undo, Undoable, Fresh, Writes
<1>2. back \in OrderStatuses /\ order[o].status \notin {"AWAITING_PAYMENT", "CANCELLED"}
  BY <1>1 DEF ReversibleEdges, OrderStatuses
<1>3. types \in SUBSET EventTypes
  BY DEF EventTypes
<1>4. pay \in PaymentStatuses /\ (shape[o].online => pay \in Settled)
  BY <1>1, <1>2, OnlineFacts
<1>5. TypesDue(o, pay, types)
  BY <1>4 DEF TypesDue
<1> HIDE DEF back, pay, types
<1> QED
  BY <1>1, <1>2, <1>3, <1>4, <1>5 DEF EventWrite

(* Adding a note announces what TypesDue asks for.                         *)
LEMMA AddNoteEvents ==
  ASSUME Inv, NEW u \in Staff, NEW o \in Orders, AddNote(u, o)
  PROVE  EventWrite
<1> DEFINE st == order[o].status
           pay == order[o].pay
           types == {"ORDER_INTERNAL_NOTE_ADDED"}
<1>1. Writes(o, st, pay, types) /\ Placed(o)
  BY DEF AddNote, Fresh, Writes
<1>2. st \in OrderStatuses /\ pay \in PaymentStatuses /\ types \in SUBSET EventTypes
  BY <1>1, OnlineFacts DEF EventTypes
<1>3. TypesDue(o, pay, types)
  BY DEF TypesDue, Neutral
<1> HIDE DEF st, pay, types
<1> QED
  BY <1>1, <1>2, <1>3 DEF EventWrite

(* Changing a payment by hand announces what TypesDue asks for.            *)
LEMMA ChangePaymentEvents ==
  ASSUME Inv, NEW o \in Orders, NEW op \in PaymentOperations, ChangePayment(o, op)
  PROVE  EventWrite
<1> DEFINE st == order[o].status
           pay == OperationTarget(op)
           types == {"PAYMENT_UPDATED"}
<1>1. Writes(o, st, pay, types) /\ Placed(o) /\ ~shape[o].online
  BY DEF ChangePayment, Writes
<1>2. st \in OrderStatuses /\ pay \in PaymentStatuses /\ types \in SUBSET EventTypes
  BY <1>1, OnlineFacts, OperationTargetType DEF EventTypes
<1>3. TypesDue(o, pay, types)
  BY <1>1 DEF TypesDue, Neutral
<1> HIDE DEF st, pay, types
<1> QED
  BY <1>1, <1>2, <1>3 DEF EventWrite

(* A charge that could not be made announces what TypesDue asks for, or    *)
(* writes nothing.                                                         *)
LEMMA CommitFailureEvents ==
  ASSUME Inv, NEW g \in Gateways, CommitFailure(g)
  PROVE  EventQuiet \/ EventWrite
<1> DEFINE o == job[g].order
           wins == job[g].row = order[o] /\ Payable(o)
           types == {"PAYMENT_UPDATED"}
<1>1. o \in Orders /\ Placed(o)
  BY DEF Inv, TypeOK, ActorsTypeOK, ActorsSawPlaced, Online, CommitFailure
<1>2. CASE wins
  <2>1. Writes(o, "CANCELLED", "FAILED", types) /\ order[o].pay = "PENDING"
    BY <1>1, <1>2 DEF CommitFailure, Payable, Writes
  <2>2. /\ "CANCELLED" \in OrderStatuses /\ "FAILED" \in PaymentStatuses
        /\ types \in SUBSET EventTypes
    BY DEF OrderStatuses, PaymentStatuses, EventTypes
  <2>3. TypesDue(o, "FAILED", types)
    BY <2>1 DEF TypesDue, Neutral, Settled
  <2> HIDE DEF o, types
  <2> QED  BY <1>1, <2>1, <2>2, <2>3 DEF EventWrite
<1>3. CASE ~wins
  BY <1>3 DEF CommitFailure, orderVars, EventQuiet
<1> QED
  BY <1>2, <1>3

(* Writing what the provider says announces what TypesDue asks for.        *)
LEMMA CommitSyncEvents ==
  ASSUME Inv, NEW g \in Gateways, CommitSync(g)
  PROVE  EventWrite
<1> DEFINE o == job[g].order
           d == Decision(g)
           first == order[o].status = "AWAITING_PAYMENT" /\ d.status = "PENDING"
           types == {"PAYMENT_UPDATED"} \cup (IF first THEN {"ORDER_CREATED"} ELSE {})
<1>1. /\ o \in Orders /\ Online(o) /\ Placed(o)
  BY DEF Inv, TypeOK, ActorsTypeOK, ActorsSawPlaced, Online, CommitSync
<1>2. /\ job[g].stage = "SYNC" /\ d.kind = "TRANSITION" /\ job[g].row = order[o]
      /\ Writes(o, d.status, d.pay, types)
  BY <1>1 DEF CommitSync, Writes
<1>3. d = DecideProviderTransition(order[o].pay, order[o].status, job[g].mapped)
  BY <1>2 DEF Decision
<1>4. types \in SUBSET EventTypes
  BY DEF EventTypes
<1>5. /\ d.status \in OrderStatuses /\ d.pay \in PaymentStatuses
      /\ \/ /\ order[o].pay = "PENDING" /\ first /\ d.pay = "PAID"
         \/ /\ order[o].pay = "PENDING" /\ ~first /\ d.pay \in {"FAILED", "CANCELLED"}
         \/ order[o].pay = "PAID" /\ d.status = order[o].status /\ d.pay = "REFUNDED"
  <2>1. /\ job[g].mapped \in ProviderStates
        /\ order[o].pay \in PaymentStatuses /\ order[o].status \in OrderStatuses
    BY <1>2, DecisionOfJob DEF Inv
  <2> HIDE DEF d, o
  <2> QED
    BY <1>2, <1>3, <2>1, DecisionType
<1>6. TypesDue(o, d.pay, types)
  BY <1>1, <1>5 DEF TypesDue, Settled, Neutral, Online
<1> HIDE DEF o, d, types
<1> QED
  BY <1>1, <1>2, <1>4, <1>5, <1>6 DEF EventWrite

(* A step writes nothing an event is about, is a checkout, or writes one   *)
(* order with the events due for it.                                       *)
LEMMA EventStep ==
  ASSUME Inv, [Next]_vars
  PROVE  EventQuiet \/ Checkout \/ EventWrite
<1>1. CASE UNCHANGED vars
  BY <1>1 DEF vars, orderVars, EventQuiet
<1>2. CASE Dashboard
  <2> PICK u \in Staff, o \in Orders :
        \/ Look(u, o)
        \/ \E next \in OrderStatuses : Advance(u, o, next)
        \/ Cancel(u, o) \/ Undo(u, o) \/ AddNote(u, o)
        \/ ConfirmManualPayment(u, o) \/ MarkPaymentFailed(u, o)
        \/ RetryFailedPayment(u, o) \/ RefundPayment(u, o)
    BY <1>2 DEF Dashboard
  <2>1. CASE Look(u, o)
    BY <2>1 DEF Look, orderVars, EventQuiet
  <2>2. CASE ConfirmManualPayment(u, o) \/ MarkPaymentFailed(u, o)
               \/ RetryFailedPayment(u, o) \/ RefundPayment(u, o)
    <3>1. \E op \in PaymentOperations : ChangePayment(o, op)
      BY <2>2 DEF ConfirmManualPayment, MarkPaymentFailed, RetryFailedPayment, RefundPayment,
                  PaymentOperations
    <3> QED  BY <3>1, ChangePaymentEvents
  <2> QED
    BY <2>1, <2>2, AdvanceEvents, CancelEvents, UndoEvents, AddNoteEvents
<1>3. CASE Gateway
  <2>1. ASSUME NEW g \in Gateways, CommitFailure(g) \/ CommitSync(g)
        PROVE  EventQuiet \/ EventWrite
    BY <2>1, CommitFailureEvents, CommitSyncEvents
  <2>2. (\E g \in Gateways : CommitFailure(g) \/ CommitSync(g)) \/ EventQuiet
    BY <1>3 DEF Gateway, StartCharge, StartExpiry, Fetch, ChargeAccepted, ChargeLost, ChargeRefused,
                RecordCharge, ReadForFailure, ReadForSync, CommitNoted, Abandon, orderVars, EventQuiet
  <2> QED  BY <2>1, <2>2
<1>4. CASE Environment
  <2>1. ASSUME NEW o \in Orders, ReportPayment(o)
        PROVE  EventWrite
    BY <2>1, ChangePaymentEvents DEF ReportPayment, PaymentOperations
  <2>2. (\E o \in Orders : ReportPayment(o)) \/ EventQuiet
    BY <1>4 DEF Environment, ExpireReservations, Tick, RemoteMoves, orderVars, EventQuiet
  <2> QED  BY <2>1, <2>2
<1> QED
  BY <1>1, <1>2, <1>3, <1>4 DEF Next

-----------------------------------------------------------------------------
(* The invariant about events, order by order.                             *)

FirstVersion(o) == IF shape[o].online THEN 1 ELSE 0

Covered(o) ==
  /\ \A v \in FirstVersion(o)..order[o].version :
       \E e \in outbox : e.order = o /\ e.version = v
  /\ \A e \in outbox : e.order = o =>
       /\ e.version <= order[o].version
       /\ e.version = order[o].version => e.status = order[o].status /\ e.pay = order[o].pay

Creation(o, e) == e.order = o /\ e.type = "ORDER_CREATED"
Work(o, e) == e.order = o /\ e.type \notin Neutral \cup {"ORDER_CREATED"}
Actionable(o) == ~shape[o].online \/ order[o].pay \in Settled

Announced(o) ==
  /\ Actionable(o) => \E c \in outbox : Creation(o, c) /\ \A d \in outbox : Creation(o, d) => d = c
  /\ ~Actionable(o) => \A d \in outbox : ~Creation(o, d)
  /\ \A w \in outbox : Work(o, w) => \E c \in outbox : Creation(o, c) /\ c.version < w.version

EventInv ==
  /\ \A e \in outbox : Placed(e.order)
  /\ \A o \in Orders : Placed(o) => Covered(o) /\ Announced(o)

(* The types of the tables, as the proofs about events use them.           *)
LEMMA TableFacts ==
  ASSUME Inv
  PROVE  /\ shape \in [Orders -> Shapes \cup {None}] /\ order \in [Orders -> Rows]
         /\ \A o \in Orders : order[o].version \in Nat
         /\ \A e \in outbox : e.order \in Orders /\ e.version \in Nat
BY BoundsAssumption DEF Inv, TypeOK, OrdersTypeOK, Rows

(* What a write leaves in the table and in the outbox.                     *)
LEMMA WriteFacts ==
  ASSUME Inv, NEW o \in Orders, NEW st, NEW pay, NEW types, Writes(o, st, pay, types)
  PROVE  /\ shape' = shape
         /\ order'[o] = [status |-> st, pay |-> pay, version |-> order[o].version + 1]
         /\ \A p \in Orders \ {o} : order'[p] = order[p]
         /\ outbox' = outbox \cup {Event(o, t, order[o].version + 1, st, pay) : t \in types}
         /\ \A e \in outbox' : e \in outbox \/ e.order = o
<1>1. outbox' = outbox \cup {Event(o, t, order[o].version + 1, st, pay) : t \in types}
  BY DEF Writes, Announce
<1>2. \A t \in types : Event(o, t, order[o].version + 1, st, pay).order = o
  BY DEF Event
<1>3. /\ shape' = shape
      /\ order' = [order EXCEPT ![o] = [status |-> st, pay |-> pay,
                                        version |-> order[o].version + 1]]
  BY TableFacts DEF Writes, WriteOrder
<1> QED
  BY <1>1, <1>2, <1>3, TableFacts

(* After a writer, every version of every order is still covered by an     *)
(* event.                                                                  *)
LEMMA CoveredWrite ==
  ASSUME Inv, EventInv, NEW o \in Orders, NEW st, NEW pay, NEW types, Writes(o, st, pay, types),
         NEW p \in Orders, Placed(p)
  PROVE  Covered(p)'
<1> DEFINE version == order[o].version + 1
<1>1. /\ shape' = shape
      /\ order'[o] = [status |-> st, pay |-> pay, version |-> version]
      /\ \A q \in Orders \ {o} : order'[q] = order[q]
      /\ outbox' = outbox \cup {Event(o, t, version, st, pay) : t \in types}
  BY WriteFacts
<1>2. Covered(p) /\ order[o].version \in Nat /\ version \in Nat
  BY TableFacts DEF EventInv
<1>3. CASE p # o
  <2>1. \A e \in outbox' : e.order = p => e \in outbox
    BY <1>1, <1>3 DEF Event
  <2>2. order'[p] = order[p] /\ FirstVersion(p)' = FirstVersion(p) /\ outbox \subseteq outbox'
    BY <1>1, <1>3 DEF FirstVersion
  <2> QED  BY <1>2, <2>1, <2>2 DEF Covered
<1>4. CASE p = o
  <2>1. PICK t \in types : TRUE
    BY DEF Writes
  <2>2. /\ Event(o, t, version, st, pay) \in outbox'
        /\ Event(o, t, version, st, pay).order = o
        /\ Event(o, t, version, st, pay).version = version
    BY <1>1 DEF Event
  <2>3. \A e \in outbox' : e.order = o =>
          \/ e \in outbox /\ e.version <= order[o].version /\ e.version \in Nat
          \/ e.version = version /\ e.status = st /\ e.pay = pay
    BY <1>1, <1>2, <1>4, TableFacts DEF Event, Covered
  <2>4. /\ order'[o].version = version /\ order'[o].status = st /\ order'[o].pay = pay
        /\ FirstVersion(o)' = FirstVersion(o) /\ outbox \subseteq outbox'
    BY <1>1 DEF FirstVersion
  <2> HIDE DEF version
  <2>5. version = order[o].version + 1
    BY DEF version
  <2>6. ASSUME NEW v \in FirstVersion(o)..version
        PROVE  \E e \in outbox' : e.order = o /\ e.version = v
    <3>1. CASE v = version
      BY <2>2, <3>1
    <3>2. CASE v # version
      <4>1. v \in FirstVersion(o)..order[o].version
        BY <1>2, <2>5, <2>6, <3>2 DEF FirstVersion
      <4> QED  BY <1>2, <1>4, <2>4, <4>1 DEF Covered
    <3> QED  BY <3>1, <3>2
  <2>7. \A e \in outbox' : e.order = o =>
          /\ e.version <= version
          /\ e.version = version => e.status = st /\ e.pay = pay
    BY <1>2, <2>3, <2>5
  <2> QED  BY <1>4, <2>4, <2>6, <2>7 DEF Covered
<1> QED
  BY <1>3, <1>4

(* After a writer, what has come of an order is still announced.           *)
LEMMA AnnouncedWrite ==
  ASSUME Inv, EventInv, NEW o \in Orders, NEW st, NEW pay, NEW types, Writes(o, st, pay, types),
         TypesDue(o, pay, types), NEW p \in Orders, Placed(p)
  PROVE  Announced(p)'
<1> DEFINE version == order[o].version + 1
           new(t) == Event(o, t, version, st, pay)
<1>1. /\ shape' = shape
      /\ order'[o] = [status |-> st, pay |-> pay, version |-> version]
      /\ \A q \in Orders \ {o} : order'[q] = order[q]
      /\ outbox' = outbox \cup {new(t) : t \in types}
  BY WriteFacts
<1>2. Covered(p) /\ Announced(p) /\ order[o].version \in Nat /\ version \in Nat
  BY TableFacts DEF EventInv
<1>3. \A t \in types : /\ new(t).order = o /\ new(t).type = t /\ new(t).version = version
  BY DEF Event
<1> HIDE DEF new
<1>4. CASE p # o
  <2>1. /\ \A e \in outbox' : e.order = p => e \in outbox
        /\ outbox \subseteq outbox' /\ Actionable(p)' = Actionable(p)
    BY <1>1, <1>3, <1>4 DEF Actionable
  <2> QED  BY <1>2, <2>1 DEF Announced, Creation, Work
<1>5. CASE p = o /\ types = {"PAYMENT_UPDATED", "ORDER_CREATED"} /\ ~Actionable(o) /\ pay = "PAID"
  <2>1. Actionable(o)' /\ new("ORDER_CREATED") \in outbox' /\ Creation(o, new("ORDER_CREATED"))
    BY <1>1, <1>3, <1>5 DEF Actionable, Settled, Creation
  <2>2. \A d \in outbox' : Creation(o, d) => d = new("ORDER_CREATED")
    BY <1>1, <1>2, <1>3, <1>5 DEF Announced, Creation
  <2>3. \A w \in outbox' : Work(o, w) => w \in outbox
    BY <1>1, <1>3, <1>5 DEF Work, Neutral
  <2>4. \A w \in outbox' : Work(o, w) => \E c \in outbox' : Creation(o, c) /\ c.version < w.version
    BY <1>1, <1>2, <1>5, <2>3 DEF Announced
  <2> QED  BY <1>5, <2>1, <2>2, <2>4 DEF Announced
<1>6. CASE /\ p = o /\ "ORDER_CREATED" \notin types
           /\ shape[o].online => (pay \in Settled <=> order[o].pay \in Settled)
           /\ types \subseteq Neutral \/ Actionable(o)
  <2>1. Actionable(o)' <=> Actionable(o)
    BY <1>1, <1>6 DEF Actionable
  <2>2. \A d \in outbox' : Creation(o, d) => d \in outbox
    BY <1>1, <1>3, <1>6 DEF Creation
  <2>3. outbox \subseteq outbox'
    BY <1>1
  <2>4. ASSUME NEW w \in outbox', Work(o, w)
        PROVE  \E c \in outbox' : Creation(o, c) /\ c.version < w.version
    <3>1. CASE w \in outbox
      BY <1>2, <1>6, <2>3, <2>4, <3>1 DEF Announced
    <3>2. CASE w \notin outbox
      <4>1. w.version = version /\ Actionable(o)
        BY <1>1, <1>3, <1>6, <2>4, <3>2 DEF Work
      <4>2. PICK c \in outbox : Creation(o, c)
        BY <1>2, <1>6, <4>1 DEF Announced
      <4>3. c.version <= order[o].version /\ c.version \in Nat
        BY <1>2, <1>6, <4>2, TableFacts DEF Covered, Creation
      <4>4. c.version < version
        BY <1>2, <4>3
      <4> QED  BY <2>3, <4>1, <4>2, <4>4
    <3> QED  BY <3>1, <3>2
  <2> QED  BY <1>2, <1>6, <2>1, <2>2, <2>3, <2>4 DEF Announced
<1> QED
  BY <1>4, <1>5, <1>6 DEF TypesDue, Actionable

(* A checkout announces its order, unless it is an online one.             *)
LEMMA CheckoutEvents ==
  ASSUME Inv, EventInv, NEW o \in Orders, NEW sh \in Shapes, NEW coupon, NEW discounted,
         \/ Place(o, sh, coupon, discounted)
         \/ \E u \in Staff, paidNow \in BOOLEAN : PlacePos(u, o, sh, coupon, discounted, paidNow)
  PROVE  EventInv'
<1>1. /\ shape \in [Orders -> Shapes \cup {None}] /\ order \in [Orders -> Rows]
      /\ \A e \in outbox : Placed(e.order) /\ e.order \in Orders /\ e.version \in Nat
  BY TableFacts DEF EventInv
<1>2. ~Placed(o) /\ shape' = [shape EXCEPT ![o] = sh] /\ sh # None
  BY ShapesAssumption DEF Place, PlacePos
<1>3. /\ \A e \in outbox : e.order # o
      /\ shape'[o] = sh /\ Placed(o)'
      /\ \A p \in Orders \ {o} : shape'[p] = shape[p]
  BY <1>1, <1>2 DEF Placed
<1>4. ASSUME outbox \subseteq outbox', \A e \in outbox' : e \in outbox \/ e.order = o,
             \A p \in Orders \ {o} : order'[p] = order[p],
             Covered(o)', Announced(o)'
      PROVE  EventInv'
  <2>1. \A e \in outbox' : Placed(e.order)'
    BY <1>1, <1>3, <1>4 DEF Placed
  <2>2. ASSUME NEW p \in Orders, p # o, Placed(p)'
        PROVE  Covered(p)' /\ Announced(p)'
    <3>1. Covered(p) /\ Announced(p)
      BY <1>3, <2>2 DEF EventInv, Placed
    <3>2. /\ \A e \in outbox' : e.order = p => e \in outbox
          /\ outbox \subseteq outbox' /\ order'[p] = order[p]
          /\ FirstVersion(p)' = FirstVersion(p) /\ (Actionable(p)' <=> Actionable(p))
      BY <1>3, <1>4, <2>2 DEF FirstVersion, Actionable
    <3>3. Covered(p)'
      BY <3>1, <3>2 DEF Covered
    <3>4. Announced(p)'
      BY <3>1, <3>2 DEF Announced, Creation, Work
    <3> QED  BY <3>3, <3>4
  <2> QED  BY <1>4, <2>1, <2>2 DEF EventInv
<1>5. CASE Place(o, sh, coupon, discounted) /\ sh.online
  <2>1. /\ outbox' = outbox /\ \A p \in Orders \ {o} : order'[p] = order[p]
        /\ order'[o] = [status |-> "AWAITING_PAYMENT", pay |-> "PENDING", version |-> 0]
    BY <1>1, <1>5 DEF Place
  <2>2. Covered(o)'
    BY <1>3, <1>5, <2>1 DEF Covered, FirstVersion
  <2>3. Announced(o)'
    BY <1>3, <1>5, <2>1 DEF Announced, Actionable, Settled, Creation, Work
  <2> QED  BY <1>4, <2>1, <2>2, <2>3
<1>6. CASE Place(o, sh, coupon, discounted) /\ ~sh.online
  <2> DEFINE first == Event(o, "ORDER_CREATED", 0, "PENDING", "PENDING")
  <2>1. /\ outbox' = outbox \cup {first} /\ \A p \in Orders \ {o} : order'[p] = order[p]
        /\ order'[o] = [status |-> "PENDING", pay |-> "PENDING", version |-> 0]
    BY <1>1, <1>6 DEF Place
  <2>2. /\ first.order = o /\ first.type = "ORDER_CREATED" /\ first.version = 0
        /\ first.status = "PENDING" /\ first.pay = "PENDING"
    BY DEF Event
  <2> HIDE DEF first
  <2>3. \A e \in outbox' : e.order = o => e = first
    BY <1>3, <2>1
  <2>4. Covered(o)'
    <3>1. FirstVersion(o)' = 0 /\ order'[o].version = 0 /\ 0..0 = {0}
      BY <1>3, <1>6, <2>1 DEF FirstVersion
    <3> QED  BY <2>1, <2>2, <2>3, <3>1 DEF Covered
  <2>5. Announced(o)'
    BY <1>3, <1>6, <2>1, <2>2, <2>3 DEF Announced, Actionable, Creation, Work
  <2>6. outbox \subseteq outbox' /\ \A e \in outbox' : e \in outbox \/ e.order = o
    BY <2>1, <2>2
  <2> QED  BY <1>4, <2>1, <2>4, <2>5, <2>6
<1>7. ASSUME NEW u \in Staff, NEW paidNow \in BOOLEAN,
             PlacePos(u, o, sh, coupon, discounted, paidNow)
      PROVE  EventInv'
  <2> DEFINE created == Event(o, "ORDER_CREATED", 0, "PENDING", "PENDING")
             accepted == Event(o, "ORDER_ACCEPTED", 1, "CONFIRMED", "PENDING")
             paid == Event(o, "PAYMENT_UPDATED", 2, "CONFIRMED", "PAID")
             new == {created, accepted} \cup (IF paidNow THEN {paid} ELSE {})
             last == IF paidNow THEN 2 ELSE 1
  <2>1. /\ outbox' = outbox \cup new /\ \A p \in Orders \ {o} : order'[p] = order[p]
        /\ order'[o] = [status |-> "CONFIRMED", pay |-> IF paidNow THEN "PAID" ELSE "PENDING",
                        version |-> last]
        /\ ~sh.online
    BY <1>1, <1>7, ShapesAssumption DEF PlacePos, ValidShape
  <2>2. /\ created.order = o /\ created.type = "ORDER_CREATED" /\ created.version = 0
        /\ accepted.order = o /\ accepted.type = "ORDER_ACCEPTED" /\ accepted.version = 1
        /\ accepted.status = "CONFIRMED" /\ accepted.pay = "PENDING"
        /\ paid.order = o /\ paid.type = "PAYMENT_UPDATED" /\ paid.version = 2
        /\ paid.status = "CONFIRMED" /\ paid.pay = "PAID"
    BY DEF Event
  <2> HIDE DEF created, accepted, paid
  <2>3. /\ created \in outbox' /\ accepted \in outbox' /\ (paidNow => paid \in outbox')
        /\ \A e \in outbox' : e.order = o =>
             e = created \/ e = accepted \/ (paidNow /\ e = paid)
    BY <1>3, <2>1
  <2>4. Covered(o)'
    <3>1. /\ FirstVersion(o)' = 0 /\ order'[o].version = last /\ order'[o].status = "CONFIRMED"
          /\ order'[o].pay = IF paidNow THEN "PAID" ELSE "PENDING"
      BY <1>3, <2>1 DEF FirstVersion
    <3>2. \A v \in 0..last : v = 0 \/ v = 1 \/ (paidNow /\ v = 2)
      OBVIOUS
    <3>3. \A v \in 0..last : \E e \in outbox' : e.order = o /\ e.version = v
      BY <2>2, <2>3, <3>2
    <3>4. \A e \in outbox' : e.order = o =>
            /\ e.version <= last
            /\ e.version = last => e.status = "CONFIRMED" /\ e.pay = IF paidNow THEN "PAID" ELSE "PENDING"
      BY <2>2, <2>3
    <3> QED  BY <3>1, <3>3, <3>4 DEF Covered
  <2>5. Announced(o)'
    BY <1>3, <2>1, <2>2, <2>3 DEF Announced, Actionable, Creation, Work, Neutral
  <2>6. outbox \subseteq outbox' /\ \A e \in outbox' : e \in outbox \/ e.order = o
    BY <2>1, <2>2
  <2> QED  BY <1>4, <2>1, <2>4, <2>5, <2>6
<1> QED
  BY <1>5, <1>6, <1>7

(* Every step keeps the invariant of events.                               *)
LEMMA EventInvStep ==
  ASSUME Inv, EventInv, [Next]_vars
  PROVE  EventInv'
<1>1. CASE EventQuiet
  <2>1. shape' = shape /\ order' = order /\ outbox' = outbox
    BY <1>1 DEF EventQuiet
  <2> QED
    BY <2>1 DEF EventInv, Covered, Announced, Placed, FirstVersion, Creation, Work, Actionable
<1>2. CASE Checkout
  BY <1>2, CheckoutEvents DEF Checkout
<1>3. CASE EventWrite
  <2> PICK o \in Orders, st \in OrderStatuses, pay \in PaymentStatuses, types \in SUBSET EventTypes :
        Writes(o, st, pay, types) /\ TypesDue(o, pay, types)
    BY <1>3 DEF EventWrite
  <2>1. \A e \in outbox' : Placed(e.order)'
    <3>1. shape' = shape /\ \A e \in outbox' : e \in outbox \/ e.order = o
      BY WriteFacts
    <3> QED  BY <3>1 DEF EventInv, Writes, Placed
  <2>2. \A p \in Orders : Placed(p)' => Placed(p)
    BY WriteFacts DEF Placed
  <2>3. \A p \in Orders : Placed(p) => Covered(p)' /\ Announced(p)'
    BY CoveredWrite, AnnouncedWrite
  <2> QED  BY <2>1, <2>2, <2>3 DEF EventInv
<1> QED
  BY <1>1, <1>2, <1>3, EventStep

(* The invariant of events holds of every behaviour.                       *)
LEMMA EventInvariance == Spec => []EventInv
<1>1. Init => EventInv
  BY DEF Init, EventInv, Placed
<1> QED  BY <1>1, Invariance, EventInvStep, PTL DEF Spec

(* Whoever reads the outbox in the order of its versions ends with the     *)
(* order's row, whatever staff and gateway did to it at the same time.     *)
THEOREM OutboxCovers == Spec => []OutboxCoversHistory
<1>1. Inv /\ EventInv => OutboxCoversHistory
  BY DEF EventInv, Covered, FirstVersion, OutboxCoversHistory
<1> QED  BY <1>1, Invariance, EventInvariance, PTL

(* The store hears of an order once, when it can be worked on, and never   *)
(* of work on an order it has not heard of.                                *)
THEOREM AnnouncedOnce == Spec => []CreatedAnnouncedOnce
<1>1. ASSUME EventInv, NEW o \in Orders, Placed(o)
      PROVE  LET created == {e \in outbox : e.order = o /\ e.type = "ORDER_CREATED"}
                 worked == {e \in outbox : e.order = o /\ e.type \notin
                             {"ORDER_CREATED", "PAYMENT_UPDATED", "ORDER_INTERNAL_NOTE_ADDED"}}
                 actionable == ~shape[o].online \/ order[o].pay \in {"PAID", "REFUNDED"}
             IN  /\ Cardinality(created) = (IF actionable THEN 1 ELSE 0)
                 /\ \A w \in worked : \E c \in created : c.version < w.version
  <2> DEFINE created == {e \in outbox : e.order = o /\ e.type = "ORDER_CREATED"}
             worked == {e \in outbox : e.order = o /\ e.type \notin
                         {"ORDER_CREATED", "PAYMENT_UPDATED", "ORDER_INTERNAL_NOTE_ADDED"}}
  <2>1. Announced(o)
    BY <1>1 DEF EventInv
  <2>2. CASE Actionable(o)
    <3>1. PICK c \in created : created = {c}
      BY <2>1, <2>2 DEF Announced, Creation
    <3> QED  BY <2>2, <3>1, FS_Singleton, <2>1 DEF Actionable, Settled, Announced, Creation, Work, Neutral
  <2>3. CASE ~Actionable(o)
    <3>1. created = {}
      BY <2>1, <2>3 DEF Announced, Creation
    <3> QED  BY <2>3, <3>1, FS_EmptySet, <2>1 DEF Actionable, Settled, Announced, Creation, Work, Neutral
  <2> QED  BY <2>2, <2>3
<1>2. EventInv => CreatedAnnouncedOnce
  BY <1>1 DEF CreatedAnnouncedOnce
<1> QED  BY <1>2, EventInvariance, PTL

-----------------------------------------------------------------------------
(* Only an undo takes a status back.                                       *)

(* Until it is placed an order has the status Init gave it, from which no  *)
(* edge leads back.                                                        *)
UnplacedIsPending == \A o \in Orders : ~Placed(o) => order[o].status = "PENDING"

GoesBack(o) == <<order[o].status, order'[o].status>> \in ReversibleEdges
StaysForward == \A o \in Orders : ~GoesBack(o)

(* In every behaviour, an order that is not placed has the first status.   *)
LEMMA UnplacedInvariance == Spec => []UnplacedIsPending
<1>1. Init => UnplacedIsPending
  BY DEF Init, UnplacedIsPending
<1>2. ASSUME Inv, UnplacedIsPending, [Next]_vars
      PROVE  UnplacedIsPending'
  <2>1. \A o \in Orders : ~Placed(o)' => ~Placed(o) /\ order'[o] = order[o]
    BY <1>2, RowStep, ShapesAssumption DEF Touched, RowKept, Created, Moved, Placed
  <2> QED  BY <1>2, <2>1 DEF UnplacedIsPending
<1> QED  BY <1>1, <1>2, Invariance, PTL DEF Spec

(* A writer whose change of status is no reversal does not go back.        *)
LEMMA ForwardWrite ==
  ASSUME Inv, NEW o \in Orders, NEW st, NEW pay, WriteOrder(o, st, pay),
         <<order[o].status, st>> \notin ReversibleEdges
  PROVE  StaysForward
<1>1. order'[o].status = st /\ \A p \in Orders \ {o} : order'[p] = order[p]
  BY TableFacts DEF WriteOrder
<1> QED
  BY <1>1 DEF StaysForward, GoesBack, ReversibleEdges

(* No step of the staff but undoing goes back.                             *)
LEMMA BackwardDashboard ==
  ASSUME Inv, NEW u \in Staff, NEW o \in Orders,
         \/ \E next \in OrderStatuses : Advance(u, o, next)
         \/ Cancel(u, o) \/ AddNote(u, o)
         \/ \E op \in PaymentOperations : ChangePayment(o, op)
  PROVE  StaysForward
<1>1. ASSUME NEW next \in OrderStatuses, Advance(u, o, next)
      PROVE  StaysForward
  <2>1. PICK pay : WriteOrder(o, next, pay)
    BY <1>1 DEF Advance
  <2>2. ForwardTransition(shape[o], order[o].status, order[o].pay, next)
    BY <1>1 DEF Advance, CanTransitionOrder
  <2>3. <<order[o].status, next>> \notin ReversibleEdges
    BY <2>2 DEF ForwardTransition, ForwardEdges, ReversibleEdges
  <2> QED  BY <2>1, <2>3, ForwardWrite
<1>2. CASE Cancel(u, o)
  <2>1. PICK pay : WriteOrder(o, "CANCELLED", pay)
    BY <1>2 DEF Cancel
  <2> QED  BY <2>1, ForwardWrite DEF ReversibleEdges
<1>3. CASE AddNote(u, o) \/ \E op \in PaymentOperations : ChangePayment(o, op)
  <2>1. PICK pay : WriteOrder(o, order[o].status, pay)
    BY <1>3 DEF AddNote, ChangePayment
  <2> QED  BY <2>1, ForwardWrite DEF ReversibleEdges
<1> QED
  BY <1>1, <1>2, <1>3

(* No step of a gateway goes back.                                         *)
LEMMA BackwardGateway ==
  ASSUME Inv, NEW g \in Gateways, CommitFailure(g) \/ CommitSync(g)
  PROVE  StaysForward
<1> DEFINE o == job[g].order
           d == Decision(g)
<1>1. o \in Orders
  BY DEF CommitFailure, CommitSync, Inv, TypeOK, ActorsTypeOK
<1>2. CASE CommitFailure(g)
  <2>1. WriteOrder(o, "CANCELLED", "FAILED") \/ order' = order
    BY <1>2 DEF CommitFailure, orderVars
  <2> HIDE DEF o
  <2>2. order' = order => StaysForward
    BY DEF StaysForward, GoesBack, ReversibleEdges
  <2>3. <<order[o].status, "CANCELLED">> \notin ReversibleEdges
    BY DEF ReversibleEdges
  <2> QED  BY <1>1, <2>1, <2>2, <2>3, ForwardWrite
<1>3. CASE CommitSync(g)
  <2>1. /\ job[g].stage = "SYNC" /\ d.kind = "TRANSITION" /\ job[g].row = order[o]
        /\ WriteOrder(o, d.status, d.pay)
    BY <1>3 DEF CommitSync
  <2>2. d = DecideProviderTransition(order[o].pay, order[o].status, job[g].mapped)
    BY <2>1 DEF Decision
  <2>3. /\ job[g].mapped \in ProviderStates
        /\ order[o].pay \in PaymentStatuses /\ order[o].status \in OrderStatuses
    BY <2>1, DecisionOfJob DEF Inv
  <2> HIDE DEF d, o
  <2>4. d.status = order[o].status \/ order[o].status = "AWAITING_PAYMENT"
    BY <2>1, <2>2, <2>3, DecisionType
  <2>5. <<order[o].status, d.status>> \notin ReversibleEdges
    BY <2>4 DEF ReversibleEdges
  <2> QED  BY <1>1, <2>1, <2>5, ForwardWrite
<1> QED
  BY <1>2, <1>3

(* Every step but undoing stays or goes forward.                           *)
LEMMA BackwardStep ==
  ASSUME Inv, UnplacedIsPending, [Next]_vars
  PROVE  StaysForward \/ \E u \in Staff, o \in Orders : Undo(u, o)
<1>1. ASSUME order' = order  PROVE StaysForward
  BY <1>1 DEF StaysForward, GoesBack, ReversibleEdges
<1>2. CASE UNCHANGED vars
  BY <1>1, <1>2 DEF vars, orderVars
<1>3. CASE Checkout
  <2> PICK o \in Orders, sh \in Shapes, coupon \in BOOLEAN, discounted \in BOOLEAN :
        \/ Place(o, sh, coupon, discounted)
        \/ \E u \in Staff, paidNow \in BOOLEAN : PlacePos(u, o, sh, coupon, discounted, paidNow)
    BY <1>3 DEF Checkout
  <2>1. ~Placed(o) /\ \A p \in Orders \ {o} : order'[p] = order[p]
    BY TableFacts DEF Place, PlacePos
  <2>2. order[o].status = "PENDING"
    BY <2>1 DEF UnplacedIsPending
  <2> QED  BY <2>1, <2>2 DEF StaysForward, GoesBack, ReversibleEdges
<1>4. CASE Dashboard
  <2> PICK u \in Staff, o \in Orders :
        \/ Look(u, o)
        \/ \E next \in OrderStatuses : Advance(u, o, next)
        \/ Cancel(u, o) \/ Undo(u, o) \/ AddNote(u, o)
        \/ ConfirmManualPayment(u, o) \/ MarkPaymentFailed(u, o)
        \/ RetryFailedPayment(u, o) \/ RefundPayment(u, o)
    BY <1>4 DEF Dashboard
  <2>1. CASE Look(u, o)
    BY <1>1, <2>1 DEF Look, orderVars
  <2>2. CASE ConfirmManualPayment(u, o) \/ MarkPaymentFailed(u, o)
               \/ RetryFailedPayment(u, o) \/ RefundPayment(u, o)
    <3>1. \E op \in PaymentOperations : ChangePayment(o, op)
      BY <2>2 DEF ConfirmManualPayment, MarkPaymentFailed, RetryFailedPayment, RefundPayment,
                  PaymentOperations
    <3> QED  BY <3>1, BackwardDashboard
  <2> QED
    BY <2>1, <2>2, BackwardDashboard
<1>5. CASE Gateway
  <2>1. (\E g \in Gateways : CommitFailure(g) \/ CommitSync(g)) \/ order' = order
    BY <1>5 DEF Gateway, StartCharge, StartExpiry, Fetch, ChargeAccepted, ChargeLost, ChargeRefused,
                RecordCharge, ReadForFailure, ReadForSync, CommitNoted, Abandon, orderVars
  <2> QED  BY <1>1, <2>1, BackwardGateway
<1>6. CASE Environment
  <2>1. ASSUME NEW o \in Orders, ReportPayment(o)
        PROVE  StaysForward
    <3>1. PICK pay : WriteOrder(o, order[o].status, pay)
      BY <2>1 DEF ReportPayment, ChangePayment
    <3> QED  BY <3>1, ForwardWrite DEF ReversibleEdges
  <2>2. (\E o \in Orders : ReportPayment(o)) \/ order' = order
    BY <1>6 DEF Environment, ExpireReservations, Tick, RemoteMoves, orderVars
  <2> QED  BY <1>1, <2>1, <2>2
<1> QED
  BY <1>2, <1>3, <1>4, <1>5, <1>6 DEF Next

(* A status is taken back only by the undo of the very last thing that     *)
(* happened to the order, by its author, and the payment stays as it was.  *)
THEOREM OnlyUndoGoesBack == Spec => Backward
<1> DEFINE UndoesLast(o) ==
      /\ order'[o].pay = order[o].pay /\ payment'[o] = payment[o]
      /\ lastChange[o].version = order[o].version
      /\ order'[o].status = lastChange[o].from /\ lastChange[o].by = lastChange'[o].by
      /\ ~lastChange[o].undo
<1>1. ASSUME Inv, UnplacedIsPending, [Next]_vars, NEW o \in Orders, GoesBack(o)
      PROVE  UndoesLast(o)
  <2>1. PICK u \in Staff, p \in Orders : Undo(u, p)
    BY <1>1, BackwardStep DEF StaysForward
  <2> DEFINE back == lastChange[p].from
  <2>2. /\ WriteOrder(p, back, order[p].pay) /\ WriteHistory(p, back, u, TRUE)
        /\ payment' = payment /\ Undoable(u, p)
    BY <2>1 DEF Undo
  <2>3. /\ order'[p].status = back /\ order'[p].pay = order[p].pay
        /\ \A q \in Orders \ {p} : order'[q] = order[q]
        /\ lastChange'[p].by = u
    BY <1>1, <2>2, TableFacts DEF WriteOrder, WriteHistory, Inv, TypeOK, OrdersTypeOK
  <2>4. o = p
    BY <1>1, <2>3 DEF GoesBack, ReversibleEdges
  <2> QED  BY <2>2, <2>3, <2>4 DEF Undoable
<1>2. ASSUME Inv, UnplacedIsPending, [Next]_vars
      PROVE  [\A o \in Orders : <<order[o].status, order'[o].status>> \in ReversibleEdges =>
                UndoesLast(o)]_vars
  BY <1>1, <1>2 DEF GoesBack
<1> QED  BY <1>2, Invariance, UnplacedInvariance, PTL DEF Spec, Backward

-----------------------------------------------------------------------------
(* Claims.                                                                 *)

Final == {"DELIVERED", "CANCELLED"}
PlacedOrders == {o \in Orders : Placed(o)}

-----------------------------------------------------------------------------
(* The invariant about claims.                                             *)

(* An order holds nothing before it is placed; only an online order        *)
(* reserves a coupon, and has used it exactly when it spent the            *)
(* reservation, which its payment and nothing else does.                   *)
ReservationFits(o) ==
  /\ ~Placed(o) => reservation[o] = "NONE" /\ o \notin couponUses
  /\ reservation[o] # "NONE" => Online(o)
  /\ Online(o) => (o \in couponUses <=> reservation[o] = "CONSUMED")
  /\ reservation[o] = "CONSUMED" => order[o].pay \in Settled
  /\ (Online(o) /\ order[o].pay \in Settled) => reservation[o] \in {"NONE", "CONSUMED"}
  /\ (Placed(o) /\ order[o].status = "CANCELLED") => reservation[o] \notin {"ACTIVE", "CONSUMED"}

OfferFits(o) ==
  /\ ~Placed(o) => offer[o] = "NONE"
  /\ Placed(o) =>
       /\ order[o].status = "CANCELLED" => offer[o] \in {"NONE", "RELEASED", "EXPIRED"}
       /\ order[o].status = "DELIVERED" => offer[o] \in {"NONE", "CONSUMED"}
       /\ order[o].status \notin Final => offer[o] \in {"NONE", "RESERVED"}

(* What an open transaction has read of a reservation is still true while  *)
(* its order's row is, except that the reservation may have lapsed: that   *)
(* writer alone does not touch the row.                                    *)
HeldIsCurrent ==
  \A g \in Gateways :
    (job[g].stage \in {"SYNC", "FAIL"} /\ job[g].row = order[job[g].order]) =>
      \/ job[g].resv = reservation[job[g].order]
      \/ job[g].resv = "ACTIVE" /\ reservation[job[g].order] = "EXPIRED"

LimitsKept ==
  /\ IsFiniteSet(PlacedOrders)
  /\ usageCount = Cardinality(couponUses) /\ usageCount <= MaxUsages
  /\ Cardinality(OfferHolders) <= MaxOfferUses

ClaimInv ==
  /\ \A o \in Orders : ReservationFits(o) /\ OfferFits(o)
  /\ HeldIsCurrent
  /\ LimitsKept

-----------------------------------------------------------------------------
(* What a step can do to the claims of orders.                             *)

SameClaims(o) ==
  /\ offer'[o] = offer[o] /\ reservation'[o] = reservation[o]
  /\ o \in couponUses' <=> o \in couponUses

(* A write of an order's row settles its offer when the order ends.        *)
OfferSettles(o) ==
  \/ /\ order'[o].status = "DELIVERED" /\ order[o].status \notin Final
     /\ offer'[o] = IF offer[o] = "RESERVED" THEN "CONSUMED" ELSE offer[o]
  \/ /\ order'[o].status = "CANCELLED" /\ order[o].status \notin Final
     /\ offer'[o] \in IF offer[o] = "RESERVED" THEN {"RELEASED", "EXPIRED"} ELSE {offer[o]}
  \/ /\ \/ order'[o].status = order[o].status
        \/ order'[o].status \notin Final /\ order[o].status \notin Final
     /\ offer'[o] = offer[o]

(* It keeps, spends or gives back the reservation of its coupon.           *)
ReservationKept(o) ==
  /\ reservation'[o] = reservation[o]
  /\ shape[o].online => (order'[o].pay \in Settled <=> order[o].pay \in Settled)
  /\ order'[o].status = "CANCELLED" => order[o].status = "CANCELLED"
ReservationSpent(o) ==
  /\ Online(o) /\ order[o].pay \notin Settled
  /\ order'[o].pay = "PAID" /\ order'[o].status = "PENDING"
  /\ reservation'[o] = IF reservation[o] = "NONE" THEN "NONE" ELSE "CONSUMED"
ReservationGivenBack(o) ==
  /\ order'[o].status = "CANCELLED"
  /\ shape[o].online => order'[o].pay \notin Settled
  /\ reservation[o] # "CONSUMED"
  /\ reservation'[o] \notin {"ACTIVE", "CONSUMED"}
  /\ reservation[o] = "NONE" <=> reservation'[o] = "NONE"

ClaimWrite(o) ==
  /\ Moved(o) /\ \A p \in Orders \ {o} : RowKept(p) /\ SameClaims(p)
  /\ OfferSettles(o)
  /\ \/ /\ ReservationKept(o) \/ ReservationGivenBack(o)
        /\ UNCHANGED <<usageCount, couponUses>>
     \/ /\ ReservationSpent(o) /\ reservation[o] = "NONE"
        /\ UNCHANGED <<usageCount, couponUses>>
     \/ /\ ReservationSpent(o) /\ reservation[o] # "NONE"
        /\ usageCount < MaxUsages /\ usageCount' = usageCount + 1
        /\ couponUses' = couponUses \cup {o}

ClaimQuiet == UNCHANGED <<shape, order, payment, claimVars>>

(* A writer moves the row it writes, and no other.                         *)
LEMMA WriteTouches ==
  ASSUME Inv, [Next]_vars, NEW o \in Orders, Placed(o), NEW st, NEW pay, WriteOrder(o, st, pay)
  PROVE  /\ Moved(o) /\ \A p \in Orders \ {o} : RowKept(p)
         /\ order'[o].status = st /\ order'[o].pay = pay
<1>1. /\ order'[o].status = st /\ order'[o].pay = pay
      /\ order'[o].version = order[o].version + 1 /\ order[o].version \in Nat
  BY TableFacts DEF WriteOrder
<1>2. order'[o] # order[o]
  BY <1>1
<1>3. PICK q \in Orders : Touched(q)
  BY <1>2, RowStep DEF RowKept
<1>4. q = o
  BY <1>2, <1>3 DEF Touched, RowKept
<1> QED
  BY <1>1, <1>3, <1>4 DEF Touched, Created

(* The types of claims, and of the count of a coupon's uses.               *)
LEMMA ClaimTypes ==
  ASSUME Inv
  PROVE  /\ offer \in [Orders -> ClaimStates] /\ reservation \in [Orders -> ClaimStates]
         /\ usageCount \in Nat /\ couponUses \subseteq Orders
BY DEF Inv, TypeOK, ClaimsTypeOK

(* Settling an offer changes the claim of one order, if it was reserved.   *)
LEMMA SettleOfferFacts ==
  ASSUME Inv, NEW o \in Orders, NEW outcome, SettleOffer(o, outcome)
  PROVE  /\ offer'[o] = IF offer[o] = "RESERVED" THEN outcome ELSE offer[o]
         /\ \A p \in Orders \ {o} : offer'[p] = offer[p]
BY ClaimTypes DEF SettleOffer

(* Advancing an order moves its row, and its claims as ClaimWrite allows.  *)
LEMMA AdvanceClaims ==
  ASSUME Inv, [Next]_vars, NEW u \in Staff, NEW o \in Orders, NEW next \in OrderStatuses,
         Advance(u, o, next)
  PROVE  ClaimWrite(o)
<1> DEFINE row == order[o]
           due == /\ next = "DELIVERED" /\ row.pay = "PENDING"
                  /\ shape[o].modality # "DINE_IN" /\ shape[o].method # "PIX"
           pay == IF due THEN "PAID" ELSE row.pay
<1>1. /\ Placed(o) /\ WriteOrder(o, next, pay) /\ next # "CANCELLED"
      /\ CanTransitionOrder(shape[o], row.status, row.pay, next)
      /\ IF next = "DELIVERED" /\ pay = "PAID" THEN SettleOffer(o, "CONSUMED") ELSE UNCHANGED offer
      /\ UNCHANGED <<reservation, usageCount, couponUses>>
  BY DEF Advance, Fresh
<1>2. shape[o].online => pay = row.pay
  BY <1>1, OnlineFacts
<1>3. row.status \notin Final /\ (next = "DELIVERED" => pay = "PAID")
  BY <1>1 DEF CanTransitionOrder, ForwardTransition, ForwardEdges, CanCompleteOrder, Final
<1> HIDE DEF pay
<1>4. /\ Moved(o) /\ \A p \in Orders \ {o} : RowKept(p)
      /\ order'[o].status = next /\ order'[o].pay = pay
  BY <1>1, WriteTouches
<1>5. OfferSettles(o) /\ \A p \in Orders \ {o} : offer'[p] = offer[p]
  <2>1. CASE next = "DELIVERED"
    BY <1>1, <1>3, <1>4, <2>1, SettleOfferFacts DEF OfferSettles
  <2>2. CASE next # "DELIVERED"
    BY <1>1, <1>3, <1>4, <2>2 DEF OfferSettles, Final
  <2> QED  BY <2>1, <2>2
<1>6. ReservationKept(o)
  BY <1>1, <1>2, <1>4 DEF ReservationKept
<1> QED
  BY <1>1, <1>4, <1>5, <1>6 DEF ClaimWrite, SameClaims

(* Cancelling an order moves its row, and its claims as ClaimWrite allows. *)
LEMMA CancelClaims ==
  ASSUME Inv, ClaimInv, [Next]_vars, NEW u \in Staff, NEW o \in Orders, Cancel(u, o)
  PROVE  ClaimWrite(o)
<1>1. /\ Placed(o) /\ ~shape[o].online /\ SettleOffer(o, "RELEASED")
      /\ CanTransitionOrder(shape[o], order[o].status, order[o].pay, "CANCELLED")
      /\ reservation' = IF reservation[o] = "ACTIVE"
                        THEN [reservation EXCEPT ![o] = "RELEASED"] ELSE reservation
      /\ UNCHANGED <<usageCount, couponUses>>
  BY DEF Cancel, Fresh
<1>2. PICK pay : WriteOrder(o, "CANCELLED", pay)
  BY DEF Cancel
<1>3. /\ Moved(o) /\ \A p \in Orders \ {o} : RowKept(p)
      /\ order'[o].status = "CANCELLED"
  BY <1>1, <1>2, WriteTouches
<1>4. OfferSettles(o) /\ \A p \in Orders \ {o} : offer'[p] = offer[p]
  BY <1>1, <1>3, SettleOfferFacts DEF OfferSettles, Final, CanTransitionOrder
<1>5. reservation[o] = "NONE"
  BY <1>1 DEF ClaimInv, ReservationFits, Online
<1>6. reservation' = reservation /\ ReservationGivenBack(o)
  BY <1>1, <1>3, <1>5 DEF ReservationGivenBack
<1> QED
  BY <1>1, <1>3, <1>4, <1>6 DEF ClaimWrite, SameClaims

(* The writers that leave every claim alone.                               *)
LEMMA PlainClaims ==
  ASSUME Inv, [Next]_vars, NEW o \in Orders,
         \/ \E u \in Staff : Undo(u, o) \/ AddNote(u, o)
         \/ \E op \in PaymentOperations : ChangePayment(o, op)
  PROVE  ClaimWrite(o)
<1>1. Placed(o) /\ UNCHANGED claimVars
  BY DEF Undo, AddNote, ChangePayment, Fresh
<1>2. PICK st, pay :
        /\ WriteOrder(o, st, pay)
        /\ st = order[o].status \/ (st \notin Final /\ order[o].status \notin Final)
        /\ shape[o].online => pay = order[o].pay
  <2>1. CASE \E u \in Staff : Undo(u, o)
    BY <2>1 DEF Undo, Undoable, ReversibleEdges, Final
  <2>2. CASE \E u \in Staff : AddNote(u, o)
    BY <2>2 DEF AddNote
  <2>3. CASE \E op \in PaymentOperations : ChangePayment(o, op)
    BY <2>3 DEF ChangePayment
  <2> QED  BY <2>1, <2>2, <2>3
<1>3. /\ Moved(o) /\ \A p \in Orders \ {o} : RowKept(p)
      /\ order'[o].status = st /\ order'[o].pay = pay
  BY <1>1, <1>2, WriteTouches
<1>4. OfferSettles(o) /\ ReservationKept(o)
  BY <1>1, <1>2, <1>3 DEF claimVars, OfferSettles, ReservationKept, Final
<1> QED
  BY <1>1, <1>3, <1>4 DEF ClaimWrite, SameClaims, claimVars

(* A charge that could not be made moves one order and its claims, or      *)
(* none.                                                                   *)
LEMMA CommitFailureClaims ==
  ASSUME Inv, ClaimInv, [Next]_vars, NEW g \in Gateways, CommitFailure(g)
  PROVE  ClaimQuiet \/ \E o \in Orders : ClaimWrite(o)
<1> DEFINE o == job[g].order
           wins == job[g].row = order[o] /\ Payable(o)
<1>1. o \in Orders /\ Placed(o) /\ job[g].stage = "FAIL"
  BY DEF Inv, TypeOK, ActorsTypeOK, ActorsSawPlaced, Online, CommitFailure
<1>2. CASE ~wins
  BY <1>2 DEF CommitFailure, ClaimQuiet, orderVars, claimVars
<1>3. CASE wins
  <2>1. /\ WriteOrder(o, "CANCELLED", "FAILED") /\ SettleOffer(o, "RELEASED")
        /\ reservation' = IF job[g].resv = "ACTIVE"
                          THEN [reservation EXCEPT ![o] = "RELEASED"] ELSE reservation
        /\ UNCHANGED <<usageCount, couponUses>>
        /\ order[o].status = "AWAITING_PAYMENT" /\ order[o].pay = "PENDING"
        /\ job[g].row = order[o]
    BY <1>3 DEF CommitFailure, Payable
  <2>2. \/ job[g].resv = reservation[o]
        \/ job[g].resv = "ACTIVE" /\ reservation[o] = "EXPIRED"
    BY <1>1, <2>1 DEF ClaimInv, HeldIsCurrent
  <2>3. reservation[o] # "CONSUMED"
    BY <1>1, <2>1 DEF ClaimInv, ReservationFits, Settled
  <2> HIDE DEF o
  <2>4. /\ Moved(o) /\ \A p \in Orders \ {o} : RowKept(p)
        /\ order'[o].status = "CANCELLED" /\ order'[o].pay = "FAILED"
    BY <1>1, <2>1, WriteTouches
  <2>5. OfferSettles(o) /\ \A p \in Orders \ {o} : offer'[p] = offer[p]
    BY <1>1, <2>1, <2>4, SettleOfferFacts DEF OfferSettles, Final
  <2>6. ReservationGivenBack(o) /\ \A p \in Orders \ {o} : reservation'[p] = reservation[p]
    BY <1>1, <2>1, <2>2, <2>3, <2>4, ClaimTypes DEF ReservationGivenBack, Settled
  <2>7. ClaimWrite(o)
    BY <2>1, <2>4, <2>5, <2>6 DEF ClaimWrite, SameClaims
  <2> QED  BY <1>1, <2>7
<1> QED
  BY <1>2, <1>3

(* What the provider says moves one order and its claims.                  *)
LEMMA CommitSyncClaims ==
  ASSUME Inv, ClaimInv, [Next]_vars, NEW g \in Gateways, CommitSync(g)
  PROVE  \E o \in Orders : ClaimWrite(o)
<1> DEFINE o == job[g].order
           d == Decision(g)
           held == job[g].resv
<1>1. /\ o \in Orders /\ Online(o) /\ Placed(o) /\ job[g].stage = "SYNC"
  BY DEF Inv, TypeOK, ActorsTypeOK, ActorsSawPlaced, Online, CommitSync
<1>2. /\ d.kind = "TRANSITION" /\ job[g].row = order[o]
      /\ WriteOrder(o, d.status, d.pay)
      /\ SpendReservation(o, held, d)
      /\ IF d.pay \in {"FAILED", "CANCELLED"}
         THEN SettleOffer(o, IF d.reason = "PROVIDER_EXPIRED" THEN "EXPIRED" ELSE "RELEASED")
         ELSE UNCHANGED offer
  BY DEF CommitSync
<1>3. d = DecideProviderTransition(order[o].pay, order[o].status, job[g].mapped)
  BY <1>2 DEF Decision
<1>4. \/ /\ order[o].pay = "PENDING" /\ order[o].status = "AWAITING_PAYMENT"
         /\ d.status = "PENDING" /\ d.pay = "PAID"
      \/ /\ order[o].pay = "PENDING" /\ order[o].status = "AWAITING_PAYMENT"
         /\ d.status = "CANCELLED" /\ d.pay \in {"FAILED", "CANCELLED"}
      \/ order[o].pay = "PAID" /\ d.status = order[o].status /\ d.pay = "REFUNDED"
  <2>1. /\ job[g].mapped \in ProviderStates
        /\ order[o].pay \in PaymentStatuses /\ order[o].status \in OrderStatuses
    BY <1>1, <1>2, DecisionOfJob DEF Inv
  <2> HIDE DEF d, o
  <2> QED
    BY <1>2, <1>3, <2>1, DecisionType
<1>5. held = reservation[o] \/ (held = "ACTIVE" /\ reservation[o] = "EXPIRED")
  BY <1>1, <1>2 DEF ClaimInv, HeldIsCurrent
<1>6. reservation[o] = "CONSUMED" => order[o].pay \in Settled
  BY <1>1 DEF ClaimInv, ReservationFits
<1> HIDE DEF o, d, held
<1>7. /\ Moved(o) /\ \A p \in Orders \ {o} : RowKept(p)
      /\ order'[o].status = d.status /\ order'[o].pay = d.pay
  BY <1>1, <1>2, WriteTouches
<1>8. CASE /\ order[o].pay = "PENDING" /\ order[o].status = "AWAITING_PAYMENT"
           /\ d.status = "PENDING" /\ d.pay = "PAID"
  <2>1. OfferSettles(o) /\ offer' = offer
    BY <1>2, <1>7, <1>8 DEF OfferSettles, Final
  <2>2. CASE held = "NONE"
    <3>1. reservation' = reservation /\ reservation[o] = "NONE"
      BY <1>2, <1>5, <1>8, <2>2 DEF SpendReservation
    <3>2. ReservationSpent(o) /\ UNCHANGED <<usageCount, couponUses>>
      BY <1>1, <1>2, <1>7, <1>8, <2>2, <3>1 DEF ReservationSpent, Settled, SpendReservation
    <3> QED  BY <1>1, <1>7, <2>1, <3>1, <3>2 DEF ClaimWrite, SameClaims
  <2>3. CASE held # "NONE"
    <3>1. reservation[o] # "NONE" /\ held # "CONSUMED"
      BY <1>5, <1>6, <1>8, <2>3 DEF Settled
    <3>2. /\ usageCount < MaxUsages /\ usageCount' = usageCount + 1
          /\ couponUses' = couponUses \cup {o}
          /\ reservation' = [reservation EXCEPT ![o] = "CONSUMED"]
      BY <1>2, <1>8, <2>3, <3>1 DEF SpendReservation
    <3>3. ReservationSpent(o)
      BY <1>1, <1>7, <1>8, <3>1, <3>2, ClaimTypes DEF ReservationSpent, Settled
    <3>4. \A p \in Orders \ {o} : SameClaims(p)
      BY <2>1, <3>2, ClaimTypes DEF SameClaims
    <3> QED  BY <1>1, <1>7, <2>1, <3>1, <3>2, <3>3, <3>4 DEF ClaimWrite
  <2> QED  BY <2>2, <2>3
<1>9. CASE /\ order[o].pay = "PENDING" /\ order[o].status = "AWAITING_PAYMENT"
           /\ d.status = "CANCELLED" /\ d.pay \in {"FAILED", "CANCELLED"}
  <2>1. OfferSettles(o) /\ \A p \in Orders \ {o} : offer'[p] = offer[p]
    BY <1>1, <1>2, <1>7, <1>9, SettleOfferFacts DEF OfferSettles, Final
  <2>2. reservation' = IF held = "ACTIVE"
                       THEN [reservation EXCEPT ![o] =
                              IF d.reason = "PROVIDER_EXPIRED" THEN "EXPIRED" ELSE "RELEASED"]
                       ELSE reservation
    BY <1>2, <1>9 DEF SpendReservation
  <2>3. UNCHANGED <<usageCount, couponUses>>
    BY <1>2, <1>9 DEF SpendReservation
  <2>4. ReservationGivenBack(o) /\ \A p \in Orders \ {o} : reservation'[p] = reservation[p]
    BY <1>1, <1>5, <1>6, <1>7, <1>9, <2>2, ClaimTypes DEF ReservationGivenBack, Settled
  <2> QED  BY <1>1, <1>7, <2>1, <2>3, <2>4 DEF ClaimWrite, SameClaims
<1>10. CASE order[o].pay = "PAID" /\ d.status = order[o].status /\ d.pay = "REFUNDED"
  <2>1. UNCHANGED claimVars
    BY <1>2, <1>10 DEF SpendReservation, claimVars
  <2>2. OfferSettles(o) /\ ReservationKept(o)
    BY <1>7, <1>10, <2>1 DEF OfferSettles, ReservationKept, Settled, claimVars
  <2> QED  BY <1>1, <1>7, <2>1, <2>2 DEF ClaimWrite, SameClaims, claimVars
<1> QED
  BY <1>4, <1>8, <1>9, <1>10

(* A step leaves rows and claims alone, is a checkout, lapses reservations *)
(* or writes one order together with its claims.                           *)
LEMMA ClaimStep ==
  ASSUME Inv, ClaimInv, [Next]_vars
  PROVE  ClaimQuiet \/ Checkout \/ ExpireReservations \/ \E o \in Orders : ClaimWrite(o)
<1>1. CASE UNCHANGED vars
  BY <1>1 DEF vars, orderVars, claimVars, ClaimQuiet
<1>2. CASE Dashboard
  <2> PICK u \in Staff, o \in Orders :
        \/ Look(u, o)
        \/ \E next \in OrderStatuses : Advance(u, o, next)
        \/ Cancel(u, o) \/ Undo(u, o) \/ AddNote(u, o)
        \/ ConfirmManualPayment(u, o) \/ MarkPaymentFailed(u, o)
        \/ RetryFailedPayment(u, o) \/ RefundPayment(u, o)
    BY <1>2 DEF Dashboard
  <2>1. CASE Look(u, o)
    BY <2>1 DEF Look, orderVars, claimVars, ClaimQuiet
  <2>2. CASE ConfirmManualPayment(u, o) \/ MarkPaymentFailed(u, o)
               \/ RetryFailedPayment(u, o) \/ RefundPayment(u, o)
    <3>1. \E op \in PaymentOperations : ChangePayment(o, op)
      BY <2>2 DEF ConfirmManualPayment, MarkPaymentFailed, RetryFailedPayment, RefundPayment,
                  PaymentOperations
    <3> QED  BY <3>1, PlainClaims
  <2> QED
    BY <2>1, <2>2, AdvanceClaims, CancelClaims, PlainClaims
<1>3. CASE Gateway
  <2>1. (\E g \in Gateways : CommitFailure(g) \/ CommitSync(g)) \/ ClaimQuiet
    BY <1>3 DEF Gateway, StartCharge, StartExpiry, Fetch, ChargeAccepted, ChargeLost, ChargeRefused,
                RecordCharge, ReadForFailure, ReadForSync, CommitNoted, Abandon, orderVars, ClaimQuiet
  <2> QED  BY <2>1, CommitFailureClaims, CommitSyncClaims
<1>4. CASE Environment
  <2>1. ASSUME NEW o \in Orders, ReportPayment(o)
        PROVE  ClaimWrite(o)
    BY <2>1, PlainClaims DEF ReportPayment, PaymentOperations
  <2>2. ExpireReservations \/ (\E o \in Orders : ReportPayment(o)) \/ ClaimQuiet
    BY <1>4 DEF Environment, Tick, RemoteMoves, orderVars, ClaimQuiet
  <2> QED  BY <2>1, <2>2
<1> QED
  BY <1>1, <1>2, <1>3, <1>4 DEF Next

-----------------------------------------------------------------------------
(* The invariant is kept, part by part.                                    *)

(* An order whose row and claims stay fits as it did.                      *)
LEMMA SameFits ==
  ASSUME NEW o \in Orders, ReservationFits(o), OfferFits(o), RowKept(o), SameClaims(o)
  PROVE  ReservationFits(o)' /\ OfferFits(o)'
BY DEF ReservationFits, OfferFits, RowKept, SameClaims, Placed, Online

(* Claims that were written fit the row.                                   *)
LEMMA WrittenFits ==
  ASSUME Inv, ClaimInv, NEW o \in Orders, ClaimWrite(o)
  PROVE  ReservationFits(o)' /\ OfferFits(o)'
<1>1. /\ Placed(o) /\ shape'[o] = shape[o] /\ ReservationFits(o) /\ OfferFits(o)
      /\ Placed(o)'
  BY DEF ClaimWrite, Moved, ClaimInv, Placed
<1>2. order[o].status = "CANCELLED" => order[o].pay # "PAID"
  BY <1>1 DEF Inv, StatusAgreesWithPayment
<1>3. OfferFits(o)'
  BY <1>1 DEF ClaimWrite, OfferSettles, OfferFits, Final
<1>4. /\ Placed(o) /\ Placed(o)' /\ (Online(o)' <=> Online(o)) /\ (Online(o) <=> shape[o].online)
      /\ reservation[o] # "NONE" => Online(o)
      /\ Online(o) => (o \in couponUses <=> reservation[o] = "CONSUMED")
      /\ reservation[o] = "CONSUMED" => order[o].pay \in Settled
      /\ (Online(o) /\ order[o].pay \in Settled) => reservation[o] \in {"NONE", "CONSUMED"}
      /\ order[o].status = "CANCELLED" => reservation[o] \notin {"ACTIVE", "CONSUMED"}
  BY <1>1 DEF ReservationFits, Online, Placed
<1>5. CASE (ReservationKept(o) \/ ReservationGivenBack(o)) /\ UNCHANGED couponUses
  BY <1>3, <1>4, <1>5 DEF ReservationFits, ReservationKept, ReservationGivenBack
<1>6. CASE ReservationSpent(o) /\ reservation[o] = "NONE" /\ UNCHANGED couponUses
  BY <1>3, <1>4, <1>6 DEF ReservationFits, ReservationSpent
<1>7. CASE ReservationSpent(o) /\ reservation[o] # "NONE" /\ couponUses' = couponUses \cup {o}
  BY <1>3, <1>4, <1>7 DEF ReservationFits, ReservationSpent, Settled
<1> QED
  BY <1>5, <1>6, <1>7 DEF ClaimWrite

(* What a checkout claims, and for which order.                            *)
LEMMA CheckoutClaims ==
  ASSUME Inv, ClaimInv, Checkout
  PROVE  \E o \in Orders, sh \in Shapes, coupon, discounted \in BOOLEAN :
           /\ ~Placed(o) /\ shape' = [shape EXCEPT ![o] = sh] /\ sh # None
           /\ \A p \in Orders \ {o} : RowKept(p)
           /\ order'[o].status \notin Final
           /\ sh.online => order'[o].pay = "PENDING"
           /\ job' = job
           /\ ClaimAtCheckout(o, sh, coupon, discounted)
<1> PICK o \in Orders, sh \in Shapes, coupon \in BOOLEAN, discounted \in BOOLEAN :
      \/ Place(o, sh, coupon, discounted)
      \/ \E u \in Staff, paidNow \in BOOLEAN : PlacePos(u, o, sh, coupon, discounted, paidNow)
  BY DEF Checkout
<1>1. /\ ~Placed(o) /\ shape' = [shape EXCEPT ![o] = sh] /\ job' = job
      /\ ClaimAtCheckout(o, sh, coupon, discounted)
  BY DEF Place, PlacePos, mpVars
<1>2. Touched(o)
  BY CheckoutRows
<1>3. /\ \A p \in Orders \ {o} : RowKept(p)
      /\ order'[o].status \notin Final
      /\ shape'[o].online => order'[o].pay = "PENDING"
  BY <1>1, <1>2 DEF Touched, Created, Moved, Final
<1>4. shape'[o] = sh /\ sh # None
  BY <1>1, TableFacts, ShapesAssumption
<1> QED
  BY <1>1, <1>3, <1>4

(* What a checkout claims, for its order and for no other.                 *)
LEMMA ClaimFacts ==
  ASSUME Inv, ClaimInv, NEW o \in Orders, ~Placed(o), NEW sh, NEW coupon \in BOOLEAN,
         NEW discounted \in BOOLEAN, ClaimAtCheckout(o, sh, coupon, discounted)
  PROVE  /\ offer'[o] = IF discounted THEN "RESERVED" ELSE "NONE"
         /\ reservation'[o] = IF coupon /\ sh.online THEN "ACTIVE" ELSE "NONE"
         /\ o \in couponUses' <=> coupon /\ ~sh.online
         /\ \A p \in Orders \ {o} : SameClaims(p)
<1>1. offer[o] = "NONE" /\ reservation[o] = "NONE" /\ o \notin couponUses
  BY DEF ClaimInv, ReservationFits, OfferFits
<1>2. /\ offer' = IF discounted THEN [offer EXCEPT ![o] = "RESERVED"] ELSE offer
      /\ IF coupon /\ sh.online
         THEN reservation' = [reservation EXCEPT ![o] = "ACTIVE"] /\ couponUses' = couponUses
         ELSE /\ couponUses' = IF coupon THEN couponUses \cup {o} ELSE couponUses
              /\ reservation' = reservation
  BY DEF ClaimAtCheckout
<1> QED
  BY <1>1, <1>2, ClaimTypes DEF SameClaims

(* After every step the claims of an order fit its row.                    *)
LEMMA FitsStep ==
  ASSUME Inv, ClaimInv, [Next]_vars, NEW p \in Orders
  PROVE  ReservationFits(p)' /\ OfferFits(p)'
<1>1. ReservationFits(p) /\ OfferFits(p)
  BY DEF ClaimInv
<1>2. CASE ClaimQuiet
  BY <1>1, <1>2, SameFits DEF ClaimQuiet, claimVars, RowKept, SameClaims
<1>3. CASE ExpireReservations
  <2>1. /\ RowKept(p) /\ offer'[p] = offer[p] /\ couponUses' = couponUses
        /\ \/ reservation'[p] = reservation[p]
           \/ /\ reservation[p] = "ACTIVE" /\ reservation'[p] = "EXPIRED"
              /\ order[p].pay = "PENDING"
    BY <1>3 DEF ExpireReservations, RowKept, orderVars
  <2> QED
    BY <1>1, <2>1 DEF ReservationFits, OfferFits, RowKept, Placed, Online, Settled
<1>4. CASE Checkout
  <2> PICK o \in Orders, sh \in Shapes, coupon \in BOOLEAN, discounted \in BOOLEAN :
        /\ ~Placed(o) /\ shape' = [shape EXCEPT ![o] = sh] /\ sh # None
        /\ \A q \in Orders \ {o} : RowKept(q)
        /\ order'[o].status \notin Final
        /\ sh.online => order'[o].pay = "PENDING"
        /\ ClaimAtCheckout(o, sh, coupon, discounted)
    BY <1>4, CheckoutClaims
  <2>1. /\ offer'[o] = IF discounted THEN "RESERVED" ELSE "NONE"
        /\ reservation'[o] = IF coupon /\ sh.online THEN "ACTIVE" ELSE "NONE"
        /\ o \in couponUses' <=> coupon /\ ~sh.online
        /\ \A q \in Orders \ {o} : SameClaims(q)
    BY ClaimFacts
  <2>2. CASE p # o
    BY <1>1, <2>1, <2>2, SameFits
  <2>3. CASE p = o
    <3>1. shape'[o] = sh /\ sh # None
      BY TableFacts
    <3>2. ReservationFits(o)'
      BY <2>1, <3>1 DEF ReservationFits, Placed, Online, Settled, Final
    <3>3. OfferFits(o)'
      BY <2>1, <3>1 DEF OfferFits, Placed, Final
    <3> QED  BY <2>3, <3>2, <3>3
  <2> QED  BY <2>2, <2>3
<1>5. ASSUME NEW o \in Orders, ClaimWrite(o)
      PROVE  ReservationFits(p)' /\ OfferFits(p)'
  BY <1>1, <1>5, WrittenFits, SameFits DEF ClaimWrite
<1> QED
  BY <1>2, <1>3, <1>4, <1>5, ClaimStep

(* What a job has read of a reservation is current as long as its row is,  *)
(* but that it may have expired.                                           *)
LEMMA HeldStep ==
  ASSUME Inv, ClaimInv, [Next]_vars
  PROVE  HeldIsCurrent'
<1> SUFFICES ASSUME NEW g \in Gateways, job'[g].stage \in {"SYNC", "FAIL"},
                    job'[g].row = order'[job'[g].order]
             PROVE  \/ job'[g].resv = reservation'[job'[g].order]
                    \/ job'[g].resv = "ACTIVE" /\ reservation'[job'[g].order] = "EXPIRED"
  BY DEF HeldIsCurrent
<1>1. CASE /\ job'[g].order = job[g].order /\ job'[g].resv = reservation[job[g].order]
           /\ reservation' = reservation
  BY <1>1
<1>2. CASE job'[g] = job[g]
  <2> DEFINE o == job[g].order
  <2>1. /\ o \in Orders /\ Placed(o) /\ job[g].row.version <= order[o].version
        /\ job[g].row \in Rows
    BY <1>2 DEF Inv, TypeOK, ActorsTypeOK, ActorsSawPlaced, Online, VersionPinsRow
  <2>2. job[g].row.version \in Nat /\ order[o].version \in Nat
    BY <2>1, TableFacts, BoundsAssumption DEF Rows
  <2>3. order'[o] = order[o]
    BY <1>2, <2>1, <2>2, PlacedStep
  <2>4. \/ job[g].resv = reservation[o]
        \/ job[g].resv = "ACTIVE" /\ reservation[o] = "EXPIRED"
    BY <1>2, <2>3 DEF ClaimInv, HeldIsCurrent
  <2>5. \/ reservation'[o] = reservation[o]
        \/ reservation[o] = "ACTIVE" /\ reservation'[o] = "EXPIRED"
    <3>1. CASE ClaimQuiet
      BY <3>1 DEF ClaimQuiet, claimVars
    <3>2. CASE ExpireReservations
      BY <2>1, <3>2 DEF ExpireReservations
    <3>3. CASE Checkout
      BY <2>1, <3>3, CheckoutClaims, ClaimFacts DEF SameClaims
    <3>4. ASSUME NEW p \in Orders, ClaimWrite(p)
          PROVE  reservation'[o] = reservation[o]
      <4>1. p # o
        BY <2>2, <2>3, <3>4 DEF ClaimWrite, Moved
      <4> QED  BY <2>1, <3>4, <4>1 DEF ClaimWrite, SameClaims
    <3> QED  BY <3>1, <3>2, <3>3, <3>4, ClaimStep
  <2> QED  BY <1>2, <2>4, <2>5
<1> QED
  BY <1>1, <1>2, JobStep DEF JobMoves

(* Whatever orders hold is held by finitely many of them, so that counting *)
(* it means something.                                                     *)
LEMMA Countable ==
  ASSUME Inv, ClaimInv
  PROVE  /\ IsFiniteSet(couponUses)
         /\ IsFiniteSet(OfferHolders) /\ Cardinality(OfferHolders) \in Nat
         /\ IsFiniteSet(LiveReservations) /\ Cardinality(LiveReservations) \in Nat
<1>1. IsFiniteSet(PlacedOrders)
  BY DEF ClaimInv, LimitsKept
<1>2. /\ couponUses \in SUBSET PlacedOrders
      /\ OfferHolders \in SUBSET PlacedOrders
      /\ LiveReservations \in SUBSET PlacedOrders
  BY ClaimTypes DEF ClaimInv, ReservationFits, OfferFits, PlacedOrders, OfferHolders,
                    LiveReservations
<1> QED
  BY <1>1, <1>2, FS_Subset, FS_CardinalityType

(* Only finitely many orders are placed.                                   *)
LEMMA PlacedStaysFinite ==
  ASSUME Inv, ClaimInv, [Next]_vars
  PROVE  IsFiniteSet(PlacedOrders')
<1>1. IsFiniteSet(PlacedOrders)
  BY DEF ClaimInv, LimitsKept
<1>2. CASE \A p \in Orders : RowKept(p)
  <2>1. PlacedOrders' = PlacedOrders
    BY <1>2 DEF PlacedOrders, RowKept, Placed
  <2> QED  BY <1>1, <2>1
<1>3. ASSUME NEW o \in Orders, Touched(o)
      PROVE  IsFiniteSet(PlacedOrders')
  <2>1. Placed(o)'
    BY <1>3, ShapesAssumption DEF Touched, Created, Moved, Placed
  <2>2. PlacedOrders' = PlacedOrders \cup {o}
    BY <1>3, <2>1 DEF Touched, PlacedOrders, RowKept, Placed
  <2> QED  BY <1>1, <2>2, FS_AddElement
<1> QED
  BY <1>2, <1>3, RowStep

(* Every step keeps the count of a coupon equal to its uses, and within    *)
(* its limit.                                                              *)
LEMMA CouponStep ==
  ASSUME Inv, ClaimInv, [Next]_vars
  PROVE  usageCount' = Cardinality(couponUses') /\ usageCount' <= MaxUsages
<1>1. /\ usageCount = Cardinality(couponUses) /\ usageCount <= MaxUsages /\ usageCount \in Nat
      /\ IsFiniteSet(couponUses) /\ MaxUsages \in Nat
  BY Countable, ClaimTypes, BoundsAssumption DEF ClaimInv, LimitsKept
<1>2. CASE UNCHANGED <<usageCount, couponUses>>
  BY <1>1, <1>2
<1>3. ASSUME NEW o \in Orders, o \notin couponUses, usageCount < MaxUsages,
             usageCount' = usageCount + 1, couponUses' = couponUses \cup {o}
      PROVE  usageCount' = Cardinality(couponUses') /\ usageCount' <= MaxUsages
  <2>1. Cardinality(couponUses \cup {o}) = Cardinality(couponUses) + 1
    BY <1>1, <1>3, FS_AddElement
  <2> QED  BY <1>1, <1>3, <2>1
<1>4. CASE ClaimQuiet \/ ExpireReservations
  BY <1>2, <1>4 DEF ClaimQuiet, claimVars, ExpireReservations
<1>5. CASE Checkout
  <2> PICK o \in Orders, sh \in Shapes, coupon \in BOOLEAN, discounted \in BOOLEAN :
        ~Placed(o) /\ ClaimAtCheckout(o, sh, coupon, discounted)
    BY <1>5, CheckoutClaims
  <2>1. \/ UNCHANGED <<usageCount, couponUses>>
        \/ CouponFree /\ usageCount' = usageCount + 1 /\ couponUses' = couponUses \cup {o}
    BY DEF ClaimAtCheckout
  <2>2. CouponFree => usageCount < MaxUsages
    BY <1>1, Countable DEF CouponFree
  <2>3. o \notin couponUses
    BY DEF ClaimInv, ReservationFits
  <2> QED  BY <1>2, <1>3, <2>1, <2>2, <2>3
<1>6. ASSUME NEW o \in Orders, ClaimWrite(o)
      PROVE  usageCount' = Cardinality(couponUses') /\ usageCount' <= MaxUsages
  <2>1. ReservationSpent(o) => o \notin couponUses
    <3>1. ReservationFits(o)
      BY DEF ClaimInv
    <3> QED  BY <3>1 DEF ReservationSpent, ReservationFits
  <2> QED  BY <1>2, <1>3, <1>6, <2>1 DEF ClaimWrite
<1> QED
  BY <1>4, <1>5, <1>6, ClaimStep

(* Every step keeps the orders that hold an offer within its limit.        *)
LEMMA OfferStep ==
  ASSUME Inv, ClaimInv, [Next]_vars
  PROVE  Cardinality(OfferHolders') <= MaxOfferUses
<1>1. /\ Cardinality(OfferHolders) <= MaxOfferUses /\ MaxOfferUses \in Nat
      /\ IsFiniteSet(OfferHolders) /\ Cardinality(OfferHolders) \in Nat
  BY Countable, BoundsAssumption DEF ClaimInv, LimitsKept
<1>2. ASSUME OfferHolders' \subseteq OfferHolders
      PROVE  Cardinality(OfferHolders') <= MaxOfferUses
  <2>1. /\ IsFiniteSet(OfferHolders') /\ Cardinality(OfferHolders') <= Cardinality(OfferHolders)
    BY <1>1, <1>2, FS_Subset
  <2>2. Cardinality(OfferHolders') \in Nat
    BY <2>1, FS_CardinalityType
  <2> QED  BY <1>1, <2>1, <2>2
<1>3. CASE ClaimQuiet \/ ExpireReservations
  BY <1>2, <1>3 DEF ClaimQuiet, claimVars, ExpireReservations, OfferHolders
<1>4. CASE Checkout
  <2> PICK o \in Orders, sh \in Shapes, coupon \in BOOLEAN, discounted \in BOOLEAN :
        ~Placed(o) /\ ClaimAtCheckout(o, sh, coupon, discounted)
    BY <1>4, CheckoutClaims
  <2>1. offer' = (IF discounted THEN [offer EXCEPT ![o] = "RESERVED"] ELSE offer)
        /\ (discounted => OfferFree)
    BY DEF ClaimAtCheckout
  <2>2. CASE ~discounted
    BY <1>2, <2>1, <2>2 DEF OfferHolders
  <2>3. CASE discounted
    <3>1. OfferHolders' = OfferHolders \cup {o}
      BY <2>1, <2>3, ClaimTypes DEF OfferHolders
    <3>2. Cardinality(OfferHolders) < MaxOfferUses
      BY <2>1, <2>3 DEF OfferFree
    <3>3. \/ Cardinality(OfferHolders \cup {o}) = Cardinality(OfferHolders)
          \/ Cardinality(OfferHolders \cup {o}) = Cardinality(OfferHolders) + 1
      BY <1>1, FS_AddElement
    <3> QED  BY <1>1, <3>1, <3>2, <3>3
  <2> QED  BY <2>2, <2>3
<1>5. ASSUME NEW o \in Orders, ClaimWrite(o)
      PROVE  Cardinality(OfferHolders') <= MaxOfferUses
  <2>1. \A p \in Orders \ {o} : offer'[p] = offer[p]
    BY <1>5 DEF ClaimWrite, SameClaims
  <2>2. offer'[o] \in {"RESERVED", "CONSUMED"} => offer[o] \in {"RESERVED", "CONSUMED"}
    BY <1>5 DEF ClaimWrite, OfferSettles
  <2>3. OfferHolders' \subseteq OfferHolders
    BY <2>1, <2>2 DEF OfferHolders
  <2> QED  BY <1>2, <2>3
<1> QED
  BY <1>3, <1>4, <1>5, ClaimStep

(* The first state satisfies the invariant of claims.                      *)
LEMMA ClaimInit ==
  ASSUME Init
  PROVE  ClaimInv
<1>1. \A o \in Orders : /\ ~Placed(o) /\ offer[o] = "NONE" /\ reservation[o] = "NONE"
                        /\ o \notin couponUses
  BY DEF Init, Placed
<1>2. \A o \in Orders : ReservationFits(o) /\ OfferFits(o)
  BY <1>1 DEF ReservationFits, OfferFits, Online
<1>3. HeldIsCurrent
  BY DEF Init, HeldIsCurrent, Idle
<1>4. PlacedOrders = {} /\ OfferHolders = {} /\ couponUses = {} /\ usageCount = 0
  BY <1>1 DEF PlacedOrders, OfferHolders, Init
<1>5. LimitsKept
  BY <1>4, FS_EmptySet, BoundsAssumption DEF LimitsKept
<1> QED
  BY <1>2, <1>3, <1>5 DEF ClaimInv

(* The invariant of claims holds of every behaviour.                       *)
LEMMA ClaimInvariance == Spec => []ClaimInv
<1>1. ASSUME Inv, ClaimInv, [Next]_vars
      PROVE  ClaimInv'
  BY <1>1, FitsStep, HeldStep, PlacedStaysFinite, CouponStep, OfferStep DEF ClaimInv, LimitsKept
<1> QED  BY <1>1, ClaimInit, Invariance, PTL DEF Spec

-----------------------------------------------------------------------------
(* The theorems.                                                           *)

(* A coupon is never used beyond its limit, whoever checks out or pays at  *)
(* the same time, and its counter is the number of its uses.               *)
THEOREM CouponWithinLimit == Spec => []CouponLedger
<1>1. ClaimInv => CouponLedger
  BY DEF ClaimInv, LimitsKept, ReservationFits, CouponLedger
<1> QED  BY <1>1, ClaimInvariance, PTL

(* A limited offer is never granted more often than its limit.             *)
THEOREM OfferWithinLimit == Spec => []OfferLimit
<1>1. ClaimInv => OfferLimit
  BY DEF ClaimInv, LimitsKept, OfferLimit
<1> QED  BY <1>1, ClaimInvariance, PTL

(* Coupons and offers are granted within their limits, whichever route     *)
(* takes the last use first.                                               *)
THEOREM ClaimsWithinLimits == Spec => []LimitsHeld
BY CouponWithinLimit, OfferWithinLimit, PTL DEF LimitsHeld

(* An order that ends leaves no claim open: what it reserved is given back *)
(* when it is cancelled and spent when it is delivered or paid.            *)
THEOREM EveryClaimSettled == Spec => []ClaimsSettled
<1>1. ClaimInv => ClaimsSettled
  BY DEF ClaimInv, ReservationFits, OfferFits, Final, Settled, ClaimsSettled
<1> QED  BY <1>1, ClaimInvariance, PTL

-----------------------------------------------------------------------------
(* Alerts.                                                                 *)

LastingAlert(o, a) == a.order = o /\ a.code # "ORDER_CREATE_FAILED"

(* An order lags behind what was seen of its charge.                       *)
Lags(o) ==
  \/ charge[o].synced = "PAID" /\ order[o].pay \notin Settled
  \/ charge[o].synced = "REFUNDED" /\ order[o].pay # "REFUNDED"

LagIsAlerted == \A o \in Orders : Lags(o) => \E a \in alerts : LastingAlert(o, a)

(* Money an open transaction has read on a row is still there: payments    *)
(* only ever go from paid to refunded.                                     *)
ReadMoneyStands ==
  \A g \in Gateways : job[g].stage = "SYNC" =>
    /\ job[g].row.pay \in Settled => order[job[g].order].pay \in Settled
    /\ job[g].row.pay = "REFUNDED" => order[job[g].order].pay = "REFUNDED"

(* Nothing is seen of the charge of an order that does not exist.          *)
OnlyPlacedCharged == \A o \in Orders : ~Placed(o) => charge[o].synced = "NONE"

AlertInv == LagIsAlerted /\ ReadMoneyStands /\ OnlyPlacedCharged

(* What was settled stays settled, and a refund stays a refund.            *)
LEMMA MoneyStays ==
  ASSUME Inv, [Next]_vars, NEW o \in Orders, Placed(o)
  PROVE  /\ order[o].pay \in Settled => order'[o].pay \in Settled
         /\ order[o].pay = "REFUNDED" => order'[o].pay = "REFUNDED"
<1>1. CASE RowKept(o)
  BY <1>1 DEF RowKept
<1>2. CASE Moved(o)
  <2> DEFINE st == order[o].status
             pay == order[o].pay
             st2 == order'[o].status
             pay2 == order'[o].pay
             sh == shape[o]
  <2>1. Move(sh, st, pay, st2, pay2)
    BY <1>2 DEF Moved
  <2> HIDE DEF st, pay, st2, pay2, sh
  <2>2. /\ pay \in Settled => pay2 \in Settled
        /\ pay = "REFUNDED" => pay2 = "REFUNDED"
    BY <2>1 DEF Move, Settled, CanTransitionPayment, PaymentEdges, OperationTarget
  <2> QED  BY <2>2 DEF pay, pay2
<1> QED
  BY <1>1, <1>2, RowStep DEF Touched, Created

(* A decision on money that was seen either reflects it, finds it          *)
(* reflected, or raises an alert of its own.                               *)
LEMMA DecisionOnMoney ==
  ASSUME NEW pay \in PaymentStatuses, NEW st \in OrderStatuses, NEW mapped \in {"PAID", "REFUNDED"}
  PROVE  LET d == DecideProviderTransition(pay, st, mapped) IN
         /\ d.kind = "NOOP" => pay = mapped
         /\ d.kind = "ALERT" => d.code # "ORDER_CREATE_FAILED"
         /\ d.kind = "TRANSITION" => d.pay = mapped
BY SMTT(60) DEF DecideProviderTransition, PaymentStatuses, OrderStatuses, Noop, Alert, Transition

(* A commit closes no alert that is open, and leaves one behind it where   *)
(* the row lags.                                                           *)
LEMMA CommitFacts ==
  ASSUME Inv, AlertInv, NEW g \in Gateways, CommitNoted(g) \/ CommitSync(g),
         NEW o \in Orders, o = job[g].order
  PROVE  /\ OpenAlerts \subseteq alerts'
         /\ \A p \in Orders \ {o} : charge'[p] = charge[p]
         /\ Lags(o)' => \E a \in alerts' : LastingAlert(o, a)
<1> DEFINE d == Decision(g)
           mapped == job[g].mapped
<1>1. /\ job[g].stage = "SYNC"
      /\ job[g].row.pay \in PaymentStatuses /\ job[g].row.status \in OrderStatuses
      /\ mapped \in ProviderStates
      /\ d = DecideProviderTransition(job[g].row.pay, job[g].row.status, mapped)
  BY DecisionOfJob DEF CommitNoted, CommitSync, Inv, Decision
<1>2. /\ charge' = [charge EXCEPT ![o] = [creation |-> "CREATED", synced |-> mapped]]
      /\ OpenAlerts \subseteq alerts'
  BY DEF CommitNoted, CommitSync, RecordSync
<1>3. charge'[o].synced = mapped /\ \A p \in Orders \ {o} : charge'[p] = charge[p]
  BY <1>1, <1>2 DEF Inv, TypeOK, ProviderTypeOK
<1>4. CASE mapped \notin {"PAID", "REFUNDED"}
  BY <1>2, <1>3, <1>4 DEF Lags
<1>5. CASE mapped \in {"PAID", "REFUNDED"} /\ CommitNoted(g)
  <2>1. /\ d.kind # "TRANSITION" /\ order' = order
        /\ d.kind = "ALERT" => [order |-> o, code |-> d.code] \in alerts'
    BY <1>5 DEF CommitNoted, orderVars
  <2>2. /\ d.kind \in {"NOOP", "ALERT"}
        /\ d.kind = "NOOP" => job[g].row.pay = mapped
        /\ d.kind = "ALERT" => d.code # "ORDER_CREATE_FAILED"
    BY <1>1, <1>5, <2>1, DecisionOnMoney, DecisionType
  <2>3. /\ job[g].row.pay \in Settled => order[o].pay \in Settled
        /\ job[g].row.pay = "REFUNDED" => order[o].pay = "REFUNDED"
    BY <1>1 DEF AlertInv, ReadMoneyStands
  <2> HIDE DEF d, mapped
  <2>4. CASE d.kind = "NOOP"
    <3>1. ~Lags(o)'
      BY <1>3, <1>5, <2>1, <2>2, <2>3, <2>4 DEF Lags, Settled
    <3> QED  BY <1>2, <1>3, <3>1
  <2>5. CASE d.kind = "ALERT"
    <3>1. LastingAlert(o, [order |-> o, code |-> d.code])
      BY <2>2, <2>5 DEF LastingAlert
    <3> QED  BY <1>2, <1>3, <2>1, <2>5, <3>1
  <2> QED  BY <2>2, <2>4, <2>5
<1>6. CASE mapped \in {"PAID", "REFUNDED"} /\ CommitSync(g)
  <2>1. d.kind = "TRANSITION" /\ WriteOrder(o, d.status, d.pay)
    BY <1>6 DEF CommitSync
  <2>2. d.pay = mapped
    BY <1>1, <1>6, <2>1, DecisionOnMoney
  <2>3. order'[o].pay = mapped
    BY <1>1, <2>1, <2>2, TableFacts DEF WriteOrder
  <2>4. ~Lags(o)'
    BY <1>3, <1>6, <2>3 DEF Lags, Settled
  <2> QED  BY <1>2, <1>3, <2>4
<1> QED
  BY <1>4, <1>5, <1>6

(* Any other step sees no money, and drops no alert about it.              *)
SeesNothing ==
  /\ alerts \subseteq alerts'
  /\ \A o \in Orders : \/ charge'[o].synced = charge[o].synced
                       \/ Placed(o) /\ charge'[o].synced = "PENDING"

(* No step but the commits of what the provider says closes an alert or    *)
(* sees more of a charge.                                                  *)
LEMMA SeesNothingStep ==
  ASSUME Inv, [Next]_vars
  PROVE  SeesNothing \/ \E g \in Gateways : CommitNoted(g) \/ CommitSync(g)
<1>1. \A o \in Orders : /\ charge[o] \in [creation : {"PENDING", "CREATED", "RETRYABLE_ERROR", "FAILED"},
                                          synced : ProviderStates \cup {"NONE"}]
  BY DEF Inv, TypeOK, ProviderTypeOK
<1>2. charge \in [Orders -> [creation : {"PENDING", "CREATED", "RETRYABLE_ERROR", "FAILED"},
                             synced : ProviderStates \cup {"NONE"}]]
  BY DEF Inv, TypeOK, ProviderTypeOK
<1>3. ASSUME charge' = charge, alerts \subseteq alerts'  PROVE SeesNothing
  BY <1>3 DEF SeesNothing
<1>4. CASE UNCHANGED vars
  BY <1>3, <1>4 DEF vars, mpVars
<1>5. CASE Checkout
  BY <1>3, <1>5 DEF Checkout, Place, PlacePos, mpVars
<1>6. CASE Dashboard
  <2> PICK u \in Staff, o \in Orders :
        \/ Look(u, o)
        \/ \E next \in OrderStatuses : Advance(u, o, next)
        \/ Cancel(u, o) \/ Undo(u, o) \/ AddNote(u, o)
        \/ ConfirmManualPayment(u, o) \/ MarkPaymentFailed(u, o)
        \/ RetryFailedPayment(u, o) \/ RefundPayment(u, o)
    BY <1>6 DEF Dashboard
  <2>1. UNCHANGED mpVars
    BY DEF Look, Advance, Cancel, Undo, AddNote, ConfirmManualPayment, MarkPaymentFailed,
           RetryFailedPayment, RefundPayment, ChangePayment
  <2> QED  BY <1>3, <2>1 DEF mpVars
<1>7. CASE Environment
  <2>1. \A o \in Orders : ReportPayment(o) => UNCHANGED mpVars
    BY DEF ReportPayment, ChangePayment
  <2> QED  BY <1>3, <1>7, <2>1 DEF Environment, ExpireReservations, Tick, RemoteMoves, mpVars
<1>8. CASE Gateway
  <2> PICK g \in Gateways :
        \/ \E o \in Orders : StartCharge(g, o) \/ StartExpiry(g, o)
        \/ \E o \in Orders, overdue \in BOOLEAN : Fetch(g, o, overdue)
        \/ ChargeAccepted(g) \/ ChargeLost(g) \/ ChargeRefused(g) \/ RecordCharge(g)
        \/ ReadForFailure(g) \/ CommitFailure(g)
        \/ ReadForSync(g) \/ CommitNoted(g) \/ CommitSync(g)
        \/ Abandon(g)
    BY <1>8 DEF Gateway
  <2>1. CASE \/ \E o \in Orders : StartCharge(g, o) \/ StartExpiry(g, o)
             \/ \E o \in Orders, overdue \in BOOLEAN : Fetch(g, o, overdue)
             \/ ChargeAccepted(g) \/ ChargeRefused(g) \/ ReadForFailure(g) \/ ReadForSync(g)
             \/ Abandon(g)
    BY <1>3, <2>1 DEF StartCharge, StartExpiry, Fetch, ChargeAccepted, ChargeRefused, ReadForFailure,
                      ReadForSync, Abandon
  <2>2. CASE ChargeLost(g) \/ CommitFailure(g)
    <3>1. /\ alerts \subseteq alerts'
          /\ \E creation \in {"RETRYABLE_ERROR", "FAILED"} :
               \/ charge' = charge
               \/ charge' = [charge EXCEPT ![job[g].order].creation = creation]
      BY <2>2 DEF ChargeLost, CommitFailure
    <3>2. \A o \in Orders : charge'[o].synced = charge[o].synced
      BY <1>2, <3>1
    <3> QED  BY <3>1, <3>2 DEF SeesNothing
  <2>3. CASE RecordCharge(g)
    <3>1. /\ alerts' = alerts
          /\ charge' = [charge EXCEPT ![job[g].order] = [creation |-> "CREATED", synced |-> "PENDING"]]
      BY <2>3 DEF RecordCharge
    <3>2. Placed(job[g].order)
      BY <2>3 DEF RecordCharge, Inv, ActorsSawPlaced, Online
    <3> QED  BY <1>2, <3>1, <3>2 DEF SeesNothing
  <2> QED  BY <2>1, <2>2, <2>3
<1> QED
  BY <1>4, <1>5, <1>6, <1>7, <1>8 DEF Next

(* After every step a row that lags behind its charge has an alert, and    *)
(* nothing is seen of the charge of an order that does not exist.          *)
LEMMA AlertStep ==
  ASSUME Inv, AlertInv, [Next]_vars
  PROVE  LagIsAlerted' /\ OnlyPlacedCharged'
<1>1. ASSUME NEW o \in Orders, OpenAlerts \subseteq alerts',
             \/ charge'[o].synced = charge[o].synced
             \/ Placed(o) /\ charge'[o].synced = "PENDING"
      PROVE  /\ Lags(o)' => \E a \in alerts' : LastingAlert(o, a)
             /\ ~Placed(o)' => charge'[o].synced = "NONE"
  <2>1. CASE ~Placed(o)
    <3>1. charge'[o].synced = "NONE"
      BY <1>1, <2>1 DEF AlertInv, OnlyPlacedCharged
    <3> QED  BY <3>1 DEF Lags
  <2>2. CASE Placed(o)
    <3>1. Placed(o)'
      BY <2>2, PlacedStep DEF Placed
    <3>2. Lags(o)' => Lags(o)
      BY <1>1, <2>2, MoneyStays DEF Lags
    <3>3. Lags(o) => \E a \in OpenAlerts : LastingAlert(o, a)
      BY DEF AlertInv, LagIsAlerted, OpenAlerts, LastingAlert
    <3> QED  BY <1>1, <3>1, <3>2, <3>3
  <2> QED  BY <2>1, <2>2
<1>2. CASE SeesNothing
  BY <1>1, <1>2 DEF SeesNothing, OpenAlerts, LagIsAlerted, OnlyPlacedCharged
<1>3. ASSUME NEW g \in Gateways, CommitNoted(g) \/ CommitSync(g)
      PROVE  LagIsAlerted' /\ OnlyPlacedCharged'
  <2>1. PICK o \in Orders : o = job[g].order /\ Placed(o)
    BY <1>3 DEF CommitNoted, CommitSync, Inv, TypeOK, ActorsTypeOK, ActorsSawPlaced, Online
  <2>2. /\ OpenAlerts \subseteq alerts'
        /\ \A p \in Orders \ {o} : charge'[p] = charge[p]
        /\ Lags(o)' => \E a \in alerts' : LastingAlert(o, a)
    BY <1>3, <2>1, CommitFacts
  <2>3. Placed(o)'
    BY <2>1, PlacedStep DEF Placed
  <2> QED  BY <1>1, <2>2, <2>3 DEF LagIsAlerted, OnlyPlacedCharged
<1> QED
  BY <1>2, <1>3, SeesNothingStep

(* After every step a payment that a job has read as settled, or as        *)
(* refunded, is still so.                                                  *)
LEMMA ReadMoneyStep ==
  ASSUME Inv, AlertInv, [Next]_vars
  PROVE  ReadMoneyStands'
<1> SUFFICES ASSUME NEW g \in Gateways, job'[g].stage = "SYNC"
             PROVE  /\ job'[g].row.pay \in Settled => order'[job'[g].order].pay \in Settled
                    /\ job'[g].row.pay = "REFUNDED" => order'[job'[g].order].pay = "REFUNDED"
  BY DEF ReadMoneyStands
<1>1. CASE job'[g] = job[g]
  <2>1. job[g].order \in Orders /\ Placed(job[g].order)
    BY <1>1 DEF Inv, TypeOK, ActorsTypeOK, ActorsSawPlaced, Online
  <2>2. /\ job[g].row.pay \in Settled => order[job[g].order].pay \in Settled
        /\ job[g].row.pay = "REFUNDED" => order[job[g].order].pay = "REFUNDED"
    BY <1>1 DEF AlertInv, ReadMoneyStands
  <2> QED  BY <1>1, <2>1, <2>2, MoneyStays
<1>2. CASE /\ job'[g].order = job[g].order /\ job'[g].row = order[job[g].order]
           /\ order' = order
  BY <1>2
<1> QED
  BY <1>1, <1>2, JobStep DEF JobMoves

(* Money seen at Mercado Pago and not on the order always has an alert     *)
(* that recovering a creation does not resolve.                            *)
THEOREM DivergenceAlerted == Spec => []NoSilentDivergence
<1>1. Init => AlertInv
  BY DEF Init, AlertInv, LagIsAlerted, Lags, ReadMoneyStands, OnlyPlacedCharged, Idle
<1>2. ASSUME Inv, AlertInv, [Next]_vars
      PROVE  AlertInv'
  BY <1>2, AlertStep, ReadMoneyStep DEF AlertInv
<1>3. AlertInv => NoSilentDivergence
  BY DEF AlertInv, LagIsAlerted, Lags, LastingAlert, Settled, NoSilentDivergence
<1> QED  BY <1>1, <1>2, <1>3, Invariance, PTL DEF Spec
=============================================================================
