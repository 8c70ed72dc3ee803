------------------------------- MODULE DiningRoom -------------------------------
(***************************************************************************)
(* The tables of a store and the sessions that gather a table's orders.    *)
(* A session is born with an order, closed by a waiter or, when nothing of *)
(* it is open any more, by the next order at its table. Its operations are *)
(* serializable transactions, hence one action each; a waiter acts on the  *)
(* version of a screen that may be out of date, and the orders go on       *)
(* through the workflow and the provider without touching the session.     *)
(***************************************************************************)
EXTENDS OrderWorkflow, Integers, FiniteSets

CONSTANTS
  Tables,
  Waiters,
  RequestTypes,  \* ASSISTANCE and BILL, which differ in nothing but their name
  MaxDishes,     \* bound: the orders placed at the tables
  MaxSessions,   \* bound: sessions
  MaxEdition     \* bound: version of a session

ASSUME DiningAssumption ==
  MaxDishes \in Nat /\ MaxSessions \in Nat \ {0} /\ MaxEdition \in Nat /\ "NOBODY" \notin Waiters

VARIABLES
  table,         \* store_dining_tables: whether it is active
  session,       \* dining_table_sessions
  dish,          \* orders, with the session they belong to
  request,       \* open dining_table_service_requests, by session and type
  screen         \* the session as each waiter last saw it

diningVars == <<table, session, dish, request, screen>>

Dishes == 1..MaxDishes
Sessions == 1..MaxSessions
QrPix == [modality |-> "DINE_IN", method |-> "PIX", online |-> TRUE, pos |-> FALSE]
AtTable == [modality |-> "DINE_IN", method |-> "CASH", online |-> FALSE, pos |-> FALSE]

Ordered(s) == {d \in Dishes : dish[d].session = s}
OpenRequests(s) == {type \in RequestTypes : <<s, type>> \in request}

DiningTypeOK ==
  /\ table \in [Tables -> BOOLEAN]
  /\ session \in [Sessions -> [status : {"NONE", "OPEN", "CLOSED"}, at : Tables \cup {"NOWHERE"}, version : 0..MaxEdition,
                               by : Waiters \cup {"NOBODY"}]]
  /\ \A d \in Dishes :
       /\ dish[d].session \in {0} \cup Sessions /\ dish[d].shape \in {QrPix, AtTable}
       /\ dish[d].status \in OrderStatuses /\ dish[d].pay \in PaymentStatuses
  /\ request \subseteq Sessions \X RequestTypes

DiningInit ==
  /\ table = [t \in Tables |-> TRUE]
  /\ session = [s \in Sessions |-> [status |-> "NONE", at |-> "NOWHERE", version |-> 0, by |-> "NOBODY"]]
  /\ dish = [d \in Dishes |-> [session |-> 0, shape |-> AtTable, status |-> "PENDING", pay |-> "PENDING"]]
  /\ request = {}
  /\ screen = [w \in Waiters |-> [session |-> 0, version |-> 0, orders |-> {}]]

-----------------------------------------------------------------------------
(* What may be closed.                                                     *)
Terminal(d) == dish[d].status \in {"DELIVERED", "CANCELLED"}

Resolved(d) == IF dish[d].status = "CANCELLED" THEN dish[d].pay \in {"CANCELLED", "REFUNDED"}
               ELSE dish[d].pay \in {"PAID", "REFUNDED"}

(* Faulty: open payments do not matter.                                    *)
CanCloseUnpaid(s) == (\A d \in Ordered(s) : Terminal(d)) /\ OpenRequests(s) = {}

CanClose(s) == (\A d \in Ordered(s) : Terminal(d) /\ Resolved(d)) /\ OpenRequests(s) = {}

CanRollOver(s) == Ordered(s) # {} /\ CanClose(s)

(* Faulty: an order leaves the version alone.                              *)
TouchedNever(row) == row

(* Whatever a session is read for raises its version.                      *)
Touched(row) == [row EXCEPT !.version = @ + 1]

Closed(row, by) == [Touched(row) EXCEPT !.status = "CLOSED", !.by = by]

-----------------------------------------------------------------------------
(* A checkout at table t: it joins the open session, or closes a settled   *)
(* one and opens another.                                                  *)
PlaceOrder(d, t, shape) ==
  LET open == {s \in Sessions : session[s].status = "OPEN" /\ session[s].at = t}
      joined == {s \in open : ~CanRollOver(s)}
      fresh == {s \in Sessions : session[s].status = "NONE"}
      new == CHOOSE s \in fresh : \A other \in fresh : s <= other
      s == IF joined # {} THEN CHOOSE s \in joined : TRUE ELSE new
  IN  /\ dish[d].session = 0 /\ table[t] /\ \A e \in 1..d - 1 : dish[e].session # 0
      /\ joined = {} => fresh # {}
      /\ \A other \in open \cup {s} : session[other].version < MaxEdition
      /\ dish' = [dish EXCEPT ![d] = [session |-> s, shape |-> shape, pay |-> "PENDING",
                    status |-> IF shape.online THEN "AWAITING_PAYMENT" ELSE "PENDING"]]
      /\ session' = [other \in Sessions |->
           CASE other = s -> [Touched(session[s]) EXCEPT !.status = "OPEN", !.at = t]
             [] other \in open \ {s} -> Closed(session[other], "NOBODY")
             [] OTHER -> session[other]]
      /\ UNCHANGED <<table, request, screen>>

(* The orders live on: the workflow, and the provider for online ones.     *)
DishMoves(d, status, pay) ==
  /\ RowCheck(dish[d].shape, status, pay)
  /\ dish' = [dish EXCEPT ![d].status = status, ![d].pay = pay]
  /\ UNCHANGED <<table, session, request, screen>>

ServeDish(d) == \E next \in OrderStatuses \ {"CANCELLED"} :
  /\ dish[d].session # 0
  /\ CanTransitionOrder(dish[d].shape, dish[d].status, dish[d].pay, next)
  /\ DishMoves(d, next, dish[d].pay)

CancelDish(d) ==
  /\ dish[d].session # 0 /\ dish[d].pay # "PAID"
  /\ CanTransitionOrder(dish[d].shape, dish[d].status, dish[d].pay, "CANCELLED")
  /\ DishMoves(d, "CANCELLED", IF dish[d].pay = "REFUNDED" THEN "REFUNDED" ELSE "CANCELLED")

Payable(d, op) ==
  /\ ~dish[d].shape.online
  /\ CanTransitionPayment(dish[d].shape.method, dish[d].status, dish[d].pay, op)
  /\ RowCheck(dish[d].shape, dish[d].status, OperationTarget(op))

PayDish(d, op) ==
  /\ dish[d].session # 0 /\ Payable(d, op)
  /\ DishMoves(d, dish[d].status, OperationTarget(op))

Verdict(d, mapped) == DecideProviderTransition(dish[d].pay, dish[d].status, mapped)

ProviderSettles(d, mapped) ==
  /\ dish[d].session # 0 /\ dish[d].shape.online /\ Verdict(d, mapped).kind = "TRANSITION"
  /\ DishMoves(d, Verdict(d, mapped).status, Verdict(d, mapped).pay)

-----------------------------------------------------------------------------
(* The guests call, once for each type; a repetition finds the open        *)
(* request, and the cooldown only delays the next.                         *)
RequestService(s, type) ==
  /\ session[s].status = "OPEN" /\ session[s].version < MaxEdition /\ <<s, type>> \notin request
  /\ request' = request \cup {<<s, type>>}
  /\ session' = [session EXCEPT ![s] = Touched(@)]
  /\ UNCHANGED <<table, dish, screen>>

(* Whatever became of the session.                                         *)
ResolveRequest(s, type) ==
  /\ <<s, type>> \in request /\ session[s].version < MaxEdition
  /\ request' = request \ {<<s, type>>}
  /\ session' = [session EXCEPT ![s] = Touched(@)]
  /\ UNCHANGED <<table, dish, screen>>

OpenDetail(w, s) ==
  /\ session[s].status = "OPEN"
  /\ screen' = [screen EXCEPT ![w] = [session |-> s, version |-> session[s].version, orders |-> Ordered(s)]]
  /\ UNCHANGED <<table, session, dish, request>>

(* The session is as it was on the waiter's screen.                        *)
AsSeen(w) == LET s == screen[w].session
             IN  s # 0 /\ session[s].status = "OPEN" /\ session[s].version = screen[w].version

CloseSession(w) ==
  LET s == screen[w].session
  IN  /\ AsSeen(w) /\ CanClose(s) /\ session[s].version < MaxEdition
      /\ session' = [session EXCEPT ![s] = Closed(@, w)]
      /\ UNCHANGED <<table, dish, request, screen>>

TransferSession(w, t) ==
  LET s == screen[w].session
  IN  /\ AsSeen(w) /\ session[s].at # t /\ table[t] /\ session[s].version < MaxEdition
      /\ ~\E other \in Sessions : session[other].status = "OPEN" /\ session[other].at = t
      /\ session' = [session EXCEPT ![s] = [Touched(@) EXCEPT !.at = t]]
      /\ UNCHANGED <<table, dish, request, screen>>

SetTableActive(t) ==
  /\ table' = [table EXCEPT ![t] = ~@]
  /\ UNCHANGED <<session, dish, request, screen>>

DiningNext ==
  \/ \E d \in Dishes :
       \/ \E t \in Tables, shape \in {QrPix, AtTable} : PlaceOrder(d, t, shape)
       \/ ServeDish(d) \/ CancelDish(d)
       \/ \E op \in PaymentOperations : PayDish(d, op)
       \/ \E mapped \in ProviderStates : ProviderSettles(d, mapped)
  \/ \E s \in Sessions, type \in RequestTypes : RequestService(s, type) \/ ResolveRequest(s, type)
  \/ \E w \in Waiters :
       \/ \E s \in Sessions : OpenDetail(w, s)
       \/ \E t \in Tables : TransferSession(w, t)
       \/ CloseSession(w)
  \/ \E t \in Tables : SetTableActive(t)

DiningSpec == DiningInit /\ [][DiningNext]_diningVars

-----------------------------------------------------------------------------
(* A table has one open session at most, and a bill that was closed, by a  *)
(* waiter or by the next order, stays settled whatever the workflow and    *)
(* the provider do with its orders later.                                  *)
BillsSettled ==
  /\ \A s, other \in Sessions :
       session[s].status = "OPEN" /\ session[other].status = "OPEN" /\ session[s].at = session[other].at
       => s = other
  /\ \A s \in Sessions : session[s].status = "CLOSED" =>
       OpenRequests(s) = {} /\ \A d \in Ordered(s) : Terminal(d) /\ Resolved(d)

(* A waiter closes only the bill that was on the screen: an order that     *)
(* joins it meanwhile makes the version differ.                            *)
ClosedAsSeen == [][\A s \in Sessions : \A w \in Waiters :
  session[s].status = "OPEN" /\ session'[s].status = "CLOSED" /\ session'[s].by = w
  => screen[w].session = s /\ screen[w].orders = Ordered(s)]_diningVars
=============================================================================
