---------------------------- MODULE CounterProofs ----------------------------
(***************************************************************************)
(* What the staff and the owner work with, for any tables, tills, drafts,  *)
(* offers, rows and bounds: a bill that was closed stays settled and was   *)
(* closed as its waiter saw it; a draft of the till becomes its order,     *)
(* once; promotions of one store never meet; and the board hears of every  *)
(* new order.                                                              *)
(*                                                                         *)
(* The offers that a quote reads do not show that promotions are apart:    *)
(* the argument goes through the promotions, which the operations compare, *)
(* and through the agreement of the two rows of each.                      *)
(***************************************************************************)
EXTENDS DiningRoom, TillDrafts, OfferCatalog, NotificationFeed, DataLemmas

-----------------------------------------------------------------------------
(* Tables and their bills.                                                 *)

Editions == 0..MaxEdition
SessionRows == [status : {"NONE", "OPEN", "CLOSED"}, at : Tables \cup {"NOWHERE"}, version : Editions,
                by : Waiters \cup {"NOBODY"}]
DishRows == [session : {0} \cup Sessions, shape : {QrPix, AtTable}, status : OrderStatuses, pay : PaymentStatuses]
Screens == [session : {0} \cup Sessions, version : Editions, orders : SUBSET Dishes]

DiningTyped ==
  /\ table \in [Tables -> BOOLEAN] /\ session \in [Sessions -> SessionRows]
  /\ dish \in [Dishes -> DishRows] /\ request \subseteq Sessions \X RequestTypes
  /\ screen \in [Waiters -> Screens]

(* A screen shows a version the session had, and at that version no order  *)
(* joined it.                                                              *)
ScreensCurrent == \A w \in Waiters : screen[w].session # 0 =>
  /\ screen[w].version <= session[screen[w].session].version
  /\ screen[w].version = session[screen[w].session].version => screen[w].orders = Ordered(screen[w].session)

DiningInv == DiningTyped /\ BillsSettled /\ ScreensCurrent

(* The typed sessions and orders are those of the room.                    *)
LEMMA DiningTypes == DiningTyped => DiningTypeOK
  BY DEF DiningTyped, DiningTypeOK, SessionRows, DishRows, Editions

(* At first the room is empty.                                             *)
LEMMA DiningInvInit == DiningInit => DiningInv
<1>1. 0 \in Editions
  BY DiningAssumption DEF Editions
<1>2. AtTable \in {QrPix, AtTable} /\ "PENDING" \in OrderStatuses /\ "PENDING" \in PaymentStatuses
  BY DEF OrderStatuses, PaymentStatuses
<1>3. ASSUME DiningInit PROVE DiningTyped
  BY <1>1, <1>2, <1>3 DEF DiningInit, DiningTyped, SessionRows, DishRows, Screens
<1>4. ASSUME DiningInit PROVE BillsSettled /\ ScreensCurrent
  BY <1>4 DEF DiningInit, BillsSettled, ScreensCurrent
<1> QED
  BY <1>3, <1>4 DEF DiningInv

(* A session whose version moves is otherwise the same.                    *)
LEMMA TouchedRow ==
  ASSUME NEW row \in SessionRows, row.version < MaxEdition
  PROVE  /\ Touched(row) \in SessionRows
         /\ Touched(row).version = row.version + 1 /\ Touched(row).status = row.status
         /\ Touched(row).at = row.at /\ Touched(row).by = row.by
<1>1. row.version + 1 \in Editions
  BY DiningAssumption DEF SessionRows, Editions
<1>2. QED
  BY <1>1 DEF SessionRows, Touched

OpenTable(row, t) == [Touched(row) EXCEPT !.status = "OPEN", !.at = t]

(* A session that opens at a table.                                        *)
LEMMA OpenedRow ==
  ASSUME NEW row \in SessionRows, row.version < MaxEdition, NEW t \in Tables
  PROVE  /\ OpenTable(row, t) \in SessionRows /\ OpenTable(row, t).version = row.version + 1
         /\ OpenTable(row, t).status = "OPEN" /\ OpenTable(row, t).at = t
<1>1. Touched(row) \in SessionRows /\ Touched(row).version = row.version + 1
  BY TouchedRow
<1> DEFINE touched == Touched(row)
<1>2. touched \in SessionRows /\ touched.version = row.version + 1
  BY <1>1
<1> HIDE DEF touched
<1>3. LET opened == [touched EXCEPT !.status = "OPEN", !.at = t] IN
         /\ opened \in SessionRows /\ opened.version = row.version + 1
         /\ opened.status = "OPEN" /\ opened.at = t
  BY <1>2 DEF SessionRows
<1>4. QED
  BY <1>3, Zenon DEF touched, OpenTable

(* A session that a waiter, or the next order, closes.                     *)
LEMMA ClosedRow ==
  ASSUME NEW row \in SessionRows, row.version < MaxEdition, NEW by \in Waiters \cup {"NOBODY"}
  PROVE  /\ Closed(row, by) \in SessionRows /\ Closed(row, by).version = row.version + 1
         /\ Closed(row, by).status = "CLOSED" /\ Closed(row, by).by = by
<1> DEFINE touched == Touched(row)
<1>2. touched \in SessionRows /\ touched.version = row.version + 1
  BY TouchedRow
<1> HIDE DEF touched
<1>3. LET closed == [touched EXCEPT !.status = "CLOSED", !.by = by] IN
         /\ closed \in SessionRows /\ closed.version = row.version + 1
         /\ closed.status = "CLOSED" /\ closed.by = by
  BY <1>2 DEF SessionRows
<1>4. QED
  BY <1>3 DEF touched, Closed

(* Whatever the workflow and the provider do with an order whose bill is   *)
(* settled leaves it settled.                                              *)
DishMoved(d) == ServeDish(d) \/ CancelDish(d) \/ (\E op \in PaymentOperations : PayDish(d, op))
                \/ \E mapped \in ProviderStates : ProviderSettles(d, mapped)

Settled(row) ==
  \/ row.status = "CANCELLED" /\ row.pay \in {"CANCELLED", "REFUNDED"}
  \/ row.status = "DELIVERED" /\ row.pay \in {"PAID", "REFUNDED"}

(* Whether an order keeps a bill open shows in its row.                    *)
LEMMA SettledRow == \A d \in Dishes : (Terminal(d) /\ Resolved(d)) <=> Settled(dish[d])
  BY DEF Terminal, Resolved, Settled

(* A move of an order is a row of the table's CHECK with another status or *)
(* payment.                                                                *)
LEMMA DishMovedTo ==
  ASSUME DiningTyped, NEW d \in Dishes, DishMoved(d)
  PROVE  /\ \E status \in OrderStatuses, pay \in PaymentStatuses :
              /\ RowCheck(dish[d].shape, status, pay)
              /\ dish' = [dish EXCEPT ![d].status = status, ![d].pay = pay]
              /\ Settled(dish[d]) =>
                   \/ status = "CANCELLED" /\ pay \in {"CANCELLED", "REFUNDED"}
                   \/ status = "DELIVERED" /\ pay \in {"PAID", "REFUNDED"}
         /\ UNCHANGED <<table, session, request, screen>> /\ dish[d].session # 0
<1>0. dish[d] \in DishRows
  BY DEF DiningTyped
<1>1. CASE ServeDish(d)
  <2>1. PICK next \in OrderStatuses \ {"CANCELLED"} :
          /\ CanTransitionOrder(dish[d].shape, dish[d].status, dish[d].pay, next)
          /\ DishMoves(d, next, dish[d].pay) /\ dish[d].session # 0
    BY <1>1 DEF ServeDish
  <2>2. ~Settled(dish[d])
    BY <2>1 DEF Settled, CanTransitionOrder
  <2>3. QED
    BY <1>0, <2>1, <2>2 DEF DishMoves, DishRows
<1>2. CASE CancelDish(d)
  <2>2. ~Settled(dish[d])
    BY <1>2 DEF CancelDish, Settled, CanTransitionOrder
  <2> DEFINE pay == IF dish[d].pay = "REFUNDED" THEN "REFUNDED" ELSE "CANCELLED"
  <2>3. pay \in PaymentStatuses /\ "CANCELLED" \in OrderStatuses
    BY DEF PaymentStatuses, OrderStatuses
  <2>4. DishMoves(d, "CANCELLED", pay) /\ dish[d].session # 0
    BY <1>2 DEF CancelDish
  <2> HIDE DEF pay
  <2>5. QED
    BY <2>2, <2>3, <2>4 DEF DishMoves
<1>3. ASSUME NEW op \in PaymentOperations, PayDish(d, op)
      PROVE  /\ \E status \in OrderStatuses, pay \in PaymentStatuses :
              /\ RowCheck(dish[d].shape, status, pay)
              /\ dish' = [dish EXCEPT ![d].status = status, ![d].pay = pay]
              /\ Settled(dish[d]) =>
                   \/ status = "CANCELLED" /\ pay \in {"CANCELLED", "REFUNDED"}
                   \/ status = "DELIVERED" /\ pay \in {"PAID", "REFUNDED"}
             /\ UNCHANGED <<table, session, request, screen>> /\ dish[d].session # 0
  <2>1. OperationTarget(op) \in PaymentStatuses
    BY DEF OperationTarget, PaymentStatuses, PaymentOperations
  <2>2. DishMoves(d, dish[d].status, OperationTarget(op)) /\ dish[d].session # 0
    BY <1>3 DEF PayDish
  <2>3. ASSUME Settled(dish[d]) PROVE dish[d].status = "DELIVERED" /\ OperationTarget(op) = "REFUNDED"
    BY <1>3, <2>3 DEF PayDish, Payable, Settled, CanTransitionPayment, PaymentEdges, OperationTarget
  <2>4. QED
    BY <1>0, <2>1, <2>2, <2>3 DEF DishMoves, DishRows
<1>4. ASSUME NEW mapped \in ProviderStates, ProviderSettles(d, mapped)
      PROVE  /\ \E status \in OrderStatuses, pay \in PaymentStatuses :
              /\ RowCheck(dish[d].shape, status, pay)
              /\ dish' = [dish EXCEPT ![d].status = status, ![d].pay = pay]
              /\ Settled(dish[d]) =>
                   \/ status = "CANCELLED" /\ pay \in {"CANCELLED", "REFUNDED"}
                   \/ status = "DELIVERED" /\ pay \in {"PAID", "REFUNDED"}
             /\ UNCHANGED <<table, session, request, screen>> /\ dish[d].session # 0
  <2> DEFINE v == Verdict(d, mapped)
  <2>1. v.kind = "TRANSITION" /\ DishMoves(d, v.status, v.pay) /\ dish[d].session # 0
    BY <1>4 DEF ProviderSettles
  <2>2. /\ v.status \in OrderStatuses /\ v.pay \in PaymentStatuses
        /\ Settled(dish[d]) => v.status = dish[d].status /\ v.pay = "REFUNDED"
    BY <1>0, <2>1 DEF Verdict, DecideProviderTransition, Noop, Alert, Transition, Settled, DishRows,
       OrderStatuses, PaymentStatuses
  <2> HIDE DEF v
  <2>3. QED
    BY <2>1, <2>2 DEF DishMoves, Settled
<1>5. QED
  BY <1>1, <1>2, <1>3, <1>4 DEF DishMoved

(* What an order that is placed does: the session it joins or opens, and   *)
(* the settled one it closes.                                              *)
NewOrder(shape, s) == [session |-> s, shape |-> shape, pay |-> "PENDING",
                       status |-> IF shape.online THEN "AWAITING_PAYMENT" ELSE "PENDING"]

PlacedIn(d, t, shape, s) ==
  /\ dish[d].session = 0
  /\ dish' = [dish EXCEPT ![d] = NewOrder(shape, s)]
  /\ (session[s].status = "OPEN" /\ session[s].at = t) \/ session[s].status = "NONE"
  /\ \A other \in Sessions :
       session[other].status = "OPEN" /\ session[other].at = t /\ other # s => CanClose(other)
  /\ session'[s] = OpenTable(session[s], t)
  /\ \A other \in Sessions \ {s} :
       session'[other] = IF session[other].status = "OPEN" /\ session[other].at = t
                         THEN Closed(session[other], "NOBODY") ELSE session[other]
  /\ \A other \in Sessions : session'[other] # session[other] => session[other].version < MaxEdition
  /\ DOMAIN session' = Sessions
  /\ session[s].version < MaxEdition
  /\ UNCHANGED <<table, request, screen>>

(* An order joins the open session of its table, or opens one in place of a*)
(* settled one.                                                            *)
LEMMA PlacedOrder ==
  ASSUME DiningTyped, BillsSettled, NEW d \in Dishes, NEW t \in Tables, NEW shape \in {QrPix, AtTable},
         PlaceOrder(d, t, shape)
  PROVE  \E s \in Sessions : PlacedIn(d, t, shape, s)
<1> DEFINE open == {s \in Sessions : session[s].status = "OPEN" /\ session[s].at = t}
           joined == {s \in open : ~CanRollOver(s)}
           fresh == {s \in Sessions : session[s].status = "NONE"}
           new == CHOOSE s \in fresh : \A other \in fresh : s <= other
           s == IF joined # {} THEN CHOOSE x \in joined : TRUE ELSE new
<1>1. /\ dish[d].session = 0 /\ joined = {} => fresh # {}
      /\ \A other \in open \cup {s} : session[other].version < MaxEdition
      /\ dish' = [dish EXCEPT ![d] = NewOrder(shape, s)]
      /\ session' = [other \in Sessions |->
           CASE other = s -> OpenTable(session[s], t)
             [] other \in open \ {s} -> Closed(session[other], "NOBODY")
             [] OTHER -> session[other]]
      /\ UNCHANGED <<table, request, screen>>
  BY Zenon DEF PlaceOrder, NewOrder, OpenTable
<1>15. /\ dish[d].session = 0 /\ UNCHANGED <<table, request, screen>>
       /\ dish' = [dish EXCEPT ![d] = NewOrder(shape, s)]
  BY Zenon DEF PlaceOrder, NewOrder, OpenTable
<1>a. joined = {} => fresh # {}
  BY Zenon DEF PlaceOrder, NewOrder, OpenTable
<1>2. joined = {} => s \in fresh
  <2>1. Sessions \subseteq Nat
    BY DEF Sessions
  <2>2. ASSUME joined = {} PROVE \E x \in fresh : \A other \in fresh : x <= other
    <3>1. fresh \in SUBSET Nat
      BY <2>1
    <3>2. fresh # {}
      BY <1>a, <2>2
    <3> HIDE DEF fresh
    <3>3. QED
      BY <3>1, <3>2, Least
  <2> HIDE DEF fresh
  <2>3. QED
    BY <2>2
<1>3. joined # {} => s \in joined
  OBVIOUS
<1> HIDE DEF s
<1>4. s \in Sessions /\ (s \in fresh \/ s \in joined)
  BY <1>2, <1>3
<1>5. \A other \in open : other # s => CanClose(other)
  <2>1. CASE joined = {}
    BY <2>1 DEF CanRollOver
  <2>2. CASE joined # {}
    BY <2>2, <1>3 DEF BillsSettled
  <2>3. QED
    BY <2>1, <2>2
<1>6. session'[s] = OpenTable(session[s], t)
  BY <1>1, <1>4, Zenon
<1>7. ASSUME NEW other \in Sessions \ {s}
      PROVE  session'[other] = IF other \in open THEN Closed(session[other], "NOBODY") ELSE session[other]
  <2>1. CASE other \in open
    BY <1>1, <1>7, <2>1, Zenon
  <2>2. CASE other \notin open
    BY <1>1, <1>7, <2>2, Zenon
  <2>3. QED
    BY <2>1, <2>2
<1>8. \A other \in Sessions : session'[other] # session[other] => session[other].version < MaxEdition
  BY <1>1, <1>7
<1>9. DOMAIN session' = Sessions
  BY <1>1, Zenon
<1>10. session[s].version < MaxEdition
  BY <1>1
<1>11. (session[s].status = "OPEN" /\ session[s].at = t) \/ session[s].status = "NONE"
  BY <1>4
<1>12. \A other \in Sessions :
         session[other].status = "OPEN" /\ session[other].at = t /\ other # s => CanClose(other)
  BY <1>5
<1>13. \A other \in Sessions \ {s} :
         session'[other] = IF session[other].status = "OPEN" /\ session[other].at = t
                           THEN Closed(session[other], "NOBODY") ELSE session[other]
  BY <1>7
<1> HIDE DEF open, joined, fresh, new
<1> USE <1>4
<1>14. WITNESS s \in Sessions
<1> HIDE DEF s
<1>16. QED
  BY <1>6, <1>8, <1>9, <1>10, <1>11, <1>12, <1>13, <1>15, Zenon DEF PlacedIn

-----------------------------------------------------------------------------
(* An order that was just placed is a row of the table.                    *)
LEMMA NewDish ==
  ASSUME NEW shape \in {QrPix, AtTable}, NEW s \in Sessions
  PROVE  NewOrder(shape, s) \in DishRows
  BY DEF NewOrder, DishRows, OrderStatuses, PaymentStatuses

(* What a step does to the sessions, and to the orders.                    *)
LEMMA PlaceOrderStep ==
  ASSUME DiningInv, NEW d \in Dishes, NEW t \in Tables, NEW shape \in {QrPix, AtTable},
         PlaceOrder(d, t, shape)
  PROVE  DiningInv' /\ \A s \in Sessions : session[s].status = "OPEN" /\ session'[s].status = "CLOSED"
                         => session'[s].by = "NOBODY"
<1>1. DiningTyped /\ BillsSettled /\ ScreensCurrent
  BY DEF DiningInv
<1>a. PICK s \in Sessions : PlacedIn(d, t, shape, s)
  BY <1>1, PlacedOrder
<1>2. /\ dish[d].session = 0
      /\ dish' = [dish EXCEPT ![d] = NewOrder(shape, s)]
      /\ (session[s].status = "OPEN" /\ session[s].at = t) \/ session[s].status = "NONE"
      /\ \A other \in Sessions :
           session[other].status = "OPEN" /\ session[other].at = t /\ other # s => CanClose(other)
      /\ session'[s] = OpenTable(session[s], t)
      /\ \A other \in Sessions \ {s} :
           session'[other] = IF session[other].status = "OPEN" /\ session[other].at = t
                             THEN Closed(session[other], "NOBODY") ELSE session[other]
      /\ \A other \in Sessions : session'[other] # session[other] => session[other].version < MaxEdition
      /\ DOMAIN session' = Sessions
      /\ session[s].version < MaxEdition
      /\ UNCHANGED <<table, request, screen>>
  BY <1>a DEF PlacedIn
<1>3. /\ session'[s] \in SessionRows /\ session'[s].version = session[s].version + 1
      /\ session'[s].status = "OPEN" /\ session'[s].at = t
  <2>1. session[s] \in SessionRows
    BY <1>1 DEF DiningTyped
  <2>2. QED
    BY <1>2, <2>1, OpenedRow
<1>4. ASSUME NEW other \in Sessions \ {s}
      PROVE  /\ session'[other] \in SessionRows
             /\ IF session[other].status = "OPEN" /\ session[other].at = t
                THEN /\ session'[other].version = session[other].version + 1
                     /\ session'[other].status = "CLOSED" /\ session'[other].by = "NOBODY"
                ELSE session'[other] = session[other]
  <2>1. session[other] \in SessionRows
    BY <1>1 DEF DiningTyped
  <2>2. CASE session[other].status = "OPEN" /\ session[other].at = t
    <3>1. session'[other] = Closed(session[other], "NOBODY")
      BY <1>2, <2>2
    <3>2. Closed(session[other], "NOBODY").status = "CLOSED"
      BY DEF Closed, Touched
    <3>3. session[other].version < MaxEdition
      BY <1>2, <2>2, <3>1, <3>2
    <3>4. QED
      BY <2>1, <2>2, <3>1, <3>3, ClosedRow
  <2>3. CASE ~(session[other].status = "OPEN" /\ session[other].at = t)
    BY <1>2, <2>1, <2>3
  <2>4. QED
    BY <2>2, <2>3
<1>5. DiningTyped'
  <2>1. session' \in [Sessions -> SessionRows]
    <3>1. \A other \in Sessions : session'[other] \in SessionRows
      BY <1>3, <1>4
    <3>2. session' = [other \in Sessions |-> session'[other]]
      BY <1>2 DEF PlaceOrder
    <3>3. QED
      BY <3>1, <3>2
  <2>2. NewOrder(shape, s) \in DishRows
    BY NewDish
  <2>4. dish' \in [Dishes -> DishRows]
    BY <1>1, <1>2, <2>2 DEF DiningTyped
  <2>5. QED
    BY <1>1, <1>2, <2>1, <2>4 DEF DiningTyped
<1>6. \A e \in Dishes \ {d} : dish'[e] = dish[e]
  BY <1>1, <1>2 DEF DiningTyped
<1>7. dish'[d].session = s
  BY <1>1, <1>2 DEF DiningTyped, NewOrder
<1>8. ASSUME NEW other \in Sessions \ {s} PROVE Ordered(other)' = Ordered(other)
  BY <1>2, <1>6, <1>7 DEF Ordered, Sessions
<1>9. BillsSettled'
  <2>1. ASSUME NEW a \in Sessions, NEW b \in Sessions, session'[a].status = "OPEN",
               session'[b].status = "OPEN", session'[a].at = session'[b].at
        PROVE  a = b
    BY <1>1, <1>3, <1>4, <2>1 DEF BillsSettled
  <2>2. ASSUME NEW a \in Sessions, session'[a].status = "CLOSED"
        PROVE  OpenRequests(a)' = {} /\ \A e \in Ordered(a)' : Terminal(e)' /\ Resolved(e)'
    <3>1. a # s
      BY <1>3, <2>2
    <3>2. OpenRequests(a)' = OpenRequests(a)
      BY <1>2 DEF OpenRequests
    <3>3. \A e \in Ordered(a) : e # d /\ e \in Dishes
      BY <1>2, <3>1 DEF Ordered, Sessions
    <3>4. \A e \in Ordered(a) : Terminal(e)' = Terminal(e) /\ Resolved(e)' = Resolved(e)
      BY <1>6, <3>3 DEF Terminal, Resolved
    <3>5. OpenRequests(a) = {} /\ \A e \in Ordered(a) : Terminal(e) /\ Resolved(e)
      BY <1>1, <1>2, <1>4, <2>2, <3>1 DEF BillsSettled, CanClose
    <3>6. QED
      BY <1>8, <3>1, <3>2, <3>4, <3>5
  <2>3. QED
    BY <2>1, <2>2 DEF BillsSettled
<1>10. ScreensCurrent'
  <2>1. ASSUME NEW w \in Waiters, NEW x \in Sessions, screen[w].session = x
        PROVE  /\ screen[w].version <= session'[x].version
               /\ screen[w].version = session'[x].version => screen[w].orders = Ordered(x)'
    <3>1. x # 0 /\ screen[w] \in Screens
      BY <1>1, <2>1 DEF DiningTyped, Sessions
    <3>2. /\ screen[w].version <= session[x].version
          /\ screen[w].version = session[x].version => screen[w].orders = Ordered(x)
      BY <1>1, <2>1, <3>1 DEF ScreensCurrent
    <3>3. screen[w].version \in Int /\ session[x].version \in Int
      BY <1>1, <3>1, DiningAssumption DEF DiningTyped, Screens, SessionRows, Editions
    <3>4. CASE x = s
      BY <1>3, <3>2, <3>3, <3>4
    <3>5. CASE x # s
      <4>1. Ordered(x)' = Ordered(x)
        BY <1>8, <3>5
      <4>2. session'[x].version = session[x].version \/ session'[x].version = session[x].version + 1
        BY <1>4, <3>5
      <4>3. QED
        BY <3>2, <3>3, <4>1, <4>2
    <3>6. QED
      BY <3>4, <3>5
  <2>2. \A w \in Waiters : screen[w].session \in {0} \cup Sessions
    BY <1>1 DEF DiningTyped, Screens
  <2>3. screen' = screen
    BY <1>2
  <2>4. QED
    BY <2>1, <2>2, <2>3 DEF ScreensCurrent
<1>11. QED
  BY <1>3, <1>4, <1>5, <1>9, <1>10 DEF DiningInv

(* Orders move on without opening a bill that was closed.                  *)
LEMMA DishMovedStep ==
  ASSUME DiningInv, NEW d \in Dishes, DishMoved(d)
  PROVE  DiningInv'
<1>1. DiningTyped /\ BillsSettled /\ ScreensCurrent
  BY DEF DiningInv
<1>2. PICK status \in OrderStatuses, pay \in PaymentStatuses :
              /\ RowCheck(dish[d].shape, status, pay)
              /\ dish' = [dish EXCEPT ![d].status = status, ![d].pay = pay]
              /\ Settled(dish[d]) =>
                   \/ status = "CANCELLED" /\ pay \in {"CANCELLED", "REFUNDED"}
                   \/ status = "DELIVERED" /\ pay \in {"PAID", "REFUNDED"}
  BY <1>1, DishMovedTo
<1>3. UNCHANGED <<table, session, request, screen>>
  BY <1>1, DishMovedTo
<1>4. /\ dish' = [dish EXCEPT ![d] = [dish[d] EXCEPT !.status = status, !.pay = pay]]
      /\ dish[d] \in DishRows
  BY <1>1, <1>2 DEF DiningTyped
<1> DEFINE row == [dish[d] EXCEPT !.status = status, !.pay = pay]
<1>5. row \in DishRows /\ row.session = dish[d].session /\ row.status = status /\ row.pay = pay
  BY <1>4 DEF DishRows
<1>6. dish' = [dish EXCEPT ![d] = row]
  BY <1>4
<1> HIDE DEF row
<1>7. DiningTyped'
  BY <1>1, <1>3, <1>5, <1>6 DEF DiningTyped
<1>8. ASSUME NEW e \in Dishes
      PROVE  dish'[e].session = dish[e].session /\ (Settled(dish[e]) => Settled(dish'[e]))
  BY <1>1, <1>2, <1>5, <1>6 DEF DiningTyped, Settled
<1>9. \A s : Ordered(s)' = Ordered(s)
  BY <1>8 DEF Ordered
<1>10. \A e \in Dishes : Terminal(e) /\ Resolved(e) => Terminal(e)' /\ Resolved(e)'
  <2>1. \A e \in Dishes : (Terminal(e)' /\ Resolved(e)') <=> Settled(dish'[e])
    BY DEF Terminal, Resolved, Settled
  <2>2. QED
    BY <1>8, <2>1, SettledRow
<1>11. BillsSettled'
  BY <1>1, <1>3, <1>9, <1>10 DEF BillsSettled, OpenRequests, Ordered
<1>12. ScreensCurrent'
  BY <1>1, <1>3, <1>9 DEF ScreensCurrent
<1>13. QED
  BY <1>7, <1>11, <1>12 DEF DiningInv

(* A step that leaves orders and screens alone, and touches one session.   *)
LEMMA SessionStep ==
  ASSUME DiningInv, UNCHANGED <<dish, screen>>, table' \in [Tables -> BOOLEAN],
         request' \subseteq Sessions \X RequestTypes,
         NEW s \in Sessions, NEW row \in SessionRows, session' = [session EXCEPT ![s] = row],
         row.version = session[s].version + 1,
         \A other \in Sessions : session[other].status = "CLOSED" => OpenRequests(other)' = {},
         row.status = "CLOSED" => session[s].status = "CLOSED" \/ (CanClose(s) /\ request' = request),
         row.status = "OPEN" => session[s].status = "OPEN" /\ \A other \in Sessions \ {s} :
            session[other].status = "OPEN" => row.at # session[other].at
  PROVE  DiningInv'
<1>1. DiningTyped /\ BillsSettled /\ ScreensCurrent
  BY DEF DiningInv
<1>2. session'[s] = row /\ \A other \in Sessions \ {s} : session'[other] = session[other]
  BY <1>1 DEF DiningTyped
<1>3. DiningTyped'
  BY <1>1 DEF DiningTyped
<1>4. \A a : Ordered(a)' = Ordered(a)
  BY DEF Ordered
<1>5. \A e : Terminal(e)' = Terminal(e) /\ Resolved(e)' = Resolved(e)
  BY DEF Terminal, Resolved
<1>6. BillsSettled'
  <2>1. ASSUME NEW a \in Sessions, NEW b \in Sessions, session'[a].status = "OPEN",
               session'[b].status = "OPEN", session'[a].at = session'[b].at
        PROVE  a = b
    BY <1>1, <1>2, <2>1 DEF BillsSettled
  <2>2. ASSUME NEW a \in Sessions, session'[a].status = "CLOSED"
        PROVE  OpenRequests(a)' = {} /\ \A e \in Ordered(a) : Terminal(e) /\ Resolved(e)
    <3>1. CASE session[a].status = "CLOSED"
      BY <1>1, <3>1 DEF BillsSettled
    <3>2. CASE session[a].status # "CLOSED"
      BY <1>2, <2>2, <3>2 DEF CanClose, OpenRequests
    <3>3. QED
      BY <3>1, <3>2
  <2>3. QED
    BY <1>4, <1>5, <2>1, <2>2 DEF BillsSettled
<1>7. ScreensCurrent'
  <2>1. ASSUME NEW w \in Waiters, screen[w].session # 0
        PROVE  /\ screen[w].version <= session'[screen[w].session].version
               /\ screen[w].version = session'[screen[w].session].version
                  => screen[w].orders = Ordered(screen[w].session)
    <3>1. screen[w] \in Screens /\ screen[w].session \in Sessions
      BY <1>1, <2>1 DEF DiningTyped, Screens
    <3>2. /\ screen[w].version <= session[screen[w].session].version
          /\ screen[w].version = session[screen[w].session].version
             => screen[w].orders = Ordered(screen[w].session)
      BY <1>1, <2>1 DEF ScreensCurrent
    <3>3. screen[w].version \in Int /\ session[screen[w].session].version \in Int
      BY <1>1, <3>1, DiningAssumption DEF DiningTyped, Screens, SessionRows, Editions
    <3>4. QED
      BY <1>2, <3>1, <3>2, <3>3
  <2>2. QED
    BY <1>4, <2>1 DEF ScreensCurrent
<1>8. QED
  BY <1>3, <1>6, <1>7 DEF DiningInv

(* Calls for service touch a session and leave its status.                 *)
LEMMA ServiceStep ==
  ASSUME DiningInv, NEW s \in Sessions, NEW type \in RequestTypes,
         RequestService(s, type) \/ ResolveRequest(s, type)
  PROVE  DiningInv' /\ \A a \in Sessions : session'[a].status = session[a].status
<1>1. DiningTyped /\ BillsSettled
  BY DEF DiningInv
<1>2. session[s] \in SessionRows /\ session[s].version < MaxEdition
  BY <1>1 DEF DiningTyped, RequestService, ResolveRequest
<1> DEFINE row == Touched(session[s])
<1>3. row \in SessionRows /\ row.version = session[s].version + 1 /\ row.status = session[s].status
      /\ row.at = session[s].at
  BY <1>2, TouchedRow
<1>4. session' = [session EXCEPT ![s] = row]
  BY <1>1 DEF DiningTyped, RequestService, ResolveRequest
<1> HIDE DEF row
<1>5. \A other \in Sessions : session[other].status = "CLOSED" => OpenRequests(other)' = {}
  BY <1>1 DEF BillsSettled, OpenRequests, RequestService, ResolveRequest
<1>6. /\ UNCHANGED <<dish, screen>> /\ table' \in [Tables -> BOOLEAN]
      /\ request' \subseteq Sessions \X RequestTypes
  BY <1>1 DEF DiningTyped, RequestService, ResolveRequest
<1>7. \A other \in Sessions \ {s} :
        session[s].status = "OPEN" /\ session[other].status = "OPEN" => session[s].at # session[other].at
  BY <1>1 DEF BillsSettled
<1>8. DiningInv'
  <2>1. row.status = "CLOSED" => session[s].status = "CLOSED" \/ (CanClose(s) /\ request' = request)
    BY <1>3
  <2>2. row.status = "OPEN" => session[s].status = "OPEN" /\ \A other \in Sessions \ {s} :
           session[other].status = "OPEN" => row.at # session[other].at
    BY <1>3, <1>7
  <2>3. QED
    BY <1>3, <1>4, <1>5, <1>6, <2>1, <2>2, SessionStep
<1>9. QED
  BY <1>1, <1>3, <1>4, <1>8 DEF DiningTyped

(* A waiter who closes a session closes the one on the screen, with the    *)
(* orders shown.                                                           *)
LEMMA WaiterStep ==
  ASSUME DiningInv, NEW w \in Waiters, CloseSession(w) \/ \E t \in Tables : TransferSession(w, t)
  PROVE  /\ DiningInv'
         /\ \A s \in Sessions : session[s].status = "OPEN" /\ session'[s].status = "CLOSED"
              => session'[s].by = w /\ screen[w].session = s /\ screen[w].orders = Ordered(s)
<1> DEFINE s == screen[w].session
<1>1. DiningTyped /\ BillsSettled /\ ScreensCurrent
  BY DEF DiningInv
<1>2. /\ s \in Sessions /\ session[s] \in SessionRows /\ session[s].version < MaxEdition
      /\ session[s].status = "OPEN" /\ screen[w].orders = Ordered(s)
      /\ UNCHANGED <<dish, screen>> /\ table' \in [Tables -> BOOLEAN] /\ request' = request
  BY <1>1 DEF DiningTyped, Screens, CloseSession, TransferSession, AsSeen, ScreensCurrent
<1>3. CASE CloseSession(w)
  <2> DEFINE row == Closed(session[s], w)
  <2>1. row \in SessionRows /\ row.version = session[s].version + 1 /\ row.status = "CLOSED" /\ row.by = w
    BY <1>2, ClosedRow
  <2>2. session' = [session EXCEPT ![s] = row] /\ CanClose(s)
    BY <1>1, <1>3 DEF DiningTyped, CloseSession
  <2> HIDE DEF row, s
  <2>3. /\ \A other \in Sessions : session[other].status = "CLOSED" => OpenRequests(other)' = {}
        /\ request' \subseteq Sessions \X RequestTypes
    BY <1>1, <1>2 DEF BillsSettled, OpenRequests, DiningTyped
  <2>4. DiningInv'
    BY <1>2, <2>1, <2>2, <2>3, SessionStep
  <2>5. QED
    BY <1>1, <1>2, <2>1, <2>2, <2>4 DEF s, DiningTyped
<1>4. ASSUME NEW t \in Tables, TransferSession(w, t)
      PROVE  DiningInv' /\ \A a \in Sessions : session'[a].status = session[a].status
  <2> DEFINE row == [Touched(session[s]) EXCEPT !.at = t]
  <2>1. row \in SessionRows /\ row.version = session[s].version + 1 /\ row.status = "OPEN" /\ row.at = t
    <3> DEFINE touched == Touched(session[s])
    <3>1. touched \in SessionRows /\ touched.version = session[s].version + 1 /\ touched.status = "OPEN"
      BY <1>2, TouchedRow
    <3> HIDE DEF touched
    <3>2. LET moved == [touched EXCEPT !.at = t] IN
          moved \in SessionRows /\ moved.version = session[s].version + 1 /\ moved.status = "OPEN" /\ moved.at = t
      BY <3>1 DEF SessionRows
    <3>3. QED
      BY <3>2, Zenon DEF touched
  <2>2. session' = [session EXCEPT ![s] = row]
    BY <1>4, Zenon DEF TransferSession
  <2>3. \A other \in Sessions : session[other].status = "OPEN" => session[other].at # t
    BY <1>4 DEF TransferSession
  <2> HIDE DEF row, s
  <2>4. /\ \A other \in Sessions : session[other].status = "CLOSED" => OpenRequests(other)' = {}
        /\ request' \subseteq Sessions \X RequestTypes
    BY <1>1, <1>2 DEF BillsSettled, OpenRequests, DiningTyped
  <2>5. DiningInv'
    BY <1>2, <2>1, <2>2, <2>3, <2>4, SessionStep
  <2>6. QED
    BY <1>1, <1>2, <2>1, <2>2, <2>5 DEF DiningTyped
<1>5. QED
  BY <1>1, <1>3, <1>4

(* A screen that is opened shows its session as it is.                     *)
LEMMA OpenDetailStep ==
  ASSUME DiningInv, NEW w \in Waiters, NEW s \in Sessions, OpenDetail(w, s)
  PROVE  DiningInv'
<1>1. DiningTyped /\ BillsSettled /\ ScreensCurrent
  BY DEF DiningInv
<1> DEFINE shown == [session |-> s, version |-> session[s].version, orders |-> Ordered(s)]
<1>2. shown \in Screens
  BY <1>1 DEF DiningTyped, Screens, SessionRows, Ordered
<1>3. screen' = [screen EXCEPT ![w] = shown] /\ UNCHANGED <<table, session, dish, request>>
  BY DEF OpenDetail
<1>4. session[s].version \in Int /\ shown.session = s /\ shown.version = session[s].version /\ shown.orders = Ordered(s)
  BY <1>1 DEF DiningTyped, SessionRows, Editions
<1> HIDE DEF shown
<1>5. DiningTyped'
  BY <1>1, <1>2, <1>3 DEF DiningTyped
<1>6. \A a : Ordered(a)' = Ordered(a)
  BY <1>3 DEF Ordered
<1>7. BillsSettled'
  BY <1>1, <1>3, <1>6 DEF BillsSettled, OpenRequests, Terminal, Resolved
<1>8. ScreensCurrent'
  BY <1>1, <1>3, <1>4, <1>6 DEF ScreensCurrent, DiningTyped
<1>9. QED
  BY <1>5, <1>7, <1>8 DEF DiningInv

(* Tables are put in and out of use.                                       *)
LEMMA TableStep ==
  ASSUME DiningInv, UNCHANGED <<session, dish, request, screen>>, table' \in [Tables -> BOOLEAN]
  PROVE  DiningInv'
  BY DEF DiningInv, DiningTyped, BillsSettled, ScreensCurrent, Ordered, OpenRequests, Terminal, Resolved

(* Every step keeps the invariant, and closes only what its waiter saw.    *)
LEMMA DiningStep ==
  ASSUME DiningInv, [DiningNext]_diningVars
  PROVE  /\ DiningInv'
         /\ \A s \in Sessions, w \in Waiters :
              session[s].status = "OPEN" /\ session'[s].status = "CLOSED" /\ session'[s].by = w
              => screen[w].session = s /\ screen[w].orders = Ordered(s)
<1> USE DEF DiningInv
<1>1. ASSUME NEW d \in Dishes, NEW t \in Tables, NEW shape \in {QrPix, AtTable}, PlaceOrder(d, t, shape)
      PROVE  DiningInv' /\ \A s \in Sessions : session[s].status = "OPEN" /\ session'[s].status = "CLOSED"
                             => session'[s].by = "NOBODY"
  BY <1>1, PlaceOrderStep
<1>2. ASSUME NEW d \in Dishes, DishMoved(d)
      PROVE  DiningInv' /\ session' = session
  BY <1>2, DishMovedStep, DishMovedTo
<1>3. ASSUME NEW s \in Sessions, NEW type \in RequestTypes, RequestService(s, type) \/ ResolveRequest(s, type)
      PROVE  DiningInv' /\ \A a \in Sessions : session'[a].status = session[a].status
  BY <1>3, ServiceStep
<1>4. ASSUME NEW w \in Waiters, NEW s \in Sessions, OpenDetail(w, s)
      PROVE  DiningInv' /\ session' = session
  BY <1>4, OpenDetailStep DEF OpenDetail
<1>5. ASSUME NEW t \in Tables, SetTableActive(t) PROVE DiningInv' /\ session' = session
  BY <1>5, TableStep DEF SetTableActive, DiningTyped
<1>6. ASSUME UNCHANGED diningVars PROVE DiningInv' /\ session' = session
  BY <1>6, TableStep DEF diningVars, DiningTyped
<1>7. ASSUME NEW w \in Waiters, CloseSession(w) \/ \E t \in Tables : TransferSession(w, t)
      PROVE  /\ DiningInv'
             /\ \A s \in Sessions : session[s].status = "OPEN" /\ session'[s].status = "CLOSED"
                  => session'[s].by = w /\ screen[w].session = s /\ screen[w].orders = Ordered(s)
  BY <1>7, WaiterStep
<1>8. \/ \E d \in Dishes, t \in Tables, shape \in {QrPix, AtTable} : PlaceOrder(d, t, shape)
      \/ \E d \in Dishes : DishMoved(d)
      \/ \E s \in Sessions, type \in RequestTypes : RequestService(s, type) \/ ResolveRequest(s, type)
      \/ \E w \in Waiters, s \in Sessions : OpenDetail(w, s)
      \/ \E t \in Tables : SetTableActive(t)
      \/ UNCHANGED diningVars
      \/ \E w \in Waiters : CloseSession(w) \/ \E t \in Tables : TransferSession(w, t)
  BY Zenon DEF DiningNext, DishMoved
<1> HIDE DEF DiningInv
<1>9. QED
  BY <1>1, <1>2, <1>3, <1>4, <1>5, <1>6, <1>7, <1>8, DiningAssumption

(* A table has one open session at most, and a session that was closed has *)
(* no order unfinished or unpaid and no call unanswered, for any tables,   *)
(* sessions, orders and waiters.                                           *)
THEOREM BillsStaySettled == DiningSpec => [](DiningTypeOK /\ BillsSettled)
<1>1. DiningInv /\ [DiningNext]_diningVars => DiningInv'
  BY DiningStep
<1>2. DiningInv => DiningTypeOK /\ BillsSettled
  BY DiningTypes DEF DiningInv
<1>3. QED
  BY DiningInvInit, <1>1, <1>2, PTL DEF DiningSpec

(* Whoever closes a session had exactly its orders on the screen: a waiter *)
(* cannot close over an order placed since.                                *)
THEOREM WaitersCloseWhatTheySaw == DiningSpec => ClosedAsSeen
<1>1. DiningInv /\ [DiningNext]_diningVars => DiningInv'
  BY DiningStep
<1>2. DiningInv /\ [DiningNext]_diningVars =>
       [\A s \in Sessions : \A w \in Waiters :
          session[s].status = "OPEN" /\ session'[s].status = "CLOSED" /\ session'[s].by = w
          => screen[w].session = s /\ screen[w].orders = Ordered(s)]_diningVars
  BY DiningStep
<1>3. QED
  BY DiningInvInit, <1>1, <1>2, PTL DEF DiningSpec, ClosedAsSeen

-----------------------------------------------------------------------------
(* Drafts of the till.                                                     *)

(* A till holds a version: it saved it and asks for the order next, asked  *)
(* for it, or has the order.                                               *)
Holds(t, v) ==
  \/ till[t].phase = "saved" /\ v \in till[t].active
  \/ \E r \in posRequests : r.order.till = t /\ r.order.version = v
  \/ \E o \in posOrders : o.till = t /\ o.version = v

(* A version is held by one till, and no later version than the last one   *)
(* saved, nor any of a draft that does not exist.                          *)
HeldOnce == \A t, u \in Tills : \A v \in Versions : Holds(t, v) /\ Holds(u, v) => t = u
HeldSaved == \A t \in Tills : \A v \in Versions : Holds(t, v) =>
  /\ draft.status # "NONE"
  /\ v <= draft.version
  /\ draft.status = "CONVERTED" => v < draft.version

(* What a request was rebuilt from is what the draft still holds, as long  *)
(* as it is open at that version.                                          *)
RebuiltAsSaved == \A r \in posRequests :
  r.rebuilt /\ draft.status = "OPEN" /\ r.order.version = draft.version => r.order.intent = draft.intent

(* The order a draft was converted to exists, and no draft is converted    *)
(* without one.                                                            *)
ConvertedToOrder ==
  IF draft.status = "CONVERTED" THEN \E o \in posOrders : draft.converted = {o}
  ELSE draft.converted = {} /\ posOrders = {}

DraftsInv ==
  DraftsTypeOK /\ HeldOnce /\ HeldSaved /\ RebuiltAsSaved /\ ConvertedToOrder /\ ConvertedAsSaved

(* At first nothing is saved.                                              *)
LEMMA DraftsInvInit == DraftsInit => DraftsInv
<1> SUFFICES ASSUME DraftsInit PROVE DraftsInv
  OBVIOUS
<1> PICK intent \in Intents :
       /\ draft = [status |-> "NONE", version |-> 0, intent |-> intent, due |-> FALSE, converted |-> {}]
       /\ till = [t \in Tills |-> [active |-> {}, intent |-> intent, phase |-> "idle"]]
  BY DEF DraftsInit
<1>1. DraftsTypeOK
  BY DraftsAssumption DEF DraftsInit, DraftsTypeOK, Versions, Phases
<1>2. \A t \in Tills : \A v : ~Holds(t, v)
  BY DEF DraftsInit, Holds
<1>3. QED
  BY <1>1, <1>2 DEF DraftsInit, DraftsInv, HeldOnce, HeldSaved, RebuiltAsSaved, ConvertedToOrder,
                    ConvertedAsSaved

(* Versions are numbers, of which the bound is the last.                   *)
LEMMA NextVersion == \A v \in Versions : v \in Nat /\ (v < MaxVersion => v + 1 \in Versions)
BY DraftsAssumption DEF Versions

(* Every step keeps the types.                                             *)
LEMMA DraftsTypeStep == DraftsTypeOK /\ [DraftsNext]_draftVars => DraftsTypeOK'
<1> SUFFICES ASSUME DraftsTypeOK, [DraftsNext]_draftVars PROVE DraftsTypeOK'
  OBVIOUS
<1> USE DEF DraftsTypeOK, Phases
<1> DEFINE DraftRow == [status : {"NONE", "OPEN", "CONVERTED", "DISCARDED", "EXPIRED"}, version : Versions,
                intent : Intents, due : BOOLEAN, converted : SUBSET PosOrder]
           Shown == [active : SUBSET Versions, intent : Intents, phase : Phases]
<1>0. ASSUME NEW t \in Tills
      PROVE  /\ draft.version < MaxVersion => SavedBy(t) \in DraftRow
             /\ Reset(t) \in [Tills -> Shown] /\ Stuck(t) \in [Tills -> Shown]
  <2>1. till[t].intent \in Intents /\ draft.version \in Versions
    OBVIOUS
  <2>2. draft.version < MaxVersion => draft.version + 1 \in Versions
    BY <2>1, NextVersion
  <2>3. QED
    BY <2>1, <2>2 DEF SavedBy, Reset, Stuck
<1>1. ASSUME NEW t \in Tills, EditOrder(t) PROVE DraftsTypeOK'
  BY <1>1 DEF EditOrder
<1>2. ASSUME NEW t \in Tills, HoldOrder(t) PROVE DraftsTypeOK'
  <2>1. till' \in [Tills -> Shown]
    BY <1>0, <1>2 DEF HoldOrder
  <2>2. draft' \in DraftRow
    BY <1>0, <1>2 DEF HoldOrder, Saveable
  <2>3. QED
    BY <1>2, <2>1, <2>2 DEF HoldOrder
<1>3. ASSUME NEW t \in Tills, ResumeDraft(t) PROVE DraftsTypeOK'
  BY <1>3 DEF ResumeDraft
<1>4. ASSUME NEW t \in Tills, SaveToFinalize(t) PROVE DraftsTypeOK'
  <2>1. PICK version \in till[t].active :
          /\ Saveable(version) /\ version < MaxVersion /\ draft' = SavedBy(t)
          /\ till' \in {Stuck(t), [till EXCEPT ![t].phase = "saved", ![t].active = {version + 1}]}
    BY <1>4 DEF SaveToFinalize
  <2>2. version \in Versions /\ version + 1 \in Versions
    BY <2>1, NextVersion
  <2> DEFINE saved == {version + 1}
  <2>6. saved \in SUBSET Versions
    BY <2>2
  <2>3. draft' \in DraftRow
    BY <1>0, <2>1 DEF Saveable
  <2>7. till' \in {Stuck(t), [till EXCEPT ![t].phase = "saved", ![t].active = saved]}
    BY <2>1
  <2> HIDE DEF saved
  <2>4. till' \in [Tills -> Shown]
    <3> DEFINE asking == [till EXCEPT ![t].phase = "saved", ![t].active = saved]
    <3>1. asking \in [Tills -> Shown]
      BY <2>6
    <3>2. till' \in {Stuck(t), asking}
      BY <2>7
    <3> HIDE DEF asking
    <3>3. QED
      BY <1>0, <3>1, <3>2
  <2>5. QED
    BY <1>4, <2>3, <2>4 DEF SaveToFinalize
<1>5. ASSUME NEW t \in Tills, AskForOrder(t) PROVE DraftsTypeOK'
  <2>1. till' \in [Tills -> Shown]
    BY <1>5 DEF AskForOrder
  <2>2. \A version \in till[t].active :
          [order |-> [till |-> t, version |-> version, intent |-> till[t].intent], rebuilt |-> FALSE]
            \in [order : PosOrder, rebuilt : BOOLEAN]
    BY DEF PosOrder
  <2>3. QED
    BY <1>5, <2>1, <2>2 DEF AskForOrder
<1>6. ASSUME NEW t \in Tills, Hear(t) \/ OpenAgain(t) PROVE DraftsTypeOK'
  BY <1>6 DEF Hear, OpenAgain, Reset
<1>7. CASE DiscardDraft \/ TwelveHours \/ CleanupExpired
  <2>1. draft.version < MaxVersion => draft.version + 1 \in Versions
    BY NextVersion
  <2>2. QED
    BY <1>7, <2>1 DEF DiscardDraft, TwelveHours, CleanupExpired
<1>8. ASSUME NEW r \in posRequests, Rebuild(r) PROVE DraftsTypeOK'
  <2>1. [r EXCEPT !.rebuilt = TRUE] \in [order : PosOrder, rebuilt : BOOLEAN]
    OBVIOUS
  <2>2. [r EXCEPT !.rebuilt = TRUE, !.order.intent = draft.intent] \in [order : PosOrder, rebuilt : BOOLEAN]
    <3>1. r.order \in PosOrder /\ draft.intent \in Intents
      OBVIOUS
    <3>2. [r.order EXCEPT !.intent = draft.intent] \in PosOrder
      BY <3>1 DEF PosOrder
    <3>3. QED
      BY <3>2
  <2>3. QED
    BY <1>8, <2>1, <2>2 DEF Rebuild
<1>9. ASSUME NEW r \in posRequests, CreateFromDraft(r) PROVE DraftsTypeOK'
  <2>1. PICK order \in PosOrder :
          /\ posOrders' \subseteq posOrders \cup {order}
          /\ draft' \in {draft, [draft EXCEPT !.status = "CONVERTED", !.version = @ + 1, !.converted = {order}]}
    <3> DEFINE sameKey == {o \in posOrders : o.till = r.order.till /\ o.version = r.order.version}
               order   == IF sameKey = {} THEN r.order ELSE CHOOSE o \in sameKey : TRUE
    <3>1. order \in PosOrder
      OBVIOUS
    <3>2. QED
      BY <1>9, <3>1 DEF CreateFromDraft
  <2>2. draft' = draft \/ draft.version + 1 \in Versions
    <3>1. CASE draft.status = "OPEN"
      <4>1. draft.version # MaxVersion
        BY <1>9, <3>1 DEF CreateFromDraft
      <4>2. QED
        BY <4>1, NextVersion, DraftsAssumption DEF Versions
    <3>2. CASE draft.status # "OPEN"
      <4>1. ~DraftAdmits(r.order) \/ draft.status = "CONVERTED"
        BY <3>2 DEF DraftAdmits, Usable
      <4>2. QED
        BY <1>9, <4>1 DEF CreateFromDraft
    <3>3. QED
      BY <3>1, <3>2
  <2>3. QED
    BY <1>9, <2>1, <2>2 DEF CreateFromDraft
<1>10. QED
  BY <1>1, <1>2, <1>3, <1>4, <1>5, <1>6, <1>7, <1>8, <1>9 DEF DraftsNext, draftVars

(* The order that a request leads to has its key, if not more.             *)
LEMMA CreatedOrder ==
  ASSUME NEW r \in posRequests, CreateFromDraft(r)
  PROVE  \E order :
           /\ \/ order \in posOrders
              \/ order = r.order /\ ~\E o \in posOrders : o.till = r.order.till /\ o.version = r.order.version
           /\ order.till = r.order.till /\ order.version = r.order.version
           /\ \/ UNCHANGED <<draft, posOrders>>
              \/ /\ draft.status = "CONVERTED" /\ draft' = draft /\ posOrders' = posOrders \cup {order}
                 /\ order \in posOrders => draft.converted = {o \in posOrders : o.till = order.till /\ o.version = order.version}
              \/ /\ draft.status = "OPEN" /\ draft.version = r.order.version
                 /\ posOrders' = posOrders \cup {order}
                 /\ draft' = [draft EXCEPT !.status = "CONVERTED", !.version = @ + 1, !.converted = {order}]
<1> DEFINE sameKey == {o \in posOrders : o.till = r.order.till /\ o.version = r.order.version}
           order   == IF sameKey = {} THEN r.order ELSE CHOOSE o \in sameKey : TRUE
           refused == ~DraftAdmits(r.order) \/ (sameKey # {} /\ draft.status = "CONVERTED" /\ draft.converted # sameKey)
<1>1. /\ posOrders' = IF refused THEN posOrders ELSE posOrders \cup {order}
      /\ draft' = IF refused \/ draft.status = "CONVERTED" THEN draft
                  ELSE [draft EXCEPT !.status = "CONVERTED", !.version = @ + 1, !.converted = {order}]
  BY DEF CreateFromDraft
<1>2. sameKey # {} => order \in sameKey
  OBVIOUS
<1>3. sameKey = {} => order = r.order
  OBVIOUS
<1>4. ~refused /\ draft.status # "CONVERTED" => draft.status = "OPEN" /\ draft.version = r.order.version
  BY DEF DraftAdmits, Usable
<1>5. order.till = r.order.till /\ order.version = r.order.version
  BY <1>2, <1>3
<1>6. ~refused /\ draft.status = "CONVERTED" /\ order \in posOrders
        => draft.converted = {o \in posOrders : o.till = order.till /\ o.version = order.version}
  BY <1>5
<1>7. \/ order \in posOrders
      \/ order = r.order /\ ~\E o \in posOrders : o.till = r.order.till /\ o.version = r.order.version
  BY <1>2, <1>3
<1> HIDE DEF order, refused
<1>8. QED
  BY <1>1, <1>4, <1>5, <1>6, <1>7

(* A request that is rebuilt keeps its key; it holds what the draft holds, *)
(* unless that was converted.                                              *)
LEMMA RebuiltRequests ==
  ASSUME DraftsTypeOK, NEW r \in posRequests, Rebuild(r), NEW q \in posRequests'
  PROVE  \/ q \in posRequests
         \/ /\ q.order.till = r.order.till /\ q.order.version = r.order.version
            /\ draft.status = "CONVERTED" \/ q.order.intent = draft.intent
<1>a. r \in [order : PosOrder, rebuilt : BOOLEAN]
  BY DEF DraftsTypeOK
<1>1. CASE draft.status = "CONVERTED"
  <2>0. ~(Usable /\ draft.version = r.order.version)
    BY <1>1 DEF Usable
  <2>1. posRequests' = (posRequests \ {r}) \cup {[r EXCEPT !.rebuilt = TRUE]}
    BY <1>1, <2>0, Zenon DEF Rebuild
  <2> DEFINE after == [r EXCEPT !.rebuilt = TRUE]
  <2>2. after.order = r.order
    BY <1>a
  <2>3. q \in posRequests \/ q = after
    BY <2>1
  <2>4. QED
    BY <1>1, <2>2, <2>3
<1>2. CASE draft.status # "CONVERTED" /\ Usable /\ draft.version = r.order.version
  <2> DEFINE after == [r EXCEPT !.rebuilt = TRUE, !.order.intent = draft.intent]
  <2>1. posRequests' = (posRequests \ {r}) \cup {after}
    BY <1>2, Zenon DEF Rebuild
  <2>2. /\ after.order.till = r.order.till /\ after.order.version = r.order.version
        /\ after.order.intent = draft.intent
    <3>1. after.order = [r.order EXCEPT !.intent = draft.intent]
      BY <1>a, Zenon
    <3>2. r.order \in PosOrder
      BY <1>a
    <3>3. QED
      BY <3>1, <3>2 DEF PosOrder
  <2> HIDE DEF after
  <2>3. q \in posRequests \/ q = after
    BY <2>1
  <2>4. QED
    BY <2>2, <2>3
<1>3. CASE draft.status # "CONVERTED" /\ ~(Usable /\ draft.version = r.order.version)
  BY <1>3 DEF Rebuild
<1>4. QED
  BY <1>1, <1>2, <1>3

(* A step gives a till no version it did not hold, but for the one it has  *)
(* just saved.                                                             *)
LEMMA HoldsStep ==
  ASSUME DraftsTypeOK, [DraftsNext]_draftVars, NEW t \in Tills, NEW v \in Versions, Holds(t, v)'
  PROVE  \/ Holds(t, v)
         \/ v = draft.version + 1 /\ draft'.version = v /\ draft'.status = "OPEN" /\ SaveToFinalize(t)
<1>1. ASSUME NEW u \in Tills, EditOrder(u) \/ ResumeDraft(u) PROVE Holds(t, v)
  BY <1>1 DEF Holds, EditOrder, ResumeDraft, Idle, DraftsTypeOK
<1>2. ASSUME NEW u \in Tills, HoldOrder(u) PROVE Holds(t, v)
  BY <1>2 DEF Holds, HoldOrder, Idle, Reset, Stuck, DraftsTypeOK
<1>3. ASSUME NEW u \in Tills, Hear(u) \/ OpenAgain(u) PROVE Holds(t, v)
  BY <1>3 DEF Holds, Hear, OpenAgain, Reset, DraftsTypeOK
<1>4. ASSUME NEW u \in Tills, AskForOrder(u) PROVE Holds(t, v)
  <2>1. PICK version \in till[u].active :
          /\ till[u].phase = "saved"
          /\ till' = [till EXCEPT ![u].phase = "waiting"] /\ posOrders' = posOrders
          /\ posRequests' = posRequests \cup
               {[order |-> [till |-> u, version |-> version, intent |-> till[u].intent], rebuilt |-> FALSE]}
    BY <1>4 DEF AskForOrder
  <2>2. CASE till'[t].phase = "saved" /\ v \in till'[t].active
    BY <2>1, <2>2 DEF Holds, DraftsTypeOK
  <2>3. ASSUME NEW r \in posRequests', r.order.till = t, r.order.version = v PROVE Holds(t, v)
    BY <2>1, <2>3 DEF Holds
  <2>4. QED
    BY <2>1, <2>2, <2>3 DEF Holds
<1>5. ASSUME NEW u \in Tills, SaveToFinalize(u), ~Holds(t, v)
      PROVE  v = draft.version + 1 /\ draft'.version = v /\ draft'.status = "OPEN" /\ u = t
  <2>1. PICK version \in till[u].active :
          /\ draft.version = version /\ draft.status = "OPEN" /\ draft' = SavedBy(u)
          /\ \/ till' = Stuck(u)
             \/ till' = [till EXCEPT ![u].phase = "saved", ![u].active = {version + 1}]
    BY <1>5 DEF SaveToFinalize, Saveable, Usable
  <2>2. till'[t].phase = "saved" /\ v \in till'[t].active
    BY <1>5 DEF Holds, SaveToFinalize
  <2>3. draft'.version = draft.version + 1 /\ draft'.status = "OPEN"
    BY <2>1 DEF SavedBy, DraftsTypeOK
  <2>4. \A w \in Tills \ {u} : till'[w] = till[w]
    BY <2>1 DEF Stuck, DraftsTypeOK
  <2>5. u = t
    BY <2>2, <2>4, <1>5 DEF Holds
  <2>6. till'[t].active = {draft.version + 1}
    BY <2>1, <2>2, <2>5 DEF Stuck, DraftsTypeOK
  <2>7. QED
    BY <2>2, <2>3, <2>5, <2>6
<1>6. CASE DiscardDraft \/ TwelveHours \/ CleanupExpired \/ UNCHANGED draftVars
  BY <1>6 DEF DiscardDraft, TwelveHours, CleanupExpired, draftVars, Holds
<1>7. ASSUME NEW r \in posRequests, Rebuild(r) PROVE Holds(t, v)
  <2>1. \A q \in posRequests' : \E p \in posRequests :
          p.order.till = q.order.till /\ p.order.version = q.order.version
    BY <1>7, RebuiltRequests
  <2>2. QED
    BY <1>7, <2>1 DEF Rebuild, Holds
<1>8. ASSUME NEW r \in posRequests, CreateFromDraft(r) PROVE Holds(t, v)
  <2>1. posRequests' \subseteq posRequests /\ till' = till
    BY <1>8 DEF CreateFromDraft
  <2>2. \A o \in posOrders' : o \in posOrders \/ (o.till = r.order.till /\ o.version = r.order.version)
    BY <1>8, CreatedOrder
  <2>3. QED
    BY <2>1, <2>2 DEF Holds
<1>9. QED
  BY <1>1, <1>2, <1>3, <1>4, <1>5, <1>6, <1>7, <1>8 DEF DraftsNext

(* What a step does to the draft: nothing, its creation, its expiry coming *)
(* due, or a version more. A draft that was converted rests.               *)
LEMMA DraftStep ==
  ASSUME DraftsTypeOK, [DraftsNext]_draftVars, draft' # draft
  PROVE  /\ draft.status \in {"NONE", "OPEN"} /\ draft'.status # "NONE"
         /\ \/ draft.status = "NONE" /\ draft'.version = draft.version
            \/ draft.status = "OPEN" /\ draft'.version = draft.version /\ draft'.intent = draft.intent
            \/ draft.status = "OPEN" /\ draft'.version = draft.version + 1
         /\ draft'.status # "CONVERTED" => draft'.converted = draft.converted
         /\ draft'.status = "CONVERTED" =>
              draft'.version = draft.version + 1 /\ \E r \in posRequests : CreateFromDraft(r)
<1> USE DEF DraftsTypeOK
<1>1. ASSUME NEW t \in Tills, HoldOrder(t) \/ SaveToFinalize(t)
      PROVE  \/ draft.status = "NONE" /\ draft' = [draft EXCEPT !.status = "OPEN", !.intent = till[t].intent]
             \/ draft.status = "OPEN" /\ draft' = SavedBy(t)
  BY <1>1 DEF HoldOrder, SaveToFinalize, Saveable, Usable
<1>2. ASSUME NEW t \in Tills, HoldOrder(t) \/ SaveToFinalize(t)
      PROVE  /\ draft'.status = "OPEN" /\ draft'.converted = draft.converted
             /\ \/ draft.status = "NONE" /\ draft'.version = draft.version
                \/ draft.status = "OPEN" /\ draft'.version = draft.version + 1
  BY <1>1, <1>2 DEF SavedBy
<1>3. CASE DiscardDraft \/ TwelveHours \/ CleanupExpired
  BY <1>3 DEF DiscardDraft, TwelveHours, CleanupExpired
<1>4. ASSUME NEW r \in posRequests, CreateFromDraft(r)
      PROVE  /\ draft.status = "OPEN" /\ draft'.status = "CONVERTED"
             /\ draft'.version = draft.version + 1
  BY <1>4, CreatedOrder
<1>5. ASSUME NEW t \in Tills, EditOrder(t) \/ ResumeDraft(t) \/ AskForOrder(t) \/ Hear(t) \/ OpenAgain(t)
      PROVE  FALSE
  BY <1>5 DEF EditOrder, ResumeDraft, AskForOrder, Hear, OpenAgain
<1>6. ASSUME NEW r \in posRequests, Rebuild(r) PROVE FALSE
  BY <1>6 DEF Rebuild
<1>7. CASE UNCHANGED draftVars
  BY <1>7 DEF draftVars
<1>8. QED
  BY <1>2, <1>3, <1>4, <1>5, <1>6, <1>7 DEF DraftsNext

(* Only the server's last step makes orders.                               *)
LEMMA OrdersStep ==
  ASSUME [DraftsNext]_draftVars, ~\E r \in posRequests : CreateFromDraft(r)
  PROVE  posOrders' = posOrders
BY DEF DraftsNext, draftVars, EditOrder, HoldOrder, ResumeDraft, SaveToFinalize, AskForOrder, Hear, OpenAgain,
       DiscardDraft, TwelveHours, CleanupExpired, Rebuild

(* A request comes of a till, or is rebuilt, or was there.                 *)
LEMMA RequestsStep ==
  ASSUME DraftsTypeOK, [DraftsNext]_draftVars, NEW q \in posRequests', q \notin posRequests, q.rebuilt
  PROVE  draft' = draft /\ (draft.status = "CONVERTED" \/ q.order.intent = draft.intent)
<1>1. ASSUME NEW t \in Tills, AskForOrder(t) PROVE FALSE
  BY <1>1 DEF AskForOrder
<1>2. ASSUME NEW r \in posRequests, Rebuild(r)
      PROVE  draft' = draft /\ (draft.status = "CONVERTED" \/ q.order.intent = draft.intent)
  BY <1>2, RebuiltRequests DEF Rebuild
<1>3. QED
  BY <1>1, <1>2 DEF DraftsNext, draftVars, EditOrder, HoldOrder, ResumeDraft, SaveToFinalize, Hear, OpenAgain,
       DiscardDraft, TwelveHours, CleanupExpired, CreateFromDraft

(* A version stays with one till: a save makes a version nobody holds, and *)
(* every other step holds what was held.                                   *)
LEMMA HeldStep ==
  ASSUME DraftsInv, [DraftsNext]_draftVars
  PROVE  HeldOnce' /\ HeldSaved'
<1> USE DEF DraftsInv
<1>1. draft.version \in Nat
  BY DraftsAssumption DEF DraftsTypeOK, Versions
<1>2. ASSUME NEW t \in Tills, NEW u \in Tills, NEW v \in Versions, Holds(t, v)', Holds(u, v)', t # u
      PROVE  FALSE
  <2>1. v <= draft.version \/ v = draft.version + 1
    BY <1>2, HoldsStep DEF HeldSaved
  <2>2. CASE v <= draft.version
    BY <1>1, <1>2, <2>2, HoldsStep DEF HeldOnce
  <2>3. CASE v = draft.version + 1
    <3>1. ~Holds(t, v) /\ ~Holds(u, v)
      BY <1>1, <2>3 DEF HeldSaved
    <3>2. SaveToFinalize(t) /\ SaveToFinalize(u)
      BY <1>2, <3>1, HoldsStep
    <3>3. ASSUME NEW x \in Tills, SaveToFinalize(x)
          PROVE  till[x].phase = "idle" /\ till'[x].phase # "idle" /\ \A y \in Tills \ {x} : till'[y] = till[y]
      BY <3>3 DEF SaveToFinalize, Idle, Stuck, DraftsTypeOK
    <3>4. QED
      BY <1>2, <3>2, <3>3
  <2>4. QED
    BY <2>1, <2>2, <2>3
<1>3. ASSUME NEW t \in Tills, NEW v \in Versions, Holds(t, v)'
      PROVE  draft'.status # "NONE" /\ v <= draft'.version /\ (draft'.status = "CONVERTED" => v < draft'.version)
  <2>1. CASE Holds(t, v)
    <3>1. draft.status # "NONE" /\ v <= draft.version /\ (draft.status = "CONVERTED" => v < draft.version)
      BY <2>1 DEF HeldSaved
    <3>2. v \in Nat
      BY DraftsAssumption DEF Versions
    <3>3. CASE draft' = draft
      BY <3>1, <3>3
    <3>4. CASE draft' # draft
      BY <1>1, <3>1, <3>2, <3>4, DraftStep
    <3>5. QED
      BY <3>3, <3>4
  <2>2. CASE ~Holds(t, v)
    BY <1>1, <1>3, <2>2, HoldsStep
  <2>3. QED
    BY <2>1, <2>2
<1>4. QED
  BY <1>2, <1>3 DEF HeldOnce, HeldSaved

(* An order that a server rebuilt from the draft is of the version it was  *)
(* rebuilt from.                                                           *)
LEMMA RebuiltStep ==
  ASSUME DraftsInv, [DraftsNext]_draftVars
  PROVE  RebuiltAsSaved'
<1> SUFFICES ASSUME NEW q \in posRequests', q.rebuilt, draft'.status = "OPEN", q.order.version = draft'.version
             PROVE  q.order.intent = draft'.intent
  BY DEF RebuiltAsSaved
<1> USE DEF DraftsInv
<1>1. CASE q \notin posRequests
  BY <1>1, RequestsStep
<1>2. CASE q \in posRequests
  <2>1. q.order.till \in Tills /\ q.order.version \in Versions /\ draft.version \in Nat
    BY <1>2, DraftsAssumption DEF DraftsTypeOK, PosOrder, Versions
  <2>2. draft.status # "NONE" /\ q.order.version <= draft.version
    BY <1>2, <2>1 DEF HeldSaved, Holds
  <2>3. draft' = draft \/ (draft.status = "OPEN" /\ draft'.version = draft.version /\ draft'.intent = draft.intent)
    BY <2>1, <2>2, DraftStep
  <2>4. QED
    BY <1>2, <2>3 DEF RebuiltAsSaved
<1>3. QED
  BY <1>1, <1>2

(* A draft is converted by the order of its version, and by no other.      *)
LEMMA OrdersInvStep ==
  ASSUME DraftsInv, [DraftsNext]_draftVars
  PROVE  ConvertedToOrder' /\ ConvertedAsSaved'
<1> USE DEF DraftsInv
<1>0. draft.version \in Nat /\ \A o \in PosOrder : o.till \in Tills /\ o.version \in Versions /\ o.version \in Nat
  BY DraftsAssumption DEF DraftsTypeOK, PosOrder, Versions
<1>1. CASE draft' = draft /\ posOrders' = posOrders
  BY <1>1 DEF ConvertedToOrder, ConvertedAsSaved
<1>2. CASE draft' # draft /\ ~\E r \in posRequests : CreateFromDraft(r)
  <2>1. draft'.status # "CONVERTED" /\ draft.status # "CONVERTED" /\ draft'.converted = draft.converted
        /\ posOrders' = posOrders
    BY <1>2, DraftStep, OrdersStep
  <2>2. posOrders = {} /\ draft.converted = {}
    BY <2>1 DEF ConvertedToOrder
  <2>3. QED
    BY <2>1, <2>2 DEF ConvertedToOrder, ConvertedAsSaved
<1>3. ASSUME NEW r \in posRequests, CreateFromDraft(r), ~UNCHANGED <<draft, posOrders>>
      PROVE  ConvertedToOrder' /\ ConvertedAsSaved'
  <2>0. r.order \in PosOrder /\ r.rebuilt
    BY <1>3 DEF DraftsTypeOK, CreateFromDraft
  <2>1. PICK order :
           /\ \/ order \in posOrders
              \/ order = r.order /\ ~\E o \in posOrders : o.till = r.order.till /\ o.version = r.order.version
           /\ order.till = r.order.till /\ order.version = r.order.version
           /\ \/ /\ draft.status = "CONVERTED" /\ draft' = draft /\ posOrders' = posOrders \cup {order}
                 /\ order \in posOrders => draft.converted = {o \in posOrders : o.till = order.till /\ o.version = order.version}
              \/ /\ draft.status = "OPEN" /\ draft.version = r.order.version
                 /\ posOrders' = posOrders \cup {order}
                 /\ draft' = [draft EXCEPT !.status = "CONVERTED", !.version = @ + 1, !.converted = {order}]
    BY <1>3, CreatedOrder
  <2>2. CASE draft.status = "OPEN"
    <3>1. posOrders = {} /\ draft.converted = {} /\ order = r.order /\ posOrders' = {order}
      BY <2>1, <2>2 DEF ConvertedToOrder
    <3>2. order.intent = draft.intent /\ order.version = draft.version
      BY <2>0, <2>1, <2>2, <3>1 DEF RebuiltAsSaved
    <3>3. draft'.status = "CONVERTED" /\ draft'.version = draft.version + 1 /\ draft'.converted = {order}
          /\ draft'.intent = draft.intent
      BY <2>1, <2>2 DEF DraftsTypeOK
    <3>4. QED
      BY <1>0, <3>1, <3>2, <3>3 DEF ConvertedToOrder, ConvertedAsSaved
  <2>3. CASE draft.status = "CONVERTED"
    <3>1. order \notin posOrders /\ posOrders' = posOrders \cup {order} /\ draft' = draft
      BY <1>3, <2>1, <2>3
    <3>2. order = r.order /\ ~\E o \in posOrders : o.till = order.till /\ o.version = order.version
      BY <2>1, <3>1
    <3>3. PICK c \in posOrders : draft.converted = {c}
      BY <2>3 DEF ConvertedToOrder
    <3>4. Holds(order.till, order.version) /\ \A o \in posOrders : Holds(o.till, o.version)
      BY <3>2 DEF Holds
    <3>5. \A o \in posOrders : o.version # order.version
      BY <1>0, <2>0, <3>2, <3>4 DEF HeldOnce, DraftsTypeOK
    <3>6. QED
      BY <2>3, <3>1, <3>3, <3>5 DEF ConvertedToOrder, ConvertedAsSaved
  <2>4. QED
    BY <2>1, <2>2, <2>3
<1>4. QED
  BY <1>1, <1>2, <1>3, OrdersStep

(* A till holds what it saved, requests are kept as they were saved, and   *)
(* orders are of what was saved: for any tills, versions and intents.      *)
THEOREM DraftsInvariance == DraftsSpec => []DraftsInv
<1>1. DraftsInit => DraftsInv
  BY DraftsInvInit
<1>2. DraftsInv /\ [DraftsNext]_draftVars => DraftsInv'
  BY DraftsTypeStep, HeldStep, RebuiltStep, OrdersInvStep DEF DraftsInv
<1>3. QED
  BY <1>1, <1>2, PTL DEF DraftsSpec

(* A draft is converted while it is open, to an order of its last version  *)
(* and with what was saved last, and no saved version is ordered twice:    *)
(* for any tills, versions and intents, whatever tills save, ask and retry *)
(* at once. That a draft gives one order does not hold, and is not claimed.*)
THEOREM DraftsConvertAsSaved == DraftsSpec => []ConvertedAsSaved
<1>1. DraftsInv => ConvertedAsSaved
  BY DEF DraftsInv
<1>2. QED
  BY DraftsInvariance, <1>1, PTL

-----------------------------------------------------------------------------
(* Promotions.                                                             *)

(* What a quote reads of a promotion is what the promotion says.           *)
Mirrored ==
  \A id \in Offers : promotions[id] # {} =>
    \A o \in offers[id] : o.kind = "PRODUCT_FIXED_PRICE" /\ o.row \in promotions[id]

(* No two live promotions of a product are active at one moment.           *)
Compared ==
  \A a, b \in Offers : \A p \in promotions[a], q \in promotions[b] :
    a # b /\ Live(p) /\ Live(q) /\ p.product = q.product => ~Meet(p, q)

CatalogInv == CatalogTypeOK /\ Mirrored /\ Compared

(* The rows that operations build are rows.                                *)
LEMMA NewRowType ==
  ASSUME NEW product \in OfferProducts, NEW schedule \in Schedules, NEW active \in BOOLEAN
  PROVE  [product |-> product, schedule |-> schedule, active |-> active,
          archived |-> FALSE, version |-> 0] \in Row
BY CatalogAssumption DEF Row

(* The three rewritings of a row: moved, switched, archived.               *)
Moved(p, product, schedule, active) ==
  [p EXCEPT !.product = product, !.schedule = schedule, !.active = active, !.version = @ + 1]
Switched(p, active) == [p EXCEPT !.active = active, !.version = @ + 1]
Archived(p) == [p EXCEPT !.active = FALSE, !.archived = TRUE, !.version = @ + 1]

(* A row of an offer that is rewritten within the bound of writes is a     *)
(* row.                                                                    *)
LEMMA RewrittenRowType ==
  ASSUME NEW p \in Row, NEW product \in OfferProducts, NEW schedule \in Schedules,
         NEW active \in BOOLEAN
  PROVE  /\ Moved(p, product, schedule, active).version <= MaxWrites => Moved(p, product, schedule, active) \in Row
         /\ Switched(p, active).version <= MaxWrites => Switched(p, active) \in Row
         /\ Archived(p).version <= MaxWrites => Archived(p) \in Row
<1>1. p.version \in Nat
  BY CatalogAssumption DEF Row
<1>2. p.version + 1 <= MaxWrites => p.version + 1 \in 0..MaxWrites
  BY <1>1, CatalogAssumption
<1>3. Moved(p, product, schedule, active).version <= MaxWrites => Moved(p, product, schedule, active) \in Row
  BY <1>2 DEF Moved, Row
<1>4. Switched(p, active).version <= MaxWrites => Switched(p, active) \in Row
  BY <1>2 DEF Switched, Row
<1>5. Archived(p).version <= MaxWrites => Archived(p) \in Row
  BY <1>2 DEF Archived, Row
<1>6. QED
  BY <1>3, <1>4, <1>5

(* A promotion that was compared, or that is not active, keeps the         *)
(* invariant wherever it is written.                                       *)
LEMMA PromotionWritten ==
  ASSUME CatalogInv, NEW id \in Offers, NEW row \in Row,
         WindowAvailable(id, row), WritePromotion(id, row)
  PROVE  CatalogInv'
<1> USE DEF CatalogInv
<1>1. promotions' = [promotions EXCEPT ![id] = {row}]
  BY DEF WritePromotion
<1>2. offers' = [offers EXCEPT ![id] = {[row |-> row, kind |-> "PRODUCT_FIXED_PRICE"]}]
  BY DEF WritePromotion
<1>3. CatalogTypeOK'
  <2>1. [row |-> row, kind |-> "PRODUCT_FIXED_PRICE"] \in [row : Row, kind : OfferKinds]
    BY DEF OfferKinds
  <2>2. QED
    BY <1>1, <1>2, <2>1 DEF CatalogTypeOK
<1>4. Mirrored'
  <2> SUFFICES ASSUME NEW other \in Offers, promotions'[other] # {}, NEW o \in offers'[other]
               PROVE  o.kind = "PRODUCT_FIXED_PRICE" /\ o.row \in promotions'[other]
    BY DEF Mirrored
  <2>1. CASE other = id
    BY <1>1, <1>2, <2>1 DEF CatalogTypeOK
  <2>2. CASE other # id
    BY <1>1, <1>2, <2>2 DEF CatalogTypeOK, Mirrored
  <2>3. QED
    BY <2>1, <2>2
<1>5. Compared'
  <2> SUFFICES ASSUME NEW a \in Offers, NEW b \in Offers, a # b,
                      NEW p \in promotions'[a], NEW q \in promotions'[b],
                      Live(p), Live(q), p.product = q.product
               PROVE  ~Meet(p, q)
    BY DEF Compared, Live, Meet
  <2>1. CASE a = id
    <3>1. p = row /\ q \in promotions[b] /\ b \in Offers \ {id}
      BY <1>1, <2>1 DEF CatalogTypeOK
    <3>2. ~Meet(q, row)
      BY <3>1 DEF WindowAvailable, Live
    <3>3. QED
      BY <3>1, <3>2 DEF Meet
  <2>2. CASE b = id
    <3>1. q = row /\ p \in promotions[a] /\ a \in Offers \ {id}
      BY <1>1, <2>2 DEF CatalogTypeOK
    <3>2. QED
      BY <3>1 DEF WindowAvailable, Live
  <2>3. CASE a # id /\ b # id
    <3>1. p \in promotions[a] /\ q \in promotions[b]
      BY <1>1, <2>3 DEF CatalogTypeOK
    <3>2. QED
      BY <3>1 DEF Compared
  <2>4. QED
    BY <2>1, <2>2, <2>3
<1>6. QED
  BY <1>3, <1>4, <1>5

(* What is an offer only may become anything: nothing of the invariant is  *)
(* about it.                                                               *)
LEMMA OfferWritten ==
  ASSUME CatalogInv, NEW id \in Offers, NEW o \in [row : Row, kind : OfferKinds],
         promotions[id] = {}, offers' = [offers EXCEPT ![id] = {o}], UNCHANGED promotions
  PROVE  CatalogInv'
<1> USE DEF CatalogInv
<1>1. CatalogTypeOK'
  BY DEF CatalogTypeOK
<1>2. Mirrored'
  <2> SUFFICES ASSUME NEW other \in Offers, promotions'[other] # {}, NEW x \in offers'[other]
               PROVE  x.kind = "PRODUCT_FIXED_PRICE" /\ x.row \in promotions'[other]
    BY DEF Mirrored
  <2>1. other # id /\ x \in offers[other]
    BY DEF CatalogTypeOK
  <2>2. QED
    BY <2>1 DEF Mirrored
<1>3. Compared'
  BY DEF Compared, Live, Meet
<1>4. QED
  BY <1>1, <1>2, <1>3

(* The offer behind a promotion is out of reach of the operations of       *)
(* offers, which a page calls for the other kinds only.                    *)
LEMMA OwnIsNoPromotion ==
  ASSUME CatalogInv, NEW id \in Offers, NEW o \in offers[id], Own(o)
  PROVE  promotions[id] = {}
BY DEF CatalogInv, Mirrored, Own

(* The first state satisfies the invariant of the catalog.                 *)
LEMMA CatalogInvInit == CatalogInit => CatalogInv
BY DEF CatalogInit, CatalogInv, CatalogTypeOK, Mirrored, Compared

(* Every step keeps the invariant of the catalog.                          *)
LEMMA CatalogInvStep == CatalogInv /\ [CatalogNext]_catalogVars => CatalogInv'
<1> SUFFICES ASSUME CatalogInv, [CatalogNext]_catalogVars PROVE CatalogInv'
  OBVIOUS
<1>1. CASE UNCHANGED catalogVars
  BY <1>1 DEF CatalogInv, CatalogTypeOK, Mirrored, Compared, Live, Meet, catalogVars
<1>2. ASSUME NEW id \in Offers, CreatePromotion(id) PROVE CatalogInv'
  BY <1>2, NewRowType, PromotionWritten DEF CreatePromotion
<1>3. ASSUME NEW id \in Offers, UpdatePromotion(id) PROVE CatalogInv'
  <2>1. PICK p \in promotions[id], product \in OfferProducts, schedule \in Schedules, active \in BOOLEAN :
          /\ WindowAvailable(id, Moved(p, product, schedule, active))
          /\ WritePromotion(id, Moved(p, product, schedule, active))
    BY <1>3 DEF UpdatePromotion, Moved
  <2>2. Moved(p, product, schedule, active) \in Row
    BY <2>1, RewrittenRowType DEF CatalogInv, CatalogTypeOK, WritePromotion
  <2>3. QED
    BY <2>1, <2>2, PromotionWritten
<1>4. ASSUME NEW id \in Offers, SetPromotionActive(id) PROVE CatalogInv'
  <2>1. PICK p \in promotions[id], active \in BOOLEAN :
          WindowAvailable(id, Switched(p, active)) /\ WritePromotion(id, Switched(p, active))
    BY <1>4 DEF SetPromotionActive, Switched
  <2>2. p \in Row /\ p.product \in OfferProducts /\ p.schedule \in Schedules
    BY DEF CatalogInv, CatalogTypeOK, Row
  <2>3. Switched(p, active) \in Row
    BY <2>1, <2>2, RewrittenRowType DEF WritePromotion
  <2>4. QED
    BY <2>1, <2>3, PromotionWritten
<1>5. ASSUME NEW id \in Offers, ArchivePromotion(id) PROVE CatalogInv'
  <2>1. PICK p \in promotions[id] : WritePromotion(id, Archived(p))
    BY <1>5 DEF ArchivePromotion, Archived
  <2>2. p \in Row /\ p.product \in OfferProducts /\ p.schedule \in Schedules
    BY DEF CatalogInv, CatalogTypeOK, Row
  <2>3. Archived(p) \in Row
    BY <2>1, <2>2, RewrittenRowType DEF WritePromotion
  <2>4. WindowAvailable(id, Archived(p))
    BY <2>2 DEF WindowAvailable, Archived, Row
  <2>5. QED
    BY <2>1, <2>3, <2>4, PromotionWritten
<1>6. ASSUME NEW id \in Offers, CreateOffer(id) PROVE CatalogInv'
  <2>1. PICK kind \in OfferKinds, product \in OfferProducts, schedule \in Schedules, active \in BOOLEAN :
          /\ Fresh(id) /\ UNCHANGED promotions
          /\ offers' = [offers EXCEPT ![id] =
               {[row |-> [product |-> product, schedule |-> schedule, active |-> active,
                          archived |-> FALSE, version |-> 0], kind |-> kind]}]
    BY <1>6 DEF CreateOffer
  <2>2. QED
    BY <2>1, NewRowType, OfferWritten DEF Fresh
<1>7. ASSUME NEW id \in Offers, NEW o \in offers[id], NEW row, row \in Row, Own(o), WriteOffer(id, o, row)
      PROVE  CatalogInv'
  <2>1. o \in [row : Row, kind : OfferKinds] /\ [o EXCEPT !.row = row] \in [row : Row, kind : OfferKinds]
    BY <1>7 DEF CatalogInv, CatalogTypeOK
  <2>2. QED
    BY <1>7, <2>1, OwnIsNoPromotion, OfferWritten DEF WriteOffer
<1>8. ASSUME NEW id \in Offers, SetOfferActive(id) PROVE CatalogInv'
  <2>1. PICK o \in offers[id], active \in BOOLEAN :
          Own(o) /\ WriteOffer(id, o, Switched(o.row, active))
    BY <1>8 DEF SetOfferActive, Switched
  <2>2. o.row \in Row /\ o.row.product \in OfferProducts /\ o.row.schedule \in Schedules
    BY DEF CatalogInv, CatalogTypeOK, Row
  <2>3. Switched(o.row, active) \in Row
    BY <2>1, <2>2, RewrittenRowType DEF WriteOffer
  <2>4. QED
    BY <1>7, <2>1, <2>3
<1>9. ASSUME NEW id \in Offers, ArchiveOffer(id) PROVE CatalogInv'
  <2>1. PICK o \in offers[id] :
          Own(o) /\ WriteOffer(id, o, Archived(o.row))
    BY <1>9 DEF ArchiveOffer, Archived
  <2>2. o.row \in Row /\ o.row.product \in OfferProducts /\ o.row.schedule \in Schedules
    BY DEF CatalogInv, CatalogTypeOK, Row
  <2>3. Archived(o.row) \in Row
    BY <2>1, <2>2, RewrittenRowType DEF WriteOffer
  <2>4. QED
    BY <1>7, <2>1, <2>3
<1>10. QED
  BY <1>1, <1>2, <1>3, <1>4, <1>5, <1>6, <1>8, <1>9 DEF CatalogNext

(* The invariant of the catalog keeps promotions of a product apart.       *)
LEMMA CatalogInvApart == CatalogInv => PromotionsApart
<1> SUFFICES ASSUME CatalogInv, NEW product \in OfferProducts, NEW moment \in Moments,
                    NEW a \in HeldAt(product, moment), NEW b \in HeldAt(product, moment), a # b,
                    promotions[a] # {}, promotions[b] # {}
             PROVE  FALSE
  BY DEF PromotionsApart
<1>1. PICK x \in offers[a] : Live(x.row) /\ x.row.product = product /\ moment \in x.row.schedule
  BY DEF HeldAt
<1>2. PICK y \in offers[b] : Live(y.row) /\ y.row.product = product /\ moment \in y.row.schedule
  BY DEF HeldAt
<1>3. a \in Offers /\ b \in Offers
  BY DEF HeldAt
<1>4. x.row \in promotions[a] /\ y.row \in promotions[b]
  BY <1>3, <1>1, <1>2 DEF CatalogInv, Mirrored
<1>5. ~Meet(x.row, y.row)
  BY <1>1, <1>2, <1>3, <1>4 DEF CatalogInv, Compared
<1>6. QED
  BY <1>1, <1>2, <1>5 DEF Meet

(* The offers and the promotions they mirror are rows of the store, and    *)
(* two promotions of a product that are live never meet.                   *)
THEOREM CatalogInvariance == CatalogSpec => []CatalogInv
<1>1. CatalogInit => CatalogInv
  BY CatalogInvInit
<1>2. CatalogInv /\ [CatalogNext]_catalogVars => CatalogInv'
  BY CatalogInvStep
<1>3. QED
  BY <1>1, <1>2, PTL DEF CatalogSpec

(* Promotions alone never leave a product with two offers at one moment,   *)
(* whatever the staff create, move, pause, bring back or archive, and in   *)
(* whichever order (offer.service.ts).                                     *)
THEOREM PromotionsNeverMeet == CatalogSpec => []PromotionsApart
<1>1. CatalogInv => PromotionsApart
  BY CatalogInvApart
<1>2. QED
  BY CatalogInvariance, <1>1, PTL

-----------------------------------------------------------------------------
(* The feed.                                                               *)

(* A row is written once; one still invisible belongs to an open transaction.*)
RowsOK ==
  \A e \in Ids : \A r \in rows[e] :
    /\ \A q \in rows[e] : q = r
    /\ r.at <= minute /\ (~r.visible => minute <= r.at + CommitDelay)

(* A page that is not open knows nothing.                                  *)
ClosedOK == page.opened = {} =>
  /\ page.seen = <<>> /\ page.known = {} /\ page.read = {} /\ page.stale = {} /\ page.again = {}
  /\ ~page.more /\ ~page.drained

(* The cursor lies between the opening and now.                            *)
CursorOK == \A o \in page.opened : page.opened = {o} /\ o <= page.at /\ page.at <= minute

(* What the page remembers: rows it was told of, each once.                *)
MemoryOK ==
  /\ Len(page.seen) < SeenLimit
  /\ \A i, j \in DOMAIN page.seen : page.seen[i].id = page.seen[j].id => i = j
  /\ \A i \in DOMAIN page.seen :
       /\ page.seen[i].id \in Visible /\ page.seen[i].id \in page.notified \cup page.known
       /\ page.seen[i].since <= minute
       /\ \A o \in page.opened : At(page.seen[i].id) >= o - OverlapTime /\ page.seen[i].since >= o

(* A row not told of yet is still asked for.                               *)
HeardOK ==
  Opened => \A e \in Visible : e \in page.notified \/ e \in page.known \/ e \in AfterCursor \/ At(e) >= page.at - OverlapTime

(* What a poll read since it moved the cursor came last, and is remembered *)
(* unless it is more than can be.                                          *)
ReadOK ==
  /\ ~page.more => page.read = {}
  /\ \A e \in page.read : e \in Visible /\ At(e) >= page.at - OverlapTime
  /\ \A i \in DOMAIN page.seen : page.seen[i].id \in page.read =>
       page.seen[i].since = minute /\ \A j \in DOMAIN page.seen : i < j => page.seen[j].id \in page.read
  /\ page.read \subseteq Seen \/ Cardinality(page.read) > Window

(* What was on the board at the opening o is remembered, or was forgotten  *)
(* for a reason.                                                           *)
Excused(o) == minute > o + Retention \/ Crowded(o)
KnownOK ==
  \A o \in page.opened :
    /\ \A e \in page.known : e \in Visible /\ e \notin AfterCursor
    /\ Excused(o) \/ (page.stale = {} /\ \A e \in page.known : At(e) >= o - OverlapTime => e \in Seen)

Circles == \A at \in page.again : Crowded(at)
Drained == page.drained => Visible \subseteq page.notified \cup page.known

FeedInv ==
  FeedTypeOK /\ RowsOK /\ ClosedOK /\ CursorOK /\ MemoryOK /\ HeardOK /\ ReadOK /\ KnownOK /\ Circles /\ Drained

(* What the assumptions say of the constants of the feed, each by itself.  *)
LEMMA FeedConstants ==
  /\ MaxRows \in Nat /\ MaxMinute \in Nat /\ LoadBy \in Nat /\ OverlapTime \in Nat /\ Retention \in Nat
  /\ CommitDelay \in Nat /\ PageSize \in Nat /\ SeenLimit \in Nat /\ Window \in Nat
  /\ CommitDelay <= OverlapTime /\ 0 < PageSize /\ Window < SeenLimit
BY FeedAssumption

(* Sets of rows can be counted.                                            *)
LEMMA RowsCounted ==
  ASSUME NEW S \in SUBSET Ids
  PROVE  IsFiniteSet(S) /\ Cardinality(S) \in Nat /\ \A T \in SUBSET S : Cardinality(T) <= Cardinality(S)
<1>1. IsFiniteSet(Ids)
  BY FeedConstants, FS_Interval DEF Ids
<1>2. IsFiniteSet(S)
  BY <1>1, FS_Subset
<1>3. QED
  BY <1>2, FS_Subset, FS_CardinalityType

(* Distinct rows, more than the page remembers, are a crowd.               *)
LEMMA ManyRows ==
  ASSUME NEW S \in SUBSET Ids, NEW f \in [0..Window -> S],
         \A i, j \in 0..Window : f[i] = f[j] => i = j
  PROVE  Cardinality(S) > Window
<1>1. IsFiniteSet(0..Window) /\ Cardinality(0..Window) = Window + 1 /\ Window \in Nat
  <2>1. Window \in Nat
    BY FeedConstants
  <2>2. IsFiniteSet(0..Window) /\ Cardinality(0..Window) = IF 0 > Window THEN 0 ELSE Window - 0 + 1
    BY <2>1, FS_Interval
  <2>3. QED
    BY <2>1, <2>2
<1>2. f \in Injection(0..Window, S)
  BY DEF Injection, IsInjective
<1>3. Cardinality(0..Window) <= Cardinality(S)
  BY <1>1, <1>2, RowsCounted, FS_Injection
<1>4. QED
  BY <1>1, <1>3, RowsCounted

(* What is visible has one row, written at a moment that is past.          *)
LEMMA VisibleRow ==
  ASSUME FeedTypeOK, RowsOK, NEW e \in Visible
  PROVE  /\ e \in Ids /\ At(e) \in 0..minute /\ At(e) \in Minutes
         /\ \E r \in [at : Minutes, visible : BOOLEAN] : rows[e] = {r} /\ r.visible /\ At(e) = r.at
<1>1. PICK r \in rows[e] : r.visible
  BY DEF Visible
<1>2. e \in Ids
  BY DEF Visible
<1>3. rows[e] = {r} /\ r \in [at : Minutes, visible : BOOLEAN] /\ r.at <= minute
  BY <1>1, <1>2 DEF RowsOK, FeedTypeOK
<1>4. At(e) = r.at
  BY <1>3 DEF At
<1>5. r.at \in Minutes /\ minute \in Minutes /\ r.at \in 0..minute
  BY <1>3, FeedConstants DEF FeedTypeOK, Minutes
<1>6. QED
  BY <1>1, <1>2, <1>3, <1>4, <1>5

(* A crowd stays one as rows come.                                         *)
LEMMA CrowdStays ==
  ASSUME FeedTypeOK, FeedTypeOK', Visible \subseteq Visible', \A e \in Visible : At(e)' = At(e),
         NEW from \in Int, Crowded(from)
  PROVE  Crowded(from)'
<1>1. Since(from - OverlapTime) \subseteq Since(from - OverlapTime)'
  BY DEF Since
<1>2. Since(from - OverlapTime)' \in SUBSET Ids
  BY DEF Since, Visible
<1>3. Cardinality(Since(from - OverlapTime)) <= Cardinality(Since(from - OverlapTime)')
  BY <1>1, <1>2, RowsCounted
<1>4. Cardinality(Since(from - OverlapTime)) \in Nat /\ Cardinality(Since(from - OverlapTime)') \in Nat
  BY <1>1, <1>2, RowsCounted
<1>5. QED
  BY <1>3, <1>4, FeedConstants DEF Crowded

(* The end of a sequence, from a place on.                                 *)
LEMMA EndOf ==
  ASSUME NEW S, NEW s \in Seq(S), NEW m \in Int, 1 <= m, m <= Len(s) + 1
  PROVE  /\ SubSeq(s, m, Len(s)) \in Seq(S) /\ Len(SubSeq(s, m, Len(s))) = Len(s) - (m - 1)
         /\ \A i \in 1..Len(s) - (m - 1) : SubSeq(s, m, Len(s))[i] = s[i + (m - 1)]
<1>1. Len(s) \in Int /\ Len(s) >= 0 /\ \A i \in 1..Len(s) : s[i] \in S
  BY LenProperties, ElementOfSeq
<1>2. \A i \in m..Len(s) : s[i] \in S
  BY <1>1
<1> DEFINE t == SubSeq(s, m, Len(s))
<1>3. /\ t \in Seq(S) /\ Len(t) = (IF m <= Len(s) THEN Len(s) - m + 1 ELSE 0)
      /\ \A i \in 1..Len(s) - m + 1 : t[i] = s[m + i - 1]
  BY <1>1, <1>2, SubSeqProperties
<1> HIDE DEF t
<1>4. Len(t) = Len(s) - (m - 1)
  BY <1>1, <1>3
<1>5. ASSUME NEW i \in 1..Len(s) - (m - 1) PROVE t[i] = s[i + (m - 1)]
  <2>1. i \in 1..Len(s) - m + 1 /\ m + i - 1 = i + (m - 1)
    BY <1>1
  <2>2. t[i] = s[m + i - 1]
    BY <1>3, <2>1
  <2>3. QED
    BY <2>1, <2>2
<1>6. QED
  BY <1>3, <1>4, <1>5 DEF t

(* The newest of a sequence are what is left of it without its first ones. *)
LEMMA NewestAre ==
  ASSUME NEW S, NEW s \in Seq(S), NEW n \in Nat
  PROVE  \E k \in 0..Len(s) :
           /\ Newest(s, n) \in Seq(S) /\ Len(Newest(s, n)) = Len(s) - k
           /\ \A i \in 1..Len(s) - k : Newest(s, n)[i] = s[i + k]
           /\ k = IF Len(s) > n THEN Len(s) - n ELSE 0
<1>1. Len(s) \in Nat
  BY LenProperties
<1> DEFINE m == IF Len(s) > n THEN Len(s) - n + 1 ELSE 1
           k == m - 1
<1>2. m \in Int /\ 1 <= m /\ m <= Len(s) + 1 /\ k \in 0..Len(s) /\ k = IF Len(s) > n THEN Len(s) - n ELSE 0
  BY <1>1
<1>3. Newest(s, n) = SubSeq(s, m, Len(s))
  BY DEF Newest
<1> HIDE DEF m
<1>4. /\ SubSeq(s, m, Len(s)) \in Seq(S) /\ Len(SubSeq(s, m, Len(s))) = Len(s) - (m - 1)
      /\ \A i \in 1..Len(s) - (m - 1) : SubSeq(s, m, Len(s))[i] = s[i + (m - 1)]
  BY <1>2, EndOf
<1>5. QED
  BY <1>2, <1>3, <1>4

Memory == [id : Ids, since : Minutes]

(* What is kept is the end of what is remembered: what went before it was  *)
(* old, or the rest fills the window.                                      *)
LEMMA KeptAre ==
  ASSUME NEW s \in Seq(Memory), minute \in Minutes
  PROVE  \E k \in 0..Len(s) :
           /\ Kept(s) \in Seq(Memory) /\ Len(Kept(s)) = Len(s) - k /\ Len(Kept(s)) < SeenLimit
           /\ \A i \in 1..Len(s) - k : Kept(s)[i] = s[i + k]
           /\ \/ \A i \in 1..k : s[i].since < minute - Retention
              \/ Len(Kept(s)) = Window
<1> DEFINE young == {i \in DOMAIN s : s[i].since >= minute - Retention}
           recent == IF young = {} THEN <<>> ELSE SubSeq(s, Min(young), Len(s))
<1>1. Len(s) \in Nat /\ DOMAIN s = 1..Len(s) /\ \A i \in 1..Len(s) : s[i] \in Memory /\ s[i].since \in Int
  <2>1. Len(s) \in Nat /\ DOMAIN s = 1..Len(s) /\ \A i \in 1..Len(s) : s[i] \in Memory
    BY LenProperties, ElementOfSeq
  <2>2. \A x \in Memory : x.since \in Int
    BY DEF Memory, Minutes
  <2>3. QED
    BY <2>1, <2>2
<1>0. minute - Retention \in Int
  BY FeedConstants DEF Minutes
<1>2. \E k \in 0..Len(s) :
        /\ recent \in Seq(Memory) /\ Len(recent) = Len(s) - k
        /\ \A i \in 1..Len(s) - k : recent[i] = s[i + k]
        /\ \A i \in 1..k : s[i].since < minute - Retention
  <2>1. CASE young = {}
    <3>1. recent = <<>> /\ <<>> \in Seq(Memory) /\ Len(<<>>) = 0
      BY <2>1
    <3>2. \A i \in 1..Len(s) : s[i].since < minute - Retention
      BY <1>0, <1>1, <2>1
    <3> HIDE DEF recent
    <3>3. Len(s) \in 0..Len(s) /\ Len(recent) = Len(s) - Len(s) /\ 1..Len(s) - Len(s) = {}
      BY <1>1, <3>1
    <3>4. QED
      BY <3>1, <3>2, <3>3
  <2>2. CASE young # {}
    <3> DEFINE m == Min(young)
    <3>1. young \in SUBSET Nat
      BY <1>1
    <3>2. m \in young /\ \A i \in young : m <= i
      <4>1. \E x \in young : \A y \in young : x <= y
        <5> HIDE DEF young
        <5>1. QED
          BY <2>2, <3>1, Least
      <4>2. QED
        BY <4>1 DEF Min
    <3> HIDE DEF m
    <3>3. m \in 1..Len(s)
      BY <1>1, <3>2
    <3>4. recent = SubSeq(s, m, Len(s))
      BY <2>2 DEF m
    <3>5. m \in Int /\ 1 <= m /\ m <= Len(s) + 1 /\ m - 1 \in 0..Len(s)
      BY <1>1, <3>3
    <3>6. \A i \in 1..m - 1 : s[i].since < minute - Retention
      <4>1. SUFFICES ASSUME NEW i \in 1..m - 1 PROVE s[i].since < minute - Retention
        OBVIOUS
      <4>2. i \in 1..Len(s) /\ ~(m <= i)
        BY <1>1, <3>3
      <4>3. i \notin young
        BY <3>2, <4>2
      <4>4. QED
        BY <1>0, <1>1, <4>2, <4>3
    <3>7. /\ SubSeq(s, m, Len(s)) \in Seq(Memory) /\ Len(SubSeq(s, m, Len(s))) = Len(s) - (m - 1)
          /\ \A i \in 1..Len(s) - (m - 1) : SubSeq(s, m, Len(s))[i] = s[i + (m - 1)]
      BY <3>5, EndOf
    <3> HIDE DEF recent
    <3>8. QED
      BY <3>4, <3>5, <3>6, <3>7
  <2>3. QED
    BY <2>1, <2>2
<1>3. Kept(s) = IF Len(recent) >= SeenLimit THEN Newest(recent, Window) ELSE recent
  BY DEF Kept
<1> HIDE DEF young, recent
<1>4. PICK k \in 0..Len(s) :
        /\ recent \in Seq(Memory) /\ Len(recent) = Len(s) - k
        /\ \A i \in 1..Len(s) - k : recent[i] = s[i + k]
        /\ \A i \in 1..k : s[i].since < minute - Retention
  BY <1>2
<1>5. CASE Len(recent) >= SeenLimit
  <2>1. Kept(s) = Newest(recent, Window)
    BY <1>3, <1>5
  <2>2. PICK l \in 0..Len(recent) :
           /\ Newest(recent, Window) \in Seq(Memory) /\ Len(Newest(recent, Window)) = Len(recent) - l
           /\ \A i \in 1..Len(recent) - l : Newest(recent, Window)[i] = recent[i + l]
           /\ l = IF Len(recent) > Window THEN Len(recent) - Window ELSE 0
    BY <1>4, FeedConstants, NewestAre
  <2>3. Len(recent) \in Nat /\ l \in Nat /\ k \in Nat /\ Len(recent) > Window /\ l = Len(recent) - Window
    <3>1. Len(recent) \in Nat /\ k \in Nat
      BY <1>1, <1>4
    <3>2. Len(recent) > Window
      BY <1>5, <3>1, FeedConstants
    <3>3. l = Len(recent) - Window
      BY <2>2, <3>2
    <3>4. QED
      BY <3>1, <3>2, <3>3, FeedConstants
  <2>4. k + l \in 0..Len(s) /\ Len(Newest(recent, Window)) = Len(s) - (k + l) /\ Len(Newest(recent, Window)) = Window
    BY <1>1, <1>4, <2>2, <2>3, FeedConstants
  <2>5. ASSUME NEW i \in 1..Len(s) - (k + l) PROVE Newest(recent, Window)[i] = s[i + (k + l)]
    <3>1. i \in 1..Len(recent) - l /\ i + l \in 1..Len(s) - k /\ (i + l) + k = i + (k + l)
      BY <1>1, <1>4, <2>2, <2>3
    <3>2. Newest(recent, Window)[i] = recent[i + l] /\ recent[i + l] = s[(i + l) + k]
      BY <1>4, <2>2, <3>1
    <3>3. QED
      BY <3>1, <3>2
  <2>6. QED
    BY <2>1, <2>2, <2>4, <2>5, FeedConstants
<1>6. CASE ~(Len(recent) >= SeenLimit)
  <2>1. Kept(s) = recent
    BY <1>3, <1>6
  <2>2. Len(recent) < SeenLimit
    BY <1>1, <1>4, <1>6, FeedConstants
  <2>3. QED
    BY <1>4, <2>1, <2>2
<1>7. QED
  BY <1>5, <1>6

(* The rows in order of time, each once.                                   *)
LEMMA InTime ==
  ASSUME NEW S \in SUBSET Ids, NEW found \in ByTime(S)
  PROVE  /\ found \in Seq(S) /\ Len(found) = Cardinality(S) /\ Len(found) \in Nat
         /\ \A i, j \in 1..Len(found) : found[i] = found[j] => i = j
         /\ \A e \in S : \E i \in 1..Len(found) : found[i] = e
         /\ \A i, j \in 1..Len(found) : i < j => Before(found[i], found[j])
<1> DEFINE n == Cardinality(S)
<1>1. n \in Nat /\ IsFiniteSet(S) /\ IsFiniteSet(1..n) /\ Cardinality(1..n) = n
  <2>1. n \in Nat /\ IsFiniteSet(S)
    BY RowsCounted
  <2>2. IsFiniteSet(1..n) /\ Cardinality(1..n) = IF 1 > n THEN 0 ELSE n - 1 + 1
    BY <2>1, FS_Interval
  <2>3. QED
    BY <2>1, <2>2
<1>2. /\ found \in [1..n -> S] /\ \A i, j \in 1..n : i # j => found[i] # found[j]
      /\ \A i, j \in DOMAIN found : i < j => Before(found[i], found[j])
  BY DEF ByTime, SetToSeqs
<1>3. found \in Injection(1..n, S)
  BY <1>2 DEF Injection, IsInjective
<1> HIDE DEF n
<1>4. found \in Surjection(1..n, S)
  BY <1>1, <1>3, FS_Injection DEF n
<1>5. found \in Seq(S) /\ Len(found) = n
  <2>1. found \in Seq(S)
    BY <1>1, <1>2, SeqDef
  <2>2. DOMAIN found = 1..Len(found) /\ Len(found) \in Nat
    BY <2>1, LenProperties
  <2>3. QED
    BY <1>1, <1>2, <2>1, <2>2
<1>6. \A e \in S : \E i \in 1..n : found[i] = e
  BY <1>4 DEF Surjection
<1>7. DOMAIN found = 1..n
  BY <1>2
<1>8. QED
  BY <1>1, <1>2, <1>5, <1>6, <1>7 DEF n

(* What the page remembers of a moment.                                    *)
LEMMA Remembered ==
  ASSUME NEW es \in Seq(Ids), minute \in Minutes
  PROVE  /\ Remember(es) \in Seq(Memory) /\ Len(Remember(es)) = Len(es) /\ Len(es) \in Nat
         /\ \A i \in 1..Len(es) : Remember(es)[i].id = es[i] /\ Remember(es)[i].since = minute
<1>1. Len(es) \in Nat /\ DOMAIN es = 1..Len(es) /\ \A i \in 1..Len(es) : es[i] \in Ids
  BY LenProperties, ElementOfSeq
<1>2. Remember(es) = [i \in 1..Len(es) |-> [id |-> es[i], since |-> minute]]
  BY <1>1 DEF Remember
<1>3. \A i \in 1..Len(es) : [id |-> es[i], since |-> minute] \in Memory
  BY <1>1 DEF Memory
<1>4. Remember(es) \in [1..Len(es) -> Memory]
  BY <1>2, <1>3
<1>5. Remember(es) \in Seq(Memory)
  BY <1>1, <1>4, SeqDef
<1>6. Len(Remember(es)) = Len(es)
  <2> DEFINE r == Remember(es)
             n == Len(es)
             m == Len(r)
  <2>1. DOMAIN r = 1..m /\ m \in Nat /\ DOMAIN r = 1..n /\ n \in Nat
    BY <1>1, <1>4, <1>5, LenProperties
  <2> HIDE DEF m, n, r
  <2>2. 1..m = 1..n
    BY <2>1
  <2>3. m = n
    BY <2>1, <2>2
  <2>4. QED
    BY <2>3 DEF m, n, r
<1>7. QED
  BY <1>1, <1>2, <1>5, <1>6

(* The types, field by field.                                              *)
LEMMA PageTypes ==
  ASSUME FeedTypeOK
  PROVE  /\ minute \in Minutes /\ minute \in Nat /\ page.at \in Minutes /\ page.at \in Nat /\ page.id \in 0..MaxRows + 1
         /\ page.opened \in SUBSET Minutes /\ page.seen \in Seq(Memory) /\ Len(page.seen) \in Nat
         /\ DOMAIN page.seen = 1..Len(page.seen)
         /\ \A i \in 1..Len(page.seen) : page.seen[i].id \in Ids /\ page.seen[i].since \in Nat
         /\ page.notified \in SUBSET Ids /\ page.known \in SUBSET Ids /\ page.read \in SUBSET Ids
         /\ page.stale \in SUBSET Ids /\ page.again \in SUBSET Minutes
         /\ page.more \in BOOLEAN /\ page.drained \in BOOLEAN /\ Visible \in SUBSET Ids
<1>1. /\ minute \in Minutes /\ page.at \in Minutes /\ page.id \in 0..MaxRows + 1
      /\ page.opened \in SUBSET Minutes /\ page.seen \in Seq(Memory)
      /\ page.notified \in SUBSET Ids /\ page.known \in SUBSET Ids /\ page.read \in SUBSET Ids
      /\ page.stale \in SUBSET Ids /\ page.again \in SUBSET Minutes
      /\ page.more \in BOOLEAN /\ page.drained \in BOOLEAN
  BY DEF FeedTypeOK, Memory
<1>2. Len(page.seen) \in Nat /\ DOMAIN page.seen = 1..Len(page.seen) /\ \A i \in 1..Len(page.seen) : page.seen[i] \in Memory
  BY <1>1, LenProperties, ElementOfSeq
<1>3. \A x \in Memory : x.id \in Ids /\ x.since \in Nat
  BY FeedConstants DEF Memory, Minutes
<1>4. Minutes \in SUBSET Nat
  BY FeedConstants DEF Minutes
<1>5. QED
  BY <1>1, <1>2, <1>3, <1>4 DEF Visible

(* The numbers of what is visible.                                         *)
LEMMA Dates ==
  ASSUME FeedTypeOK, RowsOK
  PROVE  \A e \in Visible : e \in Ids /\ At(e) \in 0..minute /\ At(e) \in Minutes /\ At(e) \in Nat
  BY VisibleRow, PageTypes

Grown == Visible \subseteq Visible' /\ \A e \in Visible : At(e)' = At(e)

(* A new row leaves all others, and what is visible, as they were.         *)
LEMMA CreateRowGrows ==
  ASSUME FeedTypeOK, RowsOK, CreateRow
  PROVE  RowsOK' /\ Grown /\ Visible' = Visible /\ rows' \in [Ids -> SUBSET [at : Minutes, visible : BOOLEAN]]
<1>1. PICK e \in Ids : rows[e] = {} /\ rows' = [rows EXCEPT ![e] = {[at |-> minute, visible |-> FALSE]}]
                       /\ minute' = minute
  BY DEF CreateRow
<1> DEFINE new == [at |-> minute, visible |-> FALSE]
<1>2. new \in [at : Minutes, visible : BOOLEAN] /\ new.at = minute /\ new.visible = FALSE
  BY DEF FeedTypeOK
<1> HIDE DEF new
<1>3. rows'[e] = {new} /\ (\A d \in Ids : d # e => rows'[d] = rows[d]) /\ DOMAIN rows' = Ids
      /\ rows' \in [Ids -> SUBSET [at : Minutes, visible : BOOLEAN]]
  BY <1>1, <1>2 DEF FeedTypeOK, new
<1>4. Visible' = Visible
  BY <1>1, <1>2, <1>3 DEF Visible
<1>5. \A d \in Visible : rows'[d] = rows[d]
  BY <1>1, <1>3 DEF Visible
<1>6. \A d \in Visible : At(d)' = At(d)
  BY <1>5 DEF At
<1>7. RowsOK'
  <2>1. SUFFICES ASSUME NEW d \in Ids, NEW r \in rows'[d]
                 PROVE  /\ \A q \in rows'[d] : q = r
                        /\ r.at <= minute' /\ (~r.visible => minute' <= r.at + CommitDelay)
    BY DEF RowsOK
  <2>2. CASE d = e
    <3>1. r = new
      BY <1>3, <2>2
    <3>2. QED
      BY <1>1, <1>2, <1>3, <2>2, <3>1, FeedConstants, PageTypes
  <2>3. CASE d # e
    BY <1>1, <1>3, <2>3 DEF RowsOK
  <2>4. QED
    BY <2>2, <2>3
<1>8. QED
  BY <1>3, <1>4, <1>6, <1>7 DEF Grown

(* A row that becomes visible is hardly older than a transaction lives.    *)
LEMMA CommitRowGrows ==
  ASSUME FeedTypeOK, RowsOK, CommitRow
  PROVE  /\ RowsOK' /\ Grown /\ \A d \in Visible' \ Visible : minute <= At(d)' + CommitDelay
         /\ rows' \in [Ids -> SUBSET [at : Minutes, visible : BOOLEAN]]
<1>1. PICK e \in Ids : \E r \in rows[e] : ~r.visible /\ rows' = [rows EXCEPT ![e] = {[r EXCEPT !.visible = TRUE]}]
                       /\ minute' = minute
  BY DEF CommitRow
<1>2. PICK r \in rows[e] : ~r.visible /\ rows' = [rows EXCEPT ![e] = {[r EXCEPT !.visible = TRUE]}]
  BY <1>1
<1> DEFINE new == [r EXCEPT !.visible = TRUE]
<1>3. r \in [at : Minutes, visible : BOOLEAN]
  BY DEF FeedTypeOK
<1>4. new \in [at : Minutes, visible : BOOLEAN] /\ new.at = r.at /\ new.visible
  BY <1>3
<1> HIDE DEF new
<1>5. rows'[e] = {new} /\ (\A d \in Ids : d # e => rows'[d] = rows[d])
      /\ rows' \in [Ids -> SUBSET [at : Minutes, visible : BOOLEAN]]
  BY <1>2, <1>4 DEF FeedTypeOK, new
<1>6. e \notin Visible
  BY <1>2 DEF Visible, RowsOK
<1>7. Visible' = Visible \cup {e}
  BY <1>4, <1>5 DEF Visible
<1>8. \A d \in Visible : rows'[d] = rows[d]
  <2>1. \A d \in Visible : d \in Ids /\ d # e
    BY <1>6 DEF Visible
  <2>2. QED
    BY <1>5, <2>1
<1>9. \A d \in Visible : At(d)' = At(d)
  BY <1>8 DEF At
<1>10. At(e)' = r.at /\ r.at <= minute /\ minute <= r.at + CommitDelay
  <2>1. At(e)' = new.at
    BY <1>5 DEF At
  <2>2. QED
    BY <1>2, <1>4, <2>1 DEF RowsOK
<1>11. RowsOK'
  <2>1. SUFFICES ASSUME NEW d \in Ids, NEW q \in rows'[d]
                 PROVE  /\ \A p \in rows'[d] : p = q
                        /\ q.at <= minute' /\ (~q.visible => minute' <= q.at + CommitDelay)
    BY DEF RowsOK
  <2>2. CASE d = e
    <3>1. q = new /\ \A p \in rows'[d] : p = new
      BY <1>5, <2>2
    <3>2. QED
      BY <1>1, <1>4, <1>10, <3>1
  <2>3. CASE d # e
    BY <1>1, <1>5, <2>3 DEF RowsOK
  <2>4. QED
    BY <2>2, <2>3
<1>12. QED
  BY <1>5, <1>7, <1>9, <1>10, <1>11 DEF Grown

(* A minute that passes leaves the rows as they were.                      *)
LEMMA TickGrows ==
  ASSUME FeedTypeOK, RowsOK, Tick
  PROVE  RowsOK' /\ Grown /\ Visible' = Visible /\ rows' = rows /\ minute' \in Minutes
<1>1. /\ minute < MaxMinute /\ minute' = minute + 1 /\ rows' = rows
      /\ \A e \in Ids : \A r \in rows[e] : ~r.visible => minute < r.at + CommitDelay
  BY DEF Tick
<1>2. Grown /\ Visible' = Visible
  BY <1>1 DEF Grown, Visible, At
<1>3. minute \in Nat /\ minute' \in Minutes
  BY <1>1, FeedConstants, PageTypes DEF Minutes
<1>4. ASSUME NEW e \in Ids, NEW r \in rows[e]
      PROVE  /\ \A q \in rows[e] : q = r
             /\ r.at <= minute + 1 /\ (~r.visible => minute + 1 <= r.at + CommitDelay)
  <2>1. r.at \in Minutes /\ r.at \in Nat
    BY FeedConstants DEF FeedTypeOK, Minutes
  <2>2. (\A q \in rows[e] : q = r) /\ r.at <= minute
    BY DEF RowsOK
  <2>3. ~r.visible => minute < r.at + CommitDelay
    BY <1>1
  <2>4. QED
    BY <1>3, <2>1, <2>2, <2>3, FeedConstants
<1>5. RowsOK'
  BY <1>1, <1>4 DEF RowsOK
<1>6. QED
  BY <1>1, <1>2, <1>3, <1>5

(* Excuses stay, and what the page remembers is still visible.             *)
LEMMA ExcuseStays ==
  ASSUME FeedTypeOK, FeedTypeOK', Grown, minute <= minute', NEW o \in Minutes, Excused(o)
  PROVE  Excused(o)'
<1>1. o \in Int /\ minute \in Int /\ minute' \in Int /\ o + Retention \in Int
  BY FeedConstants DEF FeedTypeOK, Minutes
<1>2. CASE Crowded(o)
  BY <1>1, <1>2, CrowdStays DEF Grown, Excused
<1>3. CASE minute > o + Retention
  BY <1>1, <1>3 DEF Excused
<1>4. QED
  BY <1>2, <1>3 DEF Excused

(* Steps that leave the cursor and the memory of the page alone.           *)
LEMMA CalmStep ==
  ASSUME FeedInv, FeedTypeOK', RowsOK', Grown, minute <= minute', minute' # minute => ~page.more,
         page'.opened = page.opened, page'.at = page.at, page'.id = page.id, page'.seen = page.seen,
         page'.known = page.known, page'.read = page.read, page'.stale = page.stale, page'.again = page.again,
         page'.more = page.more, page.notified \subseteq page'.notified,
         page'.drained => page.drained /\ Visible' = Visible,
         \A d \in Visible' \ Visible : minute <= At(d)' + CommitDelay
  PROVE  FeedInv'
<1>1. /\ \A e \in Visible : e \in Visible' /\ e \in Ids /\ At(e) \in Nat /\ At(e)' = At(e)
      /\ \A e \in Visible' : e \in Ids /\ At(e)' \in Nat
      /\ minute \in Nat /\ minute' \in Nat /\ page.at \in Nat /\ page.id \in Int /\ Seen' = Seen
      /\ \A o \in page.opened : o \in Nat /\ o \in Minutes
  <2>1. /\ \A e \in Visible : e \in Ids /\ At(e) \in Nat
        /\ minute \in Nat /\ page.at \in Nat /\ page.id \in 0..MaxRows + 1 /\ page.opened \in SUBSET Minutes
    BY Dates, PageTypes DEF FeedInv
  <2>2. Minutes \subseteq Nat
    BY FeedConstants DEF Minutes
  <2>3. ASSUME NEW e \in Visible' PROVE e \in Ids /\ At(e)' \in Nat
    <3>1. PICK r \in rows'[e] : r.visible
      BY DEF Visible
    <3>2. e \in Ids
      BY DEF Visible
    <3>3. rows'[e] = {r} /\ r.at \in Minutes
      BY <3>1, <3>2 DEF RowsOK, FeedTypeOK
    <3>4. At(e)' = r.at
      BY <3>3 DEF At
    <3>5. QED
      BY <2>2, <3>2, <3>3, <3>4
  <2>4. minute' \in Nat
    BY <2>2 DEF FeedTypeOK
  <2>5. Seen' = Seen
    BY DEF Seen
  <2>6. page.id \in Int
    BY <2>1, FeedConstants
  <2>7. \A e \in Visible : e \in Visible' /\ At(e)' = At(e)
    BY DEF Grown
  <2>8. \A o \in page.opened : o \in Nat /\ o \in Minutes
    BY <2>1, <2>2
  <2>9. QED
    BY <2>1, <2>3, <2>4, <2>5, <2>6, <2>7, <2>8
<1>2. \A e \in Visible : e \in AfterCursor' <=> e \in AfterCursor
  BY <1>1 DEF AfterCursor
<1>3. ClosedOK'
  BY DEF FeedInv, ClosedOK
<1>4. CursorOK'
  BY <1>1 DEF FeedInv, CursorOK
<1>5. MemoryOK'
  <2>1. Len(page'.seen) < SeenLimit /\ \A i, j \in DOMAIN page'.seen : page'.seen[i].id = page'.seen[j].id => i = j
    BY DEF FeedInv, MemoryOK
  <2>2. ASSUME NEW i \in DOMAIN page.seen
        PROVE  /\ page.seen[i].id \in Visible' /\ page.seen[i].id \in page'.notified \cup page'.known
               /\ page.seen[i].since <= minute'
               /\ \A o \in page.opened : At(page.seen[i].id)' >= o - OverlapTime /\ page.seen[i].since >= o
    <3>1. /\ page.seen[i].id \in Visible /\ page.seen[i].id \in page.notified \cup page.known
          /\ page.seen[i].since <= minute /\ page.seen[i].since \in Nat
          /\ \A o \in page.opened : At(page.seen[i].id) >= o - OverlapTime /\ page.seen[i].since >= o
      BY PageTypes DEF FeedInv, MemoryOK
    <3>2. At(page.seen[i].id)' = At(page.seen[i].id)
      BY <3>1 DEF Grown
    <3>3. QED
      BY <1>1, <3>1, <3>2
  <2>3. QED
    BY <2>1, <2>2 DEF MemoryOK
<1>6. HeardOK'
  <2>1. ASSUME Opened, NEW e \in Visible'
        PROVE  e \in page'.notified \/ e \in page'.known \/ e \in AfterCursor' \/ At(e)' >= page.at - OverlapTime
    <3>1. CASE e \in Visible
      BY <1>1, <1>2, <2>1, <3>1 DEF FeedInv, HeardOK
    <3>2. CASE e \notin Visible
      <4>1. minute <= At(e)' + CommitDelay /\ At(e)' \in Nat
        BY <1>1, <3>2
      <4>2. page.at <= minute
        BY <2>1 DEF FeedInv, CursorOK, Opened
      <4>3. QED
        BY <1>1, <4>1, <4>2, FeedConstants
    <3>3. QED
      BY <3>1, <3>2
  <2>2. QED
    BY <2>1 DEF HeardOK, Opened
<1>7. ReadOK'
  <2>1. (~page.more => page.read = {}) /\ (page.read \subseteq Seen \/ Cardinality(page.read) > Window)
    BY DEF FeedInv, ReadOK
  <2>2. \A e \in page.read : e \in Visible' /\ At(e)' >= page.at - OverlapTime
    BY <1>1 DEF FeedInv, ReadOK
  <2>3. \A i \in DOMAIN page.seen : page.seen[i].id \in page.read =>
          page.seen[i].since = minute' /\ \A j \in DOMAIN page.seen : i < j => page.seen[j].id \in page.read
    BY <2>1 DEF FeedInv, ReadOK
  <2>4. QED
    BY <1>1, <2>1, <2>2, <2>3 DEF ReadOK
<1>8. KnownOK'
  <2>1. ASSUME NEW o \in page.opened
        PROVE  /\ \A e \in page.known : e \in Visible' /\ e \notin AfterCursor'
               /\ Excused(o)' \/ (page.stale = {} /\ \A e \in page.known : At(e)' >= o - OverlapTime => e \in Seen)
    <3>1. \A e \in page.known : e \in Visible /\ e \notin AfterCursor
      BY DEF FeedInv, KnownOK
    <3>2. Excused(o) => Excused(o)'
      BY <1>1, ExcuseStays DEF FeedInv
    <3>3. Excused(o) \/ (page.stale = {} /\ \A e \in page.known : At(e) >= o - OverlapTime => e \in Seen)
      BY DEF FeedInv, KnownOK
    <3>4. QED
      BY <1>1, <1>2, <3>1, <3>2, <3>3
  <2> DEFINE Ex(o) == Excused(o)'
  <2>2. \A o \in page.opened :
               /\ \A e \in page.known : e \in Visible' /\ e \notin AfterCursor'
               /\ Ex(o) \/ (page.stale = {} /\ \A e \in page.known : At(e)' >= o - OverlapTime => e \in Seen)
    BY <2>1
  <2>3. QED
    BY <1>1, <2>2 DEF KnownOK
<1>9. Circles'
  <2>1. ASSUME NEW at \in page.again PROVE Crowded(at)'
    <3>1. Crowded(at) /\ at \in Int
      BY FeedConstants, PageTypes DEF FeedInv, Circles, Minutes
    <3>2. QED
      BY <3>1, CrowdStays DEF Grown, FeedInv
  <2>2. QED
    BY <2>1 DEF Circles
<1>10. Drained'
  BY DEF FeedInv, Drained
<1>11. QED
  BY <1>3, <1>4, <1>5, <1>6, <1>7, <1>8, <1>9, <1>10 DEF FeedInv

(* The first state satisfies the invariant of the feed.                    *)
LEMMA FeedInvInit == FeedInit => FeedInv
<1> SUFFICES ASSUME FeedInit PROVE FeedInv
  OBVIOUS
<1>1. /\ minute = 0 /\ rows = [e \in Ids |-> {}]
      /\ page = [opened |-> {}, at |-> 0, id |-> 0, seen |-> <<>>, notified |-> {}, known |-> {},
                 read |-> {}, stale |-> {}, again |-> {}, more |-> FALSE, drained |-> FALSE]
  BY DEF FeedInit
<1>2. /\ page.opened = {} /\ page.seen = <<>> /\ page.notified = {} /\ page.known = {} /\ page.read = {}
      /\ page.stale = {} /\ page.again = {} /\ page.more = FALSE /\ page.drained = FALSE
  BY <1>1
<1>3. Visible = {}
  BY <1>1 DEF Visible
<1>4. FeedTypeOK
  <2>1. 0 \in Minutes /\ 0 \in 0..MaxRows + 1
    BY FeedConstants DEF Minutes
  <2>2. <<>> \in Seq([id : Ids, since : Minutes]) /\ DOMAIN <<>> = {}
    OBVIOUS
  <2>3. rows \in [Ids -> SUBSET [at : Minutes, visible : BOOLEAN]]
    BY <1>1
  <2>4. page \in [opened : SUBSET Minutes, at : Minutes, id : 0..MaxRows + 1,
               seen : Seq([id : Ids, since : Minutes]), notified : SUBSET Ids, known : SUBSET Ids,
               read : SUBSET Ids, stale : SUBSET Ids, again : SUBSET Minutes,
               more : BOOLEAN, drained : BOOLEAN]
    BY <1>1, <2>1, <2>2
  <2>5. QED
    BY <1>1, <1>2, <2>1, <2>2, <2>3, <2>4 DEF FeedTypeOK
<1>5. RowsOK /\ ClosedOK /\ CursorOK /\ HeardOK /\ KnownOK /\ Circles /\ Drained
  BY <1>1, <1>2, <1>3 DEF RowsOK, ClosedOK, CursorOK, HeardOK, Opened, KnownOK, Circles, Drained
<1>6. MemoryOK /\ ReadOK
  <2>1. DOMAIN page.seen = {} /\ Len(page.seen) = 0
    BY <1>2
  <2>2. QED
    BY <1>2, <2>1, FeedConstants DEF MemoryOK, ReadOK
<1>7. QED
  BY <1>4, <1>5, <1>6 DEF FeedInv

(* The store, the clock and the channel.                                   *)
LEMMA StoreKeeps ==
  ASSUME FeedInv, CreateRow \/ CommitRow \/ Tick
  PROVE  FeedInv'
<1>1. FeedTypeOK /\ RowsOK
  BY DEF FeedInv
<1>2. CASE CreateRow
  <2>1. RowsOK' /\ Grown /\ Visible' = Visible /\ rows' \in [Ids -> SUBSET [at : Minutes, visible : BOOLEAN]]
    BY <1>1, <1>2, CreateRowGrows
  <2>2. minute' = minute /\ page' = page
    BY <1>2 DEF CreateRow
  <2>3. FeedTypeOK'
    BY <1>1, <2>1, <2>2 DEF FeedTypeOK
  <2>4. QED
    BY <1>1, <2>1, <2>2, <2>3, CalmStep, PageTypes
<1>3. CASE CommitRow
  <2>1. /\ RowsOK' /\ Grown /\ \A d \in Visible' \ Visible : minute <= At(d)' + CommitDelay
        /\ rows' \in [Ids -> SUBSET [at : Minutes, visible : BOOLEAN]]
    BY <1>1, <1>3, CommitRowGrows
  <2>2. minute' = minute /\ page' = [page EXCEPT !.drained = FALSE]
    BY <1>3 DEF CommitRow
  <2>3. FeedTypeOK' /\ page'.drained = FALSE
        /\ page'.opened = page.opened /\ page'.at = page.at /\ page'.id = page.id /\ page'.seen = page.seen
        /\ page'.known = page.known /\ page'.read = page.read /\ page'.stale = page.stale /\ page'.again = page.again
        /\ page'.more = page.more /\ page'.notified = page.notified
    BY <1>1, <2>1, <2>2 DEF FeedTypeOK
  <2>4. minute <= minute
    BY <1>1, PageTypes
  <2>5. QED
    BY <2>1, <2>2, <2>3, <2>4, CalmStep
<1>4. CASE Tick
  <2>1. RowsOK' /\ Grown /\ Visible' = Visible /\ rows' = rows /\ minute' \in Minutes
    BY <1>1, <1>4, TickGrows
  <2>2. minute' = minute + 1 /\ page' = page /\ ~page.more
    BY <1>4 DEF Tick
  <2>3. FeedTypeOK'
    BY <1>1, <2>1, <2>2 DEF FeedTypeOK
  <2>4. minute <= minute'
    BY <1>1, <2>2, PageTypes
  <2>5. QED
    BY <2>1, <2>2, <2>3, <2>4, CalmStep
<1>5. QED
  BY <1>2, <1>3, <1>4

(* Hearing of an order keeps the invariant of the feed.                    *)
LEMMA HearKeeps ==
  ASSUME FeedInv, HearOrder
  PROVE  FeedInv'
<1>1. PICK e \in Visible : page' = [page EXCEPT !.notified = Rung({e})]
  BY DEF HearOrder
<1>2. minute' = minute /\ rows' = rows
  BY DEF HearOrder
<1>3. FeedTypeOK /\ RowsOK /\ Rung({e}) \in SUBSET Ids /\ page.notified \subseteq Rung({e}) /\ minute <= minute
  BY PageTypes DEF FeedInv, Rung
<1>4. RowsOK' /\ Grown /\ Visible' = Visible
  BY <1>2, <1>3 DEF RowsOK, Grown, Visible, At
<1>5. FeedTypeOK' /\ page'.drained = page.drained /\ page'.notified = Rung({e})
        /\ page'.opened = page.opened /\ page'.at = page.at /\ page'.id = page.id /\ page'.seen = page.seen
        /\ page'.known = page.known /\ page'.read = page.read /\ page'.stale = page.stale /\ page'.again = page.again
        /\ page'.more = page.more
  BY <1>1, <1>2, <1>3 DEF FeedTypeOK
<1>6. QED
  BY <1>2, <1>3, <1>4, <1>5, CalmStep

(* The opening: nothing is new yet, and what is not remembered is a crowd. *)
LEMMA OpenKeeps ==
  ASSUME FeedInv, OpenPage
  PROVE  FeedInv'
<1> DEFINE recents == Since(minute - OverlapTime)
           limit == Min({SeenLimit, Window})
<1>1. PICK recent \in ByTime(recents) :
        page' = [page EXCEPT !.opened = {minute}, !.at = minute, !.id = MaxRows + 1, !.known = Visible,
                             !.seen = Remember(Newest(recent, limit))]
  BY DEF OpenPage
<1>2. minute' = minute /\ rows' = rows /\ page.opened = {}
  BY DEF OpenPage, Opened
<1>3. FeedTypeOK /\ RowsOK /\ recents \in SUBSET Ids /\ recents \subseteq Visible
      /\ \A e \in recents : At(e) >= minute - OverlapTime
  BY DEF FeedInv, Since, Visible
<1>4. limit = Window
  <2>1. \A y \in {SeenLimit, Window} : Window <= y
    BY FeedConstants
  <2>2. \A x \in {SeenLimit, Window} : (\A y \in {SeenLimit, Window} : x <= y) => x = Window
    BY FeedConstants
  <2>3. QED
    BY <2>1, <2>2 DEF Min
<1> HIDE DEF recents, limit
<1>5. /\ recent \in Seq(recents) /\ Len(recent) = Cardinality(recents) /\ Len(recent) \in Nat
      /\ \A i, j \in 1..Len(recent) : recent[i] = recent[j] => i = j
      /\ \A e \in recents : \E i \in 1..Len(recent) : recent[i] = e
  BY <1>3, InTime
<1> DEFINE newest == Newest(recent, Window)
<1>6. PICK k \in 0..Len(recent) :
           /\ newest \in Seq(recents) /\ Len(newest) = Len(recent) - k
           /\ \A i \in 1..Len(recent) - k : newest[i] = recent[i + k]
           /\ k = IF Len(recent) > Window THEN Len(recent) - Window ELSE 0
  BY <1>5, NewestAre, FeedConstants
<1> HIDE DEF newest
<1>7. newest \in Seq(Ids) /\ \A i \in 1..Len(newest) : newest[i] \in recents
  <2>1. Seq(recents) \subseteq Seq(Ids)
    BY <1>3
  <2>2. QED
    BY <1>6, <2>1, ElementOfSeq
<1> DEFINE seen == Remember(newest)
<1>8. minute \in Minutes /\ minute \in Nat
  BY <1>3, PageTypes
<1>9. /\ seen \in Seq(Memory) /\ Len(seen) = Len(newest) /\ Len(newest) \in Nat
      /\ \A i \in 1..Len(newest) : seen[i].id = newest[i] /\ seen[i].since = minute
  BY <1>7, <1>8, Remembered
<1> HIDE DEF seen
<1>10. DOMAIN seen = 1..Len(newest)
  BY <1>9, LenProperties
<1>11. page' = [page EXCEPT !.opened = {minute}, !.at = minute, !.id = MaxRows + 1, !.known = Visible, !.seen = seen]
  BY <1>1, <1>4 DEF newest, seen
<1>12. /\ page'.opened = {minute} /\ page'.at = minute /\ page'.id = MaxRows + 1 /\ page'.known = Visible /\ page'.seen = seen
       /\ page'.notified = page.notified /\ page'.read = page.read /\ page'.stale = page.stale /\ page'.again = page.again
       /\ page'.more = page.more /\ page'.drained = page.drained
       /\ page' \in [opened : SUBSET Minutes, at : Minutes, id : 0..MaxRows + 1,
               seen : Seq([id : Ids, since : Minutes]), notified : SUBSET Ids, known : SUBSET Ids,
               read : SUBSET Ids, stale : SUBSET Ids, again : SUBSET Minutes,
               more : BOOLEAN, drained : BOOLEAN]
  <2>1. MaxRows + 1 \in 0..MaxRows + 1 /\ Visible \in SUBSET Ids
    BY FeedConstants DEF Visible
  <2>2. QED
    BY <1>3, <1>8, <1>9, <1>11, <2>1 DEF FeedTypeOK, Memory
<1>13. page.read = {} /\ page.stale = {} /\ page.again = {} /\ ~page.more /\ ~page.drained
  BY <1>2 DEF FeedInv, ClosedOK
<1>14. FeedTypeOK'
  <2>1. \A i, j \in 1..Len(newest) : i < j => seen[i].since <= seen[j].since
    BY <1>8, <1>9
  <2>2. QED
    BY <1>2, <1>3, <1>10, <1>12, <2>1 DEF FeedTypeOK
<1>15. RowsOK' /\ Visible' = Visible /\ \A e \in Visible : At(e)' = At(e)
  BY <1>2, <1>3 DEF RowsOK, Visible, At
<1>16. ClosedOK' /\ CursorOK' /\ Circles' /\ Drained' /\ HeardOK'
  BY <1>2, <1>8, <1>12, <1>13, <1>15 DEF ClosedOK, CursorOK, Circles, Drained, HeardOK
<1>17. MemoryOK'
  <2>1. Len(newest) < SeenLimit
    BY <1>5, <1>6, FeedConstants
  <2>2. \A i, j \in 1..Len(newest) : seen[i].id = seen[j].id => i = j
    <3>1. SUFFICES ASSUME NEW i \in 1..Len(newest), NEW j \in 1..Len(newest), newest[i] = newest[j] PROVE i = j
      BY <1>9
    <3>2. i + k \in 1..Len(recent) /\ j + k \in 1..Len(recent) /\ i \in Int /\ j \in Int /\ k \in Int
      BY <1>5, <1>6
    <3>3. i \in 1..Len(recent) - k /\ j \in 1..Len(recent) - k
      BY <1>6
    <3>4. recent[i + k] = recent[j + k]
      BY <1>6, <3>1, <3>3
    <3>5. QED
      BY <1>5, <3>2, <3>4
  <2>3. \A i \in 1..Len(newest) : /\ seen[i].id \in Visible /\ seen[i].since <= minute
                                  /\ At(seen[i].id) >= minute - OverlapTime /\ seen[i].since >= minute
    BY <1>3, <1>7, <1>8, <1>9
  <2>4. QED
    BY <1>2, <1>9, <1>10, <1>12, <1>15, <2>1, <2>2, <2>3 DEF MemoryOK
<1>18. ReadOK'
  BY <1>12, <1>13 DEF ReadOK
<1>19. KnownOK'
  <2>1. ASSUME NEW e \in Visible PROVE e \notin AfterCursor'
    <3>1. At(e) \in 0..minute /\ e \in 1..MaxRows
      BY <1>3, Dates DEF Ids
    <3>2. ~(At(e)' > page'.at) /\ ~(e > page'.id)
      BY <1>8, <1>12, <1>15, <3>1, FeedConstants
    <3>3. QED
      BY <3>2 DEF AfterCursor
  <2>2. CASE k = 0
    <3>1. ASSUME NEW e \in Visible, At(e) >= minute - OverlapTime PROVE e \in Seen'
      <4>1. e \in recents
        BY <3>1 DEF recents, Since
      <4>2. PICK i \in 1..Len(recent) : recent[i] = e
        BY <1>5, <4>1
      <4>3. i \in 1..Len(newest) /\ i \in 1..Len(recent) - k /\ i + k = i
        BY <1>5, <1>6, <2>2
      <4>4. seen[i].id = e
        BY <1>6, <1>9, <4>2, <4>3
      <4>5. QED
        BY <1>10, <1>12, <4>3, <4>4 DEF Seen
    <3>2. QED
      BY <1>12, <1>13, <1>15, <2>1, <3>1 DEF KnownOK
  <2>3. CASE k # 0
    <3>1. Cardinality(recents) > Window
      BY <1>5, <1>6, <2>3, FeedConstants
    <3>2. Since(minute - OverlapTime)' = recents
      BY <1>2, <1>15 DEF Since, recents
    <3>3. Crowded(minute)'
      BY <1>2, <3>1, <3>2 DEF Crowded, recents
    <3>4. QED
      BY <1>2, <1>12, <1>15, <2>1, <3>3 DEF KnownOK, Excused
  <2>4. QED
    BY <2>2, <2>3
<1>20. QED
  BY <1>14, <1>15, <1>16, <1>17, <1>18, <1>19 DEF FeedInv

(* One page of the rows that are found: the first of them, and what is left*)
(* out comes after.                                                        *)
LEMMA OnePage ==
  ASSUME NEW S \in SUBSET Ids, NEW found \in ByTime(S)
  PROVE  /\ Len(FirstPage(found)) \in Nat /\ FirstPage(found) \in Seq(S)
         /\ ToSet(FirstPage(found)) = {FirstPage(found)[i] : i \in 1..Len(FirstPage(found))}
         /\ ToSet(FirstPage(found)) \in SUBSET S
         /\ \A i, j \in 1..Len(FirstPage(found)) : FirstPage(found)[i] = FirstPage(found)[j] => i = j
         /\ Last(FirstPage(found)) = FirstPage(found)[Len(FirstPage(found))]
         /\ \A e \in S : e \notin ToSet(FirstPage(found)) =>
              /\ Len(found) > PageSize /\ Len(FirstPage(found)) > 0
              /\ Before(FirstPage(found)[Len(FirstPage(found))], e)
<1> DEFINE m == IF Len(found) > PageSize THEN PageSize ELSE Len(found)
           taken == FirstPage(found)
<1>1. /\ found \in Seq(S) /\ Len(found) \in Nat
      /\ \A i, j \in 1..Len(found) : found[i] = found[j] => i = j
      /\ \A e \in S : \E i \in 1..Len(found) : found[i] = e
      /\ \A i, j \in 1..Len(found) : i < j => Before(found[i], found[j])
  BY InTime
<1>2. m \in Nat /\ m <= Len(found) /\ (m < Len(found) => Len(found) > PageSize /\ m > 0)
  BY <1>1, FeedConstants
<1> HIDE DEF taken
<1>3. \A i \in 1..m : found[i] \in S /\ i \in 1..Len(found)
  <2>1. \A i \in 1..m : i \in 1..Len(found)
    BY <1>1, <1>2
  <2>2. QED
    BY <1>1, <2>1, ElementOfSeq
<1>4. /\ taken \in Seq(S) /\ Len(taken) = m /\ \A i \in 1..m : taken[i] = found[i]
  <2>1. 1 \in Int /\ m \in Int
    BY <1>2
  <2> DEFINE t == SubSeq(found, 1, m)
  <2>2. t \in Seq(S) /\ Len(t) = (IF 1 <= m THEN m - 1 + 1 ELSE 0) /\ \A i \in 1..m - 1 + 1 : t[i] = found[1 + i - 1]
    BY <1>3, <2>1, SubSeqProperties
  <2> HIDE DEF t
  <2>3. ASSUME NEW i \in 1..m PROVE t[i] = found[i]
    <3>1. i \in 1..m - 1 + 1 /\ 1 + i - 1 = i
      BY <1>2
    <3>2. t[i] = found[1 + i - 1]
      BY <2>2, <3>1
    <3>3. QED
      BY <3>1, <3>2
  <2>4. t \in Seq(S) /\ Len(t) = m
    BY <1>2, <2>2
  <2>5. taken = t
    BY DEF t, FirstPage, taken, m
  <2>6. QED
    BY <2>3, <2>4, <2>5
<1> HIDE DEF m
<1>5. ToSet(taken) = {taken[i] : i \in 1..m}
  <2>1. DOMAIN taken = 1..m
    BY <1>4, LenProperties
  <2>2. QED
    BY <2>1 DEF ToSet
<1>6. ToSet(taken) \in SUBSET S
  BY <1>3, <1>4, <1>5
<1>7. \A i, j \in 1..m : taken[i] = taken[j] => i = j
  BY <1>1, <1>3, <1>4
<1>8. Last(taken) = taken[m]
  BY <1>4 DEF Last
<1>9. ASSUME NEW e \in S, e \notin ToSet(taken)
      PROVE  Len(found) > PageSize /\ m > 0 /\ Before(taken[m], e)
  <2>1. PICK i \in 1..Len(found) : found[i] = e
    BY <1>1
  <2>2. i \notin 1..m
    BY <1>4, <1>5, <1>9, <2>1
  <2>3. m < i /\ m < Len(found)
    BY <1>1, <1>2, <2>2
  <2>4. m \in 1..m /\ m \in 1..Len(found)
    BY <1>1, <1>2, <2>3
  <2>5. Before(found[m], found[i]) /\ taken[m] = found[m]
    BY <1>1, <1>4, <2>3, <2>4
  <2>6. QED
    BY <1>2, <2>1, <2>3, <2>5
<1>10. QED
  BY <1>2, <1>4, <1>5, <1>6, <1>7, <1>8, <1>9 DEF taken

(* A page of a poll.                                                       *)
LEMMA PollKeeps ==
  ASSUME FeedInv, PollPage
  PROVE  FeedInv'
<1> DEFINE S == AskedFor \ Seen
<1>1. PICK found \in ByTime(S) :
        LET more  == Len(found) > PageSize
            taken == FirstPage(found)
            es    == ToSet(taken)
            next  == {e \in es \cap AfterCursor : e = Last(taken)}
        IN  page' = [page EXCEPT !.at = IF next = {} THEN @ ELSE At(Last(taken)),
                                !.id = IF next = {} THEN @ ELSE Last(taken),
                                !.seen = Kept(page.seen \o Remember(taken)),
                                !.notified = Rung(es), !.stale = @ \cup (es \cap page.known),
                                !.read = IF more /\ next = {} THEN @ \cup es ELSE {},
                                !.again = IF es \cap page.read = {} THEN {} ELSE {page.at},
                                !.more = more, !.drained = ~more]
  BY DEF PollPage
<1> DEFINE more == Len(found) > PageSize
           taken == FirstPage(found)
           m == Len(taken)
           es == ToSet(taken)
           next == {e \in es \cap AfterCursor : e = Last(taken)}
           at1 == IF next = {} THEN page.at ELSE At(Last(taken))
           id1 == IF next = {} THEN page.id ELSE Last(taken)
           seen1 == Kept(page.seen \o Remember(taken))
           stale1 == page.stale \cup (es \cap page.known)
           read1 == IF more /\ next = {} THEN page.read \cup es ELSE {}
           again1 == IF es \cap page.read = {} THEN {} ELSE {page.at}
           drained1 == ~more
<1>2. page' = [page EXCEPT !.at = at1, !.id = id1, !.seen = seen1, !.notified = Rung(es), !.stale = stale1,
                           !.read = read1, !.again = again1, !.more = more, !.drained = drained1]
  BY <1>1
<1>3. minute' = minute /\ rows' = rows /\ page.opened # {}
  BY DEF PollPage, Opened
<1>4. FeedTypeOK /\ RowsOK /\ CursorOK /\ MemoryOK /\ HeardOK /\ ReadOK /\ KnownOK /\ Circles
  BY DEF FeedInv
<1>5. PICK o \in page.opened : page.opened = {o} /\ o <= page.at /\ page.at <= minute
  BY <1>3, <1>4 DEF CursorOK
<1>6. /\ minute \in Minutes /\ minute \in Nat /\ page.at \in Minutes /\ page.at \in Nat /\ page.id \in 0..MaxRows + 1
      /\ o \in Nat /\ o \in Minutes /\ OverlapTime \in Nat /\ page.seen \in Seq(Memory) /\ Len(page.seen) \in Nat
      /\ DOMAIN page.seen = 1..Len(page.seen) /\ page.notified \in SUBSET Ids /\ page.known \in SUBSET Ids
      /\ page.read \in SUBSET Ids /\ page.stale \in SUBSET Ids /\ Visible \in SUBSET Ids
      /\ \A e \in Visible : e \in Ids /\ At(e) \in 0..minute /\ At(e) \in Minutes /\ At(e) \in Nat
  <2>1. o \in Minutes /\ Minutes \subseteq Nat
    BY <1>4, FeedConstants, PageTypes DEF Minutes
  <2>2. QED
    BY <1>4, <2>1, FeedConstants, PageTypes, Dates
<1>7. /\ S \in SUBSET Visible /\ S \in SUBSET Ids
      /\ \A e \in S : e \notin Seen /\ At(e) >= page.at - OverlapTime
      /\ \A e \in Visible : e \in AfterCursor \/ At(e) >= page.at - OverlapTime => e \in S \/ e \in Seen
  <2>1. AskedFor = AfterCursor \cup Since(page.at - OverlapTime)
    BY <1>4 DEF AskedFor, MemoryOK
  <2>2. \A e \in AfterCursor : e \in Visible /\ At(e) >= page.at - OverlapTime
    BY <1>6 DEF AfterCursor
  <2>3. \A e \in Visible : At(e) >= page.at - OverlapTime <=> e \in Since(page.at - OverlapTime)
    BY DEF Since
  <2>4. Since(page.at - OverlapTime) \subseteq Visible
    BY DEF Since
  <2>5. QED
    BY <1>6, <2>1, <2>2, <2>3, <2>4
<1>15. found \in ByTime(S)
  BY <1>1
<1> HIDE DEF S
<1>8. /\ m \in Nat /\ taken \in Seq(S) /\ Len(taken) = m
      /\ es = {taken[i] : i \in 1..m} /\ es \in SUBSET S
      /\ \A i, j \in 1..m : taken[i] = taken[j] => i = j
      /\ m > 0 => Last(taken) = taken[m]
      /\ \A e \in S : e \notin es => more /\ m > 0 /\ Before(taken[m], e)
  BY <1>7, <1>15, OnePage
<1> HIDE DEF more, m, taken, es
<1>9. taken \in Seq(Ids) /\ \A i \in 1..m : taken[i] \in es /\ taken[i] \in S /\ taken[i] \in Visible
  <2>1. Seq(S) \subseteq Seq(Ids)
    BY <1>7
  <2>2. QED
    BY <1>7, <1>8, <2>1
<1>10. next # {} => m > 0 /\ Last(taken) \in AfterCursor /\ Last(taken) = taken[m] /\ Last(taken) \in Visible
  <2>1. next # {} => es # {} /\ Last(taken) \in AfterCursor
    OBVIOUS
  <2>2. es # {} => m > 0
    BY <1>8
  <2>3. QED
    BY <1>8, <2>1, <2>2 DEF AfterCursor
<1> HIDE DEF next
<1>11. /\ at1 \in Minutes /\ at1 \in Nat /\ page.at <= at1 /\ at1 <= minute /\ id1 \in 0..MaxRows + 1
       /\ next = {} => at1 = page.at /\ id1 = page.id
  <2>1. CASE next = {}
    BY <1>5, <1>6, <2>1
  <2>2. CASE next # {}
    <3> DEFINE x == Last(taken)
    <3>1. x \in AfterCursor /\ x \in Visible
      BY <1>10, <2>2
    <3>2. at1 = At(x) /\ id1 = x
      BY <2>2
    <3> HIDE DEF x, at1, id1
    <3>3. At(x) \in 0..minute /\ At(x) \in Minutes /\ At(x) \in Nat /\ x \in Ids
      BY <1>6, <3>1
    <3>4. At(x) >= page.at
      BY <1>6, <3>1, <3>3 DEF AfterCursor
    <3>5. x \in 0..MaxRows + 1
      BY <3>3, FeedConstants DEF Ids
    <3>6. QED
      BY <1>6, <2>2, <3>2, <3>3, <3>4, <3>5
  <2>3. QED
    BY <2>1, <2>2
<1> DEFINE new == Remember(taken)
           L == Len(page.seen)
           all == page.seen \o new
<1>12. new \in Seq(Memory) /\ Len(new) = m /\ \A i \in 1..m : new[i].id = taken[i] /\ new[i].since = minute
  BY <1>6, <1>8, <1>9, Remembered
<1> HIDE DEF new
<1>13. /\ all \in Seq(Memory) /\ Len(all) = L + m /\ L \in Nat
       /\ \A i \in 1..L : all[i] = page.seen[i]
       /\ \A i \in L + 1..L + m : i - L \in 1..m /\ all[i].id = taken[i - L] /\ all[i].since = minute
  <2>1. /\ all \in Seq(Memory) /\ Len(all) = L + m
        /\ \A i \in 1..L + m : all[i] = IF i <= L THEN page.seen[i] ELSE new[i - L]
    BY <1>6, <1>12, ConcatProperties
  <2> HIDE DEF all
  <2>2. \A i \in 1..L : i \in 1..L + m /\ i <= L
    BY <1>6, <1>8
  <2>3. \A i \in L + 1..L + m : i \in 1..L + m /\ ~(i <= L) /\ i - L \in 1..m
    BY <1>6, <1>8
  <2>4. \A i \in L + 1..L + m : all[i] = new[i - L]
    BY <2>1, <2>3
  <2>5. QED
    BY <1>6, <1>12, <2>1, <2>2, <2>3, <2>4
<1> HIDE DEF all
<1>14. PICK k \in 0..Len(all) :
           /\ seen1 \in Seq(Memory) /\ Len(seen1) = Len(all) - k /\ Len(seen1) < SeenLimit
           /\ \A i \in 1..Len(all) - k : seen1[i] = all[i + k]
           /\ \/ \A i \in 1..k : all[i].since < minute - Retention
              \/ Len(seen1) = Window
  BY <1>6, <1>13, KeptAre DEF all, new
<1> HIDE DEF seen1
<1> HIDE DEF at1, id1
<1>16. /\ page'.at = at1 /\ page'.id = id1 /\ page'.seen = seen1 /\ page'.notified = Rung(es) /\ page'.stale = stale1
       /\ page'.read = read1 /\ page'.again = again1 /\ page'.more = more /\ page'.drained = drained1
       /\ page'.opened = page.opened /\ page'.known = page.known
       /\ page' \in [opened : SUBSET Minutes, at : Minutes, id : 0..MaxRows + 1,
               seen : Seq([id : Ids, since : Minutes]), notified : SUBSET Ids, known : SUBSET Ids,
               read : SUBSET Ids, stale : SUBSET Ids, again : SUBSET Minutes,
               more : BOOLEAN, drained : BOOLEAN]
  <2>1. es \in SUBSET Ids /\ Rung(es) \in SUBSET Ids
    BY <1>6, <1>7, <1>8 DEF Rung
  <2>2. stale1 \in SUBSET Ids /\ read1 \in SUBSET Ids /\ again1 \in SUBSET Minutes
    BY <1>6, <2>1
  <2>3. more \in BOOLEAN /\ drained1 \in BOOLEAN
    BY DEF more
  <2>4. seen1 \in Seq([id : Ids, since : Minutes])
    BY <1>14 DEF Memory
  <2> HIDE DEF stale1, read1, again1, drained1
  <2>5. QED
    BY <1>2, <1>4, <1>11, <2>1, <2>2, <2>3, <2>4 DEF FeedTypeOK
<1>17. RowsOK' /\ Visible' = Visible /\ \A e \in Visible : At(e)' = At(e)
  BY <1>3, <1>4 DEF RowsOK, Visible, At
<1>18. \A i \in 1..L : /\ page.seen[i].id \in Visible /\ page.seen[i].id \in Rung(es) \cup page.known /\ page.seen[i].id \in Seen
                       /\ page.seen[i].since <= minute /\ page.seen[i].since >= o /\ page.seen[i].since \in Nat
                       /\ At(page.seen[i].id) >= o - OverlapTime
                       /\ \A j \in 1..L : i < j => page.seen[i].since <= page.seen[j].since
  <2>1. \A i \in 1..L : page.seen[i].since \in Nat
    BY <1>4, PageTypes
  <2>2. QED
    BY <1>4, <1>5, <1>6, <2>1 DEF MemoryOK, Seen, Rung, FeedTypeOK
<1>19. \A e \in es : /\ e \in Visible /\ e \notin Seen /\ e \in Rung(es) /\ At(e) >= o - OverlapTime
                     /\ At(e) >= page.at - OverlapTime
  <2>1. \A e \in es : e \in Visible /\ e \notin Seen /\ At(e) >= page.at - OverlapTime
    BY <1>7, <1>8
  <2>2. QED
    BY <1>5, <1>6, <2>1 DEF Rung
<1>20. \A i \in 1..L + m : \/ i \in 1..L /\ all[i] = page.seen[i]
                           \/ i \in L + 1..L + m /\ i - L \in 1..m /\ all[i].id = taken[i - L] /\ all[i].id \in es
                              /\ all[i].since = minute
  <2>1. \A i \in 1..L + m : i \in 1..L \/ i \in L + 1..L + m
    BY <1>8, <1>13
  <2>2. QED
    BY <1>9, <1>13, <2>1
<1>21. \A i \in 1..L + m : /\ all[i].id \in Visible /\ all[i].id \in Rung(es) \cup page.known
                           /\ all[i].since <= minute /\ all[i].since >= o /\ all[i].since \in Nat
                           /\ At(all[i].id) >= o - OverlapTime
  <2>1. SUFFICES ASSUME NEW i \in 1..L + m
                 PROVE  /\ all[i].id \in Visible /\ all[i].id \in Rung(es) \cup page.known
                        /\ all[i].since <= minute /\ all[i].since >= o /\ all[i].since \in Nat
                        /\ At(all[i].id) >= o - OverlapTime
    OBVIOUS
  <2>2. CASE i \in 1..L /\ all[i] = page.seen[i]
    BY <1>18, <2>2
  <2>3. CASE all[i].id \in es /\ all[i].since = minute
    <3>1. minute <= minute /\ minute >= o
      BY <1>5, <1>6
    <3>2. QED
      BY <1>6, <1>19, <2>3, <3>1
  <2>4. QED
    BY <1>20, <2>2, <2>3
<1>22. ASSUME NEW i \in 1..L + m, NEW j \in 1..L + m, i < j
       PROVE  all[i].since <= all[j].since /\ all[i].id # all[j].id
  <2>1. i \in Int /\ j \in Int /\ L \in Int /\ m \in Int
    BY <1>8, <1>13
  <2>2. CASE j \in 1..L /\ all[j] = page.seen[j]
    <3>1. i \in 1..L /\ all[i] = page.seen[i]
      <4>1. 1 <= i /\ i < j /\ j <= L
        BY <1>22, <2>1, <2>2
      <4>2. i \in 1..L
        BY <2>1, <4>1
      <4>3. QED
        BY <1>13, <4>2
    <3>2. page.seen[i].id # page.seen[j].id
      <4>1. i \in DOMAIN page.seen /\ j \in DOMAIN page.seen
        BY <1>6, <2>2, <3>1
      <4>2. i # j
        BY <1>22, <2>1
      <4>3. QED
        BY <1>4, <4>1, <4>2 DEF MemoryOK
    <3>3. QED
      BY <1>18, <1>22, <2>2, <3>1, <3>2
  <2>3. CASE /\ j \in L + 1..L + m /\ j - L \in 1..m /\ all[j].id = taken[j - L] /\ all[j].id \in es
             /\ all[j].since = minute
    <3>1. all[i].since <= all[j].since
      BY <1>21, <2>3
    <3>2. CASE i \in 1..L /\ all[i] = page.seen[i]
      <4>1. all[i].id \in Seen /\ all[j].id \notin Seen
        BY <1>18, <1>19, <2>3, <3>2
      <4>2. QED
        BY <3>1, <4>1
    <3>3. CASE i \in L + 1..L + m /\ i - L \in 1..m /\ all[i].id = taken[i - L]
      <4>1. i - L # j - L
        BY <1>22, <2>1
      <4>2. taken[i - L] # taken[j - L]
        BY <1>8, <2>3, <3>3, <4>1
      <4>3. QED
        BY <2>3, <3>1, <3>3, <4>2
    <3>4. QED
      BY <1>20, <3>2, <3>3
  <2>4. QED
    BY <1>20, <2>2, <2>3
<1>23. \A i \in 1..L + m, j \in 1..L + m : all[i].id = all[j].id => i = j
  <2>1. SUFFICES ASSUME NEW i \in 1..L + m, NEW j \in 1..L + m, i # j PROVE all[i].id # all[j].id
    OBVIOUS
  <2>2. i < j \/ j < i
    BY <1>8, <1>13, <2>1
  <2>3. QED
    BY <1>22, <2>2
<1> DEFINE n == Len(seen1)
<1>24. /\ n = (L + m) - k /\ n \in Nat /\ k \in 0..L + m /\ n < SeenLimit /\ DOMAIN seen1 = 1..n
       /\ \A i \in 1..n : i + k \in 1..L + m /\ seen1[i] = all[i + k]
       /\ (\A i \in 1..k : all[i].since < minute - Retention) \/ n = Window
  <2>1. n = (L + m) - k /\ k \in 0..L + m /\ n \in Nat /\ DOMAIN seen1 = 1..n
    <3>1. seen1 \in Seq(Memory) /\ Len(seen1) = (L + m) - k /\ k \in 0..L + m
      BY <1>13, <1>14
    <3>2. Len(seen1) \in Nat /\ DOMAIN seen1 = 1..Len(seen1)
      BY <3>1, LenProperties
    <3>3. n = Len(seen1)
      OBVIOUS
    <3> HIDE DEF n
    <3>4. n = (L + m) - k /\ n \in Nat
      BY <3>1, <3>2, <3>3
    <3>5. DOMAIN seen1 = 1..n
      BY <3>2, <3>3
    <3>6. QED
      BY <3>1, <3>4, <3>5
  <2>2. \A i \in 1..n : i + k \in 1..L + m /\ i \in 1..Len(all) - k
    BY <1>8, <1>13, <2>1
  <2>3. QED
    BY <1>14, <2>1, <2>2
<1> HIDE DEF n
<1>25. FeedTypeOK'
  <2>1. ASSUME NEW i \in 1..n, NEW j \in 1..n, i < j PROVE seen1[i].since <= seen1[j].since
    <3>1. i + k \in 1..L + m /\ j + k \in 1..L + m /\ i + k < j + k
      BY <1>24, <2>1
    <3>2. QED
      BY <1>22, <1>24, <3>1
  <2>2. QED
    BY <1>3, <1>4, <1>16, <1>24, <2>1 DEF FeedTypeOK
<1>26. MemoryOK'
  <2>1. ASSUME NEW i \in 1..n, NEW j \in 1..n, seen1[i].id = seen1[j].id PROVE i = j
    <3>1. i + k \in 1..L + m /\ j + k \in 1..L + m /\ all[i + k].id = all[j + k].id
      BY <1>24, <2>1
    <3>2. i + k = j + k
      BY <1>23, <3>1
    <3>3. QED
      BY <1>24, <3>2
  <2>2. \A i \in 1..n : /\ seen1[i].id \in Visible /\ seen1[i].id \in Rung(es) \cup page.known
                        /\ seen1[i].since <= minute /\ At(seen1[i].id) >= o - OverlapTime /\ seen1[i].since >= o
    BY <1>21, <1>24
  <2>3. ASSUME NEW i \in 1..n PROVE At(page.seen[i].id)' >= o - OverlapTime
    <3>1. PICK e \in Visible : e = seen1[i].id
      BY <2>2
    <3>2. page'.seen[i].id = e
      BY <1>16, <3>1
    <3>3. At(page.seen[i].id)' = At(e)'
      BY <3>2 DEF At
    <3>4. QED
      BY <1>17, <2>2, <3>1, <3>3
  <2>4. QED
    BY <1>3, <1>5, <1>16, <1>17, <1>24, <2>1, <2>2, <2>3 DEF MemoryOK
<1>27. ASSUME NEW T \in SUBSET Ids, n = Window, k >= 1, \A i \in k..L + m : all[i].id \in T
       PROVE  Cardinality(T) > Window
  <2> DEFINE f == [i \in 0..Window |-> all[i + k].id]
  <2>1. L + m = k + Window /\ k \in Nat /\ L + m \in Nat
    BY <1>8, <1>13, <1>24, <1>27, FeedConstants
  <2>2. \A i \in 0..Window : i + k \in k..L + m /\ i + k \in 1..L + m
    BY <1>27, <2>1, FeedConstants
  <2>3. f \in [0..Window -> T]
    BY <1>27, <2>2
  <2>4. ASSUME NEW i \in 0..Window, NEW j \in 0..Window, f[i] = f[j] PROVE i = j
    <3>1. all[i + k].id = all[j + k].id
      BY <2>4
    <3>2. i + k = j + k
      BY <1>23, <2>2, <3>1
    <3>3. QED
      BY <2>1, <3>2
  <2> HIDE DEF f
  <2>5. QED
    BY <2>3, <2>4, ManyRows
<1>28. ClosedOK' /\ CursorOK'
  BY <1>3, <1>5, <1>6, <1>11, <1>16 DEF ClosedOK, CursorOK
<1>29. ASSUME NEW e \in Visible
       PROVE  e \in Rung(es) \/ e \in page.known \/ (e \in S /\ e \notin es)
  <2>1. e \in page.notified \/ e \in page.known \/ e \in AfterCursor \/ At(e) >= page.at - OverlapTime
    BY <1>3, <1>4 DEF HeardOK, Opened
  <2>2. e \in Seen => e \in Rung(es) \/ e \in page.known
    BY <1>6, <1>18 DEF Seen
  <2>3. QED
    BY <1>7, <2>1, <2>2 DEF Rung
<1>30. Drained'
  <2>1. drained1 => \A e \in S : e \in es
    BY <1>8
  <2> HIDE DEF drained1
  <2>2. QED
    BY <1>16, <1>17, <1>29, <2>1 DEF Drained
<1>31. HeardOK'
  <2>1. SUFFICES ASSUME NEW e \in Visible, e \notin Rung(es), e \notin page.known
                 PROVE  e \in AfterCursor' \/ At(e) >= at1 - OverlapTime
    BY <1>16, <1>17 DEF HeardOK
  <2>2. e \in S /\ m > 0 /\ Before(taken[m], e)
    BY <1>8, <1>29, <2>1
  <2>3. CASE next = {}
    <3>1. e \in AfterCursor \/ At(e) >= page.at - OverlapTime
      BY <1>3, <1>4, <2>1 DEF HeardOK, Opened, Rung
    <3>2. e \in AfterCursor => e \in AfterCursor'
      BY <1>11, <1>16, <1>17, <2>1, <2>3 DEF AfterCursor
    <3>3. QED
      BY <1>11, <2>3, <3>1, <3>2
  <2>4. CASE next # {}
    <3>1. at1 = At(taken[m]) /\ id1 = taken[m]
      BY <1>10, <2>4 DEF at1, id1
    <3>2. At(e) > at1 \/ (At(e) = at1 /\ e > id1)
      BY <2>2, <3>1 DEF Before
    <3>3. QED
      BY <1>16, <1>17, <2>1, <3>2 DEF AfterCursor
  <2>5. QED
    BY <2>3, <2>4
<1>32. ASSUME NEW i \in 1..L + m, all[i].id \in read1
       PROVE  all[i].since = minute /\ \A j \in 1..L + m : i < j => all[j].id \in read1
  <2>1. read1 = page.read \cup es
    BY <1>32
  <2>2. L \in Int /\ m \in Int
    BY <1>8, <1>13
  <2>3. CASE i \in 1..L /\ all[i] = page.seen[i]
    <3>1. page.seen[i].id \in page.read
      BY <1>18, <1>19, <1>32, <2>1, <2>3
    <3>2. page.seen[i].since = minute /\ \A j \in 1..L : i < j => page.seen[j].id \in page.read
      BY <1>4, <1>6, <2>3, <3>1 DEF ReadOK
    <3>3. QED
      BY <1>20, <2>1, <2>3, <3>2
  <2>4. CASE i \in L + 1..L + m /\ all[i].since = minute
    <3>1. ASSUME NEW j \in 1..L + m, i < j PROVE all[j].id \in es
      <4>1. ~(j \in 1..L)
        BY <2>2, <2>4, <3>1
      <4>2. QED
        BY <1>20, <4>1
    <3>2. QED
      BY <2>1, <2>4, <3>1
  <2>5. QED
    BY <1>20, <2>3, <2>4
<1>33. \A e \in Visible : e \in Seen' <=> \E i \in 1..n : seen1[i].id = e
  BY <1>16, <1>24 DEF Seen
<1>34. read1 \subseteq Seen' \/ Cardinality(read1) > Window
  <2>1. CASE read1 = {}
    BY <2>1
  <2>2. CASE read1 # {}
    <3>1. read1 = page.read \cup es
      BY <2>2
    <3> HIDE DEF read1
    <3>2. read1 \in SUBSET Ids
      BY <1>6, <1>7, <1>8, <3>1
    <3>3. CASE Cardinality(page.read) > Window
      <4>1. Cardinality(page.read) <= Cardinality(read1) /\ Cardinality(page.read) \in Nat /\ Cardinality(read1) \in Nat
        BY <1>6, <3>1, <3>2, RowsCounted
      <4>2. QED
        BY <3>3, <4>1, FeedConstants
    <3>4. CASE page.read \subseteq Seen
      <4>1. SUFFICES ASSUME NEW e \in read1, e \notin Seen' PROVE Cardinality(read1) > Window
        OBVIOUS
      <4>2. PICK i \in 1..L + m : all[i].id = e
        <5>1. CASE e \in page.read
          <6>1. PICK i \in 1..L : page.seen[i].id = e
            BY <1>6, <3>4, <5>1 DEF Seen
          <6>2. i \in 1..L + m /\ all[i] = page.seen[i]
            BY <1>8, <1>13
          <6>3. QED
            BY <6>1, <6>2
        <5>2. CASE e \in es
          <6>1. PICK i \in 1..m : taken[i] = e
            BY <1>8, <5>2
          <6>2. i + L \in L + 1..L + m /\ i + L \in 1..L + m /\ (i + L) - L = i
            BY <1>8, <1>13
          <6>3. all[i + L].id = e
            BY <1>13, <6>1, <6>2
          <6>4. QED
            BY <6>2, <6>3
        <5>3. QED
          BY <3>1, <5>1, <5>2
      <4>3. i <= k
        <5>1. ASSUME k < i PROVE FALSE
          <6>1. i - k \in 1..n /\ (i - k) + k = i
            BY <1>8, <1>13, <1>24, <5>1
          <6>2. seen1[i - k].id = e
            BY <1>24, <4>2, <6>1
          <6>3. e \in Visible
            BY <1>21, <4>2
          <6>4. QED
            BY <1>33, <4>1, <6>1, <6>2, <6>3
        <5>2. QED
          BY <1>24, <5>1
      <4>4. all[i].since = minute /\ \A j \in 1..L + m : i < j => all[j].id \in read1
        BY <1>32, <4>1, <4>2
      <4>5. n = Window
        <5>1. i \in 1..k
          BY <1>24, <4>3
        <5>2. ~(all[i].since < minute - Retention)
          BY <1>6, <4>4, FeedConstants
        <5>3. QED
          BY <1>24, <5>1, <5>2
      <4>6. ASSUME NEW j \in k..L + m PROVE all[j].id \in read1
        <5>1. j \in 1..L + m /\ (j = i \/ i < j)
          BY <1>8, <1>13, <1>24, <4>3
        <5>2. QED
          BY <4>1, <4>2, <4>4, <5>1
      <4>7. k >= 1
        BY <1>24, <4>3
      <4>8. QED
        BY <1>27, <3>2, <4>5, <4>6, <4>7
    <3>5. QED
      BY <1>4, <3>3, <3>4 DEF ReadOK
  <2>3. QED
    BY <2>1, <2>2
<1>35. ReadOK'
  <2>1. ~more => read1 = {}
    OBVIOUS
  <2>2. \A e \in read1 : e \in Visible /\ At(e) >= at1 - OverlapTime
    <3>1. SUFFICES ASSUME NEW e \in read1 PROVE e \in Visible /\ At(e) >= at1 - OverlapTime
      OBVIOUS
    <3>2. next = {} /\ (e \in page.read \/ e \in es)
      BY <3>1
    <3>3. at1 = page.at
      BY <1>11, <3>2
    <3>4. QED
      BY <1>4, <1>19, <3>2, <3>3 DEF ReadOK
  <2> HIDE DEF read1
  <2>3. ASSUME NEW i \in 1..n, seen1[i].id \in read1
        PROVE  seen1[i].since = minute /\ \A j \in 1..n : i < j => seen1[j].id \in read1
    <3>1. i + k \in 1..L + m /\ seen1[i] = all[i + k]
      BY <1>24
    <3>2. all[i + k].since = minute /\ \A j \in 1..L + m : i + k < j => all[j].id \in read1
      BY <1>32, <2>3, <3>1
    <3>3. \A j \in 1..n : i < j => i + k < j + k /\ j + k \in 1..L + m /\ seen1[j] = all[j + k]
      BY <1>24
    <3>4. QED
      BY <3>1, <3>2, <3>3
  <2>4. \A e \in read1 : e \in Visible' /\ At(e)' >= at1 - OverlapTime
    BY <1>17, <2>2
  <2>5. QED
    BY <1>3, <1>16, <1>24, <1>34, <2>1, <2>3, <2>4 DEF ReadOK
<1>36. \A p \in Minutes : /\ (Crowded(p) <=> Cardinality(Since(p - OverlapTime)) > Window)
                          /\ Crowded(p) => Crowded(p)'
  <2>1. \A p \in Minutes : p \in Int
    BY FeedConstants DEF Minutes
  <2>2. ASSUME NEW p \in Minutes, Crowded(p) PROVE Crowded(p)'
    BY <1>4, <1>17, <1>25, <2>1, <2>2, CrowdStays
  <2>3. \A p \in Minutes : Crowded(p) <=> Cardinality(Since(p - OverlapTime)) > Window
    BY DEF Crowded
  <2>4. QED
    BY <2>2, <2>3
<1>37. ASSUME NEW e \in page.known PROVE e \in Visible /\ e \notin AfterCursor'
  <2>1. e \in Visible /\ e \notin AfterCursor
    BY <1>4, <1>5 DEF KnownOK
  <2>2. At(e) \in Nat /\ e \in Int
    BY <1>6, <2>1, FeedConstants DEF Ids
  <2>3. ~(At(e) > page.at) /\ ~(At(e) = page.at /\ e > page.id)
    BY <2>1 DEF AfterCursor
  <2>4. CASE next = {}
    BY <1>11, <1>16, <1>17, <2>1, <2>3, <2>4 DEF AfterCursor
  <2>5. CASE next # {}
    <3> DEFINE x == taken[m]
    <3>1. at1 = At(x) /\ id1 = x /\ x \in AfterCursor /\ x \in Visible
      BY <1>10, <2>5 DEF at1, id1
    <3> HIDE DEF x
    <3>2. x \in Int /\ At(x) \in Nat /\ page.id \in Int
      BY <1>6, <3>1, FeedConstants DEF Ids
    <3>3. At(x) > page.at \/ (At(x) = page.at /\ x > page.id)
      BY <3>1 DEF AfterCursor
    <3>4. ~(At(e) > at1) /\ ~(At(e) = at1 /\ e > id1)
      BY <1>6, <2>2, <2>3, <3>1, <3>2, <3>3
    <3>5. QED
      BY <1>16, <1>17, <2>1, <3>4 DEF AfterCursor
  <2>6. QED
    BY <2>4, <2>5
<1>38. Excused(o)' \/ (stale1 = {} /\ \A e \in page.known : At(e) >= o - OverlapTime => e \in Seen')
  <2>1. CASE Excused(o)
    <3>1. minute > o + Retention => minute' > o + Retention
      BY <1>3
    <3>2. QED
      BY <1>6, <1>36, <2>1, <3>1 DEF Excused
  <2>2. CASE page.stale = {} /\ \A e \in page.known : At(e) >= o - OverlapTime => e \in Seen
    <3>1. stale1 = {}
      BY <1>19, <2>2
    <3> HIDE DEF stale1
    <3>2. SUFFICES ASSUME NEW e \in page.known, At(e) >= o - OverlapTime, e \notin Seen' PROVE Excused(o)'
      BY <3>1
    <3>3. PICK i \in 1..L : page.seen[i].id = e
      BY <1>6, <2>2, <3>2 DEF Seen
    <3>4. i \in 1..L + m /\ all[i].id = e /\ e \in Visible
      BY <1>8, <1>13, <1>37, <3>3
    <3>5. i \in 1..k
      <4>1. ASSUME k < i PROVE FALSE
        <5>1. i - k \in 1..n /\ (i - k) + k = i
          BY <1>8, <1>13, <1>24, <3>4, <4>1
        <5>2. seen1[i - k].id = e
          BY <1>24, <3>4, <5>1
        <5>3. QED
          BY <1>33, <3>2, <3>4, <5>1, <5>2
      <4>2. QED
        BY <1>8, <1>13, <1>24, <3>4, <4>1
    <3>6. CASE all[i].since < minute - Retention
      <4>1. all[i].since >= o /\ all[i].since \in Nat
        BY <1>21, <3>4
      <4>2. minute > o + Retention
        BY <1>6, <3>6, <4>1, FeedConstants
      <4>3. QED
        BY <1>3, <4>2 DEF Excused
    <3>7. CASE n = Window
      <4> DEFINE T == Since(o - OverlapTime)
      <4>1. T \in SUBSET Ids
        BY <1>6 DEF Since
      <4>2. \A j \in k..L + m : all[j].id \in T
        <5>1. \A j \in k..L + m : j \in 1..L + m
          BY <1>8, <1>13, <1>24, <3>5
        <5>2. QED
          BY <1>21, <5>1 DEF Since
      <4> HIDE DEF T
      <4>3. k >= 1
        BY <1>24, <3>5
      <4>4. Cardinality(T) > Window
        BY <1>27, <3>7, <4>1, <4>2, <4>3
      <4>5. Crowded(o)
        BY <4>4 DEF Crowded, T
      <4>6. QED
        BY <1>6, <1>36, <4>5 DEF Excused
    <3>8. QED
      BY <1>24, <3>5, <3>6, <3>7
  <2>3. QED
    BY <1>4, <1>5, <2>1, <2>2 DEF KnownOK
<1>39. KnownOK'
  <2>1. \A e \in page.known : At(e) = At(e)'
    BY <1>17, <1>37
  <2> HIDE DEF stale1
  <2>2. \A p \in page'.opened : p = o
    BY <1>5, <1>16
  <2>3. QED
    BY <1>16, <1>17, <1>37, <1>38, <2>1, <2>2 DEF KnownOK, Excused
<1>40. Circles'
  <2>1. ASSUME again1 # {} PROVE again1 = {page.at} /\ Crowded(page.at)
    <3>1. PICK e \in es : e \in page.read
      BY <2>1
    <3>2. again1 = {page.at}
      BY <2>1
    <3> HIDE DEF again1
    <3>3. Cardinality(page.read) > Window
      BY <1>4, <1>19, <3>1 DEF ReadOK
    <3>4. page.read \subseteq Since(page.at - OverlapTime)
      BY <1>4 DEF ReadOK, Since
    <3>5. Since(page.at - OverlapTime) \in SUBSET Ids
      BY <1>6 DEF Since
    <3>6. /\ Cardinality(page.read) <= Cardinality(Since(page.at - OverlapTime))
          /\ Cardinality(page.read) \in Nat /\ Cardinality(Since(page.at - OverlapTime)) \in Nat
      BY <1>6, <3>4, <3>5, RowsCounted
    <3>7. Cardinality(Since(page.at - OverlapTime)) > Window
      BY <3>3, <3>6, FeedConstants
    <3>8. QED
      BY <3>2, <3>7 DEF Crowded
  <2>2. ASSUME NEW p \in page'.again PROVE Crowded(p)'
    <3>1. p \in again1 /\ again1 # {}
      BY <1>16, <2>2
    <3> HIDE DEF again1
    <3>2. p = page.at /\ Crowded(page.at)
      BY <2>1, <3>1
    <3>3. p \in Minutes /\ Crowded(p)
      BY <1>6, <3>2
    <3>4. QED
      BY <1>36, <3>3
  <2>3. QED
    BY <2>2 DEF Circles
<1>41. QED
  BY <1>17, <1>25, <1>26, <1>28, <1>30, <1>31, <1>35, <1>39, <1>40 DEF FeedInv

(* The page's invariant holds in every reachable state.                    *)
THEOREM FeedInvariance == FeedSpec => []FeedInv
<1>1. FeedInv /\ [FeedNext]_feedVars => FeedInv'
  <2>1. SUFFICES ASSUME FeedInv, [FeedNext]_feedVars PROVE FeedInv'
    OBVIOUS
  <2>2. CASE UNCHANGED feedVars
    <3>1. minute' = minute /\ rows' = rows /\ page' = page
      BY <2>2 DEF feedVars
    <3>2. FeedTypeOK' /\ RowsOK' /\ Grown /\ Visible' = Visible
      BY <2>1, <3>1 DEF FeedInv, FeedTypeOK, RowsOK, Grown, Visible, At
    <3>3. minute <= minute
      BY <2>1, PageTypes DEF FeedInv
    <3>4. QED
      BY <2>1, <3>1, <3>2, <3>3, CalmStep
  <2>3. QED
    BY <2>1, <2>2, StoreKeeps, HearKeeps, OpenKeeps, PollKeeps DEF FeedNext
<1>2. QED
  BY <1>1, FeedInvInit, PTL DEF FeedSpec

(* A new order has rung when a poll comes to an end, however late its row  *)
(* becomes visible and whatever the channel loses; an order that was on the*)
(* board does not ring unless it is forgotten, and a poll goes round in    *)
(* circles only in a crowd (getOrderNotificationSignals, poll).            *)
THEOREM EveryNewOrderRings == FeedSpec => [](FeedTypeOK /\ NewOrdersRing)
<1>1. FeedInv => FeedTypeOK /\ NewOrdersRing
  <2>1. SUFFICES ASSUME FeedInv PROVE NewOrdersRing
    BY DEF FeedInv
  <2>2. page.stale # {} => \E opened \in page.opened : minute > opened + Retention \/ Crowded(opened)
    <3>1. SUFFICES ASSUME page.stale # {} PROVE \E opened \in page.opened : Excused(opened)
      BY DEF Excused
    <3>2. page.opened # {}
      BY <2>1, <3>1 DEF FeedInv, ClosedOK
    <3>3. QED
      BY <2>1, <3>1, <3>2 DEF FeedInv, KnownOK
  <2>3. QED
    BY <2>1, <2>2 DEF NewOrdersRing, FeedInv, Circles, Drained
<1>2. QED
  BY <1>1, FeedInvariance, PTL
=============================================================================
