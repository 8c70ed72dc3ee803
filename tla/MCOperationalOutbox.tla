------------------------- MODULE MCOperationalOutbox -------------------------
(***************************************************************************)
(* Small instances of both outboxes, one of which works in a behaviour:    *)
(* the orders' with a commit of two events and one consumer, and the       *)
(* dining room's with one event, two consumers and the relay.              *)
(***************************************************************************)
EXTENDS OperationalOutbox, TLC

CONSTANTS created, accepted, closed, c1, c2, r1

VARIABLE table   \* the table that is written

(* An order created and accepted at the counter: two events, one commit.   *)
(* A session of the dining room that ends: one.                            *)
Versions == (created :> 0) @@ (accepted :> 1) @@ (closed :> 3)

OutboxesInit == OperationalInit /\ table \in {"orders", "dining"}

(* Bound: the orders' outbox works with one consumer and no cron.          *)
OrdersNext ==
  /\ Next /\ UNCHANGED reading
  /\ row'[closed].status = "NONE"
  /\ consumer'[c2].stage = "IDLE" /\ relay'[r1].stage = "IDLE"

DiningNext == OperationalNext /\ row'[created].status = "NONE"

OutboxesNext ==
  /\ UNCHANGED table
  /\ \/ table = "orders" /\ OrdersNext
     \/ table = "dining" /\ DiningNext

OutboxesSpec == OutboxesInit /\ [][OutboxesNext]_<<opVars, table>>
=============================================================================
