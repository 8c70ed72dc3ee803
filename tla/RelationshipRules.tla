--------------------------- MODULE RelationshipRules ---------------------------
(***************************************************************************)
(* Which segment a customer belongs to, twice: as the application derives  *)
(* it when an order is projected, and as the database refreshes it when a  *)
(* page is read. An average interval is a quotient of integers, gaps over  *)
(* intervals, with no interval for null; times are days.                   *)
(***************************************************************************)
EXTENDS Integers, FiniteSetsExt

Segments == {"NEW", "RETURNING", "RECURRING", "FREQUENT", "COOLING", "INACTIVE", "RECOVERED"}

RecoveredWindow == 30
DefaultInactive == 30
FrequentOrders == 5
FrequentDays == 14

Greatest(S) == Max(S)
CeilDiv(a, b) == (a + b - 1) \div b
Elapsed(from, now) == Greatest({0, now - from})

(* Faulty: the habit needs one order more.                                 *)
HabitLater(count, gaps, intervals) == count > 3 /\ intervals > 0 /\ gaps > 0

Habit(count, gaps, intervals) == count >= 3 /\ intervals > 0 /\ gaps > 0

(* getCustomerRelationshipThresholds: with three orders and an interval,   *)
(* the habit; otherwise the fallback of the store.                         *)
Thresholds(count, gaps, intervals) ==
  LET cooling == Greatest({7, CeilDiv(3 * gaps, 2 * intervals)})
  IN  IF Habit(count, gaps, intervals)
      THEN [cooling |-> cooling,
            inactive |-> Greatest({14, cooling + 1, CeilDiv(5 * gaps, 2 * intervals)})]
      ELSE [cooling |-> Greatest({7, (DefaultInactive * 7) \div 10}), inactive |-> DefaultInactive]

(* deriveCustomerRelationshipSegment; recovered is a set of at most one day. *)
DeriveSegment(count, last, gaps, intervals, recovered, now) ==
  LET limit == Thresholds(count, gaps, intervals)
      away  == Elapsed(last, now)
  IN  CASE \E r \in recovered : Elapsed(r, now) < RecoveredWindow -> "RECOVERED"
        [] OTHER ->
           CASE away >= limit.inactive -> "INACTIVE"
             [] away \in limit.cooling .. limit.inactive - 1 -> "COOLING"
             [] away < limit.cooling /\ count <= 1 -> "NEW"
             [] away < limit.cooling /\ count = 2 -> "RETURNING"
             [] away < limit.cooling /\ count > 2 ->
                IF count >= FrequentOrders /\ intervals > 0 /\ gaps <= FrequentDays * intervals
                THEN "FREQUENT" ELSE "RECURRING"

(* The same as refreshCustomerRelationshipSegments computes it in SQL.     *)
RefreshedSegment(count, last, gaps, intervals, recovered, now) ==
  LET habit    == count >= 3 /\ intervals > 0 /\ gaps > 0
      inactive == IF habit THEN Greatest({14, CeilDiv(5 * gaps, 2 * intervals)}) ELSE 30
      cooling  == IF habit THEN Greatest({7, CeilDiv(3 * gaps, 2 * intervals)}) ELSE 21
  IN  IF \E r \in recovered : r > now - 30 THEN "RECOVERED"
      ELSE IF now - last >= inactive THEN "INACTIVE"
      ELSE IF now - last >= cooling THEN "COOLING"
      ELSE IF count = 1 THEN "NEW"
      ELSE IF count = 2 THEN "RETURNING"
      ELSE IF count >= 5 /\ intervals > 0 /\ gaps <= 14 * intervals THEN "FREQUENT"
      ELSE "RECURRING"

(* The page and the projection agree on a customer who has ordered.        *)
AgreeOn(c) ==
  DeriveSegment(c.count, c.last, c.gaps, c.intervals, c.recovered, c.now)
  = RefreshedSegment(c.count, c.last, c.gaps, c.intervals, c.recovered, c.now)

NeedsAttention(segment) == segment \in {"COOLING", "INACTIVE"}
=============================================================================
