-------------------------- MODULE OrderOutboxProofs --------------------------
(***************************************************************************)
(* What becomes of an order's events, for any events, commits, consumers,  *)
(* relays and limits: every variable keeps its type, an event is given up  *)
(* only after every attempt and never without a message to the operator,   *)
(* and no version of a batch overtakes an earlier one.                     *)
(*                                                                         *)
(* The outbox keeps the promise of EventDelivery: what is delivered was    *)
(* published and projected, stays delivered, and only a dead event is taken*)
(* up again.                                                               *)
(*                                                                         *)
(* The outbox of the dining room, whose consumers decide by what they read *)
(* once, does nothing that it could not do: what they remember stands.     *)
(***************************************************************************)
EXTENDS OperationalOutbox, TLAPS

RowTypes ==
  [status : {"NONE", "PURGED", "PROCESSED", "FAILED"} \cup Open,
   attempts : 0 .. MaxAttempts, due : BOOLEAN,
   queued : {"NEVER", "FRESH", "STALE"}, lock : {"FREE", "HELD", "STALE"},
   token : Consumers \cup Relays \cup {None}]

RowOK(x) == x \in RowTypes /\ (x.lock = "FREE" <=> x.token = None)

RowsTyped == row \in [Events -> RowTypes] /\ \A e \in Events : RowOK(row[e])

ConsumersTyped ==
  consumer \in [Consumers ->
    [stage : {"IDLE", "NEXT", "REFUSED", "CLAIMED", "PROJECTED", "PUBLISHED", "ERROR", "DEAD"},
     received : SUBSET Events, left : SUBSET Events, current : Events \cup {None}]]

RelaysTyped ==
  relay \in [Relays ->
    [stage : {"IDLE", "CLAIMED", "SENT", "UNSENT", "BURYING", "BURIED", "UNBURIED"},
     rows : SUBSET Events]]

(* An event that is being handled is one of those still to be confirmed.   *)
Handling ==
  \A c \in Consumers :
    /\ consumer[c].stage = "IDLE" => consumer[c].left = {}
    /\ consumer[c].stage \notin {"IDLE", "NEXT"} => consumer[c].current \in consumer[c].left

TypeInv == TypeOK /\ Handling

(* The type invariant, variable by variable.                               *)
LEMMA TypeSplit ==
  TypeOK <=>
    /\ RowsTyped /\ ConsumersTyped /\ RelaysTyped
    /\ queue \subseteq Events /\ deadLetters \subseteq Events
    /\ published \subseteq Events /\ projected \subseteq Projecting
    /\ dispatch \in [Commits -> SUBSET {"PROJECT", "PUBLISH", "MARK", "SEND", "RECORD"}]
    /\ replays \in 0 .. MaxReplays
BY DEF TypeOK, RowsTyped, RowOK, RowTypes, ConsumersTyped, RelaysTyped

Statuses == {"NONE", "PURGED", "PROCESSED", "FAILED"} \cup Open

(* A well-typed row with the given status, attempts and claim.             *)
Is(x, status, attempts, token) ==
  RowOK(x) /\ x.status = status /\ x.attempts = attempts /\ x.token = token

Wrote(e, status, attempts, token) == Is(row'[e], status, attempts, token)

(* The statuses a row can have.                                            *)
LEMMA Bare ==
  /\ \A x : RowOK(x) => x.status \in Statuses
  /\ "PENDING" \in Statuses /\ "PROCESSING" \in Statuses
  /\ "PROCESSED" \in Statuses /\ "FAILED" \in Statuses
BY DEF RowOK, RowTypes, Statuses, Open

(* Releasing a row, and changing a field of it, keep it well typed.        *)
LEMMA SettleIs ==
  ASSUME NEW x, RowOK(x), NEW s \in Statuses
  PROVE  /\ Is(Settle(x, s), s, x.attempts, None)
         /\ Is([Settle(x, s) EXCEPT !.due = FALSE], s, x.attempts, None)
         /\ Is([Settle(x, s) EXCEPT !.queued = "FRESH"], s, x.attempts, None)
BY DEF Is, RowOK, RowTypes, Statuses, Open, Settle

(* What the statements of the pipeline make of a row.                      *)
LEMMA RowUpdates ==
  ASSUME NEW e, RowOK(row[e])
  PROVE
    /\ row'[e] = [row[e] EXCEPT !.status = "PENDING"] =>
         Wrote(e, "PENDING", row[e].attempts, row[e].token)
    /\ row'[e] = [row[e] EXCEPT !.status = "PROCESSED"] =>
         Wrote(e, "PROCESSED", row[e].attempts, row[e].token)
    /\ row'[e] = [row[e] EXCEPT !.status = "PURGED"] =>
         Wrote(e, "PURGED", row[e].attempts, row[e].token)
    /\ row'[e] = [row[e] EXCEPT !.due = TRUE] =>
         Wrote(e, row[e].status, row[e].attempts, row[e].token)
    /\ row'[e] = [row[e] EXCEPT !.queued = "STALE"] =>
         Wrote(e, row[e].status, row[e].attempts, row[e].token)
    /\ row'[e] = [row[e] EXCEPT !.status = "PROCESSING", !.queued = "FRESH", !.due = TRUE] =>
         Wrote(e, "PROCESSING", row[e].attempts, row[e].token)
    /\ row'[e] = Settle(row[e], "PROCESSED") =>
         Wrote(e, "PROCESSED", row[e].attempts, None)
    /\ row'[e] = Settle(row[e], "FAILED") =>
         Wrote(e, "FAILED", row[e].attempts, None)
    /\ row'[e] = [Settle(row[e], "FAILED") EXCEPT !.due = FALSE] =>
         Wrote(e, "FAILED", row[e].attempts, None)
    /\ row'[e] = [Settle(row[e], "PENDING") EXCEPT !.due = FALSE] =>
         Wrote(e, "PENDING", row[e].attempts, None)
    /\ row'[e] = [Settle(row[e], "PROCESSING") EXCEPT !.due = FALSE] =>
         Wrote(e, "PROCESSING", row[e].attempts, None)
    /\ row'[e] = [Settle(row[e], row[e].status) EXCEPT !.due = FALSE] =>
         Wrote(e, row[e].status, row[e].attempts, None)
    /\ row'[e] = [Settle(row[e], row[e].status) EXCEPT !.queued = "FRESH"] =>
         Wrote(e, row[e].status, row[e].attempts, None)
    /\ row[e].lock = "HELD" /\ row'[e] = [row[e] EXCEPT !.lock = "STALE"] =>
         Wrote(e, row[e].status, row[e].attempts, row[e].token)
<1>1. ASSUME row'[e] = [row[e] EXCEPT !.status = "PENDING"]
      PROVE  Wrote(e, "PENDING", row[e].attempts, row[e].token)
  <2>1. Is([row[e] EXCEPT !.status = "PENDING"], "PENDING", row[e].attempts, row[e].token)
    BY <1>1 DEF Is, RowOK, RowTypes, Open
  <2> QED  BY <1>1, <2>1, Zenon DEF Wrote
<1>2. ASSUME row'[e] = [row[e] EXCEPT !.status = "PROCESSED"]
      PROVE  Wrote(e, "PROCESSED", row[e].attempts, row[e].token)
  <2>1. Is([row[e] EXCEPT !.status = "PROCESSED"], "PROCESSED", row[e].attempts, row[e].token)
    BY <1>2 DEF Is, RowOK, RowTypes, Open
  <2> QED  BY <1>2, <2>1, Zenon DEF Wrote
<1>3. ASSUME row'[e] = [row[e] EXCEPT !.status = "PURGED"]
      PROVE  Wrote(e, "PURGED", row[e].attempts, row[e].token)
  <2>1. Is([row[e] EXCEPT !.status = "PURGED"], "PURGED", row[e].attempts, row[e].token)
    BY <1>3 DEF Is, RowOK, RowTypes, Open
  <2> QED  BY <1>3, <2>1, Zenon DEF Wrote
<1>4. ASSUME row'[e] = [row[e] EXCEPT !.due = TRUE]
      PROVE  Wrote(e, row[e].status, row[e].attempts, row[e].token)
  <2>1. Is([row[e] EXCEPT !.due = TRUE], row[e].status, row[e].attempts, row[e].token)
    BY <1>4 DEF Is, RowOK, RowTypes, Open
  <2> QED  BY <1>4, <2>1, Zenon DEF Wrote
<1>5. ASSUME row'[e] = [row[e] EXCEPT !.queued = "STALE"]
      PROVE  Wrote(e, row[e].status, row[e].attempts, row[e].token)
  <2>1. Is([row[e] EXCEPT !.queued = "STALE"], row[e].status, row[e].attempts, row[e].token)
    BY <1>5 DEF Is, RowOK, RowTypes, Open
  <2> QED  BY <1>5, <2>1, Zenon DEF Wrote
<1>6. ASSUME row'[e] = [row[e] EXCEPT !.status = "PROCESSING", !.queued = "FRESH", !.due = TRUE]
      PROVE  Wrote(e, "PROCESSING", row[e].attempts, row[e].token)
  <2>1. Is([row[e] EXCEPT !.status = "PROCESSING", !.queued = "FRESH", !.due = TRUE],
           "PROCESSING", row[e].attempts, row[e].token)
    BY <1>6 DEF Is, RowOK, RowTypes, Open
  <2> QED  BY <1>6, <2>1, Zenon DEF Wrote
<1>7. ASSUME row'[e] = Settle(row[e], "PROCESSED")
      PROVE  Wrote(e, "PROCESSED", row[e].attempts, None)
  BY <1>7, Bare, SettleIs, Zenon DEF Wrote
<1>8. ASSUME row'[e] = Settle(row[e], "FAILED")
      PROVE  Wrote(e, "FAILED", row[e].attempts, None)
  BY <1>8, Bare, SettleIs, Zenon DEF Wrote
<1>9. ASSUME row'[e] = [Settle(row[e], "FAILED") EXCEPT !.due = FALSE]
      PROVE  Wrote(e, "FAILED", row[e].attempts, None)
  BY <1>9, Bare, SettleIs, Zenon DEF Wrote
<1>10. ASSUME row'[e] = [Settle(row[e], "PENDING") EXCEPT !.due = FALSE]
      PROVE  Wrote(e, "PENDING", row[e].attempts, None)
  BY <1>10, Bare, SettleIs, Zenon DEF Wrote
<1>11. ASSUME row'[e] = [Settle(row[e], "PROCESSING") EXCEPT !.due = FALSE]
      PROVE  Wrote(e, "PROCESSING", row[e].attempts, None)
  BY <1>11, Bare, SettleIs, Zenon DEF Wrote
<1>12. ASSUME row'[e] = [Settle(row[e], row[e].status) EXCEPT !.due = FALSE]
      PROVE  Wrote(e, row[e].status, row[e].attempts, None)
  BY <1>12, Bare, SettleIs, Zenon DEF Wrote
<1>13. ASSUME row'[e] = [Settle(row[e], row[e].status) EXCEPT !.queued = "FRESH"]
      PROVE  Wrote(e, row[e].status, row[e].attempts, None)
  <2>1. row[e].status \in Statuses
    BY Bare
  <2>2. Is([Settle(row[e], row[e].status) EXCEPT !.queued = "FRESH"],
           row[e].status, row[e].attempts, None)
    BY <2>1, SettleIs, Zenon
  <2> QED  BY <1>13, <2>2, Zenon DEF Wrote
<1>14. ASSUME row[e].lock = "HELD", row'[e] = [row[e] EXCEPT !.lock = "STALE"]
      PROVE  Wrote(e, row[e].status, row[e].attempts, row[e].token)
  <2>1. Is([row[e] EXCEPT !.lock = "STALE"], row[e].status, row[e].attempts, row[e].token)
    BY <1>14 DEF Is, RowOK, RowTypes, Open
  <2> QED  BY <1>14, <2>1, Zenon DEF Wrote
<1> QED
  BY <1>1, <1>2, <1>3, <1>4, <1>5, <1>6, <1>7, <1>8, <1>9, <1>10, <1>11, <1>12, <1>13, <1>14, Zenon

(* What taking up a row makes of it.                                       *)
LEMMA RowClaims ==
  ASSUME NEW e, RowOK(row[e]), NEW t \in Consumers \cup Relays
  PROVE
    /\ row'[e] = [row[e] EXCEPT !.status = "PROCESSING", !.lock = "HELD", !.token = t] =>
         Wrote(e, "PROCESSING", row[e].attempts, t)
    /\ row'[e] = [row[e] EXCEPT !.lock = "HELD", !.token = t] =>
         Wrote(e, row[e].status, row[e].attempts, t)
    /\ row[e].attempts < MaxAttempts
       /\ row'[e] = [row[e] EXCEPT !.status = "PROCESSING", !.attempts = @ + 1,
                                   !.lock = "HELD", !.token = t] =>
         Wrote(e, "PROCESSING", row[e].attempts + 1, t)
<1>1. ASSUME row'[e] = [row[e] EXCEPT !.status = "PROCESSING", !.lock = "HELD", !.token = t]
      PROVE  Wrote(e, "PROCESSING", row[e].attempts, t)
  <2>1. Is([row[e] EXCEPT !.status = "PROCESSING", !.lock = "HELD", !.token = t],
           "PROCESSING", row[e].attempts, t)
    BY ActorsAssumption DEF Is, RowOK, RowTypes, Open
  <2> QED  BY <1>1, <2>1, Zenon DEF Wrote
<1>2. ASSUME row'[e] = [row[e] EXCEPT !.lock = "HELD", !.token = t]
      PROVE  Wrote(e, row[e].status, row[e].attempts, t)
  <2>1. Is([row[e] EXCEPT !.lock = "HELD", !.token = t], row[e].status, row[e].attempts, t)
    BY ActorsAssumption DEF Is, RowOK, RowTypes, Open
  <2> QED  BY <1>2, <2>1, Zenon DEF Wrote
<1>3. ASSUME row[e].attempts < MaxAttempts,
             row'[e] = [row[e] EXCEPT !.status = "PROCESSING", !.attempts = @ + 1,
                                      !.lock = "HELD", !.token = t]
      PROVE  Wrote(e, "PROCESSING", row[e].attempts + 1, t)
  <2>1. row[e].attempts + 1 \in 0 .. MaxAttempts
    BY <1>3, AttemptsAssumption DEF RowOK, RowTypes
  <2>2. Is([row[e] EXCEPT !.status = "PROCESSING", !.attempts = @ + 1,
                          !.lock = "HELD", !.token = t],
           "PROCESSING", row[e].attempts + 1, t)
    BY <2>1, ActorsAssumption DEF Is, RowOK, RowTypes, Open
  <2> QED  BY <1>3, <2>2, Zenon DEF Wrote
<1> QED
  BY <1>1, <1>2, <1>3, Zenon

(* What one step makes of a consumer; the others keep what they do.        *)
ConsumerBecomes(c, stage, received, left, current) ==
  /\ consumer'[c] = [stage |-> stage, received |-> received, left |-> left, current |-> current]
  /\ \A d \in Consumers \ {c} : consumer'[d] = consumer[d]

(* What the helpers of the consumer make of it.                            *)
LEMMA ConsumerUpdates ==
  ASSUME ConsumersTyped, NEW c \in Consumers
  PROVE  /\ \A s : Proceed(c, s) =>
              ConsumerBecomes(c, s, consumer[c].received, consumer[c].left, consumer[c].current)
         /\ \A s, e : Take(c, e, s) =>
              ConsumerBecomes(c, s, consumer[c].received, consumer[c].left, e)
         /\ \A e : Ack(c, e) =>
              \/ ConsumerBecomes(c, "IDLE", {}, {}, None) /\ consumer[c].left \subseteq {e}
              \/ ConsumerBecomes(c, "NEXT", consumer[c].received, consumer[c].left \ {e}, None)
         /\ RetryRemainder(c) =>
              /\ ConsumerBecomes(c, "IDLE", {}, {}, None)
              /\ consumer[c].left \subseteq queue' \cup deadLetters'
              /\ queue \subseteq queue' /\ deadLetters \subseteq deadLetters'
              /\ queue' \subseteq queue \cup consumer[c].left
              /\ deadLetters' \subseteq deadLetters \cup consumer[c].left
<1>1. /\ consumer[c] = [stage |-> consumer[c].stage, received |-> consumer[c].received,
                        left |-> consumer[c].left, current |-> consumer[c].current]
      /\ DOMAIN consumer = Consumers /\ consumer = [d \in Consumers |-> consumer[d]]
  BY DEF ConsumersTyped
<1>2. ASSUME NEW s, Proceed(c, s)
      PROVE  ConsumerBecomes(c, s, consumer[c].received, consumer[c].left, consumer[c].current)
  <2> DEFINE K == [stage |-> consumer[c].stage, received |-> consumer[c].received,
                   left |-> consumer[c].left, current |-> consumer[c].current]
  <2>1. /\ consumer'[c] = [consumer[c] EXCEPT !.stage = s]
        /\ \A d \in Consumers \ {c} : consumer'[d] = consumer[d]
    BY <1>1, <1>2 DEF Proceed
  <2>2. consumer'[c] = [K EXCEPT !.stage = s]
    BY <1>1, <2>1, Zenon
  <2>3. [K EXCEPT !.stage = s] = [stage |-> s, received |-> consumer[c].received,
                   left |-> consumer[c].left, current |-> consumer[c].current]
    OBVIOUS
  <2> QED  BY <2>1, <2>2, <2>3, Zenon DEF ConsumerBecomes
<1>3. ASSUME NEW s, NEW e, Take(c, e, s)
      PROVE  ConsumerBecomes(c, s, consumer[c].received, consumer[c].left, e)
  BY <1>1, <1>3 DEF Take, ConsumerBecomes, ConsumersTyped
<1>4. ASSUME NEW e, Ack(c, e)
      PROVE  \/ ConsumerBecomes(c, "IDLE", {}, {}, None) /\ consumer[c].left \subseteq {e}
             \/ ConsumerBecomes(c, "NEXT", consumer[c].received, consumer[c].left \ {e}, None)
  <2>1. CASE consumer[c].left \ {e} = {}
    BY <1>1, <1>4, <2>1 DEF Ack, Resting, ConsumerBecomes
  <2>2. CASE consumer[c].left \ {e} # {}
    BY <1>1, <1>4, <2>2 DEF Ack, ConsumerBecomes, ConsumersTyped
  <2> QED  BY <2>1, <2>2
<1>5. ASSUME RetryRemainder(c)
      PROVE  /\ ConsumerBecomes(c, "IDLE", {}, {}, None)
             /\ consumer[c].left \subseteq queue' \cup deadLetters'
             /\ queue \subseteq queue' /\ deadLetters \subseteq deadLetters'
             /\ queue' \subseteq queue \cup consumer[c].left
             /\ deadLetters' \subseteq deadLetters \cup consumer[c].left
  BY <1>1, <1>5 DEF RetryRemainder, Resting, ConsumerBecomes
<1> QED
  BY <1>2, <1>3, <1>4, <1>5, Zenon

(* The only ways in which a step changes the row of an event.              *)
Quiet(e) == Wrote(e, row[e].status, row[e].attempts, row[e].token)

Committed(e, b) ==
  /\ e \in b /\ row[e].status = "NONE"
  /\ Wrote(e, "PENDING", row[e].attempts, row[e].token)

Marked(e, b) ==
  /\ e \in b /\ dispatch[b] = {"MARK"} /\ row[e].status = "PENDING"
  /\ Wrote(e, "PROCESSED", row[e].attempts, row[e].token)

Recorded(e) ==
  /\ row[e].status = "PENDING"
  /\ Wrote(e, "PROCESSING", row[e].attempts, row[e].token)

Relayed(e, r) ==
  /\ row[e].status \in Open /\ row[e].attempts < MaxAttempts
  /\ relay'[r].stage = "CLAIMED"
  /\ Wrote(e, "PROCESSING", row[e].attempts, r)

Exhumed(e, r) ==
  /\ row[e].status \in Open /\ row[e].attempts = MaxAttempts
  /\ relay'[r].stage = "BURYING"
  /\ Wrote(e, row[e].status, row[e].attempts, r)

Released(e, r) ==
  /\ e \in relay[r].rows /\ row[e].token = r
  /\ \/ Wrote(e, row[e].status, row[e].attempts, None)
     \/ relay[r].stage = "UNSENT" /\ Wrote(e, "PENDING", row[e].attempts, None)

Buried(e, r) ==
  /\ e \in relay[r].rows /\ row[e].token = r /\ relay[r].stage = "BURIED"
  /\ Wrote(e, "FAILED", row[e].attempts, None)

Claimed(e, c) ==
  /\ row[e].status \in Open /\ row[e].attempts < MaxAttempts
  /\ consumer[c].stage = "NEXT" /\ e \in consumer'[c].left
  /\ Wrote(e, "PROCESSING", row[e].attempts + 1, c)

Finished(e, c) ==
  /\ e = consumer[c].current /\ consumer[c].stage = "PUBLISHED" /\ Owns(c, e)
  /\ consumer'[c].stage \in {"IDLE", "NEXT"}
  /\ Wrote(e, "PROCESSED", row[e].attempts, None)

Returned(e, c) ==
  /\ e = consumer[c].current /\ Owns(c, e) /\ consumer'[c].stage = "IDLE"
  /\ Wrote(e, "PROCESSING", row[e].attempts, None)

GivenUp(e, c) ==
  /\ e = consumer[c].current /\ consumer[c].stage \in {"REFUSED", "ERROR"}
  /\ row[e].status \in Open /\ row[e].attempts = MaxAttempts
  /\ consumer'[c] = [consumer[c] EXCEPT !.stage = "DEAD"]
  /\ Wrote(e, "FAILED", row[e].attempts, None)

Replayed(e) == row[e].status = "FAILED" /\ MaxReplays > 0 /\ Wrote(e, "PENDING", 0, None)

Purged(e) ==
  row[e].status = "PROCESSED" /\ Wrote(e, "PURGED", row[e].attempts, row[e].token)

RowMoves(e) ==
  \/ Quiet(e) \/ Recorded(e) \/ Replayed(e) \/ Purged(e)
  \/ \E b \in Commits : Committed(e, b) \/ Marked(e, b)
  \/ \E r \in Relays : Relayed(e, r) \/ Exhumed(e, r) \/ Released(e, r) \/ Buried(e, r)
  \/ \E c \in Consumers : Claimed(e, c) \/ Finished(e, c) \/ Returned(e, c) \/ GivenUp(e, c)

(* A replayed row starts anew.                                             *)
LEMMA ReplayWrites ==
  ASSUME TypeInv, NEW e \in Events, Replay(e)
  PROVE  Wrote(e, "PENDING", 0, None) /\ row[e].status = "FAILED" /\ MaxReplays > 0
<1>1. row'[e] = [Absent EXCEPT !.status = "PENDING"]
  BY TypeSplit DEF Replay, TypeInv, RowsTyped
<1>2. row'[e] = [status |-> "PENDING", attempts |-> 0, due |-> TRUE,
                 queued |-> "NEVER", lock |-> "FREE", token |-> None]
  BY <1>1 DEF Absent
<1>3. Wrote(e, "PENDING", 0, None)
  BY <1>2, AttemptsAssumption DEF Wrote, Is, RowOK, RowTypes, Open
<1>4. row[e].status = "FAILED" /\ MaxReplays > 0
  BY TypeSplit, AttemptsAssumption DEF TypeInv, Replay
<1> QED
  BY <1>3, <1>4

(* Every step moves a row in one of these ways.                            *)
LEMMA RowStep ==
  ASSUME TypeInv, [Next]_vars, NEW e \in Events
  PROVE  RowMoves(e)
<1>1. /\ RowOK(row[e]) /\ row[e].status \in Statuses /\ row[e].attempts <= MaxAttempts
      /\ DOMAIN row = Events
  BY TypeSplit, AttemptsAssumption DEF TypeInv, RowsTyped, RowOK, RowTypes, Statuses, Open
<1>2. ASSUME row'[e] = row[e]
      PROVE  RowMoves(e)
  BY <1>1, <1>2 DEF RowMoves, Quiet, Wrote, Is
<1>3. ASSUME NEW b \in Commits, NEW mode \in Modes, Commit(b, mode)
      PROVE  RowMoves(e)
  <2>1. CASE e \in b
    <3>1. row'[e] = [row[e] EXCEPT !.status = "PENDING"] /\ row[e].status = "NONE"
      BY <1>3, <2>1 DEF Commit, Update
    <3>2. Committed(e, b)
      BY <2>1, <3>1, <1>1, RowUpdates, Zenon DEF Committed, Wrote
    <3> QED  BY <3>2 DEF RowMoves
  <2>2. CASE e \notin b
    BY <2>2, <1>2, <1>3 DEF Commit, Update
  <2> QED  BY <2>1, <2>2
<1>4. ASSUME NEW b \in Commits, MarkDirectlyProcessed(b)
      PROVE  RowMoves(e)
  <2>1. CASE e \in b /\ row[e].status = "PENDING"
    <3>1. row'[e] = [row[e] EXCEPT !.status = "PROCESSED"]
      BY <1>4, <2>1 DEF MarkDirectlyProcessed, Update
    <3>2. Marked(e, b)
      BY <1>4, <2>1, <3>1, <1>1, RowUpdates, Zenon DEF Marked, MarkDirectlyProcessed, Wrote
    <3> QED  BY <3>2 DEF RowMoves
  <2>2. CASE ~(e \in b /\ row[e].status = "PENDING")
    BY <2>2, <1>2, <1>4 DEF MarkDirectlyProcessed, Update
  <2> QED  BY <2>1, <2>2
<1>5. ASSUME NEW b \in Commits, RecordSend(b)
      PROVE  RowMoves(e)
  <2>1. CASE e \in b /\ row[e].status = "PENDING"
    <3>1. row'[e] = [row[e] EXCEPT !.status = "PROCESSING", !.queued = "FRESH", !.due = TRUE]
      BY <1>5, <2>1 DEF RecordSend, Update
    <3>2. Recorded(e)
      BY <2>1, <3>1, <1>1, RowUpdates, Zenon DEF Recorded, Wrote
    <3> QED  BY <3>2 DEF RowMoves
  <2>2. CASE ~(e \in b /\ row[e].status = "PENDING")
    BY <2>2, <1>2, <1>5 DEF RecordSend, Update
  <2> QED  BY <2>1, <2>2
<1>6. ASSUME NEW r \in Relays, RelayClaim(r)
      PROVE  RowMoves(e)
  <2>1. CASE e \in RelayCandidates
    <3>1. row'[e] = [row[e] EXCEPT !.status = "PROCESSING", !.lock = "HELD", !.token = r]
      BY <1>6, <2>1 DEF RelayClaim, Update
    <3>2. row[e].status \in Open /\ row[e].attempts < MaxAttempts
      BY <2>1 DEF RelayCandidates, Open
    <3>3. relay'[r].stage = "CLAIMED"
      BY <1>6, TypeSplit DEF RelayClaim, TypeInv, RelaysTyped
    <3>4. Relayed(e, r)
      BY <3>1, <3>2, <3>3, <1>1, RowClaims, Zenon DEF Relayed, Wrote
    <3> QED  BY <3>4 DEF RowMoves
  <2>2. CASE e \notin RelayCandidates
    BY <2>2, <1>2, <1>6 DEF RelayClaim, Update
  <2> QED  BY <2>1, <2>2
<1>7. ASSUME NEW r \in Relays, BuryClaim(r)
      PROVE  RowMoves(e)
  <2>1. CASE e \in Exhausted
    <3>1. row'[e] = [row[e] EXCEPT !.lock = "HELD", !.token = r]
      BY <1>7, <2>1 DEF BuryClaim, Update
    <3>2. row[e].attempts = MaxAttempts /\ row[e].status \in Open
      BY <2>1, <1>1, AttemptsAssumption DEF Exhausted, RowOK, RowTypes
    <3>3. relay'[r].stage = "BURYING"
      BY <1>7, TypeSplit DEF BuryClaim, TypeInv, RelaysTyped
    <3>4. Exhumed(e, r)
      BY <3>1, <3>2, <3>3, <1>1, RowClaims, Zenon DEF Exhumed, Wrote
    <3> QED  BY <3>4 DEF RowMoves
  <2>2. CASE e \notin Exhausted
    BY <2>2, <1>2, <1>7 DEF BuryClaim, Update
  <2> QED  BY <2>1, <2>2
<1>8. ASSUME NEW r \in Relays,
             RelayRecord(r) \/ RelayRestore(r) \/ BuryRecord(r) \/ BuryRestore(r)
      PROVE  RowMoves(e)
  <2>1. CASE e \in Mine(r)
    <3>1. e \in relay[r].rows /\ row[e].token = r
      BY <2>1 DEF Mine
    <3>2. CASE RelayRecord(r)
      <4>1. row'[e] = [Settle(row[e], row[e].status) EXCEPT !.queued = "FRESH"]
        BY <3>2, <2>1 DEF RelayRecord, Update
      <4> QED  BY <4>1, <3>1, <1>1, RowUpdates, Zenon DEF Released, RowMoves, Wrote
    <3>3. CASE RelayRestore(r)
      <4>1. row'[e] = [Settle(row[e], "PENDING") EXCEPT !.due = FALSE]
        BY <3>3, <2>1 DEF RelayRestore, Update
      <4>2. relay[r].stage = "UNSENT"
        BY <3>3 DEF RelayRestore, RelayEnds
      <4> QED  BY <4>1, <4>2, <3>1, <1>1, RowUpdates, Zenon DEF Released, RowMoves, Wrote
    <3>4. CASE BuryRecord(r)
      <4>1. row'[e] = Settle(row[e], "FAILED")
        BY <3>4, <2>1 DEF BuryRecord, Update
      <4>2. relay[r].stage = "BURIED"
        BY <3>4 DEF BuryRecord, RelayEnds
      <4> QED  BY <4>1, <4>2, <3>1, <1>1, RowUpdates, Zenon DEF Buried, RowMoves, Wrote
    <3>5. CASE BuryRestore(r)
      <4>1. row'[e] = [Settle(row[e], row[e].status) EXCEPT !.due = FALSE]
        BY <3>5, <2>1 DEF BuryRestore, Update
      <4> QED  BY <4>1, <3>1, <1>1, RowUpdates, Zenon DEF Released, RowMoves, Wrote
    <3> QED  BY <1>8, <3>2, <3>3, <3>4, <3>5
  <2>2. CASE e \notin Mine(r)
    BY <2>2, <1>2, <1>8 DEF RelayRecord, RelayRestore, BuryRecord, BuryRestore, Update
  <2> QED  BY <2>1, <2>2
<1>9. ASSUME NEW c \in Consumers, NEW f \in Events, Claim(c, f)
      PROVE  RowMoves(e)
  <2>1. CASE e = f
    <3>1. row'[e] = [row[e] EXCEPT !.status = "PROCESSING", !.attempts = @ + 1,
                                   !.lock = "HELD", !.token = c]
      BY <1>9, <2>1 DEF Claim, Update
    <3>2. row[e].status \in Open /\ row[e].attempts < MaxAttempts
      BY <1>9, <2>1 DEF Claim, Claimable
    <3>3. consumer[c].stage = "NEXT" /\ e \in consumer'[c].left
      BY <1>9, <2>1, TypeSplit DEF Claim, Take, Earliest, TypeInv, ConsumersTyped
    <3>4. Claimed(e, c)
      BY <3>1, <3>2, <3>3, <1>1, RowClaims, Zenon DEF Claimed, Wrote
    <3> QED  BY <3>4 DEF RowMoves
  <2>2. CASE e # f
    BY <2>2, <1>2, <1>9 DEF Claim, Update
  <2> QED  BY <2>1, <2>2
<1>10. ASSUME NEW c \in Consumers, Examine(c)
       PROVE  RowMoves(e)
  <2>1. CASE row'[e] # row[e]
    <3>1. /\ e = consumer[c].current /\ e \in Exhausted
          /\ row'[e] = Settle(row[e], "FAILED")
          /\ consumer' = [consumer EXCEPT ![c].stage = "DEAD"]
          /\ consumer[c].stage \in {"REFUSED", "ERROR"}
      BY <1>10, <2>1 DEF Examine, AnswerSettled, Update, Proceed
    <3>2. row[e].attempts = MaxAttempts /\ row[e].status \in Open
      BY <3>1, <1>1, AttemptsAssumption DEF Exhausted, RowOK, RowTypes
    <3>3. GivenUp(e, c)
      <4>1. Wrote(e, "FAILED", row[e].attempts, None)
        BY <3>1, <1>1, RowUpdates, Zenon DEF Wrote
      <4>2. consumer'[c] = [consumer[c] EXCEPT !.stage = "DEAD"]
        BY <3>1, TypeSplit DEF TypeInv, ConsumersTyped
      <4> QED  BY <3>1, <3>2, <4>1, <4>2, Zenon DEF GivenUp
    <3> QED  BY <3>3 DEF RowMoves
  <2> QED  BY <2>1, <1>2
<1>11. ASSUME NEW c \in Consumers, MarkProcessed(c)
       PROVE  RowMoves(e)
  <2>1. CASE row'[e] # row[e]
    <3>1. /\ e = consumer[c].current /\ Owns(c, e)
          /\ row'[e] = Settle(row[e], "PROCESSED")
          /\ consumer[c].stage = "PUBLISHED"
      BY <1>11, <2>1 DEF MarkProcessed, Update
    <3>2. consumer'[c].stage \in {"IDLE", "NEXT"}
      <4>1. Owns(c, consumer[c].current)
        BY <3>1
      <4>2. Ack(c, consumer[c].current)
        BY <1>11, <4>1 DEF MarkProcessed
      <4>3. ConsumersTyped
        BY TypeSplit DEF TypeInv
      <4> DEFINE f == consumer[c].current
      <4>4. \/ ConsumerBecomes(c, "IDLE", {}, {}, None)
            \/ ConsumerBecomes(c, "NEXT", consumer[c].received, consumer[c].left \ {f}, None)
        BY <4>2, <4>3, ConsumerUpdates
      <4> QED  BY <4>4 DEF ConsumerBecomes
    <3>3. Finished(e, c)
      BY <3>1, <3>2, <1>1, RowUpdates, Zenon DEF Finished, Wrote
    <3> QED  BY <3>3 DEF RowMoves
  <2> QED  BY <2>1, <1>2
<1>12. ASSUME NEW c \in Consumers, HandleError(c)
       PROVE  RowMoves(e)
  <2>1. CASE row'[e] # row[e]
    <3>1. /\ e = consumer[c].current /\ Owns(c, e) /\ consumer[c].stage = "ERROR"
          /\ \/ /\ LastAttempt(e)
                /\ row'[e] = [Settle(row[e], "FAILED") EXCEPT !.due = FALSE]
                /\ consumer' = [consumer EXCEPT ![c].stage = "DEAD"]
             \/ /\ row'[e] = [Settle(row[e], "PROCESSING") EXCEPT !.due = FALSE]
                /\ RetryRemainder(c)
      BY <1>12, <2>1 DEF HandleError, AnswerSettled, Update, Proceed
    <3>2. CASE /\ row'[e] = [Settle(row[e], "PROCESSING") EXCEPT !.due = FALSE]
               /\ RetryRemainder(c)
      <4>1. consumer'[c].stage = "IDLE"
        BY <3>2, TypeSplit, ConsumerUpdates DEF TypeInv, ConsumerBecomes
      <4> QED  BY <3>1, <3>2, <4>1, <1>1, RowUpdates, Zenon DEF Returned, RowMoves, Wrote
    <3>3. CASE /\ LastAttempt(e)
               /\ row'[e] = [Settle(row[e], "FAILED") EXCEPT !.due = FALSE]
               /\ consumer' = [consumer EXCEPT ![c].stage = "DEAD"]
      <4>1. row[e].attempts = MaxAttempts /\ row[e].status \in Open
        BY <3>1, <3>3, <1>1, AttemptsAssumption DEF LastAttempt, Owns, Open, RowOK, RowTypes
      <4>2. GivenUp(e, c)
        <5>1. Wrote(e, "FAILED", row[e].attempts, None)
          BY <3>3, <1>1, RowUpdates, Zenon DEF Wrote
        <5>2. consumer'[c] = [consumer[c] EXCEPT !.stage = "DEAD"]
          BY <3>3, TypeSplit DEF TypeInv, ConsumersTyped
        <5>3. consumer[c].stage \in {"REFUSED", "ERROR"}
          BY <3>1
        <5> QED  BY <3>1, <4>1, <5>1, <5>2, <5>3, Zenon DEF GivenUp
      <4> QED  BY <4>2 DEF RowMoves
    <3> QED  BY <3>1, <3>2, <3>3
  <2> QED  BY <2>1, <1>2
<1>13. ASSUME NEW f \in Events, Replay(f)
       PROVE  RowMoves(e)
  <2>1. CASE e = f
    BY <1>13, <2>1, ReplayWrites DEF Replayed, RowMoves
  <2>2. CASE e # f
    BY <2>2, <1>2, <1>13, <1>1 DEF Replay
  <2> QED  BY <2>1, <2>2
<1>14. ASSUME NEW f \in Events, Purge(f)
       PROVE  RowMoves(e)
  <2>1. CASE e = f
    <3>1. row'[e] = [row[e] EXCEPT !.status = "PURGED"] /\ row[e].status = "PROCESSED"
      BY <1>14, <2>1 DEF Purge, Update
    <3> QED  BY <3>1, <1>1, RowUpdates, Zenon DEF Purged, RowMoves, Wrote
  <2>2. CASE e # f
    BY <2>2, <1>2, <1>14 DEF Purge, Update
  <2> QED  BY <2>1, <2>2
<1>15. ASSUME NEW f \in Events, BecomesDue(f) \/ LockExpires(f) \/ QueueingExpires(f)
       PROVE  RowMoves(e)
  <2>1. CASE row'[e] # row[e]
    <3>1. \/ row'[e] = [row[e] EXCEPT !.due = TRUE]
          \/ row'[e] = [row[e] EXCEPT !.lock = "STALE"] /\ row[e].lock = "HELD"
          \/ row'[e] = [row[e] EXCEPT !.queued = "STALE"]
      BY <1>15, <2>1, <1>1 DEF BecomesDue, LockExpires, QueueingExpires, Ages
    <3> QED  BY <3>1, <1>1, RowUpdates, Zenon DEF Quiet, RowMoves, Wrote
  <2> QED  BY <2>1, <1>2
<1>16. CASE UNCHANGED vars
  BY <1>2, <1>16 DEF vars
<1>17. CASE UNCHANGED row
  BY <1>2, <1>17
<1> QED
  BY <1>3, <1>4, <1>5, <1>6, <1>7, <1>8, <1>9, <1>10, <1>11, <1>12, <1>13, <1>14, <1>15,
     <1>16, <1>17
  DEF Next, Dispatch, RelayWorks, ConsumerWorks, DirectProject, DirectPublish, DirectSend,
      DispatchStops, RelaySend, RelaySendFails, BurySend, BurySendFails, RelayDies, Receive,
      ClaimLater, ClaimRefused, Project, Publish, Fail, DeadLetter, ConsumerDies

(* The only ways in which a step changes what a consumer does.             *)
Opens(c) ==
  /\ consumer[c].stage = "IDLE"
  /\ \E B \in SUBSET queue : ConsumerBecomes(c, "NEXT", B, B, None)

Takes(c) ==
  /\ consumer[c].stage = "NEXT"
  /\ \E e \in Earliest(consumer[c].left), stage \in {"CLAIMED", "REFUSED"} :
       ConsumerBecomes(c, stage, consumer[c].received, consumer[c].left, e)

Proceeds(c, stage) ==
  /\ consumer[c].stage \notin {"IDLE", "NEXT"}
  /\ ConsumerBecomes(c, stage, consumer[c].received, consumer[c].left, consumer[c].current)
  /\ stage = "PROJECTED" => /\ consumer[c].stage = "CLAIMED"
                            /\ {consumer[c].current} \cap Projecting \subseteq projected'
  /\ stage = "PUBLISHED" => consumer[c].stage = "PROJECTED" /\ consumer[c].current \in published'
  /\ stage = "DEAD" => row'[consumer[c].current].status = "FAILED"

Acks(c) ==
  LET e == consumer[c].current IN
  /\ consumer[c].stage \notin {"IDLE", "NEXT"}
  /\ \/ ConsumerBecomes(c, "IDLE", {}, {}, None) /\ consumer[c].left \subseteq {e}
     \/ ConsumerBecomes(c, "NEXT", consumer[c].received, consumer[c].left \ {e}, None)
  /\ \/ row'[e].status \in {"PROCESSED", "PURGED"}
     \/ consumer[c].stage = "DEAD" /\ e \in deadLetters'

Drops(c) ==
  /\ ConsumerBecomes(c, "IDLE", {}, {}, None)
  /\ consumer[c].left \subseteq queue' \cup deadLetters'

ConsumerMoves(c) ==
  \/ consumer'[c] = consumer[c]
  \/ Opens(c) \/ Takes(c) \/ Acks(c) \/ Drops(c)
  \/ \E stage \in {"PROJECTED", "PUBLISHED", "ERROR", "DEAD"} : Proceeds(c, stage)

(* Every step moves a consumer in one of these ways.                       *)
LEMMA ConsumerStep ==
  ASSUME TypeInv, [Next]_vars, NEW c \in Consumers
  PROVE  ConsumerMoves(c)
<1>0. ConsumersTyped /\ RowsTyped /\ consumer = [d \in Consumers |-> consumer[d]]
  BY TypeSplit DEF TypeInv, ConsumersTyped
<1>1. CASE UNCHANGED consumer
  BY <1>0, <1>1 DEF ConsumerMoves
<1>2. ASSUME NEW d \in Consumers, d # c, \E s, R, L, e : ConsumerBecomes(d, s, R, L, e)
      PROVE  ConsumerMoves(c)
  BY <1>2 DEF ConsumerBecomes, ConsumerMoves
<1>3. ASSUME NEW d \in Consumers, NEW B \in SUBSET Events, Receive(d, B)
      PROVE  ConsumerMoves(c)
  <2>1. ConsumerBecomes(d, "NEXT", B, B, None) /\ consumer[d].stage = "IDLE" /\ B \subseteq queue
    BY <1>0, <1>3 DEF Receive, ConsumerBecomes
  <2>2. CASE d = c
    BY <2>1, <2>2 DEF Opens, ConsumerMoves, ConsumerBecomes
  <2> QED  BY <1>2, <2>1, <2>2
<1>4. ASSUME NEW d \in Consumers, NEW e \in Events, Claim(d, e) \/ ClaimRefused(d, e)
      PROVE  ConsumerMoves(c)
  <2>1. \E s \in {"CLAIMED", "REFUSED"} :
          ConsumerBecomes(d, s, consumer[d].received, consumer[d].left, e)
    BY <1>0, <1>4, ConsumerUpdates DEF Claim, ClaimRefused
  <2>2. consumer[d].stage = "NEXT" /\ e \in Earliest(consumer[d].left)
    BY <1>4 DEF Claim, ClaimRefused
  <2>3. CASE d = c
    <3>1. Takes(c)  BY <2>1, <2>2, <2>3 DEF Takes
    <3> QED  BY <3>1 DEF ConsumerMoves
  <2> QED  BY <1>2, <2>1, <2>3
<1>5. ASSUME NEW d \in Consumers, RetryRemainder(d)
      PROVE  ConsumerMoves(c)
  <2>1. ConsumerBecomes(d, "IDLE", {}, {}, None) /\ consumer[d].left \subseteq queue' \cup deadLetters'
    BY <1>0, <1>5, ConsumerUpdates
  <2>2. CASE d = c
    BY <2>1, <2>2 DEF Drops, ConsumerMoves, ConsumerBecomes
  <2> QED  BY <1>2, <2>1, <2>2
<1>6. ASSUME NEW d \in Consumers, NEW s \in {"PROJECTED", "PUBLISHED", "ERROR", "DEAD"},
             Proceed(d, s), consumer[d].stage \notin {"IDLE", "NEXT"},
             s = "PROJECTED" => /\ consumer[d].stage = "CLAIMED"
                                /\ {consumer[d].current} \cap Projecting \subseteq projected',
             s = "PUBLISHED" => consumer[d].stage = "PROJECTED" /\ consumer[d].current \in published',
             s = "DEAD" => row'[consumer[d].current].status = "FAILED"
      PROVE  ConsumerMoves(c)
  <2>1. ConsumerBecomes(d, s, consumer[d].received, consumer[d].left, consumer[d].current)
    BY <1>0, <1>6, ConsumerUpdates
  <2>2. CASE d = c
    <3>1. Proceeds(c, s)  BY <1>6, <2>1, <2>2 DEF Proceeds
    <3> QED  BY <3>1 DEF ConsumerMoves
  <2> QED  BY <1>2, <2>1, <2>2
<1>7. ASSUME NEW d \in Consumers, Ack(d, consumer[d].current),
             consumer[d].stage \notin {"IDLE", "NEXT"},
             \/ row'[consumer[d].current].status \in {"PROCESSED", "PURGED"}
             \/ consumer[d].stage = "DEAD" /\ consumer[d].current \in deadLetters'
      PROVE  ConsumerMoves(c)
  <2> DEFINE e == consumer[d].current
  <2>1. \/ ConsumerBecomes(d, "IDLE", {}, {}, None) /\ consumer[d].left \subseteq {e}
        \/ ConsumerBecomes(d, "NEXT", consumer[d].received, consumer[d].left \ {e}, None)
    BY <1>0, <1>7, ConsumerUpdates
  <2>2. CASE d = c
    <3>1. Acks(c)  BY <1>7, <2>1, <2>2 DEF Acks
    <3> QED  BY <3>1 DEF ConsumerMoves
  <2> QED  BY <1>2, <2>1, <2>2

<1>8. ASSUME NEW d \in Consumers, Project(d) \/ Publish(d) \/ Fail(d)
      PROVE  ConsumerMoves(c)
  <2>1. CASE Project(d)
    BY <1>6, <2>1 DEF Project
  <2>2. CASE Publish(d)
    BY <1>6, <2>2 DEF Publish
  <2>3. CASE Fail(d)
    BY <1>6, <2>3 DEF Fail
  <2> QED  BY <1>8, <2>1, <2>2, <2>3
<1>9. ASSUME NEW d \in Consumers, AnswerSettled(d), consumer[d].stage \notin {"IDLE", "NEXT"}
      PROVE  ConsumerMoves(c)
  BY <1>6, <1>7, <1>9 DEF AnswerSettled
<1>10. ASSUME NEW d \in Consumers, Examine(d)
       PROVE  ConsumerMoves(c)
  <2>1. CASE AnswerSettled(d)
    BY <1>9, <1>10, <2>1 DEF Examine
  <2>2. CASE RetryRemainder(d)
    BY <1>5, <2>2
  <2>3. CASE /\ consumer[d].current \in Exhausted
             /\ Update({consumer[d].current}, LAMBDA r : Settle(r, "FAILED"))
             /\ Proceed(d, "DEAD")
    <3>1. row'[consumer[d].current].status = "FAILED"
      BY <2>3, <1>0 DEF Exhausted, Update, Settle, RowsTyped, RowTypes
    <3> QED  BY <1>6, <1>10, <2>3, <3>1 DEF Examine
  <2> QED  BY <1>10, <2>1, <2>2, <2>3 DEF Examine
<1>11. ASSUME NEW d \in Consumers, MarkProcessed(d)
       PROVE  ConsumerMoves(c)
  <2>1. CASE Owns(d, consumer[d].current)
    <3>1. consumer[d].current \in Events
      BY <1>11, TypeSplit DEF MarkProcessed, TypeInv, Handling, ConsumersTyped
    <3>2. /\ row'[consumer[d].current] = Settle(row[consumer[d].current], "PROCESSED")
          /\ RowOK(row[consumer[d].current])
      BY <1>11, <2>1, <3>1, <1>0 DEF MarkProcessed, Update, RowsTyped
    <3>3. row'[consumer[d].current].status = "PROCESSED"
      BY <3>2, RowUpdates, Zenon DEF Wrote, Is
    <3> QED  BY <1>7, <1>11, <2>1, <3>3 DEF MarkProcessed
  <2>2. CASE ~Owns(d, consumer[d].current)
    BY <1>6, <1>11, <2>2 DEF MarkProcessed
  <2> QED  BY <2>1, <2>2
<1>12. ASSUME NEW d \in Consumers, HandleError(d)
       PROVE  ConsumerMoves(c)
  <2>1. CASE AnswerSettled(d)
    BY <1>9, <1>12, <2>1 DEF HandleError
  <2>2. CASE RetryRemainder(d)
    BY <1>5, <2>2
  <2>3. CASE /\ Update({consumer[d].current}, LAMBDA r : [Settle(r, "FAILED") EXCEPT !.due = FALSE])
             /\ Proceed(d, "DEAD")
    <3>1. consumer[d].current \in Events
      BY <1>12, TypeSplit DEF HandleError, TypeInv, Handling, ConsumersTyped
    <3>2. row'[consumer[d].current].status = "FAILED"
      BY <2>3, <3>1, <1>0 DEF Update, Settle, RowsTyped, RowTypes
    <3> QED  BY <1>6, <1>12, <2>3, <3>2 DEF HandleError
  <2> QED  BY <1>12, <2>1, <2>2, <2>3 DEF HandleError
<1>13. ASSUME NEW d \in Consumers, DeadLetter(d)
       PROVE  ConsumerMoves(c)
  BY <1>7, <1>13 DEF DeadLetter
<1>14. ASSUME NEW d \in Consumers, ConsumerDies(d) \/ \E e \in Events : ClaimLater(d, e)
       PROVE  ConsumerMoves(c)
  BY <1>5, <1>14 DEF ConsumerDies, ClaimLater
<1>15. CASE UNCHANGED vars
  BY <1>1, <1>15 DEF vars
<1>16. ASSUME NEW b \in Commits, Dispatch(b) \/ \E mode \in Modes : Commit(b, mode)
       PROVE  UNCHANGED consumer
  BY <1>16 DEF Dispatch, Commit, DirectProject, DirectPublish, MarkDirectlyProcessed, DirectSend,
     RecordSend, DispatchStops
<1>17. ASSUME NEW r \in Relays, RelayWorks(r)
       PROVE  UNCHANGED consumer
  BY <1>17 DEF RelayWorks, RelayClaim, RelaySend, RelaySendFails, RelayRecord, RelayRestore,
     BuryClaim, BurySend, BurySendFails, BuryRecord, BuryRestore, RelayDies
<1>18. ASSUME NEW e \in Events,
              Replay(e) \/ Purge(e) \/ BecomesDue(e) \/ LockExpires(e) \/ QueueingExpires(e)
       PROVE  UNCHANGED consumer
  BY <1>18 DEF Replay, Purge, BecomesDue, LockExpires, QueueingExpires, Ages
<1> QED
  BY <1>1, <1>3, <1>4, <1>8, <1>10, <1>11, <1>12, <1>13, <1>14, <1>15, <1>16, <1>17, <1>18
  DEF Next, ConsumerWorks

-----------------------------------------------------------------------------
(* The only ways in which a step changes what a relay does.                *)
RelayBecomes(r, stage, rows) ==
  /\ relay'[r] = [stage |-> stage, rows |-> rows]
  /\ \A q \in Relays \ {r} : relay'[q] = relay[q]

Advances(r) ==
  \/ relay[r].stage = "CLAIMED" /\ RelayBecomes(r, "SENT", relay[r].rows)
  \/ relay[r].stage = "CLAIMED" /\ RelayBecomes(r, "UNSENT", relay[r].rows)
  \/ /\ relay[r].stage = "BURYING" /\ RelayBecomes(r, "BURIED", relay[r].rows)
     /\ relay[r].rows \subseteq deadLetters'
  \/ relay[r].stage = "BURYING" /\ RelayBecomes(r, "UNBURIED", relay[r].rows)

RelayMoves(r) ==
  \/ relay'[r] = relay[r]
  \/ relay[r].stage = "IDLE" /\ RelayBecomes(r, "CLAIMED", RelayCandidates)
  \/ relay[r].stage = "IDLE" /\ RelayBecomes(r, "BURYING", Exhausted)
  \/ Advances(r)
  \/ RelayBecomes(r, "IDLE", {})

(* Every step moves a relay in one of these ways.                          *)
LEMMA RelayStepMoves ==
  ASSUME TypeInv, [Next]_vars, NEW r \in Relays
  PROVE  RelayMoves(r)
<1>0. /\ RelaysTyped /\ relay = [q \in Relays |-> relay[q]]
      /\ \A q \in Relays : relay[q] = [stage |-> relay[q].stage, rows |-> relay[q].rows]
  BY TypeSplit DEF TypeInv, RelaysTyped
<1>1. CASE UNCHANGED relay
  BY <1>0, <1>1 DEF RelayMoves
<1>2. ASSUME NEW q \in Relays, q # r, \E s, S : RelayBecomes(q, s, S)
      PROVE  RelayMoves(r)
  BY <1>2 DEF RelayBecomes, RelayMoves
<1>3. ASSUME NEW q \in Relays, RelayClaim(q) \/ BuryClaim(q)
      PROVE  RelayMoves(r)
  <2>1. /\ relay[q].stage = "IDLE"
        /\ RelayBecomes(q, "CLAIMED", RelayCandidates) \/ RelayBecomes(q, "BURYING", Exhausted)
    BY <1>0, <1>3 DEF RelayClaim, BuryClaim, RelayBecomes
  <2>2. CASE q = r
    BY <2>1, <2>2 DEF RelayMoves, RelayBecomes
  <2> QED  BY <1>2, <2>1, <2>2
<1>4. ASSUME NEW q \in Relays, NEW from, NEW to, RelayStep(q, from, to)
      PROVE  RelayBecomes(q, to, relay[q].rows) /\ relay[q].stage = from
  BY <1>0, <1>4 DEF RelayStep, RelayBecomes, RelaysTyped
<1>5. ASSUME NEW q \in Relays,
             RelaySend(q) \/ RelaySendFails(q) \/ BurySend(q) \/ BurySendFails(q)
      PROVE  RelayMoves(r)
  <2>1. Advances(q)
    <3>1. CASE RelaySend(q)
      BY <3>1, <1>4 DEF RelaySend, Advances
    <3>2. CASE RelaySendFails(q)
      BY <3>2, <1>4 DEF RelaySendFails, Advances
    <3>3. CASE BurySend(q)
      BY <3>3, <1>4 DEF BurySend, Advances
    <3>4. CASE BurySendFails(q)
      BY <3>4, <1>4 DEF BurySendFails, Advances
    <3> QED  BY <1>5, <3>1, <3>2, <3>3, <3>4
  <2>2. CASE q = r
    BY <2>1, <2>2 DEF RelayMoves, Advances, RelayBecomes
  <2>3. CASE q # r
    BY <1>2, <2>1, <2>3 DEF Advances
  <2> QED  BY <2>2, <2>3
<1>6. ASSUME NEW q \in Relays,
             RelayRecord(q) \/ RelayRestore(q) \/ BuryRecord(q) \/ BuryRestore(q) \/ RelayDies(q)
      PROVE  RelayMoves(r)
  <2>1. RelayBecomes(q, "IDLE", {})
    BY <1>0, <1>6
    DEF RelayRecord, RelayRestore, BuryRecord, BuryRestore, RelayDies, RelayEnds, Asleep, RelayBecomes
  <2>2. CASE q = r
    BY <2>1, <2>2 DEF RelayMoves, RelayBecomes
  <2> QED  BY <1>2, <2>1, <2>2
<1>7. CASE UNCHANGED vars
  BY <1>1, <1>7 DEF vars
<1>8. ASSUME NEW b \in Commits, Dispatch(b) \/ \E mode \in Modes : Commit(b, mode)
      PROVE  UNCHANGED relay
  BY <1>8 DEF Dispatch, Commit, DirectProject, DirectPublish, MarkDirectlyProcessed, DirectSend,
     RecordSend, DispatchStops
<1>9. ASSUME NEW c \in Consumers, ConsumerWorks(c) \/ \E B \in SUBSET Events : Receive(c, B)
      PROVE  UNCHANGED relay
  BY <1>9 DEF ConsumerWorks, Receive, Claim, ClaimLater, ClaimRefused, Examine, Project, Publish,
     Fail, MarkProcessed, HandleError, DeadLetter, ConsumerDies
<1>10. ASSUME NEW e \in Events,
              Replay(e) \/ Purge(e) \/ BecomesDue(e) \/ LockExpires(e) \/ QueueingExpires(e)
       PROVE  UNCHANGED relay
  BY <1>10 DEF Replay, Purge, BecomesDue, LockExpires, QueueingExpires, Ages
<1> QED
  BY <1>1, <1>3, <1>5, <1>6, <1>7, <1>8, <1>9, <1>10 DEF Next, RelayWorks

(* A step writes no row, consumer or relay but those there are.            *)
Functional ==
  /\ row = [e \in Events |-> row[e]]
  /\ consumer = [c \in Consumers |-> consumer[c]]
  /\ relay = [r \in Relays |-> relay[r]]

(* So every step leaves the three of them functions.                       *)
LEMMA FunctionsStay ==
  ASSUME TypeInv, [Next]_vars
  PROVE  Functional'
<1>0. Functional
  BY TypeSplit DEF TypeInv, RowsTyped, ConsumersTyped, RelaysTyped, Functional
<1> USE <1>0 DEF Functional
<1>1. ASSUME NEW b \in Commits, Dispatch(b) \/ \E mode \in Modes : Commit(b, mode)
      PROVE  Functional'
  BY <1>1 DEF Dispatch, Commit, DirectProject, DirectPublish, MarkDirectlyProcessed, DirectSend,
     RecordSend, DispatchStops, Update
<1>2. ASSUME NEW r \in Relays, RelayWorks(r)
      PROVE  Functional'
  BY <1>2 DEF RelayWorks, RelayClaim, RelaySend, RelaySendFails, RelayRecord, RelayRestore,
     BuryClaim, BurySend, BurySendFails, BuryRecord, BuryRestore, RelayDies, Update, RelayStep,
     RelayEnds
<1>3. ASSUME NEW c \in Consumers, ConsumerWorks(c) \/ \E B \in SUBSET Events : Receive(c, B)
      PROVE  Functional'
  <2>1. row' = [e \in Events |-> row'[e]]
    BY <1>3 DEF ConsumerWorks, Receive, Claim, ClaimLater, ClaimRefused, Examine, Project, Publish,
       Fail, MarkProcessed, HandleError, DeadLetter, ConsumerDies, AnswerSettled, Update
  <2>2. \A x : consumer' = [consumer EXCEPT ![c] = x] => consumer' = [d \in Consumers |-> consumer'[d]]
    OBVIOUS
  <2>3. consumer' = [d \in Consumers |-> consumer'[d]]
    BY <1>3, <2>2 DEF ConsumerWorks, Receive, Claim, ClaimLater, ClaimRefused, Examine, Project,
       Publish, Fail, MarkProcessed, HandleError, DeadLetter, ConsumerDies, AnswerSettled, Take,
       Proceed, Ack, RetryRemainder
  <2>4. relay' = relay
    BY <1>3 DEF ConsumerWorks, Receive, Claim, ClaimLater, ClaimRefused, Examine, Project, Publish,
       Fail, MarkProcessed, HandleError, DeadLetter, ConsumerDies
  <2> QED  BY <2>1, <2>3, <2>4
<1>4. ASSUME NEW e \in Events,
             Replay(e) \/ Purge(e) \/ BecomesDue(e) \/ LockExpires(e) \/ QueueingExpires(e)
      PROVE  Functional'
  BY <1>4 DEF Replay, Purge, BecomesDue, LockExpires, QueueingExpires, Ages, Update
<1>5. CASE UNCHANGED vars
  BY <1>5 DEF vars
<1> QED
  BY <1>1, <1>2, <1>3, <1>4, <1>5 DEF Next

(* Queue, dead letters, effects and plans keep their types.                *)
LEMMA RestStep ==
  ASSUME TypeInv, [Next]_vars
  PROVE  /\ queue' \subseteq Events /\ deadLetters' \subseteq Events
         /\ published' \subseteq Events /\ projected' \subseteq Projecting
         /\ dispatch' \in [Commits -> SUBSET {"PROJECT", "PUBLISH", "MARK", "SEND", "RECORD"}]
         /\ replays' \in 0 .. MaxReplays
<1>0. /\ RowsTyped /\ ConsumersTyped /\ RelaysTyped
      /\ queue \subseteq Events /\ deadLetters \subseteq Events
      /\ published \subseteq Events /\ projected \subseteq Projecting
      /\ dispatch \in [Commits -> SUBSET {"PROJECT", "PUBLISH", "MARK", "SEND", "RECORD"}]
      /\ replays \in 0 .. MaxReplays
  BY TypeSplit DEF TypeInv
<1> DEFINE Rest == /\ queue' \subseteq Events /\ deadLetters' \subseteq Events
                   /\ published' \subseteq Events /\ projected' \subseteq Projecting
                   /\ dispatch' \in [Commits -> SUBSET {"PROJECT", "PUBLISH", "MARK", "SEND", "RECORD"}]
                   /\ replays' \in 0 .. MaxReplays
<1>1. CASE UNCHANGED <<queue, deadLetters, published, projected, dispatch, replays>>
  BY <1>0, <1>1
<1>2. ASSUME NEW b \in Commits, Dispatch(b) \/ \E mode \in Modes : Commit(b, mode)
      PROVE  Rest
  <2>1. \A mode \in Modes : Plan[mode] \subseteq {"PROJECT", "PUBLISH", "MARK", "SEND", "RECORD"}
    BY ModesAssumption DEF Plan
  <2>2. b \subseteq Events
    BY EventsAssumption
  <2> QED
    BY <1>0, <1>2, <2>1, <2>2 DEF Dispatch, Commit, DirectProject, DirectPublish,
       MarkDirectlyProcessed, DirectSend, RecordSend, DispatchStops, Done
<1>3. ASSUME NEW r \in Relays, RelayWorks(r)
      PROVE  Rest
  BY <1>0, <1>3 DEF RelayWorks, RelayClaim, RelaySend, RelaySendFails, RelayRecord, RelayRestore,
     BuryClaim, BurySend, BurySendFails, BuryRecord, BuryRestore, RelayDies, RelaysTyped
<1>4. ASSUME NEW c \in Consumers, ConsumerWorks(c) \/ \E B \in SUBSET Events : Receive(c, B)
      PROVE  Rest
  <2>1. consumer[c].left \subseteq Events
    BY <1>0 DEF ConsumersTyped
  <2>2. RetryRemainder(c) => queue' \subseteq Events /\ deadLetters' \subseteq Events
    BY <1>0, <2>1, ConsumerUpdates
  <2>3. consumer[c].stage \notin {"IDLE", "NEXT"} => consumer[c].current \in Events
    BY <1>0, <2>1 DEF TypeInv, Handling
  <2>4. \E B \in SUBSET Events : Receive(c, B) => Rest
    BY <1>0 DEF Receive
  <2>5. ASSUME NEW e \in Events, Claim(c, e) \/ ClaimLater(c, e) \/ ClaimRefused(c, e)
        PROVE  Rest
    BY <1>0, <2>2, <2>5 DEF Claim, ClaimLater, ClaimRefused
  <2>6. CASE Examine(c) \/ HandleError(c) \/ ConsumerDies(c)
    BY <1>0, <2>2, <2>6 DEF Examine, HandleError, ConsumerDies, AnswerSettled
  <2>7. CASE Project(c) \/ Publish(c) \/ Fail(c) \/ MarkProcessed(c) \/ DeadLetter(c)
    BY <1>0, <2>3, <2>7 DEF Project, Publish, Fail, MarkProcessed, DeadLetter
  <2> QED
    BY <1>0, <1>4, <2>5, <2>6, <2>7 DEF ConsumerWorks, Receive
<1>5. ASSUME NEW e \in Events,
             Replay(e) \/ Purge(e) \/ BecomesDue(e) \/ LockExpires(e) \/ QueueingExpires(e)
      PROVE  Rest
  BY <1>0, <1>5, AttemptsAssumption DEF Replay, Purge, BecomesDue, LockExpires, QueueingExpires, Ages
<1>6. CASE UNCHANGED vars
  BY <1>1, <1>6 DEF vars
<1> QED
  BY <1>2, <1>3, <1>4, <1>5, <1>6 DEF Next

(* Types are kept, and so is that a handled event is at hand.              *)
LEMMA TypeInvStep ==
  ASSUME TypeInv, [Next]_vars
  PROVE  TypeInv' /\ RelaysTyped' /\ ConsumersTyped'
<1>0. ConsumersTyped /\ RelaysTyped /\ RowsTyped /\ queue \subseteq Events
  BY TypeSplit DEF TypeInv
<1>1. RowsTyped'
  <2>1. ASSUME NEW e \in Events
        PROVE  RowOK(row'[e])
    BY RowStep DEF RowMoves, Wrote, Is, Quiet, Committed, Marked, Recorded, Relayed, Exhumed,
       Released, Buried, Claimed, Finished, Returned, GivenUp, Replayed, Purged
  <2> QED  BY <2>1, FunctionsStay DEF Functional, RowsTyped, RowOK
<1>2. ConsumersTyped' /\ Handling'
  <2> DEFINE Stages == {"IDLE", "NEXT", "REFUSED", "CLAIMED", "PROJECTED", "PUBLISHED", "ERROR", "DEAD"}
             Typed(k) == /\ k \in [stage : Stages, received : SUBSET Events, left : SUBSET Events,
                                   current : Events \cup {None}]
                         /\ k.stage = "IDLE" => k.left = {}
                         /\ k.stage \notin {"IDLE", "NEXT"} => k.current \in k.left
  <2>1. ASSUME NEW c \in Consumers
        PROVE  Typed(consumer'[c])
    <3>1. Typed(consumer[c])
      BY <1>0 DEF ConsumersTyped, TypeInv, Handling
    <3>2. CASE consumer'[c] = consumer[c]
      BY <3>1, <3>2, Zenon
    <3>3. CASE Opens(c)
      BY <1>0, <3>3 DEF Opens, ConsumerBecomes
    <3>4. CASE Takes(c)
      BY <3>1, <3>4 DEF Takes, ConsumerBecomes, Earliest
    <3>5. CASE Acks(c)
      BY <3>1, <3>5 DEF Acks, ConsumerBecomes
    <3>6. CASE Drops(c)
      BY <3>1, <3>6 DEF Drops, ConsumerBecomes
    <3>7. ASSUME NEW s \in {"PROJECTED", "PUBLISHED", "ERROR", "DEAD"}, Proceeds(c, s)
          PROVE  Typed(consumer'[c])
      BY <3>1, <3>7 DEF Proceeds, ConsumerBecomes
    <3> QED
      BY ConsumerStep, <3>2, <3>3, <3>4, <3>5, <3>6, <3>7 DEF ConsumerMoves
  <2> QED  BY <2>1, FunctionsStay DEF Functional, ConsumersTyped, Handling
<1>3. RelaysTyped'
  <2> DEFINE Typed(x) ==
               x \in [stage : {"IDLE", "CLAIMED", "SENT", "UNSENT", "BURYING", "BURIED", "UNBURIED"},
                      rows : SUBSET Events]
  <2>1. ASSUME NEW r \in Relays
        PROVE  Typed(relay'[r])
    <3>1. relay[r].rows \subseteq Events /\ Typed(relay[r])
      BY <1>0 DEF RelaysTyped
    <3>2. CASE relay'[r] = relay[r]
      BY <3>1, <3>2, Zenon
    <3>3. CASE RelayBecomes(r, "CLAIMED", RelayCandidates) \/ RelayBecomes(r, "BURYING", Exhausted)
      BY <3>3 DEF RelayBecomes, RelayCandidates, Exhausted
    <3>4. CASE Advances(r)
      BY <3>1, <3>4 DEF Advances, RelayBecomes
    <3>5. CASE RelayBecomes(r, "IDLE", {})
      BY <3>5 DEF RelayBecomes
    <3> QED
      BY RelayStepMoves, <3>2, <3>3, <3>4, <3>5 DEF RelayMoves
  <2> QED  BY <2>1, FunctionsStay DEF Functional, RelaysTyped
<1> QED
  BY <1>1, <1>2, <1>3, RestStep
  DEF TypeInv, TypeOK, RowsTyped, RowOK, RowTypes, ConsumersTyped, RelaysTyped

(* They hold at the start.                                                 *)
LEMMA TypeInvInit ==
  ASSUME Init
  PROVE  TypeInv
BY AttemptsAssumption
DEF Init, TypeInv, TypeOK, Handling, Absent, Resting, Asleep, Open

(* Every variable of the pipeline keeps its type, and a row is locked      *)
(* exactly while a claim on it is recorded, whoever is killed.             *)
THEOREM OutboxTypes == Spec => []TypeOK
<1>1. Init => TypeInv
  BY TypeInvInit
<1>2. TypeInv /\ [Next]_vars => TypeInv'
  BY TypeInvStep
<1>3. TypeInv => TypeOK
  BY DEF TypeInv
<1> QED
  BY <1>1, <1>2, <1>3, PTL DEF Spec

-----------------------------------------------------------------------------
(* Events given up.                                                        *)

(* Whoever has a claim on a row finds it in progress, and a row that waits *)
(* to be taken up has attempts left.                                       *)
ClaimsOpen ==
  \A e \in Events :
    /\ row[e].token # None => row[e].status = "PROCESSING"
    /\ row[e].status \in {"NONE", "PENDING"} => row[e].attempts < MaxAttempts

(* What a relay still holds of its batch is as it was when it claimed it:  *)
(* with attempts left to relay, with none left to bury; and what it is     *)
(* about to bury has its message in the dead-letter queue.                 *)
BatchStands ==
  \A r \in Relays : \A e \in relay[r].rows : row[e].token = r =>
    /\ relay[r].stage \in {"CLAIMED", "SENT", "UNSENT"} => row[e].attempts < MaxAttempts
    /\ relay[r].stage \in {"BURYING", "BURIED", "UNBURIED"} => row[e].attempts = MaxAttempts
    /\ relay[r].stage = "BURIED" => e \in deadLetters

Reachable(e) ==
  \/ e \in deadLetters \cup queue
  \/ \E c \in Consumers : e \in consumer[c].left

FailInv ==
  TypeInv /\ ClaimsOpen /\ BatchStands /\ FailedAfterEveryAttempt /\ FailedReachesDeadLetters

(* A letter leaves the dead-letter queue only for a replay.                *)
LEMMA DeadLettersStep ==
  ASSUME TypeInv, [Next]_vars, NEW e \in Events, e \in deadLetters
  PROVE  e \in deadLetters' \/ Wrote(e, "PENDING", 0, None)
<1>1. ASSUME NEW c \in Consumers, RetryRemainder(c)
      PROVE  deadLetters \subseteq deadLetters'
  BY <1>1 DEF RetryRemainder
<1>2. ASSUME NEW b \in Commits, Dispatch(b) \/ \E mode \in Modes : Commit(b, mode)
      PROVE  deadLetters \subseteq deadLetters'
  BY <1>2 DEF Dispatch, Commit, DirectProject, DirectPublish, MarkDirectlyProcessed, DirectSend,
     RecordSend, DispatchStops
<1>3. ASSUME NEW r \in Relays, RelayWorks(r)
      PROVE  deadLetters \subseteq deadLetters'
  BY <1>3 DEF RelayWorks, RelayClaim, RelaySend, RelaySendFails, RelayRecord, RelayRestore,
     BuryClaim, BurySend, BurySendFails, BuryRecord, BuryRestore, RelayDies
<1>4. ASSUME NEW c \in Consumers, ConsumerWorks(c) \/ \E B \in SUBSET Events : Receive(c, B)
      PROVE  deadLetters \subseteq deadLetters'
  BY <1>1, <1>4 DEF ConsumerWorks, Receive, Claim, ClaimLater, ClaimRefused, Examine, Project,
     Publish, Fail, MarkProcessed, HandleError, DeadLetter, ConsumerDies, AnswerSettled
<1>5. ASSUME NEW f \in Events, Purge(f) \/ BecomesDue(f) \/ LockExpires(f) \/ QueueingExpires(f)
      PROVE  deadLetters \subseteq deadLetters'
  BY <1>5 DEF Purge, BecomesDue, LockExpires, QueueingExpires, Ages
<1>6. ASSUME NEW f \in Events, Replay(f)
      PROVE  e \in deadLetters' \/ Wrote(e, "PENDING", 0, None)
  <2>1. CASE e = f
    BY <1>6, <2>1, ReplayWrites
  <2>2. CASE e # f
    BY <1>6, <2>2 DEF Replay
  <2> QED  BY <2>1, <2>2
<1>7. CASE UNCHANGED vars
  BY <1>7 DEF vars
<1> QED
  BY <1>2, <1>3, <1>4, <1>5, <1>6, <1>7 DEF Next

(* The message of an event that has no attempt left and was not delivered  *)
(* is not lost.                                                            *)
LEMMA MessageStep ==
  ASSUME TypeInv, [Next]_vars, NEW e \in Events, Reachable(e),
         row'[e].status \notin {"PROCESSED", "PURGED"}, row'[e].attempts = MaxAttempts
  PROVE  Reachable(e)'
<1>1. CASE e \in deadLetters
  BY <1>1, DeadLettersStep, AttemptsAssumption DEF Reachable, Wrote, Is
<1>2. CASE e \in queue
  <2>1. ASSUME NEW c \in Consumers, NEW B \in SUBSET Events, Receive(c, B)
        PROVE  Reachable(e)'
    <3>1. consumer'[c].left = B
      BY <2>1, TypeSplit DEF Receive, TypeInv, ConsumersTyped
    <3> QED  BY <1>2, <2>1, <3>1 DEF Receive, Reachable
  <2>2. ASSUME NEW c \in Consumers, RetryRemainder(c)
        PROVE  queue \subseteq queue'
    BY <2>2 DEF RetryRemainder
  <2>3. ASSUME NEW b \in Commits, Dispatch(b) \/ \E mode \in Modes : Commit(b, mode)
        PROVE  queue \subseteq queue'
    BY <2>3 DEF Dispatch, Commit, DirectProject, DirectPublish, MarkDirectlyProcessed,
       DirectSend, RecordSend, DispatchStops
  <2>4. ASSUME NEW r \in Relays, RelayWorks(r)
        PROVE  queue \subseteq queue'
    BY <2>4 DEF RelayWorks, RelayClaim, RelaySend, RelaySendFails, RelayRecord, RelayRestore,
       BuryClaim, BurySend, BurySendFails, BuryRecord, BuryRestore, RelayDies
  <2>5. ASSUME NEW c \in Consumers, ConsumerWorks(c)
        PROVE  queue \subseteq queue'
    BY <2>2, <2>5 DEF ConsumerWorks, Claim, ClaimLater, ClaimRefused, Examine, Project, Publish,
       Fail, MarkProcessed, HandleError, DeadLetter, ConsumerDies, AnswerSettled
  <2>6. ASSUME NEW f \in Events,
               Replay(f) \/ Purge(f) \/ BecomesDue(f) \/ LockExpires(f) \/ QueueingExpires(f)
        PROVE  queue \subseteq queue'
    BY <2>6 DEF Replay, Purge, BecomesDue, LockExpires, QueueingExpires, Ages
  <2>7. CASE UNCHANGED vars
    BY <1>2, <2>7 DEF vars, Reachable
  <2> QED
    BY <1>2, <2>1, <2>3, <2>4, <2>5, <2>6, <2>7 DEF Next, Reachable
<1>3. ASSUME NEW c \in Consumers, e \in consumer[c].left
      PROVE  Reachable(e)'
  <2>1. consumer[c].stage # "IDLE"
    BY <1>3 DEF TypeInv, Handling
  <2>2. CASE consumer'[c].left = consumer[c].left
    BY <1>3, <2>2 DEF Reachable
  <2>3. CASE Acks(c)
    <3>1. CASE e = consumer[c].current
      BY <2>3, <3>1 DEF Acks, Reachable
    <3>2. CASE e # consumer[c].current
      BY <1>3, <2>3, <3>2 DEF Acks, ConsumerBecomes, Reachable
    <3> QED  BY <3>1, <3>2
  <2>4. CASE Drops(c)
    BY <1>3, <2>4 DEF Drops, Reachable
  <2>5. CASE Takes(c)
    BY <2>5, <2>2 DEF Takes, ConsumerBecomes
  <2>6. ASSUME NEW s, Proceeds(c, s)
        PROVE  Reachable(e)'
    BY <2>6, <2>2 DEF Proceeds, ConsumerBecomes
  <2> QED
    BY ConsumerStep, <2>1, <2>2, <2>3, <2>4, <2>5, <2>6 DEF ConsumerMoves, Opens
<1> QED
  BY <1>1, <1>2, <1>3 DEF Reachable

(* No step claims a row that is not in progress.                           *)
LEMMA ClaimsOpenStep ==
  ASSUME FailInv, [Next]_vars, NEW e \in Events
  PROVE  /\ row'[e].token # None => row'[e].status = "PROCESSING"
         /\ row'[e].status \in {"NONE", "PENDING"} => row'[e].attempts < MaxAttempts
<1>1. /\ row[e].token # None => row[e].status = "PROCESSING"
      /\ row[e].status \in {"NONE", "PENDING"} => row[e].attempts < MaxAttempts
  BY DEF FailInv, ClaimsOpen
<1>2. ASSUME NEW r \in Relays, Released(e, r)
      PROVE  /\ row'[e].token # None => row'[e].status = "PROCESSING"
             /\ row'[e].status \in {"NONE", "PENDING"} => row'[e].attempts < MaxAttempts
  BY <1>1, <1>2 DEF Released, Wrote, Is, FailInv, BatchStands
<1> DEFINE Goal == /\ row'[e].token # None => row'[e].status = "PROCESSING"
                   /\ row'[e].status \in {"NONE", "PENDING"} => row'[e].attempts < MaxAttempts
<1>3. CASE Quiet(e) \/ Recorded(e) \/ Replayed(e) \/ Purged(e)
  BY <1>1, <1>3, AttemptsAssumption DEF Quiet, Recorded, Replayed, Purged, Wrote, Is
<1>4. ASSUME NEW b \in Commits, Committed(e, b) \/ Marked(e, b)
      PROVE  Goal
  BY <1>1, <1>4 DEF Committed, Marked, Wrote, Is
<1>5. ASSUME NEW r \in Relays, Relayed(e, r) \/ Exhumed(e, r) \/ Buried(e, r)
      PROVE  Goal
  BY <1>1, <1>5, AttemptsAssumption DEF Relayed, Exhumed, Buried, Wrote, Is, Open
<1>6. ASSUME NEW c \in Consumers,
             Claimed(e, c) \/ Finished(e, c) \/ Returned(e, c) \/ GivenUp(e, c)
      PROVE  Goal
  BY <1>6 DEF Claimed, Finished, Returned, GivenUp, Wrote, Is
<1> QED
  BY <1>2, <1>3, <1>4, <1>5, <1>6, RowStep DEF FailInv, RowMoves

(* No step changes a row under a relay's claim and leaves the claim.       *)
LEMMA BatchStandsStep ==
  ASSUME FailInv, [Next]_vars
  PROVE  BatchStands'
<1> SUFFICES ASSUME NEW r \in Relays, NEW e \in relay'[r].rows, row'[e].token = r
             PROVE  /\ relay'[r].stage \in {"CLAIMED", "SENT", "UNSENT"} =>
                         row'[e].attempts < MaxAttempts
                    /\ relay'[r].stage \in {"BURYING", "BURIED", "UNBURIED"} =>
                         row'[e].attempts = MaxAttempts
                    /\ relay'[r].stage = "BURIED" => e \in deadLetters'
  BY DEF BatchStands
<1>1. e \in Events /\ r # None /\ r \notin Consumers
  BY TypeInvStep, ActorsAssumption DEF FailInv, RelaysTyped
<1>2. CASE Relayed(e, r)
  BY <1>2 DEF Relayed, Wrote, Is
<1>3. CASE Exhumed(e, r)
  BY <1>3 DEF Exhumed, Wrote, Is
<1>4. CASE row[e].token = r /\ row'[e].attempts = row[e].attempts
  <2>1. e \in deadLetters => e \in deadLetters'
    BY <1>1, DeadLettersStep DEF FailInv, Wrote, Is
  <2>2. row[e].attempts <= MaxAttempts /\ row[e].attempts \in Nat
    BY <1>1, TypeSplit, AttemptsAssumption DEF FailInv, TypeInv, RowsTyped, RowTypes
  <2>3. e \in relay[r].rows =>
          /\ relay[r].stage \in {"CLAIMED", "SENT", "UNSENT"} => row[e].attempts < MaxAttempts
          /\ relay[r].stage \in {"BURYING", "BURIED", "UNBURIED"} => row[e].attempts = MaxAttempts
          /\ relay[r].stage = "BURIED" => e \in deadLetters
    BY <1>4 DEF FailInv, BatchStands
  <2>4. CASE relay'[r] = relay[r]
    BY <1>4, <2>1, <2>3, <2>4
  <2>5. CASE RelayBecomes(r, "CLAIMED", RelayCandidates)
    BY <1>4, <2>5 DEF RelayBecomes, RelayCandidates
  <2>6. CASE RelayBecomes(r, "BURYING", Exhausted)
    BY <1>4, <2>2, <2>6, AttemptsAssumption DEF RelayBecomes, Exhausted
  <2>7. CASE Advances(r)
    BY <1>4, <2>3, <2>7 DEF Advances, RelayBecomes
  <2>8. CASE RelayBecomes(r, "IDLE", {})
    BY <2>8 DEF RelayBecomes
  <2> QED
    BY RelayStepMoves, <2>4, <2>5, <2>6, <2>7, <2>8 DEF FailInv, RelayMoves
<1> QED
  BY <1>1, <1>2, <1>3, <1>4, RowStep DEF FailInv, RowMoves, Wrote, Is, Quiet, Committed,
     Marked, Recorded, Relayed, Exhumed, Released, Buried, Claimed, Finished, Returned, GivenUp,
     Replayed, Purged

(* Who gives an event up has made every attempt and has its message.       *)
LEMMA FailedStep ==
  ASSUME FailInv, [Next]_vars, NEW e \in Events, row'[e].status = "FAILED"
  PROVE  row'[e].attempts = MaxAttempts /\ Reachable(e)'
<1>1. /\ row[e].status = "FAILED" => row[e].attempts = MaxAttempts /\ Reachable(e)
      /\ row[e].token # None => row[e].status = "PROCESSING"
  BY DEF FailInv, ClaimsOpen, FailedAfterEveryAttempt, FailedReachesDeadLetters, Reachable
<1>2. CASE row[e].status = "FAILED" /\ row'[e].attempts = row[e].attempts
  BY <1>1, <1>2, MessageStep DEF FailInv
<1>3. ASSUME NEW r \in Relays, Buried(e, r)
      PROVE  row'[e].attempts = MaxAttempts /\ Reachable(e)'
  <2>1. row'[e].attempts = MaxAttempts /\ e \in deadLetters
    BY <1>3 DEF Buried, FailInv, BatchStands, Wrote, Is
  <2>2. e \in deadLetters'
    BY <2>1, DeadLettersStep DEF FailInv, Wrote, Is
  <2> QED  BY <2>1, <2>2 DEF Reachable
<1>4. ASSUME NEW c \in Consumers, GivenUp(e, c)
      PROVE  row'[e].attempts = MaxAttempts /\ Reachable(e)'
  <2>1. e \in consumer[c].left
    BY <1>4 DEF GivenUp, FailInv, TypeInv, Handling
  <2> QED  BY <1>4, <2>1, MessageStep DEF GivenUp, FailInv, Wrote, Is, Reachable
<1> QED
  BY <1>1, <1>2, <1>3, <1>4, RowStep, ActorsAssumption DEF FailInv, RowMoves, Wrote, Is, Quiet,
     Committed, Marked, Recorded, Relayed, Exhumed, Released, Claimed, Finished, Returned,
     Replayed, Purged, Open

(* The invariant on events given up holds at the start ...                 *)
LEMMA FailInvInit ==
  ASSUME Init
  PROVE  FailInv
<1>1. TypeInv
  BY TypeInvInit
<1>2. /\ \A e \in Events : row[e] = Absent
      /\ \A r \in Relays : relay[r] = Asleep
  BY DEF Init
<1> QED
  BY <1>1, <1>2, AttemptsAssumption DEF FailInv, ClaimsOpen, BatchStands, FailedAfterEveryAttempt,
     FailedReachesDeadLetters, Absent, Asleep

(* ... and is kept by every step.                                          *)
LEMMA FailInvStep ==
  ASSUME FailInv, [Next]_vars
  PROVE  FailInv'
<1>1. TypeInv'
  BY TypeInvStep DEF FailInv
<1>2. ClaimsOpen'
  BY ClaimsOpenStep DEF ClaimsOpen
<1>3. BatchStands'
  BY BatchStandsStep
<1>4. FailedAfterEveryAttempt' /\ FailedReachesDeadLetters'
  BY FailedStep DEF FailedAfterEveryAttempt, FailedReachesDeadLetters, Reachable
<1> QED
  BY <1>1, <1>2, <1>3, <1>4 DEF FailInv

(* It holds always.                                                        *)
LEMMA FailInvariance == Spec => []FailInv
<1>1. Init => FailInv
  BY FailInvInit
<1>2. FailInv /\ [Next]_vars => FailInv'
  BY FailInvStep
<1> QED
  BY <1>1, <1>2, PTL DEF Spec

(* Whoever gives an event up (a consumer after an error, a consumer that   *)
(* finds it exhausted, the relay after a crash), every attempt was made,   *)
(* for any number of consumers and relays whose claims expire under them.  *)
THEOREM GivenUpAfterEveryAttempt == Spec => []FailedAfterEveryAttempt
<1>1. FailInv => FailedAfterEveryAttempt
  BY DEF FailInv
<1> QED
  BY <1>1, FailInvariance, PTL

(* An event given up always has a message that is in the dead-letter queue *)
(* or on its way there, wherever the process that gave it up was killed.   *)
THEOREM GivenUpIsReported == Spec => []FailedReachesDeadLetters
<1>1. FailInv => FailedReachesDeadLetters
  BY DEF FailInv
<1> QED
  BY <1>1, FailInvariance, PTL

-----------------------------------------------------------------------------
(* The order of versions.                                                  *)

SettledStatuses == {"PROCESSED", "PURGED", "FAILED"}

(* What a consumer has confirmed of its batch is settled, and what it      *)
(* handles is the earliest of the rest.                                    *)
BatchInOrder(c) ==
  /\ \A e \in consumer[c].received \ consumer[c].left : row[e].status \in SettledStatuses
  /\ consumer[c].stage = "DEAD" => row[consumer[c].current].status = "FAILED"
  /\ consumer[c].stage \notin {"IDLE", "NEXT"} =>
       consumer[c].current \in Earliest(consumer[c].left)

OrderInv == FailInv /\ \A c \in Consumers : BatchInOrder(c)

(* Without replays, what is settled stays settled and what is dead stays   *)
(* dead.                                                                   *)
LEMMA SettledStays ==
  ASSUME FailInv, [Next]_vars, MaxReplays = 0, NEW e \in Events
  PROVE  /\ row[e].status \in SettledStatuses => row'[e].status \in SettledStatuses
         /\ row[e].status = "FAILED" => row'[e].status = "FAILED"
<1>1. row[e].token # None => row[e].status = "PROCESSING"
  BY DEF FailInv, ClaimsOpen
<1> DEFINE Goal == /\ row[e].status \in SettledStatuses => row'[e].status \in SettledStatuses
                   /\ row[e].status = "FAILED" => row'[e].status = "FAILED"
<1>2. CASE Quiet(e) \/ Recorded(e) \/ Replayed(e) \/ Purged(e)
  BY <1>2, AttemptsAssumption DEF Quiet, Recorded, Replayed, Purged, Wrote, Is, SettledStatuses
<1>3. ASSUME NEW b \in Commits, Committed(e, b) \/ Marked(e, b)
      PROVE  Goal
  BY <1>3 DEF Committed, Marked, Wrote, Is, SettledStatuses
<1>4. ASSUME NEW r \in Relays,
             Relayed(e, r) \/ Exhumed(e, r) \/ Released(e, r) \/ Buried(e, r)
      PROVE  Goal
  BY <1>1, <1>4, ActorsAssumption
  DEF Relayed, Exhumed, Released, Buried, Wrote, Is, Open, SettledStatuses
<1>5. ASSUME NEW c \in Consumers,
             Claimed(e, c) \/ Finished(e, c) \/ Returned(e, c) \/ GivenUp(e, c)
      PROVE  Goal
  BY <1>5 DEF Claimed, Finished, Returned, GivenUp, Owns, Wrote, Is, Open, SettledStatuses
<1> QED
  BY <1>2, <1>3, <1>4, <1>5, RowStep DEF FailInv, RowMoves

(* A batch stays in order.                                                 *)
LEMMA OrderStep ==
  ASSUME OrderInv, [Next]_vars, MaxReplays = 0, NEW c \in Consumers
  PROVE  BatchInOrder(c)'
<1>1. /\ consumer[c].received \subseteq Events /\ consumer[c].left \subseteq Events
      /\ consumer[c].stage \notin {"IDLE", "NEXT"} => consumer[c].current \in consumer[c].left
      /\ BatchInOrder(c) /\ FailInv /\ TypeInv
  BY TypeSplit DEF OrderInv, FailInv, TypeInv, Handling, ConsumersTyped
<1>2. \A e \in consumer[c].received \ consumer[c].left : row'[e].status \in SettledStatuses
  BY <1>1, SettledStays DEF BatchInOrder
<1>3. consumer[c].stage = "DEAD" => row'[consumer[c].current].status = "FAILED"
  BY <1>1, SettledStays DEF BatchInOrder
<1>4. CASE consumer'[c] = consumer[c]
  BY <1>1, <1>2, <1>3, <1>4 DEF BatchInOrder, Earliest
<1>5. CASE Opens(c)
  BY <1>5 DEF Opens, ConsumerBecomes, BatchInOrder
<1>6. CASE Takes(c)
  BY <1>2, <1>6 DEF Takes, ConsumerBecomes, BatchInOrder, Earliest
<1>7. CASE Acks(c)
  BY <1>2, <1>3, <1>7 DEF Acks, ConsumerBecomes, BatchInOrder, SettledStatuses
<1>8. CASE Drops(c)
  BY <1>8 DEF Drops, ConsumerBecomes, BatchInOrder
<1>9. ASSUME NEW s \in {"PROJECTED", "PUBLISHED", "ERROR", "DEAD"}, Proceeds(c, s)
      PROVE  BatchInOrder(c)'
  BY <1>1, <1>2, <1>9 DEF Proceeds, ConsumerBecomes, BatchInOrder, Earliest
<1> QED
  BY <1>1, <1>4, <1>5, <1>6, <1>7, <1>8, <1>9, ConsumerStep DEF ConsumerMoves

(* Without replays no consumer overtakes an earlier version that came in   *)
(* its batch and is still to be settled, however often messages return,    *)
(* claims expire and consumers die.                                        *)
THEOREM VersionsInOrder ==
  ASSUME MaxReplays = 0
  PROVE  Spec => []InOrderWithinBatch
<1>1. Init => OrderInv
  BY FailInvInit DEF Init, OrderInv, BatchInOrder, Resting
<1>2. OrderInv /\ [Next]_vars => OrderInv'
  BY FailInvStep, OrderStep DEF OrderInv
<1>3. OrderInv => InOrderWithinBatch
  <2> SUFFICES ASSUME OrderInv, NEW c \in Consumers, NEW e \in consumer[c].received,
                      consumer[c].stage \in {"CLAIMED", "PROJECTED", "PUBLISHED"},
                      Version[e] < Version[consumer[c].current]
               PROVE  row[e].status \notin Open
    BY DEF InOrderWithinBatch
  <2>1. /\ consumer[c].current \in Earliest(consumer[c].left)
        /\ consumer[c].received \subseteq Events /\ consumer[c].left \subseteq Events
    BY TypeSplit DEF OrderInv, BatchInOrder, FailInv, TypeInv, ConsumersTyped
  <2>2. e \notin consumer[c].left
    BY <2>1, EventsAssumption DEF Earliest
  <2> QED  BY <2>2 DEF OrderInv, BatchInOrder, SettledStatuses, Open
<1> QED
  BY <1>1, <1>2, <1>3, PTL DEF Spec

-----------------------------------------------------------------------------
(* The promise of EventDelivery.                                           *)

(* In the queue, or in the hands of a dispatch, a relay or a consumer.     *)
InHand(e) ==
  \/ e \in queue
  \/ \E b \in Commits : dispatch[b] # {} /\ e \in b
  \/ \E r \in Relays : e \in relay[r].rows
  \/ \E c \in Consumers : e \in consumer[c].left

(* Who has an event in hand has one that was committed.                    *)
OnlyCommitted ==
  \A e \in Events : InHand(e) => row[e].status # "NONE"

(* A dispatch that may still mark its events has done what it no longer    *)
(* has to do.                                                              *)
DispatchDone ==
  \A b \in Commits : "MARK" \in dispatch[b] =>
    /\ "PUBLISH" \notin dispatch[b] => b \subseteq published
    /\ "PROJECT" \notin dispatch[b] => b \cap Projecting \subseteq projected

(* A consumer has done what its stage says.                                *)
HandlingDone ==
  \A c \in Consumers :
    /\ consumer[c].stage \in {"PROJECTED", "PUBLISHED"} =>
         {consumer[c].current} \cap Projecting \subseteq projected
    /\ consumer[c].stage = "PUBLISHED" => consumer[c].current \in published

DeliveryInv == FailInv /\ OnlyCommitted /\ DispatchDone /\ HandlingDone

(* The invariant behind the promise holds at the start.                    *)
LEMMA DeliveryInvInit ==
  ASSUME Init
  PROVE  DeliveryInv
BY FailInvInit DEF Init, DeliveryInv, OnlyCommitted, InHand, DispatchDone, HandlingDone, Resting, Asleep

(* Nothing published or projected is taken back.                           *)
LEMMA EffectsStay ==
  ASSUME [Next]_vars
  PROVE  published \subseteq published' /\ projected \subseteq projected'
<1>1. ASSUME NEW b \in Commits, Dispatch(b) \/ \E mode \in Modes : Commit(b, mode)
      PROVE  published \subseteq published' /\ projected \subseteq projected'
  BY <1>1 DEF Dispatch, Commit, DirectProject, DirectPublish, MarkDirectlyProcessed, DirectSend,
     RecordSend, DispatchStops
<1>2. ASSUME NEW r \in Relays, RelayWorks(r)
      PROVE  published \subseteq published' /\ projected \subseteq projected'
  BY <1>2 DEF RelayWorks, RelayClaim, RelaySend, RelaySendFails, RelayRecord, RelayRestore,
     BuryClaim, BurySend, BurySendFails, BuryRecord, BuryRestore, RelayDies
<1>3. ASSUME NEW c \in Consumers, ConsumerWorks(c) \/ \E B \in SUBSET Events : Receive(c, B)
      PROVE  published \subseteq published' /\ projected \subseteq projected'
  BY <1>3 DEF ConsumerWorks, Receive, Claim, ClaimLater, ClaimRefused, Examine, Project, Publish,
     Fail, MarkProcessed, HandleError, DeadLetter, ConsumerDies
<1>4. ASSUME NEW e \in Events,
             Replay(e) \/ Purge(e) \/ BecomesDue(e) \/ LockExpires(e) \/ QueueingExpires(e)
      PROVE  published \subseteq published' /\ projected \subseteq projected'
  BY <1>4 DEF Replay, Purge, BecomesDue, LockExpires, QueueingExpires, Ages
<1> QED
  BY <1>1, <1>2, <1>3, <1>4 DEF Next, vars

(* A committed event stays so.                                             *)
LEMMA CommittedStays ==
  ASSUME TypeInv, [Next]_vars, NEW e \in Events, row[e].status # "NONE"
  PROVE  row'[e].status # "NONE"
<1>1. CASE Quiet(e) \/ Recorded(e) \/ Replayed(e) \/ Purged(e)
  BY <1>1 DEF Quiet, Recorded, Replayed, Purged, Wrote, Is
<1>2. ASSUME NEW b \in Commits, Committed(e, b) \/ Marked(e, b)
      PROVE  row'[e].status # "NONE"
  BY <1>2 DEF Committed, Marked, Wrote, Is
<1>3. ASSUME NEW r \in Relays,
             Relayed(e, r) \/ Exhumed(e, r) \/ Released(e, r) \/ Buried(e, r)
      PROVE  row'[e].status # "NONE"
  BY <1>3 DEF Relayed, Exhumed, Released, Buried, Wrote, Is
<1>4. ASSUME NEW c \in Consumers,
             Claimed(e, c) \/ Finished(e, c) \/ Returned(e, c) \/ GivenUp(e, c)
      PROVE  row'[e].status # "NONE"
  BY <1>4 DEF Claimed, Finished, Returned, GivenUp, Wrote, Is
<1> QED
  BY <1>1, <1>2, <1>3, <1>4, RowStep DEF RowMoves

(* The messages of the queue come from dispatches, relays and consumers.   *)
LEMMA QueueStep ==
  ASSUME TypeInv, [Next]_vars, NEW e \in queue'
  PROVE  InHand(e)
<1>1. ASSUME NEW b \in Commits, Dispatch(b) \/ \E mode \in Modes : Commit(b, mode)
      PROVE  InHand(e)
  BY <1>1 DEF Dispatch, Commit, DirectProject, DirectPublish, MarkDirectlyProcessed, DirectSend,
     RecordSend, DispatchStops, InHand
<1>2. ASSUME NEW r \in Relays, RelayWorks(r)
      PROVE  InHand(e)
  <2>1. queue' = queue \/ queue' = queue \cup relay[r].rows
    BY <1>2 DEF RelayWorks, RelayClaim, RelaySend, RelaySendFails, RelayRecord, RelayRestore,
       BuryClaim, BurySend, BurySendFails, BuryRecord, BuryRestore, RelayDies
  <2> QED  BY <2>1 DEF InHand
<1>3. ASSUME NEW c \in Consumers, ConsumerWorks(c) \/ \E B \in SUBSET Events : Receive(c, B)
      PROVE  InHand(e)
  <2>1. ASSUME RetryRemainder(c)
        PROVE  queue' \subseteq queue \cup consumer[c].left
    BY <2>1 DEF RetryRemainder
  <2>2. queue' \subseteq queue \cup consumer[c].left
    BY <1>3, <2>1 DEF ConsumerWorks, Receive, Claim, ClaimLater, ClaimRefused, Examine, Project,
       Publish, Fail, MarkProcessed, HandleError, DeadLetter, ConsumerDies, AnswerSettled
  <2> QED  BY <2>2 DEF InHand
<1>4. ASSUME NEW f \in Events,
             Replay(f) \/ Purge(f) \/ BecomesDue(f) \/ LockExpires(f) \/ QueueingExpires(f)
      PROVE  InHand(e)
  BY <1>4 DEF Replay, Purge, BecomesDue, LockExpires, QueueingExpires, Ages, InHand
<1>5. CASE UNCHANGED vars
  BY <1>5 DEF vars, InHand
<1> QED
  BY <1>1, <1>2, <1>3, <1>4, <1>5 DEF Next

(* What remains to be done after a commit only gets less, and what is done *)
(* without failing is done.                                                *)
LEMMA DispatchStep ==
  ASSUME TypeInv, [Next]_vars, NEW b \in Commits
  PROVE  \/ dispatch'[b] = dispatch[b]
         \/ /\ \A e \in b : row'[e].status # "NONE"
            /\ "MARK" \in dispatch'[b] =>
                 "PUBLISH" \in dispatch'[b] /\ "PROJECT" \in dispatch'[b]
         \/ /\ dispatch[b] # {}
            /\ "MARK" \in dispatch'[b] =>
                 /\ "MARK" \in dispatch[b]
                 /\ "PUBLISH" \notin dispatch'[b] =>
                      "PUBLISH" \notin dispatch[b] \/ b \subseteq published'
                 /\ "PROJECT" \notin dispatch'[b] =>
                      "PROJECT" \notin dispatch[b] \/ b \cap Projecting \subseteq projected'
<1> DEFINE Goal == \/ dispatch'[b] = dispatch[b]
                   \/ /\ \A e \in b : row'[e].status # "NONE"
                      /\ "MARK" \in dispatch'[b] =>
                           "PUBLISH" \in dispatch'[b] /\ "PROJECT" \in dispatch'[b]
                   \/ /\ dispatch[b] # {}
                      /\ "MARK" \in dispatch'[b] =>
                           /\ "MARK" \in dispatch[b]
                           /\ "PUBLISH" \notin dispatch'[b] =>
                                "PUBLISH" \notin dispatch[b] \/ b \subseteq published'
                           /\ "PROJECT" \notin dispatch'[b] =>
                                "PROJECT" \notin dispatch[b]
                                \/ b \cap Projecting \subseteq projected'
<1>0. /\ dispatch \in [Commits -> SUBSET {"PROJECT", "PUBLISH", "MARK", "SEND", "RECORD"}]
      /\ RowsTyped
  BY TypeSplit DEF TypeInv
<1>1. ASSUME NEW d \in Commits, NEW mode \in Modes, Commit(d, mode)
      PROVE  Goal
  <2>1. CASE d = b
    <3>1. \A e \in b : row'[e] = [row[e] EXCEPT !.status = "PENDING"] /\ RowOK(row[e])
      BY <1>0, <1>1, <2>1, EventsAssumption DEF Commit, Update, RowsTyped
    <3>2. \A e \in b : row'[e].status = "PENDING"
      BY <3>1, RowUpdates, Zenon DEF Wrote, Is
    <3>3. "MARK" \in Plan[mode] => "PUBLISH" \in Plan[mode] /\ "PROJECT" \in Plan[mode]
      BY ModesAssumption DEF Plan
    <3> QED  BY <1>0, <1>1, <2>1, <3>2, <3>3 DEF Commit
  <2>2. CASE d # b
    BY <1>0, <1>1, <2>2 DEF Commit
  <2> QED  BY <2>1, <2>2
<1>2. ASSUME NEW d \in Commits, Dispatch(d)
      PROVE  Goal
  <2>1. CASE DirectProject(d)
    BY <1>0, <2>1 DEF DirectProject
  <2>2. CASE DirectPublish(d)
    BY <1>0, <2>2 DEF DirectPublish
  <2>3. CASE MarkDirectlyProcessed(d)
    BY <1>0, <2>3 DEF MarkDirectlyProcessed, Done
  <2>4. CASE DirectSend(d)
    BY <1>0, <2>4 DEF DirectSend
  <2>5. CASE RecordSend(d)
    BY <1>0, <2>5 DEF RecordSend, Done
  <2>6. CASE DispatchStops(d)
    BY <1>0, <2>6 DEF DispatchStops
  <2> QED  BY <1>2, <2>1, <2>2, <2>3, <2>4, <2>5, <2>6 DEF Dispatch
<1>3. ASSUME NEW r \in Relays, RelayWorks(r)
      PROVE  UNCHANGED dispatch
  BY <1>3 DEF RelayWorks, RelayClaim, RelaySend, RelaySendFails, RelayRecord, RelayRestore,
     BuryClaim, BurySend, BurySendFails, BuryRecord, BuryRestore, RelayDies
<1>4. ASSUME NEW c \in Consumers, ConsumerWorks(c) \/ \E B \in SUBSET Events : Receive(c, B)
      PROVE  UNCHANGED dispatch
  BY <1>4 DEF ConsumerWorks, Receive, Claim, ClaimLater, ClaimRefused, Examine, Project, Publish,
     Fail, MarkProcessed, HandleError, DeadLetter, ConsumerDies
<1>5. ASSUME NEW e \in Events,
             Replay(e) \/ Purge(e) \/ BecomesDue(e) \/ LockExpires(e) \/ QueueingExpires(e)
      PROVE  UNCHANGED dispatch
  BY <1>5 DEF Replay, Purge, BecomesDue, LockExpires, QueueingExpires, Ages
<1> QED
  BY <1>1, <1>2, <1>3, <1>4, <1>5 DEF Next, vars

(* Nobody gets an event in hand before it is committed.                    *)
LEMMA OnlyCommittedStep ==
  ASSUME DeliveryInv, [Next]_vars
  PROVE  OnlyCommitted'
<1> SUFFICES ASSUME NEW e \in Events, InHand(e)'
             PROVE  row'[e].status # "NONE"
  BY DEF OnlyCommitted
<1>0. TypeInv /\ (InHand(e) => row'[e].status # "NONE")
  BY CommittedStays DEF DeliveryInv, FailInv, OnlyCommitted
<1>1. CASE e \in queue'
  BY <1>0, <1>1, QueueStep
<1>2. ASSUME NEW b \in Commits, dispatch'[b] # {}, e \in b
      PROVE  row'[e].status # "NONE"
  BY <1>0, <1>2, DispatchStep DEF InHand
<1>3. ASSUME NEW r \in Relays, e \in relay'[r].rows
      PROVE  row'[e].status # "NONE"
  <2>1. CASE e \in relay[r].rows
    BY <1>0, <2>1 DEF InHand
  <2>2. CASE e \in RelayCandidates \cup Exhausted
    BY <1>0, <2>2, CommittedStays DEF RelayCandidates, Exhausted, Open
  <2>3. CASE relay'[r] = relay[r]
    BY <1>3, <2>1, <2>3
  <2>4. CASE RelayBecomes(r, "CLAIMED", RelayCandidates) \/ RelayBecomes(r, "BURYING", Exhausted)
    BY <1>3, <2>2, <2>4 DEF RelayBecomes
  <2>5. CASE Advances(r)
    BY <1>3, <2>1, <2>5 DEF Advances, RelayBecomes
  <2>6. CASE RelayBecomes(r, "IDLE", {})
    BY <1>3, <2>6 DEF RelayBecomes
  <2> QED
    BY <1>0, <2>3, <2>4, <2>5, <2>6, RelayStepMoves DEF RelayMoves
<1>4. ASSUME NEW c \in Consumers, e \in consumer'[c].left
      PROVE  row'[e].status # "NONE"
  <2>1. CASE Opens(c)
    BY <1>0, <1>4, <2>1 DEF Opens, ConsumerBecomes, InHand
  <2>2. CASE e \in consumer[c].left
    BY <1>0, <2>2 DEF InHand
  <2>3. CASE Takes(c) \/ \E s \in {"PROJECTED", "PUBLISHED", "ERROR", "DEAD"} : Proceeds(c, s)
    <3>1. Takes(c) => consumer'[c].left = consumer[c].left
      BY DEF Takes, ConsumerBecomes
    <3>2. \A s : Proceeds(c, s) => consumer'[c].left = consumer[c].left
      BY DEF Proceeds, ConsumerBecomes
    <3> QED  BY <1>4, <2>2, <2>3, <3>1, <3>2
  <2>4. CASE Acks(c) \/ Drops(c)
    <3>1. consumer'[c].left \subseteq consumer[c].left
      BY <2>4 DEF Acks, Drops, ConsumerBecomes
    <3> QED  BY <1>4, <2>2, <3>1
  <2> QED  BY <1>0, <1>4, <2>1, <2>2, <2>3, <2>4, ConsumerStep DEF ConsumerMoves
<1> QED
  BY <1>1, <1>2, <1>3, <1>4 DEF InHand

(* A dispatch marks what it published and projected.                       *)
LEMMA DispatchDoneStep ==
  ASSUME DeliveryInv, [Next]_vars
  PROVE  DispatchDone'
BY EffectsStay, DispatchStep DEF DeliveryInv, FailInv, DispatchDone

(* A consumer gets on only with what it did.                               *)
LEMMA HandlingDoneStep ==
  ASSUME DeliveryInv, [Next]_vars
  PROVE  HandlingDone'
<1> SUFFICES ASSUME NEW c \in Consumers
             PROVE  /\ consumer'[c].stage \in {"PROJECTED", "PUBLISHED"} =>
                         {consumer'[c].current} \cap Projecting \subseteq projected'
                    /\ consumer'[c].stage = "PUBLISHED" => consumer'[c].current \in published'
  BY DEF HandlingDone
<1>1. /\ consumer[c].stage \in {"PROJECTED", "PUBLISHED"} =>
           {consumer[c].current} \cap Projecting \subseteq projected'
      /\ consumer[c].stage = "PUBLISHED" => consumer[c].current \in published'
  BY EffectsStay DEF DeliveryInv, HandlingDone
<1>2. CASE consumer'[c] = consumer[c]
  BY <1>1, <1>2
<1>3. CASE Opens(c) \/ Acks(c) \/ Drops(c)
  <2>1. consumer'[c].stage \in {"IDLE", "NEXT"}
    <3>1. CASE Opens(c)
      BY <3>1 DEF Opens, ConsumerBecomes
    <3>2. CASE Acks(c)
      BY <3>2 DEF Acks, ConsumerBecomes
    <3>3. CASE Drops(c)
      BY <3>3 DEF Drops, ConsumerBecomes
    <3> QED  BY <1>3, <3>1, <3>2, <3>3
  <2> QED  BY <2>1
<1>4. CASE Takes(c)
  BY <1>4 DEF Takes, ConsumerBecomes
<1>5. ASSUME NEW s \in {"PROJECTED", "PUBLISHED", "ERROR", "DEAD"}, Proceeds(c, s)
      PROVE  /\ consumer'[c].stage \in {"PROJECTED", "PUBLISHED"} =>
                  {consumer'[c].current} \cap Projecting \subseteq projected'
             /\ consumer'[c].stage = "PUBLISHED" => consumer'[c].current \in published'
  BY <1>1, <1>5 DEF Proceeds, ConsumerBecomes
<1> QED
  BY <1>2, <1>3, <1>4, <1>5, ConsumerStep DEF DeliveryInv, FailInv, ConsumerMoves

(* The invariant holds always.                                             *)
LEMMA DeliveryInvariance == Spec => []DeliveryInv
<1>1. Init => DeliveryInv
  BY DeliveryInvInit
<1>2. DeliveryInv /\ [Next]_vars => DeliveryInv'
  BY FailInvStep, OnlyCommittedStep, DispatchDoneStep, HandlingDoneStep DEF DeliveryInv
<1> QED
  BY <1>1, <1>2, PTL DEF Spec

-----------------------------------------------------------------------------
(* The refinement.                                                         *)

Life(status) ==
  CASE status = "NONE" -> "NONE"
    [] status \in Open -> "OPEN"
    [] status = "PROCESSED" -> "DELIVERED"
    [] status = "FAILED" -> "DEAD"
    [] status = "PURGED" -> "FORGOTTEN"

(* The life of an event is that of its row's status ...                    *)
LEMMA LifeIs ==
  /\ lifeOf = [e \in Events |-> Life(row[e].status)]
  /\ Life("NONE") = "NONE" /\ Life("PENDING") = "OPEN" /\ Life("PROCESSING") = "OPEN"
  /\ Life("PROCESSED") = "DELIVERED" /\ Life("FAILED") = "DEAD" /\ Life("PURGED") = "FORGOTTEN"
BY DEF lifeOf, Life, Open

(* ... also after a step.                                                  *)
LEMMA NextLife == lifeOf' = [e \in Events |-> Life(row'[e].status)]
BY DEF lifeOf, Life

(* Rows keep their life when they keep their status or stay open.          *)
LEMMA LifeKept ==
  ASSUME \A e \in Events :
           \/ row'[e].status = row[e].status
           \/ row[e].status \in Open /\ row'[e].status \in Open
  PROVE  UNCHANGED lifeOf
BY LifeIs, NextLife DEF Open

(* Rows change life together.                                              *)
LEMMA LifeChanges ==
  ASSUME NEW S \in SUBSET Events, S # {}, NEW from, NEW to,
         \A e \in S : Life(row[e].status) = from /\ Life(row'[e].status) = to,
         \A e \in Events \ S : row'[e] = row[e]
  PROVE  Delivery!Become(S, from, to)
BY LifeIs, NextLife DEF Delivery!Become

(* A committed event has a life.                                           *)
LEMMA LifeOfCommitted ==
  ASSUME TypeInv, NEW e \in Events, row[e].status # "NONE"
  PROVE  lifeOf[e] # "NONE"
<1>1. row[e].status \in Statuses
  BY TypeSplit, Bare DEF TypeInv, RowsTyped
<1> QED
  BY <1>1, LifeIs DEF Statuses, Open

Stutter == UNCHANGED <<lifeOf, published, projected>>

(* Commits and dispatches implement steps of the promise.                  *)
LEMMA DispatchImplements ==
  ASSUME DeliveryInv, NEW b \in Commits, Dispatch(b) \/ \E mode \in Modes : Commit(b, mode)
  PROVE  Delivery!Next \/ Stutter
<1>0. /\ TypeInv /\ b \subseteq Events /\ \A e \in Events : RowOK(row[e])
      /\ \A e \in b : dispatch[b] # {} => lifeOf[e] # "NONE"
  <2>1. TypeInv /\ b \subseteq Events
    BY EventsAssumption DEF DeliveryInv, FailInv
  <2> QED  BY <2>1, TypeSplit, LifeOfCommitted
           DEF TypeInv, RowsTyped, DeliveryInv, OnlyCommitted, InHand
<1>1. ASSUME NEW mode \in Modes, Commit(b, mode), b # {}
      PROVE  Delivery!Next
  <2>1. /\ \A e \in b : row[e].status = "NONE" /\ row'[e] = [row[e] EXCEPT !.status = "PENDING"]
        /\ \A e \in Events \ b : row'[e] = row[e]
    BY <1>0, <1>1 DEF Commit, Update
  <2>2. \A e \in b : row'[e].status = "PENDING"
    BY <1>0, <2>1, RowUpdates, Zenon DEF Wrote, Is
  <2>3. Delivery!Become(b, "NONE", "OPEN")
    BY <1>0, <1>1, <2>1, <2>2, LifeIs, LifeChanges
  <2> QED  BY <1>0, <1>1, <2>3 DEF Commit, Delivery!Commit, Delivery!Next
<1>2. ASSUME NEW mode \in Modes, Commit(b, mode), b = {}
      PROVE  Stutter
  <2>1. \A e \in Events : row'[e] = row[e]
    BY <1>2 DEF Commit, Update
  <2> QED  BY <1>2, <2>1, LifeKept DEF Commit, Stutter
<1>3. CASE DirectProject(b)
  <2>1. PICK S \in SUBSET (b \cap Projecting) : projected' = projected \cup S
    BY <1>3 DEF DirectProject
  <2>2. Delivery!Project(S)
    BY <1>0, <1>3, <2>1, LifeKept DEF DirectProject, Delivery!Project
  <2> QED  BY <1>0, <2>2 DEF Delivery!Next
<1>4. CASE DirectPublish(b)
  <2>1. PICK S \in SUBSET b : published' = published \cup S
    BY <1>4 DEF DirectPublish
  <2>2. Delivery!Publish(S)
    BY <1>0, <1>4, <2>1, LifeKept DEF DirectPublish, Delivery!Publish
  <2> QED  BY <1>0, <2>2 DEF Delivery!Next
<1>5. CASE MarkDirectlyProcessed(b)
  <2> DEFINE S == {e \in b : row[e].status = "PENDING"}
  <2>1. /\ \A e \in S : row'[e] = [row[e] EXCEPT !.status = "PROCESSED"]
        /\ \A e \in Events \ S : row'[e] = row[e]
        /\ UNCHANGED <<published, projected>>
    BY <1>0, <1>5 DEF MarkDirectlyProcessed, Update
  <2>2. \A e \in S : row'[e].status = "PROCESSED"
    BY <1>0, <2>1, RowUpdates, Zenon DEF Wrote, Is
  <2>3. b \subseteq published /\ b \cap Projecting \subseteq projected
    BY <1>5 DEF MarkDirectlyProcessed, DeliveryInv, DispatchDone
  <2>4. CASE S = {}
    BY <2>1, <2>4, LifeKept DEF Stutter
  <2>5. CASE S # {}
    <3>1. Delivery!Become(S, "OPEN", "DELIVERED")
      BY <1>0, <2>1, <2>2, <2>5, LifeIs, LifeChanges
    <3>2. Delivery!Deliver(S)
      BY <2>1, <2>3, <3>1 DEF Delivery!Deliver
    <3> QED  BY <1>0, <3>2 DEF Delivery!Next
  <2> QED  BY <2>4, <2>5
<1>6. CASE RecordSend(b)
  <2>1. /\ \A e \in Events :
             \/ row'[e] = row[e]
             \/ /\ row[e].status = "PENDING"
                /\ row'[e] = [row[e] EXCEPT !.status = "PROCESSING", !.queued = "FRESH", !.due = TRUE]
        /\ UNCHANGED <<published, projected>>
    BY <1>0, <1>6 DEF RecordSend, Update
  <2>2. ASSUME NEW e \in Events, row'[e] # row[e]
        PROVE  row[e].status = "PENDING" /\ row'[e].status = "PROCESSING"
    BY <1>0, <2>1, <2>2, RowUpdates, Zenon DEF Wrote, Is
  <2> QED  BY <2>1, <2>2, LifeKept DEF Open, Stutter
<1>7. CASE DirectSend(b) \/ DispatchStops(b)
  BY <1>7, LifeKept DEF DirectSend, DispatchStops, Stutter
<1> QED
  BY <1>1, <1>2, <1>3, <1>4, <1>5, <1>6, <1>7 DEF Dispatch

(* So do relays: they keep the life of rows, or give them up.              *)
LEMMA RelayImplements ==
  ASSUME DeliveryInv, NEW r \in Relays, RelayWorks(r)
  PROVE  Delivery!Next \/ Stutter
<1>0. /\ TypeInv /\ \A e \in Events : RowOK(row[e])
      /\ relay[r].rows \subseteq Events
      /\ \A e \in Mine(r) : e \in Events /\ row[e].status = "PROCESSING"
  <2>1. TypeInv
    BY DEF DeliveryInv, FailInv
  <2> QED
    BY <2>1, TypeSplit, ActorsAssumption
    DEF TypeInv, RowsTyped, RelaysTyped, Mine, DeliveryInv, FailInv, ClaimsOpen
<1>1. UNCHANGED <<published, projected>>
  BY DEF RelayWorks, RelayClaim, RelaySend, RelaySendFails, RelayRecord, RelayRestore,
     BuryClaim, BurySend, BurySendFails, BuryRecord, BuryRestore, RelayDies
<1>2. CASE RelayClaim(r)
  <2>1. \A e \in Events :
          \/ row'[e] = row[e]
          \/ /\ row[e].status \in Open
             /\ row'[e] = [row[e] EXCEPT !.status = "PROCESSING", !.lock = "HELD", !.token = r]
    BY <1>2 DEF RelayClaim, RelayCandidates, Update, Open
  <2>2. ASSUME NEW e \in Events, row'[e] # row[e]
        PROVE  row[e].status \in Open /\ row'[e].status = "PROCESSING"
    BY <1>0, <2>1, <2>2, RowClaims, Zenon DEF Wrote, Is
  <2> QED  BY <1>1, <2>2, LifeKept DEF Open, Stutter
<1>3. CASE BuryClaim(r)
  <2>1. \A e \in Events :
          row'[e] = row[e] \/ row'[e] = [row[e] EXCEPT !.lock = "HELD", !.token = r]
    BY <1>3 DEF BuryClaim, Update
  <2>2. \A e \in Events : row'[e].status = row[e].status
    BY <1>0, <2>1, RowClaims, Zenon DEF Wrote, Is
  <2> QED  BY <1>1, <2>2, LifeKept DEF Stutter
<1>4. CASE RelayRecord(r) \/ RelayRestore(r) \/ BuryRestore(r)
  <2>1. \A e \in Events :
          \/ row'[e] = row[e]
          \/ /\ row[e].status = "PROCESSING"
             /\ \/ row'[e] = [Settle(row[e], row[e].status) EXCEPT !.queued = "FRESH"]
                \/ row'[e] = [Settle(row[e], "PENDING") EXCEPT !.due = FALSE]
                \/ row'[e] = [Settle(row[e], row[e].status) EXCEPT !.due = FALSE]
    BY <1>0, <1>4 DEF RelayRecord, RelayRestore, BuryRestore, Update
  <2>2. \A e \in Events :
          \/ row'[e].status = row[e].status
          \/ row[e].status = "PROCESSING" /\ row'[e].status = "PENDING"
    BY <1>0, <2>1, RowUpdates, Zenon DEF Wrote, Is
  <2> QED  BY <1>1, <2>2, LifeKept DEF Open, Stutter
<1>5. CASE BuryRecord(r)
  <2>1. /\ \A e \in Mine(r) : row'[e] = Settle(row[e], "FAILED")
        /\ \A e \in Events \ Mine(r) : row'[e] = row[e]
    BY <1>0, <1>5 DEF BuryRecord, Update
  <2>2. \A e \in Mine(r) : row'[e].status = "FAILED"
    BY <1>0, <2>1, RowUpdates, Zenon DEF Wrote, Is
  <2>3. CASE Mine(r) = {}
    BY <1>1, <2>1, <2>3, LifeKept DEF Stutter
  <2>4. CASE Mine(r) # {}
    <3>1. Delivery!Become(Mine(r), "OPEN", "DEAD")
      BY <1>0, <2>1, <2>2, <2>4, LifeIs, LifeChanges
    <3> QED  BY <1>0, <1>1, <3>1 DEF Delivery!GiveUp, Delivery!Next
  <2> QED  BY <2>3, <2>4
<1>6. CASE RelaySend(r) \/ RelaySendFails(r) \/ BurySend(r) \/ BurySendFails(r) \/ RelayDies(r)
  <2>1. UNCHANGED row
    BY <1>6 DEF RelaySend, RelaySendFails, BurySend, BurySendFails, RelayDies
  <2> QED  BY <1>1, <2>1, LifeKept DEF Stutter
<1> QED
  BY <1>2, <1>3, <1>4, <1>5, <1>6 DEF RelayWorks

(* So do consumers.                                                        *)
LEMMA ConsumerImplements ==
  ASSUME DeliveryInv, NEW c \in Consumers,
         ConsumerWorks(c) \/ \E B \in SUBSET Events : Receive(c, B)
  PROVE  Delivery!Next \/ Stutter
<1> DEFINE x == consumer[c].current
<1>0. /\ TypeInv /\ \A e \in Events : RowOK(row[e])
      /\ consumer[c].stage \notin {"IDLE", "NEXT"} => x \in Events /\ lifeOf[x] # "NONE"
  <2>1. TypeInv
    BY DEF DeliveryInv, FailInv
  <2>2. consumer[c].stage \notin {"IDLE", "NEXT"} => x \in Events /\ row[x].status # "NONE"
    BY <2>1, TypeSplit
    DEF TypeInv, Handling, ConsumersTyped, DeliveryInv, OnlyCommitted, InHand
  <2> QED  BY <2>1, <2>2, TypeSplit, LifeOfCommitted DEF TypeInv, RowsTyped
<1>1. ASSUME UNCHANGED <<row, published, projected>>
      PROVE  Stutter
  BY <1>1, LifeKept DEF Stutter
<1>2. ASSUME NEW e \in Events, Claim(c, e)
      PROVE  Stutter
  <2>1. /\ row[e].status \in Open /\ row[e].attempts < MaxAttempts
        /\ row'[e] = [row[e] EXCEPT !.status = "PROCESSING", !.attempts = @ + 1,
                                    !.lock = "HELD", !.token = c]
        /\ \A f \in Events \ {e} : row'[f] = row[f]
    BY <1>2 DEF Claim, Claimable, Update
  <2>2. row'[e].status = "PROCESSING"
    BY <1>0, <2>1, RowClaims, Zenon DEF Wrote, Is
  <2> QED  BY <1>2, <2>1, <2>2, LifeKept DEF Claim, Open, Stutter
<1>3. ASSUME NEW e \in Events, ClaimLater(c, e) \/ ClaimRefused(c, e)
      PROVE  Stutter
  BY <1>1, <1>3 DEF ClaimLater, ClaimRefused
<1>4. ASSUME NEW B \in SUBSET Events, Receive(c, B)
      PROVE  Stutter
  BY <1>1, <1>4 DEF Receive
<1>5. ASSUME x \in Events, row[x].status \in Open, row'[x].status = "FAILED",
             \A e \in Events \ {x} : row'[e] = row[e], UNCHANGED <<published, projected>>
      PROVE  Delivery!Next
  <2>1. Delivery!Become({x}, "OPEN", "DEAD")
    BY <1>5, LifeIs, LifeChanges DEF Open
  <2>2. Delivery!GiveUp({x}) /\ {x} \in SUBSET Events
    BY <1>5, <2>1 DEF Delivery!GiveUp
  <2> QED  BY <2>2 DEF Delivery!Next
<1>6. CASE Examine(c)
  <2>1. CASE row' = row
    BY <1>1, <1>6, <2>1 DEF Examine
  <2>2. CASE row' # row
    <3>1. x \in Exhausted /\ Update({x}, LAMBDA r : Settle(r, "FAILED"))
      BY <1>6, <2>2 DEF Examine, AnswerSettled
    <3>2. /\ x \in Events /\ row[x].status \in Open /\ row'[x] = Settle(row[x], "FAILED")
          /\ \A e \in Events \ {x} : row'[e] = row[e]
      BY <3>1 DEF Exhausted, Update
    <3>3. row'[x].status = "FAILED"
      BY <1>0, <3>2, RowUpdates, Zenon DEF Wrote, Is
    <3> QED  BY <1>5, <1>6, <3>2, <3>3 DEF Examine
  <2> QED  BY <2>1, <2>2
<1>7. CASE Project(c)
  <2>1. Delivery!Project({x} \cap Projecting) /\ {x} \in SUBSET Events
    BY <1>0, <1>7, LifeKept DEF Project, Delivery!Project
  <2> QED  BY <2>1 DEF Delivery!Next
<1>8. CASE Publish(c)
  <2>1. Delivery!Publish({x}) /\ {x} \in SUBSET Events
    BY <1>0, <1>8, LifeKept DEF Publish, Delivery!Publish
  <2> QED  BY <2>1 DEF Delivery!Next
<1>9. CASE Fail(c)
  <2>1. Delivery!Publish({}) \/ Delivery!Publish({x})
    BY <1>0, <1>9, LifeKept DEF Fail, Delivery!Publish
  <2>2. {} \in SUBSET Events /\ {x} \in SUBSET Events
    BY <1>0, <1>9 DEF Fail
  <2> QED  BY <2>1, <2>2 DEF Delivery!Next
<1>10. CASE MarkProcessed(c)
  <2>1. CASE ~Owns(c, x)
    BY <1>1, <1>10, <2>1 DEF MarkProcessed
  <2>2. CASE Owns(c, x)
    <3>1. /\ row'[x] = Settle(row[x], "PROCESSED") /\ row[x].status = "PROCESSING"
          /\ \A e \in Events \ {x} : row'[e] = row[e]
          /\ UNCHANGED <<published, projected>>
          /\ consumer[c].stage = "PUBLISHED"
      BY <1>0, <1>10, <2>2 DEF MarkProcessed, Update, Owns
    <3>2. row'[x].status = "PROCESSED" /\ x \in Events
      BY <1>0, <3>1, RowUpdates, Zenon DEF Wrote, Is
    <3>3. Delivery!Become({x}, "OPEN", "DELIVERED")
      BY <3>1, <3>2, LifeIs, LifeChanges
    <3>4. {x} \subseteq published /\ {x} \cap Projecting \subseteq projected
      BY <3>1 DEF DeliveryInv, HandlingDone
    <3>5. Delivery!Deliver({x}) /\ {x} \in SUBSET Events
      BY <3>1, <3>2, <3>3, <3>4 DEF Delivery!Deliver
    <3> QED  BY <3>5 DEF Delivery!Next
  <2> QED  BY <2>1, <2>2
<1>11. CASE HandleError(c)
  <2>1. CASE row' = row
    BY <1>1, <1>11, <2>1 DEF HandleError
  <2>2. CASE row' # row
    <3>1. /\ Owns(c, x) /\ x \in Events
          /\ \/ Update({x}, LAMBDA r : [Settle(r, "FAILED") EXCEPT !.due = FALSE])
             \/ Update({x}, LAMBDA r : [Settle(r, "PROCESSING") EXCEPT !.due = FALSE])
          /\ UNCHANGED <<published, projected>>
      BY <1>0, <1>11, <2>2 DEF HandleError, AnswerSettled
    <3>2. /\ \/ row'[x] = [Settle(row[x], "FAILED") EXCEPT !.due = FALSE]
             \/ row'[x] = [Settle(row[x], "PROCESSING") EXCEPT !.due = FALSE]
          /\ \A e \in Events \ {x} : row'[e] = row[e]
          /\ row[x].status = "PROCESSING"
      BY <3>1 DEF Update, Owns
    <3>3. row'[x].status = "FAILED" \/ row'[x].status = "PROCESSING"
      BY <1>0, <3>1, <3>2, RowUpdates, Zenon DEF Wrote, Is
    <3>4. CASE row'[x].status = "FAILED"
      BY <1>5, <3>1, <3>2, <3>4 DEF Open
    <3>5. CASE row'[x].status = "PROCESSING"
      BY <3>1, <3>2, <3>5, LifeKept DEF Stutter
    <3> QED  BY <3>3, <3>4, <3>5
  <2> QED  BY <2>1, <2>2
<1>12. CASE DeadLetter(c) \/ ConsumerDies(c)
  BY <1>1, <1>12 DEF DeadLetter, ConsumerDies
<1> QED
  BY <1>2, <1>3, <1>4, <1>6, <1>7, <1>8, <1>9, <1>10, <1>11, <1>12 DEF ConsumerWorks

(* So do replays, purges and the clock.                                    *)
LEMMA RestImplements ==
  ASSUME DeliveryInv, NEW e \in Events,
         Replay(e) \/ Purge(e) \/ BecomesDue(e) \/ LockExpires(e) \/ QueueingExpires(e)
  PROVE  Delivery!Next \/ Stutter
<1>0. /\ TypeInv /\ \A f \in Events : RowOK(row[f])
      /\ \A f \in Events \ {e} : row'[f] = row[f]
      /\ UNCHANGED <<published, projected>>
  <2>1. TypeInv
    BY DEF DeliveryInv, FailInv
  <2> QED
    BY <2>1, TypeSplit
    DEF TypeInv, RowsTyped, Replay, Purge, BecomesDue, LockExpires, QueueingExpires, Ages, Update
<1>1. CASE Replay(e)
  <2>1. row[e].status = "FAILED" /\ row'[e].status = "PENDING"
    BY <1>0, <1>1, ReplayWrites DEF Wrote, Is
  <2>2. Delivery!Become({e}, "DEAD", "OPEN")
    BY <1>0, <2>1, LifeIs, LifeChanges
  <2> QED  BY <1>0, <2>2 DEF Delivery!Replay, Delivery!Next
<1>2. CASE Purge(e)
  <2>1. row[e].status = "PROCESSED" /\ row'[e] = [row[e] EXCEPT !.status = "PURGED"]
    BY <1>2 DEF Purge, Update
  <2>2. row'[e].status = "PURGED"
    BY <1>0, <2>1, RowUpdates, Zenon DEF Wrote, Is
  <2>3. Delivery!Become({e}, "DELIVERED", "FORGOTTEN")
    BY <1>0, <2>1, <2>2, LifeIs, LifeChanges
  <2> QED  BY <1>0, <2>3 DEF Delivery!Forget, Delivery!Next
<1>3. CASE BecomesDue(e) \/ LockExpires(e) \/ QueueingExpires(e)
  <2>1. \/ row'[e] = [row[e] EXCEPT !.due = TRUE]
        \/ row[e].lock = "HELD" /\ row'[e] = [row[e] EXCEPT !.lock = "STALE"]
        \/ row'[e] = [row[e] EXCEPT !.queued = "STALE"]
    BY <1>0, <1>3, TypeSplit
    DEF TypeInv, RowsTyped, BecomesDue, LockExpires, QueueingExpires, Ages
  <2>2. row'[e].status = row[e].status
    BY <1>0, <2>1, RowUpdates, Zenon DEF Wrote, Is
  <2> QED  BY <1>0, <2>2, LifeKept DEF Stutter
<1> QED
  BY <1>1, <1>2, <1>3

(* The pipeline implements its promise, whatever is lost, repeated, killed *)
(* or overtaken by a timeout: nothing is delivered unpublished or          *)
(* unprojected, what is delivered stays so, only the dead are replayed.    *)
THEOREM DeliveryRefinement == Spec => DeliveryKept
<1>1. Init => Delivery!Init
  BY LifeIs DEF Init, Absent, Delivery!Init
<1>2. DeliveryInv /\ [Next]_vars => [Delivery!Next]_(Delivery!vars)
  <2> SUFFICES ASSUME DeliveryInv, [Next]_vars
               PROVE  Delivery!Next \/ Stutter
    BY DEF Stutter, Delivery!vars
  <2>1. CASE UNCHANGED vars
    BY <2>1, LifeKept DEF vars, Stutter
  <2>2. CASE Next
    BY <2>2, DispatchImplements, RelayImplements, ConsumerImplements, RestImplements DEF Next
  <2> QED  BY <2>1, <2>2
<1> QED
  BY <1>1, <1>2, DeliveryInvariance, PTL DEF Spec, DeliveryKept, Delivery!Spec

-----------------------------------------------------------------------------
(* The outbox of the dining room.                                          *)

ReadingTypes ==
  [found : {"NOTHING", "OPEN", "SETTLED", "FAILED", "EXHAUSTED", "CLAIMED"},
   event : Events \cup {None}, tries : 0 .. MaxAttempts]

Working == {"CLAIMED", "PROJECTED", "PUBLISHED", "ERROR"}

(* What was read of a settled or failed row is still true; who has claimed *)
(* a row knows its attempts as long as the claim is its own, and once it   *)
(* made the last one nobody else can but give the row up.                  *)
ReadingStands(c) ==
  LET k == consumer[c]
      e == k.current
      m == reading[c]
  IN /\ k.stage = "IDLE" => m = Unread
     /\ k.stage = "NEXT" => m = Unread \/ (m.found = "OPEN" /\ m.event \in Earliest(k.left))
     /\ k.stage = "REFUSED" =>
          \/ m.found = "SETTLED" /\ row[e].status \in {"PROCESSED", "PURGED"}
          \/ m.found = "FAILED" /\ row[e].status = "FAILED"
          \/ m.found = "EXHAUSTED"
     /\ k.stage \in Working =>
          /\ m.found = "CLAIMED" /\ m.tries <= row[e].attempts
          /\ row[e].token = c => row[e].attempts = m.tries
          /\ m.tries = MaxAttempts => row[e].token = c \/ row[e].status = "FAILED"

(* No relay buries an event here.                                          *)
NothingBuried == \A r \in Relays : relay[r].stage \in {"IDLE", "CLAIMED", "SENT", "UNSENT"}

OperationalInv ==
  /\ OrderInv /\ NothingBuried
  /\ reading \in [Consumers -> ReadingTypes]
  /\ \A c \in Consumers : ReadingStands(c)

(* An event whose last attempt is begun has a consumer; from then on its   *)
(* message is in the queue, with a consumer or with the operator.          *)
LEMMA ExhaustedStep ==
  ASSUME FailInv, ExhaustedIsReported, [Next]_vars, NEW e \in Events,
         row'[e].status \in Open, row'[e].attempts = MaxAttempts
  PROVE  Reachable(e)'
<1>1. /\ row[e].status \in Open /\ row[e].attempts = MaxAttempts => Reachable(e)
      /\ row[e].token # None => row[e].status = "PROCESSING"
      /\ row[e].status \in {"NONE", "PENDING"} => row[e].attempts < MaxAttempts
      /\ row[e].attempts <= MaxAttempts /\ row[e].attempts \in Nat
  BY TypeSplit, AttemptsAssumption
  DEF FailInv, TypeInv, ClaimsOpen, ExhaustedIsReported, Reachable, RowsTyped, RowTypes
<1>2. CASE row[e].status \in Open /\ row[e].attempts = MaxAttempts
  BY <1>1, <1>2, MessageStep DEF FailInv, Open
<1>3. ASSUME NEW c \in Consumers, Claimed(e, c)
      PROVE  Reachable(e)'
  BY <1>3 DEF Claimed, Reachable
<1>4. CASE Quiet(e) \/ Recorded(e) \/ Replayed(e) \/ Purged(e)
  BY <1>1, <1>2, <1>4, AttemptsAssumption
  DEF Quiet, Recorded, Replayed, Purged, Wrote, Is, Open
<1>5. ASSUME NEW b \in Commits, Committed(e, b) \/ Marked(e, b)
      PROVE  Reachable(e)'
  BY <1>1, <1>5 DEF Committed, Marked, Wrote, Is, Open
<1>6. ASSUME NEW r \in Relays, Relayed(e, r) \/ Exhumed(e, r) \/ Released(e, r) \/ Buried(e, r)
      PROVE  Reachable(e)'
  BY <1>1, <1>2, <1>6, ActorsAssumption, AttemptsAssumption
  DEF Relayed, Exhumed, Released, Buried, Wrote, Is, Open
<1>7. ASSUME NEW c \in Consumers, Finished(e, c) \/ Returned(e, c) \/ GivenUp(e, c)
      PROVE  Reachable(e)'
  BY <1>2, <1>7 DEF Finished, Returned, GivenUp, Owns, Wrote, Is, Open
<1> QED
  BY <1>3, <1>4, <1>5, <1>6, <1>7, RowStep DEF FailInv, RowMoves

(* The relays of both outboxes pass over rows without attempts left.  As   *)
(* long as such a row is open, a message that leads a consumer or the      *)
(* operator to it is left, whoever is killed.                              *)
THEOREM ExhaustedReported == Spec => []ExhaustedIsReported
<1>1. Init => FailInv /\ ExhaustedIsReported
  BY FailInvInit, AttemptsAssumption DEF Init, Absent, ExhaustedIsReported, Open
<1>2. FailInv /\ ExhaustedIsReported /\ [Next]_vars => FailInv' /\ ExhaustedIsReported'
  BY FailInvStep, ExhaustedStep DEF ExhaustedIsReported, Reachable
<1> QED
  BY <1>1, <1>2, PTL DEF Spec

(* An event that no attempt is left for is never lost in silence: given up *)
(* or left open by a process that was killed, a message leads to it.       *)
THEOREM SpentIsReported == Spec => []NoneLostInSilence
BY GivenUpIsReported, ExhaustedReported, PTL DEF NoneLostInSilence

(* A consumer that handles a message handles one of the events.            *)
LEMMA CurrentEvent ==
  ASSUME OperationalInv, NEW c \in Consumers, consumer[c].stage \notin {"IDLE", "NEXT"}
  PROVE  /\ consumer[c].current \in Events /\ row = [e \in Events |-> row[e]]
         /\ ConsumersTyped /\ RowOK(row[consumer[c].current])
BY TypeSplit
DEF OperationalInv, OrderInv, FailInv, TypeInv, Handling, ConsumersTyped, RowsTyped

(* After an error: what the attempt's number says of the row is true.      *)
LEMMA RecoverImplements ==
  ASSUME OperationalInv, NEW c \in Consumers, Recover(c)
  PROVE  HandleError(c) \/ ConsumerDies(c)
<1> DEFINE e == consumer[c].current
           tries == reading[c].tries
<1>0. e \in Events /\ row = [f \in Events |-> row[f]] /\ consumer[c].stage = "ERROR"
  BY CurrentEvent DEF Recover
<1>1. /\ tries <= row[e].attempts /\ tries \in 0 .. MaxAttempts
      /\ row[e].token = c => row[e].attempts = tries /\ row[e].status = "PROCESSING"
      /\ tries = MaxAttempts => row[e].token = c \/ row[e].status = "FAILED"
  BY <1>0, ActorsAssumption
  DEF OperationalInv, ReadingStands, ReadingTypes, Working, OrderInv, FailInv, ClaimsOpen
<1>2. CASE Owns(c, e)
  <2>1. Spent(c) <=> LastAttempt(e)
    BY <1>1, <1>2 DEF Spent, LastAttempt, Owns
  <2>2. {f \in {e} : Owns(c, f)} = {e}
    BY <1>2
  <2> HIDE DEF e
  <2>3. CASE Spent(c)
    <3>1. row' = [f \in Events |->
             IF f \in {e} THEN [Settle(row[f], "FAILED") EXCEPT !.due = FALSE] ELSE row[f]]
      BY <2>2, <2>3 DEF Recover, Update, e
    <3> QED  BY <1>0, <1>2, <2>1, <2>3, <3>1 DEF Recover, HandleError, Update, e
  <2>4. CASE ~Spent(c)
    <3>1. row' = [f \in Events |->
             IF f \in {e} THEN [Settle(row[f], "PROCESSING") EXCEPT !.due = FALSE] ELSE row[f]]
      BY <2>2, <2>4 DEF Recover, Update, e
    <3> QED  BY <1>0, <1>2, <2>1, <2>4, <3>1 DEF Recover, HandleError, Update, e
  <2> QED  BY <2>3, <2>4
<1>3. CASE ~Owns(c, e)
  <2>1. {f \in {e} : Owns(c, f)} = {}
    BY <1>3
  <2>2. row' = row
    BY <1>0, <2>1 DEF Recover, Update
  <2>3. CASE Spent(c)
    <3>1. row[e].status = "FAILED"
      BY <1>1, <1>3, <2>3, AttemptsAssumption DEF Spent, Owns
    <3> QED
      BY <1>0, <1>3, <2>2, <2>3, <3>1 DEF Recover, HandleError, AnswerSettled
  <2>4. CASE ~Spent(c)
    BY <1>0, <2>2, <2>4 DEF Recover, ConsumerDies
  <2> QED  BY <2>3, <2>4
<1> QED  BY <1>2, <1>3

(* After a read: what was read of a settled or failed row is still true.   *)
LEMMA AnswerImplements ==
  ASSUME OperationalInv, NEW c \in Consumers, AnswerByReading(c)
  PROVE  Examine(c) \/ ConsumerDies(c)
<1> DEFINE e == consumer[c].current
<1>0. consumer[c].stage = "REFUSED"
  BY DEF AnswerByReading
<1>1. /\ reading[c].found = "SETTLED" => row[e].status \in {"PROCESSED", "PURGED"}
      /\ reading[c].found = "FAILED" => row[e].status = "FAILED"
  BY <1>0 DEF OperationalInv, ReadingStands
<1>2. CASE reading[c].found = "SETTLED" /\ Ack(c, e) /\ UNCHANGED <<row, queue, deadLetters>>
  BY <1>0, <1>1, <1>2 DEF AnswerByReading, Examine, AnswerSettled
<1>3. CASE /\ reading[c].found = "FAILED" /\ Proceed(c, "DEAD")
           /\ UNCHANGED <<row, queue, deadLetters>>
  BY <1>0, <1>1, <1>3 DEF AnswerByReading, Examine, AnswerSettled
<1>4. CASE GiveUp(c)
  BY <1>0, <1>4 DEF AnswerByReading, GiveUp, Examine, ConsumerDies
<1> QED
  BY <1>2, <1>3, <1>4 DEF AnswerByReading

(* Every step of the dining room's outbox is one of the orders' outbox.    *)
LEMMA OperationalImplements ==
  ASSUME OperationalInv, [OperationalNext]_opVars, "none" \in Modes
  PROVE  [Next]_vars
<1>1. ASSUME NEW b \in Commits, Emit(b)
      PROVE  Next
  BY <1>1 DEF Emit, Next
<1>2. ASSUME NEW r \in Relays, OperationalRelay(r)
      PROVE  Next
  BY <1>2 DEF OperationalRelay, RelayWorks, Next
<1>3. ASSUME NEW c \in Consumers, NEW B \in SUBSET Events, OperationalReceive(c, B)
      PROVE  Next
  BY <1>3 DEF OperationalReceive, Next
<1>4. ASSUME NEW e \in Events, OperationalPurge(e) \/ OperationalClock(e)
      PROVE  Next
  BY <1>4 DEF OperationalPurge, OperationalClock, Next
<1>5. ASSUME NEW c \in Consumers, OperationalConsumer(c)
      PROVE  ConsumerWorks(c) \/ UNCHANGED vars
  <2>1. CASE ReadEvent(c)
    BY <2>1 DEF ReadEvent, FoundSettled, FoundFailed, FoundExhausted, FoundLate, FoundOpen,
       ConsumerWorks
  <2>2. CASE ClaimEvent(c)
    <3>1. CASE ~Claimable(reading[c].event) /\ RefusedClaim(c)
      BY <3>1 DEF RefusedClaim, Return, ConsumerWorks
    <3>2. CASE Claim(c, reading[c].event)
      <4>1. consumer[c].left \subseteq Events
        BY TypeSplit DEF OperationalInv, OrderInv, FailInv, TypeInv, ConsumersTyped
      <4>2. reading[c].event \in Events
        BY <3>2, <4>1 DEF Claim, Earliest
      <4> QED  BY <3>2, <4>2 DEF ConsumerWorks
    <3> QED  BY <2>2, <3>1, <3>2 DEF ClaimEvent
  <2>3. CASE AnswerByReading(c)
    BY <2>3, AnswerImplements DEF ConsumerWorks
  <2>4. CASE Recover(c)
    BY <2>4, RecoverImplements DEF ConsumerWorks
  <2>5. CASE Handle(c)
    BY <2>5 DEF Handle, ConsumerWorks
  <2> QED
    BY <1>5, <2>1, <2>2, <2>3, <2>4, <2>5 DEF OperationalConsumer
<1>6. CASE UNCHANGED opVars
  BY <1>6 DEF opVars
<1> QED
  BY <1>1, <1>2, <1>3, <1>4, <1>5, <1>6 DEF OperationalNext, Next

(* No relay takes up an exhausted row.                                     *)
LEMMA NothingBuriedStep ==
  ASSUME OperationalInv, [OperationalNext]_opVars
  PROVE  NothingBuried'
<1>0. NothingBuried /\ RelaysTyped
  BY TypeSplit DEF OperationalInv, OrderInv, FailInv, TypeInv
<1>1. ASSUME NEW r \in Relays, OperationalRelay(r)
      PROVE  NothingBuried'
  BY <1>0, <1>1 DEF OperationalRelay, RelayClaim, RelaySend, RelaySendFails, RelayRecord,
     RelayRestore, RelayDies, RelayStep, RelayEnds, Asleep, NothingBuried, RelaysTyped
<1>2. CASE UNCHANGED relay
  BY <1>0, <1>2 DEF NothingBuried
<1>3. ASSUME NEW c \in Consumers, OperationalConsumer(c)
      PROVE  UNCHANGED relay
  <2>1. CASE ReadEvent(c)
    BY <2>1 DEF ReadEvent, FoundSettled, FoundFailed, FoundExhausted, FoundLate, FoundOpen,
       ClaimRefused, ClaimLater, vars
  <2>2. CASE ClaimEvent(c)
    BY <2>2 DEF ClaimEvent, RefusedClaim, Return, ConsumerDies, Claim
  <2>3. CASE AnswerByReading(c) \/ Recover(c)
    BY <2>3 DEF AnswerByReading, Recover
  <2>4. CASE Handle(c)
    BY <2>4 DEF Handle, Project, Publish, Fail, MarkProcessed, DeadLetter, ConsumerDies
  <2> QED  BY <1>3, <2>1, <2>2, <2>3, <2>4 DEF OperationalConsumer
<1>4. ASSUME NEW b \in Commits, Emit(b)
      PROVE  UNCHANGED relay
  BY <1>4 DEF Emit, Commit
<1>5. ASSUME NEW c \in Consumers, NEW B \in SUBSET Events, OperationalReceive(c, B)
      PROVE  UNCHANGED relay
  BY <1>5 DEF OperationalReceive, Receive
<1>6. ASSUME NEW e \in Events, OperationalPurge(e) \/ OperationalClock(e)
      PROVE  UNCHANGED relay
  BY <1>6 DEF OperationalPurge, OperationalClock, Purge, BecomesDue, LockExpires, QueueingExpires,
     Ages
<1>7. CASE UNCHANGED opVars
  BY <1>2, <1>7 DEF opVars, vars
<1> QED
  BY <1>1, <1>2, <1>3, <1>4, <1>5, <1>6, <1>7 DEF OperationalNext

(* What somebody else's step makes of the row a consumer handles: what the *)
(* consumer knows of it stays true.                                        *)
LEMMA ReadingStays ==
  ASSUME OperationalInv, [Next]_vars, NothingBuried', MaxReplays = 0, NEW c \in Consumers,
         consumer'[c] = consumer[c], reading'[c] = reading[c]
  PROVE  ReadingStands(c)'
<1> DEFINE e == consumer[c].current
           m == reading[c]
<1>1. CASE consumer[c].stage = "IDLE"
  BY <1>1 DEF OperationalInv, ReadingStands, Working
<1>2. CASE consumer[c].stage = "NEXT"
  BY <1>2 DEF OperationalInv, ReadingStands, Working, Earliest
<1>3. CASE consumer[c].stage = "DEAD"
  BY <1>3 DEF ReadingStands, Working
<1>4. CASE consumer[c].stage = "REFUSED"
  <2>1. e \in Events
    BY <1>4, CurrentEvent
  <2>2. row[e].status = "FAILED" => row'[e].status = "FAILED"
    BY <2>1, SettledStays DEF OperationalInv, OrderInv
  <2>3. row[e].status \in {"PROCESSED", "PURGED"} => row'[e].status \in {"PROCESSED", "PURGED"}
    <3>1. row[e].token # None => row[e].status = "PROCESSING"
      BY <2>1 DEF OperationalInv, OrderInv, FailInv, ClaimsOpen
    <3> DEFINE Kept == row[e].status \in {"PROCESSED", "PURGED"} =>
                         row'[e].status \in {"PROCESSED", "PURGED"}
    <3>2. ASSUME Quiet(e) \/ Recorded(e) \/ Replayed(e) \/ Purged(e)
          PROVE  Kept
      BY <3>2, AttemptsAssumption DEF Quiet, Recorded, Replayed, Purged, Wrote, Is
    <3>3. ASSUME NEW b \in Commits, Committed(e, b) \/ Marked(e, b)
          PROVE  Kept
      BY <3>3 DEF Committed, Marked, Wrote, Is
    <3>4. ASSUME NEW r \in Relays,
                 Relayed(e, r) \/ Exhumed(e, r) \/ Released(e, r) \/ Buried(e, r)
          PROVE  Kept
      BY <3>1, <3>4, ActorsAssumption DEF Relayed, Exhumed, Released, Buried, Wrote, Is, Open
    <3>5. ASSUME NEW d \in Consumers,
                 Claimed(e, d) \/ Finished(e, d) \/ Returned(e, d) \/ GivenUp(e, d)
          PROVE  Kept
      BY <3>5 DEF Claimed, Finished, Returned, GivenUp, Owns, Wrote, Is, Open
    <3>6. RowMoves(e) => Kept
      BY <3>2, <3>3, <3>4, <3>5 DEF RowMoves
    <3> HIDE DEF Kept
    <3>7. Kept
      BY <2>1, <3>6, RowStep DEF OperationalInv, OrderInv, FailInv
    <3> QED  BY <3>7 DEF Kept
  <2> QED  BY <1>4, <2>2, <2>3 DEF OperationalInv, ReadingStands, Working
<1>5. CASE consumer[c].stage \in Working
  <2>0. /\ e \in Events /\ c # None /\ c \notin Relays
        /\ row[e].attempts \in 0 .. MaxAttempts
    BY <1>5, CurrentEvent, ActorsAssumption DEF Working, RowOK, RowTypes
  <2>1. /\ m.found = "CLAIMED" /\ m.tries <= row[e].attempts
        /\ row[e].token = c => row[e].attempts = m.tries
        /\ m.tries = MaxAttempts => row[e].token = c \/ row[e].status = "FAILED"
        /\ m.tries \in 0 .. MaxAttempts
    BY <1>5 DEF OperationalInv, ReadingStands, ReadingTypes
  <2>2. /\ row[e].token # None => row[e].status = "PROCESSING"
        /\ row[e].status \in {"NONE", "PENDING"} => row[e].attempts < MaxAttempts
    BY <2>0 DEF OperationalInv, OrderInv, FailInv, ClaimsOpen
  <2> DEFINE Known == /\ m.tries <= row'[e].attempts
                      /\ row'[e].token = c => row'[e].attempts = m.tries
                      /\ m.tries = MaxAttempts => row'[e].token = c \/ row'[e].status = "FAILED"
  <2>3. ASSUME Quiet(e)
        PROVE  Known
    BY <2>1, <2>3 DEF Quiet, Wrote, Is
  <2>4. ASSUME Recorded(e) \/ Replayed(e) \/ Purged(e)
        PROVE  Known
    BY <2>0, <2>1, <2>2, <2>4, AttemptsAssumption DEF Recorded, Replayed, Purged, Wrote, Is
  <2>5. ASSUME NEW b \in Commits, Committed(e, b) \/ Marked(e, b)
        PROVE  Known
    BY <2>0, <2>1, <2>2, <2>5, AttemptsAssumption DEF Committed, Marked, Wrote, Is
  <2>6. ASSUME NEW r \in Relays, Relayed(e, r) \/ Exhumed(e, r) \/ Released(e, r) \/ Buried(e, r)
        PROVE  Known
    <3>1. ~Exhumed(e, r) /\ ~Buried(e, r)
      BY DEF Exhumed, Buried, NothingBuried, OperationalInv
    <3>2. CASE Relayed(e, r)
      BY <2>0, <2>1, <3>2, AttemptsAssumption DEF Relayed, Wrote, Is, Open
    <3>3. CASE Released(e, r)
      BY <2>0, <2>1, <2>2, <3>3, ActorsAssumption, AttemptsAssumption DEF Released, Wrote, Is
    <3> QED  BY <2>6, <3>1, <3>2, <3>3
  <2>7. ASSUME NEW d \in Consumers,
               Claimed(e, d) \/ Finished(e, d) \/ Returned(e, d) \/ GivenUp(e, d)
        PROVE  Known
    <3>1. CASE d = c
      BY <1>5, <2>0, <2>1, <2>7, <3>1, AttemptsAssumption
      DEF Claimed, Finished, Returned, GivenUp, Working, Wrote, Is
    <3>2. CASE d # c
      BY <2>0, <2>1, <2>7, <3>2, AttemptsAssumption
      DEF Claimed, Finished, Returned, GivenUp, Owns, Wrote, Is, Open
    <3> QED  BY <3>1, <3>2
  <2>8. RowMoves(e) => Known
    BY <2>3, <2>4, <2>5, <2>6, <2>7 DEF RowMoves
  <2> HIDE DEF Known
  <2>9. Known
    BY <2>0, <2>8, RowStep DEF OperationalInv, OrderInv, FailInv
  <2> QED  BY <1>5, <2>1, <2>9 DEF ReadingStands, Working, Known
<1> QED
  BY <1>1, <1>2, <1>3, <1>4, <1>5, TypeSplit
  DEF OperationalInv, OrderInv, FailInv, TypeInv, ConsumersTyped, Working

(* What a consumer's own step makes of what it remembers.                  *)
LEMMA OwnReading ==
  ASSUME OperationalInv, NEW c \in Consumers, OperationalConsumer(c)
  PROVE  /\ reading' \in [Consumers -> ReadingTypes] /\ ReadingStands(c)'
         /\ \A d \in Consumers \ {c} : reading'[d] = reading[d] /\ consumer'[d] = consumer[d]
<1> DEFINE Goal == /\ reading' \in [Consumers -> ReadingTypes] /\ ReadingStands(c)'
                   /\ \A d \in Consumers \ {c} : reading'[d] = reading[d] /\ consumer'[d] = consumer[d]
<1>0. /\ ConsumersTyped /\ reading \in [Consumers -> ReadingTypes] /\ ReadingStands(c)
      /\ row = [e \in Events |-> row[e]] /\ \A e \in Events : RowOK(row[e])
      /\ consumer[c].left \subseteq Events
      /\ Unread \in ReadingTypes
  BY TypeSplit, AttemptsAssumption DEF OperationalInv, OrderInv, FailInv, TypeInv, ConsumersTyped,
     RowsTyped, Unread, ReadingTypes
<1>1. ASSUME \E R, L : ConsumerBecomes(c, "IDLE", R, L, None) \/ ConsumerBecomes(c, "NEXT", R, L, None),
             KeepReading(c)
      PROVE  Goal
  <2>1. consumer'[c].stage \in {"IDLE", "NEXT"}
    BY <1>1 DEF ConsumerBecomes
  <2>2. reading' = [reading EXCEPT ![c] = Unread]
    BY <1>1, <2>1 DEF KeepReading
  <2>3. ReadingStands(c)'
    BY <1>0, <2>1, <2>2 DEF ReadingStands, Working
  <2> QED  BY <1>0, <1>1, <2>2, <2>3 DEF ConsumerBecomes
<1>2. ASSUME NEW found \in {"SETTLED", "FAILED", "EXHAUSTED"}, NEW e \in Events,
             Take(c, e, "REFUSED"), Remember(c, found, e, 0), UNCHANGED row,
             found = "SETTLED" => row[e].status \in {"PROCESSED", "PURGED"},
             found = "FAILED" => row[e].status = "FAILED"
      PROVE  Goal
  <2>1. ConsumerBecomes(c, "REFUSED", consumer[c].received, consumer[c].left, e)
    BY <1>0, <1>2, ConsumerUpdates
  <2>2. reading' = [reading EXCEPT ![c] = [found |-> found, event |-> e, tries |-> 0]]
    BY <1>2 DEF Remember
  <2>3. [found |-> found, event |-> e, tries |-> 0] \in ReadingTypes
    BY AttemptsAssumption DEF ReadingTypes
  <2>4. ReadingStands(c)'
    BY <1>0, <1>2, <2>1, <2>2 DEF ReadingStands, ConsumerBecomes, Working
  <2> QED  BY <1>0, <2>1, <2>2, <2>3, <2>4 DEF ConsumerBecomes
<1>3. ASSUME NEW s \in {"PROJECTED", "PUBLISHED", "ERROR"}, Proceed(c, s), KeepReading(c),
             consumer[c].stage \in Working, UNCHANGED row
      PROVE  Goal
  <2>1. ConsumerBecomes(c, s, consumer[c].received, consumer[c].left, consumer[c].current)
    BY <1>0, <1>3, ConsumerUpdates
  <2>2. reading' = reading
    BY <1>0, <1>3, <2>1 DEF KeepReading, ConsumerBecomes
  <2>3. ReadingStands(c)'
    BY <1>0, <1>3, <2>1, <2>2 DEF ReadingStands, ConsumerBecomes, Working
  <2> QED  BY <1>0, <2>1, <2>2, <2>3 DEF ConsumerBecomes
<1>4. ASSUME Proceed(c, "DEAD"), KeepReading(c)
      PROVE  Goal
  <2>1. ConsumerBecomes(c, "DEAD", consumer[c].received, consumer[c].left, consumer[c].current)
    BY <1>0, <1>4, ConsumerUpdates
  <2>2. reading' = reading
    BY <1>0, <1>4, <2>1 DEF KeepReading, ConsumerBecomes
  <2>3. ReadingStands(c)'
    BY <2>1 DEF ReadingStands, ConsumerBecomes, Working
  <2> QED  BY <1>0, <2>1, <2>2, <2>3 DEF ConsumerBecomes
<1>5. ASSUME RetryRemainder(c), KeepReading(c)
      PROVE  Goal
  <2>1. ConsumerBecomes(c, "IDLE", {}, {}, None)
    BY <1>0, <1>5, ConsumerUpdates
  <2> QED  BY <1>1, <1>5, <2>1
<1>6. ASSUME NEW e, Ack(c, e), KeepReading(c)
      PROVE  Goal
  <2>1. \/ ConsumerBecomes(c, "IDLE", {}, {}, None)
        \/ ConsumerBecomes(c, "NEXT", consumer[c].received, consumer[c].left \ {e}, None)
    BY <1>0, <1>6, ConsumerUpdates
  <2> QED  BY <1>1, <1>6, <2>1
<1>7. ASSUME NEW e \in Events, FoundOpen(c, e)
      PROVE  Goal
  <2>1. UNCHANGED <<consumer, row>>
    BY <1>7 DEF FoundOpen, vars
  <2>2. reading' = [reading EXCEPT ![c] = [found |-> "OPEN", event |-> e, tries |-> 0]]
    BY <1>7 DEF FoundOpen, Remember
  <2>3. [found |-> "OPEN", event |-> e, tries |-> 0] \in ReadingTypes
    BY AttemptsAssumption DEF ReadingTypes
  <2>4. ReadingStands(c)'
    BY <1>0, <1>7, <2>1, <2>2 DEF ReadingStands, FoundOpen, Working, Earliest
  <2> QED  BY <1>0, <2>1, <2>2, <2>3, <2>4
<1>8. CASE ReadEvent(c)
  <2>1. ASSUME NEW e \in Events, FoundSettled(c, e) \/ FoundFailed(c, e) \/ FoundExhausted(c, e)
        PROVE  Goal
    BY <1>2, <2>1 DEF FoundSettled, FoundFailed, FoundExhausted, ClaimRefused
  <2>2. ASSUME NEW e \in Events, FoundLate(c, e)
        PROVE  Goal
    BY <1>5, <2>2 DEF FoundLate, ClaimLater
  <2> QED  BY <1>7, <1>8, <2>1, <2>2 DEF ReadEvent
<1>9. CASE ClaimEvent(c)
  <2> DEFINE e == reading[c].event
  <2>1. CASE RefusedClaim(c)
    BY <1>5, <2>1 DEF RefusedClaim, Return, ConsumerDies
  <2>2. CASE Claim(c, e) /\ Remember(c, "CLAIMED", e, row'[e].attempts)
    <3>1. e \in Events /\ RowOK(row[e]) /\ row[e].attempts < MaxAttempts
      BY <1>0, <2>2 DEF Claim, Claimable, Earliest
    <3>2. ConsumerBecomes(c, "CLAIMED", consumer[c].received, consumer[c].left, e)
      BY <1>0, <2>2, ConsumerUpdates DEF Claim
    <3>3. row'[e] = [row[e] EXCEPT !.status = "PROCESSING", !.attempts = @ + 1,
                                   !.lock = "HELD", !.token = c]
      BY <2>2, <3>1 DEF Claim, Update
    <3>4. Wrote(e, "PROCESSING", row[e].attempts + 1, c)
      BY <3>1, <3>3, RowClaims, Zenon
    <3>5. row'[e].token = c /\ row'[e].attempts \in 0 .. MaxAttempts
      BY <3>4 DEF Wrote, Is, RowOK, RowTypes
    <3>6. reading' = [reading EXCEPT ![c] = [found |-> "CLAIMED", event |-> e, tries |-> row'[e].attempts]]
      BY <2>2 DEF Remember
    <3>7. [found |-> "CLAIMED", event |-> e, tries |-> row'[e].attempts] \in ReadingTypes
      BY <3>1, <3>5 DEF ReadingTypes
    <3> DEFINE tries == row'[e].attempts
    <3>8. /\ consumer'[c].stage = "CLAIMED" /\ consumer'[c].current = e
          /\ reading'[c] = [found |-> "CLAIMED", event |-> e, tries |-> tries]
      BY <1>0, <3>2, <3>6 DEF ConsumerBecomes
    <3>9. tries <= row'[e].attempts
      BY <3>5
    <3>10. ReadingStands(c)'
      BY <3>5, <3>8, <3>9 DEF ReadingStands, Working
    <3> QED  BY <1>0, <3>2, <3>6, <3>7, <3>10 DEF ConsumerBecomes
  <2> QED  BY <1>9, <2>1, <2>2 DEF ClaimEvent
<1>10. CASE AnswerByReading(c)
  BY <1>4, <1>5, <1>6, <1>10 DEF AnswerByReading, GiveUp
<1>11. CASE Recover(c)
  BY <1>4, <1>5, <1>11 DEF Recover
<1>12. CASE Handle(c)
  <2>1. CASE Project(c) \/ Publish(c) \/ Fail(c)
    BY <1>3, <1>12, <2>1 DEF Handle, Project, Publish, Fail, Working
  <2>2. CASE MarkProcessed(c)
    BY <1>3, <1>6, <1>12, <2>2 DEF Handle, MarkProcessed, Working
  <2>3. CASE DeadLetter(c)
    BY <1>6, <1>12, <2>3 DEF Handle, DeadLetter
  <2>4. CASE ConsumerDies(c)
    BY <1>5, <1>12, <2>4 DEF Handle, ConsumerDies
  <2> QED  BY <1>12, <2>1, <2>2, <2>3, <2>4 DEF Handle
<1> QED
  BY <1>8, <1>9, <1>10, <1>11, <1>12 DEF OperationalConsumer

(* Every consumer's reading stands after every step.                       *)
LEMMA ReadingStep ==
  ASSUME OperationalInv, [OperationalNext]_opVars, "none" \in Modes, MaxReplays = 0
  PROVE  /\ reading' \in [Consumers -> ReadingTypes]
         /\ \A c \in Consumers : ReadingStands(c)'
<1>0. /\ reading \in [Consumers -> ReadingTypes] /\ ConsumersTyped
      /\ [Next]_vars /\ NothingBuried'
  BY OperationalImplements, NothingBuriedStep, TypeSplit
  DEF OperationalInv, OrderInv, FailInv, TypeInv
<1>1. CASE UNCHANGED <<consumer, reading>>
  BY <1>0, <1>1, ReadingStays
<1>2. ASSUME NEW c \in Consumers, OperationalConsumer(c)
      PROVE  /\ reading' \in [Consumers -> ReadingTypes]
             /\ \A d \in Consumers : ReadingStands(d)'
  <2>1. \A d \in Consumers \ {c} : ReadingStands(d)'
    BY <1>0, <1>2, OwnReading, ReadingStays
  <2> QED  BY <1>2, <2>1, OwnReading
<1>3. ASSUME NEW c \in Consumers, NEW B \in SUBSET Events, OperationalReceive(c, B)
      PROVE  \A d \in Consumers : ReadingStands(d)'
  <2>1. /\ consumer' = [consumer EXCEPT ![c] =
             [stage |-> "NEXT", received |-> B, left |-> B, current |-> None]]
        /\ consumer[c].stage = "IDLE" /\ reading' = reading
    BY <1>3 DEF OperationalReceive, Receive
  <2>2. ReadingStands(c)'
    <3>1. consumer'[c].stage = "NEXT" /\ reading'[c] = Unread
      BY <1>0, <2>1 DEF OperationalInv, ReadingStands, ConsumersTyped
    <3> QED  BY <3>1 DEF ReadingStands, Working
  <2>3. \A d \in Consumers \ {c} : ReadingStands(d)'
    BY <1>0, <2>1, ReadingStays DEF ConsumersTyped
  <2> QED  BY <2>2, <2>3
<1>4. ASSUME \/ \E b \in Commits : Emit(b)
             \/ \E r \in Relays : OperationalRelay(r)
             \/ \E e \in Events : OperationalPurge(e) \/ OperationalClock(e)
             \/ UNCHANGED opVars
      PROVE  UNCHANGED <<consumer, reading>>
  BY <1>4 DEF Emit, Commit, OperationalRelay, RelayClaim, RelaySend, RelaySendFails, RelayRecord,
     RelayRestore, RelayDies, OperationalPurge, OperationalClock, Purge, BecomesDue, LockExpires,
     QueueingExpires, Ages, opVars, vars
<1>5. ASSUME NEW c \in Consumers, NEW B \in SUBSET Events, OperationalReceive(c, B)
      PROVE  reading' = reading
  BY <1>5 DEF OperationalReceive
<1> QED
  BY <1>0, <1>1, <1>2, <1>3, <1>4, <1>5 DEF OperationalNext

(* The invariant of the dining room's outbox holds always.                 *)
LEMMA OperationalInvariance ==
  ASSUME "none" \in Modes, MaxReplays = 0
  PROVE  OperationalSpec => []OperationalInv
<1>1. OperationalInit => OperationalInv
  <2> SUFFICES ASSUME OperationalInit
               PROVE  OperationalInv
    OBVIOUS
  <2>1. Init /\ reading = [c \in Consumers |-> Unread]
    BY DEF OperationalInit
  <2>2. OrderInv
    BY <2>1, FailInvInit DEF Init, OrderInv, BatchInOrder, Resting
  <2>3. NothingBuried /\ \A c \in Consumers : ReadingStands(c)
    BY <2>1 DEF Init, Asleep, NothingBuried, Resting, ReadingStands, Working
  <2>4. reading \in [Consumers -> ReadingTypes]
    BY <2>1, AttemptsAssumption DEF Unread, ReadingTypes
  <2> QED  BY <2>2, <2>3, <2>4 DEF OperationalInv
<1>2. OperationalInv /\ [OperationalNext]_opVars => OperationalInv'
  <2> SUFFICES ASSUME OperationalInv, [OperationalNext]_opVars
               PROVE  OperationalInv'
    OBVIOUS
  <2>1. [Next]_vars
    BY OperationalImplements
  <2>2. OrderInv'
    BY <2>1, FailInvStep, OrderStep DEF OperationalInv, OrderInv
  <2> QED  BY <2>2, ReadingStep, NothingBuriedStep DEF OperationalInv
<1> QED
  BY <1>1, <1>2, PTL DEF OperationalSpec

(* Every variable keeps its type, and what a consumer remembers always     *)
(* fits what it is doing.                                                  *)
THEOREM OperationalTypes ==
  ASSUME "none" \in Modes, MaxReplays = 0
  PROVE  OperationalSpec => []OperationalTypeOK
<1>1. OperationalInv => OperationalTypeOK
  <2> SUFFICES ASSUME OperationalInv
               PROVE  OperationalTypeOK
    OBVIOUS
  <2>1. TypeOK /\ reading \in [Consumers -> ReadingTypes]
    BY DEF OperationalInv, OrderInv, FailInv, TypeInv
  <2>2. ASSUME NEW c \in Consumers
        PROVE  /\ consumer[c].stage = "IDLE" => reading[c] = Unread
               /\ consumer[c].stage = "NEXT" => reading[c].found \in {"NOTHING", "OPEN"}
               /\ consumer[c].stage = "REFUSED" => reading[c].found \in {"SETTLED", "FAILED", "EXHAUSTED"}
    BY DEF OperationalInv, ReadingStands, Unread
  <2> QED  BY <2>1, <2>2 DEF OperationalTypeOK, ReadingTypes
<1> QED
  BY <1>1, OperationalInvariance, PTL

(* A consumer of the dining room's outbox reads once and goes by what it   *)
(* remembers; still it never does what a consumer of the orders' outbox,   *)
(* which looks again, could not do, for any number of consumers and relays *)
(* whose claims expire under them.                                         *)
THEOREM OperationalRefinement ==
  ASSUME "none" \in Modes, MaxReplays = 0
  PROVE  OperationalSpec => OrdersProtocolKept
<1>1. OperationalInit => Init
  BY DEF OperationalInit
<1>2. OperationalInv /\ [OperationalNext]_opVars => [Next]_vars
  BY OperationalImplements
<1> QED
  BY <1>1, <1>2, OperationalInvariance, PTL DEF OperationalSpec, Spec, OrdersProtocolKept

(* A consumer that answers "dead-letter" by what it remembers (an earlier  *)
(* read, the number of its own attempt) does so only for an event that is  *)
(* given up, also when its claim expired and others took the row since.    *)
DeadLetteredIsFailed ==
  \A c \in Consumers : consumer[c].stage = "DEAD" => row[consumer[c].current].status = "FAILED"

(* "dead-letter" is answered only for an event that is given up, although  *)
(* the consumer does not look at the row again: its last attempt is        *)
(* nobody else's, whoever took the row in between gave it up.              *)
THEOREM DeadLettersAreFailed ==
  ASSUME "none" \in Modes, MaxReplays = 0
  PROVE  OperationalSpec => []DeadLetteredIsFailed
<1>1. OperationalInv => DeadLetteredIsFailed
  BY DEF OperationalInv, OrderInv, BatchInOrder, DeadLetteredIsFailed
<1> QED
  BY <1>1, OperationalInvariance, PTL

(* As it does what the orders' outbox does, the dining room's outbox gives *)
(* up after every attempt and not without a message, keeps the versions of *)
(* a session in order and delivers nothing unpublished; and a row whose    *)
(* last attempt was killed, which its relay passes over, keeps a message.  *)
THEOREM OperationalInherits ==
  ASSUME "none" \in Modes, MaxReplays = 0
  PROVE  OperationalSpec =>
           /\ [](FailedAfterEveryAttempt /\ NoneLostInSilence /\ InOrderWithinBatch)
           /\ DeliveryKept
BY OperationalRefinement, GivenUpAfterEveryAttempt, SpentIsReported, VersionsInOrder,
   DeliveryRefinement, PTL DEF OrdersProtocolKept
=============================================================================
