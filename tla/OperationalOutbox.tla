-------------------------- MODULE OperationalOutbox --------------------------
(***************************************************************************)
(* The outbox of the dining room, a second table beside the orders' with a *)
(* relay, a retention job and a place in the same queue of its own.  The   *)
(* events are those of one dining session.                                 *)
(*                                                                         *)
(* Its statements are those of OrderOutbox and are taken from there.  What *)
(* differs is what a consumer knows: it decides by what it read before it  *)
(* tried to claim, never reads again, and after an error goes by the       *)
(* number of its own attempt.  There is no dispatch after the commit, no   *)
(* pass of the relay over exhausted rows and no replay.                    *)
(***************************************************************************)
EXTENDS OrderOutbox

VARIABLE reading   \* what each consumer remembers of the row it handles

opVars == <<vars, reading>>

Unread == [found |-> "NOTHING", event |-> None, tries |-> 0]

Remember(c, found, e, tries) ==
  reading' = [reading EXCEPT ![c] = [found |-> found, event |-> e, tries |-> tries]]

(* What was read is forgotten with the message it was read for.            *)
KeepReading(c) ==
  reading' = [reading EXCEPT ![c] = IF consumer'[c].stage \in {"IDLE", "NEXT"} THEN Unread ELSE @]

(* retryRemainder, on an answer "retry" or an exception.                   *)
Return(c) == ConsumerDies(c) /\ KeepReading(c)

-----------------------------------------------------------------------------
(* processOperationalOutboxMessage                                         *)

(* findUnique, and what it decides at once.                                *)
FoundSettled(c, e) ==
  /\ row[e].status \in {"PROCESSED", "PURGED"}
  /\ ClaimRefused(c, e) /\ Remember(c, "SETTLED", e, 0)

FoundFailed(c, e) ==
  /\ row[e].status = "FAILED"
  /\ ClaimRefused(c, e) /\ Remember(c, "FAILED", e, 0)

FoundExhausted(c, e) ==
  /\ e \in Exhausted
  /\ ClaimRefused(c, e) /\ Remember(c, "EXHAUSTED", e, 0)

FoundLate(c, e) ==
  /\ e \notin Exhausted
  /\ ClaimLater(c, e) /\ KeepReading(c)

FoundOpen(c, e) ==
  /\ consumer[c].stage = "NEXT" /\ e \in Earliest(consumer[c].left)
  /\ row[e].status \in Open /\ row[e].due /\ e \notin Exhausted
  /\ Remember(c, "OPEN", e, 0)
  /\ UNCHANGED vars

ReadEvent(c) ==
  /\ reading[c] = Unread
  /\ \E e \in Events :
       \/ FoundSettled(c, e) \/ FoundFailed(c, e) \/ FoundExhausted(c, e)
       \/ FoundLate(c, e) \/ FoundOpen(c, e)

RefusedClaim(c) == Return(c)

(* The claim, which counts the attempt; refused, it is not looked into.    *)
ClaimEvent(c) ==
  LET e == reading[c].event IN
  /\ reading[c].found = "OPEN"
  /\ \/ Claim(c, e) /\ Remember(c, "CLAIMED", e, row'[e].attempts)
     \/ ~Claimable(e) /\ RefusedClaim(c)

(* Faulty: what was read is not repeated in the statement.                 *)
GiveUpUnchecked(c) ==
  LET e == consumer[c].current IN
  /\ Update({e}, LAMBDA r : Settle(r, "FAILED"))
  /\ Proceed(c, "DEAD")
  /\ UNCHANGED <<queue, deadLetters>>

(* updateMany ... attempts >= OUTBOX_MAX_ATTEMPTS: the row is given up, or *)
(* is no longer what was read and the claim that follows is refused.       *)
GiveUp(c) ==
  LET e == consumer[c].current IN
  IF e \in Exhausted
  THEN /\ Update({e}, LAMBDA r : Settle(r, "FAILED"))
       /\ Proceed(c, "DEAD")
       /\ UNCHANGED <<queue, deadLetters>>
  ELSE RetryRemainder(c) /\ UNCHANGED row

(* The answer by what was read.                                            *)
AnswerByReading(c) ==
  LET found == reading[c].found IN
  /\ consumer[c].stage = "REFUSED"
  /\ \/ found = "SETTLED" /\ Ack(c, consumer[c].current) /\ UNCHANGED <<row, queue, deadLetters>>
     \/ found = "FAILED" /\ Proceed(c, "DEAD") /\ UNCHANGED <<row, queue, deadLetters>>
     \/ found = "EXHAUSTED" /\ GiveUp(c)
  /\ KeepReading(c)
  /\ UNCHANGED <<published, projected, dispatch, relay, replays>>

(* claimed.attempts >= OUTBOX_MAX_ATTEMPTS                                 *)
Spent(c) == reading[c].tries >= MaxAttempts

(* The catch block: the row is given back or given up if it is still the   *)
(* consumer's own; the answer goes by the attempt alone.                   *)
Recover(c) ==
  LET e == consumer[c].current IN
  /\ consumer[c].stage = "ERROR"
  /\ Update({f \in {e} : Owns(c, f)}, LAMBDA r :
       [Settle(r, IF Spent(c) THEN "FAILED" ELSE "PROCESSING") EXCEPT !.due = FALSE])
  /\ IF Spent(c)
     THEN Proceed(c, "DEAD") /\ UNCHANGED <<queue, deadLetters>>
     ELSE RetryRemainder(c)
  /\ KeepReading(c)
  /\ UNCHANGED <<published, projected, dispatch, relay, replays>>

(* The payload is checked (Project, nothing being projected), the dining   *)
(* room is told, the row is settled, or the answer is carried out.         *)
Handle(c) ==
  /\ Project(c) \/ Publish(c) \/ Fail(c) \/ MarkProcessed(c) \/ DeadLetter(c) \/ ConsumerDies(c)
  /\ KeepReading(c)

OperationalConsumer(c) ==
  ReadEvent(c) \/ ClaimEvent(c) \/ AnswerByReading(c) \/ Recover(c) \/ Handle(c)

-----------------------------------------------------------------------------
(* createDiningRoomOperationalEvent, in the transaction of the session.    *)
Emit(b) == Commit(b, "none") /\ UNCHANGED reading

(* relayPendingOperationalOutboxEvents                                     *)
OperationalRelay(r) ==
  /\ \/ RelayClaim(r) \/ RelaySend(r) \/ RelaySendFails(r)
     \/ RelayRecord(r) \/ RelayRestore(r) \/ RelayDies(r)
  /\ UNCHANGED reading

OperationalReceive(c, B) == Receive(c, B) /\ UNCHANGED reading

(* purgeProcessedOperationalOutboxEvents                                   *)
OperationalPurge(e) == Purge(e) /\ UNCHANGED reading

OperationalClock(e) ==
  (BecomesDue(e) \/ LockExpires(e) \/ QueueingExpires(e)) /\ UNCHANGED reading

OperationalInit == Init /\ reading = [c \in Consumers |-> Unread]

OperationalNext ==
  \/ \E b \in Commits : Emit(b)
  \/ \E r \in Relays : OperationalRelay(r)
  \/ \E c \in Consumers :
       (\E B \in SUBSET Events : OperationalReceive(c, B)) \/ OperationalConsumer(c)
  \/ \E e \in Events : OperationalPurge(e) \/ OperationalClock(e)

OperationalSpec == OperationalInit /\ [][OperationalNext]_opVars

-----------------------------------------------------------------------------
(* Every variable has its type, and what a consumer remembers came with    *)
(* the message it handles.                                                 *)
OperationalTypeOK ==
  /\ TypeOK
  /\ reading \in [Consumers ->
       [found : {"NOTHING", "OPEN", "SETTLED", "FAILED", "EXHAUSTED", "CLAIMED"},
        event : Events \cup {None}, tries : 0 .. MaxAttempts]]
  /\ \A c \in Consumers :
       /\ consumer[c].stage = "IDLE" => reading[c] = Unread
       /\ consumer[c].stage = "NEXT" => reading[c].found \in {"NOTHING", "OPEN"}

(* Although its consumers read once and decide by that, the dining room's  *)
(* outbox does nothing that the orders' outbox could not do.               *)
OrdersProtocolKept == Spec
=============================================================================
