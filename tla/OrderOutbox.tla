----------------------------- MODULE OrderOutbox -----------------------------
(***************************************************************************)
(* The way of an order's events from the transaction that wrote them to    *)
(* the screens and the loyalty ledger: the dispatch that follows the       *)
(* commit, the relay the cron runs every minute, the consumers of the      *)
(* queue, the dead-letter queue and the operator's replay.                 *)
(*                                                                         *)
(* The events are those of one order; orders do not meet in this pipeline. *)
(* Every step below is one database statement, one send or one             *)
(* publication, and between any two of them the execution may be killed.   *)
(* Time is three flags that only time changes: whether a row is due,       *)
(* whether its lock is older than two minutes, whether it was queued more  *)
(* than fifteen minutes ago.                                               *)
(***************************************************************************)
EXTENDS Naturals

CONSTANTS
  Events,        \* the order's events
  Version,       \* the aggregate version of each
  Commits,       \* the events each transaction writes together
  Modes,         \* what getOrderEventPublishMode returns, "none" for the worker's changes
  Projecting,    \* ORDER_COMPLETED and ORDER_CANCELLED
  Consumers,     \* concurrent handlings of a group of queue messages
  Relays,        \* overlapping runs of the cron
  MaxAttempts,   \* OUTBOX_MAX_ATTEMPTS
  MaxReplays,    \* bound: replays by the operator
  None

ASSUME EventsAssumption ==
  /\ Version \in [Events -> Nat]
  /\ Commits \subseteq SUBSET Events /\ Projecting \subseteq Events
ASSUME ModesAssumption == Modes \subseteq {"direct", "dual", "outbox", "none"}
ASSUME ActorsAssumption == Consumers \cap Relays = {} /\ None \notin Consumers \cup Relays \cup Events
ASSUME AttemptsAssumption == MaxAttempts \in Nat \ {0} /\ MaxReplays \in Nat

VARIABLES
  row,           \* order_outbox_events
  queue,         \* events with a message waiting in ORDER_OUTBOX_QUEUE
  deadLetters,   \* events with an unread message in ORDER_OUTBOX_DLQ
  published,     \* events Pusher has shown
  projected,     \* events the loyalty ledger has seen
  dispatch,      \* what is left to do after the commit of a transaction
  consumer,      \* what each consumer is doing
  relay,         \* what each relay is doing
  replays

vars == <<row, queue, deadLetters, published, projected, dispatch, consumer, relay, replays>>

Open == {"PENDING", "PROCESSING"}
Absent == [status |-> "NONE", attempts |-> 0, due |-> TRUE, queued |-> "NEVER",
           lock |-> "FREE", token |-> None]
Resting == [stage |-> "IDLE", received |-> {}, left |-> {}, current |-> None]
Asleep == [stage |-> "IDLE", rows |-> {}]

(* The rows of S become what F makes of them.                              *)
Update(S, F(_)) == row' = [e \in Events |-> IF e \in S THEN F(row[e]) ELSE row[e]]

(* Faulty: the lock is released and its token kept.                        *)
SettleKeepsToken(r, status) == [r EXCEPT !.status = status, !.lock = "FREE"]

(* lockedAt: null, lockToken: null                                         *)
Settle(r, status) == [r EXCEPT !.status = status, !.lock = "FREE", !.token = None]

(* Faulty: whoever finishes, finishes.                                     *)
OwnsAnyway(x, e) == row[e].status \in Open \cup {"PROCESSED"}

(* ... WHERE status = 'PROCESSING' AND lockToken = the claim's.            *)
Owns(x, e) == row[e].status = "PROCESSING" /\ row[e].token = x

-----------------------------------------------------------------------------
(* After the commit: dispatchCommittedOrderEvents.                         *)

(* What is to be done after a commit.  An order changed by the worker      *)
(* itself is not dispatched at all.                                        *)
Plan == [direct |-> {"PROJECT", "PUBLISH", "MARK"}, dual |-> {"PUBLISH", "SEND"},
         outbox |-> {"SEND"}, none |-> {}]

Commit(b, mode) ==
  /\ \A e \in b : row[e].status = "NONE"
  /\ Update(b, LAMBDA r : [r EXCEPT !.status = "PENDING"])
  /\ dispatch' = [dispatch EXCEPT ![b] = Plan[mode]]
  /\ UNCHANGED <<queue, deadLetters, published, projected, consumer, relay, replays>>

Done(b, step) == dispatch' = [dispatch EXCEPT ![b] = @ \ {step}]

(* attemptDirectProjection: each event in a transaction of its own, until  *)
(* one fails; then the events stay pending.                                *)
DirectProject(b) ==
  /\ "PROJECT" \in dispatch[b]
  /\ \E S \in SUBSET (b \cap Projecting) :
       /\ projected' = projected \cup S
       /\ dispatch' = [dispatch EXCEPT ![b] =
            @ \ (IF S = b \cap Projecting THEN {"PROJECT"} ELSE {"PROJECT", "MARK"})]
  /\ UNCHANGED <<row, queue, deadLetters, published, consumer, relay, replays>>

(* attemptDirectPublish: Pusher may have shown what it reports as failed.  *)
DirectPublish(b) ==
  /\ "PUBLISH" \in dispatch[b]
  /\ \E S \in SUBSET b, ok \in BOOLEAN :
       /\ ok => S = b
       /\ published' = published \cup S
       /\ dispatch' = [dispatch EXCEPT ![b] = @ \ (IF ok THEN {"PUBLISH"} ELSE {"PUBLISH", "MARK"})]
  /\ UNCHANGED <<row, queue, deadLetters, projected, consumer, relay, replays>>

(* markDirectlyProcessed: both succeeded.                                  *)
MarkDirectlyProcessed(b) ==
  /\ dispatch[b] = {"MARK"}
  /\ Update({e \in b : row[e].status = "PENDING"}, LAMBDA r : [r EXCEPT !.status = "PROCESSED"])
  /\ Done(b, "MARK")
  /\ UNCHANGED <<queue, deadLetters, published, projected, consumer, relay, replays>>

(* enqueueEvents: the batch is sent ...                                    *)
DirectSend(b) ==
  /\ "SEND" \in dispatch[b]
  /\ queue' = queue \cup b
  /\ dispatch' = [dispatch EXCEPT ![b] = (@ \ {"SEND"}) \cup {"RECORD"}]
  /\ UNCHANGED <<row, deadLetters, published, projected, consumer, relay, replays>>

(* ... and what nobody has taken up yet is recorded as queued.             *)
RecordSend(b) ==
  /\ "RECORD" \in dispatch[b]
  /\ Update({e \in b : row[e].status = "PENDING"}, LAMBDA r :
       [r EXCEPT !.status = "PROCESSING", !.queued = "FRESH", !.due = TRUE])
  /\ Done(b, "RECORD")
  /\ UNCHANGED <<queue, deadLetters, published, projected, consumer, relay, replays>>

(* The queue refuses the batch or the request is killed: the cron's turn.  *)
DispatchStops(b) ==
  /\ dispatch[b] # {}
  /\ dispatch' = [dispatch EXCEPT ![b] = {}]
  /\ UNCHANGED <<row, queue, deadLetters, published, projected, consumer, relay, replays>>

-----------------------------------------------------------------------------
(* The relay: relayPendingOrderOutboxEvents.                               *)

(* Faulty: a row once taken up is left to its consumer.                    *)
NeverTakenUp ==
  {e \in Events : /\ row[e].status = "PENDING" /\ row[e].due
                  /\ row[e].attempts < MaxAttempts /\ row[e].lock # "HELD"}

RelayCandidates ==
  {e \in Events : /\ \/ row[e].status = "PENDING"
                     \/ row[e].status = "PROCESSING" /\ row[e].queued # "FRESH"
                  /\ row[e].due /\ row[e].attempts < MaxAttempts /\ row[e].lock # "HELD"}

RelayStep(r, from, to) == relay[r].stage = from /\ relay' = [relay EXCEPT ![r].stage = to]
RelayEnds(r, from) == relay[r].stage = from /\ relay' = [relay EXCEPT ![r] = Asleep]
Mine(r) == {e \in relay[r].rows : row[e].token = r}

RelayClaim(r) ==
  /\ relay[r].stage = "IDLE" /\ RelayCandidates # {}
  /\ Update(RelayCandidates, LAMBDA x :
       [x EXCEPT !.status = "PROCESSING", !.lock = "HELD", !.token = r])
  /\ relay' = [relay EXCEPT ![r] = [stage |-> "CLAIMED", rows |-> RelayCandidates]]
  /\ UNCHANGED <<queue, deadLetters, published, projected, dispatch, consumer, replays>>

RelaySend(r) ==
  /\ RelayStep(r, "CLAIMED", "SENT")
  /\ queue' = queue \cup relay[r].rows
  /\ UNCHANGED <<row, deadLetters, published, projected, dispatch, consumer, replays>>

(* sendBatch throws; the messages may be in the queue all the same.        *)
RelaySendFails(r) ==
  /\ RelayStep(r, "CLAIMED", "UNSENT")
  /\ queue' \in {queue, queue \cup relay[r].rows}
  /\ UNCHANGED <<row, deadLetters, published, projected, dispatch, consumer, replays>>

RelayRecord(r) ==
  /\ RelayEnds(r, "SENT")
  /\ Update(Mine(r), LAMBDA x : [Settle(x, x.status) EXCEPT !.queued = "FRESH"])
  /\ UNCHANGED <<queue, deadLetters, published, projected, dispatch, consumer, replays>>

RelayRestore(r) ==
  /\ RelayEnds(r, "UNSENT")
  /\ Update(Mine(r), LAMBDA x : [Settle(x, "PENDING") EXCEPT !.due = FALSE])
  /\ UNCHANGED <<queue, deadLetters, published, projected, dispatch, consumer, replays>>

(* deadLetterExhaustedOrderOutboxEvents: rows whose last claim was never   *)
(* finished.                                                               *)
Exhausted ==
  {e \in Events : /\ row[e].status \in Open
                  /\ row[e].attempts >= MaxAttempts /\ row[e].lock # "HELD"}

BuryClaim(r) ==
  /\ relay[r].stage = "IDLE" /\ Exhausted # {}
  /\ Update(Exhausted, LAMBDA x : [x EXCEPT !.lock = "HELD", !.token = r])
  /\ relay' = [relay EXCEPT ![r] = [stage |-> "BURYING", rows |-> Exhausted]]
  /\ UNCHANGED <<queue, deadLetters, published, projected, dispatch, consumer, replays>>

BurySend(r) ==
  /\ RelayStep(r, "BURYING", "BURIED")
  /\ deadLetters' = deadLetters \cup relay[r].rows
  /\ UNCHANGED <<row, queue, published, projected, dispatch, consumer, replays>>

BurySendFails(r) ==
  /\ RelayStep(r, "BURYING", "UNBURIED")
  /\ deadLetters' \in {deadLetters, deadLetters \cup relay[r].rows}
  /\ UNCHANGED <<row, queue, published, projected, dispatch, consumer, replays>>

BuryRecord(r) ==
  /\ RelayEnds(r, "BURIED")
  /\ Update(Mine(r), LAMBDA x : Settle(x, "FAILED"))
  /\ UNCHANGED <<queue, deadLetters, published, projected, dispatch, consumer, replays>>

BuryRestore(r) ==
  /\ RelayEnds(r, "UNBURIED")
  /\ Update(Mine(r), LAMBDA x : [Settle(x, x.status) EXCEPT !.due = FALSE])
  /\ UNCHANGED <<queue, deadLetters, published, projected, dispatch, consumer, replays>>

RelayDies(r) ==
  /\ relay[r].stage # "IDLE"
  /\ relay' = [relay EXCEPT ![r] = Asleep]
  /\ UNCHANGED <<row, queue, deadLetters, published, projected, dispatch, consumer, replays>>

-----------------------------------------------------------------------------
(* The consumer: the queue handler and processOrderOutboxMessage.          *)

(* A batch arrives.  Delivery is at least once: a copy may stay behind.    *)
Receive(c, B) ==
  /\ consumer[c].stage = "IDLE" /\ B # {} /\ B \subseteq queue
  /\ consumer' = [consumer EXCEPT ![c] =
       [stage |-> "NEXT", received |-> B, left |-> B, current |-> None]]
  /\ queue' \in {queue, queue \ B}
  /\ UNCHANGED <<row, deadLetters, published, projected, dispatch, relay, replays>>

(* The messages of an order are handled by version.                        *)
Earliest(B) == {e \in B : \A f \in B : Version[e] <= Version[f]}

Proceed(c, stage) == consumer' = [consumer EXCEPT ![c].stage = stage]
Take(c, e, stage) == consumer' = [consumer EXCEPT ![c].stage = stage, ![c].current = e]

(* message.ack() *)
Ack(c, e) ==
  LET left == consumer[c].left \ {e} IN
  consumer' = [consumer EXCEPT ![c] =
    IF left = {} THEN Resting ELSE [@ EXCEPT !.stage = "NEXT", !.left = left, !.current = None]]

(* Faulty: only the message that failed is returned, the later ones of the *)
(* batch go on.                                                            *)
RetryCurrent(c) ==
  \E e \in consumer[c].left :
    /\ \/ e = consumer[c].current
       \/ consumer[c].current = None /\ e \in Earliest(consumer[c].left)
    /\ queue' = queue \cup {e}
    /\ Ack(c, e)
    /\ UNCHANGED deadLetters

(* retryRemainder: the message and those after it return to the queue, or  *)
(* after max_retries deliveries to the dead-letter queue.                  *)
RetryRemainder(c) ==
  /\ \E spent \in SUBSET consumer[c].left :
       /\ queue' = queue \cup (consumer[c].left \ spent)
       /\ deadLetters' = deadLetters \cup spent
  /\ consumer' = [consumer EXCEPT ![c] = Resting]

Claimable(e) ==
  /\ row[e].status \in Open /\ row[e].due
  /\ row[e].attempts < MaxAttempts /\ row[e].lock # "HELD"

(* The row is read and claimed.  The claim's WHERE repeats what the read   *)
(* decides, so that reading and claiming are one step here.                *)
Claim(c, e) ==
  /\ consumer[c].stage = "NEXT" /\ e \in Earliest(consumer[c].left)
  /\ Claimable(e)
  /\ Update({e}, LAMBDA r : [r EXCEPT !.status = "PROCESSING", !.attempts = @ + 1,
                                     !.lock = "HELD", !.token = c])
  /\ Take(c, e, "CLAIMED")
  /\ UNCHANGED <<queue, deadLetters, published, projected, dispatch, relay, replays>>

(* Not due: it is tried again later, without spending an attempt.          *)
ClaimLater(c, e) ==
  /\ consumer[c].stage = "NEXT" /\ e \in Earliest(consumer[c].left)
  /\ row[e].status \in Open /\ ~row[e].due
  /\ RetryRemainder(c)
  /\ UNCHANGED <<row, published, projected, dispatch, relay, replays>>

(* Settled already, or refused by the claim: look again.                   *)
ClaimRefused(c, e) ==
  /\ consumer[c].stage = "NEXT" /\ e \in Earliest(consumer[c].left)
  /\ ~Claimable(e)
  /\ Take(c, e, "REFUSED")
  /\ UNCHANGED <<row, queue, deadLetters, published, projected, dispatch, relay, replays>>

(* What a consumer answers that finds the row is not its own.              *)
AnswerSettled(c) ==
  LET e == consumer[c].current IN
  \/ /\ row[e].status \in {"PROCESSED", "PURGED"}
     /\ Ack(c, e)
     /\ UNCHANGED <<row, queue, deadLetters>>
  \/ /\ row[e].status = "FAILED"
     /\ Proceed(c, "DEAD")
     /\ UNCHANGED <<row, queue, deadLetters>>

Examine(c) ==
  LET e == consumer[c].current IN
  /\ consumer[c].stage = "REFUSED"
  /\ \/ AnswerSettled(c)
     \/ /\ e \in Exhausted
        /\ Update({e}, LAMBDA r : Settle(r, "FAILED"))
        /\ Proceed(c, "DEAD")
        /\ UNCHANGED <<queue, deadLetters>>
     \/ /\ row[e].status \in Open /\ e \notin Exhausted
        /\ RetryRemainder(c)
        /\ UNCHANGED row
  /\ UNCHANGED <<published, projected, dispatch, relay, replays>>

(* The transaction on the loyalty ledger and the customer relationship.    *)
Project(c) ==
  /\ consumer[c].stage = "CLAIMED"
  /\ projected' = projected \cup ({consumer[c].current} \cap Projecting)
  /\ Proceed(c, "PROJECTED")
  /\ UNCHANGED <<row, queue, deadLetters, published, dispatch, relay, replays>>

Publish(c) ==
  /\ consumer[c].stage = "PROJECTED"
  /\ published' = published \cup {consumer[c].current}
  /\ Proceed(c, "PUBLISHED")
  /\ UNCHANGED <<row, queue, deadLetters, projected, dispatch, relay, replays>>

(* The ledger, Pusher or the database fails: into the catch block.  Pusher *)
(* may have shown the event.                                               *)
Fail(c) ==
  /\ consumer[c].stage \in {"CLAIMED", "PROJECTED", "PUBLISHED"}
  /\ published' \in {published, published \cup
       (IF consumer[c].stage = "PROJECTED" THEN {consumer[c].current} ELSE {})}
  /\ Proceed(c, "ERROR")
  /\ UNCHANGED <<row, queue, deadLetters, projected, dispatch, relay, replays>>

MarkProcessed(c) ==
  LET e == consumer[c].current IN
  /\ consumer[c].stage = "PUBLISHED"
  /\ IF Owns(c, e)
     THEN /\ Update({e}, LAMBDA r : Settle(r, "PROCESSED"))
          /\ Ack(c, e)
     ELSE /\ Proceed(c, "ERROR")
          /\ UNCHANGED row
  /\ UNCHANGED <<queue, deadLetters, published, projected, dispatch, relay, replays>>

(* Faulty: given up one attempt early.                                     *)
ExhaustedEarly(e) == row[e].attempts + 1 >= MaxAttempts

LastAttempt(e) == row[e].attempts >= MaxAttempts

(* The catch block: the row is given back, or given up after the last      *)
(* attempt, unless the claim was lost.                                     *)
HandleError(c) ==
  LET e == consumer[c].current IN
  /\ consumer[c].stage = "ERROR"
  /\ IF Owns(c, e)
     THEN IF LastAttempt(e)
          THEN /\ Update({e}, LAMBDA r : [Settle(r, "FAILED") EXCEPT !.due = FALSE])
               /\ Proceed(c, "DEAD")
               /\ UNCHANGED <<queue, deadLetters>>
          ELSE /\ Update({e}, LAMBDA r : [Settle(r, "PROCESSING") EXCEPT !.due = FALSE])
               /\ RetryRemainder(c)
     ELSE \/ AnswerSettled(c)
          \/ /\ row[e].status \in Open
             /\ RetryRemainder(c)
             /\ UNCHANGED row
  /\ UNCHANGED <<published, projected, dispatch, relay, replays>>

(* Faulty: acknowledged whether or not the dead-letter queue took it.      *)
DeadLetterCareless(c) ==
  /\ consumer[c].stage = "DEAD"
  /\ deadLetters' \in {deadLetters, deadLetters \cup {consumer[c].current}}
  /\ Ack(c, consumer[c].current)
  /\ UNCHANGED <<row, queue, published, projected, dispatch, relay, replays>>

(* A result "dead-letter": sent to the dead-letter queue, then confirmed.  *)
DeadLetter(c) ==
  /\ consumer[c].stage = "DEAD"
  /\ deadLetters' = deadLetters \cup {consumer[c].current}
  /\ Ack(c, consumer[c].current)
  /\ UNCHANGED <<row, queue, published, projected, dispatch, relay, replays>>

(* The handler throws or is killed at any point: its messages are not      *)
(* confirmed and come back.                                                *)
ConsumerDies(c) ==
  /\ consumer[c].stage # "IDLE"
  /\ RetryRemainder(c)
  /\ UNCHANGED <<row, published, projected, dispatch, relay, replays>>

-----------------------------------------------------------------------------
(* The operator, the retention job and the clock.                          *)

(* replay-order-outbox.ts; the operator has taken the message off the      *)
(* dead-letter queue.                                                      *)
Replay(e) ==
  /\ row[e].status = "FAILED" /\ replays < MaxReplays
  /\ row' = [row EXCEPT ![e] = [Absent EXCEPT !.status = "PENDING"]]
  /\ deadLetters' = deadLetters \ {e}
  /\ replays' = replays + 1
  /\ UNCHANGED <<queue, published, projected, dispatch, consumer, relay>>

(* purgeProcessedOrderOutboxEvents *)
Purge(e) ==
  /\ row[e].status = "PROCESSED"
  /\ Update({e}, LAMBDA r : [r EXCEPT !.status = "PURGED"])
  /\ UNCHANGED <<queue, deadLetters, published, projected, dispatch, consumer, relay, replays>>

Ages(e, later) ==
  /\ row[e].status \in Open /\ row[e] # later
  /\ row' = [row EXCEPT ![e] = later]
  /\ UNCHANGED <<queue, deadLetters, published, projected, dispatch, consumer, relay, replays>>

(* availableAt is reached.                                                 *)
BecomesDue(e) == Ages(e, [row[e] EXCEPT !.due = TRUE])

(* CLAIM_TIMEOUT_MS goes by.                                               *)
LockExpires(e) == row[e].lock = "HELD" /\ Ages(e, [row[e] EXCEPT !.lock = "STALE"])

(* STALE_QUEUE_MS goes by.                                                 *)
QueueingExpires(e) == row[e].queued = "FRESH" /\ Ages(e, [row[e] EXCEPT !.queued = "STALE"])

-----------------------------------------------------------------------------
Init ==
  /\ row = [e \in Events |-> Absent]
  /\ queue = {} /\ deadLetters = {} /\ published = {} /\ projected = {}
  /\ dispatch = [b \in Commits |-> {}]
  /\ consumer = [c \in Consumers |-> Resting]
  /\ relay = [r \in Relays |-> Asleep]
  /\ replays = 0

Dispatch(b) ==
  \/ DirectProject(b) \/ DirectPublish(b) \/ MarkDirectlyProcessed(b)
  \/ DirectSend(b) \/ RecordSend(b) \/ DispatchStops(b)

RelayWorks(r) ==
  \/ RelayClaim(r) \/ RelaySend(r) \/ RelaySendFails(r) \/ RelayRecord(r) \/ RelayRestore(r)
  \/ BuryClaim(r) \/ BurySend(r) \/ BurySendFails(r) \/ BuryRecord(r) \/ BuryRestore(r)
  \/ RelayDies(r)

ConsumerWorks(c) ==
  \/ \E e \in Events : Claim(c, e) \/ ClaimLater(c, e) \/ ClaimRefused(c, e)
  \/ Examine(c) \/ Project(c) \/ Publish(c) \/ Fail(c) \/ MarkProcessed(c)
  \/ HandleError(c) \/ DeadLetter(c) \/ ConsumerDies(c)

Next ==
  \/ \E b \in Commits :
       \/ \E mode \in Modes : Commit(b, mode)
       \/ Dispatch(b)
  \/ \E r \in Relays : RelayWorks(r)
  \/ \E c \in Consumers : (\E B \in SUBSET Events : Receive(c, B)) \/ ConsumerWorks(c)
  \/ \E e \in Events : Replay(e) \/ Purge(e) \/ BecomesDue(e) \/ LockExpires(e) \/ QueueingExpires(e)

Spec == Init /\ [][Next]_vars

InTransit == queue \cup UNION {consumer[c].left : c \in Consumers}

(* The cron records what it sent while the message is still about: the     *)
(* record follows by milliseconds, a refused message returns after seconds.*)
HandsOver(r) == relay[r].rows \subseteq InTransit /\ RelayRecord(r)

(* A message about while its row is free is not for ever late: a message   *)
(* is tried again within seconds, a row stays free for fifteen minutes.    *)
Served(e) ==
  []<>(Claimable(e) /\ e \in InTransit) => []<><<\E c \in Consumers : Claim(c, e)>>_vars

(* Clocks run, executions move on or are killed, and no step that keeps    *)
(* being tried fails for ever.                                             *)
Fairness ==
  /\ \A e \in Events :
       /\ WF_vars(BecomesDue(e)) /\ WF_vars(LockExpires(e)) /\ WF_vars(QueueingExpires(e))
       /\ Served(e)
  /\ \A r \in Relays :
       /\ WF_vars(RelayWorks(r))
       /\ SF_vars(RelaySend(r)) /\ SF_vars(HandsOver(r))
       /\ SF_vars(BurySend(r)) /\ SF_vars(BuryRecord(r))
  /\ \A c \in Consumers :
       WF_vars(ConsumerWorks(c)) /\ WF_vars(\E B \in SUBSET Events : Receive(c, B))

FairSpec == Spec /\ Fairness

-----------------------------------------------------------------------------
(* The variables have their types, and a row is locked exactly while a     *)
(* relay's or a consumer's claim on it is recorded.                        *)
TypeOK ==
  /\ row \in [Events -> [status : {"NONE", "PURGED", "PROCESSED", "FAILED"} \cup Open,
                         attempts : 0 .. MaxAttempts, due : BOOLEAN,
                         queued : {"NEVER", "FRESH", "STALE"}, lock : {"FREE", "HELD", "STALE"},
                         token : Consumers \cup Relays \cup {None}]]
  /\ \A e \in Events : row[e].lock = "FREE" <=> row[e].token = None
  /\ queue \subseteq Events /\ deadLetters \subseteq Events
  /\ published \subseteq Events /\ projected \subseteq Projecting
  /\ dispatch \in [Commits -> SUBSET {"PROJECT", "PUBLISH", "MARK", "SEND", "RECORD"}]
  /\ consumer \in [Consumers ->
       [stage : {"IDLE", "NEXT", "REFUSED", "CLAIMED", "PROJECTED", "PUBLISHED", "ERROR", "DEAD"},
        received : SUBSET Events, left : SUBSET Events, current : Events \cup {None}]]
  /\ relay \in [Relays ->
       [stage : {"IDLE", "CLAIMED", "SENT", "UNSENT", "BURYING", "BURIED", "UNBURIED"},
        rows : SUBSET Events]]
  /\ replays \in 0 .. MaxReplays

(* While an event is being handled, the earlier versions that came in the  *)
(* same batch are settled: a consumer never overtakes a version of the     *)
(* order that has to be tried again.  (Without replays, which reopen a     *)
(* settled event at any time.)                                             *)
InOrderWithinBatch ==
  \A c \in Consumers : consumer[c].stage \in {"CLAIMED", "PROJECTED", "PUBLISHED"} =>
    \A e \in consumer[c].received :
      Version[e] < Version[consumer[c].current] => row[e].status \notin Open

(* An event is given up only after every attempt was made, whichever of    *)
(* the consumer's catch block, its re-read and the relay gives it up.      *)
FailedAfterEveryAttempt ==
  \A e \in Events : row[e].status = "FAILED" => row[e].attempts = MaxAttempts

(* The operator is told of every event given up: its message is in the     *)
(* dead-letter queue or still on its way there, also when the process that *)
(* gave it up was killed before it could send it.                          *)
FailedReachesDeadLetters ==
  \A e \in Events : row[e].status = "FAILED" =>
    \/ e \in deadLetters \cup queue
    \/ \E c \in Consumers : e \in consumer[c].left

(* An event whose attempts are used up while it is still open is beyond    *)
(* the relay's claim, which passes it over: a message leads a consumer to  *)
(* it, or the operator has it.                                             *)
ExhaustedIsReported ==
  \A e \in Events : row[e].status \in Open /\ row[e].attempts = MaxAttempts =>
    \/ e \in deadLetters \cup queue
    \/ \E c \in Consumers : e \in consumer[c].left

(* An event that no attempt is left for, given up or still open, is never  *)
(* lost in silence, whoever is killed before it could report it.           *)
NoneLostInSilence == FailedReachesDeadLetters /\ ExhaustedIsReported

(* Every event of a committed change is settled in the end, whatever is    *)
(* lost, repeated, killed or overtaken by a timeout on the way.            *)
EventuallySettled ==
  \A e \in Events : row[e].status \in Open ~> row[e].status \notin Open

(* The pipeline implements what the outbox promises.                       *)
lifeOf ==
  [e \in Events |->
    CASE row[e].status = "NONE" -> "NONE"
      [] row[e].status \in Open -> "OPEN"
      [] row[e].status = "PROCESSED" -> "DELIVERED"
      [] row[e].status = "FAILED" -> "DEAD"
      [] row[e].status = "PURGED" -> "FORGOTTEN"]

Delivery == INSTANCE EventDelivery WITH life <- lifeOf

(* Nothing is delivered unpublished or unprojected, what is delivered      *)
(* stays delivered and only a dead event is taken up again: duplicates,    *)
(* lost claims and direct marks do not break it.                           *)
DeliveryKept == Delivery!Spec
=============================================================================
