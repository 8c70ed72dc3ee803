------------------------------ MODULE WebhookInbox ------------------------------
(***************************************************************************)
(* The inbox of Mercado Pago notifications. A notification is stored once  *)
(* and worked off by executions of the worker: the one its arrival wakes   *)
(* and the batches of the cron. An execution reads its candidates first    *)
(* and claims them one after the other with the time it started at, so     *)
(* what it read may be out of date when it claims, and when it fails.      *)
(***************************************************************************)
EXTENDS Integers, Sequences, SequencesExt, FiniteSets

CONSTANTS
  MaxNotices,   \* bound: notifications
  Executions,   \* concurrent executions of processPendingMercadoPagoWebhooks
  MaxTries,     \* MAX_WEBHOOK_ATTEMPTS
  LeaseTime,    \* WEBHOOK_LEASE_MS, in ticks
  Horizon,      \* bound: ticks
  MaxKills      \* bound: executions cut short

Notices == 1..MaxNotices

ASSUME InboxAssumption ==
  /\ {MaxNotices, LeaseTime, Horizon} \subseteq Nat /\ MaxTries \in Nat \ {0} /\ IsFiniteSet(Executions)

VARIABLES
  tick,
  inbox,        \* payment_provider_webhook_events
  execution,    \* what each execution holds in memory
  spent,        \* history: notifications an alert WEBHOOK_RETRIES_EXHAUSTED was raised for
  kills

inboxVars == <<tick, inbox, execution, spent, kills>>

Unclaimed == -1
Resting == [pc |-> "idle", start |-> 0, queue |-> <<>>]

Notice == [stored : BOOLEAN, processed : BOOLEAN, attempts : Nat,
           lease : {Unclaimed} \cup 0..Horizon, due : 0..Horizon + 1]

(* What an execution read of a notification when it selected it.           *)
Candidate == [notice : Notices, read : Nat]

InboxTypeOK ==
  /\ tick \in 0..Horizon /\ spent \subseteq Notices
  /\ inbox \in [Notices -> Notice]
  /\ execution \in [Executions -> [pc : {"idle", "batch", "working", "handled"}, start : 0..Horizon,
                                   queue : Seq(Candidate)]]

InboxInit ==
  /\ tick = 0 /\ spent = {} /\ kills = 0
  /\ inbox = [n \in Notices |-> [stored |-> FALSE, processed |-> FALSE, attempts |-> 0,
                                 lease |-> Unclaimed, due |-> 0]]
  /\ execution = [x \in Executions |-> Resting]

InboxTick == tick < Horizon /\ tick' = tick + 1 /\ UNCHANGED <<inbox, execution, spent, kills>>

(* enqueueMercadoPagoWebhook: a notification delivered again changes       *)
(* nothing. Notifications are numbered as they come.                       *)
Enqueue(n) ==
  /\ ~inbox[n].stored /\ \A m \in 1..n - 1 : inbox[m].stored
  /\ inbox' = [inbox EXCEPT ![n].stored = TRUE, ![n].due = tick]
  /\ UNCHANGED <<tick, execution, spent, kills>>

LeaseFree(n, now) == inbox[n].lease = Unclaimed \/ inbox[n].lease < now - LeaseTime

Selectable(now) ==
  {n \in Notices : /\ inbox[n].stored /\ ~inbox[n].processed /\ inbox[n].due <= now
                   /\ inbox[n].attempts < MaxTries /\ LeaseFree(n, now)}

(* A batch is worked off by the due time, then in the order of arrival.    *)
InTurn(batch) == \A i, j \in DOMAIN batch : i < j =>
  \/ inbox[batch[i]].due < inbox[batch[j]].due
  \/ inbox[batch[i]].due = inbox[batch[j]].due /\ batch[i] < batch[j]

(* The cron selects all candidates, the arrival only its own.              *)
SelectNotices(x) == \E S \in {Selectable(tick)} \cup {{n} : n \in Selectable(tick)} :
  \E batch \in SetToSeqs(S) :
    /\ S # {} /\ execution[x].pc = "idle" /\ InTurn(batch)
    /\ execution' = [execution EXCEPT ![x] =
         [pc |-> "batch", start |-> tick,
          queue |-> [i \in DOMAIN batch |-> [notice |-> batch[i],
                                             read |-> inbox[batch[i]].attempts]]]]
    /\ UNCHANGED <<tick, inbox, spent, kills>>

(* After the last candidate an execution ends.                             *)
After(x) == IF Len(execution[x].queue) = 1 THEN Resting
            ELSE [execution[x] EXCEPT !.pc = "batch", !.queue = Tail(@)]

(* The claim repeats the lease of the selection, not the attempts or the   *)
(* due time; a candidate taken meanwhile is skipped.                       *)
ClaimNotice(x) ==
  LET n == Head(execution[x].queue).notice
      free == ~inbox[n].processed /\ LeaseFree(n, execution[x].start)
  IN  /\ execution[x].pc = "batch"
      /\ IF free
         THEN /\ inbox' = [inbox EXCEPT ![n].lease = execution[x].start, ![n].attempts = @ + 1]
              /\ execution' = [execution EXCEPT ![x].pc = "working"]
         ELSE execution' = [execution EXCEPT ![x] = After(x)] /\ inbox' = inbox
      /\ UNCHANGED <<tick, spent, kills>>

(* synchronizeOrder returns. It also does when the order was fetched but   *)
(* recording it failed: the failure is logged and forgotten.               *)
HandleNotice(x) ==
  /\ execution[x].pc = "working"
  /\ execution' = [execution EXCEPT ![x].pc = "handled"]
  /\ UNCHANGED <<tick, inbox, spent, kills>>

(* The notification is marked by its id, whoever holds it. A               *)
(* deauthorisation is handled and marked in one transaction.               *)
MarkNotice(x) ==
  LET n == Head(execution[x].queue).notice
  IN  /\ execution[x].pc \in {"working", "handled"}
      /\ inbox' = [inbox EXCEPT ![n].processed = TRUE, ![n].lease = Unclaimed]
      /\ execution' = [execution EXCEPT ![x] = After(x)]
      /\ UNCHANGED <<tick, spent, kills>>

(* The attempts a failure counts: those it read, and its own.              *)
Counted(x) == Head(execution[x].queue).read + 1

(* Faulty: an alert one attempt early.                                     *)
AlertsEarly(x) == Counted(x) + 1 >= MaxTries

Alerts(x) == Counted(x) >= MaxTries

(* No candidate credential could fetch the order: the lease is released,   *)
(* whoever holds it, and the next attempt is delayed.                      *)
FailNotice(x) ==
  LET n == Head(execution[x].queue).notice
  IN  /\ execution[x].pc \in {"working", "handled"}
      /\ inbox' = [inbox EXCEPT ![n].lease = Unclaimed, ![n].due = tick + 1]
      /\ spent' = IF Alerts(x) THEN spent \cup {n} ELSE spent
      /\ execution' = [execution EXCEPT ![x] = After(x)]
      /\ UNCHANGED <<tick, kills>>

KillExecution(x) ==
  /\ kills < MaxKills /\ kills' = kills + 1 /\ execution[x].pc # "idle"
  /\ execution' = [execution EXCEPT ![x] = Resting]
  /\ UNCHANGED <<tick, inbox, spent>>

InboxNext ==
  \/ InboxTick
  \/ \E n \in Notices : Enqueue(n)
  \/ \E x \in Executions :
       \/ SelectNotices(x) \/ ClaimNotice(x) \/ HandleNotice(x) \/ MarkNotice(x)
       \/ FailNotice(x) \/ KillExecution(x)

InboxSpec == InboxInit /\ [][InboxNext]_inboxVars

-----------------------------------------------------------------------------
(* The claim does not compare the attempts, so that executions which read  *)
(* the same count exceed the limit, but by no more than the executions     *)
(* that run beside each other; and no alert is raised for a notification   *)
(* that has attempts left, however stale the count a failure reports.      *)
TriesWithinReach == \A n \in Notices :
  /\ inbox[n].attempts <= MaxTries + Cardinality(Executions) - 1
  /\ n \in spent => inbox[n].attempts >= MaxTries
=============================================================================
