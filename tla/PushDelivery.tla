------------------------------ MODULE PushDelivery ------------------------------
(***************************************************************************)
(* Notifications of one order to one device, which a consumer and a member *)
(* of the staff may both use: the consumer hears of status changes, the    *)
(* store of the new order, and of its waiting too long. Deliveries are     *)
(* projected from events and sent by concurrent executions of the worker   *)
(* under two leases, the delivery's and the association's. A claim draws a *)
(* fresh token, and a lease runs out on its own: a send has no timeout.    *)
(***************************************************************************)
EXTENDS OrderWorkflow, Integers, Sequences, FiniteSets

CONSTANTS
  Senders,      \* concurrent executions
  Plans,        \* bound: what becomes of the order, the notifications switched on, the claims
  MaxSends,     \* WEB_PUSH_MAX_DELIVERY_ATTEMPTS
  MaxMishaps    \* bound: permissions given or withdrawn, executions killed

Kinds == {"order", "store", "WARNING", "CRITICAL"}
Undoes(path, v) == v > 1 /\ <<path[v - 1], path[v]>> \in ReversibleEdges

(* A plan is a way the workflow can take an order.                         *)
ASSUME PushAssumption ==
  /\ MaxSends \in Nat \ {0} /\ IsFiniteSet(Senders)
  /\ \A plan \in Plans :
       /\ plan \in [on : SUBSET Kinds, claims : Nat, path : Seq(OrderStatuses)]
       /\ plan.path # <<>> /\ plan.path[1] = "PENDING"
       /\ \A v \in 2..Len(plan.path) :
            \/ <<plan.path[v - 1], plan.path[v]>> \in ForwardEdges \cup {<<"CONFIRMED", "CANCELLED">>}
            \/ Undoes(plan.path, v) /\ ~Undoes(plan.path, v - 1)

VARIABLES
  order,        \* its version, and the plan it follows
  waited,       \* 0, or 1 and 2 from two and four minutes in its status
  assoc,        \* order_push_subscriptions and store_staff_push_subscriptions
  revoked,      \* web_push_subscriptions.revokedAt
  projected,    \* web_push_dispatches, store_web_push_dispatches and SLA alerts
  closed,       \* alerts resolved
  delivery,     \* the three delivery tables, by topic
  found,        \* alerts a cron execution found due
  sender,
  tokens,       \* lock tokens drawn, and those whose lease has run out
  mishaps,
  heard         \* history: what the device showed

pushVars == <<order, waited, assoc, revoked, projected, closed, delivery, found, sender, tokens,
              mishaps, heard>>

OrderVersions == UNION {DOMAIN plan.path : plan \in Plans}
Groups == {"order", "staff"}
Reminders == {"WARNING", "CRITICAL"}
Topics == {"order", "WARNING", "CRITICAL"} \X OrderVersions \cup {<<"store", 1>>}
Group(t) == IF t[1] = "order" THEN "order" ELSE "staff"

Absent == [status |-> "NONE", tries |-> 0, lock |-> 0]
Free == [pc |-> "idle", topic |-> <<>>, token |-> 0, tries |-> 0]

(* Who listens to what is switched on.                                    *)
Audience == {Group(<<kind, 1>>) : kind \in order.plan.on}

Delivery == [status : {"NONE", "PENDING", "PROCESSING", "SENT", "SKIPPED", "FAILED", "REVOKED"},
             tries : 0..MaxSends, lock : Nat]
Execution == [pc : {"idle", "claimed", "locked", "sending", "sent", "leaving"},
              topic : Topics \cup {<<>>}, token : Nat, tries : Nat]

PushTypeOK ==
  /\ order \in [plan : Plans, version : Nat] /\ order.version \in DOMAIN order.plan.path
  /\ waited \in 0..2 /\ revoked \in BOOLEAN
  /\ assoc \in [Groups -> [on : BOOLEAN, since : Nat, lock : Nat]]
  /\ projected \subseteq Topics /\ closed \subseteq projected /\ found \subseteq Topics
  /\ delivery \in [Topics -> Delivery] /\ sender \in [Senders -> Execution]
  /\ tokens \in [drawn : Nat, lapsed : SUBSET Nat] /\ 0 \notin tokens.lapsed
  /\ heard \in [last : Nat, back : BOOLEAN, overtaken : BOOLEAN, copies : [Topics -> Nat],
                excused : [Topics -> Nat]]

PushInit ==
  /\ order \in [plan : Plans, version : {1}] /\ waited = 0
  /\ assoc \in {[g \in Groups |-> [on |-> g \in on, since |-> IF g = "staff" THEN 0 ELSE 1, lock |-> 0]] :
                 on \in {{}, Audience}}
  /\ revoked = FALSE /\ projected = {} /\ closed = {} /\ found = {}
  /\ delivery = [t \in Topics |-> Absent]
  /\ sender = [w \in Senders |-> Free]
  /\ tokens = [drawn |-> 0, lapsed |-> {}] /\ mishaps = 0
  /\ heard = [last |-> 0, back |-> FALSE, overtaken |-> FALSE, copies |-> [t \in Topics |-> 0],
              excused |-> [t \in Topics |-> 0]]

-----------------------------------------------------------------------------
(* The order, its waiting and what the device's users allow.               *)
Status(v) == order.plan.path[v]
Current == Status(order.version)

OrderMoves ==
  /\ order.version < Len(order.plan.path)
  /\ order' = [order EXCEPT !.version = @ + 1] /\ waited' = 0
  /\ UNCHANGED <<assoc, revoked, projected, closed, delivery, found, sender, tokens, mishaps, heard>>

OrderWaits ==
  /\ Reminders \cap order.plan.on # {} /\ waited < 2 /\ waited' = waited + 1
  /\ UNCHANGED <<order, assoc, revoked, projected, closed, delivery, found, sender, tokens, mishaps, heard>>

(* A lock that is dropped while its holder still works.                    *)
Drops(lock) == \E w \in Senders : sender[w].token = lock /\ sender[w].pc \in {"locked", "sending", "sent"}

(* enableOrderPushSubscription keeps the association's lock,               *)
(* enableStoreStaffPushSubscription drops it; both bring the device back.  *)
EnablePush(g) ==
  LET lock == IF g = "staff" THEN 0 ELSE assoc[g].lock
  IN  /\ mishaps < MaxMishaps /\ mishaps' = mishaps + 1
      /\ g = "order" => Current # "CANCELLED"
      /\ assoc' = [assoc EXCEPT ![g] = [on |-> TRUE, since |-> order.version, lock |-> lock]]
      /\ revoked' = FALSE
      /\ UNCHANGED <<order, waited, projected, closed, delivery, found, sender, tokens, heard>>

DisablePush(g) ==
  /\ mishaps < MaxMishaps /\ mishaps' = mishaps + 1
  /\ assoc' = [assoc EXCEPT ![g].on = FALSE, ![g].lock = 0]
  /\ heard' = [heard EXCEPT !.overtaken = @ \/ (g = "order" /\ Drops(assoc[g].lock))]
  /\ UNCHANGED <<order, waited, revoked, projected, closed, delivery, found, sender, tokens>>

Open(t) == delivery[t].status \in {"PENDING", "PROCESSING"}

(* revokeWebPushSubscription, for a device that is gone or whose           *)
(* subscription expired: one transaction closes everything it was to hear. *)
Revocation ==
  /\ revoked' = TRUE
  /\ assoc' = [g \in Groups |-> IF assoc[g].on THEN [assoc[g] EXCEPT !.on = FALSE, !.lock = 0] ELSE assoc[g]]
  /\ delivery' = [t \in Topics |-> IF Open(t) THEN [delivery[t] EXCEPT !.status = "REVOKED", !.lock = 0]
                                   ELSE delivery[t]]
  /\ heard' = [heard EXCEPT !.overtaken = @ \/ (assoc["order"].on /\ Drops(assoc["order"].lock))]

DeviceExpires ==
  /\ ~revoked /\ mishaps < MaxMishaps /\ mishaps' = mishaps + 1 /\ Revocation
  /\ UNCHANGED <<order, waited, projected, closed, found, sender, tokens>>

-----------------------------------------------------------------------------
(* Projection. An event is told to the associations enabled before it.     *)
Announces(t) ==
  \/ t[1] = "store"
  \/ /\ t[1] = "order" /\ t[2] \in 2..order.version
     /\ ~Undoes(order.plan.path, t[2]) /\ Status(t[2]) \notin {"AWAITING_PAYMENT", "PENDING"}

(* What a projection creates: nothing if it was done before.               *)
Projection(t, reached) ==
  /\ projected' = projected \cup {t}
  /\ delivery' = IF t \notin projected /\ reached
                 THEN [delivery EXCEPT ![t].status = "PENDING"] ELSE delivery

ProjectPush(t) ==
  /\ t[1] \in order.plan.on /\ Announces(t)
  /\ Projection(t, assoc[Group(t)].on /\ assoc[Group(t)].since < t[2] /\ ~revoked)
  /\ UNCHANGED <<order, waited, assoc, revoked, closed, found, sender, tokens, mishaps, heard>>

Stage == IF waited = 2 THEN "CRITICAL" ELSE "WARNING"
Waiting(v) == Current = "PENDING" /\ v = order.version

(* findDueCandidates reads, createAlertAndFanOut writes later.             *)
FindDue ==
  /\ waited > 0 /\ Current = "PENDING" /\ Stage \in order.plan.on
  /\ <<Stage, order.version>> \notin projected
  /\ found' = found \cup {<<Stage, order.version>>}
  /\ UNCHANGED <<order, waited, assoc, revoked, projected, closed, delivery, sender, tokens, mishaps, heard>>

CreateAlert(t) ==
  /\ t \in found /\ found' = found \ {t}
  /\ Projection(t, assoc["staff"].on /\ ~revoked)
  /\ UNCHANGED <<order, waited, assoc, revoked, closed, sender, tokens, mishaps, heard>>

(* resolveInactiveOrderOperationalSlaAlerts, with what is still to be sent. *)
ResolveAlerts ==
  LET stale == {t \in projected \ closed : t[1] \in Reminders /\ ~Waiting(t[2])}
  IN  /\ stale # {} /\ closed' = closed \cup stale
      /\ delivery' = [t \in Topics |->
           IF t \in stale /\ Open(t) THEN [delivery[t] EXCEPT !.status = "SKIPPED", !.lock = 0]
           ELSE delivery[t]]
      /\ UNCHANGED <<order, waited, assoc, revoked, projected, found, sender, tokens, mishaps, heard>>

-----------------------------------------------------------------------------
(* processDelivery of the three services.                                  *)
Takeable(lock) == lock = 0 \/ lock \in tokens.lapsed

(* Faulty: a delivery in the works can be claimed.                         *)
ClaimableUnlocked(t) == Open(t) /\ delivery[t].tries < MaxSends /\ t \notin closed

Claimable(t) == /\ Open(t) /\ delivery[t].tries < MaxSends /\ t \notin closed
                /\ Takeable(delivery[t].lock)

Excuse(t, because) == [heard EXCEPT !.excused[t] = IF because THEN @ + 1 ELSE @]

ClaimDelivery(w, t) ==
  LET token == tokens.drawn + 1
  IN  /\ sender[w].pc = "idle" /\ token <= order.plan.claims /\ Claimable(t)
      /\ tokens' = [tokens EXCEPT !.drawn = token]
      /\ delivery' = [delivery EXCEPT ![t] = [status |-> "PROCESSING", tries |-> @.tries + 1, lock |-> token]]
      /\ sender' = [sender EXCEPT ![w] = [pc |-> "claimed", topic |-> t, token |-> token,
                                          tries |-> delivery[t].tries + 1]]
      /\ heard' = Excuse(t, delivery[t].lock \in tokens.lapsed)
      /\ UNCHANGED <<order, waited, assoc, revoked, projected, closed, found, mishaps>>

Mine(w) == delivery[sender[w].topic].lock = sender[w].token

(* What a sender writes to its delivery, if it still is.                   *)
Written(w, status) ==
  IF Mine(w) THEN [delivery EXCEPT ![sender[w].topic].status = status, ![sender[w].topic].lock = 0]
  ELSE delivery

(* The association's lock orders what is sent to it. Who cannot get it     *)
(* gives its claim and its attempt back.                                   *)
LockGroup(w) ==
  LET t == sender[w].topic
      g == Group(t)
      locks == assoc[g].on /\ Takeable(assoc[g].lock)
  IN  /\ sender[w].pc = "claimed"
      /\ IF locks
         THEN /\ assoc' = [assoc EXCEPT ![g].lock = sender[w].token]
              /\ sender' = [sender EXCEPT ![w].pc = "locked"]
              /\ heard' = [heard EXCEPT !.overtaken = @ \/ (g = "order" /\ Drops(assoc[g].lock))]
              /\ delivery' = delivery
         ELSE /\ delivery' = IF Mine(w) THEN [Written(w, "PENDING") EXCEPT ![t].tries = @ - 1] ELSE delivery
              /\ sender' = [sender EXCEPT ![w] = Free] /\ UNCHANGED <<assoc, heard>>
      /\ UNCHANGED <<order, waited, revoked, projected, closed, found, tokens, mishaps>>

(* Faulty: a newer status to tell does not matter.                         *)
RelevantOnStatus(t) == Current = Status(t[2])

(* The status is still the order's, and no later one is or was to be told. *)
Relevant(t) ==
  /\ Current = Status(t[2])
  /\ ~\E u \in Topics : /\ u[1] = "order" /\ u[2] > t[2]
                        /\ delivery[u].status \in {"PENDING", "PROCESSING", "SENT"}

WorthSending(t) ==
  /\ assoc[Group(t)].on /\ ~revoked
  /\ CASE t[1] = "order" -> Relevant(t)
       [] t[1] = "store" -> Current = "PENDING"
       [] t[1] \in Reminders -> t \notin closed /\ Waiting(t[2]) /\ ~(t[1] = "WARNING" /\ waited = 2)

(* A reminder that is out of date closes its alert; one whose recipient    *)
(* lost the right to it does not.                                          *)
DecideToSend(w) ==
  LET t == sender[w].topic
      authorized == assoc[Group(t)].on /\ ~revoked
  IN  /\ sender[w].pc = "locked"
      /\ IF WorthSending(t)
         THEN sender' = [sender EXCEPT ![w].pc = "sending"] /\ UNCHANGED <<delivery, closed>>
         ELSE /\ sender' = [sender EXCEPT ![w].pc = "leaving"]
              /\ delivery' = Written(w, "SKIPPED")
              /\ closed' = IF t[1] \in Reminders /\ authorized THEN closed \cup {t} ELSE closed
      /\ UNCHANGED <<order, waited, assoc, revoked, projected, found, tokens, mishaps, heard>>

(* The device shows it, whatever happened since it was decided.            *)
Shown(w) ==
  LET t == sender[w].topic
      late == t[1] = "order" /\ t[2] < heard.last
              /\ delivery[<<"order", heard.last>>].status \in {"PENDING", "PROCESSING", "SENT"}
  IN  /\ sender[w].pc = "sending"
      /\ sender' = [sender EXCEPT ![w].pc = "sent"]
      /\ heard' = [heard EXCEPT !.last = IF t[1] = "order" THEN t[2] ELSE @, !.back = @ \/ late,
                                !.copies[t] = @ + 1]
      /\ UNCHANGED <<order, waited, assoc, revoked, projected, closed, delivery, found, tokens, mishaps>>

Unlocked(w) ==
  LET g == Group(sender[w].topic)
  IN  IF assoc[g].lock = sender[w].token THEN [assoc EXCEPT ![g].lock = 0] ELSE assoc

(* The consumer's association is released with the record, the staff's     *)
(* afterwards.                                                             *)
RecordSent(w) ==
  /\ sender[w].pc = "sent"
  /\ delivery' = Written(w, "SENT")
  /\ assoc' = IF sender[w].topic[1] = "order" THEN Unlocked(w) ELSE assoc
  /\ sender' = [sender EXCEPT ![w].pc = "leaving"]
  /\ UNCHANGED <<order, waited, revoked, projected, closed, found, tokens, mishaps, heard>>

(* The send fails, for good or for now, or the database does before or     *)
(* after it: the latter is taken for a transport error.                    *)
SendFails(w, transient) ==
  LET t == sender[w].topic
      exhausted == ~transient \/ sender[w].tries >= MaxSends
  IN  /\ \/ sender[w].pc = "sending"
         \/ sender[w].pc \in {"locked", "sent"} /\ transient
      /\ delivery' = Written(w, IF exhausted THEN "FAILED" ELSE "PENDING")
      /\ assoc' = IF t[1] = "order" THEN Unlocked(w) ELSE assoc
      /\ sender' = [sender EXCEPT ![w].pc = "leaving"]
      /\ heard' = Excuse(t, sender[w].pc = "sent")
      /\ UNCHANGED <<order, waited, revoked, projected, closed, found, tokens, mishaps>>

SendGone(w) ==
  /\ sender[w].pc = "sending" /\ Revocation
  /\ sender' = [sender EXCEPT ![w].pc = "leaving"]
  /\ UNCHANGED <<order, waited, projected, closed, found, tokens, mishaps>>

(* The finally block.                                                      *)
ReleaseGroup(w) ==
  /\ sender[w].pc = "leaving"
  /\ assoc' = Unlocked(w) /\ sender' = [sender EXCEPT ![w] = Free]
  /\ UNCHANGED <<order, waited, revoked, projected, closed, delivery, found, tokens, mishaps, heard>>

KillSender(w) ==
  /\ mishaps < MaxMishaps /\ mishaps' = mishaps + 1
  /\ sender[w].pc # "idle" /\ sender' = [sender EXCEPT ![w] = Free]
  /\ UNCHANGED <<order, waited, assoc, revoked, projected, closed, delivery, found, tokens, heard>>

(* WEB_PUSH_DELIVERY_LEASE_MS after a token was drawn; a lease that holds   *)
(* nothing lapses unnoticed.                                               *)
LeaseLapses ==
  /\ \E token \in ({assoc[g].lock : g \in Groups} \cup {delivery[t].lock : t \in Topics})
                    \ (tokens.lapsed \cup {0}) :
       tokens' = [tokens EXCEPT !.lapsed = @ \cup {token}]
  /\ UNCHANGED <<order, waited, assoc, revoked, projected, closed, delivery, found, sender, mishaps, heard>>

PushNext ==
  \/ OrderMoves \/ OrderWaits \/ DeviceExpires \/ FindDue \/ ResolveAlerts \/ LeaseLapses
  \/ \E g \in Audience : EnablePush(g) \/ DisablePush(g)
  \/ \E t \in Topics : ProjectPush(t) \/ CreateAlert(t)
  \/ \E w \in Senders :
       \/ \E t \in Topics : ClaimDelivery(w, t)
       \/ LockGroup(w) \/ DecideToSend(w) \/ Shown(w) \/ RecordSent(w)
       \/ \E transient \in BOOLEAN : SendFails(w, transient)
       \/ SendGone(w) \/ ReleaseGroup(w) \/ KillSender(w)

PushSpec == PushInit /\ [][PushNext]_pushVars

-----------------------------------------------------------------------------
(* The consumer hears no older status after a newer one that counts as     *)
(* told or to be told, unless the association's lock was taken from an     *)
(* execution still at work (LockGroup and Relevant, read before the send). *)
NewestLast == heard.back => heard.overtaken

(* One notification is shown once, and once more at most for each claim    *)
(* taken over from a lapsed lease and each failure to record a send.       *)
OneCopyPerClaim == \A t \in Topics : heard.copies[t] <= 1 + heard.excused[t]
=============================================================================
