---------------------------- MODULE ProviderProofs ----------------------------
(***************************************************************************)
(* What waits under a lease, for any number of executions, attempts,       *)
(* notifications, plans of an order and bounds: the credential of a store  *)
(* at Mercado Pago is written once per authorization and follows the       *)
(* status of the connection; a webhook notification is tried within reach, *)
(* so that an alert of the last try comes late and not never; and a push   *)
(* notification is shown in order, and again only for a lost record.       *)
(*                                                                         *)
(* The last two count, for every notification, the executions that hold it *)
(* and have still to claim it, or to show it.                              *)
(***************************************************************************)
EXTENDS ProviderConnection, WebhookInbox, PushDelivery, DataLemmas

-----------------------------------------------------------------------------
(* The connection.                                                         *)

ConnectionRows == [status : Statuses, token : Nat, lease : Readers \cup {Nobody}, held : BOOLEAN,
                   refreshes : Nat, mode : {"MANUAL", "ONLINE"}, version : 0..MaxEdits]
AttemptRows == [started : BOOLEAN, consumed : BOOLEAN, waiting : 0..2, working : 0..1, done : 0..1]
Callers == [pc : {"idle", "read", "leased"}, status : Statuses, since : Nat]

ConnectionTyped ==
  /\ connection \in ConnectionRows /\ issued \in Nat /\ connection.token <= issued
  /\ attempt \in [Attempts -> AttemptRows] /\ reader \in [Readers -> Callers] /\ charge \in Charges

(* An attempt is worked on by one callback, the one that consumed it; no   *)
(* refresh was written since the caller that holds the lease took it; and  *)
(* a payment that is being charged keeps the credential.                   *)
AttemptsConsumed == \A a \in Attempts :
  /\ attempt[a].working + attempt[a].done <= 1
  /\ ~attempt[a].consumed => attempt[a].working = 0 /\ attempt[a].done = 0
LeaseFresh == \A r \in Readers :
  reader[r].pc = "leased" /\ connection.lease = r => reader[r].since = connection.refreshes
ChargeCovered == charge \in {"CREDITED", "CHARGED"} /\ ~withdrawn => connection.token > 0

ConnectionInv ==
  /\ ConnectionTyped /\ AttemptsConsumed /\ LeaseFresh /\ ChargeCovered /\ CredentialFollowsStatus /\ ~lost

(* At first the store is not connected.                                    *)
LEMMA ConnectionInvInit == ConnectionInit => ConnectionInv
<1> SUFFICES ASSUME ConnectionInit PROVE ConnectionInv
  OBVIOUS
<1>1. 0 \in 0..MaxEdits
  BY ConnectionAssumption
<1>2. ConnectionTyped
  BY <1>1 DEF ConnectionInit, ConnectionTyped, ConnectionRows, AttemptRows, Callers, Calm, Statuses, Charges
<1>3. QED
  BY <1>2 DEF ConnectionInit, ConnectionInv, AttemptsConsumed, LeaseFresh, ChargeCovered, CredentialFollowsStatus, Calm

(* An authorization moves on without a credential, or fails.               *)
LEMMA AuthorizationStep ==
  ASSUME ConnectionInv, NEW a \in Attempts,
         StartOAuth(a) \/ CallBack(a) \/ ClaimAttempt(a) \/ FailOAuth(a)
  PROVE  ConnectionInv'
<1>1. /\ ConnectionTyped /\ AttemptsConsumed
      /\ UNCHANGED <<connection, reader, issued, charge, withdrawn, lost>> /\ attempt[a] \in AttemptRows
  BY DEF ConnectionInv, ConnectionTyped, StartOAuth, CallBack, ClaimAttempt, FailOAuth
<1>2. \E row \in AttemptRows :
        /\ attempt' = [attempt EXCEPT ![a] = row] /\ row.working + row.done <= 1
        /\ ~row.consumed => row.working = 0 /\ row.done = 0
  <2>1. CASE StartOAuth(a)
    <3> DEFINE row == [attempt[a] EXCEPT !.started = TRUE]
    <3>1. attempt' = [attempt EXCEPT ![a] = row]
      BY <2>1, Zenon DEF StartOAuth
    <3>2. row \in AttemptRows /\ row.working + row.done <= 1 /\ (~row.consumed => row.working = 0 /\ row.done = 0)
      BY <1>1 DEF AttemptRows, AttemptsConsumed
    <3>3. QED
      BY <3>1, <3>2, Zenon
  <2>2. CASE CallBack(a)
    <3> DEFINE row == [attempt[a] EXCEPT !.waiting = @ + 1]
    <3>1. attempt' = [attempt EXCEPT ![a] = row] /\ attempt[a].waiting < 2
      BY <2>2, Zenon DEF CallBack
    <3>2. row \in AttemptRows /\ row.working + row.done <= 1 /\ (~row.consumed => row.working = 0 /\ row.done = 0)
      BY <1>1, <3>1 DEF AttemptRows, AttemptsConsumed
    <3>3. QED
      BY <3>1, <3>2, Zenon
  <2>3. CASE ClaimAttempt(a)
    <3> DEFINE called == [attempt EXCEPT ![a].waiting = @ - 1]
               claimed == [called EXCEPT ![a].consumed = TRUE]
               row == [claimed[a] EXCEPT !.working = IF Unconsumed(a) THEN @ + 1 ELSE @]
    <3>1. attempt' = [claimed EXCEPT ![a] = row] /\ attempt[a].waiting > 0
      BY <2>3, Zenon DEF ClaimAttempt
    <3>2. /\ called = [attempt EXCEPT ![a] = [attempt[a] EXCEPT !.waiting = @ - 1]]
          /\ called[a] = [attempt[a] EXCEPT !.waiting = @ - 1]
      BY <1>1 DEF ConnectionTyped
    <3>3. called[a] \in AttemptRows /\ called[a].working = attempt[a].working /\ called[a].done = attempt[a].done
      BY <1>1, <3>1, <3>2 DEF AttemptRows
    <3> HIDE DEF called
    <3>4. claimed[a] = [called[a] EXCEPT !.consumed = TRUE] /\ DOMAIN called = DOMAIN attempt
      BY <1>1, <3>2 DEF ConnectionTyped
    <3>5. /\ claimed[a] \in AttemptRows /\ claimed[a].working = attempt[a].working
          /\ claimed[a].done = attempt[a].done /\ claimed[a].consumed
      BY <3>3, <3>4 DEF AttemptRows
    <3>6. claimed = [attempt EXCEPT ![a] = claimed[a]]
      BY <1>1, <3>2, <3>4 DEF ConnectionTyped
    <3> HIDE DEF claimed
    <3>7. row \in AttemptRows /\ row.working + row.done <= 1 /\ row.consumed
      BY <1>1, <3>5 DEF AttemptRows, AttemptsConsumed, Unconsumed
    <3> HIDE DEF row
    <3>8. attempt' = [attempt EXCEPT ![a] = row]
      BY <1>1, <3>1, <3>6 DEF ConnectionTyped
    <3>9. QED
      BY <3>7, <3>8
  <2>4. CASE FailOAuth(a)
    <3> DEFINE row == [attempt[a] EXCEPT !.working = @ - 1]
    <3>1. attempt' = [attempt EXCEPT ![a] = row] /\ attempt[a].working > 0
      BY <2>4, Zenon DEF FailOAuth
    <3>2. row \in AttemptRows /\ row.working + row.done <= 1 /\ (~row.consumed => row.working = 0 /\ row.done = 0)
      BY <1>1, <3>1 DEF AttemptRows, AttemptsConsumed
    <3>3. QED
      BY <3>1, <3>2, Zenon
  <2>5. QED
    BY <2>1, <2>2, <2>3, <2>4
<1>3. attempt' \in [Attempts -> AttemptRows] /\ AttemptsConsumed'
  BY <1>1, <1>2 DEF ConnectionTyped, AttemptsConsumed
<1>4. QED
  BY <1>1, <1>3 DEF ConnectionInv, ConnectionTyped, LeaseFresh, ChargeCovered, CredentialFollowsStatus

(* An authorization that was claimed completes, once, with a new           *)
(* credential.                                                             *)
LEMMA CompleteOAuthStep ==
  ASSUME ConnectionInv, NEW a \in Attempts, CompleteOAuth(a) PROVE ConnectionInv'
<1>1. ConnectionTyped /\ AttemptsConsumed /\ LeaseFresh /\ ~lost
  BY DEF ConnectionInv
<1> DEFINE worked == [attempt EXCEPT ![a].working = @ - 1]
           row == [worked[a] EXCEPT !.done = @ + 1]
           active == [connection EXCEPT !.status = "ACTIVE"]
           stored == [active EXCEPT !.token = issued + 1]
<1>2. /\ attempt' = [worked EXCEPT ![a] = row] /\ connection' = stored /\ attempt[a].working > 0
      /\ issued' = issued + 1 /\ UNCHANGED <<reader, charge, lost>>
  BY Zenon DEF CompleteOAuth
<1>3. attempt[a] \in AttemptRows
  BY <1>1 DEF ConnectionTyped
<1>4. /\ worked = [attempt EXCEPT ![a] = worked[a]] /\ worked[a] = [attempt[a] EXCEPT !.working = @ - 1]
  BY <1>1 DEF ConnectionTyped
<1>5. /\ worked[a] \in AttemptRows /\ worked[a].working = 0 /\ worked[a].done = 0 /\ worked[a].consumed
  BY <1>1, <1>2, <1>3, <1>4 DEF AttemptRows, AttemptsConsumed
<1> HIDE DEF worked
<1>6. row \in AttemptRows /\ row.working = 0 /\ row.done = 1 /\ row.consumed
  BY <1>5 DEF AttemptRows
<1> HIDE DEF row
<1>7. attempt' = [attempt EXCEPT ![a] = row]
  BY <1>1, <1>2, <1>4 DEF ConnectionTyped
<1>8. active \in ConnectionRows /\ active.status = "ACTIVE" /\ active.lease = connection.lease
      /\ active.refreshes = connection.refreshes
  BY <1>1 DEF ConnectionTyped, ConnectionRows, Statuses
<1> HIDE DEF active
<1>9. /\ stored \in ConnectionRows /\ stored.status = "ACTIVE" /\ stored.lease = connection.lease
      /\ stored.refreshes = connection.refreshes /\ stored.token = issued + 1
  BY <1>1, <1>8 DEF ConnectionTyped, ConnectionRows
<1> HIDE DEF stored
<1>10. ConnectionTyped' /\ AttemptsConsumed'
  <2>1. attempt' \in [Attempts -> AttemptRows] /\ AttemptsConsumed'
    BY <1>1, <1>6, <1>7 DEF ConnectionTyped, AttemptsConsumed
  <2>2. connection' \in ConnectionRows /\ connection'.token <= issued' /\ issued' \in Nat
    BY <1>1, <1>2, <1>9 DEF ConnectionTyped
  <2>3. QED
    BY <1>1, <1>2, <2>1, <2>2 DEF ConnectionTyped
<1>11. LeaseFresh' /\ ChargeCovered' /\ CredentialFollowsStatus'
  BY <1>1, <1>2, <1>9 DEF ConnectionTyped, LeaseFresh, ChargeCovered, CredentialFollowsStatus
<1>12. QED
  BY <1>1, <1>2, <1>10, <1>11 DEF ConnectionInv

(* A step that rewrites the row by itself: what it may do to the token.    *)
LEMMA RowStep ==
  ASSUME ConnectionInv, UNCHANGED <<attempt, reader, issued, charge, lost>>,
         connection' \in ConnectionRows, connection'.token <= issued,
         connection'.refreshes = connection.refreshes, connection'.lease \in {connection.lease, Nobody},
         connection'.status = "ACTIVE" => connection'.token > 0,
         connection'.status = "REVOKED" => connection'.token = 0,
         \/ connection'.token = connection.token /\ withdrawn' = withdrawn
         \/ charge \notin {"CREDITED", "CHARGED"}
         \/ withdrawn'
  PROVE  ConnectionInv'
<1>1. "nobody" \notin Readers
  BY ConnectionAssumption
<1>2. QED
  BY <1>1 DEF ConnectionInv, ConnectionTyped, AttemptsConsumed, LeaseFresh, ChargeCovered, CredentialFollowsStatus, Nobody

(* The owner, or the provider, ends the connection; a lease runs out; the  *)
(* mode of payment changes.                                                *)
LEMMA OwnerStep ==
  ASSUME ConnectionInv, Disconnect \/ Deauthorize \/ LeaseRunsOut \/ \E mode \in {"MANUAL", "ONLINE"} : SetPaymentMode(mode)
  PROVE  ConnectionInv'
<1>1. ConnectionTyped /\ connection \in ConnectionRows /\ CredentialFollowsStatus
  BY DEF ConnectionInv, ConnectionTyped
<1>2. connection.version < MaxEdits => connection.version + 1 \in 0..MaxEdits
  BY <1>1, ConnectionAssumption DEF ConnectionRows
<1>3. CASE Disconnect
  <2> DEFINE one == [connection EXCEPT !.status = "DISCONNECTED"]
             two == [one EXCEPT !.version = @ + 1]
             three == [two EXCEPT !.mode = "MANUAL"]
             four == [three EXCEPT !.token = IF KeptForPayments THEN @ ELSE 0]
  <2>1. connection' = four /\ connection.version < MaxEdits /\ UNCHANGED <<attempt, reader, issued, charge, withdrawn, lost>>
    BY <1>3, Zenon DEF Disconnect
  <2>2. /\ one \in ConnectionRows /\ one.status = "DISCONNECTED" /\ one.version = connection.version
        /\ one.token = connection.token /\ one.refreshes = connection.refreshes /\ one.lease = connection.lease
    BY <1>1 DEF ConnectionRows, Statuses
  <2> HIDE DEF one
  <2>3. /\ two \in ConnectionRows /\ two.status = "DISCONNECTED"
        /\ two.token = connection.token /\ two.refreshes = connection.refreshes /\ two.lease = connection.lease
    BY <1>2, <2>1, <2>2 DEF ConnectionRows
  <2> HIDE DEF two
  <2>4. /\ three \in ConnectionRows /\ three.status = "DISCONNECTED"
        /\ three.token = connection.token /\ three.refreshes = connection.refreshes /\ three.lease = connection.lease
    BY <2>3 DEF ConnectionRows
  <2> HIDE DEF three
  <2>5. /\ four \in ConnectionRows /\ four.status = "DISCONNECTED"
        /\ four.token = (IF KeptForPayments THEN connection.token ELSE 0)
        /\ four.refreshes = connection.refreshes /\ four.lease = connection.lease
    BY <2>4 DEF ConnectionRows
  <2> HIDE DEF four
  <2>6. connection'.token <= issued
    BY <1>1, <2>1, <2>5 DEF ConnectionTyped
  <2>7. connection'.token = connection.token \/ charge \notin {"CREDITED", "CHARGED"}
    BY <2>1, <2>5 DEF KeptForPayments
  <2>8. QED
    BY <2>1, <2>5, <2>6, <2>7, RowStep
<1>4. CASE Deauthorize
  <2> DEFINE one == [connection EXCEPT !.status = "REVOKED"]
             two == [one EXCEPT !.token = 0]
  <2>1. connection' = two /\ withdrawn' /\ UNCHANGED <<attempt, reader, issued, charge, lost>>
    BY <1>4, Zenon DEF Deauthorize, Revoked
  <2>2. /\ one \in ConnectionRows /\ one.status = "REVOKED" /\ one.refreshes = connection.refreshes
        /\ one.lease = connection.lease
    BY <1>1 DEF ConnectionRows, Statuses
  <2> HIDE DEF one
  <2>3. /\ two \in ConnectionRows /\ two.status = "REVOKED" /\ two.refreshes = connection.refreshes
        /\ two.lease = connection.lease /\ two.token = 0
    BY <2>2 DEF ConnectionRows
  <2> HIDE DEF two
  <2>4. 0 <= issued
    BY <1>1 DEF ConnectionTyped
  <2>5. QED
    BY <2>1, <2>3, <2>4, RowStep
<1>5. CASE LeaseRunsOut
  <2> DEFINE row == [connection EXCEPT !.held = FALSE]
  <2>1. connection' = row /\ UNCHANGED <<attempt, reader, issued, charge, withdrawn, lost>>
    BY <1>5, Zenon DEF LeaseRunsOut
  <2>2. /\ row \in ConnectionRows /\ row.status = connection.status /\ row.token = connection.token
        /\ row.refreshes = connection.refreshes /\ row.lease = connection.lease
    BY <1>1 DEF ConnectionRows
  <2> HIDE DEF row
  <2>3. QED
    BY <1>1, <2>1, <2>2, RowStep DEF ConnectionTyped, CredentialFollowsStatus
<1>6. ASSUME NEW mode \in {"MANUAL", "ONLINE"}, SetPaymentMode(mode) PROVE ConnectionInv'
  <2> DEFINE one == [connection EXCEPT !.mode = mode]
             two == [one EXCEPT !.version = @ + 1]
  <2>1. connection' = two /\ connection.version < MaxEdits /\ UNCHANGED <<attempt, reader, issued, charge, withdrawn, lost>>
    BY <1>6, Zenon DEF SetPaymentMode
  <2>2. /\ one \in ConnectionRows /\ one.status = connection.status /\ one.version = connection.version
        /\ one.token = connection.token /\ one.refreshes = connection.refreshes /\ one.lease = connection.lease
    BY <1>1 DEF ConnectionRows
  <2> HIDE DEF one
  <2>3. /\ two \in ConnectionRows /\ two.status = connection.status
        /\ two.token = connection.token /\ two.refreshes = connection.refreshes /\ two.lease = connection.lease
    BY <1>2, <2>1, <2>2 DEF ConnectionRows
  <2> HIDE DEF two
  <2>4. QED
    BY <1>1, <2>1, <2>3, RowStep DEF ConnectionTyped, CredentialFollowsStatus
<1>7. QED
  BY <1>3, <1>4, <1>5, <1>6

(* What a caller does to the row it read.                                  *)
LEMMA ReaderStep ==
  ASSUME ConnectionInv, NEW r \in Readers,
         ReadToken(r) \/ TakeLease(r) \/ RefreshRefused(r) \/ RefreshFails(r)
  PROVE  ConnectionInv'
<1>1. ConnectionTyped /\ LeaseFresh /\ CredentialFollowsStatus /\ connection \in ConnectionRows
      /\ "nobody" \notin Readers /\ reader[r] \in Callers
  BY ConnectionAssumption DEF ConnectionInv, ConnectionTyped
<1>2. UNCHANGED <<attempt, issued, charge, withdrawn, lost>>
  BY DEF ReadToken, TakeLease, RefreshRefused, RefreshFails
<1>3. ASSUME NEW row \in Callers, reader' = [reader EXCEPT ![r] = row],
             row.pc = "leased" => row.since = connection.refreshes,
             connection' \in ConnectionRows, connection'.token = connection.token,
             connection'.refreshes = connection.refreshes, connection'.lease \in {connection.lease, r, Nobody},
             connection'.lease = r => row.pc = "leased" \/ connection.lease = r,
             connection'.status \in {connection.status, "REAUTH_REQUIRED", "ERROR"}
      PROVE  ConnectionInv'
  <2>1. reader' \in [Readers -> Callers] /\ \A q \in Readers : reader'[q] = IF q = r THEN row ELSE reader[q]
    BY <1>1, <1>3 DEF ConnectionTyped
  <2>2. LeaseFresh'
    BY <1>1, <1>3, <2>1 DEF LeaseFresh, Nobody
  <2>3. QED
    BY <1>2, <1>3, <2>1, <2>2
       DEF ConnectionInv, ConnectionTyped, AttemptsConsumed, ChargeCovered, CredentialFollowsStatus
<1>4. Calm \in Callers /\ Calm.pc = "idle"
  BY DEF Calm, Callers, Statuses
<1>5. CASE ReadToken(r)
  <2> DEFINE row == [pc |-> "read", status |-> connection.status, since |-> 0]
  <2>1. row \in Callers /\ row.pc = "read"
    BY <1>1 DEF Callers, ConnectionRows
  <2>2. reader' = [reader EXCEPT ![r] = row] /\ connection' = connection
    BY <1>5 DEF ReadToken
  <2> HIDE DEF row
  <2>3. QED
    BY <1>1, <1>3, <2>1, <2>2
<1>6. CASE TakeLease(r) /\ connection.held
  <2>1. reader' = [reader EXCEPT ![r] = Calm] /\ connection' = connection
    BY <1>6 DEF TakeLease
  <2>2. QED
    BY <1>1, <1>3, <1>4, <2>1
<1>7. CASE TakeLease(r) /\ ~connection.held
  <2> DEFINE leasing == [reader EXCEPT ![r].pc = "leased"]
             row == [leasing[r] EXCEPT !.since = connection.refreshes]
             leased == [connection EXCEPT !.lease = r]
             held == [leased EXCEPT !.held = TRUE]
  <2>1. reader' = [leasing EXCEPT ![r] = row] /\ connection' = held
    BY <1>7, Zenon DEF TakeLease
  <2>2. leasing = [reader EXCEPT ![r] = leasing[r]] /\ leasing[r] = [reader[r] EXCEPT !.pc = "leased"]
    BY <1>1 DEF ConnectionTyped
  <2>3. leasing[r] \in Callers /\ leasing[r].pc = "leased"
    BY <1>1, <2>2 DEF Callers
  <2> HIDE DEF leasing
  <2>4. row \in Callers /\ row.pc = "leased" /\ row.since = connection.refreshes
    BY <1>1, <2>3 DEF Callers, ConnectionRows
  <2> HIDE DEF row
  <2>5. reader' = [reader EXCEPT ![r] = row]
    BY <1>1, <2>1, <2>2 DEF ConnectionTyped
  <2>6. /\ leased \in ConnectionRows /\ leased.lease = r /\ leased.token = connection.token
        /\ leased.refreshes = connection.refreshes /\ leased.status = connection.status
    BY <1>1 DEF ConnectionRows
  <2> HIDE DEF leased
  <2>7. /\ held \in ConnectionRows /\ held.lease = r /\ held.token = connection.token
        /\ held.refreshes = connection.refreshes /\ held.status = connection.status
    BY <2>6 DEF ConnectionRows
  <2> HIDE DEF held
  <2>8. QED
    BY <1>3, <2>1, <2>4, <2>5, <2>7
<1>8. ASSUME NEW status \in {"REAUTH_REQUIRED", "ERROR"}, reader' = [reader EXCEPT ![r] = Calm],
             connection' = [connection EXCEPT !.status = status, !.lease = Nobody, !.held = FALSE]
      PROVE  ConnectionInv'
  <2> DEFINE marked == [connection EXCEPT !.status = status]
             free == [marked EXCEPT !.lease = Nobody]
             rest == [free EXCEPT !.held = FALSE]
  <2>1. connection' = rest
    BY <1>8, Zenon
  <2>2. /\ marked \in ConnectionRows /\ marked.token = connection.token
        /\ marked.refreshes = connection.refreshes /\ marked.status = status
    BY <1>1, <1>8 DEF ConnectionRows, Statuses
  <2> HIDE DEF marked
  <2>3. /\ free \in ConnectionRows /\ free.token = connection.token /\ free.lease = Nobody
        /\ free.refreshes = connection.refreshes /\ free.status = status
    BY <2>2 DEF ConnectionRows
  <2> HIDE DEF free
  <2>4. /\ rest \in ConnectionRows /\ rest.token = connection.token /\ rest.lease = Nobody
        /\ rest.refreshes = connection.refreshes /\ rest.status = status
    BY <2>3 DEF ConnectionRows
  <2> HIDE DEF rest
  <2>5. Nobody # r
    BY <1>1 DEF Nobody
  <2>6. QED
    BY <1>3, <1>4, <1>8, <2>1, <2>4, <2>5
<1>9. CASE RefreshRefused(r)
  BY <1>8, <1>9 DEF RefreshRefused
<1>10. CASE RefreshFails(r)
  <2>1. CASE HoldsLease(r)
    <3>1. /\ connection' = [connection EXCEPT !.status = "ERROR", !.lease = Nobody, !.held = FALSE]
          /\ reader' = [reader EXCEPT ![r] = Calm]
      BY <1>10, <2>1, Zenon DEF RefreshFails
    <3>2. QED
      BY <1>8, <3>1
  <2>2. CASE ~HoldsLease(r)
    <3>1. connection' = connection /\ reader' = [reader EXCEPT ![r] = Calm]
      BY <1>10, <2>2 DEF RefreshFails
    <3>2. QED
      BY <1>1, <1>3, <1>4, <3>1
  <2>3. QED
    BY <2>1, <2>2
<1>11. QED
  BY <1>5, <1>6, <1>7, <1>9, <1>10

(* A refresh writes the credential only while its lease stands.            *)
LEMMA RefreshSucceedsStep ==
  ASSUME ConnectionInv, NEW r \in Readers, RefreshSucceeds(r) PROVE ConnectionInv'
<1>1. /\ ConnectionTyped /\ LeaseFresh /\ CredentialFollowsStatus /\ ChargeCovered /\ connection \in ConnectionRows
      /\ "nobody" \notin Readers /\ Calm \in Callers /\ Calm.pc = "idle"
  BY ConnectionAssumption DEF ConnectionInv, ConnectionTyped, Calm, Callers, Statuses
<1>2. /\ UNCHANGED <<attempt, charge, withdrawn>> /\ issued' = issued + 1 /\ issued' \in Nat
      /\ reader[r].pc = "leased" /\ reader' = [reader EXCEPT ![r] = Calm]
  BY <1>1 DEF RefreshSucceeds, ConnectionTyped
<1>3. reader' \in [Readers -> Callers] /\ \A q \in Readers : reader'[q] = IF q = r THEN Calm ELSE reader[q]
  BY <1>1, <1>2 DEF ConnectionTyped
<1>4. CASE HoldsLease(r)
  <2> DEFINE status == IF reader[r].status = "DISCONNECTED" THEN "DISCONNECTED" ELSE "ACTIVE"
             one == [connection EXCEPT !.status = status]
             two == [one EXCEPT !.token = issued + 1]
             three == [two EXCEPT !.lease = Nobody]
             four == [three EXCEPT !.held = FALSE]
             five == [four EXCEPT !.refreshes = @ + 1]
  <2>1. connection' = five /\ lost' = (lost \/ connection.refreshes # reader[r].since)
    BY <1>4, Zenon DEF RefreshSucceeds
  <2>2. ~lost'
    BY <1>1, <1>2, <1>4, <2>1 DEF ConnectionInv, LeaseFresh, HoldsLease
  <2>3. status \in {"DISCONNECTED", "ACTIVE"}
    OBVIOUS
  <2> HIDE DEF status
  <2>4. one \in ConnectionRows /\ one.status = status
    BY <1>1, <2>3 DEF ConnectionRows, Statuses
  <2> HIDE DEF one
  <2>5. two \in ConnectionRows /\ two.status = status /\ two.token = issued + 1
    BY <1>1, <2>4 DEF ConnectionRows, ConnectionTyped
  <2> HIDE DEF two
  <2>6. three \in ConnectionRows /\ three.status = status /\ three.token = issued + 1 /\ three.lease = Nobody
    BY <2>5 DEF ConnectionRows
  <2> HIDE DEF three
  <2>7. four \in ConnectionRows /\ four.status = status /\ four.token = issued + 1 /\ four.lease = Nobody
    BY <2>6 DEF ConnectionRows
  <2> HIDE DEF four
  <2>8. five \in ConnectionRows /\ five.status = status /\ five.token = issued + 1 /\ five.lease = Nobody
    BY <2>7 DEF ConnectionRows
  <2> HIDE DEF five
  <2>9. LeaseFresh'
    BY <1>1, <2>1, <2>8 DEF LeaseFresh, Nobody
  <2>10. connection'.token > 0 /\ connection'.token <= issued'
    BY <1>1, <1>2, <2>1, <2>8 DEF ConnectionTyped
  <2>11. QED
    BY <1>1, <1>2, <1>3, <2>1, <2>2, <2>3, <2>8, <2>9, <2>10
       DEF ConnectionInv, ConnectionTyped, AttemptsConsumed, ChargeCovered, CredentialFollowsStatus
<1>5. CASE ~HoldsLease(r)
  <2>1. UNCHANGED <<connection, lost>>
    BY <1>5 DEF RefreshSucceeds
  <2>2. LeaseFresh'
    BY <1>1, <1>3, <2>1 DEF LeaseFresh
  <2>3. connection.token <= issued'
    BY <1>1, <1>2 DEF ConnectionTyped, ConnectionRows
  <2>4. QED
    BY <1>1, <1>2, <1>3, <2>1, <2>2, <2>3
       DEF ConnectionInv, ConnectionTyped, AttemptsConsumed, ChargeCovered, CredentialFollowsStatus
<1>6. QED
  BY <1>4, <1>5

(* Payments charge what is credited, or nothing.                           *)
LEMMA PaymentStep ==
  ASSUME ConnectionInv, BeginPayment \/ CommitPayment \/ CreditPayment \/ ChargePayment \/ SettlePayment
  PROVE  ConnectionInv'
  BY DEF BeginPayment, CommitPayment, CreditPayment, ChargePayment, SettlePayment, Charges,
         ConnectionInv, ConnectionTyped, AttemptsConsumed, LeaseFresh, ChargeCovered, CredentialFollowsStatus

(* Every step keeps the invariant.                                         *)
LEMMA ConnectionStep == ASSUME ConnectionInv, [ConnectionNext]_connectionVars PROVE ConnectionInv'
<1>1. CASE UNCHANGED connectionVars
  BY <1>1 DEF connectionVars, ConnectionInv, ConnectionTyped, AttemptsConsumed, LeaseFresh, ChargeCovered, CredentialFollowsStatus
<1>2. CASE ConnectionNext
  BY <1>2, AuthorizationStep, CompleteOAuthStep, OwnerStep, ReaderStep, RefreshSucceedsStep, PaymentStep, Zenon
     DEF ConnectionNext
<1>3. QED
  BY <1>1, <1>2

(* The invariant says what the connection promises.                        *)
LEMMA ConnectionInvImplies ==
  ConnectionInv => ConnectionTypeOK /\ CredentialFollowsStatus /\ CredentialWrittenOnce
  BY DEF ConnectionInv, ConnectionTypeOK, ConnectionTyped, ConnectionRows, AttemptRows, Callers,
         AttemptsConsumed, CredentialWrittenOnce

(* The types, and the two promises about the credential, always hold.      *)
THEOREM ConnectionInvariance ==
  ConnectionSpec => [](ConnectionTypeOK /\ CredentialFollowsStatus /\ CredentialWrittenOnce)
<1>1. ConnectionInv /\ [ConnectionNext]_connectionVars => ConnectionInv'
  BY ConnectionStep
<1>2. QED
  BY ConnectionInvInit, <1>1, ConnectionInvImplies, PTL DEF ConnectionSpec

(* An active connection has a credential, a revoked one has none, and one  *)
(* that still has a charge to look up keeps it: for any readers and        *)
(* attempts, whatever refreshes, disconnections and callbacks cross.       *)
THEOREM CredentialIsKept == ConnectionSpec => []CredentialFollowsStatus
BY ConnectionInvariance, PTL

(* An authorization is exchanged once, and no refresh writes over a newer  *)
(* credential.                                                             *)
THEOREM NoCredentialOverwritten == ConnectionSpec => []CredentialWrittenOnce
BY ConnectionInvariance, PTL

-----------------------------------------------------------------------------
(* The inbox of webhooks.                                                  *)

(* A notification an execution has still to claim.                         *)
ToClaim(e, n) == \E i \in 1..Len(e.queue) : e.queue[i].notice = n /\ (i = 1 => e.pc = "batch")
Claimants(held, n) == {x \in Executions : ToClaim(held[x], n)}

(* What an execution holds: every candidate once, as its row was or has    *)
(* fewer attempts than it; and while it works on one, its own claim.       *)
HeldWell(rows, e) ==
  /\ e.pc = "idle" <=> e.queue = <<>>
  /\ \A i, j \in 1..Len(e.queue) : e.queue[i].notice = e.queue[j].notice => i = j
  /\ \A i \in 1..Len(e.queue) : e.queue[i].read <= rows[e.queue[i].notice].attempts
  /\ e.pc \in {"working", "handled"} => e.queue[1].read < rows[e.queue[1].notice].attempts

Reach == MaxTries + Cardinality(Executions) - 1

(* What is still to be claimed stays within reach.                         *)
TriesInv ==
  /\ InboxTypeOK
  /\ \A x \in Executions : HeldWell(inbox, execution[x])
  /\ \A n \in Notices : inbox[n].attempts + Cardinality(Claimants(execution, n)) <= Reach
  /\ \A n \in spent : inbox[n].attempts >= MaxTries

(* The constants, one by one.                                              *)
LEMMA InboxConstants ==
  /\ MaxNotices \in Nat /\ LeaseTime \in Nat /\ Horizon \in Nat /\ MaxTries \in Nat \ {0}
  /\ IsFiniteSet(Executions) /\ Cardinality(Executions) \in Nat /\ Reach \in Nat
<1>1. /\ MaxNotices \in Nat /\ LeaseTime \in Nat /\ Horizon \in Nat /\ MaxTries \in Nat \ {0}
      /\ IsFiniteSet(Executions)
  BY InboxAssumption
<1>2. Cardinality(Executions) \in Nat
  BY <1>1, FS_CardinalityType
<1>3. QED
  BY <1>1, <1>2 DEF Reach

(* What counts of a step of an execution: no attempts are lost, and one is *)
(* won only when the execution gives a claim up for it.                    *)
Moves(x, n) ==
  \/ inbox'[n].attempts = inbox[n].attempts /\ (ToClaim(execution'[x], n) => ToClaim(execution[x], n))
  \/ inbox'[n].attempts = inbox[n].attempts + 1 /\ ToClaim(execution[x], n) /\ ~ToClaim(execution'[x], n)
  \/ inbox'[n].attempts = inbox[n].attempts /\ inbox[n].attempts < MaxTries

(* Attempts and claims to come stay within reach.                          *)
LEMMA ReachKept ==
  ASSUME TriesInv, NEW x \in Executions, NEW n \in Notices, Moves(x, n),
         \A y \in Executions \ {x} : execution'[y] = execution[y]
  PROVE  inbox'[n].attempts + Cardinality(Claimants(execution', n)) <= Reach
<1> DEFINE old == Claimants(execution, n)
           new == Claimants(execution', n)
<1>1. old \in SUBSET Executions /\ new \in SUBSET Executions
  BY DEF Claimants
<1>2. \A y \in Executions \ {x} : y \in new <=> y \in old
  BY DEF Claimants
<1>3. x \in old <=> ToClaim(execution[x], n)
  BY DEF Claimants
<1>4. x \in new <=> ToClaim(execution'[x], n)
  BY DEF Claimants
<1>5. inbox[n].attempts \in Nat /\ inbox[n].attempts + Cardinality(old) <= Reach
  BY DEF TriesInv, InboxTypeOK, Notice
<1> HIDE DEF old, new
<1>6. /\ IsFiniteSet(new) /\ Cardinality(new) \in Nat /\ Cardinality(new) <= Cardinality(Executions)
      /\ IsFiniteSet(old) /\ Cardinality(old) \in Nat
  BY <1>1, InboxConstants, FS_Subset, FS_CardinalityType
<1>7. \/ inbox'[n].attempts = inbox[n].attempts /\ new \subseteq old
      \/ inbox'[n].attempts = inbox[n].attempts + 1 /\ x \in old /\ new \subseteq old \ {x}
      \/ inbox'[n].attempts = inbox[n].attempts /\ inbox[n].attempts < MaxTries
  BY <1>1, <1>2, <1>3, <1>4 DEF Moves
<1>8. CASE inbox'[n].attempts = inbox[n].attempts /\ new \subseteq old
  <2>1. Cardinality(new) <= Cardinality(old)
    BY <1>6, <1>8, FS_Subset
  <2>2. QED
    BY <1>5, <1>6, <1>8, <2>1, InboxConstants DEF new
<1>9. CASE inbox'[n].attempts = inbox[n].attempts + 1 /\ x \in old /\ new \subseteq old \ {x}
  <2>1. IsFiniteSet(old \ {x}) /\ Cardinality(old \ {x}) = Cardinality(old) - 1
    BY <1>6, <1>9, FS_RemoveElement
  <2>2. Cardinality(new) <= Cardinality(old \ {x})
    BY <1>9, <2>1, FS_Subset
  <2>3. QED
    BY <1>5, <1>6, <1>9, <2>1, <2>2, InboxConstants DEF new
<1>10. CASE inbox'[n].attempts = inbox[n].attempts /\ inbox[n].attempts < MaxTries
  <2>1. inbox[n].attempts + Cardinality(new) <= Reach
    BY <1>5, <1>6, <1>10, InboxConstants DEF Reach
  <2>2. QED
    BY <1>10, <2>1 DEF new
<1>11. QED
  BY <1>7, <1>8, <1>9, <1>10

(* What an execution holds stays true of rows that lose no attempts.       *)
LEMMA HeldStays ==
  ASSUME NEW rows, NEW new, NEW e, HeldWell(rows, e), e.queue \in Seq(Candidate),
         \A n \in Notices : rows[n].attempts \in Nat /\ new[n].attempts \in Nat
                           /\ rows[n].attempts <= new[n].attempts
  PROVE  HeldWell(new, e)
<1>1. ASSUME NEW i \in 1..Len(e.queue)
      PROVE  e.queue[i].notice \in Notices /\ e.queue[i].read \in Nat
  <2>1. e.queue[i] \in Candidate
    BY ElementOfSeq
  <2>2. QED
    BY <2>1 DEF Candidate
<1>2. ASSUME NEW i \in 1..Len(e.queue) PROVE e.queue[i].read <= new[e.queue[i].notice].attempts
  BY <1>1 DEF HeldWell
<1>3. ASSUME e.pc \in {"working", "handled"} PROVE e.queue[1].read < new[e.queue[1].notice].attempts
  <2>1. e.queue # <<>>
    BY <1>3 DEF HeldWell
  <2>2. 1 \in 1..Len(e.queue)
    BY <2>1, EmptySeq, LenProperties
  <2>3. QED
    BY <1>1, <1>3, <2>2 DEF HeldWell
<1>4. QED
  BY <1>2, <1>3 DEF HeldWell

(* A step of an execution that moves attempts only that way keeps the      *)
(* invariant, if what it then holds is right.                              *)
LEMMA ExecutionStep ==
  ASSUME TriesInv, InboxTypeOK', NEW x \in Executions,
         \A y \in Executions \ {x} : execution'[y] = execution[y],
         \A n \in Notices : Moves(x, n),
         HeldWell(inbox', execution'[x]),
         \A n \in spent' : inbox'[n].attempts >= MaxTries \/ n \in spent
  PROVE  TriesInv'
<1>1. ASSUME NEW n \in Notices
      PROVE  inbox[n].attempts \in Nat /\ inbox'[n].attempts \in Nat /\ inbox[n].attempts <= inbox'[n].attempts
  <2>1. inbox[n].attempts \in Nat /\ inbox'[n].attempts \in Nat
    BY DEF TriesInv, InboxTypeOK, Notice
  <2>2. QED
    BY <2>1 DEF Moves
<1>2. ASSUME NEW y \in Executions PROVE HeldWell(inbox', execution'[y])
  <2>1. CASE y = x
    BY <2>1
  <2>2. CASE y # x
    <3>1. execution'[y] = execution[y]
      BY <2>2
    <3>2. HeldWell(inbox, execution[y]) /\ execution[y].queue \in Seq(Candidate)
      BY DEF TriesInv, InboxTypeOK
    <3>3. HeldWell(inbox', execution[y])
      BY <1>1, <3>2, HeldStays
    <3>4. QED
      BY <3>1, <3>3
  <2>3. QED
    BY <2>1, <2>2
<1>3. ASSUME NEW n \in Notices PROVE inbox'[n].attempts + Cardinality(Claimants(execution', n)) <= Reach
  BY ReachKept
<1>4. ASSUME NEW n \in spent' PROVE inbox'[n].attempts >= MaxTries
  <2>1. n \in Notices
    BY DEF InboxTypeOK
  <2>2. CASE n \in spent
    BY <1>1, <2>1, <2>2, InboxConstants DEF TriesInv
  <2>3. QED
    BY <2>2
<1>5. QED
  BY <1>2, <1>3, <1>4 DEF TriesInv

(* The queue of an execution after the last candidate it took.             *)
LEMMA AfterHolds ==
  ASSUME TriesInv, NEW x \in Executions, execution[x].pc # "idle"
  PROVE  /\ execution[x].queue # <<>> /\ Len(execution[x].queue) \in Nat \ {0}
         /\ Head(execution[x].queue) = execution[x].queue[1]
         /\ execution[x].queue[1] \in Candidate
         /\ After(x) \in [pc : {"idle", "batch", "working", "handled"}, start : 0..Horizon, queue : Seq(Candidate)]
         /\ HeldWell(inbox, After(x))
         /\ \A n \in Notices : ToClaim(After(x), n) =>
              ToClaim(execution[x], n) /\ n # execution[x].queue[1].notice
<1> DEFINE e == execution[x]
           q == execution[x].queue
<1>1. /\ e \in [pc : {"idle", "batch", "working", "handled"}, start : 0..Horizon, queue : Seq(Candidate)]
      /\ HeldWell(inbox, e)
  BY DEF TriesInv, InboxTypeOK
<1>2. q \in Seq(Candidate) /\ q # <<>>
  BY <1>1 DEF HeldWell
<1>3. Len(q) \in Nat \ {0} /\ DOMAIN q = 1..Len(q) /\ Head(q) = q[1]
  BY <1>2, LenProperties, EmptySeq
<1>4. q[1] \in Candidate
  BY <1>2, <1>3, HeadTailProperties
<1>5. CASE Len(q) = 1
  <2>1. After(x) = Resting
    BY <1>5 DEF After
  <2>2. Resting.queue = <<>> /\ Resting.pc = "idle" /\ Resting.start = 0 /\ Len(<<>>) = 0
    BY DEF Resting
  <2>3. Resting \in [pc : {"idle", "batch", "working", "handled"}, start : 0..Horizon, queue : Seq(Candidate)]
    BY InboxConstants DEF Resting
  <2>4. HeldWell(inbox, Resting)
    BY <2>2 DEF HeldWell
  <2>5. ASSUME NEW n \in Notices PROVE ~ToClaim(Resting, n)
    BY <2>2 DEF ToClaim
  <2>6. QED
    BY <1>2, <1>3, <1>4, <2>1, <2>3, <2>4, <2>5
<1>6. CASE Len(q) # 1
  <2> DEFINE t == Tail(q)
             f == After(x)
  <2>1. t \in Seq(Candidate) /\ Len(t) = Len(q) - 1 /\ \A i \in 1..Len(t) : t[i] = q[i + 1]
    BY <1>2, HeadTailProperties
  <2>2. f = [e EXCEPT !.pc = "batch", !.queue = Tail(@)]
    BY <1>6 DEF After
  <2>3. f.pc = "batch" /\ f.queue = t /\ f.start = e.start
        /\ f \in [pc : {"idle", "batch", "working", "handled"}, start : 0..Horizon, queue : Seq(Candidate)]
    BY <1>1, <2>1, <2>2
  <2> HIDE DEF f, t
  <2>4. t # <<>> /\ Len(t) \in Nat
    <3>1. Len(<<>>) = 0
      OBVIOUS
    <3>2. Len(t) \in Nat /\ Len(t) # 0
      BY <1>3, <1>6, <2>1
    <3>3. t # <<>>
      BY <3>1, <3>2, Zenon
    <3>4. QED
      BY <3>2, <3>3
  <2>5. HeldWell(inbox, f)
    <3>1. ASSUME NEW i \in 1..Len(t), NEW j \in 1..Len(t), t[i].notice = t[j].notice PROVE i = j
      BY <1>1, <1>3, <2>1, <3>1 DEF HeldWell
    <3>2. ASSUME NEW i \in 1..Len(t) PROVE t[i].read <= inbox[t[i].notice].attempts
      BY <1>1, <1>3, <2>1 DEF HeldWell
    <3>3. QED
      BY <2>3, <2>4, <3>1, <3>2 DEF HeldWell
  <2>6. ASSUME NEW n \in Notices, ToClaim(f, n) PROVE ToClaim(e, n) /\ n # q[1].notice
    <3>1. PICK i \in 1..Len(t) : t[i].notice = n
      BY <2>3, <2>6 DEF ToClaim
    <3>2. i + 1 \in 1..Len(q) /\ q[i + 1].notice = n /\ i + 1 # 1 /\ 1 \in 1..Len(q)
      BY <1>3, <2>1, <3>1
    <3>3. ToClaim(e, n)
      BY <3>2 DEF ToClaim
    <3>4. n # q[1].notice
      BY <1>1, <3>2 DEF HeldWell
    <3>5. QED
      BY <3>3, <3>4
  <2>7. QED
    BY <1>2, <1>3, <1>4, <2>3, <2>5, <2>6 DEF f
<1>7. QED
  BY <1>5, <1>6

(* What an execution selects is what it holds: every candidate once.       *)
LEMMA SelectedHolds ==
  ASSUME TriesInv, NEW S \in SUBSET Notices, NEW batch \in SetToSeqs(S), S # {},
         \A n \in S : inbox[n].attempts < MaxTries,
         NEW e, e = [pc |-> "batch", start |-> tick,
                     queue |-> [i \in DOMAIN batch |-> [notice |-> batch[i], read |-> inbox[batch[i]].attempts]]]
  PROVE  /\ e \in [pc : {"idle", "batch", "working", "handled"}, start : 0..Horizon, queue : Seq(Candidate)]
         /\ HeldWell(inbox, e)
         /\ \A n \in Notices : ToClaim(e, n) => inbox[n].attempts < MaxTries
<1> DEFINE size == Cardinality(S)
           held == [i \in DOMAIN batch |-> [notice |-> batch[i], read |-> inbox[batch[i]].attempts]]
<1>1. batch \in [1..size -> S] /\ \A i, j \in 1..size : i # j => batch[i] # batch[j]
  BY DEF SetToSeqs
<1>2. size \in Nat \ {0}
  <2>1. IsFiniteSet(1..MaxNotices)
    BY InboxConstants, FS_Interval
  <2>2. IsFiniteSet(S)
    BY <2>1, FS_Subset DEF Notices
  <2>3. QED
    BY <2>2, FS_CardinalityType, FS_EmptySet
<1> HIDE DEF size
<1>3. DOMAIN batch = 1..size
  BY <1>1
<1>4. ASSUME NEW i \in 1..size
      PROVE  held[i].notice = batch[i] /\ held[i].read = inbox[batch[i]].attempts /\ held[i] \in Candidate
  BY <1>1, <1>3 DEF Candidate, TriesInv, InboxTypeOK, Notice
<1>5. held \in [1..size -> Candidate]
  BY <1>3, <1>4
<1> HIDE DEF held
<1>6. held \in Seq(Candidate) /\ Len(held) = size
  <2>1. held \in Seq(Candidate)
    BY <1>2, <1>5, SeqDef
  <2>2. QED
    BY <1>2, <1>5, <2>1, LenProperties
<1>7. e.pc = "batch" /\ e.start = tick /\ e.queue = held
  BY DEF held
<1>8. held # <<>>
  <2>1. Len(<<>>) = 0
    OBVIOUS
  <2>2. QED
    BY <1>2, <1>6, <2>1
<1>10. ASSUME NEW i \in 1..size PROVE held[i].read <= inbox[held[i].notice].attempts
  BY <1>1, <1>4 DEF TriesInv, InboxTypeOK, Notice
<1>11. HeldWell(inbox, e)
  <2>1. e.pc # "idle" /\ e.pc \notin {"working", "handled"} /\ e.queue # <<>> /\ Len(e.queue) = size
    BY <1>6, <1>7, <1>8
  <2>2. ASSUME NEW i \in 1..size, NEW j \in 1..size, e.queue[i].notice = e.queue[j].notice PROVE i = j
    BY <1>1, <1>4, <1>7, <2>2
  <2>3. ASSUME NEW i \in 1..size PROVE e.queue[i].read <= inbox[e.queue[i].notice].attempts
    BY <1>7, <1>10
  <2>4. QED
    BY <2>1, <2>2, <2>3 DEF HeldWell
<1>12. ASSUME NEW n \in Notices, ToClaim(e, n) PROVE inbox[n].attempts < MaxTries
  <2>1. PICK i \in 1..size : held[i].notice = n
    BY <1>6, <1>7, <1>12 DEF ToClaim
  <2>2. QED
    BY <1>1, <1>4, <2>1
<1>13. e \in [pc : {"idle", "batch", "working", "handled"}, start : 0..Horizon, queue : Seq(Candidate)]
  <2>1. tick \in 0..Horizon
    BY DEF TriesInv, InboxTypeOK
  <2>2. QED
    BY <1>6, <2>1 DEF held
<1>14. QED
  BY <1>11, <1>12, <1>13

(* An execution selects what is due, as it is.                             *)
LEMMA SelectKeeps ==
  ASSUME TriesInv, NEW x \in Executions, SelectNotices(x)
  PROVE  TriesInv'
<1>0. PICK S \in {Selectable(tick)} \cup {{n} : n \in Selectable(tick)} : \E batch \in SetToSeqs(S) :
        /\ S # {} /\ execution[x].pc = "idle"
        /\ execution' = [execution EXCEPT ![x] =
             [pc |-> "batch", start |-> tick,
              queue |-> [i \in DOMAIN batch |-> [notice |-> batch[i], read |-> inbox[batch[i]].attempts]]]]
        /\ UNCHANGED <<tick, inbox, spent, kills>>
  BY Zenon DEF SelectNotices
<1>1. PICK batch \in SetToSeqs(S) :
        /\ S # {} /\ execution[x].pc = "idle"
        /\ execution' = [execution EXCEPT ![x] =
             [pc |-> "batch", start |-> tick,
              queue |-> [i \in DOMAIN batch |-> [notice |-> batch[i], read |-> inbox[batch[i]].attempts]]]]
        /\ UNCHANGED <<tick, inbox, spent, kills>>
  BY <1>0
<1>2. S \in SUBSET Notices /\ \A n \in S : inbox[n].attempts < MaxTries
  BY DEF Selectable
<1> DEFINE e == [pc |-> "batch", start |-> tick,
                 queue |-> [i \in DOMAIN batch |-> [notice |-> batch[i], read |-> inbox[batch[i]].attempts]]]
<1>3. /\ e \in [pc : {"idle", "batch", "working", "handled"}, start : 0..Horizon, queue : Seq(Candidate)]
      /\ HeldWell(inbox, e)
      /\ \A n \in Notices : ToClaim(e, n) => inbox[n].attempts < MaxTries
  BY <1>1, <1>2, SelectedHolds
<1>4. execution' = [execution EXCEPT ![x] = e] /\ UNCHANGED <<tick, inbox, spent>>
  BY <1>1
<1> HIDE DEF e
<1>5. execution'[x] = e /\ \A y \in Executions \ {x} : execution'[y] = execution[y]
  BY <1>4 DEF TriesInv, InboxTypeOK
<1>6. InboxTypeOK'
  BY <1>3, <1>4 DEF TriesInv, InboxTypeOK
<1>7. ASSUME NEW n \in Notices PROVE Moves(x, n)
  BY <1>3, <1>4, <1>5 DEF Moves
<1>8. QED
  BY <1>3, <1>4, <1>5, <1>6, <1>7, ExecutionStep

(* A claim takes an attempt if the row is as it was selected; and the      *)
(* execution has it no more to claim.                                      *)
LEMMA ClaimKeeps ==
  ASSUME TriesInv, NEW x \in Executions, ClaimNotice(x)
  PROVE  TriesInv'
<1> DEFINE n == execution[x].queue[1].notice
           e == execution[x]
<1>1. /\ e.queue # <<>> /\ Len(e.queue) \in Nat \ {0} /\ Head(e.queue) = e.queue[1]
      /\ e.queue[1] \in Candidate
      /\ After(x) \in [pc : {"idle", "batch", "working", "handled"}, start : 0..Horizon, queue : Seq(Candidate)]
      /\ HeldWell(inbox, After(x))
      /\ \A m \in Notices : ToClaim(After(x), m) => ToClaim(e, m) /\ m # n
      /\ e.pc = "batch" /\ tick' = tick /\ spent' = spent
  <2>1. e.pc # "idle"
    BY DEF ClaimNotice
  <2>2. QED
    BY <2>1, AfterHolds DEF ClaimNotice
<1>2. n \in Notices /\ inbox[n] \in Notice /\ inbox[n].attempts \in Nat
  BY <1>1 DEF Candidate, TriesInv, InboxTypeOK, Notice
<1>3. /\ e \in [pc : {"idle", "batch", "working", "handled"}, start : 0..Horizon, queue : Seq(Candidate)]
      /\ HeldWell(inbox, e)
  BY DEF TriesInv, InboxTypeOK
<1>4. CASE ~inbox[n].processed /\ LeaseFree(n, e.start)
  <2> DEFINE one == [inbox EXCEPT ![n].lease = e.start]
             two == [one EXCEPT ![n].attempts = @ + 1]
             f   == [execution EXCEPT ![x].pc = "working"]
  <2>1. inbox' = [inbox EXCEPT ![n].lease = e.start, ![n].attempts = @ + 1] /\ execution' = f
    BY <1>1, <1>4 DEF ClaimNotice
  <2>2. inbox' = two
    BY <2>1, Zenon
  <2>3. /\ one \in [Notices -> Notice] /\ one[n].attempts = inbox[n].attempts
        /\ \A m \in Notices \ {n} : one[m] = inbox[m]
    BY <1>2, <1>3 DEF TriesInv, InboxTypeOK, Notice
  <2> HIDE DEF one
  <2>4. /\ two \in [Notices -> Notice] /\ two[n].attempts = inbox[n].attempts + 1
        /\ \A m \in Notices \ {n} : two[m] = inbox[m]
    BY <1>2, <2>3 DEF Notice
  <2> HIDE DEF two
  <2>5. /\ f[x].pc = "working" /\ f[x].queue = e.queue /\ f[x].start = e.start
        /\ f[x] \in [pc : {"idle", "batch", "working", "handled"}, start : 0..Horizon, queue : Seq(Candidate)]
        /\ f \in [Executions -> [pc : {"idle", "batch", "working", "handled"}, start : 0..Horizon, queue : Seq(Candidate)]]
        /\ \A y \in Executions \ {x} : f[y] = execution[y]
    BY <1>3 DEF TriesInv, InboxTypeOK
  <2> HIDE DEF f
  <2>6. InboxTypeOK'
    BY <1>1, <2>1, <2>2, <2>4, <2>5 DEF TriesInv, InboxTypeOK
  <2>7. HeldWell(inbox', execution'[x])
    <3>1. ASSUME NEW m \in Notices
          PROVE  inbox[m].attempts \in Nat /\ two[m].attempts \in Nat /\ inbox[m].attempts <= two[m].attempts
      <4>1. inbox[m].attempts \in Nat
        BY DEF TriesInv, InboxTypeOK, Notice
      <4>2. two[m].attempts = inbox[m].attempts \/ two[m].attempts = inbox[m].attempts + 1
        BY <2>4
      <4>3. QED
        BY <4>1, <4>2
    <3>2. HeldWell(two, e)
      BY <1>3, <3>1, HeldStays
    <3>3. e.queue[1].read \in Nat /\ e.queue[1].read <= inbox[n].attempts
      BY <1>1, <1>3 DEF HeldWell, Candidate
    <3>4. e.queue[1].read < two[n].attempts
      BY <1>2, <2>4, <3>3
    <3>5. HeldWell(two, f[x])
      BY <1>1, <2>5, <3>2, <3>4 DEF HeldWell
    <3>6. QED
      BY <2>1, <2>2, <3>5
  <2>8. ASSUME NEW m \in Notices PROVE Moves(x, m)
    <3>1. CASE m = n
      <4>1. ToClaim(e, n)
        <5>1. 1 \in 1..Len(e.queue)
          BY <1>1
        <5>2. QED
          BY <1>1, <5>1 DEF ToClaim
      <4>2. ~ToClaim(f[x], n)
        BY <1>1, <1>3, <2>5 DEF ToClaim, HeldWell
      <4>3. QED
        BY <2>1, <2>2, <2>4, <3>1, <4>1, <4>2 DEF Moves
    <3>2. CASE m # n
      <4>1. ToClaim(f[x], m) => ToClaim(e, m)
        BY <1>1, <2>5 DEF ToClaim
      <4>2. QED
        BY <2>1, <2>2, <2>4, <3>2, <4>1 DEF Moves
    <3>3. QED
      BY <3>1, <3>2
  <2>9. QED
    BY <1>1, <2>1, <2>5, <2>6, <2>7, <2>8, ExecutionStep
<1>5. CASE ~(~inbox[n].processed /\ LeaseFree(n, e.start))
  <2>1. execution' = [execution EXCEPT ![x] = After(x)] /\ inbox' = inbox
    BY <1>1, <1>5 DEF ClaimNotice
  <2>2. execution'[x] = After(x) /\ \A y \in Executions \ {x} : execution'[y] = execution[y]
    BY <2>1 DEF TriesInv, InboxTypeOK
  <2>3. InboxTypeOK'
    BY <1>1, <2>1 DEF TriesInv, InboxTypeOK
  <2>4. ASSUME NEW m \in Notices PROVE Moves(x, m)
    BY <1>1, <2>1, <2>2 DEF Moves
  <2>5. QED
    BY <1>1, <2>1, <2>2, <2>3, <2>4, ExecutionStep
<1>6. QED
  BY <1>4, <1>5

(* A row rewritten, its attempts kept.                                     *)
LEMMA RowKept ==
  ASSUME TriesInv, NEW n \in Notices, NEW new, DOMAIN new = Notices, new = [m \in Notices |-> new[m]],
         \A m \in Notices \ {n} : new[m] = inbox[m],
         new[n] \in Notice, new[n].attempts = inbox[n].attempts
  PROVE  /\ new \in [Notices -> Notice]
         /\ \A m \in Notices : /\ new[m].attempts = inbox[m].attempts
                              /\ new[m].attempts \in Nat /\ inbox[m].attempts \in Nat
                              /\ inbox[m].attempts <= new[m].attempts
<1>1. ASSUME NEW m \in Notices PROVE new[m] \in Notice /\ new[m].attempts = inbox[m].attempts
  BY DEF TriesInv, InboxTypeOK
<1>2. ASSUME NEW m \in Notices PROVE inbox[m].attempts \in Nat
  BY DEF TriesInv, InboxTypeOK, Notice
<1>3. QED
  BY <1>1, <1>2

(* A step that ends the work on a candidate, with attempts kept.           *)
LEMMA EndKeeps ==
  ASSUME TriesInv, NEW x \in Executions, execution[x].pc # "idle", execution' = [execution EXCEPT ![x] = After(x)],
         tick' = tick, inbox' \in [Notices -> Notice], spent' \subseteq Notices,
         \A m \in Notices : /\ inbox'[m].attempts = inbox[m].attempts
                           /\ inbox'[m].attempts \in Nat /\ inbox[m].attempts \in Nat
                           /\ inbox[m].attempts <= inbox'[m].attempts,
         \A n \in spent' : inbox'[n].attempts >= MaxTries \/ n \in spent
  PROVE  TriesInv'
<1> DEFINE a == After(x)
<1>1. /\ a \in [pc : {"idle", "batch", "working", "handled"}, start : 0..Horizon, queue : Seq(Candidate)]
      /\ HeldWell(inbox, a)
      /\ \A m \in Notices : ToClaim(a, m) => ToClaim(execution[x], m)
  BY AfterHolds
<1>2. execution' = [execution EXCEPT ![x] = a]
  OBVIOUS
<1> HIDE DEF a
<1>3. a.queue \in Seq(Candidate)
  BY <1>1
<1>4. HeldWell(inbox', a)
  BY <1>1, <1>3, HeldStays
<1>5. execution'[x] = a /\ \A y \in Executions \ {x} : execution'[y] = execution[y]
  BY <1>2 DEF TriesInv, InboxTypeOK
<1>6. InboxTypeOK'
  BY <1>1, <1>2 DEF TriesInv, InboxTypeOK
<1>7. ASSUME NEW m \in Notices PROVE Moves(x, m)
  BY <1>1, <1>5 DEF Moves
<1>8. QED
  BY <1>4, <1>5, <1>6, <1>7, ExecutionStep

(* A notification is marked as processed.                                  *)
LEMMA MarkKeeps ==
  ASSUME TriesInv, NEW x \in Executions, MarkNotice(x)
  PROVE  TriesInv'
<1> DEFINE n == execution[x].queue[1].notice
           one == [inbox EXCEPT ![n].processed = TRUE]
           two == [one EXCEPT ![n].lease = Unclaimed]
<1>1. execution[x].pc # "idle" /\ tick' = tick /\ spent' = spent /\ execution' = [execution EXCEPT ![x] = After(x)]
  BY DEF MarkNotice
<1>2. Head(execution[x].queue) = execution[x].queue[1] /\ execution[x].queue[1] \in Candidate
  BY <1>1, AfterHolds
<1>3. n \in Notices /\ inbox[n] \in Notice
  BY <1>2 DEF Candidate, TriesInv, InboxTypeOK
<1>4. inbox' = two
  <2>1. inbox' = [inbox EXCEPT ![n].processed = TRUE, ![n].lease = Unclaimed]
    BY <1>2 DEF MarkNotice
  <2>2. QED
    BY <2>1, Zenon
<1>5. /\ DOMAIN two = Notices /\ two = [m \in Notices |-> two[m]] /\ \A m \in Notices \ {n} : two[m] = inbox[m]
      /\ two[n] \in Notice /\ two[n].attempts = inbox[n].attempts
  BY <1>3 DEF TriesInv, InboxTypeOK, Notice
<1> HIDE DEF n, one, two
<1>6. /\ two \in [Notices -> Notice]
      /\ \A m \in Notices : /\ two[m].attempts = inbox[m].attempts
                           /\ two[m].attempts \in Nat /\ inbox[m].attempts \in Nat
                           /\ inbox[m].attempts <= two[m].attempts
  BY <1>3, <1>5, RowKept
<1>7. spent \subseteq Notices
  BY DEF TriesInv, InboxTypeOK
<1>8. QED
  BY <1>1, <1>4, <1>6, <1>7, EndKeeps

(* A notification fails and will be tried again.                           *)
LEMMA FailKeeps ==
  ASSUME TriesInv, NEW x \in Executions, FailNotice(x)
  PROVE  TriesInv'
<1> DEFINE e == execution[x]
           n == e.queue[1].notice
           one == [inbox EXCEPT ![n].lease = Unclaimed]
           two == [one EXCEPT ![n].due = tick + 1]
<1>1. e.pc \in {"working", "handled"} /\ e.pc # "idle" /\ tick' = tick /\ execution' = [execution EXCEPT ![x] = After(x)]
  BY DEF FailNotice
<1>2. Head(e.queue) = e.queue[1] /\ e.queue[1] \in Candidate
  BY <1>1, AfterHolds
<1>3. n \in Notices /\ inbox[n] \in Notice /\ inbox[n].attempts \in Nat /\ e.queue[1].read \in Nat
  BY <1>2 DEF Candidate, TriesInv, InboxTypeOK, Notice
<1>4. inbox' = two /\ (spent' = spent \/ (spent' = spent \cup {n} /\ e.queue[1].read + 1 >= MaxTries))
  <2>1. /\ inbox' = [inbox EXCEPT ![n].lease = Unclaimed, ![n].due = tick + 1]
        /\ spent' = IF Alerts(x) THEN spent \cup {n} ELSE spent
    BY <1>2 DEF FailNotice
  <2>2. inbox' = two
    BY <2>1, Zenon
  <2>3. Alerts(x) => e.queue[1].read + 1 >= MaxTries
    BY <1>2 DEF Alerts, Counted
  <2>4. QED
    BY <2>1, <2>2, <2>3
<1>5. /\ DOMAIN two = Notices /\ two = [m \in Notices |-> two[m]] /\ \A m \in Notices \ {n} : two[m] = inbox[m]
      /\ two[n] \in Notice /\ two[n].attempts = inbox[n].attempts
  <2>1. tick + 1 \in 0..Horizon + 1
    BY InboxConstants DEF TriesInv, InboxTypeOK
  <2>2. QED
    BY <1>3, <2>1 DEF TriesInv, InboxTypeOK, Notice
<1>6. e.queue[1].read < inbox[n].attempts
  BY <1>1 DEF TriesInv, HeldWell
<1> HIDE DEF n, one, two, e
<1>7. /\ two \in [Notices -> Notice]
      /\ \A m \in Notices : /\ two[m].attempts = inbox[m].attempts
                           /\ two[m].attempts \in Nat /\ inbox[m].attempts \in Nat
                           /\ inbox[m].attempts <= two[m].attempts
  BY <1>3, <1>5, RowKept
<1>8. spent' \subseteq Notices
  BY <1>3, <1>4 DEF TriesInv, InboxTypeOK
<1>9. ASSUME NEW m \in spent' PROVE two[m].attempts >= MaxTries \/ m \in spent
  BY <1>3, <1>4, <1>5, <1>6, InboxConstants
<1>10. QED
  BY <1>1, <1>4, <1>7, <1>8, <1>9, EndKeeps DEF e

(* Time, an arrival and the end of a call move no attempts.                *)
LEMMA StillKeeps ==
  ASSUME TriesInv, execution' = execution, spent' = spent, InboxTypeOK',
         \A n \in Notices : inbox'[n].attempts = inbox[n].attempts
  PROVE  TriesInv'
<1>1. ASSUME NEW n \in Notices
      PROVE  inbox[n].attempts \in Nat /\ inbox'[n].attempts \in Nat /\ inbox[n].attempts <= inbox'[n].attempts
  BY DEF TriesInv, InboxTypeOK, Notice
<1>2. ASSUME NEW y \in Executions PROVE HeldWell(inbox', execution[y])
  <2>1. HeldWell(inbox, execution[y]) /\ execution[y].queue \in Seq(Candidate)
    BY DEF TriesInv, InboxTypeOK
  <2>2. QED
    BY <1>1, <2>1, HeldStays
<1>3. ASSUME NEW n \in Notices PROVE inbox'[n].attempts + Cardinality(Claimants(execution', n)) <= Reach
  BY DEF TriesInv
<1>4. ASSUME NEW n \in spent' PROVE inbox'[n].attempts >= MaxTries
  BY DEF TriesInv, InboxTypeOK
<1>5. QED
  BY <1>2, <1>3, <1>4 DEF TriesInv

(* A notification is handled and not yet marked.                           *)
LEMMA HandleKeeps ==
  ASSUME TriesInv, NEW x \in Executions, HandleNotice(x)
  PROVE  TriesInv'
<1> DEFINE e == execution[x]
           f == [execution EXCEPT ![x].pc = "handled"]
<1>1. e.pc = "working" /\ execution' = f /\ tick' = tick /\ inbox' = inbox /\ spent' = spent
  BY DEF HandleNotice
<1>2. /\ e \in [pc : {"idle", "batch", "working", "handled"}, start : 0..Horizon, queue : Seq(Candidate)]
      /\ HeldWell(inbox, e)
  BY DEF TriesInv, InboxTypeOK
<1>3. /\ f[x].pc = "handled" /\ f[x].queue = e.queue
      /\ f \in [Executions -> [pc : {"idle", "batch", "working", "handled"}, start : 0..Horizon, queue : Seq(Candidate)]]
      /\ \A y \in Executions \ {x} : f[y] = execution[y]
  BY <1>2 DEF TriesInv, InboxTypeOK
<1> HIDE DEF f
<1>4. InboxTypeOK'
  BY <1>1, <1>3 DEF TriesInv, InboxTypeOK
<1>5. HeldWell(inbox, f[x])
  BY <1>1, <1>2, <1>3 DEF HeldWell
<1>6. ASSUME NEW m \in Notices PROVE Moves(x, m)
  BY <1>1, <1>3 DEF Moves, ToClaim
<1>7. QED
  BY <1>1, <1>3, <1>4, <1>5, <1>6, ExecutionStep

(* An execution is killed with all it holds.                               *)
LEMMA KillKeeps ==
  ASSUME TriesInv, NEW x \in Executions, KillExecution(x)
  PROVE  TriesInv'
<1>1. execution' = [execution EXCEPT ![x] = Resting] /\ tick' = tick /\ inbox' = inbox /\ spent' = spent
  BY DEF KillExecution
<1>2. Resting.queue = <<>> /\ Resting.pc = "idle" /\ Resting.start = 0 /\ Len(<<>>) = 0
  BY DEF Resting
<1>3. Resting \in [pc : {"idle", "batch", "working", "handled"}, start : 0..Horizon, queue : Seq(Candidate)]
  BY InboxConstants DEF Resting
<1>4. HeldWell(inbox, Resting)
  BY <1>2 DEF HeldWell
<1>5. execution'[x] = Resting /\ \A y \in Executions \ {x} : execution'[y] = execution[y]
  BY <1>1 DEF TriesInv, InboxTypeOK
<1>6. InboxTypeOK'
  BY <1>1, <1>3 DEF TriesInv, InboxTypeOK
<1>7. ASSUME NEW m \in Notices PROVE Moves(x, m)
  BY <1>1, <1>2, <1>5 DEF Moves, ToClaim
<1>8. QED
  BY <1>1, <1>4, <1>5, <1>6, <1>7, ExecutionStep

(* Time passes.                                                            *)
LEMMA TickKeeps ==
  ASSUME TriesInv, InboxTick
  PROVE  TriesInv'
<1>1. tick' \in 0..Horizon /\ inbox' = inbox /\ execution' = execution /\ spent' = spent
  BY InboxConstants DEF InboxTick, TriesInv, InboxTypeOK
<1>2. InboxTypeOK'
  BY <1>1 DEF TriesInv, InboxTypeOK
<1>3. QED
  BY <1>1, <1>2, StillKeeps

(* A notification arrives, untried.                                        *)
LEMMA EnqueueKeeps ==
  ASSUME TriesInv, NEW n \in Notices, Enqueue(n)
  PROVE  TriesInv'
<1> DEFINE one == [inbox EXCEPT ![n].stored = TRUE]
           two == [one EXCEPT ![n].due = tick]
<1>1. inbox' = two
  BY Zenon DEF Enqueue
<1>2. tick' = tick /\ execution' = execution /\ spent' = spent
  BY DEF Enqueue
<1>3. /\ DOMAIN two = Notices /\ two = [m \in Notices |-> two[m]] /\ \A m \in Notices \ {n} : two[m] = inbox[m]
      /\ two[n] \in Notice /\ two[n].attempts = inbox[n].attempts
  <2>1. tick \in 0..Horizon + 1
    BY InboxConstants DEF TriesInv, InboxTypeOK
  <2>2. QED
    BY <2>1 DEF TriesInv, InboxTypeOK, Notice
<1> HIDE DEF one, two
<1>4. two \in [Notices -> Notice] /\ \A m \in Notices : two[m].attempts = inbox[m].attempts
  BY <1>3, RowKept
<1>5. InboxTypeOK'
  BY <1>1, <1>2, <1>4 DEF TriesInv, InboxTypeOK
<1>6. QED
  BY <1>1, <1>2, <1>4, <1>5, StillKeeps

(* Attempts stay within reach and no alert is raised early: an execution   *)
(* spends an attempt only with a claim it read a free attempt for.         *)
THEOREM AlertsAreLate == InboxSpec => [](InboxTypeOK /\ TriesWithinReach)
<1>1. InboxInit => TriesInv
  <2> SUFFICES ASSUME InboxInit PROVE TriesInv
    OBVIOUS
  <2> DEFINE row == [stored |-> FALSE, processed |-> FALSE, attempts |-> 0, lease |-> Unclaimed, due |-> 0]
  <2>1. Resting.queue = <<>> /\ Resting.pc = "idle" /\ Resting.start = 0 /\ Len(<<>>) = 0
    BY DEF Resting
  <2>2. Resting \in [pc : {"idle", "batch", "working", "handled"}, start : 0..Horizon, queue : Seq(Candidate)]
    BY InboxConstants DEF Resting
  <2>3. row \in Notice /\ row.attempts = 0
    BY InboxConstants DEF Notice
  <2>4. inbox = [n \in Notices |-> row] /\ execution = [x \in Executions |-> Resting] /\ tick = 0 /\ spent = {}
    BY DEF InboxInit
  <2> HIDE DEF row
  <2>5. InboxTypeOK
    BY <2>2, <2>3, <2>4, InboxConstants DEF InboxTypeOK
  <2>6. ASSUME NEW x \in Executions PROVE HeldWell(inbox, execution[x])
    BY <2>1, <2>4 DEF HeldWell
  <2>7. ASSUME NEW n \in Notices PROVE inbox[n].attempts + Cardinality(Claimants(execution, n)) <= Reach
    <3>1. Claimants(execution, n) = {}
      BY <2>1, <2>4 DEF Claimants, ToClaim
    <3>2. inbox[n].attempts = 0 /\ Cardinality({}) = 0
      BY <2>3, <2>4, FS_EmptySet
    <3>3. inbox[n].attempts + Cardinality(Claimants(execution, n)) = 0
      BY <3>1, <3>2
    <3>4. QED
      BY <3>3, InboxConstants
  <2>8. QED
    BY <2>4, <2>5, <2>6, <2>7 DEF TriesInv
<1>2. TriesInv /\ [InboxNext]_inboxVars => TriesInv'
  <2> SUFFICES ASSUME TriesInv, [InboxNext]_inboxVars PROVE TriesInv'
    OBVIOUS
  <2>1. CASE UNCHANGED inboxVars
    <3>1. tick' = tick /\ inbox' = inbox /\ execution' = execution /\ spent' = spent
      BY <2>1 DEF inboxVars
    <3>2. QED
      BY <3>1 DEF TriesInv, InboxTypeOK
  <2>2. CASE InboxTick
    BY <2>2, TickKeeps
  <2>3. ASSUME NEW n \in Notices, Enqueue(n) PROVE TriesInv'
    BY <2>3, EnqueueKeeps
  <2>4. ASSUME NEW x \in Executions, SelectNotices(x) PROVE TriesInv'
    BY <2>4, SelectKeeps
  <2>5. ASSUME NEW x \in Executions, ClaimNotice(x) PROVE TriesInv'
    BY <2>5, ClaimKeeps
  <2>6. ASSUME NEW x \in Executions, HandleNotice(x) PROVE TriesInv'
    BY <2>6, HandleKeeps
  <2>7. ASSUME NEW x \in Executions, MarkNotice(x) PROVE TriesInv'
    BY <2>7, MarkKeeps
  <2>8. ASSUME NEW x \in Executions, FailNotice(x) PROVE TriesInv'
    BY <2>8, FailKeeps
  <2>9. ASSUME NEW x \in Executions, KillExecution(x) PROVE TriesInv'
    BY <2>9, KillKeeps
  <2>10. QED
    BY <2>1, <2>2, <2>3, <2>4, <2>5, <2>6, <2>7, <2>8, <2>9 DEF InboxNext
<1>3. TriesInv => InboxTypeOK /\ TriesWithinReach
  <2> SUFFICES ASSUME TriesInv PROVE TriesWithinReach
    BY DEF TriesInv
  <2>1. ASSUME NEW n \in Notices PROVE inbox[n].attempts <= MaxTries + Cardinality(Executions) - 1
    <3>1. Claimants(execution, n) \in SUBSET Executions
      BY DEF Claimants
    <3>2. Cardinality(Claimants(execution, n)) \in Nat
      BY <3>1, InboxConstants, FS_Subset, FS_CardinalityType
    <3>3. inbox[n].attempts \in Nat /\ inbox[n].attempts + Cardinality(Claimants(execution, n)) <= Reach
      BY DEF TriesInv, InboxTypeOK, Notice
    <3>4. QED
      BY <3>2, <3>3, InboxConstants DEF Reach
  <2>2. QED
    BY <2>1 DEF TriesWithinReach, TriesInv
<1>4. QED
  BY <1>1, <1>2, <1>3, PTL DEF InboxSpec

-----------------------------------------------------------------------------
(* Push notifications.                                                     *)

Busy(w) == sender[w].pc # "idle"
AtWork(e) == e.pc \in {"locked", "sending", "sent"}
Told(d) == d.status \in {"PENDING", "PROCESSING", "SENT"}

(* What is locked is open, and a topic that was not projected is untouched. *)
DeliveryFine(t, d, copies, done) ==
  /\ d.lock # 0 => d.status \in {"PENDING", "PROCESSING"} /\ d.tries > 0
  /\ t \notin done => d = Absent /\ copies = 0

(* A sender works on what was projected, with a token of its own.          *)
SendersFine ==
  /\ \A w \in Senders : Busy(w) => sender[w].topic \in projected /\ sender[w].token \in 1..tokens.drawn
  /\ \A w, x \in Senders : Busy(w) /\ Busy(x) /\ sender[w].token = sender[x].token => w = x

(* Who can still show a topic: senders that have not, and one more if the  *)
(* delivery can be claimed with no lease to run out.                       *)
CanShow(e, t) == e.topic = t /\ e.pc \in {"claimed", "locked", "sending"}
Showing(held, t) == {w \in Senders : CanShow(held[w], t)}
Spare(d) == IF d.status \in {"PENDING", "PROCESSING"} /\ d.lock = 0 THEN 1 ELSE 0

CopiesFine == \A t \in Topics :
  heard.copies[t] + Cardinality(Showing(sender, t)) + Spare(delivery[t]) <= 1 + heard.excused[t]

(* As long as no lock was taken from an execution at work, who works on a  *)
(* status holds the association, and what it decided to send is newer than *)
(* all that was shown and counts.                                          *)
OrderFine ==
  /\ heard.last # 0 => <<"order", heard.last>> \in projected
  /\ ~heard.overtaken =>
       /\ ~heard.back
       /\ \A w \in Senders : AtWork(sender[w]) /\ sender[w].topic[1] = "order" =>
            assoc["order"].lock = sender[w].token
       /\ \A w \in Senders :
            sender[w].pc = "sending" /\ sender[w].topic[1] = "order" /\ sender[w].topic[2] < heard.last =>
              ~Told(delivery[<<"order", heard.last>>])

PushInv ==
  /\ PushTypeOK
  /\ \A t \in Topics : DeliveryFine(t, delivery[t], heard.copies[t], projected)
  /\ SendersFine /\ CopiesFine /\ OrderFine

(* Topics are pairs of a kind and a version.                               *)
LEMMA TopicPairs ==
  /\ \A t \in Topics : /\ t = <<t[1], t[2]>> /\ t[1] \in Kinds /\ t[2] \in Nat
                       /\ t # <<>>
  /\ MaxSends \in Nat \ {0} /\ IsFiniteSet(Senders)
<1>1. OrderVersions \subseteq Nat
  <2>1. ASSUME NEW plan \in Plans PROVE DOMAIN plan.path \subseteq Nat
    <3>1. plan.path \in Seq(OrderStatuses)
      BY PushAssumption
    <3>2. QED
      BY <3>1, LenProperties
  <2>2. QED
    BY <2>1 DEF OrderVersions
<1>2. ASSUME NEW t \in Topics
      PROVE  t = <<t[1], t[2]>> /\ t[1] \in Kinds /\ t[2] \in Nat /\ t # <<>>
  <2>1. CASE t = <<"store", 1>>
    BY <2>1 DEF Kinds
  <2>2. CASE t \in {"order", "WARNING", "CRITICAL"} \X OrderVersions
    <3>1. PICK kind \in {"order", "WARNING", "CRITICAL"}, v \in OrderVersions : t = <<kind, v>>
      BY <2>2
    <3>2. v \in Nat
      BY <1>1
    <3>3. <<kind, v>> # <<>>
      OBVIOUS
    <3>4. QED
      BY <3>1, <3>2, <3>3 DEF Kinds
  <2>3. QED
    BY <2>1, <2>2 DEF Topics
<1>3. QED
  BY <1>2, PushAssumption

(* What a sender and the rest may do to what can still be shown: nothing   *)
(* is won without an excuse, or it is won by giving something up.          *)
SenderMoved(w, t) ==
  LET old == heard.copies[t] + Spare(delivery[t]) - heard.excused[t]
      new == heard'.copies[t] + Spare(delivery'[t]) - heard'.excused[t]
  IN  \/ new <= old /\ (CanShow(sender'[w], t) => CanShow(sender[w], t))
      \/ new <= old + 1 /\ CanShow(sender[w], t) /\ ~CanShow(sender'[w], t)
      \/ new + 1 <= old
      \/ new <= 1 /\ t \notin projected /\ ~CanShow(sender'[w], t)

(* The copies shown and to be shown stay excused.                          *)
LEMMA CopiesKept ==
  ASSUME PushInv, PushTypeOK', NEW w \in Senders, \A x \in Senders \ {w} : sender'[x] = sender[x],
         NEW t \in Topics, SenderMoved(w, t)
  PROVE  heard'.copies[t] + Cardinality(Showing(sender', t)) + Spare(delivery'[t]) <= 1 + heard'.excused[t]
<1> DEFINE old == Showing(sender, t)
           new == Showing(sender', t)
           c == heard.copies[t]
           d == heard'.copies[t]
           e == heard.excused[t]
           f == heard'.excused[t]
           s == Spare(delivery[t])
           r == Spare(delivery'[t])
<1>1. old \in SUBSET Senders /\ new \in SUBSET Senders
  BY DEF Showing
<1>2. /\ \A x \in Senders \ {w} : x \in new <=> x \in old
      /\ w \in old <=> CanShow(sender[w], t)
      /\ w \in new <=> CanShow(sender'[w], t)
  BY DEF Showing
<1>3. t \notin projected => old = {}
  BY TopicPairs DEF Showing, CanShow, PushInv, SendersFine, Busy
<1>4. /\ c \in Nat /\ d \in Nat /\ e \in Nat /\ f \in Nat
  BY DEF PushInv, PushTypeOK
<1>5. s \in 0..1 /\ r \in 0..1
  BY DEF Spare
<1>6. c + Cardinality(old) + s <= 1 + e
  BY DEF PushInv, CopiesFine
<1>7. \/ d + r - f <= c + s - e /\ (w \in new => w \in old)
      \/ d + r - f <= c + s - e + 1 /\ w \in old /\ w \notin new
      \/ d + r - f + 1 <= c + s - e
      \/ d + r - f <= 1 /\ t \notin projected /\ w \notin new
  BY <1>2 DEF SenderMoved
<1> HIDE DEF old, new, c, d, e, f, s, r
<1>8. /\ IsFiniteSet(old) /\ Cardinality(old) \in Nat
      /\ IsFiniteSet(new) /\ Cardinality(new) \in Nat
  BY <1>1, TopicPairs, FS_Subset, FS_CardinalityType
<1>9. CASE d + r - f <= c + s - e /\ (w \in new => w \in old)
  <2>1. new \subseteq old
    BY <1>1, <1>2, <1>9
  <2>2. Cardinality(new) <= Cardinality(old)
    BY <1>8, <2>1, FS_Subset
  <2>3. d + Cardinality(new) + r <= 1 + f
    BY <1>4, <1>5, <1>6, <1>8, <1>9, <2>2
  <2>4. QED
    BY <2>3 DEF new, d, r, f
<1>10. CASE d + r - f <= c + s - e + 1 /\ w \in old /\ w \notin new
  <2>1. new \subseteq old \ {w}
    BY <1>1, <1>2, <1>10
  <2>2. IsFiniteSet(old \ {w}) /\ Cardinality(old \ {w}) = Cardinality(old) - 1
    BY <1>8, <1>10, FS_RemoveElement
  <2>3. Cardinality(new) <= Cardinality(old) - 1
    BY <2>1, <2>2, FS_Subset
  <2>4. d + Cardinality(new) + r <= 1 + f
    BY <1>4, <1>5, <1>6, <1>8, <1>10, <2>3
  <2>5. QED
    BY <2>4 DEF new, d, r, f
<1>11. CASE d + r - f + 1 <= c + s - e
  <2>1. new \subseteq old \cup {w}
    BY <1>1, <1>2
  <2>2. IsFiniteSet(old \cup {w}) /\ Cardinality(old \cup {w}) <= Cardinality(old) + 1
    <3>1. /\ IsFiniteSet(old \cup {w})
          /\ Cardinality(old \cup {w}) = IF w \in old THEN Cardinality(old) ELSE Cardinality(old) + 1
      BY <1>8, FS_AddElement
    <3>2. QED
      BY <1>8, <3>1
  <2>3. Cardinality(new) <= Cardinality(old) + 1
    <3>1. Cardinality(new) <= Cardinality(old \cup {w}) /\ Cardinality(old \cup {w}) \in Nat
      BY <2>1, <2>2, FS_Subset, FS_CardinalityType
    <3>2. QED
      BY <1>8, <2>2, <3>1
  <2>4. d + Cardinality(new) + r <= 1 + f
    BY <1>4, <1>5, <1>6, <1>8, <1>11, <2>3
  <2>5. QED
    BY <2>4 DEF new, d, r, f
<1>12. CASE d + r - f <= 1 /\ t \notin projected /\ w \notin new
  <2>1. new = {}
    BY <1>1, <1>2, <1>3, <1>12
  <2>2. Cardinality(new) = 0
    BY <2>1, FS_EmptySet
  <2>3. d + Cardinality(new) + r <= 1 + f
    BY <1>4, <1>5, <1>12, <2>2
  <2>4. QED
    BY <2>3 DEF new, d, r, f
<1>13. QED
  BY <1>7, <1>9, <1>10, <1>11, <1>12

OrderWork(e) == AtWork(e) /\ e.topic[1] = "order"

(* What keeps the order of what is shown: nothing that is out comes back,  *)
(* and the association changes hands only when nobody works with it.       *)
LEMMA OrderKept ==
  ASSUME PushInv, PushTypeOK', NEW w, \A x \in Senders \ {w} : sender'[x] = sender[x],
         \A x \in Senders : sender'[x].pc # "idle" => sender'[x].topic \in projected',
         projected \subseteq projected', heard'.last = heard.last, heard'.back = heard.back,
         heard.overtaken => heard'.overtaken,
         \A t \in projected : Told(delivery'[t]) => Told(delivery[t]),
         ~heard'.overtaken =>
           \/ assoc'["order"].lock = assoc["order"].lock
           \/ \A x \in Senders \ {w} : ~OrderWork(sender[x]),
         ~heard'.overtaken /\ w \in Senders /\ OrderWork(sender'[w]) => assoc'["order"].lock = sender'[w].token,
         ~heard'.overtaken /\ w \in Senders /\ sender'[w].pc = "sending" /\ sender'[w].topic[1] = "order"
           /\ sender'[w].topic[2] < heard.last => ~Told(delivery[<<"order", heard.last>>])
  PROVE  OrderFine'
<1>1. ASSUME heard'.last # 0 PROVE <<"order", heard'.last>> \in projected' /\ <<"order", heard.last>> \in projected
  BY <1>1 DEF PushInv, OrderFine
<1>2. ASSUME ~heard'.overtaken PROVE ~heard'.back
  BY <1>2 DEF PushInv, OrderFine
<1>3. ASSUME ~heard'.overtaken, NEW x \in Senders, AtWork(sender'[x]), sender'[x].topic[1] = "order"
      PROVE  assoc'["order"].lock = sender'[x].token
  <2>1. CASE x = w
    BY <1>3, <2>1 DEF OrderWork
  <2>2. CASE x # w
    <3>1. sender'[x] = sender[x] /\ OrderWork(sender[x])
      BY <1>3, <2>2 DEF OrderWork
    <3>2. assoc'["order"].lock = assoc["order"].lock
      BY <1>3, <2>2, <3>1
    <3>3. assoc["order"].lock = sender[x].token
      BY <1>3, <3>1 DEF PushInv, OrderFine
    <3>4. QED
      BY <3>1, <3>2, <3>3
  <2>3. QED
    BY <2>1, <2>2
<1>4. ASSUME ~heard'.overtaken, NEW x \in Senders, sender'[x].pc = "sending", sender'[x].topic[1] = "order",
             sender'[x].topic[2] < heard'.last
      PROVE  ~Told(delivery'[<<"order", heard'.last>>])
  <2>1. ~Told(delivery[<<"order", heard.last>>])
    BY <1>4 DEF PushInv, OrderFine
  <2>2. heard.last # 0
    <3>1. sender'[x].topic \in Topics
      <4>1. sender'[x].topic \in projected'
        BY <1>4
      <4>2. QED
        BY <4>1 DEF PushTypeOK
    <3>2. sender'[x].topic[2] \in Nat
      BY <3>1, TopicPairs
    <3>3. QED
      BY <1>4, <3>2
  <2>3. QED
    BY <1>1, <2>1, <2>2
<1>5. QED
  BY <1>1, <1>2, <1>3, <1>4 DEF OrderFine

(* A step of one sender: the others keep what they hold, and it keeps its  *)
(* token or draws a new one.                                               *)
LEMMA SenderStep ==
  ASSUME PushInv, PushTypeOK', NEW w \in Senders, \A x \in Senders \ {w} : sender'[x] = sender[x],
         projected \subseteq projected', tokens.drawn <= tokens'.drawn,
         \A t \in Topics : DeliveryFine(t, delivery'[t], heard'.copies[t], projected'),
         \A t \in Topics : SenderMoved(w, t),
         sender'[w].pc # "idle" =>
           /\ sender'[w].topic \in projected' /\ sender'[w].token \in 1..tokens'.drawn
           /\ sender'[w].token > tokens.drawn \/ (Busy(w) /\ sender'[w].token = sender[w].token),
         OrderFine'
  PROVE  PushInv'
<1>1. tokens.drawn \in Nat /\ tokens'.drawn \in Nat
  BY DEF PushInv, PushTypeOK
<1>2. ASSUME NEW x \in Senders, sender'[x].pc # "idle"
      PROVE  sender'[x].topic \in projected' /\ sender'[x].token \in 1..tokens'.drawn
  <2>1. CASE x = w
    BY <1>2, <2>1
  <2>2. CASE x # w
    <3>1. sender'[x] = sender[x] /\ Busy(x)
      BY <1>2, <2>2 DEF Busy
    <3>2. sender[x].topic \in projected /\ sender[x].token \in 1..tokens.drawn
      BY <3>1 DEF PushInv, SendersFine
    <3>3. QED
      BY <1>1, <3>1, <3>2
  <2>3. QED
    BY <2>1, <2>2
<1>3. ASSUME NEW x \in Senders, NEW y \in Senders, sender'[x].pc # "idle", sender'[y].pc # "idle",
             sender'[x].token = sender'[y].token
      PROVE  x = y
  <2>1. ASSUME NEW z \in Senders \ {w}, sender'[z].pc # "idle"
        PROVE  Busy(z) /\ sender'[z] = sender[z] /\ sender[z].token \in 1..tokens.drawn
    BY <2>1 DEF PushInv, SendersFine, Busy
  <2>2. ASSUME NEW z \in Senders \ {w}, sender'[z].pc # "idle", sender'[w].pc # "idle",
               sender'[z].token = sender'[w].token
        PROVE  FALSE
    <3>1. Busy(w) /\ sender'[w].token = sender[w].token
      BY <1>1, <2>1, <2>2
    <3>2. QED
      BY <2>1, <2>2, <3>1 DEF PushInv, SendersFine
  <2>3. CASE x # w /\ y # w
    BY <1>3, <2>1, <2>3 DEF PushInv, SendersFine
  <2>4. QED
    BY <1>3, <2>2, <2>3
<1>4. SendersFine'
  BY <1>2, <1>3 DEF SendersFine, Busy
<1>5. CopiesFine'
  <2>1. \A t \in Topics :
          heard'.copies[t] + Cardinality(Showing(sender', t)) + Spare(delivery'[t]) <= 1 + heard'.excused[t]
    BY CopiesKept
  <2>2. QED
    BY <2>1 DEF CopiesFine
<1>6. QED
  BY <1>4, <1>5 DEF PushInv

(* A step of nobody's sending.                                             *)
LEMMA StillStep ==
  ASSUME PushInv, PushTypeOK', sender' = sender, tokens'.drawn = tokens.drawn, projected \subseteq projected',
         \A t \in Topics :
           /\ DeliveryFine(t, delivery'[t], heard'.copies[t], projected')
           /\ heard'.copies[t] = heard.copies[t] /\ heard'.excused[t] = heard.excused[t]
           /\ Spare(delivery'[t]) <= Spare(delivery[t]) \/ t \notin projected,
         heard'.last = heard.last, heard'.back = heard.back, heard.overtaken => heard'.overtaken,
         \A t \in projected : Told(delivery'[t]) => Told(delivery[t]),
         ~heard'.overtaken =>
           \/ assoc'["order"].lock = assoc["order"].lock
           \/ \A x \in Senders : ~OrderWork(sender[x])
  PROVE  PushInv'
<1>1. \A x \in Senders : sender'[x].pc # "idle" => sender'[x].topic \in projected'
  BY DEF PushInv, SendersFine, Busy
<1>2. OrderFine'
  <2>1. PICK w : w \notin Senders
    <3>1. {x \in Senders : x \notin x} \notin Senders
      OBVIOUS
    <3>2. QED
      BY <3>1, Zenon
  <2>2. QED
    BY <1>1, <2>1, OrderKept
<1>3. SendersFine'
  BY DEF PushInv, SendersFine, Busy
<1>4. ASSUME NEW t \in Topics
      PROVE  heard'.copies[t] + Cardinality(Showing(sender', t)) + Spare(delivery'[t]) <= 1 + heard'.excused[t]
  <2>1. Spare(delivery'[t]) \in 0..1 /\ Spare(delivery[t]) \in 0..1
    BY DEF Spare
  <2>2. /\ heard.copies[t] \in Nat /\ heard.excused[t] \in Nat
        /\ heard'.copies[t] = heard.copies[t] /\ heard'.excused[t] = heard.excused[t]
    BY DEF PushInv, PushTypeOK
  <2>3. Showing(sender', t) = Showing(sender, t) /\ Cardinality(Showing(sender, t)) \in Nat
    <3>1. Showing(sender, t) \subseteq Senders
      BY DEF Showing
    <3>2. QED
      BY <3>1, TopicPairs, FS_Subset, FS_CardinalityType
  <2>4. heard.copies[t] + Cardinality(Showing(sender, t)) + Spare(delivery[t]) <= 1 + heard.excused[t]
    BY DEF PushInv, CopiesFine
  <2>5. CASE Spare(delivery'[t]) <= Spare(delivery[t])
    <3>1. QED
      BY <2>1, <2>2, <2>3, <2>4, <2>5
  <2>6. CASE t \notin projected
    <3>1. Showing(sender, t) = {} /\ heard.copies[t] = 0
      BY <2>6, TopicPairs DEF Showing, CanShow, PushInv, SendersFine, Busy, DeliveryFine
    <3>2. Cardinality(Showing(sender, t)) = 0
      BY <3>1, FS_EmptySet
    <3>3. QED
      BY <2>1, <2>2, <2>3, <3>1, <3>2
  <2>7. QED
    BY <2>5, <2>6
<1>5. QED
  BY <1>2, <1>3, <1>4 DEF PushInv, CopiesFine

(* Whoever works on a status is seen to lose the association.              *)
LEMMA WorkIsSeen ==
  ASSUME PushInv, ~heard.overtaken, NEW x \in Senders, OrderWork(sender[x])
  PROVE  Drops(assoc["order"].lock)
  BY DEF PushInv, OrderFine, OrderWork, AtWork, Drops

(* The association changes hands unseen only when nobody works with it.    *)
LEMMA UnseenHands ==
  ASSUME PushInv, heard.overtaken => heard'.overtaken,
         \/ assoc'["order"].lock = assoc["order"].lock
         \/ Drops(assoc["order"].lock) => heard'.overtaken
  PROVE  ~heard'.overtaken =>
           \/ assoc'["order"].lock = assoc["order"].lock
           \/ \A x \in Senders : ~OrderWork(sender[x])
<1>1. ASSUME ~heard'.overtaken, NEW x \in Senders, OrderWork(sender[x]), ~Drops(assoc["order"].lock)
      PROVE  FALSE
  BY <1>1, WorkIsSeen
<1>2. QED
  BY <1>1

(* The order goes on and waits, alerts are found due and leases run out.   *)
LEMMA QuietKeeps ==
  ASSUME PushInv, OrderMoves \/ OrderWaits \/ FindDue \/ LeaseLapses
  PROVE  PushInv'
<1>1. /\ sender' = sender /\ delivery' = delivery /\ heard' = heard /\ assoc' = assoc /\ projected' = projected
      /\ revoked' = revoked /\ closed' = closed /\ mishaps' = mishaps
  BY DEF OrderMoves, OrderWaits, FindDue, LeaseLapses
<1>2. /\ order' \in [plan : Plans, version : Nat] /\ order'.version \in DOMAIN order'.plan.path
      /\ order'.plan = order.plan
  <2>1. order \in [plan : Plans, version : Nat] /\ order.version \in DOMAIN order.plan.path
    BY DEF PushInv, PushTypeOK
  <2>2. CASE OrderMoves
    <3>1. order.plan.path \in Seq(OrderStatuses)
      BY <2>1, PushAssumption
    <3>2. DOMAIN order.plan.path = 1..Len(order.plan.path) /\ Len(order.plan.path) \in Nat
      BY <3>1, LenProperties
    <3>3. order' = [order EXCEPT !.version = @ + 1] /\ order.version < Len(order.plan.path)
      BY <2>2 DEF OrderMoves
    <3>4. QED
      BY <2>1, <3>2, <3>3
  <2>3. CASE OrderWaits \/ FindDue \/ LeaseLapses
    BY <2>1, <2>3 DEF OrderWaits, FindDue, LeaseLapses
  <2>4. QED
    BY <2>2, <2>3
<1>3. waited' \in 0..2
  <2>1. waited \in 0..2
    BY DEF PushInv, PushTypeOK
  <2>2. QED
    BY <2>1 DEF OrderMoves, OrderWaits, FindDue, LeaseLapses
<1>4. found' \subseteq Topics
  <2>1. found \subseteq Topics
    BY DEF PushInv, PushTypeOK
  <2>2. CASE FindDue
    <3>1. Stage \in {"WARNING", "CRITICAL"}
      BY DEF Stage
    <3>2. order.version \in OrderVersions
      BY DEF PushInv, PushTypeOK, OrderVersions
    <3>3. <<Stage, order.version>> \in Topics
      BY <3>1, <3>2 DEF Topics
    <3>4. QED
      BY <2>1, <2>2, <3>3 DEF FindDue
  <2>3. QED
    BY <2>1, <2>2 DEF OrderMoves, OrderWaits, LeaseLapses
<1>5. tokens' \in [drawn : Nat, lapsed : SUBSET Nat] /\ 0 \notin tokens'.lapsed /\ tokens'.drawn = tokens.drawn
  <2>1. tokens \in [drawn : Nat, lapsed : SUBSET Nat] /\ 0 \notin tokens.lapsed
    BY DEF PushInv, PushTypeOK
  <2>2. CASE LeaseLapses
    <3>1. PICK token \in ({assoc[g].lock : g \in Groups} \cup {delivery[t].lock : t \in Topics})
                            \ (tokens.lapsed \cup {0}) :
            tokens' = [tokens EXCEPT !.lapsed = @ \cup {token}]
      BY <2>2 DEF LeaseLapses
    <3>2. token \in Nat /\ token # 0
      BY <3>1 DEF PushInv, PushTypeOK, Delivery
    <3>3. QED
      BY <2>1, <3>1, <3>2
  <2>3. QED
    BY <2>1, <2>2 DEF OrderMoves, OrderWaits, FindDue
<1>6. PushTypeOK'
  BY <1>1, <1>2, <1>3, <1>4, <1>5 DEF PushInv, PushTypeOK
<1>7. \A t \in Topics :
        /\ DeliveryFine(t, delivery'[t], heard'.copies[t], projected')
        /\ Spare(delivery'[t]) <= Spare(delivery[t])
  BY <1>1 DEF PushInv, Spare
<1>8. QED
  BY <1>1, <1>5, <1>6, <1>7, StillStep

(* The device's users allow notifications, and withdraw that.              *)
LEMMA PermissionKeeps ==
  ASSUME PushInv, NEW g \in Audience, EnablePush(g) \/ DisablePush(g)
  PROVE  PushInv'
<1>1. g \in Groups
  BY DEF Audience, Group, Groups
<1>2. /\ sender' = sender /\ delivery' = delivery /\ projected' = projected /\ order' = order
      /\ waited' = waited /\ found' = found /\ tokens' = tokens /\ closed' = closed /\ revoked' \in BOOLEAN
  BY DEF EnablePush, DisablePush, PushInv, PushTypeOK
<1>3. /\ heard'.last = heard.last /\ heard'.back = heard.back /\ (heard.overtaken => heard'.overtaken)
      /\ heard'.copies = heard.copies /\ heard'.excused = heard.excused
      /\ heard' \in [last : Nat, back : BOOLEAN, overtaken : BOOLEAN, copies : [Topics -> Nat],
                     excused : [Topics -> Nat]]
      /\ assoc' \in [Groups -> [on : BOOLEAN, since : Nat, lock : Nat]]
      /\ \/ assoc'["order"].lock = assoc["order"].lock
         \/ Drops(assoc["order"].lock) => heard'.overtaken
  <2>1. /\ heard \in [last : Nat, back : BOOLEAN, overtaken : BOOLEAN, copies : [Topics -> Nat],
                      excused : [Topics -> Nat]]
        /\ assoc \in [Groups -> [on : BOOLEAN, since : Nat, lock : Nat]] /\ order.version \in Nat
    BY DEF PushInv, PushTypeOK
  <2>2. CASE EnablePush(g)
    <3> DEFINE lock == IF g = "staff" THEN 0 ELSE assoc[g].lock
               row == [on |-> TRUE, since |-> order.version, lock |-> lock]
    <3>1. assoc' = [assoc EXCEPT ![g] = row] /\ heard' = heard
      BY <2>2 DEF EnablePush
    <3>2. lock \in Nat /\ (g = "order" => lock = assoc["order"].lock)
      BY <1>1, <2>1
    <3> HIDE DEF lock
    <3>3. row \in [on : BOOLEAN, since : Nat, lock : Nat] /\ row.lock = lock
      BY <2>1, <3>2
    <3> HIDE DEF row
    <3>4. QED
      BY <1>1, <2>1, <3>1, <3>2, <3>3 DEF Groups
  <2>3. CASE DisablePush(g)
    <3> DEFINE seen == g = "order" /\ Drops(assoc[g].lock)
               one == [assoc EXCEPT ![g].on = FALSE]
               two == [one EXCEPT ![g].lock = 0]
    <3>1. seen \in BOOLEAN /\ (g = "order" => (seen <=> Drops(assoc["order"].lock)))
      BY DEF Drops
    <3>2. heard' = [heard EXCEPT !.overtaken = @ \/ seen]
      BY <2>3 DEF DisablePush
    <3> HIDE DEF seen
    <3>3. heard' = [heard EXCEPT !.overtaken = heard.overtaken \/ seen] /\ (heard.overtaken \/ seen) \in BOOLEAN
      BY <2>1, <3>1, <3>2
    <3>4. /\ heard'.last = heard.last /\ heard'.back = heard.back /\ (heard.overtaken => heard'.overtaken)
          /\ heard'.copies = heard.copies /\ heard'.excused = heard.excused
          /\ heard' \in [last : Nat, back : BOOLEAN, overtaken : BOOLEAN, copies : [Topics -> Nat],
                         excused : [Topics -> Nat]]
          /\ seen => heard'.overtaken
      BY <2>1, <3>3
    <3>5. assoc' = two
      BY <2>3, Zenon DEF DisablePush
    <3>6. one \in [Groups -> [on : BOOLEAN, since : Nat, lock : Nat]]
      BY <1>1, <2>1
    <3>7. \A h \in Groups : h # g => one[h] = assoc[h]
      BY <2>1
    <3> HIDE DEF one
    <3>8. two \in [Groups -> [on : BOOLEAN, since : Nat, lock : Nat]]
      BY <1>1, <3>6
    <3>9. \A h \in Groups : h # g => two[h] = assoc[h]
      BY <3>6, <3>7
    <3> HIDE DEF two
    <3>10. assoc'["order"].lock = assoc["order"].lock \/ g = "order"
      BY <3>5, <3>9 DEF Groups
    <3>11. QED
      BY <3>1, <3>4, <3>5, <3>8, <3>10
  <2>4. QED
    BY <2>2, <2>3
<1>4. PushTypeOK'
  BY <1>2, <1>3 DEF PushInv, PushTypeOK
<1>5. \A t \in Topics :
        /\ DeliveryFine(t, delivery'[t], heard'.copies[t], projected')
        /\ heard'.copies[t] = heard.copies[t] /\ heard'.excused[t] = heard.excused[t]
        /\ Spare(delivery'[t]) <= Spare(delivery[t]) \/ t \notin projected
  BY <1>2, <1>3 DEF PushInv, Spare
<1>6. ~heard'.overtaken =>
        \/ assoc'["order"].lock = assoc["order"].lock
        \/ \A x \in Senders : ~OrderWork(sender[x])
  BY <1>3, UnseenHands
<1>7. /\ \A t \in projected : Told(delivery'[t]) => Told(delivery[t])
      /\ tokens'.drawn = tokens.drawn /\ projected \subseteq projected'
  BY <1>2
<1>8. QED
  BY <1>2, <1>3, <1>4, <1>5, <1>6, <1>7, StillStep

(* A delivery that is closed, or closed now, asks for nothing more.        *)
Closes(t) == delivery'[t] = delivery[t] \/ (delivery'[t].lock = 0 /\ ~Told(delivery'[t]) /\ t \in projected)

(* What follows from a delivery that stays or closes.                      *)
LEMMA ClosedIsFine ==
  ASSUME PushInv, NEW t \in Topics, Closes(t), heard'.copies[t] = heard.copies[t],
         projected \subseteq projected'
  PROVE  /\ DeliveryFine(t, delivery'[t], heard'.copies[t], projected')
         /\ Spare(delivery'[t]) <= Spare(delivery[t])
         /\ Told(delivery'[t]) => Told(delivery[t])
<1>1. CASE delivery'[t] = delivery[t]
  BY <1>1 DEF PushInv, DeliveryFine, Spare
<1>2. CASE delivery'[t].lock = 0 /\ ~Told(delivery'[t]) /\ t \in projected
  BY <1>2 DEF PushInv, DeliveryFine, Spare, Told
<1>3. QED
  BY <1>1, <1>2 DEF Closes

(* An open delivery is of something projected.                             *)
LEMMA OpenIsProjected ==
  ASSUME PushInv, NEW t \in Topics, Open(t)
  PROVE  t \in projected
  BY DEF PushInv, DeliveryFine, Open, Absent

(* What revoking a device does.                                            *)
LEMMA RevocationDoes ==
  ASSUME PushInv, Revocation
  PROVE  /\ heard'.last = heard.last /\ heard'.back = heard.back /\ (heard.overtaken => heard'.overtaken)
         /\ heard'.copies = heard.copies /\ heard'.excused = heard.excused
         /\ heard' \in [last : Nat, back : BOOLEAN, overtaken : BOOLEAN, copies : [Topics -> Nat],
                        excused : [Topics -> Nat]]
         /\ assoc' \in [Groups -> [on : BOOLEAN, since : Nat, lock : Nat]] /\ revoked' \in BOOLEAN
         /\ \/ assoc'["order"].lock = assoc["order"].lock
            \/ Drops(assoc["order"].lock) => heard'.overtaken
         /\ delivery' \in [Topics -> Delivery] /\ \A t \in Topics : Closes(t)
<1>1. /\ heard \in [last : Nat, back : BOOLEAN, overtaken : BOOLEAN, copies : [Topics -> Nat],
                    excused : [Topics -> Nat]]
      /\ assoc \in [Groups -> [on : BOOLEAN, since : Nat, lock : Nat]] /\ delivery \in [Topics -> Delivery]
  BY DEF PushInv, PushTypeOK
<1> DEFINE seen == assoc["order"].on /\ Drops(assoc["order"].lock)
           off(g) == [[assoc[g] EXCEPT !.on = FALSE] EXCEPT !.lock = 0]
           shut(t) == [[delivery[t] EXCEPT !.status = "REVOKED"] EXCEPT !.lock = 0]
<1>2. seen \in BOOLEAN
  BY <1>1 DEF Drops, Groups
<1>3. heard' = [heard EXCEPT !.overtaken = @ \/ seen]
  BY DEF Revocation
<1>4. assoc' = [g \in Groups |-> IF assoc[g].on THEN off(g) ELSE assoc[g]]
  BY Zenon DEF Revocation
<1>5. delivery' = [t \in Topics |-> IF Open(t) THEN shut(t) ELSE delivery[t]]
  BY Zenon DEF Revocation
<1>6. \A g \in Groups : off(g) \in [on : BOOLEAN, since : Nat, lock : Nat]
  BY <1>1
<1>7. \A t \in Topics : shut(t) \in Delivery /\ shut(t).lock = 0 /\ shut(t).status = "REVOKED"
  <2>1. ASSUME NEW t \in Topics PROVE shut(t) \in Delivery /\ shut(t).lock = 0 /\ shut(t).status = "REVOKED"
    <3>1. delivery[t] \in Delivery
      BY <1>1
    <3> DEFINE one == [delivery[t] EXCEPT !.status = "REVOKED"]
    <3>2. one \in Delivery /\ one.status = "REVOKED"
      BY <3>1 DEF Delivery
    <3>3. shut(t) = [one EXCEPT !.lock = 0]
      OBVIOUS
    <3> HIDE DEF one
    <3>4. [one EXCEPT !.lock = 0] \in Delivery /\ [one EXCEPT !.lock = 0].lock = 0
          /\ [one EXCEPT !.lock = 0].status = "REVOKED"
      BY <3>2 DEF Delivery
    <3> HIDE DEF shut
    <3>5. QED
      BY <3>3, <3>4
  <2>2. QED
    BY <2>1
<1> HIDE DEF off, shut
<1>8. /\ assoc' \in [Groups -> [on : BOOLEAN, since : Nat, lock : Nat]]
      /\ assoc'["order"].lock = assoc["order"].lock \/ assoc["order"].on
  BY <1>1, <1>4, <1>6 DEF Groups
<1>9. delivery' \in [Topics -> Delivery]
  BY <1>1, <1>5, <1>7
<1>10. \A t \in Topics : Closes(t)
  <2>1. ASSUME NEW t \in Topics PROVE Closes(t)
    <3>1. CASE Open(t)
      <4>1. delivery'[t] = shut(t)
        BY <1>5, <3>1
      <4>2. QED
        BY <1>7, <3>1, <4>1, OpenIsProjected DEF Closes, Told
    <3>2. CASE ~Open(t)
      <4>1. delivery'[t] = delivery[t]
        BY <1>5, <3>2
      <4>2. QED
        BY <4>1 DEF Closes
    <3>3. QED
      BY <3>1, <3>2
  <2>2. QED
    BY <2>1
<1>11. /\ heard'.last = heard.last /\ heard'.back = heard.back /\ (heard.overtaken => heard'.overtaken)
       /\ heard'.copies = heard.copies /\ heard'.excused = heard.excused
       /\ heard' \in [last : Nat, back : BOOLEAN, overtaken : BOOLEAN, copies : [Topics -> Nat],
                      excused : [Topics -> Nat]]
       /\ (seen => heard'.overtaken)
  <2> HIDE DEF seen
  <2>1. heard' = [heard EXCEPT !.overtaken = heard.overtaken \/ seen] /\ (heard.overtaken \/ seen) \in BOOLEAN
    BY <1>1, <1>2, <1>3
  <2>2. QED
    BY <1>1, <2>1
<1>12. revoked' \in BOOLEAN
  BY DEF Revocation
<1>13. QED
  BY <1>8, <1>9, <1>10, <1>11, <1>12

(* The device is gone.                                                     *)
LEMMA ExpiryKeeps ==
  ASSUME PushInv, DeviceExpires
  PROVE  PushInv'
<1>1. /\ sender' = sender /\ projected' = projected /\ order' = order /\ waited' = waited
      /\ found' = found /\ tokens' = tokens /\ closed' = closed /\ Revocation
  BY DEF DeviceExpires
<1>2. PushTypeOK'
  BY <1>1, RevocationDoes DEF PushInv, PushTypeOK
<1>3. \A t \in Topics :
        /\ DeliveryFine(t, delivery'[t], heard'.copies[t], projected')
        /\ heard'.copies[t] = heard.copies[t] /\ heard'.excused[t] = heard.excused[t]
        /\ Spare(delivery'[t]) <= Spare(delivery[t]) \/ t \notin projected
        /\ Told(delivery'[t]) => Told(delivery[t])
  BY <1>1, RevocationDoes, ClosedIsFine
<1>4. projected \subseteq Topics /\ tokens'.drawn = tokens.drawn /\ projected \subseteq projected'
  BY <1>1 DEF PushInv, PushTypeOK
<1>5. \A t \in projected : Told(delivery'[t]) => Told(delivery[t])
  BY <1>3, <1>4
<1>6. ~heard'.overtaken =>
        \/ assoc'["order"].lock = assoc["order"].lock
        \/ \A x \in Senders : ~OrderWork(sender[x])
  BY <1>1, RevocationDoes, UnseenHands
<1>7. QED
  BY <1>1, <1>2, <1>3, <1>4, <1>5, <1>6, RevocationDoes, StillStep

(* Alerts are resolved, with what is still to be sent of them.             *)
LEMMA ResolutionKeeps ==
  ASSUME PushInv, ResolveAlerts
  PROVE  PushInv'
<1> DEFINE stale == {t \in projected \ closed : t[1] \in Reminders /\ ~Waiting(t[2])}
           shut(t) == [[delivery[t] EXCEPT !.status = "SKIPPED"] EXCEPT !.lock = 0]
<1>1. /\ sender' = sender /\ projected' = projected /\ order' = order /\ waited' = waited /\ heard' = heard
      /\ found' = found /\ tokens' = tokens /\ closed' = closed \cup stale /\ assoc' = assoc
      /\ revoked' = revoked
  BY DEF ResolveAlerts
<1>2. delivery' = [t \in Topics |-> IF t \in stale /\ Open(t) THEN shut(t) ELSE delivery[t]]
  BY Zenon DEF ResolveAlerts
<1>3. delivery \in [Topics -> Delivery] /\ projected \subseteq Topics
  BY DEF PushInv, PushTypeOK
<1>4. ASSUME NEW t \in Topics PROVE shut(t) \in Delivery /\ shut(t).lock = 0 /\ shut(t).status = "SKIPPED"
  <2>1. delivery[t] \in Delivery
    BY <1>3
  <2> DEFINE one == [delivery[t] EXCEPT !.status = "SKIPPED"]
  <2>2. one \in Delivery /\ one.status = "SKIPPED"
    BY <2>1 DEF Delivery
  <2>3. shut(t) = [one EXCEPT !.lock = 0]
    OBVIOUS
  <2> HIDE DEF one
  <2>4. /\ [one EXCEPT !.lock = 0] \in Delivery /\ [one EXCEPT !.lock = 0].lock = 0
        /\ [one EXCEPT !.lock = 0].status = "SKIPPED"
    BY <2>2 DEF Delivery
  <2> HIDE DEF shut
  <2>5. QED
    BY <2>3, <2>4
<1>5. stale \subseteq projected
  OBVIOUS
<1> HIDE DEF shut, stale
<1>6. delivery' \in [Topics -> Delivery]
  BY <1>2, <1>3, <1>4
<1>7. PushTypeOK'
  BY <1>1, <1>5, <1>6 DEF PushInv, PushTypeOK
<1>8. ASSUME NEW t \in Topics PROVE Closes(t)
  <2>1. CASE t \in stale /\ Open(t)
    <3>1. delivery'[t] = shut(t)
      BY <1>2, <2>1
    <3>2. QED
      BY <1>4, <1>5, <2>1, <3>1 DEF Closes, Told
  <2>2. CASE ~(t \in stale /\ Open(t))
    <3>1. delivery'[t] = delivery[t]
      BY <1>2, <2>2
    <3>2. QED
      BY <3>1 DEF Closes
  <2>3. QED
    BY <2>1, <2>2
<1>9. \A t \in Topics :
        /\ DeliveryFine(t, delivery'[t], heard'.copies[t], projected')
        /\ heard'.copies[t] = heard.copies[t] /\ heard'.excused[t] = heard.excused[t]
        /\ Spare(delivery'[t]) <= Spare(delivery[t]) \/ t \notin projected
        /\ Told(delivery'[t]) => Told(delivery[t])
  BY <1>1, <1>8, ClosedIsFine
<1>10. /\ tokens'.drawn = tokens.drawn /\ projected \subseteq projected'
       /\ \A t \in projected : Told(delivery'[t]) => Told(delivery[t])
       /\ heard'.last = heard.last /\ heard'.back = heard.back /\ (heard.overtaken => heard'.overtaken)
       /\ assoc'["order"].lock = assoc["order"].lock
  BY <1>1, <1>3, <1>9
<1>11. QED
  BY <1>1, <1>7, <1>9, <1>10, StillStep

(* An event is told, an alert is created.                                  *)
LEMMA ProjectionKeeps ==
  ASSUME PushInv, NEW t \in Topics, ProjectPush(t) \/ CreateAlert(t)
  PROVE  PushInv'
<1>1. /\ sender' = sender /\ order' = order /\ waited' = waited /\ heard' = heard
      /\ found' \subseteq Topics /\ tokens' = tokens /\ closed' = closed /\ assoc' = assoc
      /\ revoked' = revoked /\ projected' = projected \cup {t}
  BY DEF ProjectPush, CreateAlert, Projection, PushInv, PushTypeOK
<1>2. \/ delivery' = delivery
      \/ t \notin projected /\ delivery' = [delivery EXCEPT ![t].status = "PENDING"]
  BY DEF ProjectPush, CreateAlert, Projection
<1>3. delivery \in [Topics -> Delivery] /\ projected \subseteq Topics
  BY DEF PushInv, PushTypeOK
<1>4. delivery' \in [Topics -> Delivery]
  BY <1>2, <1>3 DEF Delivery
<1>5. PushTypeOK'
  BY <1>1, <1>4 DEF PushInv, PushTypeOK
<1>6. ASSUME NEW u \in Topics
      PROVE  /\ DeliveryFine(u, delivery'[u], heard'.copies[u], projected')
             /\ heard'.copies[u] = heard.copies[u] /\ heard'.excused[u] = heard.excused[u]
             /\ Spare(delivery'[u]) <= Spare(delivery[u]) \/ u \notin projected
             /\ u \in projected => (Told(delivery'[u]) => Told(delivery[u]))
  <2>1. DeliveryFine(u, delivery[u], heard.copies[u], projected)
    BY DEF PushInv
  <2>2. CASE delivery'[u] = delivery[u]
    BY <1>1, <2>1, <2>2 DEF DeliveryFine, Spare
  <2>3. CASE u = t /\ t \notin projected /\ delivery'[u] = [delivery[u] EXCEPT !.status = "PENDING"]
    <3>1. delivery[u] = Absent /\ u \in projected' /\ delivery[u] \in Delivery
      BY <1>1, <1>3, <2>1, <2>3 DEF DeliveryFine
    <3>2. delivery'[u].lock = 0
      BY <2>3, <3>1 DEF Absent
    <3>3. QED
      BY <1>1, <2>3, <3>1, <3>2 DEF DeliveryFine
  <2>4. QED
    BY <1>2, <1>3, <2>2, <2>3
<1>7. /\ tokens'.drawn = tokens.drawn /\ projected \subseteq projected'
      /\ \A u \in projected : Told(delivery'[u]) => Told(delivery[u])
      /\ heard'.last = heard.last /\ heard'.back = heard.back /\ (heard.overtaken => heard'.overtaken)
      /\ assoc'["order"].lock = assoc["order"].lock
  BY <1>1, <1>3, <1>6
<1>8. QED
  BY <1>1, <1>5, <1>6, <1>7, StillStep

(* A sender at work, its topic and its token.                              *)
LEMMA BusySender ==
  ASSUME PushInv, NEW w \in Senders, Busy(w)
  PROVE  /\ sender \in [Senders -> Execution] /\ sender[w] \in Execution
         /\ sender[w].topic \in projected /\ sender[w].topic \in Topics
         /\ sender[w].token \in Nat /\ sender[w].token >= 1 /\ sender[w].token <= tokens.drawn
         /\ tokens.drawn \in Nat
<1>1. sender \in [Senders -> Execution] /\ projected \subseteq Topics /\ tokens.drawn \in Nat
  BY DEF PushInv, PushTypeOK
<1>2. sender[w].topic \in projected /\ sender[w].token \in 1..tokens.drawn
  BY DEF PushInv, SendersFine
<1>3. QED
  BY <1>1, <1>2

(* What a sender writes to its delivery, if it still holds it.             *)
LEMMA WrittenDoes ==
  ASSUME PushInv, NEW w \in Senders, Busy(w),
         NEW status \in {"PENDING", "SENT", "SKIPPED", "FAILED"}
  PROVE  /\ Written(w, status) \in [Topics -> Delivery]
         /\ \A t \in Topics \ {sender[w].topic} : Written(w, status)[t] = delivery[t]
         /\ ~Mine(w) => Written(w, status) = delivery
         /\ Mine(w) => /\ Written(w, status)[sender[w].topic].lock = 0
                       /\ Written(w, status)[sender[w].topic].status = status
                       /\ Written(w, status)[sender[w].topic].tries = delivery[sender[w].topic].tries
                       /\ delivery[sender[w].topic].tries > 0
                       /\ Open(sender[w].topic) /\ Spare(delivery[sender[w].topic]) = 0
<1> DEFINE t == sender[w].topic
           one == [delivery EXCEPT ![t].status = status]
           two == [one EXCEPT ![t].lock = 0]
<1>1. t \in Topics /\ sender[w].token # 0 /\ delivery \in [Topics -> Delivery]
  BY BusySender DEF PushInv, PushTypeOK
<1>2. Written(w, status) = IF Mine(w) THEN two ELSE delivery
  BY Zenon DEF Written
<1>3. /\ one \in [Topics -> Delivery] /\ \A u \in Topics : u # t => one[u] = delivery[u]
      /\ one[t].status = status /\ one[t].tries = delivery[t].tries
  BY <1>1 DEF Delivery
<1>4. /\ two \in [Topics -> Delivery] /\ \A u \in Topics : u # t => two[u] = delivery[u]
      /\ two[t].status = status /\ two[t].lock = 0 /\ two[t].tries = delivery[t].tries
  <2> HIDE DEF one
  <2>1. QED
    BY <1>1, <1>3 DEF Delivery
<1>5. ASSUME Mine(w)
      PROVE  delivery[t].tries > 0 /\ Open(t) /\ Spare(delivery[t]) = 0
  <2>1. delivery[t].lock # 0
    BY <1>1, <1>5 DEF Mine
  <2>2. QED
    BY <1>1, <2>1 DEF PushInv, DeliveryFine, Open, Spare
<1> HIDE DEF one, two
<1>6. QED
  BY <1>1, <1>2, <1>4, <1>5

(* A sender lets go of the association only if it is its own.              *)
LEMMA UnlockedDoes ==
  ASSUME PushInv, NEW w \in Senders, Busy(w)
  PROVE  /\ Unlocked(w) \in [Groups -> [on : BOOLEAN, since : Nat, lock : Nat]]
         /\ ~heard.overtaken =>
              \/ Unlocked(w)["order"].lock = assoc["order"].lock
              \/ \A x \in Senders \ {w} : ~OrderWork(sender[x])
<1> DEFINE g == Group(sender[w].topic)
<1>1. assoc \in [Groups -> [on : BOOLEAN, since : Nat, lock : Nat]]
  BY DEF PushInv, PushTypeOK
<1>2. g \in Groups
  BY DEF Group, Groups
<1>3. Unlocked(w) = IF assoc[g].lock = sender[w].token THEN [assoc EXCEPT ![g].lock = 0] ELSE assoc
  BY Zenon DEF Unlocked
<1> HIDE DEF g
<1>4. Unlocked(w) \in [Groups -> [on : BOOLEAN, since : Nat, lock : Nat]]
  BY <1>1, <1>2, <1>3
<1>5. Unlocked(w)["order"].lock = assoc["order"].lock \/ assoc["order"].lock = sender[w].token
  BY <1>1, <1>2, <1>3 DEF Groups
<1>6. ASSUME ~heard.overtaken, assoc["order"].lock = sender[w].token, NEW x \in Senders \ {w},
             OrderWork(sender[x])
      PROVE  FALSE
  <2>1. sender[x].token = sender[w].token /\ Busy(x)
    BY <1>6 DEF PushInv, OrderFine, OrderWork, AtWork, Busy
  <2>2. QED
    BY <1>6, <2>1 DEF PushInv, SendersFine
<1>7. QED
  BY <1>4, <1>5, <1>6

(* A sender takes a delivery.                                              *)
LEMMA TakingKeeps ==
  ASSUME PushInv, NEW w \in Senders, NEW t \in Topics, ClaimDelivery(w, t)
  PROVE  PushInv'
<1> DEFINE token == tokens.drawn + 1
           row == [status |-> "PROCESSING", tries |-> delivery[t].tries + 1, lock |-> token]
           held == [pc |-> "claimed", topic |-> t, token |-> token, tries |-> delivery[t].tries + 1]
           more == IF delivery[t].lock \in tokens.lapsed THEN heard.excused[t] + 1 ELSE heard.excused[t]
<1>1. /\ order' = order /\ waited' = waited /\ assoc' = assoc /\ revoked' = revoked
      /\ projected' = projected /\ closed' = closed /\ found' = found
      /\ Open(t) /\ delivery[t].tries < MaxSends /\ Takeable(delivery[t].lock)
  BY DEF ClaimDelivery, Claimable
<1>2. /\ tokens' = [tokens EXCEPT !.drawn = token] /\ delivery' = [delivery EXCEPT ![t] = row]
      /\ sender' = [sender EXCEPT ![w] = held]
  BY DEF ClaimDelivery
<1>3. heard' = [heard EXCEPT !.excused[t] = more]
  BY DEF ClaimDelivery, Excuse
<1>4. /\ tokens \in [drawn : Nat, lapsed : SUBSET Nat] /\ 0 \notin tokens.lapsed
      /\ delivery \in [Topics -> Delivery] /\ sender \in [Senders -> Execution]
      /\ heard \in [last : Nat, back : BOOLEAN, overtaken : BOOLEAN, copies : [Topics -> Nat],
                    excused : [Topics -> Nat]]
      /\ projected \subseteq Topics /\ MaxSends \in Nat
  BY TopicPairs DEF PushInv, PushTypeOK
<1>5. t \in projected
  BY <1>1, OpenIsProjected
<1>6. delivery[t].tries \in Nat /\ delivery[t].tries + 1 \in 0..MaxSends /\ token \in Nat /\ token # 0
      /\ more \in Nat
  BY <1>1, <1>4 DEF Delivery
<1>7. row \in Delivery /\ held \in Execution
  BY <1>6 DEF Delivery, Execution
<1>8. /\ tokens'.drawn = token /\ tokens'.lapsed = tokens.lapsed
      /\ tokens' \in [drawn : Nat, lapsed : SUBSET Nat]
  BY <1>2, <1>4, <1>6
<1>9. /\ heard'.last = heard.last /\ heard'.back = heard.back /\ heard'.overtaken = heard.overtaken
      /\ heard'.copies = heard.copies /\ heard'.excused = [heard.excused EXCEPT ![t] = more]
      /\ heard' \in [last : Nat, back : BOOLEAN, overtaken : BOOLEAN, copies : [Topics -> Nat],
                     excused : [Topics -> Nat]]
  <2> HIDE DEF more
  <2>1. QED
    BY <1>3, <1>4, <1>6
<1>10. row.status = "PROCESSING" /\ row.lock = token /\ row.tries = delivery[t].tries + 1
  OBVIOUS
<1>11. held.pc = "claimed" /\ held.topic = t /\ held.token = token
  OBVIOUS
<1>12. more = IF delivery[t].lock \in tokens.lapsed THEN heard.excused[t] + 1 ELSE heard.excused[t]
  OBVIOUS
<1>13. token = tokens.drawn + 1
  OBVIOUS
<1> HIDE DEF row, held, more, token
<1>14. PushTypeOK'
  BY <1>1, <1>2, <1>4, <1>7, <1>8, <1>9 DEF PushInv, PushTypeOK
<1>15. sender'[w] = held /\ \A x \in Senders \ {w} : sender'[x] = sender[x]
  BY <1>2, <1>4
<1>16. delivery'[t] = row /\ \A u \in Topics : u # t => delivery'[u] = delivery[u]
  BY <1>2, <1>4
<1>17. \A u \in Topics : DeliveryFine(u, delivery'[u], heard'.copies[u], projected')
  BY <1>1, <1>5, <1>6, <1>9, <1>10, <1>16 DEF PushInv, DeliveryFine
<1>18. ASSUME NEW u \in Topics PROVE SenderMoved(w, u)
  <2>1. CASE u = t
    <3>1. Spare(row) = 0
      BY <1>6, <1>10 DEF Spare
    <3>2. heard'.copies[t] = heard.copies[t] /\ heard.copies[t] \in Nat /\ heard.excused[t] \in Nat
          /\ heard'.excused[t] = more
      BY <1>4, <1>9
    <3>3. CASE delivery[t].lock \in tokens.lapsed
      <4>1. Spare(delivery[t]) = 0 /\ more = heard.excused[t] + 1
        BY <1>4, <1>12, <3>3 DEF Spare
      <4>2. QED
        BY <1>16, <2>1, <3>1, <3>2, <4>1 DEF SenderMoved
    <3>4. CASE delivery[t].lock \notin tokens.lapsed
      <4>1. Spare(delivery[t]) = 1 /\ more = heard.excused[t]
        BY <1>1, <1>12, <3>4 DEF Spare, Takeable, Open
      <4>2. QED
        BY <1>16, <2>1, <3>1, <3>2, <4>1 DEF SenderMoved
    <3>5. QED
      BY <3>3, <3>4
  <2>2. CASE u # t
    <3>1. ~CanShow(sender'[w], u)
      BY <1>11, <1>15, <2>2 DEF CanShow
    <3>2. heard'.copies[u] = heard.copies[u] /\ heard'.excused[u] = heard.excused[u]
          /\ heard.copies[u] \in Nat /\ heard.excused[u] \in Nat
      BY <1>4, <1>9, <2>2
    <3>3. Spare(delivery'[u]) = Spare(delivery[u]) /\ Spare(delivery[u]) \in 0..1
      BY <1>16, <2>2 DEF Spare
    <3>4. QED
      BY <3>1, <3>2, <3>3 DEF SenderMoved
  <2>3. QED
    BY <2>1, <2>2
<1>19. /\ sender'[w].topic \in projected' /\ sender'[w].token \in 1..tokens'.drawn
       /\ sender'[w].token > tokens.drawn /\ tokens.drawn <= tokens'.drawn /\ projected \subseteq projected'
  BY <1>1, <1>4, <1>5, <1>6, <1>8, <1>11, <1>13, <1>15
<1>20. \A u \in projected : Told(delivery'[u]) => Told(delivery[u])
  BY <1>1, <1>4, <1>16 DEF Told, Open
<1>21. \A x \in Senders : sender'[x].pc # "idle" => sender'[x].topic \in projected'
  BY <1>1, <1>15, <1>19 DEF PushInv, SendersFine, Busy
<1>22. ~OrderWork(sender'[w]) /\ sender'[w].pc # "sending"
  BY <1>11, <1>15 DEF OrderWork, AtWork
<1>23. OrderFine'
  BY <1>1, <1>9, <1>14, <1>15, <1>19, <1>20, <1>21, <1>22, OrderKept
<1>24. QED
  BY <1>14, <1>15, <1>17, <1>18, <1>19, <1>23, SenderStep

(* A step of a sender at work on its topic.                                *)
LEMMA HolderStep ==
  ASSUME PushInv, PushTypeOK', NEW w \in Senders, Busy(w),
         \A x \in Senders \ {w} : sender'[x] = sender[x],
         projected' = projected, tokens'.drawn = tokens.drawn,
         sender'[w].pc # "idle" =>
           sender'[w].topic = sender[w].topic /\ sender'[w].token = sender[w].token,
         \A t \in Topics \ {sender[w].topic} :
           Closes(t) /\ heard'.copies[t] = heard.copies[t] /\ heard'.excused[t] = heard.excused[t],
         DeliveryFine(sender[w].topic, delivery'[sender[w].topic], heard'.copies[sender[w].topic], projected),
         SenderMoved(w, sender[w].topic), OrderFine'
  PROVE  PushInv'
<1>1. /\ sender[w].topic \in projected /\ sender[w].topic \in Topics /\ tokens.drawn \in Nat
      /\ sender[w].token \in 1..tokens.drawn
  BY BusySender
<1>2. \A t \in Topics : DeliveryFine(t, delivery'[t], heard'.copies[t], projected')
  <2>1. ASSUME NEW t \in Topics \ {sender[w].topic}
        PROVE  DeliveryFine(t, delivery'[t], heard'.copies[t], projected')
    BY <2>1, ClosedIsFine
  <2>2. QED
    BY <2>1
<1>3. ASSUME NEW t \in Topics \ {sender[w].topic} PROVE SenderMoved(w, t)
  <2>1. ~CanShow(sender'[w], t)
    BY <1>3 DEF CanShow
  <2>2. Spare(delivery'[t]) <= Spare(delivery[t])
    BY <1>3, ClosedIsFine
  <2>3. heard.copies[t] \in Nat /\ heard.excused[t] \in Nat
    BY DEF PushInv, PushTypeOK
  <2>4. Spare(delivery'[t]) \in 0..1 /\ Spare(delivery[t]) \in 0..1
    BY DEF Spare
  <2>5. heard'.copies[t] = heard.copies[t] /\ heard'.excused[t] = heard.excused[t]
    BY <1>3
  <2>6. QED
    BY <2>1, <2>2, <2>3, <2>4, <2>5 DEF SenderMoved
<1>4. \A t \in Topics : SenderMoved(w, t)
  BY <1>3
<1>5. QED
  BY <1>1, <1>2, <1>4, SenderStep

(* The order of what is shown after such a step.                           *)
LEMMA HolderOrder ==
  ASSUME PushInv, PushTypeOK', NEW w \in Senders, Busy(w),
         \A x \in Senders \ {w} : sender'[x] = sender[x], projected' = projected,
         sender'[w].pc # "idle" =>
           sender'[w].topic = sender[w].topic /\ sender'[w].token = sender[w].token,
         heard'.last = heard.last, heard'.back = heard.back, heard.overtaken => heard'.overtaken,
         \A t \in Topics : Told(delivery'[t]) => Told(delivery[t]),
         ~heard'.overtaken =>
           \/ assoc'["order"].lock = assoc["order"].lock
           \/ \A x \in Senders \ {w} : ~OrderWork(sender[x]),
         ~heard'.overtaken /\ OrderWork(sender'[w]) => assoc'["order"].lock = sender'[w].token,
         ~heard'.overtaken /\ sender'[w].pc = "sending" /\ sender'[w].topic[1] = "order"
           /\ sender'[w].topic[2] < heard.last => ~Told(delivery[<<"order", heard.last>>])
  PROVE  OrderFine'
<1>1. \A x \in Senders : sender'[x].pc # "idle" => sender'[x].topic \in projected'
  BY BusySender DEF PushInv, SendersFine, Busy
<1>2. projected \subseteq Topics
  BY DEF PushInv, PushTypeOK
<1>3. QED
  BY <1>1, <1>2, OrderKept

(* A sender whose topic's delivery keeps or closes shows no more for it.   *)
LEMMA NothingWon ==
  ASSUME PushInv, NEW w \in Senders, NEW t \in Topics,
         Spare(delivery'[t]) <= Spare(delivery[t]), heard'.copies[t] = heard.copies[t],
         heard'.excused[t] = heard.excused[t], CanShow(sender'[w], t) => CanShow(sender[w], t)
  PROVE  SenderMoved(w, t)
<1>1. heard.copies[t] \in Nat /\ heard.excused[t] \in Nat
  BY DEF PushInv, PushTypeOK
<1>2. Spare(delivery'[t]) \in 0..1 /\ Spare(delivery[t]) \in 0..1
  BY DEF Spare
<1>3. QED
  BY <1>1, <1>2 DEF SenderMoved

(* A sender gets the association's lock, or gives its delivery back.       *)
LEMMA LockKeeps ==
  ASSUME PushInv, NEW w \in Senders, LockGroup(w)
  PROVE  PushInv'
<1> DEFINE t == sender[w].topic
           g == Group(t)
<1>1. /\ order' = order /\ waited' = waited /\ revoked' = revoked /\ mishaps' = mishaps
      /\ projected' = projected /\ closed' = closed /\ found' = found /\ tokens' = tokens
      /\ sender[w].pc = "claimed" /\ Busy(w)
  BY DEF LockGroup, Busy
<1>2. /\ assoc \in [Groups -> [on : BOOLEAN, since : Nat, lock : Nat]]
      /\ delivery \in [Topics -> Delivery] /\ sender \in [Senders -> Execution]
      /\ heard \in [last : Nat, back : BOOLEAN, overtaken : BOOLEAN, copies : [Topics -> Nat],
                    excused : [Topics -> Nat]]
  BY DEF PushInv, PushTypeOK
<1>3. /\ t \in Topics /\ t \in projected /\ sender[w].token \in Nat /\ sender[w].token # 0
      /\ sender[w] \in Execution
  BY <1>1, BusySender
<1>4. g \in Groups /\ (t[1] = "order" <=> g = "order")
  BY DEF Group, Groups
<1>5. CASE assoc[g].on /\ Takeable(assoc[g].lock)
  <2> DEFINE seen == g = "order" /\ Drops(assoc[g].lock)
  <2>1. /\ assoc' = [assoc EXCEPT ![g].lock = sender[w].token]
        /\ sender' = [sender EXCEPT ![w].pc = "locked"] /\ delivery' = delivery
        /\ heard' = [heard EXCEPT !.overtaken = @ \/ seen]
    BY <1>5 DEF LockGroup
  <2>2. seen \in BOOLEAN /\ (g = "order" => (seen <=> Drops(assoc["order"].lock)))
    BY DEF Drops
  <2> HIDE DEF seen, g
  <2>3. /\ heard'.last = heard.last /\ heard'.back = heard.back /\ (heard.overtaken => heard'.overtaken)
        /\ heard'.copies = heard.copies /\ heard'.excused = heard.excused
        /\ heard' \in [last : Nat, back : BOOLEAN, overtaken : BOOLEAN, copies : [Topics -> Nat],
                       excused : [Topics -> Nat]]
        /\ (seen => heard'.overtaken)
    <3>1. heard' = [heard EXCEPT !.overtaken = heard.overtaken \/ seen] /\ (heard.overtaken \/ seen) \in BOOLEAN
      BY <1>2, <2>1, <2>2
    <3>2. QED
      BY <1>2, <3>1
  <2>4. /\ assoc' \in [Groups -> [on : BOOLEAN, since : Nat, lock : Nat]]
        /\ assoc'["order"].lock = assoc["order"].lock \/ g = "order"
        /\ g = "order" => assoc'["order"].lock = sender[w].token
    BY <1>2, <1>3, <1>4, <2>1 DEF Groups
  <2>5. /\ sender' \in [Senders -> Execution] /\ \A x \in Senders \ {w} : sender'[x] = sender[x]
        /\ sender'[w].pc = "locked" /\ sender'[w].topic = t /\ sender'[w].token = sender[w].token
    BY <1>2, <2>1 DEF Execution
  <2>6. PushTypeOK'
    BY <1>1, <2>1, <2>3, <2>4, <2>5 DEF PushInv, PushTypeOK
  <2>7. ~heard'.overtaken =>
          \/ assoc'["order"].lock = assoc["order"].lock
          \/ \A x \in Senders \ {w} : ~OrderWork(sender[x])
    BY <2>2, <2>3, <2>4, UnseenHands
  <2>8. OrderWork(sender'[w]) => assoc'["order"].lock = sender'[w].token
    BY <1>4, <2>4, <2>5 DEF OrderWork
  <2>9. OrderFine'
    BY <1>1, <2>1, <2>3, <2>5, <2>6, <2>7, <2>8, HolderOrder
  <2>10. SenderMoved(w, t)
    <3>1. CanShow(sender'[w], t) => CanShow(sender[w], t)
      BY <1>1 DEF CanShow
    <3>2. Spare(delivery'[t]) <= Spare(delivery[t])
      BY <2>1 DEF Spare
    <3>3. QED
      BY <1>3, <2>3, <3>1, <3>2, NothingWon
  <2>11. DeliveryFine(t, delivery'[t], heard'.copies[t], projected)
    BY <1>3, <2>1, <2>3 DEF PushInv
  <2>12. \A u \in Topics \ {t} :
           Closes(u) /\ heard'.copies[u] = heard.copies[u] /\ heard'.excused[u] = heard.excused[u]
    BY <2>1, <2>3 DEF Closes
  <2>13. QED
    BY <1>1, <2>5, <2>6, <2>9, <2>10, <2>11, <2>12, HolderStep
<1>6. CASE ~(assoc[g].on /\ Takeable(assoc[g].lock))
  <2> DEFINE written == Written(w, "PENDING")
  <2>1. /\ delivery' = IF Mine(w) THEN [written EXCEPT ![t].tries = @ - 1] ELSE delivery
        /\ sender' = [sender EXCEPT ![w] = Free] /\ assoc' = assoc /\ heard' = heard
    BY <1>6 DEF LockGroup
  <2>2. /\ written \in [Topics -> Delivery] /\ \A u \in Topics \ {t} : written[u] = delivery[u]
        /\ Mine(w) => /\ written[t].lock = 0 /\ written[t].status = "PENDING" /\ written[t].tries > 0
                      /\ Open(t) /\ Spare(delivery[t]) = 0
    BY <1>1, WrittenDoes
  <2> HIDE DEF written
  <2>3. /\ delivery' \in [Topics -> Delivery] /\ \A u \in Topics \ {t} : delivery'[u] = delivery[u]
        /\ ~Mine(w) => delivery'[t] = delivery[t]
        /\ Mine(w) => delivery'[t].lock = 0 /\ delivery'[t].status = "PENDING"
    <3>1. CASE Mine(w)
      <4>1. delivery' = [written EXCEPT ![t].tries = @ - 1]
        BY <2>1, <3>1
      <4>2. written[t] \in Delivery /\ written[t].tries - 1 \in 0..MaxSends
        BY <1>3, <2>2, <3>1, TopicPairs DEF Delivery
      <4>3. QED
        BY <1>3, <2>2, <3>1, <4>1, <4>2 DEF Delivery
    <3>2. CASE ~Mine(w)
      BY <1>2, <1>3, <2>1, <3>2
    <3>3. QED
      BY <3>1, <3>2
  <2>4. /\ sender' \in [Senders -> Execution] /\ \A x \in Senders \ {w} : sender'[x] = sender[x]
        /\ sender'[w].pc = "idle" /\ sender'[w].topic = <<>>
    BY <1>2, <2>1 DEF Execution, Free
  <2>5. PushTypeOK'
    BY <1>1, <2>1, <2>3, <2>4 DEF PushInv, PushTypeOK
  <2>6. \A u \in Topics : Told(delivery'[u]) => Told(delivery[u])
    BY <1>3, <2>2, <2>3 DEF Told, Open
  <2>7. ~OrderWork(sender'[w])
    BY <2>4 DEF OrderWork, AtWork
  <2>8. OrderFine'
    BY <1>1, <2>1, <2>4, <2>5, <2>6, <2>7, HolderOrder
  <2>9. CanShow(sender[w], t) /\ ~CanShow(sender'[w], t)
    BY <1>1, <2>4 DEF CanShow
  <2>10. SenderMoved(w, t)
    <3>1. Spare(delivery'[t]) <= Spare(delivery[t]) + 1
      BY DEF Spare
    <3>2. heard.copies[t] \in Nat /\ heard.excused[t] \in Nat
      BY <1>2, <1>3
    <3>3. Spare(delivery'[t]) \in 0..1 /\ Spare(delivery[t]) \in 0..1
      BY DEF Spare
    <3>4. QED
      BY <2>1, <2>9, <3>1, <3>2, <3>3 DEF SenderMoved
  <2>11. DeliveryFine(t, delivery'[t], heard'.copies[t], projected)
    BY <1>3, <2>1, <2>3 DEF PushInv, DeliveryFine
  <2>12. \A u \in Topics \ {t} :
           Closes(u) /\ heard'.copies[u] = heard.copies[u] /\ heard'.excused[u] = heard.excused[u]
    BY <2>1, <2>3 DEF Closes
  <2>13. QED
    BY <1>1, <2>4, <2>5, <2>8, <2>10, <2>11, <2>12, HolderStep
<1>7. QED
  BY <1>5, <1>6

(* What a sender leaves alone when it writes to its delivery.              *)
LEMMA WrittenElsewhere ==
  ASSUME PushInv, NEW w \in Senders, Busy(w), NEW status \in {"PENDING", "SENT", "SKIPPED", "FAILED"},
         delivery' = Written(w, status), projected' = projected, heard'.copies = heard.copies
  PROVE  /\ delivery' \in [Topics -> Delivery]
         /\ \A u \in Topics \ {sender[w].topic} : Closes(u)
         /\ \A u \in Topics : Told(delivery'[u]) => Told(delivery[u])
         /\ DeliveryFine(sender[w].topic, delivery'[sender[w].topic], heard'.copies[sender[w].topic], projected)
<1>1. sender[w].topic \in Topics /\ sender[w].topic \in projected
  BY BusySender
<1>2. \A u \in Topics \ {sender[w].topic} : delivery'[u] = delivery[u]
  BY WrittenDoes
<1>3. CASE Mine(w)
  BY <1>1, <1>2, <1>3, WrittenDoes DEF Closes, Told, Open, DeliveryFine
<1>4. CASE ~Mine(w)
  BY <1>1, <1>4, WrittenDoes DEF Closes, PushInv
<1>5. QED
  BY <1>3, <1>4

(* A sender decides whether its notification is still worth sending: one   *)
(* that is older than what was shown, and counts, is not.                  *)
LEMMA DecisionKeeps ==
  ASSUME PushInv, NEW w \in Senders, DecideToSend(w)
  PROVE  PushInv'
<1> DEFINE t == sender[w].topic
<1>1. /\ order' = order /\ waited' = waited /\ revoked' = revoked /\ mishaps' = mishaps
      /\ projected' = projected /\ assoc' = assoc /\ found' = found /\ tokens' = tokens /\ heard' = heard
      /\ sender[w].pc = "locked" /\ Busy(w)
  BY DEF DecideToSend, Busy
<1>2. \/ WorthSending(t) /\ sender' = [sender EXCEPT ![w].pc = "sending"] /\ delivery' = delivery /\ closed' = closed
      \/ /\ sender' = [sender EXCEPT ![w].pc = "leaving"] /\ delivery' = Written(w, "SKIPPED")
         /\ closed' = closed \/ closed' = closed \cup {t}
  BY DEF DecideToSend
<1>3. /\ t \in Topics /\ t \in projected /\ sender[w].token \in Nat
      /\ sender[w] \in Execution /\ sender \in [Senders -> Execution]
  BY <1>1, BusySender
<1>4. closed' \subseteq projected'
  BY <1>1, <1>2, <1>3 DEF PushInv, PushTypeOK
<1>5. /\ sender' \in [Senders -> Execution] /\ \A x \in Senders \ {w} : sender'[x] = sender[x]
      /\ sender'[w].pc \in {"sending", "leaving"} /\ sender'[w].topic = t /\ sender'[w].token = sender[w].token
      /\ sender'[w].pc = "sending" => WorthSending(t)
  BY <1>2, <1>3 DEF Execution
<1>6. /\ delivery' \in [Topics -> Delivery]
      /\ \A u \in Topics \ {t} : Closes(u)
      /\ \A u \in Topics : Told(delivery'[u]) => Told(delivery[u])
      /\ DeliveryFine(t, delivery'[t], heard'.copies[t], projected)
      /\ Spare(delivery'[t]) <= Spare(delivery[t])
  <2>1. CASE delivery' = delivery
    <3>1. QED
      BY <1>1, <1>3, <2>1 DEF PushInv, PushTypeOK, Closes, Spare
  <2>2. CASE delivery' = Written(w, "SKIPPED")
    <3>1. Spare(delivery'[t]) <= Spare(delivery[t])
      BY <1>1, <2>2, WrittenDoes DEF Spare
    <3>2. QED
      BY <1>1, <2>2, <3>1, WrittenElsewhere
  <2>3. QED
    BY <1>2, <2>1, <2>2
<1>7. PushTypeOK'
  BY <1>1, <1>4, <1>5, <1>6 DEF PushInv, PushTypeOK
<1>8. ASSUME ~heard.overtaken, OrderWork(sender'[w])
      PROVE  assoc["order"].lock = sender[w].token
  BY <1>1, <1>5, <1>8 DEF PushInv, OrderFine, OrderWork, AtWork
<1>9. ASSUME sender'[w].pc = "sending", t[1] = "order", t[2] < heard.last
      PROVE  ~Told(delivery[<<"order", heard.last>>])
  <2>1. Relevant(t)
    <3> DEFINE fresh == Relevant(t)
               new == Current = "PENDING"
               due == t \notin closed /\ Waiting(t[2]) /\ ~(t[1] = "WARNING" /\ waited = 2)
    <3>1. (CASE t[1] = "order" -> fresh [] t[1] = "store" -> new [] t[1] \in Reminders -> due)
      BY <1>5, <1>9, Zenon DEF WorthSending
    <3>2. fresh \in BOOLEAN /\ new \in BOOLEAN /\ due \in BOOLEAN
      BY DEF Relevant, Waiting
    <3> HIDE DEF fresh, new, due
    <3>3. fresh
      BY <1>9, <3>1, <3>2 DEF Reminders
    <3>4. QED
      BY <3>3 DEF fresh
  <2>2. t[2] \in Nat /\ heard.last \in Nat
    BY <1>3, TopicPairs DEF PushInv, PushTypeOK
  <2>3. <<"order", heard.last>> \in Topics
    BY <1>9, <2>2 DEF PushInv, PushTypeOK, OrderFine
  <2>4. ASSUME NEW u \in Topics, u[1] = "order", u[2] > t[2] PROVE ~Told(delivery[u])
    BY <2>1, <2>4 DEF Relevant, Told
  <2>5. <<"order", heard.last>>[1] = "order" /\ <<"order", heard.last>>[2] > t[2]
    BY <1>9, <2>2
  <2>6. QED
    BY <2>3, <2>4, <2>5
<1>10. OrderFine'
  <2>1. sender'[w].topic[1] = t[1] /\ sender'[w].topic[2] = t[2]
    BY <1>5
  <2>2. /\ ~heard'.overtaken /\ OrderWork(sender'[w]) => assoc'["order"].lock = sender'[w].token
        /\ ~heard'.overtaken /\ sender'[w].pc = "sending" /\ sender'[w].topic[1] = "order"
             /\ sender'[w].topic[2] < heard.last => ~Told(delivery[<<"order", heard.last>>])
    BY <1>1, <1>5, <1>8, <1>9, <2>1
  <2>3. QED
    BY <1>1, <1>5, <1>6, <1>7, <2>2, HolderOrder
<1>11. SenderMoved(w, t)
  <2>1. CanShow(sender'[w], t) => CanShow(sender[w], t)
    BY <1>1 DEF CanShow
  <2>2. heard'.copies[t] = heard.copies[t] /\ heard'.excused[t] = heard.excused[t]
    BY <1>1
  <2>3. QED
    BY <1>3, <1>6, <2>1, <2>2, NothingWon
<1>12. \A u \in Topics \ {t} :
         Closes(u) /\ heard'.copies[u] = heard.copies[u] /\ heard'.excused[u] = heard.excused[u]
  BY <1>1, <1>6
<1>13. QED
  BY <1>1, <1>5, <1>6, <1>7, <1>10, <1>11, <1>12, HolderStep

(* The device shows a notification: as long as no lock was overtaken, no   *)
(* other sender works on a status, and this one is not late.               *)
LEMMA ShowingKeeps ==
  ASSUME PushInv, NEW w \in Senders, Shown(w)
  PROVE  PushInv'
<1> DEFINE t == sender[w].topic
           late == /\ t[1] = "order" /\ t[2] < heard.last
                   /\ Told(delivery[<<"order", heard.last>>])
           last == IF t[1] = "order" THEN t[2] ELSE heard.last
<1>1. /\ order' = order /\ waited' = waited /\ revoked' = revoked /\ mishaps' = mishaps /\ closed' = closed
      /\ projected' = projected /\ assoc' = assoc /\ found' = found /\ tokens' = tokens
      /\ delivery' = delivery /\ sender[w].pc = "sending" /\ Busy(w)
      /\ sender' = [sender EXCEPT ![w].pc = "sent"]
  BY DEF Shown, Busy
<1>2. /\ t \in Topics /\ t \in projected /\ sender[w].token \in Nat
      /\ sender[w] \in Execution /\ sender \in [Senders -> Execution]
      /\ t = <<t[1], t[2]>> /\ t[2] \in Nat
  BY <1>1, BusySender, TopicPairs
<1>3. heard \in [last : Nat, back : BOOLEAN, overtaken : BOOLEAN, copies : [Topics -> Nat],
                 excused : [Topics -> Nat]]
  BY DEF PushInv, PushTypeOK
<1>4. late \in BOOLEAN /\ last \in Nat
  BY <1>2, <1>3
<1>5. ASSUME ~heard.overtaken PROVE ~late
  BY <1>1, <1>5 DEF PushInv, OrderFine
<1>6. last # 0 => <<"order", last>> \in projected
  BY <1>2 DEF PushInv, OrderFine
<1>7. t[1] # "order" => last = heard.last
  OBVIOUS
<1>8. /\ heard'.last = last /\ (heard'.back <=> heard.back \/ late) /\ heard'.overtaken = heard.overtaken
      /\ heard'.excused = heard.excused /\ heard'.copies = [heard.copies EXCEPT ![t] = @ + 1]
      /\ heard' \in [last : Nat, back : BOOLEAN, overtaken : BOOLEAN, copies : [Topics -> Nat],
                     excused : [Topics -> Nat]]
  <2> DEFINE one == [heard EXCEPT !.last = last]
             two == [one EXCEPT !.back = @ \/ late]
             three == [two EXCEPT !.copies[t] = @ + 1]
  <2>1. heard' = three
    BY Zenon DEF Shown, Told
  <2> HIDE DEF last, late, t
  <2>2. /\ one \in [last : Nat, back : BOOLEAN, overtaken : BOOLEAN, copies : [Topics -> Nat],
                    excused : [Topics -> Nat]]
        /\ one.last = last /\ one.back = heard.back /\ one.overtaken = heard.overtaken
        /\ one.excused = heard.excused /\ one.copies = heard.copies
    BY <1>3, <1>4
  <2> HIDE DEF one
  <2>3. two = [one EXCEPT !.back = one.back \/ late] /\ (one.back \/ late) \in BOOLEAN
    BY <1>4, <2>2
  <2> HIDE DEF two
  <2>4. /\ two \in [last : Nat, back : BOOLEAN, overtaken : BOOLEAN, copies : [Topics -> Nat],
                    excused : [Topics -> Nat]]
        /\ two.last = last /\ (two.back <=> heard.back \/ late) /\ two.overtaken = heard.overtaken
        /\ two.excused = heard.excused /\ two.copies = heard.copies
    BY <2>2, <2>3
  <2>5. QED
    BY <1>2, <2>1, <2>4
<1> HIDE DEF last, late
<1>9. /\ sender' \in [Senders -> Execution] /\ \A x \in Senders \ {w} : sender'[x] = sender[x]
      /\ sender'[w].pc = "sent" /\ sender'[w].topic = t /\ sender'[w].token = sender[w].token
  BY <1>1, <1>2 DEF Execution
<1>10. PushTypeOK'
  BY <1>1, <1>8, <1>9 DEF PushInv, PushTypeOK
<1>11. ASSUME ~heard.overtaken, NEW x \in Senders, OrderWork(sender'[x])
       PROVE  OrderWork(sender[x]) /\ sender[x].token = sender'[x].token
  BY <1>1, <1>9, <1>11 DEF OrderWork, AtWork
<1>12. ASSUME ~heard.overtaken, NEW x \in Senders, OrderWork(sender[x])
       PROVE  assoc["order"].lock = sender[x].token /\ Busy(x)
  BY <1>12 DEF PushInv, OrderFine, OrderWork, AtWork, Busy
<1>13. ASSUME ~heard.overtaken, NEW x \in Senders, sender'[x].pc = "sending", sender'[x].topic[1] = "order",
              sender'[x].topic[2] < heard'.last
       PROVE  ~Told(delivery[<<"order", heard'.last>>])
  <2>1. x # w /\ sender'[x] = sender[x] /\ OrderWork(sender[x])
    BY <1>9, <1>13 DEF OrderWork, AtWork
  <2>2. t[1] # "order"
    <3>1. ASSUME t[1] = "order" PROVE FALSE
      <4>1. OrderWork(sender[w])
        BY <1>1, <3>1 DEF OrderWork, AtWork
      <4>2. sender[w].token = sender[x].token /\ Busy(w) /\ Busy(x)
        BY <1>12, <1>13, <2>1, <4>1
      <4>3. QED
        BY <2>1, <4>2 DEF PushInv, SendersFine
    <3>2. QED
      BY <3>1
  <2>3. QED
    BY <1>7, <1>8, <1>13, <2>1, <2>2 DEF PushInv, OrderFine
<1>14. OrderFine'
  <2>1. heard'.last # 0 => <<"order", heard'.last>> \in projected'
    BY <1>1, <1>6, <1>8
  <2>2. ~heard'.overtaken => ~heard'.back
    BY <1>5, <1>8 DEF PushInv, OrderFine
  <2>3. ASSUME ~heard'.overtaken, NEW x \in Senders, AtWork(sender'[x]), sender'[x].topic[1] = "order"
        PROVE  assoc'["order"].lock = sender'[x].token
    BY <1>1, <1>8, <1>11, <1>12, <2>3 DEF OrderWork
  <2>4. ASSUME ~heard'.overtaken, NEW x \in Senders, sender'[x].pc = "sending",
               sender'[x].topic[1] = "order", sender'[x].topic[2] < heard'.last
        PROVE  ~Told(delivery'[<<"order", heard'.last>>])
    BY <1>1, <1>8, <1>13, <2>4
  <2>5. QED
    BY <2>1, <2>2, <2>3, <2>4 DEF OrderFine
<1>15. SenderMoved(w, t)
  <2>1. CanShow(sender[w], t) /\ ~CanShow(sender'[w], t)
    BY <1>1, <1>9 DEF CanShow
  <2>2. /\ heard.copies[t] \in Nat /\ heard.excused[t] \in Nat
        /\ heard'.copies[t] = heard.copies[t] + 1 /\ heard'.excused[t] = heard.excused[t]
    BY <1>2, <1>3, <1>8
  <2>3. Spare(delivery'[t]) = Spare(delivery[t]) /\ Spare(delivery[t]) \in 0..1
    BY <1>1 DEF Spare
  <2>4. QED
    BY <2>1, <2>2, <2>3 DEF SenderMoved
<1>16. DeliveryFine(t, delivery'[t], heard'.copies[t], projected)
  BY <1>1, <1>2 DEF PushInv, DeliveryFine
<1>17. \A u \in Topics \ {t} :
         Closes(u) /\ heard'.copies[u] = heard.copies[u] /\ heard'.excused[u] = heard.excused[u]
  BY <1>1, <1>3, <1>8 DEF Closes
<1>18. QED
  BY <1>1, <1>9, <1>10, <1>14, <1>15, <1>16, <1>17, HolderStep

(* A sender writes to its delivery and is done with it: it leaves, and the *)
(* association's lock goes if it is its own.                               *)
LEMMA LeavingKeeps ==
  ASSUME PushInv, NEW w \in Senders, Busy(w), NEW status \in {"PENDING", "SENT", "SKIPPED", "FAILED"},
         delivery' = Written(w, status), assoc' = assoc \/ assoc' = Unlocked(w),
         sender' = [sender EXCEPT ![w].pc = "leaving"],
         order' = order, waited' = waited, revoked' = revoked, projected' = projected, closed' = closed,
         found' = found, tokens' = tokens,
         \/ heard' = heard /\ (CanShow(sender[w], sender[w].topic) \/ status # "PENDING")
         \/ heard' = [heard EXCEPT !.excused[sender[w].topic] = @ + 1]
  PROVE  PushInv'
<1> DEFINE t == sender[w].topic
           more == [heard.excused EXCEPT ![t] = heard.excused[t] + 1]
<1>1. /\ t \in Topics /\ t \in projected /\ sender[w].token \in Nat
      /\ sender[w] \in Execution /\ sender \in [Senders -> Execution]
  BY BusySender
<1>2. /\ heard \in [last : Nat, back : BOOLEAN, overtaken : BOOLEAN, copies : [Topics -> Nat],
                    excused : [Topics -> Nat]]
      /\ assoc \in [Groups -> [on : BOOLEAN, since : Nat, lock : Nat]]
  BY DEF PushInv, PushTypeOK
<1>3. /\ heard'.last = heard.last /\ heard'.back = heard.back /\ heard'.overtaken = heard.overtaken
      /\ heard'.copies = heard.copies
      /\ heard' \in [last : Nat, back : BOOLEAN, overtaken : BOOLEAN, copies : [Topics -> Nat],
                     excused : [Topics -> Nat]]
      /\ \A u \in Topics \ {t} : heard'.excused[u] = heard.excused[u]
      /\ \/ heard'.excused[t] = heard.excused[t] /\ (CanShow(sender[w], t) \/ status # "PENDING")
         \/ heard'.excused[t] = heard.excused[t] + 1
  <2>1. CASE heard' = heard /\ (CanShow(sender[w], t) \/ status # "PENDING")
    BY <1>2, <2>1
  <2>2. CASE heard' = [heard EXCEPT !.excused[t] = @ + 1]
    <3>1. heard' = [heard EXCEPT !.excused = more]
      BY <1>2, <2>2
    <3>2. /\ more \in [Topics -> Nat] /\ more[t] = heard.excused[t] + 1
          /\ \A u \in Topics \ {t} : more[u] = heard.excused[u]
      BY <1>1, <1>2
    <3> HIDE DEF more
    <3>3. QED
      BY <1>2, <3>1, <3>2
  <2>3. QED
    BY <2>1, <2>2
<1>4. /\ sender' \in [Senders -> Execution] /\ \A x \in Senders \ {w} : sender'[x] = sender[x]
      /\ sender'[w].pc = "leaving" /\ sender'[w].topic = t /\ sender'[w].token = sender[w].token
  BY <1>1 DEF Execution
<1>5. /\ delivery' \in [Topics -> Delivery] /\ \A u \in Topics \ {t} : Closes(u)
      /\ \A u \in Topics : Told(delivery'[u]) => Told(delivery[u])
      /\ DeliveryFine(t, delivery'[t], heard'.copies[t], projected)
  BY <1>3, WrittenElsewhere
<1>6. /\ assoc' \in [Groups -> [on : BOOLEAN, since : Nat, lock : Nat]]
      /\ ~heard.overtaken =>
           \/ assoc'["order"].lock = assoc["order"].lock
           \/ \A x \in Senders \ {w} : ~OrderWork(sender[x])
  BY <1>2, UnlockedDoes
<1>7. PushTypeOK'
  BY <1>3, <1>4, <1>5, <1>6 DEF PushInv, PushTypeOK
<1>8. ~OrderWork(sender'[w]) /\ sender'[w].pc # "sending"
  BY <1>4 DEF OrderWork, AtWork
<1>9. OrderFine'
  BY <1>3, <1>4, <1>5, <1>6, <1>7, <1>8, HolderOrder
<1>10. SenderMoved(w, t)
  <2>1. ~CanShow(sender'[w], t)
    BY <1>4 DEF CanShow
  <2>2. /\ heard.copies[t] \in Nat /\ heard.excused[t] \in Nat /\ heard'.copies[t] = heard.copies[t]
    BY <1>1, <1>2, <1>3
  <2>3. Spare(delivery'[t]) \in 0..1 /\ Spare(delivery[t]) \in 0..1
    BY DEF Spare
  <2>4. status # "PENDING" => Spare(delivery'[t]) <= Spare(delivery[t])
    <3>1. CASE Mine(w)
      BY <3>1, WrittenDoes DEF Spare
    <3>2. CASE ~Mine(w)
      <4>1. delivery' = delivery
        BY <3>2, WrittenDoes
      <4>2. QED
        BY <2>3, <4>1
    <3>3. QED
      BY <3>1, <3>2
  <2>5. QED
    BY <1>3, <2>1, <2>2, <2>3, <2>4 DEF SenderMoved
<1>11. \A u \in Topics \ {t} :
         Closes(u) /\ heard'.copies[u] = heard.copies[u] /\ heard'.excused[u] = heard.excused[u]
  BY <1>3, <1>5
<1>12. QED
  BY <1>4, <1>5, <1>7, <1>9, <1>10, <1>11, HolderStep

(* A send is recorded.                                                     *)
LEMMA RecordKeeps ==
  ASSUME PushInv, NEW w \in Senders, RecordSent(w)
  PROVE  PushInv'
<1>1. /\ delivery' = Written(w, "SENT") /\ (assoc' = assoc \/ assoc' = Unlocked(w))
      /\ sender' = [sender EXCEPT ![w].pc = "leaving"] /\ order' = order /\ waited' = waited
      /\ revoked' = revoked /\ projected' = projected /\ closed' = closed /\ found' = found
      /\ tokens' = tokens /\ heard' = heard /\ Busy(w)
  BY DEF RecordSent, Busy
<1>2. QED
  BY <1>1, LeavingKeeps

(* A send fails, or its record does: the second is excused.                *)
LEMMA FailureKeeps ==
  ASSUME PushInv, NEW w \in Senders, NEW transient \in BOOLEAN, SendFails(w, transient)
  PROVE  PushInv'
<1> DEFINE status == IF ~transient \/ sender[w].tries >= MaxSends THEN "FAILED" ELSE "PENDING"
<1>1. /\ delivery' = Written(w, status) /\ (assoc' = assoc \/ assoc' = Unlocked(w))
      /\ sender' = [sender EXCEPT ![w].pc = "leaving"] /\ order' = order /\ waited' = waited
      /\ revoked' = revoked /\ projected' = projected /\ closed' = closed /\ found' = found
      /\ tokens' = tokens /\ Busy(w)
  BY Zenon DEF SendFails, Busy
<1>2. status \in {"PENDING", "SENT", "SKIPPED", "FAILED"}
  OBVIOUS
<1>3. \/ heard' = heard /\ CanShow(sender[w], sender[w].topic)
      \/ heard' = [heard EXCEPT !.excused[sender[w].topic] = @ + 1]
  <2>1. sender[w].pc \in {"locked", "sending", "sent"}
    BY DEF SendFails
  <2>2. heard' = [heard EXCEPT !.excused[sender[w].topic] = IF sender[w].pc = "sent" THEN @ + 1 ELSE @]
    BY DEF SendFails, Excuse
  <2>3. CASE sender[w].pc = "sent"
    BY <2>2, <2>3
  <2>4. CASE sender[w].pc # "sent"
    <3>1. heard' = [heard EXCEPT !.excused[sender[w].topic] = @]
      BY <2>2, <2>4
    <3>2. heard \in [last : Nat, back : BOOLEAN, overtaken : BOOLEAN, copies : [Topics -> Nat],
                     excused : [Topics -> Nat]]
      BY DEF PushInv, PushTypeOK
    <3>3. heard' = heard
      BY <3>1, <3>2
    <3>4. QED
      BY <2>1, <2>4, <3>3 DEF CanShow
  <2>5. QED
    BY <2>3, <2>4
<1> HIDE DEF status
<1>4. QED
  BY <1>1, <1>2, <1>3, LeavingKeeps

(* A send finds the device gone.                                           *)
LEMMA GoneKeeps ==
  ASSUME PushInv, NEW w \in Senders, SendGone(w)
  PROVE  PushInv'
<1> DEFINE t == sender[w].topic
<1>1. /\ Revocation /\ sender' = [sender EXCEPT ![w].pc = "leaving"] /\ order' = order /\ waited' = waited
      /\ projected' = projected /\ closed' = closed /\ found' = found /\ tokens' = tokens
      /\ Busy(w)
  BY DEF SendGone, Busy
<1>2. t \in Topics /\ sender[w] \in Execution /\ sender \in [Senders -> Execution]
  BY <1>1, BusySender
<1>3. /\ sender' \in [Senders -> Execution] /\ \A x \in Senders \ {w} : sender'[x] = sender[x]
      /\ sender'[w].pc = "leaving" /\ sender'[w].topic = t /\ sender'[w].token = sender[w].token
  BY <1>1, <1>2 DEF Execution
<1>4. PushTypeOK'
  BY <1>1, <1>3, RevocationDoes DEF PushInv, PushTypeOK
<1>5. \A u \in Topics :
        /\ Closes(u) /\ heard'.copies[u] = heard.copies[u] /\ heard'.excused[u] = heard.excused[u]
  BY <1>1, RevocationDoes
<1>6. \A u \in Topics :
        /\ DeliveryFine(u, delivery'[u], heard'.copies[u], projected')
        /\ Spare(delivery'[u]) <= Spare(delivery[u])
        /\ Told(delivery'[u]) => Told(delivery[u])
  BY <1>1, <1>5, ClosedIsFine
<1>7. ~heard'.overtaken =>
        \/ assoc'["order"].lock = assoc["order"].lock
        \/ \A x \in Senders \ {w} : ~OrderWork(sender[x])
  BY <1>1, RevocationDoes, UnseenHands
<1>8. ~OrderWork(sender'[w]) /\ sender'[w].pc # "sending" /\ ~CanShow(sender'[w], t)
  BY <1>3 DEF OrderWork, AtWork, CanShow
<1>9. OrderFine'
  <2>1. heard'.last = heard.last /\ heard'.back = heard.back /\ (heard.overtaken => heard'.overtaken)
    BY <1>1, RevocationDoes
  <2>2. QED
    BY <1>1, <1>3, <1>4, <1>6, <1>7, <1>8, <2>1, HolderOrder
<1>10. SenderMoved(w, t)
  BY <1>2, <1>5, <1>6, <1>8, NothingWon
<1>11. DeliveryFine(t, delivery'[t], heard'.copies[t], projected)
  BY <1>1, <1>2, <1>6
<1>12. QED
  BY <1>1, <1>3, <1>4, <1>5, <1>9, <1>10, <1>11, HolderStep

(* A sender ends, or is killed.                                            *)
LEMMA ReleaseKeeps ==
  ASSUME PushInv, NEW w \in Senders, ReleaseGroup(w) \/ KillSender(w)
  PROVE  PushInv'
<1> DEFINE t == sender[w].topic
<1>1. /\ sender' = [sender EXCEPT ![w] = Free] /\ order' = order /\ waited' = waited /\ revoked' = revoked
      /\ projected' = projected /\ closed' = closed /\ found' = found /\ tokens' = tokens
      /\ delivery' = delivery /\ heard' = heard /\ (assoc' = assoc \/ assoc' = Unlocked(w)) /\ Busy(w)
  BY DEF ReleaseGroup, KillSender, Busy
<1>2. /\ t \in Topics /\ sender \in [Senders -> Execution]
      /\ assoc \in [Groups -> [on : BOOLEAN, since : Nat, lock : Nat]]
  BY <1>1, BusySender DEF PushInv, PushTypeOK
<1>3. /\ sender' \in [Senders -> Execution] /\ \A x \in Senders \ {w} : sender'[x] = sender[x]
      /\ sender'[w].pc = "idle"
  BY <1>1, <1>2 DEF Execution, Free
<1>4. /\ assoc' \in [Groups -> [on : BOOLEAN, since : Nat, lock : Nat]]
      /\ ~heard.overtaken =>
           \/ assoc'["order"].lock = assoc["order"].lock
           \/ \A x \in Senders \ {w} : ~OrderWork(sender[x])
  BY <1>1, <1>2, UnlockedDoes
<1>5. PushTypeOK'
  BY <1>1, <1>3, <1>4 DEF PushInv, PushTypeOK
<1>6. ~OrderWork(sender'[w]) /\ sender'[w].pc # "sending" /\ ~CanShow(sender'[w], t)
  BY <1>3 DEF OrderWork, AtWork, CanShow
<1>7. OrderFine'
  BY <1>1, <1>3, <1>4, <1>5, <1>6, HolderOrder
<1>8. \A u \in Topics : Spare(delivery'[u]) <= Spare(delivery[u]) /\ DeliveryFine(u, delivery'[u], heard'.copies[u], projected)
  BY <1>1 DEF Spare, PushInv
<1>9. SenderMoved(w, t)
  BY <1>1, <1>2, <1>6, <1>8, NothingWon
<1>10. \A u \in Topics \ {t} :
         Closes(u) /\ heard'.copies[u] = heard.copies[u] /\ heard'.excused[u] = heard.excused[u]
  BY <1>1 DEF Closes
<1>11. QED
  BY <1>1, <1>2, <1>3, <1>5, <1>7, <1>8, <1>9, <1>10, HolderStep

(* Nothing was projected, claimed or shown at the start.                   *)
LEMMA PushStarts == PushInit => PushInv
<1> SUFFICES ASSUME PushInit PROVE PushInv
  OBVIOUS
<1>1. /\ order \in [plan : Plans, version : Nat] /\ order.version = 1 /\ order.plan \in Plans
  BY DEF PushInit
<1>2. order.version \in DOMAIN order.plan.path
  <2>1. order.plan.path \in Seq(OrderStatuses) /\ order.plan.path # <<>>
    BY <1>1, PushAssumption
  <2>2. QED
    BY <1>1, <2>1, LenProperties, EmptySeq
<1>3. assoc \in [Groups -> [on : BOOLEAN, since : Nat, lock : Nat]]
  <2>1. PICK on \in {{}, Audience} :
          assoc = [g \in Groups |-> [on |-> g \in on, since |-> IF g = "staff" THEN 0 ELSE 1, lock |-> 0]]
    BY DEF PushInit
  <2>2. QED
    BY <2>1
<1>4. delivery \in [Topics -> Delivery] /\ sender \in [Senders -> Execution]
  BY TopicPairs DEF PushInit, Delivery, Execution, Absent, Free
<1>5. /\ tokens \in [drawn : Nat, lapsed : SUBSET Nat] /\ 0 \notin tokens.lapsed
      /\ heard \in [last : Nat, back : BOOLEAN, overtaken : BOOLEAN, copies : [Topics -> Nat],
                    excused : [Topics -> Nat]]
  BY DEF PushInit
<1>6. PushTypeOK
  <2>1. /\ waited \in 0..2 /\ revoked \in BOOLEAN
        /\ projected \subseteq Topics /\ closed \subseteq projected /\ found \subseteq Topics
    <3>1. waited = 0 /\ projected = {} /\ closed = {} /\ found = {}
      BY DEF PushInit
    <3>2. revoked \in BOOLEAN
      BY Zenon DEF PushInit
    <3>3. QED
      BY <3>1, <3>2
  <2>2. QED
    BY <1>1, <1>2, <1>3, <1>4, <1>5, <2>1 DEF PushTypeOK
<1>7. \A w \in Senders : ~Busy(w) /\ ~AtWork(sender[w])
  BY DEF PushInit, Busy, Free, AtWork
<1>8. ASSUME NEW t \in Topics
      PROVE  /\ DeliveryFine(t, delivery[t], heard.copies[t], projected)
             /\ heard.copies[t] + Cardinality(Showing(sender, t)) + Spare(delivery[t]) <= 1 + heard.excused[t]
  <2>1. delivery[t] = Absent /\ heard.copies[t] = 0 /\ heard.excused[t] = 0
    BY DEF PushInit
  <2>2. Showing(sender, t) = {}
    BY <1>7 DEF Showing, CanShow, Busy
  <2>3. Cardinality(Showing(sender, t)) = 0 /\ Spare(delivery[t]) = 0
    BY <2>1, <2>2, FS_EmptySet DEF Spare, Absent
  <2>4. QED
    BY <2>1, <2>3 DEF DeliveryFine, Absent
<1>9. OrderFine
  BY <1>7 DEF OrderFine, AtWork, PushInit
<1>10. QED
  BY <1>6, <1>7, <1>8, <1>9 DEF PushInv, SendersFine, CopiesFine

(* Every step keeps the invariant.                                         *)
LEMMA PushSteps == PushInv /\ [PushNext]_pushVars => PushInv'
<1> SUFFICES ASSUME PushInv, [PushNext]_pushVars PROVE PushInv'
  OBVIOUS
<1>1. CASE OrderMoves \/ OrderWaits \/ FindDue \/ LeaseLapses
  BY <1>1, QuietKeeps
<1>2. CASE DeviceExpires
  BY <1>2, ExpiryKeeps
<1>3. CASE ResolveAlerts
  BY <1>3, ResolutionKeeps
<1>4. CASE \E g \in Audience : EnablePush(g) \/ DisablePush(g)
  BY <1>4, PermissionKeeps
<1>5. CASE \E t \in Topics : ProjectPush(t) \/ CreateAlert(t)
  BY <1>5, ProjectionKeeps
<1>6. ASSUME NEW w \in Senders, NEW t \in Topics, ClaimDelivery(w, t) PROVE PushInv'
  BY <1>6, TakingKeeps
<1>7. ASSUME NEW w \in Senders,
             LockGroup(w) \/ DecideToSend(w) \/ Shown(w) \/ RecordSent(w) \/ SendGone(w) \/ ReleaseGroup(w)
               \/ KillSender(w)
      PROVE  PushInv'
  BY <1>7, LockKeeps, DecisionKeeps, ShowingKeeps, RecordKeeps, GoneKeeps, ReleaseKeeps
<1>8. ASSUME NEW w \in Senders, NEW transient \in BOOLEAN, SendFails(w, transient) PROVE PushInv'
  BY <1>8, FailureKeeps
<1>9. CASE UNCHANGED pushVars
  <2>1. PushTypeOK'
    BY <1>9 DEF pushVars, PushInv, PushTypeOK
  <2>2. SendersFine' /\ CopiesFine' /\ OrderFine'
    BY <1>9 DEF pushVars, PushInv, SendersFine, Busy, CopiesFine, OrderFine
  <2>3. QED
    BY <1>9, <2>1, <2>2 DEF pushVars, PushInv
<1>10. QED
  BY <1>1, <1>2, <1>3, <1>4, <1>5, <1>6, <1>7, <1>8, <1>9 DEF PushNext

(* The types, and the two promises about the device, always hold.          *)
THEOREM PushInvariance == PushSpec => [](PushTypeOK /\ NewestLast /\ OneCopyPerClaim)
<1>1. PushInv => PushTypeOK /\ NewestLast /\ OneCopyPerClaim
  <2>1. ASSUME PushInv, NEW t \in Topics PROVE heard.copies[t] <= 1 + heard.excused[t]
    <3>1. heard.copies[t] + Cardinality(Showing(sender, t)) + Spare(delivery[t]) <= 1 + heard.excused[t]
      BY <2>1 DEF PushInv, CopiesFine
    <3>2. Cardinality(Showing(sender, t)) \in Nat
      <4>1. Showing(sender, t) \subseteq Senders
        BY DEF Showing
      <4>2. QED
        BY <4>1, TopicPairs, FS_Subset, FS_CardinalityType
    <3>3. Spare(delivery[t]) \in 0..1
      BY DEF Spare
    <3>4. heard.copies[t] \in Nat /\ heard.excused[t] \in Nat
      BY <2>1 DEF PushInv, PushTypeOK
    <3>5. QED
      BY <3>1, <3>2, <3>3, <3>4
  <2>2. QED
    BY <2>1 DEF PushInv, OrderFine, NewestLast, OneCopyPerClaim
<1>2. QED
  BY <1>1, PushStarts, PushSteps, PTL DEF PushSpec

(* The consumer hears no older status after a newer one, unless a lock was *)
(* taken over from an execution at work: for any plans of an order, any    *)
(* topics and any number of executions of the senders.                     *)
THEOREM NotifiedInOrder == PushSpec => []NewestLast
BY PushInvariance, PTL

(* The device shows a notification once more only for a claim taken over   *)
(* from a lapsed lease and for a send that could not be recorded.          *)
THEOREM ShownOncePerClaim == PushSpec => []OneCopyPerClaim
BY PushInvariance, PTL
=============================================================================
