--------------------------- MODULE ProviderConnection ---------------------------
(***************************************************************************)
(* The connection of one store to Mercado Pago. The owner connects,        *)
(* disconnects and chooses the payment mode under the version of the       *)
(* store's configuration; payments and notifications read the access token *)
(* and refresh it under a lease. Each provider call lies between a read    *)
(* and a write, so that all of these interleave. A credential is a number: *)
(* the provider issues a higher one each time.                             *)
(***************************************************************************)
EXTENDS Integers, FiniteSets

CONSTANTS
  Readers,      \* concurrent callers of getMercadoPagoAccessToken
  Attempts,     \* OAuth attempts the owner starts
  MaxIssued,    \* bound: credentials the provider issues
  MaxEdits      \* bound: writes of the configuration

ASSUME ConnectionAssumption == MaxIssued \in Nat /\ MaxEdits \in Nat /\ "nobody" \notin Readers

VARIABLES
  connection,   \* store_payment_provider_connections and the store's settings
  attempt,      \* payment_provider_oauth_attempts, with the callbacks at work on each
  reader,       \* what each caller holds in memory
  issued,       \* credentials the provider issued so far
  charge,       \* an online payment, from the checkout's read to its settlement
  withdrawn,    \* history: the seller withdrew access and granted none since
  lost          \* history: a refresh replaced what a later one had written

connectionVars == <<connection, attempt, reader, issued, charge, withdrawn, lost>>

Statuses == {"NOT_CONNECTED", "ACTIVE", "REAUTH_REQUIRED", "DISCONNECTED", "REVOKED", "ERROR"}
Calm == [pc |-> "idle", status |-> "ACTIVE", since |-> 0]
Charges == {"NONE", "READING", "PENDING", "CREDITED", "CHARGED"}
Nobody == "nobody"

ConnectionTypeOK ==
  /\ connection.status \in Statuses /\ connection.token \in 0..issued
  /\ connection.lease \in Readers \cup {Nobody} /\ connection.held \in BOOLEAN
  /\ connection.mode \in {"MANUAL", "ONLINE"} /\ connection.version \in 0..MaxEdits
  /\ \A r \in Readers : reader[r].pc \in {"idle", "read", "leased"}
  /\ \A a \in Attempts :
       /\ attempt[a].started \in BOOLEAN /\ attempt[a].consumed \in BOOLEAN
       /\ attempt[a].waiting \in 0..2 /\ attempt[a].working \in 0..1 /\ attempt[a].done \in 0..1
  /\ charge \in Charges

ConnectionInit ==
  /\ connection = [status |-> "NOT_CONNECTED", token |-> 0, lease |-> Nobody, held |-> FALSE,
                   refreshes |-> 0, mode |-> "MANUAL", version |-> 0]
  /\ attempt = [a \in Attempts |-> [started |-> FALSE, consumed |-> FALSE, waiting |-> 0,
                                    working |-> 0, done |-> 0]]
  /\ reader = [r \in Readers |-> Calm]
  /\ issued = 0 /\ charge = "NONE" /\ withdrawn = FALSE /\ lost = FALSE

-----------------------------------------------------------------------------
StartOAuth(a) ==
  /\ ~attempt[a].started
  /\ attempt' = [attempt EXCEPT ![a].started = TRUE]
  /\ UNCHANGED <<connection, reader, issued, charge, withdrawn, lost>>

(* The provider calls back, perhaps twice: each callback finds the attempt *)
(* unconsumed.                                                             *)
CallBack(a) ==
  /\ attempt[a].started /\ ~attempt[a].consumed /\ attempt[a].waiting < 2
  /\ attempt' = [attempt EXCEPT ![a].waiting = @ + 1]
  /\ UNCHANGED <<connection, reader, issued, charge, withdrawn, lost>>

(* Faulty: whoever found the attempt unconsumed exchanges its code.        *)
AsFound(a) == TRUE

(* The claim compares consumedAt again.                                    *)
Unconsumed(a) == ~attempt[a].consumed

ClaimAttempt(a) ==
  /\ attempt[a].waiting > 0
  /\ attempt' = [attempt EXCEPT ![a].waiting = @ - 1, ![a].consumed = TRUE,
                                ![a].working = IF Unconsumed(a) THEN @ + 1 ELSE @]
  /\ UNCHANGED <<connection, reader, issued, charge, withdrawn, lost>>

(* The code is exchanged and the seller accepted: the row is overwritten,  *)
(* its lease is not.                                                       *)
CompleteOAuth(a) ==
  /\ attempt[a].working > 0 /\ issued < MaxIssued
  /\ issued' = issued + 1 /\ withdrawn' = FALSE
  /\ connection' = [connection EXCEPT !.status = "ACTIVE", !.token = issued + 1]
  /\ attempt' = [attempt EXCEPT ![a].working = @ - 1, ![a].done = @ + 1]
  /\ UNCHANGED <<reader, charge, lost>>

FailOAuth(a) ==
  /\ attempt[a].working > 0
  /\ attempt' = [attempt EXCEPT ![a].working = @ - 1]
  /\ UNCHANGED <<connection, reader, issued, charge, withdrawn, lost>>

-----------------------------------------------------------------------------
(* Faulty: the credential goes at once.                                    *)
KeptNever == FALSE

(* Payments that are open when the connection is closed.                   *)
KeptForPayments == charge \in {"PENDING", "CREDITED", "CHARGED"}

(* disconnectMercadoPago keeps the credential while payments are open.     *)
Disconnect ==
  /\ connection.status # "NOT_CONNECTED" /\ connection.version < MaxEdits
  /\ connection' = [connection EXCEPT !.status = "DISCONNECTED", !.version = @ + 1,
                                      !.mode = "MANUAL", !.token = IF KeptForPayments THEN @ ELSE 0]
  /\ UNCHANGED <<attempt, reader, issued, charge, withdrawn, lost>>

SetPaymentMode(mode) ==
  /\ connection.version < MaxEdits
  /\ mode = "ONLINE" => connection.status = "ACTIVE"
  /\ connection' = [connection EXCEPT !.mode = mode, !.version = @ + 1]
  /\ UNCHANGED <<attempt, reader, issued, charge, withdrawn, lost>>

Revoked(row) == [row EXCEPT !.status = "REVOKED", !.token = 0]

(* The seller withdraws the application's access; the lease stays.         *)
Deauthorize ==
  /\ connection.status # "NOT_CONNECTED"
  /\ connection' = Revoked(connection) /\ withdrawn' = TRUE
  /\ UNCHANGED <<attempt, reader, issued, charge, lost>>

-----------------------------------------------------------------------------
(* A caller reads the row; payments need ACTIVE, reconciliation accepts    *)
(* all but REVOKED. It goes on if the token expires or was refused.        *)
ReadToken(r) ==
  /\ reader[r].pc = "idle" /\ connection.token > 0
  /\ connection.status \in {"ACTIVE", "DISCONNECTED", "ERROR", "REAUTH_REQUIRED"}
  /\ reader' = [reader EXCEPT ![r] = [pc |-> "read", status |-> connection.status,
                                           since |-> 0]]
  /\ UNCHANGED <<connection, attempt, issued, charge, withdrawn, lost>>

(* The lease is free or has run out; otherwise the caller makes do with    *)
(* the stored token or gives up.                                           *)
TakeLease(r) ==
  /\ reader[r].pc = "read"
  /\ IF connection.held
     THEN reader' = [reader EXCEPT ![r] = Calm] /\ connection' = connection
     ELSE /\ reader' = [reader EXCEPT ![r].pc = "leased", ![r].since = connection.refreshes]
          /\ connection' = [connection EXCEPT !.lease = r, !.held = TRUE]
  /\ UNCHANGED <<attempt, issued, charge, withdrawn, lost>>

LeaseRunsOut ==
  /\ connection.held /\ connection' = [connection EXCEPT !.held = FALSE]
  /\ UNCHANGED <<attempt, reader, issued, charge, withdrawn, lost>>

(* Faulty: whoever was refreshed writes.                                   *)
HoldsAnyway(r) == TRUE

(* A lease that ran out still counts until another took it.                *)
HoldsLease(r) == connection.lease = r

(* The provider refreshed the token: it is written under the lease, with   *)
(* the status derived from the row as it was read.                         *)
RefreshSucceeds(r) ==
  /\ reader[r].pc = "leased" /\ issued < MaxIssued /\ issued' = issued + 1
  /\ IF HoldsLease(r)
     THEN /\ connection' = [connection EXCEPT
               !.status = IF reader[r].status = "DISCONNECTED" THEN "DISCONNECTED" ELSE "ACTIVE",
               !.token = issued + 1, !.lease = Nobody, !.held = FALSE,
               !.refreshes = @ + 1]
          /\ lost' = (lost \/ connection.refreshes # reader[r].since)
     ELSE UNCHANGED <<connection, lost>>
  /\ reader' = [reader EXCEPT ![r] = Calm]
  /\ UNCHANGED <<attempt, charge, withdrawn>>

(* The provider refuses the grant or the credential is unsupported: the    *)
(* row is marked by its id, whoever holds the lease.                       *)
RefreshRefused(r) ==
  /\ reader[r].pc \in {"read", "leased"}
  /\ connection' = [connection EXCEPT !.status = "REAUTH_REQUIRED", !.lease = Nobody, !.held = FALSE]
  /\ reader' = [reader EXCEPT ![r] = Calm]
  /\ UNCHANGED <<attempt, issued, charge, withdrawn, lost>>

RefreshFails(r) ==
  /\ reader[r].pc = "leased"
  /\ connection' = IF HoldsLease(r)
                   THEN [connection EXCEPT !.status = "ERROR", !.lease = Nobody, !.held = FALSE]
                   ELSE connection
  /\ reader' = [reader EXCEPT ![r] = Calm]
  /\ UNCHANGED <<attempt, issued, charge, withdrawn, lost>>

(* A checkout reads the store, and commits the order with its payment      *)
(* later: disconnecting is not serialised with it. The charge is created   *)
(* with a token read before.                                               *)
BeginPayment ==
  /\ charge = "NONE" /\ connection.status = "ACTIVE" /\ connection.mode = "ONLINE"
  /\ charge' = "READING" /\ UNCHANGED <<connection, attempt, reader, issued, withdrawn, lost>>

CommitPayment ==
  /\ charge = "READING"
  /\ charge' = "PENDING" /\ UNCHANGED <<connection, attempt, reader, issued, withdrawn, lost>>

CreditPayment ==
  /\ charge = "PENDING" /\ connection.status = "ACTIVE" /\ connection.token > 0
  /\ charge' = "CREDITED" /\ UNCHANGED <<connection, attempt, reader, issued, withdrawn, lost>>

ChargePayment ==
  /\ charge = "CREDITED"
  /\ charge' = "CHARGED" /\ UNCHANGED <<connection, attempt, reader, issued, withdrawn, lost>>

SettlePayment ==
  /\ charge \in {"PENDING", "CREDITED", "CHARGED"}
  /\ charge' = "NONE" /\ UNCHANGED <<connection, attempt, reader, issued, withdrawn, lost>>

ConnectionNext ==
  \/ \E a \in Attempts : \/ StartOAuth(a) \/ CallBack(a) \/ ClaimAttempt(a)
                         \/ CompleteOAuth(a) \/ FailOAuth(a)
  \/ \E mode \in {"MANUAL", "ONLINE"} : SetPaymentMode(mode)
  \/ \E r \in Readers : \/ ReadToken(r) \/ TakeLease(r) \/ RefreshSucceeds(r)
                        \/ RefreshRefused(r) \/ RefreshFails(r)
  \/ Disconnect \/ Deauthorize \/ LeaseRunsOut
  \/ BeginPayment \/ CommitPayment \/ CreditPayment \/ ChargePayment \/ SettlePayment

ConnectionSpec == ConnectionInit /\ [][ConnectionNext]_connectionVars

-----------------------------------------------------------------------------
(* The row makes sense whatever was in flight: an active connection has a  *)
(* credential, a revoked one has none, and a charge that exists at the     *)
(* provider can still be looked up, unless the seller withdrew access.     *)
CredentialFollowsStatus ==
  /\ connection.status = "ACTIVE" => connection.token > 0
  /\ connection.status = "REVOKED" => connection.token = 0
  /\ charge = "CHARGED" /\ ~withdrawn => connection.token > 0

(* Each authorisation is exchanged once, and no refresh replaces the       *)
(* credential of a refresh that was written after it took its lease: a     *)
(* lease that ran out only counts while nobody else took it.               *)
CredentialWrittenOnce ==
  /\ ~lost
  /\ \A a \in Attempts : attempt[a].working + attempt[a].done <= 1
=============================================================================
