# PedidoLocal: TLA+ models and proofs

PedidoLocal is a multi-tenant ordering system for food stores: a Next.js application over
PostgreSQL (Prisma), a Cloudflare Worker (`workers/order-events`) that consumes a queue and runs
a cron every minute, Pusher and Web Push towards screens, and Pix payments at Mercado Pago. This
directory holds TLA+ models of the parts where its correctness is hardest to test: the life of an
order and of its events, and the services around it (loyalty, offers and prices, checkout and till,
tables, push, webhooks, the provider's connection, consumers' codes, the board's feed); the TLC
instances that check them, and TLAPS proofs of what matters most.
Paths below are relative to the repository.

## 1. Inventory

State lives in PostgreSQL; services are transactions over it, and almost every interesting
behaviour comes from two transactions that overlap, from one that commits and whose sequel is
lost, or from an external answer that arrives late.

| component | state | operations | hard behaviour | what makes it correct |
|---|---|---|---|---|
| order workflow (`order-workflow.service.ts`, `domain/orders/order-workflow.ts`) | `orders`, status history | advance, cancel, undo | staff act on stale screens; undo within 2 minutes | no decision on an old row; status follows payment; only the last change is undone |
| order payment (`order-payment.service.ts`) | `payments`, payment history | confirm, fail, retry, refund, customer's report | races with status changes; two tables | order and payment row agree |
| internal notes | notes, order version | add | moves the version under everybody else | nobody loses a step to a note |
| order creation (`order.repository.ts`, checkout quote, coupons, offers, idempotency) | order, claims | storefront, table and counter checkout | limits under concurrency, retries | limits kept, one order per attempt |
| Mercado Pago Pix (`mercado-pago-payment.service.ts`, `transition-matrix.ts`) | `mercado_pago_payments`, reservations, alerts | create, recover, synchronise, expire | lost answers, duplicates, late approvals, crash between call and record | paid before kitchen, nothing dropped silently |
| Mercado Pago webhook and connection | webhook inbox, credentials | lease, process, refresh | leases, retries, disconnection with open payments | every notification processed or reported |
| outbox: dispatch, relay, processor, worker, replay, retention | `order_outbox_events`, queue, dead-letter queue | see section 3.3 | at-least-once, lost claims, kills, timeouts | every event settled, none lost in silence |
| operational outbox of the dining room (`operational-outbox.service.ts`) | `operational_outbox_events`, the same queue | create, relay, process, purge | decides by one early read, has no pass over exhausted rows | nothing the orders' outbox could not do |
| SLA alerts, Web Push (consumer, store) | their own rows with leases | reconcile, deliver | same family as the outbox | once per device and event |
| loyalty, relationship, campaigns | cycles, contributions, rewards | project, reserve, redeem, expire, restore | duplicate and reordered completions | one contribution per order, reward neither lost nor spent twice |
| dining tables, POS drafts | sessions, requests, drafts | open, transfer, close; hold, convert | several terminals | one open session per table, a draft converted once, as saved |
| offers and prices (`offer.service.ts`, `checkout-quote.service.ts`) | promotions and the offers that mirror them | create, move, pause, archive; quote | two rows of one promotion; rounding and limits | promotions never two at a time on a product, the price that is advertised |
| consumer identity | codes, identities, sessions | request, resend, verify, claim, change address, sign out | a code replaced or cancelled between comparison and use | signed in only with what was proved |
| store settings, catalog, queries, reports, UI | rows and projections | forms, reads | little concurrency | ordinary tests |
| realtime client (`use-order-realtime.ts`, `use-orders.ts`) | query cache | refetch, deduplicate | late and reordered events | board converges to the rows |

Interaction: every service that changes an order writes rows, history, audit and outbox events in
one transaction. After the commit `dispatchCommittedOrderEvents` tries to deliver the events; what
it does not deliver the cron relays to the queue, whose consumer projects them into loyalty and
relationship and publishes them. Mercado Pago is called outside transactions, its answers are
recorded in later ones, found by webhook, by the customer's tracking page or by the cron.

`PROJECT.json` lists the components with their status, and the hazards at their lines.

## 2. Plan

Done:

1. `OrderWorkflow`, `OrderLifecycle`, `OrderPromise`: the order, its payment, its claims and the
   Pix service, with proofs of every property the runs check.
2. `OrderOutbox`, `EventDelivery`: the way of an event, with the refinement and proofs of all its
   safety.
3. `CustomerLedger`, `RelationshipRules`: contributions, cycles, rewards, snapshots and campaigns
   under duplicated and reordered completions. Its input is what `EventDelivery` promises: an event
   may be projected again at any time after its commit.
4. `WebhookInbox`, `ProviderConnection`, `PushDelivery`: executions under leases.
5. `DiningRoom`, `TillDrafts`, `CheckoutAttempts`: shoppers, waiters and tills on screens out of date.
6. `QuotePricing`, `OfferSchedule`, `OfferCatalog`: prices and offers, with a proof.
7. `ConsumerAccess`, `NotificationFeed`: consumers' codes and sessions, the board's feed.
8. `OperationalOutbox`: the outbox of the dining room, as an implementation of `OrderOutbox`.
9. `StoreServicesProofs`: the parts' theorems for the store that has them all.

Left: the rotation of Mercado Pago idempotency keys, the telephone codes of consumers, the composition
of combos. No safety property of a run is left without a theorem.

## 3. Modules

### 3.1 OrderWorkflow

The pure rules: shapes of an order, `FORWARD_TRANSITIONS`, `canCompleteOrder`, the transitions of
payments, `decideMercadoPagoTransition` and the status mapper, and the CHECK constraints on orders
(`RowCheck`), which the database evaluates on every write. `REVIEW` stands for every provider
status the mapper does not know.

### 3.2 OrderLifecycle, OrderPromise

State: the order row (status, payment status, version), the payment row, the last status change
(for undo), the set of outbox events, the offer usage, the coupon reservation and counter, the
charge as recorded and the charge as it is at Mercado Pago (`remote`), open alerts, the age of the
order's Pix, what each member of staff has on screen (`seen`), and what each gateway execution is
in the middle of (`job`).

- A dashboard transaction reads and writes in one action: its reads are repeated by the WHERE of
  its compare-and-set, and a refused one has no effect. The staleness that matters is the screen's,
  `seen`, whose version is the `expectedVersion` of the request.
- A gateway transaction decides from what it read before its compare-and-set, hence two actions
  (`ReadForSync` and `RecordSync`, `CommitNoted` or `CommitSync`; `ReadForFailure`/`CommitFailure`).
- HTTP calls are actions of their own; `ChargeLost` is a call that took effect and whose answer was
  lost, `Abandon` an execution that is killed or lost its compare-and-set.
- CHECK constraints are guards. The deferred trigger that compares order and payment
  (`20260722172000_payment_consistency_guard`) is *not* a guard: `PaymentRowAgrees` shows that it
  never fires.
- Alerts `ORDER_CREATE_*` are resolved for the whole store by a successful synchronisation, as in
  the code. The two-minute window of undo is a free choice. An order created and accepted at the
  counter writes two history rows with the same time, so that which is the last one is free.

`OrderPromise` says what anyone may rely on looking at status and payment alone: the kitchen's
order of steps, delivery only when paid, cancellation never of a paid order, undo within the
kitchen. `PromiseKept` is the refinement.

### 3.3 OrderOutbox, EventDelivery

State: the outbox rows of one order (status, attempts, lock, token, due, queued), the queue and the
dead-letter queue as sets of events, what was published and projected, and the progress of each
dispatch, consumer and relay. One action is one statement, send or publication, and each execution
may die between any two.

- Delivery is at least once: `Receive` may leave a copy in the queue; a returned message may
  instead go to the dead-letter queue (`max_retries`).
- Reading a row and claiming it is one action, because the claim's WHERE repeats what the read
  decides; what follows a refused claim is a later read (`Examine`).
- `availableAt`, `CLAIM_TIMEOUT_MS` and `STALE_QUEUE_MS` are flags that only time changes
  (`BecomesDue`, `LockExpires`, `QueueingExpires`); a lock may expire under a living consumer.
- The batch limit of the relay (100 rows) and the grouping of different orders do not appear: the
  model has one order.

`EventDelivery` is the promise: an event is delivered only after it was published and, where it has
one, its projection stored; what is delivered stays so; only a dead event is taken up again.

**OperationalOutbox** EXTENDS `OrderOutbox` by one variable and takes its statements over: the dining
room's events have a table of their own, whose claims, relay and retention are the same SQL with other
names, and travel through the same queue and worker. What differs is the consumer. It reads the row
once (`ReadEvent`), before it claims; it goes by that read when the claim is not made, gives an exhausted
row up by a conditional update (`GiveUp`), does not look again when its claim is refused (`RefusedClaim`),
and after an error goes by the number of its own attempt (`Spent`) whatever became of the row (`Recover`).
`reading` is what it remembers. There is no dispatch from the request (the announcement after the commit
touches no row, and dispatch is the mode `none`), no projection (`Project` is the check of the payload), no
pass over exhausted rows and no replay. Events are those of one table session. `MCOperationalOutbox`
checks both outboxes, of which one works in a behaviour (`table`).

### 3.4 The services around the workflow

Each module below has its state, its operations and one or two properties of its own. They share no
state, so that `MCStoreServices` checks them in one run: a behaviour is one of a part, chosen at the
start by `part`, while the others rest in their first state. Three parts have no steps: their
computations are compared with reference definitions over the inputs of `ServiceSamples`.

**CustomerLedger** (`loyalty.service.ts`, `customer-relationship.service.ts`,
`customer-return-campaign.service.ts`). State: program versions, cycles with the reward each pays,
which order counts where, the relationship snapshot, campaigns with their recipients, and the
customer's orders with the events not yet projected. A projection is one action, because it runs under
the customer's advisory lock; it may happen at any time, again, and in any order, and the claims after
an identity is confirmed do the same for old orders. The moment an order was delivered decides for
which program it counts (`InForceAt`). Rewards expire when somebody reads them. `Checkout` lets an
order take a reward although the code refuses such a checkout today (finding `refused_reward`): the
ledger is checked for the day when it does not.

**RelationshipRules**: the segment of a customer twice, in TypeScript and in SQL. Averages are
quotients of integers, times are days.

**WebhookInbox** (`mercado-pago-webhook.service.ts`). State: the rows of the inbox, what each
execution read and holds, the alerts raised. An execution selects a batch, claims with the time it
started at, handles, and marks or fails; it may be killed between any two.

**ProviderConnection** (`mercado-pago-connection.service.ts`). State: the connection with its status,
credential and lease, the OAuth attempts, what each caller of `getMercadoPagoAccessToken` holds, and
one online payment. Every call to the provider lies between a read and a write. Credentials are
numbers, a later one is higher.

**PushDelivery** (`web-push-*.service.ts`, `store-*push*.service.ts`, `order-operational-sla-*.ts`).
State: the order and the plan it follows, the associations of one device for its consumer and for
the staff, dispatches, alerts and deliveries, the executions under two leases, and what the device
showed. The plans bound what becomes of the order. A delay after a failure (`availableAt`) only
postpones a claim that may wait for ever anyway. `terminalNotifiedAt` has no part: since nothing
leaves a terminal status only one of them can be told; nor has the comparison of the order's version
with the event's, because an event is visible only with its order.

**DiningRoom** (`dining-table-session.service.ts`, `dining-table.service.ts`). State: tables, sessions
with their version, the orders of each, open requests, and the session each waiter has on screen. The
orders move through the rules of `OrderWorkflow` and of the provider. Left out: entitlement switches,
names and tokens of tables, the cooldown of requests (it delays only).

**QuotePricing** (`checkout-quote.service.ts`): the price of a cart as the server computes it from
discounts, in the order it applies them, and, as the reference, the price counted unit by unit
(`PricedAsAdvertised`). A cart has one line of a product and one of combos. The older path of
promotions, which no quote reaches since every promotion has its offer, is left out, and the zone that
gives the delivery fee is taken as resolved.

**OfferSchedule** (`domain/offers/schedule.ts`): the scan of `offerSchedulesOverlap`, against a search
for a common moment.

**OfferCatalog** (`offer.service.ts`): promotions and the offers that mirror them, each operation one
Serializable transaction with its version check. A schedule is the set of moments at which it is
active. `Own` is the guard of the offers page, which sends no canonical offer of a product to the operations
of promotions; the operations themselves would take an offer of any kind. Promotions are compared with
promotions: a canonical offer may be active together with one, and the model says nothing against it.

**CheckoutAttempts** (`checkout-form.tsx`, `checkout-idempotency.ts`, `order-idempotency*.ts`,
`features/orders/actions.ts`). State: the form, its quote and its keys in memory and storage, requests
and answers on their way, the orders, the price in force, and a log of what the shopper confirmed. A
key is the place in the log of the confirmation that made it.

**TillDrafts** (`pos-draft.service.ts`, `pos-order.service.ts`, `pos-workspace.tsx`). State: the draft,
what each till shows, the orders asked for and created. The server reads the draft (`Rebuild`) before
the transaction that converts it (`CreateFromDraft`). Once the draft is converted neither asks for its
version, so that a late request for an earlier one creates an order of its own (finding `draft_twice`).

**NotificationFeed** (`order-query.service.ts`, `use-orders.ts`, `order-notifications.ts`,
`use-order-realtime.ts`). State: the time, the audit rows with the time each was written and whether it
is visible, and what the page remembers. Sounds are counted per page; time does not pass during a poll.
The page remembers rows in the order in which they came, so that forgetting the old ones is forgetting
the first (`Kept`; `FeedTypeOK` states the order). `read` is what a poll read since it last moved the
cursor: a poll that reads one of those again goes round in circles, while one that moved on does not.

**ConsumerAccess** (`consumer-auth.service.ts`, `consumer-session.service.ts`). State: challenges with
their change request, identities, the identity of a customer, sessions. A comparison of a code changes
nothing and its transaction may come at any time later, so that `VerifyCode` takes any code that the
challenge ever had: any number of executions is covered without a state for them. The confirmation of a
login, that of a change of address and the request for another code take the token of whatever challenge
they find. The code of a change that is posted to the login signs in the identity that has the new
address, or a new one, and leaves the change pending with its challenge used up; the change reads its own
challenge first and compares the code again under the lock (`StillMatches`), since another may have been
sent meanwhile. Only codes that the application sends by e-mail; `MaxCodes` and `MaxGuesses` stand for
the rate limits.

## 4. Runs

| run | question | bounds |
|---|---|---|
| `one_order` | do rows, payment and outbox agree after every step of staff, customer and gateway; is an online order paid first, announced once and never dropped in silence? | one order of any of six shapes; at the counter two members of staff (one a manager), 6 versions, one coupon and one offer; online two gateway executions against one manager, 4 versions (`OnlineVersions`), no claims |
| `limited_claims` | are limits kept, and are claims settled? | two orders (online or cash), one use of each limit, one gateway, 2 versions |
| `outbox_tables` | does a batch keep the order of versions, and is a consumer of the dining room, which decides by an early read, within what the orders' outbox allows? | either two events of one order, one consumer and no cron, or the end of one session, two consumers and the relay; 2 attempts, no replay |
| `outbox_contention` | is the promise kept, is no event given up early or lost in silence? | one event, two consumers, one relay, 2 attempts, one replay |
| `outbox_recovery` | is every event settled in the end? | one event, one consumer, one relay, 2 attempts |
| `store_services` | does each service keep its books whatever overlaps, is lost or repeated? | the table below |
| `table_refund`, `overdue_pix`, `late_payment`, `draft_twice`, `promotion_quantity`, `refused_reward` | documented behaviour the code contradicts | as above; one till, two contents and versions 0 to 3 of a draft; the sample carts |

Why these bounds are enough to be interesting: two actors are what a race takes; six versions let an
order go through the kitchen, be undone and be worked on again; the coupon and the offer have one
use, so that every second claim meets the limit; two attempts give a first, a last and an
exhausted attempt (the code has five, and treats those between alike). `MaxVersion`, `MaxAttempts`,
`MaxReplays`, `MaxUsages`, `MaxOfferUses` and, in `one_order`, `OneOrderBound` (an action constraint, which
gives an online order `OnlineVersions`, one screen and no claims) are the only bounds of the order's
models; the age of a Pix has three values (fresh, expired at the provider, reservation ran out).
Claims of online orders are left to `limited_claims`. There nobody is on the staff: that they are settled
when staff cancels or delivers is proved (`EveryClaimSettled`), not checked.

The parts of `store_services`:

| part | properties | instance |
|---|---|---|
| ledger | `CreditWhereDue`: an order counts exactly if a program was active when it was delivered. `CyclesAddUp`: a cycle pays one reward when it is full. `RewardSpentOnce`. `SnapshotMatchesHistory`: the snapshot is that of the orders it was told of, in any order. `ConversionIsUse`: a campaign converts by the order that used it | three orders, two versions of the program, one campaign, days on both sides of the limits |
| segments | `SegmentsAgree`: TypeScript and SQL agree | every average at and between the thresholds |
| inbox | `TriesWithinReach`: attempts exceed the limit by no more than the executions side by side, no alert comes early | two notifications, two executions, two attempts |
| connection | `CredentialFollowsStatus`, `CredentialWrittenOnce`: the credential fits the status, serves open charges, and no refresh writes over what a later refresh wrote (a credential that a new authorisation brought is not counted) | two callers, one authorisation beside the first, three credentials |
| push | `NewestLast`: no older status after a newer one. `OneCopyPerClaim`: a copy more only for a lapsed lease or a lost record | one order of four versions, two executions, two claims |
| dining | `BillsSettled`: one open session at a table, closed bills stay settled. `ClosedAsSeen`: a session is closed as the waiter saw it | two tables, orders and sessions |
| pricing | `QuoteIsAdvertised`: the quote is the price counted unit by unit | the sample carts |
| schedule | `OverlapsFound`: the scan finds exactly the schedules that meet | pairs of schedules in a week of three days of four minutes |
| catalog | `PromotionsApart`: promotions alone never give a product two offers at one moment | two offers, products and moments, three writes |
| attempts | `OneOrderPerCheckout`: repeating a confirmation makes no second order | two carts, notes and prices, two confirmations |
| drafts | `ConvertedAsSaved`: a draft is converted as it was saved last, and no saved version is ordered twice; that it gives one order is not so (`draft_twice`) | two tills and contents, versions 0 to 3 |
| feed | `NewOrdersRing`: a new order has rung when a poll ends, an old one does not ring | three rows, four minutes, a page of one row |
| access | `AccessIsProved`: a device is signed in only with the address and the code proved last, and a challenge is used once, to admit one device or to complete a change | two addresses and customers, three codes, two guesses, two devices |

`ServicesTypeOK` joins the parts' type invariants. The cases that matter occur in these instances: each
property has a faulty variant of the code (`Faulty:` in the modules) that it catches there. Larger
instances were explored once and held: `CheckoutAttempts` with three confirmations (6.7 million
states), `TillDrafts` with one version more, `NotificationFeed` with four rows, a page of two
and a larger memory (0.9 million), `ConsumerAccess` with four codes (7.4 million).

Orders and the parts' behaviours end, hence no deadlock check. Symmetry is used only for names nothing
distinguishes, and in no run with liveness. In `store_services` the parts share the names `x1` and `x2`,
which are exchanged everywhere at once; since a part at rest has one first state, this is the symmetry
of the part that moves. For the same reason the run looks at the moving part only (`VIEW Moving`): what
it leaves out of a state is the same in all of them.

### Findings

- `table_refund`: the CHECK on table orders refuses the refund of a delivered one, which the payment
  workflow and the documents admit.
- `overdue_pix`: `failCreation` commits a FAILED creation although its compare-and-set on the order
  was lost; the cron never selects the order again.
- `late_payment`: an approval after the reservation ran out can break the coupon's CHECK, and the
  paid order is never recorded as such.
- `draft_twice`: a till asks for the order of a draft, hears nothing, saves the draft again and asks again,
  which converts it. The first request arrives late: a converted draft is asked for no version and the key
  of the request is new, so that it creates a second order. The documents promise exactly one.
- `promotion_quantity`: a promotion lowers the price of one unit of a line, where the menu shows it for
  the product and the documents limit it in time only.
- `refused_reward`: every checkout with a loyalty reward is refused, because the order's totals are
  checked without the reward's discount.

### Fairness

Only `outbox_recovery` uses fairness. It presupposes a deployment whose cron runs the relay
(`ORDER_OUTBOX_RELAY_ENABLED` is `true` in `wrangler.order-events.jsonc`). Clocks run; an execution moves on or is killed (weak fairness
of `RelayWorks`, `ConsumerWorks`). Strong fairness is asked of the send and the record of a relay
and says that Cloudflare and the database do not fail at the same step every time. Two conditions
put time scales into words: `HandsOver`, the record of a send follows it within milliseconds while
a refused message returns after five seconds, so that not every message is gone before its row is
free; and `Served`, a row that is free while its message is about is claimed sooner or later, because
messages are retried within seconds and a row stays free for fifteen minutes. Nothing requires
any handling to succeed: an event may end as FAILED, but it ends. The other runs check safety and assume nothing.

Nothing live is claimed of the dining room's outbox. A row whose last attempt was killed, and whose message
the queue then gave to the dead-letter queue, stays open, since its relay passes exhausted rows over and
no pass reports them; no document promises otherwise. What holds is `NoneLostInSilence`: the operator has
its message, or a message still leads a consumer to it.

## 5. Proofs

The theorem modules EXTEND the modules they prove about and hold for any values of the constants that
the modules' named ASSUMEs admit. Nothing else is assumed, and the runs evaluate those. Seldom is a
property inductive as it stands; each section below names the stronger invariant that is, and why it takes it.

### 5.1 Orders: OrderLifecycleProofs

`TypeCorrect` comes first: what the building blocks of a writer produce, then every action. Then

    Inv == TypeOK, ActorsSawPlaced, LastForwardUnrefunded, PaymentRowAgrees,
           StatusAgreesWithPayment, OnlinePaidBeforeKitchen, VersionPinsRow

is inductive (`InvInit`, `InvStep`, `Invariance`), and from it `PaymentAgreement`, `VersionPinning`,
`StatusPaymentAgreement`, `OnlinePaidFirst` and the refinement `PromiseRefinement`. A stale screen or
a half-done gateway transaction is harmless only because the version it holds pins the row
(`VersionPinsRow`), which in turn needs that actors hold only rows of placed orders
(`ActorsSawPlaced`); undo returns to an earlier status and keeps the payment, and the promise that no
refunded order is worked on needs that a status that may still be undone is not refunded
(`LastForwardUnrefunded`). The argument goes writer by writer: `RowStep`, `SeenStep`, `JobStep` and
`HistoryStep` say what any step may do to rows, screens, jobs and history, and `InvStep` combines them.
The refinement needs `Inv` for the steps whose guard alone does not give the promise's.

The other properties follow from `Inv` and a stronger invariant each.

- Events: every step is quiet, creates one order, or is one write of an order together with the
  events the code announces with it (`EventStep`). Hence `EventInv` (each placed order is `Covered` and
  `Announced`), `OutboxCovers` and `AnnouncedOnce`. `OnlyUndoGoesBack` needs no more than `Inv`.
- Claims: `ClaimInv` says that reservation and offer usage fit the order's status and payment, that
  limits are kept, and (`HeldIsCurrent`) what remains true of a reservation that an open gateway
  transaction read and another has changed since. From it `CouponWithinLimit`, `OfferWithinLimit`,
  both as `ClaimsWithinLimits`, and `EveryClaimSettled`.
- Alerts: `DivergenceAlerted`. `AlertInv` adds to the property (`LagIsAlerted`) that money a transaction
  has read is still there when it commits, and that only placed orders have a charge.

### 5.2 The way of an event: OrderOutboxProofs

First, what a step can do to a row, a consumer and a relay (`RowStep`, `ConsumerStep`,
`RelayStepMoves`), for any events, consumers, relays, attempts and replays. Then

    TypeInv == TypeOK, Handling
    FailInv == TypeInv, ClaimsOpen, BatchStands, FailedAfterEveryAttempt, FailedReachesDeadLetters

are inductive. `ClaimsOpen` ties a token to PROCESSING and says that a row waiting for a claim
has attempts left; `BatchStands` says that what a relay holds of the batch it claimed still stands, and that
what it has reported as exhausted lies in the dead-letter queue: without it a relay that records a
failure would be a failure without a report. From them `OutboxTypes`, `GivenUpAfterEveryAttempt` and
`GivenUpIsReported`. `ExhaustedReported` adds the rows whose attempts are used up while they are open, step
by step: the message that leads to one leaves the queue for a consumer or the operator only, and a
consumer acknowledges what is settled only. The two make `NoneLostInSilence` (`SpentIsReported`).
`VersionsInOrder` proves the order within a batch when nothing is replayed, as
for the orders in `outbox_tables`, and with relays, which they do without there: a replayed event may follow a later one.

The refinement `DeliveryRefinement` follows from `FailInv` and three facts: outbox work is about
committed events, a dispatch that is past a step has done it, and so has a handling. There is one
lemma for the steps of each actor (`DispatchImplements`, `RelayImplements`, `ConsumerImplements`,
`RestImplements`).

The dining room's outbox implements the orders' outbox (`OperationalRefinement`: `OperationalSpec => Spec`,
the same variables without `reading`), for stores without a dispatch from the request and without replays,
which it has not. The hard case is a decision by what was read: it is a step of `OrderOutbox` only if what
was read still says enough. That is `ReadingStands`, inductive together with `OrderInv`:

    OperationalInv == OrderInv, NothingBuried, the type of reading, ReadingStands for each consumer

A row read as settled or failed remains so (settled rows are purged at most, and nothing is replayed); while
a consumer works, the attempts of its row are no fewer than its own, no more as long as it holds the claim,
and if its attempt is the last, the row is still its own or has been given up, since nobody else may claim it.
Only of an exhausted row may the read be out of date, which the conditional update of `GiveUp` repeats.
One lemma shows that what is read lasts over the steps of the others (`ReadingStays`), one that a consumer's own
steps leave a true reading (`OwnReading`), and two that the answers are steps of `OrderOutbox`
(`AnswerImplements`, `RecoverImplements`). `DeadLettersAreFailed` is a part of the invariant, and by the
refinement `OperationalInherits` carries all that is proved of `OrderOutbox` over, `DeliveryKept`
and `NoneLostInSilence` included.

### 5.3 The counter and the owner: CounterProofs

- `BillsStaySettled` and `WaitersCloseWhatTheySaw` from

      DiningInv == DiningTyped, BillsSettled, ScreensCurrent

  A session is closed with what a waiter saw; `ScreensCurrent` says that as long as its version has not
  moved, the screen shows the very orders of the session, because every order that joins moves it.
- `DraftsConvertAsSaved`. A request of a till carries a version, and the server rebuilds the order before
  the transaction that converts the draft. `DraftsInv` adds to the property that a version is in the hands
  of one till (`HeldOnce`, `HeldSaved`), that what was rebuilt is what the draft still holds at that version
  (`RebuiltAsSaved`), and that a converted draft and its order come together (`ConvertedToOrder`).
  That a draft gives one order is not so: `draft_twice` shows the late request.
- `EveryNewOrderRings` from `FeedInv`. A row not told of is after the cursor or within the overlap (`HeardOK`),
  because a transaction is shorter than the overlap, and what a page leaves out comes after its last row. What is
  kept of the memory is its end (`KeptAre`), and what went before it was too old or the rest fills the window;
  in the second case the window and one row more are distinct rows, a crowd (`ManyRows`). So a row of the
  opening is remembered or excused (`KnownOK`), and so is what the current poll has read, which lies at the
  end of the memory (`ReadOK`).
- `PromotionsNeverMeet` from

      CatalogInv == CatalogTypeOK, Mirrored, Compared

  `Mirrored` says that a promotion's row and its offer agree: `WindowAvailable` reads promotions, a
  quote reads offers. `Compared` says that two live promotions of a product share no moment, which is
  what `WindowAvailable` keeps up. `PromotionsApart` itself is not inductive: it says nothing of a
  promotion without its offer.

### 5.4 The shopper: StorefrontProofs

- `AccessFollowsProof` from `AccessInv`. The property counts devices and holders; the invariant says the
  same without counting (`SigninsProved`: each challenge that admits has one sign-in, which has the code and,
  while it lasts, the address of the challenge that proved it last; `IdentitiesSound`). A challenge that is used
  remains so, and keeps what it was used for (`StaysUsed`), whichever confirmation takes the next token. A lemma about sets with at most one member turns it into
  cardinalities. The limit of devices needs one more argument: sign-in keeps the newest `MaxActive - 1`
  others, a set found by its size and not by an order of events.
- `ConfirmedOnce` from

      CheckoutInv == AttemptsTypeOK, LogOK, OrdersOK, TurnedOK, RecordOK, AnswerOK, AnswersHeard

  The log of confirmations carries the argument: a key is the place of the first confirmation that
  carries it (`LogOK`), a second key for the same purchase is fresh only after the shopper turned away
  from the first or its order was cancelled (`TurnedOK`), and the record in the browser is that of the
  latest confirmation unless that is settled (`RecordOK`), which is what makes a repetition find its key.
  `AnswerOK` and `AnswersHeard` say what answers on their way may say.
- `OverlapIsFound` (and `OverlapExact`, in the words of the run): the fifteen dates that the code scans are
  enough for any week, windows and dates. A schedule that is active is active whole weeks before as well, once
  it has begun on the day before (`ActiveAlike`), so a later meeting has its like in the week after the
  first date. Two schedules without a first date are scanned from a Monday of the year 2000; the theorem asks
  that neither ended before a week from then (`ScansAWeek`): the code is younger than that.
- `EveryCartAsAdvertised`, for a cart of any units, offers, coupon, reward or discount of the till
  (`Cart`): counted unit by unit, an offer saves what its applications save. The sum goes from unit
  to unit (`SumOfUnits`), through a group by what its first units have saved (`GroupSaves`) and from group to
  group (`NextUnitSaves`). After that each discount lies between zero and what the one before left
  (`CartSavingIs`, `CouponSavingIs`, `RewardSavingIs`), and the rest is arithmetic on the recorded amounts.

### 5.5 Work under leases: ProviderProofs

- `CredentialIsKept` and `NoCredentialOverwritten` from `ConnectionInv`: an authorisation is in the hands of
  one callback (`AttemptsConsumed`), no refresh was written since the caller that holds the lease took it
  (`LeaseFresh`), and a payment being charged keeps the credential (`ChargeCovered`).
- `AlertsAreLate` from `TriesInv`. The limit on attempts is overshot only by executions that had selected
  the notification before: attempts and the executions with a claim still to make stay together
  within `MaxTries + Cardinality(Executions) - 1`, which a claim leaves alone and a selection respects,
  because it takes rows below `MaxTries` only.

- `NotifiedInOrder` and `ShownOncePerClaim` from `PushInv`. Copies are bounded like attempts above: what was
  shown, the senders that can still show it (`Showing`) and one if the delivery may be claimed without a
  lapsed lease (`Spare`) exceed the excuses by one at most (`CopiesFine`). For the order of statuses, who works
  on one holds the association's lock, and what it decided to send is newer than all that counts (`OrderFine`).

### 5.6 The customer: CustomerProofs

- `CreditedWhereDue`, `EveryCycleAddsUp`, `NoRewardSpentTwice`, `ConvertedByUse` from `LedgerInv`: the books
  of cycles and contributions balance (`BooksOK`), a program in force at a past day stays so (`PurchasesOK`,
  `ProgramsOK`), what was settled and due counts (`SettledOK`), and the order that used a campaign's reward still
  holds it (`CampaignFine`). A claim of old orders credits a queue of any length in one step, so that
  its lemma goes by induction along the queue (`UpTo`).
- `SnapshotIsHistory`: the snapshot is written in two ways, column by column when the order is the newest and
  from all orders when it is not. The second sums the gaps of a sequence that was put in order: the sum
  telescopes (`UpTo` again), and a sum over a set of orders takes in a new one (`SumWithout`). The property is
  inductive together with what is told and to whom (`TellsSteps`).
- `SegmentsNeverDiffer` has no state: TypeScript rounds an average up and compares days, SQL compares
  products, and the theorem is about any numbers.

### 5.7 The store: StoreServicesProofs

`store_services` runs the parts side by side, and its properties speak of the whole. `ServicesApart` says that
a behaviour of the whole is one of each part: a step is a step of one of them and leaves the others' variables
alone. Checkouts and drafts, whose first states name symmetric values, are set up only when they are the part
that moves; otherwise they rest as they are (`ServicesRest`). From it `ServicesTyped`, and
`ServicesKeepPromises`: all that the parts promise, at once. The samples of the computations are shown to be
inputs that the theorems speak of (`FiguresOfCustomers`, `SampledTimetables`, `SampledCarts`), hence
`ServicesAgreeOnSegments`, `ServicesQuoteAsAdvertised` and `ServicesFindOverlaps`. The last takes its bounds from
the samples: weekdays 0 to 2 and ends at the dates 11 and 17 fit weeks of three to five days, windows reach
minute 3, and the run must look two weeks further than the last first date. The run has a week of three
days of four minutes and looks 30 dates ahead.

### 5.8 DataLemmas

Facts about numbers, sequences and finite sets that several proofs cite. `Least` (every set of numbers has a
least element) is proved from the well-foundedness of strict inclusion on finite sets, and gives `UpTo`, an
induction whose hypothesis is a set of numbers and not an operator. It is what the proofs use for the
recursive functions of the models, and for sums over a set (`SumWithout`, `SumOfSteps`), which are the
community modules' fold: the order in which it takes the elements is unknown, and makes no difference.

### 5.9 Only model-checked

`EventuallySettled`: liveness under fairness is out of the prover's reach. All
invariants, action properties and refinements of the runs that pass are theorems. The runs that end in
a violation show a counterexample, which needs no proof.

## 6. Not modelled

Most of the repository is interface: pages, forms, queries, projections to screens and their texts,
validated input, styles and tests, about which TLA+ has nothing to say that the compiler and tests do
not. That is why the models stand for about a tenth of its lines. Of the services:

Amounts, items, addresses and texts outside `QuotePricing` (orders are shapes); tenants (one store); the customer's tracking
token; rate limits; the fast Web Push path, which neither reads nor writes the outbox rows; queue
retention (messages never expire by age); the rows that loyalty writes into the operational outbox, which the
relay never selects; manual SQL. A statement takes effect and returns, or fails, or the execution that sent it
is killed: a commit whose answer alone is lost is a kill. Components with their reasons are in
`PROJECT.json`.
