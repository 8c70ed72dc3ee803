----------------------------- MODULE CustomerLedger -----------------------------
(***************************************************************************)
(* What a store remembers of one customer: the loyalty cycles and rewards, *)
(* the relationship snapshot and the return campaigns. All of it is fed by *)
(* the customer's orders through ORDER_COMPLETED and ORDER_CANCELLED,      *)
(* which the outbox projects at least once, late and in any order, and by  *)
(* the claim that follows the confirmation of an identity.                 *)
(*                                                                         *)
(* Advisory locks per customer make each projection one transaction, hence *)
(* one action. Reward r is the one cycle r pays: there is one per cycle.   *)
(***************************************************************************)
EXTENDS RelationshipRules, Sequences, SequencesExt, FiniteSets

CONSTANTS
  MaxPurchases,  \* bound: the customer's orders
  Days,          \* bound: the moments at which anything happens, in days
  Worth,         \* the total of each order
  Required,      \* requiredOrders an owner may ask for
  Validities,    \* validityDays, 0 for none
  MaxPrograms,   \* bound: versions of the program
  MaxCampaigns,  \* bound: return campaigns
  CampaignDays   \* validityDays of a campaign

Purchases == 1..MaxPurchases

ASSUME LedgerAssumption ==
  /\ MaxPurchases \in Nat
  /\ Days \subseteq Nat /\ Required \subseteq Nat \ {0} /\ Validities \subseteq Nat
  /\ Worth \in [Purchases -> Nat] /\ CampaignDays \in Nat \ {0}

VARIABLES
  today,
  program,       \* loyalty_programs, by version
  cycle,         \* loyalty_cycles, with the reward each pays
  credit,        \* loyalty_contributions: the cycle an order counts in, 0 for none
  purchase,      \* orders, as far as the ledger reads them
  snapshot,      \* customer_relationship_snapshots and the processed orders
  campaign,      \* return campaigns, each with its recipient and attributed orders
  verified,      \* the order's customer is linked to a verified identity
  settled        \* history: orders whose completion was projected for a verified customer

ledgerVars == <<today, program, cycle, credit, purchase, snapshot, campaign, verified, settled>>

NoSnapshot == [orders |-> {}, count |-> 0, total |-> 0, first |-> 0, last |-> 0, gaps |-> 0,
               intervals |-> 0, recovered |-> {}, segment |-> "NEW"]
NoReward == [status |-> "NONE", expires |-> 0, order |-> 0]

Program == [created : Days, updated : Days, active : BOOLEAN, required : Required, validity : Validities]
Cycle == [kind : {"ORDERS", "CAMPAIGN"}, required : Nat \ {0}, progress : Nat, validity : Nat,
          status : {"ACTIVE", "COMPLETED"},
          reward : [status : {"NONE", "AVAILABLE", "REDEEMED", "EXPIRED"}, expires : Nat,
                    order : Purchases \cup {0}]]
Purchase == [status : {"NONE", "OPEN", "DELIVERED", "CANCELLED"}, at : Days \cup {0}, paid : BOOLEAN,
             by : {"NONE", "STAFF", "GATEWAY"}, reward : Nat, due : BOOLEAN]
Campaign == [status : {"ACTIVE", "ENDED"}, created : Days, ends : Nat, reward : Nat,
             recipient : {"REWARDED", "RETURNED", "CONVERTED", "EXPIRED"},
             orders : SUBSET Purchases, used : SUBSET Purchases]
Snapshot == [orders : SUBSET Purchases, count : Nat, total : Nat, first : Nat, last : Nat, gaps : Nat,
             intervals : Nat, recovered : SUBSET Nat, segment : Segments]

LedgerTypeOK ==
  /\ today \in Days \cup {0} /\ verified \in BOOLEAN /\ settled \subseteq Purchases
  /\ program \in Seq(Program) /\ cycle \in Seq(Cycle) /\ campaign \in Seq(Campaign)
  /\ credit \in [Purchases -> 0..Len(cycle)] /\ purchase \in [Purchases -> Purchase]
  /\ \A o \in Purchases : purchase[o].reward <= Len(cycle)
  /\ \A k \in DOMAIN campaign : campaign[k].reward \in DOMAIN cycle
  /\ snapshot \in Snapshot

LedgerInit ==
  /\ today = 0 /\ program = <<>> /\ cycle = <<>> /\ campaign = <<>>
  /\ credit = [o \in Purchases |-> 0]
  /\ purchase = [o \in Purchases |-> [status |-> "NONE", at |-> 0, paid |-> FALSE,
                                      by |-> "NONE", reward |-> 0, due |-> FALSE]]
  /\ snapshot = NoSnapshot
  /\ verified \in BOOLEAN /\ settled = {}

(* Time passes; two writes whose order matters never share a moment.       *)
Later(t) == t \in Days /\ t > today /\ today' = t

Expired(reward, now) == reward.expires > 0 /\ reward.expires <= now

(* Bound: of orders that are alike the first moves on, which leaves out    *)
(* behaviours that differ by names only.                                   *)
FirstOfItsKind(o) == \A p \in 1..o - 1 : purchase[p] # purchase[o]

(* Rewards due to expire, as any reader of the ledger marks them.          *)
ExpireRewards(cycles, now) ==
  [c \in DOMAIN cycles |->
     IF cycles[c].reward.status = "AVAILABLE" /\ Expired(cycles[c].reward, now)
     THEN [cycles[c] EXCEPT !.reward.status = "EXPIRED"] ELSE cycles[c]]

-----------------------------------------------------------------------------
(* The owner publishes a version of the program, active or not.            *)
SaveProgram(required, validity, active) == \E t \in Days :
  /\ Later(t) /\ Len(program) < MaxPrograms
  /\ program' = Append([i \in DOMAIN program |->
                          IF program[i].active
                          THEN [program[i] EXCEPT !.active = FALSE, !.updated = t]
                          ELSE program[i]],
                       [created |-> t, updated |-> t, active |-> active, required |-> required,
                        validity |-> validity])
  /\ UNCHANGED <<cycle, credit, purchase, snapshot, campaign, verified, settled>>

(* An authenticated checkout, with the reward the customer chose: expired  *)
(* ones are marked first, and the reward is reserved and redeemed by two   *)
(* compare-and-sets of one transaction. Whether that transaction commits   *)
(* is a matter of its totals (OrderAccepts of QuotePricing).               *)
Checkout(o, r) ==
  LET current == ExpireRewards(cycle, today)
  IN  /\ purchase[o].status = "NONE" /\ FirstOfItsKind(o)
      /\ r > 0 => verified /\ current[r].reward.status = "AVAILABLE"
      /\ purchase' = [purchase EXCEPT ![o].status = "OPEN", ![o].reward = r]
      /\ cycle' = IF r = 0 THEN cycle
                  ELSE [current EXCEPT ![r].reward.status = "REDEEMED", ![r].reward.order = o]
      /\ UNCHANGED <<today, program, credit, snapshot, campaign, verified, settled>>

(* The order is delivered and paid.                                        *)
Deliver(o) == \E t \in Days :
  /\ Later(t) /\ purchase[o].status = "OPEN" /\ FirstOfItsKind(o)
  /\ purchase' = [purchase EXCEPT ![o].status = "DELIVERED", ![o].at = t, ![o].paid = TRUE,
                                  ![o].due = \E i \in DOMAIN program : program[i].active]
  /\ UNCHANGED <<program, cycle, credit, snapshot, campaign, verified, settled>>

Refund(o) ==
  /\ purchase[o].status = "DELIVERED" /\ purchase[o].paid
  /\ purchase' = [purchase EXCEPT ![o].paid = FALSE]
  /\ UNCHANGED <<today, program, cycle, credit, snapshot, campaign, verified, settled>>

(* The staff cancels an order without a provider and announces             *)
(* ORDER_CANCELLED; the gateway ends an online one with PAYMENT_UPDATED.   *)
(* Which of them an order is subject to shows only when it is cancelled.   *)
CancelPurchase(o, by) ==
  /\ purchase[o].status = "OPEN" /\ FirstOfItsKind(o)
  /\ purchase' = [purchase EXCEPT ![o].status = "CANCELLED", ![o].by = by]
  /\ UNCHANGED <<today, program, cycle, credit, snapshot, campaign, verified, settled>>

-----------------------------------------------------------------------------
(* Faulty: the active version, whenever the order was completed.           *)
ActiveNow(t) == {i \in DOMAIN program : program[i].active}

(* The version in force at t: created by then, and active or not yet       *)
(* replaced.                                                               *)
InForceAt(t) == {i \in DOMAIN program : /\ program[i].created <= t
                                        /\ program[i].active \/ program[i].updated >= t}

(* processLoyaltyForOrder after its lock: the order counts in the active   *)
(* cycle, or in a new one of the program in force when it was completed; a *)
(* full cycle pays its reward.                                             *)
Count(ledger, o) ==
  LET inForce == InForceAt(purchase[o].at)
      terms   == program[Max(inForce)]
      active  == {c \in DOMAIN ledger.cycle : ledger.cycle[c].status = "ACTIVE"}
      opened  == IF active # {} THEN ledger.cycle
                 ELSE Append(ledger.cycle,
                             [kind |-> "ORDERS", required |-> terms.required, progress |-> 0,
                              validity |-> terms.validity, status |-> "ACTIVE", reward |-> NoReward])
      c       == CHOOSE i \in DOMAIN opened : opened[i].status = "ACTIVE"
      full    == opened[c].progress + 1 >= opened[c].required
      paid    == [status |-> "AVAILABLE", order |-> 0,
                  expires |-> IF opened[c].validity = 0 THEN 0 ELSE today + opened[c].validity]
      counted == IF full
                 THEN [opened[c] EXCEPT !.progress = opened[c].required, !.status = "COMPLETED",
                                        !.reward = paid]
                 ELSE [opened[c] EXCEPT !.progress = @ + 1]
  IN  IF inForce = {} THEN ledger
      ELSE [cycle |-> [opened EXCEPT ![c] = counted], credit |-> [ledger.credit EXCEPT ![o] = c]]

(* Faulty: a redelivered completion counts again.                          *)
CreditTwice(ledger, o) == Count(ledger, o)

(* The contribution is unique by order: a redelivery finds it.             *)
CreditOrder(ledger, o) == IF ledger.credit[o] # 0 THEN ledger ELSE Count(ledger, o)

Ledger == [cycle |-> cycle, credit |-> credit]

(* Orders by the time of their completion.                                 *)
InOrder(S) ==
  {queue \in SetToSeqs(S) : \A i, j \in DOMAIN queue : i < j => purchase[queue[i]].at <= purchase[queue[j]].at}

(* nextAverageDays, and rebuildSnapshotMetrics for an order that arrives   *)
(* after a later one.                                                      *)
Chronological(snap, o) ==
  [snap EXCEPT !.orders = @ \cup {o}, !.count = @ + 1, !.total = @ + Worth[o],
               !.last = purchase[o].at, !.gaps = @ + Greatest({0, purchase[o].at - snap.last}),
               !.intervals = Greatest({1, snap.count})]

(* Faulty: every order is taken for the latest.                            *)
RebuiltNever(snap, o) == Chronological(snap, o)

Rebuilt(snap, o) ==
  LET orders == snap.orders \cup {o}
      queue  == CHOOSE q \in InOrder(orders) : TRUE
      at     == [i \in DOMAIN queue |-> purchase[queue[i]].at]
      n      == Len(at)
  IN  [snap EXCEPT !.orders = orders, !.count = n,
                   !.total = SumFunctionOnSet(Worth, orders),
                   !.first = at[1], !.last = at[n], !.intervals = n - 1,
                   !.gaps = SumFunctionOnSet([i \in 1..n - 1 |-> at[i + 1] - at[i]], 1..n - 1)]

(* processCustomerRelationshipForOrder: its effect on the snapshot.        *)
Projected(snap, o) ==
  LET t        == purchase[o].at
      before   == DeriveSegment(snap.count, snap.last, snap.gaps, snap.intervals, snap.recovered, t)
      metrics  == IF t >= snap.last THEN Chronological(snap, o) ELSE Rebuilt(snap, o)
      returned == IF NeedsAttention(before) THEN {t} ELSE snap.recovered
  IN  IF snap.count = 0
      THEN [NoSnapshot EXCEPT !.orders = {o}, !.count = 1, !.total = Worth[o],
                              !.first = t, !.last = t]
      ELSE [metrics EXCEPT !.recovered = returned,
                           !.segment = DeriveSegment(metrics.count, metrics.last, metrics.gaps,
                                                     metrics.intervals, returned, t)]

(* Faulty: any use of the reward is taken for this order's.                *)
AttributedLoosely(k, o) ==
  IF k.status = "ACTIVE" /\ k.created <= purchase[o].at /\ purchase[o].at <= k.ends /\ o \notin k.orders
  THEN [k EXCEPT !.orders = @ \cup {o}, !.recipient = "RETURNED",
                 !.used = IF cycle[k.reward].reward.status = "REDEEMED" THEN @ \cup {o} ELSE @]
  ELSE k

(* attributeCompletedOrderToReturnCampaigns.                               *)
Attributed(k, o) ==
  LET used == cycle[k.reward].reward.status = "REDEEMED" /\ cycle[k.reward].reward.order = o
  IN  IF /\ k.status = "ACTIVE" /\ k.created <= purchase[o].at /\ purchase[o].at <= k.ends
         /\ o \notin k.orders
      THEN [k EXCEPT !.orders = @ \cup {o}, !.used = IF used THEN @ \cup {o} ELSE @,
                     !.recipient = IF used \/ @ = "CONVERTED" THEN "CONVERTED" ELSE "RETURNED"]
      ELSE k

(* What the relationship takes of an order, if it takes it.                *)
Relationship == [snapshot |-> snapshot, campaign |-> campaign]

Relate(rel, o) ==
  IF purchase[o].status = "DELIVERED" /\ purchase[o].paid /\ o \notin rel.snapshot.orders
  THEN [snapshot |-> Projected(rel.snapshot, o),
        campaign |-> [k \in DOMAIN rel.campaign |-> Attributed(rel.campaign[k], o)]]
  ELSE rel

-----------------------------------------------------------------------------
(* ORDER_COMPLETED is projected: by the dispatch, by a consumer, again.    *)
ProjectCompletion(o) ==
  /\ purchase[o].status = "DELIVERED"
  /\ IF verified
     THEN /\ cycle' = CreditOrder(Ledger, o).cycle /\ credit' = CreditOrder(Ledger, o).credit
          /\ snapshot' = Relate(Relationship, o).snapshot
          /\ campaign' = Relate(Relationship, o).campaign
          /\ settled' = settled \cup {o}
     ELSE UNCHANGED <<cycle, credit, snapshot, campaign, settled>>
  /\ UNCHANGED <<today, program, purchase, verified>>

(* Faulty: the reward is looked for by what the order recorded.            *)
RestoredByRecord(o) ==
  [c \in DOMAIN cycle |->
     IF purchase[o].reward = c
     THEN [cycle[c] EXCEPT !.reward.order = 0, !.reward.status = "AVAILABLE"] ELSE cycle[c]]

(* ORDER_CANCELLED is projected: restoreLoyaltyRewardForCancelledOrder     *)
(* looks for the reward by the order that holds it.                        *)
Restored(o) ==
  [c \in DOMAIN cycle |->
     IF cycle[c].reward.order = o /\ cycle[c].reward.status = "REDEEMED"
     THEN [cycle[c] EXCEPT !.reward.order = 0,
             !.reward.status = IF Expired(cycle[c].reward, today) THEN "EXPIRED" ELSE "AVAILABLE"]
     ELSE cycle[c]]

(* Who cancels writes ORDER_CANCELLED; the gateway that fails or expires   *)
(* a charge writes PAYMENT_UPDATED.                                        *)
CancellationAnnounced(o) == purchase[o].status = "CANCELLED" /\ purchase[o].by = "STAFF"

ProjectCancellation(o) ==
  /\ CancellationAnnounced(o)
  /\ cycle' = Restored(o)
  /\ UNCHANGED <<today, program, credit, purchase, snapshot, campaign, verified, settled>>

(* The identity is confirmed and the customer linked to it; what follows   *)
(* its commit may fail, and is tried again by the next confirmation.       *)
ConfirmIdentity ==
  /\ ~verified /\ verified' = TRUE
  /\ UNCHANGED <<today, program, cycle, credit, purchase, snapshot, campaign, settled>>

Delivered == {o \in Purchases : purchase[o].status = "DELIVERED"}

(* The ledger and the relationship once the first orders are taken in.     *)
Credited(queue) ==
  LET after[i \in 0..Len(queue)] == IF i = 0 THEN Ledger ELSE CreditOrder(after[i - 1], queue[i])
  IN  after

Related(queue) ==
  LET after[i \in 0..Len(queue)] == IF i = 0 THEN Relationship ELSE Relate(after[i - 1], queue[i])
  IN  after

ClaimLoyalty ==
  \E queue \in InOrder({o \in Delivered : credit[o] = 0}) :
    /\ verified
    /\ cycle' = Credited(queue)[Len(queue)].cycle /\ credit' = Credited(queue)[Len(queue)].credit
    /\ settled' = settled \cup Delivered
    /\ UNCHANGED <<today, program, purchase, snapshot, campaign, verified>>

ClaimRelationship ==
  \E queue \in InOrder(Delivered \ snapshot.orders) :
    /\ verified
    /\ snapshot' = Related(queue)[Len(queue)].snapshot /\ campaign' = Related(queue)[Len(queue)].campaign
    /\ UNCHANGED <<today, program, cycle, credit, purchase, verified, settled>>

-----------------------------------------------------------------------------
(* The owner starts a return campaign for who is about to be lost and was  *)
(* not addressed within thirty days: segments are refreshed, and each      *)
(* recipient gets a completed cycle with its reward.                       *)
Refreshed(snap, now) ==
  IF snap.count = 0 THEN snap
  ELSE [snap EXCEPT !.segment = RefreshedSegment(snap.count, snap.last, snap.gaps, snap.intervals,
                                                 snap.recovered, now)]

StartCampaign == \E t \in Days :
  LET active == {i \in DOMAIN program : program[i].active}
  IN  /\ Later(t) /\ active # {} /\ Len(campaign) < MaxCampaigns
      /\ snapshot' = Refreshed(snapshot, t)
      /\ snapshot.count > 0 /\ NeedsAttention(snapshot'.segment)
      /\ \A k \in DOMAIN campaign : campaign[k].created < t - 30
      /\ cycle' = Append(cycle,
           [kind |-> "CAMPAIGN", required |-> program[Max(active)].required,
            progress |-> program[Max(active)].required, validity |-> CampaignDays,
            status |-> "COMPLETED",
            reward |-> [status |-> "AVAILABLE", expires |-> t + CampaignDays, order |-> 0]])
      /\ campaign' = Append(campaign,
           [status |-> "ACTIVE", created |-> t, ends |-> t + CampaignDays, reward |-> Len(cycle'),
            recipient |-> "REWARDED", orders |-> {}, used |-> {}])
      /\ UNCHANGED <<program, credit, purchase, verified, settled>>

(* Somebody opens the loyalty page, the checkout, or the cron looks for    *)
(* rewards about to expire.                                                *)
ReadRewards == \E t \in Days \cup {today} :
  /\ t >= today /\ today' = t
  /\ cycle' = ExpireRewards(cycle, t)
  /\ UNCHANGED <<program, credit, purchase, snapshot, campaign, verified, settled>>

(* The owner opens the campaigns page.                                     *)
ReadCampaigns ==
  /\ snapshot' = Refreshed(snapshot, today)
  /\ campaign' = [k \in DOMAIN campaign |->
       [campaign[k] EXCEPT
          !.status = IF campaign[k].ends <= today THEN "ENDED" ELSE @,
          !.recipient = IF @ = "REWARDED" /\ cycle[campaign[k].reward].reward.status = "EXPIRED"
                        THEN "EXPIRED" ELSE @]]
  /\ UNCHANGED <<today, program, cycle, credit, purchase, verified, settled>>

LedgerNext ==
  \/ \E required \in Required, validity \in Validities, active \in BOOLEAN :
       SaveProgram(required, validity, active)
  \/ \E o \in Purchases :
       \/ \E r \in 0..Len(cycle) : Checkout(o, r)
       \/ Deliver(o) \/ Refund(o)
       \/ \E by \in {"STAFF", "GATEWAY"} : CancelPurchase(o, by)
       \/ ProjectCompletion(o) \/ ProjectCancellation(o)
  \/ ConfirmIdentity \/ ClaimLoyalty \/ ClaimRelationship
  \/ StartCampaign \/ ReadRewards \/ ReadCampaigns

LedgerSpec == LedgerInit /\ [][LedgerNext]_ledgerVars

-----------------------------------------------------------------------------
(* An order whose completion was projected for a confirmed customer counts *)
(* exactly if a program was active when it was delivered, however late,    *)
(* often or out of order the projection came and whatever was published in *)
(* between (InForceAt, the contribution's uniqueness).                     *)
CreditWhereDue == \A o \in settled : (credit[o] # 0) <=> purchase[o].due

(* The books balance: a cycle of orders has as much progress as orders     *)
(* count in it, pays one reward when and only when it is full, and one at  *)
(* most is open.                                                           *)
CyclesAddUp ==
  /\ \A c \in DOMAIN cycle :
       LET counted == Cardinality({o \in Purchases : credit[o] = c})
       IN  /\ cycle[c].kind = "ORDERS" => cycle[c].progress = counted
           /\ cycle[c].kind = "CAMPAIGN" => counted = 0
           /\ (cycle[c].status = "COMPLETED") <=> (cycle[c].progress = cycle[c].required)
           /\ (cycle[c].status = "COMPLETED") <=> (cycle[c].reward.status # "NONE")
  /\ Cardinality({c \in DOMAIN cycle : cycle[c].status = "ACTIVE"}) <= 1

(* No two orders live on one reward, and the order that does is the one    *)
(* the reward names, across expiry, cancellation, restoration and          *)
(* redelivered cancellations.                                              *)
RewardSpentOnce == \A c \in DOMAIN cycle : \A o \in Purchases :
  purchase[o].reward = c /\ purchase[o].status \in {"OPEN", "DELIVERED"} =>
    cycle[c].reward.status = "REDEEMED" /\ cycle[c].reward.order = o

(* The snapshot is a function of the orders it processed: the incremental  *)
(* figures of nextAverageDays and the rebuilt ones agree whatever the      *)
(* order of arrival.                                                       *)
SnapshotMatchesHistory ==
  LET at == {purchase[o].at : o \in snapshot.orders}
  IN  snapshot.orders # {} =>
        /\ snapshot.count = Cardinality(snapshot.orders)
        /\ snapshot.total = SumFunctionOnSet(Worth, snapshot.orders)
        /\ snapshot.first = Min(at) /\ snapshot.last = Max(at)
        /\ snapshot.intervals = snapshot.count - 1 /\ snapshot.gaps = Max(at) - Min(at)

(* A recipient has converted exactly if an order attributed to the         *)
(* campaign used its reward, and has returned only with an order.          *)
ConversionIsUse == \A k \in DOMAIN campaign :
  /\ (campaign[k].recipient = "CONVERTED") <=> (campaign[k].used # {})
  /\ campaign[k].recipient = "RETURNED" => campaign[k].orders # {}
  /\ \A o \in campaign[k].used : cycle[campaign[k].reward].reward.order = o
=============================================================================
