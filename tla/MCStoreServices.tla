---------------------------- MODULE MCStoreServices ----------------------------
(***************************************************************************)
(* The services around the order workflow that share no state with each    *)
(* other, as one state space: a behaviour is one of a part, chosen at the  *)
(* start, while the other parts rest in their first state. A part of pure  *)
(* computations has no steps, but a sample each.                           *)
(***************************************************************************)
EXTENDS CustomerLedger, WebhookInbox, ProviderConnection, PushDelivery, DiningRoom, QuotePricing,
  OfferSchedule, OfferCatalog, CheckoutAttempts, TillDrafts, NotificationFeed, ConsumerAccess,
  ServiceSamples

VARIABLES
  part,          \* the part that moves
  sample         \* the input of a pure computation

Services == {"push", "ledger", "inbox", "connection", "dining", "catalog", "attempts", "drafts", "feed", "access"}
Computations == {"segments", "pricing", "schedule"}

(* Every order costs the same.                                             *)
FlatWorth == [o \in Purchases |-> 1]

(* The consumer hears of steps that are undone and done again; the staff   *)
(* of the new order and its waiting.                                       *)
PushPlans ==
  {[on |-> {"order"}, claims |-> 2, path |-> <<"PENDING", "CONFIRMED", "PENDING", "CONFIRMED">>],
   [on |-> {"store"}, claims |-> 2, path |-> <<"PENDING", "CONFIRMED">>],
   [on |-> {"WARNING", "CRITICAL"}, claims |-> 2, path |-> <<"PENDING">>],
   [on |-> {"CRITICAL"}, claims |-> 2, path |-> <<"PENDING", "CONFIRMED", "PENDING">>]}

(* The parts share their names, since one of them moves only.              *)
Symmetries == Permutations(Executions)

SamplesOf(p) ==
  CASE p = "segments" -> Figures
    [] p = "pricing"  -> PricedCarts
    [] p = "schedule" -> TimetablePairs
    [] OTHER          -> {"none"}

(* A part at rest has one first state. One whose state names values that   *)
(* are symmetric in another part has none of them.                         *)
LedgerAsleep == part # "ledger" => verified = FALSE
PushAsleep ==
  part # "push" => /\ order.plan = CHOOSE plan \in Plans : TRUE
                   /\ assoc["order"].on = FALSE /\ assoc["staff"].on = FALSE
AttemptsAsleep ==
  /\ shopper = [phase |-> "asleep"] /\ asked = "nothing"
  /\ requests = {} /\ answer = {} /\ placed = {} /\ log = <<>>
DraftsAsleep ==
  draft = [status |-> "NONE", converted |-> {}] /\ till = <<>> /\ posRequests = {} /\ posOrders = {}

Init ==
  /\ part \in Services \cup Computations
  /\ LedgerInit /\ LedgerAsleep /\ PushInit /\ PushAsleep
  /\ IF part = "attempts" THEN AttemptsInit ELSE AttemptsAsleep
  /\ IF part = "drafts" THEN DraftsInit ELSE DraftsAsleep
  /\ InboxInit /\ ConnectionInit /\ DiningInit /\ CatalogInit /\ FeedInit /\ AccessInit
  /\ sample \in SamplesOf(part)

vars == <<part, sample, ledgerVars, inboxVars, connectionVars, pushVars, diningVars, catalogVars,
          attemptVars, draftVars, feedVars, accessVars>>

Next ==
  /\ UNCHANGED <<part, sample>>
  /\ \/ /\ part = "ledger" /\ LedgerNext
        /\ UNCHANGED <<inboxVars, connectionVars, pushVars, diningVars, catalogVars, attemptVars,
                       draftVars, feedVars, accessVars>>
     \/ /\ part = "inbox" /\ InboxNext
        /\ UNCHANGED <<ledgerVars, connectionVars, pushVars, diningVars, catalogVars, attemptVars,
                       draftVars, feedVars, accessVars>>
     \/ /\ part = "connection" /\ ConnectionNext
        /\ UNCHANGED <<ledgerVars, inboxVars, pushVars, diningVars, catalogVars, attemptVars,
                       draftVars, feedVars, accessVars>>
     \/ /\ part = "push" /\ PushNext
        /\ UNCHANGED <<ledgerVars, inboxVars, connectionVars, diningVars, catalogVars, attemptVars,
                       draftVars, feedVars, accessVars>>
     \/ /\ part = "dining" /\ DiningNext
        /\ UNCHANGED <<ledgerVars, inboxVars, connectionVars, pushVars, catalogVars, attemptVars,
                       draftVars, feedVars, accessVars>>
     \/ /\ part = "catalog" /\ CatalogNext
        /\ UNCHANGED <<ledgerVars, inboxVars, connectionVars, pushVars, diningVars, attemptVars,
                       draftVars, feedVars, accessVars>>
     \/ /\ part = "attempts" /\ AttemptsNext
        /\ UNCHANGED <<ledgerVars, inboxVars, connectionVars, pushVars, diningVars, catalogVars,
                       draftVars, feedVars, accessVars>>
     \/ /\ part = "drafts" /\ DraftsNext
        /\ UNCHANGED <<ledgerVars, inboxVars, connectionVars, pushVars, diningVars, catalogVars,
                       attemptVars, feedVars, accessVars>>
     \/ /\ part = "feed" /\ FeedNext
        /\ UNCHANGED <<ledgerVars, inboxVars, connectionVars, pushVars, diningVars, catalogVars,
                       attemptVars, draftVars, accessVars>>
     \/ /\ part = "access" /\ AccessNext
        /\ UNCHANGED <<ledgerVars, inboxVars, connectionVars, pushVars, diningVars, catalogVars,
                       attemptVars, draftVars, feedVars>>

Spec == Init /\ [][Next]_vars

(* What tells two states apart: the parts at rest are in the one state they *)
(* have at rest, which TLC need not look at.                               *)
Moving ==
  <<part, sample,
    CASE part = "ledger" -> ledgerVars         [] part = "inbox" -> inboxVars
      [] part = "connection" -> connectionVars [] part = "push" -> pushVars
      [] part = "dining" -> diningVars         [] part = "catalog" -> catalogVars
      [] part = "attempts" -> attemptVars      [] part = "drafts" -> draftVars
      [] part = "feed" -> feedVars             [] part = "access" -> accessVars
      [] part \in Computations -> <<>> >>

(* The state of the part that moves has the types its module gives it.     *)
ServicesTypeOK ==
  /\ part = "ledger" => LedgerTypeOK
  /\ part = "inbox" => InboxTypeOK
  /\ part = "connection" => ConnectionTypeOK
  /\ part = "push" => PushTypeOK
  /\ part = "dining" => DiningTypeOK
  /\ part = "catalog" => CatalogTypeOK
  /\ part = "attempts" => AttemptsTypeOK
  /\ part = "drafts" => DraftsTypeOK
  /\ part = "feed" => FeedTypeOK
  /\ part = "access" => AccessTypeOK

(* getCustomerRelationshipThresholds and the refresh in SQL put a customer *)
(* into the same segment, whose rounding and bounds they each spell out.   *)
SegmentsAgree == part = "segments" => AgreeOn(sample)

(* offerSchedulesOverlap finds exactly the schedules that ever meet.       *)
OverlapsFound == part = "schedule" => OverlapIsExact(sample.l, sample.r)

(* calculateCheckoutQuote and the benefits attached to its quote take a    *)
(* cart to the price counted unit by unit.                                 *)
QuoteIsAdvertised == part = "pricing" => PricedAsAdvertised(sample)
=============================================================================
