----------------------------- MODULE OfferCatalog -----------------------------
(***************************************************************************)
(* The offers of a store as its staff keep them: promotions of a product,  *)
(* each written twice, as a promotion and as the offer of the same id that *)
(* a quote reads, and the offers that exist as an offer only. Operations   *)
(* are serializable transactions that compare versions, so that each is    *)
(* one step and a screen out of date changes nothing. A schedule is the    *)
(* set of moments at which it is active: offerSchedulesOverlap is exact    *)
(* about them (OfferSchedule).                                             *)
(***************************************************************************)
EXTENDS Naturals

CONSTANTS
  Offers,        \* ids of offers and promotions
  OfferProducts, \* products
  Moments,       \* moments at which an offer may be active
  MaxWrites      \* bound: the version of a row

ASSUME CatalogAssumption == MaxWrites \in Nat

VARIABLES
  promotions,    \* store_product_promotions: a set of at most one row per id
  offers         \* store_offers: the same

catalogVars == <<promotions, offers>>

OfferKinds == {"PRODUCT_FIXED_PRICE", "QUANTITY_FIXED_PRICE"}
Schedules == SUBSET Moments \ {{}}
Row == [product : OfferProducts, schedule : Schedules, active : BOOLEAN, archived : BOOLEAN,
        version : 0..MaxWrites]

CatalogTypeOK ==
  /\ promotions \in [Offers -> SUBSET Row]
  /\ offers \in [Offers -> SUBSET [row : Row, kind : OfferKinds]]

Live(row) == row.active /\ ~row.archived
Meet(a, b) == a.schedule \cap b.schedule # {}
Rows(table) == UNION {table[id] : id \in DOMAIN table}

CatalogInit == promotions = [id \in Offers |-> {}] /\ offers = [id \in Offers |-> {}]

Fresh(id) == promotions[id] = {} /\ offers[id] = {}

(* Faulty: whoever is paused is not compared again.                        *)
WindowTrusted(id, row) == TRUE

(* assertPromotionWindowAvailable: compared with the other promotions of   *)
(* the product, and not with its other offers.                             *)
WindowAvailable(id, row) ==
  row.active =>
    \A other \in Offers \ {id} : \A p \in promotions[other] :
       Live(p) /\ p.product = row.product => ~Meet(p, row)

(* Both rows of a promotion are written by its operations.                 *)
WritePromotion(id, row) ==
  /\ row.version <= MaxWrites
  /\ promotions' = [promotions EXCEPT ![id] = {row}]
  /\ offers' = [offers EXCEPT ![id] = {[row |-> row, kind |-> "PRODUCT_FIXED_PRICE"]}]

CreatePromotion(id) ==
  \E product \in OfferProducts, schedule \in Schedules, active \in BOOLEAN :
    LET row == [product |-> product, schedule |-> schedule, active |-> active,
                archived |-> FALSE, version |-> 0]
    IN  Fresh(id) /\ WindowAvailable(id, row) /\ WritePromotion(id, row)

(* An archived promotion can be edited, and stays archived.                *)
UpdatePromotion(id) ==
  \E p \in promotions[id], product \in OfferProducts, schedule \in Schedules, active \in BOOLEAN :
    LET row == [p EXCEPT !.product = product, !.schedule = schedule, !.active = active, !.version = @ + 1]
    IN  WindowAvailable(id, row) /\ WritePromotion(id, row)

SetPromotionActive(id) ==
  \E p \in promotions[id], active \in BOOLEAN :
    LET row == [p EXCEPT !.active = active, !.version = @ + 1]
    IN  ~p.archived /\ WindowAvailable(id, row) /\ WritePromotion(id, row)

ArchivePromotion(id) ==
  \E p \in promotions[id] :
    WritePromotion(id, [p EXCEPT !.active = FALSE, !.archived = TRUE, !.version = @ + 1])

(* createCanonicalOffer: compared with every live offer of the product,    *)
(* those of promotions among them.                                         *)
CreateOffer(id) ==
  \E kind \in OfferKinds, product \in OfferProducts, schedule \in Schedules, active \in BOOLEAN :
    LET row == [product |-> product, schedule |-> schedule, active |-> active,
                archived |-> FALSE, version |-> 0]
    IN  /\ Fresh(id)
        /\ active => \A o \in Rows(offers) : Live(o.row) /\ o.row.product = product => ~Meet(o.row, row)
        /\ offers' = [offers EXCEPT ![id] = {[row |-> row, kind |-> kind]}]
        /\ UNCHANGED promotions

(* The page sends every PRODUCT_FIXED_PRICE to the operations of           *)
(* promotions, which do not find one that is an offer only.                *)
Own(o) == o.kind # "PRODUCT_FIXED_PRICE"

WriteOffer(id, o, row) ==
  /\ row.version <= MaxWrites
  /\ offers' = [offers EXCEPT ![id] = {[o EXCEPT !.row = row]}]
  /\ UNCHANGED promotions

(* setCanonicalOfferActive compares with nothing.                          *)
SetOfferActive(id) ==
  \E o \in offers[id], active \in BOOLEAN :
    /\ Own(o) /\ ~o.row.archived
    /\ WriteOffer(id, o, [o.row EXCEPT !.active = active, !.version = @ + 1])

ArchiveOffer(id) ==
  \E o \in offers[id] :
    /\ Own(o)
    /\ WriteOffer(id, o, [o.row EXCEPT !.active = FALSE, !.archived = TRUE, !.version = @ + 1])

CatalogNext ==
  \E id \in Offers :
    \/ CreatePromotion(id) \/ UpdatePromotion(id) \/ SetPromotionActive(id) \/ ArchivePromotion(id)
    \/ CreateOffer(id) \/ SetOfferActive(id) \/ ArchiveOffer(id)

CatalogSpec == CatalogInit /\ [][CatalogNext]_catalogVars

(*------------------------------ Properties -------------------------------*)
(* The offers that hold a product at one moment. calculateCheckoutQuote    *)
(* prices no cart of a store while it finds two of them on one product.    *)
HeldAt(product, moment) ==
  {id \in Offers : \E o \in offers[id] : Live(o.row) /\ o.row.product = product /\ moment \in o.row.schedule}

(* Whatever is created, moved to another product or time, paused, brought  *)
(* back or archived, promotions alone never stop the store from pricing    *)
(* carts: their rows agree with what the quote reads, and where two offers *)
(* meet one of them is an offer only, which nothing compares when it is    *)
(* brought back, nor when a promotion is made on its product.              *)
PromotionsApart ==
  \A product \in OfferProducts, moment \in Moments :
    \A a, b \in HeldAt(product, moment) :
      a # b => promotions[a] = {} \/ promotions[b] = {}
=============================================================================
