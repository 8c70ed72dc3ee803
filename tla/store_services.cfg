SPECIFICATION Spec
CONSTANTS
  MaxPurchases = 3
  Days = {1, 2, 23, 24}
  Worth <- FlatWorth
  Required = {2}
  Validities = {0}
  MaxPrograms = 2
  MaxCampaigns = 1
  CampaignDays = 1
  MaxNotices = 2
  Executions = {x1, x2}
  MaxTries = 2
  LeaseTime = 1
  Horizon = 2
  MaxKills = 1
  Attempts = {a1}
  Readers = {x1, x2}
  MaxIssued = 3
  MaxEdits = 2
  Senders = {x1, x2}
  Plans <- PushPlans
  MaxSends = 2
  MaxMishaps = 1
  Tables = {x1, x2}
  Waiters = {w1}
  RequestTypes = {"BILL"}
  MaxDishes = 2
  MaxSessions = 2
  MaxEdition = 3
  MaxCents = 100
  Whole = 10
  Base = 6
  Extra = 1
  BundleBase = 10
  Week = 3
  Day = 4
  LookAhead = 30
  Offers = {x1, x2}
  OfferProducts = {x1, x2}
  Moments = {t1, t2}
  MaxWrites = 3
  Carts = {x1, x2}
  Notes = {x1, x2}
  Prices = {x1, x2}
  MaxSubmits = 2
  Tills = {x1, x2}
  Intents = {x1, x2}
  MaxVersion = 3
  MaxRows = 3
  MaxMinute = 4
  LoadBy = 1
  OverlapTime = 1
  Retention = 2
  CommitDelay = 1
  PageSize = 1
  SeenLimit = 2
  Window = 1
  Addresses = {x1, x2}
  Customers = {x1, x2}
  MaxCodes = 3
  MaxGuesses = 2
  MaxActive = 2
SYMMETRY Symmetries
VIEW Moving
INVARIANTS
  ServicesTypeOK
  CreditWhereDue
  CyclesAddUp
  RewardSpentOnce
  SnapshotMatchesHistory
  ConversionIsUse
  SegmentsAgree
  TriesWithinReach
  CredentialFollowsStatus
  CredentialWrittenOnce
  NewestLast
  OneCopyPerClaim
  BillsSettled
  QuoteIsAdvertised
  OverlapsFound
  PromotionsApart
  OneOrderPerCheckout
  ConvertedAsSaved
  NewOrdersRing
  AccessIsProved
PROPERTY ClosedAsSeen
CHECK_DEADLOCK FALSE
