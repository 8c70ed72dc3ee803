SPECIFICATION Spec
CONSTANTS
  None = None
  Orders = {o1}
  Staff = {ana, bia}
  Managers = {ana}
  Gateways = {g1, g2}
  Shapes <- EveryShape
  MaxVersion = 6
  MaxUsages = 1
  MaxOfferUses = 1
ACTION_CONSTRAINT OneOrderBound
SYMMETRY GatewaySymmetry
INVARIANTS
  TypeOK
  PaymentRowAgrees
  VersionPinsRow
  StatusAgreesWithPayment
  OutboxCoversHistory
  OnlinePaidBeforeKitchen
  CreatedAnnouncedOnce
  NoSilentDivergence
PROPERTIES
  Backward
  PromiseKept
CHECK_DEADLOCK FALSE
