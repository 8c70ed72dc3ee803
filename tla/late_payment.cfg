SPECIFICATION Spec
CONSTANTS
  None = None
  Orders = {o1, o2}
  Staff = {}
  Managers = {}
  Gateways = {g1}
  Shapes <- MixedShapes
  MaxVersion = 2
  MaxUsages = 1
  MaxOfferUses = 1
INVARIANTS
  ApprovedPaymentSpendsReservation
CHECK_DEADLOCK FALSE
