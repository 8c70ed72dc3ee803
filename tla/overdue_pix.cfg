SPECIFICATION Spec
CONSTANTS
  None = None
  Orders = {o1}
  Staff = {ana}
  Managers = {ana}
  Gateways = {g1}
  Shapes <- OnlineShapes
  MaxVersion = 3
  MaxUsages = 1
  MaxOfferUses = 1
INVARIANTS
  OverduePixIsSelected
CHECK_DEADLOCK FALSE
