SPECIFICATION Spec
CONSTANTS
  None = None
  Orders = {o1}
  Staff = {ana}
  Managers = {ana}
  Gateways = {}
  Shapes <- CounterShapes
  MaxVersion = 6
  MaxUsages = 1
  MaxOfferUses = 1
INVARIANTS
  AdmittedRefundIsWritable
CHECK_DEADLOCK FALSE
