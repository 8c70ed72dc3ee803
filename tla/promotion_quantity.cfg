SPECIFICATION Spec
CONSTANTS
  MaxCents = 100
  Whole = 10
  Base = 6
  Extra = 1
  BundleBase = 10
INVARIANT PromotionForEveryUnit
CHECK_DEADLOCK FALSE
