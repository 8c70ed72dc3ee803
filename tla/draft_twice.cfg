SPECIFICATION DraftsSpec
CONSTANTS
  Tills = {till1}
  Intents = {i1, i2}
  MaxVersion = 3
INVARIANT OneOrderPerDraft
CHECK_DEADLOCK FALSE
