SPECIFICATION Spec
CONSTANTS
  completed = completed
  c1 = c1
  c2 = c2
  r1 = r1
  None = None
  Relays = {r1}
  Events = {completed}
  Commits = {{completed}}
  Projecting = {completed}
  Version <- CompletionVersion
  Consumers = {c1, c2}
  Modes = {"direct", "dual", "outbox", "none"}
  MaxAttempts = 2
  MaxReplays = 1
SYMMETRY ConsumerSymmetry
INVARIANTS FailedAfterEveryAttempt NoneLostInSilence
PROPERTY DeliveryKept
CHECK_DEADLOCK FALSE
