SPECIFICATION FairSpec
CONSTANTS
  completed = completed
  c1 = c1
  c2 = c2
  r1 = r1
  None = None
  Relays = {r1}
  Events = {completed}
  Commits = {{completed}}
  Projecting = {completed}
  Version <- CompletionVersion
  Consumers = {c1}
  Modes = {"direct", "outbox"}
  MaxAttempts = 2
  MaxReplays = 0
PROPERTY EventuallySettled
CHECK_DEADLOCK FALSE
