SPECIFICATION OutboxesSpec
CONSTANTS
  created = created
  accepted = accepted
  closed = closed
  c1 = c1
  c2 = c2
  r1 = r1
  None = None
  Relays = {r1}
  Events = {created, accepted, closed}
  Commits = {{created, accepted}, {closed}}
  Projecting = {}
  Version <- Versions
  Consumers = {c1, c2}
  Modes = {"direct", "dual", "outbox", "none"}
  MaxAttempts = 2
  MaxReplays = 0
INVARIANTS OperationalTypeOK InOrderWithinBatch
PROPERTY OrdersProtocolKept
CHECK_DEADLOCK FALSE
