SPECIFICATION Spec
CONSTANTS
  Tools = {"computer", "console"}
  Reasons = {"unexpected", "canceled_by_user"}
  MaxReattachAttempts = 3
  MayRefuse = TRUE
  MaxConnections = 2
  MaxRestarts = 0
INVARIANTS DomainsRestored
CHECK_DEADLOCK FALSE
