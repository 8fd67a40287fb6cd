SPECIFICATION Spec
CONSTANTS
  Tools = {"computer", "console"}
  Reasons = {"unexpected", "canceled_by_user"}
  MaxReattachAttempts = 1
  MayRefuse = TRUE
  MaxConnections = 2
  MaxRestarts = 1
INVARIANTS RecordFollows SessionIsServed
PROPERTIES LossIsSettled
CHECK_DEADLOCK FALSE
