\* Reliable storage and dials; two clients of a native host that stops once; as
\* many attempts to reattach as the code makes, while the worker is not stopped.
SPECIFICATION ReconnectingSpec
CONSTANTS
  s1 = s1
  s2 = s2
  Sockets = {s1, s2}
  NoSocket = NoSocket
  MaxReconnectAttempts = 1
  StorageMayFail = FALSE
  DialMayThrow = FALSE
  MaxPending = 2
  MaxDisturbances = 3
  c1 = c1
  c2 = c2
  r1 = r1
  r2 = r2
  Clients = {c1, c2}
  Requests = {r1, r2}
  NoClient = NoClient
  MaxConnections = 2
  MaxStops = 1
  Tools = {"computer", "console"}
  Reasons = {"unexpected", "canceled_by_user"}
  MaxReattachAttempts = 3
  MayRefuse = TRUE
  MaxRecords = 2
  MaxRestarts = 0
INVARIANTS OptOutSurvivesRestart GoesToItsClient
PROPERTIES RequestSettles ComesBack
CHECK_DEADLOCK FALSE
