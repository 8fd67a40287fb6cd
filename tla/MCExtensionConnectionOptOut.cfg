SPECIFICATION Spec
CONSTANTS
  Sockets = {s1, s2}
  NoSocket = NoSocket
  MaxReconnectAttempts = 1
  StorageMayFail = FALSE
  DialMayThrow = FALSE
  MaxPending = 2
  MaxDisturbances = 3
INVARIANTS
  DisconnectIsRespected
