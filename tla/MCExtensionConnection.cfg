SPECIFICATION Spec
CONSTANTS
  Sockets = {s1, s2, s3}
  NoSocket = NoSocket
  MaxReconnectAttempts = 2
  StorageMayFail = TRUE
  DialMayThrow = TRUE
  MaxPending = 2
  MaxDisturbances = 5
SYMMETRY Symmetry
INVARIANTS
  StatusIsTrue
  OneLiveSocket
  OptOutHolds
  KeepsTrying
