SPECIFICATION Spec
CONSTANTS
  Requests = {r1, r2}
  NoRequest = NoRequest
  Sockets = {s1, s2}
  NoSocket = NoSocket
  Close = Close
INVARIANTS OverlapOnlyAfterGivingUp
PROPERTIES QueueSpec EveryRequestAnswered
