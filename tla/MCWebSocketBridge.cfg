SPECIFICATION Spec
CONSTANTS
  Calls = {c1, c2}
  Sockets = {s1, s2, s3}
  NoSocket = NoSocket
  Close = Close
INVARIANTS SocketsAndCalls
PROPERTIES VerdictsAreRight
