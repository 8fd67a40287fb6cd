SPECIFICATION Spec
CONSTANTS
  Requests = {r1, r2, r3, r4}
  NoRequest = NoRequest
SYMMETRY RequestSymmetry
INVARIANTS
  OneInFlight
  NoStrandedQueue
PROPERTIES
  NoCallAfterVerdict
  ImplementsSerialDispatch
