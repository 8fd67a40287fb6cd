\* Three processes and two calls.  Everything may have ended.
SPECIFICATION Spec
CONSTANTS
  p1 = p1
  p2 = p2
  p3 = p3
  r1 = r1
  r2 = r2
  Processes = {p1, p2, p3}
  NoProcess = NoProcess
  Requests = {r1, r2}
INVARIANTS OneGatewayWorks FailedIsOver
PROPERTIES EveryCallEnds 
CHECK_DEADLOCK FALSE
