CONSTANTS
  tc = tc
  tr = tr
  Topics <- MCTopics
  Resp = tr
  MaxPending = 1
  Width = 2
  MainCap = 1
  MaxArrivals = 3
  MaxCalls = 2
  None = None
SPECIFICATION Spec
INVARIANT TempRouteUnregistered
\* The runs bound the inbound messages and the send_and_wait calls: once
\* both are spent and every queue is drained nothing more can happen.
CHECK_DEADLOCK FALSE
