\* No faults: a claim in the middle of a repeat is enough.
CONSTANTS
  inc1 = inc1  inc2 = inc2
  a = a  b = b  c = c
  None = None
  Incidents = {inc1}
  Plan <- PlanA_C
  Repeat <- MCRepeat
  Waiting = {}
  Parts <- MCParts
  Optional = {c}
  Tracking = TRUE
  MaxQueueLength = 1
  MaxFaults = 0
SPECIFICATION Spec
INVARIANT NoOrphans
