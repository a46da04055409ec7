\* One fault: a batch of incidents that cannot be fetched.
CONSTANTS
  inc1 = inc1  inc2 = inc2
  a = a  b = b  c = c
  None = None
  Incidents = {inc1}
  Plan <- PlanA_C
  Repeat <- MCRepeat
  Waiting = {a}
  Parts <- MCParts
  Optional = {c}
  Tracking = TRUE
  MaxQueueLength = 1
  MaxFaults = 1
SPECIFICATION Spec
PROPERTY RemovesOnlyInactive
