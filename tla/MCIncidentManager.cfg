\* Two notifications at once, one of them repeated, then a third with two
\* messages; two faults, back-pressure, fairness.
CONSTANTS
  inc1 = inc1  inc2 = inc2
  a = a  b = b  c = c
  None = None
  Incidents = {inc1}
  Plan <- PlanAB_C
  Repeat <- MCRepeat
  Waiting = {a, c}
  Parts <- MCParts
  Optional = {b}
  Tracking = FALSE
  MaxQueueLength = 1
  MaxFaults = 2
SPECIFICATION FairSpec
INVARIANTS TypeOK NoStepSkipped OnlyRepeatsLeftBehind
PROPERTIES IrisStepMonotone EveryIncidentEnds
