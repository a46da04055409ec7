\* One plan, thresholds 0 to 2, windows of 1, a loop that may be late by 1, four incidents (in the order of
\* their names: they differ in nothing else), fairness.
CONSTANTS
  p1 = p1
  e1 = e1  e2 = e2  e3 = e3  e4 = e4
  None = None
  Plans = {p1}
  Escalations = {e1, e2, e3, e4}
  PlanOf <- OnePlan
  Settings <- MCSettings
  MaxLag = 1
  MaxAge = 3
SPECIFICATION FairSpec
INVARIANTS TypeOK NeverOverThreshold BatchesAnnounced
PROPERTIES StartsForAReason EndsForAReason FreshBatch AggregationEnds
CONSTRAINT InOrder
