\* Three plans share a channel that just holds them all; four messages, any number of retries.
CONSTANTS
  m1 = m1  m2 = m2  m3 = m3  m4 = m4
  p1 = p1  p2 = p2  p3 = p3
  None = None
  Plans = {p1, p2, p3}
  Msgs = {m1, m2, m3, m4}
  PlanOf <- PlanOf3
  Capacity = 3
SPECIFICATION FairSpec
INVARIANTS TypeOK QueueInv SendNeverBlocks
PROPERTIES RoundRobin Served ImplementsPool
