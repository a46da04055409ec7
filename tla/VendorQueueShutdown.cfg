\* Two plans, three messages, and the end of the process at any moment.
CONSTANTS
  m1 = m1  m2 = m2  m3 = m3  m4 = m4
  p1 = p1  p2 = p2  p3 = p3
  None = None
  Plans = {p1, p2}
  Msgs = {m1, m2, m3}
  PlanOf <- PlanOf2
  Capacity = 2
SPECIFICATION Spec
INVARIANT NeverSendsOnClosed
