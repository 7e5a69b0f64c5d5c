SPECIFICATION FairLockSpec
CONSTANTS
  p1 = p1
  p2 = p2
  a1 = a1
  a2 = a2
  b1 = b1
  b2 = b2
  Nobody = Nobody
  Procs = {p1, p2}
  Callers = {a1, a2, b1, b2}
  Home <- MCHome
  Mortal = {}
  Capacity = 3
PROPERTY OneDecisionAtATime
CHECK_DEADLOCK FALSE
