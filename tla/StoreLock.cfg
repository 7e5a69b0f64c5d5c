SPECIFICATION FairLockSpec
CONSTANTS
  p1 = p1
  p2 = p2
  a1 = a1
  a2 = a2
  b1 = b1
  b2 = b2
  Nobody = Nobody
  Procs = {p1, p2}
  Callers = {a1, a2, b1, b2}
  Home <- MCHome
  Mortal = {p1, p2}
  Capacity = 3
INVARIANT AtMostOneHolder
PROPERTIES AppliesOneAtATime EveryCallEnds
CHECK_DEADLOCK FALSE
