SPECIFICATION FairSpec
CONSTANTS
  c1 = c1  c2 = c2  c3 = c3  k1 = k1  k2 = k2
  None = None
  Callers = {c1, c2, c3}
  Keys = {k1, k2}
  Interval = 2
  MaxTime = 5
  MaxRestarts = 1
INVARIANTS SpacedInProcess DenialsJustified
PROPERTIES EveryCallerDecided
CHECK_DEADLOCK FALSE
