SPECIFICATION Spec
CONSTANTS
  t1 = t1  t2 = t2  r1 = r1  r2 = r2  r3 = r3  n1 = n1  d1 = d1
  None = None  NoNote = NoNote  Me = Me  Nobody = Nobody
  Notes = {n1}
  Dates = {d1}
  Priorities = {1}
  Tickets = {t1, t2}
  Requests = {r1, r2}
  Others = {}
  Statuses = {2, 6}
  Workload <- BoardWork
  InitRows <- NoRows
  InitFd <- AnyFd
  Faults = {"api"}
  Overlap = TRUE
  MaxUpstream = 1
  MaxRestarts = 0
SYMMETRY Symmetry
INVARIANTS BoardHasNoTwins CacheIsPast
CHECK_DEADLOCK FALSE
