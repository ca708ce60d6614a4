SPECIFICATION Spec
CONSTANTS
  t1 = t1  t2 = t2  r1 = r1  r2 = r2  r3 = r3  n1 = n1  d1 = d1
  None = None  NoNote = NoNote  Me = Me  Nobody = Nobody
  Notes = {n1}
  Dates = {d1}
  Priorities = {1}
  Tickets = {t1}
  Requests = {r1, r2}
  Others = {}
  Statuses = {2, 6}
  Workload <- EditWork
  InitRows <- NoRows
  InitFd <- Mine
  Faults = {}
  Overlap = TRUE
  MaxUpstream = 0
  MaxRestarts = 0
SYMMETRY Symmetry
PROPERTIES RowsAtomic
CHECK_DEADLOCK FALSE
