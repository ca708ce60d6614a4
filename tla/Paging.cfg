SPECIFICATION Spec
CONSTANTS
  None = None
  Tickets = {1, 2, 3, 4, 5}
  Custom = {2}
  MaxListed = 4
  SearchSize = 2
  ListSize = 2
  MaxChanges = 2
  Faults = {"api"}
INVARIANTS NothingMissed
CHECK_DEADLOCK FALSE
