SPECIFICATION FairSpec
CONSTANTS
  p1 = p1  p2 = p2  convs = convs  me = me
  Absent = Absent
  Unknown = 0
  Keys = {convs, me}
  Bodies = {1, 2}
  Parts = 2
  Pages = {p1, p2}
  Plan <- Plans
  AgeOf <- Ages
  Contacts = {me}
  AgentIds = {me}
  Deletable = {convs}
  Changing = {convs}
  Leaving = {p1}
  Cap = 1
  Faults = {"api"}
  MaxTime = 4
  MaxVersion = 2
INVARIANTS AgesRight PoolRight BlanksExplained NeverOlder
PROPERTIES CacheKeepsPromise EveryPageAnswered
CHECK_DEADLOCK FALSE
