SPECIFICATION FairSpec
CONSTANTS
  r1 = r1  r2 = r2  r3 = r3  b1 = b1  b2 = b2  u1 = u1  u2 = u2  k1 = k1  k2 = k2
  p1 = p1  p2 = p2  a1 = a1  a2 = a2  before = before
  None = None
  Requests = {r1, r2, r3}
  Browsers = {b1}
  Urls = {u1, u2}
  ApiKeys = {k1, k2}
  Passwords = {p1}
  Agents = {a1, a2}
  Earlier = {before}
  Owner <- Owners
  Env <- EnvGiven
  Workload <- Work
  InitSettings <- SomeSettings
  InitJars <- SomeJars
  Faults = {"db", "api"}
  MaxStops = 1
INVARIANTS ServingIsMigrated LoginLasts FormsAccepted RunningIsSaved AgentIsClients
PROPERTIES ComesUp
CHECK_DEADLOCK FALSE
