\* A backup that holds the lock while the server crashes.
SPECIFICATION Spec
CONSTANTS
  Users = {u1}
  WD = wd
  LockFree = {}
  UserCommands = {"start", "backup"}
  Observations <- PlainObservations
  JVMs = {j1, j2}
  Restarts = {r1, r2}
  MaxRestarts = 1
  AtomicState = TRUE
  SlowScript = FALSE
  None = None
PROPERTY HaltFollowsRestarts
