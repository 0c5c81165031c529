\* A restart of a frozen server that fails half-way.
SPECIFICATION LiveSpec
CONSTANTS
  Users = {u1}
  WD = wd
  LockFree = {}
  UserCommands = {"start"}
  Observations <- FreezeObservations
  JVMs = {j1, j2}
  Restarts = {r1, r2}
  MaxRestarts = 1
  AtomicState = TRUE
  SlowScript = FALSE
  None = None
PROPERTY IntentHealed
