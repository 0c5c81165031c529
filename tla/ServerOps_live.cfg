\* Liveness: one person, one watchdog, slow start script.
SPECIFICATION LiveSpec
CONSTANTS
  Users = {u1}
  WD = wd
  LockFree = {}
  UserCommands = {"start", "start-no-wait", "stop", "backup"}
  Observations <- AllObservations
  JVMs = {j1}
  Restarts = {r1}
  MaxRestarts = 1
  AtomicState = TRUE
  SlowScript = TRUE
  None = None
PROPERTIES LockReleased SelfHeals
