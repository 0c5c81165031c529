\* A stop typed while the watchdog sleeps its backoff.
SPECIFICATION Spec
CONSTANTS
  Users = {u1}
  WD = wd
  LockFree = {}
  UserCommands = {"start", "stop"}
  Observations <- PlainObservations
  JVMs = {j1, j2}
  Restarts = {r1, r2}
  MaxRestarts = 1
  AtomicState = TRUE
  SlowScript = FALSE
  None = None
PROPERTY StopNeverFought
