\* u2 is a front end without the OpsLock, the start script
\* takes its time.
SPECIFICATION Spec
CONSTANTS
  Users = {u1, u2}
  WD = wd
  LockFree = {u2}
  UserCommands = {"start", "stop"}
  Observations <- PlainObservations
  JVMs = {j1, j2}
  Restarts = {r1}
  MaxRestarts = 1
  AtomicState = FALSE
  SlowScript = TRUE
  None = None
SYMMETRY HostSymmetric
INVARIANT ServingInPane
PROPERTY StopLeavesNothing
