\* Every front end takes the OpsLock, the start command is java itself, the
\* state-file helpers do not overlap.
SPECIFICATION Spec
CONSTANTS
  Users = {u1, u2}
  WD = wd
  LockFree = {}
  UserCommands = {"start", "start-no-wait", "stop", "restart", "kill", "backup", "restore", "arm", "disarm", "adopt"}
  Observations <- AllObservations
  JVMs = {j1, j2}
  Restarts = {r1, r2, r3}
  MaxRestarts = 2
  AtomicState = TRUE
  SlowScript = FALSE
  None = None
SYMMETRY Symmetric
INVARIANTS TypeOK LockProtects OneServer RestoreOffline RestartBudget
PROPERTIES OnlyPeopleClearHalt
