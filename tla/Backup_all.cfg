\* Creates, prunes and saves, with and without the OpsLock.
SPECIFICATION MCSpec
CONSTANTS
  Clients = {c1, c2}
  UserCommands = {"create", "agent-create", "dash-create", "cli-prune", "save"}
  MaxInbox = 2
  None = None
  Times = {0, 1, 2}
  Day <- SmallDay
  Week <- SmallWeek
  KeepRecent = 1
  KeepDaily = 2
  KeepWeekly = 1
SYMMETRY Symmetric
INVARIANTS TypeOK ReportedConsistent AutosaveBack PlanIsPolicy
PROPERTIES MadeIsKept
