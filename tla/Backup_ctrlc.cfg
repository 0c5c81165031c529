\* One person, who presses Ctrl-C.
SPECIFICATION MCSpec
CONSTANTS
  Clients = {c1}
  UserCommands = {"create"}
  MaxInbox = 3
  None = None
  Times = {0, 1}
  Day <- SmallDay
  Week <- SmallWeek
  KeepRecent = 1
  KeepDaily = 2
  KeepWeekly = 1
INVARIANTS AutosaveGuaranteed
