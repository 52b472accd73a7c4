SPECIFICATION Spec
CONSTANTS
  i1 = i1
  i2 = i2
  None = None
  Ids = {i1, i2}
  Requests = {"Start", "Raise", "Reset"}
  Replaceable = {}
  Outcomes = {"none", "COMPLETED", "TERMINATED"}
  SubOrchs = TRUE
  ActionIds = {1}
  HistoryLimit = 4
  Faults = {"abandon", "lostReply", "lostAnswer", "crash", "watchTimeout"}
  MaxCalls = 3
  MaxFaults = 1
  MaxToken = 4
  MaxTasks = 0
  MaxWakes = 1
  MaxEvents = 4
SYMMETRY Symmetric
INVARIANTS TypeOK NoLostWakeup TokensUnique NeverTwice
