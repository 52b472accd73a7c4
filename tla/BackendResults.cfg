SPECIFICATION Spec
CONSTANTS
  i1 = i1
  i2 = i2
  None = None
  Ids = {i1}
  Requests = {"Start", "Raise", "Suspend", "Resume"}
  Replaceable = {}
  Outcomes = {"none", "COMPLETED", "TERMINATED"}
  SubOrchs = FALSE
  ActionIds = {1}
  HistoryLimit = 100
  Faults = {"abandon"}
  MaxCalls = 3
  MaxFaults = 1
  MaxToken = 5
  MaxTasks = 1
  MaxWakes = 1
  MaxEvents = 6
INVARIANTS ResultsOnce TasksAccounted TimersAccounted
PROPERTIES SuspendedUntilResumed
