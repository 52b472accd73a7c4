SPECIFICATION Spec
CONSTANTS
  i1 = i1
  i2 = i2
  None = None
  Ids = {i1, i2}
  Requests = {"Start", "Raise", "Terminate", "Purge", "Restart"}
  Replaceable = {"COMPLETED"}
  Outcomes = {"none", "COMPLETED", "TERMINATED", "CONTINUED"}
  SubOrchs = FALSE
  ActionIds = {1}
  HistoryLimit = 100
  Faults = {"abandon"}
  MaxCalls = 5
  MaxFaults = 1
  MaxToken = 4
  MaxTasks = 0
  MaxWakes = 0
  MaxEvents = 4
SYMMETRY Symmetric
INVARIANTS ExclusiveDispatch
PROPERTIES KeepsPromise
