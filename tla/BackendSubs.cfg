SPECIFICATION FairSpec
CONSTANTS
  i1 = i1
  i2 = i2
  None = None
  Ids = {i1, i2}
  Requests = {"Start", "Terminate"}
  Replaceable = {}
  Outcomes = {"none", "COMPLETED", "FAILED", "TERMINATED"}
  SubOrchs = TRUE
  ActionIds = {1}
  HistoryLimit = 100
  Faults = {}
  MaxCalls = 2
  MaxFaults = 0
  MaxToken = 6
  MaxTasks = 0
  MaxWakes = 0
  MaxEvents = 8
INVARIANTS SubOrchestrationsWatched
PROPERTIES SubOrchestrationIsReported
