SPECIFICATION FairSpec
CONSTANTS
  i1 = i1
  i2 = i2
  None = None
  Ids = {i1}
  Requests = {"Start", "Raise", "Terminate"}
  Replaceable = {}
  Outcomes = {"none", "COMPLETED", "TERMINATED", "raise"}
  SubOrchs = FALSE
  ActionIds = {1}
  HistoryLimit = 100
  Faults = {"abandon", "abandonActivity"}
  MaxCalls = 3
  MaxFaults = 1
  MaxToken = 5
  MaxTasks = 1
  MaxWakes = 1
  MaxEvents = 4
INVARIANTS InFlightIsOwned
PROPERTIES  TerminateTakesEffect
