SPECIFICATION Spec
CONSTANTS
  Clients = {c1, c2}
  Starters = {c1}
  Requests = {"replace", "purge", "restart", "reset"}
  Outcomes = {"COMPLETED", "CONTINUED"}
  Events = {}
  MayRaise = TRUE
  MaxInstances = 2
CHECK_DEADLOCK FALSE
INVARIANTS ListIsExact CompletionIsWhole
