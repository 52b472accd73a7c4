SPECIFICATION Spec
CONSTANTS
  go = go
  None = None
  Names = {go}
  Match = "strict"
  Failure = "reject"
  Scenes <- SuspendedAnywhere
  Workers = {1, 2}
  Version = 1
  SuspendApart = FALSE
  FirstValue = 1
CHECK_DEADLOCK FALSE
INVARIANTS NeverFailsByItself
