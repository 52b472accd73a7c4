SPECIFICATION FairSpec
CONSTANTS
  go = go
  None = None
  Names = {go}
  Match = "strict"
  Failure = "reject"
  Scenes <- Everything
  Workers = {1, 2}
  Version = 1
  SuspendApart = TRUE
  FirstValue = 1
CHECK_DEADLOCK FALSE
INVARIANTS AskedOnce NeverFailsByItself  ResultsFitCalls
PROPERTIES  SuspendedRests Ends
