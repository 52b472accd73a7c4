SPECIFICATION FairSpec
CONSTANTS
  Kinds = {"orchestration", "entity"}
  Limit <- OneEach
  Threads = 1
  Errors = {"connection", "application"}
  Stops = TRUE
  SlowAt = {}
  MaxItems = 2
  MaxErrors = 2
CHECK_DEADLOCK FALSE
INVARIANTS NeverDropped StoppedIsIdle WithinLimits
PROPERTIES  Reconnects StopEnds
