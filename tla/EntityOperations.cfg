SPECIFICATION FairSpec
CONSTANTS
  e1 = e1
  e2 = e2
  o1 = o1
  o2 = o2
  None = None
  Entities = {e1, e2}
  Orchs = {o1}
  LockSets <- Single
  Exits = {"inside"}
  Cleaning = {"releaseOrphanedLocks"}
  MaxOps = 2
  MaxSections = 1
  MaxAbandons = 1
CHECK_DEADLOCK FALSE
INVARIANTS SerialExecution OperationsInOrder NoEntityForgotten
PROPERTIES OperationsExecuted
