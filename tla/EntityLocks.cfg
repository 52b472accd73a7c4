SPECIFICATION FairSpec
CONSTANTS
  e1 = e1
  e2 = e2
  o1 = o1
  o2 = o2
  None = None
  Entities = {e1, e2}
  Orchs = {o1, o2}
  LockSets <- Overlapping
  Exits = {"inside"}
  Cleaning = {}
  MaxOps = 1
  MaxSections = 3
  MaxAbandons = 0
CHECK_DEADLOCK FALSE
INVARIANTS LockExclusion LocksOwned
PROPERTIES LockGranted
