SPECIFICATION FairSpec
CONSTANTS
  None = None
  Unencodable = Unencodable
  Values <- SomeValues
  Known = {1, 2}
  InPlaceMayFail = FALSE
  MaxOps = 3
  MaxSteps = 2
  MaxAbandons = 1
CHECK_DEADLOCK FALSE
INVARIANTS StateOfLastSuccess ActionsOfSuccess
PROPERTIES OperationsAnswered
