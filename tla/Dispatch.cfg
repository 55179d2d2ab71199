SPECIFICATION FairSpec
CONSTANTS
  Session = {1,2,3}
  None = None
  Parent <- MCParent
  Priority <- MCPriority
  MaxRuns = 1
  ScanLimit = 3
  MaxResume = 1
  MaxStop = 1
CHECK_DEADLOCK FALSE
INVARIANT WithinCapacity
INVARIANT NothingOverlooked
PROPERTY Admitted
