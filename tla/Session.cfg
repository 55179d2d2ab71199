SPECIFICATION SessionSpec
CONSTANTS
  Session = {s1}
  Root = {s1}
  Operator = {o1, o2}
  s1 = s1
  o1 = o1
  o2 = o2
  Boot = Boot
  None = None
  Done = Done
  Step <- MCStep
  Circuit <- MCCircuit
  RootCircuit = "main"
  Entry <- MCEntry
  Kind <- MCKind
  Exits <- MCExits
  Target <- MCTarget
  ChildCircuit <- MCChild
  MaxVisits = 2
  MaxTries = 1
  Ops = {"verdict","retry"}
  Faults = {"fail"}
  MaxCalls = 3
  MaxCrash = 1
  Outer = Outer
  Nested = {n1,n2}
  n1 = n1
  n2 = n2
  t1 = t1
  t2 = t2
  Tool <- MCTool
  Cost <- MCCost
  Ceiling = 2
  Asked <- MCAsked
  MaxIndex = 0
  MaxNested = 2
  MaxRetry = 1
  MaxRestarts = 1
  Words = {"v", "w"}
  Compactor = {"c"}
  Svc = "svc"
  NoteOps = {"read", "edit", "revert", "restore"}
  MaxTyped = 1
  MaxCalled = 2
  MaxSweeps = 1
  MaxAges = 1
  MaxReloads = 1
SYMMETRY MCSymmetry
CONSTRAINT FewChanges
CHECK_DEADLOCK FALSE
INVARIANT ExitOnce
INVARIANT GateAnswerable
INVARIANT RowsSettle
INVARIANT OverrunBounded
 
PROPERTY JournalStable
PROPERTY EditKeepsOthers
