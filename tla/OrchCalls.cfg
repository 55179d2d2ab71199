SPECIFICATION CallsSpec
CONSTANTS
  Session = {s1, s2}
  Root = {s1}
  Operator = {o1, o2}
  s1 = s1
  s2 = s2
  o1 = o1
  o2 = o2
  Boot = Boot
  None = None
  Done = Done
  Step <- MCStep
  Circuit <- MCCircuit
  RootCircuit = "main"
  Entry <- MCEntry
  Kind <- MCKind
  Exits <- MCExits
  Target <- MCTarget
  ChildCircuit <- MCChild
  MaxVisits = 2
  MaxTries = 1
  Ops = {"verdict","retry","resume","cancel","route"}
  Faults = {"fail","budget"}
  MaxCalls = 2
  MaxCrash = 1
SYMMETRY MCOperators
CHECK_DEADLOCK FALSE
INVARIANT TypeOK
INVARIANT AttemptFresh
INVARIANT VisitBound
INVARIANT RunningHasLoop
