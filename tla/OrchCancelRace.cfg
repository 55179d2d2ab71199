SPECIFICATION Spec
CONSTANTS
  Session = {s1}
  Root = {s1}
  Operator = {o1}
  s1 = s1
  o1 = o1
  Boot = Boot
  None = None
  Done = Done
  Step <- MCStep
  Circuit <- MCCircuit
  RootCircuit = "main"
  Entry <- MCEntry
  Kind <- MCKind
  Exits <- MCExits
  Target <- MCTarget
  ChildCircuit <- MCChild
  MaxVisits = 2
  MaxTries = 1
  Ops = {"cancel"}
  Faults = {}
  MaxCalls = 1
  MaxCrash = 0
CHECK_DEADLOCK FALSE
PROPERTY TerminalFinal
