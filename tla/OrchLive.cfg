SPECIFICATION FairSpec
CONSTANTS
  Session = {s1}
  Root = {s1}
  Operator = {o1}
  s1 = s1
  o1 = o1
  Boot = Boot
  None = None
  Done = Done
  Step <- MCStep
  Circuit <- MCCircuit
  RootCircuit = "main"
  Entry <- MCEntry
  Kind <- MCKind
  Exits <- MCExits
  Target <- MCTarget
  ChildCircuit <- MCChild
  MaxVisits = 2
  MaxTries = 2
  Ops = {"verdict","retry","resume"}
  Faults = {"budget","fail","invalid","config"}
  MaxCalls = 2
  MaxCrash = 1
CHECK_DEADLOCK FALSE
PROPERTY LifecycleSpec
PROPERTY ComesToRest
