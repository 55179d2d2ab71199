SPECIFICATION FairSpec
CONSTANTS
  Session = {s1, s2, s3}
  Root = {s1}
  Operator = {o1}
  s1 = s1
  s2 = s2
  s3 = s3
  o1 = o1
  Boot = Boot
  None = None
  Done = Done
  Step <- MCStep
  Circuit <- MCCircuit
  RootCircuit = "outer"
  Entry <- MCEntry
  Kind <- MCKind
  Exits <- MCExits
  Target <- MCTarget
  ChildCircuit <- MCChild
  MaxVisits = 2
  MaxTries = 1
  Ops = {"verdict","retry"}
  Faults = {"fail"}
  MaxCalls = 2
  MaxCrash = 0
CHECK_DEADLOCK FALSE
INVARIANT OneLiveChild
INVARIANT NoLostWakeup
PROPERTY ComesToRest
