SPECIFICATION IntakeSpec
CONSTANTS
  t1 = t1
  t2 = t2
  Task <- MCTask
  Session = {s1, s2}
  Operator = {o1}
  Pass = Pass
  None = None
  Blockers <- MCBlockers
  Targeted <- MCTargeted
  Ops = {"create","accept","reject","promote","discard","config","archive","verdict","retry","cancel"}
  KeepHistory = 2
  MaxCalls = 2
  MaxCrash = 1
  MaxMessages = 3
  Background = {2, 3}
  Noted = {2}
  Cost = {1}
  ChatOps = {"edit", "cancel", "resume"}
  MaxBudget = 2
  MaxEdits = 1
CHECK_DEADLOCK FALSE
INVARIANT OneRun
 
INVARIANT HistoryFits
INVARIANT ContextIsCurrent
 
PROPERTY TurnsGrow
