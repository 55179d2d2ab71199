SPECIFICATION ContentSpec
CONSTANTS
  Art = {a1, a2}
  Target = {u1}
  Reviewer = {c1, c2}
  Editor = {e1}
  None = None
  Ops = {"plain", "edit", "retag", "cancel"}
  MaxTry = 1
  MaxCalls = 2
  MaxCrash = 1
  Task = {t1, t2, t3}
  Caller = {p1}
  MaxDepth = 3
  MaxEdges = 3
CHECK_DEADLOCK FALSE
 
 
PROPERTY LeavesDecided
 
