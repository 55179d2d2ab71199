SPECIFICATION Spec
CONSTANTS
  Words = {"v", "w"}
  Compactor = {"c"}
  Svc = "svc"
  None = None
  NoteOps = {"read", "edit", "revert"}
  MaxTyped = 1
  MaxCalled = 3
  MaxSweeps = 1
  MaxAges = 1
  MaxReloads = 0
CHECK_DEADLOCK FALSE
PROPERTY LaterEditsSurvive
