SPECIFICATION FairSpec
CONSTANTS
  Hook = {h1}
  None = None
  Pass = {1, 2}
  MaxAttempts = 2
  ReplayMax = 2
  MaxEvents = 2
  MaxConnect = 2
  MaxUpset = 1
CHECK_DEADLOCK FALSE
INVARIANT ExactlyOnce
INVARIANT AcceptedOnce
PROPERTY Settles
