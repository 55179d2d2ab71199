SPECIFICATION Spec
CONSTANTS
  MaxMessages = 2
  Background = {}
  Noted = {1}
  Cost = {1}
  Ops = {}
  MaxBudget = 4
  MaxEdits = 0
  MaxCalls = 0
  MaxCrash = 0
CHECK_DEADLOCK FALSE
PROPERTY HistoryGrows
