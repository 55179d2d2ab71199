SPECIFICATION ServicesSpec
CONSTANTS
  Proposal = {"p1"}
  Hunk <- MCHunk
  FileOf <- MCFileOf
  Val <- MCVal
  Strict <- MCStrict
  Loose <- MCLoose
  None = None
  MaxCommits = 5
  MaxCrashes = 1
  Fixture = {"f", "g"}
  Dim = {"a", "b"}
  Value = {0, 1}
  Workers = 2
  Judge = {"j"}
  WhileRunning = FALSE
  MaxRecords = 1
  MaxRestarts = 2
  Remote = {"r", "s"}
  MaxChanges = 2
  MaxReboots = 1
CHECK_DEADLOCK FALSE
INVARIANT MainSound
 
 
INVARIANT OwnRemote
 
PROPERTY Closable
PROPERTY RunEnds
PROPERTY Cloned
