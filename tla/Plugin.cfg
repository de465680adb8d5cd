SPECIFICATION FairSpec
CONSTANTS
  s1 = s1
  s2 = s2
  c0 = c0
  c1 = c1
  c2 = c2
  Sessions = {s1}
  Contents = {c0, c1}
  Base = c0
  Stray = {}
  MaxAttempts = 2
  MaxIterations = 2
  RequireApproval = FALSE
  FailEscalates = FALSE
  AsksRecovery = FALSE
  MaxStarts = 1
  MaxInbox = 2
  MaxPauses = 2
  MaxRestarts = 1
  MaxEdits = 1
INVARIANTS
  TypeOK
PROPERTIES
  PauseHolds
  WritesAreCurrent
  TasksEnd
CHECK_DEADLOCK FALSE
