SPECIFICATION Spec
CONSTANTS
  s1 = s1
  s2 = s2
  c0 = c0
  c1 = c1
  c2 = c2
  Sessions = {s1, s2}
  Contents = {c0, c1, c2}
  Base = c0
  Stray = {c2}
  MaxAttempts = 1
  MaxIterations = 1
  RequireApproval = TRUE
  FailEscalates = FALSE
  AsksRecovery = FALSE
  MaxStarts = 2
  MaxInbox = 1
  MaxPauses = 0
  MaxRestarts = 1
  MaxEdits = 1
INVARIANTS
  OneActivePerWorkspace
  
  CompletedIsTagged
PROPERTIES
  ApprovalFitsCandidate
CHECK_DEADLOCK FALSE
SYMMETRY SessionSymmetry
