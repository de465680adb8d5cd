SPECIFICATION Spec
CONSTANTS
  Threads = {t1, t2}
  NoThread = NoThread
  Contents = {c0, c1}
  Base = c0
  Stray = {}
  AttemptCap = 5
  MaxAttempts = 1
  Contracts <- Reviewed
  MaxCrashes = 1
  MaxEdits = 0
  MaxRetries = 0
  MaxOverlaps = 2
  MaxOverwrites = 0
  EditDuringVerify = FALSE
INVARIANTS
  MutualExclusion
  NoCallAfterResult
  VersionsAreTagged
PROPERTIES
  IntentsStayClosed
SYMMETRY ThreadSymmetry
