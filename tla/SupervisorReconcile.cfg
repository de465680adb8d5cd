SPECIFICATION Spec
CONSTANTS
  Threads = {t1}
  NoThread = NoThread
  Contents = {c0, c1}
  Base = c0
  Stray = {}
  AttemptCap = 4
  MaxAttempts = 2
  Contracts <- Reviewed
  MaxCrashes = 1
  MaxEdits = 0
  MaxRetries = 1
  MaxOverlaps = 0
  MaxOverwrites = 0
  EditDuringVerify = FALSE
INVARIANTS
  PromotionIsReconcilable
