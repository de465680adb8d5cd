SPECIFICATION Spec
CONSTANTS
  Threads = {t1}
  NoThread = NoThread
  Contents = {c0, c1, c2}
  Base = c0
  Stray = {c2}
  AttemptCap = 3
  MaxAttempts = 2
  Contracts <- AllKinds
  MaxCrashes = 1
  MaxEdits = 1
  MaxRetries = 1
  MaxOverlaps = 0
  MaxOverwrites = 1
  EditDuringVerify = FALSE
INVARIANTS
  VerifiedPromotion
  NoUnapprovedRepeat
  NoVersionWithoutContract
