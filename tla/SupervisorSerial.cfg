SPECIFICATION FairSpec
CONSTANTS
  Threads = {t1}
  NoThread = NoThread
  Contents = {c0, c1, c2, c3}
  Base = c0
  Stray = {c3}
  AttemptCap = 3
  MaxAttempts = 2
  Contracts <- Reviewed
  MaxCrashes = 0
  MaxEdits = 2
  MaxRetries = 1
  MaxOverlaps = 0
  MaxOverwrites = 0
  EditDuringVerify = FALSE
INVARIANTS
  TypeOK
  ApprovedPromotion
  UncertainIsRecoverable
  WaitingIsAnswerable
PROPERTIES
  FollowsLifecycle
  RequestsEnd
