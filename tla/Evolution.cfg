SPECIFICATION FairSpec
CONSTANTS
  t1 = t1
  t2 = t2
  h1 = h1
  k1 = k1
  d0 = d0
  d1 = d1
  Threads = {t1, t2}
  NoThread = NoThread
  NoTrigger = NoTrigger
  Server = {t1}
  Human = {h1}
  Feedback = {k1}
  Docs = {d0, d1}
  Good = {d1}
  Repo <- OneRevision
  EarlyRequeue = FALSE
  MaxFailures = 2
  MaxCrashes = 1
  MaxRequeues = 1
INVARIANTS
  ActiveIsProven
  OneBuilderPerTrigger
  ReviewedRunIsProven
PROPERTIES
  ReviewIsKept
  WorkEnds
