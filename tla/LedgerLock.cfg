SPECIFICATION FairSpec
CONSTANTS
  a1 = a1
  a2 = a2
  a3 = a3
  a4 = a4
  p1 = p1
  p2 = p2
  p3 = p3
  Actors = {a1, a2, a3}
  NoActor = NoActor
  Pids = {p1, p2, p3}
  PidOf <- Writers
  MaxTries = 2
  MaxDeaths = 1
  MaxStalls = 0
INVARIANTS
  TypeOK
  HolderOwnsFile
  OneReaper
PROPERTIES
  AcquireEnds
  StuckLockIsReaped
