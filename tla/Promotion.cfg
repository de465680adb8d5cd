SPECIFICATION Spec
CONSTANTS
  id1 = id1
  id2 = id2
  root = root
  ca = ca
  cb = cb
  s1 = s1
  t1 = t1
  t2 = t2
  b1 = b1
  b2 = b2
  Threads = {t1, t2}
  Ids = {id1, id2}
  Parents = {root}
  Commits = {ca, cb}
  Subjects = {s1}
  Proposals <- MCProposals
  Faithful <- MCProposals
  Branches = {b1, b2}
  NoBranch = NoBranch
  Base = Base
  MaxPrs = 2
  MaxPushes = 1
INVARIANTS
  OneCandidatePerParent
  OpenPrsAreAccounted
  RecordedVersionIsLive
SYMMETRY Identities
CONSTRAINT Focus
