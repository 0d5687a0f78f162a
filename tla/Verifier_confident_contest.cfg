SPECIFICATION Spec
CONSTANTS
  h1 = h1
  m1 = m1
  r1 = r1
  t1 = t1
  t2 = t2
  Humans = {h1}
  Machines = {m1}
  Resources = {r1}
  PublicResources = {}
  NoExpiry = NoExpiry
  NoOwner = NoOwner
  NoSnapshot = NoSnapshot
  Live = Live
  Confidences = {50, 90}
  Lifetimes <- MCLifetimes
  RightSets <- MCRightSets
  Threads = {t1}
  Plans <- RacePlans
  MaxClaims = 2
  MaxConflicts = 1
  MaxTime = 1
  MaxAudit = 1
  ForbiddenNames = {}
CONSTRAINT WithoutSnapshot
INVARIANTS ContestedWriteArbitrated
