SPECIFICATION ContextSpec
CONSTANTS
  h1 = h1
  m1 = m1
  m2 = m2
  r1 = r1
  r2 = r2
  t1 = t1
  t2 = t2
  Humans = {h1}
  Machines = {}
  Resources = {r1}
  PublicResources = {}
  NoExpiry = NoExpiry
  NoOwner = NoOwner
  NoSnapshot = NoSnapshot
  Live = Live
  NoSpawn = NoSpawn
  NoContext = NoContext
  Confidences = {90}
  Lifetimes = {0}
  RightSets <- ReadOrWrite
  Threads = {t1, t2}
  Plans = {}
  Depths = {1, 2}
  ContextLifetimes <- OrNever
  ExpiresIn <- OrNever
  Requests <- RequestNone
  MaxContexts = 3
  MaxClaims = 0
  MaxConflicts = 1
  MaxTime = 1
  MaxAudit = 1
  ForbiddenNames = {}
CONSTRAINT Small
INVARIANTS RevocationReachesDescendants
