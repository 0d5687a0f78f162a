SPECIFICATION Spec
CONSTANTS
  h1 = h1
  m1 = m1
  r1 = r1
  t1 = t1
  t2 = t2
  Humans = {h1}
  Machines = {m1}
  Resources = {r1}
  PublicResources = {r1}
  NoExpiry = NoExpiry
  NoOwner = NoOwner
  NoSnapshot = NoSnapshot
  Live = Live
  Confidences = {90}
  Lifetimes = {0}
  RightSets <- WriteOnly
  Threads = {t1, t2}
  Plans <- CutPlans
  MaxClaims = 1
  MaxConflicts = 1
  MaxTime = 1
  MaxAudit = 1
  ForbiddenNames = {r1}
CONSTRAINT WithoutHook
SYMMETRY MCSymmetry
INVARIANTS PermitIsBacked PlanStopsAtForbidden VerdictsAudited
