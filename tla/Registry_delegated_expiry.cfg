SPECIFICATION RegistrySpec
CONSTANTS
  h1 = h1
  h2 = h2
  h3 = h3
  m1 = m1
  r1 = r1
  r2 = r2
  NoExpiry = NoExpiry
  NoOwner = NoOwner
  NoSnapshot = NoSnapshot
  Humans = {h1}
  Machines = {m1}
  Resources = {r1}
  PublicResources = {}
  Confidences = {50, 90}
  Lifetimes <- MCLifetimes
  RightSets <- DelegationRights
  MaxClaims = 3
  MaxConflicts = 2
  MaxTime = 1
CONSTRAINT WithoutSnapshot
INVARIANTS DelegationBoundedInTime
