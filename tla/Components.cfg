SPECIFICATION MCSpec
CONSTANTS
  h1 = h1
  h2 = h2
  m1 = m1
  r1 = r1
  r2 = r2
  t1 = t1
  t2 = t2
  g1 = g1
  g2 = g2
  g3 = g3
  g4 = g4
  Jobs = {"goals", "tools", "rust", "service", "queue", "resolver", "forest", "flow", "rules", "argument", "compass", "script"}
  Humans = {h1}
  Machines = {m1}
  Resources = {r1, r2}
  PublicResources = {r2}
  NoExpiry = NoExpiry
  NoOwner = NoOwner
  NoSnapshot = NoSnapshot
  NoAction = NoAction
  Confidences = {89, 90}
  Lifetimes <- MCLifetimes
  RightSets <- MCRightSets
  Threads = {t1, t2}
  Plans <- MCPlans
  MaxClaims = 3
  MaxConflicts = 2
  MaxTime = 1
  Caller = t1
  Trees <- MCTrees
  ToolCaller = t1
  Tools <- MCTools
  Policies <- MCPolicies
  ScopeOf <- MCScopeOf
  Tolerance = 1
  Arbiters = {t1, t2}
  Contenders <- MCContenders
  MaxAdded = 3
  Goals = {g1, g2, g3, g4}
  Limits = {1, 2}
  LeafLimit = 2
  FlowPlans <- MCFlowPlans
  Rules = {g1, g2}
  Violating = {g2}
  Hooks = 2
  MaxRules = 3
  Signals <- MCSignals
  Thresholds = {30, 50, 80}
  MaxCount = 1
  ScriptHumans = {h1, h2}
  ScriptMachines = {m1}
  ScriptResources = {r1, r2}
  ScriptActions <- MCScriptActions
  Ownerless = Ownerless
CHECK_DEADLOCK FALSE
INVARIANTS
  ComponentsTypeOK
  ScopeWithinRoot FullyPermittedIsComplete PermittedGoalsBacked
  ToolRunsAuthorized PolicyObeyed
  RustAuthorityRooted RustContestsRecorded
  AcknowledgedIsHonoured
  ArbitrationRemovesMeantOrLater ResolutionAcyclic
  WalkIsComplete DepthLimitKept BuiltWithinLimit
  NoDownwardFlow CheckerIsStricter
  InductionAccounted
  CompassIsPotential
  PermissibleIsRooted
PROPERTIES TaintNeverFalls SignalsRaiseRisk
