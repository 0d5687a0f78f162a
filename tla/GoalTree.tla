------------------------------ MODULE GoalTree ------------------------------
(***************************************************************************)
(* verify_goal_tree (kernel/goals.py): a goal decomposition is verified    *)
(* parent first, subgoals in their order.  Each goal is one call of the    *)
(* gate, on the live registry, so that mutations and the clock fall        *)
(* between the goals of a tree.  The gate is the atomic one, which         *)
(* FreedomVerifier implements.                                             *)
(***************************************************************************)
EXTENDS AuthorityGate

CONSTANTS
  Trees,    \* the goal trees that callers submit
  Caller    \* the thread that runs verify_goal_tree

\* A tree is the sequence of its goals in pre-order; the root has parent 0.
Goal == [parent : Nat, actor : Agents, demands : Seq([op : Operations, resource : Resources])]

ASSUME GoalTreeAssumption ==
  /\ Caller \in Threads
  /\ Trees \subseteq Seq(Goal) \ {<<>>}
  /\ \A tr \in Trees : \A i \in DOMAIN tr :
       IF i = 1 THEN tr[i].parent = 0 ELSE tr[i].parent \in 1 .. i - 1

VARIABLES
  tree,      \* the argument of verify_goal_tree
  outcome,   \* per goal: its GoalVerificationResult, "none" while it has none
  begun      \* history, per goal: the clock when its verification began

goalVars == <<tree, outcome, begun>>
treeVars == <<gateVars, goalVars>>

-----------------------------------------------------------------------------
GoalInit ==
  /\ GateInit
  /\ tree \in Trees
  /\ outcome = [i \in DOMAIN tree |-> "none"]
  /\ begun = [i \in DOMAIN tree |-> 0]

\* required_resources_read and required_resources_write, as one set.
ResourcesOf(i) == {tree[i].demands[d].resource : d \in DOMAIN tree[i].demands}

\* GoalNode.action(): no flag is set and nobody is governed.
ActionOf(i) ==
  [actor |-> tree[i].actor, forbidden |-> FALSE, governs |-> {}, demands |-> tree[i].demands]

\* Mutant: the recursion ends at the subgoals of the root.
PendingShallow(i) ==
  /\ outcome[i] = "none"
  /\ tree[i].parent # 0 => tree[i].parent = 1 /\ outcome[1] = "permitted"

\* Goal i has no result yet, and the recursion gets to it.
Pending(i) ==
  /\ outcome[i] = "none"
  /\ tree[i].parent # 0 => outcome[tree[i].parent] = "permitted"

IsNext(i) == Pending(i) /\ \A j \in 1 .. i - 1 : ~Pending(j)

VerifyGoal(i) ==
  /\ gate[Caller] = NoVerdict
  /\ IsNext(i)
  /\ Begin(Caller, ActionOf(i))
  /\ begun' = [begun EXCEPT ![i] = now]
  /\ UNCHANGED <<tree, outcome>>

\* Mutant: only the first required resource is compared.
OutsideParentFirst(i) ==
  tree[i].parent # 0 /\ tree[i].demands # <<>>
    /\ tree[i].demands[1].resource \notin ResourcesOf(tree[i].parent)

\* The attenuation check: resources that the parent goal does not require.
OutsideParent(i) ==
  tree[i].parent # 0 /\ ~(ResourcesOf(i) \subseteq ResourcesOf(tree[i].parent))

\* Mutant: a subgoal within its parent's scope is taken to be permitted.
ResultOfLenient(i) ==
  IF OutsideParent(i) THEN "escalation"
  ELSE IF gate[Caller].verdict = "denied" /\ tree[i].parent = 0 THEN "denied" ELSE "permitted"

\* The attenuation check replaces the verdict of the gate.
ResultOf(i) ==
  IF OutsideParent(i) THEN "escalation" ELSE gate[Caller].verdict

\* Mutant: the call of the gate is not over.
TakeResultUnended(i) ==
  /\ gate[Caller].verdict \in {"permitted", "denied"}
  /\ IsNext(i)
  /\ outcome' = [k \in DOMAIN tree |->
       IF k = i THEN ResultOf(i)
       ELSE IF tree[k].parent = i /\ ResultOf(i) # "permitted" THEN "cancelled"
       ELSE outcome[k]]
  /\ UNCHANGED <<gate, tree, begun>>

\* A blocked goal cancels its own subgoals; what is below them has no result.
TakeResult(i) ==
  /\ gate[Caller].verdict \in {"permitted", "denied"}
  /\ IsNext(i)
  /\ outcome' = [k \in DOMAIN tree |->
       IF k = i THEN ResultOf(i)
       ELSE IF tree[k].parent = i /\ ResultOf(i) # "permitted" THEN "cancelled"
       ELSE outcome[k]]
  /\ End(Caller)
  /\ UNCHANGED <<tree, begun>>

GoalNext ==
  \/ RegistryNext /\ UNCHANGED <<gate, goalVars>>
  \/ /\ \/ \E i \in DOMAIN tree : VerifyGoal(i) \/ TakeResult(i)
        \/ Decide(Caller) /\ UNCHANGED goalVars
     /\ UNCHANGED registryVars

GoalSpec == GoalInit /\ [][GoalNext]_treeVars

-----------------------------------------------------------------------------
(* Properties *)

Done == gate[Caller] = NoVerdict /\ \A i \in DOMAIN tree : ~Pending(i)

\* GoalVerificationResult.fully_permitted of the root: what has no result does
\* not count.
FullyPermitted == \A i \in DOMAIN tree : outcome[i] \in {"permitted", "none"}

\* Goals, outcomes and their history are well formed.
GoalTypeOK ==
  /\ RegistryTypeOK
  /\ tree \in Trees
  /\ outcome \in [DOMAIN tree -> {"none", "permitted", "denied", "escalation", "cancelled"}]
  /\ begun \in [DOMAIN tree -> Nat]
  /\ gate[Caller].verdict \in {"none", "pending", "permitted", "denied"}
  /\ gate[Caller] # NoVerdict =>
       \E i \in DOMAIN tree : IsNext(i) /\ gate[Caller].action = ActionOf(i)

\* Authority does not grow down the tree: a permitted goal requires only what
\* the root requires, and every goal above it is permitted, at any depth.
ScopeWithinRoot ==
  \A i \in DOMAIN tree : outcome[i] = "permitted" =>
    /\ ResourcesOf(i) \subseteq ResourcesOf(1)
    /\ tree[i].parent # 0 => outcome[tree[i].parent] = "permitted"

\* A tree that is fully permitted has been verified to its last goal: none is
\* skipped, cancelled or left without a result.
FullyPermittedIsComplete ==
  Done /\ FullyPermitted => \A i \in DOMAIN tree : outcome[i] = "permitted"

\* However the registry changes between the goals: each permitted goal is backed
\* by claims of its own actor that were valid after its verification began, and
\* a machine that pursues it has an owner.
PermittedGoalsBacked ==
  \A i \in DOMAIN tree : outcome[i] = "permitted" =>
    /\ tree[i].actor \in Machines => machineOwners[tree[i].actor] # NoOwner
    /\ \A d \in DOMAIN tree[i].demands :
         LET demand == tree[i].demands[d] IN
         \/ PublicRead(demand.resource, demand.op)
         \/ \E k \in DOMAIN claims :
              /\ claims[k].holder = tree[i].actor
              /\ claims[k].resource = demand.resource
              /\ demand.op \in claims[k].rights
              /\ claims[k].confidence > 0
              /\ claims[k].expiresAt = NoExpiry \/ claims[k].expiresAt >= begun[i]
=============================================================================
