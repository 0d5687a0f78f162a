------------------------- MODULE GateClientsProofs -------------------------
(***************************************************************************)
(* Theorems about the clients of the gate: goal trees, the tool adapters   *)
(* and the HTTP service, for every tree, tool, policy and request.  Each   *)
(* of them relies on a verdict after it was given.  What it may rely on is *)
(* Backed: the claims behind a permit and the owner of its machine stay,   *)
(* however long the client takes to act.                                   *)
(***************************************************************************)
EXTENDS GoalTree, ToolGate, Service, OwnershipRegistryProofs

\* A claim of the actor gives the right that is demanded, and was valid at some
\* time after "since".
BackedDemand(actor, demand, since) ==
  \/ PublicRead(demand.resource, demand.op)
  \/ \E k \in DOMAIN claims :
       /\ claims[k].holder = actor
       /\ claims[k].resource = demand.resource
       /\ demand.op \in claims[k].rights
       /\ claims[k].confidence > 0
       /\ claims[k].expiresAt = NoExpiry \/ claims[k].expiresAt >= since

\* The action could be permitted at some time after "since".
Backed(a, since) ==
  /\ ~a.forbidden
  /\ a.actor \in Machines => a.governs = {} /\ machineOwners[a.actor] # NoOwner
  /\ \A d \in DOMAIN a.demands : BackedDemand(a.actor, a.demands[d], since)

\* What the gate authorizes is backed since any earlier time.
LEMMA AuthorizedIsBacked ==
  ASSUME RegistryTypeOK, NEW a, Authorized(a), NEW since \in Nat, since <= now
  PROVE  Backed(a, since)
  <1>1. \A i \in DOMAIN claims : claims[i].expiresAt \in Nat \cup {NoExpiry}
    <2>1. \A i \in DOMAIN claims : claims[i] \in Claim
      BY DEF RegistryTypeOK
    <2>2. \A c \in Claim : c.expiresAt \in Lifetimes
      BY DEF Claim
    <2> QED BY <2>1, <2>2, ConstantsAssumption
  <1>2. now \in Nat
    BY DEF RegistryTypeOK
  <1>3. ASSUME NEW d \in DOMAIN a.demands
        PROVE  BackedDemand(a.actor, a.demands[d], since)
    <2> DEFINE demand == a.demands[d]
    <2>1. CanAct(claims, a.actor, demand.resource, demand.op)
      BY DEF Authorized
    <2>2. CASE PublicRead(demand.resource, demand.op)
      BY <2>2 DEF BackedDemand
    <2>3. ASSUME NEW i \in ClaimsFor(claims, a.actor, demand.resource),
                 Covers(claims[i], demand.op)
          PROVE  BackedDemand(a.actor, demand, since)
      <3>1. /\ i \in DOMAIN claims /\ claims[i].holder = a.actor
            /\ claims[i].resource = demand.resource /\ demand.op \in claims[i].rights
            /\ claims[i].confidence > 0
            /\ ~(claims[i].expiresAt # NoExpiry /\ now > claims[i].expiresAt)
        BY <2>3 DEF ClaimsFor, Covers, IsValid, IsExpired
      <3>2. claims[i].expiresAt = NoExpiry \/ claims[i].expiresAt >= since
        BY <1>1, <1>2, <3>1
      <3> QED BY <3>1, <3>2 DEF BackedDemand
    <2> QED BY <2>1, <2>2, <2>3 DEF CanAct
  <1> QED BY <1>3 DEF Authorized, Backed

\* No operation of the registry takes the backing of an action away.
LEMMA BackedStays ==
  ASSUME RegistryTypeOK, [RegistryNext]_registryVars
  PROVE  \A a, since : Backed(a, since) => Backed(a, since)'
  <1>1. /\ Continues(claims', claims)
        /\ \A m \in Machines : machineOwners[m] # NoOwner => machineOwners'[m] # NoOwner
    BY RegistryGrows
  <1>2. ASSUME NEW actor, NEW demand, NEW since, BackedDemand(actor, demand, since)
        PROVE  BackedDemand(actor, demand, since)'
    <2>1. CASE PublicRead(demand.resource, demand.op)
      BY <2>1 DEF BackedDemand, PublicRead
    <2>2. ASSUME NEW k \in DOMAIN claims,
                 /\ claims[k].holder = actor
                 /\ claims[k].resource = demand.resource
                 /\ demand.op \in claims[k].rights
                 /\ claims[k].confidence > 0
                 /\ claims[k].expiresAt = NoExpiry \/ claims[k].expiresAt >= since
          PROVE  BackedDemand(actor, demand, since)'
      <3>1. k \in DOMAIN claims' /\ claims'[k] = claims[k]
        BY <1>1 DEF Continues
      <3> QED BY <2>2, <3>1 DEF BackedDemand
    <2> QED BY <1>2, <2>1, <2>2 DEF BackedDemand
  <1> QED BY <1>1, <1>2 DEF Backed

-----------------------------------------------------------------------------
(* Goal trees.  The call of the gate is always about the next goal in       *)
(* pre-order, and a result rests on it; a goal with a result is never the   *)
(* next one again, so that what its verdict rested on stays as it was.      *)

\* The goals of a tree are numbered in pre-order, parents first.
LEMMA TreesArePreordered ==
  ASSUME NEW tr \in Trees
  PROVE  /\ Len(tr) \in Nat /\ DOMAIN tr = 1 .. Len(tr) /\ 1 \in DOMAIN tr
         /\ \A i \in DOMAIN tr :
              /\ tr[i].parent \in Nat
              /\ tr[i].parent = 0 <=> i = 1
              /\ tr[i].parent # 0 => tr[i].parent \in DOMAIN tr /\ tr[i].parent < i
  <1>1. tr \in Seq(Goal) /\ tr # <<>>
    BY GoalTreeAssumption
  <1>2. Len(tr) \in Nat \ {0} /\ DOMAIN tr = 1 .. Len(tr)
    BY <1>1, EmptySeq, LenProperties
  <1>3. \A i \in DOMAIN tr : IF i = 1 THEN tr[i].parent = 0 ELSE tr[i].parent \in 1 .. i - 1
    BY GoalTreeAssumption
  <1> QED BY <1>2, <1>3

\* The call of the gate, if there is one, is about the next goal.
GoalCall ==
  \/ gate[Caller] = NoVerdict
  \/ \E i \in DOMAIN tree : \E v \in {"pending", "permitted", "denied"} :
       /\ IsNext(i)
       /\ gate[Caller] = [action |-> ActionOf(i), verdict |-> v]
       /\ begun[i] <= now
       /\ v = "permitted" => Backed(ActionOf(i), begun[i])

GoalsBacked ==
  \A i \in DOMAIN tree : outcome[i] = "permitted" => Backed(ActionOf(i), begun[i])

Outcomes == {"none", "permitted", "denied", "escalation", "cancelled"}

GoalInv ==
  /\ RegistryTypeOK
  /\ tree \in Trees
  /\ outcome \in [DOMAIN tree -> Outcomes]
  /\ begun \in [DOMAIN tree -> Nat]
  /\ DOMAIN gate = Threads
  /\ GoalCall
  /\ GoalsBacked
  /\ ScopeWithinRoot

\* At most one goal is the next one.
LEMMA NextIsUnique ==
  ASSUME tree \in Trees, NEW i \in DOMAIN tree, NEW j \in DOMAIN tree, IsNext(i), IsNext(j)
  PROVE  i = j
  <1>1. i \in Nat \ {0} /\ j \in Nat \ {0}
    BY TreesArePreordered
  <1>2. ~(i < j) /\ ~(j < i)
    BY <1>1 DEF IsNext
  <1> QED BY <1>1, <1>2

\* Before the first goal, no goal has a result.
LEMMA GoalsStart == GoalInit => GoalInv
  <1> SUFFICES ASSUME GoalInit PROVE GoalInv
    OBVIOUS
  <1>1. RegistryTypeOK
    BY InitTyped DEF GoalInit, GateInit
  <1>2. /\ tree \in Trees /\ outcome = [i \in DOMAIN tree |-> "none"]
        /\ begun = [i \in DOMAIN tree |-> 0] /\ gate = [t \in Threads |-> NoVerdict]
    BY DEF GoalInit, GateInit
  <1>3. DOMAIN gate = Threads /\ gate[Caller] = NoVerdict
    BY <1>2, GoalTreeAssumption
  <1> QED BY <1>1, <1>2, <1>3 DEF GoalInv, GoalCall, GoalsBacked, ScopeWithinRoot, Outcomes

\* The registry changes between two steps of the recursion.
LEMMA GoalsUnderRegistry ==
  ASSUME GoalInv, [RegistryNext]_registryVars, UNCHANGED <<gate, goalVars>>
  PROVE  GoalInv'
  <1>1. RegistryTypeOK' /\ now \in Nat /\ now' \in Nat /\ now <= now'
    BY TypedStep, RegistryGrows DEF GoalInv
  <1>2. UNCHANGED <<gate, tree, outcome, begun>>
    BY DEF goalVars
  <1>3. \A a, since : Backed(a, since) => Backed(a, since)'
    BY BackedStays DEF GoalInv
  <1>4. \A i : /\ ActionOf(i)' = ActionOf(i) /\ IsNext(i)' = IsNext(i)
               /\ ResourcesOf(i)' = ResourcesOf(i)
    BY <1>2 DEF ActionOf, IsNext, Pending, ResourcesOf
  <1>5. \A i : Backed(ActionOf(i), begun[i]) => Backed(ActionOf(i), begun[i])'
    <2> SUFFICES ASSUME NEW i, Backed(ActionOf(i), begun[i])
                 PROVE  Backed(ActionOf(i), begun[i])'
      OBVIOUS
    <2>1. PICK a, since : a = ActionOf(i) /\ since = begun[i]
      OBVIOUS
    <2>2. a = ActionOf(i)' /\ since = begun'[i]
      BY <1>2, <1>4, <2>1
    <2>3. Backed(a, since)'
      BY <1>3, <2>1
    <2> QED BY <2>2, <2>3 DEF Backed, BackedDemand
  <1>6. GoalsBacked'
    BY <1>2, <1>5 DEF GoalInv, GoalsBacked
  <1>7. GoalCall'
    <2>1. CASE gate[Caller] = NoVerdict
      BY <1>2, <2>1 DEF GoalCall, NoVerdict
    <2>2. ASSUME NEW i \in DOMAIN tree, NEW v \in {"pending", "permitted", "denied"},
                 IsNext(i), gate[Caller] = [action |-> ActionOf(i), verdict |-> v],
                 begun[i] <= now, v = "permitted" => Backed(ActionOf(i), begun[i])
          PROVE  GoalCall'
      <3>1. begun[i] \in Nat
        BY DEF GoalInv
      <3>2. begun'[i] <= now' /\ i \in DOMAIN tree'
        BY <1>1, <1>2, <2>2, <3>1
      <3>3. IsNext(i)' /\ gate'[Caller] = [action |-> ActionOf(i)', verdict |-> v]
        BY <1>2, <1>4, <2>2
      <3> QED BY <1>5, <2>2, <3>2, <3>3 DEF GoalCall
    <2> QED BY <2>1, <2>2 DEF GoalInv, GoalCall
  <1>8. ScopeWithinRoot'
    BY <1>2, <1>4 DEF GoalInv, ScopeWithinRoot
  <1> QED BY <1>1, <1>2, <1>6, <1>7, <1>8 DEF GoalInv

\* The backing of an action is a matter of the registry alone.
LEMMA BackingUnmoved ==
  ASSUME UNCHANGED registryVars
  PROVE  \A a, since : Backed(a, since)' <=> Backed(a, since)
  <1>1. claims' = claims /\ machineOwners' = machineOwners
    BY DEF registryVars
  <1> QED BY <1>1 DEF Backed, BackedDemand

\* A goal is verified when all before it have a result, or cannot get one.
LEMMA VerifyGoalKeeps ==
  ASSUME GoalInv, NEW i \in DOMAIN tree, VerifyGoal(i), UNCHANGED registryVars
  PROVE  GoalInv'
  <1>1. /\ RegistryTypeOK' /\ now' = now /\ now \in Nat
        /\ UNCHANGED <<tree, outcome>> /\ begun' = [begun EXCEPT ![i] = now]
    <2>1. RegistryTypeOK'
      BY TypedStep DEF GoalInv
    <2> QED BY <2>1 DEF GoalInv, RegistryTypeOK, VerifyGoal, registryVars
  <1>2. begun \in [DOMAIN tree -> Nat] /\ begun' \in [DOMAIN tree -> Nat] /\ begun'[i] = now
    BY <1>1 DEF GoalInv
  <1>3. /\ DOMAIN gate = Threads
        /\ gate' = [gate EXCEPT ![Caller] = [action |-> ActionOf(i), verdict |-> "pending"]]
    BY DEF GoalInv, VerifyGoal, Begin
  <1>4. DOMAIN gate' = Threads /\ gate'[Caller] = [action |-> ActionOf(i), verdict |-> "pending"]
    BY <1>3, GoalTreeAssumption
  <1>5. \A k : /\ ActionOf(k)' = ActionOf(k) /\ IsNext(k)' = IsNext(k)
               /\ ResourcesOf(k)' = ResourcesOf(k)
    BY <1>1 DEF ActionOf, IsNext, Pending, ResourcesOf
  <1>6. IsNext(i)' /\ outcome[i] = "none"
    BY <1>5 DEF VerifyGoal, IsNext, Pending
  <1>7. GoalCall'
    <2>1. gate'[Caller] = [action |-> ActionOf(i)', verdict |-> "pending"]
      BY <1>4, <1>5
    <2>2. "pending" \in {"pending", "permitted", "denied"} /\ "pending" # "permitted"
      OBVIOUS
    <2> QED BY <1>1, <1>2, <1>6, <2>1, <2>2 DEF GoalCall
  <1>8. GoalsBacked'
    <2> SUFFICES ASSUME NEW k \in DOMAIN tree, outcome[k] = "permitted"
                 PROVE  Backed(ActionOf(k), begun[k])'
      BY <1>1 DEF GoalsBacked
    <2>1. PICK a, since : a = ActionOf(k) /\ since = begun[k]
      OBVIOUS
    <2>2. a = ActionOf(k)' /\ since = begun'[k]
      BY <1>1, <1>2, <1>5, <1>6, <2>1
    <2>3. Backed(a, since)
      BY <2>1 DEF GoalInv, GoalsBacked
    <2>4. Backed(a, since)'
      BY <2>3, BackingUnmoved
    <2> QED BY <2>2, <2>4 DEF Backed, BackedDemand
  <1>9. ScopeWithinRoot'
    BY <1>1, <1>5 DEF GoalInv, ScopeWithinRoot
  <1> QED BY <1>1, <1>2, <1>4, <1>7, <1>8, <1>9 DEF GoalInv

\* The gate decides on the registry of that moment.
LEMMA DecideGoalKeeps ==
  ASSUME GoalInv, Decide(Caller), UNCHANGED goalVars, UNCHANGED registryVars
  PROVE  GoalInv'
  <1>1. /\ RegistryTypeOK /\ RegistryTypeOK' /\ now' = now
        /\ UNCHANGED <<tree, outcome, begun>>
    <2>1. RegistryTypeOK'
      BY TypedStep DEF GoalInv
    <2> QED BY <2>1 DEF GoalInv, goalVars, registryVars
  <1>2. \A k : /\ ActionOf(k)' = ActionOf(k) /\ IsNext(k)' = IsNext(k)
               /\ ResourcesOf(k)' = ResourcesOf(k)
    BY <1>1 DEF ActionOf, IsNext, Pending, ResourcesOf
  <1>3. \A k : Backed(ActionOf(k), begun[k]) => Backed(ActionOf(k), begun[k])'
    <2> SUFFICES ASSUME NEW k, Backed(ActionOf(k), begun[k])
                 PROVE  Backed(ActionOf(k), begun[k])'
      OBVIOUS
    <2>1. PICK a, since : a = ActionOf(k) /\ since = begun[k]
      OBVIOUS
    <2>2. a = ActionOf(k)' /\ since = begun'[k]
      BY <1>1, <1>2, <2>1
    <2>3. Backed(a, since)'
      BY <2>1, BackingUnmoved
    <2> QED BY <2>2, <2>3 DEF Backed, BackedDemand
  <1>4. gate[Caller].verdict = "pending" /\ gate[Caller] # NoVerdict
    BY DEF Decide, NoVerdict
  <1>5. PICK i \in DOMAIN tree, v \in {"pending", "permitted", "denied"} :
          /\ IsNext(i)
          /\ gate[Caller] = [action |-> ActionOf(i), verdict |-> v]
          /\ begun[i] <= now
    BY <1>4 DEF GoalInv, GoalCall
  <1>6. PICK w \in {"permitted", "denied"} :
          /\ w = IF Authorized(gate[Caller].action) THEN "permitted" ELSE "denied"
          /\ gate' = [gate EXCEPT ![Caller].verdict = w]
    BY DEF Decide
  <1>7. DOMAIN gate' = Threads /\ gate'[Caller] = [action |-> ActionOf(i), verdict |-> w]
    <2>1. gate'[Caller] = [gate[Caller] EXCEPT !.verdict = w] /\ DOMAIN gate' = Threads
      BY <1>6, GoalTreeAssumption DEF GoalInv
    <2> QED BY <1>5, <2>1
  <1>8. ASSUME w = "permitted"
        PROVE  Backed(ActionOf(i), begun[i])
    <2>1. PICK a : a = ActionOf(i)
      OBVIOUS
    <2>2. Authorized(a)
      <3>1. gate[Caller].action = a
        BY <1>5, <2>1
      <3> QED BY <1>6, <1>8, <3>1
    <2>3. begun[i] \in Nat
      BY DEF GoalInv
    <2> QED BY <1>1, <1>5, <2>1, <2>2, <2>3, AuthorizedIsBacked
  <1>9. GoalCall'
    <2>1. gate'[Caller] = [action |-> ActionOf(i)', verdict |-> w]
      BY <1>2, <1>7
    <2>2. begun'[i] <= now' /\ IsNext(i)' /\ i \in DOMAIN tree'
      BY <1>1, <1>2, <1>5
    <2>3. w = "permitted" => Backed(ActionOf(i), begun[i])'
      BY <1>3, <1>8
    <2> QED BY <2>1, <2>2, <2>3 DEF GoalCall
  <1>10. GoalsBacked' /\ ScopeWithinRoot'
    BY <1>1, <1>2, <1>3 DEF GoalInv, GoalsBacked, ScopeWithinRoot
  <1> QED BY <1>1, <1>7, <1>9, <1>10 DEF GoalInv

\* A result is the verdict of the gate, or an escalation; a goal that is permitted
\* is within the scope of its parent, hence of the root.
LEMMA TakeResultKeeps ==
  ASSUME GoalInv, NEW i \in DOMAIN tree, TakeResult(i), UNCHANGED registryVars
  PROVE  GoalInv'
  <1>1. /\ RegistryTypeOK' /\ now' = now
        /\ UNCHANGED <<tree, begun>> /\ tree \in Trees
    <2>1. RegistryTypeOK'
      BY TypedStep DEF GoalInv
    <2> QED BY <2>1 DEF GoalInv, TakeResult, registryVars
  <1>2. DOMAIN gate' = Threads /\ gate'[Caller] = NoVerdict
    BY GoalTreeAssumption DEF GoalInv, TakeResult, End
  <1>3. IsNext(i) /\ Pending(i) /\ outcome[i] = "none"
        /\ gate[Caller].verdict \in {"permitted", "denied"}
    BY DEF TakeResult, IsNext, Pending
  <1>4. PICK r : r = ResultOf(i)
    OBVIOUS
  <1>5. r \in {"permitted", "denied", "escalation"}
    BY <1>3, <1>4 DEF ResultOf
  <1>6. outcome' = [k \in DOMAIN tree |->
          IF k = i THEN r
          ELSE IF tree[k].parent = i /\ r # "permitted" THEN "cancelled" ELSE outcome[k]]
    BY <1>4 DEF TakeResult
  <1>7. outcome' \in [DOMAIN tree -> Outcomes]
    BY <1>5, <1>6 DEF GoalInv, Outcomes
  <1>8. r = "permitted" => Backed(ActionOf(i), begun[i]) /\ ~OutsideParent(i)
    <2> SUFFICES ASSUME r = "permitted"
                 PROVE  Backed(ActionOf(i), begun[i]) /\ ~OutsideParent(i)
      OBVIOUS
    <2>1. ~OutsideParent(i) /\ gate[Caller].verdict = "permitted"
      BY <1>4 DEF ResultOf
    <2>2. gate[Caller] # NoVerdict
      BY <2>1 DEF NoVerdict
    <2>3. PICK j \in DOMAIN tree, v \in {"pending", "permitted", "denied"} :
            /\ IsNext(j)
            /\ gate[Caller] = [action |-> ActionOf(j), verdict |-> v]
            /\ v = "permitted" => Backed(ActionOf(j), begun[j])
      BY <2>2 DEF GoalInv, GoalCall
    <2>4. j = i
      BY <1>1, <1>3, <2>3, NextIsUnique
    <2>5. v = "permitted"
      BY <2>1, <2>3
    <2> QED BY <2>1, <2>3, <2>4, <2>5
  <1>9. \A k \in DOMAIN tree : outcome'[k] = "permitted" =>
          IF k = i THEN r = "permitted" ELSE outcome[k] = "permitted"
    BY <1>6
  <1>10. \A k : ActionOf(k)' = ActionOf(k) /\ ResourcesOf(k)' = ResourcesOf(k)
    BY <1>1 DEF ActionOf, ResourcesOf
  <1>11. GoalsBacked'
    <2> SUFFICES ASSUME NEW k \in DOMAIN tree, outcome'[k] = "permitted"
                 PROVE  Backed(ActionOf(k), begun[k])'
      BY <1>1 DEF GoalsBacked
    <2>1. Backed(ActionOf(k), begun[k])
      BY <1>8, <1>9 DEF GoalInv, GoalsBacked
    <2>2. PICK a, since : a = ActionOf(k) /\ since = begun[k]
      OBVIOUS
    <2>3. a = ActionOf(k)' /\ since = begun'[k]
      BY <1>1, <1>10, <2>2
    <2>4. Backed(a, since)'
      BY <2>1, <2>2, BackingUnmoved
    <2> QED BY <2>3, <2>4 DEF Backed, BackedDemand
  <1>12. ScopeWithinRoot'
    <2> SUFFICES ASSUME NEW k \in DOMAIN tree, outcome'[k] = "permitted"
                 PROVE  /\ ResourcesOf(k) \subseteq ResourcesOf(1)
                        /\ tree[k].parent # 0 => outcome'[tree[k].parent] = "permitted"
      BY <1>1, <1>10 DEF ScopeWithinRoot
    <2> DEFINE p == tree[k].parent
    <2>1. /\ p # 0 => p \in DOMAIN tree /\ p # k
          /\ p = 0 <=> k = 1
      BY <1>1, TreesArePreordered
    <2>2. CASE k = i
      <3>1. p # 0 => outcome[p] = "permitted"
        BY <1>3, <2>2 DEF Pending
      <3>2. p # 0 => tree[p].parent # i
        <4>1. p # 0 => \/ tree[p].parent = 0
                       \/ tree[p].parent < p /\ p < i /\ p \in Nat /\ tree[p].parent \in Nat
          BY <1>1, <2>1, <2>2, TreesArePreordered
        <4>2. i \in Nat \ {0}
          BY <1>1, TreesArePreordered
        <4> QED BY <4>1, <4>2
      <3>3. p # 0 => outcome'[p] = "permitted"
        BY <1>6, <2>1, <2>2, <3>1, <3>2
      <3>4. p # 0 => ResourcesOf(i) \subseteq ResourcesOf(p)
        BY <1>8, <1>9, <2>2 DEF OutsideParent
      <3>5. p # 0 => ResourcesOf(p) \subseteq ResourcesOf(1)
        BY <2>1, <3>1 DEF GoalInv, ScopeWithinRoot
      <3> QED BY <2>1, <2>2, <3>3, <3>4, <3>5
    <2>3. CASE k # i
      <3>1. outcome[k] = "permitted"
        BY <1>9, <2>3
      <3>2. /\ ResourcesOf(k) \subseteq ResourcesOf(1)
            /\ p # 0 => outcome[p] = "permitted"
        BY <3>1 DEF GoalInv, ScopeWithinRoot
      <3>3. p # 0 => p # i /\ tree[p].parent # i
        <4>1. p # 0 /\ tree[p].parent # 0 => outcome[tree[p].parent] = "permitted"
          BY <2>1, <3>2 DEF GoalInv, ScopeWithinRoot
        <4>2. i # 0
          BY <1>1, TreesArePreordered
        <4> QED BY <1>3, <3>2, <4>1, <4>2
      <3>4. p # 0 => outcome'[p] = "permitted"
        BY <1>6, <2>1, <3>2, <3>3
      <3> QED BY <3>2, <3>4
    <2> QED BY <2>2, <2>3
  <1> QED BY <1>1, <1>2, <1>7, <1>11, <1>12 DEF GoalInv, GoalCall

\* In every state of verify_goal_tree the next goal is the one that the gate is
\* asked about, and every result rests on a verdict that was backed.
THEOREM GoalsAreSound == GoalSpec => []GoalInv
  <1>1. GoalInit => GoalInv
    BY GoalsStart
  <1>2. GoalInv /\ [GoalNext]_treeVars => GoalInv'
    <2> SUFFICES ASSUME GoalInv, [GoalNext]_treeVars PROVE GoalInv'
      OBVIOUS
    <2>1. CASE RegistryNext /\ UNCHANGED <<gate, goalVars>>
      BY <2>1, GoalsUnderRegistry
    <2>2. ASSUME NEW i \in DOMAIN tree, VerifyGoal(i), UNCHANGED registryVars
          PROVE  GoalInv'
      BY <2>2, VerifyGoalKeeps
    <2>3. ASSUME NEW i \in DOMAIN tree, TakeResult(i), UNCHANGED registryVars
          PROVE  GoalInv'
      BY <2>3, TakeResultKeeps
    <2>4. CASE Decide(Caller) /\ UNCHANGED goalVars /\ UNCHANGED registryVars
      BY <2>4, DecideGoalKeeps
    <2>5. CASE UNCHANGED treeVars
      <3>1. UNCHANGED registryVars /\ UNCHANGED <<gate, goalVars>>
        BY <2>5 DEF treeVars, gateVars
      <3> QED BY <3>1, GoalsUnderRegistry
    <2> QED BY <2>1, <2>2, <2>3, <2>4, <2>5 DEF GoalNext
  <1> QED BY <1>1, <1>2, PTL DEF GoalSpec

\* Trees and their results are well formed, and while a goal is being verified the
\* gate is asked about that goal.
THEOREM GoalsTyped == GoalSpec => []GoalTypeOK
  <1>1. GoalInv => GoalTypeOK
    <2> SUFFICES ASSUME GoalInv PROVE GoalTypeOK
      OBVIOUS
    <2>1. CASE gate[Caller] = NoVerdict
      BY <2>1 DEF GoalInv, GoalTypeOK, Outcomes, NoVerdict
    <2>2. CASE gate[Caller] # NoVerdict
      <3>1. PICK i \in DOMAIN tree, v \in {"pending", "permitted", "denied"} :
              IsNext(i) /\ gate[Caller] = [action |-> ActionOf(i), verdict |-> v]
        BY <2>2 DEF GoalInv, GoalCall
      <3>2. gate[Caller].action = ActionOf(i) /\ gate[Caller].verdict = v
        BY <3>1
      <3> QED BY <3>1, <3>2 DEF GoalInv, GoalTypeOK, Outcomes
    <2> QED BY <2>1, <2>2
  <1> QED BY <1>1, GoalsAreSound, PTL

\* Authority does not grow down the tree, at any depth: a permitted goal requires
\* only what the root requires, and every goal above it is permitted.
THEOREM GoalsStayInScope == GoalSpec => []ScopeWithinRoot
  <1>1. GoalInv => ScopeWithinRoot
    BY DEF GoalInv
  <1> QED BY <1>1, GoalsAreSound, PTL

\* Each permitted goal is backed by claims of its own actor that were valid after
\* its verification began, and its machine has an owner, whatever the registry
\* does between the goals of the tree.
THEOREM GoalsAreBacked == GoalSpec => []PermittedGoalsBacked
  <1>1. GoalInv => PermittedGoalsBacked
    <2> SUFFICES ASSUME GoalInv, NEW i \in DOMAIN tree, outcome[i] = "permitted"
                 PROVE  Backed(ActionOf(i), begun[i])
                          => /\ tree[i].actor \in Machines => machineOwners[tree[i].actor] # NoOwner
                             /\ \A d \in DOMAIN tree[i].demands :
                                  BackedDemand(tree[i].actor, tree[i].demands[d], begun[i])
      BY DEF GoalInv, GoalsBacked, PermittedGoalsBacked, BackedDemand
    <2>1. ActionOf(i).actor = tree[i].actor /\ ActionOf(i).demands = tree[i].demands
      BY DEF ActionOf
    <2> QED BY <2>1 DEF Backed
  <1> QED BY <1>1, GoalsAreSound, PTL

\* A tree that is reported fully permitted has been verified to its last goal: the
\* first goal without a result would be next, as its parent has one.
THEOREM GoalsAreComplete == GoalSpec => []FullyPermittedIsComplete
  <1>1. GoalInv => FullyPermittedIsComplete
    <2> SUFFICES ASSUME GoalInv, Done, FullyPermitted
                 PROVE  \A i \in DOMAIN tree : outcome[i] = "permitted"
      BY DEF FullyPermittedIsComplete
    <2> DEFINE left == {i \in DOMAIN tree : outcome[i] = "none"}
    <2>1. ASSUME left # {}
          PROVE  FALSE
      <3>1. left \subseteq Nat /\ tree \in Trees
        BY TreesArePreordered DEF GoalInv
      <3>2. PICK i \in left : \A j \in left : i <= j
        BY <2>1, <3>1, LeastMember
      <3>3. /\ i \in DOMAIN tree /\ i \in Nat /\ outcome[i] = "none"
            /\ tree[i].parent # 0 =>
                 tree[i].parent \in DOMAIN tree /\ tree[i].parent < i /\ tree[i].parent \in Nat
        BY <3>1, TreesArePreordered
      <3>4. tree[i].parent # 0 => tree[i].parent \notin left
        BY <3>2, <3>3
      <3>5. tree[i].parent # 0 => outcome[tree[i].parent] = "permitted"
        BY <3>3, <3>4 DEF FullyPermitted
      <3>6. Pending(i)
        BY <3>3, <3>5 DEF Pending
      <3> QED BY <3>3, <3>6 DEF Done
    <2> QED BY <2>1 DEF FullyPermitted
  <1> QED BY <1>1, GoalsAreSound, PTL

-----------------------------------------------------------------------------
(* Policies.  Among the rules that match a demand, one outranks all others, *)
(* and its effect is the policy's.                                          *)

\* The ranking of rules is that of their priorities, then of their places.
LEMMA RanksAreStrict ==
  ASSUME NEW rules \in Seq(PolicyRule), NEW i \in DOMAIN rules, NEW j \in DOMAIN rules
  PROVE  /\ ~Outranks(rules, i, i)
         /\ i # j => Outranks(rules, i, j) \/ Outranks(rules, j, i)
         /\ \A k \in DOMAIN rules :
              Outranks(rules, k, j) /\ Outranks(rules, j, i) => Outranks(rules, k, i)
  <1>1. DOMAIN rules \subseteq Nat /\ \A k \in DOMAIN rules : rules[k].priority \in Int
    <2>1. \A k \in DOMAIN rules : rules[k] \in PolicyRule
      OBVIOUS
    <2>2. \A r \in PolicyRule : r.priority \in Int
      BY DEF PolicyRule
    <2>3. DOMAIN rules = 1 .. Len(rules)
      BY LenProperties
    <2> QED BY <2>1, <2>2, <2>3
  <1>2. PICK f \in [DOMAIN rules -> Int] : \A k \in DOMAIN rules : f[k] = rules[k].priority
    <2>1. [k \in DOMAIN rules |-> rules[k].priority] \in [DOMAIN rules -> Int]
      BY <1>1
    <2> QED BY <2>1
  <1>3. \A k, l \in DOMAIN rules : Outranks(rules, k, l) <=>
          (f[k] > f[l] \/ (f[k] = f[l] /\ k < l))
    BY <1>2 DEF Outranks
  <1>4. \A k, l \in DOMAIN rules : f[k] \in Int /\ f[l] \in Int /\ k \in Nat /\ l \in Nat
    BY <1>1, <1>2
  <1>5. ~Outranks(rules, i, i)
    BY <1>3, <1>4
  <1>6. i # j => Outranks(rules, i, j) \/ Outranks(rules, j, i)
    BY <1>3, <1>4
  <1>7. ASSUME NEW k \in DOMAIN rules, Outranks(rules, k, j), Outranks(rules, j, i)
        PROVE  Outranks(rules, k, i)
    BY <1>3, <1>4, <1>7
  <1> QED BY <1>5, <1>6, <1>7

\* Of any rules that match, one outranks all others.
LEMMA FirstRuleExists ==
  ASSUME NEW rules \in Seq(PolicyRule), NEW T, T \subseteq DOMAIN rules, T # {}
  PROVE  \E i \in T : \A j \in T \ {i} : Outranks(rules, i, j)
  <1> DEFINE above(i) == {k \in DOMAIN rules : Outranks(rules, k, i)}
             segments == {above(i) : i \in T}
  <1>1. DOMAIN rules = 1 .. Len(rules) /\ Len(rules) \in Nat
    BY LenProperties
  <1>2. IsFiniteSet(DOMAIN rules) /\ DOMAIN rules \subseteq Nat
    BY <1>1, FS_Interval
  <1>3. segments \subseteq FiniteSubsetsOf(Nat)
    <2>1. \A i \in T : IsFiniteSet(above(i)) /\ above(i) \subseteq Nat
      BY <1>2, FS_Subset
    <2> QED BY <2>1 DEF FiniteSubsetsOf
  <1>4. segments # {}
    OBVIOUS
  <1>5. \E u \in segments : \A v \in segments : ~(<<v, u>> \in StrictSubsetOrdering(Nat))
    <2> HIDE DEF segments
    <2> QED BY <1>3, <1>4, FS_StrictSubsetOrderingWellFounded, WFMin
  <1>6. PICK i \in T : \A j \in T : ~(<<above(j), above(i)>> \in StrictSubsetOrdering(Nat))
    BY <1>5
  <1>7. ASSUME NEW j \in T \ {i}, ~Outranks(rules, i, j)
        PROVE  FALSE
    <2>1. Outranks(rules, j, i)
      BY <1>7, RanksAreStrict
    <2>2. above(j) \subseteq above(i)
      BY <2>1, RanksAreStrict
    <2>3. j \in above(i) /\ j \notin above(j)
      BY <2>1, RanksAreStrict
    <2>4. above(j) \in SUBSET Nat /\ above(i) \in SUBSET Nat
      BY <1>2
    <2> QED BY <1>6, <2>2, <2>3, <2>4 DEF StrictSubsetOrdering
  <1> QED BY <1>7

\* Whether the matching rules are none, or one of them is the first and gives the
\* effect, in a policy that permits a demand.
LEMMA EffectIsOfFirstRule ==
  ASSUME NEW policy \in Policy, NEW actor, NEW demand, Effect(policy, actor, demand) = "permit"
  PROVE  LET matching == Matching(policy, actor, demand) IN
         \/ matching = {} /\ policy.default = "permit"
         \/ \E i \in matching : /\ policy.rules[i].effect = "permit"
                                /\ \A j \in matching \ {i} : Outranks(policy.rules, i, j)
  <1> DEFINE matching == Matching(policy, actor, demand)
             Heads(i) == \A j \in matching \ {i} : Outranks(policy.rules, i, j)
             first == CHOOSE i \in matching : Heads(i)
  <1>1. CASE matching = {}
    BY <1>1 DEF Effect
  <1>2. CASE matching # {}
    <2>1. matching \subseteq DOMAIN policy.rules /\ policy.rules \in Seq(PolicyRule)
      BY DEF Matching, Policy
    <2>2. \E i \in matching : Heads(i)
      <3> HIDE DEF matching
      <3> QED BY <1>2, <2>1, FirstRuleExists
    <2>3. first \in matching /\ Heads(first)
      <3> HIDE DEF Heads, matching
      <3> QED BY <2>2
    <2>4. policy.rules[first].effect = "permit"
      BY <1>2 DEF Effect
    <2> QED BY <2>3, <2>4
  <1> QED BY <1>1, <1>2

\* A scope contains another exactly when it is that one cut off after a name.
LEMMA ScopesAreDirectories ==
  ASSUME NEW s \in Seq(STRING), NEW path \in Seq(STRING)
  PROVE  ScopeContains(s, path) <=> \E n \in 0 .. Len(path) : s = SubSeq(path, 1, n)
  <1>1. Len(s) \in Nat /\ Len(path) \in Nat /\ s = SubSeq(s, 1, Len(s))
    OBVIOUS
  <1>2. ASSUME ScopeContains(s, path)
        PROVE  \E n \in 0 .. Len(path) : s = SubSeq(path, 1, n)
    <2>1. Len(s) \in 0 .. Len(path) /\ s = SubSeq(path, 1, Len(s))
      BY <1>1, <1>2 DEF ScopeContains, IsPrefix
    <2> QED BY <2>1
  <1>3. ASSUME NEW n \in 0 .. Len(path), s = SubSeq(path, 1, n)
        PROVE  ScopeContains(s, path)
    <2>1. Len(s) = n
      BY <1>3
    <2> QED BY <1>1, <1>3, <2>1 DEF ScopeContains, IsPrefix
  <1> QED BY <1>2, <1>3

-----------------------------------------------------------------------------
(* Tools.  A check that is over has left the action backed since the call   *)
(* began, and its policy does not depend on the registry.                   *)

ToolCall == [status : {"checking", "running", "blocked"}, action : Actions, policy : Policies,
             checks : Nat, left : Nat, begun : Nat]

\* The gate, when it is called, is asked about the action of the tool.
ToolGateCall ==
  \/ gate[ToolCaller] = NoVerdict
  \/ /\ toolCall.status = "checking" /\ toolCall.left > 0
     /\ \E v \in {"pending", "permitted", "denied"} :
          /\ gate[ToolCaller] = [action |-> toolCall.action, verdict |-> v]
          /\ v = "permitted" => Backed(toolCall.action, toolCall.begun)

\* Once a check has passed, both the kernel and the policy have permitted the action.
ChecksPassed ==
  toolCall.status \in {"checking", "running"} /\ toolCall.left < toolCall.checks =>
    /\ Backed(toolCall.action, toolCall.begun)
    /\ PolicyPermits(toolCall.policy, toolCall.action)

ToolInv ==
  /\ RegistryTypeOK
  /\ DOMAIN gate = Threads
  /\ \/ toolCall = NoToolCall
     \/ toolCall \in ToolCall /\ toolCall.left <= toolCall.checks /\ toolCall.begun <= now
  /\ ToolGateCall
  /\ ChecksPassed
  /\ toolCall.status = "running" => toolCall.left = 0

\* At first no tool is called.
LEMMA ToolsStart == ToolInit => ToolInv
  <1> SUFFICES ASSUME ToolInit PROVE ToolInv
    OBVIOUS
  <1>1. RegistryTypeOK
    BY InitTyped DEF ToolInit, GateInit
  <1>2. gate = [t \in Threads |-> NoVerdict] /\ toolCall = NoToolCall
    BY DEF ToolInit, GateInit
  <1>3. DOMAIN gate = Threads /\ gate[ToolCaller] = NoVerdict
    BY <1>2, ToolGateAssumption
  <1>4. toolCall.status = "idle"
    BY <1>2 DEF NoToolCall
  <1> QED BY <1>1, <1>2, <1>3, <1>4 DEF ToolInv, ToolGateCall, ChecksPassed

\* A policy looks at the action only.
LEMMA PolicyUnmoved ==
  ASSUME toolCall'.action = toolCall.action, toolCall'.policy = toolCall.policy
  PROVE  PolicyPermits(toolCall.policy, toolCall.action)'
           <=> PolicyPermits(toolCall.policy, toolCall.action)
  BY DEF PolicyPermits, Effect, Matching, RuleMatches, Outranks

\* The registry changes between two checks, or while the body of the tool runs.
LEMMA ToolsUnderRegistry ==
  ASSUME ToolInv, [RegistryNext]_registryVars, UNCHANGED <<gate, toolCall>>
  PROVE  ToolInv'
  <1>1. RegistryTypeOK' /\ now \in Nat /\ now' \in Nat /\ now <= now'
    BY TypedStep, RegistryGrows DEF ToolInv
  <1>2. \A a, since : Backed(a, since) => Backed(a, since)'
    BY BackedStays DEF ToolInv
  <1>3. PICK a, since, policy :
          a = toolCall.action /\ since = toolCall.begun /\ policy = toolCall.policy
    OBVIOUS
  <1>4. Backed(toolCall.action, toolCall.begun) => Backed(toolCall.action, toolCall.begun)'
    <2>1. a = toolCall'.action /\ since = toolCall'.begun
      BY <1>3
    <2>2. Backed(a, since) => Backed(a, since)'
      BY <1>2
    <2> QED BY <1>3, <2>1, <2>2 DEF Backed, BackedDemand
  <1>5. PolicyPermits(toolCall.policy, toolCall.action)'
          <=> PolicyPermits(toolCall.policy, toolCall.action)
    BY PolicyUnmoved
  <1>6. ChecksPassed'
    BY <1>4, <1>5 DEF ToolInv, ChecksPassed
  <1>7. ToolGateCall'
    BY <1>4 DEF ToolInv, ToolGateCall, NoVerdict
  <1>8. (\/ toolCall = NoToolCall
         \/ toolCall \in ToolCall /\ toolCall.left <= toolCall.checks /\ toolCall.begun <= now)'
    <2>1. CASE toolCall = NoToolCall
      BY <2>1 DEF NoToolCall
    <2>2. CASE toolCall \in ToolCall /\ toolCall.left <= toolCall.checks /\ toolCall.begun <= now
      <3>1. toolCall.begun \in Nat
        BY <2>2 DEF ToolCall
      <3>2. toolCall'.begun <= now'
        BY <1>1, <2>2, <3>1
      <3> QED BY <2>2, <3>2 DEF ToolCall, Actions
    <2> QED BY <2>1, <2>2 DEF ToolInv
  <1> QED BY <1>1, <1>6, <1>7, <1>8 DEF ToolInv

\* A call has a number of checks.
LEMMA ChecksAreCounted ==
  ASSUME NEW tool \in Tools, NEW route
  PROVE  Checks(tool, route) \in Nat
  <1>1. tool.wraps \in Nat
    BY ToolGateAssumption DEF Tool
  <1> QED BY <1>1 DEF Checks

\* A call begins before its first check, and with all of its checks left.
LEMMA CallToolKeeps ==
  ASSUME ToolInv, UNCHANGED registryVars,
         NEW tool \in Tools, NEW route, NEW policy \in Policies, CallTool(tool, route, policy)
  PROVE  ToolInv'
  <1>1. RegistryTypeOK' /\ now' = now /\ now \in Nat /\ gate' = gate
    <2>1. RegistryTypeOK'
      BY TypedStep DEF ToolInv
    <2> QED BY <2>1 DEF ToolInv, RegistryTypeOK, CallTool, registryVars
  <1>2. PICK n \in Nat : n = Checks(tool, route)
    BY ChecksAreCounted
  <1>3. toolCall' = [status |-> "checking", action |-> tool.action, policy |-> policy,
                     checks |-> n, left |-> n, begun |-> now]
    BY <1>2 DEF CallTool
  <1>4. tool.action \in Actions
    BY ToolGateAssumption DEF Tool
  <1>5. toolCall' \in ToolCall
    BY <1>1, <1>3, <1>4 DEF ToolCall
  <1>6. gate[ToolCaller] = NoVerdict
    BY DEF ToolInv, ToolGateCall, CallTool
  <1>7. /\ toolCall'.status = "checking" /\ toolCall'.left = n /\ toolCall'.checks = n
        /\ toolCall'.begun = now'
    BY <1>1, <1>3
  <1>8. ToolGateCall'
    BY <1>1, <1>6 DEF ToolGateCall, NoVerdict
  <1>9. ChecksPassed'
    BY <1>7 DEF ChecksPassed
  <1>10. (toolCall \in ToolCall)'
    BY <1>5 DEF ToolCall, Actions
  <1>11. toolCall'.left <= toolCall'.checks /\ toolCall'.begun <= now'
    BY <1>1, <1>7
  <1>12. toolCall'.status # "running"
    BY <1>7
  <1> QED BY <1>1, <1>8, <1>9, <1>10, <1>11, <1>12 DEF ToolInv

\* A check is a call of the gate, which decides on the registry of that moment.
LEMMA CheckKeeps ==
  ASSUME ToolInv, UNCHANGED registryVars,
         StartCheck \/ (Decide(ToolCaller) /\ UNCHANGED toolCall)
  PROVE  ToolInv'
  <1>1. RegistryTypeOK /\ RegistryTypeOK' /\ now' = now /\ now \in Nat /\ toolCall' = toolCall
    <2>1. RegistryTypeOK'
      BY TypedStep DEF ToolInv
    <2> QED BY <2>1 DEF ToolInv, RegistryTypeOK, StartCheck, registryVars
  <1>2. PICK a, since : a = toolCall.action /\ since = toolCall.begun
    OBVIOUS
  <1>3. Backed(toolCall.action, toolCall.begun)' <=> Backed(toolCall.action, toolCall.begun)
    <2>1. a = toolCall'.action /\ since = toolCall'.begun
      BY <1>1, <1>2
    <2>2. Backed(a, since)' <=> Backed(a, since)
      BY BackingUnmoved
    <2> QED BY <1>2, <2>1, <2>2 DEF Backed, BackedDemand
  <1>4. toolCall.status = "checking" /\ toolCall.left > 0
    BY DEF ToolInv, ToolGateCall, StartCheck, Decide, NoVerdict
  <1>5. ChecksPassed'
    BY <1>1, <1>3, PolicyUnmoved DEF ToolInv, ChecksPassed
  <1>6. toolCall \in ToolCall /\ toolCall.left <= toolCall.checks /\ toolCall.begun <= now
    BY <1>4 DEF ToolInv, NoToolCall
  <1>7. DOMAIN gate' = Threads /\ ToolGateCall'
    <2>1. CASE StartCheck
      <3>1. gate' = [gate EXCEPT ![ToolCaller] = [action |-> toolCall.action, verdict |-> "pending"]]
        BY <2>1 DEF StartCheck, Begin
      <3>2. /\ DOMAIN gate' = Threads
            /\ gate'[ToolCaller] = [action |-> toolCall'.action, verdict |-> "pending"]
        BY <1>1, <3>1, ToolGateAssumption DEF ToolInv
      <3> QED BY <1>1, <1>4, <3>2 DEF ToolGateCall
    <2>2. CASE Decide(ToolCaller)
      <3>1. gate[ToolCaller].verdict = "pending" /\ gate[ToolCaller] # NoVerdict
        BY <2>2 DEF Decide, NoVerdict
      <3>2. gate[ToolCaller] = [action |-> a, verdict |-> "pending"]
        BY <1>2, <3>1 DEF ToolInv, ToolGateCall
      <3>3. PICK w \in {"permitted", "denied"} :
              /\ w = IF Authorized(gate[ToolCaller].action) THEN "permitted" ELSE "denied"
              /\ gate' = [gate EXCEPT ![ToolCaller].verdict = w]
        BY <2>2 DEF Decide
      <3>4. DOMAIN gate' = Threads /\ gate'[ToolCaller] = [action |-> a, verdict |-> w]
        <4>1. /\ DOMAIN gate' = Threads
              /\ gate'[ToolCaller] = [gate[ToolCaller] EXCEPT !.verdict = w]
          BY <3>3, ToolGateAssumption DEF ToolInv
        <4> QED BY <3>2, <4>1
      <3>5. ASSUME w = "permitted"
            PROVE  Backed(toolCall.action, toolCall.begun)'
        <4>1. Authorized(a)
          <5>1. gate[ToolCaller].action = a
            BY <3>2
          <5> QED BY <3>3, <3>5, <5>1
        <4>2. since \in Nat /\ since <= now
          BY <1>2, <1>6 DEF ToolCall
        <4>3. Backed(a, since)
          BY <1>1, <4>1, <4>2, AuthorizedIsBacked
        <4> QED BY <1>2, <1>3, <4>3
      <3>6. gate'[ToolCaller] = [action |-> toolCall'.action, verdict |-> w]
        BY <1>1, <1>2, <3>4
      <3> QED BY <1>1, <1>4, <3>4, <3>5, <3>6 DEF ToolGateCall
    <2> QED BY <2>1, <2>2
  <1>8. (toolCall \in ToolCall)'
    BY <1>1, <1>6 DEF ToolCall, Actions
  <1> QED BY <1>1, <1>4, <1>5, <1>6, <1>7, <1>8 DEF ToolInv

\* A check passes when the kernel has permitted the action and the policy does.
LEMMA TakeVerdictKeeps ==
  ASSUME ToolInv, UNCHANGED registryVars, TakeVerdict
  PROVE  ToolInv'
  <1>1. RegistryTypeOK' /\ now' = now /\ now \in Nat
    <2>1. RegistryTypeOK'
      BY TypedStep DEF ToolInv
    <2> QED BY <2>1 DEF ToolInv, RegistryTypeOK, registryVars
  <1>2. DOMAIN gate' = Threads /\ gate'[ToolCaller] = NoVerdict
    BY ToolGateAssumption DEF ToolInv, TakeVerdict, End
  <1>3. /\ gate[ToolCaller].verdict \in {"permitted", "denied"} /\ gate[ToolCaller] # NoVerdict
        /\ toolCall.status = "checking"
    BY DEF TakeVerdict, End, NoVerdict
  <1>4. /\ toolCall \in ToolCall /\ toolCall.left <= toolCall.checks /\ toolCall.begun <= now
        /\ toolCall.left \in Nat /\ toolCall.checks \in Nat
    BY <1>3 DEF ToolInv, NoToolCall, ToolCall
  <1>5. /\ toolCall.left > 0
        /\ gate[ToolCaller].verdict = "permitted" => Backed(toolCall.action, toolCall.begun)
    BY <1>3 DEF ToolInv, ToolGateCall
  <1>6. PICK a, since, policy :
          a = toolCall.action /\ since = toolCall.begun /\ policy = toolCall.policy
    OBVIOUS
  <1>7. CASE ~Passes(toolCall, gate[ToolCaller].verdict)
    <2>1. toolCall' = [toolCall EXCEPT !.status = "blocked"]
      BY <1>7 DEF TakeVerdict
    <2>2. /\ toolCall' \in ToolCall /\ toolCall'.status = "blocked"
          /\ toolCall'.left <= toolCall'.checks /\ toolCall'.begun <= now'
      BY <1>1, <1>4, <2>1 DEF ToolCall
    <2>3. (toolCall \in ToolCall)'
      BY <2>2 DEF ToolCall, Actions
    <2> QED BY <1>1, <1>2, <2>2, <2>3 DEF ToolInv, ToolGateCall, ChecksPassed, NoVerdict
  <1>8. CASE Passes(toolCall, gate[ToolCaller].verdict)
    <2>1. toolCall' = [toolCall EXCEPT !.left = @ - 1]
      BY <1>8 DEF TakeVerdict
    <2>2. /\ toolCall' \in ToolCall /\ toolCall'.status = "checking"
          /\ toolCall'.left <= toolCall'.checks /\ toolCall'.begun <= now'
          /\ toolCall'.action = a /\ toolCall'.begun = since /\ toolCall'.policy = policy
      BY <1>1, <1>3, <1>4, <1>5, <1>6, <2>1 DEF ToolCall
    <2>3. (toolCall \in ToolCall)'
      BY <2>2 DEF ToolCall, Actions
    <2>4. Backed(a, since) /\ PolicyPermits(policy, a)
      BY <1>5, <1>6, <1>8 DEF Passes
    <2>5. Backed(a, since)'
      BY <2>4, BackingUnmoved
    <2>6. Backed(toolCall.action, toolCall.begun)' /\ PolicyPermits(toolCall.policy, toolCall.action)'
      BY <1>6, <2>2, <2>4, <2>5, PolicyUnmoved DEF Backed, BackedDemand
    <2> QED BY <1>1, <1>2, <2>2, <2>3, <2>6 DEF ToolInv, ToolGateCall, ChecksPassed, NoVerdict
  <1> QED BY <1>7, <1>8

\* The body runs when no check is left, and may run after a registry has changed.
LEMMA BodyKeeps ==
  ASSUME ToolInv, UNCHANGED registryVars, RunTool \/ ToolReturns
  PROVE  ToolInv'
  <1>1. RegistryTypeOK' /\ now' = now /\ now \in Nat /\ gate' = gate
    <2>1. RegistryTypeOK'
      BY TypedStep DEF ToolInv
    <2> QED BY <2>1 DEF ToolInv, RegistryTypeOK, registryVars, RunTool, ToolReturns
  <1>2. gate[ToolCaller] = NoVerdict
    BY DEF ToolInv, ToolGateCall, RunTool, ToolReturns
  <1>3. ToolGateCall'
    BY <1>1, <1>2 DEF ToolGateCall, NoVerdict
  <1>4. CASE ToolReturns
    <2>1. toolCall' = NoToolCall /\ toolCall'.status = "idle"
      BY <1>4 DEF ToolReturns, NoToolCall
    <2>2. ChecksPassed' /\ (toolCall = NoToolCall)'
      BY <2>1 DEF ChecksPassed, NoToolCall
    <2> QED BY <1>1, <1>3, <2>1, <2>2 DEF ToolInv
  <1>5. CASE RunTool
    <2>1. toolCall.status = "checking" /\ toolCall.left = 0
      BY <1>5 DEF RunTool
    <2>2. toolCall \in ToolCall /\ toolCall.left <= toolCall.checks /\ toolCall.begun <= now
      BY <2>1 DEF ToolInv, NoToolCall
    <2>3. PICK a, since, policy :
            a = toolCall.action /\ since = toolCall.begun /\ policy = toolCall.policy
      OBVIOUS
    <2>4. /\ toolCall' \in ToolCall /\ toolCall'.status = "running" /\ toolCall'.left = 0
          /\ toolCall'.left <= toolCall'.checks /\ toolCall'.begun <= now'
          /\ toolCall'.checks = toolCall.checks
          /\ toolCall'.action = a /\ toolCall'.begun = since /\ toolCall'.policy = policy
      BY <1>1, <1>5, <2>1, <2>2, <2>3 DEF RunTool, ToolCall
    <2>5. (toolCall \in ToolCall)'
      BY <2>4 DEF ToolCall, Actions
    <2>6. ASSUME toolCall'.left < toolCall'.checks
          PROVE  Backed(toolCall.action, toolCall.begun)'
                 /\ PolicyPermits(toolCall.policy, toolCall.action)'
      <3>1. Backed(a, since) /\ PolicyPermits(policy, a)
        BY <2>1, <2>3, <2>4, <2>6 DEF ToolInv, ChecksPassed
      <3>2. Backed(a, since)'
        BY <3>1, BackingUnmoved
      <3> QED BY <2>3, <2>4, <3>1, <3>2, PolicyUnmoved DEF Backed, BackedDemand
    <2>7. ChecksPassed'
      BY <2>6 DEF ChecksPassed
    <2> QED BY <1>1, <1>3, <2>4, <2>5, <2>7 DEF ToolInv
  <1> QED BY <1>4, <1>5

\* Between the call of a tool and the end of its body: the gate is asked about the
\* action of the tool, and each check that passed has left it backed.
THEOREM ToolsAreSound == ToolSpec => []ToolInv
  <1>1. ToolInit => ToolInv
    BY ToolsStart
  <1>2. ToolInv /\ [ToolNext]_toolVars => ToolInv'
    <2> SUFFICES ASSUME ToolInv, [ToolNext]_toolVars PROVE ToolInv'
      OBVIOUS
    <2>1. CASE RegistryNext /\ UNCHANGED <<gate, toolCall>>
      BY <2>1, ToolsUnderRegistry
    <2>2. ASSUME NEW tool \in Tools, NEW route, NEW policy \in Policies,
                 CallTool(tool, route, policy), UNCHANGED registryVars
          PROVE  ToolInv'
      BY <2>2, CallToolKeeps
    <2>3. CASE /\ StartCheck \/ (Decide(ToolCaller) /\ UNCHANGED toolCall)
               /\ UNCHANGED registryVars
      BY <2>3, CheckKeeps
    <2>4. CASE TakeVerdict /\ UNCHANGED registryVars
      BY <2>4, TakeVerdictKeeps
    <2>5. CASE (RunTool \/ ToolReturns) /\ UNCHANGED registryVars
      BY <2>5, BodyKeeps
    <2>6. CASE UNCHANGED toolVars
      <3>1. UNCHANGED registryVars /\ UNCHANGED <<gate, toolCall>>
        BY <2>6 DEF toolVars, gateVars
      <3> QED BY <3>1, ToolsUnderRegistry
    <2> QED BY <2>1, <2>2, <2>3, <2>4, <2>5, <2>6 DEF ToolNext
  <1> QED BY <1>1, <1>2, PTL DEF ToolSpec

\* The call of a tool is well formed, and has no more checks before it than the tool
\* was given.
THEOREM ToolsTyped == ToolSpec => []ToolTypeOK
  <1>1. ToolInv => ToolTypeOK
    <2> SUFFICES ASSUME ToolInv, toolCall # NoToolCall PROVE ToolTypeOK
      BY DEF ToolTypeOK
    <2>1. toolCall \in ToolCall /\ toolCall.left <= toolCall.checks /\ toolCall.begun <= now
      BY DEF ToolInv
    <2>2. now \in Nat
      BY DEF ToolInv, RegistryTypeOK
    <2> QED BY <2>1, <2>2 DEF ToolTypeOK, ToolCall
  <1> QED BY <1>1, ToolsAreSound, PTL

\* While the body of a checked tool runs, its action is one that could be permitted
\* at some time after the call began, whatever changed since the verdict.
THEOREM ToolsRunAuthorized == ToolSpec => []ToolRunsAuthorized
  <1>1. ToolInv => ToolRunsAuthorized
    <2> SUFFICES ASSUME ToolInv, toolCall.status = "running", toolCall.checks > 0
                 PROVE  Backed(toolCall.action, toolCall.begun)
      BY DEF ToolRunsAuthorized, Backed, BackedDemand
    <2> QED BY DEF ToolInv, ChecksPassed
  <1> QED BY <1>1, ToolsAreSound, PTL

\* No checked tool runs against a deny rule of its policy, unless a rule that permits
\* its demand outranks it, and none without such a rule where the default is to deny.
THEOREM PoliciesAreObeyed == ToolSpec => []PolicyObeyed
  <1>1. ToolInv => PolicyObeyed
    <2> SUFFICES ASSUME ToolInv, toolCall.status = "running", toolCall.checks > 0,
                        NEW d \in DOMAIN toolCall.action.demands
                 PROVE  LET rules == toolCall.policy.rules
                            path == ScopeOf[toolCall.action.demands[d].resource]
                            applies(i) ==
                              /\ toolCall.action.demands[d].op \in rules[i].operations
                              /\ toolCall.action.actor \in rules[i].actors
                              /\ \E n \in 0 .. Len(path) : rules[i].scope = SubSeq(path, 1, n)
                            permits == {i \in DOMAIN rules : applies(i) /\ rules[i].effect = "permit"}
                        IN  /\ \A i \in DOMAIN rules : applies(i) /\ rules[i].effect = "deny" =>
                                 \E j \in permits : \/ rules[j].priority > rules[i].priority
                                                    \/ rules[j].priority = rules[i].priority /\ j < i
                            /\ permits = {} => toolCall.policy.default = "permit"
      BY DEF PolicyObeyed
    <2> DEFINE rules == toolCall.policy.rules
               demand == toolCall.action.demands[d]
               path == ScopeOf[demand.resource]
               matching == Matching(toolCall.policy, toolCall.action.actor, demand)
               applies(i) == /\ demand.op \in rules[i].operations
                             /\ toolCall.action.actor \in rules[i].actors
                             /\ \E n \in 0 .. Len(path) : rules[i].scope = SubSeq(path, 1, n)
               permits == {i \in DOMAIN rules : applies(i) /\ rules[i].effect = "permit"}
    <2>1. toolCall \in ToolCall
      BY DEF ToolInv, NoToolCall
    <2>2. toolCall.action \in Actions /\ toolCall.policy \in Policy
      BY <2>1, ToolGateAssumption DEF ToolCall
    <2>3. path \in Seq(STRING) /\ rules \in Seq(PolicyRule)
      BY <2>2, ToolGateAssumption DEF Policy
    <2>4. PolicyPermits(toolCall.policy, toolCall.action)
      BY DEF ToolInv, ChecksPassed
    <2>5. Effect(toolCall.policy, toolCall.action.actor, demand) = "permit"
      BY <2>4 DEF PolicyPermits
    <2>6. \A i \in DOMAIN rules : applies(i) <=> i \in matching
      <3> SUFFICES ASSUME NEW i \in DOMAIN rules PROVE applies(i) <=> i \in matching
        OBVIOUS
      <3>1. rules[i] \in PolicyRule
        BY <2>3
      <3>2. rules[i].scope \in Seq(STRING)
        BY <3>1 DEF PolicyRule
      <3>3. ScopeContains(rules[i].scope, path)
              <=> \E n \in 0 .. Len(path) : rules[i].scope = SubSeq(path, 1, n)
        BY <2>3, <3>2, ScopesAreDirectories
      <3> QED BY <3>3 DEF Matching, RuleMatches
    <2>7. \/ matching = {} /\ toolCall.policy.default = "permit"
          \/ \E i \in matching : /\ rules[i].effect = "permit"
                                 /\ \A j \in matching \ {i} : Outranks(rules, i, j)
      BY <2>2, <2>5, EffectIsOfFirstRule
    <2>8. matching \subseteq DOMAIN rules
      BY DEF Matching
    <2> HIDE DEF matching, applies, path, rules
    <2>9. ASSUME NEW i \in DOMAIN rules, applies(i), rules[i].effect = "deny"
          PROVE  \E j \in permits : \/ rules[j].priority > rules[i].priority
                                    \/ rules[j].priority = rules[i].priority /\ j < i
      <3>1. i \in matching
        BY <2>6, <2>9
      <3>2. PICK j \in matching : /\ rules[j].effect = "permit"
                                  /\ \A k \in matching \ {j} : Outranks(rules, j, k)
        BY <2>7, <3>1
      <3>3. Outranks(rules, j, i)
        BY <2>9, <3>1, <3>2
      <3>4. j \in permits
        BY <2>6, <2>8, <3>2
      <3> QED BY <3>3, <3>4 DEF Outranks
    <2>10. ASSUME permits = {}
           PROVE  toolCall.policy.default = "permit"
      <3>1. \A i \in matching : rules[i].effect # "permit"
        BY <2>6, <2>8, <2>10
      <3> QED BY <2>7, <3>1
    <2> QED BY <2>9, <2>10 DEF applies, path, rules
  <1> QED BY <1>1, ToolsAreSound, PTL

-----------------------------------------------------------------------------
(* The service.  What was acknowledged was answered with 200 before, and    *)
(* what was answered with 200 is in the registry for good: the service      *)
(* installs no conflict hook, and its claims do not expire.                 *)

\* The body of a request, by its kind.
BodyFits(kind, body) ==
  /\ kind = "claim" => body \in ServiceClaims
  /\ kind = "machine" => body \in [machine : Agents, owner : Agents]
  /\ kind = "resolve" => body \in Nat

\* The registry has what the acknowledgement of such a request stands for.
Registered(kind, body) ==
  /\ kind = "claim" => \E i \in DOMAIN claims : claims[i] = body
  /\ kind = "machine" => body.machine \in Machines /\ machineOwners[body.machine] # NoOwner

\* The client that sends this action knows all that the gate will ask for.
KnowsEnough(known, a) ==
  /\ ~a.forbidden /\ a.governs = {}
  /\ a.actor \in Machines => \E k \in known : k.kind = "machine" /\ k.body.machine = a.actor
  /\ \A d \in DOMAIN a.demands : \E k \in known :
       /\ k.kind = "claim"
       /\ k.body.holder = a.actor
       /\ k.body.resource = a.demands[d].resource
       /\ a.demands[d].op \in k.body.rights
       /\ k.body.confidence > 0

Kinds == {"claim", "machine", "verify", "resolve"}

Bodies == ServiceClaims \cup [machine : Agents, owner : Agents] \cup Nat \cup Actions

Request == [stage : {"sent", "executed"}, kind : Kinds, body : Bodies,
            status : {0, 200, 404, 422}, permitted : BOOLEAN, known : SUBSET Acknowledgement]

\* A request on its way, before or after its execution.
RequestInv(r) ==
  /\ r \in Request
  /\ r.known \subseteq acknowledged
  /\ BodyFits(r.kind, r.body)
  /\ r.stage = "executed" /\ r.status = 200 => Registered(r.kind, r.body)
  /\ r.stage = "executed" /\ r.kind = "verify" /\ KnowsEnough(r.known, r.body)
       => r.permitted = TRUE

AcknowledgedInv ==
  /\ acknowledged \subseteq Acknowledgement
  /\ \A k \in acknowledged : Registered(k.kind, k.body)

ServiceInv ==
  /\ RegistryTypeOK
  /\ hookInstalled = FALSE
  /\ DOMAIN requests = Threads
  /\ AcknowledgedInv
  /\ \A t \in Threads : requests[t] = NoRequest \/ RequestInv(requests[t])

\* At first nothing is acknowledged.
LEMMA ServiceStarts == ServiceInit => ServiceInv
  <1> SUFFICES ASSUME ServiceInit PROVE ServiceInv
    OBVIOUS
  <1>1. RegistryTypeOK
    BY InitTyped DEF ServiceInit, GateInit
  <1>2. hookInstalled = FALSE
    BY DEF ServiceInit, GateInit, RegistryInit
  <1>3. requests = [t \in Threads |-> NoRequest] /\ acknowledged = {}
    BY DEF ServiceInit
  <1> QED BY <1>1, <1>2, <1>3 DEF ServiceInv, AcknowledgedInv

\* What the registry has it keeps.
LEMMA RegisteredStays ==
  ASSUME RegistryTypeOK, [RegistryNext]_registryVars
  PROVE  \A kind, body : Registered(kind, body) => Registered(kind, body)'
  <1>1. /\ Continues(claims', claims)
        /\ \A m \in Machines : machineOwners[m] # NoOwner => machineOwners'[m] # NoOwner
    BY RegistryGrows
  <1>2. ASSUME NEW body, \E i \in DOMAIN claims : claims[i] = body
        PROVE  \E i \in DOMAIN claims' : claims'[i] = body
    BY <1>1, <1>2 DEF Continues
  <1> QED BY <1>1, <1>2 DEF Registered

\* What a client knows is enough for the gate to authorize its action.
LEMMA KnownIsAuthorized ==
  ASSUME AcknowledgedInv, NEW known \in SUBSET acknowledged, NEW a, KnowsEnough(known, a)
  PROVE  Authorized(a)
  <1>1. a.actor \in Machines => machineOwners[a.actor] # NoOwner
    BY DEF AcknowledgedInv, KnowsEnough, Registered
  <1>2. ASSUME NEW d \in DOMAIN a.demands
        PROVE  CanAct(claims, a.actor, a.demands[d].resource, a.demands[d].op)
    <2>1. PICK k \in known : /\ k.kind = "claim"
                             /\ k.body.holder = a.actor
                             /\ k.body.resource = a.demands[d].resource
                             /\ a.demands[d].op \in k.body.rights
                             /\ k.body.confidence > 0
      BY DEF KnowsEnough
    <2>2. k.body \in ServiceClaims
      <3>1. k \in Acknowledgement
        BY DEF AcknowledgedInv
      <3> QED BY <2>1, <3>1 DEF Acknowledgement
    <2>3. k.body.expiresAt = NoExpiry
      BY <2>2 DEF ServiceClaims
    <2>4. PICK i \in DOMAIN claims : claims[i] = k.body
      BY <2>1 DEF AcknowledgedInv, Registered
    <2>5. IsValid(claims[i])
      BY <2>1, <2>3, <2>4 DEF IsValid, IsExpired
    <2> QED BY <2>1, <2>4, <2>5 DEF CanAct, ClaimsFor, Covers
  <1> QED BY <1>1, <1>2 DEF Authorized, KnowsEnough

\* The sets that requests are drawn from do not depend on the state.
LEMMA RequestsUnmoved ==
  /\ Request' = Request /\ Acknowledgement' = Acknowledgement
  /\ \A kind, body : BodyFits(kind, body)' <=> BodyFits(kind, body)
  /\ \A known, a : KnowsEnough(known, a)' <=> KnowsEnough(known, a)
  BY DEF Request, Acknowledgement, BodyFits, KnowsEnough, Bodies, Kinds, ServiceClaims,
         NewClaims, Actions

\* The requests that a step does not touch keep what they rely on.
LEMMA OtherRequestsKeep ==
  ASSUME RegistryTypeOK, [RegistryNext]_registryVars, acknowledged \subseteq acknowledged'
  PROVE  \A r : RequestInv(r) => RequestInv(r)'
  <1> SUFFICES ASSUME NEW r, RequestInv(r) PROVE RequestInv(r)'
    OBVIOUS
  <1>1. Registered(r.kind, r.body) => Registered(r.kind, r.body)'
    BY RegisteredStays
  <1>2. r \in Request' /\ BodyFits(r.kind, r.body)'
    BY RequestsUnmoved DEF RequestInv
  <1>3. KnowsEnough(r.known, r.body)' <=> KnowsEnough(r.known, r.body)
    BY RequestsUnmoved
  <1> QED BY <1>1, <1>2, <1>3 DEF RequestInv

\* One request changes, and the others are as they were.
LEMMA OneRequestKeeps ==
  ASSUME ServiceInv, [RegistryNext]_registryVars, hookInstalled' = FALSE,
         acknowledged \subseteq acknowledged', AcknowledgedInv',
         NEW t \in Threads, NEW r, r = NoRequest \/ RequestInv(r)',
         DOMAIN requests' = Threads, requests'[t] = r,
         \A u \in Threads : u # t => requests'[u] = requests[u]
  PROVE  ServiceInv'
  <1>1. RegistryTypeOK'
    BY TypedStep DEF ServiceInv
  <1>2. ASSUME NEW u \in Threads
        PROVE  (requests[u] = NoRequest \/ RequestInv(requests[u]))'
    <2>1. PICK q : q = requests'[u]
      OBVIOUS
    <2>2. q = NoRequest \/ RequestInv(q)'
      <3>1. CASE u = t
        BY <2>1, <3>1
      <3>2. CASE u # t
        <4>1. q = NoRequest \/ RequestInv(q)
          BY <2>1, <3>2 DEF ServiceInv
        <4> QED BY <4>1, OtherRequestsKeep DEF ServiceInv
      <3> QED BY <3>1, <3>2
    <2>3. RequestInv(q)' => RequestInv(requests[u])'
      BY <2>1 DEF RequestInv, BodyFits, Registered, KnowsEnough
    <2> QED BY <2>1, <2>2, <2>3 DEF NoRequest
  <1> QED BY <1>1, <1>2 DEF ServiceInv

\* What was acknowledged stays so, and stays true.
LEMMA AcknowledgedStays ==
  ASSUME ServiceInv, [RegistryNext]_registryVars, UNCHANGED acknowledged
  PROVE  AcknowledgedInv'
  <1>1. \A k \in acknowledged : Registered(k.kind, k.body)'
    BY RegisteredStays DEF ServiceInv, AcknowledgedInv
  <1>2. acknowledged' \subseteq Acknowledgement'
    BY RequestsUnmoved DEF ServiceInv, AcknowledgedInv
  <1> QED BY <1>1, <1>2 DEF AcknowledgedInv

\* A request is sent with what the client knows by then.
LEMMA SendKeeps ==
  ASSUME ServiceInv, NEW t \in Threads, NEW kind \in Kinds, NEW body \in Bodies,
         BodyFits(kind, body), Send(t, kind, body)
  PROVE  ServiceInv'
  <1>1. UNCHANGED registryVars /\ UNCHANGED acknowledged /\ hookInstalled' = FALSE
    BY DEF Send, ServiceInv, registryVars
  <1>2. PICK known : known = acknowledged /\ known \in SUBSET Acknowledgement
    BY DEF ServiceInv, AcknowledgedInv
  <1> DEFINE r == [stage |-> "sent", kind |-> kind, body |-> body, status |-> 0,
                   permitted |-> FALSE, known |-> known]
  <1>3. /\ DOMAIN requests' = Threads /\ requests'[t] = r
        /\ \A u \in Threads : u # t => requests'[u] = requests[u]
    BY <1>2 DEF Send, ServiceInv
  <1>4. r \in Request /\ r.stage = "sent" /\ r.kind = kind /\ r.body = body /\ r.known = known
    BY <1>2 DEF Request
  <1> HIDE DEF r
  <1>5. RequestInv(r)'
    BY <1>1, <1>2, <1>4, RequestsUnmoved DEF RequestInv
  <1> QED BY <1>1, <1>3, <1>5, AcknowledgedStays, OneRequestKeeps

\* r is the request q after its execution.
Answered(q, r) ==
  /\ r \in Request /\ r.stage = "executed"
  /\ r.kind = q.kind /\ r.body = q.body /\ r.known = q.known

\* What the execution of q must have established for the answer in r.
Justified(q, r) ==
  /\ r.status = 200 => Registered(q.kind, q.body)'
  /\ q.kind = "verify" /\ KnowsEnough(q.known, q.body) => r.permitted = TRUE

\* The registry moves, or not, while a request is executed.
ExecutionStep ==
  [RegistryNext]_registryVars /\ hookInstalled' = FALSE /\ UNCHANGED acknowledged

\* An executed request, filled in by its answer, has what its execution established.
LEMMA AnswerKeeps ==
  ASSUME ServiceInv, ExecutionStep, NEW t \in Threads,
         NEW q, q = requests[t], q.stage = "sent",
         NEW r, Answered(q, r), Answer(t, r.status, r.permitted), Justified(q, r)
  PROVE  ServiceInv'
  <1> USE DEF Answered, Justified, ExecutionStep
  <1>1. RequestInv(q)
    BY DEF ServiceInv, NoRequest
  <1>2. q \in Request
    BY <1>1 DEF RequestInv
  <1>3. /\ DOMAIN requests' = Threads
        /\ \A u \in Threads : u # t => requests'[u] = requests[u]
    BY DEF Answer, ServiceInv
  <1>4. requests'[t] = r
    <2>1. requests'[t] = [[[q EXCEPT !.stage = "executed"] EXCEPT !.status = r.status]
                            EXCEPT !.permitted = r.permitted]
      BY DEF Answer, ServiceInv
    <2>2. /\ q = [stage |-> q.stage, kind |-> q.kind, body |-> q.body, status |-> q.status,
                  permitted |-> q.permitted, known |-> q.known]
          /\ r = [stage |-> r.stage, kind |-> r.kind, body |-> r.body, status |-> r.status,
                  permitted |-> r.permitted, known |-> r.known]
      BY <1>2 DEF Request
    <2>3. PICK q1 : q1 = [q EXCEPT !.stage = "executed"]
      OBVIOUS
    <2>4. q1 = [stage |-> "executed", kind |-> q.kind, body |-> q.body, status |-> q.status,
                permitted |-> q.permitted, known |-> q.known]
      BY <2>2, <2>3
    <2>5. PICK q2 : q2 = [q1 EXCEPT !.status = r.status]
      OBVIOUS
    <2>6. q2 = [stage |-> "executed", kind |-> q.kind, body |-> q.body, status |-> r.status,
                permitted |-> q.permitted, known |-> q.known]
      BY <2>4, <2>5
    <2>7. [q2 EXCEPT !.permitted = r.permitted]
            = [stage |-> "executed", kind |-> q.kind, body |-> q.body, status |-> r.status,
               permitted |-> r.permitted, known |-> q.known]
      BY <2>6
    <2>8. requests'[t] = [q2 EXCEPT !.permitted = r.permitted]
      BY <2>1, <2>3, <2>5
    <2> QED BY <2>2, <2>7, <2>8
  <1>5. r \in Request' /\ BodyFits(r.kind, r.body)' /\ r.known \subseteq acknowledged'
    BY <1>1, RequestsUnmoved DEF RequestInv
  <1>6. r.kind = "verify" /\ KnowsEnough(r.known, r.body)' => r.permitted = TRUE
    BY RequestsUnmoved
  <1>7. RequestInv(r)'
    BY <1>5, <1>6 DEF RequestInv
  <1>8. AcknowledgedInv' /\ acknowledged \subseteq acknowledged'
    BY AcknowledgedStays
  <1> QED BY <1>3, <1>4, <1>7, <1>8, OneRequestKeeps

\* The request that an answer leaves behind.
LEMMA AnswerExists ==
  ASSUME NEW q \in Request, NEW status \in {200, 404, 422}, NEW permitted \in BOOLEAN
  PROVE  \E r : Answered(q, r) /\ r.status = status /\ r.permitted = permitted
  <1>1. [stage |-> "executed", kind |-> q.kind, body |-> q.body, status |-> status,
         permitted |-> permitted, known |-> q.known] \in Request
    BY DEF Request
  <1> QED BY <1>1 DEF Answered

\* What is executing is a request of its kind that has been sent.
LEMMA ExecutingIsSent ==
  ASSUME ServiceInv, NEW t \in Threads, NEW kind, Executing(t, kind)
  PROVE  /\ requests[t] \in Request /\ requests[t].stage = "sent" /\ requests[t].kind = kind
         /\ BodyFits(kind, requests[t].body)
         /\ requests[t].known \in SUBSET acknowledged
  BY DEF ServiceInv, RequestInv, Executing, NoRequest

\* POST /claim: without a hook, the claim is stored before the answer.
LEMMA ExecuteClaimKeeps ==
  ASSUME ServiceInv, NEW t \in Threads, ExecuteClaim(t)
  PROVE  ServiceInv'
  <1>1. PICK q : q = requests[t]
    OBVIOUS
  <1>2. q \in Request /\ q.stage = "sent" /\ q.kind = "claim" /\ q.body \in ServiceClaims
    BY <1>1, ExecutingIsSent DEF ExecuteClaim, BodyFits
  <1>3. q.body \in NewClaims /\ AddClaim(q.body) /\ Answer(t, 200, FALSE) /\ UNCHANGED acknowledged
    BY <1>1, <1>2 DEF ExecuteClaim, ServiceClaims
  <1>4. RegistryNext
    BY <1>3 DEF RegistryNext
  <1>5. claims \in Seq(Claim) /\ q.body \in Claim /\ hookInstalled = FALSE
    BY <1>3, NewClaimsAreClaims DEF ServiceInv, RegistryTypeOK
  <1>6. hookInstalled' = FALSE /\ claims' = Append(claims, q.body)
    BY <1>3, <1>5 DEF AddClaim, Insert, Store
  <1>7. Len(claims) + 1 \in DOMAIN claims' /\ claims'[Len(claims) + 1] = q.body
    <2>1. /\ claims' \in Seq(Claim) /\ Len(claims') = Len(claims) + 1
          /\ claims'[Len(claims) + 1] = q.body
      BY <1>5, <1>6, AppendProperties
    <2> QED BY <1>5, <2>1, LenProperties
  <1>8. Registered(q.kind, q.body)'
    BY <1>2, <1>7 DEF Registered
  <1>9. PICK r : Answered(q, r) /\ r.status = 200 /\ r.permitted = FALSE
    BY <1>2, AnswerExists
  <1>10. Answer(t, r.status, r.permitted)
    BY <1>3, <1>9
  <1>11. Justified(q, r)
    BY <1>2, <1>8 DEF Justified
  <1>12. ExecutionStep
    BY <1>3, <1>4, <1>6 DEF ExecutionStep
  <1> QED BY <1>1, <1>2, <1>9, <1>10, <1>11, <1>12, AnswerKeeps

\* POST /machine: a machine has an owner after the answer 200.
LEMMA ExecuteMachineKeeps ==
  ASSUME ServiceInv, NEW t \in Threads, ExecuteMachine(t)
  PROVE  ServiceInv'
  <1>1. PICK q : q = requests[t]
    OBVIOUS
  <1>2. q \in Request /\ q.stage = "sent" /\ q.kind = "machine"
    BY <1>1, ExecutingIsSent DEF ExecuteMachine
  <1>3. UNCHANGED acknowledged
    BY DEF ExecuteMachine
  <1>4. CASE /\ q.body.machine \in Machines /\ q.body.owner \in Humans
             /\ RegisterMachine(q.body.machine, q.body.owner)
             /\ Answer(t, 200, FALSE)
    <2>1. RegistryNext /\ hookInstalled' = FALSE
      BY <1>4 DEF RegistryNext, RegisterMachine, ServiceInv
    <2>2. machineOwners'[q.body.machine] # NoOwner
      <3>1. machineOwners \in [Machines -> Humans \cup {NoOwner}]
        BY DEF ServiceInv, RegistryTypeOK
      <3>2. machineOwners'[q.body.machine] = q.body.owner
        BY <1>4, <3>1 DEF RegisterMachine
      <3> QED BY <1>4, <3>2, ConstantsAssumption
    <2>3. Registered(q.kind, q.body)'
      BY <1>2, <1>4, <2>2 DEF Registered
    <2>4. PICK r : Answered(q, r) /\ r.status = 200 /\ r.permitted = FALSE
      BY <1>2, AnswerExists
    <2>5. Answer(t, r.status, r.permitted)
      BY <1>4, <2>4
    <2>6. Justified(q, r)
      BY <1>2, <2>3 DEF Justified
    <2>7. ExecutionStep
      BY <1>3, <2>1 DEF ExecutionStep
    <2> QED BY <1>1, <1>2, <2>4, <2>5, <2>6, <2>7, AnswerKeeps
  <1>5. CASE Answer(t, 422, FALSE) /\ UNCHANGED registryVars
    <2>1. hookInstalled' = FALSE
      BY <1>5 DEF registryVars, ServiceInv
    <2>2. PICK r : Answered(q, r) /\ r.status = 422 /\ r.permitted = FALSE
      BY <1>2, AnswerExists
    <2>3. Answer(t, r.status, r.permitted)
      BY <1>5, <2>2
    <2>4. Justified(q, r)
      BY <1>2, <2>2 DEF Justified
    <2>5. ExecutionStep
      BY <1>3, <1>5, <2>1 DEF ExecutionStep
    <2> QED BY <1>1, <1>2, <2>2, <2>3, <2>4, <2>5, AnswerKeeps
  <1> QED BY <1>1, <1>4, <1>5 DEF ExecuteMachine

\* The gate is asked when all that the client knows is registered.
LEMMA ExecuteVerifyKeeps ==
  ASSUME ServiceInv, NEW t \in Threads, ExecuteVerify(t)
  PROVE  ServiceInv'
  <1>1. PICK q : q = requests[t]
    OBVIOUS
  <1>2. q \in Request /\ q.stage = "sent" /\ q.kind = "verify" /\ q.known \in SUBSET acknowledged
    BY <1>1, ExecutingIsSent DEF ExecuteVerify
  <1>3. /\ UNCHANGED acknowledged /\ UNCHANGED registryVars
        /\ Answer(t, 200, Authorized(q.body))
    BY <1>1 DEF ExecuteVerify
  <1>4. hookInstalled' = FALSE
    BY <1>3 DEF registryVars, ServiceInv
  <1>5. PICK permitted \in BOOLEAN : permitted = Authorized(q.body)
    BY DEF Authorized
  <1>6. KnowsEnough(q.known, q.body) => permitted = TRUE
    <2>1. KnowsEnough(q.known, q.body) => Authorized(q.body)
      BY <1>2, KnownIsAuthorized DEF ServiceInv
    <2> QED BY <1>5, <2>1
  <1>7. PICK r : Answered(q, r) /\ r.status = 200 /\ r.permitted = permitted
    BY <1>2, AnswerExists
  <1>8. Answer(t, r.status, r.permitted)
    BY <1>3, <1>5, <1>7
  <1>9. Registered(q.kind, q.body)'
    BY <1>2 DEF Registered
  <1>10. Justified(q, r)
    BY <1>6, <1>7, <1>9 DEF Justified
  <1>11. ExecutionStep
    BY <1>3, <1>4 DEF ExecutionStep
  <1> QED BY <1>1, <1>2, <1>7, <1>8, <1>10, <1>11, AnswerKeeps

\* POST /conflict/resolve: the registry has no part in it.
LEMMA ExecuteResolveKeeps ==
  ASSUME ServiceInv, NEW t \in Threads, ExecuteResolve(t)
  PROVE  ServiceInv'
  <1>1. PICK q : q = requests[t]
    OBVIOUS
  <1>2. q \in Request /\ q.stage = "sent" /\ q.kind = "resolve"
    BY <1>1, ExecutingIsSent DEF ExecuteResolve
  <1>3. PICK r : Answered(q, r) /\ Answer(t, r.status, r.permitted)
    <2>1. CASE Answer(t, 200, FALSE)
      <3>1. PICK r : Answered(q, r) /\ r.status = 200 /\ r.permitted = FALSE
        BY <1>2, AnswerExists
      <3>2. Answer(t, r.status, r.permitted)
        BY <2>1, <3>1
      <3> QED BY <3>1, <3>2
    <2>2. CASE Answer(t, 404, FALSE)
      <3>1. PICK r : Answered(q, r) /\ r.status = 404 /\ r.permitted = FALSE
        BY <1>2, AnswerExists
      <3>2. Answer(t, r.status, r.permitted)
        BY <2>2, <3>1
      <3> QED BY <3>1, <3>2
    <2> QED BY <2>1, <2>2 DEF ExecuteResolve
  <1>4. Justified(q, r)
    BY <1>2 DEF Justified, Registered
  <1>5. ExecutionStep
    BY DEF ExecuteResolve, ExecutionStep, registryVars, ServiceInv
  <1> QED BY <1>1, <1>2, <1>3, <1>4, <1>5, AnswerKeeps

\* The client learns what the registry has.
LEMMA ReceiveKeeps ==
  ASSUME ServiceInv, NEW t \in Threads, Receive(t)
  PROVE  ServiceInv'
  <1>1. PICK q : q = requests[t]
    OBVIOUS
  <1>2. RequestInv(q) /\ q.stage = "executed" /\ q \in Request
    BY <1>1 DEF ServiceInv, Receive, NoRequest, RequestInv
  <1>3. UNCHANGED registryVars /\ requests' = [requests EXCEPT ![t] = NoRequest]
    BY DEF Receive
  <1>4. hookInstalled' = FALSE
    BY <1>3 DEF registryVars, ServiceInv
  <1>5. /\ DOMAIN requests' = Threads /\ requests'[t] = NoRequest
        /\ \A u \in Threads : u # t => requests'[u] = requests[u]
    BY <1>3 DEF ServiceInv
  <1> DEFINE new == [kind |-> q.kind, body |-> q.body]
  <1>6. CASE q.kind # "verify" /\ q.status = 200
    <2>1. acknowledged' = acknowledged \cup {new}
      BY <1>1, <1>6 DEF Receive
    <2>2. Registered(q.kind, q.body) /\ BodyFits(q.kind, q.body) /\ q.kind \in Kinds
      BY <1>2, <1>6 DEF RequestInv, Request
    <2>3. new \in Acknowledgement
      BY <1>6, <2>2 DEF BodyFits, Kinds, Acknowledgement
    <2>4. \A k \in acknowledged' : Registered(k.kind, k.body)
      BY <2>1, <2>2 DEF ServiceInv, AcknowledgedInv
    <2>5. AcknowledgedInv'
      <3>1. acknowledged' \subseteq Acknowledgement'
        BY <2>1, <2>3, RequestsUnmoved DEF ServiceInv, AcknowledgedInv
      <3>2. \A k \in acknowledged' : Registered(k.kind, k.body)'
        BY <1>3, <2>4 DEF Registered, registryVars
      <3> QED BY <3>1, <3>2 DEF AcknowledgedInv
    <2>6. acknowledged \subseteq acknowledged'
      BY <2>1
    <2> QED BY <1>3, <1>4, <1>5, <2>5, <2>6, OneRequestKeeps
  <1>7. CASE ~(q.kind # "verify" /\ q.status = 200)
    <2>1. UNCHANGED acknowledged
      BY <1>1, <1>7 DEF Receive
    <2>2. AcknowledgedInv' /\ acknowledged \subseteq acknowledged'
      BY <1>3, <2>1, AcknowledgedStays
    <2> QED BY <1>3, <1>4, <1>5, <2>2, OneRequestKeeps
  <1> QED BY <1>6, <1>7

\* A client sends a claim without expiry, a registration, an action, or the position
\* of a conflict that is listed.
LEMMA SendSomeKeeps ==
  ASSUME ServiceInv, NEW t \in Threads, SendSome(t)
  PROVE  ServiceInv'
  <1>1. ASSUME NEW c \in ServiceClaims, Send(t, "claim", c)
        PROVE  ServiceInv'
    BY <1>1, SendKeeps DEF Kinds, Bodies, BodyFits
  <1>2. ASSUME NEW m \in Agents, NEW owner \in Agents,
               Send(t, "machine", [machine |-> m, owner |-> owner])
        PROVE  ServiceInv'
    <2>1. [machine |-> m, owner |-> owner] \in [machine : Agents, owner : Agents]
      OBVIOUS
    <2> QED BY <1>2, <2>1, SendKeeps DEF Kinds, Bodies, BodyFits
  <1>3. ASSUME NEW a \in Actions, Send(t, "verify", a)
        PROVE  ServiceInv'
    BY <1>3, SendKeeps DEF Kinds, Bodies, BodyFits
  <1>4. ASSUME NEW position \in DOMAIN conflicts, Send(t, "resolve", position)
        PROVE  ServiceInv'
    <2>1. position \in Nat
      <3>1. conflicts \in Seq(ConflictRecord)
        BY DEF ServiceInv, RegistryTypeOK
      <3> QED BY <3>1, LenProperties
    <2> QED BY <1>4, <2>1, SendKeeps DEF Kinds, Bodies, BodyFits
  <1> QED BY <1>1, <1>2, <1>3, <1>4 DEF SendSome

\* Whatever was acknowledged is in the registry, and requests rest on what their
\* clients knew, in whatever order the server executes and answers them.
THEOREM ServiceIsSound == ServiceSpec => []ServiceInv
  <1>1. ServiceInit => ServiceInv
    BY ServiceStarts
  <1>2. ServiceInv /\ [ServiceNext]_serviceVars => ServiceInv'
    <2> SUFFICES ASSUME ServiceInv, [ServiceNext]_serviceVars PROVE ServiceInv'
      OBVIOUS
    <2>1. ASSUME NEW t \in Threads, \/ SendSome(t) \/ ExecuteClaim(t) \/ ExecuteMachine(t)
                                    \/ ExecuteVerify(t) \/ ExecuteResolve(t) \/ Receive(t)
          PROVE  ServiceInv'
      BY <2>1, SendSomeKeeps, ExecuteClaimKeeps, ExecuteMachineKeeps, ExecuteVerifyKeeps,
         ExecuteResolveKeeps, ReceiveKeeps
    <2>2. CASE UNCHANGED serviceVars
      <3>1. UNCHANGED registryVars /\ UNCHANGED <<requests, acknowledged>>
        BY <2>2 DEF serviceVars, gateVars
      <3>2. hookInstalled' = FALSE /\ RegistryTypeOK'
        BY <3>1, TypedStep DEF registryVars, ServiceInv
      <3>3. AcknowledgedInv'
        BY <3>1, AcknowledgedStays
      <3>4. ASSUME NEW t \in Threads
            PROVE  (requests[t] = NoRequest \/ RequestInv(requests[t]))'
        <4>1. PICK q : q = requests[t] /\ q = requests'[t]
          BY <3>1
        <4>2. q = NoRequest \/ RequestInv(q)'
          BY <3>1, <4>1, OtherRequestsKeep DEF ServiceInv
        <4>3. RequestInv(q)' => RequestInv(requests[t])'
          BY <4>1 DEF RequestInv, BodyFits, Registered, KnowsEnough
        <4> QED BY <4>1, <4>2, <4>3 DEF NoRequest
      <3> QED BY <3>1, <3>2, <3>3, <3>4 DEF ServiceInv
    <2> QED BY <2>1, <2>2 DEF ServiceNext
  <1> QED BY <1>1, <1>2, PTL DEF ServiceSpec

\* Requests are well formed, and rest on nothing that was not acknowledged.
THEOREM ServiceTyped == ServiceSpec => []ServiceTypeOK
  <1>1. ServiceInv => ServiceTypeOK
    <2> SUFFICES ASSUME ServiceInv PROVE ServiceTypeOK
      OBVIOUS
    <2>1. acknowledged \subseteq Acknowledgement
      BY DEF ServiceInv, AcknowledgedInv
    <2>2. ASSUME NEW t \in Threads, requests[t] # NoRequest
          PROVE  /\ requests[t].stage \in {"sent", "executed"}
                 /\ requests[t].kind \in {"claim", "machine", "verify", "resolve"}
                 /\ requests[t].known \subseteq acknowledged
                 /\ requests[t].status \in {0, 200, 404, 422}
      <3>1. RequestInv(requests[t])
        BY <2>2 DEF ServiceInv
      <3> QED BY <3>1 DEF RequestInv, Request, Kinds
    <2> QED BY <2>1, <2>2 DEF ServiceTypeOK
  <1> QED BY <1>1, ServiceIsSound, PTL

\* What a client knows when it asks is honoured: the service does not deny an action
\* for whose machine and demands it has acknowledged a registration and claims.
THEOREM ClientsAreHonoured == ServiceSpec => []AcknowledgedIsHonoured
  <1>1. ServiceInv => AcknowledgedIsHonoured
    <2> SUFFICES ASSUME ServiceInv, NEW t \in Threads,
                        requests[t].stage = "executed", requests[t].kind = "verify",
                        KnowsEnough(requests[t].known, requests[t].body)
                 PROVE  requests[t].permitted = TRUE
      BY DEF AcknowledgedIsHonoured, KnowsEnough
    <2>1. RequestInv(requests[t])
      BY DEF ServiceInv, NoRequest
    <2> QED BY <2>1 DEF RequestInv
  <1> QED BY <1>1, ServiceIsSound, PTL
=============================================================================
