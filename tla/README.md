# A TLA+ model of the Freedom Kernel

The Freedom Kernel decides whether an agent's action is permitted: an ownership
registry holds claims of entities (humans and machines) on resources, and a gate,
`FreedomVerifier.verify`, compares an action with the claims.  Around the gate are
execution contexts, goal trees, plans, information-flow checks, policies, an audit
log, adapters for agent frameworks and an HTTP service.  The package has a pure
Python backend (`src/freedom_theory/kernel/`) and a Rust one (`freedom-kernel/`).

These modules model the Python backend with its interleavings, the adapters and the
service around it, and the parts of the Rust crate that have an algorithm or an order of
steps of their own.  TLC checks them on small instances; TLAPS proves nearly all of their
safety properties for every instance, and that the gate implements its abstract
specification.

## 1. Inventory

| Component | State | Operations | Interacts with |
|---|---|---|---|
| Ownership registry, `kernel/registry.py`, `entities.py` | claims, machine owners, conflicts, conflict hook, frozen flag, re-entrant lock | `add_claim`, `delegate`, `register_machine`, `set_conflict_hook`, `freeze`, reads | calls the conflict hook with the lock held; read by everything else |
| Authority gate, `kernel/verifier.py` | none between calls | `verify`, `verify_plan` | one registry read per resource; the audit log |
| Audit log, `kernel/audit.py` | entries in memory, a file, a lock | `record`, `entries` | called at the end of `verify` |
| Execution contexts, `kernel/context.py` | per context: expiry, depth, parent, revoked flag | `verify`, `spawn`, `revoke` | the gate, and `can_act` of the registry |
| Goal trees (Python), `kernel/goals.py` | the tree and its results | `verify_goal_tree` | one gate call per goal |
| Goal trees (Rust), `goal_tree.rs` | nodes with subgoals and a depth limit | `with_subgoal`, `verify_goal_tree` | the Rust engine |
| Information flow, `planner.rs`, `extensions/ifc.py` | labels read so far | `verify_plan`, `check_plan` | after the gate |
| Policy, `kernel/policy.py` | none | `Policy.evaluate`, `PolicyVerifier.verify` | after the gate, wherever an adapter is given a `PolicyVerifier` |
| Adapters, `adapters/` | none of their own | a decorated function, `FreedomTool.run` and `_run` | one or more gate calls before the body of a tool |
| Conflict resolution, `extensions/resolver.py` | pending conflicts | `resolve`, `ConflictQueue.add`, `arbitrate` | the extended verifier, the HTTP service |
| Rule synthesis, `extensions/synthesis.py` | admitted and rejected rules, hooks | `admit_rule`, `run_induction` | user hooks; the extended verifier |
| Extended verifier, detection, compass, `extensions/` | none | `verify`, `detect`, `score` | the gate |
| HTTP service, `api/app.py` | one registry, one extended verifier | one handler per route, in several threads | clients |
| Rust registry, `registry.rs`, and verifier | as in Python | as in Python, with several lock sections per mutation | Python, through PyO3 |
| Rust engine, wire format, spawning, FFI, WASM, signatures | none | pure functions of a request | C, Go, browsers |
| Standalone ethics script, `azadi_ai_ethics.py` | property, machine owners, delegations | `assign_machine_owner`, `delegate_resource`, `check_action` | nothing: a program of its own |
| CLI, Go binding, examples, `formal/` | none | one engine call | the command line |

What is hard in it:

- **Callbacks under a lock.**  The conflict hook runs between the check of a claim
  and its insertion.  The lock is re-entrant, so the hook may mutate the registry
  itself, freeze it, or raise.
- **A gate without a lock.**  `verify` reads the registry once per resource, and
  `owner_of` and `open_conflicts` without any lock.  Claims are added and expire
  between the reads, and the clock is asked again after the lock is released.
- **Chains.**  Delegations of delegations, spawns of spawns and subgoals of subgoals
  are each compared with one level only.
- **Partial failure.**  A raising hook, a full disk under the audit file, a plan cut
  at a result that says "FORBIDDEN", a goal tree cut at a blocked goal.
- **Limits.**  Depth limits that two functions count from different ends; tolerances for
  confidences, which add up along a chain or are not transitive.
- **Verdicts that grow old.**  A tool runs after its verdict, a client asks after it was
  answered, an arbiter names a position of a list that has changed since.
- **Lists that are lent.**  An induction hook gets the engine's own list of admitted rules:
  it may return it, change it past `admit_rule`, and keep it to do so later.

What makes each part correct: no authority that nobody asserted (registry); every
live contest of two writers on record (registry); a verdict that some instant of the
call justifies (gate); nothing verified after a forbidden action of a plan, and nothing
cancelled but after a refused one (gate); no verdict without an audit record (log); depth and expiry bounded by every ancestor
(contexts); scope within the root's and nothing skipped in a tree that is fully
permitted (goals); nothing read is written downward (information flow); no tool body
without a permit that gate and policy gave (adapters, policy); nothing arbitrated twice,
and a resolution that does not depend on who is named first (resolver); every rule
that an induction reports accounted for (synthesis); what is acknowledged is honoured (service); a score that
no round of moves can exploit, a risk that no addition lowers (compass, detection); no
machine with what no owner of it owned (ethics script).  The hazards are listed with their
lines under `hazards` in `PROJECT.json`.

## 2. Modules

    OwnershipRegistry --+-- RustRegistry
                        +-- AuthorityGate --+-- GoalTree
                        |        :          +-- ToolGate
                        |        :          +-- Service (with ConflictQueue)
                        +-- FreedomVerifier ---- ExecutionContext
    Advisory ---- EthicsScript
    ConflictQueue    InformationFlow    GoalTreeRust    RuleSynthesis

A line is an `EXTENDS`, and the dots are the refinement: `FreedomVerifier` implements
`AuthorityGate`, so that its clients are modelled over the atomic gate.  The theorems are in modules of
their own:

    OwnershipRegistryProofs --+-- FreedomVerifierProofs ---- ExecutionContextProofs
     (OwnershipRegistry)      |    (FreedomVerifier)          (ExecutionContext)
                              +-- RustKernelProofs (RustRegistry, GoalTreeRust)         --+
                              +-- GateClientsProofs (GoalTree, ToolGate, Service)       --+
    ExtensionsProofs (ConflictQueue, RuleSynthesis, InformationFlow) ---------------------+
    EthicsScriptProofs (Advisory, EthicsScript) ------------------------------------------+
                                                  ComponentsProofs (MCComponents) --------+

`MCOwnershipRegistry`, `MCFreedomVerifier` and `MCExecutionContext` give their modules
finite sets.  `MCComponents` does so for all the others at once: a behaviour does one
`job`, the next-state relation of one component, with the other variables as they were.

Inside a module, an operator under the comment `Mutant:` is a plausible bug in the
definition that follows it; no specification uses it.  It shows that a property can be
broken.

### OwnershipRegistry

State: the fields of `OwnershipRegistry`, the clock, and the stack `inserting` of
mutations whose hook is running.  `AddClaim` and `Delegate` are the part of the
method up to the hook, and all of it when there is no conflict or no hook;
`HookReturns` and `HookRaises` are what follows the hook.  While the stack is not
empty the lock is held, so whatever mutates the registry is the hook itself: nested
calls push on the stack.  A refused `delegate`, a mutation of a snapshot and an
ill-kinded `register_machine` raise before anything changes and are not steps.
`asserted` is history: which claims came from `add_claim`.  Confidence is in percent.
`DetectConflict`, `IsBest` and `CanAct` have the code's order: the first contested
claim, the first of the most confident claims.

### FreedomVerifier

One step per read of the registry: the flags and `owner_of` (`CheckActor`),
`claims_for` under the lock (`ReadClaims`), `covers` and `max` after the lock is
released, with the clock asked again (`WeighClaims`), `open_conflicts`
(`ScanConflicts`), the result (`Conclude`), and `AuditLog.record` (`Record`,
`RecordFails`).  `Submit` starts `verify_plan`, on the live registry or on the last
snapshot; `TakeResult` goes on to the next action or cancels the rest.  A call of
`verify` is a plan of one action.  The ten forbidden flags are one flag; warnings and
signatures are left out.

Texts are left out but for one thing that control depends on: `verify_plan` cancels the rest
of a plan when the word FORBIDDEN occurs anywhere in a violation of a result, and the
violations name the actor, the humans that A6 is about and the denied resources.
`SaysForbidden` is that test, with `ForbiddenNames` for the agents and resources that have
the word in their names; `TakeResult` cuts on it.  So a plain denial may cut a plan as well.

### AuthorityGate

The abstract specification: between `Begin` and `End` there is one `Decide`, at which
the verdict is `Authorized` of the registry of that instant.  `FreedomVerifier`
implements it under the mapping `VerdictOf`, with the verdict fixed when the first
reason to deny is known, else when the result is built.

### ExecutionContext

Extends `FreedomVerifier` with a tree of contexts.  `VerifyThrough` is the check of
the context followed by the gate as above.  `spawn` takes no lock: `StartSpawn` (the
checks of validity and depth), one `CheckRequest` per resource, `FinishSpawn`.  Inside
`CheckRequest`, `can_act` is one step.  `ExecutionContext.verify` takes one action, so
`ContextAssumption` asks for plans of one.

### GoalTree

A client of `AuthorityGate`, since the gate's steps are verified elsewhere: a tree is
the sequence of its goals in pre-order, `VerifyGoal` calls the gate, `TakeResult`
applies the attenuation check and cancels the subgoals of a blocked goal.  Mutations
and the clock fall between the goals.

### GoalTreeRust and InformationFlow

`GoalTreeRust` builds trees with `with_subgoal` in any order and walks them as
`dfs_verify` does, with the engine's verdict left open (claims may expire during the
walk).  `with_depth_limit` and the public field are one action, `WithDepthLimit`: the limit of
any goal may be set at any time before the walk, after it has subgoals and inside of a tree
as well.  The history `allowed` is the largest limit under which a goal was given a subgoal,
which is what its height is bounded by (`BuiltWithinLimit`).  The field `subgoals`, public
too, is changed by `with_subgoal` only, as in the repository.

`with_subgoal` and `dfs_verify` disagree by one level: `Decomposition_depth` shows a tree that
the one accepts and the other refuses, with limits never lowered.  `RefusedAtLimitOnly`, a part
of `DepthLimitKept`, says that nothing else is refused for its depth where all goals have one
limit that is not below one under which the root was given subgoals.  (Where a limit was
lowered after the tree was built, higher trees are refused too, and the property leaves
them to the walk.)

`InformationFlow` runs the Rust planner and the Python `NonInterferenceChecker` over one
plan, action by action; the engine's verdict is open here too.

### ToolGate

A tool call through an adapter.  `Checks` is the number of gate calls before the body: one
in a decorated function; in a `FreedomTool` one for `run` and one per level of subclasses
whose `_run` was wrapped.  An unconfigured tool runs unchecked, as in the code, and so does
`_run` where nothing wrapped it.  `StartCheck`, `Decide` and `TakeVerdict` make one such call,
`RunTool` and `ToolReturns` are the body, and the registry and the clock move in between.
`Passes` is `PolicyVerifier.verify`: the gate's verdict and `PolicyPermits`, where `Effect`
takes the first matching rule by `Outranks`, the order that Python's stable sort gives.
A name pattern is the set of actors it matches; a scope is its sequence of segments.

### RustRegistry

`registry.rs` over the state of `OwnershipRegistry`.  `RustStore` is the one lock section
that detects the conflict, records it and stores the claim; the hook runs after it, without
the lock, so that `RustHookEnds` stands for its return and for its failure alike: the claim
stays.  `RustCheck` and `RustDelegate` are the two lock sections of `delegate`.  The GIL is
held from one to the other, so only the clock moves between them.  `Tolerance` is the
code's 1e-9 as one unit of confidence.

### ConflictQueue and Service

`ConflictQueue` has arbiters that decide on an entry (`DecideOn`) and later remove by
position (`Arbitrate`, or `ArbitrateFails` for the `IndexError`).  `Beats` and `Resolve` are
`resolve`.  `Service` extends it and the atomic gate: a request is sent, executed and
received, with any others between; `ExecuteClaim`, `ExecuteMachine`, `ExecuteVerify` and
`ExecuteResolve` are the handlers.  `known` is history: what clients had been told when the
request was sent.  No action adds to the queue of the service, as no handler does.

### RuleSynthesis

`Admit` is `admit_rule`, by a client or by the hook that runs.  `RunInduction` calls the
hooks in turn and gives each the engine's own list of admitted rules.  `BorrowerWrites` is what
a hook may do with that list past `admit_rule`: append to it, remove, replace or reorder, while
it runs or, if it kept the list (`lent`), outside of an induction.  A hook returns a list of its
own or the engine's (`HookReturnsRules`), or raises (`InductionHookRaises`).  `TakeCandidate` is
one turn of the loop, which appends to the list it goes through in the second case.

The rest is history: `written` holds the rules that borrowers put in the list, and the fields
`byHooks`, `before` and `lost` of an induction say which positions hooks filled, and where the
account begins; it begins anew when a hook changes what was in the list.
`InductionAccounted` is therefore about the engine: a rule that violates an invariant is on the
list only by a borrower's hand, and what is reported was admitted, rule by rule.  A rule is
taken as it was when it was admitted (its fields can be assigned to later), hooks return
lists, not generators, and no hook starts another induction.

### Advisory and EthicsScript

`Advisory` has the arithmetic of `detect` over the signals that an argument matches, which
grow one by one, and `score` over worlds that move.  The conclusion tester is called again on
each text, so that `Argue` takes any answer with each signal: none, that there is a violation
or not, or that it raises.  `EthicsScript` is `azadi_ai_ethics.py`:
`RegisterHuman`, `AssignMachineOwner`, `DelegateResource` and `CheckScriptAction`, whose
compass has the formula of `Advisory`.  `owners` is history: all that a machine belonged to.

## 3. Runs

| Run | Bounds | What it shows |
|---|---|---|
| `Registry_delegation` | a human, a machine, 1 resource, 3 kinds of rights, confidence 50 and 90, expiry at 0 or never, 3 claims, 2 conflicts | authority is never invented along chains of delegations, and only the clock takes it away |
| `Registry_contest` | 3 holders, 1 resource, confidence 0 and 90, 3 claims, 3 conflicts, symmetry of the humans | every live contest is on record, and a snapshot is a past state |
| `Verifier_race` | 1 call of one action, 2 claims, 1 conflict, clock 0..1 | no unbacked permit, no spurious denial, weak contested writes are arbitrated |
| `Verifier_plan` | 2 threads, plans of up to 3 actions, snapshots, calls begin while the audit log is empty, no hooks, symmetry of the threads | what follows a forbidden action is cancelled, and nothing but what follows a refused action that is forbidden or has the word in a name; permits are backed; verdicts are in the audit file |
| `Verifier_atomic` | 1 thread, claims that do not expire, hooks | the gate implements `AuthorityGate`; every call ends |
| `Context` | 1 thread, 3 contexts, depth limits 0 and 2, contexts that expire at 0 or never, claims that do not | depth, expiry, lifetime of permits, spawn backed by claims |
| `Components` | one job per behaviour, see below | the clients of the gate and the components that stand alone keep their promises |

The jobs of `Components`, each with its properties:

| Job | Bounds | What it shows |
|---|---|---|
| `goals` | 4 trees of up to 4 goals, 2 claims, 1 public resource | scope within the root, no goal left out, permits backed (`ScopeWithinRoot`, `FullyPermittedIsComplete`, `PermittedGoalsBacked`) |
| `tools` | 5 tools, 2 routes, 3 policies, 1 claim | while the body runs its demands are backed by claims valid since the call began, and by the policy (`ToolRunsAuthorized`, `PolicyObeyed`) |
| `rust` | 3 claims, 2 conflicts, hooks, confidence 89 and 90, tolerance 1 | authority is rooted up to one tolerance per delegation; contests are recorded, whatever hooks do (`RustAuthorityRooted`, `RustContestsRecorded`) |
| `service` | 2 threads, 2 claims, 1 machine, 4 actions | what was acknowledged to a client is honoured (`AcknowledgedIsHonoured`) |
| `queue` | 2 arbiters, 3 entries, positions -3 to 3 | a stale position removes the entry meant or a later one, none twice (`ArbitrationRemovesMeantOrLater`) |
| `resolver` | 3 of 16 claims: 2 scopes, 4 confidences, read-only or not | resolution is symmetric and has no cycle of three (`ResolutionAcyclic`) |
| `forest` | trees of up to 4 goals, limits 1 and 2 | limits set at any time before the walk: the walk covers the tree and keeps their limits; a tree is as high as `with_subgoal` allowed at most, and one whose limit was not lowered is refused only when it is as high (`WalkIsComplete`, `DepthLimitKept`, `BuiltWithinLimit`) |
| `flow` | plans of 2 actions that read up to two of 4 labels, of 3 actions over the lattice | no downward flow, the Python checker is at least as strict, taint never falls (`NoDownwardFlow`, `CheckerIsStricter`, `TaintNeverFalls`) |
| `rules` | 2 rules, 2 hooks, 3 admitted or rejected | hooks that write in the engine's list: a violating rule is there by their hand only and not reported; what a run reports is what it admitted (`InductionAccounted`) |
| `argument` | 6 signals with weights of the code, 3 thresholds, any of 4 answers of the tester to each text | score and risk never fall but where the tester takes a violation back, and not below what the signals were worth (`SignalsRaiseRisk`) |
| `compass` | worlds of 5 counters in 0..1, all first worlds | scores add up to first against last; no sequence of moves adds sovereignty (`CompassIsPotential`) |
| `script` | 2 humans, 1 machine, 2 resources, 6 actions | what a machine may use, some owner of it owns (`PermissibleIsRooted`) |

Five more runs find a disagreement between the code and what the repository says of it:

| Run | Property | Disagreement |
|---|---|---|
| `Registry_delegated_expiry` | `DelegationBoundedInTime` | `delegate` does not compare `expires_at`; `TCB.md` says the child's capability is contained in the parent's |
| `Verifier_confident_contest` | `ContestedWriteArbitrated` | a contested write with confidence of 0.8 or more asks for no arbitration; `SPEC.md` says it does |
| `Context_revocation` | `RevocationReachesDescendants` | the children of a revoked context stay valid; `context.py` and `ARCHITECTURE.md` say they are cancelled |
| `Decomposition_depth` | `AcceptedIsNotTooDeep` | `with_subgoal` accepts one level more than `dfs_verify` does |
| `Service_unresolvable` | `ListedConflictsResolvable` | `GET /conflicts` lists the registry's conflicts, `POST /conflict/resolve` looks in a queue to which nothing is ever added |

Also met, without a run of its own, because nothing the code does could keep the property
and it would only restate that, because no property of the repository speaks of it, or because
a property of a passing run allows for it:

- `verify_plan` reads the live registry for each action, while `formal/plan_semantics.md`
  says it takes a snapshot at the call; `Verifier_plan` therefore states its properties for
  the registry each call reads.
- The results that `verify_plan` cancels say that an action "triggered a sovereignty
  violation", but the word FORBIDDEN in the name of an actor, a human or a denied resource
  cancels as well (the Rust verifier has the same test); `PlanStopsAtForbidden` allows for it.
- The repository's README lists A5, "Machine's resource scope is contained within its
  owner's scope", among the invariants the kernel enforces; `verifier.py` never compares a
  machine's claims with its owner's.
- The ethics script says of `machine_scope` "machine scope ⊆ owner's property scope"; a
  machine that is assigned to another owner keeps what the former one delegated, so
  `PermissibleIsRooted` speaks of some owner it has had.
- `adapters/langchain.py` says the check happens in `_run`; without `langchain_core`
  nothing wraps `_run`, and only `run` checks.
- `compass.py` permits moves with a negative score, and the ethics script, with the same
  formula, blocks them.
- An induction hook that returns the engine's own list makes `run_induction` append to the
  list it goes through for as long as its rules are admissible; `MaxRules` cuts that here.

**Why the bounds are enough.**  The properties of the registry relate two claims (a
claim and what backs it, two contestants); three claims are the least with a chain of
two delegations, or with a third claim that shadows the contested one.  Expiry at 0
with the clock in 0..1 gives a claim that is valid and then is not, at any step.  One
call against all mutations is enough for the gate's reads, since calls share no state
but the registry, which other calls do not change, and the audit log, which
`Verifier_plan` covers with two threads.  Three contexts give a grandchild; depth limit
0 forbids any child, 2 allows the grandchild.  Four goals give a fork with a subgoal
below a branch, and a chain longer than either limit.  Three claims, entries or rules
are the least with something before and something after the one that matters, or with a
cycle.  `ForbiddenNames` holds a resource in
`Verifier_plan` and a human in `Verifier_atomic`, so that plans are also cut at a denial and
at A6; it is empty where no plan is of interest.  Constants named `Max...` (`MaxClaims`, `MaxConflicts`, `MaxTime`, `MaxAudit`, `MaxContexts`,
`MaxAdded`, `MaxRules`, `MaxCount`) bound the lists, the clock and the counters of a world.
`WithoutSnapshot`, `WithoutHook` and `Small` are state constraints that keep a run to its
question, and `JobBounds` does so for each job of `Components`: it says which claims a job
is about and how many of them, and that only `rust` has hooks.  `freeze` does not change
the registry, and hooks and snapshots are explored by the registry's own runs.

**Deadlock** is checked in all runs but those over `MCComponents`, where a tree is verified
once, a plan ends and a queue runs full; in the others a registry
can always be frozen.

**Fairness** is assumed only in `FairSpec`: a thread inside `verify` keeps taking steps
(the code never waits there except for the registry lock), and a running conflict hook
ends, by returning or raising.  The second is an assumption about callers: a hook that
never ends holds the lock forever and does block every verifier.  Weak fairness is
enough for the lock because the bound on claims and conflicts excludes an endless
sequence of hooks; the code's lock is not fair, so without the bound a verifier could
starve, and the run does not say otherwise.

**Inputs** are those that callers can construct: claims over the given sets, plans, trees,
tools, policies and actions listed in the `MC` modules.  The clock does not go back.

## 4. Theorems

They hold for all values of the constants that the modules' `...Assumption`s allow: any
number of agents, resources, claims, nested hooks, threads, contexts, goals and rules.  The
assumptions say which sets the constants are taken from (humans and machines are disjoint,
confidences are within 0..100, `NoExpiry` is no time, actions demand rights on resources).
The theorems are listed in `PROJECT.json`; what follows is how they are argued.  In each
module the steps of the proof of an invariant are the actions of the specification, and
lemmas hold what actions share.

### The registry (`OwnershipRegistryProofs`)

- `RegistryTyped`, `NoAuthorityInvention`.  `AuthorityIsRooted` is inductive together with
  the types because it speaks of the claims that wait for their hook as well: their
  delegator's claim was checked before the hook ran and is still in the list when the hook
  ends, since claims are only appended.  `BacksTransitive` closes the chain from the
  delegated claim over the delegator's to an asserted one.
- `ContestsAreRecorded`.  A new claim that contests any live claim contests a first one
  (`LeastMember`, by well-foundedness of strict inclusion on finite sets), so
  `_detect_conflict` finds it (`DetectsContest`) and a record with the new holder is
  appended before the claim can be used.  Claims that nested hooks add earlier are covered
  as well, because the record names the later claimant whoever the first one is.  Validity
  only ends with time, so a contest that is live later was live when the claim was added.
- `AuthorityIsKept`, an action property, from `RegistryGrows`: every step continues the
  lists of claims and conflicts and keeps the owner of every machine that has one.
- `SnapshotsArePast`.  That a snapshot is a prefix of the registry is not inductive with
  its contests on record: the invariant says of the copied claims alone that their contests
  are among the copied conflicts (`CopyStaysRecorded`).

### The gate (`FreedomVerifierProofs`)

The inductive invariant `VerifierInv` (theorem `CallsAreSound`) is stated of one call `c`, the
registry `v` that it verifies against and the clock `n` as constants (`CallInv`).  It says
what the call has found out up to the step it is at: which demands a claim behind them
answers, with what confidence, what was denied and why that was right, which conflicts were
there when the call began; and the same of every result it has.  What a mutation or the
clock can disturb is then one lemma (`CallInvStays`: the lists only continue, and the clock
does not go back), and each step of a call is another.  From it follow `PermitsAreBacked`,
`DenialsAreJustified`, `WeakWritesArbitrated`, `PlansStopAtForbidden` and `VerifierTyped`.
Results before the current one have cut nothing (`Cuts`), whatever names are in them; the
first that does is forbidden, or `CutsByName` finds the name that the text took the word from.

`AuditIsComplete` needs an invariant of the file (`AuditInv`): the entries of a thread's call
are in the order of its verdicts, and none of them has a later time stamp than the call.
An entry that another thread writes in between moves none of them (`AuditedByOthers`).

`VerdictsAreAtomic` is the refinement of `AuthorityGate`.  It has two hypotheses, which
are also the bounds of the run `Verifier_atomic`: `OnLiveRegistry`, since the abstract gate
knows no snapshots, and `ExpiryWaits`, that the clock ends no claim while a thread is inside
`verify`.  The second is necessary: a call that reads one claim before it expires and needs
another that is added afterwards may permit what no single instant does.  Otherwise mutations
and other calls fall between the reads as they like.  The argument is the invariant
`Earned`: a call against which nothing speaks so far is granted, by the registry as it is
now, everything it has asked for.  So the registry of the last step authorizes a
permit, and the registry at which the first violation is found denies (`IsDoomed`).  Each
step of a thread is then a `Begin`, `Decide`, `End` or stutter of that thread
(`...Move`, `ThreadRefines`), and a step of the registry changes no verdict (`VerdictsKept`).

### Execution contexts (`ExecutionContextProofs`)

`TreeInv` says of each context what it has to do with all of its ancestors (`ContextSound`:
depth, expiry, and claims behind what it was spawned with), and of each pending spawn what it
has checked of its parent (`SpawnSound`).  The pending spawns are needed because a child is
made several steps after the checks, while the parent may be revoked and the registry
changes.  `DepthIsBounded`, `ExpiriesNest`, `SpawnsAreBacked` and `ContextsTyped` follow.
`PermitsEndInTime` adds `LifetimeInv`: a verification was begun while its context, and with
`ExpiriesNest` every ancestor, was alive.

### The Rust registry and goal trees (`RustKernelProofs`)

`RustNoInvention` differs from the Python theorem in its induction: the claim that was
checked in one lock section is rooted at the place where it will be stored, and
`ToleranceAddsUp` says that a chain of delegations adds one tolerance for each claim between.
`RustContestsOnRecord` needs no hook in its invariant, as detection, record and insertion are
one step; that is what makes a raising hook harmless to it.

The goal trees are the one place where properties speak of recursive functions over data,
`PreOrder` and `MaxDepth`.  No induction over trees is used: that the recursion has exactly
one solution is part of the invariant (`OneOrder`, `OneHeight`).  It is kept because
`with_subgoal` changes the list of one goal only, which nothing owns and no list contains,
so the new solution is the old one with a new value for that goal (`OrderGrows`,
`HeightGrows`).  The other parts of `RustTreeInv` are

- `TreesShaped`: the trees are finite, two of them are apart or one holds the root of the
  other, and a tree that holds a subgoal holds the goal above it or starts there;
- the level of a goal in a tree is the number of goals above it (`Above`, `AboveGrows`), at
  most the height of the tree, and the height at most what its root was `allowed`, which only
  grows (`TreesBuilt`, `AllowedGrows`);
- `WalkFollows`: what was verified and the trees of the calls left to make are the
  pre-order of the root, and each call carries the level of its goal.

`TreesWithinLimit` and `WalksAreComplete` follow, for any set of goals and limits.
`DepthLimitsAreKept` adds `RefusedAtLimitOnly`, from `WalkFollows` and `TreesBuilt`: the call refused
is at a level that the limit does not exceed and that the height is not below; and the height
is at most what was allowed, hence at most a limit that was not lowered since.

### Clients of the gate (`GateClientsProofs`)

All three rest on `Backed`: the claims behind a permit stay on the list, valid some time
after the client began, and the machine keeps an owner (`AuthorizedIsBacked`, `BackedStays`).

- Goal trees: `GoalInv` says that the gate is asked about the next goal without a result, and
  that every result is backed.  `GoalsAreComplete` looks at a least goal without a result: its
  parent precedes it in the sequence, has a result, and is not permitted.
- Tools: `ToolInv` counts the checks that have passed (`ChecksPassed`).  `PoliciesAreObeyed`
  needs that every set of matching rules has a first one (`FirstRuleExists`, since
  `Outranks` is a strict order on a finite set) and that `Effect` is that rule's.
- The service: `ServiceInv` says that what any client was told is in the registry
  (`AcknowledgedInv`), and of each request in flight that what it rests on was acknowledged
  before it was sent.

### Queue, resolver, rule synthesis and information flow (`ExtensionsProofs`)

`ArbitrationIsOrderly` is inductive with `PositionsAge`: whatever is at the position that an
arbiter will name is not older than the entry it means, as entries only move to the front.
`ResolutionHasNoCycle` is a lemma about three claims (`BeatsAcyclic`): within a scope at most
one of three wins in turn could be by read-only, and the two clear ones would differ by more
than the third tolerates.  It does not use the assumption that no confidences are exactly 10
percent apart.  `InductionIsAccounted` says that the rules a run has reported are those that
were admitted since its account began and not by a hook, each at its own place.  The place is
the number of such positions up to it, and a position after all others has the next place
(`NextPlace`); this is all that the case of a hook that returns the engine's own list needs.
A hook that appends leaves the account as it is (`HookAppends`); one that changes what was in the list
begins it anew, with no position to account for (`HookRewrites`).

`NoDownwardFlow` is not inductive: that a write is compared with the taint says nothing of
what was read, so the invariant adds `TaintIsHighest`: the taint ranks as high as everything
read, and it is itself something that was read unless it is of the lowest rank (else a
refusal might be of no real flow).  The checker needs no more than that its set of labels is
`ReadBy`.  `CheckerIsNoLaxer` compares two programs that may be at different actions: where
the planner finds a flow, the checker finds one at the same action (`CheckerFlows`), and
what flows with few labels read flows with more (`FlowsNeverFall`).

### Scores and the ethics script (`EthicsScriptProofs`)

The invariant of the script adds to the types that the owner of a machine is among those it
had; what is rooted stays so because property and the history of owners only grow
(`UsesStayRooted`).  `CompassHasPotential` rests on `ScoresAdd`: the score of two moves is that
of the move from the first world to the last.  `RiskOnlyRises` needs that an argument is a
finite set of signals, so that each category has a heaviest one (`GreatestPercent`), which a
further signal can only outweigh; `RiskGrows` compares the risks for two answers of the tester,
of which the second takes no violation back, and `RaisingIsNone` drops one that raises.

### The instances (`ComponentsProofs`)

`MCComponents` puts components side by side, and its properties are stated under their
component's specification.  `JobsAreBehaviours` justifies that: a behaviour of `MCSpec` with
a given job is a behaviour of that component's own specification (of `AdviceSpec` for
`argument` and `compass`, of `QueueSpec` for `queue` and `resolver`).
So every invariant proved of a component holds of its job, whatever the bounds, and what TLC
finds in a job is something that the component can do.  `ComponentsTyped` collects the types
of all the components in that way.

### What is only model-checked

`VerificationEnds`: liveness under fairness is out of the prover's reach.  All invariants and
action properties of the passing runs are theorems; `VerdictsAreAtomic`, the refinement, is
one under the two hypotheses named above.

## 5. Plan

Done, in the order of importance: the registry and its proofs, the gate with its abstract
specification, contexts, goal trees, the Rust goal tree, information flow; then the tools
and policies on top of the gate, the Rust registry, the conflict queue and the service,
rule synthesis, the scores and the ethics script.

The safety properties are proved.  What is left is that the clients of `AuthorityGate` see of
the detailed gate what they rely on when claims do expire during a call, where
`VerdictsAreAtomic` does not apply.  (The clients' own properties allow for it, as they speak
of claims that were valid some time since the call began.)

Not modelled, and not planned:

- the Rust engine, its wire format and `multi_agent.rs`: pure functions of one request,
  whose verdict is that of `Authorized`; there is no state and no order of steps;
- the Rust verifier, which makes the reads that `FreedomVerifier` has;
- signatures, FFI, WASM, CLI and the Go binding: cryptography and buffers;
- the Kani and fuzz code, the Lean and TLA+ documents in `formal/` (they describe the engine
  and are not executed), and the examples, which are clients;
- `check`, `check_block` and `check_message` of the adapters, which return a verdict and
  leave it to the framework to run the tool;
- what a text matches (phrases and patterns of the detector and of the script's dialectical
  check), the filter `synthesize`, and of induction hooks: one that starts another induction,
  one that returns a generator, and one that changes the fields of an admitted rule;
- the extended verifier's `verify`, which hands an action on to the gate and an argument to
  `detect` and puts the two answers together;
- assignments to the field `subgoals` of a Rust goal past `with_subgoal`.

## 6. Running it

    tlc -config Registry_contest.cfg MCOwnershipRegistry.tla
    tlc -config Components.cfg MCComponents.tla
    tlapm OwnershipRegistryProofs.tla
    tlapm FreedomVerifierProofs.tla
    tlapm ComponentsProofs.tla

`PROJECT.json` lists the runs with their properties, a mutant for each property, the
source lines of every definition, the findings, hazards and theorems.
