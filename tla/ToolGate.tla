------------------------------ MODULE ToolGate ------------------------------
(***************************************************************************)
(* A tool call through an adapter (adapters/), with a policy on top of the *)
(* gate (kernel/policy.py).  An adapter calls the gate before the body of  *)
(* the tool runs: once in a decorated function, and in a FreedomTool once  *)
(* for run() and once for each level of subclasses that wrapped _run().    *)
(* The registry and the clock move between these calls and while the body  *)
(* runs.  The gate is the atomic one, which FreedomVerifier implements.    *)
(***************************************************************************)
EXTENDS AuthorityGate, SequencesExt

CONSTANTS
  Tools,        \* the tools that the framework calls
  Policies,     \* the policies of the verifiers that adapters are given
  ScopeOf,      \* per resource: its scope, or else its name, split at "/"
  ToolCaller    \* the thread that calls tools

\* In a rule, "actors" are those whose name has the actor_pattern as a prefix,
\* "operations" are all of them for an empty list, and the scope is split at "/"
\* after its trailing slashes are gone; <<>> is the empty scope.
PolicyRule == [effect : {"permit", "deny"}, operations : SUBSET Operations,
               actors : SUBSET Agents, scope : Seq(STRING), priority : Int]

Policy == [rules : Seq(PolicyRule), default : {"permit", "deny"}]

\* wraps is the number of subclass levels whose __init_subclass__ wrapped _run:
\* none without langchain_core.  A FreedomTool is configured when it has a verifier
\* and an agent.
Tool == [kind : {"decorated", "FreedomTool"}, wraps : Nat, configured : BOOLEAN,
         action : Actions]

ASSUME ToolGateAssumption ==
  /\ ToolCaller \in Threads
  /\ Tools \subseteq Tool
  /\ Policies \subseteq Policy
  /\ ScopeOf \in [Resources -> Seq(STRING)]
  /\ \A a \in Actions : \A d \in DOMAIN a.demands : a.demands[d].resource \in Resources

VARIABLE toolCall    \* the call in progress, or the last one

toolVars == <<gateVars, toolCall>>

-----------------------------------------------------------------------------
(* Policy.evaluate *)

\* scope_contains: equal, or longer by a "/".
ScopeContains(parent, child) == IsPrefix(parent, child)

RuleMatches(rule, actor, demand) ==
  /\ demand.op \in rule.operations
  /\ actor \in rule.actors
  /\ ScopeContains(rule.scope, ScopeOf[demand.resource])

\* Mutant: the later of two rules with the same priority wins.
OutranksLast(rules, i, j) ==
  \/ rules[i].priority > rules[j].priority
  \/ rules[i].priority = rules[j].priority /\ i > j

\* sorted() by descending priority keeps the order of equal rules.
Outranks(rules, i, j) ==
  \/ rules[i].priority > rules[j].priority
  \/ rules[i].priority = rules[j].priority /\ i < j

Matching(policy, actor, demand) ==
  {i \in DOMAIN policy.rules : RuleMatches(policy.rules[i], actor, demand)}

Effect(policy, actor, demand) ==
  LET matching == Matching(policy, actor, demand) IN
  IF matching = {} THEN policy.default
  ELSE LET first == CHOOSE i \in matching :
                      \A j \in matching \ {i} : Outranks(policy.rules, i, j)
       IN  policy.rules[first].effect

PolicyPermits(policy, action) ==
  \A d \in DOMAIN action.demands :
    Effect(policy, action.actor, action.demands[d]) = "permit"

-----------------------------------------------------------------------------
(* The adapters *)

\* The gate calls between a call of the tool and its body.
Checks(tool, route) ==
  IF tool.kind = "decorated" THEN 1
  ELSE IF ~tool.configured THEN 0
  ELSE tool.wraps + (IF route = "run" THEN 1 ELSE 0)

NoToolCall == [status |-> "idle"]

ToolInit == GateInit /\ toolCall = NoToolCall

CallTool(tool, route, policy) ==
  /\ toolCall.status \notin {"checking", "running"}
  /\ tool.kind = "decorated" => route = "run"
  /\ toolCall' = [status |-> "checking", action |-> tool.action, policy |-> policy,
                  checks |-> Checks(tool, route), left |-> Checks(tool, route),
                  begun |-> now]
  /\ UNCHANGED gate

StartCheck ==
  /\ toolCall.status = "checking" /\ toolCall.left > 0
  /\ gate[ToolCaller] = NoVerdict
  /\ Begin(ToolCaller, toolCall.action)
  /\ UNCHANGED toolCall

\* Mutant: a permit of the policy outweighs the denial of the kernel.
PassesPolicyOnly(call, verdict) == PolicyPermits(call.policy, call.action)

\* PolicyVerifier.verify: the kernel and the policy must both permit.
Passes(call, verdict) ==
  verdict = "permitted" /\ PolicyPermits(call.policy, call.action)

\* A denial raises PermissionError, and the body does not run.
TakeVerdict ==
  /\ toolCall.status = "checking"
  /\ End(ToolCaller)
  /\ toolCall' = IF Passes(toolCall, gate[ToolCaller].verdict)
                 THEN [toolCall EXCEPT !.left = @ - 1]
                 ELSE [toolCall EXCEPT !.status = "blocked"]

RunTool ==
  /\ toolCall.status = "checking" /\ toolCall.left = 0
  /\ gate[ToolCaller] = NoVerdict
  /\ toolCall' = [toolCall EXCEPT !.status = "running"]
  /\ UNCHANGED gate

ToolReturns ==
  /\ toolCall.status = "running"
  /\ toolCall' = NoToolCall
  /\ UNCHANGED gate

ToolNext ==
  \/ RegistryNext /\ UNCHANGED <<gate, toolCall>>
  \/ /\ \/ \E tool \in Tools, route \in {"run", "_run"}, policy \in Policies :
             CallTool(tool, route, policy)
        \/ StartCheck
        \/ Decide(ToolCaller) /\ UNCHANGED toolCall
        \/ TakeVerdict
        \/ RunTool
        \/ ToolReturns
     /\ UNCHANGED registryVars

ToolSpec == ToolInit /\ [][ToolNext]_toolVars

-----------------------------------------------------------------------------
(* Properties *)

\* A call is idle, or has an action, a policy and checks left to make.
ToolTypeOK ==
  \/ toolCall = NoToolCall
  \/ /\ toolCall.status \in {"checking", "running", "blocked"}
     /\ toolCall.action \in Actions /\ toolCall.policy \in Policies
     /\ toolCall.left \in 0 .. toolCall.checks
     /\ toolCall.begun \in 0 .. now

\* While the body of a checked tool runs, its action is not forbidden, a machine
\* that runs it has an owner and governs nobody, and each demand is backed by a
\* claim that was valid after the call began, whatever changed since the verdict.
ToolRunsAuthorized ==
  toolCall.status = "running" /\ toolCall.checks > 0 =>
    LET a == toolCall.action IN
    /\ ~a.forbidden
    /\ a.actor \in Machines => a.governs = {} /\ machineOwners[a.actor] # NoOwner
    /\ \A d \in DOMAIN a.demands :
         \/ PublicRead(a.demands[d].resource, a.demands[d].op)
         \/ \E k \in DOMAIN claims :
              /\ claims[k].holder = a.actor /\ claims[k].resource = a.demands[d].resource
              /\ a.demands[d].op \in claims[k].rights /\ claims[k].confidence > 0
              /\ claims[k].expiresAt = NoExpiry \/ claims[k].expiresAt >= toolCall.begun

\* No demand of a checked tool that runs is under a deny rule, unless a rule that
\* permits it has a higher priority, or the same one and an earlier place; a scope
\* is a whole directory, never a part of a name.
PolicyObeyed ==
  toolCall.status = "running" /\ toolCall.checks > 0 =>
    \A d \in DOMAIN toolCall.action.demands :
      LET rules == toolCall.policy.rules
          path == ScopeOf[toolCall.action.demands[d].resource]
          applies(i) == /\ toolCall.action.demands[d].op \in rules[i].operations
                        /\ toolCall.action.actor \in rules[i].actors
                        /\ \E n \in 0 .. Len(path) : rules[i].scope = SubSeq(path, 1, n)
          permits == {i \in DOMAIN rules : applies(i) /\ rules[i].effect = "permit"}
      IN  /\ \A i \in DOMAIN rules : applies(i) /\ rules[i].effect = "deny" =>
               \E j \in permits : \/ rules[j].priority > rules[i].priority
                                  \/ rules[j].priority = rules[i].priority /\ j < i
          /\ permits = {} => toolCall.policy.default = "permit"
=============================================================================
