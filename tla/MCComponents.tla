---------------------------- MODULE MCComponents ----------------------------
(* Finite instances, for TLC, of the components that are clients of the     *)
(* atomic gate or of the registry, and of those that stand alone.  They do  *)
(* not interact: a behaviour does one job, and the variables of the other   *)
(* components keep one initial value.                                       *)
EXTENDS GoalTree, ToolGate, RustRegistry, Service, GoalTreeRust, InformationFlow,
        RuleSynthesis, EthicsScript

CONSTANTS h1, h2, m1, r1, r2, t1, t2, g1, g2, g3, g4, Jobs

ASSUME JobsAssumption ==
  Jobs \subseteq {"goals", "tools", "rust", "service", "queue", "resolver", "forest", "flow",
                  "rules", "argument", "compass", "script"}

VARIABLE job

On(op, resource) == [op |-> op, resource |-> resource]
Under(parent, actor, demands) == [parent |-> parent, actor |-> actor, demands |-> demands]
Act(actor, forbidden, governs, demands) ==
  [actor |-> actor, forbidden |-> forbidden, governs |-> governs, demands |-> demands]

MCLifetimes == {0, NoExpiry}
MCRightSets == {{"read", "write"}, {"write", "delegate"}}

-----------------------------------------------------------------------------
(* Goal trees: a chain, a fork with a subgoal below its first branch, and a *)
(* chain whose last goal escapes from its parent but not from the root.     *)

R1 == <<On("read", r1)>>
W1 == <<On("write", r1)>>
R1R2 == <<On("read", r1), On("read", r2)>>

FirstTree == <<Under(0, h1, R1), Under(1, m1, R1), Under(2, m1, W1)>>
MCTrees ==
  {FirstTree,
   <<Under(0, m1, R1R2), Under(1, h1, R1), Under(2, m1, R1), Under(1, m1, <<On("read", r2)>>)>>,
   <<Under(0, h1, R1R2), Under(1, h1, R1), Under(2, h1, R1R2)>>,
   <<Under(0, h1, R1), Under(1, m1, R1R2)>>}

(* Tools and requests: actions of a machine and of a human.  r1 is a file   *)
(* under "/data", and r2 one under "/data2".                                *)

ReadBoth == Act(m1, FALSE, {}, R1R2)
WriteOne == Act(m1, FALSE, {}, W1)
HumanWrite == Act(h1, FALSE, {}, W1)
Governs == Act(m1, FALSE, {h1}, <<>>)
MCPlans == {<<ReadBoth>>, <<WriteOne>>, <<HumanWrite>>, <<Governs>>}

MCTools ==
  {[kind |-> "decorated", wraps |-> 0, configured |-> TRUE, action |-> ReadBoth],
   [kind |-> "decorated", wraps |-> 0, configured |-> TRUE, action |-> Governs],
   [kind |-> "FreedomTool", wraps |-> 1, configured |-> TRUE, action |-> WriteOne],
   [kind |-> "FreedomTool", wraps |-> 0, configured |-> TRUE, action |-> HumanWrite],
   [kind |-> "FreedomTool", wraps |-> 1, configured |-> FALSE, action |-> WriteOne]}

MCScopeOf == [r \in Resources |-> IF r = r1 THEN <<"", "data", "a">> ELSE <<"", "data2", "a">>]

Rule(effect, operations, actors, scope, priority) ==
  [effect |-> effect, operations |-> operations, actors |-> actors, scope |-> scope,
   priority |-> priority]

\* A plain verifier; three rules of one priority, where the second denies what the
\* third permits; a general denial, and an exception with a higher priority.
MCPolicies ==
  {[rules |-> <<>>, default |-> "permit"],
   [rules |-> <<Rule("permit", Operations, {m1}, <<"", "data">>, 0),
                Rule("deny", {"read"}, Agents, <<"", "data2">>, 0),
                Rule("permit", {"read"}, {m1}, <<"", "data2", "a">>, 0)>>, default |-> "deny"],
   [rules |-> <<Rule("deny", Operations, {m1}, <<>>, 0),
                Rule("permit", {"write"}, Agents, <<"", "data">>, 1)>>, default |-> "permit"]}

(* Contenders whose confidences differ by less and by more than the tolerance. *)

MCContenders == [scope : {0, 5}, confidence : {50, 59, 65, 78}, write : BOOLEAN]
FirstContender == [scope |-> 0, confidence |-> 50, write |-> FALSE]

(* Plans for the information-flow checkers: of two actions, with labels outside *)
(* the lattice, and of three over the lattice.                                  *)

Steps(labels, n) ==
  {a \in FlowAction : /\ a.reads \cup a.writes \subseteq labels
                      /\ Cardinality(a.reads) <= n /\ Cardinality(a.writes) <= 1}
MCFlowPlans == [1 .. 2 -> Steps(Labels \ {"INTERNAL"}, 2)] \cup [1 .. 3 -> Steps(Lattice, 1)]
OneFlowPlan == <<[reads |-> {}, writes |-> {}], [reads |-> {}, writes |-> {}]>>

(* Signals with weights of the code; actions of the script. *)

MCSignals ==
  {[layer |-> 3, label |-> "ends justify the means", weight |-> 100],
   [layer |-> 3, label |-> "emergency exception", weight |-> 85],
   [layer |-> 3, label |-> "machine should decide", weight |-> 70],
   [layer |-> 2, label |-> "override-frame", weight |-> 85],
   [layer |-> 2, label |-> "anti-constraint", weight |-> 70],
   [layer |-> 2, label |-> "soft-dialectic", weight |-> 40]}

Still == [violations |-> 0, agreements |-> 0, coercion |-> 0, ambiguities |-> 0, sovereignty |-> 0]
FirstListener == [threshold |-> 50, tester |-> "none"]

Uses(actor, affects, uses, worlds) ==
  [actor |-> actor, affects |-> affects, uses |-> uses, consents |-> {{"irrevocable"}},
   flagged |-> FALSE, worlds |-> worlds]

MCScriptActions ==
  {Uses(m1, {}, {r1}, <<>>), Uses(m1, {m1}, {r1, r2}, <<Still, Still>>),
   Uses(m1, {h1}, {}, <<>>), Uses(h1, {h1}, {r1}, <<Still, [Still EXCEPT !.coercion = 1]>>),
   Uses(h2, {m1}, {r2}, <<[Still EXCEPT !.violations = 1, !.coercion = 1],
                          [Still EXCEPT !.sovereignty = 1]>>),
   [Uses(h2, {}, {r1}, <<>>) EXCEPT !.consents = {{"unspecific"}}]}

-----------------------------------------------------------------------------
MCInit ==
  /\ job \in Jobs
  /\ job # "goals" => tree = FirstTree
  /\ job # "flow" => plan = OneFlowPlan
  /\ job # "resolver" => rivals = [i \in 1 .. 3 |-> FirstContender]
  /\ job # "argument" => listener = FirstListener
  /\ job # "compass" => world = Still
  /\ GoalInit /\ ToolInit /\ RustRegistryInit /\ ServiceInit
  /\ RustTreeInit /\ FlowInit /\ RulesInit /\ AdviceInit /\ ScriptInit

\* The claims that a job is about, and no more of them than it needs.
ClaimOf(c) ==
  CASE job = "goals"   -> c.confidence = 90
    [] job = "tools"   -> c.confidence = 90 /\ c.resource = r1
    [] job = "rust"    -> c.resource = r1 /\ (c.confidence = 90 \/ c.expiresAt = NoExpiry)
    [] job = "service" -> c.confidence = 90 /\ c.resource = r1 /\ "read" \in c.rights
    [] OTHER           -> TRUE

JobBounds ==
  /\ snapshot = NoSnapshot
  /\ job = "tools" => Len(claims) <= 1
  /\ job # "rust" => Len(claims) <= 2 /\ Len(conflicts) <= 1 /\ ~hookInstalled
  /\ \A i \in DOMAIN claims : ClaimOf(claims[i])
  /\ \A t \in Threads : requests[t].stage = "sent" /\ requests[t].kind = "claim" =>
       ClaimOf(requests[t].body)

rustOnly == <<checked, runningHooks>>
serviceOnly == <<requests, acknowledged>>

MCNext ==
  /\ \/ job = "goals" /\ GoalNext /\ UNCHANGED <<toolCall, rustOnly, queueVars, serviceOnly>>
     \/ job = "tools" /\ ToolNext /\ UNCHANGED <<goalVars, rustOnly, queueVars, serviceOnly>>
     \/ job = "rust" /\ RustNext /\ UNCHANGED <<gate, goalVars, toolCall, queueVars, serviceOnly>>
     \/ job = "service" /\ ServiceNext /\ UNCHANGED <<goalVars, toolCall, rustOnly>>
     \/ job = "queue" /\ QueueNext
          /\ UNCHANGED <<gateVars, goalVars, toolCall, rustOnly, serviceOnly>>
     \/ job \notin {"goals", "tools", "rust", "service", "queue"}
          /\ UNCHANGED <<gateVars, goalVars, toolCall, rustOnly, queueVars, serviceOnly>>
  /\ UNCHANGED job
  /\ JobBounds'
  /\ IF job = "forest" THEN RustTreeNext ELSE UNCHANGED rustTreeVars
  /\ IF job = "flow" THEN FlowNext ELSE UNCHANGED flowVars
  /\ IF job = "rules" THEN RulesNext ELSE UNCHANGED ruleVars
  /\ IF job \in {"argument", "compass"}
     THEN AdviceNext /\ UNCHANGED (IF job = "argument" THEN world ELSE argument)
     ELSE UNCHANGED adviceVars
  /\ IF job = "script" THEN ScriptNext ELSE UNCHANGED scriptVars

MCVars == <<job, gateVars, goalVars, toolCall, rustOnly, queueVars, serviceOnly, rustTreeVars,
            flowVars, ruleVars, adviceVars, scriptVars>>

MCSpec == MCInit /\ [][MCNext]_MCVars

-----------------------------------------------------------------------------
\* Each component's state is of its type, while a behaviour is about it.
ComponentsTypeOK ==
  CASE job = "goals"    -> GoalTypeOK
    [] job = "tools"    -> ToolTypeOK
    [] job = "rust"     -> RustTypeOK
    [] job = "service"  -> ServiceTypeOK
    [] job = "forest"   -> RustTreeTypeOK
    [] job = "flow"     -> FlowTypeOK
    [] job = "rules"    -> RulesTypeOK
    [] job = "script"   -> ScriptTypeOK
    [] job \in {"queue", "resolver"}   -> QueueTypeOK
    [] job \in {"argument", "compass"} -> AdviceTypeOK
=============================================================================
