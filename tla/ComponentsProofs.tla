-------------------------- MODULE ComponentsProofs --------------------------
(***************************************************************************)
(* The instances of MCComponents put several components side by side.      *)
(* Each of its jobs is a behaviour of the component's own specification,   *)
(* whatever the bounds on claims, so that what is proved of a component    *)
(* holds of its job, and what TLC finds in a job the component can do.     *)
(***************************************************************************)
EXTENDS MCComponents, GateClientsProofs, RustKernelProofs, ExtensionsProofs, EthicsScriptProofs

LEMMA GoalsJob ==
  MCSpec /\ job = "goals" => GoalSpec /\ [](job = "goals")
  <1>1. MCInit => GoalInit
    BY DEF MCInit
  <1>2. [MCNext]_MCVars /\ job = "goals" => [GoalNext]_treeVars /\ (job = "goals")'
    <2> SUFFICES ASSUME [MCNext]_MCVars, job = "goals"
                 PROVE  [GoalNext]_treeVars /\ job' = "goals"
      OBVIOUS
    <2>1. CASE MCNext
      BY <2>1 DEF MCNext, treeVars, gateVars
    <2>2. CASE UNCHANGED MCVars
      BY <2>2 DEF MCVars, treeVars, gateVars
    <2> QED BY <2>1, <2>2
  <1> QED BY <1>1, <1>2, PTL DEF MCSpec, GoalSpec

LEMMA ToolsJob ==
  MCSpec /\ job = "tools" => ToolSpec /\ [](job = "tools")
  <1>1. MCInit => ToolInit
    BY DEF MCInit
  <1>2. [MCNext]_MCVars /\ job = "tools" => [ToolNext]_toolVars /\ (job = "tools")'
    <2> SUFFICES ASSUME [MCNext]_MCVars, job = "tools"
                 PROVE  [ToolNext]_toolVars /\ job' = "tools"
      OBVIOUS
    <2>1. CASE MCNext
      BY <2>1 DEF MCNext, toolVars, gateVars
    <2>2. CASE UNCHANGED MCVars
      BY <2>2 DEF MCVars, toolVars, gateVars
    <2> QED BY <2>1, <2>2
  <1> QED BY <1>1, <1>2, PTL DEF MCSpec, ToolSpec

LEMMA RustJob ==
  MCSpec /\ job = "rust" => RustSpec /\ [](job = "rust")
  <1>1. MCInit => RustRegistryInit
    BY DEF MCInit
  <1>2. [MCNext]_MCVars /\ job = "rust" => [RustNext]_rustVars /\ (job = "rust")'
    <2> SUFFICES ASSUME [MCNext]_MCVars, job = "rust"
                 PROVE  [RustNext]_rustVars /\ job' = "rust"
      OBVIOUS
    <2>1. CASE MCNext
      BY <2>1 DEF MCNext, rustVars, gateVars, rustOnly
    <2>2. CASE UNCHANGED MCVars
      BY <2>2 DEF MCVars, rustVars, gateVars, rustOnly
    <2> QED BY <2>1, <2>2
  <1> QED BY <1>1, <1>2, PTL DEF MCSpec, RustSpec

LEMMA ServiceJob ==
  MCSpec /\ job = "service" => ServiceSpec /\ [](job = "service")
  <1>1. MCInit => ServiceInit
    BY DEF MCInit
  <1>2. [MCNext]_MCVars /\ job = "service" => [ServiceNext]_serviceVars /\ (job = "service")'
    <2> SUFFICES ASSUME [MCNext]_MCVars, job = "service"
                 PROVE  [ServiceNext]_serviceVars /\ job' = "service"
      OBVIOUS
    <2>1. CASE MCNext
      BY <2>1 DEF MCNext, serviceVars, gateVars, serviceOnly
    <2>2. CASE UNCHANGED MCVars
      BY <2>2 DEF MCVars, serviceVars, gateVars, serviceOnly
    <2> QED BY <2>1, <2>2
  <1> QED BY <1>1, <1>2, PTL DEF MCSpec, ServiceSpec

LEMMA QueueJob ==
  MCSpec /\ job = "queue" => QueueSpec /\ [](job = "queue")
  <1>1. MCInit => QueueInit
    BY DEF MCInit, ServiceInit
  <1>2. [MCNext]_MCVars /\ job = "queue" => [QueueNext]_queueVars /\ (job = "queue")'
    <2> SUFFICES ASSUME [MCNext]_MCVars, job = "queue"
                 PROVE  [QueueNext]_queueVars /\ job' = "queue"
      OBVIOUS
    <2>1. CASE MCNext
      BY <2>1 DEF MCNext
    <2>2. CASE UNCHANGED MCVars
      BY <2>2 DEF MCVars
    <2> QED BY <2>1, <2>2
  <1> QED BY <1>1, <1>2, PTL DEF MCSpec, QueueSpec

LEMMA ResolverJob ==
  MCSpec /\ job = "resolver" => QueueSpec /\ [](job = "resolver")
  <1>1. MCInit => QueueInit
    BY DEF MCInit, ServiceInit
  <1>2. [MCNext]_MCVars /\ job = "resolver" => [QueueNext]_queueVars /\ (job = "resolver")'
    <2> SUFFICES ASSUME [MCNext]_MCVars, job = "resolver"
                 PROVE  [QueueNext]_queueVars /\ job' = "resolver"
      OBVIOUS
    <2>1. CASE MCNext
      BY <2>1 DEF MCNext
    <2>2. CASE UNCHANGED MCVars
      BY <2>2 DEF MCVars
    <2> QED BY <2>1, <2>2
  <1> QED BY <1>1, <1>2, PTL DEF MCSpec, QueueSpec

LEMMA ForestJob ==
  MCSpec /\ job = "forest" => RustTreeSpec /\ [](job = "forest")
  <1>1. MCInit => RustTreeInit
    BY DEF MCInit
  <1>2. [MCNext]_MCVars /\ job = "forest" => [RustTreeNext]_rustTreeVars /\ (job = "forest")'
    <2> SUFFICES ASSUME [MCNext]_MCVars, job = "forest"
                 PROVE  [RustTreeNext]_rustTreeVars /\ job' = "forest"
      OBVIOUS
    <2>1. CASE MCNext
      BY <2>1 DEF MCNext
    <2>2. CASE UNCHANGED MCVars
      BY <2>2 DEF MCVars
    <2> QED BY <2>1, <2>2
  <1> QED BY <1>1, <1>2, PTL DEF MCSpec, RustTreeSpec

LEMMA FlowJob ==
  MCSpec /\ job = "flow" => FlowSpec /\ [](job = "flow")
  <1>1. MCInit => FlowInit
    BY DEF MCInit
  <1>2. [MCNext]_MCVars /\ job = "flow" => [FlowNext]_flowVars /\ (job = "flow")'
    <2> SUFFICES ASSUME [MCNext]_MCVars, job = "flow"
                 PROVE  [FlowNext]_flowVars /\ job' = "flow"
      OBVIOUS
    <2>1. CASE MCNext
      BY <2>1 DEF MCNext
    <2>2. CASE UNCHANGED MCVars
      BY <2>2 DEF MCVars
    <2> QED BY <2>1, <2>2
  <1> QED BY <1>1, <1>2, PTL DEF MCSpec, FlowSpec

LEMMA RulesJob ==
  MCSpec /\ job = "rules" => RulesSpec /\ [](job = "rules")
  <1>1. MCInit => RulesInit
    BY DEF MCInit
  <1>2. [MCNext]_MCVars /\ job = "rules" => [RulesNext]_ruleVars /\ (job = "rules")'
    <2> SUFFICES ASSUME [MCNext]_MCVars, job = "rules"
                 PROVE  [RulesNext]_ruleVars /\ job' = "rules"
      OBVIOUS
    <2>1. CASE MCNext
      BY <2>1 DEF MCNext
    <2>2. CASE UNCHANGED MCVars
      BY <2>2 DEF MCVars
    <2> QED BY <2>1, <2>2
  <1> QED BY <1>1, <1>2, PTL DEF MCSpec, RulesSpec

LEMMA ArgumentJob ==
  MCSpec /\ job = "argument" => AdviceSpec /\ [](job = "argument")
  <1>1. MCInit => AdviceInit
    BY DEF MCInit
  <1>2. [MCNext]_MCVars /\ job = "argument" => [AdviceNext]_adviceVars /\ (job = "argument")'
    <2> SUFFICES ASSUME [MCNext]_MCVars, job = "argument"
                 PROVE  [AdviceNext]_adviceVars /\ job' = "argument"
      OBVIOUS
    <2>1. CASE MCNext
      BY <2>1 DEF MCNext
    <2>2. CASE UNCHANGED MCVars
      BY <2>2 DEF MCVars
    <2> QED BY <2>1, <2>2
  <1> QED BY <1>1, <1>2, PTL DEF MCSpec, AdviceSpec

LEMMA CompassJob ==
  MCSpec /\ job = "compass" => AdviceSpec /\ [](job = "compass")
  <1>1. MCInit => AdviceInit
    BY DEF MCInit
  <1>2. [MCNext]_MCVars /\ job = "compass" => [AdviceNext]_adviceVars /\ (job = "compass")'
    <2> SUFFICES ASSUME [MCNext]_MCVars, job = "compass"
                 PROVE  [AdviceNext]_adviceVars /\ job' = "compass"
      OBVIOUS
    <2>1. CASE MCNext
      BY <2>1 DEF MCNext
    <2>2. CASE UNCHANGED MCVars
      BY <2>2 DEF MCVars
    <2> QED BY <2>1, <2>2
  <1> QED BY <1>1, <1>2, PTL DEF MCSpec, AdviceSpec

LEMMA ScriptJob ==
  MCSpec /\ job = "script" => ScriptSpec /\ [](job = "script")
  <1>1. MCInit => ScriptInit
    BY DEF MCInit
  <1>2. [MCNext]_MCVars /\ job = "script" => [ScriptNext]_scriptVars /\ (job = "script")'
    <2> SUFFICES ASSUME [MCNext]_MCVars, job = "script"
                 PROVE  [ScriptNext]_scriptVars /\ job' = "script"
      OBVIOUS
    <2>1. CASE MCNext
      BY <2>1 DEF MCNext
    <2>2. CASE UNCHANGED MCVars
      BY <2>2 DEF MCVars
    <2> QED BY <2>1, <2>2
  <1> QED BY <1>1, <1>2, PTL DEF MCSpec, ScriptSpec

\* A job of the instances does nothing that its component cannot do.
THEOREM JobsAreBehaviours ==
  MCSpec =>
    /\ job = "goals" => GoalSpec
    /\ job = "tools" => ToolSpec
    /\ job = "rust" => RustSpec
    /\ job = "service" => ServiceSpec
    /\ job \in {"queue", "resolver"} => QueueSpec
    /\ job = "forest" => RustTreeSpec
    /\ job = "flow" => FlowSpec
    /\ job = "rules" => RulesSpec
    /\ job \in {"argument", "compass"} => AdviceSpec
    /\ job = "script" => ScriptSpec
  <1>1. MCSpec /\ job = "goals" => GoalSpec
    BY GoalsJob, PTL
  <1>2. MCSpec /\ job = "tools" => ToolSpec
    BY ToolsJob, PTL
  <1>3. MCSpec /\ job = "rust" => RustSpec
    BY RustJob, PTL
  <1>4. MCSpec /\ job = "service" => ServiceSpec
    BY ServiceJob, PTL
  <1>5. MCSpec /\ job \in {"queue", "resolver"} => QueueSpec
    <2>1. job \in {"queue", "resolver"} => job = "queue" \/ job = "resolver"
      OBVIOUS
    <2> QED BY <2>1, QueueJob, ResolverJob, PTL
  <1>6. MCSpec /\ job = "forest" => RustTreeSpec
    BY ForestJob, PTL
  <1>7. MCSpec /\ job = "flow" => FlowSpec
    BY FlowJob, PTL
  <1>8. MCSpec /\ job = "rules" => RulesSpec
    BY RulesJob, PTL
  <1>9. MCSpec /\ job \in {"argument", "compass"} => AdviceSpec
    <2>1. job \in {"argument", "compass"} => job = "argument" \/ job = "compass"
      OBVIOUS
    <2> QED BY <2>1, ArgumentJob, CompassJob, PTL
  <1>10. MCSpec /\ job = "script" => ScriptSpec
    BY ScriptJob, PTL
  <1> QED BY <1>1, <1>2, <1>3, <1>4, <1>5, <1>6, <1>7, <1>8, <1>9, <1>10, PTL

\* The state of each component stays of its type in the behaviours of the
\* instances, for any claims, trees, tools, policies, plans, rules and signals
\* they are given.
THEOREM ComponentsTyped == MCSpec => []ComponentsTypeOK
  <1>1. MCSpec /\ job = "goals" => []ComponentsTypeOK
    <2>1. job = "goals" /\ GoalTypeOK => ComponentsTypeOK
      BY DEF ComponentsTypeOK
    <2> QED BY <2>1, GoalsJob, GoalsTyped, PTL
  <1>2. MCSpec /\ job = "tools" => []ComponentsTypeOK
    <2>1. job = "tools" /\ ToolTypeOK => ComponentsTypeOK
      BY DEF ComponentsTypeOK
    <2> QED BY <2>1, ToolsJob, ToolsTyped, PTL
  <1>3. MCSpec /\ job = "rust" => []ComponentsTypeOK
    <2>1. job = "rust" /\ RustTypeOK => ComponentsTypeOK
      BY DEF ComponentsTypeOK
    <2> QED BY <2>1, RustJob, RustTyped, PTL
  <1>4. MCSpec /\ job = "service" => []ComponentsTypeOK
    <2>1. job = "service" /\ ServiceTypeOK => ComponentsTypeOK
      BY DEF ComponentsTypeOK
    <2> QED BY <2>1, ServiceJob, ServiceTyped, PTL
  <1>5. MCSpec /\ job = "queue" => []ComponentsTypeOK
    <2>1. job = "queue" /\ QueueTypeOK => ComponentsTypeOK
      BY DEF ComponentsTypeOK
    <2> QED BY <2>1, QueueJob, QueueTyped, PTL
  <1>6. MCSpec /\ job = "resolver" => []ComponentsTypeOK
    <2>1. job = "resolver" /\ QueueTypeOK => ComponentsTypeOK
      BY DEF ComponentsTypeOK
    <2> QED BY <2>1, ResolverJob, QueueTyped, PTL
  <1>7. MCSpec /\ job = "forest" => []ComponentsTypeOK
    <2>1. job = "forest" /\ RustTreeTypeOK => ComponentsTypeOK
      BY DEF ComponentsTypeOK
    <2> QED BY <2>1, ForestJob, RustTreesTyped, PTL
  <1>8. MCSpec /\ job = "flow" => []ComponentsTypeOK
    <2>1. job = "flow" /\ FlowTypeOK => ComponentsTypeOK
      BY DEF ComponentsTypeOK
    <2> QED BY <2>1, FlowJob, FlowTyped, PTL
  <1>9. MCSpec /\ job = "rules" => []ComponentsTypeOK
    <2>1. job = "rules" /\ RulesTypeOK => ComponentsTypeOK
      BY DEF ComponentsTypeOK
    <2> QED BY <2>1, RulesJob, RulesTyped, PTL
  <1>10. MCSpec /\ job = "argument" => []ComponentsTypeOK
    <2>1. job = "argument" /\ AdviceTypeOK => ComponentsTypeOK
      BY DEF ComponentsTypeOK
    <2> QED BY <2>1, ArgumentJob, AdviceTyped, PTL
  <1>11. MCSpec /\ job = "compass" => []ComponentsTypeOK
    <2>1. job = "compass" /\ AdviceTypeOK => ComponentsTypeOK
      BY DEF ComponentsTypeOK
    <2> QED BY <2>1, CompassJob, AdviceTyped, PTL
  <1>12. MCSpec /\ job = "script" => []ComponentsTypeOK
    <2>1. job = "script" /\ ScriptTypeOK => ComponentsTypeOK
      BY DEF ComponentsTypeOK
    <2> QED BY <2>1, ScriptJob, ScriptTyped, PTL
  <1>13. MCInit => job = "goals" \/ job = "tools" \/ job = "rust" \/ job = "service"
                   \/ job = "queue" \/ job = "resolver" \/ job = "forest" \/ job = "flow"
                   \/ job = "rules" \/ job = "argument" \/ job = "compass" \/ job = "script"
    BY JobsAssumption DEF MCInit
  <1> QED BY <1>1, <1>2, <1>3, <1>4, <1>5, <1>6, <1>7, <1>8, <1>9, <1>10, <1>11, <1>12, <1>13, PTL DEF MCSpec
=============================================================================
