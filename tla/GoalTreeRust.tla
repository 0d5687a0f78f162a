---------------------------- MODULE GoalTreeRust ----------------------------
(***************************************************************************)
(* The goal tree of the Rust kernel (goal_tree.rs).  Trees are built with  *)
(* with_subgoal(), which moves a finished child under a goal, and verified *)
(* by a depth-first walk that stops at the first violation.  Both look at  *)
(* the depth_limit of a goal, a public field that may be set at any time   *)
(* before the walk; the field subgoals is filled by with_subgoal only, as  *)
(* in the repository.  The engine's verdict on a goal depends on claims    *)
(* that may expire during the walk, so it is any verdict here.             *)
(***************************************************************************)
EXTENDS Integers, Sequences, SequencesExt, FiniteSetsExt

CONSTANTS
  Goals,     \* GoalNode, by id
  Limits,    \* the depth_limit values of goals
  LeafLimit  \* the one that leaf() sets (10 in the code)

ASSUME GoalTreeRustAssumption == Limits \subseteq Nat /\ LeafLimit \in Limits

VARIABLES
  depthLimit,  \* depth_limit of each goal
  subgoals,    \* subgoals of each goal, in the order they were added
  owned,       \* the goals that are moved into another one
  allowed,     \* history: the largest limit under which a goal was given a subgoal
  walk,        \* the calls of dfs_verify to make, next first, with their depths
  root,        \* the goal that verify_goal_tree was called with
  results,     \* node_results
  violation    \* first_violation

buildVars == <<depthLimit, subgoals, owned, allowed>>
walkVars == <<walk, root, results, violation>>
rustTreeVars == <<buildVars, walkVars>>

-----------------------------------------------------------------------------
RustTreeInit ==
  /\ depthLimit = [g \in Goals |-> LeafLimit]
  /\ subgoals = [g \in Goals |-> <<>>]
  /\ owned = {}
  /\ allowed = [g \in Goals |-> 0]
  /\ walk = <<>>
  /\ root = {}
  /\ results = <<>>
  /\ violation = "none"

\* Mutant: the depth of the subgoals is not counted.
MaxDepthShallow(g) == IF subgoals[g] = <<>> THEN 0 ELSE 1

\* max_depth: the number of levels below g.
MaxDepth(g) ==
  LET depth[k \in Goals] ==
        IF subgoals[k] = <<>> THEN 0
        ELSE 1 + Max({depth[child] : child \in ToSet(subgoals[k])})
  IN  depth[g]

\* A goal that nothing owns is built further; an error moves nothing.
WithSubgoal(g, child) ==
  /\ root = {}
  /\ g # child /\ {g, child} \cap owned = {}
  /\ MaxDepth(child) < depthLimit[g]
  /\ subgoals' = [subgoals EXCEPT ![g] = Append(@, child)]
  /\ owned' = owned \cup {child}
  /\ allowed' = [allowed EXCEPT ![g] = Max({@, depthLimit[g]})]
  /\ UNCHANGED <<depthLimit, walkVars>>

\* with_depth_limit, or an assignment to the field: of any goal, before or after it
\* has subgoals, and inside of a tree as well.
WithDepthLimit(g, limit) ==
  /\ root = {}
  /\ depthLimit' = [depthLimit EXCEPT ![g] = limit]
  /\ UNCHANGED <<subgoals, owned, allowed, walkVars>>

VerifyTree(g) ==
  /\ root = {}
  /\ g \notin owned
  /\ root' = {g}
  /\ walk' = <<[goal |-> g, depth |-> 0]>>
  /\ UNCHANGED <<buildVars, results, violation>>

\* Mutant: the depth does not grow.
CallsLevel(g, depth) == [k \in DOMAIN subgoals[g] |-> [goal |-> subgoals[g][k], depth |-> depth]]

Calls(g, depth) == [k \in DOMAIN subgoals[g] |-> [goal |-> subgoals[g][k], depth |-> depth + 1]]

\* dfs_verify after a violation returns at once: the calls left do nothing.
TooDeep ==
  /\ walk # <<>> /\ violation = "none"
  /\ Head(walk).depth >= depthLimit[Head(walk).goal]
  /\ violation' = "depth"
  /\ walk' = <<>>
  /\ UNCHANGED <<buildVars, root, results>>

\* Mutant: the goals are visited level by level.
VisitByLevel(permitted) ==
  /\ walk # <<>> /\ violation = "none"
  /\ Head(walk).depth < depthLimit[Head(walk).goal]
  /\ results' = Append(results, [goal |-> Head(walk).goal, permitted |-> permitted])
  /\ violation' = IF permitted THEN "none" ELSE "kernel"
  /\ walk' = IF permitted THEN Tail(walk) \o Calls(Head(walk).goal, Head(walk).depth) ELSE <<>>
  /\ UNCHANGED <<buildVars, root>>

Visit(permitted) ==
  /\ walk # <<>> /\ violation = "none"
  /\ Head(walk).depth < depthLimit[Head(walk).goal]
  /\ results' = Append(results, [goal |-> Head(walk).goal, permitted |-> permitted])
  /\ violation' = IF permitted THEN "none" ELSE "kernel"
  /\ walk' = IF permitted THEN Calls(Head(walk).goal, Head(walk).depth) \o Tail(walk) ELSE <<>>
  /\ UNCHANGED <<buildVars, root>>

RustTreeNext ==
  \/ \E g \in Goals, limit \in Limits : WithDepthLimit(g, limit)
  \/ \E g, child \in Goals : WithSubgoal(g, child)
  \/ \E g \in Goals : VerifyTree(g)
  \/ TooDeep
  \/ \E permitted \in BOOLEAN : Visit(permitted)

RustTreeSpec == RustTreeInit /\ [][RustTreeNext]_rustTreeVars

-----------------------------------------------------------------------------
(* Properties *)

\* Goals and the walk are well formed, and a violation ends the walk.
RustTreeTypeOK ==
  /\ depthLimit \in [Goals -> Limits]
  /\ subgoals \in [Goals -> Seq(Goals)]
  /\ owned \subseteq Goals
  /\ allowed \in [Goals -> Nat]
  /\ walk \in Seq([goal : Goals, depth : Nat])
  /\ root \subseteq Goals /\ root \cap owned = {}
  /\ results \in Seq([goal : Goals, permitted : BOOLEAN])
  /\ violation \in {"none", "depth", "kernel"}
  /\ violation # "none" => walk = <<>>

\* The goals of the tree of g, parents before their subgoals.
PreOrder(g) ==
  LET order[k \in Goals] ==
        <<k>> \o FlattenSeq([c \in DOMAIN subgoals[k] |-> order[subgoals[k][c]]])
  IN  order[g]

\* all_permitted means every goal: the results are the tree in pre-order up to
\* the first violation, all permitted but the violating one, and without a
\* violation the walk ends with the last goal of the tree.
WalkIsComplete ==
  \A g \in root :
    LET visited == [k \in DOMAIN results |-> results[k].goal] IN
    /\ IsPrefix(visited, PreOrder(g))
    /\ \A k \in DOMAIN results : results[k].permitted <=> violation # "kernel" \/ k # Len(results)
    /\ walk = <<>> /\ violation = "none" => visited = PreOrder(g)

\* The number of goals on the way from g down to k.
LevelUnder(g, k) == Cardinality({j \in ToSet(PreOrder(g)) \ {k} : k \in ToSet(PreOrder(j))})

\* No goal has more levels below it than a limit under which with_subgoal gave it a
\* subgoal, in whatever order trees are put together and limits are set.
BuiltWithinLimit ==
  \A g \in Goals : \A k \in ToSet(PreOrder(g)) : LevelUnder(g, k) <= allowed[g]

\* No goal is verified at a depth that its depth_limit excludes, and a tree is
\* refused for its depth only at a goal that is that deep.
WalkWithinLimit ==
  \A g \in root :
    /\ \A k \in DOMAIN results :
         LevelUnder(g, results[k].goal) < depthLimit[results[k].goal]
    /\ violation = "depth" =>
         LET refused == PreOrder(g)[Len(results) + 1] IN
         LevelUnder(g, refused) >= depthLimit[refused]

\* The builder and the walk disagree by one level and no more: a tree whose goals
\* have one limit, which is not below one under which its root was given subgoals,
\* is refused for its depth only when it has as many levels below its root as
\* with_subgoal allows at most.
RefusedAtLimitOnly ==
  \A g \in root :
    LET oneLimit == \A k \in ToSet(PreOrder(g)) : depthLimit[k] = depthLimit[g]
    IN  violation = "depth" /\ oneLimit /\ allowed[g] <= depthLimit[g]
          => MaxDepth(g) = depthLimit[g]

\* The depth_limit of the goals cuts the walk where it must, and no earlier.
DepthLimitKept == WalkWithinLimit /\ RefusedAtLimitOnly

\* What with_subgoal's comment says: it returns Err if depth_limit would be
\* exceeded, so that a tree built with it, under one limit for all goals that is not
\* lowered after it was built, is never refused for its depth.
AcceptedIsNotTooDeep ==
  (\A g, k \in Goals : /\ depthLimit[g] = depthLimit[k] /\ depthLimit[g] > 0
                        /\ allowed[g] <= depthLimit[g])
    => violation # "depth"
=============================================================================
