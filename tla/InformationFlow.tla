-------------------------- MODULE InformationFlow --------------------------
(***************************************************************************)
(* The two checkers of information flow over a plan: the planner of the    *)
(* Rust kernel (planner.rs), which keeps the highest label read so far,    *)
(* and NonInterferenceChecker (extensions/ifc.py), which keeps every label *)
(* read.  The planner asks the engine about each action before it looks at *)
(* labels; the engine's verdict is any verdict here.                       *)
(***************************************************************************)
EXTENDS Integers, Sequences

CONSTANT FlowPlans   \* the plans that callers submit

Lattice == {"PUBLIC", "INTERNAL", "SECRET"}
Labels == Lattice \cup {"", "other"}     \* no label, and one outside the lattice

\* An action, by the labels of resources_read and of resources_write.
FlowAction == [reads : SUBSET Labels, writes : SUBSET Labels]

ASSUME InformationFlowAssumption == FlowPlans \subseteq Seq(FlowAction)

VARIABLES
  plan,      \* the plan that both check
  planner,   \* verify_plan: actions permitted, taint, and how it goes on
  checker    \* check_plan: actions checked, read_labels_so_far, and how it goes on

flowVars == <<plan, planner, checker>>

-----------------------------------------------------------------------------
FlowInit ==
  /\ plan \in FlowPlans
  /\ planner = [done |-> 0, taint |-> "PUBLIC", status |-> "running"]
  /\ checker = [done |-> 0, seen |-> {}, status |-> "running"]

\* label_rank: whatever is not SECRET or INTERNAL ranks with PUBLIC.
LabelRank(label) == CASE label = "SECRET" -> 2 [] label = "INTERNAL" -> 1 [] OTHER -> 0

\* Mutant: the label read last replaces the taint.
HighestLabelLast(current, labels) ==
  IF labels = {} THEN {current}
  ELSE {l \in labels : \A k \in labels : LabelRank(k) <= LabelRank(l)}

\* highest_label, where a label of the same rank does not replace the current.
HighestLabel(current, labels) ==
  LET higher == {l \in labels : LabelRank(l) > LabelRank(current)} IN
  IF higher = {} THEN {current}
  ELSE {l \in higher : \A k \in higher : LabelRank(k) <= LabelRank(l)}

LabelDominates(taint, target) == LabelRank(taint) > LabelRank(target)

\* The engine refuses the next action: the plan ends there.
PlannerDenied ==
  /\ planner.status = "running"
  /\ planner.done < Len(plan)
  /\ planner' = [planner EXCEPT !.status = "denied"]
  /\ UNCHANGED <<plan, checker>>

\* Mutant: a write is compared with the labels read before the action.
AdvanceEarly ==
  LET action == plan[planner.done + 1] IN
  /\ planner.status = "running"
  /\ planner.done < Len(plan)
  /\ \E taint \in HighestLabel(planner.taint, action.reads \ {""}) :
       planner' =
         IF \E w \in action.writes \ {""} : LabelDominates(planner.taint, w)
         THEN [planner EXCEPT !.status = "downward"]
         ELSE [planner EXCEPT !.done = @ + 1, !.taint = taint]
  /\ UNCHANGED <<plan, checker>>

\* advance: the reads of an action count before its writes; resources without a
\* label do not count.
Advance ==
  LET action == plan[planner.done + 1] IN
  /\ planner.status = "running"
  /\ planner.done < Len(plan)
  /\ \E taint \in HighestLabel(planner.taint, action.reads \ {""}) :
       planner' =
         IF \E w \in action.writes \ {""} : LabelDominates(taint, w)
         THEN [planner EXCEPT !.status = "downward"]
         ELSE [planner EXCEPT !.done = @ + 1, !.taint = taint]
  /\ UNCHANGED <<plan, checker>>

\* SecurityLattice.default(): a label that it does not name flows to itself.
FlowsTo(label) ==
  CASE label = ""         -> {""} \cup Lattice
    [] label = "PUBLIC"   -> Lattice
    [] label = "INTERNAL" -> {"INTERNAL", "SECRET"}
    [] OTHER              -> {label}

\* Mutant: every action starts with no label read.
CheckActionAlone ==
  LET action == plan[checker.done + 1]
      seen == action.reads
  IN
  /\ checker.status = "running"
  /\ checker.done < Len(plan)
  /\ checker' =
       IF \E w \in action.writes, r \in seen : w \notin FlowsTo(r)
       THEN [checker EXCEPT !.seen = seen, !.status = "raised"]
       ELSE [checker EXCEPT !.seen = seen, !.done = @ + 1]
  /\ UNCHANGED <<plan, planner>>

\* check_action: the set of labels read is updated before the writes are checked.
CheckAction ==
  LET action == plan[checker.done + 1]
      seen == checker.seen \cup action.reads
  IN
  /\ checker.status = "running"
  /\ checker.done < Len(plan)
  /\ checker' =
       IF \E w \in action.writes, r \in seen : w \notin FlowsTo(r)
       THEN [checker EXCEPT !.seen = seen, !.status = "raised"]
       ELSE [checker EXCEPT !.seen = seen, !.done = @ + 1]
  /\ UNCHANGED <<plan, planner>>

FlowNext == PlannerDenied \/ Advance \/ CheckAction

FlowSpec == FlowInit /\ [][FlowNext]_flowVars

-----------------------------------------------------------------------------
(* Properties *)

\* The labels read by the first n actions.
ReadBy(n) == UNION {plan[i].reads : i \in 1 .. n}

\* The checkers are at an action of the plan, the planner's taint is a label, and
\* the checker's labels are all those that were read.
FlowTypeOK ==
  /\ plan \in Seq(FlowAction)
  /\ planner \in [done : 0 .. Len(plan), taint : Labels,
                  status : {"running", "denied", "downward"}]
  /\ checker \in [done : 0 .. Len(plan), seen : SUBSET Labels, status : {"running", "raised"}]
  /\ checker.seen = ReadBy(IF checker.status = "raised" THEN checker.done + 1 ELSE checker.done)

\* What the actions up to the j-th read flows into what the j-th writes.
Flows(j) == ReadBy(j) \X plan[j].writes

Downward(r, w) == r \in Lattice /\ w \in Lattice /\ LabelRank(r) > LabelRank(w)

\* The planner reports a flow only where there is one: the taint is the label of
\* something that the plan has read.
DownwardIsReal ==
  planner.status = "downward" =>
    \E f \in Flows(planner.done + 1) : LabelRank(f[1]) > LabelRank(f[2])

\* Neither checker lets information flow downward: in the actions it accepted,
\* nothing read by an action is written by it or by a later one to a lower label;
\* nor does the planner refuse a plan without such a flow.
NoDownwardFlow ==
  /\ \A j \in 1 .. planner.done \cup 1 .. checker.done :
       \A f \in Flows(j) : ~Downward(f[1], f[2])
  /\ DownwardIsReal

\* The checker is the stricter of the two, for labels outside the lattice as well:
\* it does not get past an action at which the planner finds a flow.
CheckerIsStricter == planner.status = "downward" => checker.done <= planner.done

\* The taint never falls, whatever a plan reads: verify_plan's comment lists it as
\* proven by Kani, up to its unwinding bound.
TaintNeverFalls == [][LabelRank(planner'.taint) >= LabelRank(planner.taint)]_flowVars
=============================================================================
