---------------------------- MODULE RuleSynthesis ----------------------------
(***************************************************************************)
(* SynthesisEngine (extensions/synthesis.py): rules are admitted or        *)
(* rejected by their impact on the hard invariants, and run_induction asks *)
(* user hooks for more.  A hook gets the engine's own list, not a copy: it *)
(* may change the list as it likes, past admit_rule, and keep it to do so  *)
(* later; and it may return that very list, which the loop then appends to *)
(* while it goes through it.  A rule is taken as it was when it was        *)
(* admitted, hooks return lists, and no hook starts another induction.     *)
(***************************************************************************)
EXTENDS Integers, Sequences, FiniteSets, SequencesExt

CONSTANTS
  Rules,       \* ProposedRule
  Violating,   \* the rules with an impact that is False for a hard invariant
  Hooks,       \* the number of induction hooks
  MaxRules     \* bound of the model: admitted and rejected rules

ASSUME RuleSynthesisAssumption ==
  Violating \subseteq Rules /\ Hooks \in Nat /\ MaxRules \in Nat

VARIABLES
  admitted,    \* _admitted_rules
  rejected,    \* _rejected_rules
  induction,   \* the run of run_induction, if any
  lent,        \* a hook was given the list of admitted rules, and may have kept it
  written      \* history: the rules that such borrowers put in the list themselves

loanVars == <<lent, written>>
ruleVars == <<admitted, rejected, induction, loanVars>>

-----------------------------------------------------------------------------
\* hook is the hook that is called or whose candidates are looked at; the rest is
\* history: byHooks, the positions that hooks filled while they ran; and, when the
\* run began or a hook last changed what was in the list, before, the number of
\* rules in it, and lost, the number of new rules so far.
NotInducing == [stage |-> "none"]

RulesInit ==
  /\ admitted = <<>> /\ rejected = <<>> /\ induction = NotInducing
  /\ lent = FALSE /\ written = {}

\* is_admissible: an invariant that the rule says nothing about does not count.
IsAdmissible(rule) == rule \notin Violating

Room == Len(admitted) + Len(rejected) < MaxRules

AdmitRule(rule) ==
  /\ Room
  /\ IF IsAdmissible(rule)
     THEN admitted' = Append(admitted, rule) /\ UNCHANGED rejected
     ELSE rejected' = Append(rejected, rule) /\ UNCHANGED admitted

\* admit_rule, by a client or, in an induction, by the hook that runs.
Admit(rule) ==
  /\ induction.stage \in {"none", "hook"}
  /\ AdmitRule(rule)
  /\ induction' = IF induction.stage = "hook" /\ IsAdmissible(rule)
                  THEN [induction EXCEPT !.byHooks = @ \cup {Len(admitted) + 1}]
                  ELSE induction
  /\ UNCHANGED loanVars

\* A borrower of the list appends to it, or removes, replaces or reorders what is
\* in it: a hook that runs, or, outside of an induction, whoever kept the list.
BorrowerWrites(list) ==
  /\ induction.stage = "hook" \/ (induction.stage = "none" /\ lent)
  /\ Len(list) + Len(rejected) <= MaxRules
  /\ admitted' = list
  /\ written' = written \cup (ToSet(list) \ ToSet(admitted))
  /\ induction' =
       IF induction.stage = "none" THEN induction
       ELSE IF IsPrefix(admitted, list)
       THEN [induction EXCEPT !.byHooks = @ \cup (Len(admitted) + 1 .. Len(list))]
       ELSE [induction EXCEPT !.byHooks = {}, !.before = Len(list),
                              !.lost = Len(induction.newRules)]
  /\ UNCHANGED <<rejected, lent>>

\* The next hook is called, or the run ends.
Go(run) == [run EXCEPT !.stage = IF run.hook < Hooks THEN "hook" ELSE "done",
                       !.hook = run.hook + 1, !.candidates = <<>>, !.live = FALSE, !.next = 1]

RunInduction ==
  /\ induction.stage = "none"
  /\ induction' = Go([stage |-> "hook", hook |-> 0, candidates |-> <<>>, live |-> FALSE,
                      next |-> 1, newRules |-> <<>>, byHooks |-> {},
                      before |-> Len(admitted), lost |-> 0])
  /\ lent' = (lent \/ Hooks > 0)
  /\ UNCHANGED <<admitted, rejected, written>>

\* The hook returns a list of its own, or the engine's list of admitted rules.
HookReturnsRules(candidates, live) ==
  /\ induction.stage = "hook"
  /\ live => candidates = <<>>
  /\ induction' = [induction EXCEPT !.stage = "candidates", !.candidates = candidates,
                                    !.live = live]
  /\ UNCHANGED <<admitted, rejected, loanVars>>

\* What the hook admitted stays, and what the run found is not reported.
InductionHookRaises ==
  /\ induction.stage = "hook"
  /\ induction' = NotInducing
  /\ UNCHANGED <<admitted, rejected, loanVars>>

Candidates == IF induction.live THEN admitted ELSE induction.candidates

\* Mutant: what is not admissible is new all the same.
TakeCandidateUnchecked ==
  LET rule == Candidates[induction.next] IN
  /\ induction.stage = "candidates"
  /\ induction.next \in DOMAIN Candidates
  /\ Room
  /\ induction' = [induction EXCEPT !.next = @ + 1, !.newRules = Append(@, rule)]
  /\ admitted' = IF IsAdmissible(rule) THEN Append(admitted, rule) ELSE admitted
  /\ UNCHANGED <<rejected, loanVars>>

\* Candidates that are not admissible are dropped, and not listed as rejected.
TakeCandidate ==
  LET rule == Candidates[induction.next] IN
  /\ induction.stage = "candidates"
  /\ induction.next \in DOMAIN Candidates
  /\ Room
  /\ IF IsAdmissible(rule)
     THEN /\ admitted' = Append(admitted, rule)
          /\ induction' = [induction EXCEPT !.next = @ + 1, !.newRules = Append(@, rule)]
     ELSE /\ induction' = [induction EXCEPT !.next = @ + 1]
          /\ UNCHANGED admitted
  /\ UNCHANGED <<rejected, loanVars>>

CandidatesTaken ==
  /\ induction.stage = "candidates"
  /\ induction.next \notin DOMAIN Candidates
  /\ induction' = Go(induction)
  /\ UNCHANGED <<admitted, rejected, loanVars>>

InductionReturns ==
  /\ induction.stage = "done"
  /\ induction' = NotInducing
  /\ UNCHANGED <<admitted, rejected, loanVars>>

RulesNext ==
  \/ \E rule \in Rules : Admit(rule)
  \/ \E n \in 0 .. MaxRules : \E list \in [1 .. n -> Rules] : BorrowerWrites(list)
  \/ RunInduction
  \/ \E n \in 0 .. 2 : \E candidates \in [1 .. n -> Rules] : HookReturnsRules(candidates, FALSE)
  \/ HookReturnsRules(<<>>, TRUE)
  \/ InductionHookRaises
  \/ TakeCandidate
  \/ CandidatesTaken
  \/ InductionReturns

RulesSpec == RulesInit /\ [][RulesNext]_ruleVars

-----------------------------------------------------------------------------
(* Properties *)

\* Rules are on the lists, and a run is at one of its hooks.
RulesTypeOK ==
  /\ admitted \in Seq(Rules) /\ rejected \in Seq(Violating)
  /\ induction # NotInducing =>
       /\ induction.stage \in {"hook", "candidates", "done"}
       /\ induction.hook \in 1 .. Hooks + 1
       /\ induction.newRules \in Seq(Rules)
       /\ induction.byHooks \subseteq DOMAIN admitted
  /\ lent \in BOOLEAN /\ written \subseteq Rules

\* A rule that violates a hard invariant is on the list only if a borrower of the
\* list put it there, and no induction reports one, though hooks may return the
\* engine's own list.  What an induction reports is what was appended since it
\* began, or since a hook last changed what was in the list, in order, but for the
\* rules that hooks appended themselves.
InductionAccounted ==
  /\ \A i \in DOMAIN admitted : admitted[i] \in Violating => admitted[i] \in written
  /\ induction # NotInducing =>
       LET reported == {i \in DOMAIN admitted : i > induction.before} \ induction.byHooks
           place(i) == induction.lost + Cardinality({j \in reported : j <= i})
           newRules == induction.newRules
       IN  /\ \A n \in DOMAIN newRules : newRules[n] \notin Violating
           /\ \A i \in reported : place(i) \in DOMAIN newRules /\ newRules[place(i)] = admitted[i]
           /\ \A n \in DOMAIN newRules : n > induction.lost => \E i \in reported : place(i) = n
=============================================================================
