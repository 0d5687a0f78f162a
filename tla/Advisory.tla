------------------------------ MODULE Advisory ------------------------------
(***************************************************************************)
(* The scores beside the verdict: the detection of manipulative arguments  *)
(* (extensions/detection.py) and the compass (extensions/compass.py).  An  *)
(* argument is what it matches: keyword phrases and structural patterns,   *)
(* each with its weight; it grows while it is written, and the tester is   *)
(* asked again about each text.  A world is its five counters, and moves   *)
(* are made while the compass permits them.                                *)
(***************************************************************************)
EXTENDS Integers, FiniteSetsExt

CONSTANTS
  Signals,      \* the signals an argument may match
  Thresholds,   \* the thresholds of detect(), in percent
  MaxCount      \* bound of the model: the counters of a world

Signal == [layer : {2, 3}, label : STRING, weight : 0 .. 100]

ASSUME AdvisoryAssumption ==
  /\ Signals \subseteq Signal
  /\ Thresholds \subseteq 1 .. 100
  /\ MaxCount \in Nat

Answers == {"none", "raises", "no violation", "violation"}   \* "none": there is no tester

World == [violations : 0 .. MaxCount, agreements : 0 .. MaxCount, coercion : 0 .. MaxCount,
          ambiguities : 0 .. MaxCount, sovereignty : 0 .. MaxCount]

VARIABLES
  argument,   \* the signals that an argument matches; it is not blank
  listener,   \* the threshold, and what the tester answers to this argument, or if it raises
  world, origin, total   \* the world, the first one, and twice the scores added up

adviceVars == <<argument, listener, world, origin, total>>

-----------------------------------------------------------------------------
(* detect *)

Heaviest(layer, signals) == Max({0} \cup {s.weight : s \in {x \in signals : x.layer = layer}})

\* Mutant: the patterns take precedence over the keywords.
SignalScoreLayered(signals) ==
  LET heaviest == IF Heaviest(2, signals) > 0 THEN Heaviest(2, signals) ELSE Heaviest(3, signals)
  IN  Min({100, heaviest + Min({15, 5 * Cardinality(signals)})})

\* The heavier layer, and 5 percent for each signal, up to 15.
SignalScore(signals) ==
  Min({100, Max({Heaviest(2, signals), Heaviest(3, signals)})
            + Min({15, 5 * Cardinality(signals)})})

\* The tester outweighs the signals if it finds a violation, else it does not count.
Score(signals, tester) == IF tester = "violation" THEN 100 ELSE SignalScore(signals)

\* recommendation: from clean to high risk.
Risk(signals, by) ==
  LET score == Score(signals, by.tester) IN
  IF score < by.threshold THEN 0
  ELSE IF score >= 90 \/ by.tester = "violation" THEN 3
  ELSE IF score >= 70 THEN 2 ELSE 1

-----------------------------------------------------------------------------
(* compass.score *)

Vetoed(before, after) == after.sovereignty > before.sovereignty

\* Mutant: a change for the worse does not count.
CompassScoreLenient(before, after) ==
  LET gain(x) == Max({0, x}) IN
  4 * gain(before.violations - after.violations) + 3 * gain(before.coercion - after.coercion)
  + 2 * gain(after.agreements - before.agreements)
  + 2 * gain(before.ambiguities - after.ambiguities)
  + 6 * (before.sovereignty - after.sovereignty)

\* Twice the score, which makes it an integer.
CompassScore(before, after) ==
  4 * (before.violations - after.violations) + 3 * (before.coercion - after.coercion)
  + 2 * (after.agreements - before.agreements)
  + 2 * (before.ambiguities - after.ambiguities)
  + 6 * (before.sovereignty - after.sovereignty)

-----------------------------------------------------------------------------
AdviceInit ==
  /\ argument = {}
  /\ listener \in [threshold : Thresholds, tester : Answers]
  /\ world \in World
  /\ origin = world
  /\ total = 0

\* The tester is asked about the longer text, and may change its answer.
Argue(signal, answer) ==
  /\ argument' = argument \cup {signal}
  /\ listener' = [listener EXCEPT !.tester = answer]
  /\ UNCHANGED <<world, origin, total>>

\* Whatever its score, a move is permitted unless it is vetoed.
Move(after) ==
  /\ ~Vetoed(world, after)
  /\ world' = after
  /\ total' = total + CompassScore(world, after)
  /\ UNCHANGED <<argument, listener, origin>>

AdviceNext ==
  \/ \E s \in Signals, answer \in Answers : Argue(s, answer)
  \/ \E w \in World : Move(w)

AdviceSpec == AdviceInit /\ [][AdviceNext]_adviceVars

-----------------------------------------------------------------------------
(* Properties *)

\* Arguments are made of signals, and worlds of counters.
AdviceTypeOK ==
  /\ argument \subseteq Signals
  /\ listener \in [threshold : Thresholds, tester : Answers]
  /\ world \in World /\ origin \in World /\ total \in Int

Untested(by) == [by EXCEPT !.tester = "none"]

\* Nothing that is added to an argument takes it below what its signals alone were
\* worth, whatever the layers, the threshold and the answers of the tester.  Its
\* score and its risk never fall but where the tester takes back that there is a
\* violation; and a tester that raises leaves the signals to count as they do
\* without one.
SignalsRaiseRisk ==
  [][/\ Risk(argument', listener') >= Risk(argument, Untested(listener))
     /\ Score(argument', listener'.tester) >= SignalScore(argument)
     /\ (listener.tester = "violation" => listener'.tester = "violation") =>
          /\ Risk(argument', listener') >= Risk(argument, listener)
          /\ Score(argument', listener'.tester) >= Score(argument, listener.tester)
     /\ listener'.tester = "raises" =>
          Risk(argument', listener') = Risk(argument', Untested(listener'))
    ]_adviceVars

\* The compass is a potential: over any sequence of permitted moves the scores add
\* up to that of the first world against the last, so that no round of moves is
\* toward the goal at each step; and no such sequence adds machine sovereignty.
CompassIsPotential ==
  /\ total = CompassScore(origin, world)
  /\ ~Vetoed(origin, world)
=============================================================================
