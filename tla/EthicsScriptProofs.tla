------------------------- MODULE EthicsScriptProofs -------------------------
(***************************************************************************)
(* Proofs about the ethics script, about the compass and about detection,  *)
(* for any humans, machines, resources and actions, any bounds of the      *)
(* counters and any signals.                                               *)
(***************************************************************************)
EXTENDS EthicsScript, FiniteSetTheorems, WellFoundedInduction, TLAPS

-----------------------------------------------------------------------------
(* The script: what a machine may use, an owner of it owns *)

\* The counters of a world are numbers.
LEMMA WorldCounters ==
  ASSUME NEW w \in World
  PROVE  /\ w.violations \in Int /\ w.agreements \in Int /\ w.coercion \in Int
         /\ w.ambiguities \in Int /\ w.sovereignty \in Int
BY AdvisoryAssumption DEF World

\* A score is a number.
LEMMA ScoreTyped ==
  ASSUME NEW w \in World, NEW v \in World
  PROVE  CompassScore(w, v) \in Int
BY WorldCounters DEF CompassScore

\* The owner of a machine is among all that were, and delegations have an owner's
\* property behind them.
DelegationsRooted ==
  /\ ScriptTypeOK
  /\ owners \in [ScriptMachines -> SUBSET ScriptHumans]
  /\ \A m \in ScriptMachines : ownerOf[m] # Ownerless => ownerOf[m] \in owners[m]
  /\ \A m \in ScriptMachines : \A r \in delegated[m] : \E h \in owners[m] : r \in property[h]

\* The resources of an action have a human's property behind them, and it is
\* neither a machine's nor a human's act upon another human, nor for the worse.
UsesRooted(a) ==
  /\ \A r \in a.uses :
       \E h \in (IF a.actor \in ScriptHumans THEN {a.actor} ELSE owners[a.actor]) :
         r \in property[h]
  /\ a.affects \cap ScriptHumans \subseteq {a.actor}
  /\ a.worlds # <<>> => /\ a.worlds[2].sovereignty <= a.worlds[1].sovereignty
                        /\ CompassScore(a.worlds[1], a.worlds[2]) >= 0

ScriptInvariant == DelegationsRooted /\ \A a \in permissible : UsesRooted(a)

\* Nothing is owned, delegated or checked.
LEMMA ScriptStarts == ScriptInit => ScriptInvariant
BY DEF ScriptInit, ScriptInvariant, DelegationsRooted, ScriptTypeOK

\* What is rooted stays so while property and the history of owners grow.
LEMMA UsesStayRooted ==
  ASSUME DelegationsRooted, NEW a \in ScriptActions, UsesRooted(a),
         \A h \in ScriptHumans : property[h] \subseteq property'[h],
         \A m \in ScriptMachines : owners[m] \subseteq owners'[m]
  PROVE  UsesRooted(a)'
<1>1. a.actor \in ScriptHumans \cup ScriptMachines
  BY EthicsScriptAssumption DEF ScriptAction, Entities
<1>2. ASSUME NEW r \in a.uses
      PROVE  \E h \in (IF a.actor \in ScriptHumans THEN {a.actor} ELSE owners'[a.actor]) :
               r \in property'[h]
  <2>1. CASE a.actor \in ScriptHumans
    BY <2>1 DEF UsesRooted
  <2>2. CASE a.actor \notin ScriptHumans
    <3>1. PICK h \in owners[a.actor] : r \in property[h]
      BY <2>2 DEF UsesRooted
    <3>2. h \in ScriptHumans /\ h \in owners'[a.actor]
      BY <1>1, <2>2, <3>1 DEF DelegationsRooted
    <3> QED BY <2>2, <3>1, <3>2
  <2> QED BY <2>1, <2>2
<1> QED BY <1>2 DEF UsesRooted

\* An action that the check finds permissible is rooted.
LEMMA PermissibleIsRootedNow ==
  ASSUME DelegationsRooted, NEW a \in ScriptActions, IsPermissible(a), ~Worsens(a.worlds)
  PROVE  UsesRooted(a)
<1>1. a \in ScriptAction /\ a.actor \in ScriptHumans \cup ScriptMachines
  BY EthicsScriptAssumption DEF ScriptAction, Entities
<1>2. ASSUME NEW r \in a.uses
      PROVE  \E h \in (IF a.actor \in ScriptHumans THEN {a.actor} ELSE owners[a.actor]) :
               r \in property[h]
  <2>1. MayUse(a.actor, r)
    BY DEF IsPermissible
  <2> QED BY <1>1, <2>1 DEF MayUse, DelegationsRooted
<1>3. a.affects \cap ScriptHumans \subseteq {a.actor}
  BY DEF IsPermissible, AffectsNoOther
<1>4. ASSUME a.worlds # <<>>
      PROVE  /\ a.worlds[2].sovereignty <= a.worlds[1].sovereignty
             /\ CompassScore(a.worlds[1], a.worlds[2]) >= 0
  <2>1. a.worlds \in World \X World
    BY <1>1, <1>4 DEF ScriptAction
  <2>2. a.worlds[1] \in World /\ a.worlds[2] \in World
    BY <2>1
  <2>3. /\ ~(a.worlds[2].sovereignty > a.worlds[1].sovereignty)
        /\ ~(CompassScore(a.worlds[1], a.worlds[2]) < 0)
    BY <1>4 DEF Worsens, Vetoed
  <2> QED BY <2>2, <2>3, WorldCounters, ScoreTyped
<1> QED BY <1>2, <1>3, <1>4 DEF UsesRooted

\* Every step keeps delegations and permissible actions rooted.
LEMMA ScriptStep ==
  ASSUME ScriptInvariant, [ScriptNext]_scriptVars
  PROVE  ScriptInvariant'
<1> USE DEF ScriptInvariant
<1>1. ASSUME NEW h \in ScriptHumans, NEW rs \in SUBSET ScriptResources, RegisterHuman(h, rs)
      PROVE  ScriptInvariant'
  <2>1. \A g \in ScriptHumans : property[g] \subseteq property'[g]
    BY <1>1 DEF RegisterHuman, DelegationsRooted, ScriptTypeOK
  <2>2. DelegationsRooted'
    <3>1. property' \in [ScriptHumans -> SUBSET ScriptResources]
      BY <1>1 DEF RegisterHuman, DelegationsRooted, ScriptTypeOK
    <3>2. ASSUME NEW m \in ScriptMachines, NEW r \in delegated[m]
          PROVE  \E g \in owners[m] : r \in property'[g]
      BY <2>1 DEF DelegationsRooted
    <3> QED BY <1>1, <3>1, <3>2 DEF RegisterHuman, DelegationsRooted, ScriptTypeOK
  <2>3. \A a \in permissible : UsesRooted(a)'
    BY <1>1, <2>1, UsesStayRooted DEF RegisterHuman, DelegationsRooted, ScriptTypeOK
  <2> QED BY <1>1, <2>2, <2>3 DEF RegisterHuman
<1>2. ASSUME NEW m \in ScriptMachines, NEW h \in ScriptHumans, AssignMachineOwner(m, h)
      PROVE  ScriptInvariant'
  <2>1. \A n \in ScriptMachines : owners[n] \subseteq owners'[n]
    BY <1>2 DEF AssignMachineOwner, DelegationsRooted
  <2>2. DelegationsRooted'
    <3>1. /\ ownerOf' \in [ScriptMachines -> ScriptHumans \cup {Ownerless}]
          /\ owners' \in [ScriptMachines -> SUBSET ScriptHumans]
      BY <1>2 DEF AssignMachineOwner, DelegationsRooted, ScriptTypeOK
    <3>2. \A n \in ScriptMachines : ownerOf'[n] # Ownerless => ownerOf'[n] \in owners'[n]
      BY <1>2 DEF AssignMachineOwner, DelegationsRooted, ScriptTypeOK
    <3>3. ASSUME NEW n \in ScriptMachines, NEW r \in delegated[n]
          PROVE  \E g \in owners'[n] : r \in property[g]
      BY <2>1 DEF DelegationsRooted
    <3> QED BY <1>2, <3>1, <3>2, <3>3 DEF AssignMachineOwner, DelegationsRooted, ScriptTypeOK
  <2>3. \A a \in permissible : UsesRooted(a)'
    BY <1>2, <2>1, UsesStayRooted DEF AssignMachineOwner, DelegationsRooted, ScriptTypeOK
  <2> QED BY <1>2, <2>2, <2>3 DEF AssignMachineOwner
<1>3. ASSUME NEW h \in ScriptHumans, NEW m \in ScriptMachines, NEW r \in ScriptResources,
             DelegateResource(h, m, r)
      PROVE  ScriptInvariant'
  <2>1. h \in owners[m] /\ r \in property[h]
    BY <1>3, EthicsScriptAssumption DEF DelegateResource, DelegationsRooted
  <2>2. DelegationsRooted'
    <3>1. delegated' \in [ScriptMachines -> SUBSET ScriptResources]
      BY <1>3 DEF DelegateResource, DelegationsRooted, ScriptTypeOK
    <3>2. ASSUME NEW n \in ScriptMachines, NEW q \in delegated'[n]
          PROVE  \E g \in owners[n] : q \in property[g]
      <4>1. q \in delegated[n] \/ (n = m /\ q = r)
        BY <1>3, <3>2 DEF DelegateResource, DelegationsRooted, ScriptTypeOK
      <4> QED BY <2>1, <4>1 DEF DelegationsRooted
    <3> QED BY <1>3, <3>1, <3>2 DEF DelegateResource, DelegationsRooted, ScriptTypeOK
  <2>3. \A a \in permissible : UsesRooted(a)'
    BY <1>3 DEF DelegateResource, UsesRooted
  <2> QED BY <1>3, <2>2, <2>3 DEF DelegateResource
<1>4. ASSUME NEW a \in ScriptActions, CheckScriptAction(a)
      PROVE  ScriptInvariant'
  <2>1. permissible' \subseteq {a} /\ \A b \in permissible' : UsesRooted(b)
    BY <1>4, PermissibleIsRootedNow DEF CheckScriptAction
  <2>2. DelegationsRooted'
    BY <1>4, <2>1 DEF CheckScriptAction, DelegationsRooted, ScriptTypeOK
  <2>3. \A b \in permissible' : UsesRooted(b)'
    BY <1>4, <2>1 DEF CheckScriptAction, UsesRooted
  <2> QED BY <2>2, <2>3
<1>5. CASE UNCHANGED scriptVars
  BY <1>5 DEF scriptVars, DelegationsRooted, ScriptTypeOK, UsesRooted
<1> QED BY <1>1, <1>2, <1>3, <1>4, <1>5 DEF ScriptNext

\* Resources and owners are of their kinds, for any humans, machines and resources.
THEOREM ScriptTyped == ScriptSpec => []ScriptTypeOK
<1>1. ScriptInvariant => ScriptTypeOK
  BY DEF ScriptInvariant, DelegationsRooted
<1> QED BY ScriptStarts, ScriptStep, <1>1, PTL DEF ScriptSpec

\* However owners of machines change: what a machine may use, a human who was its
\* owner owns, and a permissible action has nothing else, for any set of actions.
THEOREM PermissionsRooted == ScriptSpec => []PermissibleIsRooted
<1>1. ScriptInvariant => PermissibleIsRooted
  BY DEF ScriptInvariant, DelegationsRooted, UsesRooted, PermissibleIsRooted
<1> QED BY ScriptStarts, ScriptStep, <1>1, PTL DEF ScriptSpec

-----------------------------------------------------------------------------
(* The compass: scores along a path add up to that of its ends *)

\* The score of two moves is that of the move from the first world to the last.
LEMMA ScoresAdd ==
  ASSUME NEW u \in World, NEW v \in World, NEW w \in World
  PROVE  CompassScore(u, v) + CompassScore(v, w) = CompassScore(u, w)
BY WorldCounters DEF CompassScore

CompassInvariant == AdviceTypeOK /\ CompassIsPotential

\* No move has been made.
LEMMA AdviceStarts == AdviceInit => CompassInvariant
<1> SUFFICES ASSUME AdviceInit PROVE CompassInvariant
  OBVIOUS
<1>1. /\ world \in World /\ origin = world /\ total = 0 /\ argument = {}
      /\ listener \in [threshold : Thresholds, tester : Answers]
  BY DEF AdviceInit
<1>2. CompassScore(world, world) = 0 /\ ~Vetoed(world, world)
  BY <1>1, WorldCounters DEF CompassScore, Vetoed
<1> QED BY <1>1, <1>2 DEF CompassInvariant, AdviceTypeOK, CompassIsPotential

\* A permitted move adds the score from the last world to the next one.
LEMMA AdviceStep ==
  ASSUME CompassInvariant, [AdviceNext]_adviceVars
  PROVE  CompassInvariant'
<1> USE DEF CompassInvariant, AdviceTypeOK
<1>1. ASSUME NEW s \in Signals, NEW answer \in Answers, Argue(s, answer)
      PROVE  CompassInvariant'
  <2>1. listener' \in [threshold : Thresholds, tester : Answers]
    BY <1>1 DEF Argue
  <2> QED BY <1>1, <2>1 DEF Argue, CompassIsPotential
<1>2. ASSUME NEW after \in World, Move(after)
      PROVE  CompassInvariant'
  <2>1. /\ world' = after /\ total' = total + CompassScore(world, after)
        /\ argument' = argument /\ listener' = listener /\ origin' = origin
        /\ ~Vetoed(world, after)
    BY <1>2 DEF Move
  <2>2. total + CompassScore(world, after) = CompassScore(origin, after)
    BY ScoresAdd DEF CompassIsPotential
  <2>3. CompassScore(origin, after) \in Int
    BY ScoreTyped
  <2>4. ~Vetoed(origin, after)
    BY <2>1, WorldCounters DEF Vetoed, CompassIsPotential
  <2> QED BY <2>1, <2>2, <2>3, <2>4 DEF CompassIsPotential
<1>3. CASE UNCHANGED adviceVars
  BY <1>3 DEF adviceVars, CompassIsPotential
<1> QED BY <1>1, <1>2, <1>3 DEF AdviceNext

\* Arguments stay within the signals, and the worlds that the compass compares are worlds.
THEOREM AdviceTyped == AdviceSpec => []AdviceTypeOK
<1>1. CompassInvariant => AdviceTypeOK
  BY DEF CompassInvariant
<1> QED BY AdviceStarts, AdviceStep, <1>1, PTL DEF AdviceSpec

\* For counters of any size and moves without number: the scores of a sequence of
\* permitted moves add up to that of its first world against its last, so a round of
\* moves gains nothing, and none of them adds machine sovereignty.
THEOREM CompassHasPotential == AdviceSpec => []CompassIsPotential
<1>1. CompassInvariant => CompassIsPotential
  BY DEF CompassInvariant
<1> QED BY AdviceStarts, AdviceStep, <1>1, PTL DEF AdviceSpec
-----------------------------------------------------------------------------
(* The detector: nothing that is added to an argument lowers its risk *)

\* Max of percentages, as there is a greatest one: its range up to 100 is smallest.
LEMMA GreatestPercent ==
  ASSUME NEW T, T \subseteq 0 .. 100, T # {}
  PROVE  Max(T) \in T /\ \A y \in T : y <= Max(T)
<1> DEFINE ranges == {x .. 100 : x \in T}
<1>1. ranges \subseteq FiniteSubsetsOf(Nat)
  <2>1. \A x \in T : IsFiniteSet(x .. 100) /\ x .. 100 \subseteq Nat
    BY FS_Interval
  <2> QED BY <2>1 DEF FiniteSubsetsOf
<1>2. ranges # {}
  OBVIOUS
<1>3. \E u \in ranges : \A v \in ranges : ~(<<v, u>> \in StrictSubsetOrdering(Nat))
  <2> HIDE DEF ranges
  <2> QED BY <1>1, <1>2, FS_StrictSubsetOrderingWellFounded, WFMin
<1>4. PICK x \in T : \A y \in T : ~(<<y .. 100, x .. 100>> \in StrictSubsetOrdering(Nat))
  BY <1>3
<1>5. ASSUME NEW y \in T, y > x
      PROVE  FALSE
  <2>1. y .. 100 \subseteq x .. 100 /\ x \in x .. 100 /\ x \notin y .. 100
    BY <1>5
  <2>2. x .. 100 \subseteq Nat /\ y .. 100 \subseteq Nat
    OBVIOUS
  <2> QED BY <1>4, <2>1, <2>2 DEF StrictSubsetOrdering
<1>6. \E m \in T : \A y \in T : m >= y
  BY <1>5
<1>7. Max(T) \in T /\ \A y \in T : Max(T) >= y
  BY <1>6, Zenon DEF Max
<1> QED BY <1>7

\* min() and max() of two numbers.
LEMMA MinMaxOfTwo ==
  ASSUME NEW a \in Int, NEW b \in Int
  PROVE  /\ Min({a, b}) = IF a <= b THEN a ELSE b
         /\ Max({a, b}) = IF a >= b THEN a ELSE b
<1>1. \E x \in {a, b} : \A y \in {a, b} : x =< y
  OBVIOUS
<1>2. Min({a, b}) \in {a, b} /\ \A y \in {a, b} : Min({a, b}) =< y
  BY <1>1, Zenon DEF Min
<1>3. \E x \in {a, b} : \A y \in {a, b} : x >= y
  OBVIOUS
<1>4. Max({a, b}) \in {a, b} /\ \A y \in {a, b} : Max({a, b}) >= y
  BY <1>3, Zenon DEF Max
<1> QED BY <1>2, <1>4

\* The heaviest signal of a layer is found, and no lighter when signals are added.
LEMMA HeaviestGrows ==
  ASSUME NEW A, NEW B, A \subseteq B, B \subseteq Signal, NEW layer
  PROVE  /\ Heaviest(layer, A) \in 0 .. 100 /\ Heaviest(layer, B) \in 0 .. 100
         /\ Heaviest(layer, A) <= Heaviest(layer, B)
<1> DEFINE weights(S) == {0} \cup {s.weight : s \in {x \in S : x.layer = layer}}
<1>1. weights(A) \subseteq weights(B) /\ weights(B) \subseteq 0 .. 100 /\ weights(A) # {}
  BY DEF Signal
<1>2. Heaviest(layer, A) = Max(weights(A)) /\ Heaviest(layer, B) = Max(weights(B))
  BY Zenon DEF Heaviest
<1> HIDE DEF weights
<1>3. /\ Max(weights(A)) \in weights(A)
      /\ Max(weights(B)) \in weights(B) /\ \A y \in weights(B) : y <= Max(weights(B))
  BY <1>1, GreatestPercent
<1> QED BY <1>1, <1>2, <1>3

\* The score of the signals: a percentage, and no lower when signals are added.
LEMMA SignalScoreGrows ==
  ASSUME NEW A, NEW B, A \subseteq B, B \subseteq Signal,
         Cardinality(A) \in Nat, Cardinality(B) \in Nat, Cardinality(A) <= Cardinality(B)
  PROVE  /\ SignalScore(A) \in 0 .. 100 /\ SignalScore(B) \in 0 .. 100
         /\ SignalScore(A) <= SignalScore(B)
<1>1. PICK a2, a3, b2, b3 \in 0 .. 100 :
        /\ a2 = Heaviest(2, A) /\ a3 = Heaviest(3, A)
        /\ b2 = Heaviest(2, B) /\ b3 = Heaviest(3, B)
        /\ a2 <= b2 /\ a3 <= b3
  BY HeaviestGrows
<1>2. PICK m, n \in Nat : m = Cardinality(A) /\ n = Cardinality(B) /\ m <= n
  OBVIOUS
<1>3. PICK ha, hb \in 0 .. 100 : ha = Max({a2, a3}) /\ hb = Max({b2, b3}) /\ ha <= hb
  <2>1. a2 \in Int /\ a3 \in Int /\ b2 \in Int /\ b3 \in Int
    OBVIOUS
  <2>2. /\ Max({a2, a3}) = IF a2 >= a3 THEN a2 ELSE a3
        /\ Max({b2, b3}) = IF b2 >= b3 THEN b2 ELSE b3
    BY <2>1, MinMaxOfTwo, Zenon
  <2> QED BY <1>1, <2>2
<1>4. PICK ea, eb \in 0 .. 15 : ea = Min({15, 5 * m}) /\ eb = Min({15, 5 * n}) /\ ea <= eb
  <2>1. PICK j, k \in Nat : j = 5 * m /\ k = 5 * n /\ j <= k
    BY <1>2
  <2>2. /\ Min({15, j}) = IF 15 <= j THEN 15 ELSE j
        /\ Min({15, k}) = IF 15 <= k THEN 15 ELSE k
    BY MinMaxOfTwo
  <2> QED BY <2>1, <2>2
<1>5. PICK sa, sb \in Nat : sa = ha + ea /\ sb = hb + eb /\ sa <= sb
  BY <1>3, <1>4
<1>6. /\ Min({100, sa}) = IF 100 <= sa THEN 100 ELSE sa
      /\ Min({100, sb}) = IF 100 <= sb THEN 100 ELSE sb
  BY MinMaxOfTwo
<1>7. SignalScore(A) = Min({100, sa}) /\ SignalScore(B) = Min({100, sb})
  BY <1>1, <1>2, <1>3, <1>4, <1>5 DEF SignalScore
<1> QED BY <1>5, <1>6, <1>7

\* An argument has finitely many signals, as they are added one by one, and the
\* listener has a threshold above nothing.
ArgumentInv ==
  /\ argument \subseteq Signals /\ IsFiniteSet(argument)
  /\ listener \in [threshold : Thresholds, tester : Answers]

\* A step leaves the argument as it is, or adds a signal; it changes no threshold.
LEMMA ArgumentGrows ==
  ASSUME ArgumentInv, [AdviceNext]_adviceVars
  PROVE  /\ ArgumentInv' /\ argument \subseteq argument'
         /\ listener'.threshold = listener.threshold
         /\ Cardinality(argument) \in Nat /\ Cardinality(argument') \in Nat
         /\ Cardinality(argument) <= Cardinality(argument')
<1>1. Cardinality(argument) \in Nat
  BY FS_CardinalityType DEF ArgumentInv
<1>2. CASE \E s \in Signals, answer \in Answers : Argue(s, answer)
  <2>0. PICK s \in Signals, answer \in Answers : Argue(s, answer)
    BY <1>2
  <2>1. argument' = argument \cup {s}
    BY <2>0 DEF Argue
  <2>7. /\ listener' \in [threshold : Thresholds, tester : Answers]
        /\ listener'.threshold = listener.threshold
    BY <2>0 DEF Argue, ArgumentInv
  <2>2. /\ IsFiniteSet(argument \cup {s})
        /\ Cardinality(argument \cup {s}) =
             IF s \in argument THEN Cardinality(argument) ELSE Cardinality(argument) + 1
    BY FS_AddElement DEF ArgumentInv
  <2>3. PICK n \in Nat : n = Cardinality(argument)
    BY <1>1
  <2>4. PICK next : next = argument \cup {s}
    OBVIOUS
  <2>5. Cardinality(next) \in Nat /\ n <= Cardinality(next) /\ IsFiniteSet(next)
    BY <2>2, <2>3, <2>4
  <2>6. argument \subseteq next /\ next \subseteq Signals
    BY <2>4 DEF ArgumentInv
  <2> QED BY <1>1, <2>1, <2>3, <2>4, <2>5, <2>6, <2>7 DEF ArgumentInv
<1>3. CASE UNCHANGED <<argument, listener>>
  <2>1. PICK n \in Nat : n = Cardinality(argument)
    BY <1>1
  <2>2. Cardinality(argument') = n /\ n <= n
    BY <1>3, <2>1
  <2> QED BY <1>3, <2>1, <2>2 DEF ArgumentInv
<1> QED BY <1>2, <1>3 DEF AdviceNext, Move, adviceVars

LEMMA Percent == 100 \in 0 .. 100 /\ 100 <= 100
OBVIOUS

\* The risk by the score, the threshold and whether the tester found a violation.
RiskOf(score, threshold, found) ==
  IF score < threshold THEN 0
  ELSE IF score >= 90 \/ found = TRUE THEN 3
  ELSE IF score >= 70 THEN 2 ELSE 1

\* Higher scores are of higher risk, and a violation found does not lower it.
LEMMA RiskOrder ==
  ASSUME NEW a \in 0 .. 100, NEW b \in 0 .. 100, a <= b, NEW threshold \in 1 .. 100,
         NEW before \in BOOLEAN, NEW after \in BOOLEAN, before = TRUE => after = TRUE
  PROVE  RiskOf(a, threshold, before) <= RiskOf(b, threshold, after)
<1>1. CASE after = TRUE
  BY <1>1 DEF RiskOf
<1>2. CASE after # TRUE
  BY <1>2 DEF RiskOf
<1> QED BY <1>1, <1>2

\* The risk grows with the score, unless the tester takes a violation back.
LEMMA RiskGrows ==
  ASSUME NEW A, NEW B, SignalScore(A) \in 0 .. 100, SignalScore(B) \in 0 .. 100,
         SignalScore(A) <= SignalScore(B), NEW by, NEW to,
         by.threshold \in 1 .. 100, to.threshold = by.threshold,
         by.tester = "violation" => to.tester = "violation"
  PROVE  /\ Score(A, by.tester) \in Int /\ Score(B, to.tester) \in Int
         /\ Score(A, by.tester) <= Score(B, to.tester)
         /\ Risk(A, by) \in Int /\ Risk(B, to) \in Int
         /\ Risk(A, by) <= Risk(B, to)
<1>1. PICK a, b \in 0 .. 100 : a = SignalScore(A) /\ b = SignalScore(B) /\ a <= b
  OBVIOUS
<1>2. PICK s, t : s = by.tester /\ t = to.tester
  OBVIOUS
<1>3. /\ Score(A, s) = IF s = "violation" THEN 100 ELSE a
      /\ Score(B, t) = IF t = "violation" THEN 100 ELSE b
  BY <1>1, Zenon DEF Score
<1>4. PICK sa, sb \in 0 .. 100 : sa = Score(A, s) /\ sb = Score(B, t) /\ sa <= sb
  <2>1. CASE s = "violation"
    <3>1. Score(A, s) = 100 /\ Score(B, t) = 100
      BY <1>2, <1>3, <2>1, Zenon
    <3> QED BY <3>1, Percent, Zenon
  <2>2. CASE s # "violation" /\ t = "violation"
    <3>1. Score(A, s) = a /\ Score(B, t) = 100
      BY <1>3, <2>2, Zenon
    <3> QED BY <3>1, Percent
  <2>3. CASE s # "violation" /\ t # "violation"
    <3>1. Score(A, s) = a /\ Score(B, t) = b
      BY <1>3, <2>3, Zenon
    <3> QED BY <1>1, <3>1, Zenon
  <2> QED BY <2>1, <2>2, <2>3
<1>5. PICK th \in 1 .. 100 : th = by.threshold /\ th = to.threshold
  OBVIOUS
<1>6. PICK before, after \in BOOLEAN : before = (s = "violation") /\ after = (t = "violation")
  OBVIOUS
<1>7. Risk(A, by) = RiskOf(sa, th, before) /\ Risk(B, to) = RiskOf(sb, th, after)
  BY <1>2, <1>4, <1>5, <1>6, Zenon DEF Risk, RiskOf
<1>8. RiskOf(sa, th, before) <= RiskOf(sb, th, after)
  BY <1>2, <1>4, <1>6, RiskOrder
<1>9. RiskOf(sa, th, before) \in Int /\ RiskOf(sb, th, after) \in Int
  BY DEF RiskOf
<1> QED BY <1>2, <1>4, <1>7, <1>8, <1>9

\* A tester that raises is no tester.
LEMMA RaisingIsNone ==
  ASSUME NEW B, NEW by \in [threshold : Thresholds, tester : Answers], by.tester = "raises"
  PROVE  Risk(B, by) = Risk(B, Untested(by))
<1>1. PICK plain : plain = Untested(by)
  OBVIOUS
<1>2. plain.threshold = by.threshold /\ plain.tester = "none"
  BY <1>1 DEF Untested
<1>3. Score(B, "raises") = Score(B, "none") /\ "raises" # "violation" /\ "none" # "violation"
  BY DEF Score
<1>4. Risk(B, by) = Risk(B, plain)
  BY <1>2, <1>3, Zenon DEF Risk
<1> QED BY <1>1, <1>4

\* Whatever the signals and their weights, however long an argument gets and
\* whatever the tester answers to each text: a signal more takes neither the score
\* nor the risk below what the signals were worth, they fall only where the tester
\* takes a violation back, and one that raises leaves the signals to count.
THEOREM RiskOnlyRises == AdviceSpec => SignalsRaiseRisk
<1>1. AdviceInit => ArgumentInv
  BY FS_EmptySet DEF AdviceInit, ArgumentInv
<1>2. ArgumentInv /\ [AdviceNext]_adviceVars => ArgumentInv'
  BY ArgumentGrows
<1> DEFINE Kept ==
      /\ Risk(argument', listener') >= Risk(argument, Untested(listener))
      /\ Score(argument', listener'.tester) >= SignalScore(argument)
      /\ (listener.tester = "violation" => listener'.tester = "violation") =>
           /\ Risk(argument', listener') >= Risk(argument, listener)
           /\ Score(argument', listener'.tester) >= Score(argument, listener.tester)
      /\ listener'.tester = "raises" =>
           Risk(argument', listener') = Risk(argument', Untested(listener'))
<1>3. ArgumentInv /\ [AdviceNext]_adviceVars => [Kept]_adviceVars
  <2> SUFFICES ASSUME ArgumentInv, [AdviceNext]_adviceVars
               PROVE  Kept
    OBVIOUS
  <2>1. /\ argument \subseteq argument' /\ argument' \subseteq Signal
        /\ listener \in [threshold : Thresholds, tester : Answers]
        /\ listener' \in [threshold : Thresholds, tester : Answers]
        /\ listener'.threshold = listener.threshold
    BY ArgumentGrows, AdvisoryAssumption DEF ArgumentInv
  <2>2. /\ SignalScore(argument) \in 0 .. 100 /\ SignalScore(argument') \in 0 .. 100
        /\ SignalScore(argument) <= SignalScore(argument')
    BY <2>1, ArgumentGrows, SignalScoreGrows
  <2>3. listener.threshold \in 1 .. 100
    BY <2>1, AdvisoryAssumption
  <2>4. /\ Untested(listener).threshold = listener.threshold
        /\ Untested(listener).tester = "none" /\ "none" # "violation"
    BY <2>1 DEF Untested
  <2>5. /\ Risk(argument', listener') >= Risk(argument, Untested(listener))
        /\ Score(argument', listener'.tester) >= Score(argument, "none")
    <3>1. PICK plain : plain = Untested(listener)
      OBVIOUS
    <3>2. /\ plain.threshold \in 1 .. 100 /\ listener'.threshold = plain.threshold
          /\ plain.tester = "none" /\ plain.tester # "violation"
      BY <2>1, <2>3, <2>4, <3>1
    <3>3. /\ Score(argument, plain.tester) \in Int /\ Score(argument', listener'.tester) \in Int
          /\ Score(argument, plain.tester) <= Score(argument', listener'.tester)
          /\ Risk(argument, plain) \in Int /\ Risk(argument', listener') \in Int
          /\ Risk(argument, plain) <= Risk(argument', listener')
      BY <2>2, <3>2, RiskGrows
    <3> QED BY <3>1, <3>2, <3>3
  <2>6. Score(argument, "none") = SignalScore(argument)
    BY DEF Score
  <2>7. ASSUME listener.tester = "violation" => listener'.tester = "violation"
        PROVE  /\ Risk(argument', listener') >= Risk(argument, listener)
               /\ Score(argument', listener'.tester) >= Score(argument, listener.tester)
    <3>1. /\ Score(argument, listener.tester) \in Int /\ Score(argument', listener'.tester) \in Int
          /\ Score(argument, listener.tester) <= Score(argument', listener'.tester)
          /\ Risk(argument, listener) \in Int /\ Risk(argument', listener') \in Int
          /\ Risk(argument, listener) <= Risk(argument', listener')
      BY <2>1, <2>2, <2>3, <2>7, RiskGrows
    <3> QED BY <3>1
  <2>8. listener'.tester = "raises" =>
          Risk(argument', listener') = Risk(argument', Untested(listener'))
    BY <2>1, RaisingIsNone
  <2> QED BY <2>5, <2>6, <2>7, <2>8
<1> QED BY <1>1, <1>2, <1>3, PTL DEF AdviceSpec, SignalsRaiseRisk
=============================================================================
