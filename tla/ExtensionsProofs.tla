-------------------------- MODULE ExtensionsProofs --------------------------
(***************************************************************************)
(* Proofs about the conflict queue, the resolver and rule synthesis, for   *)
(* any number of arbiters and entries, any claims, rules and hooks:        *)
(* arbitration by a stale position removes the entry that was meant or a   *)
(* later one, every entry leaves by one arbitration, resolution does not   *)
(* depend on the order of its arguments and has no cycle, and induction    *)
(* reports what it admits.  Then about the two checkers of information     *)
(* flow, for every set of plans: the planner's taint bounds whatever was   *)
(* read and never falls, so that neither checker accepts a downward flow,  *)
(* the planner refuses only where there is a flow, and the checker is      *)
(* never the laxer of the two.                                             *)
(***************************************************************************)
EXTENDS ConflictQueue, RuleSynthesis, InformationFlow, SequenceTheorems, FiniteSetTheorems, TLAPS

-----------------------------------------------------------------------------
(* resolve *)

\* Within one scope, the winner is not clearly less confident, and clearly more so
\* unless it wins by being read-only.
LEMMA BeatsWithinScope ==
  ASSUME NEW a \in Contender, NEW b \in Contender, Beats(a, b), a.scope = b.scope
  PROVE  /\ a.confidence >= b.confidence - 10
         /\ a.confidence > b.confidence + 10 \/ (~a.write /\ b.write)
<1>1. a.confidence \in Int /\ b.confidence \in Int /\ a.scope \in Int
  BY DEF Contender
<1>2. ~(a.scope > b.scope)
  BY <1>1
<1>3. \/ a.confidence > b.confidence + Tolerated
      \/ Abs(a.confidence - b.confidence) <= Tolerated /\ ~a.write /\ b.write
  BY <1>2, Zenon DEF Beats
<1>4. Abs(a.confidence - b.confidence) <= Tolerated => a.confidence >= b.confidence - 10
  BY <1>1 DEF Abs, Tolerated
<1>5. a.confidence > b.confidence + Tolerated
        => /\ a.confidence > b.confidence + 10
           /\ a.confidence >= b.confidence - 10
  BY <1>1 DEF Tolerated
<1> QED BY <1>3, <1>4, <1>5, Zenon

\* Of two claims, at most one beats the other.
LEMMA BeatsAsymmetric ==
  ASSUME NEW a \in Contender, NEW b \in Contender, Beats(a, b)
  PROVE  ~Beats(b, a)
<1>0. a.confidence \in Int /\ b.confidence \in Int
  BY DEF Contender
<1>1. CASE a.scope # b.scope
  <2>1. a.scope > b.scope /\ a.scope \in Nat /\ b.scope \in Nat
    BY <1>1 DEF Contender, Beats
  <2>2. ~(b.scope > a.scope) /\ b.scope # a.scope
    BY <2>1
  <2> QED BY <2>2 DEF Beats
<1>2. ASSUME a.scope = b.scope, Beats(b, a)
      PROVE  FALSE
  <2> DEFINE clear(x, y) == x.confidence > y.confidence + 10
             weak(x, y) == x.confidence >= y.confidence - 10
  <2>1. weak(a, b) /\ (clear(a, b) \/ (~a.write /\ b.write))
    BY <1>2, BeatsWithinScope
  <2>2. weak(b, a) /\ (clear(b, a) \/ (~b.write /\ a.write))
    BY <1>2, BeatsWithinScope
  <2>3. ~(clear(a, b) /\ weak(b, a)) /\ ~(clear(b, a) /\ weak(a, b))
    BY <1>0
  <2> HIDE DEF clear, weak
  <2> QED BY <2>1, <2>2, <2>3, Zenon
<1> QED BY <1>1, <1>2

\* At most one win of a cycle would be by read-only, and the two others would
\* differ by more than twice the tolerance.
LEMMA BeatsAcyclic ==
  ASSUME NEW a \in Contender, NEW b \in Contender, NEW c \in Contender,
         Beats(a, b), Beats(b, c)
  PROVE  ~Beats(c, a)
<1>0. a.confidence \in Int /\ b.confidence \in Int /\ c.confidence \in Int
  BY DEF Contender
<1>1. CASE ~(a.scope = b.scope /\ b.scope = c.scope)
  <2>1. /\ a.scope \in Int /\ b.scope \in Int /\ c.scope \in Int
        /\ a.scope >= b.scope /\ b.scope >= c.scope
    BY DEF Contender, Beats
  <2>2. c.scope < a.scope
    BY <1>1, <2>1
  <2>3. ~(c.scope > a.scope) /\ c.scope # a.scope
    BY <2>1, <2>2
  <2> QED BY <2>3 DEF Beats
<1>2. ASSUME a.scope = b.scope, b.scope = c.scope, Beats(c, a)
      PROVE  FALSE
  <2> DEFINE clear(x, y) == x.confidence > y.confidence + 10
             weak(x, y) == x.confidence >= y.confidence - 10
  <2>1. weak(a, b) /\ (clear(a, b) \/ (~a.write /\ b.write))
    BY <1>2, BeatsWithinScope
  <2>2. weak(b, c) /\ (clear(b, c) \/ (~b.write /\ c.write))
    BY <1>2, BeatsWithinScope
  <2>3. weak(c, a) /\ (clear(c, a) \/ (~c.write /\ a.write))
    BY <1>2, BeatsWithinScope
  <2>4. ~(clear(a, b) /\ clear(b, c) /\ weak(c, a))
    BY <1>0
  <2>5. ~(clear(b, c) /\ clear(c, a) /\ weak(a, b))
    BY <1>0
  <2>6. ~(clear(c, a) /\ clear(a, b) /\ weak(b, c))
    BY <1>0
  <2> HIDE DEF clear, weak
  <2> QED BY <2>1, <2>2, <2>3, <2>4, <2>5, <2>6, Zenon
<1> QED BY <1>1, <1>2

\* The first of the arguments wins where it beats the second, and the second where
\* it beats the first.
LEMMA ResolveSymmetric ==
  ASSUME NEW a \in Contender, NEW b \in Contender
  PROVE  /\ Resolve(a, b) = "a" <=> Beats(a, b)
         /\ Resolve(a, b) = "a" <=> Resolve(b, a) = "b"
<1>1. Beats(a, b) => ~Beats(b, a)
  BY BeatsAsymmetric
<1> QED BY <1>1 DEF Resolve

\* Nothing is beaten in turn among any three claims.
LEMMA RivalsAcyclic ==
  ASSUME rivals \in [1 .. 3 -> Contender]
  PROVE  ResolutionAcyclic
<1> SUFFICES ASSUME NEW i \in 1 .. 3, NEW j \in 1 .. 3, NEW k \in 1 .. 3
             PROVE  /\ Resolve(rivals[i], rivals[j]) = "a" <=> Resolve(rivals[j], rivals[i]) = "b"
                    /\ ~(/\ Resolve(rivals[i], rivals[j]) = "a"
                         /\ Resolve(rivals[j], rivals[k]) = "a"
                         /\ Resolve(rivals[k], rivals[i]) = "a")
  BY DEF ResolutionAcyclic
<1>1. rivals[i] \in Contender /\ rivals[j] \in Contender /\ rivals[k] \in Contender
  OBVIOUS
<1> QED BY <1>1, ResolveSymmetric, BeatsAcyclic

-----------------------------------------------------------------------------
(* The list *)

\* list.pop leaves a list of one entry less: those before the position stay, and
\* those after it move by one.
LEMMA WithoutOne ==
  ASSUME NEW S, NEW queue \in Seq(S), NEW at \in DOMAIN queue
  PROVE  /\ Without(queue, at) \in Seq(S)
         /\ Len(Without(queue, at)) = Len(queue) - 1
         /\ \A k \in 1 .. Len(queue) - 1 :
              Without(queue, at)[k] = IF k < at THEN queue[k] ELSE queue[k + 1]
<1> DEFINE rest == Without(queue, at)
<1>1. at \in 1 .. Len(queue) /\ Len(queue) \in Nat
  OBVIOUS
<1>2. Len(queue) - 1 \in Nat
  BY <1>1
<1>3. rest = [k \in 1 .. Len(queue) - 1 |-> IF k < at THEN queue[k] ELSE queue[k + 1]]
  BY DEF Without
<1>4. \A k \in 1 .. Len(queue) - 1 : rest[k] \in S
  BY <1>1, <1>3
<1>5. rest \in [1 .. Len(queue) - 1 -> S]
  BY <1>3, <1>4
<1>6. rest \in Seq(S) /\ Len(rest) = Len(queue) - 1
  BY <1>2, <1>5
<1> QED BY <1>3, <1>6

-----------------------------------------------------------------------------
(* The inductive invariant *)

\* No position of the list holds an entry older than the one that an arbiter means
\* by it, since entries only move to the front.
PositionsAge ==
  \A x \in Arbiters :
    /\ decided[x] # NothingDecided => decided[x].entry \in 1 .. added
    /\ decided[x].position > 0 /\ decided[x].position \in DOMAIN pending
         => decided[x].entry <= pending[decided[x].position]

QueueInvariant ==
  /\ QueueTypeOK /\ PositionsAge /\ ArbitrationRemovesMeantOrLater
  /\ Len(pending) <= added

\* The list is empty, and nothing was removed.
LEMMA QueueStarts == QueueInit => QueueInvariant
<1> SUFFICES ASSUME QueueInit PROVE QueueInvariant
  OBVIOUS
<1> USE DEF QueueInit, NothingDecided
<1>1. QueueTypeOK
  <2>1. added \in 0 .. MaxAdded
    BY ConflictQueueAssumption
  <2>2. rivals \in [1 .. 3 -> Contenders]
    OBVIOUS
  <2>3. decided \in [Arbiters -> [position : -added .. added, entry : 0 .. added]]
    OBVIOUS
  <2>4. pending \in Seq(1 .. added) /\ arbitrated = {}
    OBVIOUS
  <2> QED BY <2>1, <2>2, <2>3, <2>4 DEF QueueTypeOK
<1>2. PositionsAge
  <2>1. \A x \in Arbiters : decided[x] = NothingDecided /\ decided[x].position = 0
    OBVIOUS
  <2>2. ~(0 > 0)
    OBVIOUS
  <2>3. \A x \in Arbiters : ~(decided[x].position > 0)
    BY <2>1, <2>2, Zenon
  <2> QED BY <2>1, <2>3 DEF PositionsAge
<1>3. ArbitrationRemovesMeantOrLater
  <2>1. DOMAIN pending = {} /\ arbitrated = {} /\ 1 .. added = {}
    OBVIOUS
  <2> QED BY <2>1 DEF ArbitrationRemovesMeantOrLater
<1> QED BY <1>1, <1>2, <1>3 DEF QueueInvariant

\* A new entry is the newest.
LEMMA AddPreserves ==
  ASSUME QueueInvariant, Add
  PROVE  QueueInvariant'
<1>1. PICK n \in Nat : n = added /\ n < MaxAdded /\ n + 1 \in 0 .. MaxAdded
  BY ConflictQueueAssumption DEF QueueInvariant, QueueTypeOK, Add
<1>2. PICK queue \in Seq(1 .. n) : queue = pending /\ Len(queue) <= n
  BY <1>1 DEF QueueInvariant, QueueTypeOK
<1>3. /\ pending' = Append(queue, n + 1) /\ added' = n + 1
      /\ decided' = decided /\ arbitrated' = arbitrated /\ rivals' = rivals
  BY <1>1, <1>2 DEF Add
<1>4. /\ queue \in Seq(1 .. n + 1) /\ Len(queue) \in Nat
      /\ Append(queue, n + 1) \in Seq(1 .. n + 1)
  <2>1. 1 .. n \subseteq 1 .. n + 1
    OBVIOUS
  <2>2. queue \in [1 .. Len(queue) -> 1 .. n] /\ Len(queue) \in Nat
    OBVIOUS
  <2>3. queue \in [1 .. Len(queue) -> 1 .. n + 1]
    BY <2>1, <2>2
  <2>4. queue \in Seq(1 .. n + 1)
    BY <2>2, <2>3
  <2>5. n + 1 \in 1 .. n + 1
    OBVIOUS
  <2> QED BY <2>2, <2>4, <2>5
<1>5. /\ DOMAIN pending' = DOMAIN queue \cup {Len(queue) + 1}
      /\ \A k \in DOMAIN queue : pending'[k] = queue[k] /\ queue[k] \in 1 .. n
      /\ pending'[Len(queue) + 1] = n + 1
      /\ DOMAIN queue = 1 .. Len(queue)
  BY <1>3, <1>4
<1>6. QueueTypeOK'
  <2>1. decided \in [Arbiters -> [position : -n .. n, entry : 0 .. n]]
    BY <1>1 DEF QueueInvariant, QueueTypeOK
  <2>2. decided \in [Arbiters -> [position : -(n + 1) .. n + 1, entry : 0 .. n + 1]]
    BY <2>1
  <2>3. arbitrated \subseteq [meant : 1 .. n, removed : 1 .. n, fromEnd : BOOLEAN]
    BY <1>1 DEF QueueInvariant, QueueTypeOK
  <2>4. arbitrated \subseteq [meant : 1 .. n + 1, removed : 1 .. n + 1, fromEnd : BOOLEAN]
    BY <2>3
  <2>5. rivals \in [1 .. 3 -> Contenders]
    BY DEF QueueInvariant, QueueTypeOK
  <2> QED BY <1>1, <1>3, <1>4, <2>2, <2>4, <2>5 DEF QueueTypeOK
<1>7. PositionsAge'
  <2> SUFFICES ASSUME NEW x \in Arbiters
               PROVE  /\ decided[x] # NothingDecided => decided[x].entry \in 1 .. n + 1
                      /\ decided[x].position > 0 /\ decided[x].position \in DOMAIN pending'
                           => decided[x].entry <= pending'[decided[x].position]
    BY <1>3 DEF PositionsAge, NothingDecided
  <2>1. /\ decided[x] # NothingDecided => decided[x].entry \in 1 .. n
        /\ decided[x].position > 0 /\ decided[x].position \in DOMAIN queue
             => decided[x].entry <= queue[decided[x].position]
    BY <1>1, <1>2 DEF QueueInvariant, PositionsAge
  <2>2. decided[x].entry \in 0 .. n
    BY <1>1 DEF QueueInvariant, QueueTypeOK
  <2>3. 1 .. n \subseteq 1 .. n + 1
    OBVIOUS
  <2>4. decided[x].position = Len(queue) + 1 => decided[x].entry <= pending'[decided[x].position]
    BY <1>5, <2>2
  <2> QED BY <1>5, <2>1, <2>3, <2>4
<1>8. ArbitrationRemovesMeantOrLater'
  <2>1. \A x \in arbitrated : x.meant <= x.removed \/ x.fromEnd
    BY DEF QueueInvariant, ArbitrationRemovesMeantOrLater
  <2>2. ASSUME NEW i \in DOMAIN pending', NEW j \in DOMAIN pending', i < j
        PROVE  pending'[i] < pending'[j]
    <3>1. \A k, l \in DOMAIN queue : k < l => queue[k] < queue[l]
      BY <1>2 DEF QueueInvariant, ArbitrationRemovesMeantOrLater
    <3>2. i \in DOMAIN queue
      BY <1>4, <1>5, <2>2
    <3>3. CASE j \in DOMAIN queue
      BY <1>5, <2>2, <3>1, <3>2, <3>3
    <3>4. CASE j = Len(queue) + 1
      BY <1>5, <3>2, <3>4
    <3> QED BY <1>5, <3>3, <3>4
  <2>3. {x.removed : x \in arbitrated} = (1 .. n) \ {queue[i] : i \in DOMAIN queue}
    BY <1>1, <1>2 DEF QueueInvariant, ArbitrationRemovesMeantOrLater
  <2>4. {pending'[i] : i \in DOMAIN pending'} = {queue[i] : i \in DOMAIN queue} \cup {n + 1}
    BY <1>5
  <2>5. 1 .. n + 1 = (1 .. n) \cup {n + 1} /\ n + 1 \notin 1 .. n
    OBVIOUS
  <2>6. {x.removed : x \in arbitrated} = (1 .. n + 1) \ {pending'[i] : i \in DOMAIN pending'}
    BY <2>3, <2>4, <2>5
  <2> QED BY <1>3, <2>1, <2>2, <2>6 DEF ArbitrationRemovesMeantOrLater
<1>9. Len(pending') <= added'
  BY <1>2, <1>3, <1>4
<1> QED BY <1>6, <1>7, <1>8, <1>9 DEF QueueInvariant

\* An arbiter means the entry that is at its position.
LEMMA DecideOnPreserves ==
  ASSUME QueueInvariant, NEW x \in Arbiters, NEW position \in -MaxAdded .. MaxAdded \ {0},
         DecideOn(x, position)
  PROVE  QueueInvariant'
<1>1. PICK n \in Nat : n = added
  BY DEF QueueInvariant, QueueTypeOK
<1>2. PICK queue \in Seq(1 .. n) : queue = pending /\ Len(queue) <= n
  BY <1>1 DEF QueueInvariant, QueueTypeOK
<1> DEFINE d == [position |-> position, entry |-> queue[At(queue, position)]]
<1>3. /\ pending' = pending /\ added' = added /\ arbitrated' = arbitrated /\ rivals' = rivals
      /\ decided' = [decided EXCEPT ![x] = d] /\ At(queue, position) \in DOMAIN queue
  BY <1>2 DEF DecideOn
<1>4. position \in Int
  BY ConflictQueueAssumption
<1>5. DOMAIN queue = 1 .. Len(queue) /\ Len(queue) \in Nat
  OBVIOUS
<1>6. position \in -n .. n /\ (position > 0 => At(queue, position) = position)
  BY <1>2, <1>3, <1>4, <1>5 DEF At
<1>7. queue[At(queue, position)] \in 1 .. n
  BY <1>3
<1> HIDE DEF d
<1>8. d \in [position : -n .. n, entry : 0 .. n] /\ d.entry \in 1 .. n
  BY <1>6, <1>7 DEF d
<1>9. d.position > 0 => d.entry <= queue[d.position]
  BY <1>6, <1>7 DEF d
<1>10. decided \in [Arbiters -> [position : -n .. n, entry : 0 .. n]]
  BY <1>1 DEF QueueInvariant, QueueTypeOK
<1>11. decided' \in [Arbiters -> [position : -n .. n, entry : 0 .. n]]
  BY <1>3, <1>8, <1>10
<1>12. QueueTypeOK'
  BY <1>1, <1>3, <1>11 DEF QueueInvariant, QueueTypeOK
<1>13. PositionsAge'
  <2> SUFFICES ASSUME NEW y \in Arbiters
               PROVE  /\ decided'[y] # NothingDecided => decided'[y].entry \in 1 .. n
                      /\ decided'[y].position > 0 /\ decided'[y].position \in DOMAIN queue
                           => decided'[y].entry <= queue[decided'[y].position]
    BY <1>1, <1>2, <1>3 DEF PositionsAge, NothingDecided
  <2>1. CASE y = x
    BY <1>3, <1>8, <1>9, <1>10, <2>1
  <2>2. CASE y # x
    BY <1>1, <1>2, <1>3, <1>10, <2>2 DEF QueueInvariant, PositionsAge
  <2> QED BY <2>1, <2>2
<1>14. ArbitrationRemovesMeantOrLater' /\ (Len(pending) <= added)'
  BY <1>3 DEF QueueInvariant, ArbitrationRemovesMeantOrLater
<1> QED BY <1>12, <1>13, <1>14 DEF QueueInvariant

\* An arbitration that fails leaves the list alone.
LEMMA ArbitrateFailsPreserves ==
  ASSUME QueueInvariant, NEW x \in Arbiters, ArbitrateFails(x)
  PROVE  QueueInvariant'
<1>1. /\ pending' = pending /\ added' = added /\ arbitrated' = arbitrated /\ rivals' = rivals
      /\ decided' = [decided EXCEPT ![x] = NothingDecided]
  BY DEF ArbitrateFails
<1>2. PICK n \in Nat : n = added /\ decided \in [Arbiters -> [position : -n .. n, entry : 0 .. n]]
  BY DEF QueueInvariant, QueueTypeOK
<1>3. decided' \in [Arbiters -> [position : -n .. n, entry : 0 .. n]]
  BY <1>1, <1>2 DEF NothingDecided
<1>4. QueueTypeOK'
  BY <1>1, <1>2, <1>3 DEF QueueInvariant, QueueTypeOK
<1>5. PositionsAge'
  <2> SUFFICES ASSUME NEW y \in Arbiters
               PROVE  /\ decided'[y] # NothingDecided => decided'[y].entry \in 1 .. added
                      /\ decided'[y].position > 0 /\ decided'[y].position \in DOMAIN pending
                           => decided'[y].entry <= pending[decided'[y].position]
    BY <1>1 DEF PositionsAge, NothingDecided
  <2>1. CASE y = x
    <3>1. decided'[y] = NothingDecided /\ decided'[y].position = 0
      BY <1>1, <1>2, <2>1 DEF NothingDecided
    <3> QED BY <3>1
  <2>2. CASE y # x
    BY <1>1, <1>2, <2>2 DEF QueueInvariant, PositionsAge
  <2> QED BY <2>1, <2>2
<1>6. ArbitrationRemovesMeantOrLater' /\ (Len(pending) <= added)'
  BY <1>1 DEF QueueInvariant, ArbitrationRemovesMeantOrLater
<1> QED BY <1>4, <1>5, <1>6 DEF QueueInvariant

\* What is removed is what was meant, or what has taken its place.
LEMMA ArbitratePreserves ==
  ASSUME QueueInvariant, NEW x \in Arbiters, Arbitrate(x)
  PROVE  QueueInvariant'
<1>1. PICK n \in Nat : n = added /\ decided \in [Arbiters -> [position : -n .. n, entry : 0 .. n]]
  BY DEF QueueInvariant, QueueTypeOK
<1>2. PICK queue \in Seq(1 .. n) : queue = pending /\ Len(queue) <= n
  BY <1>1 DEF QueueInvariant, QueueTypeOK
<1>3. PICK d : d = decided[x]
  OBVIOUS
<1>4. PICK at : at = At(queue, d.position)
  OBVIOUS
<1> DEFINE rest == Without(queue, at)
           entry == [meant |-> d.entry, removed |-> queue[at], fromEnd |-> d.position < 0]
<1>5. /\ d # NothingDecided /\ at \in DOMAIN queue
      /\ pending' = rest /\ arbitrated' = arbitrated \cup {entry}
      /\ decided' = [decided EXCEPT ![x] = NothingDecided]
      /\ added' = added /\ rivals' = rivals
  BY <1>2, <1>3, <1>4 DEF Arbitrate
<1>6. /\ d \in [position : -n .. n, entry : 0 .. n] /\ d.entry \in 1 .. n
      /\ d.position > 0 /\ d.position \in DOMAIN queue => d.entry <= queue[d.position]
  BY <1>1, <1>2, <1>3, <1>5 DEF QueueInvariant, PositionsAge
<1>7. /\ rest \in Seq(1 .. n) /\ Len(rest) = Len(queue) - 1
      /\ \A k \in 1 .. Len(queue) - 1 :
           rest[k] = IF k < at THEN queue[k] ELSE queue[k + 1]
  BY <1>5, WithoutOne
<1>8. /\ DOMAIN queue = 1 .. Len(queue) /\ DOMAIN rest = 1 .. Len(queue) - 1
      /\ Len(queue) \in Nat /\ at \in Nat
      /\ \A k \in DOMAIN queue : queue[k] \in 1 .. n
  BY <1>5, <1>7
<1>9. /\ \A i, j \in DOMAIN queue : i < j => queue[i] < queue[j]
      /\ {y.removed : y \in arbitrated} = (1 .. n) \ {queue[i] : i \in DOMAIN queue}
      /\ \A y \in arbitrated : y.meant <= y.removed \/ y.fromEnd
  BY <1>1, <1>2 DEF QueueInvariant, ArbitrationRemovesMeantOrLater
<1>10. entry.meant <= entry.removed \/ entry.fromEnd
  <2>1. CASE d.position < 0
    BY <2>1
  <2>2. CASE ~(d.position < 0)
    <3>1. at = d.position
      BY <1>4, <2>2 DEF At
    <3> QED BY <1>5, <1>6, <1>8, <3>1
  <2> QED BY <2>1, <2>2
<1>11. entry \in [meant : 1 .. n, removed : 1 .. n, fromEnd : BOOLEAN]
  BY <1>5, <1>6, <1>8
<1> HIDE DEF rest, entry
<1>12. \A k \in DOMAIN rest :
         /\ k \in DOMAIN queue /\ k + 1 \in DOMAIN queue
         /\ k < at => rest[k] = queue[k]
         /\ ~(k < at) => rest[k] = queue[k + 1]
  <2>1. \A k \in 1 .. Len(queue) - 1 : k \in 1 .. Len(queue) /\ k + 1 \in 1 .. Len(queue)
    BY <1>8
  <2> QED BY <1>7, <1>8, <2>1
<1>13. QueueTypeOK'
  <2>1. decided' \in [Arbiters -> [position : -n .. n, entry : 0 .. n]]
    BY <1>1, <1>5 DEF NothingDecided
  <2> QED BY <1>1, <1>5, <1>7, <1>11, <2>1 DEF QueueInvariant, QueueTypeOK
<1>14. PositionsAge'
  <2> SUFFICES ASSUME NEW y \in Arbiters
               PROVE  /\ decided'[y] # NothingDecided => decided'[y].entry \in 1 .. n
                      /\ decided'[y].position > 0 /\ decided'[y].position \in DOMAIN rest
                           => decided'[y].entry <= rest[decided'[y].position]
    BY <1>1, <1>5 DEF PositionsAge, NothingDecided
  <2>1. CASE y = x
    <3>1. decided'[y] = NothingDecided /\ decided'[y].position = 0
      BY <1>1, <1>5, <2>1 DEF NothingDecided
    <3> QED BY <3>1
  <2>2. CASE y # x
    <3>1. decided'[y] = decided[y] /\ decided[y] \in [position : -n .. n, entry : 0 .. n]
      BY <1>1, <1>5, <2>2
    <3>2. /\ decided[y] # NothingDecided => decided[y].entry \in 1 .. n
          /\ decided[y].position > 0 /\ decided[y].position \in DOMAIN queue
               => decided[y].entry <= queue[decided[y].position]
      BY <1>1, <1>2 DEF QueueInvariant, PositionsAge
    <3>3. ASSUME NEW k \in DOMAIN rest
          PROVE  k \in DOMAIN queue /\ queue[k] <= rest[k]
      <4>1. k < k + 1
        BY <1>8
      <4>2. queue[k] < queue[k + 1]
        BY <1>9, <1>12, <4>1
      <4>3. queue[k] \in Int /\ queue[k + 1] \in Int
        BY <1>8, <1>12
      <4>4. queue[k] <= queue[k] /\ queue[k] <= queue[k + 1]
        BY <4>2, <4>3
      <4>5. rest[k] = queue[k] \/ rest[k] = queue[k + 1]
        BY <1>12, Zenon
      <4>6. k \in DOMAIN queue
        BY <1>12, Zenon
      <4> QED BY <4>4, <4>5, <4>6, Zenon
    <3>4. ASSUME decided[y].position > 0, decided[y].position \in DOMAIN rest
          PROVE  decided[y].entry <= rest[decided[y].position]
      <4>1. PICK k \in DOMAIN rest : k = decided[y].position
        BY <3>4
      <4>2. decided[y].entry <= queue[k] /\ queue[k] <= rest[k]
        BY <3>2, <3>3, <3>4, <4>1
      <4>3. decided[y].entry \in Int
        BY <1>1, <3>1
      <4>4. k \in DOMAIN queue /\ k + 1 \in DOMAIN queue
        BY <1>12, Zenon
      <4>5. queue[k] \in Int /\ queue[k + 1] \in Int
        BY <1>8, <4>4
      <4>6. rest[k] = queue[k] \/ rest[k] = queue[k + 1]
        BY <1>12, Zenon
      <4>7. rest[k] \in Int
        BY <4>5, <4>6, Zenon
      <4> QED BY <4>1, <4>2, <4>3, <4>5, <4>7
    <3> QED BY <3>1, <3>2, <3>4
  <2> QED BY <2>1, <2>2
<1>15. ArbitrationRemovesMeantOrLater'
  <2>1. \A y \in arbitrated' : y.meant <= y.removed \/ y.fromEnd
    BY <1>5, <1>9, <1>10
  <2>2. ASSUME NEW i \in DOMAIN rest, NEW j \in DOMAIN rest, i < j
        PROVE  rest[i] < rest[j]
    <3>1. PICK k \in DOMAIN queue :
            rest[i] = queue[k] /\ ((k = i /\ i < at) \/ (k = i + 1 /\ ~(i < at)))
      BY <1>12, Zenon
    <3>2. PICK l \in DOMAIN queue :
            rest[j] = queue[l] /\ ((l = j /\ j < at) \/ (l = j + 1 /\ ~(j < at)))
      BY <1>12, Zenon
    <3>3. k < l
      <4>1. i \in Int /\ j \in Int /\ at \in Int
        BY <1>8
      <4>2. CASE k = i /\ i < at
        BY <2>2, <3>2, <4>1, <4>2
      <4>3. CASE k = i + 1 /\ ~(i < at)
        <5>1. ~(j < at)
          BY <2>2, <4>1, <4>3
        <5>2. l = j + 1
          BY <3>2, <5>1, Zenon
        <5> QED BY <2>2, <4>1, <4>3, <5>2
      <4> QED BY <3>1, <4>2, <4>3, Zenon
    <3> QED BY <1>9, <3>1, <3>2, <3>3
  <2>3. {rest[i] : i \in DOMAIN rest} = {queue[i] : i \in DOMAIN queue} \ {queue[at]}
    <3>1. ASSUME NEW i \in DOMAIN rest
          PROVE  rest[i] \in {queue[k] : k \in DOMAIN queue} \ {queue[at]}
      <4>1. PICK k \in DOMAIN queue : rest[i] = queue[k] /\ (k < at \/ k > at)
        BY <1>8, <1>12
      <4>2. queue[k] < queue[at] \/ queue[at] < queue[k]
        BY <1>5, <1>9, <4>1
      <4>3. queue[k] \in Int /\ queue[at] \in Int
        BY <1>5, <1>8
      <4>4. queue[k] # queue[at]
        BY <4>2, <4>3
      <4> QED BY <4>1, <4>4
    <3>2. ASSUME NEW i \in DOMAIN queue, queue[i] # queue[at]
          PROVE  queue[i] \in {rest[k] : k \in DOMAIN rest}
      <4>1. CASE i < at
        <5>1. i \in DOMAIN rest
          BY <1>5, <1>8, <4>1
        <5> QED BY <1>12, <4>1, <5>1
      <4>2. CASE i > at
        <5>1. i - 1 \in DOMAIN rest /\ ~(i - 1 < at) /\ i - 1 + 1 = i
          BY <1>5, <1>8, <4>2
        <5>2. rest[i - 1] = queue[i]
          BY <1>12, <5>1
        <5> QED BY <5>1, <5>2
      <4> QED BY <1>8, <3>2, <4>1, <4>2
    <3> QED BY <3>1, <3>2
  <2>4. {y.removed : y \in arbitrated'} = {y.removed : y \in arbitrated} \cup {queue[at]}
    <3>1. entry.removed = queue[at]
      BY DEF entry
    <3> QED BY <1>5, <3>1
  <2>5. queue[at] \in 1 .. n /\ queue[at] \in {queue[i] : i \in DOMAIN queue}
    BY <1>5, <1>8
  <2>6. {y.removed : y \in arbitrated'} = (1 .. n) \ {rest[i] : i \in DOMAIN rest}
    BY <1>9, <2>3, <2>4, <2>5
  <2> QED BY <1>1, <1>5, <2>1, <2>2, <2>6 DEF ArbitrationRemovesMeantOrLater
<1>16. (Len(pending) <= added)'
  BY <1>1, <1>2, <1>5, <1>7, <1>8
<1> QED BY <1>13, <1>14, <1>15, <1>16 DEF QueueInvariant

-----------------------------------------------------------------------------
(* Theorems *)

\* Whatever the claims and the arbiters, the queue is always in an invariant state.
THEOREM QueueInvariantHolds == QueueSpec => []QueueInvariant
<1>1. ASSUME QueueInvariant, [QueueNext]_queueVars
      PROVE  QueueInvariant'
  <2>1. CASE Add
    BY <1>1, <2>1, AddPreserves
  <2>2. ASSUME NEW x \in Arbiters, NEW position \in -MaxAdded .. MaxAdded \ {0},
               DecideOn(x, position)
        PROVE  QueueInvariant'
    BY <1>1, <2>2, DecideOnPreserves
  <2>3. ASSUME NEW x \in Arbiters, Arbitrate(x)
        PROVE  QueueInvariant'
    BY <1>1, <2>3, ArbitratePreserves
  <2>4. ASSUME NEW x \in Arbiters, ArbitrateFails(x)
        PROVE  QueueInvariant'
    BY <1>1, <2>4, ArbitrateFailsPreserves
  <2>5. CASE UNCHANGED queueVars
    BY <1>1, <2>5 DEF queueVars, QueueInvariant, QueueTypeOK, PositionsAge,
                      ArbitrationRemovesMeantOrLater
  <2> QED BY <1>1, <2>1, <2>2, <2>3, <2>4, <2>5 DEF QueueNext
<1> QED BY QueueStarts, <1>1, PTL DEF QueueSpec

\* For any number of arbiters and entries: the list stays in the order of add(), a
\* stale position removes the entry that was meant or a later one unless it counts
\* from the end, and an entry leaves the queue by exactly one arbitration.
THEOREM ArbitrationIsOrderly == QueueSpec => []ArbitrationRemovesMeantOrLater
<1>1. QueueInvariant => ArbitrationRemovesMeantOrLater
  BY DEF QueueInvariant
<1> QED BY QueueInvariantHolds, <1>1, PTL

\* The list holds entries that were added, and what arbiters have decided is about such.
THEOREM QueueTyped == QueueSpec => []QueueTypeOK
<1>1. QueueInvariant => QueueTypeOK
  BY DEF QueueInvariant
<1> QED BY QueueInvariantHolds, <1>1, PTL

\* For any three claims, whatever their scopes and confidences, resolve() does not
\* depend on the order of its arguments and has no cycle.
THEOREM ResolutionHasNoCycle == QueueSpec => []ResolutionAcyclic
<1>1. QueueInvariant => ResolutionAcyclic
  BY ConflictQueueAssumption, RivalsAcyclic DEF QueueInvariant, QueueTypeOK
<1> QED BY QueueInvariantHolds, <1>1, PTL
-----------------------------------------------------------------------------
(* run_induction accounts for what it admits *)

Run == [stage : {"hook", "candidates", "done"}, hook : Nat, candidates : Seq(Rules),
        live : BOOLEAN, next : Nat, newRules : Seq(Rules \ Violating), byHooks : SUBSET Nat,
        before : Nat, lost : Nat]

\* The positions that a run has admitted itself, among the admitted rules, and the
\* place of one of them in its report.
ReportedIn(run, adm) == {i \in DOMAIN adm : i > run.before} \ run.byHooks

Place(R, i) == Cardinality({j \in R : j <= i})

\* But for its first elements, which are lost, the list rs is what adm holds at the
\* positions R, in their order.
Lists(rs, lost, R, adm) ==
  /\ Len(rs) = lost + Cardinality(R)
  /\ \A i \in R : lost + Place(R, i) \in 1 .. Len(rs) /\ rs[lost + Place(R, i)] = adm[i]
  /\ \A n \in 1 .. Len(rs) : n > lost => \E i \in R : lost + Place(R, i) = n

RunOK(run, adm) ==
  /\ run \in Run
  /\ run.hook \in 1 .. Hooks + 1 /\ (run.stage # "done" => run.hook <= Hooks)
  /\ run.byHooks \subseteq DOMAIN adm
  /\ run.before <= Len(adm)
  /\ Lists(run.newRules, run.lost, ReportedIn(run, adm), adm)

\* Only borrowers of the list put rules in it that violate an invariant.
WrittenOnly(adm, own) == \A i \in DOMAIN adm : adm[i] \in Violating => adm[i] \in own

InductionInv ==
  /\ admitted \in Seq(Rules) /\ rejected \in Seq(Violating)
  /\ lent \in BOOLEAN /\ written \subseteq Rules
  /\ \A i \in DOMAIN admitted : admitted[i] \in Violating => admitted[i] \in written
  /\ induction # NotInducing => RunOK(induction, admitted)

\* A list with an element more.
LEMMA Appended ==
  ASSUME NEW S, NEW s \in Seq(S), NEW e \in S, NEW t, t = Append(s, e)
  PROVE  /\ t \in Seq(S) /\ Len(s) \in Nat /\ Len(t) = Len(s) + 1
         /\ DOMAIN s = 1 .. Len(s) /\ DOMAIN t = 1 .. Len(s) + 1
         /\ \A i \in 1 .. Len(s) : t[i] = s[i]
         /\ t[Len(s) + 1] = e
<1>1. t \in Seq(S) /\ Len(t) = Len(s) + 1
  BY AppendProperties
<1>2. (\A i \in 1 .. Len(s) : t[i] = s[i]) /\ t[Len(s) + 1] = e
  BY AppendProperties
<1>3. Len(s) \in Nat /\ DOMAIN s = 1 .. Len(s) /\ DOMAIN t = 1 .. Len(t)
  BY <1>1, LenProperties
<1> QED BY <1>1, <1>2, <1>3

\* A position after all others of a report gets the next place, and they keep theirs.
LEMMA NextPlace ==
  ASSUME NEW R, IsFiniteSet(R), R \subseteq Nat, NEW n \in Nat, \A r \in R : r <= n
  PROVE  LET Q == R \cup {n + 1}
         IN  /\ IsFiniteSet(Q) /\ Cardinality(Q) = Cardinality(R) + 1
             /\ Cardinality(R) \in Nat
             /\ \A i \in R : Place(Q, i) = Place(R, i)
             /\ Place(Q, n + 1) = Cardinality(R) + 1
<1>1. n + 1 \notin R
  OBVIOUS
<1>2. PICK Q : Q = R \cup {n + 1}
  OBVIOUS
<1>3. IsFiniteSet(Q) /\ Cardinality(Q) = Cardinality(R) + 1 /\ Cardinality(R) \in Nat
  BY <1>1, <1>2, FS_AddElement, FS_CardinalityType
<1>4. \A i \in R : {j \in Q : j <= i} = {j \in R : j <= i}
  BY <1>2
<1>5. {j \in Q : j <= n + 1} = Q
  <2>1. \A j \in Q : j <= n + 1
    BY <1>2
  <2> QED BY <2>1, Zenon
<1> QED BY <1>2, <1>3, <1>4, <1>5 DEF Place

\* The positions of a report are finitely many numbers.
LEMMA ReportedFinite ==
  ASSUME NEW adm \in Seq(Rules), NEW run
  PROVE  /\ IsFiniteSet(ReportedIn(run, adm)) /\ ReportedIn(run, adm) \subseteq DOMAIN adm
         /\ DOMAIN adm = 1 .. Len(adm) /\ Len(adm) \in Nat
<1>1. DOMAIN adm = 1 .. Len(adm) /\ Len(adm) \in Nat
  BY LenProperties
<1>2. IsFiniteSet(DOMAIN adm)
  <2>1. IsFiniteSet(1 .. Len(adm))
    BY <1>1, FS_Interval
  <2> QED BY <1>1, <2>1
<1>3. ReportedIn(run, adm) \subseteq DOMAIN adm
  BY DEF ReportedIn
<1> QED BY <1>1, <1>2, <1>3, FS_Subset

\* A list and one that it is a prefix of.
LEMMA PrefixIs ==
  ASSUME NEW s \in Seq(Rules), NEW t \in Seq(Rules), IsPrefix(s, t)
  PROVE  Len(s) <= Len(t) /\ \A i \in DOMAIN s : t[i] = s[i]
<1>1. /\ Len(s) <= Len(t) /\ Len(s) \in Nat /\ Len(t) \in Nat /\ DOMAIN s = 1 .. Len(s)
      /\ SubSeq(s, 1, Len(s)) = SubSeq(t, 1, Len(s))
  BY LenProperties DEF IsPrefix
<1>2. ASSUME NEW i \in 1 .. Len(s)
      PROVE  t[i] = s[i]
  <2>1. SubSeq(s, 1, Len(s))[i] = s[i] /\ SubSeq(t, 1, Len(s))[i] = t[i]
    BY <1>1
  <2> QED BY <1>1, <2>1
<1> QED BY <1>1, <1>2

\* Rules that hooks append themselves, by admit_rule or to the list that they
\* borrowed, are not in the report.
LEMMA HookAppends ==
  ASSUME NEW adm \in Seq(Rules), NEW list \in Seq(Rules), NEW run, RunOK(run, adm),
         Len(adm) <= Len(list), \A i \in DOMAIN adm : list[i] = adm[i]
  PROVE  RunOK([run EXCEPT !.byHooks = @ \cup (Len(adm) + 1 .. Len(list))], list)
<1>1. /\ run \in Run /\ Len(adm) \in Nat /\ DOMAIN adm = 1 .. Len(adm)
      /\ run.byHooks \in SUBSET Nat /\ run.byHooks \subseteq 1 .. Len(adm)
      /\ run.before \in Nat /\ run.before <= Len(adm)
      /\ Len(list) \in Nat /\ DOMAIN list = 1 .. Len(list)
  <2>1. run \in Run /\ run.byHooks \subseteq DOMAIN adm /\ run.before <= Len(adm)
    BY DEF RunOK
  <2>2. run.byHooks \in SUBSET Nat /\ run.before \in Nat
    BY <2>1 DEF Run
  <2> QED BY <2>1, <2>2, LenProperties
<1>2. PICK hs \in SUBSET Nat : hs = run.byHooks \cup (Len(adm) + 1 .. Len(list))
  <2>1. run.byHooks \cup (Len(adm) + 1 .. Len(list)) \in SUBSET Nat
    BY <1>1
  <2> QED BY <2>1, Zenon
<1>3. PICK run2 : run2 = [run EXCEPT !.byHooks = hs]
  OBVIOUS
<1>4. /\ run2 \in Run /\ run2.stage = run.stage /\ run2.hook = run.hook
      /\ run2.newRules = run.newRules /\ run2.before = run.before /\ run2.byHooks = hs
      /\ run2.lost = run.lost
  BY <1>1, <1>3 DEF Run
<1>5. ReportedIn(run2, list) = ReportedIn(run, adm)
  <2>1. ASSUME NEW i
        PROVE  i \in ReportedIn(run2, list) <=> i \in ReportedIn(run, adm)
    BY <1>1, <1>2, <1>4 DEF ReportedIn
  <2> QED BY <2>1
<1>6. Lists(run2.newRules, run2.lost, ReportedIn(run2, list), list)
  <2>1. PICK R : R = ReportedIn(run, adm)
    OBVIOUS
  <2>2. Lists(run.newRules, run.lost, R, adm)
    BY <2>1 DEF RunOK
  <2>3. \A i \in R : list[i] = adm[i]
    BY <2>1, ReportedFinite
  <2>4. Lists(run.newRules, run.lost, R, list)
    BY <2>2, <2>3, Zenon DEF Lists
  <2> QED BY <1>4, <1>5, <2>1, <2>4
<1>7. run2.byHooks \subseteq DOMAIN list
  BY <1>1, <1>2, <1>4
<1>8. run2.before <= Len(list)
  BY <1>1, <1>4
<1>9. RunOK(run2, list)
  BY <1>4, <1>6, <1>7, <1>8 DEF RunOK
<1> QED BY <1>2, <1>3, <1>9

LEMMA HookAdmits ==
  ASSUME NEW adm \in Seq(Rules), NEW rule \in Rules, NEW run, RunOK(run, adm)
  PROVE  RunOK([run EXCEPT !.byHooks = @ \cup {Len(adm) + 1}], Append(adm, rule))
<1>1. PICK after : after = Append(adm, rule)
  OBVIOUS
<1>2. /\ after \in Seq(Rules) /\ Len(after) = Len(adm) + 1 /\ Len(adm) \in Nat
      /\ \A i \in DOMAIN adm : after[i] = adm[i]
  BY <1>1, Appended
<1>3. Len(adm) <= Len(after)
  BY <1>2
<1>4. RunOK([run EXCEPT !.byHooks = @ \cup (Len(adm) + 1 .. Len(after))], after)
  BY <1>2, <1>3, HookAppends
<1>5. Len(adm) + 1 .. Len(after) = {Len(adm) + 1}
  BY <1>2
<1> QED BY <1>1, <1>4, <1>5

\* A hook that changes what was in the list begins the account anew.
LEMMA HookRewrites ==
  ASSUME NEW adm, NEW list \in Seq(Rules), NEW run, RunOK(run, adm)
  PROVE  RunOK([run EXCEPT !.byHooks = {}, !.before = Len(list), !.lost = Len(run.newRules)],
               list)
<1>1. PICK n \in Nat, m \in Nat : n = Len(list) /\ m = Len(run.newRules)
  <2>1. run.newRules \in Seq(Rules \ Violating)
    BY DEF RunOK, Run
  <2> QED BY <2>1, LenProperties
<1>2. PICK run2 : run2 = [run EXCEPT !.byHooks = {}, !.before = n, !.lost = m]
  OBVIOUS
<1>3. /\ run2 \in Run /\ run2.stage = run.stage /\ run2.hook = run.hook
      /\ run2.newRules = run.newRules /\ run2.before = n /\ run2.byHooks = {} /\ run2.lost = m
  <2>1. run \in Run
    BY DEF RunOK
  <2> QED BY <1>2, <2>1 DEF Run
<1>4. ReportedIn(run2, list) = {}
  <2>1. DOMAIN list = 1 .. n
    BY <1>1, LenProperties
  <2> QED BY <1>3, <2>1 DEF ReportedIn
<1>5. Lists(run2.newRules, run2.lost, {}, list)
  BY <1>1, <1>3, FS_EmptySet DEF Lists
<1>6. RunOK(run2, list)
  BY <1>1, <1>3, <1>4, <1>5 DEF RunOK
<1> QED BY <1>1, <1>2, <1>6

\* A rule that the run admits is reported at the next place.
LEMMA RunAdmits ==
  ASSUME NEW adm \in Seq(Rules), NEW rule \in Rules \ Violating, NEW run, RunOK(run, adm)
  PROVE  RunOK([run EXCEPT !.next = @ + 1, !.newRules = Append(@, rule)], Append(adm, rule))
<1>1. /\ run \in Run /\ Len(adm) \in Nat /\ DOMAIN adm = 1 .. Len(adm)
      /\ run.byHooks \in SUBSET Nat /\ run.byHooks \subseteq 1 .. Len(adm)
      /\ run.before \in Nat /\ run.before <= Len(adm)
  <2>1. run \in Run /\ run.byHooks \subseteq DOMAIN adm /\ run.before <= Len(adm)
    BY DEF RunOK
  <2>2. run.byHooks \in SUBSET Nat /\ run.before \in Nat
    BY <2>1 DEF Run
  <2> QED BY <2>1, <2>2, LenProperties
<1>2. PICK after : after = Append(adm, rule)
  OBVIOUS
<1>3. /\ after \in Seq(Rules) /\ Len(after) = Len(adm) + 1 /\ DOMAIN after = 1 .. Len(adm) + 1
      /\ after[Len(adm) + 1] = rule /\ \A i \in 1 .. Len(adm) : after[i] = adm[i]
  BY <1>2, Appended
<1>4. PICK rs \in Seq(Rules \ Violating), lost \in Nat : rs = run.newRules /\ lost = run.lost
  BY <1>1 DEF Run
<1>5. PICK rs2 \in Seq(Rules \ Violating) : rs2 = Append(rs, rule)
  BY AppendProperties
<1>6. /\ Len(rs) \in Nat /\ Len(rs2) = Len(rs) + 1
      /\ rs2[Len(rs) + 1] = rule /\ \A i \in 1 .. Len(rs) : rs2[i] = rs[i]
  BY <1>5, Appended
<1>7. PICK k \in Nat : k = run.next + 1
  BY <1>1 DEF Run
<1>8. PICK run2 : run2 = [run EXCEPT !.next = k, !.newRules = rs2]
  OBVIOUS
<1>9. /\ run2 \in Run /\ run2.stage = run.stage /\ run2.hook = run.hook
      /\ run2.newRules = rs2 /\ run2.before = run.before /\ run2.byHooks = run.byHooks
      /\ run2.lost = lost
  BY <1>1, <1>4, <1>8 DEF Run
<1>10. PICK R, Q : /\ R = ReportedIn(run, adm) /\ Q = R \cup {Len(adm) + 1}
                   /\ Q = ReportedIn(run2, after)
  <2>1. ASSUME NEW i
        PROVE  i \in ReportedIn(run2, after) <=> i \in ReportedIn(run, adm) \cup {Len(adm) + 1}
    BY <1>1, <1>3, <1>9 DEF ReportedIn
  <2> QED BY <2>1
<1>11. IsFiniteSet(R) /\ R \subseteq 1 .. Len(adm)
  BY <1>1, <1>10, ReportedFinite
<1>12. /\ Cardinality(Q) = Cardinality(R) + 1 /\ Cardinality(R) \in Nat
       /\ \A i \in R : Place(Q, i) = Place(R, i)
       /\ Place(Q, Len(adm) + 1) = Cardinality(R) + 1
  <2>1. R \subseteq Nat /\ (\A r \in R : r <= Len(adm)) /\ Len(adm) \in Nat
    BY <1>1, <1>11
  <2>2. Q = R \cup {Len(adm) + 1}
    BY <1>10
  <2> QED BY <1>11, <2>1, <2>2, NextPlace
<1>13. /\ Len(rs) = lost + Cardinality(R)
       /\ \A i \in R : lost + Place(R, i) \in 1 .. Len(rs) /\ rs[lost + Place(R, i)] = adm[i]
       /\ \A n \in 1 .. Len(rs) : n > lost => \E i \in R : lost + Place(R, i) = n
  BY <1>4, <1>10 DEF RunOK, Lists
<1>14. Lists(rs2, lost, Q, after)
  <2>1. Len(rs2) = lost + Cardinality(Q)
    <3>1. PICK c \in Nat : c = Cardinality(R)
      BY <1>12
    <3>2. Cardinality(Q) = c + 1 /\ Len(rs) = lost + c
      BY <1>12, <1>13, <3>1
    <3>3. (lost + c) + 1 = lost + (c + 1)
      BY <1>4
    <3> QED BY <1>6, <3>2, <3>3
  <2>2. ASSUME NEW i \in Q
        PROVE  lost + Place(Q, i) \in 1 .. Len(rs2) /\ rs2[lost + Place(Q, i)] = after[i]
    <3>1. CASE i \in R
      <4>1. /\ Place(Q, i) = Place(R, i) /\ lost + Place(R, i) \in 1 .. Len(rs)
            /\ rs[lost + Place(R, i)] = adm[i]
        BY <1>12, <1>13, <3>1
      <4>2. i \in 1 .. Len(adm)
        BY <1>11, <3>1
      <4>3. after[i] = adm[i]
        BY <1>3, <4>2
      <4> QED BY <1>6, <1>12, <1>13, <4>1, <4>3
    <3>2. CASE i = Len(adm) + 1
      BY <1>3, <1>4, <1>6, <1>12, <1>13, <3>2
    <3> QED BY <1>10, <3>1, <3>2
  <2>3. ASSUME NEW n \in 1 .. Len(rs2)
        PROVE  n > lost => \E i \in Q : lost + Place(Q, i) = n
    <3>1. CASE n = Len(rs) + 1
      BY <1>4, <1>10, <1>12, <1>13, <3>1
    <3>2. CASE n \in 1 .. Len(rs)
      BY <1>10, <1>12, <1>13, <3>2
    <3> QED BY <1>6, <3>1, <3>2
  <2> QED BY <2>1, <2>2, <2>3 DEF Lists
<1>15. run2.byHooks \subseteq DOMAIN after
  BY <1>1, <1>3, <1>9
<1>16. run2.before <= Len(after)
  BY <1>1, <1>3, <1>9
<1>17. RunOK(run2, after)
  BY <1>9, <1>10, <1>14, <1>15, <1>16 DEF RunOK
<1> QED BY <1>2, <1>4, <1>5, <1>7, <1>8, <1>17

\* What does not bear on the report leaves it as it is.
LEMMA RunMoves ==
  ASSUME NEW adm, NEW run, RunOK(run, adm), NEW run2 \in Run,
         run2.newRules = run.newRules, run2.before = run.before, run2.byHooks = run.byHooks,
         run2.lost = run.lost,
         run2.hook \in 1 .. Hooks + 1, run2.stage # "done" => run2.hook <= Hooks
  PROVE  RunOK(run2, adm)
BY DEF RunOK, ReportedIn

\* The start of a run: it has nothing to report.
LEMMA RunBegins ==
  ASSUME NEW adm \in Seq(Rules)
  PROVE  RunOK(Go([stage |-> "hook", hook |-> 0, candidates |-> <<>>, live |-> FALSE,
                   next |-> 1, newRules |-> <<>>, byHooks |-> {}, before |-> Len(adm),
                   lost |-> 0]), adm)
<1>1. PICK e \in Seq(Rules \ Violating), n \in Nat : e = <<>> /\ n = Len(adm)
  <2>1. <<>> \in Seq(Rules \ Violating) /\ Len(adm) \in Nat
    BY EmptySeq, LenProperties
  <2> QED BY <2>1, Zenon
<1>2. PICK run : run = [stage |-> "hook", hook |-> 0, candidates |-> e, live |-> FALSE,
                        next |-> 1, newRules |-> e, byHooks |-> {}, before |-> n, lost |-> 0]
  OBVIOUS
<1>3. PICK s \in {"hook", "done"} : s = IF 0 < Hooks THEN "hook" ELSE "done"
  OBVIOUS
<1>4. PICK run2 : run2 = [run EXCEPT !.stage = s, !.hook = 1, !.candidates = e,
                                     !.live = FALSE, !.next = 1]
  OBVIOUS
<1>5. run2 = Go(run)
  <2>1. run.hook = 0 /\ run.hook + 1 = 1
    BY <1>2
  <2> QED BY <1>1, <1>3, <1>4, <2>1 DEF Go
<1>6. /\ run2 \in Run /\ run2.hook = 1 /\ run2.stage = s /\ run2.newRules = e
      /\ run2.before = n /\ run2.byHooks = {} /\ run2.lost = 0
  <2>1. e \in Seq(Rules)
    BY <1>1, EmptySeq
  <2> QED BY <1>2, <1>4, <2>1 DEF Run
<1>7. run2.hook \in 1 .. Hooks + 1 /\ (run2.stage # "done" => run2.hook <= Hooks)
  BY <1>3, <1>6, RuleSynthesisAssumption
<1>8. ReportedIn(run2, adm) = {}
  <2>1. DOMAIN adm = 1 .. n /\ n \in Nat
    BY <1>1, LenProperties
  <2> QED BY <1>6, <2>1 DEF ReportedIn
<1>9. Len(e) = 0 /\ Cardinality({}) = 0
  BY <1>1, EmptySeq, FS_EmptySet
<1>10. Lists(e, 0, {}, adm)
  BY <1>9 DEF Lists
<1>11. run2.before <= Len(adm)
  BY <1>1, <1>6
<1>12. RunOK(run2, adm)
  BY <1>6, <1>7, <1>8, <1>10, <1>11 DEF RunOK
<1> QED BY <1>1, <1>2, <1>5, <1>12

\* The next hook, or the end of the run.
LEMMA RunGoes ==
  ASSUME NEW adm, NEW run, RunOK(run, adm), run.stage = "candidates"
  PROVE  RunOK(Go(run), adm)
<1>1. run \in Run /\ run.hook \in Nat /\ run.hook <= Hooks /\ Hooks \in Nat
  BY RuleSynthesisAssumption DEF RunOK
<1>2. PICK e \in Seq(Rules) : e = <<>>
  BY EmptySeq
<1>3. PICK s \in {"hook", "done"} : s = IF run.hook < Hooks THEN "hook" ELSE "done"
  OBVIOUS
<1>4. PICK h \in Nat : h = run.hook + 1
  BY <1>1
<1>5. PICK run2 : run2 = [run EXCEPT !.stage = s, !.hook = h, !.candidates = e,
                                     !.live = FALSE, !.next = 1]
  OBVIOUS
<1>6. run2 = Go(run)
  BY <1>2, <1>3, <1>4, <1>5, Zenon DEF Go
<1>7. /\ run2 \in Run /\ run2.hook = h /\ run2.stage = s /\ run2.newRules = run.newRules
      /\ run2.before = run.before /\ run2.byHooks = run.byHooks /\ run2.lost = run.lost
  BY <1>1, <1>5 DEF Run
<1>8. h \in 1 .. Hooks + 1 /\ (s # "done" => h <= Hooks)
  BY <1>1, <1>3, <1>4
<1>9. RunOK(run2, adm)
  BY <1>7, <1>8, RunMoves
<1> QED BY <1>6, <1>9

\* Every step of the engine, of its clients and of its hooks keeps the account.
LEMMA InductionStep ==
  ASSUME InductionInv, [RulesNext]_ruleVars
  PROVE  InductionInv'
<1>1. /\ admitted \in Seq(Rules) /\ rejected \in Seq(Violating)
      /\ lent \in BOOLEAN /\ written \subseteq Rules
      /\ WrittenOnly(admitted, written)
      /\ induction # NotInducing => RunOK(induction, admitted)
  BY DEF InductionInv, WrittenOnly
<1>2. induction # NotInducing => induction \in Run /\ induction.stage # "none"
  BY <1>1 DEF RunOK, Run
<1>3. ASSUME NEW rule \in Rules, rule \notin Violating, admitted' = Append(admitted, rule)
      PROVE  admitted' \in Seq(Rules) /\ WrittenOnly(admitted', written)
  <2>1. /\ admitted' \in Seq(Rules) /\ DOMAIN admitted = 1 .. Len(admitted)
        /\ Len(admitted) \in Nat /\ DOMAIN admitted' = 1 .. Len(admitted) + 1
        /\ \A i \in 1 .. Len(admitted) : admitted'[i] = admitted[i]
        /\ admitted'[Len(admitted) + 1] = rule
    BY <1>1, <1>3, Appended
  <2> QED BY <1>1, <1>3, <2>1 DEF WrittenOnly
<1>4. ASSUME NEW rule \in Rules, Admit(rule)
      PROVE  InductionInv'
  <2>0. lent' = lent /\ written' = written
    BY <1>4 DEF Admit, loanVars
  <2>1. CASE IsAdmissible(rule)
    <3>1. admitted' = Append(admitted, rule) /\ rejected' = rejected
      BY <1>4, <2>1 DEF Admit, AdmitRule
    <3>2. admitted' \in Seq(Rules) /\ WrittenOnly(admitted', written)
      BY <1>3, <2>1, <3>1 DEF IsAdmissible
    <3>3. CASE induction.stage = "hook"
      <4>1. RunOK(induction, admitted)
        BY <1>1, <3>3 DEF NotInducing
      <4>2. induction' = [induction EXCEPT !.byHooks = @ \cup {Len(admitted) + 1}]
        BY <1>4, <2>1, <3>3 DEF Admit
      <4>3. RunOK(induction', admitted')
        BY <1>1, <3>1, <4>1, <4>2, HookAdmits
      <4> QED BY <1>1, <2>0, <3>1, <3>2, <4>3 DEF InductionInv, WrittenOnly
    <3>4. CASE induction.stage # "hook"
      <4>1. induction' = induction /\ induction = NotInducing
        BY <1>2, <1>4, <3>4 DEF Admit
      <4> QED BY <1>1, <2>0, <3>1, <3>2, <4>1 DEF InductionInv, WrittenOnly
    <3> QED BY <3>3, <3>4
  <2>2. CASE ~IsAdmissible(rule)
    <3>1. /\ admitted' = admitted /\ rejected' = Append(rejected, rule)
          /\ induction' = induction /\ rule \in Violating
      BY <1>4, <2>2 DEF Admit, AdmitRule, IsAdmissible
    <3>2. rejected' \in Seq(Violating)
      BY <1>1, <3>1, AppendProperties
    <3> QED BY <1>1, <2>0, <3>1, <3>2 DEF InductionInv, WrittenOnly
  <2> QED BY <2>1, <2>2
<1>5. CASE RunInduction
  <2>1. RunOK(induction', admitted') /\ UNCHANGED <<admitted, rejected, written>>
    BY <1>1, <1>5, RunBegins DEF RunInduction
  <2>2. lent' \in BOOLEAN
    BY <1>5 DEF RunInduction
  <2> QED BY <1>1, <2>1, <2>2 DEF InductionInv, WrittenOnly
<1>6. ASSUME NEW candidates \in Seq(Rules), NEW live \in BOOLEAN,
             HookReturnsRules(candidates, live)
      PROVE  InductionInv'
  <2>1. /\ induction.stage = "hook" /\ UNCHANGED <<admitted, rejected, loanVars>>
        /\ induction' = [induction EXCEPT !.stage = "candidates", !.candidates = candidates,
                                          !.live = live]
    BY <1>6 DEF HookReturnsRules
  <2>2. RunOK(induction, admitted)
    BY <1>1, <2>1 DEF NotInducing
  <2>3. PICK run, run2 : run = induction /\ run2 = induction'
    OBVIOUS
  <2>4. /\ run2 \in Run /\ run2.stage = "candidates" /\ run2.hook = run.hook
        /\ run2.newRules = run.newRules /\ run2.before = run.before
        /\ run2.byHooks = run.byHooks /\ run2.lost = run.lost
    <3>1. run \in Run /\ run2 = [run EXCEPT !.stage = "candidates", !.candidates = candidates,
                                              !.live = live]
      BY <2>1, <2>2, <2>3 DEF RunOK
    <3> QED BY <3>1 DEF Run
  <2>5. run.hook \in 1 .. Hooks + 1 /\ run.hook <= Hooks
    BY <2>1, <2>2, <2>3 DEF RunOK
  <2>6. RunOK(run2, admitted)
    BY <2>2, <2>3, <2>4, <2>5, RunMoves
  <2> QED BY <1>1, <2>1, <2>3, <2>6 DEF InductionInv, WrittenOnly, loanVars
<1>7. CASE \/ InductionHookRaises
           \/ InductionReturns
  BY <1>1, <1>7 DEF InductionHookRaises, InductionReturns, InductionInv, WrittenOnly, loanVars
<1>8. CASE TakeCandidate
  <2>1. PICK rule : rule = Candidates[induction.next]
    OBVIOUS
  <2>2. RunOK(induction, admitted)
    BY <1>1, <1>8 DEF TakeCandidate, NotInducing
  <2>3. rule \in Rules
    <3>1. Candidates \in Seq(Rules)
      <4>1. admitted \in Seq(Rules) /\ induction.candidates \in Seq(Rules)
        BY <1>1, <2>2 DEF RunOK, Run
      <4> QED BY <4>1, Zenon DEF Candidates
    <3>2. induction.next \in DOMAIN Candidates
      BY <1>8 DEF TakeCandidate
    <3> QED BY <2>1, <3>1, <3>2
  <2>4. CASE IsAdmissible(rule)
    <3>1. /\ admitted' = Append(admitted, rule) /\ UNCHANGED <<rejected, lent, written>>
          /\ induction' = [induction EXCEPT !.next = @ + 1, !.newRules = Append(@, rule)]
      BY <1>8, <2>1, <2>4 DEF TakeCandidate, loanVars
    <3>2. admitted' \in Seq(Rules) /\ WrittenOnly(admitted', written)
      BY <1>3, <2>3, <2>4, <3>1 DEF IsAdmissible
    <3>3. RunOK(induction', admitted')
      BY <1>1, <2>2, <2>3, <2>4, <3>1, RunAdmits DEF IsAdmissible
    <3> QED BY <1>1, <3>1, <3>2, <3>3 DEF InductionInv, WrittenOnly
  <2>5. CASE ~IsAdmissible(rule)
    <3>1. UNCHANGED <<admitted, rejected, loanVars>> /\ induction' = [induction EXCEPT !.next = @ + 1]
      BY <1>8, <2>1, <2>5 DEF TakeCandidate
    <3>2. PICK run, run2 : run = induction /\ run2 = induction'
      OBVIOUS
    <3>3. run \in Run /\ run2 = [run EXCEPT !.next = @ + 1]
      BY <2>2, <3>1, <3>2 DEF RunOK
    <3>4. PICK k \in Nat : k = run.next + 1
      BY <3>3 DEF Run
    <3>5. /\ run2 \in Run /\ run2.stage = run.stage /\ run2.hook = run.hook
          /\ run2.newRules = run.newRules /\ run2.before = run.before
          /\ run2.byHooks = run.byHooks /\ run2.lost = run.lost
      <4>1. run2 = [run EXCEPT !.next = k]
        BY <3>3, <3>4
      <4> QED BY <3>3, <4>1 DEF Run
    <3>6. RunOK(run2, admitted)
      BY <2>2, <3>2, <3>5, RunMoves DEF RunOK
    <3> QED BY <1>1, <3>1, <3>2, <3>6 DEF InductionInv, WrittenOnly, loanVars
  <2> QED BY <2>4, <2>5
<1>9. CASE CandidatesTaken
  <2>1. /\ induction.stage = "candidates" /\ UNCHANGED <<admitted, rejected, loanVars>>
        /\ induction' = Go(induction)
    BY <1>9 DEF CandidatesTaken
  <2>2. RunOK(induction, admitted)
    BY <1>1, <2>1 DEF NotInducing
  <2>3. RunOK(induction', admitted)
    BY <2>1, <2>2, RunGoes
  <2> QED BY <1>1, <2>1, <2>3 DEF InductionInv, WrittenOnly, loanVars
<1>10. CASE UNCHANGED ruleVars
  BY <1>1, <1>10 DEF ruleVars, loanVars, InductionInv, WrittenOnly
<1>11. ASSUME NEW n \in 0 .. 2, NEW candidates \in [1 .. n -> Rules]
       PROVE  candidates \in Seq(Rules)
  <2>1. n \in Nat
    OBVIOUS
  <2> QED BY <2>1, SeqDef
<1>12. <<>> \in Seq(Rules)
  BY EmptySeq
<1>13. ASSUME NEW list \in Seq(Rules), BorrowerWrites(list)
       PROVE  InductionInv'
  <2>1. /\ admitted' = list /\ UNCHANGED <<rejected, lent>>
        /\ written' = written \cup (ToSet(list) \ ToSet(admitted))
    BY <1>13 DEF BorrowerWrites
  <2>2. written' \subseteq Rules /\ WrittenOnly(list, written')
    <3>1. ASSUME NEW i \in DOMAIN list
          PROVE  list[i] \in Rules /\ (list[i] \in Violating => list[i] \in written')
      <4>1. list[i] \in Rules /\ list[i] \in ToSet(list)
        BY <3>1 DEF ToSet
      <4>2. CASE list[i] \in ToSet(admitted)
        <5>1. PICK j \in DOMAIN admitted : list[i] = admitted[j]
          BY <4>2 DEF ToSet
        <5> QED BY <1>1, <2>1, <4>1, <5>1 DEF WrittenOnly
      <4> QED BY <2>1, <4>1, <4>2
    <3> QED BY <1>1, <2>1, <3>1 DEF WrittenOnly, ToSet
  <2>3. induction' # NotInducing => RunOK(induction', list)
    <3>1. CASE induction.stage = "none"
      <4>1. induction' = induction /\ induction = NotInducing
        BY <1>2, <1>13, <3>1 DEF BorrowerWrites
      <4> QED BY <4>1
    <3>2. CASE induction.stage # "none"
      <4>1. RunOK(induction, admitted)
        BY <1>1, <3>2 DEF NotInducing
      <4>2. CASE IsPrefix(admitted, list)
        <5>1. induction' = [induction EXCEPT !.byHooks = @ \cup (Len(admitted) + 1 .. Len(list))]
          BY <1>13, <3>2, <4>2 DEF BorrowerWrites
        <5>2. Len(admitted) <= Len(list) /\ \A i \in DOMAIN admitted : list[i] = admitted[i]
          BY <1>1, <4>2, PrefixIs
        <5> QED BY <1>1, <4>1, <5>1, <5>2, HookAppends
      <4>3. CASE ~IsPrefix(admitted, list)
        <5>1. induction' = [induction EXCEPT !.byHooks = {}, !.before = Len(list),
                                             !.lost = Len(induction.newRules)]
          BY <1>13, <3>2, <4>3 DEF BorrowerWrites
        <5> QED BY <4>1, <5>1, HookRewrites
      <4> QED BY <4>2, <4>3
    <3> QED BY <3>1, <3>2
  <2> QED BY <1>1, <2>1, <2>2, <2>3 DEF InductionInv, WrittenOnly
<1>14. ASSUME NEW n \in 0 .. MaxRules, NEW list \in [1 .. n -> Rules]
       PROVE  list \in Seq(Rules)
  <2>1. n \in Nat
    BY RuleSynthesisAssumption
  <2> QED BY <2>1, SeqDef
<1> QED BY <1>4, <1>5, <1>6, <1>7, <1>8, <1>9, <1>10, <1>11, <1>12, <1>13, <1>14 DEF RulesNext

\* The engine has no rules, and nothing runs.
LEMMA InductionStarts == RulesInit => InductionInv
<1> SUFFICES ASSUME RulesInit PROVE InductionInv
  OBVIOUS
<1>1. <<>> \in Seq(Rules) /\ <<>> \in Seq(Violating) /\ DOMAIN <<>> = {}
  BY EmptySeq
<1> QED BY <1>1 DEF RulesInit, InductionInv

\* For any number of rules, hooks and candidates, and whatever borrowers write in the
\* list of admitted rules: a rule that violates a hard invariant is there only by
\* their hand and never reported, and a run of run_induction reports what it has
\* admitted, in order, since a hook last changed what was in the list, whether a
\* hook returns a list of its own or the one that the loop appends to.
THEOREM InductionIsAccounted == RulesSpec => []InductionAccounted
<1>1. InductionInv => InductionAccounted
  <2> SUFFICES ASSUME InductionInv PROVE InductionAccounted
    OBVIOUS
  <2>1. \A i \in DOMAIN admitted : admitted[i] \in Violating => admitted[i] \in written
    BY DEF InductionInv
  <2>2. CASE induction = NotInducing
    BY <2>1, <2>2 DEF InductionAccounted
  <2>3. CASE induction # NotInducing
    <3>1. PICK R, rs, lost : /\ R = ReportedIn(induction, admitted)
                             /\ rs = induction.newRules /\ lost = induction.lost
      OBVIOUS
    <3>2. Lists(rs, lost, R, admitted) /\ rs \in Seq(Rules \ Violating)
      BY <2>3, <3>1 DEF InductionInv, RunOK, Run
    <3>3. DOMAIN rs = 1 .. Len(rs) /\ \A n \in DOMAIN rs : rs[n] \notin Violating
      BY <3>2, LenProperties, ElementOfSeq
    <3>4. /\ \A i \in R : /\ lost + Cardinality({j \in R : j <= i}) \in DOMAIN rs
                          /\ rs[lost + Cardinality({j \in R : j <= i})] = admitted[i]
          /\ \A n \in DOMAIN rs :
               n > lost => \E i \in R : lost + Cardinality({j \in R : j <= i}) = n
      BY <3>2, <3>3 DEF Lists, Place
    <3> QED BY <2>1, <3>1, <3>3, <3>4, Zenon DEF InductionAccounted, ReportedIn
  <2> QED BY <2>2, <2>3
<1> QED BY <1>1, InductionStarts, InductionStep, PTL DEF RulesSpec

\* Admitted, rejected and reported rules are rules, and a run is at one of its hooks.
THEOREM RulesTyped == RulesSpec => []RulesTypeOK
<1>1. InductionInv => RulesTypeOK
  BY DEF InductionInv, RulesTypeOK, RunOK, Run
<1> QED BY <1>1, InductionStarts, InductionStep, PTL DEF RulesSpec

-----------------------------------------------------------------------------
(* Labels *)

\* Every label has a rank, and only PUBLIC and what is outside the lattice has 0.
LEMMA RankTyped == \A l : LabelRank(l) \in 0 .. 2
BY DEF LabelRank

\* Ranks are ordered, and whatever ranks above something is not of rank 0.
LEMMA RanksOrdered ==
  /\ \A k, l : \/ LabelRank(k) <= LabelRank(l) /\ ~(LabelRank(k) > LabelRank(l))
               \/ LabelRank(k) > LabelRank(l) /\ LabelRank(k) # 0
                    /\ ~(LabelRank(k) <= LabelRank(l))
  /\ \A k, l, m : LabelRank(k) <= LabelRank(l) /\ LabelRank(l) <= LabelRank(m)
                   => LabelRank(k) <= LabelRank(m)
  /\ \A l : LabelRank("") <= LabelRank(l)
<1>1. LabelRank("") = 0
  BY DEF LabelRank
<1>2. \A l : 0 <= LabelRank(l)
  BY RankTyped
<1>3. \A l : LabelRank("") <= LabelRank(l)
  BY <1>1, <1>2, Zenon
<1>4. \A k, l : \/ LabelRank(k) <= LabelRank(l) /\ ~(LabelRank(k) > LabelRank(l))
                \/ LabelRank(k) > LabelRank(l) /\ LabelRank(k) # 0
                     /\ ~(LabelRank(k) <= LabelRank(l))
  BY RankTyped
<1>5. \A k, l, m : LabelRank(k) <= LabelRank(l) /\ LabelRank(l) <= LabelRank(m)
                   => LabelRank(k) <= LabelRank(m)
  BY RankTyped
<1> QED BY <1>3, <1>4, <1>5, Zenon

\* highest_label returns the current label or one of those given, and no label
\* that is given, nor the current one, ranks above it.
LEMMA HighestBounds ==
  ASSUME NEW current, NEW labels, NEW taint \in HighestLabel(current, labels)
  PROVE  /\ taint = current \/ taint \in labels
         /\ LabelRank(current) <= LabelRank(taint)
         /\ \A l \in labels : LabelRank(l) <= LabelRank(taint)
<1> DEFINE higher == {l \in labels : LabelRank(l) > LabelRank(current)}
<1>1. CASE higher = {}
  BY <1>1, RankTyped DEF HighestLabel
<1>2. CASE higher # {}
  <2>1. taint \in higher /\ \A k \in higher : LabelRank(k) <= LabelRank(taint)
    BY <1>2 DEF HighestLabel
  <2>2. \A l \in labels : LabelRank(l) > LabelRank(current) \/ LabelRank(l) <= LabelRank(current)
    BY RankTyped
  <2> QED BY <2>1, <2>2, RankTyped
<1> QED BY <1>1, <1>2

\* The default lattice lets no label flow to one of a lower rank, be it outside
\* the lattice or no label at all.
LEMMA FlowsNeverFall ==
  ASSUME NEW r, NEW w, LabelRank(r) > LabelRank(w)
  PROVE  w \notin FlowsTo(r)
<1>1. LabelRank("PUBLIC") = 0 /\ LabelRank("INTERNAL") = 1 /\ LabelRank("SECRET") = 2
  BY DEF LabelRank
<1>2. \/ r = "SECRET" /\ LabelRank(w) < 2
      \/ r = "INTERNAL" /\ LabelRank(w) < 1
  <2>1. LabelRank(r) \in 0 .. 2 /\ LabelRank(w) \in 0 .. 2
    BY RankTyped
  <2>2. r \notin {"SECRET", "INTERNAL"} => LabelRank(r) = 0
    BY DEF LabelRank
  <2> QED BY <1>1, <2>1, <2>2
<1>3. CASE r = "SECRET"
  <2>1. w # "SECRET" /\ FlowsTo("SECRET") = {"SECRET"}
    BY <1>1, <1>2, <1>3 DEF FlowsTo
  <2> QED BY <1>3, <2>1
<1>4. CASE r = "INTERNAL"
  <2>1. w # "SECRET" /\ w # "INTERNAL"
    BY <1>1, <1>2, <1>4
  <2>2. FlowsTo("INTERNAL") = {"INTERNAL", "SECRET"}
    BY DEF FlowsTo
  <2> QED BY <1>4, <2>1, <2>2
<1> QED BY <1>2, <1>3, <1>4

\* In particular nothing flows downward within the lattice.
LEMMA FlowsAreNotDownward ==
  ASSUME NEW r, NEW w, Downward(r, w)
  PROVE  w \notin FlowsTo(r)
BY FlowsNeverFall DEF Downward

\* The actions up to the next one.
LEMMA UpToNext == \A n \in Nat : 1 .. n + 1 = (1 .. n) \cup {n + 1}
OBVIOUS

\* What has been read grows with each action by the reads of that action.
LEMMA ReadByGrows ==
  ASSUME NEW n \in Nat
  PROVE  ReadBy(n + 1) = ReadBy(n) \cup plan[n + 1].reads
BY UpToNext DEF ReadBy

-----------------------------------------------------------------------------
(* The inductive invariant *)

\* The taint ranks as high as all that was read, and no higher than something that was.
TaintIsHighest ==
  /\ \A r \in ReadBy(planner.done) : LabelRank(r) <= LabelRank(planner.taint)
  /\ planner.taint \in ReadBy(planner.done) \/ LabelRank(planner.taint) = 0

FlowInvariant == FlowTypeOK /\ TaintIsHighest /\ NoDownwardFlow

\* Nothing has been read, and nothing was accepted or refused.
LEMMA FlowStarts == FlowInit => FlowInvariant
<1> SUFFICES ASSUME FlowInit PROVE FlowInvariant
  OBVIOUS
<1>1. plan \in Seq(FlowAction)
  BY InformationFlowAssumption DEF FlowInit
<1>2. ReadBy(0) = {}
  BY DEF ReadBy
<1>3. FlowTypeOK
  BY <1>1, <1>2 DEF FlowInit, FlowTypeOK, Labels, Lattice
<1>4. TaintIsHighest
  BY <1>2 DEF FlowInit, TaintIsHighest, LabelRank
<1>5. NoDownwardFlow
  BY DEF FlowInit, NoDownwardFlow, DownwardIsReal
<1> QED BY <1>3, <1>4, <1>5 DEF FlowInvariant

\* Neither the plan nor what its actions have read depends on the checkers.
LEMMA ReadByUnchanged ==
  ASSUME plan' = plan
  PROVE  /\ \A n : ReadBy(n)' = ReadBy(n)
         /\ \A n : Flows(n)' = Flows(n)
BY DEF ReadBy, Flows

\* The planner takes one action: the taint covers its reads before its writes count.
LEMMA AdvancePreserves ==
  ASSUME FlowInvariant, Advance
  PROVE  FlowInvariant' /\ LabelRank(planner'.taint) >= LabelRank(planner.taint)
<1> USE DEF FlowInvariant
<1>0. /\ planner.status = "running" /\ planner.done < Len(plan)
      /\ plan' = plan /\ checker' = checker
  BY DEF Advance
<1>n. PICK n \in Nat : n = planner.done
  BY DEF FlowTypeOK
<1> DEFINE action == plan[n + 1]
<1>1. n + 1 \in 1 .. Len(plan) /\ action \in FlowAction
  BY <1>0, <1>n DEF FlowTypeOK
<1>2. PICK taint :
        /\ taint \in HighestLabel(planner.taint, action.reads \ {""})
        /\ planner' = IF \E w \in action.writes \ {""} : LabelDominates(taint, w)
                      THEN [planner EXCEPT !.status = "downward"]
                      ELSE [planner EXCEPT !.done = @ + 1, !.taint = taint]
  BY <1>n DEF Advance
<1>3. /\ taint = planner.taint \/ taint \in action.reads
      /\ LabelRank(planner.taint) <= LabelRank(taint)
      /\ \A l \in action.reads : LabelRank(l) <= LabelRank(taint)
  <2>1. /\ taint = planner.taint \/ taint \in action.reads \ {""}
        /\ LabelRank(planner.taint) <= LabelRank(taint)
        /\ \A l \in action.reads \ {""} : LabelRank(l) <= LabelRank(taint)
    <3> DEFINE labels == action.reads \ {""}
    <3>1. taint \in HighestLabel(planner.taint, labels)
      BY <1>2
    <3> HIDE DEF labels
    <3>2. /\ taint = planner.taint \/ taint \in labels
          /\ LabelRank(planner.taint) <= LabelRank(taint)
          /\ \A l \in labels : LabelRank(l) <= LabelRank(taint)
      BY <3>1, HighestBounds
    <3> QED BY <3>2, Zenon DEF labels
  <2> QED BY <2>1, RanksOrdered, Zenon
<1>4. ReadBy(n + 1) = ReadBy(n) \cup action.reads
  BY <1>1, ReadByGrows
<1>6. /\ \A r \in ReadBy(n + 1) : LabelRank(r) <= LabelRank(taint)
      /\ taint \in ReadBy(n + 1) \/ LabelRank(taint) = 0
  BY <1>n, <1>3, <1>4, RanksOrdered, Zenon DEF TaintIsHighest
<1>7. taint \in Labels
  BY <1>1, <1>3 DEF FlowTypeOK, FlowAction
<1>8. CASE \E w \in action.writes \ {""} : LabelDominates(taint, w)
  <2>1. planner' = [planner EXCEPT !.status = "downward"]
    BY <1>2, <1>8
  <2>2. planner'.done = n /\ planner'.taint = planner.taint /\ planner'.status = "downward"
    BY <1>n, <2>1 DEF FlowTypeOK
  <2>3. FlowTypeOK'
    BY <1>0, <2>1, ReadByUnchanged DEF FlowTypeOK
  <2>4. TaintIsHighest'
    BY <1>0, <1>n, <2>2, ReadByUnchanged DEF TaintIsHighest
  <2>5. PICK w : w \in action.writes /\ LabelRank(taint) > LabelRank(w)
    BY <1>8 DEF LabelDominates
  <2>6. taint \in ReadBy(n + 1)
    BY <1>6, <2>5, RanksOrdered, Zenon
  <2>7. <<taint, w>> \in Flows(n + 1)
    BY <2>5, <2>6 DEF Flows
  <2>8. DownwardIsReal'
    <3>1. Flows(planner.done + 1)' = Flows(n + 1)
      BY <1>0, <1>n, <2>2 DEF Flows, ReadBy
    <3> QED BY <2>5, <2>7, <3>1 DEF DownwardIsReal
  <2>9. NoDownwardFlow'
    BY <1>0, <1>n, <2>2, <2>8, ReadByUnchanged DEF NoDownwardFlow
  <2>10. LabelRank(planner'.taint) >= LabelRank(planner.taint)
    <3>1. LabelRank(planner'.taint) = LabelRank(planner.taint)
      BY <2>2
    <3>2. LabelRank(planner.taint) \in 0 .. 2
      BY RankTyped, Zenon
    <3> QED BY <3>1, <3>2
  <2> QED BY <2>3, <2>4, <2>9, <2>10
<1>9. CASE ~\E w \in action.writes \ {""} : LabelDominates(taint, w)
  <2>1. planner' = [planner EXCEPT !.done = @ + 1, !.taint = taint]
    BY <1>2, <1>9
  <2>2. planner'.done = n + 1 /\ planner'.taint = taint /\ planner'.status = "running"
    BY <1>0, <1>n, <2>1 DEF FlowTypeOK
  <2>3. FlowTypeOK'
    <3>1. n + 1 \in 0 .. Len(plan)
      BY <1>1
    <3>2. planner' = [planner EXCEPT !.done = n + 1, !.taint = taint]
      BY <1>n, <2>1
    <3>3. planner' \in [done : 0 .. Len(plan), taint : Labels,
                        status : {"running", "denied", "downward"}]
      BY <1>7, <3>1, <3>2 DEF FlowTypeOK
    <3> QED BY <1>0, <3>3, ReadByUnchanged DEF FlowTypeOK
  <2>4. TaintIsHighest'
    BY <1>0, <1>6, <2>2, ReadByUnchanged DEF TaintIsHighest
  <2>5. ASSUME NEW r \in ReadBy(n + 1), NEW w \in action.writes, Downward(r, w)
        PROVE  FALSE
    <3>1. w # ""
      BY <2>5 DEF Downward, Lattice
    <3>2. LabelRank(taint) <= LabelRank(w)
      BY <1>9, <3>1, RanksOrdered, Zenon DEF LabelDominates
    <3>3. LabelRank(r) <= LabelRank(taint)
      BY <1>6
    <3> QED BY <2>5, <3>2, <3>3, RanksOrdered, Zenon DEF Downward
  <2>6. \A f \in Flows(n + 1) : ~Downward(f[1], f[2])
    BY <2>5 DEF Flows
  <2>7. NoDownwardFlow'
    <3>1. \A j \in 1 .. n \cup 1 .. checker.done \cup {n + 1} :
            \A f \in Flows(j) : ~Downward(f[1], f[2])
      BY <1>n, <2>6 DEF NoDownwardFlow
    <3>2. 1 .. planner'.done = (1 .. n) \cup {n + 1}
      BY <1>1, <2>2, UpToNext
    <3>3. \A j \in 1 .. planner'.done \cup 1 .. checker'.done :
            \A f \in Flows(j)' : ~Downward(f[1], f[2])
      BY <1>0, <3>1, <3>2, ReadByUnchanged, Zenon
    <3>4. DownwardIsReal'
      BY <2>2 DEF DownwardIsReal
    <3> QED BY <3>3, <3>4 DEF NoDownwardFlow
  <2>8. LabelRank(planner'.taint) >= LabelRank(planner.taint)
    BY <1>3, <2>2, RankTyped
  <2> QED BY <2>3, <2>4, <2>7, <2>8
<1> QED BY <1>8, <1>9

\* The checker takes one action: what it has seen is all that was read.
LEMMA CheckActionPreserves ==
  ASSUME FlowInvariant, CheckAction
  PROVE  FlowInvariant'
<1> USE DEF FlowInvariant
<1>n. PICK n \in Nat : n = checker.done
  BY DEF FlowTypeOK
<1> DEFINE action == plan[n + 1]
           seen == checker.seen \cup action.reads
<1>1. n + 1 \in 1 .. Len(plan) /\ action \in FlowAction
  BY <1>n DEF CheckAction, FlowTypeOK
<1>2. plan' = plan /\ planner' = planner /\ checker.status = "running"
  BY DEF CheckAction
<1>3. seen = ReadBy(n + 1)
  BY <1>n, <1>1, <1>2, ReadByGrows DEF FlowTypeOK
<1>4. seen \in SUBSET Labels
  BY <1>1 DEF FlowTypeOK, FlowAction
<1>5. TaintIsHighest'
  BY <1>2, ReadByUnchanged DEF TaintIsHighest
<1>6. DownwardIsReal'
  BY <1>2, ReadByUnchanged DEF DownwardIsReal, NoDownwardFlow
<1>7. CASE \E w \in action.writes, r \in seen : w \notin FlowsTo(r)
  <2>1. checker' = [checker EXCEPT !.seen = seen, !.status = "raised"]
    BY <1>7, <1>n DEF CheckAction
  <2>2. checker'.done = n /\ checker'.seen = seen /\ checker'.status = "raised"
    BY <1>n, <2>1 DEF FlowTypeOK
  <2>3. FlowTypeOK'
    BY <1>n, <1>2, <1>3, <1>4, <2>1, <2>2, ReadByUnchanged DEF FlowTypeOK
  <2>4. NoDownwardFlow'
    BY <1>n, <1>2, <1>6, <2>2, ReadByUnchanged DEF NoDownwardFlow
  <2> QED BY <1>5, <2>3, <2>4
<1>8. CASE ~\E w \in action.writes, r \in seen : w \notin FlowsTo(r)
  <2>1. checker' = [checker EXCEPT !.seen = seen, !.done = @ + 1]
    BY <1>8, <1>n DEF CheckAction
  <2>2. checker'.done = n + 1 /\ checker'.seen = seen /\ checker'.status = "running"
    BY <1>2, <1>n, <2>1 DEF FlowTypeOK
  <2>3. FlowTypeOK'
    <3>0. n + 1 \in 0 .. Len(plan) /\ checker' = [checker EXCEPT !.seen = seen, !.done = n + 1]
      BY <1>n, <1>1, <2>1
    <3>1. checker' \in [done : 0 .. Len(plan), seen : SUBSET Labels,
                        status : {"running", "raised"}]
      BY <1>4, <3>0 DEF FlowTypeOK
    <3>2. checker'.seen = ReadBy(n + 1)'
      BY <1>2, <1>3, <2>2, ReadByUnchanged
    <3>3. ReadBy(checker.done)' = ReadBy(n + 1)'
      BY <2>2 DEF ReadBy
    <3> QED BY <1>2, <2>2, <3>1, <3>2, <3>3 DEF FlowTypeOK
  <2>4. \A f \in Flows(n + 1) : ~Downward(f[1], f[2])
    BY <1>3, <1>8, FlowsAreNotDownward DEF Flows
  <2>5. NoDownwardFlow'
    BY <1>n, <1>1, <1>2, <1>6, <2>2, <2>4, UpToNext, ReadByUnchanged DEF NoDownwardFlow
  <2> QED BY <1>5, <2>3, <2>5
<1> QED BY <1>7, <1>8

\* Every step of either checker keeps the invariant, and the planner's taint up.
LEMMA FlowStep ==
  ASSUME FlowInvariant, [FlowNext]_flowVars
  PROVE  FlowInvariant' /\ LabelRank(planner'.taint) >= LabelRank(planner.taint)
<1>1. CASE PlannerDenied
  <2>1. /\ plan' = plan /\ checker' = checker
        /\ planner' = [planner EXCEPT !.status = "denied"]
    BY <1>1 DEF PlannerDenied
  <2>2. planner'.done = planner.done /\ planner'.taint = planner.taint
        /\ planner'.status = "denied"
    BY <2>1 DEF FlowInvariant, FlowTypeOK
  <2>3. FlowTypeOK'
    BY <2>1, ReadByUnchanged DEF FlowInvariant, FlowTypeOK
  <2>4. TaintIsHighest'
    BY <2>1, <2>2, ReadByUnchanged DEF FlowInvariant, TaintIsHighest
  <2>5. NoDownwardFlow'
    BY <2>1, <2>2, ReadByUnchanged DEF FlowInvariant, NoDownwardFlow, DownwardIsReal
  <2> QED BY <2>2, <2>3, <2>4, <2>5, RankTyped DEF FlowInvariant
<1>2. CASE Advance
  BY <1>2, AdvancePreserves
<1>3. CASE CheckAction
  BY <1>3, CheckActionPreserves, RankTyped DEF CheckAction
<1>4. CASE UNCHANGED flowVars
  <2>1. plan' = plan /\ planner' = planner /\ checker' = checker
    BY <1>4 DEF flowVars
  <2> QED BY <2>1, ReadByUnchanged, RankTyped
          DEF FlowInvariant, FlowTypeOK, TaintIsHighest, NoDownwardFlow, DownwardIsReal
<1> QED BY <1>1, <1>2, <1>3, <1>4 DEF FlowNext

-----------------------------------------------------------------------------
(* The checker against the planner *)

\* What the checker accepted, its lattice allows, by label and not only by rank.
CheckerFlows ==
  \A j \in 1 .. checker.done : \A f \in Flows(j) : f[2] \in FlowsTo(f[1])

\* Only an action that the checker accepts adds to what it has accepted.
LEMMA CheckerFlowsStep ==
  ASSUME FlowInvariant, CheckerFlows, [FlowNext]_flowVars
  PROVE  CheckerFlows'
<1>1. CASE CheckAction
  <2>n. PICK n \in Nat : n = checker.done
    BY DEF FlowInvariant, FlowTypeOK
  <2> DEFINE action == plan[n + 1]
             seen == checker.seen \cup action.reads
  <2>1. plan' = plan /\ checker.status = "running"
    BY <1>1 DEF CheckAction
  <2>2. seen = ReadBy(n + 1)
    BY <2>n, <2>1, ReadByGrows DEF FlowInvariant, FlowTypeOK
  <2>3. CASE \E w \in action.writes, r \in seen : w \notin FlowsTo(r)
    <3>1. checker' = [checker EXCEPT !.seen = seen, !.status = "raised"]
      BY <1>1, <2>3, <2>n DEF CheckAction
    <3>2. checker'.done = n
      BY <2>n, <3>1 DEF FlowInvariant, FlowTypeOK
    <3> QED BY <2>n, <2>1, <3>2, ReadByUnchanged DEF CheckerFlows
  <2>4. CASE ~\E w \in action.writes, r \in seen : w \notin FlowsTo(r)
    <3>1. checker' = [checker EXCEPT !.seen = seen, !.done = @ + 1]
      BY <1>1, <2>4, <2>n DEF CheckAction
    <3>2. checker'.done = n + 1
      BY <2>n, <3>1 DEF FlowInvariant, FlowTypeOK
    <3>3. \A f \in Flows(n + 1) : f[2] \in FlowsTo(f[1])
      BY <2>2, <2>4 DEF Flows
    <3>4. 1 .. n + 1 = (1 .. n) \cup {n + 1}
      BY UpToNext
    <3>5. \A j \in 1 .. n + 1 : \A f \in Flows(j) : f[2] \in FlowsTo(f[1])
      BY <2>n, <3>3, <3>4, Zenon DEF CheckerFlows
    <3> QED BY <2>1, <3>2, <3>5, ReadByUnchanged DEF CheckerFlows
  <2> QED BY <2>3, <2>4
<1>2. CASE PlannerDenied \/ Advance \/ UNCHANGED flowVars
  <2>1. plan' = plan /\ checker' = checker
    BY <1>2 DEF PlannerDenied, Advance, flowVars
  <2> QED BY <2>1, ReadByUnchanged DEF CheckerFlows
<1> QED BY <1>1, <1>2 DEF FlowNext

\* Where the planner finds a flow, to a label of a lower rank, the checker, which
\* compares the labels themselves, has accepted nothing.
LEMMA PlannerFindsLess ==
  ASSUME FlowInvariant, CheckerFlows
  PROVE  CheckerIsStricter
<1> SUFFICES ASSUME planner.status = "downward", ~(checker.done <= planner.done)
             PROVE  FALSE
  BY DEF CheckerIsStricter
<1>1. planner.done + 1 \in 1 .. checker.done
  BY DEF FlowInvariant, FlowTypeOK
<1>2. PICK f \in Flows(planner.done + 1) : LabelRank(f[1]) > LabelRank(f[2])
  BY DEF FlowInvariant, NoDownwardFlow, DownwardIsReal
<1>3. f[2] \in FlowsTo(f[1])
  BY <1>1, <1>2 DEF CheckerFlows
<1> QED BY <1>2, <1>3, FlowsNeverFall

-----------------------------------------------------------------------------
(* Theorems *)

\* Whatever the plans, the checkers are always in an invariant state.
THEOREM FlowInvariantHolds == FlowSpec => []FlowInvariant
<1>1. FlowInvariant /\ [FlowNext]_flowVars => FlowInvariant'
  BY FlowStep
<1> QED BY FlowStarts, <1>1, PTL DEF FlowSpec

\* The checker's labels are those that were read, and the planner's taint is one.
THEOREM FlowTyped == FlowSpec => []FlowTypeOK
<1>1. FlowInvariant => FlowTypeOK
  BY DEF FlowInvariant
<1> QED BY FlowInvariantHolds, <1>1, PTL

\* Nothing that was read is written to a lower label by an action that the planner
\* or the checker accepted, and the planner refuses only where a flow is.
THEOREM NoFlowDownward == FlowSpec => []NoDownwardFlow
<1>1. FlowInvariant => NoDownwardFlow
  BY DEF FlowInvariant
<1> QED BY FlowInvariantHolds, <1>1, PTL

\* No step of either checker lowers the planner's taint, in plans of any length.
THEOREM TaintRises == FlowSpec => TaintNeverFalls
<1>1. FlowInvariant /\ [FlowNext]_flowVars
        => [LabelRank(planner'.taint) >= LabelRank(planner.taint)]_flowVars
  BY FlowStep
<1> QED BY FlowInvariantHolds, <1>1, PTL DEF FlowSpec, TaintNeverFalls

\* The checker never gets past an action at which the planner finds a flow, in
\* plans of any length and whichever of the two is ahead.
THEOREM CheckerIsNoLaxer == FlowSpec => []CheckerIsStricter
<1>1. FlowInit => CheckerFlows
  BY DEF FlowInit, CheckerFlows
<1>2. FlowInvariant /\ CheckerFlows /\ [FlowNext]_flowVars => CheckerFlows'
  BY CheckerFlowsStep
<1>3. FlowInvariant /\ CheckerFlows => CheckerIsStricter
  BY PlannerFindsLess
<1> QED BY FlowInvariantHolds, <1>1, <1>2, <1>3, PTL DEF FlowSpec
=============================================================================
