---------------------------- MODULE ConflictQueue ----------------------------
(***************************************************************************)
(* The conflict resolver and the queue of unresolved conflicts             *)
(* (extensions/resolver.py).  The queue is a list without a lock; those    *)
(* who arbitrate look at the list, decide on one of its entries, and later *)
(* name it by its position.  An entry is the number of its add() call.     *)
(***************************************************************************)
EXTENDS Integers, Sequences

CONSTANTS
  Arbiters,
  Contenders,     \* the claims on one resource that resolve() compares
  MaxAdded        \* bound of the model: calls of add()

\* scope is the length of the scope string, confidence is in percent.
Contender == [scope : Nat, confidence : 0 .. 100, write : BOOLEAN]

\* Whether two confidences exactly 10 percent apart differ by more than 0.1
\* depends on how they are rounded, so none are.
ASSUME ConflictQueueAssumption ==
  /\ Contenders \subseteq Contender
  /\ \A a, b \in Contenders : a.confidence - b.confidence # 10
  /\ MaxAdded \in Nat

VARIABLES
  pending,     \* ConflictQueue._pending
  added,       \* the number of calls of add()
  decided,     \* per arbiter: the position it names, and the entry it means
  arbitrated,  \* history: the entries that were meant, with those removed
  rivals       \* three claims on one resource, compared in pairs

queueVars == <<pending, added, decided, arbitrated, rivals>>

-----------------------------------------------------------------------------
(* resolve: the claim that wins, if any *)

Tolerated == 10

Abs(n) == IF n < 0 THEN -n ELSE n

\* Mutant: a claim may be a little less confident and still win.
BeatsLoosely(a, b) ==
  \/ a.scope > b.scope
  \/ /\ a.scope = b.scope
     /\ \/ a.confidence > b.confidence - Tolerated /\ ~a.write
        \/ a.confidence > b.confidence + Tolerated

\* The longer scope, else the clearly higher confidence, else the read-only claim.
Beats(a, b) ==
  \/ a.scope > b.scope
  \/ /\ a.scope = b.scope
     /\ \/ a.confidence > b.confidence + Tolerated
        \/ /\ Abs(a.confidence - b.confidence) <= Tolerated
           /\ ~a.write /\ b.write

\* The first of the two arguments has no advantage: CLAIM_A_WINS, CLAIM_B_WINS or
\* DEADLOCK.
Resolve(a, b) ==
  IF Beats(a, b) THEN "a" ELSE IF Beats(b, a) THEN "b" ELSE "deadlock"

-----------------------------------------------------------------------------
NothingDecided == [position |-> 0, entry |-> 0]

QueueInit ==
  /\ pending = <<>>
  /\ added = 0
  /\ decided = [x \in Arbiters |-> NothingDecided]
  /\ arbitrated = {}
  /\ rivals \in [1 .. 3 -> Contenders]

Add ==
  /\ added < MaxAdded
  /\ pending' = Append(pending, added + 1)
  /\ added' = added + 1
  /\ UNCHANGED <<decided, arbitrated, rivals>>

\* A position is an index of the list, counted from 1, or from the end if negative.
At(queue, position) == IF position < 0 THEN Len(queue) + 1 + position ELSE position

\* An arbiter has read the summary, and will name an entry of it.
DecideOn(x, position) ==
  /\ decided[x] = NothingDecided
  /\ At(pending, position) \in DOMAIN pending
  /\ decided' = [decided EXCEPT ![x] = [position |-> position,
                                       entry |-> pending[At(pending, position)]]]
  /\ UNCHANGED <<pending, added, arbitrated, rivals>>

\* Mutant: the last entry takes the place of the one that leaves.
WithoutSwapped(queue, position) ==
  [k \in 1 .. Len(queue) - 1 |-> IF k = position THEN queue[Len(queue)] ELSE queue[k]]

\* list.pop
Without(queue, position) ==
  [k \in 1 .. Len(queue) - 1 |-> IF k < position THEN queue[k] ELSE queue[k + 1]]

\* arbitrate: by position; the winner that is named goes nowhere.
Arbitrate(x) ==
  LET d == decided[x]
      at == At(pending, d.position)
  IN
  /\ d # NothingDecided
  /\ at \in DOMAIN pending
  /\ pending' = Without(pending, at)
  /\ arbitrated' = arbitrated \cup {[meant |-> d.entry, removed |-> pending[at],
                                     fromEnd |-> d.position < 0]}
  /\ decided' = [decided EXCEPT ![x] = NothingDecided]
  /\ UNCHANGED <<added, rivals>>

\* IndexError: another arbiter has been faster.
ArbitrateFails(x) ==
  /\ decided[x] # NothingDecided
  /\ At(pending, decided[x].position) \notin DOMAIN pending
  /\ decided' = [decided EXCEPT ![x] = NothingDecided]
  /\ UNCHANGED <<pending, added, arbitrated, rivals>>

QueueNext ==
  \/ Add
  \/ \E x \in Arbiters :
       \/ \E position \in -MaxAdded .. MaxAdded \ {0} : DecideOn(x, position)
       \/ Arbitrate(x)
       \/ ArbitrateFails(x)

QueueSpec == QueueInit /\ [][QueueNext]_queueVars

-----------------------------------------------------------------------------
(* Properties *)

\* Positions and entries are those of calls of add().
QueueTypeOK ==
  /\ added \in 0 .. MaxAdded
  /\ pending \in Seq(1 .. added)
  /\ decided \in [Arbiters -> [position : -added .. added, entry : 0 .. added]]
  /\ arbitrated \subseteq [meant : 1 .. added, removed : 1 .. added, fromEnd : BOOLEAN]
  /\ rivals \in [1 .. 3 -> Contenders]

\* Arbitration by position, decided on a list that has changed since, may remove
\* another conflict, but none that was added before the one that was meant, unless
\* the position is counted from the end; no conflict leaves the queue without an
\* arbitration, or is removed twice.
ArbitrationRemovesMeantOrLater ==
  /\ \A x \in arbitrated : x.meant <= x.removed \/ x.fromEnd
  /\ \A i, j \in DOMAIN pending : i < j => pending[i] < pending[j]
  /\ {x.removed : x \in arbitrated} = (1 .. added) \ {pending[i] : i \in DOMAIN pending}

\* Although clearly different confidences are no transitive relation: which claim
\* wins does not depend on the order of the arguments, and no three claims beat
\* one another in turn, so that some claim is beaten by none.
ResolutionAcyclic ==
  LET wins(i, j) == Resolve(rivals[i], rivals[j]) = "a" IN
  \A i, j, k \in DOMAIN rivals :
    /\ wins(i, j) <=> Resolve(rivals[j], rivals[i]) = "b"
    /\ ~(wins(i, j) /\ wins(j, k) /\ wins(k, i))
=============================================================================
