------------------------ MODULE FreedomVerifierProofs ------------------------
(***************************************************************************)
(* Theorems about the gate, for every set of agents, threads and plans, on *)
(* the live registry and on snapshots, and for every interleaving of the   *)
(* steps of verify() with one another, with mutations and with the clock.  *)
(*                                                                         *)
(* The inductive invariant is stated of one call c, the registry v that it *)
(* verifies against and the clock n, as constants: what a mutation or the  *)
(* clock may not disturb is then one lemma (CallInvStays), and each step   *)
(* of a call another.  From it follow what the results and the audit log   *)
(* say, and that the gate refines AuthorityGate (VerdictsAreAtomic).       *)
(***************************************************************************)
EXTENDS FreedomVerifier, OwnershipRegistryProofs

-----------------------------------------------------------------------------
(* The invariant *)

LiveRegistry == [claims |-> claims, machineOwners |-> machineOwners, conflicts |-> conflicts]

\* The registry that call c verifies against: View(t), for the call of thread t.
ViewOf(c) == IF c.registry = Live THEN LiveRegistry ELSE c.registry

\* The action that call c is verifying: CurrentAction(t).
ActionOf(c) == c.plan[Len(c.results) + 1]

\* The parts of TypeOK about a call in progress, and how far its step counter is.
WellFormed(c, v) ==
  /\ c \in Call
  /\ c.plan = <<>> => c.pc = "idle"
  /\ c.pc # "idle" =>
       /\ Len(c.results) < Len(c.plan)
       /\ c.held \subseteq DOMAIN v.claims
       /\ c.pc = "actor" => c.demand = 1
       /\ c.pc \in {"claims", "covers", "conflicts"} => c.demand \in DOMAIN ActionOf(c).demands
       /\ c.pc \in {"conclude", "record"} => c.demand = Len(ActionOf(c).demands) + 1

\* A verdict r on action a in registry v, which is a result or a call in progress,
\* is right about those demands in D that it does not deny ...
BackedOn(a, r, v, D) ==
  \A d \in D \ r.denied : Backed(v.claims, a.actor, a.demands[d], r)

\* ... and about those that it denies: no claim known before the call gives them ...
DeniedRightly(a, r, v, n) ==
  \A d \in r.denied : \A i \in 1 .. r.claimsBefore :
    ~GivesSince(v.claims[i], a.actor, a.demands[d], n)

\* ... and calls for arbitration where it must.
ArbitratedOn(a, r, v, D) ==
  \A d \in D \ r.denied :
    /\ a.demands[d].op = "write"
    /\ ~r.arbitration
    /\ \E k \in 1 .. r.conflictsBefore : v.conflicts[k].resource = a.demands[d].resource
    => \E i \in DOMAIN v.claims :
         /\ GivesSince(v.claims[i], a.actor, a.demands[d], r.begun)
         /\ v.claims[i].confidence >= Threshold

RightOn(a, r, v, n, D) ==
  /\ r.denied \subseteq D
  /\ r.claimsBefore <= Len(v.claims)
  /\ r.conflictsBefore <= Len(v.conflicts)
  /\ BackedOn(a, r, v, D)
  /\ DeniedRightly(a, r, v, n)
  /\ ArbitratedOn(a, r, v, D)

\* What the flags, A4 and A6 say of an action is on record in r.
ActorJudged(a, r, v) ==
  /\ "FORBIDDEN" \in r.violations <=> a.forbidden
  /\ r.violations = {} /\ a.actor \in Machines =>
       a.governs = {} /\ v.machineOwners[a.actor] # NoOwner

\* The demands that a call has answered for good, but for arbitration.
AnsweredBefore(c) == 1 .. c.demand - 1

\* A call in progress has judged its actor and its demands so far rightly.
Underway(c, v, n) ==
  LET a == ActionOf(c) IN
  /\ c.begun <= n
  /\ c.pc = "actor" => c.violations = {}
  /\ c.pc # "actor" => ActorJudged(a, c, v)
  /\ RightOn(a, c, v, n, AnsweredBefore(c))
  /\ c.pc = "covers" =>
       /\ \A i \in c.held : /\ v.claims[i].holder = a.actor
                            /\ v.claims[i].resource = a.demands[c.demand].resource
       /\ \A i \in 1 .. c.claimsBefore :
            GivesSince(v.claims[i], a.actor, a.demands[c.demand], n) => i \in c.held
  /\ c.pc = "conflicts" =>
       /\ a.demands[c.demand].op = "write"
       /\ Backed(v.claims, a.actor, a.demands[c.demand], c)

\* The result r of action a of a plan, with no forbidden action before it.
Sound(a, r, v, n) ==
  /\ RightOn(a, r, v, n, DOMAIN a.demands)
  /\ ActorJudged(a, r, v)
  /\ r.permitted <=> r.violations = {} /\ r.denied = {}
  /\ "CANCELLED" \notin r.violations

\* Result r on action a is the one that cancels what follows.
Cuts(a, r) == "CANCELLED" \notin r.violations /\ SaysForbidden(a, r)

\* The results of a call: each is sound, or cancelled after one that says FORBIDDEN;
\* before a call is over no result of it says so.
Concluded(c, v, n) ==
  /\ \A k \in DOMAIN c.results :
       LET cut == \E j \in 1 .. k - 1 : Cuts(c.plan[j], c.results[j])
       IN  /\ ~cut => Sound(c.plan[k], c.results[k], v, n)
           /\ cut => c.results[k] = CancelledResult
  /\ c.pc # "idle" => \A k \in DOMAIN c.results : ~Cuts(c.plan[k], c.results[k])
  /\ c.pc = "idle" => Len(c.results) = Len(c.plan)

CallInv(c, v, n) ==
  /\ WellFormed(c, v)
  /\ c.pc # "idle" => Underway(c, v, n)
  /\ Concluded(c, v, n)

VerifierInv ==
  /\ RegistryTypeOK
  /\ call \in [Threads -> Call]
  /\ \A t \in Threads : CallInv(call[t], ViewOf(call[t]), now)

-----------------------------------------------------------------------------
(* What a mutation of the registry, or the clock, leaves in place.          *)

\* Registry w is a later state of registry v.
Follows(w, v) ==
  /\ Continues(w.claims, v.claims)
  /\ Continues(w.conflicts, v.conflicts)
  /\ \A m \in Machines : v.machineOwners[m] # NoOwner => w.machineOwners[m] # NoOwner

\* A call in progress is at an action of a plan.
LEMMA ActionTyped ==
  ASSUME NEW c \in Call, Len(c.results) < Len(c.plan)
  PROVE  /\ c.plan \in Plans
         /\ Len(c.results) \in Nat /\ Len(c.plan) \in Nat
         /\ Len(c.results) + 1 \in DOMAIN c.plan
         /\ ActionOf(c) \in Action
         /\ Len(ActionOf(c).demands) \in Nat
         /\ DOMAIN ActionOf(c).demands = 1 .. Len(ActionOf(c).demands)
  <1>1. c.results \in Seq(Result) /\ c.plan \in Plans \cup {<<>>}
    BY DEF Call
  <1>2. Len(c.results) \in Nat
    BY <1>1, LenProperties
  <1>3. c.plan # <<>>
    BY <1>2, EmptySeq
  <1>4. c.plan \in Plans /\ c.plan \in Seq(Action)
    BY <1>1, <1>3, VerifierAssumption
  <1>5. Len(c.plan) \in Nat /\ DOMAIN c.plan = 1 .. Len(c.plan)
    BY <1>4, LenProperties
  <1>6. Len(c.results) + 1 \in 1 .. Len(c.plan)
    BY <1>2, <1>5
  <1>7. ActionOf(c) \in Action
    BY <1>4, <1>6, ElementOfSeq DEF ActionOf
  <1>8. ActionOf(c).demands \in Seq(Demand)
    BY <1>7 DEF Action
  <1> QED BY <1>2, <1>4, <1>5, <1>6, <1>7, <1>8, LenProperties

\* What a registry holds is typed.
LEMMA SnapshotTyped ==
  ASSUME NEW v \in Snapshot
  PROVE  /\ v.claims \in Seq(Claim) /\ v.conflicts \in Seq(ConflictRecord)
         /\ Len(v.claims) \in Nat /\ DOMAIN v.claims = 1 .. Len(v.claims)
         /\ Len(v.conflicts) \in Nat /\ DOMAIN v.conflicts = 1 .. Len(v.conflicts)
         /\ \A i \in DOMAIN v.claims :
              /\ v.claims[i] \in Claim
              /\ v.claims[i].confidence \in 0 .. 100
              /\ v.claims[i].expiresAt \in Nat \cup {NoExpiry}
  <1>1. v.claims \in Seq(Claim) /\ v.conflicts \in Seq(ConflictRecord)
    BY DEF Snapshot
  <1>2. \A i \in DOMAIN v.claims : v.claims[i] \in Claim
    BY <1>1, LenProperties, ElementOfSeq
  <1>3. \A x \in Claim : x.confidence \in 0 .. 100 /\ x.expiresAt \in Nat \cup {NoExpiry}
    <2>1. \A x \in Claim : x.confidence \in Confidences /\ x.expiresAt \in Lifetimes
      BY DEF Claim
    <2> QED BY <2>1, ConstantsAssumption
  <1> QED BY <1>1, <1>2, <1>3, LenProperties

\* A call verifies against a registry.
LEMMA ViewTyped ==
  ASSUME RegistryTypeOK, NEW c \in Call
  PROVE  ViewOf(c) \in Snapshot
  <1>1. LiveRegistry \in Snapshot
    BY DEF RegistryTypeOK, LiveRegistry, Snapshot
  <1>2. c.registry \in Snapshot \cup {Live}
    BY DEF Call
  <1> QED BY <1>1, <1>2 DEF ViewOf

\* What a claim gives at a later time it gave before.
LEMMA GivesBefore ==
  ASSUME NEW x \in Claim, NEW actor, NEW d, NEW n \in Nat, NEW m \in Nat, n <= m,
         GivesSince(x, actor, d, m)
  PROVE  GivesSince(x, actor, d, n)
  <1>1. x.expiresAt \in Nat \cup {NoExpiry}
    <2>1. x.expiresAt \in Lifetimes
      BY DEF Claim
    <2> QED BY <2>1, ConstantsAssumption
  <1>2. x.expiresAt = NoExpiry \/ x.expiresAt >= n
    BY <1>1 DEF GivesSince
  <1> QED BY <1>2 DEF GivesSince

\* What backs a demand backs it in a later registry.
LEMMA BackedStays ==
  ASSUME NEW v, NEW w, Follows(w, v), NEW actor, NEW d, NEW r, Backed(v.claims, actor, d, r)
  PROVE  Backed(w.claims, actor, d, r)
  BY DEF Backed, Follows, Continues

\* A verdict that is right is right in every later registry, at every later time.
LEMMA RightStays ==
  ASSUME NEW v \in Snapshot, NEW w \in Snapshot, Follows(w, v),
         NEW n \in Nat, NEW m \in Nat, n <= m,
         NEW a, NEW r, NEW D, r.claimsBefore \in Nat, r.conflictsBefore \in Nat,
         RightOn(a, r, v, n, D)
  PROVE  RightOn(a, r, w, m, D)
  <1>1. r.denied \subseteq D
    BY DEF RightOn
  <1>2. /\ Len(v.claims) \in Nat /\ Len(w.claims) \in Nat
        /\ Len(v.conflicts) \in Nat /\ Len(w.conflicts) \in Nat
        /\ v.claims \in Seq(Claim) /\ w.claims \in Seq(Claim)
        /\ v.conflicts \in Seq(ConflictRecord) /\ w.conflicts \in Seq(ConflictRecord)
    BY SnapshotTyped
  <1>3. Len(v.claims) <= Len(w.claims) /\ Len(v.conflicts) <= Len(w.conflicts)
    BY <1>2, ContinuedIsPrefix DEF Follows
  <1>4. r.claimsBefore <= Len(w.claims) /\ r.conflictsBefore <= Len(w.conflicts)
    BY <1>2, <1>3 DEF RightOn
  <1>5. \A i \in 1 .. r.claimsBefore : /\ i \in DOMAIN v.claims /\ i \in DOMAIN w.claims
                                       /\ w.claims[i] = v.claims[i] /\ v.claims[i] \in Claim
    <2>1. \A i \in 1 .. r.claimsBefore : i \in 1 .. Len(v.claims)
      BY <1>2 DEF RightOn
    <2> QED BY <2>1, SnapshotTyped DEF Follows, Continues
  <1>6. \A k \in 1 .. r.conflictsBefore : w.conflicts[k] = v.conflicts[k]
    <2>1. \A k \in 1 .. r.conflictsBefore : k \in DOMAIN v.conflicts
      BY SnapshotTyped DEF RightOn
    <2> QED BY <2>1 DEF Follows, Continues
  <1>7. BackedOn(a, r, w, D)
    BY BackedStays DEF RightOn, BackedOn
  <1>8. DeniedRightly(a, r, w, m)
    BY <1>5, GivesBefore DEF RightOn, DeniedRightly
  <1>9. ArbitratedOn(a, r, w, D)
    <2>1. \A i \in DOMAIN v.claims : i \in DOMAIN w.claims /\ w.claims[i] = v.claims[i]
      BY DEF Follows, Continues
    <2>2. ArbitratedOn(a, r, v, D)
      BY DEF RightOn
    <2> QED BY <1>6, <2>1, <2>2 DEF ArbitratedOn
  <1> QED BY <1>1, <1>4, <1>7, <1>8, <1>9 DEF RightOn

\* No mutation, and no time that passes, disturbs what is known of a call.
LEMMA CallInvStays ==
  ASSUME NEW v \in Snapshot, NEW w \in Snapshot, Follows(w, v),
         NEW n \in Nat, NEW m \in Nat, n <= m,
         NEW c, CallInv(c, v, n)
  PROVE  CallInv(c, w, m)
  <1>1. c \in Call /\ WellFormed(c, v) /\ Concluded(c, v, n)
    BY DEF CallInv, WellFormed
  <1>2. /\ \A i \in DOMAIN v.claims : i \in DOMAIN w.claims /\ w.claims[i] = v.claims[i]
        /\ \A i \in DOMAIN v.claims : v.claims[i] \in Claim
    BY SnapshotTyped DEF Follows, Continues
  <1>3. WellFormed(c, w)
    BY <1>1, <1>2 DEF WellFormed
  <1>4. ASSUME c.pc # "idle"
        PROVE  Underway(c, w, m)
    <2> DEFINE a == ActionOf(c)
    <2>1. /\ Underway(c, v, n) /\ c.held \subseteq DOMAIN v.claims
          /\ c.claimsBefore \in Nat /\ c.conflictsBefore \in Nat /\ c.begun \in Nat
          /\ Len(c.results) < Len(c.plan)
      BY <1>1, <1>4 DEF CallInv, WellFormed, Call
    <2>2. c.begun <= m
      BY <2>1 DEF Underway
    <2>3. c.pc # "actor" => ActorJudged(a, c, w)
      BY <2>1 DEF Underway, ActorJudged, Follows
    <2>4. RightOn(a, c, w, m, AnsweredBefore(c))
      BY <2>1, RightStays DEF Underway
    <2>5. ASSUME c.pc = "covers"
          PROVE  /\ \A i \in c.held : /\ w.claims[i].holder = a.actor
                                      /\ w.claims[i].resource = a.demands[c.demand].resource
                 /\ \A i \in 1 .. c.claimsBefore :
                      GivesSince(w.claims[i], a.actor, a.demands[c.demand], m) => i \in c.held
      <3>1. \A i \in 1 .. c.claimsBefore : i \in DOMAIN v.claims
        <4>1. c.claimsBefore <= Len(v.claims)
          BY <2>1 DEF Underway, RightOn
        <4> QED BY <2>1, <4>1, SnapshotTyped
      <3> QED BY <1>2, <2>1, <2>5, <3>1, GivesBefore DEF Underway
    <2>6. ASSUME c.pc = "conflicts"
          PROVE  /\ a.demands[c.demand].op = "write"
                 /\ Backed(w.claims, a.actor, a.demands[c.demand], c)
      BY <2>1, <2>6, BackedStays DEF Underway
    <2> QED BY <2>1, <2>2, <2>3, <2>4, <2>5, <2>6 DEF Underway
  <1>5. Concluded(c, w, m)
    <2> SUFFICES ASSUME NEW k \in DOMAIN c.results, Sound(c.plan[k], c.results[k], v, n)
                 PROVE  Sound(c.plan[k], c.results[k], w, m)
      BY <1>1 DEF Concluded
    <2>1. c.results[k] \in Result
      BY <1>1, LenProperties, ElementOfSeq DEF Call
    <2>2. c.results[k].claimsBefore \in Nat /\ c.results[k].conflictsBefore \in Nat
      BY <2>1 DEF Result
    <2>3. RightOn(c.plan[k], c.results[k], w, m, DOMAIN c.plan[k].demands)
      BY <2>2, RightStays DEF Sound
    <2>4. ActorJudged(c.plan[k], c.results[k], w)
      BY DEF Sound, ActorJudged, Follows
    <2> QED BY <2>3, <2>4 DEF Sound
  <1> QED BY <1>3, <1>4, <1>5 DEF CallInv

-----------------------------------------------------------------------------
(* The steps of a call, as what they do to the record of the call.          *)

\* A verdict is right by its findings, its confidence and what it knew.
LEMMA RightByFields ==
  ASSUME NEW a, NEW r, NEW q, NEW v, NEW n, NEW D,
         q.denied = r.denied, q.confidence = r.confidence, q.arbitration = r.arbitration,
         q.begun = r.begun, q.claimsBefore = r.claimsBefore,
         q.conflictsBefore = r.conflictsBefore, RightOn(a, r, v, n, D)
  PROVE  RightOn(a, q, v, n, D)
  <1>1. BackedOn(a, q, v, D)
    BY DEF RightOn, BackedOn, Backed
  <1>2. DeniedRightly(a, q, v, n) /\ ArbitratedOn(a, q, v, D)
    BY DEF RightOn, DeniedRightly, ArbitratedOn
  <1> QED BY <1>1, <1>2 DEF RightOn

\* An action that no demand of is answered yet has been judged rightly so far.
LEMMA RightOnNothing ==
  ASSUME NEW a, NEW r, NEW v, NEW n, r.denied = {},
         r.claimsBefore <= Len(v.claims), r.conflictsBefore <= Len(v.conflicts)
  PROVE  RightOn(a, r, v, n, {})
  BY DEF RightOn, BackedOn, DeniedRightly, ArbitratedOn

\* The three parts of what verify() does when it is entered.
LEMMA FreshFindings ==
  ASSUME NEW c \in Call,
         NEW e, e = [c EXCEPT !.pc = "actor", !.demand = 1, !.held = {}, !.violations = {},
                              !.denied = {}]
  PROVE  /\ e \in Call
         /\ e.pc = "actor" /\ e.demand = 1 /\ e.held = {} /\ e.violations = {} /\ e.denied = {}
         /\ e.plan = c.plan /\ e.results = c.results /\ e.registry = c.registry
  BY DEF Call

LEMMA FreshVerdict ==
  ASSUME NEW c \in Call,
         NEW e, e = [c EXCEPT !.confidence = 100, !.arbitration = FALSE, !.ts = 0]
  PROVE  /\ e \in Call
         /\ e.pc = c.pc /\ e.demand = c.demand /\ e.held = c.held
         /\ e.violations = c.violations /\ e.denied = c.denied
         /\ e.plan = c.plan /\ e.results = c.results /\ e.registry = c.registry
  <1>1. PICK i \in 0 .. 100, b \in BOOLEAN, k \in Nat : i = 100 /\ b = FALSE /\ k = 0
    <2>1. 100 \in 0 .. 100 /\ FALSE \in BOOLEAN /\ 0 \in Nat
      OBVIOUS
    <2> QED BY <2>1, Zenon
  <1>2. e = [c EXCEPT !.confidence = i, !.arbitration = b, !.ts = k]
    BY <1>1
  <1>3. e \in Call
    BY <1>2 DEF Call
  <1> QED BY <1>3 DEF Call

Stamped(c, i, j, k) == [c EXCEPT !.begun = i, !.claimsBefore = j, !.conflictsBefore = k]

LEMMA FreshHistory ==
  ASSUME NEW c \in Call, NEW i \in Nat, NEW j \in Nat, NEW k \in Nat
  PROVE  LET e == Stamped(c, i, j, k)
         IN  /\ e \in Call
             /\ e.pc = c.pc /\ e.demand = c.demand /\ e.held = c.held
             /\ e.violations = c.violations /\ e.denied = c.denied
             /\ e.plan = c.plan /\ e.results = c.results /\ e.registry = c.registry
             /\ e.begun = i /\ e.claimsBefore = j /\ e.conflictsBefore = k
  <1>1. Stamped(c, i, j, k) \in Call
    BY DEF Call, Stamped
  <1> QED BY <1>1 DEF Call, Stamped

\* verify() starts with fresh local variables.
LEMMA EnterFields ==
  ASSUME NEW c \in Call, NEW v \in Snapshot, now \in Nat, NEW e, e = Enter(c, v)
  PROVE  /\ e \in Call
         /\ e.pc = "actor" /\ e.demand = 1 /\ e.held = {} /\ e.violations = {} /\ e.denied = {}
         /\ e.begun = now
         /\ e.claimsBefore = Len(v.claims) /\ e.conflictsBefore = Len(v.conflicts)
         /\ e.plan = c.plan /\ e.results = c.results /\ e.registry = c.registry
  <1>1. PICK i \in Nat, j \in Nat, k \in Nat :
          i = now /\ j = Len(v.claims) /\ k = Len(v.conflicts)
    BY SnapshotTyped
  <1>2. PICK c1 : c1 = [c EXCEPT !.pc = "actor", !.demand = 1, !.held = {}, !.violations = {},
                                !.denied = {}]
    OBVIOUS
  <1>3. PICK c2 : c2 = [c1 EXCEPT !.confidence = 100, !.arbitration = FALSE, !.ts = 0]
    OBVIOUS
  <1>4. e = Stamped(c2, i, j, k)
    BY <1>1, <1>2, <1>3 DEF Enter, Stamped
  <1>5. /\ c1 \in Call
        /\ c1.pc = "actor" /\ c1.demand = 1 /\ c1.held = {} /\ c1.violations = {} /\ c1.denied = {}
        /\ c1.plan = c.plan /\ c1.results = c.results /\ c1.registry = c.registry
    BY <1>2, FreshFindings
  <1>6. /\ c2 \in Call
        /\ c2.pc = c1.pc /\ c2.demand = c1.demand /\ c2.held = c1.held
        /\ c2.violations = c1.violations /\ c2.denied = c1.denied
        /\ c2.plan = c1.plan /\ c2.results = c1.results /\ c2.registry = c1.registry
    BY <1>3, <1>5, FreshVerdict
  <1>7. /\ e \in Call
        /\ e.pc = c2.pc /\ e.demand = c2.demand /\ e.held = c2.held
        /\ e.violations = c2.violations /\ e.denied = c2.denied
        /\ e.plan = c2.plan /\ e.results = c2.results /\ e.registry = c2.registry
        /\ e.begun = i /\ e.claimsBefore = j /\ e.conflictsBefore = k
    <2>1. c2 \in Call /\ i \in Nat /\ j \in Nat /\ k \in Nat
      BY <1>1, <1>6
    <2>2. LET s == Stamped(c2, i, j, k)
          IN  /\ s \in Call
              /\ s.pc = c2.pc /\ s.demand = c2.demand /\ s.held = c2.held
              /\ s.violations = c2.violations /\ s.denied = c2.denied
              /\ s.plan = c2.plan /\ s.results = c2.results /\ s.registry = c2.registry
              /\ s.begun = i /\ s.claimsBefore = j /\ s.conflictsBefore = k
      BY <2>1, FreshHistory
    <2> QED BY <1>4, <2>2
  <1> QED BY <1>1, <1>5, <1>6, <1>7

\* In one step, call c goes on as call e, against the same registry.
StepsTo(c, e, v, n) == CallInv(e, v, n) /\ e.registry = c.registry

\* The next action of a plan is entered.
LEMMA EnterStep ==
  ASSUME NEW c \in Call, NEW v \in Snapshot, now \in Nat, Len(c.results) < Len(c.plan),
         \A k \in DOMAIN c.results :
           ~Cuts(c.plan[k], c.results[k]) /\ Sound(c.plan[k], c.results[k], v, now)
  PROVE  StepsTo(c, Enter(c, v), v, now)
  <1>1. PICK e : e = Enter(c, v)
    OBVIOUS
  <1>2. /\ e \in Call
        /\ e.pc = "actor" /\ e.demand = 1 /\ e.held = {} /\ e.violations = {} /\ e.denied = {}
        /\ e.begun = now
        /\ e.claimsBefore = Len(v.claims) /\ e.conflictsBefore = Len(v.conflicts)
        /\ e.plan = c.plan /\ e.results = c.results /\ e.registry = c.registry
    BY <1>1, EnterFields
  <1>3. WellFormed(e, v)
    <2>1. e.plan # <<>>
      BY <1>2, ActionTyped, EmptySeq, VerifierAssumption
    <2> QED BY <1>2, <2>1 DEF WellFormed
  <1>4. Underway(e, v, now)
    <2>1. AnsweredBefore(e) = {}
      BY <1>2 DEF AnsweredBefore
    <2>2. e.claimsBefore <= Len(v.claims) /\ e.conflictsBefore <= Len(v.conflicts)
      BY <1>2, SnapshotTyped
    <2>3. RightOn(ActionOf(e), e, v, now, AnsweredBefore(e))
      BY <1>2, <2>1, <2>2, RightOnNothing
    <2> QED BY <1>2, <2>3 DEF Underway
  <1>5. Concluded(e, v, now)
    <2>1. \A k \in DOMAIN c.results : \A j \in 1 .. k - 1 : j \in DOMAIN c.results
      <3>1. c.results \in Seq(Result)
        BY DEF Call
      <3>2. DOMAIN c.results = 1 .. Len(c.results) /\ Len(c.results) \in Nat
        BY <3>1, LenProperties
      <3> QED BY <3>2
    <2> QED BY <1>2, <2>1 DEF Concluded
  <1> QED BY <1>1, <1>2, <1>3, <1>4, <1>5 DEF CallInv, StepsTo

\* A call goes on with its next demand.
LEMMA ProceedFields ==
  ASSUME NEW c \in Call, NEW a
  PROVE  LET e == Proceed(c, a)
         IN  /\ e \in Call
             /\ e.pc = DemandOrEnd(a, c.demand + 1) /\ e.demand = c.demand + 1 /\ e.held = {}
             /\ e.plan = c.plan /\ e.results = c.results /\ e.registry = c.registry
             /\ e.violations = c.violations /\ e.denied = c.denied
             /\ e.confidence = c.confidence /\ e.arbitration = c.arbitration
             /\ e.begun = c.begun /\ e.claimsBefore = c.claimsBefore
             /\ e.conflictsBefore = c.conflictsBefore
  <1>1. PICK e : e = Proceed(c, a)
    OBVIOUS
  <1>2. c.demand + 1 \in Nat /\ DemandOrEnd(a, c.demand + 1) \in {"claims", "conclude"}
    BY DEF Call, DemandOrEnd
  <1>3. e = [c EXCEPT !.demand = c.demand + 1, !.held = {},
                      !.pc = DemandOrEnd(a, c.demand + 1)]
    BY <1>1 DEF Proceed, Call
  <1>4. e \in Call
    BY <1>2, <1>3 DEF Call
  <1>5. /\ e.pc = DemandOrEnd(a, c.demand + 1) /\ e.demand = c.demand + 1 /\ e.held = {}
        /\ e.plan = c.plan /\ e.results = c.results /\ e.registry = c.registry
        /\ e.violations = c.violations /\ e.denied = c.denied
        /\ e.confidence = c.confidence /\ e.arbitration = c.arbitration
        /\ e.begun = c.begun /\ e.claimsBefore = c.claimsBefore
        /\ e.conflictsBefore = c.conflictsBefore
    BY <1>3, <1>4 DEF Call
  <1> QED BY <1>1, <1>4, <1>5

\* A call that has judged its actor, and its demands up to the current one, goes on.
LEMMA ProceedStep ==
  ASSUME NEW c \in Call, NEW v \in Snapshot, NEW n,
         Len(c.results) < Len(c.plan), c.pc # "idle",
         c.demand \in DOMAIN ActionOf(c).demands, c.begun <= n,
         ActorJudged(ActionOf(c), c, v), RightOn(ActionOf(c), c, v, n, 1 .. c.demand),
         Concluded(c, v, n)
  PROVE  StepsTo(c, Proceed(c, ActionOf(c)), v, n)
  <1> DEFINE a == ActionOf(c)
  <1>1. PICK e : e = Proceed(c, a)
    OBVIOUS
  <1>2. /\ e \in Call
        /\ e.pc = DemandOrEnd(a, c.demand + 1) /\ e.demand = c.demand + 1 /\ e.held = {}
        /\ e.plan = c.plan /\ e.results = c.results /\ e.registry = c.registry
        /\ e.violations = c.violations /\ e.denied = c.denied
        /\ e.confidence = c.confidence /\ e.arbitration = c.arbitration
        /\ e.begun = c.begun /\ e.claimsBefore = c.claimsBefore
        /\ e.conflictsBefore = c.conflictsBefore
    BY <1>1, ProceedFields
  <1>3. /\ ActionOf(e) = a
        /\ Len(a.demands) \in Nat /\ DOMAIN a.demands = 1 .. Len(a.demands)
    BY <1>2, ActionTyped DEF ActionOf
  <1>4. \/ e.pc = "claims" /\ e.demand \in DOMAIN a.demands
        \/ e.pc = "conclude" /\ e.demand = Len(a.demands) + 1
    BY <1>2, <1>3 DEF DemandOrEnd
  <1>5. WellFormed(e, v)
    <2>1. e.plan # <<>>
      BY <1>2, ActionTyped, VerifierAssumption
    <2> QED BY <1>2, <1>3, <1>4, <2>1 DEF WellFormed
  <1>6. Underway(e, v, n)
    <2>1. AnsweredBefore(e) = 1 .. c.demand
      BY <1>2, <1>3 DEF AnsweredBefore
    <2>2. RightOn(a, e, v, n, AnsweredBefore(e))
      BY <1>2, <2>1, RightByFields
    <2>3. ActorJudged(a, e, v)
      BY <1>2 DEF ActorJudged
    <2> QED BY <1>2, <1>3, <1>4, <2>2, <2>3 DEF Underway
  <1>7. Concluded(e, v, n)
    BY <1>2, <1>4 DEF Concluded
  <1> QED BY <1>1, <1>2, <1>5, <1>6, <1>7 DEF CallInv, StepsTo

\* The plan, the verdict so far and the start of a call are left alone.
SamePlan(e, c) == e.plan = c.plan /\ e.results = c.results /\ e.registry = c.registry

SameVerdict(e, c) ==
  e.denied = c.denied /\ e.confidence = c.confidence /\ e.arbitration = c.arbitration

SameStart(e, c) ==
  /\ e.begun = c.begun
  /\ e.claimsBefore = c.claimsBefore /\ e.conflictsBefore = c.conflictsBefore

\* The actor of the action has been judged.
Judged(c, vs, p) == [c EXCEPT !.violations = vs, !.pc = p]

LEMMA JudgeFields ==
  ASSUME NEW c \in Call, NEW vs \in SUBSET {"FORBIDDEN", "A4", "A6"},
         NEW p \in {"claims", "conclude"}
  PROVE  LET e == Judged(c, vs, p)
         IN  /\ e \in Call /\ e.pc = p /\ e.violations = vs
             /\ e.demand = c.demand /\ e.held = c.held
             /\ SamePlan(e, c) /\ SameVerdict(e, c) /\ SameStart(e, c)
  <1>1. Judged(c, vs, p) \in Call
    BY DEF Call, Judged
  <1> QED BY <1>1 DEF Call, Judged, SamePlan, SameVerdict, SameStart

\* The claims of a demand have been read.
LEMMA HoldFields ==
  ASSUME NEW c \in Call, NEW h \in SUBSET Nat
  PROVE  LET e == [c EXCEPT !.held = h, !.pc = "covers"]
         IN  /\ e \in Call /\ e.pc = "covers" /\ e.held = h
             /\ e.demand = c.demand /\ e.violations = c.violations
             /\ SamePlan(e, c) /\ SameVerdict(e, c) /\ SameStart(e, c)
  <1>1. [c EXCEPT !.held = h, !.pc = "covers"] \in Call
    BY DEF Call
  <1> QED BY <1>1 DEF Call, SamePlan, SameVerdict, SameStart

\* A demand has been denied.
Denied(c, x, i) == [c EXCEPT !.denied = x, !.confidence = i]

LEMMA DenyFields ==
  ASSUME NEW c \in Call, NEW x \in SUBSET Nat, NEW i \in 0 .. 100
  PROVE  LET e == Denied(c, x, i)
         IN  /\ e \in Call /\ e.denied = x /\ e.confidence = i
             /\ e.pc = c.pc /\ e.demand = c.demand /\ e.held = c.held
             /\ e.violations = c.violations /\ e.arbitration = c.arbitration
             /\ SamePlan(e, c) /\ SameStart(e, c)
  <1>1. Denied(c, x, i) \in Call
    BY DEF Call, Denied
  <1> QED BY <1>1 DEF Call, Denied, SamePlan, SameStart

\* A demand has been backed by a claim.
Lowered(c, k) == [c EXCEPT !.confidence = k]

LEMMA LowerFields ==
  ASSUME NEW c \in Call, NEW i \in 0 .. 100
  PROVE  LET e == Lowered(c, i)
         IN  /\ e \in Call /\ e.confidence = i
             /\ e.pc = c.pc /\ e.demand = c.demand /\ e.held = c.held
             /\ e.violations = c.violations /\ e.denied = c.denied
             /\ e.arbitration = c.arbitration
             /\ SamePlan(e, c) /\ SameStart(e, c)
  <1>1. Lowered(c, i) \in Call
    BY DEF Call, Lowered
  <1> QED BY <1>1 DEF Call, Lowered, SamePlan, SameStart

\* A call goes to another of its steps.
LEMMA PcFields ==
  ASSUME NEW c \in Call, NEW p \in {"idle", "conflicts"}
  PROVE  LET e == [c EXCEPT !.pc = p]
         IN  /\ e \in Call /\ e.pc = p
             /\ e.demand = c.demand /\ e.held = c.held /\ e.violations = c.violations
             /\ SamePlan(e, c) /\ SameVerdict(e, c) /\ SameStart(e, c)
  <1>1. [c EXCEPT !.pc = p] \in Call
    BY DEF Call
  <1> QED BY <1>1 DEF Call, SamePlan, SameVerdict, SameStart

\* A call has concluded.
AtRecord(c, i) == [c EXCEPT !.pc = "record", !.ts = i]

LEMMA StampFields ==
  ASSUME NEW c \in Call, NEW i \in Nat
  PROVE  LET e == AtRecord(c, i)
         IN  /\ e \in Call /\ e.pc = "record" /\ e.ts = i
             /\ e.demand = c.demand /\ e.held = c.held /\ e.violations = c.violations
             /\ SamePlan(e, c) /\ SameVerdict(e, c) /\ SameStart(e, c)
  <1>1. AtRecord(c, i) \in Call
    BY DEF Call, AtRecord
  <1> QED BY <1>1 DEF Call, AtRecord, SamePlan, SameVerdict, SameStart

\* The conflicts have been read.
LEMMA ArbitrationFields ==
  ASSUME NEW c \in Call, NEW b \in BOOLEAN
  PROVE  LET e == [c EXCEPT !.arbitration = b]
         IN  /\ e \in Call /\ e.arbitration = b
             /\ e.pc = c.pc /\ e.demand = c.demand /\ e.held = c.held
             /\ e.violations = c.violations /\ e.denied = c.denied
             /\ e.confidence = c.confidence
             /\ SamePlan(e, c) /\ SameStart(e, c)
  <1>1. [c EXCEPT !.arbitration = b] \in Call
    BY DEF Call
  <1> QED BY <1>1 DEF Call, SamePlan, SameStart

\* The results have been extended.
LEMMA ResultsFields ==
  ASSUME NEW c \in Call, NEW rs \in Seq(Result)
  PROVE  LET e == [c EXCEPT !.results = rs]
         IN  /\ e \in Call /\ e.results = rs /\ e.plan = c.plan /\ e.registry = c.registry
             /\ e.pc = c.pc /\ e.violations = c.violations
  <1>1. [c EXCEPT !.results = rs] \in Call
    BY DEF Call
  <1> QED BY <1>1 DEF Call

\* The results so far and the current action depend on the plan only.
LEMMA SamePlanKept ==
  ASSUME NEW c, NEW e, NEW v, NEW n, SamePlan(e, c), c.pc # "idle", e.pc # "idle",
         Concluded(c, v, n)
  PROVE  Concluded(e, v, n) /\ ActionOf(e) = ActionOf(c)
  BY DEF SamePlan, Concluded, ActionOf

LEMMA ConfidenceOrder ==
  ASSUME NEW x \in 0 .. 100, NEW y \in 0 .. 100, NEW z \in 0 .. 100, x <= y, y <= z
  PROVE  x <= z
  OBVIOUS

\* A verdict stays right when its confidence drops or arbitration is called for.
LEMMA RightLowered ==
  ASSUME NEW a, NEW r, NEW q, NEW v \in Snapshot, NEW n, NEW D, RightOn(a, r, v, n, D),
         r.confidence \in 0 .. 100, q.confidence \in 0 .. 100, q.confidence <= r.confidence,
         q.denied = r.denied, r.arbitration => q.arbitration, SameStart(q, r)
  PROVE  RightOn(a, q, v, n, D)
  <1>1. ASSUME NEW d \in D \ r.denied
        PROVE  Backed(v.claims, a.actor, a.demands[d], q)
    <2>1. Backed(v.claims, a.actor, a.demands[d], r)
      BY DEF RightOn, BackedOn
    <2>2. \A i \in DOMAIN v.claims : v.claims[i].confidence \in 0 .. 100
      BY SnapshotTyped
    <2>3. \A i \in DOMAIN v.claims :
            r.confidence <= v.claims[i].confidence => q.confidence <= v.claims[i].confidence
      BY <2>2, ConfidenceOrder
    <2> QED BY <2>1, <2>3 DEF Backed, SameStart
  <1>2. BackedOn(a, q, v, D)
    BY <1>1 DEF BackedOn
  <1>3. DeniedRightly(a, q, v, n) /\ ArbitratedOn(a, q, v, D)
    BY DEF RightOn, DeniedRightly, ArbitratedOn, SameStart
  <1> QED BY <1>2, <1>3 DEF RightOn, SameStart

\* One more demand is answered: it is denied, and no claim gives it ...
LEMMA RightDenied ==
  ASSUME NEW a, NEW r, NEW q, NEW v \in Snapshot, NEW n, NEW d \in Nat, d >= 1,
         RightOn(a, r, v, n, 1 .. d - 1),
         r.confidence \in 0 .. 100, q.confidence \in 0 .. 100, q.confidence <= r.confidence,
         q.denied = r.denied \cup {d}, q.arbitration = r.arbitration, SameStart(q, r),
         \A i \in 1 .. r.claimsBefore : ~GivesSince(v.claims[i], a.actor, a.demands[d], n)
  PROVE  RightOn(a, q, v, n, 1 .. d)
  <1>1. 1 .. d = 1 .. d - 1 \cup {d} /\ d \notin 1 .. d - 1
    OBVIOUS
  <1>2. (1 .. d) \ q.denied = (1 .. d - 1) \ r.denied
    BY <1>1
  <1>3. BackedOn(a, q, v, 1 .. d)
    <2>1. ASSUME NEW k \in (1 .. d - 1) \ r.denied
          PROVE  Backed(v.claims, a.actor, a.demands[k], q)
      <3>1. Backed(v.claims, a.actor, a.demands[k], r)
        BY DEF RightOn, BackedOn
      <3>2. \A i \in DOMAIN v.claims : v.claims[i].confidence \in 0 .. 100
        BY SnapshotTyped
      <3>3. \A i \in DOMAIN v.claims :
              r.confidence <= v.claims[i].confidence => q.confidence <= v.claims[i].confidence
        BY <3>2, ConfidenceOrder
      <3> QED BY <3>1, <3>3 DEF Backed, SameStart
    <2> QED BY <1>2, <2>1 DEF BackedOn
  <1>4. DeniedRightly(a, q, v, n)
    BY DEF RightOn, DeniedRightly, SameStart
  <1>5. ArbitratedOn(a, q, v, 1 .. d)
    BY <1>2 DEF RightOn, ArbitratedOn, SameStart
  <1>6. q.denied \subseteq 1 .. d
    BY <1>1 DEF RightOn
  <1> QED BY <1>3, <1>4, <1>5, <1>6 DEF RightOn, SameStart

\* ... or it is backed, and a weak write on a resource in conflict is arbitrated.
LEMMA RightBacked ==
  ASSUME NEW a, NEW r, NEW v, NEW n, NEW d \in Nat, d >= 1,
         RightOn(a, r, v, n, 1 .. d - 1), Backed(v.claims, a.actor, a.demands[d], r),
         ArbitratedOn(a, r, v, {d})
  PROVE  RightOn(a, r, v, n, 1 .. d)
  <1>1. 1 .. d = 1 .. d - 1 \cup {d} /\ d \notin 1 .. d - 1
    OBVIOUS
  <1>2. d \notin r.denied /\ r.denied \subseteq 1 .. d
    BY <1>1 DEF RightOn
  <1>3. BackedOn(a, r, v, 1 .. d)
    BY <1>1 DEF RightOn, BackedOn
  <1>4. ArbitratedOn(a, r, v, 1 .. d)
    BY <1>1, <1>2 DEF RightOn, ArbitratedOn
  <1> QED BY <1>2, <1>3, <1>4 DEF RightOn

\* What is known of a call in progress.
LEMMA InProgress ==
  ASSUME NEW c, NEW v \in Snapshot, NEW n, CallInv(c, v, n), c.pc # "idle"
  PROVE  /\ c \in Call /\ Len(c.results) < Len(c.plan)
         /\ c.plan # <<>> /\ c.plan \in Plans /\ ActionOf(c) \in Action
         /\ Len(ActionOf(c).demands) \in Nat
         /\ DOMAIN ActionOf(c).demands = 1 .. Len(ActionOf(c).demands)
         /\ c.held \subseteq DOMAIN v.claims
         /\ c.demand \in Nat /\ c.confidence \in 0 .. 100 /\ c.begun \in Nat
         /\ c.arbitration \in BOOLEAN /\ c.denied \in SUBSET Nat
         /\ c.claimsBefore \in Nat /\ c.conflictsBefore \in Nat
         /\ Underway(c, v, n) /\ Concluded(c, v, n)
  <1>1. c \in Call /\ Len(c.results) < Len(c.plan) /\ c.held \subseteq DOMAIN v.claims
    BY DEF CallInv, WellFormed
  <1>2. c.plan # <<>>
    BY <1>1, ActionTyped, VerifierAssumption
  <1>3. /\ c.demand \in Nat /\ c.confidence \in 0 .. 100 /\ c.begun \in Nat
        /\ c.arbitration \in BOOLEAN /\ c.denied \in SUBSET Nat
        /\ c.claimsBefore \in Nat /\ c.conflictsBefore \in Nat
    BY <1>1 DEF Call
  <1>4. Underway(c, v, n) /\ Concluded(c, v, n)
    BY DEF CallInv
  <1> QED BY <1>1, <1>2, <1>3, <1>4, ActionTyped

\* The demand that a call is answering, and those before it.
LEMMA CurrentDemandTyped ==
  ASSUME NEW c, NEW v \in Snapshot, NEW n, CallInv(c, v, n),
         c.pc \in {"claims", "covers", "conflicts"}
  PROVE  /\ c.demand \in DOMAIN ActionOf(c).demands /\ c.demand \in Nat /\ c.demand >= 1
         /\ ActorJudged(ActionOf(c), c, v)
         /\ RightOn(ActionOf(c), c, v, n, 1 .. c.demand - 1)
  <1>1. c.pc # "idle" /\ c.pc # "actor"
    OBVIOUS
  <1>2. c.demand \in DOMAIN ActionOf(c).demands
    BY <1>1 DEF CallInv, WellFormed
  <1> QED BY <1>1, <1>2, InProgress DEF Underway, AnsweredBefore

\* CheckActor judges the actor by the flags, A4 and A6.
LEMMA CheckActorStep ==
  ASSUME NEW c, NEW v \in Snapshot, NEW n \in Nat, CallInv(c, v, n), c.pc = "actor"
  PROVE  StepsTo(c, Judged(c, ActorViolations(ActionOf(c), v.machineOwners),
                         DemandOrEnd(ActionOf(c), 1)), v, n)
  <1> DEFINE a == ActionOf(c)
             e == Judged(c, ActorViolations(a, v.machineOwners), DemandOrEnd(a, 1))
  <1>1. /\ c \in Call /\ Len(c.results) < Len(c.plan) /\ c.plan # <<>>
        /\ Len(a.demands) \in Nat /\ DOMAIN a.demands = 1 .. Len(a.demands)
        /\ c.held \subseteq DOMAIN v.claims
        /\ Underway(c, v, n) /\ Concluded(c, v, n)
    BY InProgress
  <1>2. c.demand = 1 /\ AnsweredBefore(c) = {}
    BY <1>1 DEF CallInv, WellFormed, AnsweredBefore
  <1>3. /\ ActorViolations(a, v.machineOwners) \in SUBSET {"FORBIDDEN", "A4", "A6"}
        /\ DemandOrEnd(a, 1) \in {"claims", "conclude"}
    BY DEF ActorViolations, DemandOrEnd
  <1>4. /\ e \in Call /\ e.pc = DemandOrEnd(a, 1)
        /\ e.violations = ActorViolations(a, v.machineOwners)
        /\ e.demand = c.demand /\ e.held = c.held
        /\ SamePlan(e, c) /\ SameVerdict(e, c) /\ SameStart(e, c)
    BY <1>1, <1>3, JudgeFields
  <1> HIDE DEF e
  <1>5. Concluded(e, v, n) /\ ActionOf(e) = a
    <2>1. c.pc # "idle" /\ e.pc # "idle"
      BY <1>3, <1>4
    <2> QED BY <1>1, <1>4, <2>1, SamePlanKept
  <1>6. \/ e.pc = "claims" /\ e.demand \in DOMAIN a.demands
        \/ e.pc = "conclude" /\ e.demand = Len(a.demands) + 1
    BY <1>1, <1>2, <1>4 DEF DemandOrEnd
  <1>7. WellFormed(e, v)
    BY <1>1, <1>4, <1>5, <1>6 DEF WellFormed, SamePlan
  <1>8. ActorJudged(a, e, v)
    BY <1>4, Zenon DEF ActorJudged, ActorViolations
  <1>9. RightOn(a, e, v, n, AnsweredBefore(e))
    <2>1. AnsweredBefore(e) = AnsweredBefore(c)
      BY <1>4 DEF AnsweredBefore
    <2> QED BY <1>1, <1>4, <2>1, RightByFields DEF Underway, SameVerdict, SameStart
  <1>10. Underway(e, v, n)
    BY <1>1, <1>4, <1>5, <1>6, <1>8, <1>9 DEF Underway, SameStart
  <1> QED BY <1>4, <1>5, <1>7, <1>10 DEF CallInv, StepsTo, SamePlan, e

\* ReadPublic: anyone may read a public resource.
LEMMA ReadPublicStep ==
  ASSUME NEW c, NEW v \in Snapshot, NEW n \in Nat, CallInv(c, v, n), c.pc = "claims",
         PublicRead(ActionOf(c).demands[c.demand].resource, ActionOf(c).demands[c.demand].op)
  PROVE  StepsTo(c, Proceed(c, ActionOf(c)), v, n)
  <1> DEFINE a == ActionOf(c)
  <1>1. /\ c \in Call /\ Len(c.results) < Len(c.plan) /\ c.begun <= n /\ Concluded(c, v, n)
        /\ c.pc # "idle"
    BY InProgress DEF Underway
  <1>2. /\ c.demand \in DOMAIN a.demands /\ c.demand \in Nat /\ c.demand >= 1
        /\ ActorJudged(a, c, v) /\ RightOn(a, c, v, n, 1 .. c.demand - 1)
    BY CurrentDemandTyped
  <1>3. Backed(v.claims, a.actor, a.demands[c.demand], c)
    BY DEF Backed
  <1>4. ArbitratedOn(a, c, v, {c.demand})
    BY DEF ArbitratedOn, PublicRead
  <1>5. RightOn(a, c, v, n, 1 .. c.demand)
    BY <1>2, <1>3, <1>4, RightBacked
  <1> QED BY <1>1, <1>2, <1>5, ProceedStep

\* ReadClaims reads every claim that gives the demand now.
LEMMA ReadClaimsStep ==
  ASSUME NEW c, NEW v \in Snapshot, now \in Nat, CallInv(c, v, now), c.pc = "claims"
  PROVE  StepsTo(c, [c EXCEPT !.held = ClaimsFor(v.claims, ActionOf(c).actor,
                                              ActionOf(c).demands[c.demand].resource),
                           !.pc = "covers"], v, now)
  <1> DEFINE a == ActionOf(c)
             h == ClaimsFor(v.claims, a.actor, a.demands[c.demand].resource)
             e == [c EXCEPT !.held = h, !.pc = "covers"]
  <1>1. /\ c \in Call /\ Len(c.results) < Len(c.plan) /\ c.plan # <<>>
        /\ Underway(c, v, now) /\ Concluded(c, v, now) /\ c.pc # "idle"
        /\ c.demand \in DOMAIN a.demands /\ c.claimsBefore \in Nat
        /\ ActorJudged(a, c, v) /\ RightOn(a, c, v, now, AnsweredBefore(c))
    BY InProgress, CurrentDemandTyped DEF AnsweredBefore
  <1>2. h \subseteq DOMAIN v.claims /\ h \in SUBSET Nat
    BY SnapshotTyped DEF ClaimsFor
  <1>3. /\ e \in Call /\ e.pc = "covers" /\ e.held = h
        /\ e.demand = c.demand /\ e.violations = c.violations
        /\ SamePlan(e, c) /\ SameVerdict(e, c) /\ SameStart(e, c)
    BY <1>1, <1>2, HoldFields
  <1> HIDE DEF e
  <1>4. Concluded(e, v, now) /\ ActionOf(e) = a
    <2>1. e.pc # "idle"
      BY <1>3
    <2> QED BY <1>1, <1>3, <2>1, SamePlanKept
  <1>5. WellFormed(e, v)
    BY <1>1, <1>2, <1>3, <1>4 DEF WellFormed, SamePlan
  <1>6. RightOn(a, e, v, now, AnsweredBefore(e))
    <2>1. AnsweredBefore(e) = AnsweredBefore(c)
      BY <1>3 DEF AnsweredBefore
    <2> QED BY <1>1, <1>3, <2>1, RightByFields DEF SameVerdict, SameStart
  <1>7. /\ \A i \in h : /\ v.claims[i].holder = a.actor
                        /\ v.claims[i].resource = a.demands[c.demand].resource
        /\ \A i \in 1 .. c.claimsBefore :
             GivesSince(v.claims[i], a.actor, a.demands[c.demand], now) => i \in h
    <2>1. \A i \in 1 .. c.claimsBefore : i \in DOMAIN v.claims
      BY <1>1, SnapshotTyped DEF RightOn
    <2>2. \A i \in DOMAIN v.claims :
            v.claims[i].expiresAt = NoExpiry \/ v.claims[i].expiresAt >= now
            => ~IsExpired(v.claims[i])
      BY SnapshotTyped DEF IsExpired
    <2>3. ASSUME NEW i \in 1 .. c.claimsBefore,
                 GivesSince(v.claims[i], a.actor, a.demands[c.demand], now)
          PROVE  i \in h
      BY <2>1, <2>2, <2>3 DEF GivesSince, ClaimsFor, IsValid
    <2> QED BY <2>3 DEF ClaimsFor
  <1>8. Underway(e, v, now)
    <2>1. ActorJudged(a, e, v) /\ e.begun <= now
      BY <1>1, <1>3 DEF ActorJudged, Underway, SameStart
    <2> QED BY <1>3, <1>4, <1>6, <1>7, <2>1 DEF Underway, SameStart
  <1> QED BY <1>3, <1>4, <1>5, <1>8 DEF CallInv, StepsTo, SamePlan, e

\* WeighClaims, when no claim read covers the operation any more: no claim that
\* was there when verify() was entered gives it now.
LEMMA DenyStep ==
  ASSUME NEW c, NEW v \in Snapshot, now \in Nat, CallInv(c, v, now), c.pc = "covers",
         \A i \in c.held : ~Covers(v.claims[i], ActionOf(c).demands[c.demand].op)
  PROVE  StepsTo(c, Proceed(Denied(c, c.denied \cup {c.demand}, 0),
                         ActionOf(c)), v, now)
  <1> DEFINE a == ActionOf(c)
             x == c.denied \cup {c.demand}
             e == Denied(c, x, 0)
  <1>1. /\ c \in Call /\ Len(c.results) < Len(c.plan) /\ c.held \subseteq DOMAIN v.claims
        /\ Underway(c, v, now) /\ Concluded(c, v, now) /\ c.pc # "idle" /\ c.pc = "covers"
        /\ c.demand \in DOMAIN a.demands /\ c.demand \in Nat /\ c.demand >= 1
        /\ ActorJudged(a, c, v) /\ RightOn(a, c, v, now, 1 .. c.demand - 1)
        /\ c.denied \in SUBSET Nat /\ c.confidence \in 0 .. 100 /\ c.claimsBefore \in Nat
    BY InProgress, CurrentDemandTyped
  <1>2. x \in SUBSET Nat /\ 0 \in 0 .. 100
    BY <1>1
  <1>3. /\ e \in Call /\ e.denied = x /\ e.confidence = 0
        /\ e.pc = c.pc /\ e.demand = c.demand /\ e.held = c.held
        /\ e.violations = c.violations /\ e.arbitration = c.arbitration
        /\ SamePlan(e, c) /\ SameStart(e, c)
    BY <1>1, <1>2, DenyFields
  <1> HIDE DEF e
  <1>4. Concluded(e, v, now) /\ ActionOf(e) = a
    BY <1>1, <1>3, SamePlanKept
  <1>5. \A i \in 1 .. c.claimsBefore : ~GivesSince(v.claims[i], a.actor, a.demands[c.demand], now)
    <2> SUFFICES ASSUME NEW i \in 1 .. c.claimsBefore,
                        GivesSince(v.claims[i], a.actor, a.demands[c.demand], now)
                 PROVE  FALSE
      OBVIOUS
    <2>1. i \in c.held /\ i \in DOMAIN v.claims
      BY <1>1 DEF Underway
    <2>2. ~IsExpired(v.claims[i])
      BY <2>1, SnapshotTyped DEF GivesSince, IsExpired
    <2> QED BY <2>1, <2>2 DEF GivesSince, Covers, IsValid
  <1>6. RightOn(a, e, v, now, 1 .. c.demand)
    <2>1. \A y \in 0 .. 100 : 0 <= y /\ 0 \in 0 .. 100
      OBVIOUS
    <2>2. e.confidence <= c.confidence /\ e.confidence \in 0 .. 100
      BY <1>1, <1>3, <2>1
    <2> QED BY <1>1, <1>3, <1>5, <2>2, RightDenied
  <1>7. ActorJudged(a, e, v)
    BY <1>1, <1>3 DEF ActorJudged
  <1>8. Len(e.results) < Len(e.plan) /\ e.begun <= now
    BY <1>1, <1>3 DEF SamePlan, SameStart, Underway
  <1>9. StepsTo(e, Proceed(e, ActionOf(e)), v, now)
    BY <1>1, <1>3, <1>4, <1>6, <1>7, <1>8, ProceedStep
  <1> QED BY <1>3, <1>4, <1>9 DEF e, StepsTo, SamePlan

LEMMA LowerOfTwo ==
  ASSUME NEW x \in 0 .. 100, NEW y \in 0 .. 100
  PROVE  Lower(x, y) \in 0 .. 100 /\ Lower(x, y) <= x /\ Lower(x, y) <= y
  BY DEF Lower

\* WeighClaims, when a claim read still covers the operation: that claim backs it,
\* and the confidence of the call is not above that claim's any more.
LEMMA BestBacks ==
  ASSUME NEW c, NEW v \in Snapshot, now \in Nat, CallInv(c, v, now), c.pc = "covers",
         NEW best \in c.held, Covers(v.claims[best], ActionOf(c).demands[c.demand].op)
  PROVE  LET e == Lowered(c, Lower(c.confidence, v.claims[best].confidence))
             a == ActionOf(c)
             d == a.demands[c.demand]
         IN  /\ e \in Call /\ Len(e.results) < Len(e.plan) /\ e.pc = "covers"
             /\ e.held = c.held /\ e.demand = c.demand /\ SamePlan(e, c)
             /\ c.demand \in DOMAIN a.demands
             /\ e.begun <= now /\ ActionOf(e) = a
             /\ Concluded(e, v, now) /\ ActorJudged(a, e, v)
             /\ RightOn(a, e, v, now, 1 .. c.demand - 1)
             /\ Backed(v.claims, a.actor, d, e)
             /\ GivesSince(v.claims[best], a.actor, d, e.begun)
  <1> DEFINE a == ActionOf(c)
             k == Lower(c.confidence, v.claims[best].confidence)
             e == Lowered(c, k)
  <1>1. /\ c \in Call /\ Len(c.results) < Len(c.plan) /\ c.held \subseteq DOMAIN v.claims
        /\ Underway(c, v, now) /\ Concluded(c, v, now) /\ c.pc # "idle" /\ c.pc = "covers"
        /\ c.demand \in DOMAIN a.demands /\ c.demand \in Nat /\ c.demand >= 1
        /\ ActorJudged(a, c, v) /\ RightOn(a, c, v, now, 1 .. c.demand - 1)
        /\ c.confidence \in 0 .. 100 /\ c.begun \in Nat
    BY InProgress, CurrentDemandTyped
  <1>2. /\ best \in DOMAIN v.claims /\ v.claims[best].confidence \in 0 .. 100
        /\ v.claims[best].expiresAt \in Nat \cup {NoExpiry}
    BY <1>1, SnapshotTyped
  <1>3. k \in 0 .. 100 /\ k <= c.confidence /\ k <= v.claims[best].confidence
    BY <1>1, <1>2, LowerOfTwo
  <1> HIDE DEF k
  <1>5. /\ e \in Call /\ e.confidence = k
        /\ e.pc = c.pc /\ e.demand = c.demand /\ e.held = c.held
        /\ e.violations = c.violations /\ e.denied = c.denied
        /\ e.arbitration = c.arbitration
        /\ SamePlan(e, c) /\ SameStart(e, c)
    BY <1>1, <1>3, LowerFields
  <1> HIDE DEF e
  <1>6. Concluded(e, v, now) /\ ActionOf(e) = a
    BY <1>1, <1>5, SamePlanKept
  <1>7. RightOn(a, e, v, now, 1 .. c.demand - 1)
    BY <1>1, <1>3, <1>5, RightLowered
  <1>8. GivesSince(v.claims[best], a.actor, a.demands[c.demand], c.begun)
    <2>1. v.claims[best].expiresAt = NoExpiry \/ v.claims[best].expiresAt >= now
      BY <1>2 DEF Covers, IsValid, IsExpired
    <2>2. v.claims[best].expiresAt = NoExpiry \/ v.claims[best].expiresAt >= c.begun
      BY <1>1, <1>2, <2>1 DEF Underway
    <2> QED BY <1>1, <2>2 DEF GivesSince, Covers, IsValid, Underway
  <1>9. Backed(v.claims, a.actor, a.demands[c.demand], e)
    BY <1>2, <1>3, <1>5, <1>8 DEF Backed, SameStart
  <1>10. ActorJudged(a, e, v)
    BY <1>1, <1>5 DEF ActorJudged
  <1>11. Len(e.results) < Len(e.plan) /\ e.begun <= now /\ e.begun = c.begun
    BY <1>1, <1>5 DEF SamePlan, SameStart, Underway
  <1> QED BY <1>1, <1>5, <1>6, <1>7, <1>8, <1>9, <1>10, <1>11 DEF e, k

\* ... and a call whose best claim is not a weak one for a write goes on, ...
LEMMA PermitStep ==
  ASSUME NEW c, NEW v \in Snapshot, now \in Nat, CallInv(c, v, now), c.pc = "covers",
         NEW best \in c.held, Covers(v.claims[best], ActionOf(c).demands[c.demand].op),
         ~(/\ ActionOf(c).demands[c.demand].op = "write"
           /\ v.claims[best].confidence < Threshold)
  PROVE  StepsTo(c, Proceed(Lowered(c, Lower(c.confidence, v.claims[best].confidence)),
                         ActionOf(c)), v, now)
  <1> DEFINE a == ActionOf(c)
  <1>1. PICK e : e = Lowered(c, Lower(c.confidence, v.claims[best].confidence))
    OBVIOUS
  <1>2. /\ e \in Call /\ Len(e.results) < Len(e.plan) /\ e.pc = "covers"
        /\ e.demand = c.demand /\ SamePlan(e, c)
        /\ e.demand \in DOMAIN a.demands /\ e.begun <= now /\ ActionOf(e) = a
        /\ Concluded(e, v, now) /\ ActorJudged(a, e, v)
        /\ RightOn(a, e, v, now, 1 .. e.demand - 1)
        /\ Backed(v.claims, a.actor, a.demands[e.demand], e)
        /\ GivesSince(v.claims[best], a.actor, a.demands[e.demand], e.begun)
    BY <1>1, BestBacks
  <1>3. e.demand \in Nat /\ e.demand >= 1 /\ best \in DOMAIN v.claims
    BY <1>2, CurrentDemandTyped, InProgress
  <1>4. ArbitratedOn(a, e, v, {e.demand})
    <2>1. v.claims[best].confidence \in 0 .. 100
      BY <1>3, SnapshotTyped
    <2>2. a.demands[e.demand].op = "write" => v.claims[best].confidence >= Threshold
      <3>1. \A y \in 0 .. 100 : ~(y < Threshold) => y >= Threshold
        BY DEF Threshold
      <3> QED BY <1>2, <2>1, <3>1
    <2> QED BY <1>2, <1>3, <2>2 DEF ArbitratedOn
  <1>5. RightOn(a, e, v, now, 1 .. e.demand)
    BY <1>2, <1>3, <1>4, RightBacked
  <1> QED BY <1>1, <1>2, <1>5, ProceedStep DEF StepsTo, SamePlan

\* ... while the others look for conflicts.
LEMMA ContestStep ==
  ASSUME NEW c, NEW v \in Snapshot, now \in Nat, CallInv(c, v, now), c.pc = "covers",
         NEW best \in c.held, Covers(v.claims[best], ActionOf(c).demands[c.demand].op),
         ActionOf(c).demands[c.demand].op = "write"
  PROVE  StepsTo(c, [Lowered(c, Lower(c.confidence, v.claims[best].confidence))
                    EXCEPT !.pc = "conflicts"], v, now)
  <1> DEFINE a == ActionOf(c)
  <1>1. PICK f : f = Lowered(c, Lower(c.confidence, v.claims[best].confidence))
    OBVIOUS
  <1>2. /\ f \in Call /\ Len(f.results) < Len(f.plan) /\ f.pc = "covers" /\ f.held = c.held
        /\ f.demand = c.demand /\ SamePlan(f, c)
        /\ f.demand \in DOMAIN a.demands /\ f.begun <= now /\ ActionOf(f) = a
        /\ Concluded(f, v, now) /\ ActorJudged(a, f, v)
        /\ RightOn(a, f, v, now, 1 .. f.demand - 1)
        /\ Backed(v.claims, a.actor, a.demands[f.demand], f)
    BY <1>1, BestBacks
  <1>3. PICK e : e = [f EXCEPT !.pc = "conflicts"]
    OBVIOUS
  <1>4. /\ e \in Call /\ e.pc = "conflicts" /\ e.demand = f.demand /\ e.held = f.held
        /\ e.violations = f.violations
        /\ SamePlan(e, f) /\ SameVerdict(e, f) /\ SameStart(e, f)
    BY <1>2, <1>3, PcFields
  <1>5. Concluded(e, v, now) /\ ActionOf(e) = a
    BY <1>2, <1>4, SamePlanKept
  <1>6. WellFormed(e, v)
    BY <1>2, <1>4, <1>5, InProgress, ActionTyped, VerifierAssumption DEF WellFormed, SamePlan
  <1>7. RightOn(a, e, v, now, AnsweredBefore(e))
    BY <1>2, <1>4, RightByFields DEF AnsweredBefore, SameVerdict, SameStart
  <1>8. Backed(v.claims, a.actor, a.demands[e.demand], e)
    BY <1>2, <1>4 DEF Backed, SameVerdict, SameStart
  <1>9. ActorJudged(a, e, v) /\ e.begun <= now
    BY <1>2, <1>4 DEF ActorJudged, SameStart
  <1>10. Underway(e, v, now)
    BY <1>2, <1>4, <1>5, <1>7, <1>8, <1>9 DEF Underway
  <1> QED BY <1>1, <1>2, <1>3, <1>4, <1>5, <1>6, <1>10 DEF CallInv, StepsTo, SamePlan

\* ScanConflicts calls for arbitration if the resource is in conflict.
LEMMA ScanStep ==
  ASSUME NEW c, NEW v \in Snapshot, NEW n \in Nat, CallInv(c, v, n), c.pc = "conflicts",
         NEW b \in BOOLEAN,
         b = (c.arbitration
              \/ OnResource(v.conflicts, ActionOf(c).demands[c.demand].resource))
  PROVE  StepsTo(c, Proceed([c EXCEPT !.arbitration = b], ActionOf(c)), v, n)
  <1> DEFINE a == ActionOf(c)
             e == [c EXCEPT !.arbitration = b]
  <1>1. /\ c \in Call /\ Len(c.results) < Len(c.plan) /\ c.pc # "idle"
        /\ Underway(c, v, n) /\ Concluded(c, v, n)
        /\ c.demand \in DOMAIN a.demands /\ c.demand \in Nat /\ c.demand >= 1
        /\ ActorJudged(a, c, v) /\ RightOn(a, c, v, n, 1 .. c.demand - 1)
        /\ c.confidence \in 0 .. 100 /\ c.conflictsBefore \in Nat
    BY InProgress, CurrentDemandTyped
  <1>2. /\ e \in Call /\ e.arbitration = b
        /\ e.pc = c.pc /\ e.demand = c.demand /\ e.held = c.held
        /\ e.violations = c.violations /\ e.denied = c.denied
        /\ e.confidence = c.confidence
        /\ SamePlan(e, c) /\ SameStart(e, c)
    BY <1>1, ArbitrationFields
  <1> HIDE DEF e
  <1>3. Concluded(e, v, n) /\ ActionOf(e) = a
    BY <1>1, <1>2, SamePlanKept
  <1>4. RightOn(a, e, v, n, 1 .. c.demand - 1)
    <2>1. \A y \in 0 .. 100 : y <= y
      OBVIOUS
    <2>2. e.confidence \in 0 .. 100 /\ e.confidence <= c.confidence
      BY <1>1, <1>2, <2>1
    <2> QED BY <1>1, <1>2, <2>2, RightLowered
  <1>5. Backed(v.claims, a.actor, a.demands[c.demand], e)
    BY <1>1, <1>2 DEF Underway, Backed, SameStart
  <1>6. ArbitratedOn(a, e, v, {c.demand})
    <2>1. c.conflictsBefore <= Len(v.conflicts)
      BY <1>1 DEF RightOn
    <2>2. \A k \in 1 .. c.conflictsBefore : k \in DOMAIN v.conflicts
      BY <1>1, <2>1, SnapshotTyped
    <2> QED BY <1>2, <2>2 DEF ArbitratedOn, OnResource, SameStart
  <1>7. RightOn(a, e, v, n, 1 .. c.demand)
    BY <1>1, <1>4, <1>5, <1>6, RightBacked
  <1>8. ActorJudged(a, e, v) /\ Len(e.results) < Len(e.plan) /\ e.begun <= n
    BY <1>1, <1>2 DEF ActorJudged, SamePlan, SameStart, Underway
  <1>9. StepsTo(e, Proceed(e, ActionOf(e)), v, n)
    BY <1>1, <1>2, <1>3, <1>7, <1>8, ProceedStep
  <1> QED BY <1>2, <1>3, <1>9 DEF e, StepsTo, SamePlan

\* Conclude leaves the verdict as it is.
LEMMA ConcludeStep ==
  ASSUME NEW c, NEW v \in Snapshot, NEW n \in Nat, CallInv(c, v, n), c.pc = "conclude"
  PROVE  StepsTo(c, AtRecord(c, n), v, n)
  <1> DEFINE a == ActionOf(c)
             e == AtRecord(c, n)
  <1>1. /\ c \in Call /\ Len(c.results) < Len(c.plan) /\ c.plan # <<>>
        /\ c.held \subseteq DOMAIN v.claims
        /\ Underway(c, v, n) /\ Concluded(c, v, n) /\ c.pc # "idle"
        /\ c.demand = Len(a.demands) + 1
    BY InProgress DEF CallInv, WellFormed
  <1>2. /\ e \in Call /\ e.pc = "record"
        /\ e.demand = c.demand /\ e.held = c.held /\ e.violations = c.violations
        /\ SamePlan(e, c) /\ SameVerdict(e, c) /\ SameStart(e, c)
    BY <1>1, StampFields
  <1> HIDE DEF e
  <1>3. Concluded(e, v, n) /\ ActionOf(e) = a
    BY <1>1, <1>2, SamePlanKept
  <1>4. WellFormed(e, v)
    BY <1>1, <1>2, <1>3 DEF WellFormed, SamePlan
  <1>5. RightOn(a, e, v, n, AnsweredBefore(e))
    <2>1. AnsweredBefore(e) = AnsweredBefore(c)
      BY <1>2 DEF AnsweredBefore
    <2> QED BY <1>1, <1>2, <2>1, RightByFields DEF Underway, SameVerdict, SameStart
  <1>6. ActorJudged(a, e, v) /\ e.begun <= n
    BY <1>1, <1>2 DEF ActorJudged, SameStart, Underway
  <1>7. Underway(e, v, n)
    BY <1>2, <1>3, <1>5, <1>6 DEF Underway
  <1> QED BY <1>2, <1>3, <1>4, <1>7 DEF CallInv, StepsTo, SamePlan, e

\* The result of a call that has concluded is sound.
LEMMA ResultSound ==
  ASSUME NEW c, NEW v \in Snapshot, NEW n \in Nat, CallInv(c, v, n), c.pc = "record"
  PROVE  /\ ResultOf(c) \in Result
         /\ Sound(ActionOf(c), ResultOf(c), v, n)
  <1> DEFINE a == ActionOf(c)
             r == ResultOf(c)
  <1>1. /\ c \in Call /\ Underway(c, v, n) /\ c.demand = Len(a.demands) + 1
        /\ Len(a.demands) \in Nat /\ DOMAIN a.demands = 1 .. Len(a.demands)
    BY InProgress DEF CallInv, WellFormed
  <1>2. c.violations \in SUBSET {"FORBIDDEN", "A4", "A6"}
    BY <1>1 DEF Call
  <1>3. r \in Result
    <2>1. c.violations \in SUBSET {"FORBIDDEN", "A4", "A6", "CANCELLED"}
      BY <1>2
    <2>2. /\ c.denied \in SUBSET Nat /\ c.confidence \in 0 .. 100 /\ c.arbitration \in BOOLEAN
          /\ c.begun \in Nat /\ c.claimsBefore \in Nat /\ c.conflictsBefore \in Nat
      BY <1>1 DEF Call
    <2>3. (c.violations = {} /\ c.denied = {}) \in BOOLEAN
      OBVIOUS
    <2> QED BY <2>1, <2>2, <2>3 DEF Result, ResultOf
  <1>4. ActorJudged(a, c, v) /\ RightOn(a, c, v, n, AnsweredBefore(c))
    BY <1>1 DEF Underway
  <1>5. AnsweredBefore(c) = DOMAIN a.demands
    BY <1>1 DEF AnsweredBefore
  <1>6. /\ r.violations = c.violations
        /\ r.denied = c.denied /\ r.confidence = c.confidence
        /\ r.arbitration = c.arbitration /\ r.begun = c.begun
        /\ r.claimsBefore = c.claimsBefore /\ r.conflictsBefore = c.conflictsBefore
        /\ r.permitted <=> c.violations = {} /\ c.denied = {}
    BY DEF ResultOf
  <1> HIDE DEF r
  <1>7. RightOn(a, r, v, n, DOMAIN a.demands)
    BY <1>4, <1>5, <1>6, RightByFields
  <1>8. ActorJudged(a, r, v) /\ "CANCELLED" \notin r.violations
    BY <1>2, <1>4, <1>6 DEF ActorJudged
  <1> QED BY <1>3, <1>6, <1>7, <1>8 DEF Sound, r

LEMMA CancelledTyped == CancelledResult \in Result
  <1>1. 0 \in 0 .. 100 /\ 0 \in Nat
    OBVIOUS
  <1> QED BY <1>1 DEF CancelledResult, Result

\* The fields of a call that is over.
Ended(c, rs) == [c EXCEPT !.pc = "idle", !.results = rs]

LEMMA EndedFields ==
  ASSUME NEW c \in Call, NEW rs \in Seq(Result)
  PROVE  LET e == Ended(c, rs)
         IN  /\ e \in Call /\ e.pc = "idle" /\ e.results = rs
             /\ e.plan = c.plan /\ e.registry = c.registry
  <1>1. Ended(c, rs) \in Call
    BY DEF Call, Ended
  <1> QED BY <1>1 DEF Call, Ended

\* A call whose result has been appended.
Extended(c) == [c EXCEPT !.results = Append(@, ResultOf(c))]

LEMMA ExtendedFields ==
  ASSUME NEW c, NEW v \in Snapshot, NEW n \in Nat, CallInv(c, v, n), c.pc = "record"
  PROVE  LET e == Extended(c)
         IN  /\ e \in Call /\ e.plan = c.plan /\ e.registry = c.registry
             /\ e.results = Append(c.results, ResultOf(c))
             /\ e.results \in Seq(Result)
             /\ Len(e.results) = Len(c.results) + 1
             /\ Len(c.results) \in Nat /\ Len(c.plan) \in Nat
             /\ Len(c.results) < Len(c.plan)
             /\ DOMAIN e.results = 1 .. Len(c.results) + 1
             /\ \A k \in 1 .. Len(c.results) + 1 : Sound(c.plan[k], e.results[k], v, n)
             /\ \A k \in 1 .. Len(c.results) : ~Cuts(c.plan[k], e.results[k])
             /\ e.results[Len(c.results) + 1] = ResultOf(c)
  <1> DEFINE r == ResultOf(c)
             rs == Append(c.results, r)
  <1>1. c \in Call /\ Len(c.results) < Len(c.plan) /\ Concluded(c, v, n) /\ c.pc # "idle"
    BY InProgress
  <1>2. c.results \in Seq(Result) /\ Len(c.results) \in Nat /\ Len(c.plan) \in Nat
        /\ DOMAIN c.results = 1 .. Len(c.results)
    <2>1. c.results \in Seq(Result)
      BY <1>1 DEF Call
    <2> QED BY <1>1, <2>1, ActionTyped, LenProperties
  <1>3. r \in Result /\ Sound(c.plan[Len(c.results) + 1], r, v, n)
    BY ResultSound DEF ActionOf
  <1> HIDE DEF r
  <1>4. /\ rs \in Seq(Result) /\ Len(rs) = Len(c.results) + 1
        /\ DOMAIN rs = 1 .. Len(c.results) + 1
        /\ rs[Len(c.results) + 1] = r
        /\ \A k \in 1 .. Len(c.results) : rs[k] = c.results[k]
    BY <1>2, <1>3, AppendProperties, LenProperties
  <1>5. \A k \in 1 .. Len(c.results) :
          ~Cuts(c.plan[k], c.results[k]) /\ Sound(c.plan[k], c.results[k], v, n)
    <2>1. \A k \in 1 .. Len(c.results) : ~Cuts(c.plan[k], c.results[k])
      BY <1>1, <1>2 DEF Concluded
    <2>2. \A k \in 1 .. Len(c.results) : \A j \in 1 .. k - 1 : j \in 1 .. Len(c.results)
      BY <1>2
    <2> QED BY <1>1, <1>2, <2>1, <2>2 DEF Concluded
  <1>6. \A k \in 1 .. Len(c.results) + 1 : Sound(c.plan[k], rs[k], v, n)
    <2> SUFFICES ASSUME NEW k \in 1 .. Len(c.results) + 1
                 PROVE  Sound(c.plan[k], rs[k], v, n)
      OBVIOUS
    <2>1. CASE k = Len(c.results) + 1
      BY <1>3, <1>4, <2>1
    <2>2. CASE k # Len(c.results) + 1
      <3>1. k \in 1 .. Len(c.results)
        BY <1>2, <2>2
      <3> QED BY <1>4, <1>5, <3>1
    <2> QED BY <2>1, <2>2
  <1>7. LET e == [c EXCEPT !.results = rs]
        IN  e \in Call /\ e.results = rs /\ e.plan = c.plan /\ e.registry = c.registry
    BY <1>1, <1>4, ResultsFields
  <1>8. Extended(c) = [c EXCEPT !.results = rs]
    BY DEF Extended, r
  <1> HIDE DEF rs
  <1>9. LET e == Extended(c)
        IN  e \in Call /\ e.results = rs /\ e.plan = c.plan /\ e.registry = c.registry
    BY <1>7, <1>8
  <1>10. rs = Append(c.results, ResultOf(c)) /\ rs[Len(c.results) + 1] = ResultOf(c)
    BY <1>4 DEF rs, r
  <1> QED BY <1>1, <1>2, <1>3, <1>4, <1>5, <1>6, <1>9, <1>10

\* Record, after the last action of the plan.
LEMMA LastResultStep ==
  ASSUME NEW c, NEW v \in Snapshot, NEW n \in Nat, CallInv(c, v, n), c.pc = "record",
         Len(c.plan) = Len(c.results) + 1
  PROVE  StepsTo(c, [Extended(c) EXCEPT !.pc = "idle"], v, n)
  <1>1. PICK x : x = Extended(c)
    OBVIOUS
  <1>2. /\ x \in Call /\ x.plan = c.plan /\ x.registry = c.registry
        /\ Len(x.results) = Len(c.results) + 1
        /\ Len(c.results) \in Nat
        /\ DOMAIN x.results = 1 .. Len(c.results) + 1
        /\ \A k \in 1 .. Len(c.results) + 1 : Sound(c.plan[k], x.results[k], v, n)
        /\ \A k \in 1 .. Len(c.results) : ~Cuts(c.plan[k], x.results[k])
    BY <1>1, ExtendedFields
  <1>3. PICK e : e = [x EXCEPT !.pc = "idle"]
    OBVIOUS
  <1>4. e \in Call /\ e.pc = "idle" /\ SamePlan(e, x)
    BY <1>2, <1>3, PcFields
  <1>5. WellFormed(e, v)
    BY <1>4 DEF WellFormed
  <1>6. Concluded(e, v, n)
    <2>1. \A k \in 1 .. Len(c.results) + 1 : \A j \in 1 .. k - 1 : ~Cuts(c.plan[j], x.results[j])
      BY <1>2
    <2> QED BY <1>2, <1>4, <2>1 DEF Concluded, SamePlan
  <1> QED BY <1>1, <1>2, <1>3, <1>4, <1>5, <1>6 DEF CallInv, StepsTo, SamePlan

\* The result of call c says FORBIDDEN.
CutsNow(c) == SaysForbidden(ActionOf(c), ResultOf(c))

LEMMA CutsNowIs ==
  ASSUME NEW c, NEW v \in Snapshot, NEW n \in Nat, CallInv(c, v, n), c.pc = "record"
  PROVE  LET x == Extended(c)
             last == Len(c.results) + 1
         IN  Cuts(c.plan[last], x.results[last]) <=> CutsNow(c)
  <1>1. Sound(ActionOf(c), ResultOf(c), v, n)
    BY ResultSound
  <1>2. Extended(c).results[Len(c.results) + 1] = ResultOf(c)
    BY ExtendedFields
  <1>3. "CANCELLED" \notin ResultOf(c).violations
    BY <1>1 DEF Sound
  <1> QED BY <1>2, <1>3 DEF Cuts, CutsNow, ActionOf

\* Record, after a result that does not cut: the next action is entered.
LEMMA NextActionStep ==
  ASSUME NEW c, NEW v \in Snapshot, now \in Nat, CallInv(c, v, now), c.pc = "record",
         Len(c.plan) # Len(c.results) + 1, ~CutsNow(c)
  PROVE  StepsTo(c, Enter(Extended(c), v), v, now)
  <1>1. PICK x : x = Extended(c)
    OBVIOUS
  <1>2. /\ x \in Call /\ x.plan = c.plan /\ x.registry = c.registry
        /\ Len(x.results) = Len(c.results) + 1
        /\ Len(c.results) \in Nat /\ Len(c.plan) \in Nat /\ Len(c.results) < Len(c.plan)
        /\ DOMAIN x.results = 1 .. Len(c.results) + 1
        /\ \A k \in 1 .. Len(c.results) + 1 : Sound(c.plan[k], x.results[k], v, now)
        /\ \A k \in 1 .. Len(c.results) : ~Cuts(c.plan[k], x.results[k])
        /\ ~Cuts(c.plan[Len(c.results) + 1], x.results[Len(c.results) + 1])
    BY <1>1, ExtendedFields, CutsNowIs
  <1>3. Len(x.results) < Len(x.plan)
    BY <1>2
  <1>4. \A k \in DOMAIN x.results :
          ~Cuts(x.plan[k], x.results[k]) /\ Sound(x.plan[k], x.results[k], v, now)
    <2>1. \A k \in 1 .. Len(c.results) + 1 : k = Len(c.results) + 1 \/ k \in 1 .. Len(c.results)
      BY <1>2
    <2> QED BY <1>2, <2>1
  <1> QED BY <1>1, <1>2, <1>3, <1>4, EnterStep DEF StepsTo

\* The results of a plan that is cut: what follows is cancelled.
CutResults(c) ==
  Extended(c).results \o [i \in 1 .. Len(c.plan) - (Len(c.results) + 1) |-> CancelledResult]

LEMMA CancelledRest ==
  ASSUME NEW c, NEW v \in Snapshot, NEW n \in Nat, CallInv(c, v, n), c.pc = "record"
  PROVE  LET rs == CutResults(c)
         IN  /\ rs \in Seq(Result) /\ Len(rs) = Len(c.plan) /\ DOMAIN rs = 1 .. Len(c.plan)
             /\ \A k \in 1 .. Len(c.results) + 1 : rs[k] = Extended(c).results[k]
             /\ \A k \in 1 .. Len(c.plan) :
                  k > Len(c.results) + 1 => rs[k] = CancelledResult
  <1>1. PICK x : x = Extended(c)
    OBVIOUS
  <1>2. /\ x.results \in Seq(Result)
        /\ Len(x.results) = Len(c.results) + 1
        /\ Len(c.results) \in Nat /\ Len(c.plan) \in Nat /\ Len(c.results) < Len(c.plan)
        /\ DOMAIN x.results = 1 .. Len(c.results) + 1
    BY <1>1, ExtendedFields
  <1>3. PICK m \in Nat, p \in Nat : m = Len(c.results) + 1 /\ p = Len(c.plan)
    BY <1>2
  <1>4. PICK left : left = p - m
    OBVIOUS
  <1>5. left \in Nat /\ m <= p /\ m + left = p
    <2>1. m \in Nat /\ p \in Nat
      BY <1>3
    <2>2. m <= p
      <3>1. \A i, j \in Nat : i < j => i + 1 <= j
        OBVIOUS
      <3> QED BY <1>2, <1>3, <3>1
    <2>3. \A i, j \in Nat : i <= j => j - i \in Nat /\ i + (j - i) = j
      OBVIOUS
    <2>4. p - m \in Nat /\ m + (p - m) = p
      BY <2>1, <2>2, <2>3, Zenon
    <2> QED BY <1>4, <2>2, <2>4, Zenon
  <1>6. PICK xs : xs = [i \in 1 .. left |-> CancelledResult]
    OBVIOUS
  <1>7. /\ xs \in Seq(Result) /\ Len(xs) = left
        /\ \A i \in 1 .. left : xs[i] = CancelledResult
    <2>1. xs \in [1 .. left -> Result]
      BY <1>6, CancelledTyped
    <2>2. xs \in Seq(Result)
      BY <1>5, <2>1, SeqDef
    <2>3. Len(xs) = left
      BY <1>5, <1>6
    <2> QED BY <1>6, <2>2, <2>3
  <1>8. PICK ys \in Seq(Result) : ys = x.results
    BY <1>2
  <1>9. PICK rs : rs = ys \o xs
    OBVIOUS
  <1>10. rs = CutResults(c)
    BY <1>1, <1>3, <1>4, <1>6, <1>8, <1>9 DEF CutResults
  <1>11. Len(ys) = m /\ Len(xs) = left
    BY <1>2, <1>3, <1>7, <1>8
  <1>12. /\ ys \o xs \in Seq(Result) /\ Len(ys \o xs) = Len(ys) + Len(xs)
         /\ \A k \in 1 .. Len(ys) + Len(xs) :
              (ys \o xs)[k] = IF k <= Len(ys) THEN ys[k] ELSE xs[k - Len(ys)]
    <2>1. xs \in Seq(Result)
      BY <1>7
    <2> QED BY <2>1, ConcatProperties, Zenon
  <1>13. /\ rs \in Seq(Result) /\ Len(rs) = p /\ DOMAIN rs = 1 .. p
         /\ \A k \in 1 .. p : rs[k] = IF k <= m THEN ys[k] ELSE xs[k - m]
    BY <1>5, <1>9, <1>11, <1>12, LenProperties
  <1>14. \A k \in 1 .. m : k \in 1 .. p /\ k <= m
    BY <1>3, <1>5
  <1>15. \A k \in 1 .. p : k > m => ~(k <= m) /\ k - m \in 1 .. left
    BY <1>3, <1>4, <1>5
  <1>16. \A k \in 1 .. p : k > m => rs[k] = CancelledResult
    BY <1>7, <1>13, <1>15
  <1> QED BY <1>1, <1>3, <1>8, <1>10, <1>13, <1>14, <1>16

\* Record, after a result that cuts: the rest of the plan is cancelled.
LEMMA ForbiddenStep ==
  ASSUME NEW c, NEW v \in Snapshot, NEW n \in Nat, CallInv(c, v, n), c.pc = "record",
         CutsNow(c)
  PROVE  StepsTo(c, Ended(Extended(c), CutResults(c)), v, n)
  <1>1. PICK x : x = Extended(c)
    OBVIOUS
  <1>2. /\ x \in Call /\ x.plan = c.plan /\ x.registry = c.registry
        /\ Len(c.results) \in Nat /\ Len(c.plan) \in Nat /\ Len(c.results) < Len(c.plan)
        /\ \A k \in 1 .. Len(c.results) + 1 : Sound(c.plan[k], x.results[k], v, n)
        /\ \A k \in 1 .. Len(c.results) : ~Cuts(c.plan[k], x.results[k])
        /\ Cuts(c.plan[Len(c.results) + 1], x.results[Len(c.results) + 1])
    BY <1>1, ExtendedFields, CutsNowIs
  <1>5. PICK rs : rs = CutResults(c)
    OBVIOUS
  <1>6. /\ rs \in Seq(Result) /\ Len(rs) = Len(c.plan) /\ DOMAIN rs = 1 .. Len(c.plan)
        /\ \A k \in 1 .. Len(c.results) + 1 : rs[k] = x.results[k]
        /\ \A k \in 1 .. Len(c.plan) :
             k > Len(c.results) + 1 => rs[k] = CancelledResult
    BY <1>1, <1>5, CancelledRest
  <1>7. PICK e : e = Ended(x, rs)
    OBVIOUS
  <1>8. e \in Call /\ e.pc = "idle" /\ e.results = rs /\ e.plan = c.plan
        /\ e.registry = c.registry
    BY <1>2, <1>6, <1>7, EndedFields
  <1>9. WellFormed(e, v)
    BY <1>8 DEF WellFormed
  <1>10. Concluded(e, v, n)
    <2> SUFFICES ASSUME NEW k \in 1 .. Len(c.plan)
                 PROVE  LET cut == \E j \in 1 .. k - 1 : Cuts(c.plan[j], rs[j])
                        IN  /\ ~cut => Sound(c.plan[k], rs[k], v, n)
                            /\ cut => rs[k] = CancelledResult
      BY <1>6, <1>8 DEF Concluded
    <2>1. CASE k > Len(c.results) + 1
      <3>1. Len(c.results) + 1 \in 1 .. k - 1 /\ Len(c.results) + 1 \in 1 .. Len(c.results) + 1
        BY <1>2, <2>1
      <3> QED BY <1>2, <1>6, <2>1, <3>1
    <2>2. CASE ~(k > Len(c.results) + 1)
      <3>1. /\ k \in 1 .. Len(c.results) + 1
            /\ \A j \in 1 .. k - 1 : j \in 1 .. Len(c.results) /\ j \in 1 .. Len(c.results) + 1
        BY <1>2, <2>2
      <3> QED BY <1>2, <1>6, <3>1
    <2> QED BY <2>1, <2>2
  <1> QED BY <1>1, <1>5, <1>7, <1>8, <1>9, <1>10 DEF CallInv, StepsTo

\* Record takes the result in.
LEMMA TakeResultIs ==
  ASSUME NEW t, NEW c, c = call[t], NEW v \in Snapshot, v = View(t),
         NEW n \in Nat, CallInv(c, v, n), c.pc = "record"
  PROVE  TakeResult(t) =
           IF CutsNow(c) THEN Ended(Extended(c), CutResults(c))
           ELSE IF Len(c.plan) = Len(c.results) + 1 THEN [Extended(c) EXCEPT !.pc = "idle"]
           ELSE Enter(Extended(c), v)
  <1> DEFINE x == Extended(c)
             left == Len(x.plan) - Len(x.results)
  <1>1. x = [call[t] EXCEPT !.results = Append(@, ResultOf(call[t]))]
    BY DEF Extended
  <1>2. /\ x \in Call /\ x.plan = c.plan /\ Len(x.results) = Len(c.results) + 1
        /\ Len(c.results) \in Nat /\ Len(c.plan) \in Nat
    BY ExtendedFields
  <1>3. left = Len(c.plan) - (Len(c.results) + 1)
    BY <1>2
  <1>4. left = 0 <=> Len(c.plan) = Len(c.results) + 1
    BY <1>2, <1>3
  <1>5. [x EXCEPT !.pc = "idle", !.results = @ \o [i \in 1 .. left |-> CancelledResult]]
        = Ended(x, x.results \o [i \in 1 .. left |-> CancelledResult])
    BY <1>2 DEF Ended, Call
  <1>6. TakeResult(t) =
          IF CutsNow(c)
          THEN Ended(x, x.results \o [i \in 1 .. left |-> CancelledResult])
          ELSE IF left = 0 THEN [x EXCEPT !.pc = "idle"]
          ELSE Enter(x, v)
    BY <1>1, <1>5 DEF TakeResult, CutsNow, ActionOf, CurrentAction
  <1>7. x.results \o [i \in 1 .. left |-> CancelledResult] = CutResults(c)
    BY <1>3 DEF CutResults
  <1> QED BY <1>4, <1>6, <1>7

LEMMA TakeStep ==
  ASSUME NEW t, NEW c, c = call[t], NEW v \in Snapshot, v = View(t),
         now \in Nat, CallInv(c, v, now), c.pc = "record"
  PROVE  StepsTo(c, TakeResult(t), v, now)
  BY TakeResultIs, ForbiddenStep, LastResultStep, NextActionStep

-----------------------------------------------------------------------------
(* The invariant is inductive.                                              *)

\* A thread that has made no call.
LEMMA NoCallTyped ==
  /\ NoCall \in Call
  /\ NoCall.pc = "idle" /\ NoCall.plan = <<>> /\ NoCall.results = <<>>
  /\ NoCall.registry = Live
  <1>1. 100 \in 0 .. 100 /\ 0 \in Nat /\ 1 \in Nat
    OBVIOUS
  <1>2. <<>> \in Seq(Result)
    BY EmptySeq
  <1> QED BY <1>1, <1>2 DEF NoCall, Call

LEMMA NoCallInv ==
  ASSUME NEW v, NEW n
  PROVE  CallInv(NoCall, v, n)
  <1>1. Len(NoCall.results) = 0 /\ Len(NoCall.plan) = 0 /\ DOMAIN NoCall.results = {}
    BY NoCallTyped
  <1>2. WellFormed(NoCall, v)
    BY NoCallTyped DEF WellFormed
  <1>3. Concluded(NoCall, v, n)
    BY <1>1, NoCallTyped DEF Concluded
  <1> QED BY <1>2, <1>3, NoCallTyped DEF CallInv

\* A call is submitted.
LEMMA SubmitStep ==
  ASSUME RegistryTypeOK, NEW plan \in Plans, NEW r \in Snapshot \cup {Live},
         NEW c, c = [NoCall EXCEPT !.registry = r, !.plan = plan]
  PROVE  StepsTo(c, Enter(c, ViewOf(c)), ViewOf(c), now)
  <1>1. /\ c \in Call /\ c.plan = plan /\ c.results = <<>>
    BY NoCallTyped DEF Call
  <1>2. ViewOf(c) \in Snapshot /\ now \in Nat
    BY <1>1, ViewTyped DEF RegistryTypeOK
  <1>3. Len(c.results) < Len(c.plan) /\ DOMAIN c.results = {}
    <2>1. plan \in Seq(Action) /\ plan # <<>>
      BY VerifierAssumption
    <2>2. Len(plan) \in Nat \ {0}
      BY <2>1, EmptySeq
    <2>3. 0 < Len(plan)
      BY <2>2
    <2> QED BY <1>1, <2>3
  <1> QED BY <1>1, <1>2, <1>3, EnterStep

\* Every step of a thread takes its call to one that the invariant holds of.
LEMMA ThreadStep ==
  ASSUME VerifierInv, NEW t \in Threads,
         \/ \E plan \in Plans : Submit(t, plan, Live) \/ Submit(t, plan, snapshot)
         \/ Verify(t)
         \/ Record(t)
         \/ RecordFails(t)
  PROVE  \E e : call' = [call EXCEPT ![t] = e] /\ CallInv(e, ViewOf(e), now)
  <1>1. PICK c : c = call[t]
    OBVIOUS
  <1>2. PICK v : v = ViewOf(c)
    OBVIOUS
  <1>3. /\ call \in [Threads -> Call] /\ RegistryTypeOK /\ now \in Nat
        /\ c \in Call /\ CallInv(c, v, now)
    BY <1>1, <1>2 DEF VerifierInv, RegistryTypeOK
  <1>4. v \in Snapshot
    BY <1>2, <1>3, ViewTyped
  <1>5. CurrentAction(t) = ActionOf(c) /\ View(t) = v
    BY <1>1, <1>2 DEF CurrentAction, ActionOf, View, ViewOf, LiveRegistry
  <1>6. CurrentDemand(t) = ActionOf(c).demands[c.demand]
    BY <1>1, <1>5 DEF CurrentDemand
  <1>7. ASSUME NEW e, call' = [call EXCEPT ![t] = e], StepsTo(c, e, v, now)
        PROVE  \E x : call' = [call EXCEPT ![t] = x] /\ CallInv(x, ViewOf(x), now)
    <2>1. CallInv(e, ViewOf(e), now)
      BY <1>2, <1>7 DEF StepsTo, ViewOf
    <2> QED BY <1>7, <2>1
  <1>8. CASE \E plan \in Plans : Submit(t, plan, Live) \/ Submit(t, plan, snapshot)
    <2>1. PICK plan \in Plans, r \in Snapshot \cup {Live} : Submit(t, plan, r)
      BY <1>3, <1>8 DEF Submit, RegistryTypeOK
    <2>2. PICK x : x = [NoCall EXCEPT !.registry = r, !.plan = plan]
      OBVIOUS
    <2>3. x.registry = r
      BY <2>2, NoCallTyped DEF Call
    <2>4. call' = [call EXCEPT ![t] = Enter(x, ViewOf(x))]
      BY <2>1, <2>2, <2>3 DEF Submit, Enter, ViewOf, LiveRegistry
    <2>5. StepsTo(x, Enter(x, ViewOf(x)), ViewOf(x), now)
      BY <1>3, <2>2, SubmitStep
    <2>6. CallInv(Enter(x, ViewOf(x)), ViewOf(Enter(x, ViewOf(x))), now)
      BY <2>5 DEF StepsTo, ViewOf
    <2> QED BY <2>4, <2>6, Zenon
  <1>9. CASE CheckActor(t)
    <2> DEFINE e == Judged(c, ActorViolations(ActionOf(c), v.machineOwners),
                           DemandOrEnd(ActionOf(c), 1))
    <2>1. c.pc = "actor" /\ call' = [call EXCEPT ![t] = e]
      BY <1>1, <1>5, <1>9 DEF CheckActor, Judged
    <2>2. StepsTo(c, e, v, now)
      BY <1>3, <1>4, <2>1, CheckActorStep
    <2> QED BY <1>7, <2>1, <2>2, Zenon
  <1>10. CASE ReadPublic(t)
    <2>1. c.pc = "claims" /\ call' = [call EXCEPT ![t] = Proceed(c, ActionOf(c))]
      BY <1>1, <1>5, <1>10 DEF ReadPublic
    <2>2. StepsTo(c, Proceed(c, ActionOf(c)), v, now)
      BY <1>3, <1>4, <1>6, <1>10, <2>1, ReadPublicStep DEF ReadPublic
    <2> QED BY <1>7, <2>1, <2>2, Zenon
  <1>11. CASE ReadClaims(t)
    <2> DEFINE e == [c EXCEPT !.held = ClaimsFor(v.claims, ActionOf(c).actor,
                                                 ActionOf(c).demands[c.demand].resource),
                              !.pc = "covers"]
    <2>1. c.pc = "claims" /\ call' = [call EXCEPT ![t] = e]
      BY <1>1, <1>5, <1>6, <1>11 DEF ReadClaims
    <2>2. StepsTo(c, e, v, now)
      BY <1>3, <1>4, <2>1, ReadClaimsStep
    <2> QED BY <1>7, <2>1, <2>2, Zenon
  <1>12. CASE WeighClaims(t)
    <2> DEFINE op == ActionOf(c).demands[c.demand].op
               usable == {i \in c.held : Covers(v.claims[i], op)}
    <2>1. c.pc = "covers"
      BY <1>1, <1>12 DEF WeighClaims
    <2>2. CASE usable = {}
      <3> DEFINE e == Proceed(Denied(c, c.denied \cup {c.demand}, 0), ActionOf(c))
      <3>1. call' = [call EXCEPT ![t] = e]
        <4>1. ~ \E best \in {i \in call[t].held : Covers(View(t).claims[i], CurrentDemand(t).op)} :
                 TRUE
          BY <1>1, <1>5, <1>6, <2>2
        <4> QED BY <1>1, <1>5, <1>12, <4>1 DEF WeighClaims, Denied
      <3>2. StepsTo(c, e, v, now)
        BY <1>3, <1>4, <2>1, <2>2, DenyStep
      <3> QED BY <1>7, <3>1, <3>2, Zenon
    <2>3. CASE usable # {}
      <3> DEFINE low(best) == Lowered(c, Lower(c.confidence, v.claims[best].confidence))
                 contested(best) == op = "write" /\ v.claims[best].confidence < Threshold
      <3>1. PICK best \in usable :
              call' = [call EXCEPT ![t] = IF contested(best)
                                          THEN [low(best) EXCEPT !.pc = "conflicts"]
                                          ELSE Proceed(low(best), ActionOf(c))]
        BY <1>1, <1>5, <1>6, <1>12, <2>3 DEF WeighClaims, Lowered
      <3>2. best \in c.held /\ Covers(v.claims[best], op)
        OBVIOUS
      <3>3. CASE contested(best)
        <4>1. StepsTo(c, [low(best) EXCEPT !.pc = "conflicts"], v, now)
          BY <1>3, <1>4, <2>1, <3>2, <3>3, ContestStep
        <4>2. call' = [call EXCEPT ![t] = [low(best) EXCEPT !.pc = "conflicts"]]
          BY <3>1, <3>3
        <4> QED BY <1>7, <4>1, <4>2, Zenon
      <3>4. CASE ~contested(best)
        <4>1. StepsTo(c, Proceed(low(best), ActionOf(c)), v, now)
          BY <1>3, <1>4, <2>1, <3>2, <3>4, PermitStep
        <4>2. call' = [call EXCEPT ![t] = Proceed(low(best), ActionOf(c))]
          BY <3>1, <3>4
        <4> QED BY <1>7, <4>1, <4>2, Zenon
      <3> QED BY <3>3, <3>4
    <2> QED BY <2>2, <2>3
  <1>13. CASE ScanConflicts(t)
    <2>1. PICK b \in BOOLEAN :
            b = (c.arbitration
                 \/ OnResource(v.conflicts, ActionOf(c).demands[c.demand].resource))
      OBVIOUS
    <2>2. c.pc = "conflicts"
          /\ call' = [call EXCEPT ![t] = Proceed([c EXCEPT !.arbitration = b], ActionOf(c))]
      BY <1>1, <1>5, <1>6, <1>13, <2>1 DEF ScanConflicts
    <2>3. StepsTo(c, Proceed([c EXCEPT !.arbitration = b], ActionOf(c)), v, now)
      BY <1>3, <1>4, <2>1, <2>2, ScanStep
    <2> QED BY <1>7, <2>2, <2>3, Zenon
  <1>14. CASE Conclude(t)
    <2>1. c.pc = "conclude" /\ call' = [call EXCEPT ![t] = AtRecord(c, now)]
      BY <1>1, <1>14 DEF Conclude, AtRecord
    <2>2. StepsTo(c, AtRecord(c, now), v, now)
      BY <1>3, <1>4, <2>1, ConcludeStep
    <2> QED BY <1>7, <2>1, <2>2, Zenon
  <1>15. CASE Record(t)
    <2>1. c.pc = "record" /\ call' = [call EXCEPT ![t] = TakeResult(t)]
      BY <1>1, <1>15 DEF Record
    <2>2. StepsTo(c, TakeResult(t), v, now)
      BY <1>1, <1>3, <1>4, <1>5, <2>1, TakeStep
    <2> QED BY <1>7, <2>1, <2>2, Zenon
  <1>16. CASE RecordFails(t)
    <2>1. call' = [call EXCEPT ![t] = NoCall]
      BY <1>16 DEF RecordFails
    <2> QED BY <2>1, NoCallInv, Zenon
  <1> QED BY <1>8, <1>9, <1>10, <1>11, <1>12, <1>13, <1>14, <1>15, <1>16 DEF Verify

\* A step of a thread leaves the other calls alone.
LEMMA ThreadStepKeeps ==
  ASSUME VerifierInv, UNCHANGED registryVars, NEW t \in Threads,
         NEW e, call' = [call EXCEPT ![t] = e], CallInv(e, ViewOf(e), now)
  PROVE  VerifierInv'
  <1>1. /\ RegistryTypeOK /\ call \in [Threads -> Call]
        /\ \A s \in Threads : CallInv(call[s], ViewOf(call[s]), now)
    BY DEF VerifierInv
  <1>2. RegistryTypeOK' /\ now' = now /\ LiveRegistry' = LiveRegistry
    BY <1>1 DEF RegistryTypeOK, registryVars, LiveRegistry
  <1>3. e \in Call
    BY DEF CallInv, WellFormed
  <1>4. call' \in [Threads -> Call]
    BY <1>1, <1>3
  <1>5. ASSUME NEW s \in Threads
        PROVE  CallInv(call'[s], IF call'[s].registry = Live THEN LiveRegistry
                                 ELSE call'[s].registry, now)
    <2>1. call'[s] = IF s = t THEN e ELSE call[s]
      BY <1>1
    <2>2. CallInv(call[s], ViewOf(call[s]), now)
      BY <1>1
    <2> QED BY <2>1, <2>2 DEF ViewOf
  <1>6. \A s \in Threads : CallInv(call[s], ViewOf(call[s]), now)'
    BY <1>2, <1>5 DEF ViewOf
  <1> QED BY <1>2, <1>4, <1>6 DEF VerifierInv

\* A mutation, or the clock, disturbs no call.
LEMMA RegistryStepKeeps ==
  ASSUME VerifierInv, [RegistryNext]_registryVars, UNCHANGED call
  PROVE  VerifierInv'
  <1>1. /\ RegistryTypeOK /\ call \in [Threads -> Call] /\ RegistryTypeOK'
        /\ \A s \in Threads : CallInv(call[s], ViewOf(call[s]), now)
    BY TypedStep DEF VerifierInv
  <1>2. /\ Follows(LiveRegistry', LiveRegistry)
        /\ now \in Nat /\ now' \in Nat /\ now <= now'
    BY <1>1, RegistryGrows DEF Follows, LiveRegistry
  <1>3. LiveRegistry' \in Snapshot
    BY <1>1 DEF RegistryTypeOK, LiveRegistry, Snapshot
  <1>4. ASSUME NEW s \in Threads
        PROVE  CallInv(call[s], ViewOf(call[s]), now)'
    <2>1. PICK c : c = call[s] /\ c = call'[s]
      OBVIOUS
    <2>2. c \in Call /\ CallInv(c, ViewOf(c), now)
      BY <1>1, <2>1
    <2>3. ViewOf(c) \in Snapshot /\ ViewOf(c)' \in Snapshot
      BY <1>1, <1>3, <2>2, ViewTyped DEF ViewOf
    <2>4. Follows(ViewOf(c)', ViewOf(c))
      BY <1>2 DEF ViewOf, Follows, Continues
    <2>5. CallInv(c, ViewOf(c)', now')
      BY <1>2, <2>2, <2>3, <2>4, CallInvStays
    <2> QED BY <2>1, <2>5 DEF ViewOf
  <1> QED BY <1>1, <1>4 DEF VerifierInv

LEMMA VerifierInvInit == Init => VerifierInv
  <1> SUFFICES ASSUME Init PROVE VerifierInv
    OBVIOUS
  <1>1. RegistryTypeOK
    BY InitTyped DEF Init
  <1>2. \A t \in Threads : call[t] = NoCall
    BY DEF Init
  <1>3. call \in [Threads -> Call]
    BY NoCallTyped DEF Init
  <1> QED BY <1>1, <1>2, <1>3, NoCallInv DEF VerifierInv

LEMMA VerifierInvStep == VerifierInv /\ [Next]_vars => VerifierInv'
  <1> SUFFICES ASSUME VerifierInv, [Next]_vars PROVE VerifierInv'
    OBVIOUS
  <1>1. CASE RegistryNext /\ UNCHANGED callVars
    BY <1>1, RegistryStepKeeps DEF callVars
  <1>2. ASSUME NEW t \in Threads,
               /\ \/ \E plan \in Plans : Submit(t, plan, Live) \/ Submit(t, plan, snapshot)
                  \/ Verify(t)
                  \/ Record(t)
                  \/ RecordFails(t)
               /\ UNCHANGED registryVars
        PROVE  VerifierInv'
    BY <1>2, ThreadStep, ThreadStepKeeps
  <1>3. CASE UNCHANGED vars
    BY <1>3, RegistryStepKeeps DEF vars, callVars
  <1> QED BY <1>1, <1>2, <1>3 DEF Next

\* In every state that the gate reaches, each call is at a step it may be at, and
\* what it has found out so far, and every result it has given, is right about the
\* registry as it is now.
THEOREM CallsAreSound == Spec => []VerifierInv
  BY VerifierInvInit, VerifierInvStep, PTL DEF Spec

-----------------------------------------------------------------------------
(* What the results say.                                                    *)

\* The result of each action of a plan is sound, or a cancelled one.
LEMMA ResultsSound ==
  ASSUME VerifierInv, NEW t \in Threads, NEW k \in DOMAIN call[t].results
  PROVE  LET cut == \E j \in 1 .. k - 1 : Cuts(call[t].plan[j], call[t].results[j])
         IN  /\ ~cut => Sound(call[t].plan[k], call[t].results[k], View(t), now)
             /\ cut => call[t].results[k] = CancelledResult
  <1>1. View(t) = ViewOf(call[t])
    BY DEF View, ViewOf, LiveRegistry
  <1> QED BY <1>1 DEF VerifierInv, CallInv, Concluded

\* No permission without authority, for all registries, plans and interleavings:
\* a permitted action is not forbidden, its actor is no ownerless or governing
\* machine, and a claim that was valid during the call backs each demand.
THEOREM PermitsAreBacked == Spec => []PermitIsBacked
  <1>1. VerifierInv => PermitIsBacked
    <2> SUFFICES ASSUME VerifierInv, NEW t \in Threads, NEW k \in DOMAIN call[t].results,
                        call[t].results[k].permitted
                 PROVE  LET a == call[t].plan[k]
                            r == call[t].results[k]
                        IN  /\ ~a.forbidden
                            /\ a.actor \in Machines =>
                                 a.governs = {} /\ View(t).machineOwners[a.actor] # NoOwner
                            /\ \A d \in DOMAIN a.demands :
                                 Backed(View(t).claims, a.actor, a.demands[d], r)
      BY DEF PermitIsBacked
    <2>1. ~CancelledResult.permitted
      BY DEF CancelledResult
    <2>2. Sound(call[t].plan[k], call[t].results[k], View(t), now)
      BY <2>1, ResultsSound
    <2> QED BY <2>2 DEF Sound, ActorJudged, RightOn, BackedOn
  <1> QED BY <1>1, CallsAreSound, PTL

\* No refusal against authority: a demand is never denied to an actor that held a
\* claim for it when verify() was entered and holds it still.
THEOREM DenialsAreJustified == Spec => []NoSpuriousDenial
  <1>1. VerifierInv => NoSpuriousDenial
    <2> SUFFICES ASSUME VerifierInv, NEW t \in Threads, NEW k \in DOMAIN call[t].results,
                        NEW d \in call[t].results[k].denied
                 PROVE  ~ \E i \in 1 .. call[t].results[k].claimsBefore :
                            GivesSince(View(t).claims[i], call[t].plan[k].actor,
                                       call[t].plan[k].demands[d], now)
      BY DEF NoSpuriousDenial
    <2>1. CancelledResult.denied = {}
      BY DEF CancelledResult
    <2>2. Sound(call[t].plan[k], call[t].results[k], View(t), now)
      BY <2>1, ResultsSound
    <2> QED BY <2>2 DEF Sound, RightOn, DeniedRightly
  <1> QED BY <1>1, CallsAreSound, PTL

\* A write on a resource in conflict is permitted without arbitration only to an
\* actor whose claim is at the threshold of confidence or above.
THEOREM WeakWritesArbitrated == Spec => []WeakContestedWriteArbitrated
  <1>1. VerifierInv => WeakContestedWriteArbitrated
    <2> SUFFICES ASSUME VerifierInv, NEW t \in Threads, NEW k \in DOMAIN call[t].results,
                        NEW d \in DOMAIN call[t].plan[k].demands,
                        call[t].plan[k].demands[d].op = "write",
                        call[t].results[k].permitted, ~call[t].results[k].arbitration,
                        ConflictBefore(t, call[t].results[k], call[t].plan[k].demands[d].resource)
                 PROVE  \E i \in DOMAIN View(t).claims :
                          /\ GivesSince(View(t).claims[i], call[t].plan[k].actor,
                                        call[t].plan[k].demands[d], call[t].results[k].begun)
                          /\ View(t).claims[i].confidence >= Threshold
      BY DEF WeakContestedWriteArbitrated
    <2>1. ~CancelledResult.permitted
      BY DEF CancelledResult
    <2>2. Sound(call[t].plan[k], call[t].results[k], View(t), now)
      BY <2>1, ResultsSound
    <2>3. /\ call[t].results[k].denied = {}
          /\ ArbitratedOn(call[t].plan[k], call[t].results[k], View(t),
                          DOMAIN call[t].plan[k].demands)
      BY <2>2 DEF Sound, RightOn
    <2> QED BY <2>3 DEF ArbitratedOn, ConflictBefore
  <1> QED BY <1>1, CallsAreSound, PTL

\* A result that cuts is that of a refused action, which is forbidden or has
\* "FORBIDDEN" in one of its names; and a sound result of a forbidden action cuts.
LEMMA CutsByName ==
  ASSUME NEW a, NEW r, NEW v, NEW n, Sound(a, r, v, n)
  PROVE  /\ a.forbidden => Cuts(a, r)
         /\ Cuts(a, r) => ~r.permitted /\ (a.forbidden \/ NamesIn(a) \cap ForbiddenNames # {})
  <1>1. /\ r.denied \subseteq DOMAIN a.demands
        /\ "FORBIDDEN" \in r.violations <=> a.forbidden
        /\ r.permitted <=> r.violations = {} /\ r.denied = {}
        /\ "CANCELLED" \notin r.violations
    BY DEF Sound, RightOn, ActorJudged
  <1>2. a.forbidden => Cuts(a, r)
    BY <1>1 DEF Cuts, SaysForbidden
  <1>3. ASSUME Cuts(a, r)
        PROVE  ~r.permitted /\ (a.forbidden \/ NamesIn(a) \cap ForbiddenNames # {})
    <2>1. SaysForbidden(a, r)
      BY <1>1, <1>3 DEF Cuts
    <2>2. ~r.permitted
      BY <1>1, <2>1 DEF SaysForbidden
    <2>3. CASE "FORBIDDEN" \in r.violations
      BY <1>1, <2>2, <2>3
    <2>4. CASE a.actor \in ForbiddenNames
      BY <2>2, <2>4 DEF NamesIn
    <2>5. CASE a.governs \cap ForbiddenNames # {}
      BY <2>2, <2>5 DEF NamesIn
    <2>6. CASE \E d \in r.denied : a.demands[d].resource \in ForbiddenNames
      <3>1. PICK d \in r.denied : a.demands[d].resource \in ForbiddenNames
        BY <2>6
      <3>2. a.demands[d].resource \in NamesIn(a)
        BY <1>1, <3>1 DEF NamesIn
      <3> QED BY <2>2, <3>1, <3>2
    <2> QED BY <2>1, <2>3, <2>4, <2>5, <2>6 DEF SaysForbidden
  <1> QED BY <1>2, <1>3

\* What follows a forbidden action of a plan is cancelled, and what is cancelled
\* follows a refused action that is forbidden or says so in a name.
THEOREM PlansStopAtForbidden == Spec => []PlanStopsAtForbidden
  <1>1. VerifierInv => PlanStopsAtForbidden
    <2> SUFFICES ASSUME VerifierInv, NEW t \in Threads
                 PROVE  LET plan == call[t].plan
                            results == call[t].results
                            cancelled(k) == "CANCELLED" \in results[k].violations
                        IN
                        /\ \A k \in DOMAIN results :
                             /\ (\E j \in 1 .. k - 1 : plan[j].forbidden) => cancelled(k)
                             /\ cancelled(k) =>
                                  /\ ~results[k].permitted /\ results[k].arbitration
                                  /\ \E j \in 1 .. k - 1 :
                                       /\ ~cancelled(j) /\ ~results[j].permitted
                                       /\ plan[j].forbidden
                                            \/ NamesIn(plan[j]) \cap ForbiddenNames # {}
                                       /\ \A l \in DOMAIN results : l > j => cancelled(l)
                        /\ call[t].pc = "idle" => Len(results) = Len(plan)
      BY DEF PlanStopsAtForbidden
    <2> DEFINE plan == call[t].plan
               results == call[t].results
               cutBefore(k) == \E j \in 1 .. k - 1 : Cuts(plan[j], results[j])
    <2>1. /\ "CANCELLED" \in CancelledResult.violations
          /\ ~CancelledResult.permitted /\ CancelledResult.arbitration
      BY DEF CancelledResult
    <2>2. results \in Seq(Result) /\ DOMAIN results = 1 .. Len(results) /\ Len(results) \in Nat
      <3>1. results \in Seq(Result)
        BY DEF VerifierInv, Call
      <3> QED BY <3>1, LenProperties
    <2>3. \A k \in DOMAIN results :
            /\ ~cutBefore(k) => Sound(plan[k], results[k], View(t), now)
            /\ cutBefore(k) => results[k] = CancelledResult
      BY ResultsSound
    <2>4. call[t].pc = "idle" => Len(results) = Len(plan)
      BY DEF VerifierInv, CallInv, Concluded
    <2> HIDE DEF plan, results
    <2>5. ASSUME NEW k \in DOMAIN results, NEW j \in 1 .. k - 1, plan[j].forbidden
          PROVE  cutBefore(k)
      <3>1. j \in DOMAIN results /\ \A i \in 1 .. j - 1 : i \in 1 .. k - 1
        BY <2>2
      <3>2. CASE cutBefore(j)
        BY <3>1, <3>2
      <3>3. CASE ~cutBefore(j)
        BY <2>3, <2>5, <3>1, <3>3, CutsByName
      <3> QED BY <3>2, <3>3
    <2>6. ASSUME NEW k \in DOMAIN results, "CANCELLED" \in results[k].violations
          PROVE  cutBefore(k)
      BY <2>3, <2>6 DEF Sound
    <2>7. ASSUME NEW k \in DOMAIN results, cutBefore(k)
          PROVE  \E j \in 1 .. k - 1 :
                   /\ "CANCELLED" \notin results[j].violations /\ ~results[j].permitted
                   /\ plan[j].forbidden \/ NamesIn(plan[j]) \cap ForbiddenNames # {}
                   /\ \A l \in DOMAIN results :
                        l > j => "CANCELLED" \in results[l].violations
      <3>1. PICK j \in 1 .. k - 1 : Cuts(plan[j], results[j])
        BY <2>7
      <3>2. j \in DOMAIN results /\ \A l \in DOMAIN results : l > j => j \in 1 .. l - 1
        BY <2>2
      <3>3. "CANCELLED" \notin results[j].violations
        BY <3>1 DEF Cuts
      <3>4. ~cutBefore(j)
        BY <2>1, <2>3, <3>2, <3>3
      <3>5. ~results[j].permitted /\ (plan[j].forbidden \/ NamesIn(plan[j]) \cap ForbiddenNames # {})
        BY <2>3, <3>1, <3>2, <3>4, CutsByName
      <3>6. \A l \in DOMAIN results : l > j => results[l] = CancelledResult
        BY <2>3, <3>1, <3>2
      <3> QED BY <2>1, <3>3, <3>5, <3>6
    <2> QED BY <2>1, <2>3, <2>4, <2>5, <2>6, <2>7 DEF plan, results
  <1> QED BY <1>1, CallsAreSound, PTL

-----------------------------------------------------------------------------
(* The audit file.                                                          *)

\* The results among rs that are verdicts: Verdicts(t), for the call of thread t.
VerdictsOf(rs) == {k \in DOMAIN rs : "CANCELLED" \notin rs[k].violations}

\* The verdicts among rs are the last entries of thread t in a file, in their order.
AuditedIn(rs, file, t) ==
  \E at \in [VerdictsOf(rs) -> DOMAIN file] :
    /\ \A k \in VerdictsOf(rs) : file[at[k]].by = t /\ file[at[k]].result = rs[k]
    /\ \A k, l \in VerdictsOf(rs) : k < l => at[k] < at[l]
    /\ \A k \in VerdictsOf(rs), j \in DOMAIN file :
         at[k] < j /\ file[j].by = t => \E l \in VerdictsOf(rs) : at[l] = j

\* The entries of thread t in a file are stamped in order, and none after time n.
StampedIn(file, t, n) ==
  /\ \A j \in DOMAIN file : file[j].by = t => file[j].ts <= n
  /\ \A i, j \in DOMAIN file :
       i < j /\ file[i].by = t /\ file[j].by = t => file[i].ts <= file[j].ts

\* The stamp of the entry that call c is about to write.
StampOf(c, n) == IF c.pc = "record" THEN c.ts ELSE n

AuditInv ==
  /\ VerifierInv
  /\ auditLog \in Seq(Entry)
  /\ auditFile \in Seq(Entry)
  /\ \A t \in Threads :
       /\ AuditedIn(call[t].results, auditFile, t)
       /\ StampOf(call[t], now) <= now
       /\ StampedIn(auditFile, t, StampOf(call[t], now))

\* A file with one entry more.
LEMMA OneEntryMore ==
  ASSUME NEW file \in Seq(Entry), NEW e \in Entry
  PROVE  /\ Append(file, e) \in Seq(Entry)
         /\ Len(file) \in Nat /\ DOMAIN file = 1 .. Len(file)
         /\ DOMAIN Append(file, e) = 1 .. Len(file) + 1
         /\ Append(file, e)[Len(file) + 1] = e
         /\ \A j \in 1 .. Len(file) :
              Append(file, e)[j] = file[j] /\ file[j] \in Entry /\ j < Len(file) + 1
         /\ \A j \in 1 .. Len(file) + 1 : j = Len(file) + 1 \/ j \in 1 .. Len(file)
  <1>1. Append(file, e) \in Seq(Entry) /\ Len(Append(file, e)) = Len(file) + 1
    BY AppendProperties
  <1>2. /\ DOMAIN file = 1 .. Len(file) /\ Len(file) \in Nat
        /\ DOMAIN Append(file, e) = 1 .. Len(file) + 1
    BY <1>1, LenProperties
  <1>3. /\ \A i \in 1 .. Len(file) : Append(file, e)[i] = file[i]
        /\ Append(file, e)[Len(file) + 1] = e
    BY AppendProperties
  <1>4. \A j \in 1 .. Len(file) : file[j] \in Entry
    BY <1>2, ElementOfSeq
  <1>5. /\ \A j \in 1 .. Len(file) : j < Len(file) + 1
        /\ \A j \in 1 .. Len(file) + 1 : j = Len(file) + 1 \/ j \in 1 .. Len(file)
    BY <1>2
  <1> QED BY <1>1, <1>2, <1>3, <1>4, <1>5

LEMMA AuditedNothing ==
  ASSUME NEW file, NEW t
  PROVE  AuditedIn(<<>>, file, t)
  <1>1. VerdictsOf(<<>>) = {}
    BY DEF VerdictsOf
  <1>2. [x \in {} |-> x] \in [VerdictsOf(<<>>) -> DOMAIN file]
    BY <1>1
  <1> QED BY <1>1, <1>2 DEF AuditedIn

\* The entry of another thread leaves the verdicts of a thread audited.
LEMMA AuditedByOthers ==
  ASSUME NEW rs, NEW file \in Seq(Entry), NEW t, NEW e \in Entry, e.by # t,
         AuditedIn(rs, file, t)
  PROVE  AuditedIn(rs, Append(file, e), t)
  <1>1. PICK g \in Seq(Entry), n \in Nat : g = Append(file, e) /\ n = Len(file)
    BY OneEntryMore
  <1>2. /\ DOMAIN file = 1 .. n /\ DOMAIN g = 1 .. n + 1 /\ g[n + 1] = e
        /\ \A j \in 1 .. n : g[j] = file[j] /\ j < n + 1
        /\ \A j \in 1 .. n + 1 : j = n + 1 \/ j \in 1 .. n
    BY <1>1, OneEntryMore
  <1>3. PICK at \in [VerdictsOf(rs) -> DOMAIN file] :
          /\ \A k \in VerdictsOf(rs) : file[at[k]].by = t /\ file[at[k]].result = rs[k]
          /\ \A k, l \in VerdictsOf(rs) : k < l => at[k] < at[l]
          /\ \A k \in VerdictsOf(rs), j \in DOMAIN file :
               at[k] < j /\ file[j].by = t => \E l \in VerdictsOf(rs) : at[l] = j
    BY DEF AuditedIn
  <1>4. \A k \in VerdictsOf(rs) : at[k] \in 1 .. n
    BY <1>2, <1>3
  <1>5. 1 .. n \subseteq 1 .. n + 1
    BY <1>1
  <1>6. at \in [VerdictsOf(rs) -> DOMAIN g]
    BY <1>2, <1>3, <1>5
  <1>7. \A k \in VerdictsOf(rs) : g[at[k]].by = t /\ g[at[k]].result = rs[k]
    BY <1>2, <1>3, <1>4
  <1>8. \A k \in VerdictsOf(rs), j \in DOMAIN g :
          at[k] < j /\ g[j].by = t => \E l \in VerdictsOf(rs) : at[l] = j
    <2> SUFFICES ASSUME NEW k \in VerdictsOf(rs), NEW j \in DOMAIN g, at[k] < j, g[j].by = t
                 PROVE  \E l \in VerdictsOf(rs) : at[l] = j
      OBVIOUS
    <2>1. j \in 1 .. n
      BY <1>2
    <2> QED BY <1>2, <1>3, <2>1
  <1>9. AuditedIn(rs, g, t)
    BY <1>3, <1>6, <1>7, <1>8 DEF AuditedIn
  <1> QED BY <1>1, <1>9

\* The entry of the next verdict of a thread leaves its verdicts audited.
LEMMA AuditedByOwn ==
  ASSUME NEW rs, NEW qs, NEW file \in Seq(Entry), NEW t, NEW e \in Entry, e.by = t,
         AuditedIn(rs, file, t),
         NEW m \in Nat, DOMAIN rs = 1 .. m, m + 1 \in DOMAIN qs,
         \A k \in 1 .. m : k \in DOMAIN qs /\ qs[k] = rs[k],
         qs[m + 1] = e.result, "CANCELLED" \notin e.result.violations,
         \A k \in DOMAIN qs : k \in 1 .. m \/ k = m + 1 \/ "CANCELLED" \in qs[k].violations
  PROVE  AuditedIn(qs, Append(file, e), t)
  <1>1. PICK g \in Seq(Entry), n \in Nat : g = Append(file, e) /\ n = Len(file)
    BY OneEntryMore
  <1>2. /\ DOMAIN file = 1 .. n /\ DOMAIN g = 1 .. n + 1 /\ g[n + 1] = e
        /\ \A j \in 1 .. n : g[j] = file[j] /\ j < n + 1
        /\ \A j \in 1 .. n + 1 : j = n + 1 \/ j \in 1 .. n
    BY <1>1, OneEntryMore
  <1>3. PICK V : V = VerdictsOf(rs)
    OBVIOUS
  <1>4. PICK at \in [V -> DOMAIN file] :
          /\ \A k \in V : file[at[k]].by = t /\ file[at[k]].result = rs[k]
          /\ \A k, l \in V : k < l => at[k] < at[l]
          /\ \A k \in V, j \in DOMAIN file :
               at[k] < j /\ file[j].by = t => \E l \in V : at[l] = j
    BY <1>3 DEF AuditedIn
  <1>5. VerdictsOf(qs) = V \cup {m + 1} /\ V \subseteq 1 .. m
    BY <1>3 DEF VerdictsOf
  <1>6. \A k \in V : k \in 1 .. m /\ k # m + 1 /\ k < m + 1 /\ ~(m + 1 < k)
    BY <1>5
  <1>7. \A k \in V : at[k] \in 1 .. n /\ at[k] < n + 1
    BY <1>2, <1>4
  <1>8. /\ 1 .. n \subseteq 1 .. n + 1 /\ n + 1 \in 1 .. n + 1 /\ ~(n + 1 < n + 1)
        /\ \A j \in 1 .. n + 1 : ~(n + 1 < j)
        /\ ~(m + 1 < m + 1)
    BY <1>1
  <1>9. PICK bt : bt = [k \in V \cup {m + 1} |-> IF k = m + 1 THEN n + 1 ELSE at[k]]
    OBVIOUS
  <1>10. /\ bt[m + 1] = n + 1
         /\ \A k \in V : bt[k] = at[k]
    BY <1>6, <1>9
  <1>11. bt \in [V \cup {m + 1} -> DOMAIN g]
    BY <1>2, <1>7, <1>8, <1>9
  <1>12. \A k \in V \cup {m + 1} : g[bt[k]].by = t /\ g[bt[k]].result = qs[k]
    <2>1. \A k \in V : g[bt[k]].by = t /\ g[bt[k]].result = qs[k]
      BY <1>2, <1>4, <1>6, <1>7, <1>10
    <2> QED BY <1>2, <1>10, <2>1
  <1>13. \A k, l \in V \cup {m + 1} : k < l => bt[k] < bt[l]
    BY <1>4, <1>6, <1>7, <1>8, <1>10
  <1>14. \A k \in V \cup {m + 1}, j \in DOMAIN g :
           bt[k] < j /\ g[j].by = t => \E l \in V \cup {m + 1} : bt[l] = j
    <2> SUFFICES ASSUME NEW k \in V \cup {m + 1}, NEW j \in DOMAIN g, bt[k] < j, g[j].by = t
                 PROVE  \E l \in V \cup {m + 1} : bt[l] = j
      OBVIOUS
    <2>1. CASE j = n + 1
      BY <1>10, <2>1
    <2>2. CASE j # n + 1
      <3>1. j \in 1 .. n /\ g[j] = file[j] /\ j \in DOMAIN file
        BY <1>2, <2>2
      <3>2. k \in V /\ bt[k] = at[k]
        BY <1>2, <1>8, <1>10
      <3>3. PICK l \in V : at[l] = j
        BY <1>4, <3>1, <3>2
      <3> QED BY <1>10, <3>3
    <2> QED BY <2>1, <2>2
  <1>15. AuditedIn(qs, g, t)
    <2>1. bt \in [VerdictsOf(qs) -> DOMAIN g]
      BY <1>5, <1>11
    <2>2. \A k \in VerdictsOf(qs) : g[bt[k]].by = t /\ g[bt[k]].result = qs[k]
      BY <1>5, <1>12
    <2>3. \A k, l \in VerdictsOf(qs) : k < l => bt[k] < bt[l]
      BY <1>5, <1>13
    <2>4. \A k \in VerdictsOf(qs), j \in DOMAIN g :
            bt[k] < j /\ g[j].by = t => \E l \in VerdictsOf(qs) : bt[l] = j
      BY <1>5, <1>14
    <2> SUFFICES \E x \in [VerdictsOf(qs) -> DOMAIN g] :
                   /\ \A k \in VerdictsOf(qs) : g[x[k]].by = t /\ g[x[k]].result = qs[k]
                   /\ \A k, l \in VerdictsOf(qs) : k < l => x[k] < x[l]
                   /\ \A k \in VerdictsOf(qs), j \in DOMAIN g :
                        x[k] < j /\ g[j].by = t => \E l \in VerdictsOf(qs) : x[l] = j
      BY DEF AuditedIn
    <2> WITNESS bt \in [VerdictsOf(qs) -> DOMAIN g]
    <2> QED BY <2>2, <2>3, <2>4
  <1> QED BY <1>1, <1>15

\* Stamps stay in order when time passes, or another thread writes its entry.
LEMMA StampedStays ==
  ASSUME NEW file \in Seq(Entry), NEW t, NEW m \in Nat, NEW n \in Nat, m <= n,
         StampedIn(file, t, m)
  PROVE  StampedIn(file, t, n)
  <1>1. \A j \in DOMAIN file : file[j].ts \in Nat
    <2>1. \A x \in Entry : x.ts \in Nat
      BY DEF Entry
    <2> QED BY <2>1, LenProperties, ElementOfSeq
  <1> QED BY <1>1 DEF StampedIn

LEMMA StampedAppended ==
  ASSUME NEW file \in Seq(Entry), NEW t, NEW m \in Nat, NEW e \in Entry,
         e.by = t => e.ts = m, StampedIn(file, t, m)
  PROVE  StampedIn(Append(file, e), t, m)
  <1>1. PICK g \in Seq(Entry), n \in Nat : g = Append(file, e) /\ n = Len(file)
    BY OneEntryMore
  <1>2. /\ DOMAIN file = 1 .. n /\ DOMAIN g = 1 .. n + 1 /\ g[n + 1] = e
        /\ \A j \in 1 .. n : g[j] = file[j] /\ j < n + 1
        /\ \A j \in 1 .. n + 1 : j = n + 1 \/ j \in 1 .. n
        /\ \A j \in 1 .. n + 1 : ~(n + 1 < j)
    BY <1>1, OneEntryMore
  <1>3. m <= m
    OBVIOUS
  <1>4. StampedIn(g, t, m)
    <2>1. \A j \in DOMAIN g : g[j].by = t => g[j].ts <= m
      BY <1>2, <1>3 DEF StampedIn
    <2>2. \A i, j \in DOMAIN g :
            i < j /\ g[i].by = t /\ g[j].by = t => g[i].ts <= g[j].ts
      BY <1>2 DEF StampedIn
    <2> QED BY <2>1, <2>2 DEF StampedIn
  <1> QED BY <1>1, <1>4

\* The steps of verify() before its result is taken in leave the results, and the
\* time at which it was entered, alone, and the one that stamps the entry stamps it with the clock.
LEMMA VerifyKeeps ==
  ASSUME VerifierInv, NEW t \in Threads, Verify(t)
  PROVE  /\ call[t].pc \notin {"idle", "record"}
         /\ \E e : /\ call' = [call EXCEPT ![t] = e]
                   /\ e.results = call[t].results /\ e.begun = call[t].begun
                   /\ e.pc = "record" => e.ts = now
  <1>1. PICK c : c = call[t]
    OBVIOUS
  <1>2. PICK v : v = ViewOf(c)
    OBVIOUS
  <1>3. /\ RegistryTypeOK /\ now \in Nat /\ c \in Call /\ CallInv(c, v, now)
        /\ CurrentAction(t) = ActionOf(c) /\ View(t) = v
    BY <1>1, <1>2 DEF VerifierInv, RegistryTypeOK, CurrentAction, ActionOf, View, ViewOf,
                      LiveRegistry
  <1>4. v \in Snapshot
    BY <1>2, <1>3, ViewTyped
  <1>5. ASSUME NEW e, call' = [call EXCEPT ![t] = e], e.results = c.results, e.begun = c.begun,
               e.pc = "record" => e.ts = now, c.pc \notin {"idle", "record"}
        PROVE  /\ call[t].pc \notin {"idle", "record"}
               /\ \E x : /\ call' = [call EXCEPT ![t] = x]
                         /\ x.results = call[t].results /\ x.begun = call[t].begun
                         /\ x.pc = "record" => x.ts = now
    BY <1>1, <1>5
  <1>6. CASE CheckActor(t)
    <2> DEFINE e == Judged(c, ActorViolations(ActionOf(c), v.machineOwners),
                           DemandOrEnd(ActionOf(c), 1))
    <2>1. c.pc = "actor" /\ call' = [call EXCEPT ![t] = e]
      BY <1>1, <1>3, <1>6 DEF CheckActor, Judged
    <2>2. /\ ActorViolations(ActionOf(c), v.machineOwners) \in SUBSET {"FORBIDDEN", "A4", "A6"}
          /\ DemandOrEnd(ActionOf(c), 1) \in {"claims", "conclude"}
      BY DEF ActorViolations, DemandOrEnd
    <2>3. e.results = c.results /\ e.begun = c.begun /\ e.pc # "record"
      BY <1>3, <2>2, JudgeFields DEF SamePlan, SameStart
    <2> HIDE DEF e
    <2> QED BY <1>5, <2>1, <2>3
  <1>7. ASSUME NEW x \in Call, x.results = c.results, x.begun = c.begun,
               c.pc \notin {"idle", "record"},
               call' = [call EXCEPT ![t] = Proceed(x, ActionOf(c))]
        PROVE  /\ call[t].pc \notin {"idle", "record"}
               /\ \E y : /\ call' = [call EXCEPT ![t] = y]
                         /\ y.results = call[t].results /\ y.begun = call[t].begun
                         /\ y.pc = "record" => y.ts = now
    <2>1. PICK e : e = Proceed(x, ActionOf(c))
      OBVIOUS
    <2>2. e.results = c.results /\ e.begun = c.begun /\ e.pc # "record"
      BY <1>7, <2>1, ProceedFields DEF DemandOrEnd
    <2> QED BY <1>5, <1>7, <2>1, <2>2
  <1>8. CASE ReadPublic(t)
    <2>1. c.pc = "claims" /\ call' = [call EXCEPT ![t] = Proceed(c, ActionOf(c))]
      BY <1>1, <1>3, <1>8 DEF ReadPublic
    <2> QED BY <1>3, <1>7, <2>1
  <1>9. CASE ReadClaims(t)
    <2>1. PICK h : h = ClaimsFor(v.claims, ActionOf(c).actor, CurrentDemand(t).resource)
      OBVIOUS
    <2>2. c.pc = "claims" /\ call' = [call EXCEPT ![t] = [c EXCEPT !.held = h, !.pc = "covers"]]
      BY <1>1, <1>3, <1>9, <2>1 DEF ReadClaims
    <2>3. h \in SUBSET Nat
      BY <1>4, <2>1, SnapshotTyped DEF ClaimsFor
    <2>4. PICK e : e = [c EXCEPT !.held = h, !.pc = "covers"]
      OBVIOUS
    <2>5. e.results = c.results /\ e.begun = c.begun /\ e.pc # "record"
      BY <1>3, <2>3, <2>4, HoldFields DEF SamePlan, SameStart
    <2> QED BY <1>5, <2>2, <2>4, <2>5
  <1>10. CASE WeighClaims(t)
    <2> DEFINE op == CurrentDemand(t).op
               usable == {i \in c.held : Covers(v.claims[i], op)}
               low(best) == Lowered(c, Lower(c.confidence, v.claims[best].confidence))
    <2>1. c.pc = "covers"
      BY <1>1, <1>10 DEF WeighClaims
    <2>2. \/ call' = [call EXCEPT ![t] =
                        Proceed([c EXCEPT !.denied = c.denied \cup {c.demand}, !.confidence = 0],
                                ActionOf(c))]
          \/ \E best \in usable :
               \/ call' = [call EXCEPT ![t] = [low(best) EXCEPT !.pc = "conflicts"]]
               \/ call' = [call EXCEPT ![t] = Proceed(low(best), ActionOf(c))]
      BY <1>1, <1>3, <1>10 DEF WeighClaims, Lowered
    <2>3. CASE call' = [call EXCEPT ![t] =
                          Proceed([c EXCEPT !.denied = c.denied \cup {c.demand}, !.confidence = 0],
                                  ActionOf(c))]
      <3>1. PICK d : d = c.denied \cup {c.demand}
        OBVIOUS
      <3>2. d \in SUBSET Nat /\ 0 \in 0 .. 100
        BY <1>3, <1>4, <2>1, <3>1, InProgress
      <3>3. PICK x : x = Denied(c, d, 0)
        OBVIOUS
      <3>4. x \in Call /\ x.results = c.results /\ x.begun = c.begun
        BY <1>3, <3>2, <3>3, DenyFields DEF SamePlan, SameStart
      <3> QED BY <1>7, <2>1, <2>3, <3>1, <3>3, <3>4 DEF Denied
    <2>4. ASSUME NEW best \in usable,
                 \/ call' = [call EXCEPT ![t] = [low(best) EXCEPT !.pc = "conflicts"]]
                 \/ call' = [call EXCEPT ![t] = Proceed(low(best), ActionOf(c))]
          PROVE  /\ call[t].pc \notin {"idle", "record"}
                 /\ \E x : /\ call' = [call EXCEPT ![t] = x]
                           /\ x.results = call[t].results /\ x.begun = call[t].begun
                           /\ x.pc = "record" => x.ts = now
      <3>1. PICK k : k = Lower(c.confidence, v.claims[best].confidence)
        OBVIOUS
      <3>2. k \in 0 .. 100
        <4>1. best \in DOMAIN v.claims
          BY <1>3, <1>4, <2>1, InProgress
        <4> QED BY <1>3, <1>4, <2>1, <3>1, <4>1, InProgress, SnapshotTyped, LowerOfTwo
      <3>3. PICK x : x = Lowered(c, k)
        OBVIOUS
      <3>4. x \in Call /\ x.results = c.results /\ x.begun = c.begun
        BY <1>3, <3>2, <3>3, LowerFields DEF SamePlan, SameStart
      <3>5. CASE call' = [call EXCEPT ![t] = [x EXCEPT !.pc = "conflicts"]]
        <4>1. PICK e : e = [x EXCEPT !.pc = "conflicts"]
          OBVIOUS
        <4>2. e.results = c.results /\ e.begun = c.begun /\ e.pc # "record"
          BY <3>4, <4>1, PcFields DEF SamePlan, SameStart
        <4> QED BY <1>5, <2>1, <3>5, <4>1, <4>2
      <3>6. CASE call' = [call EXCEPT ![t] = Proceed(x, ActionOf(c))]
        BY <1>7, <2>1, <3>4, <3>6
      <3> QED BY <2>4, <3>1, <3>3, <3>5, <3>6
    <2> QED BY <2>2, <2>3, <2>4
  <1>11. CASE ScanConflicts(t)
    <2>1. PICK b \in BOOLEAN :
            b = (c.arbitration \/ OnResource(v.conflicts, CurrentDemand(t).resource))
      OBVIOUS
    <2>2. c.pc = "conflicts"
          /\ call' = [call EXCEPT ![t] = Proceed([c EXCEPT !.arbitration = b], ActionOf(c))]
      BY <1>1, <1>3, <1>11, <2>1 DEF ScanConflicts
    <2>3. PICK x : x = [c EXCEPT !.arbitration = b]
      OBVIOUS
    <2>4. x \in Call /\ x.results = c.results /\ x.begun = c.begun
      BY <1>3, <2>1, <2>3, ArbitrationFields DEF SamePlan, SameStart
    <2> QED BY <1>7, <2>2, <2>3, <2>4
  <1>12. CASE Conclude(t)
    <2>1. c.pc = "conclude" /\ call' = [call EXCEPT ![t] = AtRecord(c, now)]
      BY <1>1, <1>12 DEF Conclude, AtRecord
    <2>2. PICK e : e = AtRecord(c, now)
      OBVIOUS
    <2>3. e.results = c.results /\ e.begun = c.begun /\ e.ts = now
      BY <1>3, <2>2, StampFields DEF SamePlan, SameStart
    <2> QED BY <1>5, <2>1, <2>2, <2>3
  <1> QED BY <1>6, <1>8, <1>9, <1>10, <1>11, <1>12 DEF Verify

\* Record adds one verdict to the results, and cancelled ones at most.
LEMMA TakenResults ==
  ASSUME VerifierInv, NEW t \in Threads, call[t].pc = "record"
  PROVE  \E m \in Nat :
           LET rs == call[t].results
               qs == TakeResult(t).results
           IN  /\ TakeResult(t).pc # "record"
               /\ DOMAIN rs = 1 .. m /\ m + 1 \in DOMAIN qs
               /\ \A k \in 1 .. m : k \in DOMAIN qs /\ qs[k] = rs[k]
               /\ qs[m + 1] = ResultOf(call[t])
               /\ \A k \in DOMAIN qs :
                    k \in 1 .. m \/ k = m + 1 \/ "CANCELLED" \in qs[k].violations
  <1>1. PICK c : c = call[t]
    OBVIOUS
  <1>2. PICK v : v = View(t)
    OBVIOUS
  <1>3. /\ RegistryTypeOK /\ now \in Nat /\ c \in Call /\ CallInv(c, v, now)
        /\ v = ViewOf(c) /\ c.pc = "record"
    BY <1>1, <1>2 DEF VerifierInv, RegistryTypeOK, View, ViewOf, LiveRegistry
  <1>4. v \in Snapshot
    BY <1>3, ViewTyped
  <1>5. PICK x : x = Extended(c)
    OBVIOUS
  <1>6. PICK m \in Nat : m = Len(c.results)
    BY <1>3, <1>4, ExtendedFields
  <1>7. /\ x \in Call /\ x.results = Append(c.results, ResultOf(c))
        /\ DOMAIN x.results = 1 .. m + 1 /\ m < Len(c.plan) /\ Len(c.plan) \in Nat
    BY <1>3, <1>4, <1>5, <1>6, ExtendedFields
  <1>8. c.results \in Seq(Result) /\ ResultOf(c) \in Result
    BY <1>3, <1>4, ResultSound DEF Call
  <1>9. /\ DOMAIN c.results = 1 .. m
        /\ \A k \in 1 .. m : x.results[k] = c.results[k]
        /\ x.results[m + 1] = ResultOf(c)
    BY <1>6, <1>7, <1>8, LenProperties, AppendProperties
  <1>10. PICK q : q = TakeResult(t)
    OBVIOUS
  <1>11. q = IF CutsNow(c) THEN Ended(x, CutResults(c))
             ELSE IF Len(c.plan) = Len(c.results) + 1 THEN [x EXCEPT !.pc = "idle"]
             ELSE Enter(x, v)
    BY <1>1, <1>2, <1>3, <1>4, <1>5, <1>10, TakeResultIs
  <1>12. /\ 1 .. m \subseteq 1 .. m + 1 /\ m + 1 \in 1 .. m + 1
         /\ \A k \in 1 .. m + 1 : k \in 1 .. m \/ k = m + 1
    BY <1>6
  <1>13. /\ q.pc # "record"
         /\ m + 1 \in DOMAIN q.results
         /\ \A k \in 1 .. m : k \in DOMAIN q.results /\ q.results[k] = c.results[k]
         /\ q.results[m + 1] = ResultOf(c)
         /\ \A k \in DOMAIN q.results :
              k \in 1 .. m \/ k = m + 1 \/ "CANCELLED" \in q.results[k].violations
    <2>1. CASE CutsNow(c)
      <3>1. PICK rs : rs = CutResults(c)
        OBVIOUS
      <3>2. /\ rs \in Seq(Result) /\ DOMAIN rs = 1 .. Len(c.plan)
            /\ \A k \in 1 .. m + 1 : rs[k] = x.results[k]
            /\ \A k \in 1 .. Len(c.plan) : k > m + 1 => rs[k] = CancelledResult
        BY <1>3, <1>4, <1>5, <1>6, <3>1, CancelledRest
      <3>3. q.pc = "idle" /\ q.results = rs
        BY <1>7, <1>11, <2>1, <3>1, <3>2, EndedFields
      <3>4. /\ \A k \in 1 .. m + 1 : k \in 1 .. Len(c.plan)
            /\ \A k \in 1 .. Len(c.plan) : k \in 1 .. m \/ k = m + 1 \/ k > m + 1
        BY <1>6, <1>7
      <3>5. "CANCELLED" \in CancelledResult.violations
        BY DEF CancelledResult
      <3> QED BY <1>9, <1>12, <3>2, <3>3, <3>4, <3>5
    <2>2. CASE ~CutsNow(c) /\ Len(c.plan) = Len(c.results) + 1
      <3>1. q = [x EXCEPT !.pc = "idle"]
        BY <1>11, <2>2
      <3>2. q.pc = "idle" /\ q.results = x.results
        BY <1>7, <3>1, PcFields DEF SamePlan
      <3> QED BY <1>7, <1>9, <1>12, <3>2
    <2>3. CASE ~CutsNow(c) /\ Len(c.plan) # Len(c.results) + 1
      <3>1. q = Enter(x, v)
        BY <1>11, <2>3
      <3>2. q.pc = "actor" /\ q.results = x.results
        BY <1>3, <1>4, <1>7, <3>1, EnterFields
      <3> QED BY <1>7, <1>9, <1>12, <3>2
    <2> QED BY <2>1, <2>2, <2>3
  <1> QED BY <1>1, <1>9, <1>10, <1>13

\* Time, and mutations, leave the verdicts audited and the stamps in order.
LEMMA AuditRegistryStep ==
  ASSUME AuditInv, [RegistryNext]_registryVars, UNCHANGED callVars
  PROVE  AuditInv'
  <1>1. /\ VerifierInv /\ auditLog \in Seq(Entry) /\ auditFile \in Seq(Entry)
        /\ call \in [Threads -> Call]
        /\ call' = call /\ auditLog' = auditLog /\ auditFile' = auditFile
    BY DEF AuditInv, VerifierInv, callVars
  <1>2. VerifierInv'
    BY <1>1, RegistryStepKeeps
  <1>3. now \in Nat /\ now' \in Nat /\ now <= now'
    BY <1>1, RegistryGrows DEF VerifierInv
  <1>4. ASSUME NEW t \in Threads
        PROVE  /\ AuditedIn(call[t].results, auditFile, t)
               /\ StampOf(call[t], now') <= now'
               /\ StampedIn(auditFile, t, StampOf(call[t], now'))
    <2>1. /\ AuditedIn(call[t].results, auditFile, t)
          /\ StampOf(call[t], now) <= now
          /\ StampedIn(auditFile, t, StampOf(call[t], now))
      BY DEF AuditInv
    <2>2. call[t].ts \in Nat
      BY <1>1 DEF Call
    <2>3. CASE call[t].pc = "record"
      BY <1>3, <2>1, <2>2, <2>3 DEF StampOf
    <2>4. CASE call[t].pc # "record"
      <3>1. StampOf(call[t], now) = now /\ StampOf(call[t], now') = now'
        BY <2>4 DEF StampOf
      <3> QED BY <1>1, <1>3, <2>1, <3>1, StampedStays
    <2> QED BY <2>3, <2>4
  <1> QED BY <1>1, <1>2, <1>4 DEF AuditInv

\* The entry that a thread writes.
LEMMA EntryTyped ==
  ASSUME VerifierInv, NEW t \in Threads, call[t].pc = "record"
  PROVE  /\ EntryOf(t) \in Entry
         /\ EntryOf(t).by = t /\ EntryOf(t).ts = call[t].ts
         /\ EntryOf(t).result = ResultOf(call[t])
         /\ "CANCELLED" \notin ResultOf(call[t]).violations
  <1>1. /\ call[t] \in Call /\ CallInv(call[t], ViewOf(call[t]), now)
        /\ now \in Nat /\ RegistryTypeOK
    BY DEF VerifierInv, RegistryTypeOK
  <1>2. ViewOf(call[t]) \in Snapshot
    BY <1>1, ViewTyped
  <1>3. ResultOf(call[t]) \in Result /\ "CANCELLED" \notin ResultOf(call[t]).violations
    BY <1>1, <1>2, ResultSound DEF Sound
  <1>4. call[t].ts \in Nat
    BY <1>1 DEF Call
  <1> QED BY <1>3, <1>4 DEF EntryOf, Entry

\* A step of thread t that leaves the audit file alone keeps it in order if it
\* keeps, or drops, the results of t, and stamps no entry with an earlier time.
LEMMA AuditQuietStep ==
  ASSUME AuditInv, VerifierInv', UNCHANGED <<auditFile, now>>, auditLog' \in Seq(Entry),
         NEW t \in Threads, NEW e, call' = [call EXCEPT ![t] = e],
         e.results = call[t].results \/ e.results = <<>>,
         e.pc = "record" => call[t].pc # "record" /\ e.ts = now
  PROVE  AuditInv'
  <1>1. /\ call \in [Threads -> Call] /\ auditFile \in Seq(Entry)
        /\ now \in Nat /\ auditFile' = auditFile /\ now' = now
    BY DEF AuditInv, VerifierInv, RegistryTypeOK
  <1>2. ASSUME NEW s \in Threads
        PROVE  /\ AuditedIn(call'[s].results, auditFile, s)
               /\ StampOf(call'[s], now) <= now
               /\ StampedIn(auditFile, s, StampOf(call'[s], now))
    <2>1. /\ AuditedIn(call[s].results, auditFile, s)
          /\ StampOf(call[s], now) <= now
          /\ StampedIn(auditFile, s, StampOf(call[s], now))
      BY DEF AuditInv
    <2>2. CASE s # t
      BY <1>1, <2>1, <2>2
    <2>3. CASE s = t
      <3>1. call'[s] = e
        BY <1>1, <2>3
      <3>2. AuditedIn(e.results, auditFile, s)
        BY <2>1, <2>3, AuditedNothing
      <3>3. StampOf(e, now) = now /\ now <= now
        BY <1>1 DEF StampOf
      <3>4. StampOf(call[s], now) \in Nat
        BY <1>1 DEF StampOf, Call
      <3>5. StampedIn(auditFile, s, now)
        BY <1>1, <2>1, <3>4, StampedStays
      <3> QED BY <3>1, <3>2, <3>3, <3>5
    <2> QED BY <2>2, <2>3
  <1> QED BY <1>1, <1>2 DEF AuditInv

\* Record writes the entry of the verdict that the caller gets.
LEMMA AuditRecordStep ==
  ASSUME AuditInv, VerifierInv', UNCHANGED now, NEW t \in Threads, Record(t)
  PROVE  AuditInv'
  <1>1. /\ call \in [Threads -> Call] /\ auditFile \in Seq(Entry) /\ auditLog \in Seq(Entry)
        /\ now \in Nat /\ now' = now /\ VerifierInv /\ call[t].pc = "record"
        /\ auditLog' = Append(auditLog, EntryOf(t))
        /\ auditFile' = Append(auditFile, EntryOf(t))
        /\ call' = [call EXCEPT ![t] = TakeResult(t)]
    BY DEF AuditInv, VerifierInv, RegistryTypeOK, Record
  <1>2. PICK x : x = EntryOf(t)
    OBVIOUS
  <1>3. /\ x \in Entry /\ x.by = t /\ x.ts = call[t].ts /\ x.result = ResultOf(call[t])
        /\ "CANCELLED" \notin x.result.violations
    BY <1>1, <1>2, EntryTyped
  <1>4. PICK file : file = Append(auditFile, x)
    OBVIOUS
  <1>5. file = auditFile' /\ auditLog' \in Seq(Entry) /\ auditFile' \in Seq(Entry)
    BY <1>1, <1>2, <1>3, <1>4, AppendProperties
  <1>6. PICK q : q = TakeResult(t)
    OBVIOUS
  <1>7. PICK m \in Nat :
          /\ q.pc # "record"
          /\ DOMAIN call[t].results = 1 .. m /\ m + 1 \in DOMAIN q.results
          /\ \A k \in 1 .. m : k \in DOMAIN q.results /\ q.results[k] = call[t].results[k]
          /\ q.results[m + 1] = ResultOf(call[t])
          /\ \A k \in DOMAIN q.results :
               k \in 1 .. m \/ k = m + 1 \/ "CANCELLED" \in q.results[k].violations
    BY <1>1, <1>6, TakenResults
  <1>8. ASSUME NEW s \in Threads
        PROVE  /\ AuditedIn(call'[s].results, file, s)
               /\ StampOf(call'[s], now) <= now
               /\ StampedIn(file, s, StampOf(call'[s], now))
    <2>1. /\ AuditedIn(call[s].results, auditFile, s)
          /\ StampOf(call[s], now) <= now
          /\ StampedIn(auditFile, s, StampOf(call[s], now))
          /\ StampOf(call[s], now) \in Nat
      BY <1>1 DEF AuditInv, StampOf, Call
    <2>2. CASE s # t
      <3>1. call'[s] = call[s]
        BY <1>1, <2>2
      <3>2. AuditedIn(call[s].results, file, s)
        BY <1>1, <1>3, <1>4, <2>1, <2>2, AuditedByOthers
      <3>3. StampedIn(file, s, StampOf(call[s], now))
        BY <1>1, <1>3, <1>4, <2>1, <2>2, StampedAppended
      <3> QED BY <2>1, <3>1, <3>2, <3>3
    <2>3. CASE s = t
      <3>1. call'[s] = q
        BY <1>1, <1>6, <2>3
      <3>2. PICK rs : rs = call[t].results
        OBVIOUS
      <3>3. PICK qs : qs = q.results
        OBVIOUS
      <3>4. AuditedIn(rs, auditFile, t)
        BY <2>1, <2>3, <3>2
      <3>5. AuditedIn(qs, file, t)
        <4>1. /\ DOMAIN rs = 1 .. m /\ m + 1 \in DOMAIN qs
              /\ \A k \in 1 .. m : k \in DOMAIN qs /\ qs[k] = rs[k]
              /\ qs[m + 1] = x.result
              /\ \A k \in DOMAIN qs : k \in 1 .. m \/ k = m + 1 \/ "CANCELLED" \in qs[k].violations
          BY <1>3, <1>7, <3>2, <3>3
        <4>2. AuditedIn(qs, Append(auditFile, x), t)
          BY <1>1, <1>3, <3>4, <4>1, AuditedByOwn
        <4> QED BY <1>4, <4>2
      <3>6. StampOf(call[t], now) = call[t].ts /\ StampOf(q, now) = now /\ now <= now
        BY <1>1, <1>7 DEF StampOf
      <3>7. StampedIn(file, t, call[t].ts)
        BY <1>1, <1>3, <1>4, <2>1, <2>3, <3>6, StampedAppended
      <3>8. StampedIn(file, t, now)
        BY <1>1, <1>5, <2>1, <2>3, <3>6, <3>7, StampedStays
      <3> QED BY <2>3, <3>1, <3>3, <3>5, <3>6, <3>8
    <2> QED BY <2>2, <2>3
  <1> QED BY <1>1, <1>5, <1>8 DEF AuditInv

LEMMA AuditInvStep == AuditInv /\ [Next]_vars => AuditInv'
  <1> SUFFICES ASSUME AuditInv, [Next]_vars PROVE AuditInv'
    OBVIOUS
  <1>1. /\ VerifierInv /\ VerifierInv' /\ call \in [Threads -> Call]
        /\ auditLog \in Seq(Entry) /\ auditFile \in Seq(Entry)
    BY VerifierInvStep DEF AuditInv, VerifierInv
  <1>2. CASE RegistryNext /\ UNCHANGED callVars
    BY <1>2, AuditRegistryStep
  <1>3. CASE UNCHANGED vars
    BY <1>3, AuditRegistryStep DEF vars
  <1>4. ASSUME NEW t \in Threads, UNCHANGED registryVars,
               \E plan \in Plans : Submit(t, plan, Live) \/ Submit(t, plan, snapshot)
        PROVE  AuditInv'
    <2>1. PICK plan \in Plans, r \in Snapshot \cup {Live} : Submit(t, plan, r)
      BY <1>1, <1>4 DEF Submit, VerifierInv, RegistryTypeOK
    <2>2. PICK x : x = [NoCall EXCEPT !.registry = r, !.plan = plan]
      OBVIOUS
    <2>3. x \in Call /\ x.registry = r /\ x.results = <<>>
      BY <2>2, NoCallTyped DEF Call
    <2>4. call' = [call EXCEPT ![t] = Enter(x, ViewOf(x))] /\ UNCHANGED <<auditLog, auditFile>>
      BY <2>1, <2>2, <2>3 DEF Submit, Enter, ViewOf, LiveRegistry
    <2>5. PICK e : e = Enter(x, ViewOf(x))
      OBVIOUS
    <2>6. e.results = <<>> /\ e.pc = "actor"
      <3>1. ViewOf(x) \in Snapshot /\ now \in Nat
        BY <1>1, <2>3, ViewTyped DEF VerifierInv, RegistryTypeOK
      <3> QED BY <2>3, <2>5, <3>1, EnterFields
    <2> QED BY <1>1, <1>4, <2>4, <2>5, <2>6, AuditQuietStep DEF registryVars
  <1>5. ASSUME NEW t \in Threads, UNCHANGED registryVars, Verify(t)
        PROVE  AuditInv'
    <2>1. UNCHANGED <<auditLog, auditFile>>
      BY <1>5 DEF Verify, CheckActor, ReadPublic, ReadClaims, WeighClaims, ScanConflicts, Conclude
    <2>2. call[t].pc # "record"
      BY <1>1, <1>5, VerifyKeeps
    <2>3. PICK e : /\ call' = [call EXCEPT ![t] = e]
                   /\ e.results = call[t].results
                   /\ e.pc = "record" => e.ts = now
      BY <1>1, <1>5, VerifyKeeps
    <2> QED BY <1>1, <1>5, <2>1, <2>2, <2>3, AuditQuietStep DEF registryVars
  <1>6. ASSUME NEW t \in Threads, UNCHANGED registryVars, Record(t)
        PROVE  AuditInv'
    BY <1>1, <1>6, AuditRecordStep DEF registryVars
  <1>7. ASSUME NEW t \in Threads, UNCHANGED registryVars, RecordFails(t)
        PROVE  AuditInv'
    <2>1. auditLog' \in Seq(Entry)
      BY <1>1, <1>7, EntryTyped, AppendProperties DEF RecordFails
    <2>2. PICK e : e = NoCall
      OBVIOUS
    <2>3. call' = [call EXCEPT ![t] = e] /\ UNCHANGED auditFile
      BY <1>7, <2>2 DEF RecordFails
    <2>4. e.results = <<>> /\ e.pc = "idle"
      BY <2>2, NoCallTyped
    <2> QED BY <1>1, <1>7, <2>1, <2>3, <2>4, AuditQuietStep DEF registryVars
  <1> QED BY <1>2, <1>3, <1>4, <1>5, <1>6, <1>7 DEF Next

LEMMA AuditInvInit == Init => AuditInv
  <1> SUFFICES ASSUME Init PROVE AuditInv
    OBVIOUS
  <1>1. VerifierInv /\ auditLog = <<>> /\ auditFile = <<>> /\ now = 0
    BY VerifierInvInit DEF Init, RegistryInit
  <1>2. <<>> \in Seq(Entry) /\ DOMAIN <<>> = {}
    BY EmptySeq
  <1>3. ASSUME NEW t \in Threads
        PROVE  /\ AuditedIn(call[t].results, <<>>, t)
               /\ StampOf(call[t], now) <= now
               /\ StampedIn(<<>>, t, StampOf(call[t], now))
    <2>1. call[t].results = <<>> /\ call[t].pc = "idle"
      BY NoCallTyped DEF Init
    <2>2. 0 <= 0
      OBVIOUS
    <2> QED BY <1>1, <2>1, <2>2, AuditedNothing DEF StampOf, StampedIn
  <1> QED BY <1>1, <1>2, <1>3 DEF AuditInv

\* No verdict without an audit entry, however the calls of threads are interleaved
\* and whichever writes fail; and the clock orders the entries of a thread.
THEOREM AuditIsComplete == Spec => []VerdictsAudited
  <1>1. AuditInv => VerdictsAudited
    BY DEF AuditInv, VerdictsAudited, AuditedIn, StampedIn, Verdicts, VerdictsOf
  <1> QED BY <1>1, AuditInvInit, AuditInvStep, PTL DEF Spec

\* Calls, results and audit entries are well formed in every state.
THEOREM VerifierTyped == Spec => []TypeOK
  <1>1. AuditInv => TypeOK
    <2> SUFFICES ASSUME AuditInv
                 PROVE  TypeOK
      OBVIOUS
    <2>1. /\ VerifierInv /\ RegistryTypeOK /\ call \in [Threads -> Call]
          /\ auditLog \in Seq(Entry) /\ auditFile \in Seq(Entry)
      BY DEF AuditInv, VerifierInv
    <2>2. ASSUME NEW t \in Threads, call[t].pc # "idle"
          PROVE  /\ Len(call[t].results) < Len(call[t].plan)
                 /\ call[t].pc \in {"claims", "covers", "conflicts"} =>
                      call[t].demand \in DOMAIN CurrentAction(t).demands
                 /\ call[t].held \subseteq DOMAIN View(t).claims
      <3>1. WellFormed(call[t], ViewOf(call[t]))
        BY <2>1 DEF VerifierInv, CallInv
      <3>2. CurrentAction(t) = ActionOf(call[t]) /\ View(t) = ViewOf(call[t])
        BY DEF CurrentAction, ActionOf, View, ViewOf, LiveRegistry
      <3> QED BY <2>2, <3>1, <3>2 DEF WellFormed
    <2> QED BY <2>1, <2>2 DEF TypeOK
  <1> QED BY <1>1, AuditInvInit, AuditInvStep, PTL DEF Spec

-----------------------------------------------------------------------------
(* The gate implements AuthorityGate: verdicts are atomic.                  *)

\* Every verifier is one on the registry itself: AuthorityGate has no snapshots.
OnLiveRegistry == \A t \in Threads : call[t].registry = Live

\* The clock ends no claim while a thread is inside verify().
ExpiryWaits ==
  [][(\E t \in Threads : call[t].pc # "idle") =>
       \A i \in DOMAIN claims : IsValid(claims[i]) => IsValid(claims[i])']_vars

\* The registry as it is gives demand d of action a, and finds no fault with its actor.
Granted(a, d) == CanAct(claims, a.actor, a.demands[d].resource, a.demands[d].op)

ActorFine(a) ==
  /\ ~a.forbidden
  /\ a.actor \in Machines => a.governs = {} /\ machineOwners[a.actor] # NoOwner

\* Doomed(t) and VerdictOf(t), for the call of thread t.
IsDoomed(c) ==
  \/ c.violations # {}
  \/ c.denied # {}
  \/ /\ c.pc = "covers"
     /\ \A i \in c.held : ~Covers(claims[i], ActionOf(c).demands[c.demand].op)

VerdictFor(c) ==
  IF c.pc = "idle" THEN [action |-> NoCall, verdict |-> "none"]
  ELSE [action |-> ActionOf(c),
        verdict |-> IF IsDoomed(c) THEN "denied"
                    ELSE IF c.pc = "record" THEN "permitted" ELSE "pending"]

\* As long as nothing speaks against a call, it is granted what it has asked for.
Earned(c) ==
  c.pc # "idle" /\ c.violations = {} /\ c.denied = {} =>
    /\ \A d \in 1 .. c.demand - 1 : Granted(ActionOf(c), d)
    /\ c.pc = "conflicts" => Granted(ActionOf(c), c.demand)

\* What a thread of AuthorityGate may do to its verdict in one step, or none.
GateMove(p, q) ==
  \/ q = p
  \/ /\ p.verdict # "pending"
     /\ \E a \in Gate!Actions : q = [action |-> a, verdict |-> "pending"]
  \/ /\ p.verdict = "pending"
     /\ q = [action |-> p.action,
             verdict |-> IF Gate!Authorized(p.action) THEN "permitted" ELSE "denied"]
  \/ p.verdict \in {"permitted", "denied"} /\ q = [action |-> NoCall, verdict |-> "none"]

Ready(c) == RegistryTypeOK /\ CallInv(c, LiveRegistry, now) /\ Earned(c)

Progress(c, e) == Earned(e) /\ GateMove(VerdictFor(c), VerdictFor(e))

LEMMA AuthorizedIs ==
  ASSUME NEW a
  PROVE  Gate!Authorized(a) <=> ActorFine(a) /\ \A d \in DOMAIN a.demands : Granted(a, d)
  <1>1. \A h, r, op : Gate!CanAct(claims, h, r, op) <=> CanAct(claims, h, r, op)
    BY DEF Gate!CanAct, CanAct, Gate!PublicRead, PublicRead, Gate!ClaimsFor, ClaimsFor,
           Gate!Covers, Covers, Gate!IsValid, IsValid, Gate!IsExpired, IsExpired
  <1> QED BY <1>1, Zenon DEF Gate!Authorized, ActorFine, Granted

\* What is known of a call in progress on the live registry.
LEMMA ReadyFacts ==
  ASSUME NEW c, Ready(c), c.pc # "idle"
  PROVE  /\ LiveRegistry \in Snapshot /\ now \in Nat
         /\ LiveRegistry.claims = claims /\ LiveRegistry.machineOwners = machineOwners
         /\ c \in Call /\ Len(c.results) < Len(c.plan)
         /\ c.plan \in Plans /\ ActionOf(c) \in Action
         /\ Len(c.results) + 1 \in DOMAIN c.plan
         /\ Len(ActionOf(c).demands) \in Nat
         /\ DOMAIN ActionOf(c).demands = 1 .. Len(ActionOf(c).demands)
         /\ c.held \subseteq DOMAIN claims /\ c.demand \in Nat
         /\ Underway(c, LiveRegistry, now)
  <1>1. LiveRegistry \in Snapshot /\ now \in Nat /\ CallInv(c, LiveRegistry, now)
    BY DEF Ready, RegistryTypeOK, LiveRegistry, Snapshot
  <1>2. LiveRegistry.claims = claims /\ LiveRegistry.machineOwners = machineOwners
    BY DEF LiveRegistry
  <1>3. c \in Call /\ Len(c.results) < Len(c.plan)
    BY <1>1, InProgress
  <1>4. Len(c.results) + 1 \in DOMAIN c.plan
    BY <1>3, ActionTyped
  <1> QED BY <1>1, <1>2, <1>3, <1>4, InProgress

\* A verdict that is as it was.
LEMMA NoMove ==
  ASSUME NEW c, NEW e, c.pc # "idle", e.pc # "idle", ActionOf(e) = ActionOf(c),
         IsDoomed(e) <=> IsDoomed(c), e.pc = "record" <=> c.pc = "record"
  PROVE  GateMove(VerdictFor(c), VerdictFor(e))
  BY DEF GateMove, VerdictFor

\* A verdict that is given, rightly at this instant.
LEMMA DecideMove ==
  ASSUME NEW c, NEW e, c.pc # "idle", e.pc # "idle", ActionOf(e) = ActionOf(c),
         ~IsDoomed(c), c.pc # "record",
         \/ IsDoomed(e) /\ ~Gate!Authorized(ActionOf(c))
         \/ ~IsDoomed(e) /\ e.pc = "record" /\ Gate!Authorized(ActionOf(c))
  PROVE  GateMove(VerdictFor(c), VerdictFor(e))
  <1>1. VerdictFor(c) = [action |-> ActionOf(c), verdict |-> "pending"]
    BY DEF VerdictFor
  <1>2. VerdictFor(e) = [action |-> ActionOf(c),
                         verdict |-> IF Gate!Authorized(ActionOf(c)) THEN "permitted"
                                     ELSE "denied"]
    BY DEF VerdictFor
  <1> QED BY <1>1, <1>2 DEF GateMove

\* A call that begins with an action of its plan.
LEMMA BeginMove ==
  ASSUME NEW c, NEW e \in Call, VerdictFor(c).verdict # "pending",
         e.pc = "actor", e.demand = 1, e.violations = {}, e.denied = {},
         Len(e.results) < Len(e.plan)
  PROVE  Progress(c, e)
  <1>1. e.plan \in Plans /\ Len(e.results) + 1 \in DOMAIN e.plan
    BY ActionTyped
  <1>2. ActionOf(e) \in Gate!Actions
    BY <1>1 DEF Gate!Actions, ActionOf
  <1>3. VerdictFor(e) = [action |-> ActionOf(e), verdict |-> "pending"]
    BY DEF VerdictFor, IsDoomed
  <1>4. Earned(e)
    BY DEF Earned
  <1> QED BY <1>2, <1>3, <1>4 DEF Progress, GateMove

\* A call that is over.
LEMMA EndMove ==
  ASSUME NEW c, NEW e, c.pc = "record", e.pc = "idle"
  PROVE  Progress(c, e)
  <1>1. VerdictFor(c).verdict \in {"permitted", "denied"}
    BY DEF VerdictFor
  <1>2. VerdictFor(e) = [action |-> NoCall, verdict |-> "none"]
    BY DEF VerdictFor
  <1>3. Earned(e)
    BY DEF Earned
  <1> QED BY <1>1, <1>2, <1>3 DEF Progress, GateMove

\* CheckActor: the owner of the machine is looked up now.
LEMMA CheckActorMove ==
  ASSUME NEW c, Ready(c), c.pc = "actor"
  PROVE  Progress(c, Judged(c, ActorViolations(ActionOf(c), machineOwners),
                            DemandOrEnd(ActionOf(c), 1)))
  <1> DEFINE a == ActionOf(c)
             vs == ActorViolations(a, machineOwners)
  <1>1. PICK e : e = Judged(c, vs, DemandOrEnd(a, 1))
    OBVIOUS
  <1>2. c \in Call /\ Underway(c, LiveRegistry, now) /\ c.demand = 1
    BY ReadyFacts DEF Ready, CallInv, WellFormed
  <1>3. vs \in SUBSET {"FORBIDDEN", "A4", "A6"} /\ DemandOrEnd(a, 1) \in {"claims", "conclude"}
    BY DEF ActorViolations, DemandOrEnd
  <1>4. /\ e.pc = DemandOrEnd(a, 1) /\ e.violations = vs /\ e.demand = c.demand
        /\ SamePlan(e, c) /\ e.denied = c.denied
    BY <1>1, <1>2, <1>3, JudgeFields DEF SameVerdict
  <1>5. c.violations = {} /\ c.denied = {}
    BY <1>2 DEF Underway, RightOn, AnsweredBefore
  <1>6. ActionOf(e) = a /\ e.pc # "idle" /\ e.pc # "record" /\ e.pc # "covers" /\ e.pc # "conflicts"
    BY <1>3, <1>4 DEF SamePlan, ActionOf
  <1>7. ~IsDoomed(c) /\ (IsDoomed(e) <=> vs # {})
    BY <1>4, <1>5, <1>6 DEF IsDoomed
  <1>8. vs # {} => ~ActorFine(a)
    BY DEF ActorViolations, ActorFine
  <1>9. GateMove(VerdictFor(c), VerdictFor(e))
    <2>1. CASE vs = {}
      BY <1>6, <1>7, <2>1, NoMove
    <2>2. CASE vs # {}
      BY <1>6, <1>7, <1>8, <2>2, DecideMove, AuthorizedIs
    <2> QED BY <2>1, <2>2
  <1>10. Earned(e)
    BY <1>2, <1>4, <1>6 DEF Earned
  <1> QED BY <1>1, <1>9, <1>10 DEF Progress

\* A call goes on with its next demand: it has been granted this one, or is denied.
LEMMA ProceedMove ==
  ASSUME NEW c, Ready(c), c.pc # "idle", c.pc # "record", NEW f \in Call,
         ActionOf(f) = ActionOf(c), f.demand = c.demand,
         f.violations = c.violations,
         \/ /\ f.denied = c.denied /\ Granted(ActionOf(c), c.demand)
            /\ c.pc = "covers" =>
                 \E i \in c.held : Covers(claims[i], ActionOf(c).demands[c.demand].op)
         \/ f.denied # {} /\ IsDoomed(c)
  PROVE  Progress(c, Proceed(f, ActionOf(c)))
  <1> DEFINE a == ActionOf(c)
  <1>1. PICK e : e = Proceed(f, a)
    OBVIOUS
  <1>2. /\ e.pc = DemandOrEnd(a, f.demand + 1) /\ e.demand = c.demand + 1
        /\ e.plan = f.plan /\ e.results = f.results
        /\ e.violations = c.violations /\ e.denied = f.denied
    BY <1>1, ProceedFields
  <1>3. e.pc \in {"claims", "conclude"}
    BY <1>2 DEF DemandOrEnd
  <1>4. ActionOf(e) = a
    BY <1>2 DEF ActionOf
  <1>5. c.demand \in Nat
    BY ReadyFacts
  <1>6. IsDoomed(e) <=> IsDoomed(c)
    BY <1>2, <1>3 DEF IsDoomed
  <1>7. GateMove(VerdictFor(c), VerdictFor(e))
    BY <1>3, <1>4, <1>6, NoMove
  <1>8. Earned(e)
    <2> SUFFICES ASSUME e.violations = {}, e.denied = {}, NEW d \in 1 .. e.demand - 1
                 PROVE  Granted(a, d)
      BY <1>3, <1>4 DEF Earned
    <2>1. f.denied = c.denied /\ Granted(a, c.demand) /\ c.denied = {} /\ c.violations = {}
      BY <1>2
    <2>2. d = c.demand \/ d \in 1 .. c.demand - 1
      BY <1>2, <1>5
    <2> QED BY <2>1, <2>2 DEF Ready, Earned
  <1> QED BY <1>1, <1>7, <1>8 DEF Progress

\* ReadPublic: a public resource may be read now as ever.
LEMMA ReadPublicMove ==
  ASSUME NEW c, Ready(c), c.pc = "claims",
         PublicRead(ActionOf(c).demands[c.demand].resource, ActionOf(c).demands[c.demand].op)
  PROVE  Progress(c, Proceed(c, ActionOf(c)))
  <1>1. c \in Call
    BY ReadyFacts
  <1>2. Granted(ActionOf(c), c.demand)
    BY DEF Granted, CanAct
  <1> QED BY <1>1, <1>2, ProceedMove

\* ReadClaims: if no claim that is read gives the demand, it is not granted now.
LEMMA ReadClaimsMove ==
  ASSUME NEW c, Ready(c), c.pc = "claims",
         ~PublicRead(ActionOf(c).demands[c.demand].resource, ActionOf(c).demands[c.demand].op)
  PROVE  Progress(c, [c EXCEPT !.held = ClaimsFor(claims, ActionOf(c).actor,
                                                ActionOf(c).demands[c.demand].resource),
                             !.pc = "covers"])
  <1> DEFINE a == ActionOf(c)
             op == a.demands[c.demand].op
             h == ClaimsFor(claims, a.actor, a.demands[c.demand].resource)
  <1>1. PICK e : e = [c EXCEPT !.held = h, !.pc = "covers"]
    OBVIOUS
  <1>2. c \in Call /\ h \in SUBSET Nat /\ c.demand \in DOMAIN a.demands
    <2>1. c \in Call /\ LiveRegistry \in Snapshot /\ LiveRegistry.claims = claims
      BY ReadyFacts
    <2>2. h \subseteq DOMAIN claims /\ DOMAIN claims \subseteq Nat
      BY <2>1, SnapshotTyped DEF ClaimsFor
    <2> QED BY <2>1, <2>2 DEF Ready, CallInv, WellFormed
  <1>3. /\ e.pc = "covers" /\ e.held = h /\ e.demand = c.demand
        /\ e.violations = c.violations /\ e.denied = c.denied /\ SamePlan(e, c)
    BY <1>1, <1>2, HoldFields DEF SameVerdict
  <1>4. ActionOf(e) = a
    BY <1>3 DEF SamePlan, ActionOf
  <1>5. (\E i \in h : Covers(claims[i], op)) <=> Granted(a, c.demand)
    BY DEF Granted, CanAct
  <1>6. GateMove(VerdictFor(c), VerdictFor(e))
    <2>1. CASE c.violations # {} \/ c.denied # {} \/ Granted(a, c.demand)
      <3>1. IsDoomed(e) <=> IsDoomed(c)
        BY <1>3, <1>4, <1>5, <2>1 DEF IsDoomed
      <3> QED BY <1>3, <1>4, <3>1, NoMove
    <2>2. CASE c.violations = {} /\ c.denied = {} /\ ~Granted(a, c.demand)
      <3>1. IsDoomed(e) /\ ~IsDoomed(c)
        BY <1>3, <1>4, <1>5, <2>2 DEF IsDoomed
      <3>2. ~Gate!Authorized(a)
        BY <1>2, <2>2, AuthorizedIs
      <3> QED BY <1>3, <1>4, <3>1, <3>2, DecideMove
    <2> QED BY <2>1, <2>2
  <1>7. Earned(e)
    BY <1>3, <1>4 DEF Ready, Earned
  <1> QED BY <1>1, <1>6, <1>7 DEF Progress

\* A claim read that still covers the operation grants the demand.
LEMMA HeldGrants ==
  ASSUME NEW c, Ready(c), c.pc = "covers", NEW best \in c.held,
         Covers(claims[best], ActionOf(c).demands[c.demand].op)
  PROVE  Granted(ActionOf(c), c.demand)
  <1>1. /\ best \in DOMAIN claims
        /\ claims[best].holder = ActionOf(c).actor
        /\ claims[best].resource = ActionOf(c).demands[c.demand].resource
    BY ReadyFacts DEF Underway
  <1> QED BY <1>1 DEF Granted, CanAct, ClaimsFor, Covers

\* WeighClaims, when no claim read covers the operation any more: the verdict was
\* fixed before, by the claims that were read.
LEMMA DenyMove ==
  ASSUME NEW c, Ready(c), c.pc = "covers",
         \A i \in c.held : ~Covers(claims[i], ActionOf(c).demands[c.demand].op)
  PROVE  Progress(c, Proceed(Denied(c, c.denied \cup {c.demand}, 0), ActionOf(c)))
  <1>1. c \in Call
    BY ReadyFacts
  <1>2. PICK x \in SUBSET Nat, i \in 0 .. 100 : x = c.denied \cup {c.demand} /\ i = 0
    <2>1. c.denied \in SUBSET Nat /\ c.demand \in Nat
      BY <1>1 DEF Call
    <2>2. c.denied \cup {c.demand} \in SUBSET Nat /\ 0 \in 0 .. 100
      BY <2>1
    <2> QED BY <2>2, Zenon
  <1>3. PICK f : f = Denied(c, x, i)
    OBVIOUS
  <1>4. /\ f \in Call /\ f.denied = x /\ f.demand = c.demand
        /\ f.violations = c.violations /\ SamePlan(f, c)
    BY <1>1, <1>3, DenyFields
  <1>5. ActionOf(f) = ActionOf(c) /\ f.denied # {} /\ IsDoomed(c)
    BY <1>2, <1>4 DEF SamePlan, ActionOf, IsDoomed
  <1>6. Progress(c, Proceed(f, ActionOf(c)))
    BY <1>4, <1>5, ProceedMove
  <1> QED BY <1>2, <1>3, <1>6

\* ... and when one does, the demand is granted: the call goes on ...
LEMMA PermitMove ==
  ASSUME NEW c, Ready(c), c.pc = "covers", NEW best \in c.held,
         Covers(claims[best], ActionOf(c).demands[c.demand].op)
  PROVE  Progress(c, Proceed(Lowered(c, Lower(c.confidence, claims[best].confidence)),
                             ActionOf(c)))
  <1>1. PICK f : f = Lowered(c, Lower(c.confidence, claims[best].confidence))
    OBVIOUS
  <1>2. /\ f \in Call /\ f.denied = c.denied /\ f.demand = c.demand
        /\ f.violations = c.violations /\ SamePlan(f, c)
    <2>1. c \in Call /\ best \in DOMAIN claims /\ c.confidence \in 0 .. 100
      BY ReadyFacts DEF Call
    <2>2. claims[best].confidence \in 0 .. 100
      BY <2>1, ReadyFacts, SnapshotTyped
    <2>3. Lower(c.confidence, claims[best].confidence) \in 0 .. 100
      BY <2>1, <2>2, LowerOfTwo
    <2> QED BY <1>1, <2>1, <2>3, LowerFields
  <1>3. ActionOf(f) = ActionOf(c) /\ Granted(ActionOf(c), c.demand)
    BY <1>2, HeldGrants DEF SamePlan, ActionOf
  <1> QED BY <1>1, <1>2, <1>3, ProceedMove

\* ... or looks for conflicts.
LEMMA ContestMove ==
  ASSUME NEW c, Ready(c), c.pc = "covers", NEW best \in c.held,
         Covers(claims[best], ActionOf(c).demands[c.demand].op)
  PROVE  Progress(c, [Lowered(c, Lower(c.confidence, claims[best].confidence))
                      EXCEPT !.pc = "conflicts"])
  <1>1. PICK f : f = Lowered(c, Lower(c.confidence, claims[best].confidence))
    OBVIOUS
  <1>2. /\ f \in Call /\ f.denied = c.denied /\ f.demand = c.demand
        /\ f.violations = c.violations /\ SamePlan(f, c)
    <2>1. c \in Call /\ best \in DOMAIN claims /\ c.confidence \in 0 .. 100
      BY ReadyFacts DEF Call
    <2>2. claims[best].confidence \in 0 .. 100
      BY <2>1, ReadyFacts, SnapshotTyped
    <2>3. Lower(c.confidence, claims[best].confidence) \in 0 .. 100
      BY <2>1, <2>2, LowerOfTwo
    <2> QED BY <1>1, <2>1, <2>3, LowerFields
  <1>3. PICK e : e = [f EXCEPT !.pc = "conflicts"]
    OBVIOUS
  <1>4. /\ e.pc = "conflicts" /\ e.demand = c.demand /\ e.violations = c.violations
        /\ e.denied = c.denied /\ SamePlan(e, f)
    BY <1>2, <1>3, PcFields DEF SameVerdict
  <1>5. ActionOf(e) = ActionOf(c) /\ Granted(ActionOf(c), c.demand)
    BY <1>2, <1>4, HeldGrants DEF SamePlan, ActionOf
  <1>6. IsDoomed(e) <=> IsDoomed(c)
    BY <1>4 DEF IsDoomed
  <1>7. GateMove(VerdictFor(c), VerdictFor(e))
    BY <1>4, <1>5, <1>6, NoMove
  <1>8. Earned(e)
    BY <1>4, <1>5 DEF Ready, Earned
  <1> QED BY <1>1, <1>3, <1>7, <1>8 DEF Progress

\* ScanConflicts does not bear on the verdict.
LEMMA ScanMove ==
  ASSUME NEW c, Ready(c), c.pc = "conflicts", NEW b \in BOOLEAN
  PROVE  Progress(c, Proceed([c EXCEPT !.arbitration = b], ActionOf(c)))
  <1>1. PICK f : f = [c EXCEPT !.arbitration = b]
    OBVIOUS
  <1>2. /\ f \in Call /\ f.denied = c.denied /\ f.demand = c.demand
        /\ f.violations = c.violations /\ SamePlan(f, c)
    <2>1. c \in Call
      BY ReadyFacts
    <2> QED BY <1>1, <2>1, ArbitrationFields
  <1>3. ActionOf(f) = ActionOf(c)
    BY <1>2 DEF SamePlan, ActionOf
  <1>4. Granted(ActionOf(c), c.demand) \/ (f.denied # {} /\ IsDoomed(c)) \/ c.violations # {}
    BY <1>2 DEF Ready, Earned, IsDoomed
  <1>5. CASE c.violations = {}
    BY <1>1, <1>2, <1>3, <1>4, <1>5, ProceedMove
  <1>6. CASE c.violations # {}
    <2>1. PICK e : e = Proceed(f, ActionOf(c))
      OBVIOUS
    <2>2. e.pc = DemandOrEnd(ActionOf(c), f.demand + 1) /\ e.violations = c.violations
          /\ e.plan = f.plan /\ e.results = f.results
      BY <1>2, <2>1, ProceedFields
    <2>3. e.pc \in {"claims", "conclude"} /\ ActionOf(e) = ActionOf(c)
      BY <1>3, <2>2 DEF DemandOrEnd, ActionOf
    <2>4. IsDoomed(e) /\ IsDoomed(c) /\ Earned(e)
      BY <1>6, <2>2 DEF IsDoomed, Earned
    <2>5. GateMove(VerdictFor(c), VerdictFor(e))
      BY <2>3, <2>4, NoMove
    <2> QED BY <1>1, <2>1, <2>4, <2>5 DEF Progress
  <1> QED BY <1>5, <1>6

\* Conclude: a call against which nothing speaks has been granted all it asked for,
\* and all of it is granted now.
LEMMA ConcludeMove ==
  ASSUME NEW c, Ready(c), c.pc = "conclude"
  PROVE  Progress(c, AtRecord(c, now))
  <1> DEFINE a == ActionOf(c)
  <1>1. PICK e : e = AtRecord(c, now)
    OBVIOUS
  <1>2. /\ c \in Call /\ now \in Nat /\ Underway(c, LiveRegistry, now)
        /\ Len(a.demands) \in Nat /\ DOMAIN a.demands = 1 .. Len(a.demands)
        /\ LiveRegistry.machineOwners = machineOwners
        /\ c.demand = Len(a.demands) + 1
    BY ReadyFacts DEF Ready, CallInv, WellFormed
  <1>3. /\ e.pc = "record" /\ e.demand = c.demand /\ e.violations = c.violations
        /\ e.denied = c.denied /\ SamePlan(e, c)
    BY <1>1, <1>2, StampFields DEF SameVerdict
  <1>4. ActionOf(e) = a
    BY <1>3 DEF SamePlan, ActionOf
  <1>5. IsDoomed(e) <=> IsDoomed(c)
    BY <1>3 DEF IsDoomed
  <1>6. GateMove(VerdictFor(c), VerdictFor(e))
    <2>1. CASE IsDoomed(c)
      <3>1. VerdictFor(c) = [action |-> a, verdict |-> "denied"]
            /\ VerdictFor(e) = [action |-> a, verdict |-> "denied"]
        BY <1>3, <1>4, <1>5, <2>1 DEF VerdictFor
      <3> QED BY <3>1 DEF GateMove
    <2>2. CASE ~IsDoomed(c)
      <3>1. c.violations = {} /\ c.denied = {}
        BY <2>2 DEF IsDoomed
      <3>2. ActorFine(a)
        BY <1>2, <3>1 DEF Underway, ActorJudged, ActorFine
      <3>3. \A d \in DOMAIN a.demands : Granted(a, d)
        BY <1>2, <3>1 DEF Ready, Earned
      <3>4. Gate!Authorized(a)
        BY <3>2, <3>3, AuthorizedIs
      <3> QED BY <1>3, <1>4, <1>5, <2>2, <3>4, DecideMove
    <2> QED BY <2>1, <2>2
  <1>7. Earned(e)
    BY <1>3, <1>4 DEF Ready, Earned
  <1> QED BY <1>1, <1>6, <1>7 DEF Progress

\* Record: the call is over, or begins with the next action of its plan.
LEMMA TakeMove ==
  ASSUME NEW t, NEW c, c = call[t], View(t) = LiveRegistry, Ready(c), c.pc = "record"
  PROVE  Progress(c, TakeResult(t))
  <1>1. /\ LiveRegistry \in Snapshot /\ now \in Nat /\ CallInv(c, LiveRegistry, now) /\ c \in Call
    BY ReadyFacts DEF Ready
  <1>2. PICK x : x = Extended(c)
    OBVIOUS
  <1>3. /\ x \in Call /\ x.plan = c.plan /\ Len(x.results) = Len(c.results) + 1
        /\ Len(c.results) \in Nat /\ Len(c.plan) \in Nat /\ Len(c.results) < Len(c.plan)
    BY <1>1, <1>2, ExtendedFields
  <1>4. TakeResult(t) = IF CutsNow(c) THEN Ended(x, CutResults(c))
                        ELSE IF Len(c.plan) = Len(c.results) + 1 THEN [x EXCEPT !.pc = "idle"]
                        ELSE Enter(x, LiveRegistry)
    BY <1>1, <1>2, TakeResultIs
  <1>5. CASE CutsNow(c)
    <2>1. CutResults(c) \in Seq(Result)
      BY <1>1, CancelledRest
    <2>2. Ended(x, CutResults(c)).pc = "idle"
      BY <1>3, <2>1, EndedFields
    <2> QED BY <1>4, <1>5, <2>2, EndMove
  <1>6. CASE ~CutsNow(c) /\ Len(c.plan) = Len(c.results) + 1
    <2>1. [x EXCEPT !.pc = "idle"].pc = "idle"
      BY <1>3 DEF Call
    <2> QED BY <1>4, <1>6, <2>1, EndMove
  <1>7. CASE ~CutsNow(c) /\ Len(c.plan) # Len(c.results) + 1
    <2>1. PICK e : e = Enter(x, LiveRegistry)
      OBVIOUS
    <2>2. /\ e \in Call /\ e.pc = "actor" /\ e.demand = 1 /\ e.violations = {} /\ e.denied = {}
          /\ e.plan = x.plan /\ e.results = x.results
      BY <1>1, <1>3, <2>1, EnterFields
    <2>3. Len(e.results) < Len(e.plan)
      BY <1>3, <1>7, <2>2
    <2>4. VerdictFor(c).verdict # "pending"
      BY DEF VerdictFor
    <2>5. Progress(c, e)
      BY <2>2, <2>3, <2>4, BeginMove
    <2> QED BY <1>4, <1>7, <2>1, <2>5
  <1> QED BY <1>5, <1>6, <1>7

\* Every step of a thread is one of AuthorityGate, or none.
LEMMA ThreadMoves ==
  ASSUME VerifierInv, OnLiveRegistry, NEW t \in Threads, Earned(call[t]),
         \/ \E plan \in Plans : Submit(t, plan, Live) \/ Submit(t, plan, snapshot)
         \/ Verify(t)
         \/ Record(t)
         \/ RecordFails(t)
  PROVE  \E e : call' = [call EXCEPT ![t] = e] /\ Progress(call[t], e)
  <1>1. PICK c : c = call[t]
    OBVIOUS
  <1>2. /\ call \in [Threads -> Call] /\ RegistryTypeOK /\ now \in Nat /\ c \in Call
        /\ c.registry = Live /\ Earned(c) /\ CallInv(c, ViewOf(c), now)
    BY <1>1 DEF VerifierInv, OnLiveRegistry, RegistryTypeOK
  <1>3. Ready(c) /\ View(t) = LiveRegistry
    BY <1>1, <1>2 DEF Ready, ViewOf, View, LiveRegistry
  <1>4. /\ LiveRegistry.claims = claims /\ LiveRegistry.machineOwners = machineOwners
        /\ CurrentAction(t) = ActionOf(c)
        /\ CurrentDemand(t) = ActionOf(c).demands[c.demand]
    BY <1>1 DEF LiveRegistry, CurrentAction, CurrentDemand, ActionOf
  <1> SUFFICES \E e : call' = [call EXCEPT ![t] = e] /\ Progress(c, e)
    BY <1>1
  <1>5. CASE \E plan \in Plans : Submit(t, plan, Live) \/ Submit(t, plan, snapshot)
    <2>1. PICK plan \in Plans, r \in Snapshot \cup {Live} : Submit(t, plan, r)
      BY <1>2, <1>5 DEF Submit, RegistryTypeOK
    <2>2. PICK x : x = [NoCall EXCEPT !.registry = r, !.plan = plan]
      OBVIOUS
    <2>3. x \in Call /\ x.registry = r /\ x.plan = plan /\ x.results = <<>>
      BY <2>2, NoCallTyped DEF Call
    <2>31. PICK v \in Snapshot : v = ViewOf(x)
      BY <1>2, <2>3, ViewTyped
    <2>4. PICK e : e = Enter(x, v)
      OBVIOUS
    <2>5. call' = [call EXCEPT ![t] = e] /\ c.pc = "idle"
      BY <1>1, <2>1, <2>2, <2>3, <2>31, <2>4 DEF Submit, Enter, ViewOf, LiveRegistry
    <2>6. /\ e \in Call /\ e.pc = "actor" /\ e.demand = 1 /\ e.violations = {} /\ e.denied = {}
          /\ e.plan = plan /\ e.results = <<>>
      <3>1. now \in Nat
        BY <1>2
      <3>2. /\ e \in Call /\ e.pc = "actor" /\ e.demand = 1 /\ e.violations = {} /\ e.denied = {}
            /\ e.plan = x.plan /\ e.results = x.results
        BY <2>3, <2>4, <3>1, EnterFields
      <3> QED BY <2>3, <3>2
    <2>7. Len(e.results) < Len(e.plan)
      <3>1. plan \in Seq(Action) /\ plan # <<>>
        BY VerifierAssumption
      <3>2. Len(plan) \in Nat \ {0}
        BY <3>1, EmptySeq
      <3> QED BY <2>6, <3>2
    <2>8. VerdictFor(c).verdict # "pending"
      BY <2>5 DEF VerdictFor
    <2>9. Progress(c, e)
      BY <2>6, <2>7, <2>8, BeginMove
    <2> QED BY <2>5, <2>9
  <1>6. CASE CheckActor(t)
    <2> DEFINE e == Judged(c, ActorViolations(ActionOf(c), machineOwners),
                           DemandOrEnd(ActionOf(c), 1))
    <2>1. c.pc = "actor" /\ call' = [call EXCEPT ![t] = e]
      BY <1>1, <1>3, <1>4, <1>6 DEF CheckActor, Judged
    <2>2. Progress(c, e)
      BY <1>3, <2>1, CheckActorMove
    <2> QED BY <2>1, <2>2, Zenon
  <1>7. CASE ReadPublic(t)
    <2>1. c.pc = "claims" /\ call' = [call EXCEPT ![t] = Proceed(c, ActionOf(c))]
      BY <1>1, <1>4, <1>7 DEF ReadPublic
    <2>2. Progress(c, Proceed(c, ActionOf(c)))
      BY <1>3, <1>4, <1>7, <2>1, ReadPublicMove DEF ReadPublic
    <2> QED BY <2>1, <2>2, Zenon
  <1>8. CASE ReadClaims(t)
    <2> DEFINE e == [c EXCEPT !.held = ClaimsFor(claims, ActionOf(c).actor,
                                                 ActionOf(c).demands[c.demand].resource),
                              !.pc = "covers"]
    <2>1. c.pc = "claims" /\ call' = [call EXCEPT ![t] = e]
      BY <1>1, <1>3, <1>4, <1>8 DEF ReadClaims
    <2>2. Progress(c, e)
      BY <1>3, <1>4, <1>8, <2>1, ReadClaimsMove DEF ReadClaims
    <2> QED BY <2>1, <2>2, Zenon
  <1>9. CASE WeighClaims(t)
    <2> DEFINE op == ActionOf(c).demands[c.demand].op
               usable == {i \in c.held : Covers(claims[i], op)}
    <2>1. c.pc = "covers"
      BY <1>1, <1>9 DEF WeighClaims
    <2>2. CASE usable = {}
      <3> DEFINE e == Proceed(Denied(c, c.denied \cup {c.demand}, 0), ActionOf(c))
      <3>1. call' = [call EXCEPT ![t] = e]
        <4>1. ~ \E best \in {i \in call[t].held : Covers(View(t).claims[i], CurrentDemand(t).op)} :
                 TRUE
          BY <1>1, <1>3, <1>4, <2>2
        <4> QED BY <1>1, <1>3, <1>4, <1>9, <4>1 DEF WeighClaims, Denied
      <3>2. Progress(c, e)
        BY <1>3, <2>1, <2>2, DenyMove
      <3> QED BY <3>1, <3>2, Zenon
    <2>3. CASE usable # {}
      <3> DEFINE low(best) == Lowered(c, Lower(c.confidence, claims[best].confidence))
                 contested(best) == op = "write" /\ claims[best].confidence < Threshold
      <3>1. PICK best \in usable :
              call' = [call EXCEPT ![t] = IF contested(best)
                                          THEN [low(best) EXCEPT !.pc = "conflicts"]
                                          ELSE Proceed(low(best), ActionOf(c))]
        BY <1>1, <1>3, <1>4, <1>9, <2>3 DEF WeighClaims, Lowered
      <3>2. best \in c.held /\ Covers(claims[best], op)
        OBVIOUS
      <3>3. /\ Progress(c, [low(best) EXCEPT !.pc = "conflicts"])
            /\ Progress(c, Proceed(low(best), ActionOf(c)))
        BY <1>3, <2>1, <3>2, ContestMove, PermitMove
      <3>4. CASE contested(best)
        <4>1. call' = [call EXCEPT ![t] = [low(best) EXCEPT !.pc = "conflicts"]]
          BY <3>1, <3>4
        <4> QED BY <3>3, <4>1, Zenon
      <3>5. CASE ~contested(best)
        <4>1. call' = [call EXCEPT ![t] = Proceed(low(best), ActionOf(c))]
          BY <3>1, <3>5
        <4> QED BY <3>3, <4>1, Zenon
      <3> QED BY <3>4, <3>5
    <2> QED BY <2>2, <2>3
  <1>10. CASE ScanConflicts(t)
    <2>1. PICK b \in BOOLEAN :
            b = (c.arbitration
                 \/ OnResource(View(t).conflicts, ActionOf(c).demands[c.demand].resource))
      OBVIOUS
    <2>2. c.pc = "conflicts"
          /\ call' = [call EXCEPT ![t] = Proceed([c EXCEPT !.arbitration = b], ActionOf(c))]
      BY <1>1, <1>4, <1>10, <2>1 DEF ScanConflicts
    <2>3. Progress(c, Proceed([c EXCEPT !.arbitration = b], ActionOf(c)))
      BY <1>3, <2>2, ScanMove
    <2> QED BY <2>2, <2>3, Zenon
  <1>11. CASE Conclude(t)
    <2>1. c.pc = "conclude" /\ call' = [call EXCEPT ![t] = AtRecord(c, now)]
      BY <1>1, <1>11 DEF Conclude, AtRecord
    <2>2. Progress(c, AtRecord(c, now))
      BY <1>3, <2>1, ConcludeMove
    <2> QED BY <2>1, <2>2, Zenon
  <1>12. CASE Record(t)
    <2>1. c.pc = "record" /\ call' = [call EXCEPT ![t] = TakeResult(t)]
      BY <1>1, <1>12 DEF Record
    <2>2. Progress(c, TakeResult(t))
      BY <1>1, <1>3, <2>1, TakeMove
    <2> QED BY <2>1, <2>2, Zenon
  <1>13. CASE RecordFails(t)
    <2>1. c.pc = "record" /\ call' = [call EXCEPT ![t] = NoCall]
      BY <1>1, <1>13 DEF RecordFails
    <2>2. Progress(c, NoCall)
      BY <2>1, EndMove, NoCallTyped
    <2> QED BY <2>1, <2>2, Zenon
  <1> QED BY <1>5, <1>6, <1>7, <1>8, <1>9, <1>10, <1>11, <1>12, <1>13 DEF Verify

-----------------------------------------------------------------------------
(* The refinement mapping                                                   *)

\* VerdictOf depends on the call and on the registry as it is now.
LEMMA VerdictsNow ==
  ASSUME OnLiveRegistry, NEW s \in Threads
  PROVE  VerdictOf(s) = VerdictFor(call[s])
  <1>1. View(s).claims = claims
    BY DEF OnLiveRegistry, View
  <1>2. CurrentAction(s) = ActionOf(call[s])
        /\ CurrentDemand(s) = ActionOf(call[s]).demands[call[s].demand]
    BY DEF CurrentAction, CurrentDemand, ActionOf
  <1>3. Doomed(s) <=> IsDoomed(call[s])
    BY <1>1, <1>2 DEF Doomed, IsDoomed
  <1> QED BY <1>2, <1>3 DEF VerdictOf, VerdictFor

\* The step of a thread is, under the mapping, one of the gate or none.
LEMMA ThreadRefines ==
  ASSUME call \in [Threads -> Call], OnLiveRegistry, OnLiveRegistry',
         UNCHANGED registryVars, NEW t \in Threads,
         NEW e, call' = [call EXCEPT ![t] = e], Progress(call[t], e)
  PROVE  [Gate!GateNext]_(Gate!gateVars)
  <1>1. PICK g : g = [s \in Threads |-> VerdictOf(s)]
    OBVIOUS
  <1>2. PICK h : h = [s \in Threads |-> VerdictOf(s)]'
    OBVIOUS
  <1>3. \A s \in Threads : g[s] = VerdictFor(call[s])
    BY <1>1, VerdictsNow
  <1>4. claims' = claims /\ now' = now
    BY DEF registryVars
  <1>5. \A s \in Threads : VerdictOf(s)' = VerdictFor(call'[s])
    <2> SUFFICES ASSUME NEW s \in Threads
                 PROVE  VerdictOf(s)' = VerdictFor(call'[s])
      OBVIOUS
    <2>1. View(s)'.claims = claims
      BY <1>4 DEF OnLiveRegistry, View
    <2>2. PICK f : f = call'[s]
      OBVIOUS
    <2>3. CurrentAction(s)' = ActionOf(f) /\ CurrentDemand(s)' = ActionOf(f).demands[f.demand]
      BY <2>2 DEF CurrentAction, CurrentDemand, ActionOf
    <2>4. \A x, op : Covers(x, op)' <=> Covers(x, op)
      BY <1>4 DEF Covers, IsValid, IsExpired
    <2>5. Doomed(s)' <=> IsDoomed(f)
      BY <2>1, <2>2, <2>3, <2>4 DEF Doomed, IsDoomed
    <2> QED BY <2>2, <2>3, <2>5 DEF VerdictOf, VerdictFor
  <1>6. h = [g EXCEPT ![t] = VerdictFor(e)]
    <2>1. \A s \in Threads : h[s] = IF s = t THEN VerdictFor(e) ELSE g[s]
      BY <1>2, <1>3, <1>5
    <2> QED BY <1>1, <1>2, <2>1
  <1>7. GateMove(g[t], VerdictFor(e))
    BY <1>3 DEF Progress
  <1>8. CASE VerdictFor(e) = g[t]
    <2>1. h = g
      BY <1>1, <1>6, <1>8
    <2> QED BY <1>1, <1>2, <2>1 DEF Gate!gateVars, Gate!registryVars, registryVars
  <1>9. ASSUME g[t].verdict # "pending", NEW a \in Gate!Actions,
               VerdictFor(e) = [action |-> a, verdict |-> "pending"]
        PROVE  Gate!Begin(t, a)
    BY <1>1, <1>2, <1>6, <1>9 DEF Gate!Begin
  <1>10. ASSUME g[t].verdict = "pending",
                VerdictFor(e) = [action |-> g[t].action,
                                 verdict |-> IF Gate!Authorized(g[t].action) THEN "permitted"
                                             ELSE "denied"]
         PROVE  Gate!Decide(t)
    <2>1. PICK x : x = IF Gate!Authorized(g[t].action) THEN "permitted" ELSE "denied"
      OBVIOUS
    <2>2. [g[t] EXCEPT !.verdict = x] = [action |-> g[t].action, verdict |-> x]
      <3>1. PICK a, v : g[t] = [action |-> a, verdict |-> v]
        BY <1>3, Zenon DEF VerdictFor
      <3> QED BY <3>1
    <2>3. h = [g EXCEPT ![t].verdict = x]
      BY <1>1, <1>6, <1>10, <2>1, <2>2
    <2> QED BY <1>1, <1>2, <1>10, <2>1, <2>3 DEF Gate!Decide
  <1>11. ASSUME g[t].verdict \in {"permitted", "denied"},
                VerdictFor(e) = [action |-> NoCall, verdict |-> "none"]
         PROVE  Gate!End(t)
    BY <1>1, <1>2, <1>6, <1>11 DEF Gate!End, Gate!NoVerdict
  <1>12. CASE \/ \E a \in Gate!Actions : Gate!Begin(t, a)
              \/ Gate!Decide(t)
              \/ Gate!End(t)
    BY <1>12 DEF Gate!GateNext, Gate!registryVars, registryVars
  <1> QED BY <1>7, <1>8, <1>9, <1>10, <1>11, <1>12 DEF GateMove
\* A grant depends on the claims and the clock alone.
LEMMA GrantKept ==
  ASSUME UNCHANGED registryVars, NEW c, Earned(c)
  PROVE  Earned(c)'
  <1>1. claims' = claims /\ now' = now
    BY DEF registryVars
  <1>2. \A a, d : Granted(a, d)' <=> Granted(a, d)
    BY <1>1 DEF Granted, CanAct, ClaimsFor, Covers, IsValid, IsExpired
  <1> QED BY <1>2 DEF Earned

\* A step of the registry gives no claim back that had ended, and ends none
\* while a thread is inside verify(): what is covered stays so, both ways.
LEMMA CoverageKept ==
  ASSUME RegistryTypeOK, [RegistryNext]_registryVars,
         \A i \in DOMAIN claims : IsValid(claims[i]) => IsValid(claims[i])'
  PROVE  \A i \in DOMAIN claims :
           /\ i \in DOMAIN claims' /\ claims'[i] = claims[i]
           /\ IsValid(claims[i])' <=> IsValid(claims[i])
  <1> SUFFICES ASSUME NEW i \in DOMAIN claims
               PROVE  /\ i \in DOMAIN claims' /\ claims'[i] = claims[i]
                      /\ IsValid(claims[i])' <=> IsValid(claims[i])
    OBVIOUS
  <1>1. /\ i \in DOMAIN claims' /\ claims'[i] = claims[i]
        /\ now \in Nat /\ now' \in Nat /\ now <= now'
    BY RegistryGrows DEF Continues
  <1>2. claims[i] \in Claim
    BY DEF RegistryTypeOK
  <1>3. PICK x : x = claims[i]
    OBVIOUS
  <1>4. IsValid(x)' => IsValid(x)
    BY <1>1, <1>2, <1>3, ValidBefore
  <1>5. IsValid(claims[i])' <=> IsValid(x)'
    BY <1>1, <1>3 DEF IsValid, IsExpired
  <1> QED BY <1>1, <1>3, <1>4, <1>5

\* While time ends no claim, the operations of the registry, and the clock, leave
\* every verdict as it is and every grant a grant.
LEMMA VerdictsKept ==
  ASSUME VerifierInv, OnLiveRegistry, OnLiveRegistry',
         [RegistryNext]_registryVars, UNCHANGED call,
         (\E t \in Threads : call[t].pc # "idle") =>
           \A i \in DOMAIN claims : IsValid(claims[i]) => IsValid(claims[i])',
         NEW s \in Threads, Earned(call[s])
  PROVE  VerdictOf(s)' = VerdictOf(s) /\ Earned(call[s])'
  <1>1. PICK c : c = call[s] /\ c = call'[s]
    OBVIOUS
  <1>2. CASE c.pc = "idle"
    BY <1>1, <1>2 DEF VerdictOf, Earned
  <1>3. CASE c.pc # "idle"
    <2>1. Ready(c)
      <3>1. CallInv(c, ViewOf(c), now) /\ c.registry = Live
        BY <1>1 DEF VerifierInv, OnLiveRegistry
      <3>2. RegistryTypeOK
        BY DEF VerifierInv
      <3> QED BY <1>1, <3>1, <3>2 DEF Ready, ViewOf
    <2>2. c.held \subseteq DOMAIN claims
      BY <1>3, <2>1, ReadyFacts
    <2>3. \A i \in DOMAIN claims :
            /\ i \in DOMAIN claims' /\ claims'[i] = claims[i]
            /\ IsValid(claims[i])' <=> IsValid(claims[i])
      BY <1>1, <1>3, CoverageKept DEF VerifierInv
    <2>4. \A op : \A i \in DOMAIN claims : Covers(claims[i], op)' <=> Covers(claims[i], op)
      BY <2>3 DEF Covers
    <2>5. \A a, d : Granted(a, d) => Granted(a, d)'
      <3> SUFFICES ASSUME NEW a, NEW d, Granted(a, d)
                   PROVE  Granted(a, d)'
        OBVIOUS
      <3>1. CASE PublicRead(a.demands[d].resource, a.demands[d].op)
        BY <3>1 DEF Granted, CanAct
      <3>2. CASE \E i \in ClaimsFor(claims, a.actor, a.demands[d].resource) :
                   Covers(claims[i], a.demands[d].op)
        <4>1. PICK i \in DOMAIN claims : /\ claims[i].holder = a.actor
                                         /\ claims[i].resource = a.demands[d].resource
                                         /\ IsValid(claims[i])
                                         /\ Covers(claims[i], a.demands[d].op)
          BY <3>2 DEF ClaimsFor
        <4>2. i \in ClaimsFor(claims, a.actor, a.demands[d].resource)'
          BY <2>3, <4>1 DEF ClaimsFor
        <4>3. Covers(claims[i], a.demands[d].op)'
          BY <2>4, <4>1
        <4> QED BY <4>2, <4>3 DEF Granted, CanAct
      <3> QED BY <3>1, <3>2 DEF Granted, CanAct
    <2>6. Earned(call[s])'
      BY <1>1, <2>1, <2>5 DEF Ready, Earned
    <2>7. IsDoomed(c)' <=> IsDoomed(c)
      <3>1. \A op : \A i \in c.held : Covers(claims[i], op)' <=> Covers(claims[i], op)
        BY <2>2, <2>4
      <3> QED BY <3>1 DEF IsDoomed
    <2>8. View(s).claims = claims /\ View(s)'.claims = claims'
      BY DEF OnLiveRegistry, View
    <2>9. /\ CurrentAction(s) = ActionOf(c) /\ CurrentAction(s)' = ActionOf(c)
          /\ CurrentDemand(s) = ActionOf(c).demands[c.demand]
          /\ CurrentDemand(s)' = ActionOf(c).demands[c.demand]
      BY <1>1 DEF CurrentAction, CurrentDemand, ActionOf
    <2>10. Doomed(s) <=> IsDoomed(c)
      BY <1>1, <2>8, <2>9 DEF Doomed, IsDoomed
    <2>11. Doomed(s)' <=> IsDoomed(c)'
      BY <1>1, <2>8, <2>9 DEF Doomed, IsDoomed
    <2> QED BY <1>1, <2>6, <2>7, <2>9, <2>10, <2>11 DEF VerdictOf
  <1> QED BY <1>2, <1>3

\* The registry of AuthorityGate is this one.
LEMMA SameRegistry == (Gate!RegistryInit <=> RegistryInit) /\ (Gate!RegistryNext <=> RegistryNext)
  BY Zenon
  DEF Gate!RegistryInit, RegistryInit, Gate!RegistryNext, RegistryNext,
      Gate!AddClaim, AddClaim, Gate!Delegate, Delegate, Gate!Insert, Insert,
      Gate!DetectConflict, DetectConflict, Gate!Contests, Contests, Gate!ConflictOf,
      ConflictOf, Gate!Store, Store, Gate!IsBest, IsBest, Gate!Delegatable,
      Delegatable, Gate!ClaimsFor, ClaimsFor, Gate!IsValid, IsValid, Gate!IsExpired,
      IsExpired, Gate!HookReturns, HookReturns, Gate!HookRaises, HookRaises,
      Gate!Innermost, Innermost, Gate!PopInnermost, PopInnermost,
      Gate!SetConflictHook, SetConflictHook, Gate!RegisterMachine, RegisterMachine,
      Gate!Freeze, Freeze, Gate!Tick, Tick, Gate!NewClaims, NewClaims, Gate!Agents,
      Agents, Gate!Operations, Operations, Gate!registryVars, registryVars

\* The first state of the gate.
LEMMA GateInitially ==
  ASSUME Init
  PROVE  Gate!GateInit /\ \A t \in Threads : Earned(call[t])
  <1>1. \A t \in Threads : call[t] = NoCall /\ NoCall.pc = "idle"
    BY DEF Init, NoCall
  <1>2. \A t \in Threads : VerdictOf(t) = Gate!NoVerdict
    BY <1>1 DEF VerdictOf, Gate!NoVerdict
  <1>3. Gate!RegistryInit
    BY SameRegistry DEF Init
  <1> QED BY <1>1, <1>2, <1>3 DEF Gate!GateInit, Earned

\* While the clock ends no claim, a step of the program is a step of the gate.
LEMMA StepRefines ==
  ASSUME VerifierInv, OnLiveRegistry, OnLiveRegistry', [Next]_vars,
         \A t \in Threads : Earned(call[t]),
         (\E t \in Threads : call[t].pc # "idle") =>
           \A i \in DOMAIN claims : IsValid(claims[i]) => IsValid(claims[i])'
  PROVE  [Gate!GateNext]_(Gate!gateVars) /\ \A t \in Threads : Earned(call[t])'
  <1>1. CASE RegistryNext /\ UNCHANGED callVars
    <2>1. UNCHANGED call
      BY <1>1 DEF callVars
    <2>2. \A t \in Threads : VerdictOf(t)' = VerdictOf(t) /\ Earned(call[t])'
      BY <1>1, <2>1, VerdictsKept
    <2>3. [t \in Threads |-> VerdictOf(t)]' = [t \in Threads |-> VerdictOf(t)]
      BY <2>2
    <2>4. Gate!RegistryNext
      BY <1>1, SameRegistry
    <2> QED BY <2>2, <2>3, <2>4 DEF Gate!GateNext
  <1>2. ASSUME NEW t \in Threads,
               \/ \E plan \in Plans : Submit(t, plan, Live) \/ Submit(t, plan, snapshot)
               \/ Verify(t)
               \/ Record(t)
               \/ RecordFails(t),
               UNCHANGED registryVars
        PROVE  [Gate!GateNext]_(Gate!gateVars) /\ \A s \in Threads : Earned(call[s])'
    <2>1. PICK e : call' = [call EXCEPT ![t] = e] /\ Progress(call[t], e)
      BY <1>2, ThreadMoves
    <2>2. call \in [Threads -> Call]
      BY DEF VerifierInv
    <2>3. [Gate!GateNext]_(Gate!gateVars)
      BY <1>2, <2>1, <2>2, ThreadRefines
    <2>4. ASSUME NEW s \in Threads
          PROVE  Earned(call[s])'
      <3>1. PICK c : c = call'[s]
        OBVIOUS
      <3>2. Earned(c)
        BY <2>1, <2>2, <3>1 DEF Progress
      <3>3. Earned(c)'
        BY <1>2, <3>2, GrantKept
      <3> QED BY <3>1, <3>3 DEF Earned
    <2> QED BY <2>3, <2>4
  <1>3. CASE UNCHANGED vars
    <2>1. UNCHANGED registryVars /\ UNCHANGED call
      BY <1>3 DEF vars, callVars
    <2>2. \A t \in Threads : VerdictOf(t)' = VerdictOf(t) /\ Earned(call[t])'
      BY <2>1, VerdictsKept
    <2>3. [t \in Threads |-> VerdictOf(t)]' = [t \in Threads |-> VerdictOf(t)]
      BY <2>2
    <2> QED BY <2>1, <2>2, <2>3 DEF Gate!gateVars, Gate!registryVars, registryVars
  <1> QED BY <1>1, <1>2, <1>3 DEF Next

\* Verdicts are atomic: for verifiers on the live registry, and while no claim
\* expires during a verify(), every behaviour of the gate, with its reads of the
\* registry one by one and any mutations and other calls between them, is one of
\* AuthorityGate, which looks at the registry once.
THEOREM VerdictsAreAtomic ==
  Spec /\ []OnLiveRegistry /\ ExpiryWaits => AtomicVerdict
  <1> DEFINE AllEarned == \A t \in Threads : Earned(call[t])
             Waits == (\E t \in Threads : call[t].pc # "idle") =>
                        \A i \in DOMAIN claims : IsValid(claims[i]) => IsValid(claims[i])'
  <1>1. Init => Gate!GateInit /\ AllEarned
    BY GateInitially
  <1>2. VerifierInv /\ OnLiveRegistry /\ OnLiveRegistry' /\ [Next]_vars /\ AllEarned /\ [Waits]_vars
          => [Gate!GateNext]_(Gate!gateVars) /\ AllEarned'
    <2> SUFFICES ASSUME VerifierInv, OnLiveRegistry, OnLiveRegistry', [Next]_vars, AllEarned,
                        [Waits]_vars
                 PROVE  [Gate!GateNext]_(Gate!gateVars) /\ AllEarned'
      OBVIOUS
    <2>1. UNCHANGED vars => Waits
      BY DEF vars, registryVars, IsValid, IsExpired
    <2> QED BY <2>1, StepRefines
  <1> QED BY <1>1, <1>2, CallsAreSound, PTL DEF Spec, ExpiryWaits, AtomicVerdict, Gate!GateSpec
=============================================================================
