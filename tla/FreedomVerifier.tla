-------------------------- MODULE FreedomVerifier --------------------------
(***************************************************************************)
(* The gate (kernel/verifier.py) with its audit log (kernel/audit.py),     *)
(* called by several threads while others mutate the registry.  verify()   *)
(* takes no lock of its own: it reads the owner table without one, takes   *)
(* the registry's lock once per demanded resource, weighs the claims it    *)
(* got after releasing it, and reads the conflicts without one.  Each of   *)
(* these reads is a step here, and the registry and the clock may move     *)
(* between any two.                                                        *)
(*                                                                         *)
(* verify(action) is verify_plan of the one-action plan.                   *)
(***************************************************************************)
EXTENDS OwnershipRegistry

CONSTANTS
  Threads,
  Plans,          \* the sequences of actions that callers submit
  Live,           \* a verifier on the registry itself, not on a snapshot
  ForbiddenNames, \* the agents and resources with "FORBIDDEN" in their names
  MaxAudit        \* bound of the model: no call begins with more audit entries

Threshold == 80   \* CONFIDENCE_WARN_THRESHOLD

Demand == [op : Operations, resource : Resources]

\* forbidden stands for the disjunction of the ten sovereignty flags; demands
\* are resources_read, then resources_write, then resources_delegate.
Action == [actor : Agents, forbidden : BOOLEAN, governs : SUBSET Humans,
           demands : Seq(Demand)]

ASSUME VerifierAssumption ==
  /\ Plans \subseteq Seq(Action) \ {<<>>}
  /\ Live \notin [claims : Seq(Claim), machineOwners : [Machines -> Humans \cup {NoOwner}],
                  conflicts : Seq(ConflictRecord)]
  /\ ForbiddenNames \subseteq Agents \cup Resources
  /\ MaxAudit \in Nat

VARIABLES
  call,        \* per thread: the verify_plan call it runs, or ran last
  auditLog,    \* AuditLog._records
  auditFile    \* the lines of AuditLog.path

callVars == <<call, auditLog, auditFile>>
vars == <<registryVars, callVars>>

-----------------------------------------------------------------------------
\* A thread that has made no call.  begun, claimsBefore and conflictsBefore are
\* history: the clock and the lengths of the lists when verify() was entered.
NoCall ==
  [pc |-> "idle", registry |-> Live, plan |-> <<>>, results |-> <<>>,
   demand |-> 1, held |-> {}, violations |-> {}, denied |-> {}, confidence |-> 100,
   arbitration |-> FALSE, ts |-> 0, begun |-> 0, claimsBefore |-> 0, conflictsBefore |-> 0]

Init ==
  /\ RegistryInit
  /\ call = [t \in Threads |-> NoCall]
  /\ auditLog = <<>>
  /\ auditFile = <<>>

\* The registry that thread t verifies against.
View(t) ==
  IF call[t].registry = Live
  THEN [claims |-> claims, machineOwners |-> machineOwners, conflicts |-> conflicts]
  ELSE call[t].registry

CurrentAction(t) == call[t].plan[Len(call[t].results) + 1]

CurrentDemand(t) == CurrentAction(t).demands[call[t].demand]

\* verify() is entered with view v: the local variables are fresh.
Enter(c, v) ==
  [c EXCEPT !.pc = "actor", !.demand = 1, !.held = {}, !.violations = {}, !.denied = {},
            !.confidence = 100, !.arbitration = FALSE, !.ts = 0, !.begun = now,
            !.claimsBefore = Len(v.claims), !.conflictsBefore = Len(v.conflicts)]

Submit(t, plan, registry) ==
  /\ call[t].pc = "idle"
  /\ registry # NoSnapshot
  /\ Len(auditLog) < MaxAudit
  /\ LET c == [NoCall EXCEPT !.registry = registry, !.plan = plan]
         v == IF registry = Live THEN [claims |-> claims, conflicts |-> conflicts]
                                 ELSE registry
     IN  call' = [call EXCEPT ![t] = Enter(c, v)]
  /\ UNCHANGED <<auditLog, auditFile>>

\* Mutant: one demand too many.
DemandOrEndLate(action, d) ==
  IF d \in 1 .. Len(action.demands) + 1 THEN "claims" ELSE "conclude"

\* Mutant: the last demand is skipped.
DemandOrEndEarly(action, d) ==
  IF d + 1 \in DOMAIN action.demands THEN "claims" ELSE "conclude"

\* Where verify() goes on with demand number d of an action.
DemandOrEnd(action, d) ==
  IF d \in DOMAIN action.demands THEN "claims" ELSE "conclude"

\* Mutant: A4 is not checked.
ActorViolationsOwnerless(action, owners) ==
  (IF action.forbidden THEN {"FORBIDDEN"} ELSE {})
  \cup (IF action.actor \in Machines /\ action.governs # {} THEN {"A6"} ELSE {})

\* The flags, A4 (with the lockless owner_of) and A6.
ActorViolations(action, owners) ==
  (IF action.forbidden THEN {"FORBIDDEN"} ELSE {})
  \cup (IF action.actor \in Machines
        THEN (IF owners[action.actor] = NoOwner THEN {"A4"} ELSE {})
             \cup (IF action.governs # {} THEN {"A6"} ELSE {})
        ELSE {})

CheckActor(t) ==
  /\ call[t].pc = "actor"
  /\ call' = [call EXCEPT ![t].violations =
                            ActorViolations(CurrentAction(t), View(t).machineOwners),
                          ![t].pc = DemandOrEnd(CurrentAction(t), 1)]
  /\ UNCHANGED <<auditLog, auditFile>>

\* Mutant: the loop over the resources does not advance.
ProceedStuck(c, action) ==
  [c EXCEPT !.held = {}, !.pc = DemandOrEnd(action, c.demand)]

\* Thread t is done with its demand and proceeds to the next.
Proceed(c, action) ==
  [c EXCEPT !.demand = @ + 1, !.held = {}, !.pc = DemandOrEnd(action, c.demand + 1)]

ReadPublic(t) ==
  /\ call[t].pc = "claims"
  /\ PublicRead(CurrentDemand(t).resource, CurrentDemand(t).op)
  /\ call' = [call EXCEPT ![t] = Proceed(@, CurrentAction(t))]
  /\ UNCHANGED <<auditLog, auditFile>>

\* claims_for: the valid claims, read under the lock of the registry.
ReadClaims(t) ==
  /\ call[t].pc = "claims"
  /\ ~PublicRead(CurrentDemand(t).resource, CurrentDemand(t).op)
  /\ call[t].registry = Live => inserting = <<>>
  /\ call' = [call EXCEPT ![t].held = ClaimsFor(View(t).claims, CurrentAction(t).actor,
                                                CurrentDemand(t).resource),
                          ![t].pc = "covers"]
  /\ UNCHANGED <<auditLog, auditFile>>

Lower(x, y) == IF x <= y THEN x ELSE y

\* Mutant: the operation is not compared with the rights of the claim.
WeighClaimsAnyRight(t) ==
  LET cs == View(t).claims
      usable == {i \in call[t].held : IsValid(cs[i])}
  IN
  /\ call[t].pc = "covers"
  /\ \/ /\ usable = {}
        /\ call' = [call EXCEPT
             ![t] = Proceed([@ EXCEPT !.denied = @ \cup {call[t].demand}, !.confidence = 0],
                            CurrentAction(t))]
     \/ \E best \in usable :
          call' = [call EXCEPT ![t] =
            Proceed([@ EXCEPT !.confidence = Lower(@, cs[best].confidence)], CurrentAction(t))]
  /\ UNCHANGED <<auditLog, auditFile>>

\* Mutant: the most confident claim is chosen before its rights are looked at.
WeighClaimsBestFirst(t) ==
  LET cs == View(t).claims
      best == {i \in call[t].held : \A j \in call[t].held : cs[j].confidence <= cs[i].confidence}
      usable == {i \in best : Covers(cs[i], CurrentDemand(t).op)}
  IN
  /\ call[t].pc = "covers"
  /\ \/ /\ usable = {}
        /\ call' = [call EXCEPT
             ![t] = Proceed([@ EXCEPT !.denied = @ \cup {call[t].demand}, !.confidence = 0],
                            CurrentAction(t))]
     \/ \E i \in usable :
          call' = [call EXCEPT ![t] =
            Proceed([@ EXCEPT !.confidence = Lower(@, cs[i].confidence)], CurrentAction(t))]
  /\ UNCHANGED <<auditLog, auditFile>>

\* best_claim and can_act: of the claims read, those that still cover the
\* operation; the most confident gives the verdict on the demand.
WeighClaims(t) ==
  LET cs == View(t).claims
      usable == {i \in call[t].held : Covers(cs[i], CurrentDemand(t).op)}
  IN
  /\ call[t].pc = "covers"
  /\ \/ /\ usable = {}
        /\ LET c == [call[t] EXCEPT !.denied = @ \cup {call[t].demand}, !.confidence = 0]
           IN  call' = [call EXCEPT ![t] = Proceed(c, CurrentAction(t))]
     \/ \E best \in usable :
          /\ \A i \in usable : cs[i].confidence <= cs[best].confidence
          /\ LET c == [call[t] EXCEPT !.confidence = Lower(@, cs[best].confidence)]
                 contested == CurrentDemand(t).op = "write" /\ cs[best].confidence < Threshold
             IN  call' = [call EXCEPT ![t] = IF contested THEN [c EXCEPT !.pc = "conflicts"]
                                             ELSE Proceed(c, CurrentAction(t))]
  /\ UNCHANGED <<auditLog, auditFile>>

OnResource(cfs, resource) == \E n \in DOMAIN cfs : cfs[n].resource = resource

\* Mutant: the conflicts found do not add to what is known.
ScanConflictsReset(t) ==
  /\ call[t].pc = "conflicts"
  /\ LET c == [call[t] EXCEPT !.arbitration =
                 @ /\ OnResource(View(t).conflicts, CurrentDemand(t).resource)]
     IN  call' = [call EXCEPT ![t] = Proceed(c, CurrentAction(t))]
  /\ UNCHANGED <<auditLog, auditFile>>

\* open_conflicts, read without the lock.
ScanConflicts(t) ==
  /\ call[t].pc = "conflicts"
  /\ LET c == [call[t] EXCEPT !.arbitration =
                 @ \/ OnResource(View(t).conflicts, CurrentDemand(t).resource)]
     IN  call' = [call EXCEPT ![t] = Proceed(c, CurrentAction(t))]
  /\ UNCHANGED <<auditLog, auditFile>>

ResultOf(c) ==
  [permitted |-> c.violations = {} /\ c.denied = {},
   violations |-> c.violations, denied |-> c.denied, confidence |-> c.confidence,
   arbitration |-> c.arbitration,
   begun |-> c.begun, claimsBefore |-> c.claimsBefore, conflictsBefore |-> c.conflictsBefore]

\* The result is built, and record() stamps its entry before it takes its lock.
Conclude(t) ==
  /\ call[t].pc = "conclude"
  /\ call' = [call EXCEPT ![t].pc = "record", ![t].ts = now]
  /\ UNCHANGED <<auditLog, auditFile>>

EntryOf(t) == [by |-> t, ts |-> call[t].ts, result |-> ResultOf(call[t])]

CancelledResult ==
  [permitted |-> FALSE, violations |-> {"CANCELLED"}, denied |-> {}, confidence |-> 0,
   arbitration |-> TRUE, begun |-> 0, claimsBefore |-> 0, conflictsBefore |-> 0]

\* Mutant: a forbidden action does not cancel what follows.
TakeResultGoOn(t) ==
  LET c == [call[t] EXCEPT !.results = Append(@, ResultOf(call[t]))]
  IN  IF Len(c.plan) = Len(c.results) THEN [c EXCEPT !.pc = "idle"] ELSE Enter(c, View(t))

\* "FORBIDDEN" in v, for a violation v of result r on action a: the text of a flag
\* begins with it, and the others have names in them.  All name the actor, A6 names
\* the humans, and a denial names its resource.
SaysForbidden(a, r) ==
  \/ "FORBIDDEN" \in r.violations
  \/ (r.violations # {} \/ r.denied # {}) /\ a.actor \in ForbiddenNames
  \/ "A6" \in r.violations /\ a.governs \cap ForbiddenNames # {}
  \/ \E d \in r.denied : a.demands[d].resource \in ForbiddenNames

\* verify_plan takes the result in: one that says FORBIDDEN cancels the rest of
\* the plan, which is neither verified nor audited.
TakeResult(t) ==
  LET c == [call[t] EXCEPT !.results = Append(@, ResultOf(call[t]))]
      left == Len(c.plan) - Len(c.results)
  IN  IF SaysForbidden(CurrentAction(t), ResultOf(call[t]))
      THEN [c EXCEPT !.pc = "idle", !.results = @ \o [i \in 1 .. left |-> CancelledResult]]
      ELSE IF left = 0 THEN [c EXCEPT !.pc = "idle"]
      ELSE Enter(c, View(t))

Record(t) ==
  /\ call[t].pc = "record"
  /\ auditLog' = Append(auditLog, EntryOf(t))
  /\ auditFile' = Append(auditFile, EntryOf(t))
  /\ call' = [call EXCEPT ![t] = TakeResult(t)]

\* Mutant: the exception of the audit file is swallowed.
RecordFailsSilently(t) ==
  /\ call[t].pc = "record"
  /\ auditLog' = Append(auditLog, EntryOf(t))
  /\ call' = [call EXCEPT ![t] = TakeResult(t)]
  /\ UNCHANGED auditFile

\* open() or write() raises: the entry stays in memory, the exception leaves
\* verify() and verify_plan(), and the caller gets no result at all.
RecordFails(t) ==
  /\ call[t].pc = "record"
  /\ auditLog' = Append(auditLog, EntryOf(t))
  /\ call' = [call EXCEPT ![t] = NoCall]
  /\ UNCHANGED auditFile

Verify(t) ==
  \/ CheckActor(t)
  \/ ReadPublic(t)
  \/ ReadClaims(t)
  \/ WeighClaims(t)
  \/ ScanConflicts(t)
  \/ Conclude(t)

Next ==
  \/ RegistryNext /\ UNCHANGED callVars
  \/ \E t \in Threads :
       /\ \/ \E plan \in Plans : Submit(t, plan, Live) \/ Submit(t, plan, snapshot)
          \/ Verify(t)
          \/ Record(t)
          \/ RecordFails(t)
       /\ UNCHANGED registryVars

Spec == Init /\ [][Next]_vars

\* A thread in a call keeps running, and a conflict hook ends some time.
FairSpec ==
  /\ Spec
  /\ \A t \in Threads :
       WF_vars((Verify(t) \/ Record(t) \/ RecordFails(t)) /\ UNCHANGED registryVars)
  /\ WF_vars((HookReturns \/ HookRaises) /\ UNCHANGED callVars)

-----------------------------------------------------------------------------
(* Refinement: the verdict is fixed as soon as one reason to deny is known, *)
(* else when the result is built.                                           *)

Doomed(t) ==
  \/ call[t].violations # {}
  \/ call[t].denied # {}
  \/ /\ call[t].pc = "covers"
     /\ \A i \in call[t].held : ~Covers(View(t).claims[i], CurrentDemand(t).op)

VerdictOf(t) ==
  IF call[t].pc = "idle" THEN [action |-> NoCall, verdict |-> "none"]
  ELSE [action |-> CurrentAction(t),
        verdict |-> IF Doomed(t) THEN "denied"
                    ELSE IF call[t].pc = "record" THEN "permitted" ELSE "pending"]

Gate == INSTANCE AuthorityGate WITH gate <- [t \in Threads |-> VerdictOf(t)],
                                    NoAction <- NoCall

\* verify() is linearizable: whatever mutations and calls run during it, its
\* verdict is the right one for one instant of the call, as long as no claim
\* expires while the call runs.
AtomicVerdict == Gate!GateSpec

-----------------------------------------------------------------------------
(* Properties *)

Result ==
  [permitted : BOOLEAN, violations : SUBSET {"FORBIDDEN", "A4", "A6", "CANCELLED"},
   denied : SUBSET Nat, confidence : 0 .. 100, arbitration : BOOLEAN,
   begun : Nat, claimsBefore : Nat, conflictsBefore : Nat]

Call ==
  [pc : {"idle", "actor", "claims", "covers", "conflicts", "conclude", "record"},
   registry : Snapshot \cup {Live}, plan : Plans \cup {<<>>}, results : Seq(Result),
   demand : Nat, held : SUBSET Nat, violations : SUBSET {"FORBIDDEN", "A4", "A6"},
   denied : SUBSET Nat, confidence : 0 .. 100, arbitration : BOOLEAN, ts : Nat,
   begun : Nat, claimsBefore : Nat, conflictsBefore : Nat]

Entry == [by : Threads, ts : Nat, result : Result]

\* Calls, results and audit entries are well formed, and a call in progress is
\* at an action of its plan and, where the step reads it, at a demand of it.
TypeOK ==
  /\ RegistryTypeOK
  /\ call \in [Threads -> Call]
  /\ auditLog \in Seq(Entry)
  /\ auditFile \in Seq(Entry)
  /\ \A t \in Threads : call[t].pc # "idle" =>
       /\ Len(call[t].results) < Len(call[t].plan)
       /\ call[t].pc \in {"claims", "covers", "conflicts"} =>
            call[t].demand \in DOMAIN CurrentAction(t).demands
       /\ call[t].held \subseteq DOMAIN View(t).claims

\* A claim that gives its holder the operation, and has done so since "begun".
GivesSince(c, actor, d, begun) ==
  /\ c.holder = actor /\ c.resource = d.resource /\ d.op \in c.rights
  /\ c.confidence > 0
  /\ c.expiresAt = NoExpiry \/ c.expiresAt >= begun

Backed(cs, actor, d, r) ==
  \/ PublicRead(d.resource, d.op)
  \/ \E i \in DOMAIN cs : GivesSince(cs[i], actor, d, r.begun) /\ r.confidence <= cs[i].confidence

\* However mutations, other calls and the clock are interleaved with the reads
\* of verify(): an action is permitted only if it is not forbidden, its actor
\* is no ownerless or governing machine, and every demand is backed by a claim
\* that was valid during the call, with no more confidence than that claim has.
PermitIsBacked ==
  \A t \in Threads : \A k \in DOMAIN call[t].results :
    LET a == call[t].plan[k]
        r == call[t].results[k]
    IN  r.permitted =>
          /\ ~a.forbidden
          /\ a.actor \in Machines =>
               a.governs = {} /\ View(t).machineOwners[a.actor] # NoOwner
          /\ \A d \in DOMAIN a.demands : Backed(View(t).claims, a.actor, a.demands[d], r)

\* No spurious denial: a demand is not denied to an actor that held a claim for
\* it when verify() was entered and still holds it.
NoSpuriousDenial ==
  \A t \in Threads : \A k \in DOMAIN call[t].results : \A d \in call[t].results[k].denied :
    LET a == call[t].plan[k]
        cs == View(t).claims
    IN  ~ \E i \in 1 .. call[t].results[k].claimsBefore :
            GivesSince(cs[i], a.actor, a.demands[d], now)

NamesIn(a) == {a.actor} \cup a.governs \cup {a.demands[d].resource : d \in DOMAIN a.demands}

\* What follows a forbidden action of a plan is cancelled, unpermitted and sent to
\* arbitration.  Nothing is cancelled unless an action before it was refused, and
\* that one is forbidden or "FORBIDDEN" is part of a name in it; and then nothing
\* after that one is verified.  Every action has a result.
PlanStopsAtForbidden ==
  \A t \in Threads :
    LET plan == call[t].plan
        results == call[t].results
        cancelled(k) == "CANCELLED" \in results[k].violations
    IN
    /\ \A k \in DOMAIN results :
         /\ (\E j \in 1 .. k - 1 : plan[j].forbidden) => cancelled(k)
         /\ cancelled(k) =>
              /\ ~results[k].permitted /\ results[k].arbitration
              /\ \E j \in 1 .. k - 1 :
                   /\ ~cancelled(j) /\ ~results[j].permitted
                   /\ plan[j].forbidden \/ NamesIn(plan[j]) \cap ForbiddenNames # {}
                   /\ \A l \in DOMAIN results : l > j => cancelled(l)
    /\ call[t].pc = "idle" => Len(results) = Len(plan)

ConflictBefore(t, r, resource) ==
  \E n \in 1 .. r.conflictsBefore : View(t).conflicts[n].resource = resource

\* A write on a resource in conflict is permitted without arbitration only to
\* an actor with a claim of at least the threshold of confidence.
WeakContestedWriteArbitrated ==
  \A t \in Threads : \A k \in DOMAIN call[t].results :
    LET a == call[t].plan[k]
        r == call[t].results[k]
    IN  \A d \in DOMAIN a.demands :
          /\ a.demands[d].op = "write"
          /\ r.permitted /\ ~r.arbitration
          /\ ConflictBefore(t, r, a.demands[d].resource)
          => \E i \in DOMAIN View(t).claims :
               /\ GivesSince(View(t).claims[i], a.actor, a.demands[d], r.begun)
               /\ View(t).claims[i].confidence >= Threshold

\* The actions of its plan on which t has a verdict: a cancelled one has none.
Verdicts(t) ==
  {k \in DOMAIN call[t].results : "CANCELLED" \notin call[t].results[k].violations}

\* A caller has no verdict that is not in the audit file: its verdicts are the last
\* entries of its thread, in the order of its plan; and the entries of one thread
\* are in the order of their time stamps.
VerdictsAudited ==
  \A t \in Threads :
    /\ \E at \in [Verdicts(t) -> DOMAIN auditFile] :
         /\ \A k \in Verdicts(t) : /\ auditFile[at[k]].by = t
                                   /\ auditFile[at[k]].result = call[t].results[k]
         /\ \A k, l \in Verdicts(t) : k < l => at[k] < at[l]
         /\ \A k \in Verdicts(t), j \in DOMAIN auditFile :
              at[k] < j /\ auditFile[j].by = t => \E l \in Verdicts(t) : at[l] = j
    /\ \A i, j \in DOMAIN auditFile :
         i < j /\ auditFile[i].by = t /\ auditFile[j].by = t =>
           auditFile[i].ts <= auditFile[j].ts

\* Every call ends: with results, or with the exception of the audit log.
VerificationEnds ==
  \A t \in Threads : call[t].pc # "idle" ~> call[t].pc = "idle"

\* What SPEC.md 2.4 says of contested writes, whatever the confidence.
ContestedWriteArbitrated ==
  \A t \in Threads : \A k \in DOMAIN call[t].results :
    LET a == call[t].plan[k]
        r == call[t].results[k]
        cs == View(t).claims
    IN  \A d \in DOMAIN a.demands :
          /\ a.demands[d].op = "write"
          /\ r.permitted
          /\ \E i \in 1 .. r.claimsBefore :
               cs[i].holder # a.actor /\ GivesSince(cs[i], cs[i].holder, a.demands[d], now)
          => r.arbitration
=============================================================================
