------------------------- MODULE OwnershipRegistry -------------------------
(***************************************************************************)
(* The ownership registry of the kernel (kernel/registry.py with the       *)
(* rights claims of kernel/entities.py): an append-only list of claims, an *)
(* append-only list of write conflicts, and the table of machine owners.   *)
(*                                                                         *)
(* Every mutator runs under one re-entrant lock, so an operation is one    *)
(* step, with one exception: a claim that contests an existing write claim *)
(* first records the conflict and then runs the conflict hook, user code,  *)
(* while the lock is held and before the claim is stored.  The hook may    *)
(* call the registry again, return, or raise; "inserting" is the stack of  *)
(* the insertions whose hook is running.                                   *)
(***************************************************************************)
EXTENDS Integers, Sequences, FiniteSets

CONSTANTS
  Humans, Machines,       \* Entity, by kind
  Resources,
  PublicResources,        \* the resources with is_public
  Confidences,            \* confidence in percent, 0 .. 100
  Lifetimes,              \* the expires_at values of claims, NoExpiry included
  RightSets,              \* the combinations of rights that claims are made with
  NoExpiry, NoOwner, NoSnapshot,
  MaxClaims, MaxConflicts, MaxTime   \* bounds of the model

Agents == Humans \cup Machines
Operations == {"read", "write", "delegate"}

ASSUME ConstantsAssumption ==
  /\ Humans \cap Machines = {}
  /\ PublicResources \subseteq Resources
  /\ Confidences \subseteq 0 .. 100
  /\ RightSets \subseteq SUBSET Operations
  /\ NoExpiry \notin Nat
  /\ Lifetimes \subseteq Nat \cup {NoExpiry}
  /\ NoOwner \notin Humans
  /\ MaxClaims \in Nat /\ MaxConflicts \in Nat /\ MaxTime \in Nat

Claim == [holder : Agents, resource : Resources, rights : SUBSET Operations,
          confidence : Confidences, expiresAt : Lifetimes]

ConflictRecord == [resource : Resources, claimantA : Agents, claimantB : Agents]

VARIABLES
  claims,         \* _claims
  machineOwners,  \* _machine_owners
  conflicts,      \* _conflicts
  hookInstalled,  \* _conflict_hook is set
  inserting,      \* insertions waiting for their conflict hook, innermost last
  snapshot,       \* the registry that freeze() returned last
  now,            \* time.time()
  asserted        \* history: the claims made by add_claim, not by delegate

registryVars == <<claims, machineOwners, conflicts, hookInstalled, inserting,
                  snapshot, now, asserted>>

-----------------------------------------------------------------------------
(* Claims and authority *)

IsExpired(c) == c.expiresAt # NoExpiry /\ now > c.expiresAt

IsValid(c) == ~IsExpired(c) /\ c.confidence > 0

\* The valid claims of a holder on a resource, among those of a registry.
ClaimsFor(cs, holder, resource) ==
  {i \in DOMAIN cs : /\ cs[i].holder = holder
                     /\ cs[i].resource = resource
                     /\ IsValid(cs[i])}

Covers(c, op) == IsValid(c) /\ op \in c.rights

PublicRead(resource, op) == op = "read" /\ resource \in PublicResources

CanAct(cs, holder, resource, op) ==
  \/ PublicRead(resource, op)
  \/ \E i \in ClaimsFor(cs, holder, resource) : Covers(cs[i], op)

\* max(candidates, key=confidence): the first of the most confident.
IsBest(i, candidates) ==
  /\ i \in candidates
  /\ \A j \in candidates :
       \/ claims[j].confidence < claims[i].confidence
       \/ claims[j].confidence = claims[i].confidence /\ i <= j

Delegatable(holder, resource) ==
  {i \in ClaimsFor(claims, holder, resource) : "delegate" \in claims[i].rights}

-----------------------------------------------------------------------------
RegistryInit ==
  /\ claims = <<>>
  /\ machineOwners = [m \in Machines |-> NoOwner]
  /\ conflicts = <<>>
  /\ hookInstalled = FALSE
  /\ inserting = <<>>
  /\ snapshot = NoSnapshot
  /\ now = 0
  /\ asserted = {}

Contests(i, c) ==
  /\ claims[i].resource = c.resource
  /\ claims[i].holder # c.holder
  /\ "write" \in claims[i].rights
  /\ "write" \in c.rights
  /\ IsValid(claims[i])

\* Mutant: only the oldest claim is compared.
DetectConflictOldest(c) == {i \in DOMAIN claims : i = 1 /\ Contests(i, c)}

\* _detect_conflict: the first stored claim that the new one contests, if any.
DetectConflict(c) ==
  {i \in DOMAIN claims : Contests(i, c) /\ \A j \in 1 .. i - 1 : ~Contests(j, c)}

ConflictOf(i, c) ==
  [resource |-> c.resource, claimantA |-> claims[i].holder, claimantB |-> c.holder]

\* Mutant: a new claim replaces the holder's earlier ones on the resource.
StoreReplacing(c, isAsserted) ==
  /\ claims' = Append(SelectSeq(claims, LAMBDA x : x.holder # c.holder
                                                   \/ x.resource # c.resource), c)
  /\ asserted' = IF isAsserted THEN asserted \cup {Len(claims')} ELSE asserted

Store(c, isAsserted) ==
  /\ claims' = Append(claims, c)
  /\ asserted' = IF isAsserted THEN asserted \cup {Len(claims) + 1} ELSE asserted

\* The end of add_claim and of delegate: detect, record, run the hook, store.
Insert(c, isAsserted) ==
  /\ Len(claims) + Len(inserting) < MaxClaims
  /\ Len(conflicts) < MaxConflicts
  /\ \/ /\ DetectConflict(c) = {}
        /\ Store(c, isAsserted)
        /\ UNCHANGED <<conflicts, inserting>>
     \/ \E i \in DetectConflict(c) :
          /\ conflicts' = Append(conflicts, ConflictOf(i, c))
          /\ \/ /\ ~hookInstalled
                /\ Store(c, isAsserted)
                /\ UNCHANGED inserting
             \/ /\ hookInstalled
                /\ inserting' = Append(inserting, [claim |-> c, isAsserted |-> isAsserted])
                /\ UNCHANGED <<claims, asserted>>
  /\ UNCHANGED <<machineOwners, hookInstalled, snapshot, now>>

AddClaim(c) == Insert(c, TRUE)

\* Mutant: the rights and the confidence are compared with different claims.
DelegateMixed(c, delegatedBy) ==
  LET candidates == Delegatable(delegatedBy, c.resource) IN
  /\ \E i \in candidates : c.rights \subseteq claims[i].rights
  /\ \E i \in candidates : c.confidence <= claims[i].confidence
  /\ Insert(c, FALSE)

\* A refused delegation raises before anything changes.
Delegate(c, delegatedBy) ==
  LET candidates == Delegatable(delegatedBy, c.resource) IN
  \E best \in candidates :
    /\ IsBest(best, candidates)
    /\ c.rights \subseteq claims[best].rights
    /\ c.confidence <= claims[best].confidence
    /\ Insert(c, FALSE)

Innermost == inserting[Len(inserting)]

PopInnermost == inserting' = SubSeq(inserting, 1, Len(inserting) - 1)

HookReturns ==
  /\ inserting # <<>>
  /\ Store(Innermost.claim, Innermost.isAsserted)
  /\ PopInnermost
  /\ UNCHANGED <<machineOwners, conflicts, hookInstalled, snapshot, now>>

\* The exception leaves the conflict on record and the claim out.
HookRaises ==
  /\ inserting # <<>>
  /\ PopInnermost
  /\ UNCHANGED <<claims, machineOwners, conflicts, hookInstalled, snapshot, now, asserted>>

SetConflictHook ==
  /\ hookInstalled' = TRUE
  /\ UNCHANGED <<claims, machineOwners, conflicts, inserting, snapshot, now, asserted>>

\* Mutant: the kind of the owner is not checked.
RegisterMachineAnyOwner(machine, owner) ==
  /\ machineOwners' = [machineOwners EXCEPT ![machine] = machine]
  /\ UNCHANGED <<claims, conflicts, hookInstalled, inserting, snapshot, now, asserted>>

\* A later registration replaces the owner.
RegisterMachine(machine, owner) ==
  /\ machineOwners' = [machineOwners EXCEPT ![machine] = owner]
  /\ UNCHANGED <<claims, conflicts, hookInstalled, inserting, snapshot, now, asserted>>

\* Mutant: the conflicts are not carried over.
FreezeWithoutConflicts ==
  /\ snapshot' = [claims |-> claims, machineOwners |-> machineOwners, conflicts |-> <<>>]
  /\ UNCHANGED <<claims, machineOwners, conflicts, hookInstalled, inserting, now, asserted>>

\* The lists are copied under the lock; a snapshot refuses every mutator.
Freeze ==
  /\ snapshot' = [claims |-> claims, machineOwners |-> machineOwners,
                  conflicts |-> conflicts]
  /\ UNCHANGED <<claims, machineOwners, conflicts, hookInstalled, inserting, now, asserted>>

Tick ==
  /\ now < MaxTime
  /\ now' = now + 1
  /\ UNCHANGED <<claims, machineOwners, conflicts, hookInstalled, inserting,
                 snapshot, asserted>>

\* The claims that callers construct.
NewClaims == [holder : Agents, resource : Resources, rights : RightSets,
              confidence : Confidences, expiresAt : Lifetimes]

RegistryNext ==
  \/ \E c \in NewClaims : AddClaim(c)
  \/ \E c \in NewClaims, d \in Agents : Delegate(c, d)
  \/ HookReturns
  \/ HookRaises
  \/ SetConflictHook
  \/ \E m \in Machines, h \in Humans : RegisterMachine(m, h)
  \/ Freeze
  \/ Tick

RegistrySpec == RegistryInit /\ [][RegistryNext]_registryVars

-----------------------------------------------------------------------------
(* Properties *)

Insertion == [claim : Claim, isAsserted : BOOLEAN]

Snapshot == [claims : Seq(Claim), machineOwners : [Machines -> Humans \cup {NoOwner}],
             conflicts : Seq(ConflictRecord)]

\* The registry holds well-formed claims, conflicts and owners only.
RegistryTypeOK ==
  /\ claims \in Seq(Claim)
  /\ machineOwners \in [Machines -> Humans \cup {NoOwner}]
  /\ conflicts \in Seq(ConflictRecord)
  /\ hookInstalled \in BOOLEAN
  /\ inserting \in Seq(Insertion)
  /\ snapshot \in Snapshot \cup {NoSnapshot}
  /\ now \in Nat
  /\ asserted \subseteq DOMAIN claims

\* Claim r gives at least the rights and the confidence of claim c.
Backs(r, c) ==
  /\ r.resource = c.resource
  /\ c.rights \subseteq r.rights
  /\ c.confidence <= r.confidence

\* A claim is rooted in the claims cs with indices in roots.
Rooted(cs, roots, c) == \E k \in roots : Backs(cs[k], c)

\* No authority invention: along any chain of delegations, and also while a
\* conflict hook is running, every claim is backed by one that was asserted.
AuthorityIsRooted ==
  /\ \A i \in DOMAIN claims : Rooted(claims, asserted, claims[i])
  /\ \A k \in DOMAIN inserting :
       ~inserting[k].isAsserted => Rooted(claims, asserted, inserting[k].claim)

\* Two claims by which different holders may write one resource now.
WriteContest(cs, i, j) ==
  /\ cs[i].resource = cs[j].resource
  /\ cs[i].holder # cs[j].holder
  /\ "write" \in cs[i].rights \cap cs[j].rights
  /\ IsValid(cs[i]) /\ IsValid(cs[j])

Recorded(cfs, resource, holder) ==
  \E n \in DOMAIN cfs : cfs[n].resource = resource /\ cfs[n].claimantB = holder

ContestsRecorded(cs, cfs) ==
  \A i, j \in DOMAIN cs : i < j /\ WriteContest(cs, i, j) =>
    Recorded(cfs, cs[j].resource, cs[j].holder)

\* Whenever two holders can both write a resource, the later of them is on
\* record as a contesting claimant, however hooks nest, return or raise; a
\* claim whose hook is running is on record before it can be used.
LiveContestsRecorded ==
  /\ ContestsRecorded(claims, conflicts)
  /\ \A k \in DOMAIN inserting :
       Recorded(conflicts, inserting[k].claim.resource, inserting[k].claim.holder)

\* The snapshot of freeze(), taken inside a conflict hook or not, is a past
\* state of the registry: a prefix of its lists, with no contest unrecorded.
SnapshotIsPast ==
  snapshot # NoSnapshot =>
    /\ Len(snapshot.claims) <= Len(claims)
    /\ snapshot.claims = SubSeq(claims, 1, Len(snapshot.claims))
    /\ Len(snapshot.conflicts) <= Len(conflicts)
    /\ snapshot.conflicts = SubSeq(conflicts, 1, Len(snapshot.conflicts))
    /\ \A m \in Machines :
         snapshot.machineOwners[m] # NoOwner => machineOwners[m] # NoOwner
    /\ ContestsRecorded(snapshot.claims, snapshot.conflicts)

\* Only the clock takes authority away: while time stands still no operation
\* turns an agent's permission into a refusal, and none leaves an owned
\* machine without an owner.
AuthorityLostOnlyByExpiry ==
  [][now' = now =>
      /\ \A a \in Agents, r \in Resources, op \in Operations :
           CanAct(claims, a, r, op) => CanAct(claims, a, r, op)'
      /\ \A m \in Machines : machineOwners[m] # NoOwner => machineOwners'[m] # NoOwner
    ]_registryVars

Outlives(c, r) ==
  r.expiresAt # NoExpiry /\ (c.expiresAt = NoExpiry \/ c.expiresAt > r.expiresAt)

\* What TCB.md says of delegation, read for time-bounded authority: a claim is
\* backed by an asserted one that lasts as long as it does.
DelegationBoundedInTime ==
  \A i \in DOMAIN claims : \E k \in asserted :
    Backs(claims[k], claims[i]) /\ ~Outlives(claims[i], claims[k])
=============================================================================
