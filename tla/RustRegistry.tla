---------------------------- MODULE RustRegistry ----------------------------
(***************************************************************************)
(* The registry of the Rust backend (freedom-kernel/src/registry.rs), over *)
(* the state of OwnershipRegistry.  It differs from the Python one in its  *)
(* order of steps: the new claim is stored in the lock section that        *)
(* records its conflict, and the hook runs after it, without the lock.     *)
(* delegate() checks in one lock section and stores in another; it holds   *)
(* the interpreter's lock from the first to the second, so that nothing    *)
(* but the clock moves in between.  Its comparison of confidences allows a *)
(* tolerance for rounding, one unit of Confidences here (1e-9 in the code).*)
(***************************************************************************)
EXTENDS OwnershipRegistry

CONSTANT Tolerance

ASSUME RustRegistryAssumption == Tolerance \in Nat

VARIABLES
  checked,       \* the claim that delegate() has checked and not stored, if any
  runningHooks   \* the stored claims whose conflict hook runs, by position

rustVars == <<registryVars, checked, runningHooks>>

-----------------------------------------------------------------------------
RustRegistryInit ==
  /\ RegistryInit
  /\ checked = <<>>
  /\ runningHooks = {}

\* The loop keeps a candidate only if it is strictly more confident.
RustBest(candidates) == {i \in candidates : IsBest(i, candidates)}

\* Mutant: conflicts are recorded for the hook only.
RustStoreUnrecorded(c, isAsserted) ==
  /\ Len(claims) < MaxClaims /\ Len(conflicts) < MaxConflicts
  /\ Store(c, isAsserted)
  /\ \/ /\ DetectConflict(c) = {} \/ ~hookInstalled
        /\ UNCHANGED <<conflicts, runningHooks>>
     \/ /\ hookInstalled
        /\ \E i \in DetectConflict(c) : conflicts' = Append(conflicts, ConflictOf(i, c))
        /\ runningHooks' = runningHooks \cup {Len(claims) + 1}
  /\ UNCHANGED <<machineOwners, hookInstalled, inserting, snapshot, now>>

\* The lock section of add_claim, and the start of the hook.
RustStore(c, isAsserted) ==
  /\ Len(claims) < MaxClaims /\ Len(conflicts) < MaxConflicts
  /\ Store(c, isAsserted)
  /\ \/ /\ DetectConflict(c) = {}
        /\ UNCHANGED <<conflicts, runningHooks>>
     \/ /\ \E i \in DetectConflict(c) : conflicts' = Append(conflicts, ConflictOf(i, c))
        /\ runningHooks' = runningHooks \cup (IF hookInstalled THEN {Len(claims) + 1} ELSE {})
  /\ UNCHANGED <<machineOwners, hookInstalled, inserting, snapshot, now>>

RustAddClaim(c) ==
  /\ checked = <<>>
  /\ RustStore(c, TRUE)
  /\ UNCHANGED checked

\* Mutant: the rights are not compared.
RustCheckConfidence(c, delegatedBy) ==
  LET candidates == Delegatable(delegatedBy, c.resource) IN
  /\ checked = <<>>
  /\ Len(claims) < MaxClaims /\ Len(conflicts) < MaxConflicts
  /\ \E best \in RustBest(candidates) : c.confidence <= claims[best].confidence + Tolerance
  /\ checked' = <<c>>
  /\ UNCHANGED <<registryVars, runningHooks>>

\* The checks of delegate(); a refusal changes nothing.
RustCheck(c, delegatedBy) ==
  LET candidates == Delegatable(delegatedBy, c.resource) IN
  /\ checked = <<>>
  /\ Len(claims) < MaxClaims /\ Len(conflicts) < MaxConflicts
  /\ \E best \in RustBest(candidates) :
       /\ c.rights \subseteq claims[best].rights
       /\ c.confidence <= claims[best].confidence + Tolerance
  /\ checked' = <<c>>
  /\ UNCHANGED <<registryVars, runningHooks>>

RustDelegate ==
  /\ checked # <<>>
  /\ RustStore(checked[1], FALSE)
  /\ checked' = <<>>

\* A hook returns, or raises: then the caller sees a failure although the claim
\* and its conflict are there.  Hooks of several threads end in any order.
RustHookEnds ==
  /\ checked = <<>>
  /\ \E i \in runningHooks : runningHooks' = runningHooks \ {i}
  /\ UNCHANGED <<registryVars, checked>>

RustNext ==
  \/ \E c \in NewClaims : RustAddClaim(c)
  \/ \E c \in NewClaims, d \in Agents : RustCheck(c, d)
  \/ RustDelegate
  \/ RustHookEnds
  \/ /\ checked = <<>>
     /\ \/ SetConflictHook
        \/ \E m \in Machines, h \in Humans : RegisterMachine(m, h)
        \/ Freeze
     /\ UNCHANGED <<checked, runningHooks>>
  \/ Tick /\ UNCHANGED <<checked, runningHooks>>

RustSpec == RustRegistryInit /\ [][RustNext]_rustVars

-----------------------------------------------------------------------------
(* Properties *)

\* The registry is well typed, and a hook runs for a stored claim.
RustTypeOK ==
  /\ RegistryTypeOK
  /\ checked \in Seq(Claim) /\ Len(checked) <= 1
  /\ runningHooks \subseteq DOMAIN claims

\* The claim c, the n-th of the list, has its authority from an asserted one, up
\* to one tolerance for each claim in between.
RootedWithin(c, n) ==
  \E k \in asserted :
    /\ k <= n
    /\ claims[k].resource = c.resource
    /\ c.rights \subseteq claims[k].rights
    /\ c.confidence <= claims[k].confidence + Tolerance * (n - k)

\* No authority invention in the Rust registry: although a claim is stored after
\* its check, with the clock moved, each right of it was asserted; the tolerance
\* adds up along a chain, and by no more than once per delegation.
RustAuthorityRooted ==
  /\ \A n \in DOMAIN claims : RootedWithin(claims[n], n)
  /\ checked # <<>> => RootedWithin(checked[1], Len(claims) + 1)

\* Two claims by which different holders may write a resource now are on record
\* together, while a hook runs and after it has raised as well; and whoever's hook
\* runs is on record.
RustContestsRecorded ==
  /\ ContestsRecorded(claims, conflicts)
  /\ \A i \in runningHooks : Recorded(conflicts, claims[i].resource, claims[i].holder)
=============================================================================
