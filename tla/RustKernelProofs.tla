-------------------------- MODULE RustKernelProofs ---------------------------
(***************************************************************************)
(* Theorems about the Rust kernel.  Its registry, for every set of agents, *)
(* resources and confidences, every tolerance, and any number of hooks     *)
(* that run, return and raise while other claims are stored.  Its goal     *)
(* trees, for every set of goals and of limits, in whatever order trees    *)
(* are put together.                                                       *)
(***************************************************************************)
EXTENDS RustRegistry, GoalTreeRust, OwnershipRegistryProofs

-----------------------------------------------------------------------------
(* Types *)

\* The place of a stored claim.
LEMMA OneClaimMore ==
  ASSUME claims \in Seq(Claim), NEW c \in Claim, NEW b, Store(c, b)
  PROVE  /\ claims' \in Seq(Claim) /\ Len(claims) \in Nat
         /\ DOMAIN claims = 1 .. Len(claims) /\ DOMAIN claims' = 1 .. Len(claims) + 1
         /\ Len(claims) + 1 \in DOMAIN claims' /\ claims'[Len(claims) + 1] = c
         /\ \A i \in DOMAIN claims : i \in DOMAIN claims' /\ claims'[i] = claims[i]
         /\ \A i \in DOMAIN claims' : i = Len(claims) + 1 \/ i \in DOMAIN claims
  <1>1. claims' = Append(claims, c)
    BY DEF Store
  <1>2. claims' \in Seq(Claim) /\ Len(claims') = Len(claims) + 1
    BY <1>1, AppendProperties
  <1>3. /\ DOMAIN claims = 1 .. Len(claims) /\ Len(claims) \in Nat
        /\ DOMAIN claims' = 1 .. Len(claims) + 1
    BY <1>2, LenProperties
  <1>4. /\ \A i \in 1 .. Len(claims) : claims'[i] = claims[i]
        /\ claims'[Len(claims) + 1] = c
    BY <1>1, AppendProperties
  <1> QED BY <1>2, <1>3, <1>4

\* The lock section that stores a claim: its conflict, if any, goes on record, and
\* the hooks that run are those of stored claims.
LEMMA RustStoreTyped ==
  ASSUME RustTypeOK, NEW c \in Claim, NEW b \in BOOLEAN, RustStore(c, b)
  PROVE  /\ RegistryTypeOK' /\ runningHooks' \subseteq DOMAIN claims'
         /\ runningHooks' \subseteq runningHooks \cup {Len(claims) + 1}
  <1>1. /\ RegistryTypeOK /\ claims \in Seq(Claim) /\ asserted \subseteq DOMAIN claims
        /\ conflicts \in Seq(ConflictRecord) /\ runningHooks \subseteq DOMAIN claims
    BY DEF RustTypeOK, RegistryTypeOK
  <1>2. /\ Store(c, b)
        /\ UNCHANGED <<machineOwners, hookInstalled, inserting, snapshot, now>>
    BY DEF RustStore
  <1>3. claims' \in Seq(Claim) /\ (asserted \subseteq DOMAIN claims)'
    BY <1>1, <1>2, StoreTyped
  <1>4. conflicts' \in Seq(ConflictRecord)
    <2>1. ASSUME NEW i \in DetectConflict(c), conflicts' = Append(conflicts, ConflictOf(i, c))
          PROVE  conflicts' \in Seq(ConflictRecord)
      <3>1. claims[i] \in Claim
        BY <1>1 DEF DetectConflict
      <3>2. ConflictOf(i, c) \in ConflictRecord
        BY <3>1 DEF ConflictOf, ConflictRecord, Claim
      <3> QED BY <1>1, <2>1, <3>2
    <2> QED BY <1>1, <2>1 DEF RustStore
  <1>5. runningHooks' \subseteq runningHooks \cup {Len(claims) + 1}
    BY DEF RustStore
  <1>6. /\ Len(claims) + 1 \in DOMAIN claims'
        /\ \A i \in DOMAIN claims : i \in DOMAIN claims'
    BY <1>1, <1>2, OneClaimMore
  <1>7. RegistryTypeOK'
    BY <1>1, <1>2, <1>3, <1>4 DEF RegistryTypeOK, Snapshot
  <1> QED BY <1>1, <1>5, <1>6, <1>7

\* The steps that the two registries have in common.
CommonStep ==
  \/ SetConflictHook
  \/ \E m \in Machines, h \in Humans : RegisterMachine(m, h)
  \/ Freeze
  \/ Tick

LEMMA CommonStepKeeps ==
  ASSUME RegistryTypeOK, CommonStep
  PROVE  /\ RegistryTypeOK'
         /\ UNCHANGED <<claims, conflicts, asserted>>
         /\ now \in Nat /\ now' \in Nat /\ now <= now'
  <1>1. [RegistryNext]_registryVars
    BY DEF CommonStep, RegistryNext
  <1>2. UNCHANGED <<claims, conflicts, asserted>>
    BY DEF CommonStep, SetConflictHook, RegisterMachine, Freeze, Tick
  <1> QED BY <1>1, <1>2, TypedStep, RegistryGrows

\* A claim that delegate() has checked is a claim.
LEMMA CheckedTyped ==
  ASSUME checked \in Seq(Claim), Len(checked) <= 1, checked # <<>>
  PROVE  checked[1] \in Claim /\ checked = <<checked[1]>>
  OBVIOUS

LEMMA RustTypedStep ==
  ASSUME RustTypeOK, [RustNext]_rustVars
  PROVE  RustTypeOK'
  <1>1. /\ RegistryTypeOK /\ checked \in Seq(Claim) /\ Len(checked) <= 1
        /\ runningHooks \subseteq DOMAIN claims
    BY DEF RustTypeOK
  <1>2. ASSUME NEW c \in NewClaims, RustAddClaim(c)
        PROVE  RustTypeOK'
    <2>1. c \in Claim /\ RustStore(c, TRUE) /\ checked' = checked
      BY <1>2, NewClaimsAreClaims DEF RustAddClaim
    <2> QED BY <1>1, <2>1, RustStoreTyped DEF RustTypeOK
  <1>3. ASSUME NEW c \in NewClaims, NEW d \in Agents, RustCheck(c, d)
        PROVE  RustTypeOK'
    <2>1. /\ c \in Claim /\ checked' = <<c>>
          /\ UNCHANGED <<registryVars, runningHooks>>
      BY <1>3, NewClaimsAreClaims DEF RustCheck
    <2>2. RegistryTypeOK'
      BY <1>1, <2>1, TypedStep
    <2>3. checked' \in Seq(Claim) /\ Len(checked') <= 1
      BY <2>1
    <2> QED BY <1>1, <2>1, <2>2, <2>3 DEF RustTypeOK, registryVars
  <1>4. CASE RustDelegate
    <2>1. checked[1] \in Claim /\ RustStore(checked[1], FALSE) /\ checked' = <<>>
      BY <1>1, <1>4, CheckedTyped DEF RustDelegate
    <2>2. checked' \in Seq(Claim) /\ Len(checked') <= 1
      BY <2>1
    <2> QED BY <2>1, <2>2, RustStoreTyped DEF RustTypeOK
  <1>5. CASE RustHookEnds
    <2>1. UNCHANGED <<registryVars, checked>> /\ runningHooks' \subseteq runningHooks
      BY <1>5 DEF RustHookEnds
    <2>2. RegistryTypeOK'
      BY <1>1, <2>1, TypedStep
    <2> QED BY <1>1, <2>1, <2>2 DEF RustTypeOK, registryVars
  <1>6. CASE CommonStep /\ UNCHANGED <<checked, runningHooks>>
    BY <1>1, <1>6, CommonStepKeeps DEF RustTypeOK
  <1>7. CASE UNCHANGED rustVars
    <2>1. RegistryTypeOK'
      BY <1>1, <1>7, TypedStep DEF rustVars
    <2> QED BY <1>1, <1>7, <2>1 DEF RustTypeOK, rustVars, registryVars
  <1> QED BY <1>2, <1>3, <1>4, <1>5, <1>6, <1>7 DEF RustNext, CommonStep

\* The Rust registry is well formed in every reachable state, and a hook runs for a
\* stored claim.
THEOREM RustTyped == RustSpec => []RustTypeOK
  <1>1. RustRegistryInit => RustTypeOK
    <2> SUFFICES ASSUME RustRegistryInit PROVE RustTypeOK
      OBVIOUS
    <2>1. RegistryTypeOK /\ checked = <<>> /\ runningHooks = {}
      BY InitTyped DEF RustRegistryInit
    <2>2. checked \in Seq(Claim) /\ Len(checked) <= 1
      BY <2>1
    <2> QED BY <2>1, <2>2 DEF RustTypeOK
  <1>2. RustTypeOK /\ [RustNext]_rustVars => RustTypeOK'
    BY RustTypedStep
  <1> QED BY <1>1, <1>2, PTL DEF RustSpec

-----------------------------------------------------------------------------
(* Authority: the tolerance adds up, once per delegation at most.           *)

\* Along a chain from claim k over claim i to the n-th, of confidences x, y, z.
LEMMA ToleranceAddsUp ==
  ASSUME NEW x \in Int, NEW y \in Int, NEW z \in Int, NEW k \in Nat, NEW i \in Nat, NEW n \in Nat,
         k <= i, i < n, y <= x + Tolerance * (i - k), z <= y + Tolerance
  PROVE  z <= x + Tolerance * (n - k)
  <1>1. Tolerance \in Nat
    BY RustRegistryAssumption
  <1>2. PICK p \in Nat, q \in Nat : p = i - k /\ q = n - i - 1
    OBVIOUS
  <1>3. n - k = p + q + 1
    BY <1>2
  <1>4. Tolerance * (p + q + 1) = Tolerance * p + Tolerance * q + Tolerance
    BY <1>1
  <1>5. Tolerance * q \in Nat /\ Tolerance * p \in Nat
    BY <1>1
  <1> QED BY <1>1, <1>2, <1>3, <1>4, <1>5

\* A claim of the list as it is, that is rooted with its place, gives a root to what
\* is delegated from it at any later place.
LEMMA DelegatedIsRooted ==
  ASSUME claims \in Seq(Claim), asserted \subseteq DOMAIN claims,
         NEW best \in DOMAIN claims, RootedWithin(claims[best], best),
         NEW c \in Claim, claims[best].resource = c.resource,
         c.rights \subseteq claims[best].rights,
         c.confidence <= claims[best].confidence + Tolerance
  PROVE  RootedWithin(c, Len(claims) + 1)
  <1>1. /\ DOMAIN claims = 1 .. Len(claims) /\ Len(claims) \in Nat
        /\ \A i \in DOMAIN claims : claims[i] \in Claim
    BY LenProperties, ElementOfSeq
  <1>2. PICK k \in asserted : /\ k <= best
                              /\ claims[k].resource = claims[best].resource
                              /\ claims[best].rights \subseteq claims[k].rights
                              /\ claims[best].confidence
                                   <= claims[k].confidence + Tolerance * (best - k)
    BY DEF RootedWithin
  <1>3. k \in DOMAIN claims
    BY <1>2
  <1>4. /\ claims[k].confidence \in Int /\ claims[best].confidence \in Int
        /\ c.confidence \in Int
    BY <1>1, <1>3, ConfidenceIsNumber
  <1>5. k \in Nat /\ best \in Nat /\ Len(claims) + 1 \in Nat /\ best < Len(claims) + 1
    BY <1>1, <1>3
  <1>6. PICK n \in Nat : n = Len(claims) + 1
    BY <1>5
  <1>7. k <= best /\ best < n /\ k <= n
    BY <1>2, <1>5, <1>6
  <1>8. PICK x \in Int, y \in Int, z \in Int :
          x = claims[k].confidence /\ y = claims[best].confidence /\ z = c.confidence
    BY <1>4
  <1>9. y <= x + Tolerance * (best - k) /\ z <= y + Tolerance
    BY <1>2, <1>8
  <1>10. z <= x + Tolerance * (n - k)
    BY <1>5, <1>7, <1>9, ToleranceAddsUp
  <1> QED BY <1>2, <1>6, <1>7, <1>8, <1>10 DEF RootedWithin

RustRootedInv == RustTypeOK /\ RustAuthorityRooted

\* A stored claim is asserted, or rooted where it is stored.
LEMMA RustStoreRooted ==
  ASSUME RustRootedInv, NEW c \in Claim, NEW b \in BOOLEAN, RustStore(c, b),
         ~b => RootedWithin(c, Len(claims) + 1), checked' = <<>>
  PROVE  RustAuthorityRooted'
  <1>1. /\ claims \in Seq(Claim) /\ asserted \subseteq DOMAIN claims /\ Store(c, b)
        /\ \A n \in DOMAIN claims : RootedWithin(claims[n], n)
    BY DEF RustRootedInv, RustTypeOK, RegistryTypeOK, RustAuthorityRooted, RustStore
  <1>2. /\ DOMAIN claims = 1 .. Len(claims) /\ Len(claims) \in Nat
        /\ claims'[Len(claims) + 1] = c
        /\ \A i \in DOMAIN claims : claims'[i] = claims[i]
        /\ \A i \in DOMAIN claims' : i = Len(claims) + 1 \/ i \in DOMAIN claims
    BY <1>1, OneClaimMore
  <1>3. asserted \subseteq asserted' /\ (b => Len(claims) + 1 \in asserted')
    BY <1>1 DEF Store
  <1>4. ASSUME NEW x, NEW n, RootedWithin(x, n)
        PROVE  RootedWithin(x, n)'
    <2>1. PICK k \in asserted : /\ k <= n
                                /\ claims[k].resource = x.resource
                                /\ x.rights \subseteq claims[k].rights
                                /\ x.confidence <= claims[k].confidence + Tolerance * (n - k)
      BY <1>4 DEF RootedWithin
    <2>2. claims'[k] = claims[k]
      BY <1>1, <1>2, <2>1
    <2> QED BY <1>3, <2>1, <2>2 DEF RootedWithin
  <1>5. PICK n \in Nat : n = Len(claims) + 1
    BY <1>2
  <1>6. RootedWithin(c, n)'
    <2>1. CASE ~b
      BY <1>4, <1>5, <2>1
    <2>2. CASE b
      <3>1. c.confidence \in Int /\ Tolerance \in Nat
        BY ConfidenceIsNumber, RustRegistryAssumption
      <3>2. c.confidence <= c.confidence + Tolerance * (n - n)
        <4>1. n - n = 0 /\ Tolerance * 0 = 0
          BY <3>1
        <4> QED BY <3>1, <4>1
      <3>3. n \in asserted' /\ claims'[n] = c /\ n <= n
        BY <1>2, <1>3, <1>5, <2>2
      <3> QED BY <3>2, <3>3 DEF RootedWithin
    <2> QED BY <2>1, <2>2
  <1>7. ASSUME NEW i \in DOMAIN claims'
        PROVE  RootedWithin(claims[i], i)'
    <2>1. CASE i = n
      BY <1>2, <1>5, <1>6, <2>1
    <2>2. CASE i \in DOMAIN claims
      <3>1. PICK x : x = claims[i] /\ x = claims'[i]
        BY <1>2, <2>2
      <3>2. RootedWithin(x, i)
        BY <1>1, <2>2, <3>1
      <3> QED BY <1>4, <3>1, <3>2 DEF RootedWithin
    <2> QED BY <1>2, <1>5, <2>1, <2>2
  <1> QED BY <1>7 DEF RustAuthorityRooted

\* What delegate() has checked in its first lock section is rooted where it will be
\* stored: nothing but the clock moves before the second.
LEMMA RustCheckRooted ==
  ASSUME RustRootedInv, NEW c \in Claim, NEW d \in Agents, RustCheck(c, d)
  PROVE  RootedWithin(c, Len(claims) + 1)
  <1>1. /\ claims \in Seq(Claim) /\ asserted \subseteq DOMAIN claims
        /\ \A n \in DOMAIN claims : RootedWithin(claims[n], n)
    BY DEF RustRootedInv, RustTypeOK, RegistryTypeOK, RustAuthorityRooted
  <1>2. PICK best \in Delegatable(d, c.resource) :
          /\ c.rights \subseteq claims[best].rights
          /\ c.confidence <= claims[best].confidence + Tolerance
    BY DEF RustCheck, RustBest
  <1>3. best \in DOMAIN claims /\ claims[best].resource = c.resource
    BY <1>2 DEF Delegatable, ClaimsFor
  <1> QED BY <1>1, <1>2, <1>3, DelegatedIsRooted

LEMMA RustRootedStep ==
  ASSUME RustRootedInv, [RustNext]_rustVars
  PROVE  RustAuthorityRooted'
  <1>1. /\ RustTypeOK /\ RustAuthorityRooted
        /\ checked \in Seq(Claim) /\ Len(checked) <= 1
    BY DEF RustRootedInv, RustTypeOK
  <1>2. ASSUME UNCHANGED <<claims, asserted>>,
               checked' # <<>> => checked' = checked \/ RootedWithin(checked'[1], Len(claims) + 1)
        PROVE  RustAuthorityRooted'
    <2>1. \A x, n : RootedWithin(x, n) => RootedWithin(x, n)'
      BY <1>2 DEF RootedWithin
    <2> QED BY <1>1, <1>2 DEF RustAuthorityRooted, RootedWithin
  <1>3. ASSUME NEW c \in NewClaims, RustAddClaim(c)
        PROVE  RustAuthorityRooted'
    BY <1>3, NewClaimsAreClaims, RustStoreRooted DEF RustAddClaim
  <1>4. ASSUME NEW c \in NewClaims, NEW d \in Agents, RustCheck(c, d)
        PROVE  RustAuthorityRooted'
    <2>1. c \in Claim /\ checked' = <<c>> /\ UNCHANGED <<claims, asserted>>
      BY <1>4, NewClaimsAreClaims DEF RustCheck, registryVars
    <2>2. RootedWithin(c, Len(claims) + 1) /\ checked'[1] = c
      BY <1>4, <2>1, RustCheckRooted
    <2> QED BY <1>2, <2>1, <2>2
  <1>5. CASE RustDelegate
    <2>1. /\ checked # <<>> /\ checked[1] \in Claim
          /\ RustStore(checked[1], FALSE) /\ checked' = <<>>
      BY <1>1, <1>5, CheckedTyped DEF RustDelegate
    <2>2. RootedWithin(checked[1], Len(claims) + 1)
      BY <1>1, <2>1 DEF RustAuthorityRooted
    <2> QED BY <2>1, <2>2, RustStoreRooted
  <1>6. CASE CommonStep /\ UNCHANGED <<checked, runningHooks>>
    BY <1>1, <1>2, <1>6, CommonStepKeeps DEF RustTypeOK
  <1>7. CASE RustHookEnds \/ UNCHANGED rustVars
    BY <1>2, <1>7 DEF RustHookEnds, rustVars, registryVars
  <1> QED BY <1>3, <1>4, <1>5, <1>6, <1>7 DEF RustNext, CommonStep

\* No authority invention in the Rust registry: every claim has its rights, and its
\* confidence up to one tolerance per delegation, from a claim that was asserted.
THEOREM RustNoInvention == RustSpec => []RustAuthorityRooted
  <1>1. RustRegistryInit => RustAuthorityRooted
    <2> SUFFICES ASSUME RustRegistryInit PROVE RustAuthorityRooted
      OBVIOUS
    <2>1. DOMAIN claims = {} /\ checked = <<>>
      BY DEF RustRegistryInit, RegistryInit
    <2> QED BY <2>1 DEF RustAuthorityRooted
  <1>2. RustRootedInv /\ [RustNext]_rustVars => RustAuthorityRooted'
    BY RustRootedStep
  <1> QED BY <1>1, <1>2, RustTyped, PTL DEF RustSpec, RustRootedInv

-----------------------------------------------------------------------------
(* Contests: recorded in the lock section that stores the later claim.      *)

RustContestInv == RustTypeOK /\ RustContestsRecorded

LEMMA RustStoreRecorded ==
  ASSUME RustContestInv, NEW c \in Claim, NEW b \in BOOLEAN, RustStore(c, b)
  PROVE  RustContestsRecorded'
  <1>1. /\ claims \in Seq(Claim) /\ conflicts \in Seq(ConflictRecord)
        /\ runningHooks \subseteq DOMAIN claims
        /\ ContestsRecorded(claims, conflicts)
        /\ \A i \in runningHooks : Recorded(conflicts, claims[i].resource, claims[i].holder)
    BY DEF RustContestInv, RustTypeOK, RegistryTypeOK, RustContestsRecorded
  <1>2. Store(c, b) /\ now' = now
    BY DEF RustStore
  <1>3. /\ claims'[Len(claims) + 1] = c
        /\ \A i \in DOMAIN claims : claims'[i] = claims[i]
    BY <1>1, <1>2, OneClaimMore
  <1>4. CASE DetectConflict(c) = {} /\ UNCHANGED <<conflicts, runningHooks>>
    <2>1. \A i \in DOMAIN claims : ~Contests(i, c)
      BY <1>1, <1>4, DetectsContest
    <2>2. ContestsRecorded(claims, conflicts)'
      BY <1>1, <1>2, <1>4, <2>1, StoreRecorded
    <2> QED BY <1>1, <1>3, <1>4, <2>2 DEF RustContestsRecorded
  <1>5. ASSUME NEW i \in DetectConflict(c), conflicts' = Append(conflicts, ConflictOf(i, c)),
               runningHooks' \subseteq runningHooks \cup {Len(claims) + 1}
        PROVE  RustContestsRecorded'
    <2>1. claims[i] \in Claim
      BY <1>1 DEF DetectConflict
    <2>2. ConflictOf(i, c) \in ConflictRecord
      BY <2>1 DEF ConflictOf, ConflictRecord, Claim
    <2>3. ConflictOf(i, c).resource = c.resource /\ ConflictOf(i, c).claimantB = c.holder
      BY DEF ConflictOf
    <2>4. /\ \A r, h : Recorded(conflicts, r, h) => Recorded(conflicts', r, h)
          /\ Recorded(conflicts', c.resource, c.holder)
      BY <1>1, <1>5, <2>2, <2>3, RecordAppended
    <2>5. ContestsRecorded(claims, conflicts)'
      BY <1>1, <1>2, <2>4, StoreRecorded
    <2>6. \A k \in runningHooks' : Recorded(conflicts', claims'[k].resource, claims'[k].holder)
      BY <1>1, <1>3, <1>5, <2>4
    <2> QED BY <2>5, <2>6 DEF RustContestsRecorded
  <1>6. \/ DetectConflict(c) = {} /\ UNCHANGED <<conflicts, runningHooks>>
        \/ /\ \E i \in DetectConflict(c) : conflicts' = Append(conflicts, ConflictOf(i, c))
           /\ runningHooks' \subseteq runningHooks \cup {Len(claims) + 1}
    BY DEF RustStore
  <1> QED BY <1>4, <1>5, <1>6

\* Images that stay, with a clock that does not go back, keep what is on record.
LEMMA ListsStayRecorded ==
  ASSUME claims \in Seq(Claim), UNCHANGED <<claims, conflicts>>,
         now \in Nat, now' \in Nat, now <= now', ContestsRecorded(claims, conflicts)
  PROVE  ContestsRecorded(claims, conflicts)'
  <1>1. PICK cs, cfs : cs = claims /\ cfs = conflicts
    OBVIOUS
  <1>2. ContestsRecorded(cs, cfs)'
    BY <1>1, CopyStaysRecorded
  <1> QED BY <1>1, <1>2 DEF ContestsRecorded, WriteContest, IsValid, IsExpired

LEMMA RustContestStep ==
  ASSUME RustContestInv, [RustNext]_rustVars
  PROVE  RustContestsRecorded'
  <1>1. /\ RustTypeOK /\ RegistryTypeOK /\ claims \in Seq(Claim) /\ now \in Nat
        /\ checked \in Seq(Claim) /\ Len(checked) <= 1
        /\ ContestsRecorded(claims, conflicts)
        /\ \A i \in runningHooks : Recorded(conflicts, claims[i].resource, claims[i].holder)
    BY DEF RustContestInv, RustTypeOK, RegistryTypeOK, RustContestsRecorded
  <1>2. ASSUME UNCHANGED <<claims, conflicts>>, now' \in Nat, now <= now',
               runningHooks' \subseteq runningHooks
        PROVE  RustContestsRecorded'
    <2>1. ContestsRecorded(claims, conflicts)'
      BY <1>1, <1>2, ListsStayRecorded
    <2> QED BY <1>1, <1>2, <2>1 DEF RustContestsRecorded
  <1>3. ASSUME NEW c \in NewClaims, RustAddClaim(c)
        PROVE  RustContestsRecorded'
    BY <1>3, NewClaimsAreClaims, RustStoreRecorded DEF RustAddClaim
  <1>4. CASE RustDelegate
    <2>1. checked[1] \in Claim /\ RustStore(checked[1], FALSE)
      BY <1>1, <1>4, CheckedTyped DEF RustDelegate
    <2> QED BY <2>1, RustStoreRecorded
  <1>5. CASE CommonStep /\ UNCHANGED <<checked, runningHooks>>
    BY <1>1, <1>2, <1>5, CommonStepKeeps
  <1>6. ASSUME \/ \E c \in NewClaims, d \in Agents : RustCheck(c, d)
               \/ RustHookEnds \/ UNCHANGED rustVars
        PROVE  RustContestsRecorded'
    <2>1. UNCHANGED <<claims, conflicts, now>> /\ runningHooks' \subseteq runningHooks
      BY <1>6 DEF RustCheck, RustHookEnds, rustVars, registryVars
    <2> QED BY <1>1, <1>2, <2>1
  <1> QED BY <1>3, <1>4, <1>5, <1>6 DEF RustNext, CommonStep

\* Every live contest of two writers is on record, while a hook runs and after it
\* has raised as well.
THEOREM RustContestsOnRecord == RustSpec => []RustContestsRecorded
  <1>1. RustRegistryInit => RustContestsRecorded
    <2> SUFFICES ASSUME RustRegistryInit PROVE RustContestsRecorded
      OBVIOUS
    <2>1. DOMAIN claims = {} /\ runningHooks = {}
      BY DEF RustRegistryInit, RegistryInit
    <2> QED BY <2>1 DEF RustContestsRecorded, ContestsRecorded
  <1>2. RustContestInv /\ [RustNext]_rustVars => RustContestsRecorded'
    BY RustContestStep
  <1> QED BY <1>1, <1>2, RustTyped, PTL DEF RustSpec, RustContestInv

-----------------------------------------------------------------------------
(* Goal trees.  Flattening a list of lists, from its end and from its start. *)

\* The recursion of FlattenSeq has a solution, of lists.
LEMMA FlattenUnfolds ==
  ASSUME NEW S, NEW s \in Seq(Seq(S)), s # <<>>
  PROVE  \E f \in [1 .. Len(s) -> Seq(S)] :
           f = [i \in 1 .. Len(s) |-> IF i = 1 THEN s[i] ELSE f[i - 1] \o s[i]]
  <1> DEFINE Runs(f, n) == f = [i \in 1 .. n |-> IF i = 1 THEN s[i] ELSE f[i - 1] \o s[i]]
             stuck == {n \in 1 .. Len(s) : ~ \E f \in [1 .. n -> Seq(S)] : Runs(f, n)}
  <1>1. Len(s) \in Nat /\ Len(s) > 0 /\ \A i \in 1 .. Len(s) : s[i] \in Seq(S)
    BY EmptySeq, LenProperties, ElementOfSeq
  <1>2. ASSUME stuck # {}
        PROVE  FALSE
    <2>1. stuck \subseteq Nat /\ stuck \subseteq 1 .. Len(s)
      <3> HIDE DEF Runs
      <3> QED BY <1>1
    <2>2. PICK n \in stuck : \A m \in stuck : n <= m
      <3> HIDE DEF stuck
      <3> QED BY <1>2, <2>1, LeastMember
    <2>3. CASE n = 1
      <3> DEFINE f == [i \in 1 .. 1 |-> s[1]]
      <3>1. f \in [1 .. 1 -> Seq(S)] /\ Runs(f, 1)
        BY <1>1
      <3> QED BY <2>2, <2>3, <3>1
    <2>4. CASE n # 1
      <3>1. n \in 1 .. Len(s) /\ n - 1 \in 1 .. Len(s) /\ n - 1 \notin stuck
        <4> HIDE DEF stuck
        <4> QED BY <1>1, <2>1, <2>2, <2>4
      <3>2. PICK f \in [1 .. n - 1 -> Seq(S)] : Runs(f, n - 1)
        BY <3>1
      <3>3. f[n - 1] \in Seq(S) /\ s[n] \in Seq(S)
        BY <1>1, <2>2, <3>1
      <3>4. PICK z \in Seq(S) : z = f[n - 1] \o s[n]
        BY <3>3, ConcatProperties
      <3> DEFINE g == [i \in 1 .. n |-> IF i = n THEN z ELSE f[i]]
      <3>5. g \in [1 .. n -> Seq(S)]
        BY <3>4
      <3>6. \A i \in 1 .. n - 1 : g[i] = IF i = 1 THEN s[i] ELSE g[i - 1] \o s[i]
        <4>1. \A i \in 1 .. n - 1 : f[i] = IF i = 1 THEN s[i] ELSE f[i - 1] \o s[i]
          BY <3>2
        <4>2. \A i \in 1 .. n - 1 : g[i] = f[i]
          BY <3>1
        <4>3. \A i \in 1 .. n - 1 : i # 1 => i - 1 \in 1 .. n - 1
          BY <3>1
        <4> HIDE DEF g
        <4> QED BY <4>1, <4>2, <4>3
      <3>8. g[n] = g[n - 1] \o s[n]
        <4>1. g[n] = z /\ g[n - 1] = f[n - 1]
          BY <1>1, <3>1
        <4> QED BY <3>4, <4>1
      <3>9. \A i \in 1 .. n : g[i] = IF i = 1 THEN s[i] ELSE g[i - 1] \o s[i]
        <4>1. \A i \in 1 .. n : i = n \/ i \in 1 .. n - 1
          BY <3>1
        <4> HIDE DEF g
        <4> QED BY <2>4, <3>6, <3>8, <4>1
      <3>7. Runs(g, n)
        <4> HIDE DEF g
        <4> QED BY <3>5, <3>9
      <3> QED BY <2>2, <3>5, <3>7
    <2> QED BY <2>3, <2>4
  <1>3. Len(s) \in 1 .. Len(s)
    BY <1>1
  <1> QED BY <1>2, <1>3

LEMMA FlattenSteps ==
  ASSUME NEW S, NEW s \in Seq(Seq(S)), s # <<>>
  PROVE  \E f \in [1 .. Len(s) -> Seq(S)] :
           /\ f[1] = s[1]
           /\ \A i \in 2 .. Len(s) : f[i] = f[i - 1] \o s[i]
           /\ FlattenSeq(s) = f[Len(s)]
  <1> DEFINE Body(f) == [i \in 1 .. Len(s) |-> IF i = 1 THEN s[i] ELSE f[i - 1] \o s[i]]
             flat == CHOOSE f : f = Body(f)
  <1>1. Len(s) \in Nat /\ Len(s) > 0 /\ \A i \in 1 .. Len(s) : s[i] \in Seq(S)
    BY EmptySeq, LenProperties, ElementOfSeq
  <1>2. \E f : f = Body(f)
    <2>1. PICK f \in [1 .. Len(s) -> Seq(S)] :
            f = [i \in 1 .. Len(s) |-> IF i = 1 THEN s[i] ELSE f[i - 1] \o s[i]]
      BY FlattenUnfolds
    <2>2. f = Body(f)
      BY <2>1
    <2> QED BY <2>2
  <1>3. flat = Body(flat)
    <2> HIDE DEF Body
    <2> QED BY <1>2
  <1>4. FlattenSeq(s) = flat[Len(s)]
    BY <1>1 DEF FlattenSeq
  <1> HIDE DEF flat
  <1>5. flat[1] = s[1] /\ \A i \in 2 .. Len(s) : flat[i] = flat[i - 1] \o s[i]
    <2>1. \A i \in 1 .. Len(s) : Body(flat)[i] = IF i = 1 THEN s[i] ELSE flat[i - 1] \o s[i]
      OBVIOUS
    <2> HIDE DEF Body
    <2>2. \A i \in 1 .. Len(s) : flat[i] = IF i = 1 THEN s[i] ELSE flat[i - 1] \o s[i]
      BY <1>3, <2>1
    <2>3. 1 \in 1 .. Len(s) /\ \A i \in 2 .. Len(s) : i \in 1 .. Len(s) /\ i # 1
      BY <1>1
    <2> QED BY <2>2, <2>3
  <1> DEFINE odd == {i \in 1 .. Len(s) : flat[i] \notin Seq(S)}
  <1>6. ASSUME odd # {}
        PROVE  FALSE
    <2>1. odd \subseteq Nat
      OBVIOUS
    <2>2. PICK n \in odd : \A m \in odd : n <= m
      <3> HIDE DEF odd
      <3> QED BY <1>6, <2>1, LeastMember
    <2>3. n # 1
      BY <1>1, <1>5
    <2>4. n \in 2 .. Len(s) /\ n - 1 \in 1 .. Len(s) /\ n - 1 \notin odd
      BY <2>2, <2>3
    <2>5. flat[n - 1] \in Seq(S) /\ s[n] \in Seq(S)
      BY <1>1, <2>4
    <2>6. flat[n - 1] \o s[n] \in Seq(S)
      BY <2>5, ConcatProperties
    <2> QED BY <1>5, <2>2, <2>4, <2>6
  <1>7. flat \in [1 .. Len(s) -> Seq(S)]
    BY <1>3, <1>6
  <1> QED BY <1>4, <1>5, <1>7

\* One list more at the end.
LEMMA FlattenAppend ==
  ASSUME NEW S, NEW s \in Seq(Seq(S)), NEW x \in Seq(S)
  PROVE  FlattenSeq(s) \in Seq(S) /\ FlattenSeq(Append(s, x)) = FlattenSeq(s) \o x
  <1> DEFINE t == Append(s, x)
  <1>1. /\ t \in Seq(Seq(S)) /\ t # <<>> /\ Len(t) = Len(s) + 1 /\ Len(s) \in Nat
        /\ \A i \in 1 .. Len(s) : t[i] = s[i]
        /\ t[Len(s) + 1] = x
    BY AppendProperties, LenProperties
  <1> HIDE DEF t
  <1>2. PICK g \in [1 .. Len(t) -> Seq(S)] :
          /\ g[1] = t[1]
          /\ \A i \in 2 .. Len(t) : g[i] = g[i - 1] \o t[i]
          /\ FlattenSeq(t) = g[Len(t)]
    BY <1>1, FlattenSteps
  <1>3. CASE s = <<>>
    <2>1. Len(s) = 0 /\ FlattenSeq(s) = <<>> /\ FlattenSeq(s) \in Seq(S)
      BY <1>3 DEF FlattenSeq
    <2>2. FlattenSeq(t) = x
      BY <1>1, <1>2, <2>1
    <2> QED BY <2>1, <2>2, ConcatEmptySeq DEF t
  <1>4. CASE s # <<>>
    <2>1. PICK f \in [1 .. Len(s) -> Seq(S)] :
            /\ f[1] = s[1]
            /\ \A i \in 2 .. Len(s) : f[i] = f[i - 1] \o s[i]
            /\ FlattenSeq(s) = f[Len(s)]
      BY <1>4, FlattenSteps
    <2>2. Len(s) > 0
      BY <1>4, EmptySeq
    <2> DEFINE apart == {i \in 1 .. Len(s) : g[i] # f[i]}
    <2>3. ASSUME apart # {}
          PROVE  FALSE
      <3>1. apart \subseteq Nat
        OBVIOUS
      <3>2. PICK n \in apart : \A m \in apart : n <= m
        <4> HIDE DEF apart
        <4> QED BY <2>3, <3>1, LeastMember
      <3>3. n # 1
        BY <1>1, <1>2, <2>1, <2>2
      <3>4. n \in 2 .. Len(s) /\ n \in 2 .. Len(t) /\ n - 1 \in 1 .. Len(s) /\ n - 1 \notin apart
        <4>1. n \in 1 .. Len(s)
          OBVIOUS
        <4> HIDE DEF apart
        <4> QED BY <1>1, <3>2, <3>3, <4>1
      <3>5. g[n - 1] = f[n - 1] /\ t[n] = s[n]
        BY <1>1, <3>4
      <3> QED BY <1>2, <2>1, <3>2, <3>4, <3>5
    <2>4. g[Len(s)] = f[Len(s)]
      <3>1. Len(s) \in 1 .. Len(s)
        BY <1>1, <2>2
      <3> QED BY <2>3, <3>1
    <2>5. Len(t) \in 2 .. Len(t) /\ Len(t) - 1 = Len(s) /\ t[Len(t)] = x
      BY <1>1, <2>2
    <2>6. FlattenSeq(t) = FlattenSeq(s) \o x
      BY <1>2, <2>1, <2>4, <2>5
    <2>7. FlattenSeq(s) \in Seq(S)
      <3>1. Len(s) \in 1 .. Len(s)
        BY <1>1, <2>2
      <3> QED BY <2>1, <3>1
    <2> QED BY <2>6, <2>7 DEF t
  <1> QED BY <1>3, <1>4

\* Two lists of lists, one after the other.
LEMMA FlattenConcat ==
  ASSUME NEW S, NEW s \in Seq(Seq(S)), NEW t \in Seq(Seq(S))
  PROVE  FlattenSeq(s \o t) = FlattenSeq(s) \o FlattenSeq(t)
  <1>0. \A a \in Seq(S), b \in Seq(S), c \in Seq(S) : (a \o b) \o c = a \o (b \o c)
    OBVIOUS
  <1> DEFINE Splits(u) == FlattenSeq(s \o u) = FlattenSeq(s) \o FlattenSeq(u)
             short == {n \in Nat : \E u \in Seq(Seq(S)) : Len(u) = n /\ ~Splits(u)}
  <1>1. ASSUME short # {}
        PROVE  FALSE
    <2>1. short \subseteq Nat
      OBVIOUS
    <2>2. PICK n \in short : \A m \in short : n <= m
      <3> HIDE DEF short
      <3> QED BY <1>1, <2>1, LeastMember
    <2>3. PICK u \in Seq(Seq(S)) : Len(u) = n /\ ~Splits(u)
      BY <2>2
    <2>4. FlattenSeq(s) \in Seq(S)
      <3>1. <<>> \in Seq(S)
        OBVIOUS
      <3> QED BY <3>1, FlattenAppend
    <2>5. u # <<>>
      <3>1. FlattenSeq(<<>>) = <<>> /\ s \o <<>> = s
        BY ConcatEmptySeq DEF FlattenSeq
      <3>2. FlattenSeq(s) \o <<>> = FlattenSeq(s)
        BY <2>4, ConcatEmptySeq
      <3> QED BY <2>3, <3>1, <3>2
    <2>6. PICK v \in Seq(Seq(S)), x \in Seq(S) : u = Append(v, x)
      BY <2>5, SequenceEmptyOrAppend
    <2>7. Len(v) \in Nat /\ Len(v) < n
      BY <2>3, <2>6, AppendProperties, LenProperties
    <2>8. Splits(v)
      <3>1. Len(v) \notin short
        BY <2>2, <2>7
      <3> QED BY <2>7, <3>1
    <2>9. s \o v \in Seq(Seq(S)) /\ s \o u = Append(s \o v, x)
      <3>1. <<x>> \in Seq(Seq(S)) /\ s \o v \in Seq(Seq(S))
        BY ConcatProperties
      <3>2. u = v \o <<x>> /\ Append(s \o v, x) = (s \o v) \o <<x>>
        BY <2>6, <3>1, AppendIsConcat
      <3> QED BY <3>1, <3>2, ConcatAssociative
    <2>10. /\ FlattenSeq(s \o u) = FlattenSeq(s \o v) \o x
           /\ FlattenSeq(u) = FlattenSeq(v) \o x /\ FlattenSeq(v) \in Seq(S)
      BY <2>6, <2>9, FlattenAppend
    <2>11. (FlattenSeq(s) \o FlattenSeq(v)) \o x = FlattenSeq(s) \o (FlattenSeq(v) \o x)
      <3> HIDE DEF Splits, short
      <3> QED BY <1>0, <2>4, <2>6, <2>10
    <2> QED BY <2>3, <2>8, <2>10, <2>11
  <1>2. Len(t) \in Nat
    BY LenProperties
  <1> QED BY <1>1, <1>2

\* One list before the others.
LEMMA FlattenFirst ==
  ASSUME NEW S, NEW x \in Seq(S), NEW t \in Seq(Seq(S))
  PROVE  FlattenSeq(<<x>> \o t) = x \o FlattenSeq(t)
  <1>1. <<x>> \in Seq(Seq(S)) /\ <<>> \in Seq(Seq(S)) /\ Append(<<>>, x) = <<x>>
    OBVIOUS
  <1>2. FlattenSeq(<<>>) = <<>>
    BY DEF FlattenSeq
  <1>3. FlattenSeq(<<x>>) = x
    <2>1. FlattenSeq(Append(<<>>, x)) = FlattenSeq(<<>>) \o x
      BY <1>1, FlattenAppend
    <2>2. <<>> \o x = x
      BY ConcatEmptySeq
    <2> QED BY <1>1, <1>2, <2>1, <2>2
  <1> QED BY <1>1, <1>3, FlattenConcat

-----------------------------------------------------------------------------
(* The recursive functions of goal trees.  A tree is only ever put under a  *)
(* goal that nothing owns, which no other tree refers to: so when the       *)
(* equations of the functions have one solution before with_subgoal(), they *)
(* have one after it, which differs at that goal only.                      *)

Images(f, s) == [c \in DOMAIN s |-> f[s[c]]]

OrderBody(f, sub) == [k \in Goals |-> <<k>> \o FlattenSeq(Images(f, sub[k]))]

OrderOf(sub) == CHOOSE f : f = OrderBody(f, sub)

OneOrder(sub) ==
  \E f \in [Goals -> Seq(Goals)] :
    f = OrderBody(f, sub) /\ \A h : h = OrderBody(h, sub) => h = f

LEMMA PreOrderIs == \A g : PreOrder(g) = OrderOf(subgoals)[g]
  BY DEF PreOrder, OrderOf, OrderBody, Images

LEMMA OrderIs ==
  ASSUME NEW sub, OneOrder(sub)
  PROVE  /\ OrderOf(sub) \in [Goals -> Seq(Goals)]
         /\ OrderOf(sub) = OrderBody(OrderOf(sub), sub)
         /\ \A h : h = OrderBody(h, sub) => h = OrderOf(sub)
  <1>1. PICK f \in [Goals -> Seq(Goals)] :
          f = OrderBody(f, sub) /\ \A h : h = OrderBody(h, sub) => h = f
    BY DEF OneOrder
  <1>2. OrderOf(sub) = OrderBody(OrderOf(sub), sub)
    BY <1>1, Zenon DEF OrderOf
  <1>3. OrderOf(sub) = f
    BY <1>1, <1>2
  <1> QED BY <1>1, <1>3

LEMMA ListsTyped ==
  ASSUME NEW S, NEW f \in [Goals -> S], NEW s \in Seq(Goals)
  PROVE  Images(f, s) \in Seq(S)
  <1>1. DOMAIN s = 1 .. Len(s) /\ Len(s) \in Nat /\ \A c \in 1 .. Len(s) : s[c] \in Goals
    BY LenProperties, ElementOfSeq
  <1> QED BY <1>1 DEF Images

LEMMA ListsAppend ==
  ASSUME NEW S, NEW f \in [Goals -> S], NEW s \in Seq(Goals), NEW child \in Goals
  PROVE  Images(f, Append(s, child)) = Append(Images(f, s), f[child])
  <1>1. DOMAIN s = 1 .. Len(s) /\ Len(s) \in Nat /\ \A c \in 1 .. Len(s) : s[c] \in Goals
    BY LenProperties, ElementOfSeq
  <1>2. /\ Append(s, child) \in Seq(Goals) /\ Len(Append(s, child)) = Len(s) + 1
        /\ \A c \in 1 .. Len(s) : Append(s, child)[c] = s[c]
        /\ Append(s, child)[Len(s) + 1] = child
    BY AppendProperties
  <1>3. /\ Images(f, s) \in Seq(S) /\ f[child] \in S /\ Len(Images(f, s)) = Len(s)
        /\ Images(f, Append(s, child)) \in Seq(S)
        /\ Len(Images(f, Append(s, child))) = Len(s) + 1
    BY <1>1, <1>2, ListsTyped DEF Images
  <1>4. /\ Append(Images(f, s), f[child]) \in Seq(S)
        /\ Len(Append(Images(f, s), f[child])) = Len(s) + 1
        /\ \A c \in 1 .. Len(s) : Append(Images(f, s), f[child])[c] = Images(f, s)[c]
        /\ Append(Images(f, s), f[child])[Len(s) + 1] = f[child]
    BY <1>3, AppendProperties
  <1>5. \A c \in 1 .. Len(s) + 1 :
          Images(f, Append(s, child))[c] = Append(Images(f, s), f[child])[c]
    <2>1. \A c \in 1 .. Len(s) : Images(f, s)[c] = f[s[c]]
      BY <1>1 DEF Images
    <2>2. \A c \in 1 .. Len(s) + 1 : Images(f, Append(s, child))[c] = f[Append(s, child)[c]]
      BY <1>2 DEF Images
    <2>3. \A c \in 1 .. Len(s) + 1 : c \in 1 .. Len(s) \/ c = Len(s) + 1
      BY <1>1
    <2> QED BY <1>2, <1>4, <2>1, <2>2, <2>3
  <1> QED BY <1>3, <1>4, <1>5, SeqEqual

\* What a function gives for a goal that is in no list does not matter.
LEMMA ListsIgnore ==
  ASSUME NEW f, NEW h, NEW g, NEW s \in Seq(Goals), g \notin ToSet(s),
         \A k \in Goals \ {g} : f[k] = h[k]
  PROVE  Images(f, s) = Images(h, s)
  <1>1. \A c \in DOMAIN s : s[c] \in Goals \ {g}
    BY LenProperties, ElementOfSeq DEF ToSet
  <1> QED BY <1>1 DEF Images

\* What a child is put under: it becomes the last subgoal of g.
PutUnder(sub, g, child) == [sub EXCEPT ![g] = Append(@, child)]

LEMMA ConcatThree ==
  ASSUME NEW S, NEW a \in Seq(S), NEW b \in Seq(S), NEW c \in Seq(S)
  PROVE  (a \o b) \o c = a \o (b \o c) /\ a \o (b \o c) \in Seq(S)
  <1>1. b \o c \in Seq(S) /\ a \o (b \o c) \in Seq(S)
    OBVIOUS
  <1> QED BY <1>1, ConcatAssociative

LEMMA OrderGrows ==
  ASSUME NEW sub \in [Goals -> Seq(Goals)], OneOrder(sub),
         NEW g \in Goals, NEW child \in Goals, g # child,
         \A k \in Goals : g \notin ToSet(sub[k])
  PROVE  /\ OneOrder(PutUnder(sub, g, child))
         /\ OrderOf(PutUnder(sub, g, child))
              = [OrderOf(sub) EXCEPT ![g] = @ \o OrderOf(sub)[child]]
  <1>1. PICK f \in [Goals -> Seq(Goals)] :
          /\ f = OrderOf(sub) /\ f = OrderBody(f, sub)
          /\ \A h : h = OrderBody(h, sub) => h = f
    BY OrderIs
  <1> DEFINE new == PutUnder(sub, g, child)
             list == Images(f, sub[g])
  <1>2. /\ new[g] = Append(sub[g], child) /\ \A k \in Goals \ {g} : new[k] = sub[k]
        /\ new \in [Goals -> Seq(Goals)]
    BY AppendProperties DEF PutUnder
  <1>3. /\ list \in Seq(Seq(Goals)) /\ FlattenSeq(list) \in Seq(Goals)
        /\ FlattenSeq(Append(list, f[child])) = FlattenSeq(list) \o f[child]
    BY ListsTyped, FlattenAppend
  <1>4. PICK z \in Seq(Goals) :
          z = f[g] \o f[child] /\ z = <<g>> \o FlattenSeq(Append(list, f[child]))
    <2>1. f[g] = <<g>> \o FlattenSeq(list)
      BY <1>1 DEF OrderBody
    <2>3. <<g>> \in Seq(Goals) /\ f[child] \in Seq(Goals)
      OBVIOUS
    <2> HIDE DEF list, new
    <2>4. PICK a \in Seq(Goals), b \in Seq(Goals), c \in Seq(Goals) :
            a = <<g>> /\ b = FlattenSeq(list) /\ c = f[child]
      BY <1>3, <2>3
    <2>5. f[g] \o f[child] = (a \o b) \o c
      BY <2>1, <2>4
    <2>6. <<g>> \o FlattenSeq(Append(list, f[child])) = a \o (b \o c)
      BY <1>3, <2>4
    <2>7. (a \o b) \o c = a \o (b \o c) /\ a \o (b \o c) \in Seq(Goals)
      BY ConcatThree, Zenon
    <2> QED BY <2>5, <2>6, <2>7
  <1>5. ASSUME NEW h, \A k \in Goals \ {g} : h[k] = f[k]
        PROVE  /\ \A k \in Goals \ {g} : Images(h, new[k]) = Images(f, sub[k])
               /\ Images(h, new[g]) = Append(list, f[child])
    <2>1. \A k \in Goals : g \notin ToSet(new[k])
      <3>1. \A k \in Goals \ {g} : g \notin ToSet(new[k])
        BY <1>2
      <3>2. g \notin ToSet(Append(sub[g], child))
        BY AppendProperties, LenProperties DEF ToSet
      <3> QED BY <1>2, <3>1, <3>2
    <2>2. ASSUME NEW k \in Goals
          PROVE  Images(h, new[k]) = Images(f, new[k])
      <3>1. new[k] \in Seq(Goals) /\ g \notin ToSet(new[k])
        BY <1>2, <2>1
      <3> HIDE DEF new, list
      <3>2. PICK s \in Seq(Goals) : s = new[k]
        BY <3>1
      <3>3. \A j \in Goals \ {g} : f[j] = h[j]
        BY <1>5
      <3>5. g \notin ToSet(s)
        BY <3>1, <3>2
      <3>4. \A c \in DOMAIN s : s[c] \in Goals \ {g}
        BY <3>5, LenProperties, ElementOfSeq DEF ToSet
      <3>6. Images(f, s) = Images(h, s)
        BY <3>3, <3>4 DEF Images
      <3> QED BY <3>2, <3>6
    <2>3. Images(f, new[g]) = Append(list, f[child])
      <3>1. Images(f, Append(sub[g], child)) = Append(Images(f, sub[g]), f[child])
        BY ListsAppend
      <3> HIDE DEF new
      <3> QED BY <1>2, <3>1
    <2> QED BY <1>2, <2>2, <2>3
  <1>6. ASSUME NEW h, h = OrderBody(h, new)
        PROVE  \A k \in Goals \ {g} : h[k] = f[k]
    <2> DEFINE d == [k \in Goals |-> IF k = g THEN <<g>> \o FlattenSeq(Images(h, sub[g])) ELSE h[k]]
    <2>1. \A k \in Goals : h[k] = <<k>> \o FlattenSeq(Images(h, new[k]))
      BY <1>6 DEF OrderBody
    <2>2. ASSUME NEW k \in Goals
          PROVE  Images(d, sub[k]) = Images(h, sub[k])
      <3>1. \A j \in Goals \ {g} : d[j] = h[j]
        OBVIOUS
      <3>2. sub[k] \in Seq(Goals) /\ g \notin ToSet(sub[k])
        OBVIOUS
      <3> HIDE DEF d, new
      <3> QED BY <3>1, <3>2, ListsIgnore
    <2>3. \A k \in Goals : d[k] = <<k>> \o FlattenSeq(Images(d, sub[k]))
      <3>1. \A k \in Goals \ {g} : d[k] = h[k]
        OBVIOUS
      <3>2. d[g] = <<g>> \o FlattenSeq(Images(h, sub[g]))
        OBVIOUS
      <3> HIDE DEF d, new
      <3> QED BY <1>2, <2>1, <2>2, <3>1, <3>2
    <2>4. d = OrderBody(d, sub)
      <3>1. d = [k \in Goals |-> d[k]]
        OBVIOUS
      <3> HIDE DEF d
      <3> QED BY <2>3, <3>1 DEF OrderBody
    <2> QED BY <1>1, <2>4
  <1> DEFINE next == [f EXCEPT ![g] = z]
  <1>7. next \in [Goals -> Seq(Goals)] /\ next[g] = z /\ \A k \in Goals \ {g} : next[k] = f[k]
    OBVIOUS
  <1>8. ASSUME NEW h, h = OrderBody(h, new)
        PROVE  h = next
    <2>1. h = [k \in Goals |-> h[k]] /\ \A k \in Goals : h[k] = <<k>> \o FlattenSeq(Images(h, new[k]))
      BY <1>8 DEF OrderBody
    <2>2. \A k \in Goals \ {g} : h[k] = f[k]
      BY <1>6, <1>8
    <2>3. h[g] = z
      BY <1>4, <1>5, <2>1, <2>2
    <2> HIDE DEF new
    <2> QED BY <2>1, <2>2, <2>3
  <1>9. next = OrderBody(next, new)
    <2>1. \A k \in Goals : next[k] = <<k>> \o FlattenSeq(Images(next, new[k]))
      <3>1. /\ \A k \in Goals \ {g} : Images(next, new[k]) = Images(f, sub[k])
            /\ Images(next, new[g]) = Append(list, f[child])
        BY <1>5, <1>7
      <3>2. \A k \in Goals : f[k] = <<k>> \o FlattenSeq(Images(f, sub[k]))
        BY <1>1 DEF OrderBody
      <3> HIDE DEF next, new, list
      <3> QED BY <1>4, <1>7, <3>1, <3>2
    <2>2. next = [k \in Goals |-> next[k]]
      OBVIOUS
    <2> HIDE DEF next, new
    <2> QED BY <2>1, <2>2 DEF OrderBody
  <1> HIDE DEF new, next
  <1>10. OneOrder(new)
    BY <1>7, <1>8, <1>9 DEF OneOrder
  <1>11. OrderOf(new) = next
    BY <1>8, <1>10, OrderIs
  <1> QED BY <1>1, <1>4, <1>10, <1>11 DEF new, next

\* Before anything is built, every goal is alone.
LEMMA OrderStarts ==
  ASSUME NEW sub, sub = [g \in Goals |-> <<>>]
  PROVE  OneOrder(sub) /\ \A g \in Goals : OrderOf(sub)[g] = <<g>>
  <1> DEFINE f == [k \in Goals |-> <<k>>]
  <1>1. \A h : h = OrderBody(h, sub) <=> h = f
    <2>1. \A h, k : k \in Goals => FlattenSeq(Images(h, sub[k])) = <<>>
      BY DEF Images, FlattenSeq
    <2>2. \A k \in Goals : <<k>> \o <<>> = <<k>>
      BY ConcatEmptySeq
    <2>3. \A h : OrderBody(h, sub) = [k \in Goals |-> <<k>>]
      BY <2>1, <2>2 DEF OrderBody
    <2> QED BY <2>3
  <1>2. f \in [Goals -> Seq(Goals)] /\ \A k \in Goals : f[k] = <<k>>
    OBVIOUS
  <1> HIDE DEF f
  <1>3. OneOrder(sub)
    BY <1>1, <1>2 DEF OneOrder
  <1>4. OrderOf(sub) = f
    BY <1>1, <1>3, OrderIs
  <1> QED BY <1>2, <1>3, <1>4

HeightBody(f, sub) ==
  [k \in Goals |-> IF sub[k] = <<>> THEN 0 ELSE 1 + Max({f[child] : child \in ToSet(sub[k])})]

HeightOf(sub) == CHOOSE f : f = HeightBody(f, sub)

OneHeight(sub) ==
  \E f \in [Goals -> Nat] :
    /\ f = HeightBody(f, sub) /\ \A h : h = HeightBody(h, sub) => h = f
    /\ \A k \in Goals : sub[k] # <<>> =>
         \E m \in ToSet(sub[k]) : \A child \in ToSet(sub[k]) : f[m] >= f[child]

LEMMA MaxDepthIs == \A g : MaxDepth(g) = HeightOf(subgoals)[g]
  BY DEF MaxDepth, HeightOf, HeightBody

LEMMA HeightIs ==
  ASSUME NEW sub, OneHeight(sub)
  PROVE  /\ HeightOf(sub) \in [Goals -> Nat]
         /\ HeightOf(sub) = HeightBody(HeightOf(sub), sub)
         /\ \A h : h = HeightBody(h, sub) => h = HeightOf(sub)
         /\ \A k \in Goals : sub[k] # <<>> =>
              \E m \in ToSet(sub[k]) :
                \A child \in ToSet(sub[k]) : HeightOf(sub)[m] >= HeightOf(sub)[child]
  <1>1. PICK f \in [Goals -> Nat] :
          /\ f = HeightBody(f, sub) /\ \A h : h = HeightBody(h, sub) => h = f
          /\ \A k \in Goals : sub[k] # <<>> =>
               \E m \in ToSet(sub[k]) : \A child \in ToSet(sub[k]) : f[m] >= f[child]
    BY DEF OneHeight
  <1>2. HeightOf(sub) = HeightBody(HeightOf(sub), sub)
    BY <1>1, Zenon DEF HeightOf
  <1>3. HeightOf(sub) = f
    BY <1>1, <1>2
  <1> QED BY <1>1, <1>3

LEMMA HeightStarts ==
  ASSUME NEW sub, sub = [g \in Goals |-> <<>>]
  PROVE  OneHeight(sub) /\ \A g \in Goals : HeightOf(sub)[g] = 0
  <1> DEFINE f == [k \in Goals |-> 0]
  <1>1. \A h : HeightBody(h, sub) = f
    BY DEF HeightBody
  <1>2. f \in [Goals -> Nat] /\ \A k \in Goals : f[k] = 0
    OBVIOUS
  <1> HIDE DEF f
  <1>3. OneHeight(sub)
    BY <1>1, <1>2 DEF OneHeight
  <1>4. HeightOf(sub) = f
    BY <1>1, <1>3, HeightIs
  <1> QED BY <1>2, <1>3, <1>4

LEMMA MaxIs ==
  ASSUME NEW T, T \subseteq Int, NEW m \in T, \A y \in T : m >= y
  PROVE  Max(T) = m
  <1>1. Max(T) \in T /\ \A y \in T : Max(T) >= y
    BY Zenon DEF Max
  <1>2. Max(T) \in Int /\ m \in Int /\ Max(T) >= m /\ m >= Max(T)
    BY <1>1
  <1> QED BY <1>2

\* The subgoals of a goal with one more.
Adopts(new, sub, g, child) ==
  /\ new \in [Goals -> Seq(Goals)] /\ \A k \in Goals \ {g} : new[k] = sub[k]
  /\ new[g] # <<>> /\ ToSet(new[g]) = ToSet(sub[g]) \cup {child}

LEMMA UnderIs ==
  ASSUME NEW sub \in [Goals -> Seq(Goals)], NEW g \in Goals, NEW child \in Goals
  PROVE  Adopts(PutUnder(sub, g, child), sub, g, child)
  <1>1. /\ Append(sub[g], child) \in Seq(Goals) /\ Append(sub[g], child) # <<>>
        /\ Len(Append(sub[g], child)) = Len(sub[g]) + 1 /\ Len(sub[g]) \in Nat
        /\ DOMAIN sub[g] = 1 .. Len(sub[g])
        /\ \A c \in 1 .. Len(sub[g]) : Append(sub[g], child)[c] = sub[g][c]
        /\ Append(sub[g], child)[Len(sub[g]) + 1] = child
    BY AppendProperties, LenProperties
  <1>2. DOMAIN Append(sub[g], child) = 1 .. Len(sub[g]) + 1
    BY <1>1, LenProperties
  <1>3. ToSet(Append(sub[g], child)) = ToSet(sub[g]) \cup {child}
    <2>1. \A c \in 1 .. Len(sub[g]) + 1 : c \in 1 .. Len(sub[g]) \/ c = Len(sub[g]) + 1
      BY <1>1
    <2>2. Len(sub[g]) + 1 \in 1 .. Len(sub[g]) + 1
          /\ \A c \in 1 .. Len(sub[g]) : c \in 1 .. Len(sub[g]) + 1
      BY <1>1
    <2> QED BY <1>1, <1>2, <2>1, <2>2 DEF ToSet
  <1> QED BY <1>1, <1>3 DEF PutUnder, Adopts

LEMMA HeightGrows ==
  ASSUME NEW sub \in [Goals -> Seq(Goals)], OneHeight(sub),
         NEW g \in Goals, NEW child \in Goals, g # child,
         \A k \in Goals : g \notin ToSet(sub[k])
  PROVE  LET old == HeightOf(sub)
             new == HeightOf(PutUnder(sub, g, child))
         IN  /\ OneHeight(PutUnder(sub, g, child))
             /\ \A k \in Goals \ {g} : new[k] = old[k]
             /\ new[g] = IF old[g] >= 1 + old[child] THEN old[g] ELSE 1 + old[child]
  <1>1. PICK f \in [Goals -> Nat] :
          /\ f = HeightOf(sub) /\ f = HeightBody(f, sub)
          /\ \A h : h = HeightBody(h, sub) => h = f
          /\ \A k \in Goals : sub[k] # <<>> =>
               \E m \in ToSet(sub[k]) : \A c \in ToSet(sub[k]) : f[m] >= f[c]
    BY HeightIs
  <1> DEFINE new == PutUnder(sub, g, child)
             Below(h, s) == {h[c] : c \in ToSet(s)}
             z == IF f[g] >= 1 + f[child] THEN f[g] ELSE 1 + f[child]
  <1>2. /\ new \in [Goals -> Seq(Goals)] /\ \A k \in Goals \ {g} : new[k] = sub[k]
        /\ new[g] # <<>> /\ ToSet(new[g]) = ToSet(sub[g]) \cup {child}
    <2>1. Adopts(new, sub, g, child)
      BY UnderIs
    <2> HIDE DEF new
    <2> QED BY <2>1 DEF Adopts
  <1>3. \A k \in Goals : ToSet(sub[k]) \subseteq Goals
    BY LenProperties, ElementOfSeq DEF ToSet
  <1> HIDE DEF new
  <1>4. \A k \in Goals : f[k] = IF sub[k] = <<>> THEN 0 ELSE 1 + Max(Below(f, sub[k]))
    BY <1>1 DEF HeightBody
  <1>5. \E m \in ToSet(new[g]) : z = 1 + f[m] /\ \A c \in ToSet(new[g]) : f[m] >= f[c]
    <2>1. CASE sub[g] = <<>>
      <3>1. ToSet(new[g]) = {child} /\ f[g] = 0
        <4>1. ToSet(sub[g]) = {}
          BY <2>1 DEF ToSet
        <4> HIDE DEF Below
        <4> QED BY <1>2, <1>4, <2>1, <4>1
      <3>2. f[child] \in Nat /\ z = 1 + f[child]
        BY <3>1
      <3> HIDE DEF z
      <3> QED BY <3>1, <3>2
    <2>2. CASE sub[g] # <<>>
      <3>1. PICK m \in ToSet(sub[g]) : \A c \in ToSet(sub[g]) : f[m] >= f[c]
        BY <1>1, <2>2
      <3>2. Below(f, sub[g]) \subseteq Int /\ f[m] \in Below(f, sub[g])
            /\ \A y \in Below(f, sub[g]) : f[m] >= y
        BY <1>3, <3>1
      <3>3. f[g] = 1 + f[m]
        <4> HIDE DEF Below
        <4> QED BY <1>4, <2>2, <3>2, MaxIs
      <3>4. m \in Goals /\ f[m] \in Nat /\ f[child] \in Nat /\ \A c \in ToSet(new[g]) : f[c] \in Nat
        BY <1>2, <1>3
      <3>5. CASE f[m] >= f[child]
        <4>1. z = 1 + f[m] /\ m \in ToSet(new[g])
          BY <1>2, <3>3, <3>4, <3>5
        <4>2. \A c \in ToSet(new[g]) : f[m] >= f[c]
          BY <1>2, <3>1, <3>5
        <4> HIDE DEF z
        <4> QED BY <4>1, <4>2
      <3>6. CASE ~(f[m] >= f[child])
        <4>1. z = 1 + f[child] /\ child \in ToSet(new[g])
          BY <1>2, <3>3, <3>4, <3>6
        <4>2. \A c \in ToSet(sub[g]) : f[child] >= f[c]
          <5>1. \A c \in ToSet(sub[g]) : f[c] \in Nat /\ f[m] >= f[c]
            BY <1>3, <3>1
          <5> HIDE DEF z, Below
          <5> QED BY <3>4, <3>6, <5>1
        <4>3. \A c \in ToSet(new[g]) : f[child] >= f[c]
          BY <1>2, <3>4, <4>2
        <4> HIDE DEF z
        <4> QED BY <4>1, <4>3
      <3> QED BY <3>5, <3>6
    <2> QED BY <2>1, <2>2
  <1>6. z = 1 + Max(Below(f, new[g])) /\ z \in Nat
    <2>1. PICK m \in ToSet(new[g]) : z = 1 + f[m] /\ \A c \in ToSet(new[g]) : f[m] >= f[c]
      BY <1>5
    <2>2. Below(f, new[g]) \subseteq Int /\ f[m] \in Below(f, new[g]) /\ f[m] \in Nat
          /\ \A y \in Below(f, new[g]) : f[m] >= y
      BY <1>2, <1>3, <2>1
    <2>3. Max(Below(f, new[g])) = f[m]
      <3> HIDE DEF Below
      <3> QED BY <2>2, MaxIs
    <2> QED BY <2>1, <2>2, <2>3
  <1>7. ASSUME NEW h, \A k \in Goals \ {g} : h[k] = f[k]
        PROVE  /\ \A k \in Goals \ {g} : Below(h, new[k]) = Below(f, sub[k])
               /\ Below(h, new[g]) = Below(f, new[g])
    <2>1. ASSUME NEW k \in Goals
          PROVE  Below(h, new[k]) = Below(f, new[k])
      <3>1. \A c \in ToSet(new[k]) : c \in Goals \ {g}
        BY <1>2, <1>3
      <3>2. \A c \in ToSet(new[k]) : h[c] = f[c]
        BY <1>7, <3>1
      <3> QED BY <3>2
    <2> HIDE DEF Below
    <2> QED BY <1>2, <2>1
  <1>8. ASSUME NEW h, h = HeightBody(h, new)
        PROVE  \A k \in Goals \ {g} : h[k] = f[k]
    <2> DEFINE low == IF sub[g] = <<>> THEN 0 ELSE 1 + Max(Below(h, sub[g]))
               d == [k \in Goals |-> IF k = g THEN low ELSE h[k]]
    <2>1. \A k \in Goals : h[k] = IF new[k] = <<>> THEN 0 ELSE 1 + Max(Below(h, new[k]))
      BY <1>8 DEF HeightBody
    <2>2. \A k \in Goals : Below(d, sub[k]) = Below(h, sub[k])
      <3>1. \A k \in Goals \ {g} : d[k] = h[k]
        OBVIOUS
      <3> HIDE DEF d
      <3> QED BY <1>3, <3>1
    <2>3. d[g] = low /\ \A k \in Goals \ {g} : d[k] = h[k]
      OBVIOUS
    <2>4. d = [k \in Goals |-> d[k]]
      OBVIOUS
    <2>5. \A k \in Goals : d[k] = IF sub[k] = <<>> THEN 0 ELSE 1 + Max(Below(d, sub[k]))
      <3> HIDE DEF d, Below
      <3> QED BY <1>2, <2>1, <2>2, <2>3
    <2>6. d = HeightBody(d, sub)
      <3> HIDE DEF d
      <3> QED BY <2>4, <2>5 DEF HeightBody
    <2> QED BY <1>1, <2>3, <2>6
  <1> DEFINE next == [f EXCEPT ![g] = z]
  <1>9. next \in [Goals -> Nat] /\ next[g] = z /\ \A k \in Goals \ {g} : next[k] = f[k]
    BY <1>6
  <1>10. ASSUME NEW h, h = HeightBody(h, new)
         PROVE  h = next
    <2>1. h = [k \in Goals |-> h[k]]
      BY <1>10 DEF HeightBody
    <2>2. \A k \in Goals : h[k] = IF new[k] = <<>> THEN 0 ELSE 1 + Max(Below(h, new[k]))
      BY <1>10 DEF HeightBody
    <2>3. \A k \in Goals \ {g} : h[k] = f[k]
      BY <1>8, <1>10
    <2>4. h[g] = z
      <3> HIDE DEF z, Below
      <3> QED BY <1>2, <1>6, <1>7, <2>2, <2>3
    <2>5. \A k \in Goals : h[k] = next[k]
      <3> HIDE DEF z, next
      <3> QED BY <1>9, <2>3, <2>4
    <2>6. next = [k \in Goals |-> next[k]]
      OBVIOUS
    <2> HIDE DEF next
    <2> QED BY <2>1, <2>5, <2>6
  <1>11. next = HeightBody(next, new)
    <2>1. /\ \A k \in Goals \ {g} : Below(next, new[k]) = Below(f, sub[k])
          /\ Below(next, new[g]) = Below(f, new[g])
      <3> HIDE DEF Below, next
      <3> QED BY <1>7, <1>9
    <2>2. \A k \in Goals : next[k] = IF new[k] = <<>> THEN 0 ELSE 1 + Max(Below(next, new[k]))
      <3> HIDE DEF Below, next, z
      <3> QED BY <1>2, <1>4, <1>6, <1>9, <2>1
    <2>3. next = [k \in Goals |-> next[k]]
      OBVIOUS
    <2> HIDE DEF next
    <2> QED BY <2>2, <2>3 DEF HeightBody
  <1>12. \A k \in Goals : new[k] # <<>> =>
           \E m \in ToSet(new[k]) : \A c \in ToSet(new[k]) : next[m] >= next[c]
    <2>1. \A k \in Goals : \A c \in ToSet(new[k]) : next[c] = f[c]
      <3> HIDE DEF next
      <3> QED BY <1>2, <1>3, <1>9
    <2>2. \E m \in ToSet(new[g]) : \A c \in ToSet(new[g]) : next[m] >= next[c]
      <3>1. PICK m \in ToSet(new[g]) : \A c \in ToSet(new[g]) : f[m] >= f[c]
        BY <1>5
      <3> HIDE DEF next
      <3> QED BY <2>1, <3>1
    <2>3. ASSUME NEW k \in Goals \ {g}, new[k] # <<>>
          PROVE  \E m \in ToSet(new[k]) : \A c \in ToSet(new[k]) : next[m] >= next[c]
      <3>1. new[k] = sub[k]
        BY <1>2
      <3>2. PICK m \in ToSet(new[k]) : \A c \in ToSet(new[k]) : f[m] >= f[c]
        BY <1>1, <2>3, <3>1
      <3> HIDE DEF next
      <3> QED BY <2>1, <3>2
    <2> HIDE DEF next
    <2> QED BY <2>2, <2>3
  <1> HIDE DEF next
  <1>13. OneHeight(new)
    BY <1>9, <1>10, <1>11, <1>12 DEF OneHeight
  <1>14. HeightOf(new) = next
    BY <1>10, <1>13, HeightIs
  <1> QED BY <1>1, <1>9, <1>13, <1>14 DEF new

-----------------------------------------------------------------------------
(* The trees themselves, as the sets of their goals: two of them are apart  *)
(* or one holds the other, and what holds a subgoal holds its parent.       *)

TreesOf(sub) == [k \in Goals |-> ToSet(OrderOf(sub)[k])]

TreesShaped(T, sub, own) ==
  /\ own \subseteq Goals /\ T \in [Goals -> SUBSET Goals]
  /\ \A g \in Goals :
       /\ g \in T[g] /\ IsFiniteSet(T[g]) /\ ToSet(sub[g]) \subseteq own
       /\ \A k \in T[g] : T[k] \subseteq T[g] /\ (k = g \/ k \in own)
       /\ \A h \in Goals : T[g] \cap T[h] # {} => g \in T[h] \/ h \in T[g]
       /\ \A c \in ToSet(sub[g]) :
            /\ c \in T[g] /\ g \notin T[c]
            /\ \A j \in Goals : c \in T[j] => j = c \/ g \in T[j]

\* The goals above k in the tree of g: LevelUnder counts them.
Above(T, g, k) == {j \in T[g] \ {k} : k \in T[j]}

Joins(T, g, child) == [T EXCEPT ![g] = @ \cup T[child]]

\* Moving a goal that nothing owns under another one keeps the trees shaped.
LEMMA TreesGrow ==
  ASSUME NEW sub \in [Goals -> Seq(Goals)], NEW own, NEW T, TreesShaped(T, sub, own),
         NEW g \in Goals, NEW child \in Goals, g # child, g \notin own, child \notin own,
         NEW new, Adopts(new, sub, g, child)
  PROVE  TreesShaped(Joins(T, g, child), new, own \cup {child})
  <1> DEFINE T2 == Joins(T, g, child)
  <1>1. /\ own \subseteq Goals /\ T \in [Goals -> SUBSET Goals]
        /\ \A k \in Goals : k \in T[k] /\ IsFiniteSet(T[k]) /\ ToSet(sub[k]) \subseteq own
        /\ \A k \in Goals : \A j \in T[k] : T[j] \subseteq T[k] /\ (j = k \/ j \in own)
        /\ \A k, h \in Goals : T[k] \cap T[h] # {} => k \in T[h] \/ h \in T[k]
        /\ \A k \in Goals : \A c \in ToSet(sub[k]) :
             c \in T[k] /\ k \notin T[c] /\ \A j \in Goals : c \in T[j] => j = c \/ k \in T[j]
    BY DEF TreesShaped
  <1>2. /\ T2 \in [Goals -> SUBSET Goals] /\ T2[g] = T[g] \cup T[child]
        /\ \A k \in Goals \ {g} : T2[k] = T[k]
    BY <1>1 DEF Joins
  <1> HIDE DEF T2
  <1>3. /\ \A k \in Goals : g \in T[k] => k = g
        /\ \A k \in Goals : child \in T[k] => k = child
    BY <1>1
  <1>4. T[g] \cap T[child] = {}
    BY <1>1, <1>3
  <1>5. /\ \A k \in Goals \ {g} : ToSet(new[k]) = ToSet(sub[k])
        /\ ToSet(new[g]) = ToSet(sub[g]) \cup {child}
    BY DEF Adopts
  <1>6. own \cup {child} \subseteq Goals
    BY <1>1
  <1>7. ASSUME NEW k \in Goals
        PROVE  k \in T2[k] /\ IsFiniteSet(T2[k]) /\ ToSet(new[k]) \subseteq own \cup {child}
    <2>1. CASE k = g
      <3>1. IsFiniteSet(T[g] \cup T[child])
        BY <1>1, FS_Union
      <3> QED BY <1>1, <1>2, <1>5, <2>1, <3>1
    <2>2. CASE k # g
      BY <1>1, <1>2, <1>5, <2>2
    <2> QED BY <2>1, <2>2
  <1>8. ASSUME NEW k \in Goals, NEW j \in T2[k]
        PROVE  T2[j] \subseteq T2[k] /\ (j = k \/ j \in own \cup {child})
    <2>1. CASE k = g
      BY <1>1, <1>2, <1>3, <2>1
    <2>2. CASE k # g
      BY <1>1, <1>2, <1>3, <2>2
    <2> QED BY <2>1, <2>2
  <1>9. ASSUME NEW k \in Goals, NEW h \in Goals, T2[k] \cap T2[h] # {}
        PROVE  k \in T2[h] \/ h \in T2[k]
    <2>1. CASE k # g /\ h # g
      BY <1>1, <1>2, <1>9, <2>1
    <2>2. ASSUME NEW j \in Goals \ {g}, T2[g] \cap T2[j] # {}
          PROVE  g \in T2[j] \/ j \in T2[g]
      <3>1. CASE T[g] \cap T[j] # {}
        BY <1>1, <1>2, <1>3, <3>1
      <3>2. CASE T[child] \cap T[j] # {}
        BY <1>1, <1>2, <1>3, <3>2
      <3> QED BY <1>2, <2>2, <3>1, <3>2
    <2>3. T2[g] \cap T2[g] # {} => g \in T2[g]
      BY <1>1, <1>2
    <2> QED BY <1>9, <2>1, <2>2, <2>3
  <1>10. ASSUME NEW k \in Goals, NEW c \in ToSet(new[k])
         PROVE  /\ c \in T2[k] /\ k \notin T2[c]
                /\ \A j \in Goals : c \in T2[j] => j = c \/ k \in T2[j]
    <2>1. CASE k = g /\ c = child
      BY <1>1, <1>2, <1>3, <2>1
    <2>2. CASE c \in ToSet(sub[k])
      <3>1. c \in T[k] /\ k \notin T[c] /\ c \in own /\ c \in Goals /\ c # g /\ c # child
        BY <1>1, <2>2
      <3>2. \A j \in Goals : c \in T[j] => j = c \/ k \in T[j]
        BY <1>1, <2>2
      <3>3. T2[c] = T[c] /\ \A j \in Goals : T[j] \subseteq T2[j]
        BY <1>2, <3>1
      <3>4. \A j \in Goals : c \in T2[j] => j = c \/ k \in T2[j]
        BY <1>2, <3>1, <3>2, <3>3
      <3> QED BY <3>1, <3>3, <3>4
    <2> QED BY <1>5, <2>1, <2>2
  <1> QED BY <1>2, <1>6, <1>7, <1>8, <1>9, <1>10 DEF TreesShaped, T2

\* The goals above a goal, after a child is moved under g: the goals of the
\* child's tree have g above them, and nothing else changes.
LEMMA AboveGrows ==
  ASSUME NEW sub, NEW own, NEW T, TreesShaped(T, sub, own),
         NEW g \in Goals, NEW child \in Goals, g # child, g \notin own, child \notin own
  PROVE  LET T2 == Joins(T, g, child) IN
         /\ \A h \in Goals \ {g} : \A k \in T[h] : Above(T2, h, k) = Above(T, h, k)
         /\ \A k \in T[g] : Above(T2, g, k) = Above(T, g, k)
         /\ \A k \in T[child] :
              Above(T2, g, k) = Above(T, child, k) \cup {g} /\ g \notin Above(T, child, k)
  <1> DEFINE T2 == Joins(T, g, child)
  <1>1. /\ own \subseteq Goals /\ T \in [Goals -> SUBSET Goals]
        /\ \A k \in Goals : k \in T[k]
        /\ \A k \in Goals : \A j \in T[k] : T[j] \subseteq T[k] /\ (j = k \/ j \in own)
        /\ \A k, h \in Goals : T[k] \cap T[h] # {} => k \in T[h] \/ h \in T[k]
    BY DEF TreesShaped
  <1>2. /\ T2[g] = T[g] \cup T[child] /\ \A k \in Goals \ {g} : T2[k] = T[k]
    BY <1>1 DEF Joins
  <1> HIDE DEF T2
  <1>3. \A k \in Goals : g \in T[k] => k = g
    BY <1>1
  <1>4. T[g] \cap T[child] = {}
    BY <1>1
  <1>5. ASSUME NEW h \in Goals \ {g}, NEW k \in T[h]
        PROVE  Above(T2, h, k) = Above(T, h, k)
    <2>1. T2[h] = T[h] /\ \A j \in T[h] : T2[j] = T[j]
      BY <1>1, <1>2, <1>3
    <2> QED BY <2>1 DEF Above
  <1>6. ASSUME NEW k \in T[g]
        PROVE  Above(T2, g, k) = Above(T, g, k)
    <2>1. \A j \in T[child] : T2[j] = T[j] /\ k \notin T2[j]
      BY <1>1, <1>2, <1>3, <1>4
    <2>2. \A j \in T[g] : k \in T2[j] <=> k \in T[j]
      BY <1>1, <1>2, <1>4
    <2> QED BY <1>2, <2>1, <2>2 DEF Above
  <1>7. ASSUME NEW k \in T[child]
        PROVE  Above(T2, g, k) = Above(T, child, k) \cup {g} /\ g \notin Above(T, child, k)
    <2>1. \A j \in T[child] : T2[j] = T[j] /\ j # g
      BY <1>1, <1>2, <1>3
    <2>2. \A j \in T[g] \ {g} : T2[j] = T[j] /\ k \notin T[j]
      BY <1>1, <1>2, <1>4
    <2>3. g \in T2[g] /\ k \in T2[g] /\ k # g /\ g \notin T[child]
      BY <1>1, <1>2, <1>3
    <2>4. Above(T2, g, k) = {j \in T2[g] \ {k} : k \in T2[j]}
      BY DEF Above
    <2>5. Above(T, child, k) = {j \in T[child] \ {k} : k \in T[j]}
      BY DEF Above
    <2> QED BY <1>2, <2>1, <2>2, <2>3, <2>4, <2>5
  <1> QED BY <1>5, <1>6, <1>7 DEF T2

\* A subgoal has its parent above it, and what its parent has above it.
LEMMA AboveSubgoal ==
  ASSUME NEW sub, NEW own, NEW T, TreesShaped(T, sub, own),
         NEW g \in Goals, NEW h \in T[g], NEW c \in ToSet(sub[h])
  PROVE  /\ c \in T[g]
         /\ Above(T, g, c) = Above(T, g, h) \cup {h} /\ h \notin Above(T, g, h)
  <1>1. /\ own \subseteq Goals /\ T \in [Goals -> SUBSET Goals] /\ h \in Goals
        /\ \A k \in Goals : k \in T[k]
        /\ \A k \in Goals : \A j \in T[k] : T[j] \subseteq T[k]
        /\ c \in T[h] /\ h \notin T[c] /\ \A j \in Goals : c \in T[j] => j = c \/ h \in T[j]
    BY DEF TreesShaped
  <1>2. c \in T[g] /\ c # h
    BY <1>1
  <1>3. \A j \in T[g] : j # c /\ c \in T[j] <=> h \in T[j]
    BY <1>1
  <1> QED BY <1>1, <1>2, <1>3 DEF Above

\* The goals above a goal are finitely many.
LEMMA AboveFinite ==
  ASSUME NEW sub, NEW own, NEW T, TreesShaped(T, sub, own), NEW g \in Goals, NEW k
  PROVE  IsFiniteSet(Above(T, g, k)) /\ Cardinality(Above(T, g, k)) \in Nat
  <1>1. IsFiniteSet(T[g]) /\ Above(T, g, k) \subseteq T[g]
    BY DEF TreesShaped, Above
  <1> HIDE DEF Above
  <1> QED BY <1>1, FS_Subset, FS_CardinalityType

LEMMA ToSetConcat ==
  ASSUME NEW S, NEW a \in Seq(S), NEW b \in Seq(S)
  PROVE  ToSet(a \o b) = ToSet(a) \cup ToSet(b)
  <1>1. /\ a \o b \in Seq(S) /\ Len(a \o b) = Len(a) + Len(b)
        /\ Len(a) \in Nat /\ Len(b) \in Nat
        /\ DOMAIN a = 1 .. Len(a) /\ DOMAIN b = 1 .. Len(b)
        /\ \A i \in 1 .. Len(a) + Len(b) : (a \o b)[i] = IF i <= Len(a) THEN a[i] ELSE b[i - Len(a)]
    BY ConcatProperties, LenProperties
  <1>2. DOMAIN (a \o b) = 1 .. Len(a) + Len(b)
    BY <1>1, LenProperties
  <1>3. ASSUME NEW i \in DOMAIN (a \o b)
        PROVE  (a \o b)[i] \in ToSet(a) \cup ToSet(b)
    <2>1. i <= Len(a) => i \in DOMAIN a /\ (a \o b)[i] = a[i]
      BY <1>1, <1>2
    <2>2. ~(i <= Len(a)) => i - Len(a) \in DOMAIN b /\ (a \o b)[i] = b[i - Len(a)]
      BY <1>1, <1>2
    <2> QED BY <2>1, <2>2 DEF ToSet
  <1>4. ASSUME NEW i \in DOMAIN a
        PROVE  \E j \in DOMAIN (a \o b) : (a \o b)[j] = a[i]
    BY <1>1, <1>2
  <1>5. ASSUME NEW i \in DOMAIN b
        PROVE  \E j \in DOMAIN (a \o b) : (a \o b)[j] = b[i]
    <2>1. Len(a) + i \in DOMAIN (a \o b) /\ (a \o b)[Len(a) + i] = b[i]
      <3>1. Len(a) + i \in 1 .. Len(a) + Len(b) /\ ~(Len(a) + i <= Len(a)) /\ Len(a) + i - Len(a) = i
        BY <1>1
      <3> QED BY <1>1, <1>2, <3>1
    <2> QED BY <2>1
  <1> DEFINE ab == a \o b
  <1> HIDE DEF ab
  <1>6. /\ \A i \in DOMAIN ab : ab[i] \in ToSet(a) \cup ToSet(b)
        /\ \A i \in DOMAIN a : \E j \in DOMAIN ab : ab[j] = a[i]
        /\ \A i \in DOMAIN b : \E j \in DOMAIN ab : ab[j] = b[i]
    BY <1>3, <1>4, <1>5, Zenon DEF ab
  <1>7. ToSet(ab) \subseteq ToSet(a) \cup ToSet(b)
    BY <1>6, Zenon DEF ToSet
  <1>8. ToSet(a) \subseteq ToSet(ab) /\ ToSet(b) \subseteq ToSet(ab)
    BY <1>6, SMT DEF ToSet
  <1>9. ToSet(ab) = ToSet(a) \cup ToSet(b)
    BY <1>7, <1>8
  <1> QED BY <1>9 DEF ab

\* What a build of trees keeps: their goals and heights are given by the
\* equations of the recursive functions, every goal is within the height of a
\* tree and every height within the limit of its goal, which may be raised.
TreesBuilt(sub, own, limit) ==
  LET T == TreesOf(sub) IN
  /\ OneOrder(sub) /\ OneHeight(sub) /\ TreesShaped(T, sub, own)
  /\ \A g \in Goals : HeightOf(sub)[g] <= limit[g]
  /\ \A g \in Goals : \A k \in T[g] : Cardinality(Above(T, g, k)) <= HeightOf(sub)[g]

LEMMA BuildStarts ==
  ASSUME NEW sub, sub = [g \in Goals |-> <<>>], NEW limit \in [Goals -> Nat]
  PROVE  TreesBuilt(sub, {}, limit)
  <1> DEFINE T == TreesOf(sub)
  <1>1. OneOrder(sub) /\ \A g \in Goals : OrderOf(sub)[g] = <<g>>
    BY OrderStarts
  <1>2. OneHeight(sub) /\ \A g \in Goals : HeightOf(sub)[g] = 0
    BY HeightStarts
  <1>3. \A g \in Goals : ToSet(<<g>>) = {g}
    BY DEF ToSet
  <1>4. T = [g \in Goals |-> {g}]
    BY <1>1, <1>3 DEF TreesOf
  <1> HIDE DEF T
  <1>5. \A g \in Goals : IsFiniteSet({g})
    BY FS_Singleton
  <1>6. \A g \in Goals : sub[g] = <<>> /\ ToSet(sub[g]) = {}
    BY DEF ToSet
  <1>7. TreesShaped(T, sub, {})
    BY <1>4, <1>5, <1>6 DEF TreesShaped
  <1>8. \A g \in Goals : \A k \in T[g] : Above(T, g, k) = {}
    BY <1>4 DEF Above
  <1>9. \A g \in Goals : \A k \in T[g] : Cardinality(Above(T, g, k)) <= HeightOf(sub)[g]
    <2>1. Cardinality({}) = 0
      BY FS_EmptySet
    <2>2. ASSUME NEW g \in Goals, NEW k \in T[g]
          PROVE  Cardinality(Above(T, g, k)) = 0 /\ HeightOf(sub)[g] = 0
      BY <1>2, <1>8, <2>1
    <2>3. \A g \in Goals : \A k \in T[g] : Cardinality(Above(T, g, k)) = 0 /\ HeightOf(sub)[g] = 0
      BY <2>2
    <2> QED BY <2>3
  <1>10. \A g \in Goals : HeightOf(sub)[g] <= limit[g]
    BY <1>2
  <1> QED BY <1>1, <1>2, <1>7, <1>9, <1>10 DEF TreesBuilt, T

LEMMA BuildLimit ==
  ASSUME NEW sub, NEW own, NEW limit \in [Goals -> Nat], TreesBuilt(sub, own, limit),
         NEW more \in [Goals -> Nat], \A k \in Goals : limit[k] <= more[k]
  PROVE  TreesBuilt(sub, own, more)
  <1>1. HeightOf(sub) \in [Goals -> Nat]
    BY HeightIs DEF TreesBuilt
  <1>2. \A k \in Goals : HeightOf(sub)[k] <= limit[k]
    BY DEF TreesBuilt
  <1>3. \A k \in Goals : HeightOf(sub)[k] <= more[k]
    BY <1>1, <1>2
  <1> QED BY <1>3 DEF TreesBuilt

LEMMA TreesOfGrow ==
  ASSUME NEW sub \in [Goals -> Seq(Goals)], OneOrder(sub),
         NEW g \in Goals, NEW child \in Goals, g # child,
         \A k \in Goals : g \notin ToSet(sub[k])
  PROVE  TreesOf(PutUnder(sub, g, child)) = Joins(TreesOf(sub), g, child)
  <1> DEFINE new == OrderOf(PutUnder(sub, g, child))
             old == OrderOf(sub)
  <1>1. new = [old EXCEPT ![g] = @ \o old[child]]
    BY OrderGrows
  <1>2. old \in [Goals -> Seq(Goals)]
    BY OrderIs
  <1> HIDE DEF new, old
  <1>3. \A k \in Goals \ {g} : new[k] = old[k]
    BY <1>1, <1>2
  <1>4. new[g] = old[g] \o old[child]
    BY <1>1, <1>2
  <1>5. ToSet(old[g] \o old[child]) = ToSet(old[g]) \cup ToSet(old[child])
    BY <1>2, ToSetConcat
  <1>6. \A k \in Goals : [j \in Goals |-> ToSet(new[j])][k] = Joins([j \in Goals |-> ToSet(old[j])], g, child)[k]
    <2>1. Joins([j \in Goals |-> ToSet(old[j])], g, child)[g] = ToSet(old[g]) \cup ToSet(old[child])
      BY DEF Joins
    <2>2. \A k \in Goals \ {g} : Joins([j \in Goals |-> ToSet(old[j])], g, child)[k] = ToSet(old[k])
      BY DEF Joins
    <2> QED BY <1>3, <1>4, <1>5, <2>1, <2>2
  <1>7. Joins([j \in Goals |-> ToSet(old[j])], g, child)
          = [k \in Goals |-> Joins([j \in Goals |-> ToSet(old[j])], g, child)[k]]
    BY DEF Joins
  <1>8. [j \in Goals |-> ToSet(new[j])] = Joins([j \in Goals |-> ToSet(old[j])], g, child)
    BY <1>6, <1>7
  <1> QED BY <1>8 DEF TreesOf, new, old

LEMMA BuildUnder ==
  ASSUME NEW sub \in [Goals -> Seq(Goals)], NEW own, NEW limit \in [Goals -> Nat],
         TreesBuilt(sub, own, limit),
         NEW g \in Goals, NEW child \in Goals, g # child, g \notin own, child \notin own,
         HeightOf(sub)[child] < limit[g]
  PROVE  TreesBuilt(PutUnder(sub, g, child), own \cup {child}, limit)
  <1> DEFINE new == PutUnder(sub, g, child)
             T == TreesOf(sub)
             T2 == TreesOf(new)
             old == HeightOf(sub)
             high == HeightOf(new)
  <1>1. /\ OneOrder(sub) /\ OneHeight(sub) /\ TreesShaped(T, sub, own)
        /\ \A k \in Goals : old[k] <= limit[k]
        /\ \A h \in Goals : \A k \in T[h] : Cardinality(Above(T, h, k)) <= old[h]
    BY DEF TreesBuilt
  <1>2. \A k \in Goals : g \notin ToSet(sub[k])
    BY <1>1 DEF TreesShaped
  <1>3. OneOrder(new)
    BY <1>1, <1>2, OrderGrows
  <1>4. /\ OneHeight(new) /\ \A k \in Goals \ {g} : high[k] = old[k]
        /\ high[g] = IF old[g] >= 1 + old[child] THEN old[g] ELSE 1 + old[child]
    BY <1>1, <1>2, HeightGrows
  <1>5. T2 = Joins(T, g, child)
    BY <1>1, <1>2, TreesOfGrow
  <1>6. TreesShaped(T2, new, own \cup {child})
    <2>1. Adopts(new, sub, g, child)
      BY UnderIs
    <2>2. TreesShaped(Joins(T, g, child), new, own \cup {child})
      <3> HIDE DEF new, T
      <3> QED BY <1>1, <2>1, TreesGrow
    <2> QED BY <1>5, <2>2
  <1>7. old \in [Goals -> Nat]
    BY <1>1, HeightIs
  <1>8. /\ \A h \in Goals \ {g} : \A k \in T[h] : Above(T2, h, k) = Above(T, h, k)
        /\ \A k \in T[g] : Above(T2, g, k) = Above(T, g, k)
        /\ \A k \in T[child] :
             Above(T2, g, k) = Above(T, child, k) \cup {g} /\ g \notin Above(T, child, k)
    <2> HIDE DEF T, T2
    <2> QED BY <1>1, <1>5, AboveGrows
  <1>9. /\ T2[g] = T[g] \cup T[child] /\ \A k \in Goals \ {g} : T2[k] = T[k]
    <2>1. T \in [Goals -> SUBSET Goals]
      BY <1>1 DEF TreesShaped
    <2> HIDE DEF T, T2
    <2> QED BY <1>5, <2>1 DEF Joins
  <1>10. ASSUME NEW h, NEW k, h \in Goals
         PROVE  IsFiniteSet(Above(T, h, k)) /\ Cardinality(Above(T, h, k)) \in Nat
    <2> HIDE DEF T
    <2> QED BY <1>1, <1>10, AboveFinite
  <1>11. \A k \in Goals : high[k] <= limit[k]
    <2>1. old[child] \in Nat /\ limit[g] \in Nat /\ old[child] < limit[g]
      BY <1>7
    <2> HIDE DEF old, high
    <2>2. high[g] <= limit[g]
      BY <1>1, <1>4, <1>7, <2>1
    <2>3. \A k \in Goals \ {g} : high[k] <= limit[k]
      BY <1>1, <1>4
    <2> QED BY <2>2, <2>3
  <1> HIDE DEF new, T, T2, old, high
  <1>12. ASSUME NEW h \in Goals, NEW k \in T2[h]
         PROVE  Cardinality(Above(T2, h, k)) <= high[h]
    <2>1. CASE h # g
      BY <1>1, <1>4, <1>8, <1>9, <2>1
    <2>2. CASE h = g /\ k \in T[g]
      <3>1. Cardinality(Above(T2, g, k)) \in Nat /\ Cardinality(Above(T2, g, k)) <= old[g]
        BY <1>1, <1>8, <1>10, <2>2
      <3> QED BY <1>4, <1>7, <2>2, <3>1
    <2>3. CASE h = g /\ k \in T[child]
      <3>1. Cardinality(Above(T2, g, k)) = Cardinality(Above(T, child, k)) + 1
        <4>1. IsFiniteSet(Above(T, child, k)) /\ g \notin Above(T, child, k)
              /\ Above(T2, g, k) = Above(T, child, k) \cup {g}
          BY <1>8, <1>10, <2>3
        <4> QED BY <4>1, FS_AddElement
      <3>2. Cardinality(Above(T, child, k)) \in Nat /\ Cardinality(Above(T, child, k)) <= old[child]
        BY <1>1, <1>10, <2>3
      <3> QED BY <1>4, <1>7, <2>3, <3>1, <3>2
    <2> QED BY <1>9, <2>1, <2>2, <2>3
  <1> QED BY <1>3, <1>4, <1>6, <1>11, <1>12 DEF TreesBuilt, T2, high, new

-----------------------------------------------------------------------------
(* Building trees *)

\* Images of what a function gives for two lists, one after the other.
ListsJoin(f, a, b, S) ==
  /\ Images(f, a) \in Seq(S) /\ Images(f, b) \in Seq(S)
  /\ Images(f, a \o b) = Images(f, a) \o Images(f, b)

LEMMA ListsConcat ==
  ASSUME NEW D, NEW S, NEW f \in [D -> S], NEW a \in Seq(D), NEW b \in Seq(D)
  PROVE  ListsJoin(f, a, b, S)
  <1>1. /\ a \o b \in Seq(D) /\ Len(a \o b) = Len(a) + Len(b)
        /\ Len(a) \in Nat /\ Len(b) \in Nat
        /\ DOMAIN a = 1 .. Len(a) /\ DOMAIN b = 1 .. Len(b)
        /\ \A i \in 1 .. Len(a) + Len(b) : (a \o b)[i] = IF i <= Len(a) THEN a[i] ELSE b[i - Len(a)]
    BY ConcatProperties, LenProperties
  <1>2. DOMAIN (a \o b) = 1 .. Len(a) + Len(b)
    BY <1>1, LenProperties
  <1>3. \A i \in DOMAIN a : a[i] \in D
    BY <1>1, ElementOfSeq
  <1>4. \A i \in DOMAIN b : b[i] \in D
    BY <1>1, ElementOfSeq
  <1>5. /\ Images(f, a) \in Seq(S) /\ Len(Images(f, a)) = Len(a)
        /\ \A i \in 1 .. Len(a) : Images(f, a)[i] = f[a[i]]
    BY <1>1, <1>3 DEF Images
  <1>6. /\ Images(f, b) \in Seq(S) /\ Len(Images(f, b)) = Len(b)
        /\ \A i \in 1 .. Len(b) : Images(f, b)[i] = f[b[i]]
    BY <1>1, <1>4 DEF Images
  <1> DEFINE ab == a \o b
  <1>7. ab \in Seq(D) /\ DOMAIN ab = 1 .. Len(a) + Len(b) /\ \A i \in DOMAIN ab : ab[i] \in D
    BY <1>1, <1>2, ElementOfSeq
  <1> HIDE DEF ab
  <1>8. /\ Images(f, ab) \in Seq(S) /\ Len(Images(f, ab)) = Len(a) + Len(b)
        /\ \A i \in 1 .. Len(a) + Len(b) : Images(f, ab)[i] = f[ab[i]]
    BY <1>1, <1>7 DEF Images
  <1> DEFINE z == Images(f, a) \o Images(f, b)
  <1>9. /\ z \in Seq(S) /\ Len(z) = Len(a) + Len(b)
        /\ \A i \in 1 .. Len(a) + Len(b) :
             z[i] = IF i <= Len(a) THEN Images(f, a)[i] ELSE Images(f, b)[i - Len(a)]
    <2>1. \A x, y \in Seq(S) :
            /\ x \o y \in Seq(S) /\ Len(x \o y) = Len(x) + Len(y)
            /\ \A i \in 1 .. Len(x) + Len(y) : (x \o y)[i] = IF i <= Len(x) THEN x[i] ELSE y[i - Len(x)]
      BY ConcatProperties
    <2>2. PICK x \in Seq(S), y \in Seq(S) : x = Images(f, a) /\ y = Images(f, b)
      BY <1>5, <1>6
    <2>3. /\ x \o y \in Seq(S) /\ Len(x \o y) = Len(x) + Len(y)
          /\ \A i \in 1 .. Len(x) + Len(y) : (x \o y)[i] = IF i <= Len(x) THEN x[i] ELSE y[i - Len(x)]
      BY <2>1
    <2>4. z = x \o y /\ Len(x) = Len(a) /\ Len(y) = Len(b)
      BY <1>5, <1>6, <2>2
    <2> HIDE DEF z
    <2> QED BY <2>2, <2>3, <2>4
  <1> HIDE DEF z
  <1>10. ASSUME NEW i \in 1 .. Len(a) + Len(b)
         PROVE  Images(f, ab)[i] = z[i]
    <2>1. CASE i <= Len(a)
      BY <1>1, <1>5, <1>8, <1>9, <2>1 DEF ab
    <2>2. CASE ~(i <= Len(a))
      <3>1. i - Len(a) \in 1 .. Len(b)
        BY <1>1, <2>2
      <3>2. ab[i] = b[i - Len(a)] /\ z[i] = Images(f, b)[i - Len(a)]
        BY <1>1, <1>9, <2>2 DEF ab
      <3> QED BY <1>6, <1>8, <3>1, <3>2
    <2> QED BY <2>1, <2>2
  <1>11. Images(f, ab) = z
    <2>1. Len(Images(f, ab)) = Len(z) /\ \A i \in 1 .. Len(Images(f, ab)) : Images(f, ab)[i] = z[i]
      BY <1>8, <1>9, <1>10
    <2> QED BY <1>8, <1>9, <2>1, SeqEqual
  <1> QED BY <1>5, <1>6, <1>11 DEF ab, z, ListsJoin

LEMMA ListsOne ==
  ASSUME NEW f, NEW x
  PROVE  Images(f, <<x>>) = <<f[x]>>
  BY DEF Images

RustTreesBuilt == TreesBuilt(subgoals, owned, allowed)

\* What the properties say of trees, in terms of the solution.
LEMMA LevelIs ==
  ASSUME RustTreesBuilt
  PROVE  /\ \A g \in Goals : ToSet(PreOrder(g)) = TreesOf(subgoals)[g]
         /\ \A g \in Goals : \A k :
              LevelUnder(g, k) = Cardinality(Above(TreesOf(subgoals), g, k))
  <1> DEFINE T == TreesOf(subgoals)
  <1>1. \A g \in Goals : ToSet(PreOrder(g)) = T[g]
    BY PreOrderIs DEF TreesOf
  <1>2. T \in [Goals -> SUBSET Goals]
    BY DEF RustTreesBuilt, TreesBuilt, TreesShaped
  <1> HIDE DEF T
  <1>3. ASSUME NEW g \in Goals, NEW k
        PROVE  {j \in ToSet(PreOrder(g)) \ {k} : k \in ToSet(PreOrder(j))} = Above(T, g, k)
    <2>1. ToSet(PreOrder(g)) = T[g] /\ T[g] \subseteq Goals
      BY <1>1, <1>2
    <2>2. \A j \in T[g] : ToSet(PreOrder(j)) = T[j]
      BY <1>1, <2>1
    <2> QED BY <2>1, <2>2 DEF Above
  <1> QED BY <1>1, <1>3 DEF LevelUnder, T

\* A walk changes no tree.
LEMMA TreesKept ==
  ASSUME subgoals' = subgoals
  PROVE  /\ \A g : PreOrder(g)' = PreOrder(g)
         /\ \A g, k : LevelUnder(g, k)' = LevelUnder(g, k)
  <1>1. \A g : PreOrder(g)' = PreOrder(g)
    BY DEF PreOrder
  <1> QED BY <1>1 DEF LevelUnder

\* The calls that Visit puts before those that wait.
LEMMA WalkSteps ==
  ASSUME RustTreeTypeOK, walk # <<>>
  PROVE  /\ Head(walk) \in [goal : Goals, depth : Nat]
         /\ Tail(walk) \in Seq([goal : Goals, depth : Nat])
         /\ walk = <<Head(walk)>> \o Tail(walk)
         /\ Calls(Head(walk).goal, Head(walk).depth) \in Seq([goal : Goals, depth : Nat])
  <1>1. walk \in Seq([goal : Goals, depth : Nat]) /\ subgoals \in [Goals -> Seq(Goals)]
    BY DEF RustTreeTypeOK
  <1>2. Head(walk) \in [goal : Goals, depth : Nat] /\ Tail(walk) \in Seq([goal : Goals, depth : Nat])
    BY <1>1, HeadTailProperties
  <1>3. walk = <<Head(walk)>> \o Tail(walk)
    BY <1>1
  <1> DEFINE h == Head(walk).goal
             d == Head(walk).depth
  <1>4. h \in Goals /\ d \in Nat /\ d + 1 \in Nat
    BY <1>2
  <1>5. subgoals[h] \in Seq(Goals) /\ DOMAIN subgoals[h] = 1 .. Len(subgoals[h]) /\ Len(subgoals[h]) \in Nat
        /\ \A i \in DOMAIN subgoals[h] : subgoals[h][i] \in Goals
    BY <1>1, <1>4, LenProperties, ElementOfSeq
  <1> HIDE DEF h, d
  <1>6. Calls(h, d) \in Seq([goal : Goals, depth : Nat])
    BY <1>4, <1>5 DEF Calls
  <1> QED BY <1>2, <1>3, <1>6 DEF h, d

\* Nothing is recorded before a walk starts.
WalkStarts == root = {} => walk = <<>> /\ results = <<>> /\ violation = "none"

\* What with_subgoal remembers of the limits it looked at.
LEMMA AllowedGrows ==
  ASSUME RustTreeTypeOK, NEW g \in Goals, NEW child \in Goals, WithSubgoal(g, child)
  PROVE  /\ allowed' \in [Goals -> Nat]
         /\ \A k \in Goals : allowed[k] <= allowed'[k]
         /\ depthLimit[g] <= allowed'[g]
  <1>1. allowed[g] \in Nat /\ depthLimit[g] \in Nat /\ allowed \in [Goals -> Nat]
    BY GoalTreeRustAssumption DEF RustTreeTypeOK
  <1> DEFINE m == Max({allowed[g], depthLimit[g]})
  <1>2. m \in Nat /\ allowed[g] <= m /\ depthLimit[g] <= m
    <2>1. \E x \in {allowed[g], depthLimit[g]} : \A y \in {allowed[g], depthLimit[g]} : x >= y
      BY <1>1
    <2>2. m \in {allowed[g], depthLimit[g]} /\ \A y \in {allowed[g], depthLimit[g]} : m >= y
      BY <2>1 DEF Max
    <2> HIDE DEF m
    <2> QED BY <1>1, <2>2
  <1>3. allowed' = [allowed EXCEPT ![g] = m]
    BY DEF WithSubgoal
  <1> HIDE DEF m
  <1> QED BY <1>1, <1>2, <1>3

LEMMA RustTreeTypeStep ==
  ASSUME RustTreeTypeOK, WalkStarts, [RustTreeNext]_rustTreeVars
  PROVE  RustTreeTypeOK' /\ WalkStarts'
  <1>1. ASSUME NEW g \in Goals, NEW limit \in Limits, WithDepthLimit(g, limit)
        PROVE  RustTreeTypeOK' /\ WalkStarts'
    BY <1>1 DEF RustTreeTypeOK, WalkStarts, WithDepthLimit, walkVars
  <1>2. ASSUME NEW g \in Goals, NEW child \in Goals, WithSubgoal(g, child)
        PROVE  RustTreeTypeOK' /\ WalkStarts'
    <2>1. subgoals' \in [Goals -> Seq(Goals)]
      <3>1. \A s \in Seq(Goals) : Append(s, child) \in Seq(Goals)
        BY AppendProperties
      <3> QED BY <1>2, <3>1 DEF RustTreeTypeOK, WithSubgoal
    <2>2. allowed' \in [Goals -> Nat]
      BY <1>2, AllowedGrows
    <2> QED BY <1>2, <2>1, <2>2 DEF RustTreeTypeOK, WalkStarts, WithSubgoal, walkVars
  <1>3. ASSUME NEW g \in Goals, VerifyTree(g)
        PROVE  RustTreeTypeOK' /\ WalkStarts'
    <2>1. walk' \in Seq([goal : Goals, depth : Nat])
      BY <1>3 DEF VerifyTree
    <2>2. root' = {g} /\ g \notin owned /\ violation' = "none"
      BY <1>3 DEF VerifyTree, WalkStarts
    <2>3. UNCHANGED <<depthLimit, subgoals, owned, allowed, results, violation>>
      BY <1>3 DEF VerifyTree, buildVars
    <2> QED BY <2>1, <2>2, <2>3 DEF RustTreeTypeOK, WalkStarts
  <1>4. ASSUME TooDeep
        PROVE  RustTreeTypeOK' /\ WalkStarts'
    <2>1. root # {}
      BY <1>4 DEF TooDeep, WalkStarts
    <2> QED BY <1>4, <2>1 DEF RustTreeTypeOK, WalkStarts, TooDeep, buildVars
  <1>5. ASSUME NEW permitted \in BOOLEAN, Visit(permitted)
        PROVE  RustTreeTypeOK' /\ WalkStarts'
    <2>1. walk # <<>> /\ root # {} /\ violation = "none"
      BY <1>5 DEF Visit, WalkStarts
    <2>2. /\ Head(walk) \in [goal : Goals, depth : Nat]
          /\ Tail(walk) \in Seq([goal : Goals, depth : Nat])
          /\ Calls(Head(walk).goal, Head(walk).depth) \in Seq([goal : Goals, depth : Nat])
      BY <2>1, WalkSteps
    <2>3. Calls(Head(walk).goal, Head(walk).depth) \o Tail(walk) \in Seq([goal : Goals, depth : Nat])
      BY <2>2, ConcatProperties
    <2>4. walk' \in Seq([goal : Goals, depth : Nat]) /\ (violation' # "none" => walk' = <<>>)
          /\ violation' \in {"none", "kernel"}
      <3> DEFINE next == Calls(Head(walk).goal, Head(walk).depth) \o Tail(walk)
      <3>1. walk' = IF permitted THEN next ELSE <<>>
        BY <1>5 DEF Visit
      <3>2. violation' = IF permitted THEN "none" ELSE "kernel"
        BY <1>5 DEF Visit
      <3>3. next \in Seq([goal : Goals, depth : Nat])
        BY <2>3
      <3> HIDE DEF next
      <3> QED BY <3>1, <3>2, <3>3
    <2>5. results' \in Seq([goal : Goals, permitted : BOOLEAN])
      <3>1. [goal |-> Head(walk).goal, permitted |-> permitted] \in [goal : Goals, permitted : BOOLEAN]
        BY <2>2
      <3>2. results \in Seq([goal : Goals, permitted : BOOLEAN])
        BY DEF RustTreeTypeOK
      <3>3. results' = Append(results, [goal |-> Head(walk).goal, permitted |-> permitted])
        BY <1>5 DEF Visit
      <3> QED BY <3>1, <3>2, <3>3, AppendProperties
    <2>6. UNCHANGED <<depthLimit, subgoals, owned, allowed, root>>
      BY <1>5 DEF Visit, buildVars
    <2> QED BY <2>1, <2>4, <2>5, <2>6 DEF RustTreeTypeOK, WalkStarts
  <1>6. CASE UNCHANGED rustTreeVars
    BY <1>6 DEF RustTreeTypeOK, WalkStarts, rustTreeVars, buildVars, walkVars
  <1> QED BY <1>1, <1>2, <1>3, <1>4, <1>5, <1>6 DEF RustTreeNext

LEMMA RustTreesStart ==
  ASSUME RustTreeInit
  PROVE  RustTreeTypeOK /\ WalkStarts /\ RustTreesBuilt
  <1>1. RustTreeTypeOK /\ WalkStarts
    BY GoalTreeRustAssumption DEF RustTreeInit, RustTreeTypeOK, WalkStarts
  <1>2. allowed \in [Goals -> Nat]
    BY DEF RustTreeInit
  <1>3. RustTreesBuilt
    BY <1>2, BuildStarts DEF RustTreeInit, RustTreesBuilt
  <1> QED BY <1>1, <1>3

LEMMA RustTreesStep ==
  ASSUME RustTreeTypeOK, RustTreesBuilt, [RustTreeNext]_rustTreeVars
  PROVE  RustTreesBuilt'
  <1>0. /\ depthLimit \in [Goals -> Nat] /\ allowed \in [Goals -> Nat]
        /\ subgoals \in [Goals -> Seq(Goals)]
    BY GoalTreeRustAssumption DEF RustTreeTypeOK
  <1>1. ASSUME NEW g \in Goals, NEW limit \in Limits, WithDepthLimit(g, limit)
        PROVE  RustTreesBuilt'
    BY <1>1 DEF WithDepthLimit, RustTreesBuilt
  <1>2. ASSUME NEW g \in Goals, NEW child \in Goals, WithSubgoal(g, child)
        PROVE  RustTreesBuilt'
    <2>1. /\ g # child /\ g \notin owned /\ child \notin owned
          /\ HeightOf(subgoals)[child] < depthLimit[g]
          /\ subgoals' = PutUnder(subgoals, g, child)
          /\ owned' = owned \cup {child}
      <3>1. MaxDepth(child) < depthLimit[g]
        BY <1>2 DEF WithSubgoal
      <3>2. HeightOf(subgoals)[child] < depthLimit[g]
        BY <3>1, MaxDepthIs
      <3> QED BY <1>2, <3>2 DEF WithSubgoal, PutUnder
    <2>2. /\ allowed' \in [Goals -> Nat]
          /\ \A k \in Goals : allowed[k] <= allowed'[k]
          /\ depthLimit[g] <= allowed'[g]
      BY <1>2, AllowedGrows
    <2>3. TreesBuilt(subgoals, owned, allowed')
      BY <1>0, <2>2, BuildLimit DEF RustTreesBuilt
    <2>4. HeightOf(subgoals)[child] < allowed'[g]
      <3>1. HeightOf(subgoals)[child] \in Nat
        BY <2>3, HeightIs DEF TreesBuilt
      <3>2. depthLimit[g] \in Nat /\ allowed'[g] \in Nat
        BY <1>0, <2>2
      <3> QED BY <2>1, <2>2, <3>1, <3>2
    <2>5. TreesBuilt(PutUnder(subgoals, g, child), owned \cup {child}, allowed')
      BY <1>0, <2>1, <2>2, <2>3, <2>4, BuildUnder
    <2> QED BY <2>1, <2>5 DEF RustTreesBuilt
  <1>3. CASE UNCHANGED buildVars
    BY <1>3 DEF RustTreesBuilt, buildVars
  <1>4. ASSUME NEW g \in Goals, VerifyTree(g)
        PROVE  UNCHANGED buildVars
    BY <1>4 DEF VerifyTree
  <1>5. TooDeep => UNCHANGED buildVars
    BY DEF TooDeep
  <1>6. ASSUME NEW permitted \in BOOLEAN, Visit(permitted)
        PROVE  UNCHANGED buildVars
    BY <1>6 DEF Visit
  <1> QED BY <1>1, <1>2, <1>3, <1>4, <1>5, <1>6 DEF RustTreeNext, rustTreeVars

\* Trees stay typed, and a walk starts with nothing recorded.
THEOREM RustTreesTyped == RustTreeSpec => []RustTreeTypeOK
  <1>1. RustTreeInit => RustTreeTypeOK /\ WalkStarts
    BY RustTreesStart
  <1>2. RustTreeTypeOK /\ WalkStarts /\ [RustTreeNext]_rustTreeVars
          => (RustTreeTypeOK /\ WalkStarts)'
    BY RustTreeTypeStep
  <1> QED BY <1>1, <1>2, PTL DEF RustTreeSpec

\* with_subgoal() compares the height of the child with the limit of its new
\* parent only, and that is enough: no goal of any tree lies deeper than a limit
\* under which the goal that the tree starts from was given a subgoal, in whatever
\* order trees are put together and limits are set.
THEOREM TreesWithinLimit == RustTreeSpec => []BuiltWithinLimit
  <1>1. RustTreeInit => RustTreeTypeOK /\ WalkStarts /\ RustTreesBuilt
    BY RustTreesStart
  <1>2. RustTreeTypeOK /\ WalkStarts /\ RustTreesBuilt /\ [RustTreeNext]_rustTreeVars
          => (RustTreeTypeOK /\ WalkStarts /\ RustTreesBuilt)'
    BY RustTreeTypeStep, RustTreesStep
  <1>3. RustTreeTypeOK /\ RustTreesBuilt => BuiltWithinLimit
    <2> SUFFICES ASSUME RustTreeTypeOK, RustTreesBuilt, NEW g \in Goals, NEW k \in ToSet(PreOrder(g))
                 PROVE  LevelUnder(g, k) <= allowed[g]
      BY DEF BuiltWithinLimit
    <2> DEFINE T == TreesOf(subgoals)
               n == Cardinality(Above(T, g, k))
    <2>1. k \in T[g] /\ LevelUnder(g, k) = n
      BY LevelIs
    <2>2. TreesShaped(T, subgoals, owned)
      BY DEF RustTreesBuilt, TreesBuilt
    <2>3. n \in Nat
      <3> HIDE DEF T
      <3> QED BY <2>2, AboveFinite
    <2>4. HeightOf(subgoals)[g] \in Nat
      BY HeightIs DEF RustTreesBuilt, TreesBuilt
    <2>5. n <= HeightOf(subgoals)[g] /\ HeightOf(subgoals)[g] <= allowed[g]
      BY <2>1 DEF RustTreesBuilt, TreesBuilt
    <2>6. allowed[g] \in Nat
      BY DEF RustTreeTypeOK
    <2> HIDE DEF n
    <2> QED BY <2>1, <2>3, <2>4, <2>5, <2>6
  <1> QED BY <1>1, <1>2, <1>3, PTL DEF RustTreeSpec

-----------------------------------------------------------------------------
(* Walking trees: what is visited is the start of the tree in pre-order, and *)
(* the calls left to make are the rest of it.                                *)

GoalsIn(s) == [k \in DOMAIN s |-> s[k].goal]

LEMMA GoalsInIs ==
  ASSUME NEW R, \A x \in R : x.goal \in Goals, NEW a \in Seq(R), NEW b \in Seq(R)
  PROVE  /\ GoalsIn(a) \in Seq(Goals) /\ GoalsIn(b) \in Seq(Goals)
         /\ GoalsIn(a \o b) = GoalsIn(a) \o GoalsIn(b)
  <1> DEFINE f == [x \in R |-> x.goal]
  <1>1. f \in [R -> Goals] /\ \A x \in R : f[x] = x.goal
    OBVIOUS
  <1> HIDE DEF f
  <1>2. ASSUME NEW s \in Seq(R)
        PROVE  Images(f, s) = GoalsIn(s)
    <2>1. \A k \in DOMAIN s : s[k] \in R
      BY LenProperties, ElementOfSeq
    <2> QED BY <1>1, <2>1 DEF Images, GoalsIn
  <1>3. a \o b \in Seq(R)
    BY ConcatProperties
  <1>4. /\ Images(f, a) \in Seq(Goals) /\ Images(f, b) \in Seq(Goals)
        /\ Images(f, a \o b) = Images(f, a) \o Images(f, b)
    <2>1. ListsJoin(f, a, b, Goals)
      BY <1>1, ListsConcat
    <2> QED BY <2>1 DEF ListsJoin
  <1> QED BY <1>2, <1>3, <1>4

LEMMA GoalsInOne ==
  ASSUME NEW x
  PROVE  GoalsIn(<<x>>) = <<x.goal>>
  BY DEF GoalsIn

LEMMA GoalsInAppend ==
  ASSUME NEW R, \A x \in R : x.goal \in Goals, NEW s \in Seq(R), NEW r \in R
  PROVE  GoalsIn(s) \in Seq(Goals) /\ GoalsIn(Append(s, r)) = Append(GoalsIn(s), r.goal)
  <1>1. <<r>> \in Seq(R) /\ Append(s, r) = s \o <<r>>
    BY AppendIsConcat
  <1>2. /\ GoalsIn(s) \in Seq(Goals)
        /\ GoalsIn(s \o <<r>>) = GoalsIn(s) \o GoalsIn(<<r>>)
    BY <1>1, GoalsInIs
  <1>3. GoalsIn(<<r>>) = <<r.goal>> /\ r.goal \in Goals
    BY GoalsInOne
  <1>4. Append(GoalsIn(s), r.goal) = GoalsIn(s) \o <<r.goal>>
    BY <1>2, <1>3, AppendIsConcat
  <1> QED BY <1>1, <1>2, <1>3, <1>4

FourJoin(v, u, p, q) == v \o ((u \o p) \o q) = (v \o u) \o (p \o q)

LEMMA ConcatFour ==
  ASSUME NEW S, NEW v \in Seq(S), NEW u \in Seq(S), NEW p \in Seq(S), NEW q \in Seq(S)
  PROVE  FourJoin(v, u, p, q)
  <1>0. \A a \in Seq(S), b \in Seq(S), c \in Seq(S) :
          (a \o b) \o c = a \o (b \o c)
    OBVIOUS
  <1>1. \A a \in Seq(S), b \in Seq(S) : a \o b \in Seq(S)
    OBVIOUS
  <1>2. PICK pq \in Seq(S) : pq = p \o q
    BY <1>1
  <1>3. (u \o p) \o q = u \o pq
    BY <1>0, <1>2
  <1>4. v \o (u \o pq) = (v \o u) \o pq
    BY <1>0
  <1> QED BY <1>2, <1>3, <1>4 DEF FourJoin

\* The rest of a tree in pre-order: its next goal, then what is below that goal.
LEMMA RestUnfolds ==
  ASSUME NEW sub \in [Goals -> Seq(Goals)], OneOrder(sub),
         NEW v \in Seq(Goals), NEW h \in Goals, NEW t \in Seq(Goals)
  PROVE  LET o == OrderOf(sub)
             rest == FlattenSeq(Images(o, sub[h] \o t))
         IN  /\ rest \in Seq(Goals)
             /\ v \o FlattenSeq(Images(o, <<h>> \o t)) = Append(v, h) \o rest
  <1>0. \A a \in Seq(Goals), b \in Seq(Goals) : a \o b \in Seq(Goals)
    OBVIOUS
  <1>1. PICK o \in [Goals -> Seq(Goals)] : o = OrderOf(sub) /\ o = OrderBody(o, sub)
    BY OrderIs
  <1>2. PICK s \in Seq(Goals) : s = sub[h]
    OBVIOUS
  <1>3. /\ Images(o, s) \in Seq(Seq(Goals)) /\ Images(o, t) \in Seq(Seq(Goals))
        /\ Images(o, s \o t) = Images(o, s) \o Images(o, t)
    <2>1. ListsJoin(o, s, t, Seq(Goals))
      BY ListsConcat
    <2> QED BY <2>1 DEF ListsJoin
  <1>4. PICK p \in Seq(Goals), q \in Seq(Goals) :
          p = FlattenSeq(Images(o, s)) /\ q = FlattenSeq(Images(o, t))
    <2>1. \A u \in Seq(Seq(Goals)), x \in Seq(Goals) : FlattenSeq(u) \in Seq(Goals)
      BY FlattenAppend
    <2>2. <<>> \in Seq(Goals)
      OBVIOUS
    <2> QED BY <1>3, <2>1, <2>2
  <1>5. FlattenSeq(Images(o, s \o t)) = p \o q
    BY <1>3, <1>4, FlattenConcat
  <1>6. PICK u \in Seq(Goals) : u = <<h>>
    <2>1. <<h>> \in Seq(Goals)
      BY SMT
    <2> QED BY <2>1
  <1>7. PICK w \in Seq(Goals) : w = o[h] /\ w = u \o p
    BY <1>1, <1>2, <1>4, <1>6 DEF OrderBody
  <1>8. FlattenSeq(Images(o, <<h>> \o t)) = w \o q
    <2>1. Images(o, u \o t) = Images(o, u) \o Images(o, t)
      <3>1. ListsJoin(o, u, t, Seq(Goals))
        BY ListsConcat
      <3> QED BY <3>1 DEF ListsJoin
    <2>2. Images(o, u) = <<w>>
      BY <1>6, <1>7, ListsOne
    <2>3. FlattenSeq(<<w>> \o Images(o, t)) = w \o FlattenSeq(Images(o, t))
      BY <1>3, FlattenFirst
    <2> QED BY <1>4, <1>6, <2>1, <2>2, <2>3
  <1>9. v \o (w \o q) = (v \o u) \o (p \o q)
    <2>1. FourJoin(v, u, p, q)
      BY ConcatFour
    <2>2. FourJoin(v, u, p, q) => v \o ((u \o p) \o q) = (v \o u) \o (p \o q)
      BY DEF FourJoin
    <2> QED BY <1>7, <2>1, <2>2
  <1>10. Append(v, h) = v \o u
    BY <1>6, AppendIsConcat
  <1>11. p \o q \in Seq(Goals)
    BY <1>0
  <1> QED BY <1>1, <1>2, <1>5, <1>8, <1>9, <1>10, <1>11

LEMMA PrefixOfConcat ==
  ASSUME NEW S, NEW s \in Seq(S), NEW t \in Seq(S)
  PROVE  IsPrefix(s, s \o t)
  <1>1. /\ s \o t \in Seq(S) /\ Len(s \o t) = Len(s) + Len(t)
        /\ Len(s) \in Nat /\ Len(t) \in Nat
        /\ \A i \in 1 .. Len(s) + Len(t) : (s \o t)[i] = IF i <= Len(s) THEN s[i] ELSE t[i - Len(s)]
    BY ConcatProperties, LenProperties
  <1> DEFINE st == s \o t
  <1>2. Len(s) <= Len(st) /\ \A i \in 1 .. Len(s) : st[i] = s[i]
    BY <1>1
  <1> HIDE DEF st
  <1>3. SubSeq(s, 1, Len(s)) = [i \in 1 .. Len(s) |-> s[i]]
    BY <1>1
  <1>4. SubSeq(st, 1, Len(s)) = [i \in 1 .. Len(s) |-> st[i]]
    BY <1>1
  <1>5. SubSeq(s, 1, Len(s)) = SubSeq(st, 1, Len(s))
    BY <1>2, <1>3, <1>4
  <1>6. IsPrefix(s, st)
    BY <1>2, <1>5 DEF IsPrefix
  <1> QED BY <1>6 DEF st

\* The next goal of a list that starts with v and h.
LEMMA NextOfPrefix ==
  ASSUME NEW S, NEW v \in Seq(S), NEW h \in S, NEW r \in Seq(S)
  PROVE  /\ IsPrefix(Append(v, h), Append(v, h) \o r) /\ IsPrefix(v, Append(v, h) \o r)
         /\ (Append(v, h) \o r)[Len(v) + 1] = h
  <1>0. \A a \in Seq(S), b \in Seq(S), c \in Seq(S) :
          (a \o b) \o c = a \o (b \o c) /\ a \o b \in Seq(S)
    OBVIOUS
  <1>1. PICK a \in Seq(S) : a = Append(v, h) /\ Len(a) = Len(v) + 1 /\ a[Len(v) + 1] = h
    BY AppendProperties
  <1>2. PICK u \in Seq(S) : u = <<h>>
    <2>1. <<h>> \in Seq(S)
      BY SMT
    <2> QED BY <2>1, Zenon
  <1>3. a = v \o u
    BY <1>1, <1>2, AppendIsConcat
  <1>4. a \o r = v \o (u \o r) /\ u \o r \in Seq(S)
    BY <1>0, <1>3
  <1>5. IsPrefix(v, v \o (u \o r))
    BY <1>4, PrefixOfConcat
  <1>6. IsPrefix(a, a \o r)
    BY PrefixOfConcat
  <1>7. (a \o r)[Len(v) + 1] = h
    <2>1. Len(v) \in Nat /\ Len(r) \in Nat
      BY LenProperties
    <2>2. \A i \in 1 .. Len(a) + Len(r) : (a \o r)[i] = IF i <= Len(a) THEN a[i] ELSE r[i - Len(a)]
      BY ConcatProperties
    <2>3. Len(v) + 1 \in 1 .. Len(a) + Len(r) /\ Len(v) + 1 <= Len(a)
      BY <1>1, <2>1
    <2> QED BY <1>1, <2>2, <2>3
  <1> QED BY <1>1, <1>4, <1>5, <1>6, <1>7

\* What the calls left to make are, while nothing is violated.
WalkFollows ==
  \A g \in root : violation = "none" =>
    /\ \A call \in ToSet(walk) :
         /\ call.goal \in TreesOf(subgoals)[g]
         /\ call.depth = Cardinality(Above(TreesOf(subgoals), g, call.goal))
    /\ OrderOf(subgoals)[g]
         = GoalsIn(results) \o FlattenSeq(Images(OrderOf(subgoals), GoalsIn(walk)))

\* The next call: of the goal that comes next in pre-order, at its level.
LEMMA NextCall ==
  ASSUME RustTreeTypeOK, RustTreesBuilt, WalkFollows, NEW g \in root,
         walk # <<>>, violation = "none",
         NEW h, h = Head(walk).goal, NEW t, t = GoalsIn(Tail(walk)),
         NEW v, v = GoalsIn(results), NEW o, o = OrderOf(subgoals)
  PROVE  /\ h \in Goals /\ t \in Seq(Goals) /\ v \in Seq(Goals) /\ Len(v) = Len(results)
         /\ FlattenSeq(Images(o, subgoals[h] \o t)) \in Seq(Goals)
         /\ o[g] = Append(v, h) \o FlattenSeq(Images(o, subgoals[h] \o t))
         /\ IsPrefix(v, o[g]) /\ IsPrefix(Append(v, h), o[g]) /\ o[g][Len(results) + 1] = h
         /\ h \in TreesOf(subgoals)[g]
         /\ Head(walk).depth = Cardinality(Above(TreesOf(subgoals), g, h))
  <1> DEFINE Call == [goal : Goals, depth : Nat]
             Result == [goal : Goals, permitted : BOOLEAN]
  <1>1. /\ Head(walk) \in Call /\ Tail(walk) \in Seq(Call)
        /\ walk = <<Head(walk)>> \o Tail(walk)
    BY WalkSteps
  <1>2. h \in Goals
    BY <1>1
  <1>3. <<Head(walk)>> \in Seq(Call)
    BY <1>1, SMT
  <1>4. t \in Seq(Goals) /\ GoalsIn(walk) = <<h>> \o t
    <2>1. \A x \in Call : x.goal \in Goals
      OBVIOUS
    <2> HIDE DEF Call
    <2>2. /\ GoalsIn(Tail(walk)) \in Seq(Goals)
          /\ GoalsIn(<<Head(walk)>> \o Tail(walk)) = GoalsIn(<<Head(walk)>>) \o GoalsIn(Tail(walk))
      BY <1>1, <1>3, <2>1, GoalsInIs
    <2>3. GoalsIn(<<Head(walk)>>) = <<h>>
      BY GoalsInOne
    <2> QED BY <1>1, <2>2, <2>3
  <1>5. v \in Seq(Goals) /\ Len(v) = Len(results)
    <2>1. results \in Seq(Result)
      BY DEF RustTreeTypeOK
    <2>2. DOMAIN results = 1 .. Len(results) /\ Len(results) \in Nat
      BY <2>1, LenProperties
    <2>3. \A k \in DOMAIN results : results[k] \in Result
      <3> HIDE DEF Result
      <3> QED BY <2>1, <2>2, ElementOfSeq
    <2>4. \A k \in DOMAIN results : results[k].goal \in Goals
      BY <2>3
    <2> QED BY <2>2, <2>4 DEF GoalsIn
  <1>6. /\ FlattenSeq(Images(o, subgoals[h] \o t)) \in Seq(Goals)
        /\ v \o FlattenSeq(Images(o, <<h>> \o t)) = Append(v, h) \o FlattenSeq(Images(o, subgoals[h] \o t))
    <2>1. subgoals \in [Goals -> Seq(Goals)] /\ OneOrder(subgoals)
      BY DEF RustTreeTypeOK, RustTreesBuilt, TreesBuilt
    <2> QED BY <1>2, <1>4, <1>5, <2>1, RestUnfolds
  <1>7. o[g] = v \o FlattenSeq(Images(o, GoalsIn(walk)))
    BY DEF WalkFollows
  <1>8. o[g] = Append(v, h) \o FlattenSeq(Images(o, subgoals[h] \o t))
    BY <1>4, <1>6, <1>7
  <1>9. IsPrefix(v, o[g]) /\ IsPrefix(Append(v, h), o[g]) /\ o[g][Len(results) + 1] = h
    <2> DEFINE r == FlattenSeq(Images(o, subgoals[h] \o t))
    <2>1. r \in Seq(Goals)
      BY <1>6
    <2> HIDE DEF r
    <2>2. /\ IsPrefix(Append(v, h), Append(v, h) \o r) /\ IsPrefix(v, Append(v, h) \o r)
          /\ (Append(v, h) \o r)[Len(v) + 1] = h
      BY <1>2, <1>5, <2>1, NextOfPrefix
    <2> QED BY <1>5, <1>8, <2>2 DEF r
  <1>10. Head(walk) \in ToSet(walk)
    <2>1. Head(walk) = walk[1] /\ 1 \in DOMAIN walk
      <3>1. walk \in Seq(Call)
        BY DEF RustTreeTypeOK
      <3> QED BY <3>1, EmptySeq, LenProperties
    <2> QED BY <2>1 DEF ToSet
  <1>11. h \in TreesOf(subgoals)[g] /\ Head(walk).depth = Cardinality(Above(TreesOf(subgoals), g, h))
    BY <1>10 DEF WalkFollows
  <1> QED BY <1>2, <1>4, <1>5, <1>6, <1>8, <1>9, <1>11

\* The calls for the subgoals of h are a level below it.
LEMMA CallsBelow ==
  ASSUME RustTreeTypeOK, RustTreesBuilt, NEW g \in root, NEW h \in TreesOf(subgoals)[g],
         NEW d, d = Cardinality(Above(TreesOf(subgoals), g, h)), NEW call \in ToSet(Calls(h, d))
  PROVE  /\ call.goal \in TreesOf(subgoals)[g]
         /\ call.depth = Cardinality(Above(TreesOf(subgoals), g, call.goal))
  <1> DEFINE T == TreesOf(subgoals)
  <1>1. TreesShaped(T, subgoals, owned) /\ g \in Goals
    BY DEF RustTreesBuilt, TreesBuilt, RustTreeTypeOK
  <1>2. PICK k \in DOMAIN subgoals[h] : call = [goal |-> subgoals[h][k], depth |-> d + 1]
    BY DEF Calls, ToSet
  <1>3. call.goal \in ToSet(subgoals[h]) /\ call.depth = d + 1
    BY <1>2 DEF ToSet
  <1> DEFINE c == call.goal
  <1> HIDE DEF T, c
  <1>4. /\ c \in T[g]
        /\ Above(T, g, c) = Above(T, g, h) \cup {h} /\ h \notin Above(T, g, h)
    <2>1. c \in ToSet(subgoals[h]) /\ h \in T[g]
      BY <1>3 DEF c, T
    <2> QED BY <1>1, <2>1, AboveSubgoal
  <1>5. IsFiniteSet(Above(T, g, h))
    BY <1>1, AboveFinite
  <1>6. Cardinality(Above(T, g, h) \cup {h}) = Cardinality(Above(T, g, h)) + 1
    BY <1>4, <1>5, FS_AddElement
  <1> QED BY <1>3, <1>4, <1>6 DEF c, T

LEMMA WalkBegins ==
  ASSUME RustTreeTypeOK, RustTreesBuilt, WalkStarts, NEW g \in Goals, VerifyTree(g)
  PROVE  WalkFollows' /\ WalkIsComplete' /\ WalkWithinLimit'
  <1> DEFINE T == TreesOf(subgoals)
             o == OrderOf(subgoals)
             call == [goal |-> g, depth |-> 0]
  <1>1. /\ root' = {g} /\ walk' = <<call>> /\ results' = <<>> /\ violation' = "none"
        /\ subgoals' = subgoals /\ depthLimit' = depthLimit /\ g \notin owned
    BY DEF VerifyTree, WalkStarts, buildVars
  <1>2. TreesShaped(T, subgoals, owned) /\ OneOrder(subgoals)
    BY DEF RustTreesBuilt, TreesBuilt
  <1>3. g \in T[g] /\ Above(T, g, g) = {}
    <2> HIDE DEF T
    <2>1. /\ T \in [Goals -> SUBSET Goals] /\ g \in T[g]
          /\ \A j \in Goals : \A k \in T[j] : k = j \/ k \in owned
      BY <1>2 DEF TreesShaped
    <2>2. \A j \in T[g] \ {g} : g \notin T[j]
      BY <1>1, <2>1
    <2> QED BY <2>1, <2>2 DEF Above
  <1>4. Cardinality(Above(T, g, g)) = 0
    BY <1>3, FS_EmptySet
  <1>5. ToSet(<<call>>) = {call} /\ GoalsIn(<<call>>) = <<g>> /\ GoalsIn(<<>>) = <<>>
    BY DEF ToSet, GoalsIn
  <1>6. o \in [Goals -> Seq(Goals)]
    BY <1>2, OrderIs
  <1>7. o[g] = <<>> \o FlattenSeq(Images(o, <<g>>))
    <2>1. PICK x \in Seq(Goals) : x = o[g]
      BY <1>6
    <2>2. Images(o, <<g>>) = <<x>>
      BY <2>1, ListsOne
    <2>3. FlattenSeq(<<x>>) = x
      <3>1. <<>> \in Seq(Seq(Goals)) /\ FlattenSeq(<<>>) = <<>>
        BY DEF FlattenSeq
      <3>2. FlattenSeq(<<x>> \o <<>>) = x \o FlattenSeq(<<>>)
        BY <3>1, FlattenFirst
      <3>3. <<x>> \o <<>> = <<x>> /\ x \o <<>> = x
        <4>1. <<x>> \in Seq(Seq(Goals))
          BY SMT
        <4> QED BY <4>1, ConcatEmptySeq
      <3> QED BY <3>1, <3>2, <3>3
    <2>4. <<>> \o x = x
      BY ConcatEmptySeq
    <2> QED BY <2>1, <2>2, <2>3, <2>4
  <1>8. WalkFollows'
    <2>1. call.goal = g /\ call.depth = 0
      OBVIOUS
    <2> HIDE DEF call, T, o
    <2>2. \A c \in ToSet(<<call>>) : c.goal \in T[g] /\ c.depth = Cardinality(Above(T, g, c.goal))
      BY <1>3, <1>4, <1>5, <2>1
    <2>3. o[g] = GoalsIn(<<>>) \o FlattenSeq(Images(o, GoalsIn(<<call>>)))
      BY <1>5, <1>7
    <2> QED BY <1>1, <2>2, <2>3 DEF WalkFollows, T, o
  <1>9. IsPrefix(<<>>, PreOrder(g))
    <2>1. PreOrder(g) \in Seq(Goals)
      BY <1>6, PreOrderIs
    <2>2. IsPrefix(<<>>, <<>> \o PreOrder(g))
      <3>1. <<>> \in Seq(Goals)
        OBVIOUS
      <3> QED BY <2>1, <3>1, PrefixOfConcat
    <2>3. <<>> \o PreOrder(g) = PreOrder(g)
      BY <2>1, ConcatEmptySeq
    <2> QED BY <2>2, <2>3
  <1>10. WalkIsComplete'
    <2>1. PreOrder(g)' = PreOrder(g)
      BY <1>1, TreesKept
    <2>2. [k \in DOMAIN <<>> |-> <<>>[k].goal] = <<>> /\ DOMAIN <<>> = {} /\ <<call>> # <<>>
      OBVIOUS
    <2> HIDE DEF call
    <2> QED BY <1>1, <1>9, <2>1, <2>2 DEF WalkIsComplete
  <1>11. WalkWithinLimit'
    <2>1. DOMAIN results' = {}
      BY <1>1
    <2> QED BY <1>1, <2>1 DEF WalkWithinLimit
  <1> QED BY <1>8, <1>10, <1>11

LEMMA WalkRefused ==
  ASSUME RustTreeTypeOK, RustTreesBuilt, WalkFollows, WalkIsComplete, WalkWithinLimit, TooDeep
  PROVE  WalkFollows' /\ WalkIsComplete' /\ WalkWithinLimit'
  <1>1. /\ walk # <<>> /\ violation = "none" /\ violation' = "depth"
        /\ Head(walk).depth >= depthLimit[Head(walk).goal]
        /\ subgoals' = subgoals /\ depthLimit' = depthLimit /\ root' = root /\ results' = results
    BY DEF TooDeep, buildVars
  <1>2. /\ \A g : PreOrder(g)' = PreOrder(g)
        /\ \A g, k : LevelUnder(g, k)' = LevelUnder(g, k)
    BY <1>1, TreesKept
  <1>3. WalkFollows'
    BY <1>1 DEF WalkFollows
  <1>4. WalkIsComplete'
    BY <1>1, <1>2 DEF WalkIsComplete
  <1>5. ASSUME NEW g \in root
        PROVE  LevelUnder(g, PreOrder(g)[Len(results) + 1]) >= depthLimit[PreOrder(g)[Len(results) + 1]]
    <2> DEFINE h == Head(walk).goal
               o == OrderOf(subgoals)
    <2>1. /\ o[g][Len(results) + 1] = h
          /\ Head(walk).depth = Cardinality(Above(TreesOf(subgoals), g, h))
      BY <1>1, NextCall
    <2>2. g \in Goals
      BY DEF RustTreeTypeOK
    <2>3. LevelUnder(g, h) = Head(walk).depth
      BY <2>1, <2>2, LevelIs
    <2>4. PreOrder(g)[Len(results) + 1] = h
      BY <2>1, PreOrderIs
    <2> QED BY <1>1, <2>3, <2>4
  <1>6. WalkWithinLimit'
    BY <1>1, <1>2, <1>5 DEF WalkWithinLimit
  <1> QED BY <1>3, <1>4, <1>6

LEMMA WalkVisits ==
  ASSUME RustTreeTypeOK, RustTreesBuilt, WalkFollows, WalkIsComplete, WalkWithinLimit,
         NEW permitted \in BOOLEAN, Visit(permitted)
  PROVE  WalkFollows' /\ WalkIsComplete' /\ WalkWithinLimit'
  <1> DEFINE Call == [goal : Goals, depth : Nat]
             Result == [goal : Goals, permitted : BOOLEAN]
             h == Head(walk).goal
             d == Head(walk).depth
             t == GoalsIn(Tail(walk))
             v == GoalsIn(results)
             o == OrderOf(subgoals)
             T == TreesOf(subgoals)
             r == [goal |-> h, permitted |-> permitted]
  <1>1. /\ walk # <<>> /\ violation = "none" /\ d < depthLimit[h]
        /\ results' = Append(results, r)
        /\ violation' = IF permitted THEN "none" ELSE "kernel"
        /\ walk' = IF permitted THEN Calls(h, d) \o Tail(walk) ELSE <<>>
        /\ subgoals' = subgoals /\ depthLimit' = depthLimit /\ root' = root
    BY DEF Visit, buildVars
  <1>2. /\ \A g : PreOrder(g)' = PreOrder(g)
        /\ \A g, k : LevelUnder(g, k)' = LevelUnder(g, k)
    BY <1>1, TreesKept
  <1>3. /\ Head(walk) \in Call /\ Tail(walk) \in Seq(Call) /\ Calls(h, d) \in Seq(Call)
        /\ walk = <<Head(walk)>> \o Tail(walk)
    BY <1>1, WalkSteps
  <1>4. h \in Goals /\ r \in Result /\ results \in Seq(Result)
    BY <1>3 DEF RustTreeTypeOK
  <1>5. ASSUME NEW g \in root
        PROVE  /\ h \in Goals /\ t \in Seq(Goals) /\ v \in Seq(Goals) /\ Len(v) = Len(results)
               /\ FlattenSeq(Images(o, subgoals[h] \o t)) \in Seq(Goals)
               /\ o[g] = Append(v, h) \o FlattenSeq(Images(o, subgoals[h] \o t))
               /\ IsPrefix(v, o[g]) /\ IsPrefix(Append(v, h), o[g]) /\ o[g][Len(results) + 1] = h
               /\ h \in T[g] /\ d = Cardinality(Above(T, g, h))
    BY <1>1, NextCall
  <1>6. GoalsIn(results') = Append(v, h)
    <2>1. \A x \in Result : x.goal \in Goals
      OBVIOUS
    <2>2. r.goal = h
      OBVIOUS
    <2> HIDE DEF Result, r, h
    <2>3. GoalsIn(Append(results, r)) = Append(GoalsIn(results), r.goal)
      BY <1>4, <2>1, GoalsInAppend
    <2> QED BY <1>1, <2>2, <2>3
  <1>7. DOMAIN results' = 1 .. Len(results) + 1 /\ DOMAIN results = 1 .. Len(results)
        /\ Len(results') = Len(results) + 1 /\ Len(results) \in Nat
        /\ (\A k \in DOMAIN results : results'[k] = results[k]) /\ results'[Len(results) + 1] = r
    <2> HIDE DEF r, Result
    <2>1. /\ Append(results, r) \in Seq(Result) /\ Len(Append(results, r)) = Len(results) + 1
          /\ \A k \in 1 .. Len(results) : Append(results, r)[k] = results[k]
          /\ Append(results, r)[Len(results) + 1] = r
      BY <1>4, AppendProperties
    <2>2. DOMAIN Append(results, r) = 1 .. Len(Append(results, r))
          /\ DOMAIN results = 1 .. Len(results) /\ Len(results) \in Nat
      BY <1>4, <2>1, LenProperties
    <2> QED BY <1>1, <2>1, <2>2
  <1>8. WalkFollows'
    <2> SUFFICES ASSUME NEW g \in root, permitted = TRUE
                 PROVE  /\ \A call \in ToSet(Calls(h, d) \o Tail(walk)) :
                             /\ call.goal \in T[g]
                             /\ call.depth = Cardinality(Above(T, g, call.goal))
                        /\ o[g] = Append(v, h)
                                    \o FlattenSeq(Images(o, GoalsIn(Calls(h, d) \o Tail(walk))))
      <3> HIDE DEF h, d, v, r, t
      <3> QED BY <1>1, <1>6 DEF WalkFollows
    <2>1. GoalsIn(Calls(h, d)) = subgoals[h]
      <3>1. subgoals[h] \in Seq(Goals)
        BY <1>4 DEF RustTreeTypeOK
      <3> HIDE DEF h, d
      <3>2. PICK s \in Seq(Goals) : s = subgoals[h]
        BY <3>1
      <3>3. Calls(h, d) = [k \in DOMAIN s |-> [goal |-> s[k], depth |-> d + 1]]
        BY <3>2 DEF Calls
      <3>4. GoalsIn([k \in DOMAIN s |-> [goal |-> s[k], depth |-> d + 1]]) = s
        <4>1. s = [k \in DOMAIN s |-> s[k]]
          BY LenProperties
        <4> QED BY <4>1 DEF GoalsIn
      <3> QED BY <3>2, <3>3, <3>4
    <2>2. GoalsIn(Calls(h, d) \o Tail(walk)) = subgoals[h] \o t
      <3>1. \A x \in Call : x.goal \in Goals
        OBVIOUS
      <3> HIDE DEF Call, h, d
      <3>2. GoalsIn(Calls(h, d) \o Tail(walk)) = GoalsIn(Calls(h, d)) \o GoalsIn(Tail(walk))
        BY <1>3, <3>1, GoalsInIs
      <3> QED BY <2>1, <3>2
    <2>3. ToSet(Calls(h, d) \o Tail(walk)) = ToSet(Calls(h, d)) \cup ToSet(Tail(walk))
      <3> HIDE DEF Call, h, d
      <3> QED BY <1>3, ToSetConcat
    <2>4. ToSet(Tail(walk)) \subseteq ToSet(walk)
      <3>1. <<Head(walk)>> \in Seq(Call)
        BY <1>3, SMT
      <3>2. ToSet(<<Head(walk)>> \o Tail(walk)) = ToSet(<<Head(walk)>>) \cup ToSet(Tail(walk))
        <4> HIDE DEF Call
        <4> QED BY <1>3, <3>1, ToSetConcat
      <3> QED BY <1>3, <3>2
    <2>5. \A call \in ToSet(walk) :
            call.goal \in T[g] /\ call.depth = Cardinality(Above(T, g, call.goal))
      BY <1>1 DEF WalkFollows
    <2>6. \A call \in ToSet(Calls(h, d)) :
            call.goal \in T[g] /\ call.depth = Cardinality(Above(T, g, call.goal))
      <3>1. h \in TreesOf(subgoals)[g] /\ d = Cardinality(Above(TreesOf(subgoals), g, h))
        BY <1>5
      <3> HIDE DEF h, d
      <3> QED BY <3>1, CallsBelow
    <2>7. \A call \in ToSet(Calls(h, d) \o Tail(walk)) :
            call.goal \in T[g] /\ call.depth = Cardinality(Above(T, g, call.goal))
      <3> HIDE DEF h, d, T
      <3> QED BY <2>3, <2>4, <2>5, <2>6
    <2>8. o[g] = Append(v, h) \o FlattenSeq(Images(o, GoalsIn(Calls(h, d) \o Tail(walk))))
      <3> HIDE DEF h, d, t, v, o
      <3> QED BY <1>5, <2>2
    <2> QED BY <2>7, <2>8
  <1>9. WalkIsComplete'
    <2> SUFFICES ASSUME NEW g \in root
                 PROVE  /\ IsPrefix(GoalsIn(results'), PreOrder(g))
                        /\ \A k \in DOMAIN results' :
                             results'[k].permitted <=> violation' # "kernel" \/ k # Len(results')
                        /\ walk' = <<>> /\ violation' = "none" => GoalsIn(results') = PreOrder(g)
      BY <1>1, <1>2, Zenon DEF WalkIsComplete, GoalsIn
    <2>1. PreOrder(g) = o[g]
      BY PreOrderIs
    <2>2. IsPrefix(GoalsIn(results'), PreOrder(g))
      BY <1>5, <1>6, <2>1
    <2>3. ASSUME NEW k \in DOMAIN results'
          PROVE  results'[k].permitted <=> violation' # "kernel" \/ k # Len(results')
      <3>1. CASE k = Len(results) + 1
        <4>1. results'[k].permitted = permitted /\ k = Len(results')
          BY <1>7, <3>1
        <4>2. violation' # "kernel" <=> permitted
          BY <1>1
        <4> QED BY <4>1, <4>2
      <3>2. CASE k # Len(results) + 1
        <4>1. k \in DOMAIN results /\ k # Len(results')
          BY <1>7, <2>3, <3>2
        <4>2. results[k].permitted
          BY <1>1, <4>1 DEF WalkIsComplete
        <4> QED BY <1>7, <4>1, <4>2
      <3> QED BY <3>1, <3>2
    <2>4. ASSUME walk' = <<>>, violation' = "none"
          PROVE  GoalsIn(results') = PreOrder(g)
      <3>1. permitted = TRUE /\ root' = root
        BY <1>1, <2>4
      <3>2. o[g] = GoalsIn(results') \o FlattenSeq(Images(o, GoalsIn(walk')))
        <4>1. OrderOf(subgoals') = o
          BY <1>1
        <4> HIDE DEF o
        <4> QED BY <1>1, <1>8, <2>4, <4>1, Zenon DEF WalkFollows
      <3>3. FlattenSeq(Images(o, GoalsIn(<<>>))) = <<>>
        BY DEF GoalsIn, Images, FlattenSeq
      <3>4. GoalsIn(results') \in Seq(Goals)
        BY <1>5, <1>6, AppendProperties
      <3>5. GoalsIn(results') \o <<>> = GoalsIn(results')
        BY <3>4, ConcatEmptySeq
      <3> QED BY <2>1, <2>4, <3>2, <3>3, <3>5
    <2> QED BY <2>2, <2>3, <2>4
  <1>10. WalkWithinLimit'
    <2> SUFFICES ASSUME NEW g \in root, NEW k \in DOMAIN results'
                 PROVE  LevelUnder(g, results'[k].goal) < depthLimit[results'[k].goal]
      BY <1>1, <1>2 DEF WalkWithinLimit
    <2>1. CASE k = Len(results) + 1
      <3>1. results'[k].goal = h
        BY <1>7, <2>1
      <3>2. g \in Goals
        BY DEF RustTreeTypeOK
      <3>3. LevelUnder(g, h) = d
        BY <1>5, <3>2, LevelIs
      <3> QED BY <1>1, <3>1, <3>3
    <2>2. CASE k # Len(results) + 1
      <3>1. k \in DOMAIN results
        BY <1>7, <2>2
      <3> QED BY <1>7, <3>1 DEF WalkWithinLimit
    <2> QED BY <2>1, <2>2
  <1> QED BY <1>8, <1>9, <1>10

\* Trees are built by goals that nothing owns, walked by calls that follow the
\* pre-order, and verified within the limits of their goals.
RustTreeInv ==
  /\ RustTreeTypeOK /\ WalkStarts /\ RustTreesBuilt
  /\ WalkFollows /\ WalkIsComplete /\ WalkWithinLimit

LEMMA RustTreeInvInit == RustTreeInit => RustTreeInv
  <1> SUFFICES ASSUME RustTreeInit
               PROVE  RustTreeInv
    OBVIOUS
  <1>1. RustTreeTypeOK /\ WalkStarts /\ RustTreesBuilt
    BY RustTreesStart
  <1>2. root = {}
    BY DEF RustTreeInit
  <1>3. WalkFollows /\ WalkIsComplete /\ WalkWithinLimit
    BY <1>2 DEF WalkFollows, WalkIsComplete, WalkWithinLimit
  <1> QED BY <1>1, <1>3 DEF RustTreeInv

LEMMA WalkRests ==
  ASSUME WalkFollows, WalkIsComplete, WalkWithinLimit, UNCHANGED rustTreeVars
  PROVE  WalkFollows' /\ WalkIsComplete' /\ WalkWithinLimit'
  <1>1. /\ subgoals' = subgoals /\ depthLimit' = depthLimit /\ root' = root
        /\ walk' = walk /\ results' = results /\ violation' = violation
    BY DEF rustTreeVars, buildVars, walkVars
  <1>2. /\ \A g : PreOrder(g)' = PreOrder(g)
        /\ \A g, k : LevelUnder(g, k)' = LevelUnder(g, k)
    BY <1>1, TreesKept
  <1>3. WalkFollows'
    BY <1>1 DEF WalkFollows
  <1>4. WalkIsComplete'
    BY <1>1, <1>2 DEF WalkIsComplete
  <1>5. WalkWithinLimit'
    BY <1>1, <1>2 DEF WalkWithinLimit
  <1> QED BY <1>3, <1>4, <1>5

LEMMA RustTreeInvStep == RustTreeInv /\ [RustTreeNext]_rustTreeVars => RustTreeInv'
  <1> SUFFICES ASSUME RustTreeInv, [RustTreeNext]_rustTreeVars
               PROVE  RustTreeInv'
    OBVIOUS
  <1> USE DEF RustTreeInv
  <1>1. RustTreeTypeOK' /\ WalkStarts' /\ RustTreesBuilt'
    BY RustTreeTypeStep, RustTreesStep
  <1>2. ASSUME root' = {}
        PROVE  WalkFollows' /\ WalkIsComplete' /\ WalkWithinLimit'
    BY <1>2 DEF WalkFollows, WalkIsComplete, WalkWithinLimit
  <1>3. ASSUME NEW g \in Goals, NEW limit \in Limits, WithDepthLimit(g, limit)
        PROVE  WalkFollows' /\ WalkIsComplete' /\ WalkWithinLimit'
    BY <1>2, <1>3 DEF WithDepthLimit, walkVars
  <1>4. ASSUME NEW g \in Goals, NEW child \in Goals, WithSubgoal(g, child)
        PROVE  WalkFollows' /\ WalkIsComplete' /\ WalkWithinLimit'
    BY <1>2, <1>4 DEF WithSubgoal, walkVars
  <1>5. ASSUME NEW g \in Goals, VerifyTree(g)
        PROVE  WalkFollows' /\ WalkIsComplete' /\ WalkWithinLimit'
    BY <1>5, WalkBegins
  <1>6. ASSUME TooDeep
        PROVE  WalkFollows' /\ WalkIsComplete' /\ WalkWithinLimit'
    BY <1>6, WalkRefused
  <1>7. ASSUME NEW permitted \in BOOLEAN, Visit(permitted)
        PROVE  WalkFollows' /\ WalkIsComplete' /\ WalkWithinLimit'
    BY <1>7, WalkVisits
  <1>8. ASSUME UNCHANGED rustTreeVars
        PROVE  WalkFollows' /\ WalkIsComplete' /\ WalkWithinLimit'
    BY <1>8, WalkRests
  <1> HIDE DEF RustTreeInv
  <1>9. WalkFollows' /\ WalkIsComplete' /\ WalkWithinLimit'
    BY <1>3, <1>4, <1>5, <1>6, <1>7, <1>8 DEF RustTreeNext
  <1> QED BY <1>1, <1>9 DEF RustTreeInv

\* verify_goal_tree() looks at every goal: node_results is the tree in pre-order
\* up to the first violation, every goal in it permitted but a violating one,
\* and a walk that ends without a violation has verified the whole tree.
THEOREM WalksAreComplete == RustTreeSpec => []WalkIsComplete
  <1>1. RustTreeInv => WalkIsComplete
    BY DEF RustTreeInv
  <1> QED BY <1>1, RustTreeInvInit, RustTreeInvStep, PTL DEF RustTreeSpec

LEMMA RefusedStep ==
  ASSUME RustTreeInv, RefusedAtLimitOnly, [RustTreeNext]_rustTreeVars
  PROVE  RefusedAtLimitOnly'
  <1>1. ASSUME root' = {} \/ violation' # "depth"
        PROVE  RefusedAtLimitOnly'
    BY <1>1 DEF RefusedAtLimitOnly
  <1>2. ASSUME NEW g \in Goals, NEW limit \in Limits, WithDepthLimit(g, limit)
        PROVE  root' = {}
    BY <1>2 DEF WithDepthLimit, walkVars
  <1>3. ASSUME NEW g \in Goals, NEW child \in Goals, WithSubgoal(g, child)
        PROVE  root' = {}
    BY <1>3 DEF WithSubgoal, walkVars
  <1>4. ASSUME NEW g \in Goals, VerifyTree(g)
        PROVE  violation' # "depth"
    BY <1>4 DEF VerifyTree, RustTreeInv, WalkStarts
  <1>5. ASSUME NEW permitted \in BOOLEAN, Visit(permitted)
        PROVE  violation' # "depth"
    BY <1>5 DEF Visit
  <1>6. ASSUME UNCHANGED rustTreeVars
        PROVE  RefusedAtLimitOnly'
    <2>1. /\ subgoals' = subgoals /\ depthLimit' = depthLimit /\ allowed' = allowed
          /\ root' = root /\ violation' = violation
      BY <1>6 DEF rustTreeVars, buildVars, walkVars
    <2>2. /\ \A g : PreOrder(g)' = PreOrder(g)
          /\ \A g : MaxDepth(g)' = MaxDepth(g)
      BY <2>1, TreesKept DEF MaxDepth
    <2> QED BY <2>1, <2>2 DEF RefusedAtLimitOnly
  <1>7. ASSUME TooDeep
        PROVE  RefusedAtLimitOnly'
    <2>1. /\ walk # <<>> /\ violation = "none"
          /\ Head(walk).depth >= depthLimit[Head(walk).goal]
          /\ subgoals' = subgoals /\ depthLimit' = depthLimit /\ allowed' = allowed
          /\ root' = root
      BY <1>7 DEF TooDeep, buildVars
    <2>2. /\ \A g : PreOrder(g)' = PreOrder(g)
          /\ \A g : MaxDepth(g)' = MaxDepth(g)
      BY <2>1, TreesKept DEF MaxDepth
    <2> SUFFICES ASSUME NEW g \in root,
                        \A k \in ToSet(PreOrder(g)) : depthLimit[k] = depthLimit[g],
                        allowed[g] <= depthLimit[g]
                 PROVE  MaxDepth(g) = depthLimit[g]
      BY <2>1, <2>2 DEF RefusedAtLimitOnly
    <2> DEFINE h == Head(walk).goal
               T == TreesOf(subgoals)
               high == HeightOf(subgoals)[g]
    <2>3. RustTreeTypeOK /\ RustTreesBuilt /\ WalkFollows /\ g \in Goals
      BY DEF RustTreeInv, RustTreeTypeOK
    <2>4. h \in T[g] /\ Head(walk).depth = Cardinality(Above(T, g, h))
      BY <2>1, <2>3, NextCall
    <2>5. depthLimit[h] = depthLimit[g]
      BY <2>3, <2>4, LevelIs
    <2>6. high \in Nat /\ high <= allowed[g] /\ Cardinality(Above(T, g, h)) <= high
      BY <2>3, <2>4, HeightIs DEF RustTreesBuilt, TreesBuilt
    <2>7. Cardinality(Above(T, g, h)) \in Nat /\ depthLimit[g] \in Nat /\ allowed[g] \in Nat
      <3>1. TreesShaped(T, subgoals, owned)
        BY <2>3 DEF RustTreesBuilt, TreesBuilt
      <3>2. depthLimit[g] \in Nat /\ allowed[g] \in Nat
        BY <2>3, GoalTreeRustAssumption DEF RustTreeTypeOK
      <3> HIDE DEF T
      <3> QED BY <2>3, <3>1, <3>2, AboveFinite
    <2>8. MaxDepth(g) = high
      BY MaxDepthIs
    <2> HIDE DEF high, h, T
    <2> QED BY <2>1, <2>4, <2>5, <2>6, <2>7, <2>8 DEF h
  <1> QED BY <1>1, <1>2, <1>3, <1>4, <1>5, <1>6, <1>7 DEF RustTreeNext

\* No goal is verified at a level that its depth_limit excludes, and a tree is
\* refused for its depth only at the goal that comes next and lies that deep.
\* Where the builder and the walk disagree: under one limit for the goals of a
\* tree, not lowered since the root was given its subgoals, the tree is refused
\* for its depth only if its height is that limit, which is the one height that
\* with_subgoal() accepts and dfs_verify() does not.
THEOREM DepthLimitsAreKept == RustTreeSpec => []DepthLimitKept
  <1>1. RustTreeInit => RefusedAtLimitOnly
    BY DEF RustTreeInit, RefusedAtLimitOnly
  <1>2. RustTreeInv /\ RefusedAtLimitOnly /\ [RustTreeNext]_rustTreeVars => RefusedAtLimitOnly'
    BY RefusedStep
  <1>3. RustTreeInv /\ RefusedAtLimitOnly => DepthLimitKept
    BY DEF RustTreeInv, DepthLimitKept
  <1> QED BY <1>1, <1>2, <1>3, RustTreeInvInit, RustTreeInvStep, PTL DEF RustTreeSpec
=============================================================================
