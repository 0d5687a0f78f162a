----------------------- MODULE OwnershipRegistryProofs -----------------------
(***************************************************************************)
(* Theorems about the ownership registry, for every set of agents,         *)
(* resources, confidences and lifetimes and every bound.                   *)
(***************************************************************************)
EXTENDS OwnershipRegistry, SequenceTheorems, FiniteSetTheorems, WellFoundedInduction, TLAPS

\* What the conflict-hook stack gives when a hook ends: its innermost
\* insertion, and a stack of insertions without it.
LEMMA StackPop ==
  ASSUME NEW S, NEW s \in Seq(S), s # <<>>
  PROVE  /\ Len(s) \in DOMAIN s
         /\ s[Len(s)] \in S
         /\ SubSeq(s, 1, Len(s) - 1) \in Seq(S)
         /\ DOMAIN SubSeq(s, 1, Len(s) - 1) = 1 .. Len(s) - 1
         /\ \A k \in 1 .. Len(s) - 1 : k \in DOMAIN s /\ SubSeq(s, 1, Len(s) - 1)[k] = s[k]
  <1>1. Len(s) \in Nat \ {0} /\ DOMAIN s = 1 .. Len(s)
    BY EmptySeq, LenProperties
  <1>2. \A i \in 1 .. Len(s) - 1 : s[i] \in S
    BY <1>1, ElementOfSeq
  <1>3. /\ SubSeq(s, 1, Len(s) - 1) \in Seq(S)
        /\ Len(SubSeq(s, 1, Len(s) - 1)) = IF 1 <= Len(s) - 1 THEN Len(s) - 1 - 1 + 1 ELSE 0
        /\ \A i \in 1 .. Len(s) - 1 - 1 + 1 : SubSeq(s, 1, Len(s) - 1)[i] = s[1 + i - 1]
    <2> DEFINE n == Len(s) - 1
    <2>1. 1 \in Int /\ n \in Int /\ \A i \in 1 .. n : s[i] \in S
      BY <1>1, <1>2
    <2> HIDE DEF n
    <2>2. /\ SubSeq(s, 1, n) \in Seq(S)
          /\ Len(SubSeq(s, 1, n)) = IF 1 <= n THEN n - 1 + 1 ELSE 0
          /\ \A i \in 1 .. n - 1 + 1 : SubSeq(s, 1, n)[i] = s[1 + i - 1]
      BY <2>1, SubSeqProperties
    <2> QED BY <2>2 DEF n
  <1>4. DOMAIN SubSeq(s, 1, Len(s) - 1) = 1 .. Len(s) - 1
    BY <1>1, <1>3, LenProperties
  <1>5. \A k \in 1 .. Len(s) - 1 : k \in DOMAIN s /\ SubSeq(s, 1, Len(s) - 1)[k] = s[k]
    BY <1>1, <1>3
  <1> QED BY <1>1, <1>3, <1>4, <1>5, ElementOfSeq

\* The claims that callers construct, for add_claim or delegate, are claims.
LEMMA NewClaimsAreClaims == NewClaims \subseteq Claim
  BY ConstantsAssumption DEF NewClaims, Claim

\* Storing a claim (the end of add_claim and of delegate) keeps claims typed.
LEMMA StoreTyped ==
  ASSUME claims \in Seq(Claim), asserted \subseteq DOMAIN claims,
         NEW c \in Claim, NEW b \in BOOLEAN, Store(c, b)
  PROVE  claims' \in Seq(Claim) /\ (asserted \subseteq DOMAIN claims)'
  <1>1. claims' = Append(claims, c) /\ claims' \in Seq(Claim)
    BY DEF Store
  <1>2. DOMAIN claims = 1 .. Len(claims) /\ DOMAIN claims' = 1 .. Len(claims) + 1
    BY <1>1
  <1>3. asserted' \subseteq asserted \cup {Len(claims) + 1}
    BY DEF Store
  <1>4. Len(claims) \in Nat
    OBVIOUS
  <1> QED BY <1>1, <1>2, <1>3, <1>4

\* The common end of add_claim and delegate keeps the registry well formed.
LEMMA InsertTyped ==
  ASSUME RegistryTypeOK, NEW c \in Claim, NEW b \in BOOLEAN, Insert(c, b)
  PROVE  RegistryTypeOK'
  <1> USE DEF RegistryTypeOK
  <1>1. UNCHANGED <<machineOwners, hookInstalled, snapshot, now>>
    BY DEF Insert
  <1>2. CASE DetectConflict(c) = {} /\ Store(c, b) /\ UNCHANGED <<conflicts, inserting>>
    <2>1. claims' \in Seq(Claim) /\ (asserted \subseteq DOMAIN claims)'
      BY <1>2, StoreTyped
    <2> QED BY <1>1, <1>2, <2>1 DEF Snapshot
  <1>3. ASSUME NEW i \in DetectConflict(c),
               conflicts' = Append(conflicts, ConflictOf(i, c)),
               \/ ~hookInstalled /\ Store(c, b) /\ UNCHANGED inserting
               \/ /\ hookInstalled
                  /\ inserting' = Append(inserting, [claim |-> c, isAsserted |-> b])
                  /\ UNCHANGED <<claims, asserted>>
        PROVE  RegistryTypeOK'
    <2>1. i \in DOMAIN claims
      BY <1>3 DEF DetectConflict
    <2>2. claims[i] \in Claim
      BY <2>1
    <2>3. ConflictOf(i, c) \in ConflictRecord
      BY <2>2 DEF ConflictOf, ConflictRecord, Claim
    <2>4. conflicts' \in Seq(ConflictRecord)
      BY <1>3, <2>3
    <2>5. claims' \in Seq(Claim) /\ (asserted \subseteq DOMAIN claims)'
      BY <1>3, StoreTyped
    <2>6. [claim |-> c, isAsserted |-> b] \in Insertion
      BY DEF Insertion
    <2>7. inserting' \in Seq(Insertion)
      <3>1. Append(inserting, [claim |-> c, isAsserted |-> b]) \in Seq(Insertion)
        BY <2>6, AppendProperties
      <3> QED BY <1>3, <3>1
    <2> QED BY <1>1, <2>4, <2>5, <2>7 DEF Snapshot
  <1> QED BY <1>2, <1>3 DEF Insert

\* Every operation of the registry keeps it well formed.
LEMMA TypedStep ==
  ASSUME RegistryTypeOK, [RegistryNext]_registryVars
  PROVE  RegistryTypeOK'
  <1>1. ASSUME NEW c \in NewClaims, AddClaim(c)
        PROVE  RegistryTypeOK'
    BY <1>1, NewClaimsAreClaims, InsertTyped DEF AddClaim
  <1>2. ASSUME NEW c \in NewClaims, NEW d \in Agents, Delegate(c, d)
        PROVE  RegistryTypeOK'
    <2>1. Insert(c, FALSE)
      BY <1>2 DEF Delegate
    <2> QED BY <2>1, NewClaimsAreClaims, InsertTyped
  <1>3. CASE HookReturns
    <2>1. Innermost \in Insertion /\ inserting' \in Seq(Insertion)
      BY <1>3, StackPop DEF HookReturns, PopInnermost, Innermost, RegistryTypeOK
    <2>2. Innermost.claim \in Claim /\ Innermost.isAsserted \in BOOLEAN
      BY <2>1 DEF Insertion
    <2>3. claims' \in Seq(Claim) /\ (asserted \subseteq DOMAIN claims)'
      BY <1>3, <2>2, StoreTyped DEF HookReturns, RegistryTypeOK
    <2> QED BY <1>3, <2>1, <2>3 DEF HookReturns, RegistryTypeOK, Snapshot
  <1>4. CASE HookRaises
    <2>1. inserting' \in Seq(Insertion)
      BY <1>4, StackPop DEF HookRaises, PopInnermost, RegistryTypeOK
    <2> QED BY <1>4, <2>1 DEF HookRaises, RegistryTypeOK, Snapshot
  <1>5. CASE SetConflictHook
    BY <1>5 DEF SetConflictHook, RegistryTypeOK, Snapshot
  <1>6. ASSUME NEW m \in Machines, NEW h \in Humans, RegisterMachine(m, h)
        PROVE  RegistryTypeOK'
    BY <1>6 DEF RegisterMachine, RegistryTypeOK, Snapshot
  <1>7. CASE Freeze
    BY <1>7 DEF Freeze, RegistryTypeOK, Snapshot
  <1>8. CASE Tick
    BY <1>8 DEF Tick, RegistryTypeOK, Snapshot
  <1>9. CASE UNCHANGED registryVars
    BY <1>9 DEF registryVars, RegistryTypeOK, Snapshot
  <1> QED BY <1>1, <1>2, <1>3, <1>4, <1>5, <1>6, <1>7, <1>8, <1>9 DEF RegistryNext

\* The empty registry is well formed.
LEMMA InitTyped == RegistryInit => RegistryTypeOK
  <1> SUFFICES ASSUME RegistryInit PROVE RegistryTypeOK
    OBVIOUS
  <1>1. claims \in Seq(Claim) /\ conflicts \in Seq(ConflictRecord) /\ inserting \in Seq(Insertion)
    BY EmptySeq DEF RegistryInit
  <1>2. machineOwners \in [Machines -> Humans \cup {NoOwner}]
    BY DEF RegistryInit
  <1> QED BY <1>1, <1>2 DEF RegistryInit, RegistryTypeOK

\* The registry holds well-formed claims, owners, conflicts and snapshots in
\* every state that its operations reach.
THEOREM RegistryTyped == RegistrySpec => []RegistryTypeOK
  <1>1. RegistryInit => RegistryTypeOK
    BY InitTyped
  <1>2. RegistryTypeOK /\ [RegistryNext]_registryVars => RegistryTypeOK'
    BY TypedStep
  <1> QED BY <1>1, <1>2, PTL DEF RegistrySpec

-----------------------------------------------------------------------------
(* No authority invention: the inductive invariant is the property itself,  *)
(* with the well-formedness that gives its comparisons their meaning.       *)

\* Confidences are numbers, so that attenuated ones can be compared.
LEMMA ConfidenceIsNumber == \A c \in Claim : c.confidence \in Int
  <1>1. \A c \in Claim : c.confidence \in Confidences
    BY DEF Claim
  <1>2. Confidences \subseteq Int
    BY ConstantsAssumption
  <1> QED BY <1>1, <1>2

\* Attenuation composes: what backs a backing claim backs the claim.
LEMMA BacksTransitive ==
  ASSUME NEW q \in Claim, NEW r \in Claim, NEW c \in Claim, Backs(q, r), Backs(r, c)
  PROVE  Backs(q, c)
  <1>1. c.confidence <= q.confidence
    <2>1. q.confidence \in Int /\ r.confidence \in Int /\ c.confidence \in Int
      BY ConfidenceIsNumber
    <2>2. c.confidence <= r.confidence /\ r.confidence <= q.confidence
      BY DEF Backs
    <2> QED BY <2>1, <2>2
  <1> QED BY <1>1 DEF Backs

\* Appending claims and adding roots leaves a rooted claim rooted.
LEMMA RootedStays ==
  ASSUME NEW cs \in Seq(Claim), NEW roots, roots \subseteq DOMAIN cs,
         NEW c \in Claim, NEW more, roots \subseteq more,
         NEW x, Rooted(cs, roots, x)
  PROVE  Rooted(Append(cs, c), more, x)
  <1>1. PICK k \in roots : Backs(cs[k], x)
    BY DEF Rooted
  <1>2. k \in 1 .. Len(cs)
    BY LenProperties
  <1>3. Append(cs, c)[k] = cs[k]
    BY <1>2, AppendProperties
  <1> QED BY <1>1, <1>3 DEF Rooted

\* Storing a claim that is asserted, or rooted, leaves every claim rooted.
LEMMA AppendRooted ==
  ASSUME NEW cs \in Seq(Claim), NEW roots, roots \subseteq DOMAIN cs,
         \A i \in DOMAIN cs : Rooted(cs, roots, cs[i]),
         NEW c \in Claim, NEW more, roots \subseteq more,
         Len(cs) + 1 \in more \/ Rooted(cs, roots, c)
  PROVE  \A i \in DOMAIN Append(cs, c) : Rooted(Append(cs, c), more, Append(cs, c)[i])
  <1> DEFINE next == Append(cs, c)
  <1>1. Len(cs) \in Nat /\ DOMAIN cs = 1 .. Len(cs)
    BY LenProperties
  <1>2. /\ next \in Seq(Claim)
        /\ Len(next) = Len(cs) + 1
        /\ \A i \in 1 .. Len(cs) : next[i] = cs[i]
        /\ next[Len(cs) + 1] = c
    BY AppendProperties
  <1>3. DOMAIN next = 1 .. Len(cs) + 1
    BY <1>2, LenProperties
  <1>4. Rooted(next, more, c)
    <2>1. CASE Len(cs) + 1 \in more
      <3>1. Backs(c, c)
        <4>1. c.confidence \in Int
          BY ConfidenceIsNumber
        <4> QED BY <4>1 DEF Backs
      <3> QED BY <1>2, <2>1, <3>1 DEF Rooted
    <2>2. CASE Rooted(cs, roots, c)
      BY <2>2, RootedStays
    <2> QED BY <2>1, <2>2
  <1>5. \A i \in 1 .. Len(cs) : Rooted(next, more, cs[i])
    BY <1>1, RootedStays
  <1> HIDE DEF next
  <1>6. ASSUME NEW i \in DOMAIN next
        PROVE  Rooted(next, more, next[i])
    <2>1. CASE i = Len(cs) + 1
      BY <1>2, <1>4, <2>1
    <2>2. CASE i \in 1 .. Len(cs)
      BY <1>2, <1>5, <2>2
    <2> QED BY <1>1, <1>3, <2>1, <2>2
  <1> QED BY <1>6 DEF next

RootedInv == RegistryTypeOK /\ AuthorityIsRooted

\* Storing a claim keeps the claims, and the insertions still waiting, rooted.
LEMMA StoreRooted ==
  ASSUME RootedInv, NEW c \in Claim, NEW b \in BOOLEAN, Store(c, b),
         ~b => Rooted(claims, asserted, c),
         \A k \in DOMAIN inserting' : k \in DOMAIN inserting /\ inserting'[k] = inserting[k]
  PROVE  AuthorityIsRooted'
  <1>1. claims \in Seq(Claim) /\ asserted \subseteq DOMAIN claims
    BY DEF RootedInv, RegistryTypeOK
  <1>2. claims' = Append(claims, c) /\ asserted \subseteq asserted'
    BY DEF Store
  <1>3. Len(claims) + 1 \in asserted' \/ Rooted(claims, asserted, c)
    BY DEF Store
  <1>4. \A i \in DOMAIN claims : Rooted(claims, asserted, claims[i])
    BY DEF RootedInv, AuthorityIsRooted
  <1>5. \A i \in DOMAIN claims' : Rooted(claims', asserted', claims'[i])
    BY <1>1, <1>2, <1>3, <1>4, AppendRooted
  <1>6. ASSUME NEW k \in DOMAIN inserting', ~inserting'[k].isAsserted
        PROVE  Rooted(claims', asserted', inserting'[k].claim)
    <2>1. Rooted(claims, asserted, inserting'[k].claim)
      BY <1>6 DEF RootedInv, AuthorityIsRooted
    <2> QED BY <1>1, <1>2, <2>1, RootedStays
  <1> QED BY <1>5, <1>6 DEF AuthorityIsRooted

\* The common end of add_claim and delegate: the claim is stored at once, or
\* waits for its conflict hook.
LEMMA InsertRooted ==
  ASSUME RootedInv, NEW c \in Claim, NEW b \in BOOLEAN, Insert(c, b),
         ~b => Rooted(claims, asserted, c)
  PROVE  AuthorityIsRooted'
  <1>1. CASE Store(c, b) /\ UNCHANGED inserting
    BY <1>1, StoreRooted
  <1>2. CASE /\ inserting' = Append(inserting, [claim |-> c, isAsserted |-> b])
             /\ UNCHANGED <<claims, asserted>>
    <2> DEFINE new == [claim |-> c, isAsserted |-> b]
    <2>1. new \in Insertion /\ inserting \in Seq(Insertion)
      BY DEF Insertion, RootedInv, RegistryTypeOK
    <2>2. new.claim = c /\ new.isAsserted = b /\ inserting' = Append(inserting, new)
      BY <1>2
    <2> HIDE DEF new
    <2>3. /\ DOMAIN inserting = 1 .. Len(inserting)
          /\ DOMAIN inserting' = 1 .. Len(inserting) + 1
          /\ Len(inserting) \in Nat
          /\ \A k \in 1 .. Len(inserting) : inserting'[k] = inserting[k]
          /\ inserting'[Len(inserting) + 1] = new
      <3>1. inserting' \in Seq(Insertion) /\ Len(inserting') = Len(inserting) + 1
        BY <2>1, <2>2, AppendProperties
      <3> QED BY <2>1, <2>2, <3>1, AppendProperties, LenProperties
    <2>4. ASSUME NEW k \in DOMAIN inserting', ~inserting'[k].isAsserted
          PROVE  Rooted(claims, asserted, inserting'[k].claim)
      <3>1. CASE k = Len(inserting) + 1
        BY <2>2, <2>3, <2>4, <3>1
      <3>2. CASE k \in DOMAIN inserting
        BY <2>3, <2>4, <3>2 DEF RootedInv, AuthorityIsRooted
      <3> QED BY <2>3, <3>1, <3>2
    <2>5. \A i \in DOMAIN claims : Rooted(claims, asserted, claims[i])
      BY DEF RootedInv, AuthorityIsRooted
    <2> QED BY <1>2, <2>4, <2>5 DEF AuthorityIsRooted
  <1> QED BY <1>1, <1>2 DEF Insert

\* A delegated claim is backed by the delegator's best claim, hence rooted.
LEMMA DelegateRooted ==
  ASSUME RootedInv, NEW c \in Claim, NEW d \in Agents, Delegate(c, d)
  PROVE  Insert(c, FALSE) /\ Rooted(claims, asserted, c)
  <1>1. PICK best \in Delegatable(d, c.resource) :
          /\ c.rights \subseteq claims[best].rights
          /\ c.confidence <= claims[best].confidence
          /\ Insert(c, FALSE)
    BY DEF Delegate
  <1>2. best \in DOMAIN claims /\ claims[best].resource = c.resource
    BY <1>1 DEF Delegatable, ClaimsFor
  <1>3. claims \in Seq(Claim) /\ asserted \subseteq DOMAIN claims
    BY DEF RootedInv, RegistryTypeOK
  <1>4. \A i \in DOMAIN claims : claims[i] \in Claim
    BY <1>3, LenProperties, ElementOfSeq
  <1>5. Backs(claims[best], c)
    BY <1>1, <1>2 DEF Backs
  <1>6. PICK k \in asserted : Backs(claims[k], claims[best])
    BY <1>2 DEF RootedInv, AuthorityIsRooted, Rooted
  <1>7. Backs(claims[k], c)
    BY <1>2, <1>3, <1>4, <1>5, <1>6, BacksTransitive
  <1> QED BY <1>1, <1>7 DEF Rooted

\* No authority invention: every claim of every reachable registry is backed,
\* in rights and in confidence, by a claim that add_claim asserted.
THEOREM NoAuthorityInvention == RegistrySpec => []AuthorityIsRooted
  <1>1. RegistryInit => AuthorityIsRooted
    <2> SUFFICES ASSUME RegistryInit PROVE AuthorityIsRooted
      OBVIOUS
    <2>1. DOMAIN claims = {} /\ DOMAIN inserting = {}
      BY DEF RegistryInit
    <2> QED BY <2>1 DEF AuthorityIsRooted
  <1>2. RootedInv /\ [RegistryNext]_registryVars => AuthorityIsRooted'
    <2> SUFFICES ASSUME RootedInv, [RegistryNext]_registryVars
                 PROVE  AuthorityIsRooted'
      OBVIOUS
    <2>0. inserting \in Seq(Insertion)
      BY DEF RootedInv, RegistryTypeOK
    <2>1. ASSUME NEW c \in NewClaims, AddClaim(c)
          PROVE  AuthorityIsRooted'
      BY <2>1, NewClaimsAreClaims, InsertRooted DEF AddClaim
    <2>2. ASSUME NEW c \in NewClaims, NEW d \in Agents, Delegate(c, d)
          PROVE  AuthorityIsRooted'
      BY <2>2, NewClaimsAreClaims, DelegateRooted, InsertRooted
    <2>3. CASE HookReturns
      <3>1. /\ Len(inserting) \in DOMAIN inserting
            /\ Innermost \in Insertion
            /\ \A k \in DOMAIN inserting' :
                 k \in DOMAIN inserting /\ inserting'[k] = inserting[k]
        BY <2>0, <2>3, StackPop DEF HookReturns, PopInnermost, Innermost
      <3>2. Innermost.claim \in Claim /\ Innermost.isAsserted \in BOOLEAN
        BY <3>1 DEF Insertion
      <3>3. ~Innermost.isAsserted => Rooted(claims, asserted, Innermost.claim)
        BY <3>1 DEF Innermost, RootedInv, AuthorityIsRooted
      <3> QED BY <2>3, <3>1, <3>2, <3>3, StoreRooted DEF HookReturns
    <2>4. CASE HookRaises
      <3>1. \A k \in DOMAIN inserting' :
              k \in DOMAIN inserting /\ inserting'[k] = inserting[k]
        BY <2>0, <2>4, StackPop DEF HookRaises, PopInnermost
      <3>2. claims' = claims /\ asserted' = asserted
        BY <2>4 DEF HookRaises
      <3> QED BY <3>1, <3>2 DEF RootedInv, AuthorityIsRooted
    <2>5. CASE UNCHANGED <<claims, asserted, inserting>>
      BY <2>5 DEF RootedInv, AuthorityIsRooted
    <2>6. ASSUME \/ SetConflictHook \/ Freeze \/ Tick \/ UNCHANGED registryVars
                 \/ \E m \in Machines, h \in Humans : RegisterMachine(m, h)
          PROVE  AuthorityIsRooted'
      BY <2>5, <2>6 DEF SetConflictHook, Freeze, Tick, RegisterMachine, registryVars
    <2> QED BY <2>1, <2>2, <2>3, <2>4, <2>6 DEF RegistryNext
  <1> QED BY <1>1, <1>2, RegistryTyped, PTL DEF RegistrySpec, RootedInv

-----------------------------------------------------------------------------
(* Live contests are recorded.  The record of a contest is made before its  *)
(* hook runs and validity is only ever lost, so the property is inductive.  *)

\* A set of numbers that is not empty has a least member: the conflict that
\* _detect_conflict stops at.
LEMMA LeastMember ==
  ASSUME NEW T, T \subseteq Nat, T # {}
  PROVE  \E x \in T : \A y \in T : x <= y
  <1> DEFINE segments == {0 .. x : x \in T}
  <1>1. segments \subseteq FiniteSubsetsOf(Nat)
    <2>1. \A x \in T : IsFiniteSet(0 .. x) /\ 0 .. x \subseteq Nat
      BY FS_Interval
    <2> QED BY <2>1 DEF FiniteSubsetsOf
  <1>2. segments # {}
    OBVIOUS
  <1>3. \E u \in segments : \A v \in segments : ~(<<v, u>> \in StrictSubsetOrdering(Nat))
    <2> HIDE DEF segments
    <2> QED BY <1>1, <1>2, FS_StrictSubsetOrderingWellFounded, WFMin
  <1>4. PICK x \in T : \A y \in T : ~(<<0 .. y, 0 .. x>> \in StrictSubsetOrdering(Nat))
    BY <1>3
  <1>5. ASSUME NEW y \in T, y < x
        PROVE  FALSE
    <2>1. 0 .. y \subseteq 0 .. x /\ x \in 0 .. x /\ x \notin 0 .. y
      BY <1>5
    <2>2. 0 .. y \in SUBSET Nat /\ 0 .. x \in SUBSET Nat
      OBVIOUS
    <2> QED BY <1>4, <1>5, <2>1, <2>2 DEF StrictSubsetOrdering
  <1> QED BY <1>5

\* _detect_conflict finds a contested claim whenever there is one.
LEMMA DetectsContest ==
  ASSUME claims \in Seq(Claim), NEW c, NEW i \in DOMAIN claims, Contests(i, c)
  PROVE  DetectConflict(c) # {}
  <1> DEFINE T == {k \in DOMAIN claims : Contests(k, c)}
  <1>1. DOMAIN claims = 1 .. Len(claims) /\ Len(claims) \in Nat
    BY LenProperties
  <1>2. T \subseteq Nat /\ T # {}
    BY <1>1
  <1>3. PICK x \in T : \A y \in T : x <= y
    BY <1>2, LeastMember
  <1>4. \A j \in 1 .. x - 1 : ~Contests(j, c)
    <2>1. ASSUME NEW j \in 1 .. x - 1, Contests(j, c)
          PROVE  FALSE
      <3>1. j \in DOMAIN claims /\ j < x
        BY <1>1, <1>3
      <3>2. x <= j
        BY <1>3, <2>1, <3>1
      <3> QED BY <1>1, <1>3, <3>1, <3>2
    <2> QED BY <2>1
  <1> QED BY <1>3, <1>4 DEF DetectConflict

\* Appending to the conflicts keeps what is on record, and adds the new record.
LEMMA RecordAppended ==
  ASSUME NEW cfs \in Seq(ConflictRecord), NEW f \in ConflictRecord
  PROVE  /\ \A r, h : Recorded(cfs, r, h) => Recorded(Append(cfs, f), r, h)
         /\ Recorded(Append(cfs, f), f.resource, f.claimantB)
  <1> DEFINE next == Append(cfs, f)
  <1>1. /\ DOMAIN cfs = 1 .. Len(cfs) /\ Len(cfs) \in Nat
        /\ DOMAIN next = 1 .. Len(cfs) + 1
        /\ \A n \in 1 .. Len(cfs) : next[n] = cfs[n]
        /\ next[Len(cfs) + 1] = f
    <2>1. next \in Seq(ConflictRecord) /\ Len(next) = Len(cfs) + 1
      BY AppendProperties
    <2> QED BY <2>1, AppendProperties, LenProperties
  <1> HIDE DEF next
  <1>2. \A r, h : Recorded(cfs, r, h) => Recorded(next, r, h)
    BY <1>1 DEF Recorded
  <1>3. Recorded(next, f.resource, f.claimantB)
    BY <1>1 DEF Recorded
  <1> QED BY <1>2, <1>3 DEF next

\* Storing a claim that is on record if it contests another.
LEMMA StoreRecorded ==
  ASSUME claims \in Seq(Claim), NEW c \in Claim, NEW b \in BOOLEAN, Store(c, b),
         now' = now, ContestsRecorded(claims, conflicts),
         \A r, h : Recorded(conflicts, r, h) => Recorded(conflicts', r, h),
         \/ \A i \in DOMAIN claims : ~Contests(i, c)
         \/ Recorded(conflicts', c.resource, c.holder)
  PROVE  ContestsRecorded(claims, conflicts)'
  <1>1. /\ DOMAIN claims = 1 .. Len(claims) /\ Len(claims) \in Nat
        /\ DOMAIN claims' = 1 .. Len(claims) + 1
        /\ \A i \in 1 .. Len(claims) : claims'[i] = claims[i]
        /\ claims'[Len(claims) + 1] = c
    <2>1. claims' = Append(claims, c)
      BY DEF Store
    <2>2. claims' \in Seq(Claim) /\ Len(claims') = Len(claims) + 1
      BY <2>1, AppendProperties
    <2> QED BY <2>1, <2>2, AppendProperties, LenProperties
  <1>2. ASSUME NEW i \in DOMAIN claims', NEW j \in DOMAIN claims', i < j,
               WriteContest(claims, i, j)'
        PROVE  Recorded(conflicts', claims'[j].resource, claims'[j].holder)
    <2>1. i \in 1 .. Len(claims) /\ claims'[i] = claims[i]
      BY <1>1, <1>2
    <2>2. CASE j \in 1 .. Len(claims)
      <3>1. claims'[j] = claims[j]
        BY <1>1, <2>2
      <3>2. WriteContest(claims, i, j)
        BY <1>2, <2>1, <3>1 DEF WriteContest, IsValid, IsExpired
      <3>3. Recorded(conflicts, claims[j].resource, claims[j].holder)
        BY <1>1, <1>2, <2>1, <2>2, <3>2 DEF ContestsRecorded
      <3> QED BY <3>1, <3>3
    <2>3. CASE j = Len(claims) + 1
      <3>1. claims'[j] = c
        BY <1>1, <2>3
      <3>2. Contests(i, c)
        BY <1>2, <2>1, <3>1 DEF WriteContest, Contests, IsValid, IsExpired
      <3> QED BY <1>1, <2>1, <3>1, <3>2
    <2> QED BY <1>1, <2>2, <2>3
  <1> QED BY <1>2 DEF ContestsRecorded, Recorded, WriteContest

ContestInv == RegistryTypeOK /\ LiveContestsRecorded

\* The end of add_claim and delegate: either nothing is contested, or the
\* contest is put on record, before the claim is stored and before the hook.
LEMMA InsertRecorded ==
  ASSUME ContestInv, NEW c \in Claim, NEW b \in BOOLEAN, Insert(c, b)
  PROVE  LiveContestsRecorded'
  <1>1. /\ claims \in Seq(Claim) /\ conflicts \in Seq(ConflictRecord)
        /\ inserting \in Seq(Insertion) /\ now' = now
    BY DEF ContestInv, RegistryTypeOK, Insert
  <1>2. /\ ContestsRecorded(claims, conflicts)
        /\ \A k \in DOMAIN inserting :
             Recorded(conflicts, inserting[k].claim.resource, inserting[k].claim.holder)
    BY DEF ContestInv, LiveContestsRecorded
  <1>3. CASE DetectConflict(c) = {} /\ Store(c, b) /\ UNCHANGED <<conflicts, inserting>>
    <2>1. \A i \in DOMAIN claims : ~Contests(i, c)
      BY <1>1, <1>3, DetectsContest
    <2>2. ContestsRecorded(claims, conflicts)'
      BY <1>1, <1>2, <1>3, <2>1, StoreRecorded
    <2> QED BY <1>2, <1>3, <2>2 DEF LiveContestsRecorded
  <1>4. ASSUME NEW i \in DetectConflict(c), conflicts' = Append(conflicts, ConflictOf(i, c)),
               \/ ~hookInstalled /\ Store(c, b) /\ UNCHANGED inserting
               \/ /\ hookInstalled
                  /\ inserting' = Append(inserting, [claim |-> c, isAsserted |-> b])
                  /\ UNCHANGED <<claims, asserted>>
        PROVE  LiveContestsRecorded'
    <2>1. claims[i] \in Claim
      BY <1>1 DEF DetectConflict
    <2>2. ConflictOf(i, c) \in ConflictRecord
      BY <2>1 DEF ConflictOf, ConflictRecord, Claim
    <2>3. ConflictOf(i, c).resource = c.resource /\ ConflictOf(i, c).claimantB = c.holder
      BY DEF ConflictOf
    <2>4. /\ \A r, h : Recorded(conflicts, r, h) => Recorded(conflicts', r, h)
          /\ Recorded(conflicts', c.resource, c.holder)
      BY <1>1, <1>4, <2>2, <2>3, RecordAppended
    <2>5. CASE Store(c, b) /\ UNCHANGED inserting
      <3>1. ContestsRecorded(claims, conflicts)'
        BY <1>1, <1>2, <2>4, <2>5, StoreRecorded
      <3> QED BY <1>2, <2>4, <2>5, <3>1 DEF LiveContestsRecorded
    <2>6. CASE /\ inserting' = Append(inserting, [claim |-> c, isAsserted |-> b])
               /\ UNCHANGED <<claims, asserted>>
      <3>1. ContestsRecorded(claims, conflicts)'
        BY <1>1, <1>2, <2>4, <2>6
           DEF ContestsRecorded, WriteContest, IsValid, IsExpired
      <3> DEFINE new == [claim |-> c, isAsserted |-> b]
      <3>2. new \in Insertion /\ new.claim = c /\ inserting' = Append(inserting, new)
        BY <2>6 DEF Insertion
      <3> HIDE DEF new
      <3>3. /\ DOMAIN inserting = 1 .. Len(inserting)
            /\ DOMAIN inserting' = 1 .. Len(inserting) + 1
            /\ Len(inserting) \in Nat
            /\ \A k \in 1 .. Len(inserting) : inserting'[k] = inserting[k]
            /\ inserting'[Len(inserting) + 1] = new
        <4>1. inserting' \in Seq(Insertion) /\ Len(inserting') = Len(inserting) + 1
          BY <1>1, <3>2, AppendProperties
        <4> QED BY <1>1, <3>2, <4>1, AppendProperties, LenProperties
      <3>4. ASSUME NEW k \in DOMAIN inserting'
            PROVE  Recorded(conflicts', inserting'[k].claim.resource, inserting'[k].claim.holder)
        <4>1. CASE k = Len(inserting) + 1
          BY <2>4, <3>2, <3>3, <4>1
        <4>2. CASE k \in DOMAIN inserting
          BY <1>2, <2>4, <3>3, <4>2
        <4> QED BY <3>3, <4>1, <4>2
      <3> QED BY <3>1, <3>4 DEF LiveContestsRecorded
    <2> QED BY <1>4, <2>5, <2>6
  <1> QED BY <1>3, <1>4 DEF Insert

\* Whenever two holders can both write a resource, the later one is on record.
THEOREM ContestsAreRecorded == RegistrySpec => []LiveContestsRecorded
  <1>1. RegistryInit => LiveContestsRecorded
    <2> SUFFICES ASSUME RegistryInit PROVE LiveContestsRecorded
      OBVIOUS
    <2>1. DOMAIN claims = {} /\ DOMAIN inserting = {}
      BY DEF RegistryInit
    <2> QED BY <2>1 DEF LiveContestsRecorded, ContestsRecorded
  <1>2. ContestInv /\ [RegistryNext]_registryVars => LiveContestsRecorded'
    <2> SUFFICES ASSUME ContestInv, [RegistryNext]_registryVars
                 PROVE  LiveContestsRecorded'
      OBVIOUS
    <2>0. /\ claims \in Seq(Claim) /\ inserting \in Seq(Insertion)
          /\ ContestsRecorded(claims, conflicts)
          /\ \A k \in DOMAIN inserting :
               Recorded(conflicts, inserting[k].claim.resource, inserting[k].claim.holder)
      BY DEF ContestInv, RegistryTypeOK, LiveContestsRecorded
    <2>1. ASSUME NEW c \in NewClaims, AddClaim(c)
          PROVE  LiveContestsRecorded'
      BY <2>1, NewClaimsAreClaims, InsertRecorded DEF AddClaim
    <2>2. ASSUME NEW c \in NewClaims, NEW d \in Agents, Delegate(c, d)
          PROVE  LiveContestsRecorded'
      BY <2>2, NewClaimsAreClaims, InsertRecorded DEF Delegate
    <2>3. CASE HookReturns
      <3>1. /\ Len(inserting) \in DOMAIN inserting
            /\ Innermost \in Insertion
            /\ \A k \in DOMAIN inserting' :
                 k \in DOMAIN inserting /\ inserting'[k] = inserting[k]
        BY <2>0, <2>3, StackPop DEF HookReturns, PopInnermost, Innermost
      <3>2. Innermost.claim \in Claim /\ Innermost.isAsserted \in BOOLEAN
        BY <3>1 DEF Insertion
      <3>3. Recorded(conflicts, Innermost.claim.resource, Innermost.claim.holder)
        BY <2>0, <3>1 DEF Innermost
      <3>4. Store(Innermost.claim, Innermost.isAsserted) /\ conflicts' = conflicts /\ now' = now
        BY <2>3 DEF HookReturns
      <3>5. ContestsRecorded(claims, conflicts)'
        BY <2>0, <3>2, <3>3, <3>4, StoreRecorded
      <3> QED BY <2>0, <3>1, <3>4, <3>5 DEF LiveContestsRecorded
    <2>4. CASE HookRaises
      <3>1. \A k \in DOMAIN inserting' :
              k \in DOMAIN inserting /\ inserting'[k] = inserting[k]
        BY <2>0, <2>4, StackPop DEF HookRaises, PopInnermost
      <3>2. claims' = claims /\ conflicts' = conflicts /\ now' = now
        BY <2>4 DEF HookRaises
      <3> QED BY <2>0, <3>1, <3>2
              DEF LiveContestsRecorded, ContestsRecorded, WriteContest, IsValid, IsExpired
    <2>5. CASE Tick
      <3>1. /\ UNCHANGED <<claims, conflicts, inserting>>
            /\ now \in Nat /\ now' = now + 1
        BY <2>5 DEF Tick, ContestInv, RegistryTypeOK
      <3>2. ASSUME NEW c \in Claim, IsValid(c)'
            PROVE  IsValid(c)
        <4>1. c.expiresAt \in Nat \cup {NoExpiry}
          <5>1. c.expiresAt \in Lifetimes
            BY DEF Claim
          <5> QED BY <5>1, ConstantsAssumption
        <4> QED BY <3>1, <3>2, <4>1 DEF IsValid, IsExpired
      <3>3. \A i \in DOMAIN claims : claims[i] \in Claim
        BY <2>0, LenProperties, ElementOfSeq
      <3>4. \A i, j \in DOMAIN claims :
              WriteContest(claims, i, j)' => WriteContest(claims, i, j)
        BY <3>1, <3>2, <3>3 DEF WriteContest, IsValid, IsExpired
      <3> QED BY <2>0, <3>1, <3>4 DEF LiveContestsRecorded, ContestsRecorded
    <2>6. ASSUME UNCHANGED <<claims, conflicts, inserting, now>>
          PROVE  LiveContestsRecorded'
      BY <2>0, <2>6 DEF LiveContestsRecorded, ContestsRecorded, WriteContest, IsValid, IsExpired
    <2>7. ASSUME \/ SetConflictHook \/ Freeze \/ UNCHANGED registryVars
                 \/ \E m \in Machines, h \in Humans : RegisterMachine(m, h)
          PROVE  LiveContestsRecorded'
      BY <2>6, <2>7 DEF SetConflictHook, Freeze, RegisterMachine, registryVars
    <2> QED BY <2>1, <2>2, <2>3, <2>4, <2>5, <2>7 DEF RegistryNext
  <1> QED BY <1>1, <1>2, RegistryTyped, PTL DEF RegistrySpec, ContestInv

-----------------------------------------------------------------------------
(* What every operation leaves in place: the lists only grow, time does not *)
(* go back, and a machine keeps an owner.  Whatever reads the registry in   *)
(* several steps, or keeps a copy of it, relies on this.                    *)

\* The list t continues the list s: what s holds has kept its place.
Continues(t, s) == \A i \in DOMAIN s : i \in DOMAIN t /\ t[i] = s[i]

\* Appending continues a list.
LEMMA AppendContinues ==
  ASSUME NEW S, NEW s \in Seq(S), NEW e \in S
  PROVE  Continues(Append(s, e), s)
  <1>1. Append(s, e) \in Seq(S) /\ Len(Append(s, e)) = Len(s) + 1
    BY AppendProperties
  <1>2. /\ DOMAIN s = 1 .. Len(s) /\ Len(s) \in Nat
        /\ DOMAIN Append(s, e) = 1 .. Len(s) + 1
    BY <1>1, LenProperties
  <1>3. \A i \in 1 .. Len(s) : Append(s, e)[i] = s[i]
    BY AppendProperties
  <1> QED BY <1>2, <1>3 DEF Continues

\* add_claim and delegate append, to the claims, to the conflicts or to both.
LEMMA InsertContinues ==
  ASSUME RegistryTypeOK, NEW c \in Claim, NEW b, Insert(c, b)
  PROVE  Continues(claims', claims) /\ Continues(conflicts', conflicts)
  <1>1. claims \in Seq(Claim) /\ conflicts \in Seq(ConflictRecord)
    BY DEF RegistryTypeOK
  <1>2. claims' = claims \/ claims' = Append(claims, c)
    BY DEF Insert, Store
  <1>3. Continues(claims', claims)
    BY <1>1, <1>2, AppendContinues DEF Continues
  <1>4. CASE conflicts' = conflicts
    BY <1>3, <1>4 DEF Continues
  <1>5. ASSUME NEW i \in DetectConflict(c), conflicts' = Append(conflicts, ConflictOf(i, c))
        PROVE  Continues(conflicts', conflicts)
    <2>1. claims[i] \in Claim
      BY <1>1 DEF DetectConflict
    <2>2. ConflictOf(i, c) \in ConflictRecord
      BY <2>1 DEF ConflictOf, ConflictRecord, Claim
    <2> QED BY <1>1, <1>5, <2>2, AppendContinues
  <1> QED BY <1>3, <1>4, <1>5 DEF Insert

\* No operation removes or replaces a claim or a conflict, turns the clock back or
\* takes the owner of a machine away.
LEMMA RegistryGrows ==
  ASSUME RegistryTypeOK, [RegistryNext]_registryVars
  PROVE  /\ Continues(claims', claims)
         /\ Continues(conflicts', conflicts)
         /\ \A m \in Machines : machineOwners[m] # NoOwner => machineOwners'[m] # NoOwner
         /\ now \in Nat /\ now' \in Nat /\ now <= now'
  <1> DEFINE Kept == /\ Continues(claims', claims)
                     /\ Continues(conflicts', conflicts)
                     /\ \A m \in Machines : machineOwners[m] # NoOwner => machineOwners'[m] # NoOwner
                     /\ now' \in Nat /\ now <= now'
  <1>1. /\ claims \in Seq(Claim) /\ now \in Nat /\ inserting \in Seq(Insertion)
        /\ machineOwners \in [Machines -> Humans \cup {NoOwner}]
    BY DEF RegistryTypeOK
  <1>2. ASSUME NEW c \in Claim, NEW b, Insert(c, b)
        PROVE  Kept
    <2>1. UNCHANGED <<machineOwners, now>>
      BY <1>2 DEF Insert
    <2> QED BY <1>1, <1>2, <2>1, InsertContinues
  <1>3. ASSUME NEW c \in NewClaims, AddClaim(c)
        PROVE  Kept
    BY <1>2, <1>3, NewClaimsAreClaims DEF AddClaim
  <1>4. ASSUME NEW c \in NewClaims, NEW d \in Agents, Delegate(c, d)
        PROVE  Kept
    BY <1>2, <1>4, NewClaimsAreClaims DEF Delegate
  <1>5. CASE HookReturns
    <2>1. Innermost \in Insertion
      BY <1>1, <1>5, StackPop DEF HookReturns, Innermost
    <2>2. Innermost.claim \in Claim
      BY <2>1 DEF Insertion
    <2>3. claims' = Append(claims, Innermost.claim) /\ UNCHANGED <<machineOwners, conflicts, now>>
      BY <1>5 DEF HookReturns, Store
    <2> QED BY <1>1, <2>2, <2>3, AppendContinues DEF Continues
  <1>6. ASSUME NEW m \in Machines, NEW h \in Humans, RegisterMachine(m, h)
        PROVE  Kept
    <2>1. machineOwners' = [machineOwners EXCEPT ![m] = h] /\ h # NoOwner
      BY <1>6, ConstantsAssumption DEF RegisterMachine
    <2>2. UNCHANGED <<claims, conflicts, now>>
      BY <1>6 DEF RegisterMachine
    <2> QED BY <1>1, <2>1, <2>2 DEF Continues
  <1>7. CASE Tick
    <2>1. UNCHANGED <<claims, conflicts, machineOwners>> /\ now' = now + 1
      BY <1>7 DEF Tick
    <2> QED BY <1>1, <2>1 DEF Continues
  <1>8. CASE HookRaises \/ SetConflictHook \/ Freeze \/ UNCHANGED registryVars
    <2>1. UNCHANGED <<claims, conflicts, machineOwners, now>>
      BY <1>8 DEF HookRaises, SetConflictHook, Freeze, registryVars
    <2> QED BY <1>1, <2>1 DEF Continues
  <1> QED BY <1>1, <1>3, <1>4, <1>5, <1>6, <1>7, <1>8 DEF RegistryNext

\* Only the clock takes authority away: while it stands still, what an agent may
\* do it may still do after any operation, and a machine keeps an owner.
THEOREM AuthorityIsKept == RegistrySpec => AuthorityLostOnlyByExpiry
  <1> DEFINE Kept == now' = now =>
        /\ \A a \in Agents, r \in Resources, op \in Operations :
             CanAct(claims, a, r, op) => CanAct(claims, a, r, op)'
        /\ \A m \in Machines : machineOwners[m] # NoOwner => machineOwners'[m] # NoOwner
  <1>1. RegistryTypeOK /\ [RegistryNext]_registryVars => [Kept]_registryVars
    <2> SUFFICES ASSUME RegistryTypeOK, [RegistryNext]_registryVars
                 PROVE  Kept
      OBVIOUS
    <2>1. /\ Continues(claims', claims)
          /\ \A m \in Machines : machineOwners[m] # NoOwner => machineOwners'[m] # NoOwner
      BY RegistryGrows
    <2>2. ASSUME now' = now, NEW a, NEW r, NEW op, CanAct(claims, a, r, op)
          PROVE  CanAct(claims, a, r, op)'
      <3>1. CASE PublicRead(r, op)
        BY <3>1 DEF CanAct, PublicRead
      <3>2. ASSUME NEW i \in ClaimsFor(claims, a, r), Covers(claims[i], op)
            PROVE  CanAct(claims, a, r, op)'
        <4>1. i \in DOMAIN claims' /\ claims'[i] = claims[i]
          BY <2>1, <3>2 DEF ClaimsFor, Continues
        <4> QED BY <2>2, <3>2, <4>1 DEF CanAct, ClaimsFor, Covers, IsValid, IsExpired
      <3> QED BY <2>2, <3>1, <3>2 DEF CanAct
    <2> QED BY <2>1, <2>2
  <1> QED BY <1>1, RegistryTyped, PTL DEF RegistrySpec, AuthorityLostOnlyByExpiry

-----------------------------------------------------------------------------
(* A snapshot is a past state of the registry.  What makes the property     *)
(* inductive is that the registry continues the copied lists, and that the  *)
(* contests among the claims of a list that stays the same become fewer.    *)

\* A list that continues another begins with it.
LEMMA ContinuedIsPrefix ==
  ASSUME NEW S, NEW s \in Seq(S), NEW t \in Seq(S), Continues(t, s)
  PROVE  Len(s) <= Len(t) /\ s = SubSeq(t, 1, Len(s))
  <1>1. /\ DOMAIN s = 1 .. Len(s) /\ DOMAIN t = 1 .. Len(t)
        /\ Len(s) \in Nat /\ Len(t) \in Nat
    BY LenProperties
  <1>2. Len(s) <= Len(t)
    <2>1. CASE Len(s) = 0
      BY <1>1, <2>1
    <2>2. CASE Len(s) > 0
      <3>1. Len(s) \in 1 .. Len(s)
        BY <1>1, <2>2
      <3> QED BY <1>1, <3>1 DEF Continues
    <2> QED BY <1>1, <2>1, <2>2
  <1>3. PICK n \in Nat : n = Len(s) /\ \A i \in 1 .. n : t[i] \in S /\ t[i] = s[i]
    <2>1. \A i \in 1 .. Len(s) : t[i] \in S /\ t[i] = s[i]
      BY <1>1, <1>2 DEF Continues
    <2> QED BY <1>1, <2>1
  <1>4. SubSeq(t, 1, n) \in Seq(S) /\ Len(SubSeq(t, 1, n)) = n
    BY <1>3, SubSeqProperties
  <1>5. \A i \in 1 .. n : SubSeq(t, 1, n)[i] = t[i]
    <2>1. \A i \in 1 .. n - 1 + 1 : SubSeq(t, 1, n)[i] = t[1 + i - 1]
      BY <1>3, SubSeqProperties
    <2> QED BY <1>3, <2>1
  <1>6. SubSeq(t, 1, n) = s
    BY <1>3, <1>4, <1>5, SeqEqual
  <1> QED BY <1>2, <1>3, <1>6

\* A claim that is valid was valid before: the clock only ends validity.
LEMMA ValidBefore ==
  ASSUME NEW c \in Claim, now \in Nat, now' \in Nat, now <= now', IsValid(c)'
  PROVE  IsValid(c)
  <1>1. c.expiresAt \in Nat \cup {NoExpiry}
    <2>1. c.expiresAt \in Lifetimes
      BY DEF Claim
    <2> QED BY <2>1, ConstantsAssumption
  <1>2. IsExpired(c) => IsExpired(c)'
    BY <1>1 DEF IsExpired
  <1> QED BY <1>2 DEF IsValid

\* In lists that stay the same, recorded contests stay recorded.
LEMMA CopyStaysRecorded ==
  ASSUME NEW cs \in Seq(Claim), NEW cfs, now \in Nat, now' \in Nat, now <= now',
         ContestsRecorded(cs, cfs)
  PROVE  ContestsRecorded(cs, cfs)'
  <1>1. \A i \in DOMAIN cs : cs[i] \in Claim
    BY LenProperties, ElementOfSeq
  <1>2. ASSUME NEW i \in DOMAIN cs, NEW j \in DOMAIN cs, WriteContest(cs, i, j)'
        PROVE  WriteContest(cs, i, j)
    BY <1>1, <1>2, ValidBefore DEF WriteContest
  <1> QED BY <1>2 DEF ContestsRecorded, Recorded

SnapshotInv ==
  /\ RegistryTypeOK
  /\ LiveContestsRecorded
  /\ snapshot # NoSnapshot =>
       /\ Continues(claims, snapshot.claims)
       /\ Continues(conflicts, snapshot.conflicts)
       /\ \A m \in Machines :
            snapshot.machineOwners[m] # NoOwner => machineOwners[m] # NoOwner
       /\ ContestsRecorded(snapshot.claims, snapshot.conflicts)

\* Every operation keeps the snapshot a past state, or makes a new one.
LEMMA SnapshotStep ==
  ASSUME SnapshotInv, LiveContestsRecorded', [RegistryNext]_registryVars
  PROVE  SnapshotInv'
  <1>1. /\ RegistryTypeOK /\ RegistryTypeOK'
        /\ claims' \in Seq(Claim) /\ conflicts' \in Seq(ConflictRecord)
    BY TypedStep DEF SnapshotInv, RegistryTypeOK
  <1>2. /\ Continues(claims', claims) /\ Continues(conflicts', conflicts)
        /\ \A m \in Machines : machineOwners[m] # NoOwner => machineOwners'[m] # NoOwner
        /\ now \in Nat /\ now' \in Nat /\ now <= now'
    BY <1>1, RegistryGrows
  <1>3. CASE Freeze
    <2>1. /\ snapshot' = [claims |-> claims, machineOwners |-> machineOwners,
                          conflicts |-> conflicts]
          /\ UNCHANGED <<claims, conflicts, machineOwners, now>>
      BY <1>3 DEF Freeze
    <2>2. /\ snapshot'.claims = claims' /\ snapshot'.conflicts = conflicts'
          /\ snapshot'.machineOwners = machineOwners'
      BY <2>1
    <2>3. ContestsRecorded(claims, conflicts)'
      BY DEF LiveContestsRecorded
    <2>4. ContestsRecorded(snapshot.claims, snapshot.conflicts)'
      BY <2>2, <2>3 DEF ContestsRecorded, WriteContest, Recorded, IsValid, IsExpired
    <2>5. Continues(claims', claims') /\ Continues(conflicts', conflicts')
      BY DEF Continues
    <2> QED BY <1>1, <2>2, <2>4, <2>5 DEF SnapshotInv
  <1>4. CASE snapshot' = snapshot
    <2>1. SUFFICES ASSUME snapshot # NoSnapshot
                   PROVE  /\ Continues(claims', snapshot.claims)
                          /\ Continues(conflicts', snapshot.conflicts)
                          /\ \A m \in Machines :
                               snapshot.machineOwners[m] # NoOwner => machineOwners'[m] # NoOwner
                          /\ ContestsRecorded(snapshot.claims, snapshot.conflicts)'
      BY <1>1, <1>4 DEF SnapshotInv
    <2>2. PICK s : s = snapshot
      OBVIOUS
    <2>3. /\ s \in Snapshot
          /\ Continues(claims, s.claims) /\ Continues(conflicts, s.conflicts)
          /\ ContestsRecorded(s.claims, s.conflicts)
          /\ \A m \in Machines : s.machineOwners[m] # NoOwner => machineOwners[m] # NoOwner
      BY <1>1, <2>1, <2>2 DEF SnapshotInv, RegistryTypeOK
    <2>4. s.claims \in Seq(Claim)
      BY <2>3 DEF Snapshot
    <2>5. ContestsRecorded(s.claims, s.conflicts)'
      BY <1>2, <2>3, <2>4, CopyStaysRecorded
    <2>6. snapshot' = s
      BY <1>4, <2>2
    <2>7. ContestsRecorded(snapshot.claims, snapshot.conflicts)'
      BY <2>5, <2>6 DEF ContestsRecorded, WriteContest, Recorded, IsValid, IsExpired
    <2>8. Continues(claims', s.claims) /\ Continues(conflicts', s.conflicts)
      BY <1>2, <2>3 DEF Continues
    <2> QED BY <1>2, <2>2, <2>3, <2>7, <2>8
  <1>5. Freeze \/ snapshot' = snapshot
    BY DEF RegistryNext, AddClaim, Delegate, Insert, HookReturns, HookRaises, SetConflictHook,
           RegisterMachine, Tick, registryVars
  <1> QED BY <1>3, <1>4, <1>5

\* What freeze() returned, inside a conflict hook or not, stays a past state of
\* the registry, in which no contest is unrecorded.
THEOREM SnapshotsArePast == RegistrySpec => []SnapshotIsPast
  <1>1. RegistryInit => SnapshotInv
    <2>1. RegistryInit => LiveContestsRecorded
      <3> SUFFICES ASSUME RegistryInit PROVE LiveContestsRecorded
        OBVIOUS
      <3>1. DOMAIN claims = {} /\ DOMAIN inserting = {}
        BY DEF RegistryInit
      <3> QED BY <3>1 DEF LiveContestsRecorded, ContestsRecorded
    <2> QED BY <2>1, InitTyped DEF RegistryInit, SnapshotInv
  <1>2. SnapshotInv /\ LiveContestsRecorded' /\ [RegistryNext]_registryVars => SnapshotInv'
    BY SnapshotStep
  <1>3. SnapshotInv => SnapshotIsPast
    <2> SUFFICES ASSUME SnapshotInv, snapshot # NoSnapshot
                 PROVE  SnapshotIsPast
      BY DEF SnapshotIsPast
    <2>1. /\ snapshot.claims \in Seq(Claim) /\ claims \in Seq(Claim)
          /\ snapshot.conflicts \in Seq(ConflictRecord) /\ conflicts \in Seq(ConflictRecord)
      BY DEF SnapshotInv, RegistryTypeOK, Snapshot
    <2>2. /\ Continues(claims, snapshot.claims) /\ Continues(conflicts, snapshot.conflicts)
      BY DEF SnapshotInv
    <2> QED BY <2>1, <2>2, ContinuedIsPrefix DEF SnapshotInv, SnapshotIsPast
  <1> QED BY <1>1, <1>2, <1>3, ContestsAreRecorded, PTL DEF RegistrySpec
=============================================================================
