------------------------ MODULE ExecutionContextProofs -----------------------
(***************************************************************************)
(* Theorems about execution contexts, for trees of any depth and any       *)
(* number of threads that verify, spawn and revoke while the registry and  *)
(* the clock move.                                                         *)
(*                                                                         *)
(* The inductive invariant is stated of the list cs of contexts and of the *)
(* list cl of claims as constants, context by context: ContextSound says   *)
(* what a context has to do with its ancestors and with the claims, and    *)
(* SpawnSound what a pending spawn() has found out about its parent.       *)
(***************************************************************************)
EXTENDS ExecutionContext, FreedomVerifierProofs

-----------------------------------------------------------------------------
(* The invariant *)

\* Some claim, valid or not by now, lets the agent read the resource.
Readable(cl, agent, r) ==
  \/ r \in PublicResources
  \/ \E i \in DOMAIN cl : /\ cl[i].holder = agent /\ cl[i].resource = r
                          /\ "read" \in cl[i].rights

\* Context x is within the limits of each of its ancestors, and what it was
\* spawned for its parent's agent could read.
ContextSound(cs, cl, x) ==
  LET c == cs[x] IN
  /\ c.depth = Len(c.chain)
  /\ c.depth <= c.maxDepth
  /\ \A k \in DOMAIN c.chain :
       /\ c.chain[k] \in 1 .. x - 1
       /\ cs[c.chain[k]].maxDepth = c.maxDepth
       /\ EndsBy(c.expiresAt, cs[c.chain[k]].expiresAt)
  /\ c.chain # <<>> =>
       \A r \in c.granted : Readable(cl, cs[c.chain[c.depth]].agent, r)

\* A pending spawn() may still go one level deeper, and the resources that it has
\* checked are readable for the agent of its parent.
SpawnSound(cs, cl, s) ==
  /\ s.parent \in DOMAIN cs
  /\ s.checked <= Len(s.request)
  /\ cs[s.parent].depth < cs[s.parent].maxDepth
  /\ \A k \in 1 .. s.checked : Readable(cl, cs[s.parent].agent, s.request[k])

TreeInv ==
  /\ ContextTypeOK
  /\ \A x \in DOMAIN contexts : ContextSound(contexts, claims, x)
  /\ \A t \in Threads : spawning[t] # NoSpawn => SpawnSound(contexts, claims, spawning[t])

\* Context x and all its ancestors last until n.
LastsUntil(cs, x, n) ==
  /\ EndsBy(n, cs[x].expiresAt)
  /\ \A k \in DOMAIN cs[x].chain : EndsBy(n, cs[cs[x].chain[k]].expiresAt)

\* The call of a thread, and each permit it has got, began in the lifetime of the
\* context that it went through.
InLifetime(c, x, cs) ==
  /\ c.pc # "idle" => x # NoContext /\ LastsUntil(cs, x, c.begun)
  /\ \A k \in DOMAIN c.results :
       c.results[k].permitted => x # NoContext /\ LastsUntil(cs, x, c.results[k].begun)

LifetimeInv == \A t \in Threads : InLifetime(call[t], through[t], contexts)

-----------------------------------------------------------------------------
(* What the invariant gives of a context.                                   *)

\* Bounded lifetimes compose.
LEMMA EndsByTransitive ==
  ASSUME NEW a \in Nat \cup {NoExpiry}, NEW b \in Nat \cup {NoExpiry},
         NEW c \in Nat \cup {NoExpiry}, EndsBy(a, b), EndsBy(b, c)
  PROVE  EndsBy(a, c)
  BY ConstantsAssumption DEF EndsBy

\* The fields of a context, and the place of its parent.
LEMMA ContextFields ==
  ASSUME NEW cs \in Seq(Context), NEW x \in DOMAIN cs
  PROVE  /\ x \in Nat /\ x <= Len(cs) /\ Len(cs) \in Nat /\ DOMAIN cs = 1 .. Len(cs)
         /\ cs[x] \in Context
         /\ cs[x].agent \in Agents /\ cs[x].maxDepth \in Nat /\ cs[x].maxDepth \in Depths
         /\ cs[x].expiresAt \in Nat \cup {NoExpiry}
         /\ cs[x].depth \in Nat /\ cs[x].chain \in Seq(Nat)
         /\ DOMAIN cs[x].chain = 1 .. Len(cs[x].chain) /\ Len(cs[x].chain) \in Nat
  <1>1. DOMAIN cs = 1 .. Len(cs) /\ Len(cs) \in Nat
    BY LenProperties
  <1>2. cs[x] \in Context
    BY <1>1, ElementOfSeq
  <1>3. cs[x].chain \in Seq(Nat)
    BY <1>2 DEF Context
  <1>4. DOMAIN cs[x].chain = 1 .. Len(cs[x].chain) /\ Len(cs[x].chain) \in Nat
    BY <1>3, LenProperties
  <1>5. /\ cs[x].agent \in Agents /\ cs[x].maxDepth \in Depths /\ cs[x].depth \in Nat
        /\ cs[x].expiresAt \in Nat \cup {NoExpiry}
    BY <1>2 DEF Context
  <1>6. cs[x].maxDepth \in Nat
    BY <1>5, ContextAssumption
  <1> QED BY <1>1, <1>2, <1>3, <1>4, <1>5, <1>6

\* The ancestors of a context are contexts, the parent last.
LEMMA AncestorsExist ==
  ASSUME NEW cs \in Seq(Context), NEW cl, NEW x \in DOMAIN cs, ContextSound(cs, cl, x)
  PROVE  /\ \A k \in DOMAIN cs[x].chain : cs[x].chain[k] \in DOMAIN cs
         /\ cs[x].chain # <<>> => cs[x].depth \in DOMAIN cs[x].chain
  <1>1. /\ x \in Nat /\ x <= Len(cs) /\ Len(cs) \in Nat /\ DOMAIN cs = 1 .. Len(cs)
        /\ cs[x].chain \in Seq(Nat)
        /\ DOMAIN cs[x].chain = 1 .. Len(cs[x].chain) /\ Len(cs[x].chain) \in Nat
    BY ContextFields
  <1>2. \A k \in DOMAIN cs[x].chain : cs[x].chain[k] \in 1 .. x - 1
    BY DEF ContextSound
  <1>3. \A i \in 1 .. x - 1 : i \in 1 .. Len(cs)
    BY <1>1
  <1>4. ASSUME cs[x].chain # <<>>
        PROVE  Len(cs[x].chain) \in 1 .. Len(cs[x].chain)
    <2>1. Len(cs[x].chain) # 0
      BY <1>1, <1>4, EmptySeq
    <2> QED BY <1>1, <2>1
  <1> QED BY <1>1, <1>2, <1>3, <1>4 DEF ContextSound

-----------------------------------------------------------------------------
(* What every step leaves in place: contexts are only added and revoked.    *)

Kept(ds, cs) ==
  \A x \in DOMAIN cs :
    /\ x \in DOMAIN ds
    /\ ds[x].agent = cs[x].agent /\ ds[x].maxDepth = cs[x].maxDepth
    /\ ds[x].expiresAt = cs[x].expiresAt /\ ds[x].chain = cs[x].chain
    /\ ds[x].depth = cs[x].depth /\ ds[x].granted = cs[x].granted

LEMMA ReadableStays ==
  ASSUME NEW cl, NEW dl, Continues(dl, cl), NEW a, NEW r, Readable(cl, a, r)
  PROVE  Readable(dl, a, r)
  BY DEF Readable, Continues

\* A sound context stays sound.
LEMMA ContextSoundStays ==
  ASSUME NEW cs \in Seq(Context), NEW ds, Kept(ds, cs), NEW cl, NEW dl, Continues(dl, cl),
         NEW x \in DOMAIN cs, ContextSound(cs, cl, x)
  PROVE  ContextSound(ds, dl, x)
  <1>1. /\ \A k \in DOMAIN cs[x].chain : cs[x].chain[k] \in DOMAIN cs
        /\ cs[x].chain # <<>> => cs[x].depth \in DOMAIN cs[x].chain
    BY AncestorsExist
  <1>2. /\ ds[x].maxDepth = cs[x].maxDepth /\ ds[x].expiresAt = cs[x].expiresAt
        /\ ds[x].chain = cs[x].chain /\ ds[x].depth = cs[x].depth
        /\ ds[x].granted = cs[x].granted
    BY DEF Kept
  <1>3. \A k \in DOMAIN cs[x].chain :
          /\ ds[cs[x].chain[k]].maxDepth = cs[cs[x].chain[k]].maxDepth
          /\ ds[cs[x].chain[k]].expiresAt = cs[cs[x].chain[k]].expiresAt
          /\ ds[cs[x].chain[k]].agent = cs[cs[x].chain[k]].agent
    BY <1>1 DEF Kept
  <1>4. ASSUME cs[x].chain # <<>>, NEW r \in cs[x].granted
        PROVE  Readable(dl, ds[cs[x].chain[cs[x].depth]].agent, r)
    <2>1. Readable(cl, cs[cs[x].chain[cs[x].depth]].agent, r)
      BY <1>4 DEF ContextSound
    <2> QED BY <1>1, <1>3, <1>4, <2>1, ReadableStays
  <1> QED BY <1>2, <1>3, <1>4 DEF ContextSound

\* A pending spawn() stays sound, even when its parent is revoked.
LEMMA SpawnSoundStays ==
  ASSUME NEW cs, NEW ds, Kept(ds, cs), NEW cl, NEW dl, Continues(dl, cl),
         NEW s, SpawnSound(cs, cl, s)
  PROVE  SpawnSound(ds, dl, s)
  <1>1. /\ s.parent \in DOMAIN ds
        /\ ds[s.parent].depth = cs[s.parent].depth
        /\ ds[s.parent].maxDepth = cs[s.parent].maxDepth
        /\ ds[s.parent].agent = cs[s.parent].agent
    BY DEF Kept, SpawnSound
  <1> QED BY <1>1, ReadableStays DEF SpawnSound

\* A lifetime that was kept to stays kept to.
LEMMA LastsUntilStays ==
  ASSUME NEW cs \in Seq(Context), NEW ds, Kept(ds, cs), NEW cl,
         NEW x \in DOMAIN cs, ContextSound(cs, cl, x), NEW n, LastsUntil(cs, x, n)
  PROVE  LastsUntil(ds, x, n)
  <1>1. \A k \in DOMAIN cs[x].chain : cs[x].chain[k] \in DOMAIN cs
    BY AncestorsExist
  <1> QED BY <1>1 DEF LastsUntil, Kept

\* Everything about the contexts so far stays as it was, with more of them and
\* with more claims.
LEMMA TreeStays ==
  ASSUME TreeInv, Kept(contexts', contexts), Continues(claims', claims)
  PROVE  /\ \A x \in DOMAIN contexts : ContextSound(contexts', claims', x)
         /\ \A t \in Threads : spawning[t] # NoSpawn =>
              SpawnSound(contexts', claims', spawning[t])
  BY ContextSoundStays, SpawnSoundStays DEF TreeInv, ContextTypeOK

\* A context more keeps the contexts before it, at their places.
LEMMA OneContextMore ==
  ASSUME NEW cs \in Seq(Context), NEW c \in Context
  PROVE  /\ Append(cs, c) \in Seq(Context)
         /\ Kept(Append(cs, c), cs)
         /\ Len(cs) + 1 \in DOMAIN Append(cs, c) /\ Append(cs, c)[Len(cs) + 1] = c
         /\ \A x \in DOMAIN Append(cs, c) : x = Len(cs) + 1 \/ x \in DOMAIN cs
         /\ \A x \in DOMAIN cs : x \in 1 .. (Len(cs) + 1) - 1 /\ Append(cs, c)[x] = cs[x]
  <1>1. Append(cs, c) \in Seq(Context) /\ Len(Append(cs, c)) = Len(cs) + 1
    BY AppendProperties
  <1>2. /\ DOMAIN cs = 1 .. Len(cs) /\ Len(cs) \in Nat
        /\ DOMAIN Append(cs, c) = 1 .. Len(cs) + 1
    BY <1>1, LenProperties
  <1>3. /\ \A i \in 1 .. Len(cs) : Append(cs, c)[i] = cs[i]
        /\ Append(cs, c)[Len(cs) + 1] = c
    BY AppendProperties
  <1>4. \A i \in 1 .. Len(cs) : i \in 1 .. Len(cs) + 1
    BY <1>2
  <1>5. Kept(Append(cs, c), cs)
    BY <1>2, <1>3, <1>4 DEF Kept
  <1> QED BY <1>1, <1>2, <1>3, <1>5

\* An existing context stays a context of its thread.
LEMMA ThroughStays ==
  ASSUME ContextTypeOK, Kept(contexts', contexts), through' = through
  PROVE  through' \in [Threads -> DOMAIN contexts' \cup {NoContext}]
  BY DEF ContextTypeOK, Kept

-----------------------------------------------------------------------------
(* The steps *)

\* A mutation of the registry, the clock, or a step of the gate.
LEMMA OutsideStep ==
  ASSUME TreeInv, UNCHANGED treeVars, Continues(claims', claims)
  PROVE  TreeInv'
  <1>1. contexts' = contexts /\ spawning' = spawning /\ through' = through
    BY DEF treeVars
  <1>2. Kept(contexts', contexts)
    BY <1>1 DEF Kept
  <1> QED BY <1>1, <1>2, TreeStays DEF TreeInv, ContextTypeOK

\* A new context, sound by itself, joins the others; spawning threads go on.
LEMMA JoinStep ==
  ASSUME TreeInv, claims' = claims, through' = through,
         NEW c \in Context, contexts' = Append(contexts, c),
         ContextSound(Append(contexts, c), claims, Len(contexts) + 1),
         \A t \in Threads : spawning'[t] = spawning[t] \/ spawning'[t] = NoSpawn,
         spawning' \in [Threads -> Spawn \cup {NoSpawn}]
  PROVE  TreeInv'
  <1>1. contexts \in Seq(Context)
    BY DEF TreeInv, ContextTypeOK
  <1>2. /\ contexts' \in Seq(Context) /\ Kept(contexts', contexts)
        /\ \A x \in DOMAIN contexts' : x = Len(contexts) + 1 \/ x \in DOMAIN contexts
    BY <1>1, OneContextMore
  <1>3. Continues(claims', claims)
    BY DEF Continues
  <1>4. /\ \A x \in DOMAIN contexts : ContextSound(contexts', claims', x)
        /\ \A t \in Threads : spawning[t] # NoSpawn =>
             SpawnSound(contexts', claims', spawning[t])
    BY <1>2, <1>3, TreeStays
  <1>5. \A x \in DOMAIN contexts' : ContextSound(contexts', claims', x)
    BY <1>2, <1>4
  <1>6. \A t \in Threads : spawning'[t] # NoSpawn =>
          SpawnSound(contexts', claims', spawning'[t])
    BY <1>4
  <1>7. \A t \in Threads : spawning'[t] # NoSpawn => spawning'[t].parent \in DOMAIN contexts'
    BY <1>6 DEF SpawnSound
  <1>8. through' \in [Threads -> DOMAIN contexts' \cup {NoContext}]
    BY <1>2, ThroughStays DEF TreeInv
  <1> QED BY <1>2, <1>5, <1>6, <1>7, <1>8 DEF TreeInv, ContextTypeOK

LEMMA NewContextStep ==
  ASSUME TreeInv, claims' = claims, NEW a \in Agents, NEW d \in Depths,
         NEW e \in ContextLifetimes, NewContext(a, d, e)
  PROVE  TreeInv'
  <1> DEFINE c == [agent |-> a, maxDepth |-> d, expiresAt |-> e, chain |-> <<>>,
                   depth |-> 0, revoked |-> FALSE, granted |-> Resources]
  <1>1. contexts \in Seq(Context)
    BY DEF TreeInv, ContextTypeOK
  <1>2. /\ contexts' = Append(contexts, c) /\ spawning' = spawning /\ through' = through
    BY DEF NewContext
  <1>3. c \in Context
    <2>1. <<>> \in Seq(Nat) /\ e \in Nat \cup {NoExpiry}
      BY EmptySeq, ContextAssumption
    <2> QED BY <2>1 DEF Context
  <1>4. /\ c.depth = 0 /\ c.chain = <<>> /\ c.maxDepth \in Nat
    BY ContextAssumption
  <1> HIDE DEF c
  <1>5. Append(contexts, c)[Len(contexts) + 1] = c
    BY <1>1, <1>3, OneContextMore
  <1>6. ContextSound(Append(contexts, c), claims, Len(contexts) + 1)
    <2>1. DOMAIN c.chain = {} /\ Len(c.chain) = 0
      BY <1>4
    <2>2. c.depth <= c.maxDepth
      BY <1>4
    <2> QED BY <1>4, <1>5, <2>1, <2>2 DEF ContextSound
  <1> QED BY <1>2, <1>3, <1>6, JoinStep DEF TreeInv, ContextTypeOK

LEMMA RevokeStep ==
  ASSUME TreeInv, claims' = claims, NEW x \in DOMAIN contexts, Revoke(x)
  PROVE  TreeInv'
  <1>1. contexts \in Seq(Context)
    BY DEF TreeInv, ContextTypeOK
  <1>2. /\ contexts' = [contexts EXCEPT ![x].revoked = TRUE]
        /\ spawning' = spawning /\ through' = through
    BY DEF Revoke
  <1>3. DOMAIN contexts = 1 .. Len(contexts) /\ Len(contexts) \in Nat
    BY <1>1, LenProperties
  <1>4. \A y \in DOMAIN contexts : contexts[y] \in Context
    BY <1>1, <1>3, ElementOfSeq
  <1>5. PICK c : c = [contexts[x] EXCEPT !.revoked = TRUE]
    OBVIOUS
  <1>6. /\ c \in Context
        /\ c.agent = contexts[x].agent /\ c.maxDepth = contexts[x].maxDepth
        /\ c.expiresAt = contexts[x].expiresAt /\ c.chain = contexts[x].chain
        /\ c.depth = contexts[x].depth /\ c.granted = contexts[x].granted
    BY <1>4, <1>5 DEF Context
  <1>7. contexts' = [contexts EXCEPT ![x] = c]
    BY <1>2, <1>5
  <1>8. DOMAIN contexts' = DOMAIN contexts
    BY <1>7
  <1>9. contexts' \in Seq(Context)
    BY <1>1, <1>6, <1>7, ExceptSeq
  <1>10. \A y \in DOMAIN contexts : contexts'[y] = IF y = x THEN c ELSE contexts[y]
    BY <1>7
  <1>11. Kept(contexts', contexts) /\ Continues(claims', claims)
    BY <1>6, <1>8, <1>10 DEF Kept, Continues
  <1> QED BY <1>2, <1>8, <1>9, <1>11, TreeStays DEF TreeInv, ContextTypeOK

\* A thread that changes its spawn() only.
LEMMA SpawningStep ==
  ASSUME TreeInv, claims' = claims, contexts' = contexts, through' = through,
         NEW t \in Threads, NEW s, spawning' = [spawning EXCEPT ![t] = s],
         s = NoSpawn \/ (s \in Spawn /\ SpawnSound(contexts, claims, s))
  PROVE  TreeInv'
  <1>1. /\ spawning \in [Threads -> Spawn \cup {NoSpawn}]
        /\ \A u \in Threads : spawning[u] # NoSpawn => SpawnSound(contexts, claims, spawning[u])
    BY DEF TreeInv, ContextTypeOK
  <1>2. /\ spawning' \in [Threads -> Spawn \cup {NoSpawn}]
        /\ \A u \in Threads : spawning'[u] = IF u = t THEN s ELSE spawning[u]
    BY <1>1
  <1>3. \A u \in Threads : spawning'[u] # NoSpawn => SpawnSound(contexts, claims, spawning'[u])
    BY <1>1, <1>2
  <1>4. \A u \in Threads : spawning'[u] # NoSpawn => spawning'[u].parent \in DOMAIN contexts
    BY <1>3 DEF SpawnSound
  <1> QED BY <1>2, <1>3, <1>4 DEF TreeInv, ContextTypeOK

LEMMA StartSpawnStep ==
  ASSUME TreeInv, now \in Nat, claims' = claims, NEW t \in Threads, NEW x \in DOMAIN contexts,
         NEW a \in Agents, NEW q \in Requests, NEW e \in ExpiresIn, StartSpawn(t, x, a, q, e)
  PROVE  TreeInv'
  <1> DEFINE s == [parent |-> x, agent |-> a, request |-> q, checked |-> 0,
                   expiresIn |-> e, begun |-> now]
  <1>1. /\ contexts' = contexts /\ through' = through
        /\ spawning' = [spawning EXCEPT ![t] = s]
        /\ contexts[x].depth < contexts[x].maxDepth
    BY DEF StartSpawn
  <1>2. x \in Nat
    BY ContextFields DEF TreeInv, ContextTypeOK
  <1>3. s \in Spawn
    BY <1>2 DEF Spawn
  <1>4. Len(q) \in Nat
    BY ContextAssumption
  <1>5. SpawnSound(contexts, claims, s)
    BY <1>1, <1>4 DEF SpawnSound
  <1> QED BY <1>1, <1>3, <1>5, SpawningStep

\* A pending spawn(), with its request.
LEMMA SpawnFields ==
  ASSUME TreeInv, NEW t \in Threads, spawning[t] # NoSpawn
  PROVE  /\ spawning[t] \in Spawn /\ SpawnSound(contexts, claims, spawning[t])
         /\ spawning[t].checked \in Nat /\ spawning[t].parent \in Nat
         /\ spawning[t].expiresIn \in Nat \cup {NoExpiry} /\ spawning[t].agent \in Agents
         /\ spawning[t].request \in Seq(Resources) /\ Len(spawning[t].request) \in Nat
         /\ DOMAIN spawning[t].request = 1 .. Len(spawning[t].request)
         /\ spawning[t].parent \in DOMAIN contexts
  <1>1. spawning[t] \in Spawn /\ SpawnSound(contexts, claims, spawning[t])
    BY DEF TreeInv, ContextTypeOK
  <1>2. /\ spawning[t].checked \in Nat /\ spawning[t].request \in Requests
        /\ spawning[t].parent \in Nat
        /\ spawning[t].expiresIn \in ExpiresIn /\ spawning[t].agent \in Agents
    BY <1>1 DEF Spawn
  <1>3. /\ spawning[t].request \in Seq(Resources)
        /\ spawning[t].expiresIn \in Nat \cup {NoExpiry}
    BY <1>2, ContextAssumption
  <1> QED BY <1>1, <1>2, <1>3, LenProperties DEF SpawnSound

\* What can_act grants for reading is readable.
LEMMA CanActReads ==
  ASSUME NEW cl, NEW a, NEW r, CanAct(cl, a, r, "read") \/ r \in PublicResources
  PROVE  Readable(cl, a, r)
  BY DEF CanAct, PublicRead, ClaimsFor, Covers, Readable

LEMMA CheckRequestStep ==
  ASSUME TreeInv, claims' = claims, NEW t \in Threads, CheckRequest(t)
  PROVE  TreeInv'
  <1>1. PICK s : s = spawning[t]
    OBVIOUS
  <1>2. /\ s # NoSpawn /\ s.checked < Len(s.request)
        /\ contexts' = contexts /\ through' = through
    BY <1>1 DEF CheckRequest
  <1>3. /\ s \in Spawn /\ SpawnSound(contexts, claims, s)
        /\ s.checked \in Nat /\ Len(s.request) \in Nat
    BY <1>1, <1>2, SpawnFields
  <1>4. PICK n \in Nat : n = s.checked + 1
    BY <1>3
  <1>5. PICK e : e = [s EXCEPT !.checked = n]
    OBVIOUS
  <1>6. \/ spawning' = [spawning EXCEPT ![t] = NoSpawn]
        \/ /\ spawning' = [spawning EXCEPT ![t] = e]
           /\ Readable(claims, contexts[s.parent].agent, s.request[n])
    <2>1. CASE \/ CanAct(claims, contexts[s.parent].agent, s.request[n], "read")
               \/ s.request[n] \in PublicResources
      BY <1>1, <1>4, <1>5, <2>1, CanActReads DEF CheckRequest
    <2>2. CASE ~ \/ CanAct(claims, contexts[s.parent].agent, s.request[n], "read")
                 \/ s.request[n] \in PublicResources
      BY <1>1, <1>4, <2>2 DEF CheckRequest
    <2> QED BY <2>1, <2>2
  <1>7. /\ e \in Spawn /\ e.parent = s.parent /\ e.request = s.request /\ e.checked = n
    BY <1>3, <1>5 DEF Spawn
  <1>8. ASSUME Readable(claims, contexts[s.parent].agent, s.request[n])
        PROVE  SpawnSound(contexts, claims, e)
    <2>1. n <= Len(s.request) /\ \A k \in 1 .. n : k = n \/ k \in 1 .. s.checked
      BY <1>2, <1>3, <1>4
    <2>2. /\ s.parent \in DOMAIN contexts
          /\ contexts[s.parent].depth < contexts[s.parent].maxDepth
          /\ \A k \in 1 .. s.checked :
               Readable(claims, contexts[s.parent].agent, s.request[k])
      BY <1>3 DEF SpawnSound
    <2>3. \A k \in 1 .. n : Readable(claims, contexts[s.parent].agent, s.request[k])
      BY <1>8, <2>1, <2>2
    <2> QED BY <1>7, <2>1, <2>2, <2>3 DEF SpawnSound
  <1> QED BY <1>2, <1>6, <1>7, <1>8, SpawningStep

\* The child expires no later than its parent, whatever was asked for.
LEMMA ChildExpiryBounded ==
  ASSUME now \in Nat, NEW p \in Nat \cup {NoExpiry}, NEW e \in Nat \cup {NoExpiry}
  PROVE  /\ ChildExpiry(p, e) \in Nat \cup {NoExpiry}
         /\ EndsBy(ChildExpiry(p, e), p)
  <1>1. CASE e = NoExpiry
    <2>1. ChildExpiry(p, e) = p
      BY <1>1 DEF ChildExpiry
    <2> QED BY <2>1 DEF EndsBy
  <1>2. CASE e # NoExpiry /\ p = NoExpiry
    <2>1. ChildExpiry(p, e) = now + e /\ e \in Nat
      BY <1>2 DEF ChildExpiry
    <2> QED BY <1>2, <2>1 DEF EndsBy
  <1>3. CASE e # NoExpiry /\ p # NoExpiry
    <2>1. ChildExpiry(p, e) = Lower(now + e, p) /\ e \in Nat /\ p \in Nat
      BY <1>3 DEF ChildExpiry
    <2>2. Lower(now + e, p) \in Nat /\ Lower(now + e, p) <= p
      BY <2>1 DEF Lower
    <2> QED BY <2>1, <2>2, ConstantsAssumption DEF EndsBy
  <1> QED BY <1>1, <1>2, <1>3

\* The chain of the child is that of its parent, with the parent at its end.
LEMMA ChainOneMore ==
  ASSUME NEW s \in Seq(Nat), NEW p \in Nat
  PROVE  /\ Append(s, p) \in Seq(Nat) /\ Len(Append(s, p)) = Len(s) + 1
         /\ Append(s, p)[Len(s) + 1] = p
         /\ \A k \in DOMAIN Append(s, p) :
              k = Len(s) + 1 \/ (k \in DOMAIN s /\ Append(s, p)[k] = s[k])
  <1>1. Append(s, p) \in Seq(Nat) /\ Len(Append(s, p)) = Len(s) + 1
    BY AppendProperties
  <1>2. /\ DOMAIN s = 1 .. Len(s) /\ Len(s) \in Nat
        /\ DOMAIN Append(s, p) = 1 .. Len(s) + 1
    BY <1>1, LenProperties
  <1>3. /\ \A k \in 1 .. Len(s) : Append(s, p)[k] = s[k]
        /\ Append(s, p)[Len(s) + 1] = p
    BY AppendProperties
  <1> QED BY <1>1, <1>2, <1>3

\* The child is within the limits of its parent and so of all its ancestors.
LEMMA FinishSpawnStep ==
  ASSUME TreeInv, now \in Nat, claims' = claims, NEW t \in Threads, FinishSpawn(t)
  PROVE  TreeInv'
  <1>1. PICK s : s = spawning[t]
    OBVIOUS
  <1>2. PICK p : p = contexts[s.parent]
    OBVIOUS
  <1>3. PICK expiry : expiry = ChildExpiry(p.expiresAt, s.expiresIn)
    OBVIOUS
  <1>4. PICK chain : chain = Append(p.chain, s.parent)
    OBVIOUS
  <1>5. PICK granted : granted = {s.request[k] : k \in DOMAIN s.request}
    OBVIOUS
  <1> DEFINE c == [agent |-> s.agent, maxDepth |-> p.maxDepth, expiresAt |-> expiry,
                   chain |-> chain, depth |-> p.depth + 1, revoked |-> FALSE,
                   granted |-> granted]
  <1>6. /\ s # NoSpawn /\ s.checked = Len(s.request)
        /\ contexts' = Append(contexts, c)
        /\ spawning' = [spawning EXCEPT ![t] = NoSpawn]
        /\ through' = through
    BY <1>1, <1>2, <1>3, <1>4, <1>5 DEF FinishSpawn
  <1>7. /\ SpawnSound(contexts, claims, s) /\ s.agent \in Agents
        /\ s.expiresIn \in Nat \cup {NoExpiry} /\ s.request \in Seq(Resources)
        /\ DOMAIN s.request = 1 .. Len(s.request)
        /\ s.parent \in DOMAIN contexts /\ s.parent \in Nat
    BY <1>1, <1>6, SpawnFields
  <1>8. /\ contexts \in Seq(Context) /\ ContextSound(contexts, claims, s.parent)
        /\ spawning \in [Threads -> Spawn \cup {NoSpawn}]
    BY <1>7 DEF TreeInv, ContextTypeOK
  <1>9. /\ p.maxDepth \in Depths /\ p.maxDepth \in Nat /\ p.depth \in Nat
        /\ p.expiresAt \in Nat \cup {NoExpiry} /\ p.chain \in Seq(Nat)
        /\ s.parent <= Len(contexts) /\ Len(contexts) \in Nat
        /\ DOMAIN contexts = 1 .. Len(contexts)
    BY <1>2, <1>7, <1>8, ContextFields
  <1>10. expiry \in Nat \cup {NoExpiry} /\ EndsBy(expiry, p.expiresAt)
    BY <1>3, <1>7, <1>9, ChildExpiryBounded
  <1>11. /\ chain \in Seq(Nat) /\ Len(chain) = Len(p.chain) + 1
         /\ chain[Len(p.chain) + 1] = s.parent
         /\ \A k \in DOMAIN chain :
              k = Len(p.chain) + 1 \/ (k \in DOMAIN p.chain /\ chain[k] = p.chain[k])
    BY <1>4, <1>7, <1>9, ChainOneMore
  <1>12. granted \in SUBSET Resources
    BY <1>7, <1>5, ElementOfSeq
  <1>13. c \in Context
    <2>1. p.depth + 1 \in Nat
      BY <1>9
    <2>2. s.agent \in Agents /\ p.maxDepth \in Depths /\ expiry \in Nat \cup {NoExpiry}
          /\ chain \in Seq(Nat) /\ granted \in SUBSET Resources
      BY <1>7, <1>9, <1>10, <1>11, <1>12
    <2> QED BY <2>1, <2>2, Zenon DEF Context
  <1>14. /\ c.maxDepth = p.maxDepth /\ c.expiresAt = expiry /\ c.chain = chain
         /\ c.depth = p.depth + 1
         /\ c.granted = granted
    OBVIOUS
  <1> HIDE DEF c
  <1>15. PICK ds : ds = Append(contexts, c)
    OBVIOUS
  <1>16. /\ ds[Len(contexts) + 1] = c
         /\ \A y \in DOMAIN contexts : y \in 1 .. (Len(contexts) + 1) - 1 /\ ds[y] = contexts[y]
    BY <1>8, <1>13, <1>15, OneContextMore
  <1>17. /\ p.depth = Len(p.chain) /\ p.depth < p.maxDepth
         /\ \A k \in DOMAIN p.chain :
              /\ p.chain[k] \in DOMAIN contexts
              /\ contexts[p.chain[k]].maxDepth = p.maxDepth
              /\ EndsBy(p.expiresAt, contexts[p.chain[k]].expiresAt)
    BY <1>2, <1>7, <1>8, AncestorsExist DEF ContextSound, SpawnSound
  <1>18. c.depth = Len(c.chain) /\ c.depth <= c.maxDepth
    BY <1>9, <1>11, <1>14, <1>17
  <1>19. ASSUME NEW k \in DOMAIN chain
         PROVE  /\ chain[k] \in 1 .. (Len(contexts) + 1) - 1
                /\ ds[chain[k]].maxDepth = p.maxDepth
                /\ EndsBy(expiry, ds[chain[k]].expiresAt)
    <2>1. CASE k = Len(p.chain) + 1
      BY <1>2, <1>7, <1>10, <1>11, <1>16, <2>1
    <2>2. CASE k \in DOMAIN p.chain /\ chain[k] = p.chain[k]
      <3>1. contexts[chain[k]].expiresAt \in Nat \cup {NoExpiry}
        BY <1>8, <1>17, <2>2, ContextFields
      <3> QED BY <1>9, <1>10, <1>16, <1>17, <2>2, <3>1, EndsByTransitive
    <2> QED BY <1>11, <2>1, <2>2
  <1>20. ASSUME NEW r \in c.granted
         PROVE  Readable(claims, ds[c.chain[c.depth]].agent, r)
    <2>1. ds[c.chain[c.depth]].agent = p.agent
      BY <1>2, <1>7, <1>11, <1>14, <1>16, <1>17
    <2> QED BY <1>2, <1>6, <1>7, <1>14, <1>5, <2>1 DEF SpawnSound
  <1>21. ContextSound(ds, claims, Len(contexts) + 1)
    BY <1>14, <1>16, <1>18, <1>19, <1>20 DEF ContextSound
  <1>22. /\ \A u \in Threads : spawning'[u] = spawning[u] \/ spawning'[u] = NoSpawn
         /\ spawning' \in [Threads -> Spawn \cup {NoSpawn}]
    BY <1>6, <1>8
  <1> QED BY <1>6, <1>13, <1>15, <1>21, <1>22, JoinStep

\* verify() is begun on a context, or refused.
LEMMA ThroughStep ==
  ASSUME TreeInv, claims' = claims, contexts' = contexts, spawning' = spawning,
         NEW t \in Threads, NEW x \in DOMAIN contexts, through' = [through EXCEPT ![t] = x]
  PROVE  TreeInv'
  <1>1. through' \in [Threads -> DOMAIN contexts \cup {NoContext}]
    BY DEF TreeInv, ContextTypeOK
  <1> QED BY <1>1 DEF TreeInv, ContextTypeOK

-----------------------------------------------------------------------------
(* The invariant of the gate holds of calls through contexts as well.       *)

LEMMA GateInContext ==
  ASSUME VerifierInv, [ContextNext]_contextVars
  PROVE  VerifierInv'
  <1>1. CASE [Next]_vars
    BY <1>1, VerifierInvStep
  <1>2. CASE UNCHANGED registryVars /\ UNCHANGED callVars
    BY <1>1, <1>2 DEF vars
  <1>3. CASE RegistryNext /\ UNCHANGED <<callVars, treeVars>>
    BY <1>1, <1>3 DEF Next
  <1>4. CASE /\ \E t \in Threads : Verify(t) \/ Record(t) \/ RecordFails(t)
             /\ UNCHANGED <<registryVars, treeVars>>
    BY <1>1, <1>4 DEF Next
  <1>5. ASSUME NEW t \in Threads, NEW x \in DOMAIN contexts, NEW plan \in Plans,
               VerifyThrough(t, x, plan), UNCHANGED registryVars
        PROVE  VerifierInv'
    <2>1. Submit(t, plan, Live)
      BY <1>5 DEF VerifyThrough
    <2> QED BY <1>1, <1>5, <2>1 DEF Next
  <1>6. ASSUME NEW t \in Threads, NEW x \in DOMAIN contexts, VerifyBlocked(t, x),
               UNCHANGED registryVars
        PROVE  VerifierInv'
    <2>1. call' = [call EXCEPT ![t] = NoCall]
      BY <1>6 DEF VerifyBlocked
    <2> QED BY <1>6, <2>1, NoCallInv, ThreadStepKeeps
  <1>7. ASSUME UNCHANGED registryVars,
               \/ \E a \in Agents, n \in Depths, e \in ContextLifetimes : NewContext(a, n, e)
               \/ \E x \in DOMAIN contexts : Revoke(x)
               \/ \E t \in Threads :
                    \/ CheckRequest(t)
                    \/ FinishSpawn(t)
                    \/ \E x \in DOMAIN contexts, a \in Agents, q \in Requests, e \in ExpiresIn :
                         StartSpawn(t, x, a, q, e)
        PROVE  VerifierInv'
    <2>1. UNCHANGED callVars
      BY <1>7 DEF NewContext, Revoke, CheckRequest, FinishSpawn, StartSpawn
    <2> QED BY <1>2, <1>7, <2>1
  <1>8. CASE UNCHANGED contextVars
    BY <1>1, <1>8 DEF contextVars
  <1> QED BY <1>3, <1>4, <1>5, <1>6, <1>7, <1>8 DEF ContextNext

\* A mutation, or the clock, removes no claim; every other step leaves the claims.
LEMMA ClaimsContinue ==
  ASSUME RegistryTypeOK, [RegistryNext]_registryVars
  PROVE  Continues(claims', claims)
  BY RegistryGrows

LEMMA TreeInvInit == ContextInit => TreeInv
  <1> SUFFICES ASSUME ContextInit PROVE TreeInv
    OBVIOUS
  <1>1. contexts \in Seq(Context) /\ DOMAIN contexts = {}
    BY EmptySeq DEF ContextInit
  <1>2. spawning \in [Threads -> Spawn \cup {NoSpawn}] /\ \A t \in Threads : spawning[t] = NoSpawn
    BY DEF ContextInit
  <1>3. through \in [Threads -> DOMAIN contexts \cup {NoContext}]
    BY DEF ContextInit
  <1> QED BY <1>1, <1>2, <1>3 DEF TreeInv, ContextTypeOK

LEMMA TreeInvStep ==
  ASSUME TreeInv, RegistryTypeOK, [ContextNext]_contextVars
  PROVE  TreeInv'
  <1>1. now \in Nat
    BY DEF RegistryTypeOK
  <1>2. ASSUME UNCHANGED treeVars, [RegistryNext]_registryVars
        PROVE  TreeInv'
    BY <1>2, ClaimsContinue, OutsideStep
  <1>3. CASE RegistryNext /\ UNCHANGED <<callVars, treeVars>>
    BY <1>2, <1>3
  <1>4. CASE UNCHANGED <<registryVars, treeVars>>
    BY <1>2, <1>4
  <1>5. ASSUME claims' = claims,
               \/ \E a \in Agents, n \in Depths, e \in ContextLifetimes : NewContext(a, n, e)
               \/ \E x \in DOMAIN contexts : Revoke(x)
        PROVE  TreeInv'
    BY <1>5, NewContextStep, RevokeStep
  <1>6. ASSUME claims' = claims, NEW t \in Threads, CheckRequest(t) \/ FinishSpawn(t)
        PROVE  TreeInv'
    BY <1>1, <1>6, CheckRequestStep, FinishSpawnStep
  <1>7. ASSUME claims' = claims, NEW t \in Threads, NEW x \in DOMAIN contexts,
               NEW a \in Agents, NEW q \in Requests, NEW e \in ExpiresIn, StartSpawn(t, x, a, q, e)
        PROVE  TreeInv'
    BY <1>1, <1>7, StartSpawnStep
  <1>8. ASSUME claims' = claims, NEW t \in Threads, NEW x \in DOMAIN contexts,
               VerifyBlocked(t, x) \/ \E plan \in Plans : VerifyThrough(t, x, plan)
        PROVE  TreeInv'
    BY <1>8, ThroughStep DEF VerifyBlocked, VerifyThrough
  <1>9. CASE UNCHANGED contextVars
    BY <1>4, <1>9 DEF contextVars, vars
  <1>10. UNCHANGED registryVars => claims' = claims
    BY DEF registryVars
  <1> QED BY <1>3, <1>4, <1>5, <1>6, <1>7, <1>8, <1>9, <1>10 DEF ContextNext

-----------------------------------------------------------------------------
(* The theorems                                                             *)

TreeAndGateInv == VerifierInv /\ TreeInv

\* In every reachable state the contexts form trees that are sound, whatever the
\* threads that spawn have still to check; and the gate is sound for them as well.
THEOREM ContextsAreSound == ContextSpec => []TreeAndGateInv
  <1>1. ContextInit => TreeAndGateInv
    BY VerifierInvInit, TreeInvInit DEF ContextInit, TreeAndGateInv
  <1>2. TreeAndGateInv /\ [ContextNext]_contextVars => TreeAndGateInv'
    BY GateInContext, TreeInvStep DEF TreeAndGateInv, VerifierInv
  <1> QED BY <1>1, <1>2, PTL DEF ContextSpec

\* Contexts and pending spawns are well formed and refer to existing contexts.
THEOREM ContextsTyped == ContextSpec => []ContextTypeOK
  <1>1. TreeAndGateInv => ContextTypeOK
    BY DEF TreeAndGateInv, TreeInv
  <1> QED BY <1>1, ContextsAreSound, PTL

\* No chain of spawns, however its steps are interleaved, is longer than the limit
\* of its root.
THEOREM DepthIsBounded == ContextSpec => []DepthBounded
  <1>1. TreeAndGateInv => DepthBounded
    BY DEF TreeAndGateInv, TreeInv, ContextSound, DepthBounded
  <1> QED BY <1>1, ContextsAreSound, PTL

\* No context outlives any of its ancestors, although spawn() looks at its parent
\* only, and some time before the child is made.
THEOREM ExpiriesNest == ContextSpec => []ExpiryNested
  <1>1. TreeAndGateInv => ExpiryNested
    BY DEF TreeAndGateInv, TreeInv, ContextSound, ExpiryNested
  <1> QED BY <1>1, ContextsAreSound, PTL

\* What a context was spawned for its parent's agent could read.
THEOREM SpawnsAreBacked == ContextSpec => []SpawnBacked
  <1>1. TreeAndGateInv => SpawnBacked
    BY DEF TreeAndGateInv, TreeInv, ContextSound, Readable, SpawnBacked
  <1> QED BY <1>1, ContextsAreSound, PTL

-----------------------------------------------------------------------------
(* Permits and lifetimes                                                    *)

\* A context verifies one action at a time: a call in progress has no result yet.
LEMMA OneResult ==
  ASSUME NEW c, NEW v, NEW n, CallInv(c, v, n)
  PROVE  /\ c.pc # "idle" => DOMAIN c.results = {}
         /\ \A k \in DOMAIN c.results : k = 1
  <1>1. c \in Call
    BY DEF CallInv, WellFormed
  <1>2. c.results \in Seq(Result) /\ c.plan \in Plans \cup {<<>>}
    BY <1>1 DEF Call
  <1>3. Len(c.plan) = 0 \/ Len(c.plan) = 1
    BY <1>2, ContextAssumption
  <1>4. DOMAIN c.results = 1 .. Len(c.results) /\ Len(c.results) \in Nat
    BY <1>2, LenProperties
  <1>5. /\ c.pc # "idle" => Len(c.results) < Len(c.plan)
        /\ c.pc = "idle" => Len(c.results) = Len(c.plan)
    BY DEF CallInv, WellFormed, Concluded
  <1>6. PICK m \in Nat, len \in {0, 1} : m = Len(c.results) /\ len = Len(c.plan)
    BY <1>3, <1>4
  <1>7. (m < len => m = 0) /\ (m = len => \A k \in 1 .. m : k = 1)
    <2>1. CASE len = 0
      BY <2>1
    <2>2. CASE len = 1
      BY <2>2
    <2> QED BY <2>1, <2>2
  <1>8. (c.pc # "idle" => m = 0) /\ \A k \in 1 .. m : k = 1
    BY <1>5, <1>6, <1>7
  <1> QED BY <1>4, <1>6, <1>8

\* An added, or revoked, context leaves the limits of all others as they were.
LEMMA AppendKeeps ==
  ASSUME NEW cs \in Seq(Context), NEW c
  PROVE  Kept(Append(cs, c), cs)
  <1>1. /\ DOMAIN cs = 1 .. Len(cs) /\ Len(cs) \in Nat
        /\ DOMAIN Append(cs, c) = 1 .. Len(cs) + 1
        /\ \A i \in 1 .. Len(cs) : Append(cs, c)[i] = cs[i]
    OBVIOUS
  <1>2. \A i \in 1 .. Len(cs) : i \in 1 .. Len(cs) + 1
    BY <1>1
  <1> QED BY <1>1, <1>2 DEF Kept

LEMMA RevokeKeeps ==
  ASSUME NEW cs \in Seq(Context), NEW x \in DOMAIN cs
  PROVE  Kept([cs EXCEPT ![x].revoked = TRUE], cs)
  <1>1. DOMAIN cs = 1 .. Len(cs) /\ \A y \in DOMAIN cs : cs[y] \in Context
    BY LenProperties, ElementOfSeq
  <1> QED BY <1>1 DEF Kept, Context

\* Contexts that are only added and revoked keep what was in their lifetime there.
LEMMA LifetimesStay ==
  ASSUME TreeInv, LifetimeInv, Kept(contexts', contexts), call' = call, through' = through
  PROVE  LifetimeInv'
  <1>1. /\ contexts \in Seq(Context) /\ through \in [Threads -> DOMAIN contexts \cup {NoContext}]
        /\ \A x \in DOMAIN contexts : ContextSound(contexts, claims, x)
    BY DEF TreeInv, ContextTypeOK
  <1>2. ASSUME NEW t \in Threads, NEW n, through[t] # NoContext,
               LastsUntil(contexts, through[t], n)
        PROVE  LastsUntil(contexts', through[t], n)
    BY <1>1, <1>2, LastsUntilStays
  <1> QED BY <1>2 DEF LifetimeInv, InLifetime

\* A step of one call, in the lifetime of its context.
LEMMA LifetimeOfOne ==
  ASSUME LifetimeInv, call \in [Threads -> Call], contexts' = contexts,
         NEW t \in Threads, NEW e, call' = [call EXCEPT ![t] = e],
         InLifetime(e, through'[t], contexts),
         \A u \in Threads \ {t} : through'[u] = through[u]
  PROVE  LifetimeInv'
  <1>1. \A u \in Threads : call'[u] = IF u = t THEN e ELSE call[u]
    OBVIOUS
  <1> QED BY <1>1 DEF LifetimeInv

\* A valid context is valid with all its ancestors' lifetimes: that is why it is
\* enough that verify() looks at the context only.
LEMMA ValidInLifetime ==
  ASSUME TreeInv, now \in Nat, NEW x \in DOMAIN contexts, ContextValid(contexts[x])
  PROVE  x # NoContext /\ LastsUntil(contexts, x, now)
  <1>1. contexts \in Seq(Context) /\ ContextSound(contexts, claims, x)
    BY DEF TreeInv, ContextTypeOK
  <1>2. x \in Nat /\ contexts[x].expiresAt \in Nat \cup {NoExpiry}
    BY <1>1, ContextFields
  <1>3. EndsBy(now, contexts[x].expiresAt)
    BY <1>2, ConstantsAssumption DEF ContextValid, ContextExpired, EndsBy
  <1>4. ASSUME NEW k \in DOMAIN contexts[x].chain
        PROVE  EndsBy(now, contexts[contexts[x].chain[k]].expiresAt)
    <2>1. contexts[x].chain[k] \in DOMAIN contexts
      BY <1>1, AncestorsExist
    <2>2. contexts[contexts[x].chain[k]].expiresAt \in Nat \cup {NoExpiry}
      BY <1>1, <2>1, ContextFields
    <2>3. EndsBy(contexts[x].expiresAt, contexts[contexts[x].chain[k]].expiresAt)
      BY <1>1 DEF ContextSound
    <2> QED BY <1>2, <1>3, <2>2, <2>3, EndsByTransitive
  <1> QED BY <1>2, <1>3, <1>4, ContextAssumption DEF LastsUntil

\* The steps of the gate take the start of the call over into its result.
LEMMA LifetimeGateStep ==
  ASSUME TreeAndGateInv, TreeAndGateInv', LifetimeInv, UNCHANGED treeVars,
         NEW t \in Threads, Verify(t) \/ Record(t) \/ RecordFails(t)
  PROVE  LifetimeInv'
  <1>1. /\ VerifierInv /\ call \in [Threads -> Call]
        /\ contexts' = contexts /\ through' = through
        /\ InLifetime(call[t], through[t], contexts)
    BY DEF TreeAndGateInv, VerifierInv, treeVars, LifetimeInv
  <1>2. ASSUME NEW e, call' = [call EXCEPT ![t] = e], InLifetime(e, through[t], contexts)
        PROVE  LifetimeInv'
    BY <1>1, <1>2, LifetimeOfOne
  <1>3. CASE Verify(t)
    <2>1. PICK e : /\ call' = [call EXCEPT ![t] = e]
                   /\ e.results = call[t].results /\ e.begun = call[t].begun
      BY <1>1, <1>3, VerifyKeeps
    <2>2. call[t].pc # "idle"
      BY <1>1, <1>3, VerifyKeeps
    <2> QED BY <1>1, <1>2, <2>1, <2>2 DEF InLifetime
  <1>4. CASE Record(t)
    <2>1. PICK e : e = TakeResult(t)
      OBVIOUS
    <2>2. call[t].pc = "record" /\ call' = [call EXCEPT ![t] = e]
      BY <1>4, <2>1 DEF Record
    <2>3. call'[t] = e
      BY <1>1, <2>2
    <2>4. CallInv(e, ViewOf(call[t])', now')
      BY <2>3 DEF TreeAndGateInv, VerifierInv
    <2>5. /\ e.pc # "idle" => DOMAIN e.results = {}
          /\ \A k \in DOMAIN e.results : k = 1
      BY <2>4, OneResult
    <2>6. PICK m \in Nat : /\ m + 1 \in DOMAIN e.results
                           /\ e.results[m + 1] = ResultOf(call[t])
      BY <1>1, <2>1, <2>2, TakenResults
    <2>7. e.pc = "idle" /\ \A k \in DOMAIN e.results : e.results[k] = ResultOf(call[t])
      BY <2>5, <2>6
    <2>8. ResultOf(call[t]).begun = call[t].begun
      BY DEF ResultOf
    <2>9. InLifetime(e, through[t], contexts)
      BY <1>1, <2>2, <2>7, <2>8 DEF InLifetime
    <2> QED BY <1>2, <2>2, <2>9
  <1>5. CASE RecordFails(t)
    <2>1. call' = [call EXCEPT ![t] = NoCall]
      BY <1>5 DEF RecordFails
    <2>2. InLifetime(NoCall, through[t], contexts)
      BY NoCallTyped DEF InLifetime
    <2> QED BY <1>2, <2>1, <2>2
  <1> QED BY <1>3, <1>4, <1>5

\* verify() begins in the lifetime of a valid context, or is refused.
LEMMA LifetimeBegins ==
  ASSUME TreeAndGateInv, LifetimeInv, NEW t \in Threads, NEW x \in DOMAIN contexts,
         VerifyBlocked(t, x) \/ \E plan \in Plans : VerifyThrough(t, x, plan)
  PROVE  LifetimeInv'
  <1>1. /\ TreeInv /\ call \in [Threads -> Call] /\ RegistryTypeOK /\ now \in Nat
        /\ through \in [Threads -> DOMAIN contexts \cup {NoContext}]
    BY DEF TreeAndGateInv, TreeInv, VerifierInv, ContextTypeOK, RegistryTypeOK
  <1>2. contexts' = contexts /\ through' = [through EXCEPT ![t] = x]
    BY DEF VerifyBlocked, VerifyThrough
  <1>3. through'[t] = x /\ \A u \in Threads \ {t} : through'[u] = through[u]
    BY <1>1, <1>2
  <1>4. CASE VerifyBlocked(t, x)
    <2>1. call' = [call EXCEPT ![t] = NoCall]
      BY <1>4 DEF VerifyBlocked
    <2>2. InLifetime(NoCall, x, contexts)
      BY NoCallTyped DEF InLifetime
    <2> QED BY <1>1, <1>2, <1>3, <2>1, <2>2, LifetimeOfOne
  <1>5. ASSUME NEW plan \in Plans, VerifyThrough(t, x, plan)
        PROVE  LifetimeInv'
    <2>1. PICK c : c = [NoCall EXCEPT !.registry = Live, !.plan = plan]
      OBVIOUS
    <2>2. PICK e : e = Enter(c, LiveRegistry)
      OBVIOUS
    <2>3. call' = [call EXCEPT ![t] = e]
      BY <1>5, <2>1, <2>2 DEF VerifyThrough, Submit, Enter, LiveRegistry
    <2>4. c \in Call /\ c.results = <<>>
      BY <2>1, NoCallTyped DEF Call
    <2>5. LiveRegistry \in Snapshot
      BY <1>1 DEF LiveRegistry, Snapshot, RegistryTypeOK
    <2>6. e.begun = now /\ e.results = <<>>
      BY <1>1, <2>2, <2>4, <2>5, EnterFields
    <2>7. x # NoContext /\ LastsUntil(contexts, x, now)
      BY <1>1, <1>5, ValidInLifetime DEF VerifyThrough
    <2>8. InLifetime(e, x, contexts)
      BY <2>6, <2>7 DEF InLifetime
    <2> QED BY <1>1, <1>2, <1>3, <2>3, <2>8, LifetimeOfOne
  <1> QED BY <1>4, <1>5

LEMMA LifetimeStep ==
  ASSUME TreeAndGateInv, TreeAndGateInv', LifetimeInv, [ContextNext]_contextVars
  PROVE  LifetimeInv'
  <1>1. TreeInv /\ contexts \in Seq(Context)
    BY DEF TreeAndGateInv, TreeInv, ContextTypeOK
  <1>2. ASSUME call' = call, through' = through, Kept(contexts', contexts)
        PROVE  LifetimeInv'
    BY <1>1, <1>2, LifetimesStay
  <1>3. ASSUME call' = call, through' = through, contexts' = contexts
        PROVE  LifetimeInv'
    BY <1>2, <1>3 DEF Kept
  <1>4. CASE RegistryNext /\ UNCHANGED <<callVars, treeVars>>
    BY <1>3, <1>4 DEF callVars, treeVars
  <1>5. CASE /\ \E t \in Threads : Verify(t) \/ Record(t) \/ RecordFails(t)
             /\ UNCHANGED <<registryVars, treeVars>>
    BY <1>5, LifetimeGateStep
  <1>6. CASE \/ \E a \in Agents, n \in Depths, e \in ContextLifetimes : NewContext(a, n, e)
             \/ \E t \in Threads : FinishSpawn(t)
    <2>1. /\ call' = call /\ through' = through
          /\ \E c : contexts' = Append(contexts, c)
      BY <1>6 DEF NewContext, FinishSpawn, callVars
    <2> QED BY <1>1, <1>2, <2>1, AppendKeeps
  <1>7. ASSUME NEW x \in DOMAIN contexts, Revoke(x)
        PROVE  LifetimeInv'
    <2>1. call' = call /\ through' = through
      BY <1>7 DEF Revoke, callVars
    <2> QED BY <1>1, <1>2, <1>7, <2>1, RevokeKeeps DEF Revoke
  <1>8. ASSUME \E t \in Threads :
                 \/ CheckRequest(t)
                 \/ \E x \in DOMAIN contexts, a \in Agents, q \in Requests, e \in ExpiresIn :
                      StartSpawn(t, x, a, q, e)
        PROVE  LifetimeInv'
    BY <1>3, <1>8 DEF CheckRequest, StartSpawn, callVars
  <1>9. ASSUME NEW t \in Threads, NEW x \in DOMAIN contexts,
               VerifyBlocked(t, x) \/ \E plan \in Plans : VerifyThrough(t, x, plan)
        PROVE  LifetimeInv'
    BY <1>9, LifetimeBegins
  <1>10. CASE UNCHANGED contextVars
    BY <1>3, <1>10 DEF contextVars, vars, callVars, treeVars
  <1> QED BY <1>4, <1>5, <1>6, <1>7, <1>8, <1>9, <1>10 DEF ContextNext

\* A permit through a context was begun before the context, and each of its
\* ancestors, expired.
THEOREM PermitsEndInTime == ContextSpec => []PermitWithinLifetimes
  <1>1. ContextInit => LifetimeInv
    <2> SUFFICES ASSUME ContextInit, NEW t \in Threads
                 PROVE  InLifetime(call[t], through[t], contexts)
      BY DEF LifetimeInv
    <2>1. call[t] = NoCall
      BY DEF ContextInit, Init
    <2> QED BY <2>1, NoCallTyped DEF InLifetime
  <1>2. /\ TreeAndGateInv /\ TreeAndGateInv' /\ LifetimeInv /\ [ContextNext]_contextVars
        => LifetimeInv'
    BY LifetimeStep
  <1>3. LifetimeInv => PermitWithinLifetimes
    BY DEF LifetimeInv, InLifetime, LastsUntil, PermitWithinLifetimes
  <1> QED BY <1>1, <1>2, <1>3, ContextsAreSound, PTL DEF ContextSpec
=============================================================================
