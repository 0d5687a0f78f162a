-------------------------- MODULE ExecutionContext -------------------------
(***************************************************************************)
(* Execution contexts (kernel/context.py): a tree of bounded scopes.  A    *)
(* context is verified through (its own revocation and expiry are checked, *)
(* then the gate of FreedomVerifier runs), it spawns children that share   *)
(* its registry, and it is revoked.  spawn() takes no lock: its checks,    *)
(* its reads of the registry and the creation of the child are separate    *)
(* steps, and so are the check of a context and the verdict of the gate.   *)
(***************************************************************************)
EXTENDS FreedomVerifier

CONSTANTS
  Depths,            \* the max_depth values of root contexts
  ContextLifetimes,  \* the expires_at values of root contexts
  ExpiresIn,         \* the expires_in values of spawn(), NoExpiry for None
  Requests,          \* the resource lists of spawn()
  NoSpawn, NoContext,
  MaxContexts        \* bound of the model

ASSUME ContextAssumption ==
  /\ Depths \subseteq Nat
  /\ ContextLifetimes \subseteq Nat \cup {NoExpiry}
  /\ ExpiresIn \subseteq Nat \cup {NoExpiry}
  /\ Requests \subseteq Seq(Resources)
  /\ \A plan \in Plans : Len(plan) = 1   \* ExecutionContext.verify takes one action
  /\ NoContext \notin Nat
  /\ MaxContexts \in Nat

VARIABLES
  contexts,   \* the contexts, in the order of their creation
  spawning,   \* per thread: the spawn() it runs
  through     \* per thread: the context of its verify() call

treeVars == <<contexts, spawning, through>>
contextVars == <<vars, treeVars>>

-----------------------------------------------------------------------------
\* chain holds the _parent links, root first; granted is history: the resources
\* that spawn() was asked for.
Context ==
  [agent : Agents, maxDepth : Depths, expiresAt : Nat \cup {NoExpiry},
   chain : Seq(Nat), depth : Nat, revoked : BOOLEAN, granted : SUBSET Resources]

ContextInit ==
  /\ Init
  /\ contexts = <<>>
  /\ spawning = [t \in Threads |-> NoSpawn]
  /\ through = [t \in Threads |-> NoContext]

ContextExpired(c) == c.expiresAt # NoExpiry /\ now > c.expiresAt

\* Mutant: expiry is not looked at.
ContextValidUnexpired(c) == ~c.revoked

ContextValid(c) == ~c.revoked /\ ~ContextExpired(c)

NewContext(agent, maxDepth, expiresAt) ==
  /\ Len(contexts) < MaxContexts
  /\ contexts' = Append(contexts,
       [agent |-> agent, maxDepth |-> maxDepth, expiresAt |-> expiresAt, chain |-> <<>>,
        depth |-> 0, revoked |-> FALSE, granted |-> Resources])
  /\ UNCHANGED <<spawning, through, callVars>>

Revoke(x) ==
  /\ contexts' = [contexts EXCEPT ![x].revoked = TRUE]
  /\ UNCHANGED <<spawning, through, callVars>>

Free(t) == call[t].pc = "idle" /\ spawning[t] = NoSpawn

\* verify() of a revoked or expired context: blocked before the gate.
VerifyBlocked(t, x) ==
  /\ Free(t)
  /\ ~ContextValid(contexts[x])
  /\ call' = [call EXCEPT ![t] = NoCall]
  /\ through' = [through EXCEPT ![t] = x]
  /\ UNCHANGED <<contexts, spawning, auditLog, auditFile>>

VerifyThrough(t, x, plan) ==
  /\ Free(t)
  /\ ContextValid(contexts[x])
  /\ Submit(t, plan, Live)
  /\ through' = [through EXCEPT ![t] = x]
  /\ UNCHANGED <<contexts, spawning>>

\* Mutant: the depth limit is off by one.
StartSpawnDeeper(t, x, agent, request, expiresIn) ==
  /\ Free(t)
  /\ ContextValid(contexts[x])
  /\ contexts[x].depth <= contexts[x].maxDepth
  /\ spawning' = [spawning EXCEPT ![t] =
       [parent |-> x, agent |-> agent, request |-> request, checked |-> 0,
        expiresIn |-> expiresIn, begun |-> now]]
  /\ UNCHANGED <<contexts, through, callVars>>

\* spawn(): the parent is valid and may go one level deeper.
StartSpawn(t, x, agent, request, expiresIn) ==
  /\ Free(t)
  /\ ContextValid(contexts[x])
  /\ contexts[x].depth < contexts[x].maxDepth
  /\ spawning' = [spawning EXCEPT ![t] =
       [parent |-> x, agent |-> agent, request |-> request, checked |-> 0,
        expiresIn |-> expiresIn, begun |-> now]]
  /\ UNCHANGED <<contexts, through, callVars>>

\* Mutant: any claim on the resource will do.
CheckRequestAnyRight(t) ==
  LET s == spawning[t]
      resource == s.request[s.checked + 1]
  IN
  /\ s # NoSpawn
  /\ s.checked < Len(s.request)
  /\ spawning' = [spawning EXCEPT ![t] =
                    IF ClaimsFor(claims, contexts[s.parent].agent, resource) # {}
                    THEN [s EXCEPT !.checked = @ + 1] ELSE NoSpawn]
  /\ UNCHANGED <<contexts, through, callVars>>

\* can_act(self.agent, resource, "read") on the next resource; PermissionError
\* abandons the spawn.
CheckRequest(t) ==
  LET s == spawning[t]
      resource == s.request[s.checked + 1]
      readable == CanAct(claims, contexts[s.parent].agent, resource, "read")
  IN
  /\ s # NoSpawn
  /\ s.checked < Len(s.request)
  /\ resource \notin PublicResources => inserting = <<>>
  /\ spawning' = [spawning EXCEPT ![t] =
                    IF readable \/ resource \in PublicResources
                    THEN [s EXCEPT !.checked = @ + 1] ELSE NoSpawn]
  /\ UNCHANGED <<contexts, through, callVars>>

\* Mutant: the requested expiry is not capped.
ChildExpiryUncapped(parentExpiry, expiresIn) ==
  IF expiresIn = NoExpiry THEN parentExpiry ELSE now + expiresIn

\* The child expires no later than the parent.
ChildExpiry(parentExpiry, expiresIn) ==
  IF expiresIn = NoExpiry THEN parentExpiry
  ELSE IF parentExpiry = NoExpiry THEN now + expiresIn
  ELSE Lower(now + expiresIn, parentExpiry)

\* Mutant: the child gets what is left of the depth, counted from its own.
FinishSpawnShallower(t) ==
  LET s == spawning[t]
      parent == contexts[s.parent]
  IN
  /\ s # NoSpawn
  /\ s.checked = Len(s.request)
  /\ Len(contexts) < MaxContexts
  /\ contexts' = Append(contexts,
       [agent |-> s.agent, maxDepth |-> parent.maxDepth - 1,
        expiresAt |-> ChildExpiry(parent.expiresAt, s.expiresIn),
        chain |-> Append(parent.chain, s.parent), depth |-> parent.depth + 1,
        revoked |-> FALSE, granted |-> {s.request[k] : k \in DOMAIN s.request}])
  /\ spawning' = [spawning EXCEPT ![t] = NoSpawn]
  /\ UNCHANGED <<through, callVars>>

FinishSpawn(t) ==
  LET s == spawning[t]
      parent == contexts[s.parent]
  IN
  /\ s # NoSpawn
  /\ s.checked = Len(s.request)
  /\ Len(contexts) < MaxContexts
  /\ contexts' = Append(contexts,
       [agent |-> s.agent, maxDepth |-> parent.maxDepth,
        expiresAt |-> ChildExpiry(parent.expiresAt, s.expiresIn),
        chain |-> Append(parent.chain, s.parent), depth |-> parent.depth + 1,
        revoked |-> FALSE, granted |-> {s.request[k] : k \in DOMAIN s.request}])
  /\ spawning' = [spawning EXCEPT ![t] = NoSpawn]
  /\ UNCHANGED <<through, callVars>>

ContextNext ==
  \/ RegistryNext /\ UNCHANGED <<callVars, treeVars>>
  \/ /\ \E t \in Threads : Verify(t) \/ Record(t) \/ RecordFails(t)
     /\ UNCHANGED <<registryVars, treeVars>>
  \/ /\ \/ \E a \in Agents, n \in Depths, e \in ContextLifetimes : NewContext(a, n, e)
        \/ \E x \in DOMAIN contexts : Revoke(x)
        \/ \E t \in Threads :
             \/ CheckRequest(t)
             \/ FinishSpawn(t)
             \/ \E x \in DOMAIN contexts :
                  \/ VerifyBlocked(t, x)
                  \/ \E plan \in Plans : VerifyThrough(t, x, plan)
                  \/ \E a \in Agents, q \in Requests, e \in ExpiresIn : StartSpawn(t, x, a, q, e)
     /\ UNCHANGED registryVars

ContextSpec == ContextInit /\ [][ContextNext]_contextVars

-----------------------------------------------------------------------------
(* Properties *)

Spawn ==
  [parent : Nat, agent : Agents, request : Requests, checked : Nat,
   expiresIn : ExpiresIn, begun : Nat]

\* Contexts and pending spawns are well formed and refer to existing contexts.
ContextTypeOK ==
  /\ contexts \in Seq(Context)
  /\ spawning \in [Threads -> Spawn \cup {NoSpawn}]
  /\ \A t \in Threads : spawning[t] # NoSpawn => spawning[t].parent \in DOMAIN contexts
  /\ through \in [Threads -> DOMAIN contexts \cup {NoContext}]

\* Depth limit: no chain of spawns is longer than max_depth of its root, which
\* all its contexts share.
DepthBounded ==
  \A x \in DOMAIN contexts :
    LET c == contexts[x] IN
    /\ c.depth = Len(c.chain)
    /\ c.depth <= c.maxDepth
    /\ \A k \in DOMAIN c.chain :
         /\ c.chain[k] \in 1 .. x - 1
         /\ contexts[c.chain[k]].maxDepth = c.maxDepth

EndsBy(e, f) == f = NoExpiry \/ (e # NoExpiry /\ e <= f)

\* No context outlives any of its ancestors, whenever its spawn was begun.
ExpiryNested ==
  \A x \in DOMAIN contexts : \A k \in DOMAIN contexts[x].chain :
    EndsBy(contexts[x].expiresAt, contexts[contexts[x].chain[k]].expiresAt)

\* A permitted call through a context began before the context and each of its
\* ancestors expired.
PermitWithinLifetimes ==
  \A t \in Threads : \A k \in DOMAIN call[t].results :
    call[t].results[k].permitted =>
      /\ through[t] # NoContext
      /\ \A y \in {through[t]} \cup {contexts[through[t]].chain[i] :
                                       i \in DOMAIN contexts[through[t]].chain} :
           EndsBy(call[t].results[k].begun, contexts[y].expiresAt)

\* Whatever the registry and the clock did while spawn() ran: each resource a
\* child was spawned for is public or claimed for reading by the parent's agent.
SpawnBacked ==
  \A x \in DOMAIN contexts : contexts[x].chain # <<>> =>
    \A r \in contexts[x].granted \ PublicResources :
      \E i \in DOMAIN claims :
        /\ claims[i].holder = contexts[contexts[x].chain[contexts[x].depth]].agent
        /\ claims[i].resource = r
        /\ "read" \in claims[i].rights

\* What the module docstring and ARCHITECTURE.md say of revocation: it cancels
\* the context and all its descendants.
RevocationReachesDescendants ==
  \A x \in DOMAIN contexts : ContextValid(contexts[x]) =>
    \A k \in DOMAIN contexts[x].chain : ~contexts[contexts[x].chain[k]].revoked
=============================================================================
