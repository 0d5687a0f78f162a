------------------------------- MODULE Service -------------------------------
(***************************************************************************)
(* The HTTP service (api/app.py): one registry, one extended verifier      *)
(* (extensions/__init__.py) with its conflict queue, and requests that the *)
(* server runs in several threads.  A request is sent, executed and        *)
(* answered; others are executed in between.  The handlers call the gate   *)
(* once, as one step: claims made through the service do not expire, so    *)
(* that FreedomVerifier implements the atomic gate.  The extended verifier *)
(* adds warnings to the verdict of the gate and nothing else.              *)
(***************************************************************************)
EXTENDS AuthorityGate, ConflictQueue

VARIABLES
  requests,      \* per thread: its request and how far it is
  acknowledged   \* history: what clients know to be registered or resolved

serviceVars == <<gateVars, queueVars, requests, acknowledged>>

-----------------------------------------------------------------------------
NoRequest == [stage |-> "none"]

ServiceInit ==
  /\ GateInit
  /\ QueueInit
  /\ requests = [t \in Threads |-> NoRequest]
  /\ acknowledged = {}

\* ClaimRequest has no expiry.
ServiceClaims == {c \in NewClaims : c.expiresAt = NoExpiry}

\* A request, with what clients know when it is sent.
Send(t, kind, body) ==
  /\ requests[t].stage = "none"
  /\ requests' = [requests EXCEPT ![t] =
       [stage |-> "sent", kind |-> kind, body |-> body, status |-> 0, permitted |-> FALSE,
        known |-> acknowledged]]
  /\ UNCHANGED <<registryVars, queueVars, gate, acknowledged>>

\* GET /conflicts lists the conflicts of the registry.
SendSome(t) ==
  \/ \E c \in ServiceClaims : Send(t, "claim", c)
  \/ \E m, owner \in Agents : Send(t, "machine", [machine |-> m, owner |-> owner])
  \/ \E a \in Actions : Send(t, "verify", a)
  \/ \E position \in DOMAIN conflicts : Send(t, "resolve", position)

Executing(t, kind) == requests[t].stage = "sent" /\ requests[t].kind = kind

Answer(t, status, permitted) ==
  requests' = [requests EXCEPT ![t].stage = "executed", ![t].status = status,
                               ![t].permitted = permitted]

\* POST /claim
ExecuteClaim(t) ==
  /\ Executing(t, "claim")
  /\ AddClaim(requests[t].body)
  /\ Answer(t, 200, FALSE)
  /\ UNCHANGED <<queueVars, gate, acknowledged>>

\* Mutant: the TypeError of the registry is answered as a success.
ExecuteMachineAnyway(t) ==
  LET body == requests[t].body IN
  /\ Executing(t, "machine")
  /\ Answer(t, 200, FALSE)
  /\ IF body.machine \in Machines /\ body.owner \in Humans
     THEN RegisterMachine(body.machine, body.owner) ELSE UNCHANGED registryVars
  /\ UNCHANGED <<queueVars, gate, acknowledged>>

\* POST /machine: an ill-kinded machine or owner is a TypeError, answered as 422.
ExecuteMachine(t) ==
  LET body == requests[t].body IN
  /\ Executing(t, "machine")
  /\ \/ /\ body.machine \in Machines /\ body.owner \in Humans
        /\ RegisterMachine(body.machine, body.owner)
        /\ Answer(t, 200, FALSE)
     \/ /\ body.machine \notin Machines \/ body.owner \notin Humans
        /\ Answer(t, 422, FALSE)
        /\ UNCHANGED registryVars
  /\ UNCHANGED <<queueVars, gate, acknowledged>>

\* POST /verify
ExecuteVerify(t) ==
  /\ Executing(t, "verify")
  /\ Answer(t, 200, Authorized(requests[t].body))
  /\ UNCHANGED <<registryVars, queueVars, gate, acknowledged>>

\* POST /conflict/resolve: a position that the queue does not have is a 404.
ExecuteResolve(t) ==
  LET at == At(pending, requests[t].body)
      found == at \in DOMAIN pending
  IN
  /\ Executing(t, "resolve")
  /\ pending' = IF found THEN Without(pending, at) ELSE pending
  /\ Answer(t, IF found THEN 200 ELSE 404, FALSE)
  /\ UNCHANGED <<registryVars, gate, added, decided, arbitrated, rivals, acknowledged>>

\* The client has the answer.
Receive(t) ==
  LET request == requests[t] IN
  /\ request.stage = "executed"
  /\ acknowledged' =
       IF request.kind # "verify" /\ request.status = 200
       THEN acknowledged \cup {[kind |-> request.kind, body |-> request.body]}
       ELSE acknowledged
  /\ requests' = [requests EXCEPT ![t] = NoRequest]
  /\ UNCHANGED <<registryVars, queueVars, gate>>

ServiceNext ==
  \E t \in Threads :
    \/ SendSome(t)
    \/ ExecuteClaim(t)
    \/ ExecuteMachine(t)
    \/ ExecuteVerify(t)
    \/ ExecuteResolve(t)
    \/ Receive(t)

ServiceSpec == ServiceInit /\ [][ServiceNext]_serviceVars

-----------------------------------------------------------------------------
(* Properties *)

Acknowledgement ==
  [kind : {"claim"}, body : ServiceClaims] \cup
  [kind : {"machine"}, body : [machine : Agents, owner : Agents]] \cup
  [kind : {"resolve"}, body : Nat]

\* Requests are at a stage, and what is acknowledged is a request.
ServiceTypeOK ==
  /\ acknowledged \subseteq Acknowledgement
  /\ \A t \in Threads :
       \/ requests[t] = NoRequest
       \/ /\ requests[t].stage \in {"sent", "executed"}
          /\ requests[t].kind \in {"claim", "machine", "verify", "resolve"}
          /\ requests[t].known \subseteq acknowledged
          /\ requests[t].status \in {0, 200, 404, 422}

\* What a client knows when it asks is honoured, however the server runs requests:
\* an action is not denied if it is not forbidden and governs nobody, and for each
\* demand, and for a machine's owner, a request was acknowledged before.
AcknowledgedIsHonoured ==
  \A t \in Threads :
    LET request == requests[t]
        knows(kind, P(_)) == \E k \in request.known : k.kind = kind /\ P(k.body)
    IN  /\ request.stage = "executed" /\ request.kind = "verify"
        /\ ~request.body.forbidden /\ request.body.governs = {}
        /\ request.body.actor \in Machines =>
             knows("machine", LAMBDA b : b.machine = request.body.actor)
        /\ \A d \in DOMAIN request.body.demands :
             knows("claim", LAMBDA b :
               /\ b.holder = request.body.actor
               /\ b.resource = request.body.demands[d].resource
               /\ request.body.demands[d].op \in b.rights
               /\ b.confidence > 0)
        => request.permitted

\* What the summaries of GET /conflicts and of POST /conflict/resolve say: a human
\* arbitrates the open conflicts that are listed, so none of them is unknown when
\* it is to be resolved, as long as nobody has resolved any.
ListedConflictsResolvable ==
  \A t \in Threads :
    requests[t].stage = "executed" /\ requests[t].kind = "resolve"
      /\ requests[t].status = 404
    => \/ \E k \in acknowledged : k.kind = "resolve"
       \/ \E u \in Threads : /\ requests[u].stage = "executed"
                             /\ requests[u].kind = "resolve" /\ requests[u].status = 200
=============================================================================
