--------------------------- MODULE AuthorityGate ---------------------------
(***************************************************************************)
(* What the gate promises: verification is one atomic look at the          *)
(* registry.  Between the call and its answer there is one instant at      *)
(* which the verdict is exactly whether the action is authorized.          *)
(* FreedomVerifier implements this when no claim expires during a call.    *)
(***************************************************************************)
EXTENDS OwnershipRegistry

CONSTANTS Threads, Plans, NoAction

VARIABLE gate    \* per thread: the action being verified, and its verdict

gateVars == <<registryVars, gate>>

Actions == UNION {{plan[k] : k \in DOMAIN plan} : plan \in Plans}

NoVerdict == [action |-> NoAction, verdict |-> "none"]

GateInit == RegistryInit /\ gate = [t \in Threads |-> NoVerdict]

Authorized(a) ==
  /\ ~a.forbidden
  /\ a.actor \in Machines => a.governs = {} /\ machineOwners[a.actor] # NoOwner
  /\ \A d \in DOMAIN a.demands :
       CanAct(claims, a.actor, a.demands[d].resource, a.demands[d].op)

Begin(t, a) ==
  /\ gate[t].verdict # "pending"
  /\ gate' = [gate EXCEPT ![t] = [action |-> a, verdict |-> "pending"]]

Decide(t) ==
  /\ gate[t].verdict = "pending"
  /\ gate' = [gate EXCEPT ![t].verdict =
                IF Authorized(gate[t].action) THEN "permitted" ELSE "denied"]

End(t) ==
  /\ gate[t].verdict \in {"permitted", "denied"}
  /\ gate' = [gate EXCEPT ![t] = NoVerdict]

GateNext ==
  \/ RegistryNext /\ UNCHANGED gate
  \/ \E t \in Threads :
       /\ (\E a \in Actions : Begin(t, a)) \/ Decide(t) \/ End(t)
       /\ UNCHANGED registryVars

GateSpec == GateInit /\ [][GateNext]_gateVars
=============================================================================
