---------------------------- MODULE EthicsScript ----------------------------
(***************************************************************************)
(* The standalone script azadi_ai_ethics.py: humans own resources, each    *)
(* machine has a human owner, who delegates resources to it; an action is  *)
(* checked against all of that, its consents, and the compass, whose       *)
(* formula is that of extensions/compass.py.                               *)
(***************************************************************************)
EXTENDS Advisory, Sequences

CONSTANTS
  ScriptHumans, ScriptMachines, ScriptResources,
  ScriptActions,   \* the actions that are checked
  Ownerless

Entities == ScriptHumans \cup ScriptMachines

\* What may be wrong with a consent; worlds is <<before, after>>, or empty.
Defects == {"coerced", "deceived", "uninformed", "involuntary", "unspecific", "incompetent",
            "irrevocable"}

ScriptAction == [actor : Entities, affects : SUBSET Entities, uses : SUBSET ScriptResources,
                 consents : SUBSET SUBSET Defects, flagged : BOOLEAN,
                 worlds : {<<>>} \cup (World \X World)]

ASSUME EthicsScriptAssumption ==
  /\ ScriptHumans \cap ScriptMachines = {}
  /\ ScriptActions \subseteq ScriptAction
  /\ Ownerless \notin ScriptHumans

VARIABLES
  property,      \* _human_owners
  ownerOf,       \* _machine_owners
  delegated,     \* _delegations
  permissible,   \* the action that check_action has checked last, if it was permissible
  owners         \* history: all that have been the owner of each machine

scriptVars == <<property, ownerOf, delegated, permissible, owners>>

-----------------------------------------------------------------------------
ScriptInit ==
  /\ property = [h \in ScriptHumans |-> {}]
  /\ ownerOf = [m \in ScriptMachines |-> Ownerless]
  /\ delegated = [m \in ScriptMachines |-> {}]
  /\ permissible = {}
  /\ owners = [m \in ScriptMachines |-> {}]

RegisterHuman(h, resources) ==
  /\ property' = [property EXCEPT ![h] = @ \cup resources]
  /\ UNCHANGED <<ownerOf, delegated, permissible, owners>>

\* A machine keeps what former owners delegated to it.
AssignMachineOwner(m, h) ==
  /\ ownerOf' = [ownerOf EXCEPT ![m] = h]
  /\ owners' = [owners EXCEPT ![m] = @ \cup {h}]
  /\ UNCHANGED <<property, delegated, permissible>>

\* Mutant: whoever owns the machine delegates what anybody owns.
DelegateResourceOfAnybody(h, m, r) ==
  /\ ownerOf[m] = h
  /\ delegated' = [delegated EXCEPT ![m] = @ \cup {r}]
  /\ UNCHANGED <<property, ownerOf, permissible, owners>>

\* Only the owner of the machine, and only what the owner owns; else nothing.
DelegateResource(h, m, r) ==
  /\ ownerOf[m] = h
  /\ r \in property[h]
  /\ delegated' = [delegated EXCEPT ![m] = @ \cup {r}]
  /\ UNCHANGED <<property, ownerOf, permissible, owners>>

ConsentIsValid(defects) == defects \subseteq {"irrevocable"}

MayUse(actor, r) ==
  IF actor \in ScriptHumans THEN r \in property[actor] ELSE r \in delegated[actor]

\* A6, and A2: no human is affected by a machine or by another human.
AffectsNoOther(a) == a.affects \cap ScriptHumans \subseteq {a.actor}

IsPermissible(a) ==
  /\ ~a.flagged
  /\ \A r \in a.uses : MayUse(a.actor, r)
  /\ \A c \in a.consents : ConsentIsValid(c)
  /\ AffectsNoOther(a)

\* The veto is a score of -1e9; unlike compass.py, any negative score blocks.
Worsens(worlds) ==
  worlds # <<>> /\ (Vetoed(worlds[1], worlds[2]) \/ CompassScore(worlds[1], worlds[2]) < 0)

CheckScriptAction(a) ==
  /\ permissible' = IF IsPermissible(a) /\ ~Worsens(a.worlds) THEN {a} ELSE {}
  /\ UNCHANGED <<property, ownerOf, delegated, owners>>

ScriptNext ==
  \/ \E h \in ScriptHumans, rs \in SUBSET ScriptResources : RegisterHuman(h, rs)
  \/ \E m \in ScriptMachines, h \in ScriptHumans : AssignMachineOwner(m, h)
  \/ \E h \in ScriptHumans, m \in ScriptMachines, r \in ScriptResources : DelegateResource(h, m, r)
  \/ \E a \in ScriptActions : CheckScriptAction(a)

ScriptSpec == ScriptInit /\ [][ScriptNext]_scriptVars

-----------------------------------------------------------------------------
(* Properties *)

\* Resources and owners are of their kinds.
ScriptTypeOK ==
  /\ property \in [ScriptHumans -> SUBSET ScriptResources]
  /\ ownerOf \in [ScriptMachines -> ScriptHumans \cup {Ownerless}]
  /\ delegated \in [ScriptMachines -> SUBSET ScriptResources]
  /\ permissible \subseteq ScriptActions

\* However owners change and property grows: what a machine may use, a human who
\* was its owner owns; an action found permissible uses only that, or what its human
\* actor owns, affects no other human, and takes the world to no worse one.
PermissibleIsRooted ==
  /\ \A m \in ScriptMachines : \A r \in delegated[m] : \E h \in owners[m] : r \in property[h]
  /\ \A a \in permissible :
       /\ \A r \in a.uses :
            \E h \in (IF a.actor \in ScriptHumans THEN {a.actor} ELSE owners[a.actor]) :
              r \in property[h]
       /\ a.affects \cap ScriptHumans \subseteq {a.actor}
       /\ a.worlds # <<>> => /\ a.worlds[2].sovereignty <= a.worlds[1].sovereignty
                             /\ CompassScore(a.worlds[1], a.worlds[2]) >= 0
=============================================================================
