------------------------- MODULE MCExecutionContext ------------------------
(* Finite instances of ExecutionContext for TLC. *)
EXTENDS ExecutionContext, TLC

CONSTANTS h1, m1, m2, r1, r2, t1, t2

On(op, resource) == [op |-> op, resource |-> resource]

HumanRead == [actor |-> h1, forbidden |-> FALSE, governs |-> {}, demands |-> <<On("read", r1)>>]

OnePlan == {<<HumanRead>>}
ReadOrWrite == {{"read"}, {"write"}}
RequestR1 == {<<r1>>}
RequestNone == {<<>>}
OrNever == {1, NoExpiry}
ZeroOrNever == {0, NoExpiry}
Never == {NoExpiry}

ThreadSymmetry == Permutations(Threads)

WithoutHookAndSnapshot == snapshot = NoSnapshot /\ ~hookInstalled
OwnersUnset == \A m \in Machines : machineOwners[m] = NoOwner
Small == WithoutHookAndSnapshot /\ OwnersUnset
=============================================================================
