------------------------ MODULE MCOwnershipRegistry ------------------------
(* Finite instances of OwnershipRegistry for TLC. *)
EXTENDS OwnershipRegistry, TLC

CONSTANTS h1, h2, h3, m1, r1, r2

MCLifetimes == {0, NoExpiry}
WriteOnly == {{"write"}}
DelegationRights == {{"write"}, {"read", "delegate"}, {"read", "write", "delegate"}}

MCSymmetry == Permutations({h1, h2})

\* freeze() leaves the registry as it is: only one run explores its snapshots.
WithoutSnapshot == snapshot = NoSnapshot
=============================================================================
