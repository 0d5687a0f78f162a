------------------------- MODULE MCFreedomVerifier -------------------------
(* Finite instances of FreedomVerifier for TLC. *)
EXTENDS FreedomVerifier, TLC

CONSTANTS h1, m1, r1, t1, t2

Act(actor, forbidden, governs, demands) ==
  [actor |-> actor, forbidden |-> forbidden, governs |-> governs, demands |-> demands]

On(op, resource) == [op |-> op, resource |-> resource]

WriteR1    == Act(m1, FALSE, {}, <<On("write", r1)>>)
ReadWrite  == Act(m1, FALSE, {}, <<On("read", r1), On("write", r1)>>)
HumanWrite == Act(h1, FALSE, {}, <<On("write", r1)>>)
Forbidden  == Act(m1, TRUE, {}, <<>>)
Governs    == Act(m1, FALSE, {h1}, <<>>)

Forever == {NoExpiry}
MCLifetimes == {0, NoExpiry}
MCRightSets == {{"write"}, {"read", "write"}}
WriteOnly == {{"write"}}

RacePlans == {<<ReadWrite>>, <<HumanWrite>>, <<Governs>>}
CutPlans == {<<ReadWrite, Forbidden, WriteR1>>, <<Governs>>}
GatePlans == {<<ReadWrite>>, <<HumanWrite, Governs>>, <<Forbidden, Forbidden>>}

MCSymmetry == Permutations(Threads)

\* Only one run explores snapshots, and only two run conflict hooks.
WithoutSnapshot == snapshot = NoSnapshot
WithoutHook == ~hookInstalled
=============================================================================
