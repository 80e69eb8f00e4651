-------------------------- MODULE MCHealthJobQueue --------------------------
(* Small instances of HealthJobQueue for TLC. *)
EXTENDS HealthJobQueue, TLC

CONSTANTS w1, w2, j1, j2, i1

OneLimit == {1}
TwoLimits == {0, 1}
ArgvOneTwo == {0, 2}
ArgvOneTwoThree == {0, 2, 3}

Symmetry == Permutations(Workers) \cup Permutations(Enqueuers)
=============================================================================
