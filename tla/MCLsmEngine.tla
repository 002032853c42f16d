---------------------------- MODULE MCLsmEngine ----------------------------
(* Instantiates LsmEngine for TLC: two keys as model values.              *)
EXTENDS LsmEngine

CONSTANTS k1, k2

MCKeys == {k1, k2}

\* keys are only compared for equality, and every property ranges over all
\* of them
MCSymmetry == Permutations(MCKeys)

=============================================================================
