-------------------------- MODULE MCMeteringRollup --------------------------
EXTENDS MeteringRollup, TLC

CONSTANTS a1, a2

Symmetry == Permutations(Agents)
=============================================================================
