------------------------------ MODULE MCRingLF -------------------------------
EXTENDS RingLF, TLC

CONSTANTS p1, p2, c1, c2, o1

Symm == Permutations(Producers) \cup Permutations(Consumers)
==============================================================================
