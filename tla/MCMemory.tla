------------------------------- MODULE MCMemory -------------------------------
EXTENDS Memory, TLC

CONSTANTS a1, a2, w1, w2

MemorySymmetry == Permutations({a1, a2}) \cup Permutations({w1, w2})
=============================================================================
