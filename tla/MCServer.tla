------------------------------ MODULE MCServer ------------------------------
EXTENDS Server, TLC

CONSTANTS a1, a2, x

MCHostOf == [a \in Addrs |-> x]
Symmetry == Permutations(Callers) \cup Permutations(Addrs)
=============================================================================
