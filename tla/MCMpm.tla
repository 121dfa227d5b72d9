------------------------------- MODULE MCMpm -------------------------------
(* Mpm with three nodes at most.                                           *)
EXTENDS Mpm, TLC

CONSTANTS a, b, c

CONSTANT MaxInAir

\* At most MaxInAir frames on their way at once.
InAir == {<<d, i>> \in Pairs \X (1 .. Air) : i <= Len(air[d])}
FewInAir == Cardinality(InAir) <= MaxInAir

Symmetry == Permutations(Nodes)
=============================================================================
