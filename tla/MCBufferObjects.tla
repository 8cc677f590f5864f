-------------------------- MODULE MCBufferObjects --------------------------
(* Two names beside 0, two addresses, two texture units.                   *)
EXTENDS BufferObjects, TLC
CONSTANTS o1, o2, u1, u2
MCNames == 0 .. 2
MCObjects == {o1, o2}
MCUnits == {u1, u2}
MCSizes == 0 .. 2
Symmetry == Permutations(MCObjects) \union Permutations(MCUnits)
=============================================================================
