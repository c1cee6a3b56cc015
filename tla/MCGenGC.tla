------------------------------ MODULE MCGenGC ------------------------------
(***************************************************************************)
(* GenGC with two root slots and three objects of one field.              *)
(***************************************************************************)
EXTENDS GenGC, TLC

CONSTANTS i1, i2, i3

MCId == {i1, i2, i3}
Symmetry == Permutations(MCId)
MCFld == {1}
MCInteger == {"integer"}
MCCopiedNeighbour == {"copied neighbour"}
=============================================================================
