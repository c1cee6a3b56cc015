CONSTANTS
  i1 = i1
  i2 = i2
  i3 = i3
  NIL = NIL
  INT = INT
  STALE = STALE
  Id <- MCId
  Fld <- MCFld
  NRoot = 2
  MaxRs = 3
  Unsafe <- MCCopiedNeighbour
SYMMETRY Symmetry
SPECIFICATION Spec
INVARIANTS OldToNew
