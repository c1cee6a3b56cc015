CONSTANTS
  a1 = a1
  a2 = a2
  o = o
  NIL = NIL
  STALE = STALE
  NOBLK = NOBLK
  Arr <- MCArr
  Obj <- MCObj
  Blk <- MCBlk
  InitSize = 2
  Literals <- MCLiterals
  MaxLen <- MCMaxLen
  MaxAddr = 2
  Unsafe <- MCInPlace
SPECIFICATION Spec
INVARIANTS LengthsAgree
