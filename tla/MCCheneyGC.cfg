CONSTANTS
  INT = INT
  UDO = UDO
  NIL = NIL
  FREE = FREE
  NRoot = 2
  MaxFld = 2
  SegSize = 7
  MaxId = 4
  Kind <- MCKind
  Extent <- MCExtent
  NFlds <- MCNFlds
  AllocSize <- MCAllocSize
  CopySize <- MCCopySize
SPECIFICATION Spec
INVARIANTS TypeOK TriColour NoOverlap KeepsNoGarbage
PROPERTIES ScavengeAdvances RequestAnswered ImplementsHeap
CHECK_DEADLOCK FALSE
