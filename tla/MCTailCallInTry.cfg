CONSTANTS
  IntBits = 8
  NIL = NIL
  NULL = NULL
  THISCLS = THISCLS
  info1 = info1
  info2 = info2
  ExInfo <- MCExInfo
  nret = nret
  nthrow = nthrow
  Programs <- MCTailCallInTry
  Native <- MCNative
  StackSize = 34
  Slack = 3
  Shape <- ShapeOf
SPECIFICATION Spec
INVARIANTS HandledIsHandled
CHECK_DEADLOCK FALSE
