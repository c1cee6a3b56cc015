CONSTANTS
  IntBits = 8
  NIL = NIL
  NULL = NULL
  THISCLS = THISCLS
  info1 = info1
  info2 = info2
  ExInfo <- MCExInfo
  nret = nret
  nthrow = nthrow
  Programs <- MCThrowBeforeTry
  Native <- MCNative
  StackSize = 34
  Slack = 3
  Shape <- ShapeOf
SPECIFICATION Spec
PROPERTIES HandlesOnlyInside
CHECK_DEADLOCK FALSE
