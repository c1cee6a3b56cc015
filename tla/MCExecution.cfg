CONSTANTS
  IntBits = 8
  NIL = NIL
  NULL = NULL
  THISCLS = THISCLS
  info1 = info1
  info2 = info2
  ExInfo <- MCExInfo
  nret = nret
  nthrow = nthrow
  Programs <- MCPrograms
  Native <- MCNative
  StackSize = 34
  Slack = 3
  Shape <- ShapeOf
SPECIFICATION Spec
INVARIANTS StartsWellTyped ReadsBack TypeOK AgreesWithSource FrameChain InMemory TailCallsAreFree OperandsBalanced
PROPERTIES Termination CallersUntouched
CHECK_DEADLOCK FALSE
