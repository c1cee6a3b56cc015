CONSTANTS
  NONE = NONE
  NULL = NULL
  LEFT = LEFT
  Leftovers = {LEFT}
  Values = {1}
  MaxObjs = 2
  Programs <- MCPrograms
SPECIFICATION Spec
CHECK_DEADLOCK FALSE
INVARIANTS TypeOK LoadedAsDeclared AddressesApart SlotsApart CachesCurrent
PROPERTIES ImplementsObjectModel
