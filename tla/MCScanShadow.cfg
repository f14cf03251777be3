SPECIFICATION Spec
CONSTANTS
  Ware <- MCWare
  Words <- MCWords
  Folded <- MCFolded
  Programs <- MCShadowed
  NoDoc = NoDoc
  Nobody = Nobody
CHECK_DEADLOCK FALSE
INVARIANTS
  RoutesAreDocumented
