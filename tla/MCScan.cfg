SPECIFICATION Spec
CONSTANTS
  Ware <- MCWare
  Words <- MCWords
  Folded <- MCFolded
  Programs <- MCPrograms
  NoDoc = NoDoc
  Nobody = Nobody
CHECK_DEADLOCK FALSE
INVARIANTS
  RoutesAreDocumented
  NothingElseIsDocumented
  GuardsAreDocumented
  DocumentIsSound
  AnswersAreDocumented
  LintNamesLostRoutes
