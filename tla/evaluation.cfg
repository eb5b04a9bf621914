CONSTANTS
  Keys <- MCKeys
  Strings <- MCStrings
  Trees <- MCTrees
  Documents <- MCDocuments
  Environment <- MCEnvironment
  MaxRecursion = 10
SPECIFICATION Spec
CHECK_DEADLOCK FALSE
INVARIANTS
  GuardIsExact
  KeysGetTheirMeaning
  AgreesWithResolver
  ErrorsHaveACause
  DocumentsGetTheirMeaning
