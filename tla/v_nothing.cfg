CONSTANTS
  Keys <- MCKeys
  Strings <- MCStrings
  Trees <- DocumentTrees
  Documents <- NothingDocuments
  Environment <- MCEnvironment
  MaxRecursion = 10
SPECIFICATION Spec
CHECK_DEADLOCK FALSE
INVARIANT RequiredHasAValue
