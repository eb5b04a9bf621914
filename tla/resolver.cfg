CONSTANTS
  KeyIndex <- MCKeyIndex
  EnvPaths <- MCEnvPaths
  EnvLists <- MCEnvLists
  UseSystemEnvironment = TRUE
  MaxRecursion = 16
  Vocabularies <- References
  MaxFields = 4
  Allowed = {FALSE, TRUE}
SPECIFICATION Spec
CHECK_DEADLOCK FALSE
INVARIANTS
  TypeOK
  PriorsSelfRefFree
  ResolvesToMeaning
  ReferencesSeeMergedValues
  IncludeIsInlining
  CyclesAreRejected
  PartialAgreesWithStrict
