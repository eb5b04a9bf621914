CONSTANTS
  KeyIndex <- MCKeyIndex
  EnvPaths <- MCEnvPaths
  EnvLists <- MCEnvLists
  UseSystemEnvironment = TRUE
  MaxRecursion = 16
  Vocabularies <- Missing
  MaxFields = 4
  Allowed = {FALSE, TRUE}
SPECIFICATION Spec
CHECK_DEADLOCK FALSE
INVARIANTS
  ResolvesToMeaning
  PartialKeepsUnresolved
  UndefinedIsRejected
