CONSTANTS
  KeyIndex <- MCKeyIndex
  EnvPaths = {}
  EnvLists = {}
  UseSystemEnvironment = FALSE
  MaxRecursion = 16
  PathText <- MCPathText
  Stacks <- MCStacks
  Sources <- MCSources
  MaxSteps = 3
SPECIFICATION Spec
CHECK_DEADLOCK FALSE
INVARIANTS
  ReadsAreFinal
  LiteralKeysWin
  NothingDisappears
  ResolvesToLayers
  SourceStaysOutside
  LayersLookBackOnly
