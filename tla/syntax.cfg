CONSTANTS
  Families = {"Keys", "Paths", "Simple", "Numbers", "Structure", "Roots", "Quotes", "Lines", "Includes", "Arguments", "Marked"}
  Texts <- MCTexts
  Values <- MCValues
  Chr <- MCChr
  Overflows <- MCOverflows
SPECIFICATION Spec
CHECK_DEADLOCK FALSE
INVARIANTS
  KeysAreSplitText
  ReferencesAreSplitText
  ValuesKeepSpaces
  PlusAsLightbend
  AstKeepsTokens
  RoundTrip
