CONSTANTS
  Families = {}
  Texts <- MCTexts
  Values <- KeysOfLines
  Chr <- MCChr
  Overflows <- MCOverflows
SPECIFICATION Spec
CHECK_DEADLOCK FALSE
INVARIANTS
  RoundTrip
