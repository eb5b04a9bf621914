CONSTANTS
  Families = {"Structure"}
  Texts <- MCTexts
  Values <- NoTrees
  Chr <- MCChr
  Overflows <- MCOverflows
SPECIFICATION Spec
CHECK_DEADLOCK FALSE
INVARIANTS
  NothingIgnored
