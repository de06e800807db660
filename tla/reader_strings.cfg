SPECIFICATION Spec
CONSTANTS
  Programs <- WithBrackets
  Chars <- Characters
  Text <- Wording
  Indices = 65536
INVARIANTS
  ReadsMeaning
CHECK_DEADLOCK FALSE
