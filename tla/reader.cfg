SPECIFICATION Spec
CONSTANTS
  Programs <- Session
  Chars <- Characters
  Text <- Wording
  Indices = 4
INVARIANTS
  TypeOK
  ReadsMeaning
  UnreadIsIntact
  CommentsEnd
  NamesAreWhole
  Located
  QuoteRebuilds
CHECK_DEADLOCK FALSE
