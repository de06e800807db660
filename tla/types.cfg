SPECIFICATION Spec
CONSTANTS
  Var <- Variables
  TypeExpr <- Expressions
  Alias <- Aliases
  Struct <- Structs
  Fun <- SomeFunctions
  Slot <- Operands
  x = x
  left = left
  right = right
  None = None
SYMMETRY Alike
INVARIANTS
  TypeOK
  ValuesAgree
  InstructionsTyped
  FieldsHold
  OpaqueIsClosed
PROPERTIES
  NamesKeepMeaning
CHECK_DEADLOCK FALSE
