SPECIFICATION Spec
CONSTANTS
  f1 = f1
  f2 = f2
  f3 = f3
  x = x
  y = y
  None = None
  Fun <- TwoFuns
  Var <- OneVar
  Form <- EmitForms
  MaxDepth = 5
  MaxBlock = 4
SYMMETRY Symmetry
INVARIANTS
  TypeOK
  ContextAgrees
  BuilderBlockOpen
  FinishedIsTerminated
  LoopIsInnermost
