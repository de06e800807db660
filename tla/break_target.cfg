SPECIFICATION Spec
CONSTANTS
  f1 = f1
  f2 = f2
  f3 = f3
  x = x
  y = y
  None = None
  Fun <- TwoFuns
  Var <- OneVar
  Form <- BlockForms
  MaxDepth = 4
  MaxBlock = 4
INVARIANT BranchStaysInFunction
