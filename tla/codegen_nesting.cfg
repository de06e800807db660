SPECIFICATION Spec
CONSTANTS
  f1 = f1
  f2 = f2
  f3 = f3
  x = x
  y = y
  None = None
  Fun <- ThreeFuns
  Var <- OneVar
  Form <- NestingForms
  MaxDepth = 5
  MaxBlock = 1
SYMMETRY Symmetry
INVARIANTS
  ContextAgrees
  LookupIsLocal
  ScopesAreOpen
  CalleeInModule
  PrecompiledFollowsFile
PROPERTY ImplementsActivation
