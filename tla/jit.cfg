SPECIFICATION Spec
CONSTANTS
  m = m
  f = f
  g = g
  l1 = l1
  l2 = l2
  None = None
  FunName <- Functions
  GlobalName <- Globals
  CMacro <- CMacros
  Exported <- CMacros
  LambdaForm <- Lambdas
  FileIdx <- FileOf
  CharIdx <- CharOf
  Objects <- Loadable
  MaxNest = 1
  MaxIncludes = 1
INVARIANTS
  TypeOK
  CallRunsLatest
  CodeAgreesWithMacros
  GlobalsAgree
  LinkableIsCompiled
  LambdaIsOwn
