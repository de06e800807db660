SPECIFICATION Spec
CONSTANTS
  w = w
  x = x
  y = y
  z = z
  v1 = v1
  v2 = v2
  NULL = NULL
  Key <- FourKeys
  Value <- Values
  Hash <- HashOfKey
  InitialSize = 8
  MaxChain = 2
  MaxTable = 32
INVARIANTS TypeOK HalfEmpty Findable
PROPERTIES ImplementsDictionary PutReturns
