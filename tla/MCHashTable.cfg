CONSTANTS
  CAPACITY = 2
  Key <- MCKey
  Value <- MCValue
  MaxChain = 3
SPECIFICATION Spec
INVARIANT TypeOK
PROPERTY ImplementsDictionary
