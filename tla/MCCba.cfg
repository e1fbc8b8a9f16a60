SPECIFICATION Spec
CONSTANTS
  Size = 58
  Requests = {0, 4, 9, 15}
  Validation = TRUE
  Realloc = TRUE
  LenMod = 4096
  WordMod = 65536
INVARIANT TypeOK
INVARIANT ChainLinked
INVARIANT NoOverlap
INVARIANT BlockHoldsRequest
INVARIANT InOrderLosesNothing
PROPERTY ReclaimsRightly
PROPERTY ImplementsPool
