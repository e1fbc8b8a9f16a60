SPECIFICATION Spec
CONSTANTS
  Size = 50
  Requests = {4, 15}
  Validation = FALSE
  Realloc = FALSE
  LenMod = 4096
  WordMod = 65536
INVARIANT ReusedAfterFree
