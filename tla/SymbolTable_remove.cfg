\* Two symbols whose hashes meet: is a removed one gone?
SPECIFICATION SymbolSpec
CONSTANTS
  a = a
  b = b
  Keys = {a, b}
  Values = {nil, v}
  Bytes <- MCBytes
  HASHES = 8
  hasheq <- macro_hasheq
  HT__MIN_CAP = 4
  SIZE_MAX = 1000
  default_value = nil
  NULL = null
INVARIANT RemoveRemoves
CHECK_DEADLOCK FALSE
