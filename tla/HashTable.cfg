\* Three keys and two values in a table that starts with four slots, not 32.
SPECIFICATION Spec
CONSTANTS
  a = a
  b = b
  c = c
  Keys = {a, b, c}
  Bytes <- MCBytes
  HASHES = 8
  Values = {nil, v}
  hasheq <- lps_hasheq
  HT__MIN_CAP = 4
  default_value = nil
  NULL = null
INVARIANTS
  TypeOK
  CountsExact
  AssertsHold
  PointersHold
PROPERTY ImplementsMap
