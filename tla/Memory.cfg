\* Words of two bytes, regions of three words, a sexp of a word; three nodes and eight objects.
SPECIFICATION Spec
CONSTANTS
  WORD = 2
  ARENA_REGION_DEFAULT_CAPACITY = 3
  Sexp = 2
  CallTree = 3
  Symboltable = 2
  ArgCounts = {0, 1}
  Sizes = {7}
  Lengths = {2}
  NOB_DA_INIT_CAP = 1
  MAX_NODES = 3
  MAX_OBJECTS = 8
  MAX_CHILDREN = 2
INVARIANTS
  TypeOK
  ObjectsKept
  PoolReuses
CHECK_DEADLOCK FALSE
