\* The fifteen chars of primitive_reader_macros, " # ' - 0 .. 9 ;
SPECIFICATION HMSpec
CONSTANTS
  Chars = {34, 35, 39, 45, 48, 49, 50, 51, 52, 53, 54, 55, 56, 57, 59}
  Rank <- MCRank
  INITIAL_SIZE = 16
  EMPTY = null
INVARIANTS
  HMTypeOK
  EntriesKept
  LoadBounded
  Found
CHECK_DEADLOCK FALSE
