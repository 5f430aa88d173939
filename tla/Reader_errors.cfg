\* Short texts of parentheses and floats: do the flags tell errors from the end?
SPECIFICATION Spec
CONSTANTS
  Which = "errors"
  Texts <- MCTexts
  BUFFER_CAPACITY = 2
  BYTE = 8
  HEX_DIGITS = 2
INVARIANT FlagsTell
CHECK_DEADLOCK FALSE
