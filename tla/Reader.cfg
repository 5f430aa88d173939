\* Every text of the sets in MCReader!Programs; bytes of three bits, buffers that
\* start with two chars, hexadecimal numerals of two digits.
SPECIFICATION FairSpec
CONSTANTS
  Which = "programs"
  Texts <- MCTexts
  BUFFER_CAPACITY = 2
  BYTE = 8
  HEX_DIGITS = 2
INVARIANTS
  TypeOK
  ReadsText
  ErrorsExact
  PrintsBack
PROPERTY Terminates
CHECK_DEADLOCK FALSE
