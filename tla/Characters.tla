----------------------------- MODULE Characters -----------------------------
(* The chars that the reader tells apart (reader.c, primitives.c), and what    *)
(* they stand for in strings and numerals.  The space, the semicolon and the  *)
(* double quote go by their names.                                            *)
EXTENDS Integers, SequencesExt

NUL == "NUL"                 \* the char '\0'

Blank == {"space", "\n"}
Delimiter == Blank \cup {"(", ")"}
Octal == {"0", "1", "2", "3", "4", "5", "6", "7"}
Digit == Octal \cup {"8", "9"}
HexDigit == Digit \cup {"a", "b", "c", "d", "e", "f"}

\* The chars of the read table.
readtable == {"semicolon", "#", "'", "quotes", "-"} \cup Digit

\* What a char after a backslash stands for.
Control == [a |-> "BEL", b |-> "BS", f |-> "FF", n |-> "\n", r |-> "CR", t |-> "TAB", v |-> "VT"]
SimpleEscape == DOMAIN Control \cup {"\\", "'", "quotes", "?"}
Escaped(c) == IF c \in DOMAIN Control THEN Control[c] ELSE c

\* The value of octal digits as a char, which has eight bits.  The nul is told
\* apart from the others.
Value(digits) ==
  LET Shift(v, c) == 8 * v + CHOOSE d \in 0 .. 7 : ToString(d) = c
  IN  FoldLeft(Shift, 0, digits)
OctalChar(digits) == IF Value(digits) % 256 = 0 THEN NUL ELSE ToString(Value(digits) % 256)

\* The char of a hexadecimal escape, whatever its digits: xchar_to_int of a
\* quote is -21.
HexChar == ToString((-21 * 16 - 21) % 256)

\* strtoll of digits with a minus or without, in the form it is printed in.
Integer(k) ==
  LET digits == IF k[1] = "-" THEN Tail(k) ELSE k
      zeros == {i \in DOMAIN digits : \A j \in 1 .. i : digits[j] = "0"}
      rest == SubSeq(digits, Cardinality(zeros) + 1, Len(digits))
  IN  IF rest = <<>> THEN <<"0">> ELSE IF k[1] = "-" THEN <<"-">> \o rest ELSE rest
=============================================================================
