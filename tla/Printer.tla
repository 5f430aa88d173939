------------------------------ MODULE Printer ------------------------------
(* The text of a sexp again: sexp_format of sexp.c.  That hexadecimal          *)
(* numerals are printed in decimals, and floats with six digits after the     *)
(* point, is left out.                                                        *)
EXTENDS SourceSexps

\* vsnprintf of a number, of which the digits are known.
format(val) == val \o <<NUL>>

\* sexp_format_into_buffer: every child but the first on a line of its own, as
\* far to the right as lists are around it.
RECURSIVE Format(_, _, _)

\* A mutated form, and the code's.
Separated_after_two(buf, i, indent) ==
  IF i <= 2 THEN buf
  ELSE buffer_append_chars(buf, <<"\n">> \o [n \in 1 .. indent |-> "space"])
Separated(buf, i, indent) ==
  IF i = 1 THEN buf
  ELSE buffer_append_chars(buf, <<"\n">> \o [n \in 1 .. indent |-> "space"])

Format(s, buf, indent) ==
  CASE s[1] = "list" ->
         LET child[i \in 0 .. Len(s[2])] ==
               IF i = 0 THEN buffer_append_char(buf, "(")
               ELSE Format(s[2][i], Separated(child[i - 1], i, indent + 1), indent + 1)
         IN  buffer_append_char(child[Len(s[2])], ")")
    [] s[1] \in {"sym", "str"} -> buffer_append_chars(buf, Chars(s[2]))
    [] s[1] = "null" -> buffer_append_chars(buf, <<"(", "N", "U", "L", "L", ")">>)
    [] OTHER -> LET tmp == format(s[2])
                IN  buffer_append_chars(buf, SubSeq(tmp, 1, strlen(tmp, NUL)))

sexp_format(s) ==
  LET stringbuilder == Format(s, buffer_new, 0)
  IN  lps_from_chars_with_len(stringbuilder.data, Len(stringbuilder.data))
=============================================================================
