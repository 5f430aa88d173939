------------------------------ MODULE ReadBack ------------------------------
(* The reader beside the printer.                                              *)
EXTENDS Reader, Printer

\* Every symbol of a sexp is one, every other atom an integer.
RECURSIVE Plain(_)
Plain(s) ==
  IF s[1] = "list" THEN \A i \in DOMAIN s[2] : Plain(s[2][i]) ELSE s[1] \in {"sym", "int"}

-----------------------------------------------------------------------------
(* Properties *)

\* sexp_format prints a sexp of symbols, integers and lists as a text that is
\* read as the same sexp.
PrintsBack ==
  calls = <<>> /\ value # NoValue /\ Plain(value) =>
    Remaining(<<value>>, Lex(Append(Chars(sexp_format(value)), "\n"))) = <<>>
=============================================================================
