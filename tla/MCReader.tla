------------------------------ MODULE MCReader ------------------------------
(* Instances of Reader for TLC: every text of a length over an alphabet.      *)
EXTENDS ReadBack

CONSTANT Which          \* which of the sets of texts below

OfLength(A, n) == UNION {[1 .. i -> A] : i \in 0 .. n}

\* Symbols and strings of up to nine chars, alone and in a list: one byte holds
\* a length of three, two and three bytes those of four and of eight.
Long ==
  {[i \in 1 .. n |-> "g"] : n \in 1 .. 9}
  \cup {<<"quotes">> \o [i \in 1 .. n |-> "g"] \o <<"quotes">> : n \in 1 .. 9}
  \cup {<<"(">> \o [i \in 1 .. m |-> "g"] \o <<"space">> \o [i \in 1 .. n |-> "g"] \o <<")">> : m, n \in 1 .. 9}

\* All kinds of tokens in short texts, then longer texts of fewer: lists with
\* comments and quotes, strings with escapes, numerals.
Programs ==
  OfLength({"(", ")", "space", "g", "0", "-", "semicolon", "#", "'", "quotes", "\n"}, 4)
  \cup OfLength({"(", ")", "g", "semicolon", "'", "\n"}, 5)
  \cup OfLength({"(", ")", "semicolon", "\n"}, 6)
  \cup {<<"(">> \o t : t \in OfLength({"(", ")", "-", "0", "space"}, 5)}
  \cup {<<"quotes">> \o t : t \in OfLength({"quotes", "\\", "0", "g", "n"}, 5)}
  \cup {<<"(", "quotes">> \o t : t \in OfLength({"quotes", "\\", "x", ")"}, 5)}
  \cup {<<"(", "0">> \o t : t \in OfLength({"0", "x", "a", "g", ")", "space"}, 4)}
  \cup {<<"(", "0", "x", "a", "a">> \o t : t \in OfLength({"a", ")", "space"}, 2)}
  \cup {<<"(", "0">> \o t : t \in OfLength({".", "0", "(", ")", "space"}, 4)}
  \cup {<<"quotes", "\\", c, "0", "0", "g", "quotes">> : c \in {"0", "1", "4"}}
  \cup {<<"(">> \o Chars(p_quote[2]) \o <<"space", "g", ")">>}
  \cup Long

\* Short texts of parentheses and floats.
Errors == OfLength({"(", ")", "0", ".", "space"}, 5)

MCTexts == IF Which = "programs" THEN Programs ELSE Errors
=============================================================================
