------------------------------- MODULE Syntax -------------------------------
(* What a text says to the reader, apart from how the reader goes about it:    *)
(* its tokens, and whether they make a program.                               *)
EXTENDS FiniteSets, FiniteSetsExt, Characters

CONSTANT HEX_DIGITS          \* 2*sizeof(uintptr_t): 16 in the code

FirstFrom(t, i, S) == Min({j \in i .. Len(t) : t[j] \in S} \cup {Len(t) + 1})

-----------------------------------------------------------------------------
(* Strings *)

\* Whether j is in a string from i on and no odd number of backslashes stands
\* before it.
Backslashes(t, i, j) == {b \in i + 1 .. j - 1 : \A k \in b .. j - 1 : t[k] = "\\"}
Unescaped(t, i, j) == j > i /\ Cardinality(Backslashes(t, i, j)) % 2 = 0

\* Where the string from i on ends: at a quote, or at the char after the x of a
\* hexadecimal escape, which the quote that opened the string is unread for.
Quotes(t, i) == {j \in i + 1 .. Len(t) : t[j] = "quotes" /\ Unescaped(t, i, j)}
Hexes(t, i) == {j \in i + 1 .. Len(t) - 1 : t[j] = "\\" /\ t[j + 1] = "x" /\ Unescaped(t, i, j)}
HexCloses(t, j) == IF j + 2 <= Len(t) THEN j + 2 ELSE Len(t)
Closing(t, i) == Min(Quotes(t, i) \cup {HexCloses(t, j) : j \in Hexes(t, i)} \cup {Len(t) + 1})

\* What the chars of a string that ends at e stand for, from each place on: a
\* hexadecimal escape is the last, and an escape that is none stands for nothing.
OctalCount(t, j) == Max({n \in 1 .. 3 : \A k \in 1 .. n : t[j + k] \in Octal})
ContentFrom(t, e) ==
  LET from[j \in 1 .. e + 3] ==
        IF j >= e THEN <<>>
        ELSE IF t[j] # "\\" THEN <<t[j]>> \o from[j + 1]
        ELSE CASE t[j + 1] \in SimpleEscape -> <<Escaped(t[j + 1])>> \o from[j + 2]
               [] t[j + 1] = "x"          -> <<HexChar>>
               [] t[j + 1] \in Octal      ->
                    LET n == OctalCount(t, j)
                    IN  <<OctalChar(SubSeq(t, j + 1, j + n))>> \o from[j + n + 1]
               [] OTHER                   -> from[j + 2]
  IN  from

\* The string that begins at i: up to a nul, as strings of C are.
Content(t, i, e) ==
  LET all == ContentFrom(t, e)[i + 1]
  IN  <<"quotes", SubSeq(all, 1, FirstFrom(all, 1, {NUL}) - 1)>>

-----------------------------------------------------------------------------
(* Symbols and numerals *)

LooksNumeral(k) == k[1] \in Digit \/ (k[1] = "-" /\ Len(k) > 1 /\ k[2] \in Digit)
Drop(k, n) == SubSeq(k, n + 1, Len(k))
AllDigits(k) == k # <<>> /\ \A i \in DOMAIN k : k[i] \in Digit
IsInteger(k) == AllDigits(IF k[1] = "-" THEN Drop(k, 1) ELSE k)
IsFloat(k) ==
  \E i \in 2 .. Len(k) - 1 :
    k[i] = "." /\ IsInteger(SubSeq(k, 1, i - 1)) /\ AllDigits(Drop(k, i))
IsHex(k) ==
  /\ Len(k) \in 2 .. HEX_DIGITS + 2 /\ k[1] = "0" /\ k[2] = "x"
  /\ \A i \in 3 .. Len(k) : k[i] \in HexDigit

\* The word from i on, and whether a blank or a closing parenthesis follows it, as
\* it must a numeral.
WordEnd(t, i) == FirstFrom(t, i, Delimiter)
Word(t, i) == SubSeq(t, i, WordEnd(t, i) - 1)
Ends(t, i) == WordEnd(t, i) <= Len(t) /\ t[WordEnd(t, i)] # "("

Malformed == <<NUL>>         \* no token holds a nul

WordToken(t, i) ==
  LET k == Word(t, i)
  IN  IF ~LooksNumeral(k) THEN k
      ELSE IF IsInteger(k) /\ Ends(t, i) THEN Integer(k)
      ELSE IF (IsFloat(k) \/ IsHex(k)) /\ Ends(t, i) THEN k
      ELSE Malformed

\* What follows a float belongs to it: a blank or a closing parenthesis.
WordAfter(t, i) ==
  IF LooksNumeral(Word(t, i)) /\ IsFloat(Word(t, i)) /\ Ends(t, i) THEN WordEnd(t, i) + 1 ELSE WordEnd(t, i)

-----------------------------------------------------------------------------
(* Tokens *)

Single == {"(", ")", "'", "#"}
Prefix == {<<"'">>, <<"semicolon">>, <<"#">>}

\* The token that begins at i, if one does, and where the text goes on after it.
TokenAt(t, i) ==
  CASE t[i] \in Blank -> <<>>
    [] t[i] \in Single \cup {"semicolon"} -> << <<t[i]>> >>
    [] t[i] = "quotes" -> IF Closing(t, i) > Len(t) THEN <<Malformed>> ELSE <<Content(t, i, Closing(t, i))>>
    [] OTHER -> <<WordToken(t, i)>>
After(t, i) ==
  CASE t[i] \in Blank \cup Single -> i + 1
    [] t[i] = "semicolon" -> FirstFrom(t, i, {"\n"})
    [] t[i] = "quotes" -> IF Closing(t, i) > Len(t) THEN Len(t) + 1 ELSE Closing(t, i) + 1
    [] OTHER -> WordAfter(t, i)

\* The tokens of a text, with one for each comment and each #, and those from a
\* place on.
LexFrom(t) ==
  LET lex[i \in 1 .. Len(t) + 1] == IF i > Len(t) THEN <<>> ELSE TokenAt(t, i) \o lex[After(t, i)]
  IN  lex
Lex(t) == LexFrom(t)[1]

-----------------------------------------------------------------------------
(* Programs *)

\* The parentheses of a sequence of tokens match.
Count(k, paren, i) == Cardinality({j \in 1 .. i : k[j] = paren})
Balanced(k) ==
  /\ \A i \in DOMAIN k : Count(k, <<"(">>, i) >= Count(k, <<")">>, i)
  /\ Count(k, <<"(">>, Len(k)) = Count(k, <<")">>, Len(k))

\* What this reader takes for a program: a comment, like a quote, belongs to the
\* sexp after it and cannot be the last thing in a list.
WellFormed(t) ==
  LET k == Lex(t)
  IN  /\ Balanced(k)
      /\ Malformed \notin Range(k)
      /\ \A i \in 1 .. Len(k) - 1 : k[i] \in Prefix => k[i + 1] # <<")">>
=============================================================================
