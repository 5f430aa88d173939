---------------------------- MODULE ReaderProofs ----------------------------
(* For texts of any length and depth, with escapes, comments, quotes and      *)
(* numerals anywhere in them, the reader reports an error exactly for the     *)
(* texts that are no program, and the sexps it has read are written as the    *)
(* tokens of the text up to where it is: at every step, what is left of the   *)
(* text and the lists that are open decide whether it is a program, and what  *)
(* the calls in progress have read stands before the tokens that are left.    *)
(* Decoding what encoding returned gives the length back, for every length.   *)
EXTENDS Reader, Lemmas

-----------------------------------------------------------------------------
(* Texts *)

\* A part of a sequence.
LEMMA PartOfSeq ==
  ASSUME NEW S, NEW q \in Seq(S), NEW m \in 1 .. Len(q) + 1, NEW n \in m - 1 .. Len(q)
  PROVE  /\ SubSeq(q, m, n) \in Seq(S)
         /\ Len(SubSeq(q, m, n)) = n - m + 1
         /\ \A h \in 1 .. n - m + 1 : SubSeq(q, m, n)[h] = q[m + h - 1]
<1>1. Len(q) \in Nat /\ m \in Int /\ n \in Int /\ m <= n + 1
  BY LenProperties
<1>2. \A i \in m .. n : q[i] \in S
  BY <1>1, ElementOfSeq
<1>3. /\ SubSeq(q, m, n) \in Seq(S)
      /\ Len(SubSeq(q, m, n)) = IF m <= n THEN n - m + 1 ELSE 0
      /\ \A h \in 1 .. n - m + 1 : SubSeq(q, m, n)[h] = q[m + h - 1]
  BY ONLY <1>1, <1>2, SubSeqProperties
<1>4. (IF m <= n THEN n - m + 1 ELSE 0) = n - m + 1
  BY <1>1
<1> QED
  BY <1>3, <1>4

\* The least of a set of places that has one behind all the others.
LEMMA MinOfPlaces ==
  ASSUME NEW n \in Nat, NEW i \in 1 .. n + 1, NEW A, A \subseteq i .. n
  PROVE  /\ Min(A \cup {n + 1}) \in A \cup {n + 1}
         /\ \A j \in A : Min(A \cup {n + 1}) <= j
         /\ Min(A \cup {n + 1}) \in i .. n + 1
<1> DEFINE B == A \cup {n + 1}
<1>1. B \subseteq Nat /\ B # {}
  OBVIOUS
<1> HIDE DEF B
<1>2. \E b \in B : \A c \in B : b <= c
  BY <1>1, LeastOf
<1> DEFINE m == Min(B)
<1>3. m \in B /\ \A c \in B : m <= c
  BY <1>2 DEF Min
<1> HIDE DEF m
<1>4. m \in A \cup {n + 1} /\ (\A j \in A : m <= j) /\ m \in i .. n + 1
  BY <1>3 DEF B
<1> QED
  BY <1>4 DEF B, m

\* The first char of S from a place on is one of S, and none before it is.
LEMMA FirstFromIs ==
  ASSUME NEW t, Len(t) \in Nat, NEW i \in 1 .. Len(t) + 1, NEW S
  PROVE  /\ FirstFrom(t, i, S) \in i .. Len(t) + 1
         /\ FirstFrom(t, i, S) <= Len(t) => t[FirstFrom(t, i, S)] \in S
         /\ \A j \in i .. FirstFrom(t, i, S) - 1 : t[j] \notin S
<1> DEFINE A == {j \in i .. Len(t) : t[j] \in S}
           e == Min(A \cup {Len(t) + 1})
<1>1. A \subseteq i .. Len(t) /\ \A j \in A : t[j] \in S
  OBVIOUS
<1>2. \A j \in i .. Len(t) : t[j] \in S => j \in A
  OBVIOUS
<1>3. FirstFrom(t, i, S) = e
  BY DEF FirstFrom
<1> HIDE DEF A
<1>4. e \in A \cup {Len(t) + 1} /\ (\A j \in A : e <= j) /\ e \in i .. Len(t) + 1
  BY <1>1, MinOfPlaces
<1> HIDE DEF e
<1>5. e <= Len(t) => t[e] \in S
  BY <1>1, <1>4
<1>6. ASSUME NEW j \in i .. e - 1 PROVE t[j] \notin S
  BY <1>2, <1>4
<1> QED
  BY <1>3, <1>4, <1>5, <1>6

\* There is no other such place.
LEMMA FirstFromOnly ==
  ASSUME NEW t, Len(t) \in Nat, NEW i \in 1 .. Len(t) + 1, NEW S, NEW e \in i .. Len(t) + 1,
         e <= Len(t) => t[e] \in S,
         \A j \in i .. e - 1 : t[j] \notin S
  PROVE  FirstFrom(t, i, S) = e
<1> DEFINE f == FirstFrom(t, i, S)
<1>1. f \in i .. Len(t) + 1 /\ (f <= Len(t) => t[f] \in S) /\ \A j \in i .. f - 1 : t[j] \notin S
  BY FirstFromIs
<1> HIDE DEF f
<1>2. ~(f < e)
  <2>1. f < e => f \in i .. e - 1 /\ f <= Len(t)
    BY <1>1
  <2> QED
    BY <1>1, <2>1
<1>3. ~(e < f)
  <2>1. e < f => e \in i .. f - 1 /\ e <= Len(t)
    BY <1>1
  <2> QED
    BY <1>1, <2>1
<1>4. f = e
  BY <1>1, <1>2, <1>3
<1> QED
  BY <1>4 DEF f

\* A text goes on behind a place of the set at that place, and behind another
\* one where it goes on behind the next.
LEMMA FirstFromSteps ==
  ASSUME NEW t, Len(t) \in Nat, NEW i \in 1 .. Len(t), NEW S
  PROVE  /\ t[i] \in S => FirstFrom(t, i, S) = i
         /\ t[i] \notin S => FirstFrom(t, i, S) = FirstFrom(t, i + 1, S)
<1>1. ASSUME t[i] \in S PROVE FirstFrom(t, i, S) = i
  <2>1. i \in 1 .. Len(t) + 1 /\ i \in i .. Len(t) + 1 /\ \A j \in i .. i - 1 : t[j] \notin S
    OBVIOUS
  <2> QED
    BY <1>1, <2>1, FirstFromOnly
<1>2. ASSUME t[i] \notin S PROVE FirstFrom(t, i, S) = FirstFrom(t, i + 1, S)
  <2> DEFINE e == FirstFrom(t, i + 1, S)
  <2>1. i + 1 \in 1 .. Len(t) + 1 /\ i \in 1 .. Len(t) + 1
    OBVIOUS
  <2>2. e \in i + 1 .. Len(t) + 1 /\ (e <= Len(t) => t[e] \in S) /\ \A j \in i + 1 .. e - 1 : t[j] \notin S
    BY <2>1, FirstFromIs
  <2> HIDE DEF e
  <2>3. e \in i .. Len(t) + 1
    BY <2>2
  <2>4. ASSUME NEW j \in i .. e - 1 PROVE t[j] \notin S
    BY <1>2, <2>2, j = i \/ j \in i + 1 .. e - 1
  <2>5. FirstFrom(t, i, S) = e
    BY <2>1, <2>2, <2>3, <2>4, FirstFromOnly
  <2> QED
    BY <2>5 DEF e
<1> QED
  BY <1>1, <1>2

\* From the end on there is none.
LEMMA FirstFromEnd ==
  ASSUME NEW t, Len(t) \in Nat, NEW S
  PROVE  FirstFrom(t, Len(t) + 1, S) = Len(t) + 1
BY FirstFromIs, Len(t) + 1 \in 1 .. Len(t) + 1

\* A string ends behind its first char.
LEMMA ClosingIs ==
  ASSUME NEW t, Len(t) \in Nat, NEW i \in 1 .. Len(t)
  PROVE  /\ Closing(t, i) \in i + 1 .. Len(t) + 1
         /\ \/ Closing(t, i) \in Quotes(t, i)
            \/ \E j \in Hexes(t, i) : Closing(t, i) = HexCloses(t, j)
            \/ Closing(t, i) = Len(t) + 1
         /\ \A j \in Quotes(t, i) : Closing(t, i) <= j
         /\ \A j \in Hexes(t, i) : Closing(t, i) <= HexCloses(t, j)
<1> DEFINE H == {HexCloses(t, j) : j \in Hexes(t, i)}
           A == Quotes(t, i) \cup H
<1>1. Quotes(t, i) \subseteq i + 1 .. Len(t)
  BY DEF Quotes
<1>2. H \subseteq i + 1 .. Len(t)
  <2>1. ASSUME NEW j \in Hexes(t, i) PROVE HexCloses(t, j) \in i + 1 .. Len(t)
    <3>1. j \in i + 1 .. Len(t) - 1
      BY DEF Hexes
    <3> QED
      BY <3>1 DEF HexCloses
  <2> QED
    BY <2>1
<1>3. A \subseteq i + 1 .. Len(t)
  BY <1>1, <1>2
<1>4. Closing(t, i) = Min(A \cup {Len(t) + 1})
  BY DEF Closing
<1>5. i + 1 \in 1 .. Len(t) + 1
  OBVIOUS
<1> DEFINE e == Min(A \cup {Len(t) + 1})
<1> HIDE DEF A
<1>6. e \in A \cup {Len(t) + 1} /\ (\A j \in A : e <= j) /\ e \in i + 1 .. Len(t) + 1
  BY <1>3, <1>5, MinOfPlaces
<1> HIDE DEF e
<1> QED
  BY <1>4, <1>6 DEF A, e

-----------------------------------------------------------------------------
(* Tokens *)

\* Every token is some chars long.
LEMMA AfterIs ==
  ASSUME NEW t, Len(t) \in Nat, NEW i \in 1 .. Len(t)
  PROVE  After(t, i) \in i + 1 .. Len(t) + 1
<1>1. /\ Blank = {"space", "\n"} /\ Single = {"(", ")", "'", "#"}
      /\ Delimiter = {"space", "\n", "(", ")"}
  BY DEF Blank, Single, Delimiter
<1>2. i \in 1 .. Len(t) + 1 /\ i + 1 \in 1 .. Len(t) + 1
  OBVIOUS
<1>3. CASE t[i] \in Blank \cup Single
  <2>1. After(t, i) = i + 1
    BY <1>1, <1>3 DEF After
  <2> QED
    BY <2>1
<1>4. CASE t[i] = "semicolon"
  <2>1. After(t, i) = FirstFrom(t, i, {"\n"})
    BY <1>1, <1>4 DEF After
  <2>2. FirstFrom(t, i, {"\n"}) = FirstFrom(t, i + 1, {"\n"})
    BY <1>4, FirstFromSteps, t[i] \notin {"\n"}
  <2> QED
    BY <1>2, <2>1, <2>2, FirstFromIs
<1>5. CASE t[i] = "quotes"
  <2>1. After(t, i) = IF Closing(t, i) > Len(t) THEN Len(t) + 1 ELSE Closing(t, i) + 1
    BY <1>1, <1>5 DEF After
  <2>2. Closing(t, i) \in i + 1 .. Len(t) + 1
    BY ClosingIs
  <2> QED
    BY <2>1, <2>2
<1>6. CASE t[i] \notin Blank \cup Single \cup {"semicolon", "quotes"}
  <2>1. After(t, i) = WordAfter(t, i)
    BY <1>6 DEF After
  <2>2. t[i] \notin Delimiter
    BY <1>1, <1>6
  <2>3. WordEnd(t, i) \in i + 1 .. Len(t) + 1
    <3>1. FirstFrom(t, i, Delimiter) = FirstFrom(t, i + 1, Delimiter)
      BY <2>2, FirstFromSteps
    <3> QED
      BY <1>2, <3>1, FirstFromIs DEF WordEnd
  <2>4. Ends(t, i) => WordEnd(t, i) <= Len(t)
    BY DEF Ends
  <2> QED
    BY <2>1, <2>3, <2>4 DEF WordAfter
<1> QED
  BY <1>3, <1>4, <1>5, <1>6

\* No more than one token begins at a place.
LEMMA TokenIs ==
  ASSUME NEW t, NEW i
  PROVE  TokenAt(t, i) = <<>> \/ TokenAt(t, i) = <<TokenAt(t, i)[1]>>
<1>1. \A x : <<x>> = << <<x>>[1] >>
  OBVIOUS
<1>2. CASE t[i] \in Blank
  BY <1>2 DEF TokenAt, Blank, Single
<1>3. CASE t[i] \in Single \cup {"semicolon"}
  BY <1>1, <1>3 DEF TokenAt, Blank, Single
<1>4. CASE t[i] = "quotes"
  <2>1. TokenAt(t, i) = <<Malformed>> \/ TokenAt(t, i) = <<Content(t, i, Closing(t, i))>>
    BY <1>4 DEF TokenAt, Blank, Single
  <2> QED
    BY <1>1, <2>1
<1>5. CASE t[i] \notin Blank \cup Single \cup {"semicolon", "quotes"}
  <2>1. TokenAt(t, i) = <<WordToken(t, i)>>
    BY <1>5 DEF TokenAt
  <2> QED
    BY <1>1, <2>1
<1> QED
  BY <1>2, <1>3, <1>4, <1>5

\* What the recursive definition of the tokens of a text defines: there are none
\* behind it, and those from a place on begin with the one at that place.
TokensOf(t) == {TokenAt(t, i)[1] : i \in 1 .. Len(t)}

\* The tokens from a place on are the one there and those after it.
LEMMA LexUnfolds ==
  ASSUME NEW t, Len(t) \in Nat
  PROVE  /\ LexFrom(t) \in [1 .. Len(t) + 1 -> Seq(TokensOf(t))]
         /\ LexFrom(t)[Len(t) + 1] = <<>>
         /\ \A i \in 1 .. Len(t) : LexFrom(t)[i] = TokenAt(t, i) \o LexFrom(t)[After(t, i)]
<1> DEFINE n == Len(t) + 1
           X == TokensOf(t)
           Body(g, i) == IF i > Len(t) THEN <<>> ELSE TokenAt(t, i) \o g[After(t, i)]
           T == {k \in 0 .. Len(t) : \E g \in [1 .. n -> Seq(X)] : \A i \in n - k .. n : g[i] = Body(g, i)}
<1>1. \A i \in 1 .. Len(t) : TokenAt(t, i) \in Seq(X)
  <2> SUFFICES ASSUME NEW i \in 1 .. Len(t) PROVE TokenAt(t, i) \in Seq(X)
    OBVIOUS
  <2>1. TokenAt(t, i)[1] \in X
    BY DEF TokensOf
  <2> HIDE DEF X
  <2>2. <<TokenAt(t, i)[1]>> \in Seq(X) /\ <<>> \in Seq(X)
    BY <2>1
  <2> QED
    BY <2>2, TokenIs
<1>2. \A i \in 1 .. Len(t) : After(t, i) \in i + 1 .. n
  BY AfterIs
<1> HIDE DEF X
<1>3. \A g \in [1 .. n -> Seq(X)], i \in 1 .. n : Body(g, i) \in Seq(X)
  <2> SUFFICES ASSUME NEW g \in [1 .. n -> Seq(X)], NEW i \in 1 .. n PROVE Body(g, i) \in Seq(X)
    OBVIOUS
  <2>1. CASE i > Len(t)
    BY <2>1
  <2>2. CASE ~(i > Len(t))
    <3>1. i \in 1 .. Len(t)
      BY <2>2
    <3>2. TokenAt(t, i) \in Seq(X) /\ g[After(t, i)] \in Seq(X)
      BY <1>1, <1>2, <3>1
    <3> QED
      BY <2>2, <3>2
  <2> QED
    BY <2>1, <2>2
<1>4. 0 \in T
  <2> DEFINE h == [i \in 1 .. n |-> <<>>]
  <2>1. h \in [1 .. n -> Seq(X)]
    OBVIOUS
  <2>2. \A i \in n - 0 .. n : h[i] = Body(h, i)
    OBVIOUS
  <2> HIDE DEF h, Body
  <2> QED
    BY <2>1, <2>2
<1>5. ASSUME NEW k \in 1 .. Len(t), k - 1 \in T PROVE k \in T
  <2>1. PICK g \in [1 .. n -> Seq(X)] : \A i \in n - (k - 1) .. n : g[i] = Body(g, i)
    BY <1>5
  <2> DEFINE m == n - k
             h == [g EXCEPT ![m] = Body(g, m)]
  <2>2. m \in 1 .. Len(t) /\ m \in 1 .. n
    OBVIOUS
  <2> HIDE DEF m, Body
  <2>3. h \in [1 .. n -> Seq(X)] /\ h[m] = Body(g, m) /\ \A i \in 1 .. n : i # m => h[i] = g[i]
    BY <1>3, <2>2
  <2> HIDE DEF h
  <2>4. ASSUME NEW i \in n - k .. n PROVE h[i] = Body(h, i)
    <3>1. i \in 1 .. n /\ i >= m
      BY DEF m
    <3>2. Body(h, i) = Body(g, i)
      <4>1. CASE i > Len(t)
        BY <4>1 DEF Body
      <4>2. CASE ~(i > Len(t))
        <5>1. i \in 1 .. Len(t)
          BY <3>1, <4>2
        <5>2. After(t, i) \in 1 .. n /\ After(t, i) # m
          BY <1>2, <2>2, <3>1, <5>1
        <5>3. h[After(t, i)] = g[After(t, i)]
          BY <2>3, <5>2
        <5> QED
          BY <5>3 DEF Body
      <4> QED
        BY <4>1, <4>2
    <3>3. CASE i = m
      BY <2>3, <3>2, <3>3
    <3>4. CASE i # m
      <4>1. i \in n - (k - 1) .. n
        BY <3>1, <3>4, n \in Nat, k \in Nat, i \in Int, i <= n, i # n - k, i >= n - k DEF m
      <4>2. g[i] = Body(g, i)
        BY <2>1, <4>1
      <4> QED
        BY <2>3, <3>1, <3>2, <3>4, <4>2
    <3> QED
      BY <3>3, <3>4
  <2> QED
    BY <2>3, <2>4
<1>6. Len(t) \in T
  <2> HIDE DEF T
  <2>1. 0 .. Len(t) \subseteq T
    BY <1>4, <1>5, UpTo
  <2> QED
    BY <2>1
<1>7. PICK g \in [1 .. n -> Seq(X)] : \A i \in 1 .. n : g[i] = Body(g, i)
  <2> HIDE DEF Body
  <2>1. n - Len(t) = 1
    OBVIOUS
  <2> QED
    BY <1>6, <2>1
<1> DEFINE lex == LexFrom(t)
<1>8. g = [i \in 1 .. Len(t) + 1 |-> IF i > Len(t) THEN <<>> ELSE TokenAt(t, i) \o g[After(t, i)]]
  BY <1>7
<1>9. lex = [i \in 1 .. Len(t) + 1 |-> IF i > Len(t) THEN <<>> ELSE TokenAt(t, i) \o lex[After(t, i)]]
  BY <1>8 DEF LexFrom
<1> HIDE DEF lex
<1>10. lex[Len(t) + 1] = <<>>
  BY <1>9
<1>11. ASSUME NEW i \in 1 .. Len(t) PROVE lex[i] = TokenAt(t, i) \o lex[After(t, i)]
  BY <1>9, i \in 1 .. Len(t) + 1, ~(i > Len(t))
<1>12. lex = g
  <2> DEFINE S == {k \in 0 .. Len(t) : \A i \in n - k .. n : lex[i] = g[i]}
  <2>1. 0 \in S
    BY <1>7, <1>10
  <2>2. ASSUME NEW k \in 1 .. Len(t), k - 1 \in S PROVE k \in S
    <3> DEFINE m == n - k
    <3>1. m \in 1 .. Len(t) /\ m \in 1 .. n /\ n - (k - 1) = m + 1
      OBVIOUS
    <3>2. After(t, m) \in m + 1 .. n
      BY <1>2, <3>1
    <3> HIDE DEF m
    <3>3. \A i \in m + 1 .. n : lex[i] = g[i]
      BY <2>2, <3>1
    <3>4. lex[m] = g[m]
      <4>1. g[m] = TokenAt(t, m) \o g[After(t, m)]
        BY <1>7, <3>1
      <4> QED
        BY <1>11, <3>1, <3>2, <3>3, <4>1
    <3>5. \A i \in m .. n : lex[i] = g[i]
      BY <3>1, <3>3, <3>4
    <3> QED
      BY <3>5 DEF m
  <2> HIDE DEF S
  <2>3. 0 .. Len(t) \subseteq S
    BY <2>1, <2>2, UpTo
  <2>4. Len(t) \in S
    BY <2>3
  <2>5. \A i \in 1 .. n : lex[i] = g[i]
    BY <2>4 DEF S
  <2>6. lex = [i \in 1 .. n |-> lex[i]]
    BY <1>9
  <2> QED
    BY <2>5, <2>6
<1> QED
  BY <1>10, <1>11, <1>12 DEF lex, X

\* The tokens from a blank on, from a parenthesis, quote or # on, and so forth.
LEMMA LexBlank ==
  ASSUME NEW t, Len(t) \in Nat, NEW i \in 1 .. Len(t), t[i] \in Blank
  PROVE  LexFrom(t)[i] = LexFrom(t)[i + 1]
<1>1. TokenAt(t, i) = <<>> /\ After(t, i) = i + 1
  BY DEF TokenAt, After, Blank, Single
<1> DEFINE rest == LexFrom(t)[i + 1]
<1>2. LexFrom(t)[i] = <<>> \o rest /\ rest \in Seq(TokensOf(t))
  BY <1>1, LexUnfolds, i + 1 \in 1 .. Len(t) + 1
<1> HIDE DEF rest
<1>3. LexFrom(t)[i] = rest
  BY <1>2
<1> QED
  BY <1>3 DEF rest

\* A char that is a token by itself.
LEMMA LexSingle ==
  ASSUME NEW t, Len(t) \in Nat, NEW i \in 1 .. Len(t), t[i] \in Single
  PROVE  LexFrom(t)[i] = << <<t[i]>> >> \o LexFrom(t)[i + 1]
<1>1. TokenAt(t, i) = << <<t[i]>> >> /\ After(t, i) = i + 1
  BY DEF TokenAt, After, Blank, Single
<1> QED
  BY <1>1, LexUnfolds

\* A comment goes to the end of its line.
LEMMA LexComment ==
  ASSUME NEW t, Len(t) \in Nat, NEW i \in 1 .. Len(t), t[i] = "semicolon"
  PROVE  LexFrom(t)[i] = << <<"semicolon">> >> \o LexFrom(t)[FirstFrom(t, i + 1, {"\n"})]
<1>1. TokenAt(t, i) = << <<"semicolon">> >> /\ After(t, i) = FirstFrom(t, i, {"\n"})
  BY DEF TokenAt, After, Blank, Single
<1>2. FirstFrom(t, i, {"\n"}) = FirstFrom(t, i + 1, {"\n"})
  BY FirstFromSteps, t[i] \notin {"\n"}
<1> QED
  BY <1>1, <1>2, LexUnfolds

\* A string is one token, or malformed if it does not end.
LEMMA LexString ==
  ASSUME NEW t, Len(t) \in Nat, NEW i \in 1 .. Len(t), t[i] = "quotes"
  PROVE  /\ Closing(t, i) > Len(t) => LexFrom(t)[i] = <<Malformed>> \o <<>>
         /\ Closing(t, i) <= Len(t) =>
              LexFrom(t)[i] = <<Content(t, i, Closing(t, i))>> \o LexFrom(t)[Closing(t, i) + 1]
<1> DEFINE e == Closing(t, i)
<1>1. e \in i + 1 .. Len(t) + 1
  BY ClosingIs
<1>2. /\ TokenAt(t, i) = IF e > Len(t) THEN <<Malformed>> ELSE <<Content(t, i, e)>>
      /\ After(t, i) = IF e > Len(t) THEN Len(t) + 1 ELSE e + 1
  BY DEF TokenAt, After, Blank, Single
<1> HIDE DEF e
<1>3. ASSUME e > Len(t) PROVE LexFrom(t)[i] = <<Malformed>> \o <<>>
  <2>1. TokenAt(t, i) = <<Malformed>> /\ After(t, i) = Len(t) + 1
    BY <1>2, <1>3
  <2> QED
    BY <2>1, LexUnfolds
<1>4. ASSUME e <= Len(t) PROVE LexFrom(t)[i] = <<Content(t, i, e)>> \o LexFrom(t)[e + 1]
  <2>0. e \in Int
    BY <1>1
  <2>2. e <= Len(t)
    BY <1>4
  <2>3. ~(e > Len(t))
    BY <2>0, <2>2
  <2>1. TokenAt(t, i) = <<Content(t, i, e)>> /\ After(t, i) = e + 1
    BY <1>2, <2>3, Zenon
  <2> QED
    BY <2>1, LexUnfolds
<1> QED
  BY <1>3, <1>4 DEF e

\* A char that begins a symbol or a numeral.
BeginsWord(c) == c \notin Blank \cup Single \cup {"semicolon", "quotes"}

\* A word is one token.
LEMMA LexWord ==
  ASSUME NEW t, Len(t) \in Nat, NEW i \in 1 .. Len(t), BeginsWord(t[i])
  PROVE  LexFrom(t)[i] = <<WordToken(t, i)>> \o LexFrom(t)[WordAfter(t, i)]
<1>1. TokenAt(t, i) = <<WordToken(t, i)>> /\ After(t, i) = WordAfter(t, i)
  BY DEF TokenAt, After, BeginsWord
<1> QED
  BY <1>1, LexUnfolds

-----------------------------------------------------------------------------
(* Programs *)

\* How many tokens are p, token after token.
LEMMA CountSteps ==
  ASSUME NEW k, NEW p
  PROVE  /\ Count(k, p, 0) = 0
         /\ \A i \in Nat : Count(k, p, i) \in Nat
         /\ \A i \in Nat \ {0} : Count(k, p, i) = Count(k, p, i - 1) + IF k[i] = p THEN 1 ELSE 0
<1> DEFINE S(i) == {j \in 1 .. i : k[j] = p}
<1>1. S(0) = {}
  OBVIOUS
<1>2. \A i \in Nat : IsFiniteSet(S(i))
  <2> SUFFICES ASSUME NEW i \in Nat PROVE IsFiniteSet(S(i))
    OBVIOUS
  <2>1. S(i) \subseteq 1 .. i /\ IsFiniteSet(1 .. i)
    BY FS_Interval
  <2> QED
    BY <2>1, FS_Subset
<1>3. ASSUME NEW i \in Nat \ {0}
      PROVE  Cardinality(S(i)) = Cardinality(S(i - 1)) + IF k[i] = p THEN 1 ELSE 0
  <2>1. IsFiniteSet(S(i - 1)) /\ Cardinality(S(i - 1)) \in Nat
    BY <1>2, FS_CardinalityType, i - 1 \in Nat
  <2>2. CASE k[i] = p
    <3>1. S(i) = S(i - 1) \cup {i} /\ i \notin S(i - 1)
      BY <2>2
    <3> HIDE DEF S
    <3> QED
      BY <2>1, <2>2, <3>1, FS_AddElement
  <2>3. CASE k[i] # p
    <3>1. S(i) = S(i - 1)
      BY <2>3
    <3> HIDE DEF S
    <3> QED
      BY <2>1, <2>3, <3>1
  <2> QED
    BY <2>2, <2>3
<1> QED
  BY <1>1, <1>2, <1>3, FS_CardinalityType, FS_EmptySet DEF Count

\* A token before the others.
LEMMA CountCons ==
  ASSUME NEW X, NEW k \in Seq(X), NEW x \in X, NEW p, NEW i \in 0 .. Len(k)
  PROVE  Count(<<x>> \o k, p, i + 1) = Count(k, p, i) + IF x = p THEN 1 ELSE 0
<1> DEFINE c == <<x>> \o k
           T == {j \in 0 .. Len(k) : Count(c, p, j + 1) = Count(k, p, j) + IF x = p THEN 1 ELSE 0}
<1>1. c[1] = x /\ \A j \in 1 .. Len(k) : c[j + 1] = k[j]
  OBVIOUS
<1> HIDE DEF c
<1>2. Count(c, p, 0) = 0 /\ Count(k, p, 0) = 0
  BY CountSteps
<1>3. 0 \in T
  <2>1. Count(c, p, 1) = Count(c, p, 1 - 1) + IF c[1] = p THEN 1 ELSE 0
    BY CountSteps
  <2> QED
    BY <1>1, <1>2, <2>1
<1>4. ASSUME NEW j \in 1 .. Len(k), j - 1 \in T PROVE j \in T
  <2>1. j \in Nat \ {0} /\ j + 1 \in Nat \ {0} /\ (j - 1) + 1 = j /\ (j + 1) - 1 = j
    OBVIOUS
  <2>2. Count(c, p, j) = Count(k, p, j - 1) + IF x = p THEN 1 ELSE 0
    <3>1. Count(c, p, (j - 1) + 1) = Count(k, p, j - 1) + IF x = p THEN 1 ELSE 0
      BY <1>4
    <3> QED
      BY ONLY <2>1, <3>1, Zenon
  <2>3. Count(c, p, j + 1) = Count(c, p, j) + IF c[j + 1] = p THEN 1 ELSE 0
    <3>1. Count(c, p, j + 1) = Count(c, p, (j + 1) - 1) + IF c[j + 1] = p THEN 1 ELSE 0
      BY <2>1, CountSteps
    <3> QED
      BY ONLY <2>1, <3>1, Zenon
  <2>4. Count(k, p, j) = Count(k, p, j - 1) + IF k[j] = p THEN 1 ELSE 0
    BY <2>1, CountSteps
  <2>5. j - 1 \in Nat /\ c[j + 1] = k[j]
    BY <1>1
  <2>6. Count(k, p, j - 1) \in Nat
    BY <2>5, CountSteps
  <2> QED
    BY <2>2, <2>3, <2>4, <2>5, <2>6
<1>5. 0 .. Len(k) \subseteq T
  <2> HIDE DEF T
  <2>1. Len(k) \in Nat
    OBVIOUS
  <2> QED
    BY <1>3, <1>4, <2>1, UpTo
<1> QED
  BY <1>5 DEF c

\* The tokens k complete a program that they go on with inside of d lists, after
\* a quote, a comment or a # if after.
Completes(k, d, after) ==
  /\ \A i \in DOMAIN k : d + Count(k, <<"(">>, i) >= Count(k, <<")">>, i)
  /\ d + Count(k, <<"(">>, Len(k)) = Count(k, <<")">>, Len(k))
  /\ Malformed \notin Range(k)
  /\ \A i \in 1 .. Len(k) - 1 : k[i] \in Prefix => k[i + 1] # <<")">>
  /\ after /\ k # <<>> => k[1] # <<")">>

\* A text is a program iff its tokens complete one at depth 0.
LEMMA WellFormedCompletes ==
  ASSUME NEW t, Len(t) \in Nat
  PROVE  WellFormed(t) <=> Completes(LexFrom(t)[1], 0, FALSE)
<1> DEFINE k == LexFrom(t)[1]
<1>1. k \in Seq(TokensOf(t))
  BY LexUnfolds
<1>2. Lex(t) = k
  BY DEF Lex
<1> HIDE DEF k
<1>3. \A i \in Nat : Count(k, <<"(">>, i) \in Nat /\ Count(k, <<")">>, i) \in Nat
  BY CountSteps
<1>4. Len(k) \in Nat /\ DOMAIN k = 1 .. Len(k)
  BY <1>1
<1>5. Balanced(k) <=>
        /\ \A i \in DOMAIN k : 0 + Count(k, <<"(">>, i) >= Count(k, <<")">>, i)
        /\ 0 + Count(k, <<"(">>, Len(k)) = Count(k, <<")">>, Len(k))
  <2>1. \A i \in Nat : 0 + Count(k, <<"(">>, i) = Count(k, <<"(">>, i)
    BY <1>3
  <2>2. \A i \in DOMAIN k : i \in Nat
    BY <1>4
  <2> QED
    BY <1>4, <2>1, <2>2, Zenon DEF Balanced
<1> QED
  BY <1>2, <1>5 DEF WellFormed, Completes, k

\* Nothing completes a program that all lists of are closed.
LEMMA CompletesNil ==
  ASSUME NEW d \in Nat, NEW after
  PROVE  Completes(<<>>, d, after) <=> d = 0
<1>1. Count(<<>>, <<"(">>, 0) = 0 /\ Count(<<>>, <<")">>, 0) = 0
  BY CountSteps
<1>2. Range(<<>>) = {}
  BY DEF Range
<1>3. Len(<<>>) = 0 /\ DOMAIN <<>> = {}
  OBVIOUS
<1> QED
  BY <1>1, <1>2, <1>3 DEF Completes

\* What a token adds to the lists that are open.
Opens(x) == CASE x = <<"(">> -> 1 [] x = <<")">> -> -1 [] OTHER -> 0

\* The first token completes a program if it may stand there, and the others do
\* behind it.
LEMMA CompletesCons ==
  ASSUME NEW X, NEW k \in Seq(X), NEW x \in X, NEW d \in Nat, NEW after \in BOOLEAN
  PROVE  Completes(<<x>> \o k, d, after) <=>
           /\ x # Malformed
           /\ ~(after /\ x = <<")">>)
           /\ d + Opens(x) >= 0
           /\ Completes(k, d + Opens(x), x \in Prefix)
<1> DEFINE c == <<x>> \o k
           O(q, i) == Count(q, <<"(">>, i)
           C(q, i) == Count(q, <<")">>, i)
           a == IF x = <<"(">> THEN 1 ELSE 0
           b == IF x = <<")">> THEN 1 ELSE 0
<1>1. /\ Len(c) = Len(k) + 1 /\ DOMAIN c = 1 .. Len(k) + 1 /\ c # <<>> /\ Len(k) \in Nat
      /\ c[1] = x /\ \A j \in 1 .. Len(k) : c[j + 1] = k[j]
      /\ DOMAIN k = 1 .. Len(k) /\ (k = <<>> <=> Len(k) = 0)
  OBVIOUS
<1>2. <<"(">> # <<")">> /\ Opens(x) = a - b /\ a \in {0, 1} /\ b \in {0, 1}
  BY DEF Opens
<1>3. /\ \A i \in 0 .. Len(k) : O(c, i + 1) = O(k, i) + a /\ C(c, i + 1) = C(k, i) + b
      /\ \A i \in 0 .. Len(k) : O(k, i) \in Nat /\ C(k, i) \in Nat
      /\ O(k, 0) = 0 /\ C(k, 0) = 0
  <2>1. \A i \in 0 .. Len(k) : O(c, i + 1) = O(k, i) + a
    BY CountCons
  <2>2. \A i \in 0 .. Len(k) : C(c, i + 1) = C(k, i) + b
    BY CountCons
  <2>3. \A i \in 0 .. Len(k) : i \in Nat
    OBVIOUS
  <2>4. \A i \in 0 .. Len(k) : O(k, i) \in Nat /\ C(k, i) \in Nat
    BY <2>3, CountSteps, Zenon
  <2> QED
    BY <2>1, <2>2, <2>4, CountSteps
<1> HIDE DEF c, O, C, a, b
<1>4. Range(c) = {x} \cup Range(k)
  <2>1. Range(c) = {c[i] : i \in 1 .. Len(k) + 1} /\ Range(k) = {k[i] : i \in 1 .. Len(k)}
    BY <1>1 DEF Range
  <2>2. ASSUME NEW i \in 1 .. Len(k) + 1 PROVE c[i] \in {x} \cup Range(k)
    <3>1. CASE i = 1
      BY <1>1, <3>1
    <3>2. CASE i # 1
      <4>1. i - 1 \in 1 .. Len(k) /\ (i - 1) + 1 = i
        BY <1>1, <3>2
      <4>2. c[i] = k[i - 1]
        BY <1>1, <4>1
      <4> QED
        BY <2>1, <4>1, <4>2
    <3> QED
      BY <3>1, <3>2
  <2>3. x \in Range(c)
    BY <1>1, <2>1, 1 \in 1 .. Len(k) + 1
  <2>4. ASSUME NEW i \in 1 .. Len(k) PROVE k[i] \in Range(c)
    BY <1>1, <2>1, i + 1 \in 1 .. Len(k) + 1
  <2> QED
    BY <2>1, <2>2, <2>3, <2>4
<1>5. (\A i \in DOMAIN c : d + O(c, i) >= C(c, i)) <=>
        d + a - b >= 0 /\ \A i \in DOMAIN k : d + a - b + O(k, i) >= C(k, i)
  <2>1. ASSUME \A i \in DOMAIN c : d + O(c, i) >= C(c, i)
        PROVE  d + a - b >= 0 /\ \A i \in DOMAIN k : d + a - b + O(k, i) >= C(k, i)
    <3>1. ASSUME NEW i \in 0 .. Len(k) PROVE d + a - b + O(k, i) >= C(k, i)
      <4>1. i + 1 \in DOMAIN c
        BY <1>1
      <4>2. d + O(c, i + 1) >= C(c, i + 1)
        BY <2>1, <4>1
      <4> QED
        BY <1>2, <1>3, <4>2
    <3>2. 0 \in 0 .. Len(k)
      BY <1>1
    <3>3. d + a - b + O(k, 0) >= C(k, 0)
      BY <3>1, <3>2
    <3> QED
      BY <1>1, <1>2, <1>3, <3>1, <3>3
  <2>2. ASSUME d + a - b >= 0, \A i \in DOMAIN k : d + a - b + O(k, i) >= C(k, i),
               NEW i \in DOMAIN c
        PROVE  d + O(c, i) >= C(c, i)
    <3>1. i - 1 \in 0 .. Len(k) /\ (i - 1) + 1 = i
      BY <1>1
    <3>2. O(c, i) = O(k, i - 1) + a /\ C(c, i) = C(k, i - 1) + b
      BY <1>3, <3>1
    <3>3. d + a - b + O(k, i - 1) >= C(k, i - 1)
      <4>1. CASE i - 1 = 0
        BY <1>2, <1>3, <2>2, <4>1
      <4>2. CASE i - 1 # 0
        BY <1>1, <2>2, <3>1, <4>2
      <4> QED
        BY <4>1, <4>2
    <3> QED
      BY <1>2, <1>3, <3>1, <3>2, <3>3
  <2> QED
    BY <2>1, <2>2
<1>6. d + O(c, Len(c)) = C(c, Len(c)) <=> d + a - b + O(k, Len(k)) = C(k, Len(k))
  <2>1. Len(k) \in 0 .. Len(k) /\ Len(c) = Len(k) + 1
    BY <1>1
  <2>2. O(c, Len(c)) = O(k, Len(k)) + a /\ C(c, Len(c)) = C(k, Len(k)) + b
    BY <1>3, <2>1
  <2>3. O(k, Len(k)) \in Nat /\ C(k, Len(k)) \in Nat
    BY <1>3, <2>1
  <2> QED
    BY <1>2, <2>2, <2>3
<1>7. (\A i \in 1 .. Len(c) - 1 : c[i] \in Prefix => c[i + 1] # <<")">>) <=>
        /\ \A i \in 1 .. Len(k) - 1 : k[i] \in Prefix => k[i + 1] # <<")">>
        /\ x \in Prefix /\ k # <<>> => k[1] # <<")">>
  <2>1. ASSUME \A i \in 1 .. Len(c) - 1 : c[i] \in Prefix => c[i + 1] # <<")">>
        PROVE  /\ \A i \in 1 .. Len(k) - 1 : k[i] \in Prefix => k[i + 1] # <<")">>
               /\ x \in Prefix /\ k # <<>> => k[1] # <<")">>
    <3>1. ASSUME NEW i \in 1 .. Len(k) - 1, k[i] \in Prefix PROVE k[i + 1] # <<")">>
      <4>1. i + 1 \in 1 .. Len(c) - 1 /\ i \in 1 .. Len(k) /\ i + 1 \in 1 .. Len(k)
        BY <1>1
      <4>2. c[i + 1] = k[i] /\ c[(i + 1) + 1] = k[i + 1]
        BY <1>1, <4>1
      <4> QED
        BY <2>1, <3>1, <4>1, <4>2
    <3>2. ASSUME x \in Prefix, k # <<>> PROVE k[1] # <<")">>
      <4>1. 1 \in 1 .. Len(c) - 1 /\ 1 \in 1 .. Len(k)
        BY <1>1, <3>2
      <4>2. c[1 + 1] = k[1]
        BY <1>1, <4>1
      <4> QED
        BY <1>1, <2>1, <3>2, <4>1, <4>2
    <3> QED
      BY <3>1, <3>2
  <2>2. ASSUME \A i \in 1 .. Len(k) - 1 : k[i] \in Prefix => k[i + 1] # <<")">>,
               x \in Prefix /\ k # <<>> => k[1] # <<")">>,
               NEW i \in 1 .. Len(c) - 1, c[i] \in Prefix
        PROVE  c[i + 1] # <<")">>
    <3>1. i \in 1 .. Len(k) /\ c[i + 1] = k[i] /\ k # <<>>
      BY <1>1
    <3>2. CASE i = 1
      BY <1>1, <2>2, <3>1, <3>2
    <3>3. CASE i # 1
      <4>1. i - 1 \in 1 .. Len(k) - 1 /\ i - 1 \in 1 .. Len(k) /\ (i - 1) + 1 = i
        BY <3>1, <3>3
      <4>2. c[i] = k[i - 1]
        BY <1>1, <4>1
      <4> QED
        BY <2>2, <3>1, <4>1, <4>2
    <3> QED
      BY <3>2, <3>3
  <2> QED
    BY <2>1, <2>2
<1>8. Completes(c, d, after) <=>
        /\ d + a - b >= 0 /\ \A i \in DOMAIN k : d + a - b + O(k, i) >= C(k, i)
        /\ d + a - b + O(k, Len(k)) = C(k, Len(k))
        /\ x # Malformed /\ Malformed \notin Range(k)
        /\ \A i \in 1 .. Len(k) - 1 : k[i] \in Prefix => k[i + 1] # <<")">>
        /\ x \in Prefix /\ k # <<>> => k[1] # <<")">>
        /\ ~(after /\ x = <<")">>)
  BY <1>1, <1>4, <1>5, <1>6, <1>7, Zenon DEF Completes, O, C
<1>9. d + Opens(x) = d + a - b
  BY <1>2
<1>10. Completes(k, d + Opens(x), x \in Prefix) <=>
        /\ \A i \in DOMAIN k : d + a - b + O(k, i) >= C(k, i)
        /\ d + a - b + O(k, Len(k)) = C(k, Len(k))
        /\ Malformed \notin Range(k)
        /\ \A i \in 1 .. Len(k) - 1 : k[i] \in Prefix => k[i + 1] # <<")">>
        /\ x \in Prefix /\ k # <<>> => k[1] # <<")">>
  BY <1>9, Zenon DEF Completes, O, C
<1> QED
  BY <1>8, <1>9, <1>10, Zenon DEF c

\* Inside of no list, a closing parenthesis completes nothing anyway.
LEMMA CompletesBottom ==
  ASSUME NEW X, NEW k \in Seq(X)
  PROVE  Completes(k, 0, TRUE) <=> Completes(k, 0, FALSE)
<1> SUFFICES ASSUME Completes(k, 0, FALSE), k # <<>>, k[1] = <<")">> PROVE FALSE
  BY DEF Completes
<1>1. 1 \in DOMAIN k /\ 1 \in Nat \ {0} /\ 1 - 1 = 0
  OBVIOUS
<1>2. 0 + Count(k, <<"(">>, 1) >= Count(k, <<")">>, 1)
  BY <1>1 DEF Completes
<1>3. /\ Count(k, <<"(">>, 1) = Count(k, <<"(">>, 0) + IF k[1] = <<"(">> THEN 1 ELSE 0
      /\ Count(k, <<")">>, 1) = Count(k, <<")">>, 0) + IF k[1] = <<")">> THEN 1 ELSE 0
  <2>1. Count(k, <<"(">>, 1) = Count(k, <<"(">>, 1 - 1) + IF k[1] = <<"(">> THEN 1 ELSE 0
    BY ONLY <1>1, k \in Seq(X), CountSteps
  <2>2. Count(k, <<")">>, 1) = Count(k, <<")">>, 1 - 1) + IF k[1] = <<")">> THEN 1 ELSE 0
    BY ONLY <1>1, k \in Seq(X), CountSteps
  <2> QED
    BY <1>1, <2>1, <2>2, Zenon
<1>4. Count(k, <<"(">>, 0) = 0 /\ Count(k, <<")">>, 0) = 0
  BY CountSteps
<1>5. <<"(">> # <<")">>
  OBVIOUS
<1> QED
  BY <1>2, <1>3, <1>4, <1>5

\* The same of a token before those of a text from a place on.
LEMMA CompletesToken ==
  ASSUME NEW t, Len(t) \in Nat, NEW j \in 1 .. Len(t) + 1, NEW x, x # Malformed,
         NEW d \in Nat, NEW after \in BOOLEAN,
         NEW e, e = d + Opens(x), NEW prefix \in BOOLEAN, prefix <=> x \in Prefix
  PROVE  Completes(<<x>> \o LexFrom(t)[j], d, after) <=>
           ~(after /\ x = <<")">>) /\ e >= 0 /\ Completes(LexFrom(t)[j], e, prefix)
<1> DEFINE X == TokensOf(t) \cup {x}
           k == LexFrom(t)[j]
<1>1. k \in Seq(TokensOf(t)) /\ TokensOf(t) \subseteq X /\ x \in X
  BY LexUnfolds
<1> HIDE DEF k, X
<1>2. k \in Seq(X)
  BY <1>1, SeqMonotonic
<1>3. Completes(<<x>> \o k, d, after) <=>
           /\ x # Malformed
           /\ ~(after /\ x = <<")">>)
           /\ d + Opens(x) >= 0
           /\ Completes(k, d + Opens(x), x \in Prefix)
  BY <1>1, <1>2, CompletesCons
<1>4. Completes(k, d + Opens(x), x \in Prefix) <=> Completes(k, e, prefix)
  BY Zenon DEF Completes
<1> QED
  BY <1>3, <1>4 DEF k

\* Nothing completes a program that begins with what is no token.
LEMMA CompletesMalformed ==
  ASSUME NEW t, Len(t) \in Nat, NEW d \in Nat, NEW after \in BOOLEAN, NEW j \in 1 .. Len(t) + 1
  PROVE  ~Completes(<<Malformed>> \o LexFrom(t)[j], d, after)
<1> DEFINE X == TokensOf(t) \cup {Malformed}
           k == LexFrom(t)[j]
<1>1. k \in Seq(TokensOf(t)) /\ TokensOf(t) \subseteq X /\ Malformed \in X
  BY LexUnfolds
<1> HIDE DEF k, X
<1>2. k \in Seq(X)
  BY <1>1, SeqMonotonic
<1>3. ~Completes(<<Malformed>> \o k, d, after)
  BY <1>1, <1>2, CompletesCons
<1> QED
  BY <1>3 DEF k

\* A token that is neither a parenthesis nor a prefix.
LEMMA PlainToken ==
  ASSUME NEW x, x[1] \notin Single \cup {"semicolon", NUL}
  PROVE  Opens(x) = 0 /\ x \notin Prefix /\ x # Malformed
<1>1. \A c \in Single \cup {"semicolon", NUL} : <<c>>[1] = c
  OBVIOUS
<1>2. /\ x # <<"(">> /\ x # <<")">> /\ x # <<"'">> /\ x # <<"#">> /\ x # <<"semicolon">> /\ x # <<NUL>>
  BY <1>1 DEF Single
<1> QED
  BY <1>2 DEF Opens, Prefix, Malformed

-----------------------------------------------------------------------------
(* What completes a program at a place of its text *)

\* A blank makes no difference.
LEMMA CompletesBlank ==
  ASSUME NEW t, Len(t) \in Nat, NEW i \in 1 .. Len(t), t[i] \in Blank, NEW d, NEW after
  PROVE  Completes(LexFrom(t)[i], d, after) <=> Completes(LexFrom(t)[i + 1], d, after)
BY LexBlank

\* The end of a text completes a program iff no list is open.
LEMMA CompletesEnd ==
  ASSUME NEW t, Len(t) \in Nat, NEW d \in Nat, NEW after
  PROVE  Completes(LexFrom(t)[Len(t) + 1], d, after) <=> d = 0
BY LexUnfolds, CompletesNil

\* An opening parenthesis opens one list more.
LEMMA CompletesOpen ==
  ASSUME NEW t, Len(t) \in Nat, NEW i \in 1 .. Len(t), t[i] = "(", NEW d \in Nat, NEW after \in BOOLEAN
  PROVE  Completes(LexFrom(t)[i], d, after) <=> Completes(LexFrom(t)[i + 1], d + 1, FALSE)
<1>1. LexFrom(t)[i] = << <<"(">> >> \o LexFrom(t)[i + 1]
  BY LexSingle DEF Single
<1>2. <<"(">> # <<")">> /\ <<"(">> # <<"'">> /\ <<"(">> # <<"semicolon">> /\ <<"(">> # <<"#">> /\ <<"(">> # <<NUL>>
  BY DEF NUL
<1>3. Opens(<<"(">>) = 1 /\ <<"(">> \notin Prefix /\ <<"(">> # Malformed
  BY <1>2 DEF Opens, Prefix, Malformed
<1>4. i + 1 \in 1 .. Len(t) + 1 /\ d + 1 >= 0 /\ d + 1 = d + Opens(<<"(">>)
  BY <1>3
<1> DEFINE x == <<"(">>
<1>5. Opens(x) = 1 /\ x \notin Prefix /\ x # Malformed /\ x # <<")">> /\ d + 1 = d + Opens(x)
  BY <1>2, <1>3, <1>4
<1> DEFINE j == i + 1
           e == d + 1
<1>8. j \in 1 .. Len(t) + 1 /\ e = d + Opens(x)
  BY <1>4
<1> HIDE DEF x, j, e
<1>6. Completes(<<x>> \o LexFrom(t)[j], d, after) <=>
        ~(after /\ x = <<")">>) /\ e >= 0 /\ Completes(LexFrom(t)[j], e, FALSE)
  BY ONLY <1>5, <1>8, Len(t) \in Nat, d \in Nat, after \in BOOLEAN, FALSE \in BOOLEAN, CompletesToken
<1>7. LexFrom(t)[i] = <<x>> \o LexFrom(t)[i + 1]
  BY <1>1 DEF x
<1> QED
  BY <1>4, <1>5, <1>6, <1>7, Zenon DEF j, e

\* At i, a list ends, if one is open and no prefix waits for its sexp.
ClosesList(t, i, d, after) ==
  Completes(LexFrom(t)[i], d, after) <=> ~after /\ d >= 1 /\ Completes(LexFrom(t)[i + 1], d - 1, FALSE)

\* A closing parenthesis closes a list.
LEMMA CompletesClose ==
  ASSUME NEW t, Len(t) \in Nat, NEW i \in 1 .. Len(t), t[i] = ")", NEW d \in Nat, NEW after \in BOOLEAN
  PROVE  ClosesList(t, i, d, after)
<1>1. LexFrom(t)[i] = << <<")">> >> \o LexFrom(t)[i + 1]
  BY LexSingle DEF Single
<1>2. <<")">> # <<"(">> /\ <<")">> # <<"'">> /\ <<")">> # <<"semicolon">> /\ <<")">> # <<"#">> /\ <<")">> # <<NUL>>
  BY DEF NUL
<1>3. Opens(<<")">>) = -1 /\ <<")">> \notin Prefix /\ <<")">> # Malformed
  BY <1>2 DEF Opens, Prefix, Malformed
<1>4. i + 1 \in 1 .. Len(t) + 1 /\ (d - 1 >= 0 <=> d >= 1) /\ d - 1 = d + Opens(<<")">>)
  BY <1>3
<1> DEFINE x == <<")">>
<1>5. x \notin Prefix /\ x # Malformed /\ x = <<")">> /\ d - 1 = d + Opens(x)
  BY <1>3, <1>4
<1>7. LexFrom(t)[i] = <<x>> \o LexFrom(t)[i + 1]
  BY <1>1
<1> DEFINE j == i + 1
           e == d - 1
<1>8. j \in 1 .. Len(t) + 1 /\ e = d + Opens(x)
  BY <1>4
<1> HIDE DEF x, j, e
<1>6. Completes(<<x>> \o LexFrom(t)[j], d, after) <=>
        ~(after /\ x = <<")">>) /\ e >= 0 /\ Completes(LexFrom(t)[j], e, FALSE)
  BY ONLY <1>5, <1>8, Len(t) \in Nat, d \in Nat, after \in BOOLEAN, FALSE \in BOOLEAN, CompletesToken
<1> QED
  BY ONLY <1>4, <1>5, <1>6, <1>7, Zenon DEF ClosesList, j, e

\* A prefix waits for its sexp.
LEMMA CompletesPrefix ==
  ASSUME NEW t, Len(t) \in Nat, NEW i \in 1 .. Len(t), t[i] \in {"'", "#"}, NEW d \in Nat, NEW after \in BOOLEAN
  PROVE  Completes(LexFrom(t)[i], d, after) <=> Completes(LexFrom(t)[i + 1], d, TRUE)
<1> DEFINE x == <<t[i]>>
<1>1. LexFrom(t)[i] = <<x>> \o LexFrom(t)[i + 1]
  BY LexSingle DEF Single
<1>2. x \in {<<"'">>, <<"#">>}
  OBVIOUS
<1>3. /\ <<"'">> # <<"(">> /\ <<"'">> # <<")">> /\ <<"'">> # <<NUL>>
      /\ <<"#">> # <<"(">> /\ <<"#">> # <<")">> /\ <<"#">> # <<NUL>>
  BY DEF NUL
<1> HIDE DEF x
<1>4. Opens(x) = 0 /\ x \in Prefix /\ x # Malformed /\ x # <<")">>
  BY <1>2, <1>3 DEF Opens, Prefix, Malformed
<1>5. i + 1 \in 1 .. Len(t) + 1 /\ d = d + Opens(x) /\ d >= 0
  BY <1>4
<1>6. Completes(<<x>> \o LexFrom(t)[i + 1], d, after) <=>
        ~(after /\ x = <<")">>) /\ d >= 0 /\ Completes(LexFrom(t)[i + 1], d, TRUE)
  BY ONLY <1>4, <1>5, Len(t) \in Nat, d \in Nat, after \in BOOLEAN, TRUE \in BOOLEAN, CompletesToken
<1> QED
  BY <1>1, <1>4, <1>5, <1>6, Zenon

\* So does a comment, from the end of its line on.
LEMMA CompletesComment ==
  ASSUME NEW t, Len(t) \in Nat, NEW i \in 1 .. Len(t), t[i] = "semicolon", NEW d \in Nat, NEW after \in BOOLEAN
  PROVE  Completes(LexFrom(t)[i], d, after) <=> Completes(LexFrom(t)[FirstFrom(t, i + 1, {"\n"})], d, TRUE)
<1>1. LexFrom(t)[i] = << <<"semicolon">> >> \o LexFrom(t)[FirstFrom(t, i + 1, {"\n"})]
  BY LexComment
<1>2. <<"semicolon">> # <<"(">> /\ <<"semicolon">> # <<")">> /\ <<"semicolon">> # <<NUL>>
  BY DEF NUL
<1>3. Opens(<<"semicolon">>) = 0 /\ <<"semicolon">> \in Prefix /\ <<"semicolon">> # Malformed
  BY <1>2 DEF Opens, Prefix, Malformed
<1>4. i + 1 \in 1 .. Len(t) + 1 /\ d = d + Opens(<<"semicolon">>) /\ d >= 0
  BY <1>3
<1>5. FirstFrom(t, i + 1, {"\n"}) \in 1 .. Len(t) + 1
  BY <1>4, FirstFromIs
<1> DEFINE x == <<"semicolon">>
           j == FirstFrom(t, i + 1, {"\n"})
<1>6. LexFrom(t)[i] = <<x>> \o LexFrom(t)[j]
  BY <1>1
<1> HIDE DEF x, j
<1>7. Completes(<<x>> \o LexFrom(t)[j], d, after) <=>
        ~(after /\ x = <<")">>) /\ d >= 0 /\ Completes(LexFrom(t)[j], d, TRUE)
  BY <1>3, <1>4, <1>5, CompletesToken DEF x, j
<1>8. x # <<")">>
  BY <1>2 DEF x
<1> QED
  BY <1>4, <1>6, <1>7, <1>8 DEF j

\* A string that ends is a sexp, one that does not is an error.
LEMMA CompletesString ==
  ASSUME NEW t, Len(t) \in Nat, NEW i \in 1 .. Len(t), t[i] = "quotes", NEW d \in Nat, NEW after \in BOOLEAN
  PROVE  /\ Closing(t, i) > Len(t) => ~Completes(LexFrom(t)[i], d, after)
         /\ Closing(t, i) <= Len(t) =>
              (Completes(LexFrom(t)[i], d, after) <=> Completes(LexFrom(t)[Closing(t, i) + 1], d, FALSE))
<1> DEFINE e == Closing(t, i)
           x == Content(t, i, e)
<1>1. e \in i + 1 .. Len(t) + 1
  BY ClosingIs
<1>2. x[1] = "quotes"
  BY DEF Content
<1>3. Opens(x) = 0 /\ x \notin Prefix /\ x # Malformed /\ x # <<")">>
  <2> HIDE DEF x
  <2>1. <<")">>[1] = ")"
    OBVIOUS
  <2> QED
    BY <1>2, <2>1, PlainToken DEF Single, NUL
<1>4. /\ e > Len(t) => LexFrom(t)[i] = <<Malformed>> \o LexFrom(t)[Len(t) + 1]
      /\ e <= Len(t) => LexFrom(t)[i] = <<x>> \o LexFrom(t)[e + 1]
  BY LexString, LexUnfolds
<1>5. d = d + Opens(x) /\ d >= 0
  BY <1>3
<1> HIDE DEF e, x
<1>6. ASSUME e > Len(t) PROVE ~Completes(LexFrom(t)[i], d, after)
  BY <1>4, <1>6, CompletesMalformed, Len(t) + 1 \in 1 .. Len(t) + 1
<1>7. ASSUME e <= Len(t)
      PROVE  Completes(LexFrom(t)[i], d, after) <=> Completes(LexFrom(t)[e + 1], d, FALSE)
  <2>1. e + 1 \in 1 .. Len(t) + 1
    BY <1>1, <1>7
  <2>2. Completes(<<x>> \o LexFrom(t)[e + 1], d, after) <=>
          ~(after /\ x = <<")">>) /\ d >= 0 /\ Completes(LexFrom(t)[e + 1], d, FALSE)
    BY <1>3, <1>5, <2>1, CompletesToken
  <2> QED
    BY <1>3, <1>4, <1>5, <1>7, <2>2
<1> QED
  BY <1>6, <1>7 DEF e

\* A word has a char, and no delimiter.
LEMMA WordIs ==
  ASSUME NEW t \in Seq(STRING), NEW i \in 1 .. Len(t), BeginsWord(t[i])
  PROVE  /\ WordEnd(t, i) \in i + 1 .. Len(t) + 1
         /\ Word(t, i) \in Seq(STRING)
         /\ Len(Word(t, i)) = WordEnd(t, i) - i
         /\ \A j \in 1 .. WordEnd(t, i) - i : Word(t, i)[j] = t[i + j - 1] /\ t[i + j - 1] \notin Delimiter
         /\ Word(t, i)[1] = t[i]
<1> DEFINE e == WordEnd(t, i)
           k == Word(t, i)
<1>1. t[i] \notin Delimiter
  BY DEF BeginsWord, Delimiter, Blank, Single
<1>2. FirstFrom(t, i, Delimiter) = FirstFrom(t, i + 1, Delimiter)
  BY <1>1, FirstFromSteps
<1>3. i \in 1 .. Len(t) + 1 /\ i + 1 \in 1 .. Len(t) + 1 /\ Len(t) \in Nat
  OBVIOUS
<1>4. e \in i + 1 .. Len(t) + 1
  BY <1>2, <1>3, FirstFromIs DEF WordEnd
<1>5. \A j \in i .. e - 1 : t[j] \notin Delimiter
  BY <1>3, FirstFromIs DEF WordEnd
<1>6. k = SubSeq(t, i, e - 1)
  BY DEF Word
<1> HIDE DEF e, k
<1>7. k \in Seq(STRING) /\ Len(k) = e - i /\ \A j \in 1 .. e - i : k[j] = t[i + j - 1]
  BY <1>3, <1>4, <1>6
<1>8. ASSUME NEW j \in 1 .. e - i PROVE t[i + j - 1] \notin Delimiter
  BY <1>3, <1>4, <1>5, i + j - 1 \in i .. e - 1
<1>9. k[1] = t[i]
  BY <1>3, <1>4, <1>7, 1 \in 1 .. e - i, i + 1 - 1 = i
<1> QED
  BY <1>4, <1>7, <1>8, <1>9 DEF e, k

\* A symbol is a sexp.
LEMMA CompletesSymbol ==
  ASSUME NEW t \in Seq(STRING), \A j \in DOMAIN t : t[j] # NUL, NEW i \in 1 .. Len(t), BeginsWord(t[i]),
         ~LooksNumeral(Word(t, i)), NEW d \in Nat, NEW after \in BOOLEAN
  PROVE  Completes(LexFrom(t)[i], d, after) <=> Completes(LexFrom(t)[WordEnd(t, i)], d, FALSE)
<1> DEFINE x == Word(t, i)
           e == WordEnd(t, i)
<1>1. WordToken(t, i) = x /\ WordAfter(t, i) = e
  BY DEF WordToken, WordAfter
<1>2. LexFrom(t)[i] = <<x>> \o LexFrom(t)[e]
  BY <1>1, LexWord
<1>3. x[1] = t[i] /\ e \in i + 1 .. Len(t) + 1
  BY WordIs
<1>4. t[i] \notin Single \cup {"semicolon", NUL} /\ t[i] # ")"
  BY DEF BeginsWord, Single
<1> HIDE DEF x, e
<1>5. Opens(x) = 0 /\ x \notin Prefix /\ x # Malformed /\ x # <<")">>
  BY <1>3, <1>4, PlainToken, <<")">>[1] = ")"
<1>6. d = d + Opens(x) /\ d >= 0 /\ e \in 1 .. Len(t) + 1 /\ Len(t) \in Nat
  BY <1>3, <1>5
<1>7. Completes(<<x>> \o LexFrom(t)[e], d, after) <=>
        ~(after /\ x = <<")">>) /\ d >= 0 /\ Completes(LexFrom(t)[e], d, FALSE)
  BY <1>5, <1>6, CompletesToken
<1> QED
  BY <1>2, <1>5, <1>6, <1>7 DEF e

\* An integer begins with a digit or a minus, without its leading zeros too.
LEMMA IntegerIs ==
  ASSUME NEW k \in Seq(STRING), k # <<>>, IsInteger(k)
  PROVE  Integer(k)[1] \in Digit \cup {"-"}
<1> DEFINE digits == IF k[1] = "-" THEN Tail(k) ELSE k
           zeros == {i \in DOMAIN digits : \A j \in 1 .. i : digits[j] = "0"}
           z == Cardinality(zeros)
           rest == SubSeq(digits, z + 1, Len(digits))
<1>1. Drop(k, 1) = Tail(k)
  <2>1. Tail(k) = SubSeq(k, 2, Len(k))
    BY TailIsSubSeq
  <2>2. 1 + 1 = 2
    OBVIOUS
  <2> QED
    BY <2>1, <2>2, Zenon DEF Drop
<1>2. digits \in Seq(STRING) /\ \A i \in DOMAIN digits : digits[i] \in Digit
  <2>1. digits \in Seq(STRING)
    <3>1. Tail(k) \in Seq(STRING)
      OBVIOUS
    <3> QED
      BY <3>1, Zenon
  <2>2. digits = IF k[1] = "-" THEN Drop(k, 1) ELSE k
    BY <1>1
  <2> HIDE DEF digits
  <2> QED
    BY <2>1, <2>2 DEF IsInteger, AllDigits
<1> HIDE DEF digits
<1>3. z \in Nat
  <2>1. zeros \subseteq 1 .. Len(digits) /\ IsFiniteSet(1 .. Len(digits))
    BY <1>2, FS_Interval
  <2> HIDE DEF zeros
  <2> QED
    BY <2>1, FS_Subset, FS_CardinalityType
<1> HIDE DEF z
<1>4. CASE rest = <<>>
  <2>1. Integer(k) = <<"0">>
    BY <1>4 DEF Integer, digits, z
  <2> QED
    BY <2>1 DEF Digit, Octal
<1>5. CASE rest # <<>>
  <2>1. z + 1 \in DOMAIN digits /\ rest[1] = digits[z + 1]
    BY <1>2, <1>3, <1>5
  <2>2. Integer(k) = IF k[1] = "-" THEN <<"-">> \o rest ELSE rest
    BY <1>5 DEF Integer, digits, z
  <2>3. rest \in Seq(STRING)
    BY <1>2, <1>3
  <2> HIDE DEF rest
  <2>4. (<<"-">> \o rest)[1] = "-"
    BY <2>3
  <2> QED
    BY <1>2, <2>1, <2>2, <2>4
<1> QED
  BY <1>4, <1>5

\* A numeral makes no difference, and a float takes the char after it along.
PassesNumeral(t, i, d, after) ==
  LET k == Word(t, i)
  IN  /\ IsInteger(k) /\ ~IsFloat(k) =>
           (Completes(LexFrom(t)[i], d, after) <=> Completes(LexFrom(t)[WordEnd(t, i)], d, FALSE))
      /\ ~IsInteger(k) /\ IsFloat(k) =>
           (Completes(LexFrom(t)[i], d, after) <=> Completes(LexFrom(t)[WordEnd(t, i) + 1], d, FALSE))
      /\ ~IsInteger(k) /\ ~IsFloat(k) /\ IsHex(k) =>
           (Completes(LexFrom(t)[i], d, after) <=> Completes(LexFrom(t)[WordEnd(t, i)], d, FALSE))

\* So are the numerals.
LEMMA CompletesNumeral ==
  ASSUME NEW t \in Seq(STRING), \A j \in DOMAIN t : t[j] # NUL, NEW i \in 1 .. Len(t), BeginsWord(t[i]),
         LooksNumeral(Word(t, i)), Ends(t, i), NEW d \in Nat, NEW after \in BOOLEAN
  PROVE  PassesNumeral(t, i, d, after)
<1> DEFINE k == Word(t, i)
           e == WordEnd(t, i)
           x == WordToken(t, i)
           a == WordAfter(t, i)
<1>1. LexFrom(t)[i] = <<x>> \o LexFrom(t)[a]
  BY LexWord
<1>2. k \in Seq(STRING) /\ k # <<>> /\ k[1] = t[i] /\ e \in i + 1 .. Len(t) + 1
  BY WordIs
<1>3. e <= Len(t)
  BY DEF Ends
<1>4. t[i] \notin Single \cup {"semicolon", NUL} /\ t[i] # ")"
  BY DEF BeginsWord, Single
<1>5. x = IF IsInteger(k) THEN Integer(k) ELSE IF IsFloat(k) \/ IsHex(k) THEN k ELSE Malformed
  BY DEF WordToken
<1>6. a = IF IsFloat(k) THEN e + 1 ELSE e
  BY DEF WordAfter
<1> HIDE DEF k, e, x, a
<1>7. ASSUME IsInteger(k) \/ IsFloat(k) \/ IsHex(k)
      PROVE  Completes(LexFrom(t)[i], d, after) <=> Completes(LexFrom(t)[a], d, FALSE)
  <2>1. x[1] \notin Single \cup {"semicolon", NUL} /\ x[1] # ")"
    <3>1. CASE IsInteger(k)
      <4>1. x = Integer(k)
        BY <1>5, <3>1
      <4>2. x[1] \in Digit \cup {"-"}
        BY <1>2, <3>1, <4>1, IntegerIs
      <4> QED
        BY <4>2 DEF Digit, Octal, Single, NUL
    <3>2. CASE ~IsInteger(k)
      BY <1>2, <1>4, <1>5, <1>7, <3>2
    <3> QED
      BY <3>1, <3>2
  <2>2. Opens(x) = 0 /\ x \notin Prefix /\ x # Malformed /\ x # <<")">>
    BY <2>1, PlainToken, <<")">>[1] = ")"
  <2>3. d = d + Opens(x) /\ d >= 0 /\ a \in 1 .. Len(t) + 1 /\ Len(t) \in Nat
    BY <1>2, <1>3, <1>6, <2>2
  <2>4. Completes(<<x>> \o LexFrom(t)[a], d, after) <=>
          ~(after /\ x = <<")">>) /\ d >= 0 /\ Completes(LexFrom(t)[a], d, FALSE)
    BY <2>2, <2>3, CompletesToken
  <2> QED
    BY <1>1, <2>2, <2>3, <2>4
<1> QED
  BY ONLY <1>6, <1>7, Zenon DEF PassesNumeral, k, e

\* A word that begins like a numeral and is none is an error.
LEMMA CompletesNoNumeral ==
  ASSUME NEW t \in Seq(STRING), NEW i \in 1 .. Len(t), BeginsWord(t[i]), LooksNumeral(Word(t, i)),
         ~Ends(t, i) \/ ~(IsInteger(Word(t, i)) \/ IsFloat(Word(t, i)) \/ IsHex(Word(t, i))),
         NEW d \in Nat, NEW after \in BOOLEAN
  PROVE  ~Completes(LexFrom(t)[i], d, after)
<1>1. WordToken(t, i) = Malformed
  BY DEF WordToken
<1>2. LexFrom(t)[i] = <<Malformed>> \o LexFrom(t)[WordAfter(t, i)]
  BY <1>1, LexWord
<1>3. WordAfter(t, i) = WordEnd(t, i) \/ (Ends(t, i) /\ WordAfter(t, i) = WordEnd(t, i) + 1)
  BY DEF WordAfter
<1>4. WordEnd(t, i) \in i + 1 .. Len(t) + 1 /\ (Ends(t, i) => WordEnd(t, i) <= Len(t))
  BY WordIs DEF Ends
<1>5. WordAfter(t, i) \in 1 .. Len(t) + 1
  BY <1>3, <1>4
<1> QED
  BY <1>2, <1>5, CompletesMalformed

-----------------------------------------------------------------------------
(* Strings *)

\* The string from q on goes on at p: it has not ended, and no escape is begun.
Open(t, q, p) ==
  /\ q \in 1 .. Len(t) /\ p \in q + 1 .. Len(t) + 1
  /\ p <= Len(t) => Unescaped(t, q, p)
  /\ \A j \in Quotes(t, q) : j >= p
  /\ \A j \in Hexes(t, q) : j >= p

\* The backslashes before a place are a number of them.
LEMMA BackslashesFinite ==
  ASSUME NEW t, NEW q \in Nat, NEW p \in Nat
  PROVE  IsFiniteSet(Backslashes(t, q, p)) /\ Cardinality(Backslashes(t, q, p)) \in Nat
<1>1. Backslashes(t, q, p) \subseteq q + 1 .. p - 1 /\ IsFiniteSet(q + 1 .. p - 1)
  BY FS_Interval DEF Backslashes
<1> QED
  BY <1>1, FS_Subset, FS_CardinalityType

\* Nothing is escaped behind another char than a backslash.
LEMMA UnescapedAfter ==
  ASSUME NEW t, NEW q \in Nat, NEW p \in Nat, p > q, p = q + 1 \/ t[p - 1] # "\\"
  PROVE  Unescaped(t, q, p)
<1>1. Backslashes(t, q, p) = {}
  <2> SUFFICES ASSUME NEW b \in q + 1 .. p - 1, \A k \in b .. p - 1 : t[k] = "\\" PROVE FALSE
    BY DEF Backslashes
  <2>1. p - 1 \in b .. p - 1 /\ p # q + 1
    OBVIOUS
  <2> QED
    BY <2>1
<1>2. Cardinality(Backslashes(t, q, p)) = 0
  BY <1>1, FS_EmptySet
<1> QED
  BY <1>2 DEF Unescaped

\* A backslash adds itself to those before it.
LEMMA BackslashesGrow ==
  ASSUME NEW t, NEW q \in Nat, NEW p \in Nat, p > q, t[p] = "\\"
  PROVE  Cardinality(Backslashes(t, q, p + 1)) = Cardinality(Backslashes(t, q, p)) + 1
<1>1. Backslashes(t, q, p + 1) = Backslashes(t, q, p) \cup {p}
  <2>1. ASSUME NEW b \in Backslashes(t, q, p + 1) PROVE b \in Backslashes(t, q, p) \cup {p}
    <3>1. b \in q + 1 .. p /\ \A k \in b .. p : t[k] = "\\"
      BY (p + 1) - 1 = p DEF Backslashes
    <3>2. b # p => b \in q + 1 .. p - 1 /\ \A k \in b .. p - 1 : t[k] = "\\"
      BY <3>1
    <3> QED
      BY <3>2 DEF Backslashes
  <2>2. ASSUME NEW b \in Backslashes(t, q, p) \cup {p} PROVE b \in Backslashes(t, q, p + 1)
    <3>1. b \in q + 1 .. p /\ \A k \in b .. p - 1 : t[k] = "\\"
      BY DEF Backslashes
    <3>2. \A k \in b .. p : t[k] = "\\"
      BY <3>1
    <3> QED
      BY <3>1, <3>2, (p + 1) - 1 = p DEF Backslashes
  <2> QED
    BY <2>1, <2>2
<1>2. p \notin Backslashes(t, q, p)
  BY DEF Backslashes
<1> QED
  BY <1>1, <1>2, BackslashesFinite, FS_AddElement

\* A string goes on behind the quote that opens it,
LEMMA StringBegins ==
  ASSUME NEW t, Len(t) \in Nat, NEW q \in 1 .. Len(t)
  PROVE  Open(t, q, q + 1)
<1>1. Unescaped(t, q, q + 1)
  BY UnescapedAfter, q + 1 > q, q + 1 \in Nat
<1> QED
  BY <1>1 DEF Open, Quotes, Hexes

\* behind another char,
LEMMA StringGoesOn ==
  ASSUME NEW t, Len(t) \in Nat, NEW q, NEW p, Open(t, q, p), p <= Len(t), t[p] \notin {"quotes", "\\"}
  PROVE  Open(t, q, p + 1)
<1>1. q \in 1 .. Len(t) /\ p \in q + 1 .. Len(t) /\ p + 1 \in q + 1 .. Len(t) + 1
  BY DEF Open
<1>2. Unescaped(t, q, p + 1)
  BY <1>1, UnescapedAfter, (p + 1) - 1 = p, p + 1 > q, p + 1 \in Nat
<1>3. ASSUME NEW j \in Quotes(t, q) PROVE j >= p + 1
  BY <1>1 DEF Open, Quotes
<1>4. ASSUME NEW j \in Hexes(t, q) PROVE j >= p + 1
  BY <1>1 DEF Open, Hexes
<1> QED
  BY <1>1, <1>2, <1>3, <1>4 DEF Open

\* and behind a backslash and the char that it escapes.
LEMMA StringEscapes ==
  ASSUME NEW t, Len(t) \in Nat, NEW q, NEW p, Open(t, q, p), p + 1 <= Len(t), t[p] = "\\", t[p + 1] # "x"
  PROVE  Open(t, q, p + 2)
<1>1. q \in 1 .. Len(t) /\ p \in q + 1 .. Len(t) - 1 /\ p + 2 \in q + 1 .. Len(t) + 1
  BY DEF Open
<1>2. Unescaped(t, q, p)
  BY <1>1 DEF Open
<1> DEFINE n == Cardinality(Backslashes(t, q, p))
<1>3. n \in Nat /\ n % 2 = 0
  BY <1>1, <1>2, BackslashesFinite DEF Unescaped
<1>4. Cardinality(Backslashes(t, q, p + 1)) = n + 1
  BY <1>1, BackslashesGrow
<1> HIDE DEF n
<1>5. (n + 1) % 2 # 0 /\ (n + 2) % 2 = 0
  BY <1>3
<1>6. ~Unescaped(t, q, p + 1)
  BY <1>4, <1>5 DEF Unescaped
<1>7. Unescaped(t, q, p + 2)
  <2>1. CASE t[p + 1] = "\\"
    <3>1. Cardinality(Backslashes(t, q, (p + 1) + 1)) = Cardinality(Backslashes(t, q, p + 1)) + 1
      BY <1>1, <2>1, BackslashesGrow, p + 1 \in Nat, p + 1 > q
    <3>2. Cardinality(Backslashes(t, q, p + 2)) = n + 2
      BY <1>1, <1>3, <1>4, <3>1, (p + 1) + 1 = p + 2
    <3> QED
      BY <1>1, <1>5, <3>2 DEF Unescaped
  <2>2. CASE t[p + 1] # "\\"
    BY <1>1, <2>2, UnescapedAfter, (p + 2) - 1 = p + 1, p + 2 \in Nat, p + 2 > q
  <2> QED
    BY <2>1, <2>2
<1>8. ASSUME NEW j \in Quotes(t, q) PROVE j >= p + 2
  <2>1. j \in q + 1 .. Len(t) /\ j >= p /\ j # p
    BY DEF Open, Quotes
  <2>2. j # p + 1
    BY <1>6 DEF Quotes
  <2> QED
    BY <1>1, <2>1, <2>2
<1>9. ASSUME NEW j \in Hexes(t, q) PROVE j >= p + 2
  <2>1. j \in q + 1 .. Len(t) /\ j >= p /\ j # p
    BY DEF Open, Hexes
  <2>2. j # p + 1
    BY <1>6 DEF Hexes
  <2> QED
    BY <1>1, <2>1, <2>2
<1> QED
  BY <1>1, <1>7, <1>8, <1>9 DEF Open

\* A backslash at the end of the text escapes nothing.
LEMMA StringBreaksOff ==
  ASSUME NEW t, Len(t) \in Nat, NEW q, Open(t, q, Len(t)), t[Len(t)] = "\\"
  PROVE  Open(t, q, Len(t) + 1)
<1>1. q \in 1 .. Len(t) /\ Len(t) + 1 \in q + 1 .. Len(t) + 1
  BY DEF Open
<1>2. ASSUME NEW j \in Quotes(t, q) PROVE j >= Len(t) + 1
  BY <1>1 DEF Open, Quotes
<1>3. ASSUME NEW j \in Hexes(t, q) PROVE j >= Len(t) + 1
  BY <1>1 DEF Open, Hexes
<1> QED
  BY <1>1, <1>2, <1>3 DEF Open

\* It ends at the first quote that is not escaped,
LEMMA StringCloses ==
  ASSUME NEW t, Len(t) \in Nat, NEW q, NEW p, Open(t, q, p), p <= Len(t), t[p] = "quotes"
  PROVE  Closing(t, q) = p
<1>1. q \in 1 .. Len(t) /\ p \in q + 1 .. Len(t) /\ Unescaped(t, q, p)
  BY DEF Open
<1>2. p \in Quotes(t, q)
  BY <1>1 DEF Quotes
<1> DEFINE e == Closing(t, q)
<1>3. /\ e \in q + 1 .. Len(t) + 1
      /\ e \in Quotes(t, q) \/ (\E j \in Hexes(t, q) : e = HexCloses(t, j)) \/ e = Len(t) + 1
      /\ e <= p
  BY <1>1, <1>2, ClosingIs
<1> HIDE DEF e
<1>4. ASSUME NEW j \in Hexes(t, q) PROVE HexCloses(t, j) >= p
  <2>1. j \in q + 1 .. Len(t) - 1 /\ j >= p
    BY DEF Hexes, Open
  <2> QED
    BY <1>1, <2>1 DEF HexCloses
<1>5. \A j \in Quotes(t, q) : j >= p
  BY DEF Open
<1>6. e >= p
  BY <1>1, <1>3, <1>4, <1>5
<1>7. e = p
  BY <1>1, <1>3, <1>6
<1> QED
  BY <1>7 DEF e

\* behind the first hexadecimal escape,
LEMMA StringHex ==
  ASSUME NEW t, Len(t) \in Nat, NEW q, NEW p, Open(t, q, p), p + 1 <= Len(t), t[p] = "\\", t[p + 1] = "x"
  PROVE  Closing(t, q) = HexCloses(t, p)
<1>1. q \in 1 .. Len(t) /\ p \in q + 1 .. Len(t) - 1 /\ Unescaped(t, q, p)
  BY DEF Open
<1>2. p \in Hexes(t, q)
  BY <1>1 DEF Hexes
<1> DEFINE e == Closing(t, q)
           h == HexCloses(t, p)
<1>3. /\ e \in q + 1 .. Len(t) + 1
      /\ e \in Quotes(t, q) \/ (\E j \in Hexes(t, q) : e = HexCloses(t, j)) \/ e = Len(t) + 1
      /\ e <= h
  BY <1>1, <1>2, ClosingIs
<1>4. h = IF p + 2 <= Len(t) THEN p + 2 ELSE Len(t)
  BY DEF HexCloses
<1>5. ASSUME NEW j \in Hexes(t, q) PROVE HexCloses(t, j) >= h
  <2>1. j \in q + 1 .. Len(t) - 1 /\ j >= p
    BY DEF Hexes, Open
  <2> QED
    BY <1>1, <2>1 DEF HexCloses
<1>6. ASSUME NEW j \in Quotes(t, q) PROVE j >= h
  <2>1. j \in q + 1 .. Len(t) /\ j >= p /\ j # p /\ j # p + 1
    BY DEF Quotes, Open
  <2> QED
    BY <1>1, <1>4, <2>1
<1> HIDE DEF e, h
<1>7. h \in Int /\ h <= Len(t)
  BY <1>1, <1>4
<1>8. e >= h
  BY <1>1, <1>3, <1>5, <1>6, <1>7
<1>9. e = h
  BY <1>1, <1>3, <1>7, <1>8
<1> QED
  BY <1>9 DEF e, h

\* or not at all.
LEMMA StringNever ==
  ASSUME NEW t, Len(t) \in Nat, NEW q, Open(t, q, Len(t) + 1)
  PROVE  Closing(t, q) = Len(t) + 1
<1>1. q \in 1 .. Len(t)
  BY DEF Open
<1>2. Quotes(t, q) = {}
  BY <1>1 DEF Open, Quotes
<1>3. Hexes(t, q) = {}
  BY <1>1 DEF Open, Hexes
<1> QED
  BY <1>1, <1>2, <1>3, ClosingIs

-----------------------------------------------------------------------------
(* Numerals *)

\* Digits, signs and delimiters are different chars.
LEMMA DigitsAre ==
  /\ "-" \notin Digit /\ "." \notin Digit /\ "x" \notin Digit /\ "." # "-" /\ "x" # "." /\ "x" # "-"
  /\ "0" \in Digit /\ "x" \notin HexDigit /\ Digit \subseteq HexDigit
  /\ Digit \cap Delimiter = {} /\ HexDigit \cap Delimiter = {}
  /\ "-" \notin Delimiter /\ "." \notin Delimiter /\ "x" \notin Delimiter
BY DEF HexDigit, Digit, Octal, Delimiter, Blank

\* The parts of a numeral, char by char.
Head1(k, n) == k[1] \in Digit \/ (k[1] = "-" /\ n >= 2)
\* The chars i to j of k are digits.
DigitsIn(k, i, j) == \A h \in i .. j : k[h] \in Digit

\* An integer, char by char.
LEMMA IsIntegerIs ==
  ASSUME NEW k \in Seq(STRING), k # <<>>
  PROVE  IsInteger(k) <=> Head1(k, Len(k)) /\ DigitsIn(k, 2, Len(k))
<1> DEFINE r == Drop(k, 1)
<1>1. Len(k) \in Nat \ {0} /\ DOMAIN k = 1 .. Len(k)
  OBVIOUS
<1>2. /\ Len(r) = Len(k) - 1 /\ \A i \in 1 .. Len(k) - 1 : r[i] = k[i + 1]
      /\ r \in Seq(STRING)
  <2>1. r = SubSeq(k, 2, Len(k))
    BY 1 + 1 = 2, Zenon DEF Drop
  <2> QED
    BY <2>1, RestOfSeq
<1> HIDE DEF r
<1>3. DOMAIN r = 1 .. Len(k) - 1 /\ (r = <<>> <=> Len(k) = 1)
  BY <1>1, <1>2
<1>4. CASE k[1] = "-"
  <2>1. IsInteger(k) <=> r # <<>> /\ \A i \in DOMAIN r : r[i] \in Digit
    BY <1>4 DEF IsInteger, AllDigits, r
  <2>2. (\A i \in DOMAIN r : r[i] \in Digit) <=> DigitsIn(k, 2, Len(k))
    <3>1. ASSUME \A i \in DOMAIN r : r[i] \in Digit, NEW h \in 2 .. Len(k) PROVE k[h] \in Digit
      <4>1. h - 1 \in 1 .. Len(k) - 1 /\ (h - 1) + 1 = h
        BY <1>1
      <4> QED
        BY <1>2, <1>3, <3>1, <4>1
    <3>2. ASSUME DigitsIn(k, 2, Len(k)), NEW i \in DOMAIN r PROVE r[i] \in Digit
      <4>1. i + 1 \in 2 .. Len(k) /\ i \in 1 .. Len(k) - 1
        BY <1>1, <1>3
      <4> QED
        BY <1>2, <3>2, <4>1 DEF DigitsIn
    <3> QED
      BY <3>1, <3>2 DEF DigitsIn
  <2> QED
    BY <1>1, <1>3, <1>4, <2>1, <2>2, DigitsAre DEF Head1
<1>5. CASE k[1] # "-"
  <2>1. IsInteger(k) <=> \A i \in 1 .. Len(k) : k[i] \in Digit
    BY <1>1, <1>5 DEF IsInteger, AllDigits
  <2>2. (\A i \in 1 .. Len(k) : k[i] \in Digit) <=> k[1] \in Digit /\ \A i \in 2 .. Len(k) : k[i] \in Digit
    BY <1>1
  <2> QED
    BY <1>5, <2>1, <2>2 DEF Head1, DigitsIn
<1> QED
  BY <1>4, <1>5

\* A float, char by char.
LEMMA IsFloatIs ==
  ASSUME NEW k \in Seq(STRING)
  PROVE  IsFloat(k) <=>
           \E i \in 2 .. Len(k) - 1 :
             k[i] = "." /\ Head1(k, i - 1) /\ DigitsIn(k, 2, i - 1) /\ DigitsIn(k, i + 1, Len(k))
<1> SUFFICES ASSUME NEW i \in 2 .. Len(k) - 1
             PROVE  /\ IsInteger(SubSeq(k, 1, i - 1)) <=> Head1(k, i - 1) /\ DigitsIn(k, 2, i - 1)
                    /\ AllDigits(Drop(k, i)) <=> DigitsIn(k, i + 1, Len(k))
  BY DEF IsFloat
<1>1. Len(k) \in Nat /\ i \in Nat
  OBVIOUS
<1> DEFINE a == SubSeq(k, 1, i - 1)
           b == Drop(k, i)
<1>2. a \in Seq(STRING) /\ Len(a) = i - 1 /\ a # <<>> /\ \A h \in 1 .. i - 1 : a[h] = k[h]
  BY <1>1
<1>3. b \in Seq(STRING) /\ Len(b) = Len(k) - i /\ b # <<>> /\ \A h \in 1 .. Len(k) - i : b[h] = k[i + h]
  <2>1. b = SubSeq(k, i + 1, Len(k)) /\ i + 1 \in 1 .. Len(k) + 1 /\ Len(k) \in (i + 1) - 1 .. Len(k)
    BY <1>1 DEF Drop
  <2>2. b \in Seq(STRING) /\ Len(b) = Len(k) - (i + 1) + 1 /\ \A h \in 1 .. Len(k) - (i + 1) + 1 : b[h] = k[(i + 1) + h - 1]
    BY <2>1, PartOfSeq
  <2> HIDE DEF b
  <2>3. Len(k) - (i + 1) + 1 = Len(k) - i /\ Len(k) - i > 0 /\ \A h \in Nat : (i + 1) + h - 1 = i + h
    BY <1>1
  <2> QED
    BY <2>2, <2>3
<1> HIDE DEF a, b
<1>4. IsInteger(a) <=> Head1(a, i - 1) /\ DigitsIn(a, 2, i - 1)
  BY <1>2, IsIntegerIs
<1>5. (Head1(a, i - 1) <=> Head1(k, i - 1)) /\ (DigitsIn(a, 2, i - 1) <=> DigitsIn(k, 2, i - 1))
  BY <1>1, <1>2 DEF Head1, DigitsIn
<1>6. AllDigits(b) <=> \A h \in 1 .. Len(k) - i : b[h] \in Digit
  BY <1>3 DEF AllDigits
<1>7. (\A h \in 1 .. Len(k) - i : b[h] \in Digit) <=> DigitsIn(k, i + 1, Len(k))
  <2>1. ASSUME \A h \in 1 .. Len(k) - i : b[h] \in Digit, NEW h \in i + 1 .. Len(k) PROVE k[h] \in Digit
    <3>1. h - i \in 1 .. Len(k) - i /\ i + (h - i) = h
      BY <1>1
    <3> QED
      BY <1>3, <2>1, <3>1
  <2>2. ASSUME DigitsIn(k, i + 1, Len(k)), NEW h \in 1 .. Len(k) - i PROVE b[h] \in Digit
    <3>1. i + h \in i + 1 .. Len(k)
      BY <1>1
    <3> QED
      BY <1>3, <2>2, <3>1 DEF DigitsIn
  <2> QED
    BY <2>1, <2>2 DEF DigitsIn
<1> QED
  BY <1>4, <1>5, <1>6, <1>7 DEF a, b

\* What the states of the numeral reader say of the first n chars of a numeral.
IntSoFar(k, n)   == DigitsIn(k, 2, n)
DotSoFar(k, n)   == n >= 2 /\ k[n] = "." /\ DigitsIn(k, 2, n - 1)
\* The first n chars of k begin a float with its point, or a hexadecimal numeral with its x.
FloatSoFar(k, n) == \E i \in 2 .. n - 1 : k[i] = "." /\ DigitsIn(k, 2, i - 1) /\ DigitsIn(k, i + 1, n)
HexSoFar(k, n)   == n >= 2 /\ k[1] = "0" /\ k[2] = "x" /\ \A h \in 3 .. n : k[h] \in HexDigit

\* What a whole numeral is.
LEMMA WholeInteger ==
  ASSUME NEW k \in Seq(STRING), k # <<>>, LooksNumeral(k), IntSoFar(k, Len(k))
  PROVE  IsInteger(k) /\ ~IsFloat(k)
<1>1. Len(k) \in Nat \ {0} /\ Head1(k, Len(k))
  BY DEF LooksNumeral, Head1
<1>2. IsInteger(k)
  BY <1>1, IsIntegerIs DEF IntSoFar
<1>3. \A i \in 2 .. Len(k) - 1 : k[i] # "."
  BY <1>1, DigitsAre DEF IntSoFar, DigitsIn
<1> QED
  BY <1>2, <1>3, IsFloatIs

\* A word that is a float to its end is one, and no integer.
LEMMA WholeFloat ==
  ASSUME NEW k \in Seq(STRING), k # <<>>, LooksNumeral(k), FloatSoFar(k, Len(k))
  PROVE  ~IsInteger(k) /\ IsFloat(k)
<1>1. PICK i \in 2 .. Len(k) - 1 : k[i] = "." /\ DigitsIn(k, 2, i - 1) /\ DigitsIn(k, i + 1, Len(k))
  BY DEF FloatSoFar
<1>2. Len(k) \in Nat \ {0} /\ i \in 2 .. Len(k)
  OBVIOUS
<1>3. ~DigitsIn(k, 2, Len(k))
  BY <1>1, <1>2, DigitsAre DEF DigitsIn
<1>4. Head1(k, i - 1)
  <2>1. CASE k[1] \in Digit
    BY <2>1 DEF Head1
  <2>2. CASE k[1] = "-" /\ k[2] \in Digit
    <3>1. i # 2
      BY <1>1, <2>2, DigitsAre
    <3> QED
      BY <2>2, <3>1 DEF Head1
  <2> QED
    BY <2>1, <2>2 DEF LooksNumeral
<1> QED
  BY <1>1, <1>3, <1>4, IsIntegerIs, IsFloatIs

\* A word with an x after its first char is neither an integer nor a float.
LEMMA HexIsNone ==
  ASSUME NEW k \in Seq(STRING), Len(k) >= 2, k[2] = "x"
  PROVE  ~IsInteger(k) /\ ~IsFloat(k)
<1>1. Len(k) \in Nat \ {0} /\ k # <<>> /\ 2 \in 2 .. Len(k)
  OBVIOUS
<1>2. ~DigitsIn(k, 2, Len(k))
  BY <1>1, DigitsAre DEF DigitsIn
<1>3. ASSUME NEW i \in 2 .. Len(k) - 1, k[i] = ".", DigitsIn(k, 2, i - 1) PROVE FALSE
  <2>1. i # 2
    BY <1>3, DigitsAre
  <2>2. 2 \in 2 .. i - 1
    BY <2>1
  <2> QED
    BY <1>3, <2>2, DigitsAre DEF DigitsIn
<1> QED
  BY <1>1, <1>2, <1>3, IsIntegerIs, IsFloatIs

\* A word that is hexadecimal to its end is so if its digits are not too many.
LEMMA WholeHex ==
  ASSUME NEW k \in Seq(STRING), HexSoFar(k, Len(k))
  PROVE  ~IsInteger(k) /\ ~IsFloat(k) /\ (IsHex(k) <=> Len(k) - 2 <= HEX_DIGITS)
<1>1. ~IsInteger(k) /\ ~IsFloat(k)
  BY HexIsNone DEF HexSoFar
<1>2. Len(k) \in Nat /\ HEX_DIGITS \in Nat
  BY ReaderAssumption
<1> QED
  BY <1>1, <1>2 DEF HexSoFar, IsHex

\* A numeral is none of the kinds if the char behind the first n is one that the
\* reader does not go on with.
LEMMA IntegerBroken ==
  ASSUME NEW k \in Seq(STRING), NEW n \in 1 .. Len(k) - 1, IntSoFar(k, n),
         k[n + 1] \notin Digit \cup {"."}, ~(k[n + 1] = "x" /\ n = 1 /\ k[1] = "0")
  PROVE  ~IsInteger(k) /\ ~IsFloat(k) /\ ~IsHex(k)
<1>1. Len(k) \in Nat /\ k # <<>> /\ n + 1 \in 2 .. Len(k)
  OBVIOUS
<1>2. ~IsInteger(k)
  BY <1>1, IsIntegerIs DEF DigitsIn
<1>3. ~IsFloat(k)
  <2> SUFFICES ASSUME NEW i \in 2 .. Len(k) - 1, k[i] = ".", DigitsIn(k, 2, i - 1), DigitsIn(k, i + 1, Len(k))
               PROVE  FALSE
    BY IsFloatIs
  <2>1. n + 1 # i
    OBVIOUS
  <2>2. n + 1 \in 2 .. i - 1 \/ n + 1 \in i + 1 .. Len(k)
    BY <1>1, <2>1
  <2> QED
    BY <2>2 DEF DigitsIn
<1>4. ~IsHex(k)
  <2> SUFFICES ASSUME k[1] = "0", k[2] = "x" PROVE FALSE
    BY DEF IsHex
  <2>1. n # 1
    BY DEF IntSoFar
  <2>2. 2 \in 2 .. n
    BY <2>1
  <2> QED
    BY <2>2, DigitsAre DEF IntSoFar, DigitsIn
<1> QED
  BY <1>2, <1>3, <1>4

\* What has no digit after its point is no numeral.
LEMMA DotBroken ==
  ASSUME NEW k \in Seq(STRING), NEW n \in 1 .. Len(k), DotSoFar(k, n),
         n < Len(k) => k[n + 1] \notin Digit
  PROVE  ~IsInteger(k) /\ ~IsFloat(k) /\ ~IsHex(k)
<1>1. Len(k) \in Nat /\ k # <<>> /\ n \in 2 .. Len(k) /\ k[n] = "." /\ DigitsIn(k, 2, n - 1)
  BY DEF DotSoFar
<1>2. ~IsInteger(k)
  BY <1>1, IsIntegerIs, DigitsAre DEF DigitsIn
<1>3. ~IsFloat(k)
  <2> SUFFICES ASSUME NEW i \in 2 .. Len(k) - 1, k[i] = ".", DigitsIn(k, 2, i - 1), DigitsIn(k, i + 1, Len(k))
               PROVE  FALSE
    BY IsFloatIs
  <2>1. ~(n < i)
    <3>1. n < i => n \in 2 .. i - 1
      BY <1>1
    <3> QED
      BY <1>1, <3>1, DigitsAre DEF DigitsIn
  <2>2. ~(i < n)
    <3>1. i < n => i \in 2 .. n - 1
      BY <1>1
    <3> QED
      BY <1>1, <3>1, DigitsAre DEF DigitsIn
  <2>3. i = n
    BY <1>1, <2>1, <2>2
  <2>4. n + 1 \in i + 1 .. Len(k) /\ n < Len(k)
    BY <1>1, <2>3
  <2> QED
    BY <2>4 DEF DigitsIn
<1>4. ~IsHex(k)
  <2> SUFFICES ASSUME k[2] = "x" PROVE FALSE
    BY DEF IsHex
  <2>1. n # 2
    BY <1>1, DigitsAre
  <2>2. 2 \in 2 .. n - 1
    BY <1>1, <2>1
  <2> QED
    BY <1>1, <2>2, DigitsAre DEF DigitsIn
<1> QED
  BY <1>2, <1>3, <1>4

\* What has another char than a digit after its point is no numeral.
LEMMA FloatBroken ==
  ASSUME NEW k \in Seq(STRING), NEW n \in 1 .. Len(k) - 1, FloatSoFar(k, n), k[n + 1] \notin Digit
  PROVE  ~IsInteger(k) /\ ~IsFloat(k) /\ ~IsHex(k)
<1>1. PICK m \in 2 .. n - 1 : k[m] = "." /\ DigitsIn(k, 2, m - 1) /\ DigitsIn(k, m + 1, n)
  BY DEF FloatSoFar
<1>2. Len(k) \in Nat /\ k # <<>> /\ n + 1 \in 2 .. Len(k) /\ m \in 2 .. Len(k)
  OBVIOUS
<1>3. ~IsInteger(k)
  BY <1>2, IsIntegerIs DEF DigitsIn
<1>4. ~IsFloat(k)
  <2> SUFFICES ASSUME NEW i \in 2 .. Len(k) - 1, k[i] = ".", DigitsIn(k, 2, i - 1), DigitsIn(k, i + 1, Len(k))
               PROVE  FALSE
    BY IsFloatIs
  <2>1. ~(m < i)
    <3>1. m < i => m \in 2 .. i - 1
      BY <1>2
    <3> QED
      BY <1>1, <3>1, DigitsAre DEF DigitsIn
  <2>2. i <= m
    BY <1>2, <2>1
  <2>3. n + 1 \in i + 1 .. Len(k)
    BY <1>2, <2>2
  <2> QED
    BY <2>3 DEF DigitsIn
<1>5. ~IsHex(k)
  <2> SUFFICES ASSUME k[2] = "x" PROVE FALSE
    BY DEF IsHex
  <2>1. m # 2
    BY <1>1, DigitsAre
  <2>2. 2 \in 2 .. m - 1
    BY <1>2, <2>1
  <2> QED
    BY <1>1, <2>2, DigitsAre DEF DigitsIn
<1> QED
  BY <1>3, <1>4, <1>5

\* What has another char than a hexadecimal digit after its x is no numeral.
LEMMA HexBroken ==
  ASSUME NEW k \in Seq(STRING), NEW n \in 1 .. Len(k) - 1, HexSoFar(k, n), k[n + 1] \notin HexDigit
  PROVE  ~IsInteger(k) /\ ~IsFloat(k) /\ ~IsHex(k)
<1>1. Len(k) >= 2 /\ k[2] = "x" /\ n >= 2
  BY DEF HexSoFar
<1>2. ~IsInteger(k) /\ ~IsFloat(k)
  BY <1>1, HexIsNone
<1>3. n + 1 \in 3 .. Len(k)
  BY <1>1
<1> QED
  BY <1>2, <1>3 DEF IsHex

-----------------------------------------------------------------------------
(* The stream *)

\* What is left of a text begins at the place Here; but for what has been unread
\* for another char, it is the rest of the text.
Here(t, s) == Len(t) - Len(s) + 1
\* The stream s is what is left of t from some place on.
Left(t, s) == Here(t, s) \in 1 .. Len(t) + 1 /\ s = SubSeq(t, Here(t, s), Len(t))

\* What is left from a place on is left there.
LEMMA LeftMade ==
  ASSUME NEW t \in Seq(STRING), NEW h \in 1 .. Len(t) + 1, NEW s, s = SubSeq(t, h, Len(t))
  PROVE  Left(t, s) /\ Here(t, s) = h
<1>1. Len(s) = Len(t) - h + 1
  BY PartOfSeq, Len(t) \in h - 1 .. Len(t)
<1> QED
  BY <1>1 DEF Left, Here

\* The chars that are left are those of the text from there on.
LEMMA LeftIs ==
  ASSUME NEW t \in Seq(STRING), NEW s, Left(t, s)
  PROVE  /\ Here(t, s) \in 1 .. Len(t) + 1 /\ s \in Seq(STRING)
         /\ Len(s) \in Nat /\ Len(s) = Len(t) - Here(t, s) + 1
         /\ \A i \in 1 .. Len(s) : s[i] = t[Here(t, s) + i - 1]
         /\ s = <<>> <=> Here(t, s) = Len(t) + 1
<1> DEFINE h == Here(t, s)
           v == SubSeq(t, h, Len(t))
<1>1. s = v /\ h \in 1 .. Len(t) + 1 /\ Len(t) \in Nat
  BY DEF Left
<1> HIDE DEF h
<1>2. Len(t) \in h - 1 .. Len(t)
  BY <1>1
<1>3. /\ v \in Seq(STRING) /\ Len(v) = Len(t) - h + 1
      /\ \A i \in 1 .. Len(t) - h + 1 : v[i] = t[h + i - 1]
  BY ONLY t \in Seq(STRING), <1>1, <1>2, PartOfSeq
<1> HIDE DEF v
<1>4. Len(v) \in Nat /\ (Len(v) = 0 <=> h = Len(t) + 1)
  BY ONLY <1>1, <1>3
<1>5. v = <<>> <=> Len(v) = 0
  BY ONLY <1>3, EmptySeq
<1>6. \A i \in 1 .. Len(v) : v[i] = t[h + i - 1]
  BY ONLY <1>3
<1> QED
  BY <1>1, <1>3, <1>4, <1>5, <1>6, Zenon DEF h

\* Of all chars none is left, and of none all are.
LEMMA LeftAtFirst ==
  ASSUME NEW t \in Seq(STRING)
  PROVE  Left(t, t) /\ Here(t, t) = 1
<1>1. t = SubSeq(t, 1, Len(t))
  BY SubSeqFull
<1> QED
  BY <1>1, LeftMade, 1 \in 1 .. Len(t) + 1

\* Dropping chars moves on in the text.
LEMMA LeftDrop ==
  ASSUME NEW t \in Seq(STRING), NEW s \in Seq(STRING), Left(t, s), NEW n \in 1 .. Len(s) + 1
  PROVE  /\ Left(t, SubSeq(s, n, Len(s)))
         /\ Here(t, SubSeq(s, n, Len(s))) = Here(t, s) + n - 1
<1> DEFINE h == Here(t, s)
           u == SubSeq(s, n, Len(s))
<1>1. /\ h \in 1 .. Len(t) + 1 /\ Len(s) \in Nat /\ Len(s) = Len(t) - h + 1
      /\ \A i \in 1 .. Len(s) : s[i] = t[h + i - 1]
  BY LeftIs
<1> HIDE DEF h
<1> DEFINE m == h + n - 1
           v == SubSeq(t, m, Len(t))
<1>2. m \in 1 .. Len(t) + 1 /\ Len(t) \in m - 1 .. Len(t) /\ Len(s) \in n - 1 .. Len(s)
  BY <1>1
<1>3. v \in Seq(STRING) /\ Len(v) = Len(t) - m + 1 /\ \A i \in 1 .. Len(t) - m + 1 : v[i] = t[m + i - 1]
  BY <1>2, PartOfSeq
<1>4. u \in Seq(STRING) /\ Len(u) = Len(s) - n + 1 /\ \A i \in 1 .. Len(s) - n + 1 : u[i] = s[n + i - 1]
  BY <1>1, <1>2, PartOfSeq
<1> HIDE DEF v, u
<1>5. Len(u) = Len(v) /\ Len(u) = Len(t) - m + 1
  BY <1>1, <1>3, <1>4
<1>6. ASSUME NEW i \in 1 .. Len(u) PROVE u[i] = v[i]
  <2>1. i \in 1 .. Len(s) - n + 1 /\ i \in 1 .. Len(t) - m + 1
    BY <1>4, <1>5
  <2>2. n + i - 1 \in 1 .. Len(s) /\ h + (n + i - 1) - 1 = m + i - 1
    BY <1>1, <2>1
  <2> QED
    BY <1>1, <1>3, <1>4, <2>1, <2>2
<1>7. u = v
  BY <1>3, <1>4, <1>5, <1>6, SeqEqual
<1>8. Left(t, v) /\ Here(t, v) = m
  <2> HIDE DEF m
  <2> QED
    BY <1>2, LeftMade DEF v
<1> QED
  BY <1>7, <1>8, Zenon DEF h, u, m

\* The next char.
LEMMA LeftNext ==
  ASSUME NEW t \in Seq(STRING), NEW s, Left(t, s), s # <<>>
  PROVE  /\ Here(t, s) \in 1 .. Len(t) /\ Head(s) = t[Here(t, s)]
         /\ Left(t, Tail(s)) /\ Here(t, Tail(s)) = Here(t, s) + 1
<1> DEFINE h == Here(t, s)
<1>1. /\ h \in 1 .. Len(t) + 1 /\ s \in Seq(STRING) /\ Len(s) \in Nat /\ Len(s) = Len(t) - h + 1
      /\ \A i \in 1 .. Len(s) : s[i] = t[h + i - 1]
      /\ h # Len(t) + 1
  BY LeftIs
<1>2. Tail(s) = SubSeq(s, 2, Len(s)) /\ Head(s) = s[1]
  BY <1>1, TailIsSubSeq
<1>3. Left(t, Tail(s)) /\ Here(t, Tail(s)) = h + 2 - 1
  <2>1. 2 \in 1 .. Len(s) + 1
    BY <1>1
  <2> HIDE DEF h
  <2> QED
    BY <1>1, <1>2, <2>1, LeftDrop DEF h
<1> HIDE DEF h
<1>4. h \in 1 .. Len(t) /\ h + 2 - 1 = h + 1 /\ 1 \in 1 .. Len(s) /\ h + 1 - 1 = h
  BY <1>1
<1>5. s[1] = t[h]
  BY <1>1, <1>4
<1> QED
  BY <1>2, <1>3, <1>4, <1>5, Zenon DEF h

\* A char is unread.
LEMMA LeftUnread ==
  ASSUME NEW t \in Seq(STRING), NEW s, Left(t, s), Here(t, s) > 1
  PROVE  LET u == <<t[Here(t, s) - 1]>> \o s
         IN  /\ Left(t, u) /\ Here(t, u) = Here(t, s) - 1 /\ u # <<>> /\ u[1] = t[Here(t, s) - 1]
             /\ Len(u) = Len(s) + 1 /\ \A i \in 1 .. Len(s) : u[i + 1] = s[i]
<1> DEFINE h == Here(t, s)
           c == t[h - 1]
           u == <<c>> \o s
<1>1. h \in 2 .. Len(t) + 1 /\ s \in Seq(STRING) /\ Len(s) \in Nat /\ Len(s) = Len(t) - h + 1
  BY LeftIs
<1>2. s = SubSeq(t, h, Len(t))
  BY DEF Left
<1> HIDE DEF h
<1>3. h - 1 \in 1 .. Len(t) /\ Len(t) \in h - 1 .. Len(t) /\ (h - 1) + 1 = h /\ c \in STRING
  BY <1>1
<1>4. u = SubSeq(t, h - 1, Len(t))
  <2>1. SubSeq(t, h - 1, Len(t)) = <<t[h - 1]>> \o SubSeq(t, (h - 1) + 1, Len(t))
    BY ONLY t \in Seq(STRING), <1>3, SubSeqRecursiveFirst
  <2> QED
    BY <1>2, <1>3, <2>1, Zenon
<1> HIDE DEF c
<1>5. Len(u) = Len(s) + 1 /\ u[1] = c /\ u # <<>> /\ \A i \in 1 .. Len(s) : u[i + 1] = s[i]
  BY <1>1, <1>3
<1> HIDE DEF u
<1>6. Left(t, u) /\ Here(t, u) = h - 1
  BY <1>3, <1>4, LeftMade, h - 1 \in 1 .. Len(t) + 1
<1> QED
  BY <1>5, <1>6, Zenon DEF h, c, u

\* What is left of a text is a suffix of it.
LEMMA LeftIsSuffix ==
  ASSUME NEW t \in Seq(STRING), NEW s, Left(t, s)
  PROVE  IsSuffix(s, t)
<1> DEFINE h == Here(t, s)
<1>1. /\ h \in 1 .. Len(t) + 1 /\ s \in Seq(STRING) /\ Len(s) \in Nat /\ Len(s) = Len(t) - h + 1
      /\ \A i \in 1 .. Len(s) : s[i] = t[h + i - 1]
  BY LeftIs
<1> HIDE DEF h
<1> DEFINE a == Reverse(s)
           b == Reverse(t)
<1>2. a \in Seq(STRING) /\ Len(a) = Len(s) /\ \A i \in 1 .. Len(s) : a[i] = s[(Len(s) - i) + 1]
  BY <1>1 DEF Reverse
<1>3. b \in Seq(STRING) /\ Len(b) = Len(t) /\ \A i \in 1 .. Len(t) : b[i] = t[(Len(t) - i) + 1]
  BY DEF Reverse
<1> HIDE DEF a, b
<1>4. Len(s) \in 0 .. Len(t) /\ 1 \in 1 .. Len(a) + 1 /\ 1 \in 1 .. Len(b) + 1
      /\ Len(a) \in 1 - 1 .. Len(a) /\ Len(a) \in 1 - 1 .. Len(b)
  BY <1>1, <1>2, <1>3
<1>5. /\ SubSeq(a, 1, Len(a)) \in Seq(STRING) /\ Len(SubSeq(a, 1, Len(a))) = Len(a) - 1 + 1
      /\ \A i \in 1 .. Len(a) - 1 + 1 : SubSeq(a, 1, Len(a))[i] = a[1 + i - 1]
  BY <1>2, <1>4, PartOfSeq
<1>6. /\ SubSeq(b, 1, Len(a)) \in Seq(STRING) /\ Len(SubSeq(b, 1, Len(a))) = Len(a) - 1 + 1
      /\ \A i \in 1 .. Len(a) - 1 + 1 : SubSeq(b, 1, Len(a))[i] = b[1 + i - 1]
  BY <1>3, <1>4, PartOfSeq
<1>7. ASSUME NEW i \in 1 .. Len(a) PROVE a[i] = b[i]
  <2>1. (Len(s) - i) + 1 \in 1 .. Len(s) /\ i \in 1 .. Len(t) /\ h + ((Len(s) - i) + 1) - 1 = (Len(t) - i) + 1
    BY <1>1, <1>2
  <2> QED
    BY <1>1, <1>2, <1>3, <2>1
<1>8. ASSUME NEW i \in 1 .. Len(a) PROVE SubSeq(a, 1, Len(a))[i] = SubSeq(b, 1, Len(a))[i]
  <2>1. i \in 1 .. Len(a) - 1 + 1 /\ 1 + i - 1 = i
    BY <1>2
  <2> QED
    BY <1>5, <1>6, <1>7, <2>1
<1>9. SubSeq(a, 1, Len(a)) = SubSeq(b, 1, Len(a))
  <2>1. Len(a) - 1 + 1 = Len(a)
    BY <1>2
  <2> QED
    BY <1>5, <1>6, <1>8, <2>1, SeqEqual
<1> QED
  BY <1>1, <1>2, <1>3, <1>9 DEF IsSuffix, IsPrefix, a, b

-----------------------------------------------------------------------------
(* Buffers *)

\* A buffer whose chars fit in its allocation.
IsBuffer(b) ==
  /\ b = [data |-> b.data, cap |-> b.cap]
  /\ \E S : b.data \in Seq(S)
  /\ b.cap \in Nat \ {0} /\ Fits(b)

\* A new buffer is empty.
LEMMA NewBuffer == IsBuffer(buffer_new) /\ buffer_new.data = <<>>
<1>1. <<>> \in Seq({}) /\ Len(<<>>) = 0
  OBVIOUS
<1> QED
  BY <1>1, BuffersAssumption DEF IsBuffer, Fits, buffer_new

\* The doubled capacity is enough.
LEMMA GrownIsEnough ==
  ASSUME NEW cap \in Nat \ {0}, NEW n \in Nat
  PROVE  Grown(cap, n) \in Nat \ {0} /\ Grown(cap, n) >= n
<1> DEFINE doubled == Doubled(cap, n)
           Enough(k) == doubled[k] >= n /\ \A j \in 0 .. k - 1 : doubled[j] < n
           T == {k \in 0 .. n : doubled[k] >= n}
           times == CHOOSE k \in 0 .. n : Enough(k)
<1>1. \A k \in 0 .. n : doubled[k] \in Nat /\ doubled[k] > k
  BY DoubledGrows
<1>2. Grown(cap, n) = doubled[times]
  BY DEF Grown
<1> HIDE DEF doubled
<1>3. n \in T /\ T \subseteq Nat
  BY <1>1
<1>4. PICK k \in T : \A j \in T : k <= j
  <2> HIDE DEF T
  <2> QED
    BY <1>3, LeastOf
<1>5. k \in 0 .. n /\ Enough(k)
  BY <1>1, <1>4
<1>6. times \in 0 .. n /\ Enough(times)
  <2> HIDE DEF Enough
  <2> QED
    BY <1>5
<1>7. doubled[times] \in Nat \ {0} /\ doubled[times] >= n
  BY <1>1, <1>6
<1> QED
  BY <1>2, <1>7

\* What buffer_reserve returns has room for n chars.
LEMMA ReservedBuffer ==
  ASSUME NEW b, IsBuffer(b), NEW n \in Nat
  PROVE  LET r == buffer_reserve(b, n)
         IN  r = [data |-> b.data, cap |-> r.cap] /\ r.cap \in Nat \ {0} /\ r.cap >= n
<1>1. b = [data |-> b.data, cap |-> b.cap] /\ b.cap \in Nat \ {0}
  BY DEF IsBuffer
<1>2. CASE n <= b.cap
  BY <1>1, <1>2 DEF buffer_reserve
<1>3. CASE ~(n <= b.cap)
  <2> DEFINE g == Grown(b.cap, n)
  <2>1. g \in Nat \ {0} /\ g >= n
    BY <1>1, GrownIsEnough
  <2>2. buffer_reserve(b, n) = [b EXCEPT !.cap = g]
    BY <1>3 DEF buffer_reserve
  <2> HIDE DEF g
  <2>3. [b EXCEPT !.cap = g] = [data |-> b.data, cap |-> g]
    BY <1>1
  <2> QED
    BY <2>1, <2>2, <2>3
<1> QED
  BY <1>2, <1>3

\* A char is appended.
LEMMA AppendedChar ==
  ASSUME NEW b, IsBuffer(b), NEW c
  PROVE  /\ IsBuffer(buffer_append_char(b, c))
         /\ Len(b.data) \in Nat /\ Len(buffer_append_char(b, c).data) = Len(b.data) + 1
         /\ buffer_append_char(b, c).data[1] = IF Len(b.data) = 0 THEN c ELSE b.data[1]
         /\ buffer_append_char(b, c).data = b.data \o <<c>>
<1> DEFINE n == Len(b.data) + 1
           r == buffer_reserve(b, n)
           new == b.data \o <<c>>
<1>1. PICK S : b.data \in Seq(S)
  BY DEF IsBuffer
<1>2. b.data \in Seq(S \cup {c}) /\ <<c>> \in Seq(S \cup {c}) /\ Len(<<c>>) = 1 /\ <<c>>[1] = c
  <2>1. b.data \in Seq(S \cup {c})
    BY <1>1, SeqMonotonic
  <2> QED
    BY <2>1
<1>3. Len(b.data) \in Nat /\ n \in Nat
  BY <1>1
<1>4. /\ new \in Seq(S \cup {c}) /\ Len(new) = Len(b.data) + 1
      /\ new[1] = IF Len(b.data) = 0 THEN c ELSE b.data[1]
  <2>1. /\ new \in Seq(S \cup {c}) /\ Len(new) = Len(b.data) + 1
        /\ \A i \in 1 .. Len(b.data) + 1 : new[i] = IF i <= Len(b.data) THEN b.data[i] ELSE <<c>>[i - Len(b.data)]
    BY <1>2, ConcatProperties
  <2>2. 1 \in 1 .. Len(b.data) + 1 /\ (Len(b.data) = 0 => 1 - Len(b.data) = 1) /\ (Len(b.data) # 0 <=> 1 <= Len(b.data))
    BY <1>3
  <2> QED
    BY <1>2, <2>1, <2>2
<1> HIDE DEF new
<1>5. r = [data |-> b.data, cap |-> r.cap] /\ r.cap \in Nat \ {0} /\ r.cap >= n
  BY <1>3, ReservedBuffer
<1>6. buffer_append_char(b, c) = [r EXCEPT !.data = @ \o <<c>>]
  BY <1>2 DEF buffer_append_char, buffer_append_chars
<1> HIDE DEF r
<1>7. [r EXCEPT !.data = @ \o <<c>>] = [data |-> new, cap |-> r.cap]
  <2>1. \A x : [r EXCEPT !.data = x] = [data |-> x, cap |-> r.cap]
    BY <1>5
  <2>2. [r EXCEPT !.data = @ \o <<c>>] = [r EXCEPT !.data = r.data \o <<c>>]
    OBVIOUS
  <2>3. r.data = b.data
    BY <1>5
  <2> QED
    BY <2>1, <2>2, <2>3 DEF new
<1> DEFINE a == buffer_append_char(b, c)
<1>8. a = [data |-> new, cap |-> r.cap]
  BY <1>6, <1>7
<1> HIDE DEF a
<1>9. a.data = new /\ a.cap = r.cap /\ a = [data |-> a.data, cap |-> a.cap]
  BY <1>8
<1>10. IsBuffer(a)
  BY <1>3, <1>4, <1>5, <1>9 DEF IsBuffer, Fits
<1>11. a.data = b.data \o <<c>>
  BY <1>9 DEF new
<1> QED
  BY <1>3, <1>4, <1>9, <1>10, <1>11, Zenon DEF a

\* A buffer that was cleared is empty.
LEMMA ClearedBuffer ==
  ASSUME NEW b, IsBuffer(b)
  PROVE  IsBuffer(buffer_clear(b)) /\ buffer_clear(b).data = <<>>
<1>1. b = [data |-> b.data, cap |-> b.cap] /\ b.cap \in Nat \ {0}
  BY DEF IsBuffer
<1> DEFINE a == buffer_clear(b)
<1>2. a = [data |-> <<>>, cap |-> b.cap]
  BY <1>1 DEF buffer_clear
<1> HIDE DEF a
<1>3. a.data = <<>> /\ a.cap = b.cap /\ a = [data |-> a.data, cap |-> a.cap]
  BY <1>2
<1>4. <<>> \in Seq({}) /\ Len(<<>>) = 0
  OBVIOUS
<1> QED
  BY <1>1, <1>3, <1>4 DEF a, IsBuffer, Fits

-----------------------------------------------------------------------------
(* Calls *)

\* A call of the reader; reads goes without macros only for an atom that begins with a minus.
IsCall(c) ==
  /\ c = [at |-> c.at, macros |-> c.macros, entry_c |-> c.entry_c, buf |-> c.buf, items |-> c.items]
  /\ c.at \in Places /\ c.macros \in BOOLEAN /\ IsBuffer(c.buf)
  /\ ~c.macros => c.at \in {"reads", "atom"}

\* The calls in progress are such calls.
IsStack(s) == (\E S : s \in Seq(S)) /\ \A i \in DOMAIN s : IsCall(s[i])

\* A call that begins.
LEMMA NewCall ==
  ASSUME NEW at \in Places, NEW entry_c
  PROVE  /\ IsCall(Call(at, TRUE, entry_c))
         /\ Call(at, TRUE, entry_c).at = at /\ Call(at, TRUE, entry_c).macros
         /\ Call(at, TRUE, entry_c).entry_c = entry_c /\ Call(at, TRUE, entry_c).buf.data = <<>>
         /\ Call(at, TRUE, entry_c).items = <<>>
<1> DEFINE c == Call(at, TRUE, entry_c)
<1>1. c = [at |-> at, macros |-> TRUE, entry_c |-> entry_c, buf |-> buffer_new, items |-> <<>>]
  BY DEF Call
<1> HIDE DEF c
<1>2. /\ c = [at |-> c.at, macros |-> c.macros, entry_c |-> c.entry_c, buf |-> c.buf, items |-> c.items]
      /\ c.at = at /\ c.macros = TRUE /\ c.entry_c = entry_c /\ c.buf = buffer_new /\ c.items = <<>>
  BY <1>1
<1>3. IsBuffer(c.buf) /\ c.buf.data = <<>> /\ c.macros \in BOOLEAN
  BY <1>2, NewBuffer
<1>4. IsCall(c) /\ c.macros
  BY <1>2, <1>3 DEF IsCall
<1> QED
  BY <1>2, <1>3, <1>4, Zenon DEF c

\* A call of reads that begins.
LEMMA NewReads ==
  ASSUME NEW macros \in {TRUE, FALSE}
  PROVE  /\ IsCall(Reads(macros)) /\ Reads(macros).at = "reads" /\ Reads(macros).macros = macros
         /\ Reads(macros).buf.data = <<>> /\ Reads(macros).items = <<>>
<1> DEFINE c == Reads(macros)
<1>1. c = [at |-> "reads", macros |-> macros, entry_c |-> NUL, buf |-> buffer_new, items |-> <<>>]
  BY DEF Reads, Call
<1> HIDE DEF c
<1>2. /\ c = [at |-> c.at, macros |-> c.macros, entry_c |-> c.entry_c, buf |-> c.buf, items |-> c.items]
      /\ c.at = "reads" /\ c.macros = macros /\ c.buf = buffer_new /\ c.items = <<>>
  BY <1>1
<1>3. IsBuffer(c.buf) /\ c.buf.data = <<>> /\ c.macros \in BOOLEAN /\ c.at \in Places
  BY <1>2, NewBuffer DEF Places
<1> QED
  BY <1>2, <1>3 DEF IsCall, c

\* A call goes on at another place or with another buffer.
LEMMA ChangedCall ==
  ASSUME NEW c, IsCall(c), NEW at \in Places, ~c.macros => at \in {"reads", "atom"}, NEW buf, IsBuffer(buf)
  PROVE  /\ IsCall(Changed(c, at, buf))
         /\ Changed(c, at, buf).at = at /\ Changed(c, at, buf).buf = buf
         /\ Changed(c, at, buf).macros = c.macros /\ Changed(c, at, buf).entry_c = c.entry_c
         /\ Changed(c, at, buf).items = c.items
<1> DEFINE d == Changed(c, at, buf)
<1>1. d = [at |-> at, macros |-> c.macros, entry_c |-> c.entry_c, buf |-> buf, items |-> c.items]
  <2> DEFINE e == [c EXCEPT !.at = at]
  <2>1. e = [at |-> at, macros |-> c.macros, entry_c |-> c.entry_c, buf |-> c.buf, items |-> c.items]
    BY DEF IsCall
  <2> HIDE DEF e
  <2>2. [e EXCEPT !.buf = buf] = [at |-> at, macros |-> c.macros, entry_c |-> c.entry_c, buf |-> buf, items |-> c.items]
    BY ONLY <2>1
  <2>3. d = [e EXCEPT !.buf = buf]
    BY Zenon DEF e, Changed
  <2> QED
    BY <2>2, <2>3
<1> HIDE DEF d
<1>2. /\ d.at = at /\ d.macros = c.macros /\ d.entry_c = c.entry_c /\ d.buf = buf /\ d.items = c.items
      /\ d = [at |-> d.at, macros |-> d.macros, entry_c |-> d.entry_c, buf |-> d.buf, items |-> d.items]
  BY <1>1
<1>3. IsCall(d)
  BY <1>2 DEF IsCall
<1> QED
  BY <1>2, <1>3, Zenon DEF d

\* A call gets an item.
LEMMA ChangedItems ==
  ASSUME NEW c, IsCall(c), NEW items
  PROVE  /\ IsCall([c EXCEPT !.items = items]) /\ [c EXCEPT !.items = items].at = c.at
         /\ [c EXCEPT !.items = items].macros = c.macros
         /\ [c EXCEPT !.items = items].buf = c.buf /\ [c EXCEPT !.items = items].items = items
<1> DEFINE d == [c EXCEPT !.items = items]
<1>1. d = [at |-> c.at, macros |-> c.macros, entry_c |-> c.entry_c, buf |-> c.buf, items |-> items]
  BY DEF IsCall
<1> HIDE DEF d
<1>2. /\ d.at = c.at /\ d.macros = c.macros /\ d.entry_c = c.entry_c /\ d.buf = c.buf /\ d.items = items
      /\ d = [at |-> d.at, macros |-> d.macros, entry_c |-> d.entry_c, buf |-> d.buf, items |-> d.items]
  BY <1>1
<1>3. IsCall(d)
  BY <1>2 DEF IsCall
<1> QED
  BY <1>2, <1>3, Zenon DEF d

\* The calls of lists among the calls in progress.
IsList(c) == c.at \in {"list", "list_atom"}
Lists(c)  == IF IsList(c) THEN 1 ELSE 0
Depth(s)  == Cardinality({i \in DOMAIN s : IsList(s[i])})

\* Before any call no list is open.
LEMMA NoCalls == IsStack(<<>>) /\ Depth(<<>>) = 0
<1>1. <<>> \in Seq({}) /\ DOMAIN <<>> = {}
  OBVIOUS
<1>2. {i \in DOMAIN <<>> : IsList(<<>>[i])} = {}
  BY <1>1
<1> QED
  BY <1>1, <1>2, FS_EmptySet DEF IsStack, Depth

\* A call on top of others may open a list.
LEMMA Pushed ==
  ASSUME NEW s, IsStack(s), NEW c, IsCall(c)
  PROVE  /\ IsStack(Append(s, c)) /\ Append(s, c) # <<>> /\ Last(Append(s, c)) = c
         /\ Depth(s) \in Nat /\ Depth(Append(s, c)) = Depth(s) + Lists(c)
<1> DEFINE p == Append(s, c)
<1>1. PICK S : s \in Seq(S)
  BY DEF IsStack
<1>2. s \in Seq(S \cup {c}) /\ Len(s) \in Nat /\ DOMAIN s = 1 .. Len(s)
  <2>1. s \in Seq(S \cup {c})
    BY <1>1, SeqMonotonic
  <2> QED
    BY <2>1
<1>3. /\ p \in Seq(S \cup {c}) /\ p # <<>> /\ Len(p) = Len(s) + 1 /\ DOMAIN p = 1 .. Len(s) + 1
      /\ p[Len(s) + 1] = c /\ \A i \in 1 .. Len(s) : p[i] = s[i]
  <2>1. /\ p \in Seq(S \cup {c}) /\ p # <<>> /\ Len(p) = Len(s) + 1
        /\ p[Len(s) + 1] = c /\ \A i \in 1 .. Len(s) : p[i] = s[i]
    BY <1>2, AppendProperties
  <2> HIDE DEF p
  <2>2. DOMAIN p = 1 .. Len(p)
    BY <2>1
  <2> QED
    BY <2>1, <2>2
<1> HIDE DEF p
<1>4. IsStack(p)
  <2>1. ASSUME NEW i \in DOMAIN p PROVE IsCall(p[i])
    <3>1. i \in 1 .. Len(s) \/ i = Len(s) + 1
      BY <1>2, <1>3
    <3> QED
      BY <1>2, <1>3, <3>1 DEF IsStack
  <2> QED
    BY <1>3, <2>1 DEF IsStack
<1> DEFINE A == {i \in DOMAIN s : IsList(s[i])}
           B == {i \in DOMAIN p : IsList(p[i])}
<1>5. IsFiniteSet(A) /\ Cardinality(A) \in Nat /\ Len(s) + 1 \notin A
  <2>1. A \subseteq 1 .. Len(s) /\ IsFiniteSet(1 .. Len(s)) /\ Len(s) + 1 \notin 1 .. Len(s)
    BY <1>2, FS_Interval
  <2> HIDE DEF A
  <2> QED
    BY <2>1, FS_Subset, FS_CardinalityType
<1>6. B = IF IsList(c) THEN A \cup {Len(s) + 1} ELSE A
  <2>1. 1 .. Len(s) + 1 = (1 .. Len(s)) \cup {Len(s) + 1}
    BY <1>2
  <2>2. B = {i \in (1 .. Len(s)) \cup {Len(s) + 1} : IsList(p[i])}
    BY <1>3, <2>1
  <2>3. \A i : i \in B <=> (i \in 1 .. Len(s) /\ IsList(s[i])) \/ (i = Len(s) + 1 /\ IsList(c))
    BY <1>3, <2>2
  <2>4. \A i : i \in A <=> i \in 1 .. Len(s) /\ IsList(s[i])
    BY <1>2
  <2> HIDE DEF A, B
  <2> QED
    BY <2>3, <2>4
<1>7. Cardinality(B) = Cardinality(A) + Lists(c)
  <2>1. CASE IsList(c)
    <3>1. Cardinality(A \cup {Len(s) + 1}) = Cardinality(A) + 1
      <4> HIDE DEF A
      <4> QED
        BY <1>5, FS_AddElement
    <3> QED
      BY <1>6, <2>1, <3>1 DEF Lists
  <2>2. CASE ~IsList(c)
    <3> HIDE DEF A, B
    <3> QED
      BY <1>5, <1>6, <2>2 DEF Lists
  <2> QED
    BY <2>1, <2>2
<1>8. Last(p) = c
  BY <1>3 DEF Last
<1> QED
  BY <1>3, <1>4, <1>5, <1>7, <1>8 DEF p, Depth

\* The calls without the innermost.
LEMMA Popped ==
  ASSUME NEW s, IsStack(s), s # <<>>
  PROVE  /\ IsStack(Front(s)) /\ IsCall(Last(s)) /\ s = Append(Front(s), Last(s))
         /\ Depth(Front(s)) \in Nat /\ Depth(s) = Depth(Front(s)) + Lists(Last(s))
<1> DEFINE f == Front(s)
           c == Last(s)
<1>1. PICK S : s \in Seq(S)
  BY DEF IsStack
<1>2. Len(s) \in Nat \ {0} /\ DOMAIN s = 1 .. Len(s)
  BY <1>1
<1>3. f \in Seq(S) /\ Len(f) = Len(s) - 1 /\ \A i \in 1 .. Len(s) - 1 : f[i] = s[i]
  <2>1. 1 \in 1 .. Len(s) + 1 /\ Len(s) - 1 \in 1 - 1 .. Len(s)
    BY <1>2
  <2>2. /\ SubSeq(s, 1, Len(s) - 1) \in Seq(S) /\ Len(SubSeq(s, 1, Len(s) - 1)) = (Len(s) - 1) - 1 + 1
        /\ \A h \in 1 .. (Len(s) - 1) - 1 + 1 : SubSeq(s, 1, Len(s) - 1)[h] = s[1 + h - 1]
    BY <1>1, <2>1, PartOfSeq
  <2>3. f = SubSeq(s, 1, Len(s) - 1)
    BY DEF Front
  <2> HIDE DEF f
  <2>4. (Len(s) - 1) - 1 + 1 = Len(s) - 1 /\ \A h \in Nat : 1 + h - 1 = h
    BY <1>2
  <2> QED
    BY <2>2, <2>3, <2>4
<1>4. c = s[Len(s)] /\ c \in S
  <2>1. Len(s) \in 1 .. Len(s)
    BY <1>2
  <2> QED
    BY <1>1, <2>1, ElementOfSeq DEF Last
<1> HIDE DEF f, c
<1>5. IsStack(f) /\ IsCall(c)
  <2>1. DOMAIN f = 1 .. Len(s) - 1
    BY <1>3
  <2>2. \A i \in 1 .. Len(s) - 1 : i \in DOMAIN s
    BY <1>2
  <2>3. Len(s) \in DOMAIN s
    BY <1>2
  <2> QED
    BY <1>3, <1>4, <2>1, <2>2, <2>3 DEF IsStack
<1>6. s = Append(f, c)
  <2> DEFINE p == Append(f, c)
  <2>1. /\ p \in Seq(S) /\ Len(p) = Len(f) + 1 /\ p[Len(f) + 1] = c
        /\ \A i \in 1 .. Len(f) : p[i] = f[i]
    BY <1>3, <1>4, AppendProperties
  <2> HIDE DEF p
  <2>2. Len(p) = Len(s) /\ \A i \in 1 .. Len(s) : s[i] = p[i]
    <3>1. Len(f) + 1 = Len(s)
      BY <1>2, <1>3
    <3>2. \A i \in 1 .. Len(s) : i \in 1 .. Len(s) - 1 \/ i = Len(s)
      <4>1. Len(s) \in Nat
        BY <1>2
      <4> QED
        BY ONLY <4>1
    <3> QED
      BY <1>3, <1>4, <2>1, <3>1, <3>2
  <2> QED
    BY <1>1, <2>1, <2>2, SeqEqual DEF p
<1>7. Depth(f) \in Nat /\ Depth(Append(f, c)) = Depth(f) + Lists(c)
  BY <1>5, Pushed
<1> QED
  BY <1>5, <1>6, <1>7, Zenon DEF f, c

-----------------------------------------------------------------------------
(* Words and numerals *)

\* A text of the constant Texts.
IsText(t) == t \in Seq(STRING) /\ \A i \in DOMAIN t : t[i] # NUL

\* A word may stand where a list may not end.
LEMMA WordAnywhere ==
  ASSUME NEW t, IsText(t), NEW i \in 1 .. Len(t), BeginsWord(t[i]), NEW d \in Nat
  PROVE  Completes(LexFrom(t)[i], d, TRUE) <=> Completes(LexFrom(t)[i], d, FALSE)
<1> DEFINE k == Word(t, i)
<1>1. t \in Seq(STRING) /\ \A j \in DOMAIN t : t[j] # NUL
  BY DEF IsText
<1>2. TRUE \in BOOLEAN /\ FALSE \in BOOLEAN
  OBVIOUS
<1>3. CASE ~LooksNumeral(k)
  BY <1>1, <1>2, <1>3, CompletesSymbol
<1>4. CASE LooksNumeral(k) /\ (~Ends(t, i) \/ ~(IsInteger(k) \/ IsFloat(k) \/ IsHex(k)))
  BY <1>1, <1>2, <1>4, CompletesNoNumeral
<1>5. CASE LooksNumeral(k) /\ Ends(t, i) /\ (IsInteger(k) \/ IsFloat(k) \/ IsHex(k))
  <2>1. k \in Seq(STRING) /\ k # <<>>
    <3>1. k \in Seq(STRING) /\ Len(k) = WordEnd(t, i) - i /\ WordEnd(t, i) \in i + 1 .. Len(t) + 1
      BY <1>1, WordIs
    <3> HIDE DEF k
    <3>2. Len(k) > 0
      BY <3>1
    <3> QED
      BY <3>1, <3>2
  <2>2. ~(IsInteger(k) /\ IsFloat(k))
    <3> HIDE DEF k
    <3>1. IsInteger(k) => IntSoFar(k, Len(k))
      BY <2>1, IsIntegerIs DEF IntSoFar
    <3> QED
      BY <1>5, <2>1, <3>1, WholeInteger
  <2>4. LooksNumeral(k) /\ Ends(t, i) /\ i \in 1 .. Len(t) /\ BeginsWord(t[i]) /\ d \in Nat
    BY <1>5
  <2>3. ASSUME NEW after \in BOOLEAN
        PROVE  /\ IsInteger(k) /\ ~IsFloat(k) =>
                    (Completes(LexFrom(t)[i], d, after) <=> Completes(LexFrom(t)[WordEnd(t, i)], d, FALSE))
               /\ ~IsInteger(k) /\ IsFloat(k) =>
                    (Completes(LexFrom(t)[i], d, after) <=> Completes(LexFrom(t)[WordEnd(t, i) + 1], d, FALSE))
               /\ ~IsInteger(k) /\ ~IsFloat(k) /\ IsHex(k) =>
                    (Completes(LexFrom(t)[i], d, after) <=> Completes(LexFrom(t)[WordEnd(t, i)], d, FALSE))
    <3>1. PassesNumeral(t, i, d, after)
      BY ONLY <1>1, <2>4, <2>3, CompletesNumeral DEF k
    <3> QED
      BY ONLY <3>1, Zenon DEF PassesNumeral
  <2> HIDE DEF k
  <2> QED
    BY <1>2, <1>5, <2>2, <2>3
<1> QED
  BY <1>3, <1>4, <1>5

\* What comes after the first chars of a word.
LEMMA WordGoesOn ==
  ASSUME NEW t, IsText(t), NEW q \in 1 .. Len(t), BeginsWord(t[q]), NEW p \in q + 1 .. Len(t) + 1,
         p - q <= Len(Word(t, q))
  PROVE  /\ Word(t, q) \in Seq(STRING) /\ Word(t, q) # <<>> /\ p - q \in 1 .. Len(Word(t, q))
         /\ p = Len(t) + 1 => p - q = Len(Word(t, q)) /\ ~Ends(t, q)
         /\ p <= Len(t) /\ t[p] \in Delimiter =>
              p - q = Len(Word(t, q)) /\ WordEnd(t, q) = p /\ (Ends(t, q) <=> t[p] # "(")
         /\ p <= Len(t) /\ t[p] \notin Delimiter =>
              p - q < Len(Word(t, q)) /\ Word(t, q)[(p - q) + 1] = t[p]
<1> DEFINE k == Word(t, q)
           e == WordEnd(t, q)
<1>1. t \in Seq(STRING) /\ Len(t) \in Nat
  BY DEF IsText
<1>2. /\ e \in q + 1 .. Len(t) + 1 /\ k \in Seq(STRING) /\ Len(k) = e - q
      /\ \A j \in 1 .. e - q : k[j] = t[q + j - 1] /\ t[q + j - 1] \notin Delimiter
  BY <1>1, WordIs
<1>3. e <= Len(t) => t[e] \in Delimiter
  BY <1>1, FirstFromIs, q \in 1 .. Len(t) + 1 DEF WordEnd
<1>4. Ends(t, q) <=> e <= Len(t) /\ t[e] # "("
  BY DEF Ends
<1> HIDE DEF k, e
<1>5. p - q \in 1 .. Len(k) /\ k # <<>> /\ p <= e /\ p - q <= e - q
  <2>1. p - q <= e - q
    BY <1>2 DEF k
  <2>2. p <= e /\ p - q \in 1 .. Len(k) /\ Len(k) # 0
    BY <1>1, <1>2, <2>1
  <2> QED
    BY <2>1, <2>2
<1>6. p < e => p <= Len(t) /\ t[p] \notin Delimiter /\ k[(p - q) + 1] = t[p] /\ p - q < Len(k)
  <2> SUFFICES ASSUME p < e PROVE p <= Len(t) /\ t[p] \notin Delimiter /\ k[(p - q) + 1] = t[p] /\ p - q < Len(k)
    OBVIOUS
  <2>1. (p - q) + 1 \in 1 .. e - q /\ q + ((p - q) + 1) - 1 = p /\ p <= Len(t) /\ p - q < Len(k)
    BY <1>1, <1>2
  <2> QED
    BY <1>2, <2>1
<1>7. p = e => p - q = Len(k)
  BY <1>2
<1>8. p < e \/ p = e
  BY <1>1, <1>2, <1>5
<1>9. (p = Len(t) + 1 => ~(p <= Len(t))) /\ e <= Len(t) + 1
  BY <1>1, <1>2
<1>10. p = Len(t) + 1 => p = e /\ ~(e <= Len(t))
  BY <1>6, <1>8, <1>9
<1>11. (p <= Len(t) /\ t[p] \in Delimiter) => p = e
  BY <1>6, <1>8
<1>12. (p <= Len(t) /\ t[p] \notin Delimiter) => p < e
  BY <1>3, <1>8
<1> QED
  BY <1>2, <1>4, <1>5, <1>6, <1>7, <1>10, <1>11, <1>12, Zenon DEF k, e

-----------------------------------------------------------------------------
(* What the reader has found out about the text at each place *)

\* The text is a program if and only if what is there from a place on completes one.
Decides(t, i, d, after) == WellFormed(t) <=> Completes(LexFrom(t)[i], d, after)

\* The string that began at q is read up to where s is left, or its quote has been unread after the
\* hexadecimal escape that ends it.
InString(t, s, q) ==
  /\ t[q] = "quotes"
  /\ \/ Left(t, s) /\ Open(t, q, Here(t, s))
     \/ Closing(t, q) <= Len(t) /\ s = <<"quotes">> \o SubSeq(t, Closing(t, q) + 1, Len(t))

\* p is in or after the word that began at q, which begins like a numeral.
InWord(t, p, q) ==
  /\ p \in q + 1 .. Len(t) + 1 /\ BeginsWord(t[q]) /\ p - q <= Len(Word(t, q))
  /\ LooksNumeral(Word(t, q))
\* The first n chars of a word k, by the state of the numeral reader.
InNumeral(k, n, at, data) ==
  /\ at = "S_INT" => IntSoFar(k, n) /\ Len(data) = n /\ data[1] = k[1]
  /\ at = "S_INTDOT" => DotSoFar(k, n)
  /\ at = "S_FLOAT" => FloatSoFar(k, n)
  /\ at = "S_HEX" => HexSoFar(k, n) /\ Len(data) = n - 2

\* The states of the numeral reader.
Numerals == {"S_INT", "S_INTDOT", "S_FLOAT", "S_HEX"}

\* What the innermost call has found out.
Doing(t, s, c, d) ==
  LET p == Here(t, s)
  IN  /\ c.at \in {"reads", "quote"} => Decides(t, p, d, TRUE)
      /\ c.at = "comment" => Decides(t, FirstFrom(t, p, {"\n"}), d, TRUE)
      /\ c.at = "list" => Decides(t, p, d, FALSE)
      /\ c.at \in {"atom", "list_atom"} => Decides(t, WordEnd(t, p), d, FALSE)
      /\ c.at = "numeral" => Decides(t, p - 1, d, FALSE)
      /\ c.at = "string" => \E q \in 1 .. Len(t) : Decides(t, q, d, FALSE) /\ InString(t, s, q)
      /\ c.at \in Numerals => \E q \in 1 .. Len(t) :
           /\ Decides(t, q, d, FALSE) /\ InWord(t, p, q)
           /\ InNumeral(Word(t, q), p - q, c.at, c.buf.data)

\* Where it is in the text.
Unread(t, s) == \E h \in 1 .. Len(t) : s = <<"quotes">> \o SubSeq(t, h + 1, Len(t))
\* What the innermost call knows about the stream.
Placed(t, s, c) ==
  /\ c.at # "string" => Left(t, s)
  /\ c.at = "string" => c.entry_c = "quotes" /\ (Left(t, s) \/ Unread(t, s))
  /\ c.at = "reads" /\ ~c.macros => s # <<>> /\ s[1] = "-" /\ (Len(s) > 1 => s[2] \notin Digit)
  /\ c.at = "numeral" => /\ Here(t, s) > 1 /\ t[Here(t, s) - 1] = c.entry_c
                         /\ c.entry_c \in Digit \cup {"-"} /\ c.buf.data = <<>>

\* Every variable has its type, and the stream is what is left of the text.
Typed ==
  /\ text \in Texts /\ IsStack(calls)
  /\ error_flags \subseteq Flags /\ errors \subseteq Flags \cup {"ABORT"} /\ ended \in BOOLEAN
  /\ IF calls # <<>> /\ value = NoValue THEN Placed(text, stream, Top) ELSE Left(text, stream)

\* As long as no error was reported, what is left decides whether the text is a program.
Promised ==
  errors = {} =>
    IF calls # <<>> /\ value = NoValue THEN Doing(text, stream, Top, Depth(calls))
    ELSE Decides(text, Here(text, stream), Depth(calls), FALSE) /\ (value = sexp_null => stream = <<>>)

\* An error was reported for no program, and none at the end of one.
Known == (errors # {} => ~WellFormed(text)) /\ (ended /\ errors = {} => WellFormed(text))

\* The inductive invariant.
IInv == Typed /\ Promised /\ Known

-----------------------------------------------------------------------------
(* Steps *)

\* What the assumption says of a text.
LEMMA TextsAre == \A t \in Texts : IsText(t)
BY ReaderAssumption DEF IsText

\* What holds inside a call.
LEMMA Inside ==
  ASSUME IInv, NEW at, In(at)
  PROVE  /\ calls # <<>> /\ value = NoValue /\ Top.at = at
         /\ IsText(text) /\ IsStack(Front(calls)) /\ IsCall(Top)
         /\ Depth(Front(calls)) \in Nat
         /\ Depth(calls) = Depth(Front(calls)) + IF at \in {"list", "list_atom"} THEN 1 ELSE 0
         /\ Placed(text, stream, Top)
         /\ errors = {} => Doing(text, stream, Top, Depth(calls))
<1>1. calls # <<>> /\ value = NoValue /\ Top.at = at
  BY DEF In
<1>2. IsStack(calls) /\ text \in Texts /\ Placed(text, stream, Top)
      /\ (errors = {} => Doing(text, stream, Top, Depth(calls)))
  BY <1>1 DEF IInv, Typed, Promised
<1>3. /\ IsStack(Front(calls)) /\ IsCall(Last(calls)) /\ Depth(Front(calls)) \in Nat
      /\ Depth(calls) = Depth(Front(calls)) + Lists(Last(calls))
  BY <1>1, <1>2, Popped
<1>4. Lists(Last(calls)) = IF at \in {"list", "list_atom"} THEN 1 ELSE 0
  BY <1>1 DEF Top, Lists, IsList
<1> QED
  BY <1>1, <1>2, <1>3, <1>4, TextsAre DEF Top

\* The innermost call goes on, calls another one, or returns.
LEMMA Going ==
  ASSUME IInv, calls # <<>>, value = NoValue, NEW c, IsCall(c), Go(c), Quiet,
         Placed(text, stream', c),
         errors = {} => Doing(text, stream', c, Depth(Front(calls)) + Lists(c))
  PROVE  IInv'
<1>1. /\ calls' = Append(Front(calls), c) /\ value' = value /\ text' = text
      /\ errors' = errors /\ error_flags' = error_flags /\ ended' = ended
  BY DEF Go, Quiet, NoError, aux
<1>2. IsStack(Front(calls))
  BY Popped DEF IInv, Typed
<1>3. IsStack(calls') /\ calls' # <<>> /\ Last(calls') = c /\ Depth(calls') = Depth(Front(calls)) + Lists(c)
  BY <1>1, <1>2, Pushed
<1>4. Top' = c
  BY <1>3 DEF Top
<1>5. Typed'
  BY <1>1, <1>3, <1>4 DEF IInv, Typed
<1>6. Promised'
  BY <1>1, <1>3, <1>4 DEF Promised
<1>7. Known'
  BY <1>1 DEF IInv, Known
<1> QED
  BY <1>5, <1>6, <1>7 DEF IInv

\* A step that leaves the calls alone.
LEMMA Staying ==
  ASSUME IInv, calls # <<>>, value = NoValue, UNCHANGED <<calls, value>>, Quiet,
         Placed(text, stream', Top),
         errors = {} => Doing(text, stream', Top, Depth(calls))
  PROVE  IInv'
<1>1. /\ calls' = calls /\ value' = value /\ text' = text
      /\ errors' = errors /\ error_flags' = error_flags /\ ended' = ended
  BY DEF Quiet, NoError, aux
<1>2. Typed'
  BY <1>1 DEF IInv, Typed, Top
<1>3. Promised'
  BY <1>1 DEF Promised, Top
<1>4. Known'
  BY <1>1 DEF IInv, Known
<1> QED
  BY <1>2, <1>3, <1>4 DEF IInv

\* A step that calls a reader macro or reads.
LEMMA Entering ==
  ASSUME IInv, value = NoValue, NEW c, IsCall(c), Enter(c), Quiet,
         Placed(text, stream', c),
         errors = {} => Doing(text, stream', c, Depth(calls) + Lists(c))
  PROVE  IInv'
<1>1. /\ calls' = Append(calls, c) /\ value' = value /\ text' = text
      /\ errors' = errors /\ error_flags' = error_flags /\ ended' = ended
  BY DEF Enter, Quiet, NoError, aux
<1>2. IsStack(calls)
  BY DEF IInv, Typed
<1>3. IsStack(calls') /\ calls' # <<>> /\ Last(calls') = c /\ Depth(calls') = Depth(calls) + Lists(c)
  BY <1>1, <1>2, Pushed
<1>4. Top' = c
  BY <1>3 DEF Top
<1>5. Typed'
  BY <1>1, <1>3, <1>4 DEF IInv, Typed
<1>6. Promised'
  BY <1>1, <1>3, <1>4 DEF Promised
<1>7. Known'
  BY <1>1 DEF IInv, Known
<1> QED
  BY <1>5, <1>6, <1>7 DEF IInv

\* A step that returns a value without an error.
LEMMA Returning ==
  ASSUME IInv, calls # <<>>, NEW v, v # NoValue, Return(v), Quiet, Left(text, stream'),
         errors = {} => /\ Decides(text, Here(text, stream'), Depth(Front(calls)), FALSE)
                        /\ v = sexp_null => stream' = <<>>
  PROVE  IInv'
<1>1. /\ calls' = Front(calls) /\ value' = v /\ text' = text
      /\ errors' = errors /\ error_flags' = error_flags /\ ended' = ended
  BY DEF Return, Quiet, NoError, aux
<1>2. IsStack(Front(calls))
  BY Popped DEF IInv, Typed
<1>3. Typed'
  BY <1>1, <1>2 DEF IInv, Typed
<1>4. Promised'
  <2>1. value' # NoValue' /\ sexp_null' = sexp_null
    BY <1>1 DEF NoValue, sexp_null
  <2> QED
    BY <1>1, <2>1 DEF Promised
<1>5. Known'
  BY <1>1 DEF IInv, Known
<1> QED
  BY <1>3, <1>4, <1>5 DEF IInv

\* The null sexp is a value of its own.
LEMMA NullIsAValue == sexp_null # NoValue /\ \A kind, x : kind # "null" => <<kind, x>> # sexp_null
<1>1. \A a, b, c, d : <<a, b>> = <<c, d>> => a = c
  OBVIOUS
<1> QED
  BY <1>1 DEF sexp_null, NoValue

\* A step that returns the null sexp and reports an error.
LEMMA Reporting ==
  ASSUME IInv, calls # <<>>, Return(sexp_null), NEW flag \in Flags, Report(flag), Left(text, stream'),
         errors = {} => ~WellFormed(text)
  PROVE  IInv'
<1>1. /\ calls' = Front(calls) /\ value' = sexp_null /\ text' = text /\ ended' = ended
      /\ errors' = errors \cup {flag} /\ error_flags' = SymDiff(error_flags, {flag})
  BY DEF Return, Report, aux
<1>2. IsStack(Front(calls))
  BY Popped DEF IInv, Typed
<1>3. error_flags' \subseteq Flags /\ errors' \subseteq Flags \cup {"ABORT"} /\ errors' # {}
  BY <1>1 DEF IInv, Typed, SymDiff
<1>4. Typed'
  BY <1>1, <1>2, <1>3, NullIsAValue DEF IInv, Typed, NoValue
<1>5. Promised'
  BY <1>3 DEF Promised
<1>6. Known'
  BY <1>1, <1>3 DEF IInv, Known
<1> QED
  BY <1>4, <1>5, <1>6 DEF IInv

-----------------------------------------------------------------------------
(* reads, comments and quotes *)

\* The next char, if there is one.
LEMMA Next1 ==
  ASSUME NEW t, IsText(t), NEW s, Left(t, s)
  PROVE  /\ Here(t, s) \in 1 .. Len(t) + 1 /\ Len(t) \in Nat
         /\ s # <<>> =>
              /\ Here(t, s) \in 1 .. Len(t) /\ Head(s) = t[Here(t, s)] /\ t[Here(t, s)] \in STRING
              /\ Left(t, Tail(s)) /\ Here(t, Tail(s)) = Here(t, s) + 1
         /\ s = <<>> => Here(t, s) = Len(t) + 1
<1>1. t \in Seq(STRING) /\ Len(t) \in Nat
  BY DEF IsText
<1>2. Here(t, s) \in 1 .. Len(t) + 1 /\ (s = <<>> => Here(t, s) = Len(t) + 1)
  BY <1>1, LeftIs
<1>3. s # <<>> => /\ Here(t, s) \in 1 .. Len(t) /\ Head(s) = t[Here(t, s)]
                  /\ Left(t, Tail(s)) /\ Here(t, Tail(s)) = Here(t, s) + 1
  BY <1>1, LeftNext
<1>4. Here(t, s) \in 1 .. Len(t) => t[Here(t, s)] \in STRING
  BY <1>1, ElementOfSeq
<1> QED
  BY <1>1, <1>2, <1>3, <1>4, Zenon

\* What is decided at a place of the text, by the char there.
LEMMA DecidesBlank ==
  ASSUME NEW t, IsText(t), NEW i \in 1 .. Len(t), t[i] \in Blank, NEW d \in Nat, NEW after \in BOOLEAN,
         Decides(t, i, d, after)
  PROVE  Decides(t, i + 1, d, after)
<1>1. t \in Seq(STRING) /\ Len(t) \in Nat /\ \A j \in DOMAIN t : t[j] # NUL
  BY DEF IsText
<1>2. Completes(LexFrom(t)[i], d, after) <=> Completes(LexFrom(t)[i + 1], d, after)
  BY <1>1, CompletesBlank
<1> QED
  BY <1>2 DEF Decides

\* At the end the text is decided.
LEMMA DecidesEnd ==
  ASSUME NEW t, IsText(t), NEW d \in Nat, NEW after \in BOOLEAN, Decides(t, Len(t) + 1, d, after)
  PROVE  (WellFormed(t) <=> d = 0) /\ Decides(t, Len(t) + 1, d, FALSE)
<1>1. t \in Seq(STRING) /\ Len(t) \in Nat /\ \A j \in DOMAIN t : t[j] # NUL
  BY DEF IsText
<1>2. \A a : Completes(LexFrom(t)[Len(t) + 1], d, a) <=> d = 0
  BY <1>1, CompletesEnd
<1> QED
  BY <1>2 DEF Decides

\* An opening parenthesis goes with one list more.
LEMMA DecidesOpen ==
  ASSUME NEW t, IsText(t), NEW i \in 1 .. Len(t), t[i] = "(", NEW d \in Nat, NEW after \in BOOLEAN,
         Decides(t, i, d, after)
  PROVE  Decides(t, i + 1, d + 1, FALSE) /\ Decides(t, i, d, TRUE)
<1>1. t \in Seq(STRING) /\ Len(t) \in Nat /\ \A j \in DOMAIN t : t[j] # NUL
  BY DEF IsText
<1>2. ASSUME NEW a \in BOOLEAN
      PROVE  Completes(LexFrom(t)[i], d, a) <=> Completes(LexFrom(t)[i + 1], d + 1, FALSE)
  BY <1>1, CompletesOpen
<1> QED
  BY <1>2 DEF Decides

\* A closing parenthesis is an error without a list, or after a prefix.
LEMMA DecidesClose ==
  ASSUME NEW t, IsText(t), NEW i \in 1 .. Len(t), t[i] = ")", NEW d \in Nat, NEW after \in BOOLEAN,
         Decides(t, i, d, after)
  PROVE  /\ after \/ d = 0 => ~WellFormed(t)
         /\ ~after /\ d > 0 => Decides(t, i + 1, d - 1, FALSE)
<1>0. t \in Seq(STRING) /\ Len(t) \in Nat
  BY DEF IsText
<1>1. Completes(LexFrom(t)[i], d, after) <=> ~after /\ d >= 1 /\ Completes(LexFrom(t)[i + 1], d - 1, FALSE)
  <2>1. Len(t) \in Nat /\ i \in 1 .. Len(t) /\ t[i] = ")" /\ d \in Nat /\ after \in BOOLEAN
    BY <1>0
  <2> QED
    <3>1. ClosesList(t, i, d, after)
      BY ONLY <2>1, CompletesClose
    <3> QED
      BY ONLY <3>1 DEF ClosesList
<1>2. d >= 1 <=> d > 0
  OBVIOUS
<1>3. ~(d > 0) <=> d = 0
  OBVIOUS
<1> QED
  BY <1>1, <1>2, <1>3 DEF Decides

\* After a prefix a sexp has to come.
LEMMA DecidesPrefix ==
  ASSUME NEW t, IsText(t), NEW i \in 1 .. Len(t), t[i] \in {"'", "#"}, NEW d \in Nat, NEW after \in BOOLEAN,
         Decides(t, i, d, after)
  PROVE  Decides(t, i + 1, d, TRUE)
<1>1. t \in Seq(STRING) /\ Len(t) \in Nat
  BY DEF IsText
<1>2. /\ Completes(LexFrom(t)[i], d, TRUE) <=> Completes(LexFrom(t)[i + 1], d, TRUE)
      /\ Completes(LexFrom(t)[i], d, FALSE) <=> Completes(LexFrom(t)[i + 1], d, TRUE)
  BY <1>1, CompletesPrefix
<1> QED
  BY <1>2, after = TRUE \/ after = FALSE DEF Decides

\* So it has after a comment.
LEMMA DecidesComment ==
  ASSUME NEW t, IsText(t), NEW i \in 1 .. Len(t), t[i] = "semicolon", NEW d \in Nat, NEW after \in BOOLEAN,
         Decides(t, i, d, after)
  PROVE  Decides(t, FirstFrom(t, i + 1, {"\n"}), d, TRUE)
<1>1. t \in Seq(STRING) /\ Len(t) \in Nat
  BY DEF IsText
<1>2. /\ Completes(LexFrom(t)[i], d, TRUE) <=> Completes(LexFrom(t)[FirstFrom(t, i + 1, {"\n"})], d, TRUE)
      /\ Completes(LexFrom(t)[i], d, FALSE) <=> Completes(LexFrom(t)[FirstFrom(t, i + 1, {"\n"})], d, TRUE)
  BY <1>1, CompletesComment
<1> QED
  BY <1>2, after = TRUE \/ after = FALSE DEF Decides

\* A string is an error, or the text goes on after it.
LEMMA DecidesString ==
  ASSUME NEW t, IsText(t), NEW i \in 1 .. Len(t), t[i] = "quotes", NEW d \in Nat, NEW after \in BOOLEAN,
         Decides(t, i, d, after)
  PROVE  /\ Decides(t, i, d, FALSE)
         /\ Closing(t, i) > Len(t) => ~WellFormed(t)
         /\ Closing(t, i) <= Len(t) => Decides(t, Closing(t, i) + 1, d, FALSE)
<1>1. t \in Seq(STRING) /\ Len(t) \in Nat
  BY DEF IsText
<1>2. ASSUME NEW a \in BOOLEAN
      PROVE  /\ Closing(t, i) > Len(t) => ~Completes(LexFrom(t)[i], d, a)
             /\ Closing(t, i) <= Len(t) =>
                  (Completes(LexFrom(t)[i], d, a) <=> Completes(LexFrom(t)[Closing(t, i) + 1], d, FALSE))
  BY <1>1, CompletesString
<1>3. Closing(t, i) > Len(t) \/ Closing(t, i) <= Len(t)
  BY <1>1, ClosingIs
<1> QED
  BY <1>2, <1>3, FALSE \in BOOLEAN DEF Decides

\* A word may follow a prefix.
LEMMA DecidesWord ==
  ASSUME NEW t, IsText(t), NEW i \in 1 .. Len(t), BeginsWord(t[i]), NEW d \in Nat, NEW after \in BOOLEAN,
         Decides(t, i, d, after), NEW other \in BOOLEAN
  PROVE  Decides(t, i, d, other)
<1>1. Completes(LexFrom(t)[i], d, TRUE) <=> Completes(LexFrom(t)[i], d, FALSE)
  BY WordAnywhere
<1>2. (after = TRUE \/ after = FALSE) /\ (other = TRUE \/ other = FALSE)
  OBVIOUS
<1> QED
  BY <1>1, <1>2 DEF Decides

\* The text goes on after a symbol.
LEMMA DecidesSymbol ==
  ASSUME NEW t, IsText(t), NEW i \in 1 .. Len(t), BeginsWord(t[i]),
         ~LooksNumeral(Word(t, i)), NEW d \in Nat, NEW after \in BOOLEAN, Decides(t, i, d, after)
  PROVE  Decides(t, WordEnd(t, i), d, FALSE)
<1>1. t \in Seq(STRING) /\ Len(t) \in Nat /\ \A j \in DOMAIN t : t[j] # NUL
  BY DEF IsText
<1>2. /\ Completes(LexFrom(t)[i], d, TRUE) <=> Completes(LexFrom(t)[WordEnd(t, i)], d, FALSE)
      /\ Completes(LexFrom(t)[i], d, FALSE) <=> Completes(LexFrom(t)[WordEnd(t, i)], d, FALSE)
  BY <1>1, CompletesSymbol
<1> QED
  BY <1>2, after = TRUE \/ after = FALSE DEF Decides

\* A char of the read table begins what its macro reads.
LEMMA MacroBegins ==
  ASSUME NEW t, IsText(t), NEW s, Left(t, s), s # <<>>, Head(s) \in readtable,
         NEW d \in Nat, NEW after \in BOOLEAN, NEW c, c = MacroOf(Head(s)), NEW u, u = Tail(s)
  PROVE  /\ IsCall(c) /\ Lists(c) = 0 /\ Placed(t, u, c)
         /\ Decides(t, Here(t, s), d, after) => Doing(t, u, c, d)
<1> DEFINE i == Here(t, s)
           x == t[i]
<1>1. i \in 1 .. Len(t) /\ Head(s) = x /\ Left(t, u) /\ Here(t, u) = i + 1 /\ Len(t) \in Nat /\ t \in Seq(STRING)
  BY Next1 DEF IsText
<1> HIDE DEF i
<1>2. x \in {"semicolon", "#", "'", "quotes", "-"} \cup Digit
  BY <1>1 DEF readtable
<1>3. ASSUME NEW at \in {"comment", "reads", "quote", "string", "numeral"}, NEW e, c = Call(at, TRUE, e)
      PROVE  IsCall(c) /\ c.at = at /\ c.macros /\ c.entry_c = e /\ c.buf.data = <<>>
  <2>1. at \in Places
    BY DEF Places
  <2>2. IsCall(c) /\ c.at = at /\ c.macros /\ c.entry_c = e
    BY ONLY <1>3, <2>1, NewCall
  <2>3. c.buf.data = <<>>
    <3>1. Call(at, TRUE, e).buf = buffer_new
      BY DEF Call
    <3> QED
      BY <1>3, <3>1, NewBuffer
  <2> QED
    BY <2>2, <2>3
<1>0. c = MacroOf(x)
  BY <1>1
<1>4. FirstFrom(t, i + 1, {"\n"}) = FirstFrom(t, Here(t, u), {"\n"})
  BY <1>1
<1>5. CASE x = "semicolon"
  <2>1. c = Call("comment", TRUE, x)
    BY <1>0, <1>5 DEF MacroOf
  <2>2. IsCall(c) /\ c.at = "comment"
    BY <1>3, <2>1
  <2>3. Decides(t, i, d, after) => Decides(t, FirstFrom(t, Here(t, u), {"\n"}), d, TRUE)
    BY <1>1, <1>4, <1>5, DecidesComment
  <2> QED
    BY <1>1, <2>2, <2>3 DEF Lists, IsList, Placed, Doing, Numerals, i
<1>6. CASE x = "#"
  <2>1. c = Call("reads", TRUE, NUL)
    BY <1>0, <1>6 DEF MacroOf, Reads
  <2>2. IsCall(c) /\ c.at = "reads" /\ c.macros
    BY <1>3, <2>1
  <2>3. Decides(t, i, d, after) => Decides(t, Here(t, u), d, TRUE)
    BY <1>1, <1>6, DecidesPrefix
  <2> QED
    BY <1>1, <2>2, <2>3 DEF Lists, IsList, Placed, Doing, Numerals, i
<1>7. CASE x = "'"
  <2>1. c = Call("quote", TRUE, x)
    BY <1>0, <1>7 DEF MacroOf
  <2>2. IsCall(c) /\ c.at = "quote"
    BY <1>3, <2>1
  <2>3. Decides(t, i, d, after) => Decides(t, Here(t, u), d, TRUE)
    BY <1>1, <1>7, DecidesPrefix
  <2> QED
    BY <1>1, <2>2, <2>3 DEF Lists, IsList, Placed, Doing, Numerals, i
<1>8. CASE x = "quotes"
  <2>1. c = Call("string", TRUE, x)
    BY <1>0, <1>8 DEF MacroOf
  <2>2. IsCall(c) /\ c.at = "string" /\ c.entry_c = "quotes"
    BY <1>3, <1>8, <2>1
  <2>3. Decides(t, i, d, after) => Decides(t, i, d, FALSE)
    BY <1>1, <1>8, DecidesString
  <2>4. InString(t, u, i)
    BY <1>1, <1>8, StringBegins DEF InString
  <2> QED
    BY <1>1, <2>2, <2>3, <2>4 DEF Lists, IsList, Placed, Doing, Numerals, i
<1>9. CASE x \in Digit \cup {"-"}
  <2>1. x \notin {"semicolon", "#", "'", "quotes"} /\ BeginsWord(x)
    BY <1>9 DEF Digit, Octal, BeginsWord, Blank, Single
  <2>2. c = Call("numeral", TRUE, x)
    BY <1>0, <2>1 DEF MacroOf
  <2>3. IsCall(c) /\ c.at = "numeral" /\ c.entry_c = x /\ c.buf.data = <<>>
    BY <1>3, <2>2
  <2>4. Decides(t, i, d, after) => Decides(t, i, d, FALSE)
    BY <1>1, <2>1, DecidesWord
  <2>5. Here(t, u) - 1 = i /\ Here(t, u) > 1
    BY <1>1
  <2> QED
    BY <1>1, <1>9, <2>3, <2>4, <2>5 DEF Lists, IsList, Placed, Doing, Numerals, i
<1> QED
  BY <1>2, <1>5, <1>6, <1>7, <1>8, <1>9

\* reads passes a blank.
LEMMA ReadsSkipKeeps == ASSUME IInv, ReadsSkip PROVE IInv'
<1> USE DEF ReadsSkip
<1>1. /\ calls # <<>> /\ value = NoValue /\ Top.at = "reads" /\ IsText(text)
      /\ Depth(calls) = Depth(Front(calls)) /\ Depth(Front(calls)) \in Nat
      /\ Placed(text, stream, Top) /\ (errors = {} => Doing(text, stream, Top, Depth(calls)))
  BY Inside
<1> DEFINE i == Here(text, stream)
<1>2. /\ Left(text, stream) /\ stream # <<>> /\ Head(stream) \in Blank /\ stream' = Tail(stream)
      /\ UNCHANGED <<calls, value>> /\ Quiet
  BY <1>1 DEF At, readc, Placed
<1>3. i \in 1 .. Len(text) /\ text[i] \in Blank /\ Left(text, stream') /\ Here(text, stream') = i + 1
  BY <1>1, <1>2, Next1
<1>4. Top.macros
  <2>1. "-" \notin Blank
    BY DEF Blank
  <2>2. Head(stream) = stream[1]
    BY <1>2
  <2> QED
    BY <1>1, <1>2, <2>1, <2>2 DEF Placed
<1>5. Placed(text, stream', Top)
  BY <1>1, <1>3, <1>4 DEF Placed
<1>6. errors = {} => Doing(text, stream', Top, Depth(calls))
  <2> HIDE DEF i
  <2>1. Decides(text, i, Depth(calls), TRUE) => Decides(text, i + 1, Depth(calls), TRUE)
    BY <1>1, <1>3, DecidesBlank
  <2> QED
    BY <1>1, <1>3, <2>1 DEF Doing, Numerals, i
<1> QED
  BY <1>1, <1>2, <1>5, <1>6, Staying

\* reads hands a char over to its reader macro.
LEMMA ReadsMacroKeeps == ASSUME IInv, ReadsMacro PROVE IInv'
<1> USE DEF ReadsMacro
<1>1. /\ calls # <<>> /\ value = NoValue /\ Top.at = "reads" /\ IsText(text)
      /\ Depth(calls) = Depth(Front(calls)) /\ Depth(Front(calls)) \in Nat
      /\ Placed(text, stream, Top) /\ (errors = {} => Doing(text, stream, Top, Depth(calls)))
  BY Inside
<1> DEFINE c == MacroOf(Head(stream))
<1>2. /\ Left(text, stream) /\ stream # <<>> /\ Head(stream) \in readtable /\ stream' = Tail(stream)
      /\ Go(c) /\ Quiet
  BY <1>1 DEF At, readc, Placed, Become
<1>3. /\ IsCall(c) /\ Lists(c) = 0 /\ Placed(text, stream', c)
      /\ Decides(text, Here(text, stream), Depth(calls), TRUE) => Doing(text, stream', c, Depth(calls))
  BY <1>1, <1>2, MacroBegins
<1>4. errors = {} => Decides(text, Here(text, stream), Depth(calls), TRUE)
  BY <1>1 DEF Doing
<1>5. Depth(Front(calls)) + Lists(c) = Depth(calls)
  BY <1>1, <1>3
<1>6. errors = {} => Doing(text, stream', c, Depth(Front(calls)) + Lists(c))
  BY <1>3, <1>4, <1>5, Zenon
<1> QED
  BY <1>1, <1>2, <1>3, <1>6, Going

\* A call without reader macros begins with a minus.
LEMMA MayCallMacros ==
  ASSUME NEW t, NEW s, s # <<>>, NEW c, c.at = "reads", Placed(t, s, c), Head(s) # "-"
  PROVE  c.macros
BY DEF Placed

\* reads comes to the end of the stream.
LEMMA ReadsEOFKeeps == ASSUME IInv, ReadsEOF PROVE IInv'
<1> USE DEF ReadsEOF
<1>1. /\ calls # <<>> /\ value = NoValue /\ Top.at = "reads" /\ IsText(text) /\ IsCall(Top)
      /\ Depth(calls) = Depth(Front(calls)) /\ Depth(Front(calls)) \in Nat
      /\ Placed(text, stream, Top) /\ (errors = {} => Doing(text, stream, Top, Depth(calls)))
  BY Inside
<1>2. /\ Left(text, stream) /\ stream = <<>> /\ stream' = stream /\ Return(sexp_null) /\ Quiet
  BY <1>1 DEF AtEOF, Placed
<1>3. Here(text, stream) = Len(text) + 1
  BY <1>1, <1>2, Next1
<1>4. ASSUME errors = {} PROVE Decides(text, Here(text, stream'), Depth(Front(calls)), FALSE)
  <2>1. Decides(text, Here(text, stream), Depth(Front(calls)), TRUE)
    BY <1>1, <1>4 DEF Doing
  <2> QED
    BY <1>1, <1>2, <1>3, <2>1, DecidesEnd
<1> QED
  BY <1>1, <1>2, <1>4, NullIsAValue, Returning

\* reads meets a closing parenthesis.
LEMMA ReadsUnmatchedKeeps == ASSUME IInv, ReadsUnmatched PROVE IInv'
<1> USE DEF ReadsUnmatched
<1>1. /\ calls # <<>> /\ value = NoValue /\ Top.at = "reads" /\ IsText(text) /\ IsCall(Top)
      /\ Depth(calls) = Depth(Front(calls)) /\ Depth(Front(calls)) \in Nat
      /\ Placed(text, stream, Top) /\ (errors = {} => Doing(text, stream, Top, Depth(calls)))
  BY Inside
<1>2. /\ Left(text, stream) /\ stream # <<>> /\ Head(stream) = ")" /\ stream' = stream
      /\ Return(sexp_null) /\ Report("UNMATCHED") /\ "UNMATCHED" \in Flags
  BY <1>1 DEF At, Placed, Flags
<1>3. Here(text, stream) \in 1 .. Len(text) /\ text[Here(text, stream)] = ")"
  BY <1>1, <1>2, Next1
<1>4. ASSUME errors = {} PROVE ~WellFormed(text)
  <2>1. Decides(text, Here(text, stream), Depth(calls), TRUE)
    BY <1>1, <1>4 DEF Doing
  <2> QED
    BY <1>1, <1>3, <2>1, DecidesClose
<1> QED
  BY <1>1, <1>2, <1>4, Reporting

\* reads begins a list.
LEMMA ReadsListKeeps == ASSUME IInv, ReadsList PROVE IInv'
<1> USE DEF ReadsList
<1>1. /\ calls # <<>> /\ value = NoValue /\ Top.at = "reads" /\ IsText(text) /\ IsCall(Top)
      /\ Depth(calls) = Depth(Front(calls)) /\ Depth(Front(calls)) \in Nat
      /\ Placed(text, stream, Top) /\ (errors = {} => Doing(text, stream, Top, Depth(calls)))
  BY Inside
<1> DEFINE c == Changed(Top, "list", Top.buf)
<1>2. /\ Left(text, stream) /\ stream # <<>> /\ Head(stream) = "(" /\ stream' = Tail(stream)
      /\ Go(c) /\ Quiet
  BY <1>1 DEF At, readc, Placed, Continue
<1>3. /\ Here(text, stream) \in 1 .. Len(text) /\ text[Here(text, stream)] = "("
      /\ Left(text, stream') /\ Here(text, stream') = Here(text, stream) + 1
  BY <1>1, <1>2, Next1
<1>4. IsCall(c) /\ c.at = "list"
  <2>1. Top.macros
    BY <1>1, <1>2, MayCallMacros
  <2>2. "list" \in Places /\ IsBuffer(Top.buf)
    BY <1>1 DEF Places, IsCall
  <2> QED
    BY <1>1, <2>1, <2>2, ChangedCall
<1> HIDE DEF c
<1>5. Placed(text, stream', c) /\ Lists(c) = 1
  BY <1>3, <1>4 DEF Placed, Lists, IsList
<1>6. ASSUME errors = {} PROVE Doing(text, stream', c, Depth(Front(calls)) + Lists(c))
  <2>1. Decides(text, Here(text, stream), Depth(Front(calls)), TRUE)
    BY <1>1, <1>6 DEF Doing
  <2>2. Decides(text, Here(text, stream'), Depth(Front(calls)) + 1, FALSE)
    BY <1>1, <1>3, <2>1, DecidesOpen
  <2> QED
    BY <1>4, <1>5, <2>2 DEF Doing, Numerals
<1> QED
  BY <1>1, <1>2, <1>4, <1>5, <1>6, Going

\* A char that no macro is called for begins an atom.
LEMMA AtomBegins ==
  ASSUME NEW t, IsText(t), NEW i \in 1 .. Len(t), t[i] \notin Delimiter,
         t[i] \notin readtable \/ (t[i] = "-" /\ (i + 1 <= Len(t) => t[i + 1] \notin Digit))
  PROVE  BeginsWord(t[i]) /\ ~LooksNumeral(Word(t, i))
<1>1. t \in Seq(STRING) /\ Len(t) \in Nat
  BY DEF IsText
<1>2. BeginsWord(t[i]) /\ t[i] \notin Digit
  BY DEF BeginsWord, Blank, Single, Delimiter, readtable, Digit, Octal
<1>3. /\ WordEnd(t, i) \in i + 1 .. Len(t) + 1 /\ Len(Word(t, i)) = WordEnd(t, i) - i
      /\ \A j \in 1 .. WordEnd(t, i) - i : Word(t, i)[j] = t[i + j - 1]
      /\ Word(t, i)[1] = t[i]
  BY <1>1, <1>2, WordIs
<1>4. CASE t[i] \notin readtable
  <2>1. t[i] # "-"
    BY <1>4 DEF readtable
  <2> QED
    BY <1>2, <1>3, <2>1 DEF LooksNumeral
<1>5. CASE t[i] = "-" /\ (i + 1 <= Len(t) => t[i + 1] \notin Digit)
  <2>1. ASSUME Len(Word(t, i)) > 1 PROVE Word(t, i)[2] \notin Digit
    <3>1. 2 \in 1 .. WordEnd(t, i) - i /\ i + 2 - 1 = i + 1 /\ i + 1 <= Len(t)
      BY <1>1, <1>3, <2>1
    <3>2. Word(t, i)[2] = t[i + 1]
      BY <1>3, <3>1
    <3> QED
      BY <1>5, <3>1, <3>2
  <2> QED
    BY <1>2, <1>3, <2>1 DEF LooksNumeral
<1> QED
  BY <1>2, <1>4, <1>5

\* One that reads calls no macro for does.
LEMMA AtomHere ==
  ASSUME NEW t, IsText(t), NEW s, Left(t, s), s # <<>>, Head(s) \notin Delimiter,
         NEW c, c.at = "reads", c.macros \in BOOLEAN, Placed(t, s, c), c.macros => Head(s) \notin readtable
  PROVE  BeginsWord(t[Here(t, s)]) /\ ~LooksNumeral(Word(t, Here(t, s)))
<1> DEFINE i == Here(t, s)
<1>1. i \in 1 .. Len(t) /\ Head(s) = t[i] /\ Len(t) \in Nat /\ t \in Seq(STRING)
  BY Next1 DEF IsText
<1>2. Len(s) \in Nat /\ Len(s) = Len(t) - i + 1 /\ \A j \in 1 .. Len(s) : s[j] = t[i + j - 1]
  BY <1>1, LeftIs
<1>3. s # <<>> => Head(s) = s[1]
  OBVIOUS
<1> HIDE DEF i
<1>4. CASE c.macros
  BY <1>1, <1>4, AtomBegins DEF i
<1>5. CASE ~c.macros
  <2>1. s[1] = "-" /\ (Len(s) > 1 => s[2] \notin Digit)
    BY <1>5 DEF Placed
  <2>2. t[i] = "-"
    BY <1>1, <1>3, <2>1
  <2>3. ASSUME i + 1 <= Len(t) PROVE t[i + 1] \notin Digit
    <3>1. Len(s) > 1 /\ 2 \in 1 .. Len(s) /\ i + 2 - 1 = i + 1
      BY <1>1, <1>2, <2>3
    <3>2. s[2] = t[i + 1]
      BY <1>2, <3>1
    <3> QED
      BY <2>1, <3>1, <3>2
  <2>4. t[i] \notin Delimiter
    BY <1>1
  <2> QED
    BY <1>1, <2>2, <2>3, <2>4, AtomBegins DEF i
<1> QED
  BY <1>4, <1>5

\* reads begins an atom.
LEMMA ReadsAtomKeeps == ASSUME IInv, ReadsAtom PROVE IInv'
<1> USE DEF ReadsAtom
<1>1. /\ calls # <<>> /\ value = NoValue /\ Top.at = "reads" /\ IsText(text) /\ IsCall(Top)
      /\ Depth(calls) = Depth(Front(calls)) /\ Depth(Front(calls)) \in Nat
      /\ Placed(text, stream, Top) /\ (errors = {} => Doing(text, stream, Top, Depth(calls)))
  BY Inside
<1> DEFINE c == Changed(Top, "atom", Top.buf)
           i == Here(text, stream)
<1>2. /\ Left(text, stream) /\ stream # <<>> /\ Head(stream) \notin Delimiter
      /\ (Top.macros => Head(stream) \notin readtable) /\ stream' = stream /\ Go(c) /\ Quiet
  BY <1>1 DEF AtOther, Placed, Continue
<1>3. i \in 1 .. Len(text) /\ Head(stream) = text[i] /\ Len(text) \in Nat /\ text \in Seq(STRING)
  BY <1>1, <1>2, Next1 DEF IsText
<1>4. IsCall(c) /\ c.at = "atom"
  <2>1. "atom" \in Places /\ IsBuffer(Top.buf)
    BY <1>1 DEF Places, IsCall
  <2> QED
    BY <1>1, <2>1, ChangedCall
<1> HIDE DEF c, i
<1>5. Placed(text, stream', c) /\ Lists(c) = 0
  BY <1>2, <1>4 DEF Placed, Lists, IsList
<1>6. BeginsWord(text[i]) /\ ~LooksNumeral(Word(text, i))
  BY <1>1, <1>2, AtomHere DEF IsCall, i
<1>7. ASSUME errors = {} PROVE Doing(text, stream', c, Depth(Front(calls)) + Lists(c))
  <2>1. Decides(text, i, Depth(Front(calls)), TRUE)
    BY <1>1, <1>7 DEF Doing, i
  <2>2. Decides(text, WordEnd(text, i), Depth(Front(calls)), FALSE)
    BY <1>1, <1>3, <1>6, <2>1, DecidesSymbol
  <2>3. Depth(Front(calls)) + Lists(c) = Depth(Front(calls))
    BY <1>1, <1>5
  <2> QED
    BY <1>2, <1>4, <2>2, <2>3 DEF Doing, Numerals, i
<1> QED
  BY <1>1, <1>2, <1>4, <1>5, <1>7, Going

\* The end of a word, seen from a place in it.
LEMMA WordEndSteps ==
  ASSUME NEW t, IsText(t), NEW s, Left(t, s)
  PROVE  /\ s # <<>> /\ Head(s) \notin Delimiter => WordEnd(t, Here(t, s)) = WordEnd(t, Here(t, Tail(s)))
         /\ s = <<>> \/ Head(s) \in Delimiter => WordEnd(t, Here(t, s)) = Here(t, s)
<1> DEFINE i == Here(t, s)
<1>1. /\ Len(t) \in Nat /\ i \in 1 .. Len(t) + 1
      /\ s # <<>> => i \in 1 .. Len(t) /\ Head(s) = t[i] /\ Here(t, Tail(s)) = i + 1
      /\ s = <<>> => i = Len(t) + 1
  BY Next1
<1> HIDE DEF i
<1>2. s # <<>> => /\ t[i] \in Delimiter => WordEnd(t, i) = i
                  /\ t[i] \notin Delimiter => WordEnd(t, i) = WordEnd(t, i + 1)
  BY <1>1, FirstFromSteps DEF WordEnd
<1>3. WordEnd(t, Len(t) + 1) = Len(t) + 1
  BY <1>1, FirstFromEnd DEF WordEnd
<1> QED
  BY <1>1, <1>2, <1>3, Zenon DEF i

\* reads goes on with an atom.
LEMMA AtomCharKeeps == ASSUME IInv, AtomChar PROVE IInv'
<1> USE DEF AtomChar
<1>1. /\ calls # <<>> /\ value = NoValue /\ Top.at = "atom" /\ IsText(text) /\ IsCall(Top)
      /\ Depth(calls) = Depth(Front(calls)) /\ Depth(Front(calls)) \in Nat
      /\ Placed(text, stream, Top) /\ (errors = {} => Doing(text, stream, Top, Depth(calls)))
  BY Inside
<1> DEFINE c == Changed(Top, "atom", buffer_append_char(Top.buf, Head(stream)))
<1>2. /\ Left(text, stream) /\ stream # <<>> /\ Head(stream) \notin Delimiter /\ stream' = Tail(stream)
      /\ Go(c) /\ Quiet
  BY <1>1 DEF AtOther, Placed, Take, readc, Continue
<1>3. IsCall(c) /\ c.at = "atom"
  <2>1. "atom" \in Places /\ (~Top.macros => "atom" \in {"reads", "atom"})
    BY <1>1 DEF Places, IsCall
  <2>2. IsBuffer(buffer_append_char(Top.buf, Head(stream)))
    BY <1>1, AppendedChar DEF IsCall
  <2> QED
    BY <1>1, <2>1, <2>2, ChangedCall
<1> HIDE DEF c
<1>4. Left(text, stream') /\ WordEnd(text, Here(text, stream')) = WordEnd(text, Here(text, stream))
  BY <1>1, <1>2, Next1, WordEndSteps
<1>5. Placed(text, stream', c) /\ Lists(c) = 0
  BY <1>3, <1>4 DEF Placed, Lists, IsList
<1>6. Depth(Front(calls)) + Lists(c) = Depth(calls)
  BY <1>1, <1>5
<1>7. ASSUME errors = {} PROVE Doing(text, stream', c, Depth(calls))
  <2>1. Decides(text, WordEnd(text, Here(text, stream)), Depth(calls), FALSE)
    BY <1>1, <1>7 DEF Doing
  <2> QED
    BY <1>3, <1>4, <2>1 DEF Doing, Numerals
<1> QED
  BY <1>1, <1>2, <1>3, <1>5, <1>6, <1>7, Going

\* reads goes on with an atom of a list.
LEMMA ListAtomCharKeeps == ASSUME IInv, ListAtomChar PROVE IInv'
<1> USE DEF ListAtomChar
<1>1. /\ calls # <<>> /\ value = NoValue /\ Top.at = "list_atom" /\ IsText(text) /\ IsCall(Top)
      /\ Depth(calls) = Depth(Front(calls)) + 1 /\ Depth(Front(calls)) \in Nat
      /\ Placed(text, stream, Top) /\ (errors = {} => Doing(text, stream, Top, Depth(calls)))
  BY Inside
<1> DEFINE c == Changed(Top, "list_atom", buffer_append_char(Top.buf, Head(stream)))
<1>2. /\ Left(text, stream) /\ stream # <<>> /\ Head(stream) \notin Delimiter /\ stream' = Tail(stream)
      /\ Go(c) /\ Quiet
  BY <1>1 DEF AtOther, Placed, Take, readc, Continue
<1>3. IsCall(c) /\ c.at = "list_atom"
  <2>1. "list_atom" \in Places /\ (~Top.macros => "list_atom" \in {"reads", "atom"})
    BY <1>1 DEF Places, IsCall
  <2>2. IsBuffer(buffer_append_char(Top.buf, Head(stream)))
    BY <1>1, AppendedChar DEF IsCall
  <2> QED
    BY <1>1, <2>1, <2>2, ChangedCall
<1> HIDE DEF c
<1>4. Left(text, stream') /\ WordEnd(text, Here(text, stream')) = WordEnd(text, Here(text, stream))
  BY <1>1, <1>2, Next1, WordEndSteps
<1>5. Placed(text, stream', c) /\ Lists(c) = 1
  BY <1>3, <1>4 DEF Placed, Lists, IsList
<1>6. Depth(Front(calls)) + Lists(c) = Depth(calls)
  BY <1>1, <1>5
<1>7. ASSUME errors = {} PROVE Doing(text, stream', c, Depth(calls))
  <2>1. Decides(text, WordEnd(text, Here(text, stream)), Depth(calls), FALSE)
    BY <1>1, <1>7 DEF Doing
  <2> QED
    BY <1>3, <1>4, <2>1 DEF Doing, Numerals
<1> QED
  BY <1>1, <1>2, <1>3, <1>5, <1>6, <1>7, Going

\* A sexp that is not the null one.
LEMMA NotNull ==
  ASSUME NEW kind \in {"sym", "str", "int", "float", "uint", "list"}, NEW x
  PROVE  sexp_new_source_atom(kind, x) # sexp_null /\ sexp_new_source_atom(kind, x) # NoValue
<1>1. \A a, b, c, d : <<a, b>> = <<c, d>> => a = c
  OBVIOUS
<1>2. kind # "null" /\ kind # "no_value"
  OBVIOUS
<1> QED
  BY <1>1, <1>2 DEF sexp_null, NoValue, sexp_new_source_atom

\* reads returns an atom.
LEMMA AtomEndKeeps == ASSUME IInv, AtomEnd PROVE IInv'
<1> USE DEF AtomEnd
<1>1. /\ calls # <<>> /\ value = NoValue /\ Top.at = "atom" /\ IsText(text) /\ IsCall(Top)
      /\ Depth(calls) = Depth(Front(calls)) /\ Depth(Front(calls)) \in Nat
      /\ Placed(text, stream, Top) /\ (errors = {} => Doing(text, stream, Top, Depth(calls)))
  BY Inside
<1> DEFINE v == Symbol(Top.buf)
<1>2. /\ Left(text, stream) /\ (stream = <<>> \/ Head(stream) \in Delimiter) /\ stream' = stream
      /\ Return(v) /\ Quiet
  BY <1>1 DEF At, AtEOF, Placed
<1>3. v # NoValue /\ v # sexp_null
  BY NotNull DEF Symbol
<1> HIDE DEF v
<1>4. WordEnd(text, Here(text, stream)) = Here(text, stream)
  BY <1>1, <1>2, WordEndSteps
<1>5. errors = {} => Decides(text, Here(text, stream'), Depth(Front(calls)), FALSE)
  BY <1>1, <1>2, <1>4 DEF Doing
<1> QED
  BY <1>1, <1>2, <1>3, <1>5, Returning

\* A list calls a reader macro.
LEMMA ListMacroKeeps == ASSUME IInv, ListMacro PROVE IInv'
<1> USE DEF ListMacro
<1>1. /\ calls # <<>> /\ value = NoValue /\ Top.at = "list" /\ IsText(text) /\ IsCall(Top)
      /\ Depth(calls) = Depth(Front(calls)) + 1 /\ Depth(Front(calls)) \in Nat
      /\ Placed(text, stream, Top) /\ (errors = {} => Doing(text, stream, Top, Depth(calls)))
  BY Inside
<1> DEFINE c == MacroOf(Head(stream))
<1>2. /\ Left(text, stream) /\ stream # <<>> /\ Head(stream) \in readtable /\ stream' = Tail(stream)
      /\ Enter(c) /\ Quiet
  BY <1>1 DEF At, readc, Placed
<1>0. Depth(calls) \in Nat /\ FALSE \in BOOLEAN
  BY <1>1
<1>3. /\ IsCall(c) /\ Lists(c) = 0 /\ Placed(text, stream', c)
      /\ Decides(text, Here(text, stream), Depth(calls), FALSE) => Doing(text, stream', c, Depth(calls))
  BY <1>0, <1>1, <1>2, MacroBegins
<1>4. errors = {} => Decides(text, Here(text, stream), Depth(calls), FALSE)
  BY <1>1 DEF Doing
<1>5. Depth(calls) + Lists(c) = Depth(calls)
  BY <1>1, <1>3
<1>6. errors = {} => Doing(text, stream', c, Depth(calls) + Lists(c))
  BY <1>3, <1>4, <1>5, Zenon
<1> QED
  BY <1>1, <1>2, <1>3, <1>6, Entering

\* A list comes to the end of the stream.
LEMMA ListUnclosedKeeps == ASSUME IInv, ListUnclosed PROVE IInv'
<1> USE DEF ListUnclosed
<1>1. /\ calls # <<>> /\ value = NoValue /\ Top.at = "list" /\ IsText(text) /\ IsCall(Top)
      /\ Depth(calls) = Depth(Front(calls)) + 1 /\ Depth(Front(calls)) \in Nat
      /\ Placed(text, stream, Top) /\ (errors = {} => Doing(text, stream, Top, Depth(calls)))
  BY Inside
<1>2. /\ Left(text, stream) /\ stream = <<>> /\ stream' = stream
      /\ Return(sexp_null) /\ Report("UNCLOSED") /\ "UNCLOSED" \in Flags
  BY <1>1 DEF AtEOF, Placed, Flags
<1>3. Here(text, stream) = Len(text) + 1 /\ Depth(calls) # 0 /\ Depth(calls) \in Nat
  BY <1>1, <1>2, Next1
<1>4. ASSUME errors = {} PROVE ~WellFormed(text)
  <2>1. Decides(text, Len(text) + 1, Depth(calls), FALSE)
    BY <1>1, <1>3, <1>4 DEF Doing
  <2> QED
    BY <1>1, <1>3, <2>1, DecidesEnd
<1> QED
  BY <1>1, <1>2, <1>4, Reporting

\* A list passes a blank.
LEMMA ListSkipKeeps == ASSUME IInv, ListSkip PROVE IInv'
<1> USE DEF ListSkip
<1>1. /\ calls # <<>> /\ value = NoValue /\ Top.at = "list" /\ IsText(text) /\ IsCall(Top)
      /\ Depth(calls) = Depth(Front(calls)) + 1 /\ Depth(Front(calls)) \in Nat
      /\ Placed(text, stream, Top) /\ (errors = {} => Doing(text, stream, Top, Depth(calls)))
  BY Inside
<1> DEFINE i == Here(text, stream)
<1>2. /\ Left(text, stream) /\ stream # <<>> /\ Head(stream) \in Blank /\ stream' = Tail(stream)
      /\ UNCHANGED <<calls, value>> /\ Quiet
  BY <1>1 DEF At, readc, Placed
<1>3. i \in 1 .. Len(text) /\ text[i] \in Blank /\ Left(text, stream') /\ Here(text, stream') = i + 1
  BY <1>1, <1>2, Next1
<1>4. Placed(text, stream', Top)
  BY <1>1, <1>3 DEF Placed
<1>5. errors = {} => Doing(text, stream', Top, Depth(calls))
  <2> HIDE DEF i
  <2>0. Depth(calls) \in Nat /\ FALSE \in BOOLEAN
    BY <1>1
  <2>1. Decides(text, i, Depth(calls), FALSE) => Decides(text, i + 1, Depth(calls), FALSE)
    BY <1>1, <1>3, <2>0, DecidesBlank
  <2> QED
    BY <1>1, <1>3, <2>1 DEF Doing, Numerals, i
<1> QED
  BY <1>1, <1>2, <1>4, <1>5, Staying

\* A list calls reads for a list in it.
LEMMA ListOpenKeeps == ASSUME IInv, ListOpen PROVE IInv'
<1> USE DEF ListOpen
<1>1. /\ calls # <<>> /\ value = NoValue /\ Top.at = "list" /\ IsText(text) /\ IsCall(Top)
      /\ Depth(calls) = Depth(Front(calls)) + 1 /\ Depth(Front(calls)) \in Nat
      /\ Placed(text, stream, Top) /\ (errors = {} => Doing(text, stream, Top, Depth(calls)))
  BY Inside
<1> DEFINE c == Reads(TRUE)
<1>2. /\ Left(text, stream) /\ stream # <<>> /\ Head(stream) = "(" /\ stream' = stream
      /\ Enter(c) /\ Quiet
  BY <1>1 DEF At, Placed
<1>3. Here(text, stream) \in 1 .. Len(text) /\ text[Here(text, stream)] = "("
  BY <1>1, <1>2, Next1
<1>4. IsCall(c) /\ c.at = "reads" /\ c.macros
  BY NewReads
<1> HIDE DEF c
<1>5. Placed(text, stream', c) /\ Lists(c) = 0
  BY <1>2, <1>4 DEF Placed, Lists, IsList
<1>6. Depth(calls) + Lists(c) = Depth(calls) /\ Depth(calls) \in Nat
  BY <1>1, <1>5
<1>7. ASSUME errors = {} PROVE Doing(text, stream', c, Depth(calls))
  <2>1. Decides(text, Here(text, stream), Depth(calls), FALSE)
    BY <1>1, <1>7 DEF Doing
  <2>2. Decides(text, Here(text, stream), Depth(calls), TRUE)
    BY <1>1, <1>3, <1>6, <2>1, DecidesOpen
  <2> QED
    BY <1>2, <1>4, <2>2 DEF Doing, Numerals
<1> QED
  BY <1>1, <1>2, <1>4, <1>5, <1>6, <1>7, Entering

\* A list begins an atom of its own.
LEMMA ListAtomKeeps == ASSUME IInv, ListAtom PROVE IInv'
<1> USE DEF ListAtom
<1>1. /\ calls # <<>> /\ value = NoValue /\ Top.at = "list" /\ IsText(text) /\ IsCall(Top)
      /\ Depth(calls) = Depth(Front(calls)) + 1 /\ Depth(Front(calls)) \in Nat
      /\ Placed(text, stream, Top) /\ (errors = {} => Doing(text, stream, Top, Depth(calls)))
  BY Inside
<1> DEFINE c == Changed(Top, "list_atom", buffer_append_char(Top.buf, Head(stream)))
           i == Here(text, stream)
<1>2. /\ Left(text, stream) /\ stream # <<>> /\ Head(stream) \notin Delimiter
      /\ (Top.macros => Head(stream) \notin readtable) /\ stream' = Tail(stream) /\ Go(c) /\ Quiet
  BY <1>1 DEF AtOther, Placed, Take, readc, Continue
<1>3. Top.macros
  BY <1>1 DEF IsCall
<1>4. IsCall(c) /\ c.at = "list_atom"
  <2>1. "list_atom" \in Places
    BY DEF Places
  <2>2. IsBuffer(buffer_append_char(Top.buf, Head(stream)))
    BY <1>1, AppendedChar DEF IsCall
  <2> QED
    BY <1>1, <1>3, <2>1, <2>2, ChangedCall
<1>5. i \in 1 .. Len(text) /\ Head(stream) = text[i] /\ Left(text, stream')
  BY <1>1, <1>2, Next1
<1>6. WordEnd(text, Here(text, stream')) = WordEnd(text, i)
  BY <1>1, <1>2, WordEndSteps
<1> HIDE DEF c, i
<1>7. Placed(text, stream', c) /\ Lists(c) = 1
  BY <1>4, <1>5 DEF Placed, Lists, IsList
<1>8. Depth(Front(calls)) + Lists(c) = Depth(calls) /\ Depth(calls) \in Nat
  BY <1>1, <1>7
<1>9. ASSUME errors = {} PROVE Doing(text, stream', c, Depth(calls))
  <2>1. Decides(text, i, Depth(calls), FALSE)
    BY <1>1, <1>9 DEF Doing, i
  <2>2. BeginsWord(text[i]) /\ ~LooksNumeral(Word(text, i))
    BY <1>1, <1>2, <1>3, <1>5, AtomBegins
  <2>3. Decides(text, WordEnd(text, i), Depth(calls), FALSE)
    BY <1>1, <1>5, <1>8, <2>1, <2>2, DecidesSymbol
  <2> QED
    BY <1>4, <1>6, <2>3 DEF Doing, Numerals
<1> QED
  BY <1>1, <1>2, <1>4, <1>7, <1>8, <1>9, Going

\* A list takes the atom it has read.
LEMMA ListAtomEndKeeps == ASSUME IInv, ListAtomEnd PROVE IInv'
<1> USE DEF ListAtomEnd
<1>1. /\ calls # <<>> /\ value = NoValue /\ Top.at = "list_atom" /\ IsText(text) /\ IsCall(Top)
      /\ Depth(calls) = Depth(Front(calls)) + 1 /\ Depth(Front(calls)) \in Nat
      /\ Placed(text, stream, Top) /\ (errors = {} => Doing(text, stream, Top, Depth(calls)))
  BY Inside
<1> DEFINE b == Changed(Top, "list", buffer_clear(Top.buf))
           c == [b EXCEPT !.items = Append(b.items, Symbol(Top.buf))]
<1>2. /\ Left(text, stream) /\ (stream = <<>> \/ Head(stream) \in Delimiter) /\ stream' = stream
      /\ Go(c) /\ Quiet
  BY <1>1 DEF At, AtEOF, Placed
<1>3. IsCall(b) /\ b.at = "list"
  <2>1. "list" \in Places /\ Top.macros
    BY <1>1 DEF Places, IsCall
  <2>2. IsBuffer(buffer_clear(Top.buf))
    BY <1>1, ClearedBuffer DEF IsCall
  <2> QED
    BY <1>1, <2>1, <2>2, ChangedCall
<1> HIDE DEF b
<1>4. IsCall(c) /\ c.at = "list"
  BY <1>3, ChangedItems
<1> HIDE DEF c
<1>5. WordEnd(text, Here(text, stream)) = Here(text, stream)
  BY <1>1, <1>2, WordEndSteps
<1>6. Placed(text, stream', c) /\ Lists(c) = 1
  BY <1>2, <1>4 DEF Placed, Lists, IsList
<1>7. Depth(Front(calls)) + Lists(c) = Depth(calls)
  BY <1>1, <1>6
<1>8. errors = {} => Doing(text, stream', c, Depth(calls))
  BY <1>1, <1>2, <1>4, <1>5 DEF Doing, Numerals
<1> QED
  BY <1>1, <1>2, <1>4, <1>6, <1>7, <1>8, Going

\* A list comes to its closing parenthesis.
LEMMA ListCloseKeeps == ASSUME IInv, ListClose PROVE IInv'
<1> USE DEF ListClose
<1>1. /\ calls # <<>> /\ value = NoValue /\ Top.at = "list" /\ IsText(text) /\ IsCall(Top)
      /\ Depth(calls) = Depth(Front(calls)) + 1 /\ Depth(Front(calls)) \in Nat
      /\ Placed(text, stream, Top) /\ (errors = {} => Doing(text, stream, Top, Depth(calls)))
  BY Inside
<1> DEFINE v == sexp_new_source_list(Top.items)
           d == Depth(Front(calls))
           i == Here(text, stream)
<1>2. /\ Left(text, stream) /\ stream # <<>> /\ Head(stream) = ")" /\ stream' = Tail(stream)
      /\ Return(v) /\ Quiet
  BY <1>1 DEF At, readc, Placed
<1>3. v # NoValue /\ v # sexp_null
  BY NotNull DEF sexp_new_source_atom, sexp_new_source_list
<1>4. i \in 1 .. Len(text) /\ text[i] = ")" /\ Left(text, stream') /\ Here(text, stream') = i + 1
  BY <1>1, <1>2, Next1
<1> HIDE DEF v, i
<1>5. ASSUME errors = {} PROVE Decides(text, i + 1, d, FALSE)
  <2>1. Decides(text, i, d + 1, FALSE)
    BY <1>1, <1>5 DEF Doing, i
  <2>2. d + 1 \in Nat /\ d + 1 > 0 /\ (d + 1) - 1 = d
    BY <1>1
  <2>3. Decides(text, i + 1, (d + 1) - 1, FALSE)
    BY <1>1, <1>4, <2>1, <2>2, DecidesClose
  <2> QED
    BY <2>2, <2>3
<1> QED
  BY <1>1, <1>2, <1>3, <1>4, <1>5, Returning DEF i

\* A comment passes a char of its line.
LEMMA CommentSkipKeeps == ASSUME IInv, CommentSkip PROVE IInv'
<1> USE DEF CommentSkip
<1>1. /\ calls # <<>> /\ value = NoValue /\ Top.at = "comment" /\ IsText(text) /\ IsCall(Top)
      /\ Depth(calls) = Depth(Front(calls)) /\ Depth(Front(calls)) \in Nat
      /\ Placed(text, stream, Top) /\ (errors = {} => Doing(text, stream, Top, Depth(calls)))
  BY Inside
<1> DEFINE p == Here(text, stream)
<1>2. /\ Left(text, stream) /\ stream # <<>> /\ Head(stream) \notin {"\n"} /\ stream' = Tail(stream)
      /\ UNCHANGED <<calls, value>> /\ Quiet
  BY <1>1 DEF AtOther, readc, Placed
<1>3. p \in 1 .. Len(text) /\ text[p] \notin {"\n"} /\ Left(text, stream') /\ Here(text, stream') = p + 1
  BY <1>1, <1>2, Next1
<1>4. Placed(text, stream', Top)
  BY <1>1, <1>3 DEF Placed
<1>5. FirstFrom(text, p, {"\n"}) = FirstFrom(text, Here(text, stream'), {"\n"})
  <2> HIDE DEF p
  <2> QED
    BY <1>3, FirstFromSteps, Len(text) \in Nat
<1>6. errors = {} => Doing(text, stream', Top, Depth(calls))
  BY <1>1, <1>5 DEF Doing, Numerals
<1> QED
  BY <1>1, <1>2, <1>4, <1>6, Staying

\* A comment ends, and reads goes on in its place.
LEMMA CommentEndKeeps == ASSUME IInv, CommentEnd PROVE IInv'
<1> USE DEF CommentEnd
<1>1. /\ calls # <<>> /\ value = NoValue /\ Top.at = "comment" /\ IsText(text) /\ IsCall(Top)
      /\ Depth(calls) = Depth(Front(calls)) /\ Depth(Front(calls)) \in Nat
      /\ Placed(text, stream, Top) /\ (errors = {} => Doing(text, stream, Top, Depth(calls)))
  BY Inside
<1> DEFINE c == Reads(TRUE)
           p == Here(text, stream)
           d == Depth(Front(calls))
<1>2. /\ Left(text, stream) /\ (stream = <<>> \/ (stream # <<>> /\ Head(stream) = "\n"))
      /\ (stream = <<>> => stream' = stream) /\ (stream # <<>> => stream' = Tail(stream))
      /\ Go(c) /\ Quiet
  BY <1>1 DEF At, AtEOF, Placed, Become
<1>3. IsCall(c) /\ c.at = "reads" /\ c.macros
  BY NewReads
<1> HIDE DEF c
<1>4. /\ stream = <<>> => Left(text, stream') /\ Here(text, stream') = Len(text) + 1 /\ p = Len(text) + 1
      /\ stream # <<>> => /\ p \in 1 .. Len(text) /\ text[p] = "\n"
                          /\ Left(text, stream') /\ Here(text, stream') = p + 1
  BY <1>1, <1>2, Next1
<1>5. Placed(text, stream', c) /\ Lists(c) = 0
  BY <1>3, <1>4 DEF Placed, Lists, IsList
<1>6. ASSUME errors = {} PROVE Decides(text, Here(text, stream'), d, TRUE)
  <2>1. Decides(text, FirstFrom(text, p, {"\n"}), d, TRUE)
    BY <1>1, <1>6 DEF Doing
  <2>2. Len(text) \in Nat
    BY <1>1 DEF IsText
  <2> HIDE DEF p, d
  <2>3. CASE stream = <<>>
    <3>1. FirstFrom(text, p, {"\n"}) = Len(text) + 1
      BY <1>4, <2>2, <2>3, FirstFromEnd
    <3> QED
      BY <1>4, <2>1, <2>3, <3>1
  <2>4. CASE stream # <<>>
    <3>1. FirstFrom(text, p, {"\n"}) = p
      BY <1>4, <2>2, <2>4, FirstFromSteps
    <3>2. text[p] \in Blank /\ d \in Nat /\ TRUE \in BOOLEAN
      BY <1>1, <1>4, <2>4 DEF Blank, d
    <3>3. Decides(text, p + 1, d, TRUE)
      BY <1>1, <1>4, <2>1, <2>4, <3>1, <3>2, DecidesBlank
    <3> QED
      BY <1>4, <2>4, <3>3
  <2> QED
    BY <2>3, <2>4
<1>7. d + Lists(c) = d
  BY <1>1, <1>5
<1>8. errors = {} => Doing(text, stream', c, d + Lists(c))
  BY <1>3, <1>6, <1>7 DEF Doing, Numerals
<1> QED
  BY <1>1, <1>2, <1>3, <1>5, <1>8, Going

\* A call that goes on elsewhere is a call.
LEMMA ChangedAt ==
  ASSUME NEW c, IsCall(c), c.macros, NEW at \in Places
  PROVE  IsCall([c EXCEPT !.at = at]) /\ [c EXCEPT !.at = at].at = at
<1> DEFINE d == [c EXCEPT !.at = at]
<1>1. d = [at |-> at, macros |-> c.macros, entry_c |-> c.entry_c, buf |-> c.buf, items |-> c.items]
  <2>1. c = [at |-> c.at, macros |-> c.macros, entry_c |-> c.entry_c, buf |-> c.buf, items |-> c.items]
    BY DEF IsCall
  <2> QED
    BY ONLY <2>1
<1> HIDE DEF d
<1>2. /\ d.at = at /\ d.macros = c.macros /\ d.buf = c.buf
      /\ d = [at |-> d.at, macros |-> d.macros, entry_c |-> d.entry_c, buf |-> d.buf, items |-> d.items]
  BY <1>1
<1>3. IsCall(d)
  BY <1>2 DEF IsCall
<1> QED
  BY <1>2, <1>3, Zenon DEF d

\* A quote calls reads for what is quoted.
LEMMA QuoteKeeps == ASSUME IInv, Quote PROVE IInv'
<1> USE DEF Quote
<1>1. /\ calls # <<>> /\ value = NoValue /\ Top.at = "quote" /\ IsText(text) /\ IsCall(Top)
      /\ Depth(calls) = Depth(Front(calls)) /\ Depth(Front(calls)) \in Nat
      /\ Placed(text, stream, Top) /\ (errors = {} => Doing(text, stream, Top, Depth(calls)))
  BY Inside
<1> DEFINE b == [Top EXCEPT !.at = "quoted"]
           c == Reads(TRUE)
           f == Append(Front(calls), b)
<1>2. /\ Left(text, stream) /\ stream' = stream /\ value' = value /\ text' = text /\ calls' = Append(f, c)
      /\ errors' = errors /\ error_flags' = error_flags /\ ended' = ended
  BY <1>1 DEF Placed, Quiet, NoError, aux
<1>3. IsCall(b) /\ b.at = "quoted"
  <2>1. "quoted" \in Places /\ Top.macros
    BY <1>1 DEF Places, IsCall
  <2> QED
    BY <1>1, <2>1, ChangedAt
<1>4. IsCall(c) /\ c.at = "reads" /\ c.macros
  BY NewReads
<1> HIDE DEF b, c
<1>5. IsStack(Front(calls))
  BY <1>1, Popped DEF IInv, Typed
<1>6. IsStack(f) /\ Depth(f) = Depth(Front(calls)) + Lists(b)
  BY <1>3, <1>5, Pushed
<1> HIDE DEF f
<1>7. IsStack(calls') /\ calls' # <<>> /\ Last(calls') = c /\ Depth(calls') = Depth(f) + Lists(c)
  BY <1>2, <1>4, <1>6, Pushed
<1>8. Depth(calls') = Depth(calls) /\ Top' = c
  <2>1. Lists(b) = 0 /\ Lists(c) = 0
    BY <1>3, <1>4 DEF Lists, IsList
  <2>2. Depth(calls') = Depth(Front(calls))
    <3>1. Depth(f) = Depth(Front(calls)) + 0 /\ Depth(calls') = Depth(f) + 0
      BY <1>6, <1>7, <2>1, Zenon
    <3>2. Depth(Front(calls)) \in Nat
      BY <1>1
    <3> HIDE DEF Quote
    <3>3. Depth(f) = Depth(Front(calls))
      BY <3>1, <3>2
    <3> QED
      BY <3>1, <3>2, <3>3
  <2>3. Depth(calls') = Depth(calls)
    BY <1>1, <2>2
  <2>4. Top' = c
    BY <1>7 DEF Top
  <2> QED
    BY <2>3, <2>4
<1>9. Placed(text, stream, c)
  BY <1>2, <1>4 DEF Placed
<1>10. Typed'
  BY <1>2, <1>7, <1>8, <1>9 DEF IInv, Typed
<1>11. ASSUME errors = {} PROVE Doing(text, stream, c, Depth(calls))
  BY <1>1, <1>4, <1>11 DEF Doing, Numerals
<1>12. Promised'
  BY <1>1, <1>2, <1>7, <1>8, <1>11 DEF Promised, NoValue
<1>13. Known'
  BY <1>2 DEF IInv, Known
<1> QED
  BY <1>10, <1>12, <1>13 DEF IInv

\* What holds after the return of a call.
LEMMA Outside ==
  ASSUME IInv, NEW at, Returned(at)
  PROVE  /\ calls # <<>> /\ value # NoValue /\ Top.at = at
         /\ IsText(text) /\ IsStack(Front(calls)) /\ IsCall(Top)
         /\ Depth(Front(calls)) \in Nat
         /\ Depth(calls) = Depth(Front(calls)) + IF at \in {"list", "list_atom"} THEN 1 ELSE 0
         /\ Left(text, stream)
         /\ errors = {} => Decides(text, Here(text, stream), Depth(calls), FALSE)
<1>1. calls # <<>> /\ value # NoValue /\ Top.at = at
  BY DEF Returned
<1>2. /\ IsStack(calls) /\ text \in Texts /\ Left(text, stream)
      /\ errors = {} => Decides(text, Here(text, stream), Depth(calls), FALSE)
  BY <1>1 DEF IInv, Typed, Promised
<1>3. /\ IsStack(Front(calls)) /\ IsCall(Last(calls)) /\ Depth(Front(calls)) \in Nat
      /\ Depth(calls) = Depth(Front(calls)) + Lists(Last(calls))
  BY <1>1, <1>2, Popped
<1>4. Lists(Last(calls)) = IF at \in {"list", "list_atom"} THEN 1 ELSE 0
  BY <1>1 DEF Top, Lists, IsList
<1> QED
  BY <1>1, <1>2, <1>3, <1>4, TextsAre DEF Top

\* A quote returns the list of p-quote and its sexp.
LEMMA QuoteReturnKeeps == ASSUME IInv, QuoteReturn PROVE IInv'
<1> USE DEF QuoteReturn
<1>0. Returned("quoted")
  OBVIOUS
<1>1. /\ calls # <<>> /\ Left(text, stream) /\ Depth(calls) = Depth(Front(calls))
      /\ (errors = {} => Decides(text, Here(text, stream), Depth(calls), FALSE))
  <2>1. /\ calls # <<>> /\ Left(text, stream) /\ Depth(Front(calls)) \in Nat
        /\ Depth(calls) = Depth(Front(calls)) + IF "quoted" \in {"list", "list_atom"} THEN 1 ELSE 0
        /\ errors = {} => Decides(text, Here(text, stream), Depth(calls), FALSE)
    BY <1>0, Outside
  <2>2. Depth(calls) = Depth(Front(calls))
    <3>1. "quoted" \notin {"list", "list_atom"}
      OBVIOUS
    <3> QED
      BY <2>1, <3>1
  <2> QED
    BY <2>1, <2>2
<1> DEFINE v == sexp_new_source_list(<<p_quote, value>>)
<1>2. Return(v) /\ stream' = stream /\ Quiet
  OBVIOUS
<1>3. v # NoValue /\ v # sexp_null
  BY NotNull DEF sexp_new_source_atom, sexp_new_source_list
<1> HIDE DEF v
<1> QED
  BY <1>1, <1>2, <1>3, Returning

\* A list takes the sexp that a call returned.
LEMMA ListAppendKeeps == ASSUME IInv, ListAppend PROVE IInv'
<1> USE DEF ListAppend
<1>1. /\ calls # <<>> /\ Left(text, stream) /\ Depth(calls) = Depth(Front(calls)) + 1
      /\ IsStack(Front(calls)) /\ IsCall(Top) /\ Top.at = "list"
      /\ (errors = {} => Decides(text, Here(text, stream), Depth(calls), FALSE))
  BY Outside
<1> DEFINE c == [Top EXCEPT !.items = Append(Top.items, value)]
<1>2. /\ stream' = stream /\ value' = NoValue /\ text' = text /\ calls' = Append(Front(calls), c)
      /\ errors' = errors /\ error_flags' = error_flags /\ ended' = ended
  BY DEF Quiet, NoError, aux
<1>3. IsCall(c) /\ c.at = "list"
  BY <1>1, ChangedItems
<1> HIDE DEF c
<1>4. IsStack(calls') /\ calls' # <<>> /\ Last(calls') = c /\ Depth(calls') = Depth(Front(calls)) + Lists(c)
  BY <1>1, <1>2, <1>3, Pushed
<1>5. Depth(calls') = Depth(calls) /\ Top' = c
  BY <1>1, <1>3, <1>4 DEF Lists, IsList, Top
<1>6. Placed(text, stream, c)
  BY <1>1, <1>3 DEF Placed
<1>7. Typed'
  BY <1>2, <1>4, <1>5, <1>6 DEF IInv, Typed
<1>8. ASSUME errors = {} PROVE Doing(text, stream, c, Depth(calls))
  BY <1>1, <1>3, <1>8 DEF Doing, Numerals
<1>9. Promised'
  BY <1>2, <1>4, <1>5, <1>8 DEF Promised, NoValue
<1>10. Known'
  BY <1>2 DEF IInv, Known
<1> QED
  BY <1>7, <1>9, <1>10 DEF IInv

\* The caller asks for the next sexp.
LEMMA CallReadsKeeps == ASSUME IInv, CallReads PROVE IInv'
<1> USE DEF CallReads
<1> DEFINE c == Reads(TRUE)
           i == Here(text, stream)
<1>1. calls = <<>> /\ value = NoValue /\ calls' = <<c>> /\ value' = value /\ stream' = stream /\ Quiet
  OBVIOUS
<1>2. IsCall(c) /\ c.at = "reads" /\ c.macros
  BY NewReads
<1> HIDE DEF c
<1>3. Enter(c)
  <2>1. Append(calls, c) = <<c>>
    BY ONLY calls = <<>>, <1>1
  <2> QED
    BY <1>1, <2>1 DEF Enter
<1>4. IsText(text) /\ Left(text, stream) /\ (errors = {} => Decides(text, i, Depth(calls), FALSE))
  BY <1>1, TextsAre DEF IInv, Typed, Promised
<1>5. Placed(text, stream', c) /\ Lists(c) = 0
  BY <1>1, <1>2, <1>4 DEF Placed, Lists, IsList
<1>6. Depth(calls) = 0 /\ Depth(calls) + Lists(c) = 0
  BY <1>1, <1>5, NoCalls
<1>7. i \in 1 .. Len(text) + 1 /\ Len(text) \in Nat
  BY <1>4, Next1
<1> HIDE DEF i
<1>8. LexFrom(text)[i] \in Seq(TokensOf(text))
  BY <1>7, LexUnfolds
<1>9. Completes(LexFrom(text)[i], 0, TRUE) <=> Completes(LexFrom(text)[i], 0, FALSE)
  BY <1>8, CompletesBottom
<1>10. errors = {} => Decides(text, i, 0, TRUE)
  BY <1>4, <1>6, <1>9 DEF Decides
<1>11. errors = {} => Doing(text, stream', c, Depth(calls) + Lists(c))
  BY <1>1, <1>2, <1>6, <1>10 DEF Doing, Numerals, i
<1> QED
  BY <1>1, <1>2, <1>3, <1>5, <1>11, Entering

\* The caller gets it; a null one is the end.
LEMMA TakeSexpKeeps == ASSUME IInv, TakeSexp PROVE IInv'
<1> USE DEF TakeSexp
<1>1. /\ calls = <<>> /\ calls' = calls /\ value # NoValue /\ value' = NoValue /\ stream' = stream
      /\ text' = text /\ errors' = errors /\ error_flags' = error_flags /\ ended' = (value = sexp_null)
  BY DEF NoError
<1>2. /\ IsText(text) /\ Left(text, stream)
      /\ errors = {} => /\ Decides(text, Here(text, stream), Depth(calls), FALSE)
                        /\ value = sexp_null => stream = <<>>
  BY <1>1, TextsAre DEF IInv, Typed, Promised
<1>3. Typed'
  BY <1>1, <1>2 DEF IInv, Typed
<1>4. Promised'
  <2>1. value' # sexp_null'
    BY <1>1, NullIsAValue DEF sexp_null
  <2> QED
    BY <1>1, <1>2, <2>1 DEF Promised
<1>5. ASSUME errors = {}, value = sexp_null PROVE WellFormed(text)
  <2>1. Decides(text, Len(text) + 1, 0, FALSE)
    <3>1. Here(text, stream) = Len(text) + 1
      BY <1>2, <1>5, Next1
    <3> QED
      BY <1>1, <1>2, <1>5, <3>1, NoCalls
  <2> QED
    BY <1>2, <2>1, DecidesEnd
<1>6. Known'
  BY <1>1, <1>5 DEF IInv, Known
<1> QED
  BY <1>3, <1>4, <1>6 DEF IInv

\* The invariant holds at first.
LEMMA InitIInv == ASSUME Init PROVE IInv
<1> USE DEF Init
<1>1. IsText(text) /\ text \in Seq(STRING) /\ Len(text) \in Nat
  BY TextsAre DEF IsText
<1>2. Left(text, stream) /\ Here(text, stream) = 1
  BY <1>1, LeftAtFirst
<1>3. IsStack(calls) /\ Depth(calls) = 0
  BY NoCalls
<1>4. Typed
  BY <1>2, <1>3 DEF Typed
<1>5. Promised
  <2>1. Decides(text, 1, 0, FALSE)
    BY <1>1, WellFormedCompletes DEF Decides
  <2> QED
    BY <1>2, <1>3, <2>1, NullIsAValue DEF Promised
<1>6. Known
  BY DEF Known
<1> QED
  BY <1>4, <1>5, <1>6 DEF IInv

\* A step that changes nothing keeps it.
LEMMA IdleKeeps == ASSUME IInv, UNCHANGED vars PROVE IInv'
<1>1. /\ text' = text /\ stream' = stream /\ calls' = calls /\ value' = value
      /\ error_flags' = error_flags /\ errors' = errors /\ ended' = ended
  BY DEF vars
<1>2. Typed'
  BY <1>1 DEF IInv, Typed, Top
<1>3. Promised'
  BY <1>1 DEF IInv, Promised, Top, NoValue, sexp_null
<1>4. Known'
  BY <1>1 DEF IInv, Known
<1> QED
  BY <1>2, <1>3, <1>4 DEF IInv

\* A stream with one char before it.
LEMMA OneMore ==
  ASSUME NEW S, NEW c \in S, NEW u \in Seq(S)
  PROVE  /\ <<c>> \o u # <<>> /\ Head(<<c>> \o u) = c
         /\ Tail(<<c>> \o u) = u /\ Len(<<c>> \o u) = Len(u) + 1
<1> DEFINE s == <<c>> \o u
<1>1. Len(u) \in Nat /\ <<c>> \in Seq(S) /\ Len(<<c>>) = 1 /\ <<c>>[1] = c
  OBVIOUS
<1>2. /\ s \in Seq(S) /\ Len(s) = Len(<<c>>) + Len(u)
      /\ \A i \in 1 .. Len(<<c>>) + Len(u) :
           s[i] = IF i <= Len(<<c>>) THEN <<c>>[i] ELSE u[i - Len(<<c>>)]
  BY <1>1, ConcatProperties
<1> HIDE DEF s
<1>3. Len(s) = Len(u) + 1 /\ s[1] = c /\ \A i \in 1 .. Len(u) : s[i + 1] = u[i]
  <2>1. Len(s) = Len(u) + 1 /\ s[1] = c
    BY <1>1, <1>2
  <2>2. ASSUME NEW i \in 1 .. Len(u) PROVE s[i + 1] = u[i]
    <3>1. i + 1 \in 1 .. Len(<<c>>) + Len(u) /\ ~(i + 1 <= Len(<<c>>)) /\ (i + 1) - Len(<<c>>) = i
      BY <1>1
    <3> QED
      BY <1>2, <3>1
  <2> QED
    BY <2>1, <2>2
<1>4. s # <<>> /\ Head(s) = s[1]
  BY <1>1, <1>2, <1>3
<1> DEFINE v == Tail(s)
<1>5. v \in Seq(S) /\ Len(v) = Len(s) - 1 /\ \A i \in 1 .. Len(v) : v[i] = s[i + 1]
  BY <1>2, <1>4, HeadTailProperties
<1> HIDE DEF v
<1>6. Len(v) = Len(u) /\ \A i \in 1 .. Len(v) : v[i] = u[i]
  BY <1>1, <1>3, <1>5
<1>7. v = u
  BY <1>5, <1>6, SeqEqual
<1> QED
  BY <1>3, <1>4, <1>7 DEF s, v

\* A quote that has been unread is the next char.
LEMMA UnreadIs ==
  ASSUME NEW t, IsText(t), NEW h \in 1 .. Len(t), NEW s, s = <<"quotes">> \o SubSeq(t, h + 1, Len(t))
  PROVE  /\ s # <<>> /\ Head(s) = "quotes" /\ Tail(s) = SubSeq(t, h + 1, Len(t)) /\ Len(s) = Len(t) - h + 1
         /\ Left(t, Tail(s)) /\ Here(t, Tail(s)) = h + 1
<1> DEFINE u == SubSeq(t, h + 1, Len(t))
<1>1. t \in Seq(STRING) /\ Len(t) \in Nat
  BY DEF IsText
<1>2. h + 1 \in 1 .. Len(t) + 1 /\ Len(t) \in (h + 1) - 1 .. Len(t)
  BY <1>1
<1>3. u \in Seq(STRING) /\ Len(u) = Len(t) - (h + 1) + 1
  BY <1>1, <1>2, PartOfSeq
<1>4. Left(t, u) /\ Here(t, u) = h + 1
  BY <1>1, <1>2, LeftMade
<1> DEFINE c == "quotes"
           v == <<c>> \o u
<1>5. s = v
  OBVIOUS
<1> HIDE DEF u, c
<1>6. v # <<>> /\ Head(v) = c /\ Tail(v) = u /\ Len(v) = Len(u) + 1
  <2>1. u \in Seq(STRING \cup {c}) /\ c \in STRING \cup {c}
    BY <1>3, SeqMonotonic
  <2> QED
    BY <2>1, OneMore
<1> HIDE DEF v
<1>7. Len(u) + 1 = Len(t) - h + 1
  BY <1>1, <1>3
<1> QED
  BY <1>4, <1>5, <1>6, <1>7, Zenon DEF u, c

\* What holds in a string whose end has not been read or unread yet.
LEMMA InsideString ==
  ASSUME IInv, In("string"), stream # <<>> => Head(stream) # "quotes"
  PROVE  /\ Left(text, stream)
         /\ errors = {} => \E q \in 1 .. Len(text) :
              /\ text[q] = "quotes" /\ Decides(text, q, Depth(calls), FALSE)
              /\ Open(text, q, Here(text, stream))
<1>1. /\ IsText(text) /\ Top.at = "string" /\ Placed(text, stream, Top)
      /\ (errors = {} => Doing(text, stream, Top, Depth(calls)))
  BY Inside
<1>2. ~Unread(text, stream)
  BY <1>1, UnreadIs DEF Unread
<1>3. Left(text, stream)
  BY <1>1, <1>2 DEF Placed
<1>4. ASSUME errors = {}
      PROVE  \E q \in 1 .. Len(text) :
               /\ text[q] = "quotes" /\ Decides(text, q, Depth(calls), FALSE)
               /\ Open(text, q, Here(text, stream))
  <2>1. PICK q \in 1 .. Len(text) : Decides(text, q, Depth(calls), FALSE) /\ InString(text, stream, q)
    BY <1>1, <1>4 DEF Doing
  <2>2. ~(Closing(text, q) <= Len(text) /\ stream = <<"quotes">> \o SubSeq(text, Closing(text, q) + 1, Len(text)))
    <3> DEFINE h == Closing(text, q)
    <3>1. Len(text) \in Nat /\ (h <= Len(text) => h \in 1 .. Len(text))
      <4>1. Len(text) \in Nat
        BY <1>1 DEF IsText
      <4>2. h \in q + 1 .. Len(text) + 1
        BY <4>1, ClosingIs
      <4> HIDE DEF h
      <4> QED
        BY <4>1, <4>2
    <3> HIDE DEF h
    <3>2. ~(h <= Len(text) /\ stream = <<"quotes">> \o SubSeq(text, h + 1, Len(text)))
      BY <1>2, <3>1 DEF Unread
    <3> QED
      BY <3>2 DEF h
  <2>3. text[q] = "quotes" /\ Open(text, q, Here(text, stream))
    BY <2>1, <2>2 DEF InString
  <2> QED
    BY <2>1, <2>3
<1> QED
  BY <1>3, <1>4

\* The reading of a string goes on.
LEMMA StringStep ==
  ASSUME IInv, In("string"), NEW buf, IsBuffer(buf), Continue("string", buf), Quiet,
         Left(text, stream') \/ Unread(text, stream'),
         errors = {} => \E q \in 1 .. Len(text) : Decides(text, q, Depth(calls), FALSE) /\ InString(text, stream', q)
  PROVE  IInv'
<1> DEFINE c == Changed(Top, "string", buf)
<1>1. /\ calls # <<>> /\ value = NoValue /\ Top.at = "string" /\ IsCall(Top)
      /\ Depth(calls) = Depth(Front(calls)) /\ Depth(Front(calls)) \in Nat
      /\ Placed(text, stream, Top)
  BY Inside
<1>2. Go(c)
  BY DEF Continue
<1>3. IsCall(c) /\ c.at = "string" /\ c.entry_c = "quotes"
  <2>1. "string" \in Places /\ Top.macros /\ Top.entry_c = "quotes"
    BY <1>1 DEF Places, IsCall, Placed
  <2> QED
    BY <1>1, <2>1, ChangedCall
<1> HIDE DEF c
<1>4. Placed(text, stream', c) /\ Lists(c) = 0
  BY <1>3 DEF Placed, Lists, IsList
<1>5. Depth(Front(calls)) + Lists(c) = Depth(calls)
  BY <1>1, <1>4
<1>6. errors = {} => Doing(text, stream', c, Depth(calls))
  BY <1>3 DEF Doing, Numerals
<1> QED
  BY <1>1, <1>2, <1>3, <1>4, <1>5, <1>6, Going

\* The buffer of the innermost call with another char.
LEMMA TopAppended ==
  ASSUME NEW b, IsCall(b), NEW x
  PROVE  IsBuffer(buffer_append_char(b.buf, x))
BY AppendedChar DEF IsCall

\* A string takes a char.
LEMMA StringCharKeeps == ASSUME IInv, StringChar PROVE IInv'
<1> USE DEF StringChar
<1> DEFINE p == Here(text, stream)
<1>1. /\ In("string") /\ stream # <<>> /\ Head(stream) \notin {"quotes", "\\"} /\ stream' = Tail(stream)
      /\ Continue("string", buffer_append_char(Top.buf, Head(stream))) /\ Quiet
  BY DEF AtOther, Take, readc
<1>2. IsText(text) /\ IsCall(Top) /\ Len(text) \in Nat
  BY <1>1, Inside DEF IsText
<1>3. /\ Left(text, stream)
      /\ errors = {} => \E q \in 1 .. Len(text) :
              text[q] = "quotes" /\ Decides(text, q, Depth(calls), FALSE) /\ Open(text, q, p)
  BY <1>1, InsideString
<1>4. p \in 1 .. Len(text) /\ text[p] = Head(stream) /\ Left(text, stream') /\ Here(text, stream') = p + 1
  BY <1>1, <1>2, <1>3, Next1
<1> HIDE DEF p
<1>5. ASSUME errors = {}
      PROVE  \E q \in 1 .. Len(text) : Decides(text, q, Depth(calls), FALSE) /\ InString(text, stream', q)
  <2>1. PICK q \in 1 .. Len(text) : text[q] = "quotes" /\ Decides(text, q, Depth(calls), FALSE) /\ Open(text, q, p)
    BY <1>3, <1>5
  <2>2. p <= Len(text) /\ text[p] \notin {"quotes", "\\"}
    BY <1>1, <1>2, <1>4
  <2>3. Open(text, q, p + 1)
    BY <1>2, <2>1, <2>2, StringGoesOn
  <2> QED
    BY <1>4, <2>1, <2>3 DEF InString
<1> DEFINE b == buffer_append_char(Top.buf, Head(stream))
<1>6. IsBuffer(b)
  BY <1>2, TopAppended
<1> HIDE DEF b
<1>7. Continue("string", b) /\ Quiet
  BY <1>1 DEF b
<1> QED
  BY <1>1, <1>4, <1>5, <1>6, <1>7, StringStep

\* A string ends at its quote.
LEMMA StringEndKeeps == ASSUME IInv, StringEnd PROVE IInv'
<1> USE DEF StringEnd
<1> DEFINE v == sexp_new_source_atom("str", String(buffer_to_cstr_move(Top.buf)))
<1>1. /\ In("string") /\ stream # <<>> /\ Head(stream) = "quotes" /\ stream' = Tail(stream)
      /\ Return(v) /\ Quiet
  BY DEF At, readc
<1>2. /\ calls # <<>> /\ value = NoValue /\ Top.at = "string" /\ IsText(text)
      /\ Depth(calls) = Depth(Front(calls)) /\ Depth(Front(calls)) \in Nat
      /\ Placed(text, stream, Top) /\ (errors = {} => Doing(text, stream, Top, Depth(calls)))
  BY <1>1, Inside
<1>3. v # NoValue /\ v # sexp_null
  BY NotNull
<1> HIDE DEF v
<1>4. Left(text, stream')
  <2>1. CASE Left(text, stream)
    BY <1>1, <1>2, <2>1, Next1
  <2>2. CASE Unread(text, stream)
    BY <1>1, <1>2, <2>2, UnreadIs DEF Unread
  <2> QED
    BY <1>2, <2>1, <2>2 DEF Placed
<1>5. ASSUME errors = {} PROVE Decides(text, Here(text, stream'), Depth(calls), FALSE)
  <2>1. PICK q \in 1 .. Len(text) : Decides(text, q, Depth(calls), FALSE) /\ InString(text, stream, q)
    BY <1>2, <1>5 DEF Doing
  <2> DEFINE e == Closing(text, q)
  <2>2. Len(text) \in Nat /\ text[q] = "quotes" /\ FALSE \in BOOLEAN /\ Depth(calls) \in Nat
    BY <1>2, <2>1 DEF InString, IsText
  <2>3. e \in q + 1 .. Len(text) + 1
    BY <2>2, ClosingIs
  <2>4. e <= Len(text) /\ Here(text, stream') = e + 1
    <3>1. CASE Left(text, stream) /\ Open(text, q, Here(text, stream))
      <4>1. Here(text, stream) \in 1 .. Len(text) /\ text[Here(text, stream)] = "quotes"
            /\ Here(text, stream') = Here(text, stream) + 1
        BY <1>1, <1>2, <3>1, Next1
      <4>2. e = Here(text, stream)
        BY <2>2, <3>1, <4>1, StringCloses
      <4> QED
        BY <4>1, <4>2
    <3>2. CASE e <= Len(text) /\ stream = <<"quotes">> \o SubSeq(text, e + 1, Len(text))
      <4> HIDE DEF e
      <4>1. e \in 1 .. Len(text)
        BY <2>2, <2>3, <3>2
      <4> QED
        BY <1>1, <1>2, <3>2, <4>1, UnreadIs
    <3> QED
      BY <2>1, <3>1, <3>2 DEF InString
  <2>5. e <= Len(text) => Decides(text, e + 1, Depth(calls), FALSE)
    BY <1>2, <2>1, <2>2, DecidesString
  <2> QED
    BY <2>4, <2>5
<1> QED
  BY <1>1, <1>2, <1>3, <1>4, <1>5, Returning

\* A string comes to the end of the stream.
LEMMA StringUnterminatedKeeps == ASSUME IInv, StringUnterminated PROVE IInv'
<1> USE DEF StringUnterminated
<1>1. /\ In("string") /\ stream = <<>> /\ stream' = stream
      /\ Return(sexp_null) /\ Report("OTHER") /\ "OTHER" \in Flags
  BY DEF AtEOF, Flags
<1>2. IsText(text) /\ calls # <<>> /\ Len(text) \in Nat
      /\ Depth(calls) = Depth(Front(calls)) /\ Depth(Front(calls)) \in Nat
  BY <1>1, Inside DEF IsText
<1>3. /\ Left(text, stream)
      /\ errors = {} => \E q \in 1 .. Len(text) :
              text[q] = "quotes" /\ Decides(text, q, Depth(calls), FALSE) /\ Open(text, q, Here(text, stream))
  BY <1>1, InsideString
<1>4. Here(text, stream) = Len(text) + 1
  BY <1>1, <1>2, <1>3, Next1
<1>5. ASSUME errors = {} PROVE ~WellFormed(text)
  <2>1. PICK q \in 1 .. Len(text) :
          text[q] = "quotes" /\ Decides(text, q, Depth(calls), FALSE) /\ Open(text, q, Len(text) + 1)
    BY <1>3, <1>4, <1>5
  <2>2. Closing(text, q) = Len(text) + 1
    BY <1>2, <2>1, StringNever
  <2>3. Closing(text, q) > Len(text) /\ Depth(calls) \in Nat /\ FALSE \in BOOLEAN
    BY <1>2, <2>2
  <2> QED
    BY <1>2, <2>1, <2>3, DecidesString
<1> QED
  BY <1>1, <1>2, <1>3, <1>5, Reporting

\* What holds in a string at a backslash.
LEMMA AtBackslash ==
  ASSUME IInv, In("string"), At({"\\"})
  PROVE  /\ IsText(text) /\ text \in Seq(STRING) /\ Len(text) \in Nat /\ IsCall(Top) /\ calls # <<>> /\ value = NoValue
         /\ Depth(calls) \in Nat
         /\ stream \in Seq(STRING) /\ Len(stream) \in Nat \ {0} /\ Left(text, stream)
         /\ Here(text, stream) \in 1 .. Len(text) /\ text[Here(text, stream)] = "\\"
         /\ Len(stream) = Len(text) - Here(text, stream) + 1
         /\ \A i \in 1 .. Len(stream) : stream[i] = text[Here(text, stream) + i - 1]
         /\ errors = {} => \E q \in 1 .. Len(text) :
              /\ text[q] = "quotes" /\ Decides(text, q, Depth(calls), FALSE)
              /\ Open(text, q, Here(text, stream))
<1> DEFINE p == Here(text, stream)
<1>1. stream # <<>> /\ Head(stream) = "\\"
  BY DEF At
<1>2. /\ calls # <<>> /\ value = NoValue /\ IsText(text) /\ IsCall(Top) /\ Depth(calls) = Depth(Front(calls))
      /\ Depth(Front(calls)) \in Nat
  BY Inside
<1>3. text \in Seq(STRING) /\ Len(text) \in Nat
  BY <1>2 DEF IsText
<1>4. /\ Left(text, stream)
      /\ errors = {} => \E q \in 1 .. Len(text) :
              text[q] = "quotes" /\ Decides(text, q, Depth(calls), FALSE) /\ Open(text, q, p)
  BY <1>1, InsideString
<1>5. p \in 1 .. Len(text) /\ text[p] = "\\"
  BY <1>1, <1>2, <1>4, Next1
<1>6. /\ stream \in Seq(STRING) /\ Len(stream) \in Nat /\ Len(stream) = Len(text) - p + 1
      /\ \A i \in 1 .. Len(stream) : stream[i] = text[p + i - 1]
  BY <1>3, <1>4, LeftIs
<1>7. Len(stream) # 0
  BY <1>1, <1>6
<1> QED
  BY <1>2, <1>3, <1>4, <1>5, <1>6, <1>7

\* The n-th char, if it is one of S.
LEMMA TheChar ==
  ASSUME stream \in Seq(STRING), NEW n \in Nat \ {0}, NEW S
  PROVE  /\ CharAt(n) \cap S # {} => n <= Len(stream) /\ stream[n] \in S
         /\ CharAt(n) \cap S = {} => (n <= Len(stream) => stream[n] \notin S)
<1>1. DOMAIN stream = 1 .. Len(stream) /\ Len(stream) \in Nat
  OBVIOUS
<1>2. n <= Len(stream) <=> n \in {n} \cap DOMAIN stream
  BY <1>1
<1> QED
  BY <1>1, <1>2 DEF CharAt

\* An escape has been read.
LEMMA EscapeStep ==
  ASSUME IInv, In("string"), At({"\\"}), NEW n \in 1 .. Len(stream) + 1, NEW x, EscapeTo(n, x),
         \A q \in 1 .. Len(text) :
           Open(text, q, Here(text, stream)) => Open(text, q, Here(text, stream) + n - 1)
  PROVE  IInv'
<1> DEFINE b == buffer_append_char(Top.buf, x)
           p == Here(text, stream)
<1>1. stream' = SubSeq(stream, n, Len(stream)) /\ Continue("string", b) /\ Quiet
  BY DEF EscapeTo
<1>2. /\ text \in Seq(STRING) /\ IsCall(Top) /\ stream \in Seq(STRING) /\ Left(text, stream)
      /\ errors = {} => \E q \in 1 .. Len(text) :
              text[q] = "quotes" /\ Decides(text, q, Depth(calls), FALSE) /\ Open(text, q, p)
  BY AtBackslash
<1>3. IsBuffer(b)
  BY <1>2, TopAppended
<1>4. Left(text, stream') /\ Here(text, stream') = p + n - 1
  BY <1>1, <1>2, LeftDrop
<1> HIDE DEF b
<1>5. ASSUME errors = {}
      PROVE  \E q \in 1 .. Len(text) : Decides(text, q, Depth(calls), FALSE) /\ InString(text, stream', q)
  <2>1. PICK q \in 1 .. Len(text) : text[q] = "quotes" /\ Decides(text, q, Depth(calls), FALSE) /\ Open(text, q, p)
    BY <1>2, <1>5
  <2>2. Open(text, q, Here(text, stream'))
    BY <1>4, <2>1
  <2> QED
    BY <1>4, <2>1, <2>2 DEF InString
<1> QED
  BY <1>1, <1>3, <1>4, <1>5, StringStep

\* A string takes the char that a simple escape stands for.
LEMMA EscapeSimpleKeeps == ASSUME IInv, EscapeSimple PROVE IInv'
<1> USE DEF EscapeSimple
<1> DEFINE p == Here(text, stream)
<1>1. In("string") /\ At({"\\"}) /\ CharAt(2) \cap SimpleEscape # {} /\ EscapeTo(3, Escaped(stream[2]))
  BY DEF Escape
<1>2. /\ Len(text) \in Nat /\ stream \in Seq(STRING) /\ Len(stream) \in Nat /\ p \in 1 .. Len(text)
      /\ text[p] = "\\" /\ Len(stream) = Len(text) - p + 1
      /\ \A i \in 1 .. Len(stream) : stream[i] = text[p + i - 1]
  BY <1>1, AtBackslash
<1>3. 2 <= Len(stream) /\ stream[2] \in SimpleEscape
  <2>1. 2 \in Nat \ {0} /\ stream \in Seq(STRING)
    BY <1>2
  <2> QED
    BY ONLY <1>1, <2>1, TheChar
<1> HIDE DEF p
<1>4. 3 \in 1 .. Len(stream) + 1 /\ p + 1 <= Len(text) /\ p + 3 - 1 = p + 2
  BY <1>2, <1>3
<1>5. text[p + 1] # "x"
  <2>1. 2 \in 1 .. Len(stream) /\ p + 2 - 1 = p + 1
    BY <1>2, <1>3
  <2>2. "x" \notin SimpleEscape
    BY DEF SimpleEscape, Control
  <2> QED
    BY <1>2, <1>3, <2>1, <2>2
<1>6. \A q \in 1 .. Len(text) : Open(text, q, p) => Open(text, q, p + 3 - 1)
  BY <1>2, <1>4, <1>5, StringEscapes
<1> QED
  BY <1>1, <1>4, <1>6, EscapeStep DEF p

\* A string goes on behind up to three octal digits.
LEMMA OpenAfterOctal ==
  ASSUME NEW t, IsText(t), NEW q, NEW p \in Nat, Open(t, q, p), NEW n \in 1 .. 3,
         p + n <= Len(t), t[p] = "\\", \A i \in 1 .. n : t[p + i] \in Octal
  PROVE  Open(t, q, p + n + 1)
<1>1. Len(t) \in Nat
  BY DEF IsText
<1>2. \A c \in Octal : c \notin {"quotes", "\\"} /\ c # "x"
  BY DEF Octal
<1>3. Open(t, q, p + 2)
  <2>1. 1 \in 1 .. n /\ p + 1 <= Len(t)
    BY <1>1
  <2> QED
    BY <1>1, <1>2, <2>1, StringEscapes
<1>4. n >= 2 => Open(t, q, p + 3)
  <2> SUFFICES ASSUME n >= 2 PROVE Open(t, q, p + 3)
    OBVIOUS
  <2>1. 2 \in 1 .. n /\ p + 2 <= Len(t) /\ (p + 2) + 1 = p + 3
    BY <1>1
  <2>2. t[p + 2] \notin {"quotes", "\\"}
    BY <1>2, <2>1
  <2>3. Open(t, q, (p + 2) + 1)
    BY <1>1, <1>3, <2>1, <2>2, StringGoesOn
  <2> QED
    BY <2>1, <2>3
<1>5. n >= 3 => Open(t, q, p + 4)
  <2> SUFFICES ASSUME n >= 3 PROVE Open(t, q, p + 4)
    OBVIOUS
  <2>1. 3 \in 1 .. n /\ p + 3 <= Len(t) /\ (p + 3) + 1 = p + 4 /\ n >= 2
    BY <1>1
  <2>2. t[p + 3] \notin {"quotes", "\\"}
    BY <1>2, <2>1
  <2>3. Open(t, q, (p + 3) + 1)
    BY <1>1, <1>4, <2>1, <2>2, StringGoesOn
  <2> QED
    BY <2>1, <2>3
<1>6. CASE n = 1
  BY <1>3, <1>6, p + 1 + 1 = p + 2
<1>7. CASE n = 2
  BY <1>4, <1>7, p + 2 + 1 = p + 3
<1>8. CASE n = 3
  BY <1>5, <1>8, p + 3 + 1 = p + 4
<1> QED
  BY <1>6, <1>7, <1>8

\* The octal digits after a backslash.
LEMMA OctalDigitsAre ==
  ASSUME IInv, In("string"), At({"\\"}), NEW n \in 1 .. 3, OctalDigits(n)
  PROVE  /\ Here(text, stream) + n <= Len(text)
         /\ \A i \in 1 .. n : text[Here(text, stream) + i] \in Octal
         /\ \A q \in 1 .. Len(text) :
              Open(text, q, Here(text, stream)) => Open(text, q, Here(text, stream) + n + 1)
<1> DEFINE p == Here(text, stream)
<1>1. /\ IsText(text) /\ Len(text) \in Nat /\ stream \in Seq(STRING) /\ Len(stream) \in Nat /\ p \in 1 .. Len(text)
      /\ text[p] = "\\" /\ Len(stream) = Len(text) - p + 1
      /\ \A i \in 1 .. Len(stream) : stream[i] = text[p + i - 1]
  BY AtBackslash
<1>2. Len(stream) > n /\ \A i \in 2 .. n + 1 : stream[i] \in Octal
  BY DEF OctalDigits
<1> HIDE DEF p
<1>3. p + n <= Len(text) /\ p \in Nat
  BY <1>1, <1>2
<1>4. ASSUME NEW i \in 1 .. n PROVE text[p + i] \in Octal
  <2>1. i + 1 \in 2 .. n + 1 /\ i + 1 \in 1 .. Len(stream) /\ p + (i + 1) - 1 = p + i
    BY <1>1, <1>2
  <2>2. stream[i + 1] = text[p + (i + 1) - 1] /\ stream[i + 1] \in Octal
    BY <1>1, <1>2, <2>1
  <2> QED
    BY <2>1, <2>2
<1>5. \A q \in 1 .. Len(text) : Open(text, q, p) => Open(text, q, p + n + 1)
  BY <1>1, <1>3, <1>4, OpenAfterOctal
<1> QED
  BY <1>3, <1>4, <1>5 DEF p

\* A string takes the char of an octal escape.
LEMMA EscapeOctalKeeps == ASSUME IInv, EscapeOctal PROVE IInv'
<1> USE DEF EscapeOctal
<1> DEFINE p == Here(text, stream)
<1>1. PICK n \in 1 .. 3 : /\ Escape(Octal) /\ OctalDigits(n) /\ Len(stream) > n + 1
                          /\ EscapeTo(n + 2, OctalChar(SubSeq(stream, 2, n + 1)))
  OBVIOUS
<1>2. In("string") /\ At({"\\"})
  BY <1>1 DEF Escape
<1>3. Len(stream) \in Nat /\ p \in Nat
  BY <1>2, AtBackslash
<1>4. \A q \in 1 .. Len(text) : Open(text, q, p) => Open(text, q, p + n + 1)
  BY <1>1, <1>2, OctalDigitsAre
<1> HIDE DEF p
<1>5. n + 2 \in 1 .. Len(stream) + 1 /\ p + (n + 2) - 1 = p + n + 1
  BY <1>1, <1>3
<1>6. \A q \in 1 .. Len(text) : Open(text, q, p) => Open(text, q, p + (n + 2) - 1)
  BY <1>4, <1>5
<1> DEFINE m == n + 2
           x == OctalChar(SubSeq(stream, 2, n + 1))
<1>7. EscapeTo(m, x)
  BY <1>1
<1> HIDE DEF m, x
<1> QED
  BY <1>2, <1>5, <1>6, <1>7, EscapeStep DEF p, m

\* An octal escape at the end of the stream stops the program.
LEMMA EscapeOctalAbortsKeeps == ASSUME IInv, EscapeOctalAborts PROVE IInv'
<1> USE DEF EscapeOctalAborts
<1> DEFINE p == Here(text, stream)
<1>1. PICK n \in 1 .. 3 : /\ Escape(Octal) /\ OctalDigits(n) /\ Len(stream) = n + 1
                          /\ calls' = <<>> /\ ended' = TRUE
                          /\ errors' = errors \cup {"ABORT"}
                          /\ UNCHANGED <<text, stream, value, error_flags, results>>
  OBVIOUS
<1>2. In("string") /\ At({"\\"})
  BY <1>1 DEF Escape
<1>3. /\ IsText(text) /\ Len(text) \in Nat /\ p \in 1 .. Len(text) /\ Len(stream) = Len(text) - p + 1
      /\ Left(text, stream) /\ Depth(calls) \in Nat
      /\ errors = {} => \E q \in 1 .. Len(text) :
              text[q] = "quotes" /\ Decides(text, q, Depth(calls), FALSE) /\ Open(text, q, p)
  BY <1>2, AtBackslash
<1>4. \A q \in 1 .. Len(text) : Open(text, q, p) => Open(text, q, p + n + 1)
  BY <1>1, <1>2, OctalDigitsAre
<1> HIDE DEF p
<1>5. p + n + 1 = Len(text) + 1
  BY <1>1, <1>3
<1>6. ~WellFormed(text)
  <2>1. CASE errors # {}
    BY <2>1 DEF IInv, Known
  <2>2. CASE errors = {}
    <3>1. PICK q \in 1 .. Len(text) :
            text[q] = "quotes" /\ Decides(text, q, Depth(calls), FALSE) /\ Open(text, q, Len(text) + 1)
      BY <1>3, <1>4, <1>5, <2>2
    <3>2. Closing(text, q) = Len(text) + 1
      BY <1>3, <3>1, StringNever
    <3>3. Closing(text, q) > Len(text) /\ FALSE \in BOOLEAN
      BY <1>3, <3>2
    <3> QED
      BY <1>3, <3>1, <3>3, DecidesString
  <2> QED
    BY <2>1, <2>2
<1>7. errors' # {} /\ errors' \subseteq Flags \cup {"ABORT"}
  BY <1>1 DEF IInv, Typed
<1>8. Typed'
  <2>1. IsStack(calls')
    BY <1>1, NoCalls
  <2>2. Left(text', stream') /\ calls' = <<>>
    BY <1>1, <1>3
  <2> QED
    BY <1>1, <1>7, <2>1, <2>2 DEF IInv, Typed
<1>9. Promised'
  BY <1>7 DEF Promised
<1>10. Known'
  BY <1>1, <1>6, <1>7 DEF Known
<1> QED
  BY <1>8, <1>9, <1>10 DEF IInv

\* A hexadecimal escape unreads the quote that opened its string.
LEMMA EscapeHexKeeps == ASSUME IInv, EscapeHex PROVE IInv'
<1> USE DEF EscapeHex
<1> DEFINE p == Here(text, stream)
           e == HexCloses(text, p)
           b == buffer_append_char(Top.buf, HexChar)
           u == SubSeq(stream, 4, Len(stream))
           v == SubSeq(text, e + 1, Len(text))
<1>1. In("string") /\ At({"\\"}) /\ CharAt(2) = {"x"} /\ Continue("string", b) /\ Quiet
  OBVIOUS
<1>2. /\ IsText(text) /\ text \in Seq(STRING) /\ Len(text) \in Nat /\ p \in 1 .. Len(text) /\ text[p] = "\\"
      /\ stream \in Seq(STRING) /\ Len(stream) \in Nat /\ Len(stream) = Len(text) - p + 1 /\ Left(text, stream)
      /\ \A i \in 1 .. Len(stream) : stream[i] = text[p + i - 1]
      /\ IsCall(Top)
      /\ errors = {} => \E q \in 1 .. Len(text) :
              text[q] = "quotes" /\ Decides(text, q, Depth(calls), FALSE) /\ Open(text, q, p)
  BY <1>1, AtBackslash
<1>3. 2 <= Len(stream) /\ stream[2] = "x"
  <2>1. 2 \in Nat \ {0} /\ stream \in Seq(STRING) /\ CharAt(2) \cap {"x"} # {}
    BY <1>1, <1>2
  <2>2. 2 <= Len(stream) /\ stream[2] \in {"x"}
    BY ONLY <2>1, TheChar
  <2> QED
    BY <2>2
<1>4. Top.entry_c = "quotes"
  <2>1. Top.at = "string" /\ Placed(text, stream, Top)
    BY <1>1, Inside
  <2> QED
    BY <2>1 DEF Placed
<1>5. stream' = <<"quotes">> \o u
  <2>1. stream' = <<Top.entry_c>> \o u
    BY DEF unreadc
  <2> HIDE DEF u
  <2> QED
    BY <1>4, <2>1
<1>6. IsBuffer(b)
  BY <1>2, TopAppended
<1> HIDE DEF p
<1>7. p + 1 <= Len(text) /\ text[p + 1] = "x"
  <2>1. 2 \in 1 .. Len(stream) /\ p + 2 - 1 = p + 1
    BY <1>2, <1>3
  <2> QED
    BY <1>2, <1>3, <2>1
<1>8. e \in 1 .. Len(text) /\ u = v
  <2>1. CASE p + 2 <= Len(text)
    <3>1. e = p + 2
      BY <2>1 DEF HexCloses
    <3>2. 4 \in 1 .. Len(stream) + 1 /\ e \in 1 .. Len(text) /\ p + 4 - 1 = e + 1
      BY <1>2, <2>1, <3>1
    <3>3. Left(text, u) /\ Here(text, u) = p + 4 - 1
      BY <1>2, <3>2, LeftDrop DEF p
    <3> HIDE DEF e, u
    <3>4. u = SubSeq(text, Here(text, u), Len(text))
      BY <3>3 DEF Left
    <3> QED
      BY <3>2, <3>3, <3>4
  <2>2. CASE ~(p + 2 <= Len(text))
    <3>1. e = Len(text) /\ Len(stream) = 2 /\ e \in 1 .. Len(text)
      BY <1>2, <1>7, <2>2 DEF HexCloses
    <3>2. u = <<>>
      <4>0. Len(stream) = 2
        BY <3>1
      <4>1. Len(stream) < 4 /\ Len(stream) \in Int /\ 4 \in Int
        BY ONLY <4>0
      <4> QED
        BY ONLY <4>1, SubSeqEmpty DEF u
    <3>3. v = <<>>
      <4> HIDE DEF e
      <4> QED
        BY <1>2, <3>1
    <3> QED
      BY <3>1, <3>2, <3>3
  <2> QED
    BY <2>1, <2>2
<1> HIDE DEF u
<1>9. stream' = <<"quotes">> \o v
  BY <1>5, <1>8
<1>10. Unread(text, stream')
  <2> HIDE DEF e
  <2> QED
    BY <1>8, <1>9 DEF Unread
<1>11. ASSUME errors = {}
      PROVE  \E q \in 1 .. Len(text) : Decides(text, q, Depth(calls), FALSE) /\ InString(text, stream', q)
  <2>1. PICK q \in 1 .. Len(text) : text[q] = "quotes" /\ Decides(text, q, Depth(calls), FALSE) /\ Open(text, q, p)
    BY <1>2, <1>11
  <2>2. Closing(text, q) = e
    BY <1>2, <1>7, <2>1, StringHex
  <2> HIDE DEF e
  <2>3. Closing(text, q) <= Len(text) /\ stream' = <<"quotes">> \o SubSeq(text, Closing(text, q) + 1, Len(text))
    BY <1>2, <1>8, <1>9, <2>2
  <2> QED
    BY <2>1, <2>3 DEF InString
<1> HIDE DEF b, v
<1> QED
  BY <1>1, <1>6, <1>10, <1>11, StringStep

\* A string drops an escape that is none.
LEMMA EscapeUnknownKeeps == ASSUME IInv, EscapeUnknown PROVE IInv'
<1> USE DEF EscapeUnknown
<1> DEFINE p == Here(text, stream)
           u == SubSeq(stream, 3, Len(stream))
<1>1. /\ In("string") /\ At({"\\"}) /\ CharAt(2) \cap (SimpleEscape \cup Octal \cup {"x"}) = {}
      /\ stream' = u /\ UNCHANGED <<calls, value>> /\ Quiet
  OBVIOUS
<1>2. /\ IsText(text) /\ text \in Seq(STRING) /\ Len(text) \in Nat /\ p \in 1 .. Len(text) /\ text[p] = "\\"
      /\ stream \in Seq(STRING) /\ Len(stream) \in Nat \ {0} /\ Len(stream) = Len(text) - p + 1 /\ Left(text, stream)
      /\ \A i \in 1 .. Len(stream) : stream[i] = text[p + i - 1]
      /\ calls # <<>> /\ value = NoValue
      /\ errors = {} => \E q \in 1 .. Len(text) :
              text[q] = "quotes" /\ Decides(text, q, Depth(calls), FALSE) /\ Open(text, q, p)
  BY <1>1, AtBackslash
<1>3. 2 <= Len(stream) => stream[2] # "x"
  <2>1. 2 \in Nat \ {0} /\ stream \in Seq(STRING)
    BY <1>2
  <2> DEFINE S == SimpleEscape \cup Octal \cup {"x"}
  <2>2. CharAt(2) \cap S = {} /\ "x" \in S
    BY <1>1
  <2> HIDE DEF S
  <2>3. 2 <= Len(stream) => stream[2] \notin S
    BY ONLY <2>1, <2>2, TheChar
  <2> QED
    BY <2>2, <2>3
<1>4. Top.at = "string" /\ Top.entry_c = "quotes"
  <2>1. Top.at = "string" /\ Placed(text, stream, Top)
    BY <1>1, Inside
  <2> QED
    BY <2>1 DEF Placed
<1>5. /\ Left(text, u)
      /\ \A q \in 1 .. Len(text) : Open(text, q, p) => Open(text, q, Here(text, u))
  <2>1. CASE 2 <= Len(stream)
    <3>1. 3 \in 1 .. Len(stream) + 1
      BY <1>2, <2>1
    <3>2. Left(text, u) /\ Here(text, u) = p + 3 - 1
      BY <1>2, <3>1, LeftDrop
    <3> HIDE DEF p, u
    <3>3. p + 3 - 1 = p + 2 /\ p + 1 <= Len(text)
      BY <1>2, <2>1
    <3>4. text[p + 1] # "x"
      <4>1. 2 \in 1 .. Len(stream) /\ p + 2 - 1 = p + 1
        BY <1>2, <2>1
      <4>2. stream[2] = text[p + 1]
        BY <1>2, <4>1
      <4> QED
        BY <1>3, <2>1, <4>2
    <3>5. \A q \in 1 .. Len(text) : Open(text, q, p) => Open(text, q, p + 2)
      BY <1>2, <3>3, <3>4, StringEscapes
    <3> QED
      BY <3>2, <3>3, <3>5
  <2>2. CASE ~(2 <= Len(stream))
    <3> HIDE DEF p
    <3>1. Len(stream) = 1 /\ p = Len(text)
      BY <1>2, <2>2
    <3>2. u = <<>>
      BY <1>2, <3>1
    <3>3. <<>> = SubSeq(text, Len(text) + 1, Len(text)) /\ Len(text) + 1 \in 1 .. Len(text) + 1
      BY <1>2
    <3>4. Left(text, <<>>) /\ Here(text, <<>>) = Len(text) + 1
      BY <1>2, <3>3, LeftMade
    <3>5. \A q \in 1 .. Len(text) : Open(text, q, p) => Open(text, q, Len(text) + 1)
      BY <1>2, <3>1, StringBreaksOff
    <3> QED
      BY <3>2, <3>4, <3>5
  <2> QED
    BY <2>1, <2>2
<1> HIDE DEF u
<1>6. Placed(text, stream', Top)
  BY <1>1, <1>4, <1>5 DEF Placed
<1>7. ASSUME errors = {} PROVE Doing(text, stream', Top, Depth(calls))
  <2>1. PICK q \in 1 .. Len(text) : text[q] = "quotes" /\ Decides(text, q, Depth(calls), FALSE) /\ Open(text, q, p)
    BY <1>2, <1>7
  <2>2. InString(text, stream', q)
    BY <1>1, <1>5, <2>1 DEF InString
  <2> QED
    BY <1>4, <2>1, <2>2 DEF Doing, Numerals
<1> QED
  BY <1>1, <1>2, <1>6, <1>7, Staying

-----------------------------------------------------------------------------
(* Numerals, state by state *)

\* The text goes on after a numeral, and a char later after a float.
LEMMA DecidesNumeral ==
  ASSUME NEW t, IsText(t), NEW i \in 1 .. Len(t), BeginsWord(t[i]), LooksNumeral(Word(t, i)), Ends(t, i),
         NEW d \in Nat, Decides(t, i, d, FALSE)
  PROVE  /\ IsInteger(Word(t, i)) /\ ~IsFloat(Word(t, i)) => Decides(t, WordEnd(t, i), d, FALSE)
         /\ ~IsInteger(Word(t, i)) /\ IsFloat(Word(t, i)) => Decides(t, WordEnd(t, i) + 1, d, FALSE)
         /\ ~IsInteger(Word(t, i)) /\ ~IsFloat(Word(t, i)) /\ IsHex(Word(t, i)) => Decides(t, WordEnd(t, i), d, FALSE)
<1>1. t \in Seq(STRING) /\ \A j \in DOMAIN t : t[j] # NUL
  BY DEF IsText
<1>2. FALSE \in BOOLEAN
  OBVIOUS
<1>3. /\ IsInteger(Word(t, i)) /\ ~IsFloat(Word(t, i)) =>
           (Completes(LexFrom(t)[i], d, FALSE) <=> Completes(LexFrom(t)[WordEnd(t, i)], d, FALSE))
      /\ ~IsInteger(Word(t, i)) /\ IsFloat(Word(t, i)) =>
           (Completes(LexFrom(t)[i], d, FALSE) <=> Completes(LexFrom(t)[WordEnd(t, i) + 1], d, FALSE))
      /\ ~IsInteger(Word(t, i)) /\ ~IsFloat(Word(t, i)) /\ IsHex(Word(t, i)) =>
           (Completes(LexFrom(t)[i], d, FALSE) <=> Completes(LexFrom(t)[WordEnd(t, i)], d, FALSE))
  <2>1. PassesNumeral(t, i, d, FALSE)
    BY <1>1, <1>2, CompletesNumeral
  <2> QED
    BY ONLY <2>1, Zenon DEF PassesNumeral
<1> QED
  BY <1>3 DEF Decides

\* A word that begins like a numeral and is none decides that the text is no program.
LEMMA DecidesNoNumeral ==
  ASSUME NEW t, IsText(t), NEW i \in 1 .. Len(t), BeginsWord(t[i]), LooksNumeral(Word(t, i)),
         ~Ends(t, i) \/ ~(IsInteger(Word(t, i)) \/ IsFloat(Word(t, i)) \/ IsHex(Word(t, i))),
         NEW d \in Nat, Decides(t, i, d, FALSE)
  PROVE  ~WellFormed(t)
<1>1. t \in Seq(STRING) /\ FALSE \in BOOLEAN
  BY DEF IsText
<1>2. ~Completes(LexFrom(t)[i], d, FALSE)
  BY <1>1, CompletesNoNumeral
<1> QED
  BY <1>2 DEF Decides

\* What holds in a numeral.
LEMMA InsideNumeral ==
  ASSUME IInv, NEW at \in Numerals, In(at)
  PROVE  /\ calls # <<>> /\ value = NoValue /\ Top.at = at /\ IsText(text) /\ Len(text) \in Nat
         /\ IsCall(Top) /\ Top.macros /\ IsBuffer(Top.buf)
         /\ Depth(calls) = Depth(Front(calls)) /\ Depth(calls) \in Nat
         /\ Left(text, stream)
         /\ errors = {} => \E q \in 1 .. Len(text) :
              /\ Decides(text, q, Depth(calls), FALSE) /\ InWord(text, Here(text, stream), q)
              /\ InNumeral(Word(text, q), Here(text, stream) - q, at, Top.buf.data)
<1>1. at \notin {"list", "list_atom"} /\ at \notin {"reads", "atom"} /\ at # "string"
  BY DEF Numerals
<1>2. /\ calls # <<>> /\ value = NoValue /\ Top.at = at /\ IsText(text) /\ IsCall(Top)
      /\ Depth(Front(calls)) \in Nat
      /\ Depth(calls) = Depth(Front(calls)) + IF at \in {"list", "list_atom"} THEN 1 ELSE 0
      /\ Placed(text, stream, Top)
      /\ errors = {} => Doing(text, stream, Top, Depth(calls))
  BY Inside
<1>3. Depth(calls) = Depth(Front(calls))
  BY <1>1, <1>2
<1>4. Top.macros /\ IsBuffer(Top.buf)
  BY <1>1, <1>2 DEF IsCall
<1>5. Left(text, stream) /\ Len(text) \in Nat
  BY <1>1, <1>2 DEF Placed, IsText
<1>6. ASSUME errors = {}
      PROVE  \E q \in 1 .. Len(text) :
               /\ Decides(text, q, Depth(calls), FALSE) /\ InWord(text, Here(text, stream), q)
               /\ InNumeral(Word(text, q), Here(text, stream) - q, at, Top.buf.data)
  BY <1>2, <1>6 DEF Doing
<1> QED
  BY <1>2, <1>3, <1>4, <1>5, <1>6

\* The reading of a numeral goes on.
LEMMA NumeralStep ==
  ASSUME IInv, calls # <<>>, value = NoValue, IsCall(Top), Top.macros,
         Depth(calls) = Depth(Front(calls)), Depth(calls) \in Nat,
         NEW to \in Numerals, NEW buf, IsBuffer(buf), Continue(to, buf), Quiet, Left(text, stream'),
         errors = {} => \E q \in 1 .. Len(text) :
           /\ Decides(text, q, Depth(calls), FALSE) /\ InWord(text, Here(text, stream'), q)
           /\ InNumeral(Word(text, q), Here(text, stream') - q, to, buf.data)
  PROVE  IInv'
<1> DEFINE c == Changed(Top, to, buf)
<1>1. to \in Places /\ to \notin {"list", "list_atom", "string", "reads", "numeral", "quote", "comment", "atom"}
  BY DEF Numerals, Places
<1>2. Go(c)
  BY DEF Continue
<1>3. IsCall(c) /\ c.at = to /\ c.buf = buf
  BY <1>1, ChangedCall
<1> HIDE DEF c
<1>4. Placed(text, stream', c) /\ Lists(c) = 0
  BY <1>1, <1>3 DEF Placed, Lists, IsList
<1>5. Depth(Front(calls)) + Lists(c) = Depth(calls)
  BY <1>4
<1>6. errors = {} => Doing(text, stream', c, Depth(calls))
  BY <1>1, <1>3 DEF Doing
<1> QED
  BY <1>2, <1>3, <1>4, <1>5, <1>6, Going

\* A char goes on with a numeral.
LEMMA NextInNumeral ==
  ASSUME NEW k \in Seq(STRING), NEW n \in 1 .. Len(k) - 1,
         NEW at, NEW S, NEW to,
         \/ at = "S_INT" /\ S = Digit /\ to = "S_INT"
         \/ at = "S_INT" /\ S = {"."} /\ to = "S_INTDOT"
         \/ at = "S_INTDOT" /\ S = Digit /\ to = "S_FLOAT"
         \/ at = "S_FLOAT" /\ S = Digit /\ to = "S_FLOAT"
         \/ at = "S_HEX" /\ S = HexDigit /\ to = "S_HEX",
         k[n + 1] \in S, NEW old, Len(old) \in Nat, InNumeral(k, n, at, old),
         NEW new, Len(new) = Len(old) + 1, new[1] = IF Len(old) = 0 THEN k[n + 1] ELSE old[1]
  PROVE  InNumeral(k, n + 1, to, new)
<1>1. Len(k) \in Nat /\ n + 1 \in 2 .. Len(k) /\ (n + 1) - 1 = n
  OBVIOUS
<1>2. CASE at = "S_INT" /\ S = Digit /\ to = "S_INT"
  <2>1. IntSoFar(k, n) /\ Len(old) = n /\ old[1] = k[1]
    BY <1>2 DEF InNumeral
  <2>2. IntSoFar(k, n + 1)
    BY <1>1, <1>2, <2>1 DEF IntSoFar, DigitsIn
  <2>3. Len(new) = n + 1 /\ new[1] = k[1]
    BY <1>1, <2>1
  <2> QED
    BY <1>2, <2>2, <2>3 DEF InNumeral
<1>3. CASE at = "S_INT" /\ S = {"."} /\ to = "S_INTDOT"
  <2>1. IntSoFar(k, n)
    BY <1>3 DEF InNumeral
  <2>2. DotSoFar(k, n + 1)
    BY <1>1, <1>3, <2>1 DEF IntSoFar, DotSoFar
  <2> QED
    BY <1>3, <2>2 DEF InNumeral
<1>4. CASE at = "S_INTDOT" /\ S = Digit /\ to = "S_FLOAT"
  <2>1. n >= 2 /\ k[n] = "." /\ DigitsIn(k, 2, n - 1)
    BY <1>4 DEF InNumeral, DotSoFar
  <2>2. DigitsIn(k, n + 1, n + 1)
    BY <1>4 DEF DigitsIn
  <2>3. n \in 2 .. (n + 1) - 1
    BY <1>1, <2>1
  <2>4. FloatSoFar(k, n + 1)
    BY <2>1, <2>2, <2>3 DEF FloatSoFar
  <2> QED
    BY <1>4, <2>4 DEF InNumeral
<1>5. CASE at = "S_FLOAT" /\ S = Digit /\ to = "S_FLOAT"
  <2>1. PICK i \in 2 .. n - 1 : k[i] = "." /\ DigitsIn(k, 2, i - 1) /\ DigitsIn(k, i + 1, n)
    BY <1>5 DEF InNumeral, FloatSoFar
  <2>2. DigitsIn(k, i + 1, n + 1)
    BY <1>1, <1>5, <2>1 DEF DigitsIn
  <2>3. i \in 2 .. (n + 1) - 1
    BY <1>1
  <2>4. FloatSoFar(k, n + 1)
    BY <2>1, <2>2, <2>3 DEF FloatSoFar
  <2> QED
    BY <1>5, <2>4 DEF InNumeral
<1>6. CASE at = "S_HEX" /\ S = HexDigit /\ to = "S_HEX"
  <2>1. n >= 2 /\ k[1] = "0" /\ k[2] = "x" /\ (\A h \in 3 .. n : k[h] \in HexDigit) /\ Len(old) = n - 2
    BY <1>6 DEF InNumeral, HexSoFar
  <2>2. \A h \in 3 .. n + 1 : k[h] \in HexDigit
    BY <1>1, <1>6, <2>1
  <2>3. HexSoFar(k, n + 1) /\ Len(new) = (n + 1) - 2
    BY <1>1, <2>1, <2>2 DEF HexSoFar
  <2> QED
    BY <1>6, <2>3 DEF InNumeral
<1> QED
  BY <1>2, <1>3, <1>4, <1>5, <1>6

\* The numeral reader takes a char that fits its state.
LEMMA NumeralCharKeeps ==
  ASSUME IInv, NEW at, NEW S, NEW to, NumeralChar(at, S, to),
         \/ at = "S_INT" /\ S = Digit /\ to = "S_INT"
         \/ at = "S_INT" /\ S = {"."} /\ to = "S_INTDOT"
         \/ at = "S_INTDOT" /\ S = Digit /\ to = "S_FLOAT"
         \/ at = "S_FLOAT" /\ S = Digit /\ to = "S_FLOAT"
         \/ at = "S_HEX" /\ S = HexDigit /\ to = "S_HEX"
  PROVE  IInv'
<1> DEFINE p == Here(text, stream)
           b == buffer_append_char(Top.buf, Head(stream))
<1>1. at \in Numerals /\ to \in Numerals /\ S \cap Delimiter = {}
  <2>1. at \in Numerals /\ to \in Numerals
    BY DEF Numerals
  <2>2. S = Digit \/ S = {"."} \/ S = HexDigit
    OBVIOUS
  <2> QED
    BY <2>1, <2>2, DigitsAre
<1>2. /\ In(at) /\ stream # <<>> /\ Head(stream) \in S /\ stream' = Tail(stream) /\ Continue(to, b) /\ Quiet
  BY DEF NumeralChar, At, Take, readc
<1>3. /\ calls # <<>> /\ value = NoValue /\ IsText(text) /\ Len(text) \in Nat
      /\ IsCall(Top) /\ Top.macros /\ IsBuffer(Top.buf)
      /\ Depth(calls) = Depth(Front(calls)) /\ Depth(calls) \in Nat
      /\ Left(text, stream)
      /\ errors = {} => \E q \in 1 .. Len(text) :
           /\ Decides(text, q, Depth(calls), FALSE) /\ InWord(text, p, q)
           /\ InNumeral(Word(text, q), p - q, at, Top.buf.data)
  BY <1>1, <1>2, InsideNumeral
<1>4. p \in 1 .. Len(text) /\ Head(stream) = text[p] /\ Left(text, stream') /\ Here(text, stream') = p + 1
  BY <1>2, <1>3, Next1
<1>5. /\ IsBuffer(b) /\ Len(Top.buf.data) \in Nat /\ Len(b.data) = Len(Top.buf.data) + 1
      /\ b.data[1] = IF Len(Top.buf.data) = 0 THEN Head(stream) ELSE Top.buf.data[1]
  BY <1>3, AppendedChar
<1> HIDE DEF p, b
<1>6. ASSUME errors = {}
      PROVE  \E q \in 1 .. Len(text) :
               /\ Decides(text, q, Depth(calls), FALSE) /\ InWord(text, p + 1, q)
               /\ InNumeral(Word(text, q), (p + 1) - q, to, b.data)
  <2>1. PICK q \in 1 .. Len(text) :
          /\ Decides(text, q, Depth(calls), FALSE) /\ InWord(text, p, q)
          /\ InNumeral(Word(text, q), p - q, at, Top.buf.data)
    BY <1>3, <1>6
  <2> DEFINE k == Word(text, q)
             n == p - q
  <2>2. p \in q + 1 .. Len(text) + 1 /\ BeginsWord(text[q]) /\ n <= Len(k) /\ LooksNumeral(k)
    BY <2>1 DEF InWord
  <2>3. p <= Len(text) /\ text[p] \notin Delimiter
    BY <1>1, <1>2, <1>3, <1>4
  <2>4. k \in Seq(STRING) /\ n \in 1 .. Len(k) /\ n < Len(k) /\ k[n + 1] = text[p]
    BY <1>3, <2>2, <2>3, WordGoesOn
  <2>5. (p + 1) - q = n + 1 /\ p + 1 \in q + 1 .. Len(text) + 1
    BY <1>3, <1>4, <2>2
  <2>6. InNumeral(k, n, at, Top.buf.data)
    BY <2>1
  <2> HIDE DEF k, n
  <2>7. n \in 1 .. Len(k) - 1 /\ n + 1 <= Len(k) /\ k[n + 1] \in S
    BY <1>2, <1>4, <2>4
  <2>8. InNumeral(k, n + 1, to, b.data)
    <3>1. b.data[1] = IF Len(Top.buf.data) = 0 THEN k[n + 1] ELSE Top.buf.data[1]
      BY <1>4, <1>5, <2>4
    <3> QED
      BY <1>5, <2>4, <2>6, <2>7, <3>1, NextInNumeral
  <2>9. InWord(text, p + 1, q)
    BY <2>2, <2>5, <2>7 DEF InWord, k
  <2>10. InNumeral(k, (p + 1) - q, to, b.data)
    BY <2>5, <2>8
  <2> QED
    BY <2>1, <2>9, <2>10 DEF k
<1>7. errors = {} => \E q \in 1 .. Len(text) :
        /\ Decides(text, q, Depth(calls), FALSE) /\ InWord(text, Here(text, stream'), q)
        /\ InNumeral(Word(text, q), Here(text, stream') - q, to, b.data)
  BY <1>4, <1>6
<1> QED
  BY <1>1, <1>2, <1>3, <1>4, <1>5, <1>7, NumeralStep

\* It comes to the x of a hexadecimal numeral.
LEMMA NumeralPrefixKeeps == ASSUME IInv, NumeralPrefix PROVE IInv'
<1> USE DEF NumeralPrefix
<1> DEFINE p == Here(text, stream)
           b == buffer_clear(Top.buf)
<1>1. "S_INT" \in Numerals /\ "S_HEX" \in Numerals /\ "x" \notin Delimiter
  BY DigitsAre DEF Numerals
<1>2. /\ In("S_INT") /\ stream # <<>> /\ Head(stream) = "x" /\ stream' = Tail(stream)
      /\ Top.buf.data = <<"0">> /\ Continue("S_HEX", b) /\ Quiet
  BY DEF At, readc
<1>3. /\ calls # <<>> /\ value = NoValue /\ IsText(text) /\ Len(text) \in Nat
      /\ IsCall(Top) /\ Top.macros /\ IsBuffer(Top.buf)
      /\ Depth(calls) = Depth(Front(calls)) /\ Depth(calls) \in Nat
      /\ Left(text, stream)
      /\ errors = {} => \E q \in 1 .. Len(text) :
           /\ Decides(text, q, Depth(calls), FALSE) /\ InWord(text, p, q)
           /\ InNumeral(Word(text, q), p - q, "S_INT", Top.buf.data)
  BY <1>1, <1>2, InsideNumeral
<1>4. p \in 1 .. Len(text) /\ text[p] = "x" /\ Left(text, stream') /\ Here(text, stream') = p + 1
  BY <1>2, <1>3, Next1
<1>5. IsBuffer(b) /\ Len(b.data) = 0
  <2>1. IsBuffer(b) /\ b.data = <<>>
    BY <1>3, ClearedBuffer
  <2> QED
    BY <2>1
<1> HIDE DEF p, b
<1>6. ASSUME errors = {}
      PROVE  \E q \in 1 .. Len(text) :
               /\ Decides(text, q, Depth(calls), FALSE) /\ InWord(text, p + 1, q)
               /\ InNumeral(Word(text, q), (p + 1) - q, "S_HEX", b.data)
  <2>1. PICK q \in 1 .. Len(text) :
          /\ Decides(text, q, Depth(calls), FALSE) /\ InWord(text, p, q)
          /\ InNumeral(Word(text, q), p - q, "S_INT", Top.buf.data)
    BY <1>3, <1>6
  <2> DEFINE k == Word(text, q)
             n == p - q
  <2>2. p \in q + 1 .. Len(text) + 1 /\ BeginsWord(text[q]) /\ n <= Len(k) /\ LooksNumeral(k)
    BY <2>1 DEF InWord
  <2>3. p <= Len(text) /\ text[p] \notin Delimiter
    BY <1>1, <1>3, <1>4
  <2>4. k \in Seq(STRING) /\ n \in 1 .. Len(k) /\ n < Len(k) /\ k[n + 1] = text[p]
    BY <1>3, <2>2, <2>3, WordGoesOn
  <2>5. (p + 1) - q = n + 1 /\ p + 1 \in q + 1 .. Len(text) + 1
    BY <1>3, <1>4, <2>2
  <2>6. Len(Top.buf.data) = n /\ Top.buf.data[1] = k[1]
    BY <2>1 DEF InNumeral
  <2> HIDE DEF k, n
  <2>7. n = 1 /\ k[1] = "0" /\ k[2] = "x" /\ 2 <= Len(k)
    <3>1. Len(<<"0">>) = 1 /\ <<"0">>[1] = "0"
      OBVIOUS
    <3>2. n = 1 /\ k[1] = "0"
      BY <1>2, <2>6, <3>1
    <3> QED
      BY <1>4, <2>4, <3>2
  <2>8. HexSoFar(k, 2)
    BY <2>7 DEF HexSoFar
  <2>9. InNumeral(k, (p + 1) - q, "S_HEX", b.data)
    <3>1. (p + 1) - q = 2
      BY <2>5, <2>7
    <3> QED
      BY <1>5, <2>8, <3>1 DEF InNumeral
  <2>10. InWord(text, p + 1, q)
    BY <2>2, <2>5, <2>7 DEF InWord, k
  <2> QED
    BY <2>1, <2>9, <2>10 DEF k
<1>7. errors = {} => \E q \in 1 .. Len(text) :
        /\ Decides(text, q, Depth(calls), FALSE) /\ InWord(text, Here(text, stream'), q)
        /\ InNumeral(Word(text, q), Here(text, stream') - q, "S_HEX", b.data)
  BY <1>4, <1>6
<1> QED
  BY <1>1, <1>2, <1>3, <1>4, <1>5, <1>7, NumeralStep

\* It unreads a minus that begins a symbol.
LEMMA NumeralMinusKeeps == ASSUME IInv, NumeralMinus PROVE IInv'
<1> USE DEF NumeralMinus
<1>1. /\ calls # <<>> /\ value = NoValue /\ Top.at = "numeral" /\ IsText(text) /\ IsCall(Top)
      /\ Depth(calls) = Depth(Front(calls)) /\ Depth(Front(calls)) \in Nat
      /\ Placed(text, stream, Top) /\ (errors = {} => Doing(text, stream, Top, Depth(calls)))
  BY Inside
<1> DEFINE c == Reads(FALSE)
           h == Here(text, stream)
           u == <<text[h - 1]>> \o stream
<1>2. /\ Left(text, stream) /\ h > 1 /\ text[h - 1] = "-" /\ Top.entry_c = "-"
      /\ (stream # <<>> => Head(stream) \notin Digit)
      /\ stream' = <<Top.entry_c>> \o stream /\ Go(c) /\ Quiet
  BY <1>1 DEF At, unreadc, Placed, Become
<1>3. IsCall(c) /\ c.at = "reads" /\ c.macros = FALSE
  BY NewReads
<1>4. stream' = u
  BY <1>2
<1> HIDE DEF c
<1>5. text \in Seq(STRING) /\ Len(text) \in Nat
  BY <1>1 DEF IsText
<1>6. /\ Left(text, u) /\ Here(text, u) = h - 1 /\ u # <<>> /\ u[1] = text[h - 1]
      /\ Len(u) = Len(stream) + 1 /\ \A i \in 1 .. Len(stream) : u[i + 1] = stream[i]
  BY <1>2, <1>5, LeftUnread
<1>7. h \in 1 .. Len(text) + 1 /\ stream \in Seq(STRING) /\ Len(stream) \in Nat
  BY <1>2, <1>5, LeftIs
<1> HIDE DEF u, h
<1>8. ASSUME Len(u) > 1 PROVE u[2] \notin Digit
  <2>1. 1 \in 1 .. Len(stream) /\ stream # <<>> /\ Head(stream) = stream[1]
    BY <1>6, <1>7, <1>8
  <2>2. u[2] = stream[1]
    BY <1>6, <2>1, 1 + 1 = 2
  <2> QED
    BY <1>2, <2>1, <2>2
<1>9. Placed(text, stream', c) /\ Lists(c) = 0
  BY <1>2, <1>3, <1>4, <1>6, <1>8 DEF Placed, Lists, IsList
<1>10. Depth(Front(calls)) + Lists(c) = Depth(calls) /\ Depth(calls) \in Nat
  BY <1>1, <1>9
<1>11. ASSUME errors = {} PROVE Doing(text, stream', c, Depth(calls))
  <2>1. Decides(text, h - 1, Depth(calls), FALSE)
    BY <1>1, <1>11 DEF Doing, h
  <2>2. h - 1 \in 1 .. Len(text) /\ BeginsWord(text[h - 1])
    BY <1>2, <1>5, <1>7 DEF BeginsWord, Blank, Single
  <2>3. FALSE \in BOOLEAN /\ TRUE \in BOOLEAN
    OBVIOUS
  <2>4. Decides(text, h - 1, Depth(calls), TRUE)
    BY <1>1, <1>10, <2>1, <2>2, <2>3, DecidesWord
  <2> QED
    BY <1>3, <1>4, <1>6, <2>4 DEF Doing, Numerals
<1> QED
  BY <1>1, <1>2, <1>3, <1>9, <1>10, <1>11, Going

\* It begins with the char it was called for.
LEMMA NumeralBeginKeeps == ASSUME IInv, NumeralBegin PROVE IInv'
<1> USE DEF NumeralBegin
<1>1. /\ calls # <<>> /\ value = NoValue /\ Top.at = "numeral" /\ IsText(text) /\ IsCall(Top)
      /\ Depth(calls) = Depth(Front(calls)) /\ Depth(Front(calls)) \in Nat
      /\ Placed(text, stream, Top) /\ (errors = {} => Doing(text, stream, Top, Depth(calls)))
  BY Inside
<1> DEFINE p == Here(text, stream)
           q == p - 1
           b == buffer_append_char(Top.buf, Top.entry_c)
           k == Word(text, q)
<1>2. /\ Left(text, stream) /\ p > 1 /\ text[p - 1] = Top.entry_c /\ Top.entry_c \in Digit \cup {"-"}
      /\ Top.buf.data = <<>>
      /\ (Top.entry_c # "-" \/ (stream # <<>> /\ Head(stream) \in Digit))
      /\ stream' = stream /\ Continue("S_INT", b) /\ Quiet
  BY <1>1 DEF At, Placed
<1>3. Top.macros /\ IsBuffer(Top.buf) /\ "S_INT" \in Numerals /\ Depth(calls) \in Nat
  BY <1>1 DEF IsCall, Numerals
<1>4. text \in Seq(STRING) /\ Len(text) \in Nat
  BY <1>1 DEF IsText
<1>5. p \in 1 .. Len(text) + 1 /\ (stream # <<>> => p \in 1 .. Len(text) /\ Head(stream) = text[p])
  BY <1>1, <1>2, Next1
<1>6. IsBuffer(b) /\ Len(b.data) = 1 /\ b.data[1] = Top.entry_c
  <2>1. /\ IsBuffer(b) /\ Len(b.data) = Len(Top.buf.data) + 1
        /\ b.data[1] = IF Len(Top.buf.data) = 0 THEN Top.entry_c ELSE Top.buf.data[1]
    BY <1>3, AppendedChar
  <2>2. Len(Top.buf.data) = 0
    BY <1>2
  <2> QED
    BY <2>1, <2>2
<1> HIDE DEF p, b
<1>7. q \in 1 .. Len(text) /\ p \in q + 1 .. Len(text) + 1 /\ p - q = 1 /\ text[q] = Top.entry_c
  BY <1>2, <1>4, <1>5
<1> HIDE DEF q
<1>8. BeginsWord(text[q])
  BY <1>2, <1>7 DEF BeginsWord, Blank, Single, Digit, Octal
<1>9. k \in Seq(STRING) /\ k[1] = text[q] /\ Len(k) \in Nat \ {0}
  <2>1. /\ WordEnd(text, q) \in q + 1 .. Len(text) + 1 /\ k \in Seq(STRING)
        /\ Len(k) = WordEnd(text, q) - q /\ k[1] = text[q]
    BY <1>4, <1>7, <1>8, WordIs
  <2> HIDE DEF k
  <2> QED
    BY <1>4, <1>7, <2>1
<1>10. p - q <= Len(k)
  <2> HIDE DEF k
  <2> QED
    BY <1>7, <1>9
<1>11. LooksNumeral(k)
  <2>1. CASE Top.entry_c \in Digit
    <3> HIDE DEF k
    <3> QED
      BY <1>7, <1>9, <2>1 DEF LooksNumeral
  <2>2. CASE Top.entry_c \notin Digit
    <3>1. Top.entry_c = "-" /\ p \in 1 .. Len(text) /\ text[p] \in Digit
      BY <1>2, <1>5, <2>2
    <3>2. p <= Len(text) /\ text[p] \notin Delimiter
      BY <1>4, <3>1, DigitsAre
    <3>3. p - q < Len(k) /\ k[(p - q) + 1] = text[p]
      BY <1>1, <1>7, <1>8, <1>10, <3>2, WordGoesOn
    <3> HIDE DEF k
    <3>4. Len(k) > 1 /\ k[2] \in Digit /\ k[1] = "-"
      BY <1>7, <1>9, <3>1, <3>3
    <3> QED
      BY <3>4 DEF LooksNumeral
  <2> QED
    BY <2>1, <2>2
<1>12. ASSUME errors = {}
       PROVE  /\ Decides(text, q, Depth(calls), FALSE) /\ InWord(text, p, q)
              /\ InNumeral(k, p - q, "S_INT", b.data)
  <2>1. Decides(text, q, Depth(calls), FALSE)
    BY <1>1, <1>12 DEF Doing, p, q
  <2>2. InWord(text, p, q)
    BY <1>7, <1>8, <1>10, <1>11 DEF InWord
  <2>3. InNumeral(k, p - q, "S_INT", b.data)
    <3> HIDE DEF k
    <3> QED
      BY <1>6, <1>7, <1>9 DEF InNumeral, IntSoFar, DigitsIn
  <2> QED
    BY <2>1, <2>2, <2>3
<1>13. errors = {} => \E x \in 1 .. Len(text) :
         /\ Decides(text, x, Depth(calls), FALSE) /\ InWord(text, Here(text, stream'), x)
         /\ InNumeral(Word(text, x), Here(text, stream') - x, "S_INT", b.data)
  BY <1>2, <1>7, <1>12 DEF p
<1> QED
  BY <1>1, <1>2, <1>3, <1>6, <1>13, NumeralStep

\* Behind a numeral.
LEMMA NumeralEnds ==
  ASSUME NEW t, IsText(t), NEW q \in 1 .. Len(t), NEW p \in 1 .. Len(t), InWord(t, p, q), t[p] \in NumeralEnd
  PROVE  /\ Word(t, q) \in Seq(STRING) /\ Word(t, q) # <<>> /\ LooksNumeral(Word(t, q)) /\ BeginsWord(t[q])
         /\ p - q = Len(Word(t, q)) /\ WordEnd(t, q) = p /\ Ends(t, q)
<1>1. Len(t) \in Nat
  BY DEF IsText
<1>2. p \in q + 1 .. Len(t) + 1 /\ BeginsWord(t[q]) /\ p - q <= Len(Word(t, q)) /\ LooksNumeral(Word(t, q))
  BY DEF InWord
<1>3. t[p] \in Delimiter /\ t[p] # "("
  BY DEF NumeralEnd, Delimiter, Blank
<1>4. p <= Len(t)
  BY <1>1
<1> QED
  BY <1>2, <1>3, <1>4, WordGoesOn

\* It returns an integer.
LEMMA IntEndKeeps == ASSUME IInv, IntEnd PROVE IInv'
<1> USE DEF IntEnd
<1> DEFINE p == Here(text, stream)
           v == sexp_new_source_atom("int", Integer(Digits(buffer_null_terminate(Top.buf))))
<1>1. "S_INT" \in Numerals
  BY DEF Numerals
<1>2. /\ In("S_INT") /\ stream # <<>> /\ Head(stream) \in NumeralEnd /\ stream' = stream
      /\ Return(v) /\ Quiet
  BY DEF At, readc
<1>3. /\ calls # <<>> /\ IsText(text) /\ Len(text) \in Nat
      /\ Depth(calls) = Depth(Front(calls)) /\ Depth(calls) \in Nat
      /\ Left(text, stream)
      /\ errors = {} => \E q \in 1 .. Len(text) :
           /\ Decides(text, q, Depth(calls), FALSE) /\ InWord(text, p, q)
           /\ InNumeral(Word(text, q), p - q, "S_INT", Top.buf.data)
  BY <1>1, <1>2, InsideNumeral
<1>4. v # NoValue /\ v # sexp_null
  BY NotNull
<1> HIDE DEF v
<1>5. /\ p \in 1 .. Len(text) /\ text[p] = Head(stream)
      /\ Left(text, stream') /\ Here(text, stream') = p
  BY <1>2, <1>3, Next1
<1>6. text[p] \in NumeralEnd
  BY <1>2, <1>5
<1> HIDE DEF p
<1>7. ASSUME errors = {} PROVE Decides(text, p, Depth(calls), FALSE)
  <2>1. PICK q \in 1 .. Len(text) :
          /\ Decides(text, q, Depth(calls), FALSE) /\ InWord(text, p, q)
          /\ InNumeral(Word(text, q), p - q, "S_INT", Top.buf.data)
    BY <1>3, <1>7
  <2>2. /\ Word(text, q) \in Seq(STRING) /\ Word(text, q) # <<>> /\ LooksNumeral(Word(text, q)) /\ BeginsWord(text[q])
        /\ p - q = Len(Word(text, q)) /\ WordEnd(text, q) = p /\ Ends(text, q)
    BY <1>3, <1>5, <1>6, <2>1, NumeralEnds
  <2>3. IsInteger(Word(text, q)) /\ ~IsFloat(Word(text, q))
    BY <2>1, <2>2, WholeInteger DEF InNumeral
  <2> QED
    BY <1>3, <2>1, <2>2, <2>3, DecidesNumeral
<1> QED
  BY <1>2, <1>3, <1>4, <1>5, <1>7, Returning

\* It returns a float, and the char after it is lost.
LEMMA FloatEndKeeps == ASSUME IInv, FloatEnd PROVE IInv'
<1> USE DEF FloatEnd
<1> DEFINE p == Here(text, stream)
           v == sexp_new_source_atom("float", Digits(buffer_null_terminate(Top.buf)))
<1>1. "S_FLOAT" \in Numerals
  BY DEF Numerals
<1>2. /\ In("S_FLOAT") /\ stream # <<>> /\ Head(stream) \in NumeralEnd /\ stream' = Tail(stream)
      /\ Return(v) /\ Quiet
  BY DEF At, readc
<1>3. /\ calls # <<>> /\ IsText(text) /\ Len(text) \in Nat
      /\ Depth(calls) = Depth(Front(calls)) /\ Depth(calls) \in Nat
      /\ Left(text, stream)
      /\ errors = {} => \E q \in 1 .. Len(text) :
           /\ Decides(text, q, Depth(calls), FALSE) /\ InWord(text, p, q)
           /\ InNumeral(Word(text, q), p - q, "S_FLOAT", Top.buf.data)
  BY <1>1, <1>2, InsideNumeral
<1>4. v # NoValue /\ v # sexp_null
  BY NotNull
<1> HIDE DEF v
<1>5. /\ p \in 1 .. Len(text) /\ text[p] = Head(stream)
      /\ Left(text, stream') /\ Here(text, stream') = p + 1
  BY <1>2, <1>3, Next1
<1>6. text[p] \in NumeralEnd
  BY <1>2, <1>5
<1> HIDE DEF p
<1>7. ASSUME errors = {} PROVE Decides(text, p + 1, Depth(calls), FALSE)
  <2>1. PICK q \in 1 .. Len(text) :
          /\ Decides(text, q, Depth(calls), FALSE) /\ InWord(text, p, q)
          /\ InNumeral(Word(text, q), p - q, "S_FLOAT", Top.buf.data)
    BY <1>3, <1>7
  <2>2. /\ Word(text, q) \in Seq(STRING) /\ Word(text, q) # <<>> /\ LooksNumeral(Word(text, q)) /\ BeginsWord(text[q])
        /\ p - q = Len(Word(text, q)) /\ WordEnd(text, q) = p /\ Ends(text, q)
    BY <1>3, <1>5, <1>6, <2>1, NumeralEnds
  <2>3. ~IsInteger(Word(text, q)) /\ IsFloat(Word(text, q))
    BY <2>1, <2>2, WholeFloat DEF InNumeral
  <2> QED
    BY <1>3, <2>1, <2>2, <2>3, DecidesNumeral
<1> QED
  BY <1>2, <1>3, <1>4, <1>5, <1>7, Returning

\* It returns a hexadecimal numeral.
LEMMA HexEndKeeps == ASSUME IInv, HexEnd PROVE IInv'
<1> USE DEF HexEnd
<1> DEFINE p == Here(text, stream)
           v == sexp_new_source_atom("uint", Top.buf.data)
<1>1. "S_HEX" \in Numerals
  BY DEF Numerals
<1>2. /\ In("S_HEX") /\ stream # <<>> /\ Head(stream) \in NumeralEnd /\ stream' = stream
      /\ Return(v) /\ Quiet /\ Len(Top.buf.data) <= HEX_DIGITS
  BY DEF At, readc
<1>3. /\ calls # <<>> /\ IsText(text) /\ Len(text) \in Nat
      /\ Depth(calls) = Depth(Front(calls)) /\ Depth(calls) \in Nat
      /\ Left(text, stream)
      /\ errors = {} => \E q \in 1 .. Len(text) :
           /\ Decides(text, q, Depth(calls), FALSE) /\ InWord(text, p, q)
           /\ InNumeral(Word(text, q), p - q, "S_HEX", Top.buf.data)
  BY <1>1, <1>2, InsideNumeral
<1>4. v # NoValue /\ v # sexp_null
  BY NotNull
<1> HIDE DEF v
<1>5. /\ p \in 1 .. Len(text) /\ text[p] = Head(stream)
      /\ Left(text, stream') /\ Here(text, stream') = p
  BY <1>2, <1>3, Next1
<1>6. text[p] \in NumeralEnd
  BY <1>2, <1>5
<1> HIDE DEF p
<1>7. ASSUME errors = {} PROVE Decides(text, p, Depth(calls), FALSE)
  <2>1. PICK q \in 1 .. Len(text) :
          /\ Decides(text, q, Depth(calls), FALSE) /\ InWord(text, p, q)
          /\ InNumeral(Word(text, q), p - q, "S_HEX", Top.buf.data)
    BY <1>3, <1>7
  <2>2. /\ Word(text, q) \in Seq(STRING) /\ Word(text, q) # <<>> /\ LooksNumeral(Word(text, q)) /\ BeginsWord(text[q])
        /\ p - q = Len(Word(text, q)) /\ WordEnd(text, q) = p /\ Ends(text, q)
    BY <1>3, <1>5, <1>6, <2>1, NumeralEnds
  <2>3. ~IsInteger(Word(text, q)) /\ ~IsFloat(Word(text, q)) /\ IsHex(Word(text, q))
    <3>1. HexSoFar(Word(text, q), Len(Word(text, q))) /\ Len(Top.buf.data) = Len(Word(text, q)) - 2
      BY <2>1, <2>2 DEF InNumeral
    <3> QED
      BY <1>2, <2>2, <3>1, WholeHex
  <2> QED
    BY <1>3, <2>1, <2>2, <2>3, DecidesNumeral
<1> QED
  BY <1>2, <1>3, <1>4, <1>5, <1>7, Returning

\* A hexadecimal numeral has too many digits for its word.
LEMMA HexTooLongKeeps == ASSUME IInv, HexTooLong PROVE IInv'
<1> USE DEF HexTooLong
<1> DEFINE p == Here(text, stream)
<1>1. "S_HEX" \in Numerals /\ "OTHER" \in Flags
  BY DEF Numerals, Flags
<1>2. /\ In("S_HEX") /\ stream # <<>> /\ Head(stream) \in NumeralEnd /\ stream' = stream
      /\ Return(sexp_null) /\ Report("OTHER") /\ Len(Top.buf.data) > HEX_DIGITS
  BY DEF At
<1>3. /\ calls # <<>> /\ IsText(text) /\ Len(text) \in Nat /\ Depth(calls) \in Nat /\ IsBuffer(Top.buf)
      /\ Left(text, stream)
      /\ errors = {} => \E q \in 1 .. Len(text) :
           /\ Decides(text, q, Depth(calls), FALSE) /\ InWord(text, p, q)
           /\ InNumeral(Word(text, q), p - q, "S_HEX", Top.buf.data)
  BY <1>1, <1>2, InsideNumeral
<1>4. p \in 1 .. Len(text) /\ text[p] = Head(stream)
  BY <1>2, <1>3, Next1
<1>5. text[p] \in NumeralEnd
  BY <1>2, <1>4
<1> HIDE DEF p
<1>6. ASSUME errors = {} PROVE ~WellFormed(text)
  <2>1. PICK q \in 1 .. Len(text) :
          /\ Decides(text, q, Depth(calls), FALSE) /\ InWord(text, p, q)
          /\ InNumeral(Word(text, q), p - q, "S_HEX", Top.buf.data)
    BY <1>3, <1>6
  <2> DEFINE k == Word(text, q)
  <2>2. /\ k \in Seq(STRING) /\ LooksNumeral(k) /\ BeginsWord(text[q]) /\ p - q = Len(k)
    BY <1>3, <1>4, <1>5, <2>1, NumeralEnds
  <2>3. HexSoFar(k, Len(k)) /\ Len(Top.buf.data) = Len(k) - 2
    BY <2>1, <2>2 DEF InNumeral
  <2> HIDE DEF k
  <2>4. Len(Top.buf.data) \in Nat /\ HEX_DIGITS \in Nat
    BY <1>3, ReaderAssumption, AppendedChar
  <2>5. ~(Len(k) - 2 <= HEX_DIGITS)
    BY <1>2, <2>3, <2>4
  <2>6. ~(IsInteger(k) \/ IsFloat(k) \/ IsHex(k))
    BY <2>2, <2>3, <2>5, WholeHex
  <2> QED
    BY <1>3, <2>1, <2>2, <2>6, DecidesNoNumeral DEF k
<1> QED
  BY <1>1, <1>2, <1>3, <1>6, Reporting

\* A numeral that is broken is none.
LEMMA NumeralBroken ==
  ASSUME NEW k \in Seq(STRING), NEW n \in 1 .. Len(k) - 1, NEW at, NEW data, \E S : data \in Seq(S),
         InNumeral(k, n, at, data),
         \/ at = "S_INT" /\ k[n + 1] \notin Digit \cup {"."} /\ ~(k[n + 1] = "x" /\ data = <<"0">>)
         \/ at = "S_INTDOT" /\ k[n + 1] \notin Digit
         \/ at = "S_FLOAT" /\ k[n + 1] \notin Digit
         \/ at = "S_HEX" /\ k[n + 1] \notin HexDigit
  PROVE  ~IsInteger(k) /\ ~IsFloat(k) /\ ~IsHex(k)
<1>1. n \in 1 .. Len(k) /\ Len(k) \in Nat
  OBVIOUS
<1>2. CASE at = "S_INT" /\ k[n + 1] \notin Digit \cup {"."} /\ ~(k[n + 1] = "x" /\ data = <<"0">>)
  <2>1. IntSoFar(k, n) /\ Len(data) = n /\ data[1] = k[1]
    BY <1>2 DEF InNumeral
  <2>2. ASSUME n = 1, k[1] = "0" PROVE data = <<"0">>
    <3>1. PICK S : data \in Seq(S)
      OBVIOUS
    <3>2. data \in Seq(S \cup {"0"}) /\ <<"0">> \in Seq(S \cup {"0"}) /\ Len(<<"0">>) = 1 /\ <<"0">>[1] = "0"
      <4>1. data \in Seq(S \cup {"0"})
        BY <3>1, SeqMonotonic
      <4> QED
        BY <4>1
    <3>3. \A i \in 1 .. Len(data) : data[i] = <<"0">>[i]
      BY <2>1, <2>2, <3>2
    <3>4. Len(data) = Len(<<"0">>)
      BY <2>1, <2>2, <3>2
    <3> QED
      BY ONLY <3>2, <3>3, <3>4, SeqEqual
  <2>3. ~(k[n + 1] = "x" /\ n = 1 /\ k[1] = "0")
    BY <1>2, <2>2
  <2> QED
    BY <1>2, <2>1, <2>3, IntegerBroken
<1>3. CASE at = "S_INTDOT" /\ k[n + 1] \notin Digit
  BY <1>1, <1>3, DotBroken DEF InNumeral
<1>4. CASE at = "S_FLOAT" /\ k[n + 1] \notin Digit
  BY <1>4, FloatBroken DEF InNumeral
<1>5. CASE at = "S_HEX" /\ k[n + 1] \notin HexDigit
  BY <1>5, HexBroken DEF InNumeral
<1> QED
  BY <1>2, <1>3, <1>4, <1>5

\* A numeral is broken off by a char that does not fit.
LEMMA NumeralErrorKeeps == ASSUME IInv, NumeralError PROVE IInv'
<1> USE DEF NumeralError
<1> DEFINE p == Here(text, stream)
<1>1. PICK at \in Numerals :
        /\ In(at)
        /\ \/ at = "S_INT" /\ ~At(Digit \cup {"."} \cup NumeralEnd) /\ ~(At({"x"}) /\ Top.buf.data = <<"0">>)
           \/ at = "S_INTDOT" /\ ~At(Digit)
           \/ at = "S_FLOAT" /\ ~At(Digit \cup NumeralEnd)
           \/ at = "S_HEX" /\ ~At(HexDigit \cup NumeralEnd)
  BY DEF Numerals
<1>2. /\ Return(sexp_null) /\ Report("OTHER") /\ "OTHER" \in Flags
      /\ (stream = <<>> => stream' = stream) /\ (stream # <<>> => stream' = Tail(stream))
  BY DEF AtEOF, Flags
<1>3. /\ calls # <<>> /\ IsText(text) /\ Len(text) \in Nat /\ Depth(calls) \in Nat /\ IsBuffer(Top.buf)
      /\ Left(text, stream)
      /\ errors = {} => \E q \in 1 .. Len(text) :
           /\ Decides(text, q, Depth(calls), FALSE) /\ InWord(text, p, q)
           /\ InNumeral(Word(text, q), p - q, at, Top.buf.data)
  BY <1>1, InsideNumeral
<1>4. /\ Left(text, stream')
      /\ stream = <<>> => p = Len(text) + 1
      /\ stream # <<>> => p \in 1 .. Len(text) /\ text[p] = Head(stream)
  BY <1>2, <1>3, Next1
<1> HIDE DEF p
<1>5. ASSUME errors = {} PROVE ~WellFormed(text)
  <2>1. PICK q \in 1 .. Len(text) :
          /\ Decides(text, q, Depth(calls), FALSE) /\ InWord(text, p, q)
          /\ InNumeral(Word(text, q), p - q, at, Top.buf.data)
    BY <1>3, <1>5
  <2> DEFINE k == Word(text, q)
             n == p - q
  <2>2. p \in q + 1 .. Len(text) + 1 /\ BeginsWord(text[q]) /\ n <= Len(k) /\ LooksNumeral(k)
    BY <2>1 DEF InWord
  <2>3. /\ k \in Seq(STRING) /\ n \in 1 .. Len(k)
        /\ p = Len(text) + 1 => n = Len(k) /\ ~Ends(text, q)
        /\ p <= Len(text) /\ text[p] \in Delimiter => n = Len(k) /\ (Ends(text, q) <=> text[p] # "(")
        /\ p <= Len(text) /\ text[p] \notin Delimiter => n < Len(k) /\ k[n + 1] = text[p]
    BY <1>3, <2>2, WordGoesOn
  <2>4. InNumeral(k, n, at, Top.buf.data) /\ (\E S : Top.buf.data \in Seq(S))
    BY <1>3, <2>1 DEF IsBuffer
  <2> HIDE DEF k, n
  <2>5. ~Ends(text, q) \/ ~(IsInteger(k) \/ IsFloat(k) \/ IsHex(k))
    <3>1. CASE stream = <<>>
      BY <1>4, <2>3, <3>1
    <3>2. CASE stream # <<>> /\ text[p] = "("
      <4>1. p <= Len(text) /\ text[p] \in Delimiter
        BY <1>3, <1>4, <3>2 DEF Delimiter
      <4> QED
        BY <2>3, <3>2, <4>1
    <3>3. CASE stream # <<>> /\ text[p] \notin Delimiter
      <4>1. n \in 1 .. Len(k) - 1 /\ k[n + 1] = text[p]
        BY <1>3, <1>4, <2>3, <3>3
      <4>2. At({text[p]}) /\ \A S : ~At(S) => text[p] \notin S
        BY <1>4, <3>3 DEF At
      <4>3. \/ at = "S_INT" /\ k[n + 1] \notin Digit \cup {"."} /\ ~(k[n + 1] = "x" /\ Top.buf.data = <<"0">>)
            \/ at = "S_INTDOT" /\ k[n + 1] \notin Digit
            \/ at = "S_FLOAT" /\ k[n + 1] \notin Digit
            \/ at = "S_HEX" /\ k[n + 1] \notin HexDigit
        <5>1. k[n + 1] = "x" => At({"x"})
          BY <4>1, <4>2
        <5>2. /\ ~At(Digit \cup {"."} \cup NumeralEnd) => k[n + 1] \notin Digit \cup {"."}
              /\ ~At(Digit) => k[n + 1] \notin Digit
              /\ ~At(Digit \cup NumeralEnd) => k[n + 1] \notin Digit
              /\ ~At(HexDigit \cup NumeralEnd) => k[n + 1] \notin HexDigit
          BY <4>1, <4>2
        <5> QED
          BY <1>1, <5>1, <5>2
      <4> QED
        BY <2>3, <2>4, <4>1, <4>3, NumeralBroken
    <3>4. CASE stream # <<>> /\ text[p] \in Delimiter /\ text[p] # "("
      <4>1. p <= Len(text) /\ text[p] \in NumeralEnd
        BY <1>3, <1>4, <3>4 DEF Delimiter, NumeralEnd
      <4>2. At(NumeralEnd) /\ \A S : NumeralEnd \subseteq S => At(S)
        BY <1>4, <3>4, <4>1 DEF At
      <4>3. at = "S_INTDOT"
        BY <1>1, <4>2
      <4>4. n = Len(k)
        BY <2>3, <3>4, <4>1
      <4> QED
        BY <2>3, <2>4, <4>3, <4>4, DotBroken DEF InNumeral
    <3> QED
      BY <3>1, <3>2, <3>3, <3>4
  <2> QED
    BY <1>3, <2>1, <2>2, <2>5, DecidesNoNumeral DEF k
<1> QED
  BY <1>2, <1>3, <1>4, <1>5, Reporting

-----------------------------------------------------------------------------
(* Errors *)

\* Every step of reads keeps the invariant.
LEMMA ReadsKeeps == ASSUME IInv, reads PROVE IInv'
BY ReadsSkipKeeps, ReadsMacroKeeps, ReadsEOFKeeps, ReadsUnmatchedKeeps, ReadsListKeeps, ReadsAtomKeeps,
   AtomCharKeeps, AtomEndKeeps,
   ListMacroKeeps, ListUnclosedKeeps, ListSkipKeeps, ListOpenKeeps, ListAtomKeeps, ListAtomCharKeeps,
   ListAtomEndKeeps, ListCloseKeeps, ListAppendKeeps, Zenon DEF reads

\* So does every step of a string.
LEMMA StringsKeep == ASSUME IInv, str_reader_macro PROVE IInv'
BY StringCharKeeps, StringEndKeeps, StringUnterminatedKeeps, EscapeSimpleKeeps, EscapeOctalKeeps,
   EscapeOctalAbortsKeeps, EscapeHexKeeps, EscapeUnknownKeeps, Zenon DEF str_reader_macro

\* So does every step of a numeral.
LEMMA NumeralsKeep == ASSUME IInv, numeral_reader_macro PROVE IInv'
<1>1. CASE NumeralChar("S_INT", Digit, "S_INT")
  BY <1>1, NumeralCharKeeps
<1>2. CASE NumeralChar("S_INT", {"."}, "S_INTDOT")
  BY <1>2, NumeralCharKeeps
<1>3. CASE NumeralChar("S_INTDOT", Digit, "S_FLOAT")
  BY <1>3, NumeralCharKeeps
<1>4. CASE NumeralChar("S_FLOAT", Digit, "S_FLOAT")
  BY <1>4, NumeralCharKeeps
<1>5. CASE NumeralChar("S_HEX", HexDigit, "S_HEX")
  BY <1>5, NumeralCharKeeps
<1> QED
  BY <1>1, <1>2, <1>3, <1>4, <1>5, NumeralMinusKeeps, NumeralBeginKeeps, NumeralPrefixKeeps, IntEndKeeps,
     HexEndKeeps, HexTooLongKeeps, FloatEndKeeps, NumeralErrorKeeps, Zenon DEF numeral_reader_macro

\* So does every step.
LEMMA NextKeeps == ASSUME IInv, [Next]_vars PROVE IInv'
BY CallReadsKeeps, TakeSexpKeeps, ReadsKeeps, CommentSkipKeeps, CommentEndKeeps, QuoteKeeps, QuoteReturnKeeps,
   StringsKeep, NumeralsKeep, IdleKeeps, Zenon DEF Next

\* What the reader has found out about the text is true at every step.
THEOREM SpecIInv == Spec => []IInv
BY InitIInv, NextKeeps, PTL DEF Spec

\* A quote that is unread is one char in front of a suffix of the text.
LEMMA UnreadSuffix ==
  ASSUME NEW t, IsText(t), NEW s, Unread(t, s)
  PROVE  s # <<>> /\ Head(s) \in {"quotes"} /\ IsSuffix(Tail(s), t) /\ Len(s) <= Len(t)
<1>1. PICK h \in 1 .. Len(t) : s = <<"quotes">> \o SubSeq(t, h + 1, Len(t))
  BY DEF Unread
<1>2. /\ s # <<>> /\ Head(s) = "quotes" /\ Len(s) = Len(t) - h + 1 /\ Left(t, Tail(s))
  BY <1>1, UnreadIs
<1>3. t \in Seq(STRING) /\ Len(t) \in Nat
  BY DEF IsText
<1>4. IsSuffix(Tail(s), t)
  BY <1>2, <1>3, LeftIsSuffix
<1> QED
  BY <1>2, <1>3, <1>4

\* The type invariant follows: an unread quote is the char before what is left.
LEMMA IInvTypeOK == IInv => TypeOK
<1> SUFFICES ASSUME IInv PROVE TypeOK
  OBVIOUS
<1>1. IsText(text) /\ text \in Seq(STRING)
  BY TextsAre DEF IInv, Typed, IsText
<1>2. ASSUME NEW i \in DOMAIN calls
      PROVE  calls[i].at \in Places /\ calls[i].macros \in BOOLEAN /\ Fits(calls[i].buf)
  BY DEF IInv, Typed, IsStack, IsCall, IsBuffer
<1>3. IsSuffix(stream, text) \/
      (In("string") /\ At({"quotes"}) /\ IsSuffix(Tail(stream), text) /\ Len(stream) <= Len(text))
  <2>1. CASE Left(text, stream)
    BY <1>1, <2>1, LeftIsSuffix
  <2>2. CASE ~Left(text, stream)
    <3>1. calls # <<>> /\ value = NoValue /\ Top.at = "string" /\ Unread(text, stream)
      BY <2>2 DEF IInv, Typed, Placed
    <3> QED
      BY <1>1, <3>1, UnreadSuffix DEF In, At
  <2> QED
    BY <2>1, <2>2
<1> QED
  BY <1>2, <1>3 DEF IInv, Typed, TypeOK

\* Every variable stays in its type, what is unread was read before, and the
\* buffers grow in time, whatever the texts and the capacity of a new buffer.
THEOREM ReaderTypeOK == Spec => []TypeOK
BY SpecIInv, IInvTypeOK, PTL

\* When the caller has got its null sexp, an error has been reported if and only
\* if the text is no program, for texts of any length and any depth.
THEOREM ReaderErrorsExact == Spec => []ErrorsExact
<1>1. IInv => ErrorsExact
  BY DEF IInv, Known, ErrorsExact
<1> QED
  BY <1>1, SpecIInv, PTL

-----------------------------------------------------------------------------
(* Length-prefixed strings *)

\* What the recursive definition of the shifted lengths defines: each is the one
\* before without its last byte.
LEMMA ShiftedValues ==
  ASSUME NEW len \in Nat
  PROVE  /\ Shifted(len) \in [0 .. len -> Nat]
         /\ Shifted(len)[0] = len
         /\ \A k \in 1 .. len : Shifted(len)[k] = Shifted(len)[k - 1] \div BYTE
<1> DEFINE F == [k \in 1 .. len |-> [x \in Nat |-> x \div BYTE]]
<1>0. BYTE \in Nat \ {0}
  BY LpsAssumption
<1>1. \A k \in 1 .. len, x \in Nat : F[k][x] \in Nat
  BY <1>0
<1>2. \A k \in 1 .. len, x \in Nat : F[k][x] = x \div BYTE
  OBVIOUS
<1> HIDE DEF F
<1>3. PICK g \in [0 .. len -> Nat] : g[0] = len /\ \A k \in 1 .. len : g[k] = F[k][g[k - 1]]
  <2>1. PICK g \in [0 .. len -> Nat] : Iterates(g, len, F, len)
    BY <1>1, Iterate
  <2> QED
    BY <2>1 DEF Iterates
<1>4. ASSUME NEW k \in 1 .. len PROVE g[k] = g[k - 1] \div BYTE
  <2>1. k - 1 \in 0 .. len
    OBVIOUS
  <2>2. g[k - 1] \in Nat
    BY <1>3, <2>1
  <2> QED
    BY <1>2, <1>3, <2>2
<1> DEFINE d == Shifted(len)
<1>5. g = [k \in 0 .. len |-> IF k = 0 THEN len ELSE g[k - 1] \div BYTE]
  BY <1>3, <1>4
<1>6. d = [k \in 0 .. len |-> IF k = 0 THEN len ELSE d[k - 1] \div BYTE]
  BY <1>5 DEF Shifted
<1> HIDE DEF d
<1>7. d[0] = len /\ \A k \in 1 .. len : d[k] = d[k - 1] \div BYTE
  BY <1>6
<1>8. DOMAIN d = 0 .. len /\ d = [k \in 0 .. len |-> d[k]]
  BY <1>6
<1>9. \A k \in 0 .. len : d[k] \in Nat
  <2> DEFINE T == {k \in 0 .. len : d[k] \in Nat}
  <2>1. 0 \in T
    BY <1>7
  <2>2. ASSUME NEW k \in 1 .. len, k - 1 \in T PROVE k \in T
    <3>1. d[k - 1] \in Nat
      BY <2>2
    <3>2. d[k - 1] \div BYTE \in Nat
      BY <1>0, <3>1, DivMod
    <3> QED
      BY <1>7, <3>2
  <2> HIDE DEF T
  <2>3. 0 .. len \subseteq T
    BY <2>1, <2>2, UpTo
  <2> QED
    BY <2>3 DEF T
<1>10. d \in [0 .. len -> Nat]
  BY <1>8, <1>9
<1> QED
  BY <1>7, <1>10 DEF d

\* Every length has a number of bytes: the last one is left when one less is shifted out.
LEMMA BytesAre ==
  ASSUME NEW len \in Nat
  PROVE  /\ Bytes(len) \in 0 .. len
         /\ Shifted(len)[Bytes(len)] = 0
         /\ \A k \in 1 .. Bytes(len) :
              Shifted(len)[k - 1] = Shifted(len)[k] * BYTE + (Shifted(len)[k - 1] % BYTE)
<1> DEFINE S == Shifted(len)
<1>0. BYTE \in Nat \ {0} /\ BYTE >= 8
  BY LpsAssumption
<1>1. S \in [0 .. len -> Nat] /\ S[0] = len /\ \A k \in 1 .. len : S[k] = S[k - 1] \div BYTE
  BY ShiftedValues
<1> HIDE DEF S
<1>2. ASSUME NEW k \in 1 .. len
      PROVE  /\ S[k - 1] = S[k] * BYTE + (S[k - 1] % BYTE)
             /\ S[k] <= S[k - 1] /\ (S[k - 1] > 0 => S[k] < S[k - 1])
             /\ S[k - 1] \in Nat /\ S[k] \in Nat
  <2>1. k - 1 \in 0 .. len /\ k \in 0 .. len
    OBVIOUS
  <2>2. S[k - 1] \in Nat /\ S[k] \in Nat
    BY <1>1, <2>1
  <2> DEFINE x == S[k - 1]
             y == S[k]
             r == x % BYTE
  <2>3. y = x \div BYTE
    BY <1>1
  <2>4. x \div BYTE \in Nat /\ r \in 0 .. BYTE - 1 /\ (x \div BYTE) * BYTE + r = x
    BY <1>0, <2>2, DivMod
  <2>5. y * BYTE + r = x /\ r \in Nat
    BY <2>3, <2>4
  <2>6. x \in Nat /\ y \in Nat
    BY <2>2
  <2> HIDE DEF x, y, r
  <2>7. y * BYTE >= y * 8
    BY <1>0, <2>6
  <2>8. y * 8 <= x /\ y <= x
    BY <1>0, <2>5, <2>6, <2>7
  <2>9. y <= x /\ (x > 0 => y < x)
    BY <2>6, <2>8
  <2>10. x = y * BYTE + r
    BY <2>5
  <2>11. S[k - 1] = S[k] * BYTE + (S[k - 1] % BYTE)
    BY <2>10, Zenon DEF x, y, r
  <2>12. S[k] <= S[k - 1] /\ (S[k - 1] > 0 => S[k] < S[k - 1])
    BY <2>9, Zenon DEF x, y
  <2> QED
    BY <2>2, <2>11, <2>12, Zenon
<1>3. \A k \in 0 .. len : S[k] <= len - k
  <2> DEFINE T == {k \in 0 .. len : S[k] <= len - k}
  <2>1. 0 \in T
    BY <1>1
  <2>2. ASSUME NEW k \in 1 .. len, k - 1 \in T PROVE k \in T
    <3>1. S[k - 1] <= len - (k - 1)
      BY <2>2
    <3> QED
      BY <1>2, <3>1
  <2> HIDE DEF T
  <2>3. 0 .. len \subseteq T
    BY <2>1, <2>2, UpTo
  <2> QED
    BY <2>3 DEF T
<1>4. S[len] = 0
  BY <1>1, <1>3, len \in 0 .. len
<1> DEFINE Z == {k \in 0 .. len : S[k] = 0}
<1>5. Z \subseteq Nat /\ len \in Z
  BY <1>4
<1>6. PICK b \in Z : \A j \in Z : b <= j
  <2> HIDE DEF Z
  <2> QED
    BY <1>5, LeastOf
<1>7. b \in 0 .. len /\ S[b] = 0 /\ \A j \in 0 .. b - 1 : S[j] # 0
  BY <1>6
<1>8. Bytes(len) \in 0 .. len /\ S[Bytes(len)] = 0
  BY <1>7 DEF Bytes, S
<1> QED
  BY <1>2, <1>8 DEF S

\* The value of digits to the base BYTE, digit by digit.
LEMMA DecodedValues ==
  ASSUME NEW bytes \in Seq(Nat)
  PROVE  \E d \in [0 .. Len(bytes) -> Nat] :
           /\ d[0] = 0
           /\ \A i \in 1 .. Len(bytes) : d[i] = d[i - 1] * BYTE + bytes[i]
           /\ Decoded(bytes) = d[Len(bytes)]
<1> DEFINE n == Len(bytes)
           F == [k \in 1 .. n |-> [x \in Nat |-> x * BYTE + bytes[k]]]
<1>0. BYTE \in Nat /\ n \in Nat /\ \A k \in 1 .. n : bytes[k] \in Nat
  BY LpsAssumption, ElementOfSeq, LenProperties
<1> HIDE DEF n
<1>1. \A k \in 1 .. n, x \in Nat : F[k][x] \in Nat
  BY <1>0
<1>2. \A k \in 1 .. n, x \in Nat : F[k][x] = x * BYTE + bytes[k]
  OBVIOUS
<1> HIDE DEF F
<1>3. PICK g \in [0 .. n -> Nat] : g[0] = 0 /\ \A k \in 1 .. n : g[k] = F[k][g[k - 1]]
  <2>1. PICK g \in [0 .. n -> Nat] : Iterates(g, 0, F, n)
    BY <1>0, <1>1, Iterate
  <2> QED
    BY <2>1 DEF Iterates
<1>4. ASSUME NEW k \in 1 .. n PROVE g[k] = g[k - 1] * BYTE + bytes[k]
  <2>1. k - 1 \in 0 .. n
    BY <1>0
  <2>2. g[k - 1] \in Nat
    BY <1>3, <2>1
  <2> QED
    BY <1>2, <1>3, <2>2
<1> DEFINE Rec(f) == f = [i \in 0 .. n |-> IF i = 0 THEN 0 ELSE f[i - 1] * BYTE + bytes[i]]
           d == CHOOSE f : Rec(f)
<1>5. Rec(g)
  BY <1>3, <1>4
<1>6. Rec(d)
  BY <1>5
<1>7. Decoded(bytes) = d[n]
  BY DEF Decoded, n
<1> HIDE DEF d
<1>8. d[0] = 0 /\ \A k \in 1 .. n : d[k] = d[k - 1] * BYTE + bytes[k]
  BY <1>0, <1>6
<1>9. DOMAIN d = 0 .. n /\ d = [k \in 0 .. n |-> d[k]]
  BY <1>6
<1>10. \A k \in 0 .. n : d[k] \in Nat
  <2> DEFINE T == {k \in 0 .. n : d[k] \in Nat}
  <2>1. 0 \in T
    BY <1>0, <1>8
  <2>2. ASSUME NEW k \in 1 .. n, k - 1 \in T PROVE k \in T
    <3>1. d[k - 1] \in Nat
      BY <2>2
    <3>2. d[k] = d[k - 1] * BYTE + bytes[k] /\ bytes[k] \in Nat
      BY <1>0, <1>8
    <3>3. ASSUME NEW x \in Nat, NEW y \in Nat PROVE x * BYTE + y \in Nat
      BY <1>0
    <3>4. d[k] \in Nat
      BY <3>1, <3>2, <3>3
    <3> QED
      BY <1>0, <3>4
  <2> HIDE DEF T
  <2>3. 0 .. n \subseteq T
    BY <1>0, <2>1, <2>2, UpTo
  <2> QED
    BY <2>3 DEF T
<1>11. d \in [0 .. n -> Nat]
  BY <1>9, <1>10
<1> QED
  BY <1>7, <1>8, <1>11 DEF n

\* The length that is written before the chars is read back.
LEMMA LengthReadBack ==
  ASSUME NEW len \in Nat, NEW c
  PROVE  lps_len([before |-> LengthBytes(len), chars |-> c]) = len
<1>0. BYTE \in Nat /\ BYTE >= 8 /\ HALF \in Nat /\ HALF >= 4
  BY LpsAssumption DEF HALF
<1> DEFINE S == Shifted(len)
           q == Bytes(len)
           n == prefix_len_from_strlen(len)
           b == LengthBytes(len)
<1>1. S \in [0 .. len -> Nat] /\ S[0] = len
  BY ShiftedValues
<1>2. q \in 0 .. len /\ S[q] = 0 /\ \A k \in 1 .. q : S[k - 1] = S[k] * BYTE + (S[k - 1] % BYTE)
  BY BytesAre
<1>3. n = IF len > HALF - 1 THEN 1 + q ELSE 1
  BY DEF prefix_len_from_strlen
<1>4. b = [i \in 1 .. n |-> CASE i < n -> S[n - 1 - i] % BYTE
                              [] n = 1 -> len
                              [] OTHER -> HALF + n]
  BY DEF LengthBytes
<1> HIDE DEF S, q, n, b
<1>5. n \in Nat /\ n >= 1
  BY <1>2, <1>3
<1>6. b \in Seq(Nat) /\ Len(b) = n
  <2>1. ASSUME NEW i \in 1 .. n PROVE b[i] \in Nat
    <3>1. CASE i < n
      <4>1. n = 1 + q /\ n - 1 - i \in 0 .. len
        BY <1>2, <1>3, <3>1
      <4> DEFINE x == S[n - 1 - i]
      <4>2. x \in Nat
        BY <1>1, <4>1
      <4>3. b[i] = x % BYTE
        BY <1>4, <3>1
      <4> HIDE DEF x
      <4>4. x % BYTE \in Nat
        BY <1>0, <4>2, DivMod
      <4> QED
        BY <4>3, <4>4
    <3>2. CASE ~(i < n)
      BY <1>0, <1>4, <1>5, <3>2
    <3> QED
      BY <3>1, <3>2
  <2>2. DOMAIN b = 1 .. n
    BY <1>4
  <2>3. b \in [1 .. n -> Nat]
    BY <1>4, <2>1, <2>2
  <2> QED
    BY <1>5, <2>3, LenProperties, SeqDef
<1>7. b[n] = IF n = 1 THEN len ELSE HALF + n
  BY <1>4, <1>5
<1> DEFINE r == [before |-> b, chars |-> c]
<1>8. r.before = b
  OBVIOUS
<1>9. lps_len(r) = IF b[n] < HALF THEN b[n] ELSE Decoded(SubSeq(b, n - (b[n] - HALF) + 1, n - 1))
  BY <1>6, <1>8 DEF lps_len
<1>10. CASE n = 1
  <2>1. len < HALF
    <3>1. CASE len > HALF - 1
      <4>1. q = 0
        BY <1>2, <1>3, <1>10, <3>1
      <4> QED
        BY <1>0, <1>1, <1>2, <3>1, <4>1
    <3>2. CASE ~(len > HALF - 1)
      BY <1>0, <3>2
    <3> QED
      BY <3>1, <3>2
  <2> QED
    BY <1>7, <1>9, <1>10, <2>1 DEF b
<1>11. CASE n # 1
  <2>1. n = 1 + q /\ q >= 1
    BY <1>2, <1>3, <1>5, <1>11
  <2>2. ~(b[n] < HALF) /\ n - (b[n] - HALF) + 1 = 1 /\ n - 1 = q
    BY <1>0, <1>2, <1>5, <1>7, <1>11, <2>1
  <2> DEFINE m == SubSeq(b, 1, q)
  <2>3. lps_len(r) = Decoded(m)
    BY <1>9, <2>2
  <2>4. m \in Seq(Nat) /\ Len(m) = q /\ \A i \in 1 .. q : m[i] = b[i]
    <3>1. \A i \in 1 .. n : b[i] \in Nat
      BY <1>6, ElementOfSeq
    <3>2. \A i \in 1 .. q : b[i] \in Nat
      BY <1>2, <2>1, <3>1
    <3>4. q \in Int /\ 1 \in Int
      BY <1>2
    <3>3. /\ m \in Seq(Nat)
          /\ Len(m) = IF 1 <= q THEN q - 1 + 1 ELSE 0
          /\ \A i \in 1 .. q - 1 + 1 : m[i] = b[1 + i - 1]
      BY ONLY <3>2, <3>4, SubSeqProperties
    <3> QED
      BY <1>2, <2>1, <3>3
  <2> HIDE DEF m
  <2>5. PICK d \in [0 .. q -> Nat] :
          d[0] = 0 /\ (\A i \in 1 .. q : d[i] = d[i - 1] * BYTE + m[i]) /\ Decoded(m) = d[q]
    BY <2>4, DecodedValues
  <2>6. \A i \in 0 .. q : d[i] = S[q - i]
    <3> DEFINE T == {i \in 0 .. q : d[i] = S[q - i]}
    <3>1. 0 \in T
      BY <1>2, <2>5, q - 0 = q
    <3>2. ASSUME NEW i \in 1 .. q, i - 1 \in T PROVE i \in T
      <4>1. d[i - 1] = S[q - i + 1] /\ q - (i - 1) = q - i + 1
        BY <1>2, <3>2
      <4>2. m[i] = S[q - i] % BYTE
        <5>1. i \in 1 .. n /\ i < n /\ n - 1 - i = q - i
          BY <1>2, <2>1
        <5>2. b[i] = S[n - 1 - i] % BYTE
          BY <1>4, <5>1
        <5> QED
          BY <2>4, <5>1, <5>2
      <4>3. S[q - i] = S[q - i + 1] * BYTE + (S[q - i] % BYTE)
        <5>1. q - i + 1 \in 1 .. q /\ (q - i + 1) - 1 = q - i
          BY <1>2
        <5> QED
          BY <1>2, <5>1
      <4>4. d[i] = S[q - i]
        <5>1. d[i] = d[i - 1] * BYTE + m[i]
          BY <2>5
        <5> QED
          BY <4>1, <4>2, <4>3, <5>1, Zenon
      <4>5. i \in 0 .. q
        BY <1>2
      <4> QED
        BY <4>4, <4>5, Zenon
    <3> HIDE DEF T
    <3>3. q \in Nat
      BY <1>2
    <3>4. 0 .. q \subseteq T
      BY <3>1, <3>2, <3>3, UpTo
    <3> QED
      BY <3>4 DEF T
  <2>7. d[q] = S[0]
    BY <1>2, <2>6
  <2> QED
    BY <1>1, <2>3, <2>5, <2>7 DEF b
<1> QED
  BY <1>10, <1>11 DEF b

\* The chars of which a length-prefixed string is made are the chars it has,
\* however many they are: whether their number fits the byte before them or takes
\* several bytes more (lps_from_chars_with_len, lps_len in lps.c).
THEOREM LpsRoundTrip ==
  ASSUME NEW S, NEW s \in Seq(S), NEW len \in 0 .. Len(s)
  PROVE  Chars(lps_from_chars_with_len(s, len)) = SubSeq(s, 1, len)
<1> DEFINE c == SubSeq(s, 1, len)
           r == [before |-> LengthBytes(len), chars |-> c]
<1>1. lps_from_chars_with_len(s, len) = r
  BY DEF lps_from_chars_with_len
<1>2. lps_len(r) = len
  BY LengthReadBack
<1>3. r.chars = c
  OBVIOUS
<1>4. Chars(r) = SubSeq(c, 1, len)
  BY <1>2, <1>3 DEF Chars
<1>5. \A i \in 1 .. len : s[i] \in S
  BY ElementOfSeq
<1>6. c \in Seq(S) /\ Len(c) = len /\ \A i \in 1 .. len : c[i] = s[i]
  <2>1. /\ c \in Seq(S)
        /\ Len(c) = IF 1 <= len THEN len - 1 + 1 ELSE 0
        /\ \A i \in 1 .. len - 1 + 1 : c[i] = s[1 + i - 1]
    BY ONLY <1>5, len \in Int, 1 \in Int, SubSeqProperties
  <2> QED
    BY <2>1
<1> HIDE DEF c
<1>7. SubSeq(c, 1, len) = c
  <2>1. /\ SubSeq(c, 1, len) \in Seq(S)
        /\ Len(SubSeq(c, 1, len)) = IF 1 <= len THEN len - 1 + 1 ELSE 0
        /\ \A i \in 1 .. len - 1 + 1 : SubSeq(c, 1, len)[i] = c[1 + i - 1]
    <3>1. \A i \in 1 .. len : c[i] \in S
      BY <1>5, <1>6
    <3> QED
      BY ONLY <3>1, len \in Int, 1 \in Int, SubSeqProperties
  <2>2. Len(SubSeq(c, 1, len)) = len /\ \A i \in 1 .. len : SubSeq(c, 1, len)[i] = c[i]
    BY <2>1
  <2> QED
    BY <1>6, <2>1, <2>2, SeqEqual
<1> QED
  BY <1>1, <1>4, <1>7 DEF c

-----------------------------------------------------------------------------
(* Sequences *)

\* A sequence, of whatever it is.
IsSeq(s) == \E S : s \in Seq(S)

\* Sequences are sequences over one set.
LEMMA OneSet ==
  ASSUME NEW a, IsSeq(a), NEW b, IsSeq(b), NEW c, IsSeq(c)
  PROVE  \E S : a \in Seq(S) /\ b \in Seq(S) /\ c \in Seq(S)
<1>1. PICK A : a \in Seq(A)
  BY DEF IsSeq
<1>2. PICK B : b \in Seq(B)
  BY DEF IsSeq
<1>3. PICK C : c \in Seq(C)
  BY DEF IsSeq
<1> DEFINE S == (A \cup B) \cup C
<1>4. A \subseteq S /\ B \subseteq S /\ C \subseteq S
  OBVIOUS
<1> HIDE DEF S
<1>5. a \in Seq(S) /\ b \in Seq(S) /\ c \in Seq(S)
  BY <1>1, <1>2, <1>3, <1>4, SeqMonotonic
<1> QED
  BY <1>5

\* Sequences one after the other.
LEMMA Joined ==
  ASSUME NEW a, IsSeq(a), NEW b, IsSeq(b)
  PROVE  /\ IsSeq(a \o b) /\ Len(a) \in Nat /\ Len(b) \in Nat /\ Len(a \o b) = Len(a) + Len(b)
         /\ \A i \in 1 .. Len(a) : (a \o b)[i] = a[i]
         /\ \A i \in 1 .. Len(b) : (a \o b)[Len(a) + i] = b[i]
<1>1. PICK S : a \in Seq(S) /\ b \in Seq(S)
  BY OneSet
<1>2. Len(a) \in Nat /\ Len(b) \in Nat
  BY <1>1
<1>3. /\ a \o b \in Seq(S) /\ Len(a \o b) = Len(a) + Len(b)
      /\ \A i \in 1 .. Len(a) + Len(b) : (a \o b)[i] = IF i <= Len(a) THEN a[i] ELSE b[i - Len(a)]
  BY <1>1, ConcatProperties
<1>4. \A i \in 1 .. Len(a) : (a \o b)[i] = a[i]
  BY <1>2, <1>3
<1>5. ASSUME NEW i \in 1 .. Len(b) PROVE (a \o b)[Len(a) + i] = b[i]
  <2>1. Len(a) + i \in 1 .. Len(a) + Len(b) /\ ~(Len(a) + i <= Len(a)) /\ Len(a) + i - Len(a) = i
    BY <1>2
  <2> QED
    BY <1>3, <2>1
<1> QED
  BY <1>2, <1>3, <1>4, <1>5 DEF IsSeq

\* It makes no difference which two of three sequences are joined first.
Associates(a, b, c) == (a \o b) \o c = a \o (b \o c)

\* In whatever order they are joined.
LEMMA JoinedThrice ==
  ASSUME NEW a, IsSeq(a), NEW b, IsSeq(b), NEW c, IsSeq(c)
  PROVE  Associates(a, b, c)
<1>1. PICK S : a \in Seq(S) /\ b \in Seq(S) /\ c \in Seq(S)
  BY OneSet
<1>2. (a \o b) \o c = a \o (b \o c)
  BY <1>1, ConcatAssociative
<1> QED
  BY ONLY <1>2 DEF Associates

\* Nothing is a sequence, and adds nothing to one.
LEMMA JoinedNothing ==
  /\ IsSeq(<<>>) /\ Len(<<>>) = 0
  /\ \A a : IsSeq(a) => a \o <<>> = a /\ <<>> \o a = a
<1>1. <<>> \in Seq({}) /\ Len(<<>>) = 0
  BY EmptySeq
<1>2. ASSUME NEW a, IsSeq(a) PROVE a \o <<>> = a /\ <<>> \o a = a
  <2>1. PICK S : a \in Seq(S)
    BY <1>2 DEF IsSeq
  <2> QED
    BY <2>1, ConcatEmptySeq
<1> QED
  BY <1>1, <1>2 DEF IsSeq

\* One element before others.
LEMMA JoinedOne ==
  ASSUME NEW x, NEW a, IsSeq(a)
  PROVE  /\ IsSeq(<<x>>) /\ Len(<<x>>) = 1 /\ <<x>>[1] = x
         /\ <<x>> \o a # <<>> /\ Head(<<x>> \o a) = x /\ Tail(<<x>> \o a) = a
<1>1. PICK S : a \in Seq(S)
  BY DEF IsSeq
<1>2. a \in Seq(S \cup {x}) /\ x \in S \cup {x}
  BY <1>1, S \subseteq S \cup {x}, SeqMonotonic
<1>3. <<x>> \o a # <<>> /\ Head(<<x>> \o a) = x /\ Tail(<<x>> \o a) = a
  BY <1>2, OneMore
<1>4. <<x>> \in Seq({x}) /\ Len(<<x>>) = 1 /\ <<x>>[1] = x
  OBVIOUS
<1> QED
  BY <1>3, <1>4 DEF IsSeq

\* One element behind others.
LEMMA JoinedLast ==
  ASSUME NEW a, IsSeq(a), NEW x
  PROVE  Append(a, x) = a \o <<x>> /\ IsSeq(Append(a, x))
<1>1. PICK S : a \in Seq(S)
  BY DEF IsSeq
<1>2. a \in Seq(S \cup {x}) /\ x \in S \cup {x}
  BY <1>1, S \subseteq S \cup {x}, SeqMonotonic
<1>3. Append(a, x) = a \o <<x>> /\ Append(a, x) \in Seq(S \cup {x})
  BY <1>2, AppendIsConcat, AppendProperties
<1> QED
  BY <1>3 DEF IsSeq

\* Behind the first of two joined sequences is the second.
LEMMA JoinedApart ==
  ASSUME NEW a, IsSeq(a), NEW b, IsSeq(b)
  PROVE  /\ SubSeq(a \o b, 1, Len(a)) = a
         /\ SubSeq(a \o b, Len(a) + 1, Len(a \o b)) = b
<1>1. PICK S : a \in Seq(S) /\ b \in Seq(S)
  BY OneSet
<1> DEFINE j == a \o b
<1>2. /\ j \in Seq(S) /\ Len(a) \in Nat /\ Len(b) \in Nat /\ Len(j) = Len(a) + Len(b)
      /\ \A i \in 1 .. Len(a) : j[i] = a[i]
      /\ \A i \in 1 .. Len(b) : j[Len(a) + i] = b[i]
  BY <1>1, Joined, ConcatProperties DEF IsSeq
<1> HIDE DEF j
<1> DEFINE u == SubSeq(j, 1, Len(a))
           v == SubSeq(j, Len(a) + 1, Len(j))
<1>3. u \in Seq(S) /\ Len(u) = Len(a) /\ \A i \in 1 .. Len(a) : u[i] = j[i]
  <2>1. 1 \in 1 .. Len(j) + 1 /\ Len(a) \in 1 - 1 .. Len(j)
    BY <1>2
  <2>2. /\ u \in Seq(S) /\ Len(u) = Len(a) - 1 + 1
        /\ \A h \in 1 .. Len(a) - 1 + 1 : u[h] = j[1 + h - 1]
    BY <1>2, <2>1, PartOfSeq
  <2> QED
    BY <1>2, <2>2
<1>4. v \in Seq(S) /\ Len(v) = Len(b) /\ \A i \in 1 .. Len(b) : v[i] = j[Len(a) + i]
  <2>1. Len(a) + 1 \in 1 .. Len(j) + 1 /\ Len(j) \in (Len(a) + 1) - 1 .. Len(j)
    BY <1>2
  <2>2. /\ v \in Seq(S) /\ Len(v) = Len(j) - (Len(a) + 1) + 1
        /\ \A h \in 1 .. Len(j) - (Len(a) + 1) + 1 : v[h] = j[(Len(a) + 1) + h - 1]
    BY <1>2, <2>1, PartOfSeq
  <2> QED
    BY <1>2, <2>2
<1> HIDE DEF u, v
<1>5. u = a
  BY <1>1, <1>2, <1>3, SeqEqual
<1>6. v = b
  BY <1>1, <1>2, <1>4, SeqEqual
<1> QED
  BY <1>5, <1>6 DEF u, v, j

-----------------------------------------------------------------------------
(* Sexps beside tokens *)

\* A sexp, unless it is the null one.
Present(s) == IF s = sexp_null THEN <<>> ELSE <<s>>

\* The token x is the first that the sexps P are written as, or passed before
\* them, and Q is what remains of them.
Takes(P, x, Q) ==
  \/ x \in Skipped /\ Q = P
  \/ x = <<"'">> /\ \E s, T : IsSeq(T) /\ IsQuote(s) /\ P = <<s>> \o T /\ Q = Present(s[2][2]) \o T
  \/ x = <<"(">> /\ \E items, T : /\ IsSeq(items) /\ IsSeq(T)
                                  /\ P = << <<"list", items>> >> \o T /\ Q = (items \o <<Close>>) \o T
  \/ x = <<")">> /\ IsSeq(Q) /\ P = <<Close>> \o Q
  \/ x \notin Marks /\ IsSeq(Q) /\ \E s : s[1] \in Atoms /\ x = AtomToken(s) /\ P = <<s>> \o Q

\* That is what Matched says.
LEMMA TakesMatched ==
  ASSUME NEW P, NEW x, NEW Q, Takes(P, x, Q)
  PROVE  Matched(P, x) = Q
<1>0. Skipped = {<<"semicolon">>, <<"#">>} /\ Marks = {<<"semicolon">>, <<"#">>, <<"'">>, <<"(">>, <<")">>}
  BY DEF Skipped, Marks
<1>1. CASE x \in Skipped /\ Q = P
  <2>1. x \in Marks /\ x # <<"'">> /\ x # <<"(">> /\ x # <<")">>
    BY ONLY <1>0, <1>1
  <2> QED
    BY ONLY <1>1, <2>1 DEF Matched
<1>2. ASSUME x = <<"'">>, NEW s, NEW T, IsSeq(T), IsQuote(s), P = <<s>> \o T, Q = Present(s[2][2]) \o T
      PROVE  Matched(P, x) = Q
  <2>1. P # <<>> /\ Head(P) = s /\ Tail(P) = T
    BY <1>2, JoinedOne
  <2>2. x \notin Skipped /\ x \in Marks /\ x = <<"'">> /\ x # <<"(">> /\ x # <<")">> /\ IsQuote(s)
    BY ONLY <1>0, x = <<"'">>, IsQuote(s)
  <2>3. Matched(P, x) = (IF s[2][2] = sexp_null THEN <<>> ELSE <<s[2][2]>>) \o T
    BY ONLY <2>1, <2>2 DEF Matched
  <2> QED
    BY <1>2, <2>3 DEF Present
<1>3. ASSUME x = <<"(">>, NEW items, NEW T, IsSeq(items), IsSeq(T),
             P = << <<"list", items>> >> \o T, Q = (items \o <<Close>>) \o T
      PROVE  Matched(P, x) = Q
  <2> DEFINE s == <<"list", items>>
  <2>1. P # <<>> /\ Head(P) = s /\ Tail(P) = T
    BY <1>3, JoinedOne
  <2>2. s[1] = "list" /\ s[2] = items
    OBVIOUS
  <2> HIDE DEF s
  <2>3. x \notin Skipped /\ x \in Marks /\ x # <<"'">> /\ x = <<"(">> /\ x # <<")">>
    BY ONLY <1>0, x = <<"(">>
  <2>5. Matched(P, x) = s[2] \o <<Close>> \o T
    BY ONLY <2>1, <2>2, <2>3 DEF Matched
  <2>4. Matched(P, x) = (s[2] \o <<Close>>) \o T
    BY ONLY <2>5
  <2> QED
    BY <1>3, <2>2, <2>4
<1>4. ASSUME x = <<")">>, IsSeq(Q), P = <<Close>> \o Q
      PROVE  Matched(P, x) = Q
  <2>1. P # <<>> /\ Head(P) = Close /\ Tail(P) = Q
    BY <1>4, JoinedOne
  <2>2. x \notin Skipped /\ x \in Marks /\ x # <<"'">> /\ x # <<"(">> /\ x = <<")">>
    BY ONLY <1>0, x = <<")">>
  <2> QED
    BY ONLY <2>1, <2>2 DEF Matched
<1>5. ASSUME x \notin Marks, IsSeq(Q), NEW s, s[1] \in Atoms, x = AtomToken(s), P = <<s>> \o Q
      PROVE  Matched(P, x) = Q
  <2>1. P # <<>> /\ Head(P) = s /\ Tail(P) = Q
    BY <1>5, JoinedOne
  <2>2. x \notin Skipped /\ x \notin Marks /\ x # <<"'">> /\ x # <<"(">> /\ x # <<")">>
    BY ONLY <1>0, x \notin Marks
  <2>3. s[1] \in Atoms /\ x = AtomToken(s)
    BY <1>5, Zenon
  <2> QED
    BY ONLY <2>1, <2>2, <2>3 DEF Matched
<1> QED
  BY <1>1, <1>2, <1>3, <1>4, <1>5 DEF Takes

\* More sexps after them are left alone.
LEMMA TakesBefore ==
  ASSUME NEW P, IsSeq(P), NEW x, NEW Q, IsSeq(Q), Takes(P, x, Q), NEW R, IsSeq(R)
  PROVE  Takes(P \o R, x, Q \o R)
<1>1. CASE x \in Skipped /\ Q = P
  <2> DEFINE A == P \o R
             B == Q \o R
  <2>1. A = B
    BY <1>1
  <2> HIDE DEF A, B
  <2>2. Takes(A, x, B)
    BY ONLY <1>1, <2>1 DEF Takes
  <2> QED
    BY ONLY <2>2 DEF A, B
<1>2. ASSUME x = <<"'">>, NEW s, NEW T, IsSeq(T), IsQuote(s), P = <<s>> \o T, Q = Present(s[2][2]) \o T
      PROVE  Takes(P \o R, x, Q \o R)
  <2>1. IsSeq(<<s>>) /\ IsSeq(Present(s[2][2])) /\ IsSeq(T \o R)
    BY <1>2, Joined, JoinedOne, JoinedNothing DEF Present
  <2>2. P \o R = <<s>> \o (T \o R)
    <3>1. Associates(<<s>>, T, R)
      BY <1>2, <2>1, JoinedThrice
    <3>2. (<<s>> \o T) \o R = <<s>> \o (T \o R)
      BY ONLY <3>1 DEF Associates
    <3> QED
      BY <1>2, <3>2, Zenon
  <2>3. Q \o R = Present(s[2][2]) \o (T \o R)
    <3> DEFINE z == Present(s[2][2])
    <3>1. Q = z \o T /\ IsSeq(z)
      BY <1>2, <2>1
    <3> HIDE DEF z
    <3>2. Associates(z, T, R)
      BY <1>2, <3>1, JoinedThrice
    <3>3. (z \o T) \o R = z \o (T \o R)
      BY ONLY <3>2 DEF Associates
    <3>4. Q \o R = z \o (T \o R)
      BY <3>1, <3>3, Zenon
    <3> QED
      BY <3>4 DEF z
  <2> QED
    BY <1>2, <2>1, <2>2, <2>3, Zenon DEF Takes
<1>3. ASSUME x = <<"(">>, NEW items, NEW T, IsSeq(items), IsSeq(T),
             P = << <<"list", items>> >> \o T, Q = (items \o <<Close>>) \o T
      PROVE  Takes(P \o R, x, Q \o R)
  <2>1. IsSeq(<< <<"list", items>> >>) /\ IsSeq(<<Close>>) /\ IsSeq(T \o R)
    BY <1>3, Joined, JoinedOne
  <2>2. IsSeq(items \o <<Close>>)
    BY <1>3, <2>1, Joined
  <2> DEFINE s == <<"list", items>>
  <2>4. P = <<s>> \o T
    BY <1>3
  <2> HIDE DEF s
  <2>5. IsSeq(<<s>>)
    BY <2>1 DEF s
  <2>6. P \o R = <<s>> \o (T \o R)
    <3>1. IsSeq(T)
      BY <1>3
    <3>2. (<<s>> \o T) \o R = <<s>> \o (T \o R)
      <4>1. Associates(<<s>>, T, R)
        BY ONLY <2>5, <3>1, IsSeq(R), JoinedThrice
      <4> QED
        BY ONLY <4>1 DEF Associates
    <3> QED
      BY ONLY <2>4, <3>2, Zenon
  <2>7. Q \o R = (items \o <<Close>>) \o (T \o R)
    <3> DEFINE z == items \o <<Close>>
    <3>1. Q = z \o T /\ IsSeq(z)
      BY <1>3, <2>2
    <3> HIDE DEF z
    <3>2. Associates(z, T, R)
      BY <1>3, <3>1, JoinedThrice
    <3>3. (z \o T) \o R = z \o (T \o R)
      BY ONLY <3>2 DEF Associates
    <3>4. Q \o R = z \o (T \o R)
      BY <3>1, <3>3, Zenon
    <3> QED
      BY <3>4 DEF z
  <2>3. P \o R = << <<"list", items>> >> \o (T \o R) /\ Q \o R = (items \o <<Close>>) \o (T \o R)
    BY <2>6, <2>7 DEF s
  <2> QED
    BY <1>3, <2>1, <2>3 DEF Takes
<1>4. ASSUME x = <<")">>, P = <<Close>> \o Q
      PROVE  Takes(P \o R, x, Q \o R)
  <2>1. IsSeq(<<Close>>) /\ IsSeq(Q \o R)
    BY Joined, JoinedOne
  <2>2. P \o R = <<Close>> \o (Q \o R)
    <3>1. Associates(<<Close>>, Q, R)
      BY <2>1, JoinedThrice
    <3>2. (<<Close>> \o Q) \o R = <<Close>> \o (Q \o R)
      BY ONLY <3>1 DEF Associates
    <3> QED
      BY <1>4, <3>2, Zenon
  <2> QED
    BY <1>4, <2>1, <2>2 DEF Takes
<1>5. ASSUME x \notin Marks, NEW s, s[1] \in Atoms, x = AtomToken(s), P = <<s>> \o Q
      PROVE  Takes(P \o R, x, Q \o R)
  <2>1. IsSeq(<<s>>) /\ IsSeq(Q \o R)
    BY Joined, JoinedOne
  <2>2. P \o R = <<s>> \o (Q \o R)
    <3>1. Associates(<<s>>, Q, R)
      BY <2>1, JoinedThrice
    <3>2. (<<s>> \o Q) \o R = <<s>> \o (Q \o R)
      BY ONLY <3>1 DEF Associates
    <3> QED
      BY <1>5, <3>2, Zenon
  <2> QED
    BY <1>5, <2>1, <2>2, Zenon DEF Takes
<1> QED
  BY <1>1, <1>2, <1>3, <1>4, <1>5 DEF Takes

\* Token by token, k takes P to Q.
TakeAll(P, k, Q) ==
  /\ IsSeq(k)
  /\ \E h : /\ \A i \in 0 .. Len(k) : IsSeq(h[i])
           /\ h[0] = P /\ h[Len(k)] = Q
           /\ \A i \in 1 .. Len(k) : Takes(h[i - 1], k[i], h[i])

\* The sexps P are written as the tokens k.
Written(P, k) == TakeAll(P, k, <<>>)

\* No token takes nothing.
LEMMA TakeNone ==
  ASSUME NEW P, IsSeq(P)
  PROVE  TakeAll(P, <<>>, P)
<1> DEFINE h == [i \in {0} |-> P]
<1>1. h[0] = P
  OBVIOUS
<1> HIDE DEF h
<1>2. \A i \in 0 .. 0 : IsSeq(h[i])
  BY <1>1
<1> QED
  BY <1>1, <1>2, JoinedNothing DEF TakeAll

\* One token alone.
LEMMA TakeOne ==
  ASSUME NEW P, IsSeq(P), NEW x, NEW Q, IsSeq(Q), Takes(P, x, Q)
  PROVE  TakeAll(P, <<x>>, Q)
<1> DEFINE h == [i \in 0 .. 1 |-> IF i = 0 THEN P ELSE Q]
<1>1. h[0] = P /\ h[1] = Q
  OBVIOUS
<1> HIDE DEF h
<1>2. \A i \in 0 .. 1 : IsSeq(h[i])
  BY <1>1, \A i \in 0 .. 1 : i = 0 \/ i = 1
<1>3. IsSeq(<<x>>) /\ Len(<<x>>) = 1 /\ <<x>>[1] = x
  BY JoinedOne, JoinedNothing
<1> DEFINE k == <<x>>
<1>4. IsSeq(k) /\ Len(k) = 1 /\ k[1] = x
  BY <1>3
<1> HIDE DEF k
<1>5. \A i \in 1 .. 1 : Takes(h[i - 1], k[i], h[i])
  BY <1>1, <1>4, \A i \in 1 .. 1 : i = 1 /\ i - 1 = 0
<1>6. TakeAll(P, k, Q)
  BY <1>1, <1>2, <1>4, <1>5 DEF TakeAll
<1> QED
  BY <1>6 DEF k

\* Some tokens, and then others.
LEMMA TakeMore ==
  ASSUME NEW P, NEW k, NEW Q, TakeAll(P, k, Q), NEW l, NEW R, TakeAll(Q, l, R)
  PROVE  TakeAll(P, k \o l, R)
<1>1. IsSeq(k) /\ IsSeq(l)
  BY DEF TakeAll
<1> DEFINE m == Len(k)
           n == Len(l)
           j == k \o l
<1>2. /\ IsSeq(j) /\ m \in Nat /\ n \in Nat /\ Len(j) = m + n
      /\ \A i \in 1 .. m : j[i] = k[i]
      /\ \A i \in 1 .. n : j[m + i] = l[i]
  BY <1>1, Joined
<1>3. PICK f : /\ \A i \in 0 .. m : IsSeq(f[i])
               /\ f[0] = P /\ f[m] = Q /\ \A i \in 1 .. m : Takes(f[i - 1], k[i], f[i])
  BY DEF TakeAll
<1>4. PICK g : /\ \A i \in 0 .. n : IsSeq(g[i])
               /\ g[0] = Q /\ g[n] = R /\ \A i \in 1 .. n : Takes(g[i - 1], l[i], g[i])
  BY DEF TakeAll
<1> HIDE DEF m, n, j
<1> DEFINE h == [i \in 0 .. m + n |-> IF i <= m THEN f[i] ELSE g[i - m]]
<1>5. \A i \in 0 .. m : h[i] = f[i]
  BY <1>2
<1>6. \A i \in 0 .. n : h[m + i] = g[i]
  <2> SUFFICES ASSUME NEW i \in 0 .. n PROVE h[m + i] = g[i]
    OBVIOUS
  <2>1. m + i \in 0 .. m + n /\ m + i - m = i
    BY <1>2
  <2>2. CASE i = 0
    <3>1. m + i = m /\ m \in 0 .. m
      BY <1>2, <2>2
    <3>2. h[m] = f[m]
      BY <1>5, <3>1
    <3> QED
      BY <1>3, <1>4, <2>2, <3>1, <3>2
  <2>3. CASE i # 0
    BY <1>2, <2>1, <2>3
  <2> QED
    BY <2>2, <2>3
<1> HIDE DEF h
<1>7. \A i \in 0 .. m + n : i \in 0 .. m \/ \E e \in 1 .. n : i = m + e
  <2> SUFFICES ASSUME NEW i \in 0 .. m + n, ~(i \in 0 .. m) PROVE \E e \in 1 .. n : i = m + e
    OBVIOUS
  <2>1. i - m \in 1 .. n /\ i = m + (i - m)
    BY <1>2
  <2> QED
    BY <2>1
<1>8. ASSUME NEW i \in 0 .. m + n PROVE IsSeq(h[i])
  <2>1. CASE i \in 0 .. m
    BY <1>3, <1>5, <2>1
  <2>2. ASSUME NEW e \in 1 .. n, i = m + e PROVE IsSeq(h[i])
    <3>1. e \in 0 .. n
      OBVIOUS
    <3> QED
      BY <1>4, <1>6, <2>2, <3>1
  <2> QED
    BY <1>7, <2>1, <2>2
<1>9. ASSUME NEW i \in 1 .. m + n PROVE Takes(h[i - 1], j[i], h[i])
  <2>1. CASE i \in 0 .. m
    <3>1. i \in 1 .. m /\ i - 1 \in 0 .. m
      BY <1>2, <2>1
    <3>2. h[i - 1] = f[i - 1] /\ h[i] = f[i] /\ j[i] = k[i]
      BY <1>2, <1>5, <2>1, <3>1
    <3> QED
      BY <1>3, <3>1, <3>2
  <2>2. ASSUME NEW e \in 1 .. n, i = m + e PROVE Takes(h[i - 1], j[i], h[i])
    <3>1. e \in 0 .. n /\ e - 1 \in 0 .. n /\ i - 1 = m + (e - 1)
      BY <1>2, <2>2
    <3>2. h[i - 1] = g[e - 1] /\ h[i] = g[e] /\ j[i] = l[e]
      BY <1>2, <1>6, <2>2, <3>1
    <3> QED
      BY <1>4, <3>2
  <2>3. i \in 0 .. m + n
    BY <1>2
  <2> QED
    BY <1>7, <2>1, <2>2, <2>3
<1>10. h[0] = P
  BY <1>2, <1>3, <1>5, 0 \in 0 .. m
<1>11. h[m + n] = R
  BY <1>2, <1>4, <1>6, n \in 0 .. n
<1>12. TakeAll(P, j, R)
  BY <1>2, <1>8, <1>9, <1>10, <1>11 DEF TakeAll
<1> QED
  BY <1>12 DEF j

\* More sexps after them are left alone.
LEMMA TakeBefore ==
  ASSUME NEW P, NEW k, NEW Q, TakeAll(P, k, Q), NEW R, IsSeq(R)
  PROVE  TakeAll(P \o R, k, Q \o R)
<1>1. PICK f : /\ \A i \in 0 .. Len(k) : IsSeq(f[i])
               /\ f[0] = P /\ f[Len(k)] = Q /\ \A i \in 1 .. Len(k) : Takes(f[i - 1], k[i], f[i])
  BY DEF TakeAll
<1>2. IsSeq(k) /\ Len(k) \in Nat
  BY Joined DEF TakeAll
<1> DEFINE h == [i \in 0 .. Len(k) |-> f[i] \o R]
<1>3. \A i \in 0 .. Len(k) : h[i] = f[i] \o R
  OBVIOUS
<1> HIDE DEF h
<1>4. ASSUME NEW i \in 0 .. Len(k) PROVE IsSeq(h[i])
  <2>1. IsSeq(f[i]) /\ h[i] = f[i] \o R
    BY <1>1, <1>3
  <2>2. IsSeq(f[i] \o R)
    BY <2>1, Joined
  <2> QED
    BY <2>1, <2>2
<1>5. ASSUME NEW i \in 1 .. Len(k) PROVE Takes(h[i - 1], k[i], h[i])
  <2>1. i - 1 \in 0 .. Len(k) /\ i \in 0 .. Len(k)
    BY <1>2
  <2>2. IsSeq(f[i - 1]) /\ IsSeq(f[i]) /\ Takes(f[i - 1], k[i], f[i])
    BY <1>1, <2>1
  <2>3. Takes(f[i - 1] \o R, k[i], f[i] \o R)
    BY <2>2, TakesBefore
  <2> QED
    BY <1>3, <2>1, <2>3
<1>6. h[0] = P \o R /\ h[Len(k)] = Q \o R
  BY <1>1, <1>2, <1>3, 0 \in 0 .. Len(k), Len(k) \in 0 .. Len(k)
<1> QED
  BY <1>2, <1>4, <1>5, <1>6 DEF TakeAll

\* What is taken to nothing does not remain.
LEMMA WrittenRemains ==
  ASSUME NEW P, NEW k, Written(P, k)
  PROVE  Remaining(P, k) = <<>>
<1>1. PICK f : /\ \A i \in 0 .. Len(k) : IsSeq(f[i])
               /\ f[0] = P /\ f[Len(k)] = <<>> /\ \A i \in 1 .. Len(k) : Takes(f[i - 1], k[i], f[i])
  BY DEF Written, TakeAll
<1>2. Len(k) \in Nat
  BY Joined DEF Written, TakeAll
<1> DEFINE n == Len(k)
           Rec(g) == g = [i \in 0 .. n |-> IF i = 0 THEN P ELSE Matched(g[i - 1], k[i])]
           h == [i \in 0 .. n |-> f[i]]
           d == CHOOSE g : Rec(g)
<1>3. n \in Nat /\ \A i \in 1 .. n : f[i] = Matched(f[i - 1], k[i])
  BY <1>1, <1>2, TakesMatched
<1>4. Remaining(P, k) = d[n]
  BY DEF Remaining
<1>5. f[0] = P /\ f[n] = <<>>
  BY <1>1
<1> HIDE DEF n
<1>6. Rec(h)
  <2>1. \A i \in 0 .. n : h[i] = f[i]
    OBVIOUS
  <2>2. \A i \in 1 .. n : i - 1 \in 0 .. n /\ i \in 0 .. n
    BY <1>3
  <2>3. \A i \in 0 .. n : f[i] = IF i = 0 THEN P ELSE Matched(h[i - 1], k[i])
    <3> SUFFICES ASSUME NEW i \in 0 .. n PROVE f[i] = IF i = 0 THEN P ELSE Matched(h[i - 1], k[i])
      OBVIOUS
    <3> HIDE DEF h
    <3>1. CASE i = 0
      BY <1>5, <3>1
    <3>2. CASE i # 0
      <4>1. i \in 1 .. n
        BY <1>3, <3>2
      <4>2. h[i - 1] = f[i - 1]
        BY <2>1, <2>2, <4>1
      <4> QED
        BY <1>3, <3>2, <4>1, <4>2
    <3> QED
      BY <3>1, <3>2
  <2> QED
    BY <2>3, Zenon
<1>7. Rec(d)
  BY <1>6
<1> HIDE DEF d, h
<1>8. d[0] = P /\ \A i \in 1 .. n : d[i] = Matched(d[i - 1], k[i])
  <2>1. 0 \in 0 .. n /\ \A i \in 1 .. n : i \in 0 .. n /\ i # 0
    BY <1>3
  <2>2. \A i \in 0 .. n : d[i] = IF i = 0 THEN P ELSE Matched(d[i - 1], k[i])
    BY <1>7, Zenon
  <2> QED
    BY <2>1, <2>2
<1> DEFINE T == {i \in 0 .. n : d[i] = f[i]}
<1>9. 0 \in T
  BY <1>3, <1>5, <1>8
<1>10. \A i \in 1 .. n : i - 1 \in T => i \in T
  BY <1>3, <1>8
<1> HIDE DEF T
<1>11. 0 .. n \subseteq T
  BY <1>3, <1>9, <1>10, UpTo
<1>12. n \in T
  BY <1>3, <1>11, n \in 0 .. n
<1> QED
  BY <1>4, <1>5, <1>12 DEF T

\* What is written as some tokens is a sequence, and so are they.
LEMMA WrittenIs ==
  ASSUME NEW P, NEW k, Written(P, k)
  PROVE  IsSeq(P) /\ IsSeq(k)
<1>1. PICK f : (\A i \in 0 .. Len(k) : IsSeq(f[i])) /\ f[0] = P
  BY DEF Written, TakeAll
<1>2. IsSeq(k) /\ Len(k) \in Nat
  BY Joined DEF Written, TakeAll
<1> QED
  BY <1>1, <1>2, 0 \in 0 .. Len(k)

\* Nothing is written as nothing.
LEMMA WrittenNothing == Written(<<>>, <<>>)
BY TakeNone, JoinedNothing DEF Written

\* Sexps one after the other.
LEMMA WrittenJoined ==
  ASSUME NEW P, NEW k, Written(P, k), NEW Q, NEW l, Written(Q, l)
  PROVE  Written(P \o Q, k \o l)
<1>1. IsSeq(Q)
  BY WrittenIs
<1>2. TakeAll(P \o Q, k, <<>> \o Q)
  BY <1>1, TakeBefore DEF Written
<1>3. <<>> \o Q = Q
  BY <1>1, JoinedNothing
<1>4. TakeAll(P \o Q, k, Q) /\ TakeAll(Q, l, <<>>)
  BY <1>2, <1>3 DEF Written
<1> QED
  BY <1>4, TakeMore DEF Written

\* A comment or a # stands for nothing.
LEMMA WrittenSkipped ==
  ASSUME NEW x \in Skipped
  PROVE  Written(<<>>, <<x>>)
<1>1. Takes(<<>>, x, <<>>)
  BY DEF Takes
<1> QED
  BY <1>1, TakeOne, JoinedNothing DEF Written

\* A list, between parentheses.
LEMMA WrittenList ==
  ASSUME NEW items, NEW k, Written(items, k)
  PROVE  Written(<< <<"list", items>> >>, << <<"(">> >> \o (k \o << <<")">> >>))
<1> DEFINE s == <<"list", items>>
           o == <<"(">>
           c == <<")">>
           open == <<o>>
           close == <<c>>
<1>0. IsSeq(items) /\ IsSeq(k) /\ IsSeq(<<>>) /\ IsSeq(<<Close>>) /\ IsSeq(<<s>>) /\ IsSeq(open) /\ IsSeq(close)
  BY WrittenIs, JoinedNothing, JoinedOne
<1>1. <<s>> \o <<>> = <<s>> /\ <<Close>> \o <<>> = <<Close>> /\ (items \o <<Close>>) \o <<>> = items \o <<Close>>
      /\ <<>> \o <<Close>> = <<Close>> /\ IsSeq(items \o <<Close>>)
  <2>1. IsSeq(items \o <<Close>>)
    BY <1>0, Joined
  <2> QED
    BY <1>0, <2>1, JoinedNothing
<1>2. TakeAll(<<s>>, open, items \o <<Close>>)
  <2>1. Takes(<<s>>, o, items \o <<Close>>)
    <3>1. \E T : /\ IsSeq(T) /\ <<s>> = <<s>> \o T /\ items \o <<Close>> = (items \o <<Close>>) \o T
      BY <1>0, <1>1
    <3>2. \E it, T : /\ IsSeq(it) /\ IsSeq(T) /\ <<s>> = << <<"list", it>> >> \o T
                     /\ items \o <<Close>> = (it \o <<Close>>) \o T
      BY <1>0, <3>1
    <3> QED
      BY <3>2 DEF Takes
  <2> HIDE DEF s, o
  <2> QED
    BY <1>0, <1>1, <2>1, TakeOne
<1>3. TakeAll(items \o <<Close>>, k, <<Close>>)
  BY <1>0, <1>1, TakeBefore DEF Written
<1>4. TakeAll(<<Close>>, close, <<>>)
  <2>1. Takes(<<Close>>, c, <<>>)
    BY <1>0, <1>1 DEF Takes
  <2> HIDE DEF c
  <2> QED
    BY <1>0, <2>1, TakeOne
<1> HIDE DEF s, open, close
<1>5. TakeAll(items \o <<Close>>, k \o close, <<>>)
  BY <1>3, <1>4, TakeMore
<1>6. TakeAll(<<s>>, open \o (k \o close), <<>>)
  BY <1>2, <1>5, TakeMore
<1> QED
  BY <1>6 DEF Written, s, open, close

\* A quote, before what it quotes.
LEMMA WrittenQuote ==
  ASSUME NEW v, NEW k, Written(Present(v), k)
  PROVE  Written(<< <<"list", <<p_quote, v>> >> >>, << <<"'">> >> \o k)
<1> DEFINE s == <<"list", <<p_quote, v>> >>
           q == <<"'">>
<1>1. IsQuote(s) /\ s[2][2] = v
  BY DEF IsQuote
<1>2. IsSeq(Present(v)) /\ IsSeq(<<>>) /\ IsSeq(<<s>>)
  BY WrittenIs, JoinedNothing, JoinedOne
<1>3. q = <<"'">>
  OBVIOUS
<1> HIDE DEF s, q
<1>4. <<s>> = <<s>> \o <<>> /\ Present(v) = Present(s[2][2]) \o <<>>
  BY <1>1, <1>2, JoinedNothing
<1>5. Takes(<<s>>, q, Present(v))
  BY <1>1, <1>2, <1>3, <1>4 DEF Takes
<1>6. TakeAll(<<s>>, <<q>>, Present(v))
  BY <1>2, <1>5, TakeOne
<1>7. TakeAll(<<s>>, <<q>> \o k, <<>>)
  BY <1>6, TakeMore DEF Written
<1> QED
  BY <1>7 DEF Written, s, q

\* An atom.
LEMMA WrittenAtom ==
  ASSUME NEW s, s[1] \in Atoms, AtomToken(s) \notin Marks
  PROVE  Written(<<s>>, <<AtomToken(s)>>)
<1>1. IsSeq(<<>>) /\ IsSeq(<<s>>)
  BY JoinedNothing, JoinedOne
<1>2. <<s>> = <<s>> \o <<>>
  BY <1>1, JoinedNothing
<1>3. Takes(<<s>>, AtomToken(s), <<>>)
  BY <1>1, <1>2 DEF Takes
<1> QED
  BY <1>1, <1>3, TakeOne DEF Written

-----------------------------------------------------------------------------
(* What the calls have read so far *)

\* The tokens k are what a call in progress has read before the one that it reads.
Has(c, k) ==
  /\ IsList(c) => \E skip, l : Written(<<>>, skip) /\ Written(c.items, l) /\ k = skip \o (<< <<"(">> >> \o l)
  /\ c.at = "quoted" => \E skip : Written(<<>>, skip) /\ k = skip \o << <<"'">> >>
  /\ ~IsList(c) /\ c.at # "quoted" => Written(<<>>, k)
  /\ c.at \in {"reads", "list"} => c.buf.data = <<>>
  /\ c.at = "reads" => c.items = <<>>

\* The tokens b are those of the sexps r and of the calls cs, from the outermost on.
AllHave(r, cs, b) ==
  \E g : /\ \A i \in 0 .. Len(cs) : IsSeq(g[i])
         /\ Written(r, g[0]) /\ g[Len(cs)] = b
         /\ \A i \in 1 .. Len(cs) : \E k : Has(cs[i], k) /\ g[i] = g[i - 1] \o k

\* They are a sequence.
LEMMA HasSeq ==
  ASSUME NEW c, NEW k, Has(c, k)
  PROVE  IsSeq(k)
<1>1. CASE IsList(c)
  <2>1. PICK skip, l : Written(<<>>, skip) /\ Written(c.items, l) /\ k = skip \o (<< <<"(">> >> \o l)
    BY <1>1 DEF Has
  <2>2. IsSeq(skip) /\ IsSeq(l) /\ IsSeq(<< <<"(">> >>)
    BY <2>1, WrittenIs, JoinedOne
  <2>3. IsSeq(<< <<"(">> >> \o l)
    BY <2>2, Joined
  <2> QED
    BY <2>1, <2>2, <2>3, Joined
<1>2. CASE c.at = "quoted"
  <2>1. PICK skip : Written(<<>>, skip) /\ k = skip \o << <<"'">> >>
    BY <1>2 DEF Has
  <2>2. IsSeq(skip) /\ IsSeq(<< <<"'">> >>)
    BY <2>1, WrittenIs, JoinedOne, JoinedNothing
  <2> QED
    BY <2>1, <2>2, Joined
<1>3. CASE ~IsList(c) /\ c.at # "quoted"
  BY <1>3, WrittenIs DEF Has
<1> QED
  BY <1>1, <1>2, <1>3

\* Without calls there are the tokens of the sexps.
LEMMA NoneHave ==
  ASSUME NEW r, NEW b
  PROVE  AllHave(r, <<>>, b) <=> Written(r, b)
<1>1. ASSUME AllHave(r, <<>>, b) PROVE Written(r, b)
  <2>1. Len(<<>>) = 0
    BY JoinedNothing
  <2> QED
    BY <1>1, <2>1 DEF AllHave
<1>2. ASSUME Written(r, b) PROVE AllHave(r, <<>>, b)
  <2> DEFINE g == [i \in {0} |-> b]
  <2>1. g[0] = b
    OBVIOUS
  <2> HIDE DEF g
  <2>2. \A i \in 0 .. 0 : IsSeq(g[i])
    BY <1>2, <2>1, WrittenIs
  <2>3. Len(<<>>) = 0
    BY JoinedNothing
  <2> QED
    BY <1>2, <2>1, <2>2, <2>3 DEF AllHave
<1> QED
  BY <1>1, <1>2

\* A call more adds its tokens.
LEMMA OneMoreHas ==
  ASSUME NEW r, NEW cs, IsSeq(cs), NEW a, AllHave(r, cs, a), NEW c, NEW k, Has(c, k)
  PROVE  AllHave(r, Append(cs, c), a \o k)
<1> DEFINE n == Len(cs)
           p == Append(cs, c)
<1>1. PICK S : cs \in Seq(S)
  BY DEF IsSeq
<1>2. cs \in Seq(S \cup {c}) /\ c \in S \cup {c}
  BY <1>1, S \subseteq S \cup {c}, SeqMonotonic
<1>3. n \in Nat /\ Len(p) = n + 1 /\ p[n + 1] = c /\ \A i \in 1 .. n : p[i] = cs[i]
  BY <1>2, AppendProperties, LenProperties
<1>4. PICK g : /\ \A i \in 0 .. n : IsSeq(g[i])
               /\ Written(r, g[0]) /\ g[n] = a
               /\ \A i \in 1 .. n : \E l : Has(cs[i], l) /\ g[i] = g[i - 1] \o l
  BY DEF AllHave
<1> HIDE DEF n, p
<1> DEFINE h == [i \in 0 .. n + 1 |-> IF i = n + 1 THEN a \o k ELSE g[i]]
<1>5. h[n + 1] = a \o k /\ \A i \in 0 .. n : h[i] = g[i]
  BY <1>3
<1> HIDE DEF h
<1>6. IsSeq(a) /\ IsSeq(k) /\ IsSeq(a \o k)
  BY <1>3, <1>4, HasSeq, Joined, n \in 0 .. n
<1>7. ASSUME NEW i \in 0 .. n + 1 PROVE IsSeq(h[i])
  BY <1>3, <1>4, <1>5, <1>6, i = n + 1 \/ i \in 0 .. n
<1>8. ASSUME NEW i \in 1 .. n + 1 PROVE \E l : Has(p[i], l) /\ h[i] = h[i - 1] \o l
  <2>1. CASE i = n + 1
    <3>1. i - 1 = n /\ n \in 0 .. n
      BY <1>3, <2>1
    <3>2. p[i] = c /\ h[i] = a \o k /\ h[i - 1] = a
      BY <1>3, <1>4, <1>5, <2>1, <3>1
    <3> QED
      BY <3>2
  <2>2. CASE i # n + 1
    <3>1. i \in 1 .. n /\ i \in 0 .. n /\ i - 1 \in 0 .. n
      BY <1>3, <2>2
    <3>2. p[i] = cs[i] /\ h[i] = g[i] /\ h[i - 1] = g[i - 1]
      BY <1>3, <1>5, <3>1
    <3> QED
      BY <1>4, <3>1, <3>2
  <2> QED
    BY <2>1, <2>2
<1>9. Written(r, h[0])
  BY <1>3, <1>4, <1>5, 0 \in 0 .. n
<1>10. AllHave(r, p, a \o k)
  BY ONLY <1>3, <1>5, <1>7, <1>8, <1>9 DEF AllHave
<1> QED
  BY ONLY <1>10 DEF p

\* The tokens b are a and then k.
Joins(b, a, k) == b = a \o k

\* The innermost call has the last of the tokens.
LEMMA InnermostHas ==
  ASSUME NEW r, NEW cs, IsSeq(cs), cs # <<>>, NEW b, AllHave(r, cs, b)
  PROVE  \E a, k : IsSeq(a) /\ IsSeq(k) /\ AllHave(r, Front(cs), a) /\ Has(Last(cs), k) /\ Joins(b, a, k)
<1> DEFINE n == Len(cs)
           f == Front(cs)
<1>1. PICK S : cs \in Seq(S)
  BY DEF IsSeq
<1>2. n \in Nat \ {0}
  BY <1>1, EmptySeq
<1>3. Len(f) = n - 1 /\ \A i \in 1 .. n - 1 : f[i] = cs[i]
  <2>1. 1 \in 1 .. n + 1 /\ n - 1 \in 1 - 1 .. n
    BY <1>2
  <2>2. /\ Len(SubSeq(cs, 1, n - 1)) = n - 1 - 1 + 1
        /\ \A h \in 1 .. n - 1 - 1 + 1 : SubSeq(cs, 1, n - 1)[h] = cs[1 + h - 1]
    BY <1>1, <2>1, PartOfSeq
  <2> QED
    BY <1>2, <2>2 DEF Front
<1>4. PICK g : /\ \A i \in 0 .. n : IsSeq(g[i])
               /\ Written(r, g[0]) /\ g[n] = b
               /\ \A i \in 1 .. n : \E l : Has(cs[i], l) /\ g[i] = g[i - 1] \o l
  BY DEF AllHave
<1>5. Last(cs) = cs[n]
  BY DEF Last
<1> HIDE DEF n, f
<1>6. n \in 1 .. n /\ n - 1 \in 0 .. n
  BY <1>2
<1>7. PICK k : Has(cs[n], k) /\ g[n] = g[n - 1] \o k
  BY <1>4, <1>6
<1>8. AllHave(r, f, g[n - 1])
  <2> DEFINE m == n - 1
  <2>0. m \in Nat /\ Len(f) = m /\ Written(r, g[0])
    BY <1>2, <1>3, <1>4
  <2>1. \A i \in 0 .. m : IsSeq(g[i])
    BY <1>2, <1>4
  <2>2. ASSUME NEW i \in 1 .. n - 1 PROVE \E l : Has(f[i], l) /\ g[i] = g[i - 1] \o l
    <3>1. i \in 1 .. n /\ f[i] = cs[i]
      BY <1>2, <1>3
    <3> QED
      BY <1>4, <3>1
  <2>3. \A i \in 1 .. m : \E l : Has(f[i], l) /\ g[i] = g[i - 1] \o l
    BY <2>2
  <2> HIDE DEF m
  <2>4. AllHave(r, f, g[m])
    BY ONLY <2>0, <2>1, <2>3 DEF AllHave
  <2> QED
    BY <2>4 DEF m
<1>9. IsSeq(g[n - 1]) /\ IsSeq(k)
  BY <1>4, <1>6, <1>7, HasSeq
<1> QED
  BY <1>4, <1>5, <1>7, <1>8, <1>9 DEF f, Joins

\* All the tokens are a sequence.
LEMMA AllSeq ==
  ASSUME NEW r, NEW cs, IsSeq(cs), NEW b, AllHave(r, cs, b)
  PROVE  IsSeq(b)
<1>1. Len(cs) \in Nat
  BY JoinedNothing, Joined
<1> QED
  BY <1>1, Len(cs) \in 0 .. Len(cs) DEF AllHave

-----------------------------------------------------------------------------
(* The rest of the text *)

\* The chars of the string that began at q, up to where s is left, are in data.
StringData(t, s, q, data) ==
  LET e == Closing(t, q)
      from == ContentFrom(t, e)
  IN  \/ Left(t, s) /\ Open(t, q, Here(t, s)) /\ (e <= Len(t) => from[q + 1] = data \o from[Here(t, s)])
      \/ e <= Len(t) /\ s = <<"quotes">> \o SubSeq(t, e + 1, Len(t)) /\ from[q + 1] = data

\* The chars of a numeral that are in the buffer.
NumeralData(k, n, at) == IF at = "S_HEX" THEN SubSeq(k, 3, n) ELSE SubSeq(k, 1, n)

\* The chars of the symbol that began at q, up to p, are in data.
InAtom(t, p, q, data) ==
  /\ BeginsWord(t[q]) /\ ~LooksNumeral(Word(t, q))
  /\ p \in q .. WordEnd(t, q) /\ data = SubSeq(t, q, p - 1)

\* The tokens of t are b and those that the call c reads next.
Says(t, s, c, b) ==
  LET p == Here(t, s)
      IsNext(i) == Lex(t) = b \o LexFrom(t)[i]
  IN  /\ c.at \in {"reads", "list"} => IsNext(p)
      /\ c.at = "comment" => IsNext(FirstFrom(t, p, {"\n"}))
      /\ c.at = "quote" => Lex(t) = b \o (<< <<"'">> >> \o LexFrom(t)[p])
      /\ c.at = "numeral" => IsNext(p - 1)
      /\ c.at \in {"atom", "list_atom"} => \E q \in 1 .. Len(t) :
           IsNext(q) /\ InAtom(t, p, q, c.buf.data)
      /\ c.at = "string" => \E q \in 1 .. Len(t) :
           IsNext(q) /\ t[q] = "quotes" /\ StringData(t, s, q, c.buf.data)
      /\ c.at \in Numerals => \E q \in 1 .. Len(t) :
           /\ IsNext(q) /\ InWord(t, p, q) /\ InNumeral(Word(t, q), p - q, c.at, c.buf.data)
           /\ c.buf.data = NumeralData(Word(t, q), p - q, c.at)

\* They are b and those of the sexp that was returned, and what is left.
Returns(t, s, v, b) ==
  \E k : Written(Present(v), k) /\ Lex(t) = (b \o k) \o LexFrom(t)[Here(t, s)]

\* As long as no error was reported, or has to be because the text ends in a
\* list, the tokens of the text are those of the sexps read and of the calls in
\* progress, and those that are left.
Reading ==
  errors = {} /\ ~(In("list") /\ AtEOF) =>
    \E b : /\ AllHave(results, calls, b)
           /\ IF value # NoValue THEN Returns(text, stream, value, b)
              ELSE IF calls # <<>> THEN Says(text, stream, Top, b)
              ELSE Lex(text) = b \o LexFrom(text)[Here(text, stream)]

-----------------------------------------------------------------------------
(* Steps beside the text *)

\* Calls are a sequence.
LEMMA StackSeq ==
  ASSUME NEW cs, IsStack(cs)
  PROVE  IsSeq(cs)
BY DEF IsStack, IsSeq

\* The innermost call goes on.
LEMMA GoingReads ==
  ASSUME IInv, Reading, calls # <<>>, value = NoValue, ~(In("list") /\ AtEOF),
         NEW c, IsCall(c), Go(c), Quiet,
         \A a, k : errors = {} /\ IsSeq(a) /\ IsSeq(k) /\ Has(Top, k) /\ Says(text, stream, Top, a \o k) =>
           \E l : Has(c, l) /\ Says(text, stream', c, a \o l)
  PROVE  Reading'
<1>1. /\ calls' = Append(Front(calls), c) /\ value' = value /\ text' = text
      /\ errors' = errors /\ results' = results
  BY DEF Go, Quiet, NoError, aux
<1>2. IsStack(Front(calls)) /\ IsStack(calls)
  BY Popped DEF IInv, Typed
<1>3. calls' # <<>> /\ Last(calls') = c
  BY <1>1, <1>2, Pushed
<1>4. Top' = c
  BY <1>3 DEF Top
<1> SUFFICES ASSUME errors = {}
             PROVE  \E b : AllHave(results, calls', b) /\ Says(text, stream', c, b)
  BY <1>1, <1>3, <1>4 DEF Reading
<1>5. PICK b : AllHave(results, calls, b) /\ Says(text, stream, Top, b)
  BY DEF Reading
<1>6. PICK a, k : IsSeq(a) /\ IsSeq(k) /\ AllHave(results, Front(calls), a) /\ Has(Top, k) /\ b = a \o k
  <2>1. IsSeq(calls)
    BY <1>2, StackSeq
  <2>2. \E a, k : IsSeq(a) /\ IsSeq(k) /\ AllHave(results, Front(calls), a) /\ Has(Last(calls), k) /\ Joins(b, a, k)
    BY ONLY <1>5, <2>1, calls # <<>>, InnermostHas
  <2> QED
    BY <2>2 DEF Top, Joins
<1>7. PICK l : Has(c, l) /\ Says(text, stream', c, a \o l)
  BY <1>5, <1>6
<1>8. AllHave(results, calls', a \o l)
  BY <1>1, <1>2, <1>6, <1>7, OneMoreHas, StackSeq
<1> QED
  BY <1>7, <1>8

\* A step leaves the calls alone.
LEMMA StayingReads ==
  ASSUME IInv, Reading, calls # <<>>, value = NoValue, ~(In("list") /\ AtEOF),
         UNCHANGED <<calls, value>>, Quiet,
         \A b : errors = {} /\ Says(text, stream, Top, b) => Says(text, stream', Top, b)
  PROVE  Reading'
<1>1. /\ calls' = calls /\ value' = value /\ text' = text
      /\ errors' = errors /\ results' = results /\ Top' = Top
  BY DEF Quiet, NoError, aux, Top
<1> SUFFICES ASSUME errors = {}
             PROVE  \E b : AllHave(results, calls, b) /\ Says(text, stream', Top, b)
  BY <1>1 DEF Reading
<1>2. PICK b : AllHave(results, calls, b) /\ Says(text, stream, Top, b)
  BY DEF Reading
<1> QED
  BY <1>2

\* A call begins.
LEMMA EnteringReads ==
  ASSUME IInv, Reading, value = NoValue, calls # <<>>, ~(In("list") /\ AtEOF),
         NEW c, IsCall(c), Enter(c), Quiet,
         \A b : errors = {} /\ IsSeq(b) /\ Says(text, stream, Top, b) =>
           \E l : Has(c, l) /\ Says(text, stream', c, b \o l)
  PROVE  Reading'
<1>1. /\ calls' = Append(calls, c) /\ value' = value /\ text' = text
      /\ errors' = errors /\ results' = results
  BY DEF Enter, Quiet, NoError, aux
<1>2. IsStack(calls)
  BY DEF IInv, Typed
<1>3. calls' # <<>> /\ Last(calls') = c
  BY <1>1, <1>2, Pushed
<1>4. Top' = c
  BY <1>3 DEF Top
<1> SUFFICES ASSUME errors = {}
             PROVE  \E b : AllHave(results, calls', b) /\ Says(text, stream', c, b)
  BY <1>1, <1>3, <1>4 DEF Reading
<1>5. PICK b : AllHave(results, calls, b) /\ Says(text, stream, Top, b)
  BY DEF Reading
<1>6. IsSeq(b)
  BY <1>2, <1>5, AllSeq, StackSeq
<1>7. PICK l : Has(c, l) /\ Says(text, stream', c, b \o l)
  BY <1>5, <1>6
<1>8. AllHave(results, calls', b \o l)
  BY <1>1, <1>2, <1>5, <1>7, OneMoreHas, StackSeq
<1> QED
  BY <1>7, <1>8

\* A call returns.
LEMMA ReturningReads ==
  ASSUME IInv, Reading, calls # <<>>, value = NoValue, ~(In("list") /\ AtEOF),
         NEW v, v # NoValue, Return(v), Quiet,
         \A a, k : errors = {} /\ IsSeq(a) /\ IsSeq(k) /\ Has(Top, k) /\ Says(text, stream, Top, a \o k) =>
           Returns(text, stream', v, a)
  PROVE  Reading'
<1>1. /\ calls' = Front(calls) /\ value' = v /\ text' = text
      /\ errors' = errors /\ results' = results
  BY DEF Return, Quiet, NoError, aux
<1>2. IsStack(calls)
  BY DEF IInv, Typed
<1>3. value' # NoValue'
  BY <1>1 DEF NoValue
<1> SUFFICES ASSUME errors = {}
             PROVE  \E b : AllHave(results, Front(calls), b) /\ Returns(text, stream', v, b)
  BY <1>1, <1>3 DEF Reading
<1>4. PICK b : AllHave(results, calls, b) /\ Says(text, stream, Top, b)
  BY DEF Reading
<1>5. PICK a, k : IsSeq(a) /\ IsSeq(k) /\ AllHave(results, Front(calls), a) /\ Has(Top, k) /\ b = a \o k
  <2>1. IsSeq(calls)
    BY <1>2, StackSeq
  <2>2. \E a, k : IsSeq(a) /\ IsSeq(k) /\ AllHave(results, Front(calls), a) /\ Has(Last(calls), k) /\ Joins(b, a, k)
    BY ONLY <1>4, <2>1, calls # <<>>, InnermostHas
  <2> QED
    BY <2>2 DEF Top, Joins
<1> QED
  BY <1>4, <1>5

\* A step that reports an error says no more of the tokens.
LEMMA ErrorReads ==
  ASSUME errors' # {}
  PROVE  Reading'
BY DEF Reading

-----------------------------------------------------------------------------
(* The chars of strings *)

\* How many octal digits an escape has.
LEMMA OctalCountIs ==
  ASSUME NEW t, NEW j, j \in Nat, t[j + 1] \in Octal
  PROVE  /\ OctalCount(t, j) \in 1 .. 3
         /\ \A k \in 1 .. OctalCount(t, j) : t[j + k] \in Octal
         /\ OctalCount(t, j) < 3 => t[j + OctalCount(t, j) + 1] \notin Octal
<1> DEFINE B == {n \in 1 .. 3 : \A k \in 1 .. n : t[j + k] \in Octal}
           m == Max(B)
<1>1. B \subseteq 1 .. 3 /\ 1 \in B
  BY \A k \in 1 .. 1 : k = 1
<1>2. ASSUME NEW n \in B, n < 3, n + 1 \notin B PROVE t[j + n + 1] \notin Octal
  <2>1. n \in 1 .. 3 /\ n + 1 \in 1 .. 3
    BY <1>2
  <2>2. PICK k \in 1 .. n + 1 : t[j + k] \notin Octal
    BY <1>2, <2>1
  <2>3. k \notin 1 .. n
    BY <2>2
  <2>4. k = n + 1 /\ j + (n + 1) = j + n + 1
    BY <2>1, <2>3
  <2> QED
    BY <2>2, <2>4
<1>3. \A n \in B : \A k \in 1 .. n : t[j + k] \in Octal
  OBVIOUS
<1>4. m = OctalCount(t, j)
  BY DEF OctalCount
<1> HIDE DEF B
<1>5. \E x \in B : \A y \in B : x >= y
  <2>1. CASE 3 \in B
    BY <1>1, <2>1
  <2>2. CASE 3 \notin B /\ 2 \in B
    BY <1>1, <2>2
  <2>3. CASE 3 \notin B /\ 2 \notin B
    BY <1>1, <2>3
  <2> QED
    BY <2>1, <2>2, <2>3
<1>6. m \in B /\ \A y \in B : m >= y
  BY <1>5 DEF Max
<1> HIDE DEF m
<1>7. m < 3 => m + 1 \notin B
  BY <1>1, <1>6
<1>8. m \in 1 .. 3 /\ (\A k \in 1 .. m : t[j + k] \in Octal) /\ (m < 3 => t[j + m + 1] \notin Octal)
  BY <1>1, <1>2, <1>3, <1>6, <1>7
<1> QED
  BY <1>4, <1>8, Zenon

\* That many and no other number.
LEMMA OctalCountOnly ==
  ASSUME NEW t, NEW j \in Nat, NEW n \in 1 .. 3, \A k \in 1 .. n : t[j + k] \in Octal,
         n < 3 => t[j + n + 1] \notin Octal
  PROVE  OctalCount(t, j) = n
<1> DEFINE m == OctalCount(t, j)
<1>1. /\ m \in 1 .. 3
      /\ \A k \in 1 .. m : t[j + k] \in Octal
      /\ m < 3 => t[j + m + 1] \notin Octal
  BY OctalCountIs, 1 \in 1 .. n
<1> HIDE DEF m
<1>2. ~(m < n)
  <2>1. ASSUME m < n PROVE FALSE
    <3>1. m + 1 \in 1 .. n /\ m < 3 /\ j + (m + 1) = j + m + 1
      BY <1>1, <2>1
    <3> QED
      BY <1>1, <3>1
  <2> QED
    BY <2>1
<1>3. ~(n < m)
  <2>1. ASSUME n < m PROVE FALSE
    <3>1. n + 1 \in 1 .. m /\ n < 3 /\ j + (n + 1) = j + n + 1
      BY <1>1, <2>1
    <3> QED
      BY <1>1, <3>1
  <2> QED
    BY <2>1
<1>4. m = n
  BY <1>1, <1>2, <1>3
<1> QED
  BY <1>4 DEF m

\* What the chars from j on stand for, if those behind them stand for what g says.
FromBy(t, e, g, j) ==
  IF j >= e THEN <<>>
  ELSE IF t[j] # "\\" THEN <<t[j]>> \o g[j + 1]
  ELSE CASE t[j + 1] \in SimpleEscape -> <<Escaped(t[j + 1])>> \o g[j + 2]
         [] t[j + 1] = "x"   -> <<HexChar>>
         [] t[j + 1] \in Octal -> <<OctalChar(SubSeq(t, j + 1, j + OctalCount(t, j)))>> \o g[j + OctalCount(t, j) + 1]
         [] OTHER            -> g[j + 2]

\* A simple escape, an octal one, a hexadecimal one and one that is none exclude one another.
LEMMA EscapesDiffer == Octal \cap SimpleEscape = {} /\ "x" \notin SimpleEscape /\ "x" \notin Octal
<1>1. SimpleEscape = {"a", "b", "f", "n", "r", "t", "v", "\\", "'", "quotes", "?"}
  BY DEF SimpleEscape, Control
<1>2. "x" \notin SimpleEscape
  BY <1>1
<1>3. ASSUME NEW c \in Octal PROVE c \notin SimpleEscape /\ c # "x"
  BY <1>1 DEF Octal
<1> QED
  BY <1>2, <1>3

\* Behind the end of the string there are none,
LEMMA FromByEnd ==
  ASSUME NEW t, NEW e \in Nat, NEW g, NEW j \in Nat, j >= e
  PROVE  FromBy(t, e, g, j) = <<>>
BY DEF FromBy

\* another char than a backslash stands for itself,
LEMMA FromByChar ==
  ASSUME NEW t, NEW e \in Nat, NEW g, NEW j \in Nat, j < e, t[j] # "\\"
  PROVE  FromBy(t, e, g, j) = <<t[j]>> \o g[j + 1]
<1>1. ~(j >= e)
  OBVIOUS
<1> QED
  BY <1>1, Zenon DEF FromBy

\* a simple escape for the char that it escapes,
LEMMA FromBySimple ==
  ASSUME NEW t, NEW e \in Nat, NEW g, NEW j \in Nat, j < e, t[j] = "\\", t[j + 1] \in SimpleEscape
  PROVE  FromBy(t, e, g, j) = <<Escaped(t[j + 1])>> \o g[j + 2]
<1>1. ~(j >= e) /\ t[j + 1] # "x" /\ t[j + 1] \notin Octal
  BY EscapesDiffer
<1> QED
  BY <1>1 DEF FromBy

\* a hexadecimal one for one char,
LEMMA FromByHex ==
  ASSUME NEW t, NEW e \in Nat, NEW g, NEW j \in Nat, j < e, t[j] = "\\", t[j + 1] = "x"
  PROVE  FromBy(t, e, g, j) = <<HexChar>>
<1>1. ~(j >= e) /\ t[j + 1] \notin SimpleEscape /\ t[j + 1] \notin Octal
  BY EscapesDiffer
<1> QED
  BY <1>1 DEF FromBy

\* an octal one for the char of its value,
LEMMA FromByOctal ==
  ASSUME NEW t, NEW e \in Nat, NEW g, NEW j \in Nat, j < e, t[j] = "\\", t[j + 1] \in Octal
  PROVE  FromBy(t, e, g, j) = <<OctalChar(SubSeq(t, j + 1, j + OctalCount(t, j)))>> \o g[j + OctalCount(t, j) + 1]
<1>1. ~(j >= e) /\ t[j + 1] \notin SimpleEscape /\ t[j + 1] # "x"
  BY EscapesDiffer
<1> QED
  BY <1>1 DEF FromBy

\* and one that is none for nothing.
LEMMA FromByNone ==
  ASSUME NEW t, NEW e \in Nat, NEW g, NEW j \in Nat, j < e, t[j] = "\\",
         t[j + 1] \notin SimpleEscape \cup Octal \cup {"x"}
  PROVE  FromBy(t, e, g, j) = g[j + 2]
<1>1. ~(j >= e)
  OBVIOUS
<1> QED
  BY <1>1 DEF FromBy

\* What the chars of a string may stand for.
CharsOf(t, e) ==
  {t[j] : j \in 1 .. e} \cup {Escaped(t[j + 1]) : j \in 1 .. e} \cup {HexChar}
  \cup {OctalChar(SubSeq(t, j + 1, j + OctalCount(t, j))) : j \in 1 .. e}

\* It is by what those behind them stand for, which is behind them.
LEMMA FromByBehind ==
  ASSUME NEW t, NEW e \in Nat, NEW g, NEW h, NEW j \in Nat, j <= e + 3, \A i \in j + 1 .. e + 3 : g[i] = h[i]
  PROVE  FromBy(t, e, g, j) = FromBy(t, e, h, j)
<1>1. CASE j >= e
  BY <1>1, FromByEnd
<1>2. CASE j < e /\ t[j] # "\\"
  <2>1. j + 1 \in j + 1 .. e + 3
    BY <1>2
  <2>2. g[j + 1] = h[j + 1]
    BY <2>1
  <2>3. FromBy(t, e, g, j) = <<t[j]>> \o g[j + 1]
    BY <1>2, FromByChar
  <2>4. FromBy(t, e, h, j) = <<t[j]>> \o h[j + 1]
    BY <1>2, FromByChar
  <2> QED
    BY <2>2, <2>3, <2>4, Zenon
<1>3. ASSUME j < e PROVE g[j + 2] = h[j + 2]
  <2>1. j + 2 \in j + 1 .. e + 3
    BY <1>3
  <2> QED
    BY <2>1
<1>4. CASE j < e /\ t[j] = "\\" /\ t[j + 1] \in SimpleEscape
  <2> DEFINE c == Escaped(t[j + 1])
  <2>1. g[j + 2] = h[j + 2]
    BY <1>3, <1>4
  <2>2. FromBy(t, e, g, j) = <<c>> \o g[j + 2]
    BY <1>4, FromBySimple
  <2>3. FromBy(t, e, h, j) = <<c>> \o h[j + 2]
    BY <1>4, FromBySimple
  <2> QED
    BY <2>1, <2>2, <2>3, Zenon
<1>5. CASE j < e /\ t[j] = "\\" /\ t[j + 1] = "x"
  BY <1>5, FromByHex
<1>6. CASE j < e /\ t[j] = "\\" /\ t[j + 1] \in Octal
  <2> DEFINE n == OctalCount(t, j)
  <2>1. n \in 1 .. 3
    BY <1>6, OctalCountIs
  <2> HIDE DEF n
  <2>2. FromBy(t, e, g, j) = <<OctalChar(SubSeq(t, j + 1, j + n))>> \o g[j + n + 1]
    BY <1>6, FromByOctal DEF n
  <2>4. FromBy(t, e, h, j) = <<OctalChar(SubSeq(t, j + 1, j + n))>> \o h[j + n + 1]
    BY <1>6, FromByOctal DEF n
  <2>3. g[j + n + 1] = h[j + n + 1]
    BY <1>6, <2>1, j + n + 1 \in j + 1 .. e + 3
  <2> QED
    BY <2>2, <2>3, <2>4, Zenon
<1>7. CASE j < e /\ t[j] = "\\" /\ t[j + 1] \notin SimpleEscape \cup Octal \cup {"x"}
  <2>1. g[j + 2] = h[j + 2]
    BY <1>3, <1>7
  <2>2. FromBy(t, e, g, j) = g[j + 2] /\ FromBy(t, e, h, j) = h[j + 2]
    BY <1>7, FromByNone
  <2> QED
    BY <2>1, <2>2
<1> QED
  BY <1>1, <1>2, <1>4, <1>5, <1>6, <1>7

\* It is a sequence if that is.
LEMMA FromByIs ==
  ASSUME NEW t, NEW e \in Nat, NEW g, NEW j \in 1 .. e + 3, \A i \in j + 1 .. e + 3 : g[i] \in Seq(CharsOf(t, e))
  PROVE  FromBy(t, e, g, j) \in Seq(CharsOf(t, e))
<1> DEFINE X == CharsOf(t, e)
<1>0. j \in Nat
  BY ONLY e \in Nat, j \in 1 .. e + 3
<1>1. CASE j >= e
  <2>1. FromBy(t, e, g, j) = <<>>
    BY <1>0, <1>1, FromByEnd
  <2> QED
    BY <2>1
<1>2. ASSUME NEW c \in X, NEW s \in Seq(X) PROVE <<c>> \o s \in Seq(X)
  <2> HIDE DEF X
  <2> QED
    BY <<c>> \in Seq(X)
<1>3. CASE j < e /\ t[j] # "\\"
  <2>1. j + 1 \in j + 1 .. e + 3 /\ j \in 1 .. e
    BY <1>3
  <2>2. g[j + 1] \in Seq(X) /\ t[j] \in X
    BY <2>1 DEF CharsOf
  <2>3. FromBy(t, e, g, j) = <<t[j]>> \o g[j + 1]
    BY <1>0, <1>3, FromByChar
  <2> HIDE DEF X
  <2>4. <<t[j]>> \o g[j + 1] \in Seq(X)
    BY <1>2, <2>2
  <2> QED
    BY <2>3, <2>4 DEF X
<1>4. CASE j < e /\ t[j] = "\\" /\ t[j + 1] \in SimpleEscape
  <2>1. j + 2 \in j + 1 .. e + 3 /\ j \in 1 .. e
    BY <1>4
  <2>2. g[j + 2] \in Seq(X) /\ Escaped(t[j + 1]) \in X
    BY <2>1 DEF CharsOf
  <2>3. FromBy(t, e, g, j) = <<Escaped(t[j + 1])>> \o g[j + 2]
    BY <1>0, <1>4, FromBySimple
  <2> HIDE DEF X
  <2>4. <<Escaped(t[j + 1])>> \o g[j + 2] \in Seq(X)
    BY <1>2, <2>2
  <2> QED
    BY <2>3, <2>4 DEF X
<1>5. CASE j < e /\ t[j] = "\\" /\ t[j + 1] = "x"
  <2>1. FromBy(t, e, g, j) = <<HexChar>> /\ HexChar \in X
    BY <1>0, <1>5, FromByHex DEF CharsOf
  <2> HIDE DEF X
  <2>2. <<HexChar>> \in Seq(X)
    BY <2>1
  <2> QED
    BY <2>1, <2>2 DEF X
<1>6. CASE j < e /\ t[j] = "\\" /\ t[j + 1] \in Octal
  <2> DEFINE n == OctalCount(t, j)
             c == OctalChar(SubSeq(t, j + 1, j + n))
  <2>1. n \in 1 .. 3 /\ j \in 1 .. e
    BY <1>6, OctalCountIs
  <2>2. c \in X
    BY <2>1 DEF CharsOf
  <2>3. FromBy(t, e, g, j) = <<c>> \o g[j + n + 1]
    BY <1>0, <1>6, FromByOctal
  <2> HIDE DEF n, c
  <2>4. g[j + n + 1] \in Seq(X)
    BY <1>6, <2>1, j + n + 1 \in j + 1 .. e + 3
  <2> HIDE DEF X
  <2>5. <<c>> \o g[j + n + 1] \in Seq(X)
    BY <1>2, <2>2, <2>4
  <2> QED
    BY <2>3, <2>5 DEF X
<1>7. CASE j < e /\ t[j] = "\\" /\ t[j + 1] \notin SimpleEscape \cup Octal \cup {"x"}
  <2>1. FromBy(t, e, g, j) = g[j + 2]
    BY <1>0, <1>7, FromByNone
  <2>2. j + 2 \in j + 1 .. e + 3
    BY <1>0, <1>7
  <2>3. g[j + 2] \in Seq(X)
    BY <2>2
  <2> QED
    BY <2>1, <2>3
<1> QED
  BY <1>1, <1>3, <1>4, <1>5, <1>6, <1>7

\* What the recursive definition of the content of a string defines.
LEMMA ContentUnfolds ==
  ASSUME NEW t, NEW e \in Nat
  PROVE  \A j \in 1 .. e + 3 : /\ IsSeq(ContentFrom(t, e)[j])
                               /\ ContentFrom(t, e)[j] = FromBy(t, e, ContentFrom(t, e), j)
<1> DEFINE n == e + 3
           from == ContentFrom(t, e)
           Rec(g) == g = [j \in 1 .. n |-> FromBy(t, e, g, j)]
           T == {k \in 0 .. n : \E g : \A j \in n - k + 1 .. n : g[j] = FromBy(t, e, g, j)}
<1>1. n \in Nat
  OBVIOUS
<1>2. from = CHOOSE g : Rec(g)
  BY Zenon DEF ContentFrom, FromBy
<1>3. 0 \in T
  BY n - 0 + 1 = n + 1
<1>4. ASSUME NEW k \in 1 .. n, k - 1 \in T PROVE k \in T
  <2>1. PICK g : \A j \in n - (k - 1) + 1 .. n : g[j] = FromBy(t, e, g, j)
    BY <1>4
  <2> DEFINE m == n - k + 1
             v == FromBy(t, e, g, m)
             h == [j \in 1 .. n |-> IF j = m THEN v ELSE g[j]]
  <2>2. m \in 1 .. n /\ m + 1 = n - (k - 1) + 1
    BY <1>1
  <2> HIDE DEF n, m, v
  <2>3. h[m] = v /\ \A j \in m + 1 .. n : h[j] = g[j]
    BY <1>1, <2>2
  <2> HIDE DEF h
  <2>4. ASSUME NEW j \in m .. n PROVE h[j] = FromBy(t, e, h, j)
    <3>1. \A i \in j + 1 .. n : h[i] = g[i]
      BY <1>1, <2>2, <2>3
    <3>2. FromBy(t, e, h, j) = FromBy(t, e, g, j)
      BY <1>1, <2>2, <3>1, FromByBehind DEF n
    <3>3. CASE j = m
      BY <2>3, <3>2, <3>3 DEF v
    <3>4. CASE j # m
      <4>1. j \in m + 1 .. n
        BY <1>1, <2>2, <3>4
      <4> QED
        BY <2>1, <2>2, <2>3, <3>2, <4>1
    <3> QED
      BY <3>3, <3>4
  <2>5. \A j \in n - k + 1 .. n : h[j] = FromBy(t, e, h, j)
    BY <2>4 DEF m
  <2> QED
    BY <2>5
<1>5. n \in T
  <2> HIDE DEF T, n
  <2>1. 0 .. n \subseteq T
    BY <1>1, <1>3, <1>4, UpTo
  <2> QED
    BY <1>1, <2>1, n \in 0 .. n
<1>6. PICK g : \A j \in 1 .. n : g[j] = FromBy(t, e, g, j)
  BY <1>5, n - n + 1 = 1
<1> DEFINE f == [j \in 1 .. n |-> g[j]]
<1>7. \A j \in 1 .. n : f[j] = g[j]
  OBVIOUS
<1> HIDE DEF f, n
<1>8. ASSUME NEW j \in 1 .. n PROVE FromBy(t, e, f, j) = FromBy(t, e, g, j)
  <2>1. \A i \in j + 1 .. n : f[i] = g[i]
    BY <1>1, <1>7
  <2> QED
    BY <1>1, <2>1, FromByBehind DEF n
<1>9. Rec(f)
  <2>1. f = [j \in 1 .. n |-> g[j]]
    BY DEF f
  <2>2. \A j \in 1 .. n : g[j] = FromBy(t, e, f, j)
    BY <1>6, <1>8
  <2> QED
    BY <2>1, <2>2
<1>10. Rec(from)
  BY <1>2, <1>9, Zenon
<1> HIDE DEF from
<1>11. ASSUME NEW j \in 1 .. n PROVE from[j] = FromBy(t, e, from, j)
  BY <1>10, Zenon
<1> DEFINE X == CharsOf(t, e)
           S == {k \in 0 .. n : \A j \in n - k + 1 .. n : from[j] \in Seq(X)}
<1> HIDE DEF X
<1>12. 0 \in S
  BY <1>1, n - 0 + 1 = n + 1
<1>13. ASSUME NEW k \in 1 .. n, k - 1 \in S PROVE k \in S
  <2> DEFINE m == n - k + 1
  <2>1. m \in 1 .. n /\ m + 1 = n - (k - 1) + 1
    BY <1>1
  <2>2. \A j \in m + 1 .. n : from[j] \in Seq(X)
    BY <1>13, <2>1
  <2> HIDE DEF m
  <2>3. from[m] \in Seq(X)
    BY <1>11, <2>1, <2>2, FromByIs DEF n, X
  <2>4. \A j \in m .. n : from[j] \in Seq(X)
    BY <1>1, <2>1, <2>2, <2>3
  <2> QED
    BY <2>4 DEF m
<1>14. n \in S
  <2> HIDE DEF S
  <2>1. 0 .. n \subseteq S
    BY <1>1, <1>12, <1>13, UpTo
  <2> QED
    BY <1>1, <2>1, n \in 0 .. n
<1>15. \A j \in 1 .. n : from[j] \in Seq(X)
  BY <1>1, <1>14, n - n + 1 = 1
<1> QED
  BY <1>11, <1>15 DEF n, from, IsSeq

\* An open string does not close before the place where it goes on.
LEMMA OpenBefore ==
  ASSUME NEW t, Len(t) \in Nat, NEW q, NEW p, Open(t, q, p)
  PROVE  q \in 1 .. Len(t) /\ p \in Nat /\ Closing(t, q) \in q + 1 .. Len(t) + 1 /\ p <= Closing(t, q)
<1>1. q \in 1 .. Len(t) /\ p \in q + 1 .. Len(t) + 1
  BY DEF Open
<1> DEFINE e == Closing(t, q)
<1>2. /\ e \in q + 1 .. Len(t) + 1
      /\ e \in Quotes(t, q) \/ (\E j \in Hexes(t, q) : e = HexCloses(t, j)) \/ e = Len(t) + 1
  BY <1>1, ClosingIs
<1> HIDE DEF e
<1>0. (\A j \in Quotes(t, q) : j >= p) /\ p \in Nat
  BY <1>1 DEF Open
<1>3. ASSUME e \in Quotes(t, q) PROVE p <= e
  BY <1>0, <1>2, <1>3
<1>4. ASSUME NEW j \in Hexes(t, q), e = HexCloses(t, j) PROVE p <= e
  <2>1. j \in q + 1 .. Len(t) - 1 /\ j >= p
    BY DEF Hexes, Open
  <2> QED
    BY <1>1, <1>2, <1>4, <2>1 DEF HexCloses
<1>6. ASSUME e = Len(t) + 1 PROVE p <= e
  BY <1>1, <1>6
<1>5. p <= e
  BY <1>2, <1>3, <1>4, <1>6
<1> QED
  BY <1>1, <1>2, <1>5 DEF e

\* In a string that goes on at a place before its end, the chars from there on are as by FromBy.
LEMMA ContentAt ==
  ASSUME NEW t, IsText(t), NEW q, NEW p, Open(t, q, p), NEW e, e = Closing(t, q), NEW from, from = ContentFrom(t, e)
  PROVE  /\ e \in Nat /\ p \in Nat /\ q + 1 \in 1 .. e + 3 /\ p \in 1 .. e + 3 /\ p <= e
         /\ \A j \in 1 .. e + 3 : IsSeq(from[j]) /\ from[j] = FromBy(t, e, from, j)
<1>1. Len(t) \in Nat
  BY DEF IsText
<1>2. q \in 1 .. Len(t) /\ p \in Nat /\ e \in q + 1 .. Len(t) + 1 /\ p <= e
  BY <1>1, OpenBefore
<1>3. p \in q + 1 .. Len(t) + 1
  BY DEF Open
<1>4. e \in Nat /\ q + 1 \in 1 .. e + 3 /\ p \in 1 .. e + 3
  BY <1>1, <1>2, <1>3
<1> QED
  BY <1>2, <1>4, ContentUnfolds

\* At first no chars of a string have been read.
LEMMA StringDataBegins ==
  ASSUME NEW t, IsText(t), NEW q \in 1 .. Len(t), NEW u, Left(t, u), Here(t, u) = q + 1
  PROVE  StringData(t, u, q, <<>>)
<1> DEFINE e == Closing(t, q)
           from == ContentFrom(t, e)
<1>1. Len(t) \in Nat
  BY DEF IsText
<1>2. Open(t, q, q + 1)
  BY <1>1, StringBegins
<1>3. q + 1 <= e /\ IsSeq(from[q + 1])
  BY <1>2, ContentAt
<1>4. from[q + 1] = <<>> \o from[q + 1]
  BY <1>3, JoinedNothing
<1> QED
  BY <1>2, <1>3, <1>4 DEF StringData

\* What is read next of a string is what its chars from here on begin with.
LEMMA StringDataStep ==
  ASSUME NEW t, IsText(t), NEW s, NEW q \in 1 .. Len(t), NEW d, IsSeq(d), StringData(t, s, q, d),
         Left(t, s), s # <<>> => Head(s) # "quotes",
         NEW u, Left(t, u), NEW x, IsSeq(x),
         Open(t, q, Here(t, s)) => Open(t, q, Here(t, u)),
         Open(t, q, Here(t, s)) /\ Closing(t, q) <= Len(t) =>
           ContentFrom(t, Closing(t, q))[Here(t, s)] = x \o ContentFrom(t, Closing(t, q))[Here(t, u)]
  PROVE  StringData(t, u, q, d \o x)
<1> DEFINE e == Closing(t, q)
           from == ContentFrom(t, e)
           p == Here(t, s)
           r == Here(t, u)
<1>1. ASSUME e <= Len(t) PROVE s # <<"quotes">> \o SubSeq(t, e + 1, Len(t))
  <2>1. Len(t) \in Nat
    BY DEF IsText
  <2>2. e \in q + 1 .. Len(t) + 1
    BY <2>1, ClosingIs
  <2>3. e \in 1 .. Len(t)
    BY <1>1, <2>1, <2>2
  <2> HIDE DEF e
  <2> QED
    BY <2>3, UnreadIs
<1>2. Open(t, q, p) /\ (e <= Len(t) => from[q + 1] = d \o from[p])
  BY <1>1 DEF StringData
<1>3. Open(t, q, r) /\ (e <= Len(t) => from[p] = x \o from[r])
  BY <1>2
<1> SUFFICES ASSUME e <= Len(t) PROVE from[q + 1] = (d \o x) \o from[r]
  BY <1>3 DEF StringData
<1> HIDE DEF p, r
<1>4. IsSeq(from[r])
  <2> HIDE DEF e, from
  <2>1. /\ r \in 1 .. e + 3
        /\ \A j \in 1 .. e + 3 : IsSeq(from[j]) /\ from[j] = FromBy(t, e, from, j)
    BY <1>3, ContentAt DEF e, from
  <2> QED
    BY <2>1
<1> HIDE DEF e, from
<1> DEFINE y == from[r]
<1>5. (d \o x) \o y = d \o (x \o y)
  <2>1. IsSeq(y)
    BY <1>4
  <2> HIDE DEF y
  <2> QED
    <3>1. Associates(d, x, y)
      BY <2>1, JoinedThrice
    <3> QED
      BY ONLY <3>1 DEF Associates
<1> QED
  BY <1>2, <1>3, <1>4, <1>5, Zenon

\* A hexadecimal escape ends it.
LEMMA StringDataHex ==
  ASSUME NEW t, IsText(t), NEW s, NEW q \in 1 .. Len(t), NEW d, IsSeq(d), StringData(t, s, q, d),
         Left(t, s), s # <<>>, Head(s) = "\\",
         Here(t, s) + 1 <= Len(t), t[Here(t, s)] = "\\", t[Here(t, s) + 1] = "x",
         NEW u, u = <<"quotes">> \o SubSeq(t, HexCloses(t, Here(t, s)) + 1, Len(t))
  PROVE  StringData(t, u, q, d \o <<HexChar>>)
<1> DEFINE e == Closing(t, q)
           from == ContentFrom(t, e)
           p == Here(t, s)
<1>0. Len(t) \in Nat /\ e \in q + 1 .. Len(t) + 1
  BY ClosingIs DEF IsText
<1>1. ASSUME e <= Len(t) PROVE s # <<"quotes">> \o SubSeq(t, e + 1, Len(t))
  <2>1. e \in 1 .. Len(t)
    BY <1>0, <1>1
  <2> HIDE DEF e
  <2> QED
    BY <2>1, UnreadIs
<1>2. Open(t, q, p) /\ (e <= Len(t) => from[q + 1] = d \o from[p])
  BY <1>1 DEF StringData
<1>3. e = HexCloses(t, p)
  BY <1>0, <1>2, StringHex
<1> HIDE DEF p
<1>4. p \in q + 1 .. Len(t) + 1 /\ p + 1 <= Len(t) /\ t[p] = "\\" /\ t[p + 1] = "x"
  BY <1>2 DEF Open, p
<1>5. p < e /\ e <= Len(t) /\ p \in Nat /\ e \in Nat /\ p \in 1 .. e + 3
  <2>1. e = IF p + 2 <= Len(t) THEN p + 2 ELSE Len(t)
    BY <1>3 DEF HexCloses
  <2> HIDE DEF e
  <2> QED
    BY <1>0, <1>4, <2>1
<1>6. from[p] = <<HexChar>>
  <2> HIDE DEF e, from
  <2>1. from[p] = FromBy(t, e, from, p)
    BY <1>5, ContentUnfolds DEF from
  <2>2. FromBy(t, e, from, p) = <<HexChar>>
    BY <1>4, <1>5, FromByHex
  <2> QED
    BY <2>1, <2>2
<1>7. from[q + 1] = d \o <<HexChar>>
  <2> HIDE DEF e, from
  <2> QED
    BY <1>2, <1>5, <1>6
<1>8. u = <<"quotes">> \o SubSeq(t, e + 1, Len(t))
  <2> HIDE DEF e
  <2> QED
    BY <1>3 DEF p
<1> QED
  BY <1>5, <1>7, <1>8 DEF StringData

\* At its end the chars that were read are its content.
LEMMA StringDataEnds ==
  ASSUME NEW t, IsText(t), NEW s, NEW q \in 1 .. Len(t), NEW d, IsSeq(d), StringData(t, s, q, d),
         s # <<>>, Head(s) = "quotes"
  PROVE  /\ Closing(t, q) <= Len(t) /\ ContentFrom(t, Closing(t, q))[q + 1] = d
         /\ Left(t, Tail(s)) /\ Here(t, Tail(s)) = Closing(t, q) + 1
<1> DEFINE e == Closing(t, q)
           from == ContentFrom(t, e)
           p == Here(t, s)
<1>0. Len(t) \in Nat /\ e \in q + 1 .. Len(t) + 1
  BY ClosingIs DEF IsText
<1>1. CASE Left(t, s) /\ Open(t, q, p) /\ (e <= Len(t) => from[q + 1] = d \o from[p])
  <2>1. p \in 1 .. Len(t) /\ t[p] = "quotes" /\ Left(t, Tail(s)) /\ Here(t, Tail(s)) = p + 1
    BY <1>1, Next1
  <2>2. e = p
    BY <1>0, <1>1, <2>1, StringCloses
  <2> HIDE DEF p
  <2>3. from[e] = <<>>
    <3>1. e \in Nat /\ e \in 1 .. e + 3 /\ e >= e
      BY <1>0
    <3> HIDE DEF e, from
    <3>2. from[e] = FromBy(t, e, from, e)
      BY <3>1, ContentUnfolds DEF from
    <3>3. FromBy(t, e, from, e) = <<>>
      BY <3>1, FromByEnd
    <3> QED
      BY <3>2, <3>3
  <2>4. e <= Len(t)
    BY <1>0, <2>1, <2>2
  <2>5. from[q + 1] = d
    <3> HIDE DEF e, from
    <3>1. from[q + 1] = d \o <<>>
      BY <1>1, <2>2, <2>3, <2>4
    <3> QED
      BY <3>1, JoinedNothing
  <2> QED
    BY <2>1, <2>2, <2>4, <2>5
<1>2. CASE e <= Len(t) /\ s = <<"quotes">> \o SubSeq(t, e + 1, Len(t)) /\ from[q + 1] = d
  <2>1. e \in 1 .. Len(t)
    BY <1>0, <1>2
  <2>2. Left(t, Tail(s)) /\ Here(t, Tail(s)) = e + 1
    <3> HIDE DEF e, from
    <3> QED
      BY <1>2, <2>1, UnreadIs
  <2> QED
    BY <1>2, <2>2
<1> QED
  BY <1>1, <1>2 DEF StringData

-----------------------------------------------------------------------------
(* What is read between sexps *)

\* The tokens from a place on are a sequence.
LEMMA LexSeq ==
  ASSUME NEW t, IsText(t)
  PROVE  \A i \in 1 .. Len(t) + 1 : IsSeq(LexFrom(t)[i])
<1>1. Len(t) \in Nat
  BY DEF IsText
<1>2. LexFrom(t) \in [1 .. Len(t) + 1 -> Seq(TokensOf(t))]
  BY <1>1, LexUnfolds
<1> QED
  BY <1>2 DEF IsSeq

\* What is skipped, twice.
LEMMA SkippedJoined ==
  ASSUME NEW k, Written(<<>>, k), NEW l, Written(<<>>, l)
  PROVE  Written(<<>>, k \o l)
<1>1. Written(<<>> \o <<>>, k \o l)
  BY WrittenJoined
<1>2. <<>> \o <<>> = <<>>
  BY JoinedNothing
<1> QED
  BY <1>1, <1>2

\* What was skipped before a call belongs to it.
LEMMA HasBefore ==
  ASSUME NEW k, Written(<<>>, k), NEW c, NEW l, Has(c, l)
  PROVE  Has(c, k \o l)
<1>0. /\ c.at \in {"reads", "list"} => c.buf.data = <<>>
      /\ c.at = "reads" => c.items = <<>>
  BY DEF Has
<1>1. CASE IsList(c)
  <2>1. PICK skip, m : Written(<<>>, skip) /\ Written(c.items, m) /\ l = skip \o (<< <<"(">> >> \o m)
    BY <1>1 DEF Has
  <2> DEFINE r == << <<"(">> >> \o m
  <2>2. IsSeq(skip) /\ IsSeq(m) /\ IsSeq(k) /\ IsSeq(<< <<"(">> >>)
    BY <2>1, WrittenIs, JoinedOne
  <2>3. IsSeq(r)
    BY <2>2, Joined
  <2>4. k \o l = (k \o skip) \o (<< <<"(">> >> \o m)
    <3>1. l = skip \o r
      BY <2>1
    <3> HIDE DEF r
    <3>2. (k \o skip) \o r = k \o (skip \o r)
      <4>1. Associates(k, skip, r)
        BY <2>2, <2>3, JoinedThrice
      <4> QED
        BY ONLY <4>1 DEF Associates
    <3>3. k \o l = (k \o skip) \o r
      BY <3>1, <3>2, Zenon
    <3> QED
      BY <3>3 DEF r
  <2>5. Written(<<>>, k \o skip)
    BY <2>1, SkippedJoined
  <2>6. \E s, n : Written(<<>>, s) /\ Written(c.items, n) /\ k \o l = s \o (<< <<"(">> >> \o n)
    BY <2>1, <2>4, <2>5
  <2>7. c.at # "quoted"
    BY <1>1 DEF IsList
  <2> QED
    BY <1>0, <1>1, <2>6, <2>7 DEF Has
<1>2. CASE c.at = "quoted"
  <2>1. PICK skip : Written(<<>>, skip) /\ l = skip \o << <<"'">> >>
    BY <1>2 DEF Has
  <2>2. IsSeq(skip) /\ IsSeq(k) /\ IsSeq(<< <<"'">> >>)
    BY <2>1, WrittenIs, JoinedOne, JoinedNothing
  <2>3. k \o l = (k \o skip) \o << <<"'">> >>
    <3> DEFINE r == << <<"'">> >>
    <3>1. l = skip \o r /\ IsSeq(r)
      BY <2>1, <2>2
    <3> HIDE DEF r
    <3>2. (k \o skip) \o r = k \o (skip \o r)
      <4>1. Associates(k, skip, r)
        BY <2>2, <3>1, JoinedThrice
      <4> QED
        BY ONLY <4>1 DEF Associates
    <3>3. k \o l = (k \o skip) \o r
      BY <3>1, <3>2, Zenon
    <3> QED
      BY <3>3 DEF r
  <2>4. Written(<<>>, k \o skip)
    BY <2>1, SkippedJoined
  <2>5. ~IsList(c)
    BY <1>2 DEF IsList
  <2> QED
    BY <1>0, <1>2, <2>3, <2>4, <2>5 DEF Has
<1>3. CASE ~IsList(c) /\ c.at # "quoted"
  <2>1. Written(<<>>, k \o l)
    BY <1>3, SkippedJoined DEF Has
  <2> QED
    BY <1>0, <1>3, <2>1 DEF Has
<1> QED
  BY <1>1, <1>2, <1>3

\* What a call that is none of a list has is skipped.
LEMMA HasSkipped ==
  ASSUME NEW c, c.at \notin {"list", "list_atom", "quoted"}, NEW k, Has(c, k)
  PROVE  Written(<<>>, k)
BY DEF Has, IsList

\* One that goes on keeps it.
LEMMA HasStill ==
  ASSUME NEW c, c.at \notin {"list", "list_atom", "quoted"}, NEW k, Written(<<>>, k),
         c.at = "reads" => c.buf.data = <<>> /\ c.items = <<>>
  PROVE  Has(c, k)
BY DEF Has, IsList

\* So does one of a list.
LEMMA HasListStill ==
  ASSUME NEW c, NEW d, IsList(c), IsList(d), d.items = c.items, NEW k, Has(c, k), d.at = "list" => d.buf.data = <<>>
  PROVE  Has(d, k)
<1>1. d.at # "quoted" /\ d.at # "reads"
  BY DEF IsList
<1> QED
  BY <1>1 DEF Has

\* The macro of a char reads the tokens from that char on.
LEMMA MacroReads ==
  ASSUME NEW t, IsText(t), NEW s, Left(t, s), s # <<>>, Head(s) \in readtable,
         NEW c, c = MacroOf(Head(s)), NEW u, u = Tail(s), NEW b, IsSeq(b), Lex(t) = b \o LexFrom(t)[Here(t, s)]
  PROVE  \E l : Has(c, l) /\ Says(t, u, c, b \o l)
<1> DEFINE i == Here(t, s)
           x == t[i]
           p == Here(t, u)
<1>1. i \in 1 .. Len(t) /\ Head(s) = x /\ Left(t, u) /\ p = i + 1 /\ Len(t) \in Nat /\ t \in Seq(STRING)
  BY Next1 DEF IsText
<1>2. \A j \in 1 .. Len(t) + 1 : IsSeq(LexFrom(t)[j])
  BY LexSeq
<1>3. Lex(t) = b \o LexFrom(t)[i]
  OBVIOUS
<1>4. StringData(t, u, i, <<>>)
  BY <1>1, StringDataBegins
<1> HIDE DEF i
<1>5. x \in {"semicolon", "#", "'", "quotes", "-"} \cup Digit
  BY <1>1 DEF readtable
<1>6. ASSUME NEW at \in {"comment", "reads", "quote", "string", "numeral"}, NEW e, c = Call(at, TRUE, e)
      PROVE  c.at = at /\ c.buf.data = <<>> /\ c.items = <<>>
  <2>1. c.at = at /\ c.buf = buffer_new /\ c.items = <<>>
    BY <1>6 DEF Call
  <2> QED
    BY <2>1, NewBuffer
<1>7. c = MacroOf(x)
  BY <1>1
<1> HIDE DEF p
<1>8. i + 1 \in 1 .. Len(t) + 1
  BY <1>1
<1>9. CASE x = "semicolon"
  <2> DEFINE l == << <<"semicolon">> >>
             rest == LexFrom(t)[FirstFrom(t, p, {"\n"})]
  <2>1. c = Call("comment", TRUE, x)
    BY <1>7, <1>9 DEF MacroOf
  <2>2. c.at = "comment"
    BY <1>6, <2>1
  <2>3. LexFrom(t)[i] = l \o rest
    BY <1>1, <1>9, LexComment
  <2>4. IsSeq(rest)
    <3>1. FirstFrom(t, p, {"\n"}) \in p .. Len(t) + 1
      BY <1>1, <1>8, FirstFromIs
    <3> QED
      BY <1>1, <1>2, <3>1
  <2>5. IsSeq(l) /\ Written(<<>>, l)
    BY WrittenSkipped, WrittenIs DEF Skipped
  <2> HIDE DEF l, rest
  <2>6. Lex(t) = (b \o l) \o rest
    <3>1. (b \o l) \o rest = b \o (l \o rest)
      <4>1. Associates(b, l, rest)
        BY <2>4, <2>5, JoinedThrice
      <4> QED
        BY ONLY <4>1 DEF Associates
    <3> QED
      BY <1>3, <2>3, <3>1, Zenon
  <2>7. Says(t, u, c, b \o l)
    BY <2>2, <2>6 DEF Says, Numerals, p, rest
  <2>8. Has(c, l)
    BY <2>2, <2>5, HasStill
  <2> QED
    BY <2>7, <2>8
<1>10. CASE x = "#"
  <2> DEFINE l == << <<"#">> >>
             rest == LexFrom(t)[p]
  <2>1. c = Call("reads", TRUE, NUL)
    BY <1>7, <1>10 DEF MacroOf, Reads
  <2>2. c.at = "reads" /\ c.buf.data = <<>> /\ c.items = <<>>
    BY <1>6, <2>1
  <2>3. LexFrom(t)[i] = l \o rest
    BY <1>1, <1>10, LexSingle DEF Single
  <2>4. IsSeq(rest)
    BY <1>1, <1>2, <1>8
  <2>5. IsSeq(l) /\ Written(<<>>, l)
    BY WrittenSkipped, WrittenIs DEF Skipped
  <2> HIDE DEF l, rest
  <2>6. Lex(t) = (b \o l) \o rest
    <3>1. (b \o l) \o rest = b \o (l \o rest)
      <4>1. Associates(b, l, rest)
        BY <2>4, <2>5, JoinedThrice
      <4> QED
        BY ONLY <4>1 DEF Associates
    <3> QED
      BY <1>3, <2>3, <3>1, Zenon
  <2>7. Says(t, u, c, b \o l)
    BY <2>2, <2>6 DEF Says, Numerals, p, rest
  <2>8. Has(c, l)
    BY <2>2, <2>5, HasStill
  <2> QED
    BY <2>7, <2>8
<1>11. b \o <<>> = b /\ Written(<<>>, <<>>)
  BY JoinedNothing, WrittenNothing
<1>12. CASE x = "'"
  <2>1. c = Call("quote", TRUE, x)
    BY <1>7, <1>12 DEF MacroOf
  <2>2. c.at = "quote"
    BY <1>6, <2>1
  <2>3. LexFrom(t)[i] = << <<"'">> >> \o LexFrom(t)[p]
    BY <1>1, <1>12, LexSingle DEF Single
  <2>4. Says(t, u, c, b)
    BY <1>3, <2>2, <2>3 DEF Says, Numerals, p
  <2>5. Has(c, <<>>)
    BY <1>11, <2>2, HasStill
  <2> QED
    BY <1>11, <2>4, <2>5
<1>13. CASE x = "quotes"
  <2>1. c = Call("string", TRUE, x)
    BY <1>7, <1>13 DEF MacroOf
  <2>2. c.at = "string" /\ c.buf.data = <<>>
    BY <1>6, <2>1
  <2>3. StringData(t, u, i, c.buf.data)
    BY <1>1, <1>4, <1>13, <2>2
  <2>4. Says(t, u, c, b)
    BY <1>1, <1>3, <1>13, <2>2, <2>3 DEF Says, Numerals
  <2>5. Has(c, <<>>)
    BY <1>11, <2>2, HasStill
  <2> QED
    BY <1>11, <2>4, <2>5
<1>14. CASE x \in Digit \cup {"-"}
  <2>1. x \notin {"semicolon", "#", "'", "quotes"}
    BY <1>14 DEF Digit, Octal
  <2>2. c = Call("numeral", TRUE, x)
    BY <1>7, <2>1 DEF MacroOf
  <2>3. c.at = "numeral"
    BY <1>6, <2>2
  <2>4. p - 1 = i
    BY <1>1
  <2>5. Says(t, u, c, b)
    BY <1>3, <2>3, <2>4 DEF Says, Numerals, p
  <2>6. Has(c, <<>>)
    BY <1>11, <2>3, HasStill
  <2> QED
    BY <1>11, <2>5, <2>6
<1> QED
  BY <1>5, <1>9, <1>10, <1>12, <1>13, <1>14

-----------------------------------------------------------------------------
(* Steps of reads, of comments and of quotes *)

\* What a call of reads says that is between two tokens.
LEMMA SaysReads ==
  ASSUME NEW t, NEW s, NEW c, c.at = "reads", NEW b
  PROVE  Says(t, s, c, b) <=> Lex(t) = b \o LexFrom(t)[Here(t, s)]
BY DEF Says, Numerals

\* What one says that is in a list.
LEMMA SaysList ==
  ASSUME NEW t, NEW s, NEW c, c.at = "list", NEW b
  PROVE  Says(t, s, c, b) <=> Lex(t) = b \o LexFrom(t)[Here(t, s)]
BY DEF Says, Numerals

\* What one says that is in a comment.
LEMMA SaysComment ==
  ASSUME NEW t, NEW s, NEW c, c.at = "comment", NEW b
  PROVE  Says(t, s, c, b) <=> Lex(t) = b \o LexFrom(t)[FirstFrom(t, Here(t, s), {"\n"})]
BY DEF Says, Numerals

\* What one says that has read a quote.
LEMMA SaysQuote ==
  ASSUME NEW t, NEW s, NEW c, c.at = "quote", NEW b
  PROVE  Says(t, s, c, b) <=> Lex(t) = b \o (<< <<"'">> >> \o LexFrom(t)[Here(t, s)])
BY DEF Says, Numerals

\* What one says that has read the first char of a numeral.
LEMMA SaysNumeral ==
  ASSUME NEW t, NEW s, NEW c, c.at = "numeral", NEW b
  PROVE  Says(t, s, c, b) <=> Lex(t) = b \o LexFrom(t)[Here(t, s) - 1]
BY DEF Says, Numerals

\* reads passes a blank.
LEMMA ReadsSkipReads == ASSUME IInv, Reading, ReadsSkip PROVE Reading'
<1> USE DEF ReadsSkip
<1>1. /\ calls # <<>> /\ value = NoValue /\ Top.at = "reads" /\ IsText(text)
      /\ Placed(text, stream, Top)
  BY Inside
<1> DEFINE i == Here(text, stream)
<1>2. /\ Left(text, stream) /\ stream # <<>> /\ Head(stream) \in Blank /\ stream' = Tail(stream)
      /\ UNCHANGED <<calls, value>> /\ Quiet /\ ~(In("list") /\ AtEOF)
  BY <1>1 DEF At, AtEOF, readc, Placed
<1>3. i \in 1 .. Len(text) /\ text[i] \in Blank /\ Here(text, stream') = i + 1 /\ Len(text) \in Nat
  BY <1>1, <1>2, Next1
<1> HIDE DEF i
<1>4. LexFrom(text)[i] = LexFrom(text)[i + 1]
  BY <1>3, LexBlank
<1>5. ASSUME NEW b, Says(text, stream, Top, b) PROVE Says(text, stream', Top, b)
  <2>1. Lex(text) = b \o LexFrom(text)[i]
    BY <1>1, <1>5, SaysReads DEF i
  <2>2. Lex(text) = b \o LexFrom(text)[Here(text, stream')]
    BY <1>3, <1>4, <2>1
  <2> QED
    BY <1>1, <2>2, SaysReads
<1> QED
  BY <1>1, <1>2, <1>5, StayingReads

\* A list passes a blank.
LEMMA ListSkipReads == ASSUME IInv, Reading, ListSkip PROVE Reading'
<1> USE DEF ListSkip
<1>1. /\ calls # <<>> /\ value = NoValue /\ Top.at = "list" /\ IsText(text)
      /\ Placed(text, stream, Top)
  BY Inside
<1> DEFINE i == Here(text, stream)
<1>2. /\ Left(text, stream) /\ stream # <<>> /\ Head(stream) \in Blank /\ stream' = Tail(stream)
      /\ UNCHANGED <<calls, value>> /\ Quiet /\ ~(In("list") /\ AtEOF)
  BY <1>1 DEF At, AtEOF, readc, Placed
<1>3. i \in 1 .. Len(text) /\ text[i] \in Blank /\ Here(text, stream') = i + 1 /\ Len(text) \in Nat
  BY <1>1, <1>2, Next1
<1> HIDE DEF i
<1>4. LexFrom(text)[i] = LexFrom(text)[i + 1]
  BY <1>3, LexBlank
<1>5. ASSUME NEW b, Says(text, stream, Top, b) PROVE Says(text, stream', Top, b)
  <2>1. Lex(text) = b \o LexFrom(text)[i]
    BY <1>1, <1>5, SaysList DEF i
  <2>2. Lex(text) = b \o LexFrom(text)[Here(text, stream')]
    BY <1>3, <1>4, <2>1
  <2> QED
    BY <1>1, <2>2, SaysList
<1> QED
  BY <1>1, <1>2, <1>5, StayingReads

\* A comment goes on.
LEMMA CommentSkipReads == ASSUME IInv, Reading, CommentSkip PROVE Reading'
<1> USE DEF CommentSkip
<1>1. /\ calls # <<>> /\ value = NoValue /\ Top.at = "comment" /\ IsText(text)
      /\ Placed(text, stream, Top)
  BY Inside
<1> DEFINE i == Here(text, stream)
<1>2. /\ Left(text, stream) /\ stream # <<>> /\ Head(stream) \notin {"\n"} /\ stream' = Tail(stream)
      /\ UNCHANGED <<calls, value>> /\ Quiet /\ ~(In("list") /\ AtEOF)
  BY <1>1 DEF AtOther, AtEOF, readc, Placed
<1>3. i \in 1 .. Len(text) /\ text[i] \notin {"\n"} /\ Here(text, stream') = i + 1 /\ Len(text) \in Nat
  BY <1>1, <1>2, Next1
<1> HIDE DEF i
<1>4. FirstFrom(text, i, {"\n"}) = FirstFrom(text, i + 1, {"\n"})
  BY <1>3, FirstFromSteps
<1>5. ASSUME NEW b, Says(text, stream, Top, b) PROVE Says(text, stream', Top, b)
  <2>1. Lex(text) = b \o LexFrom(text)[FirstFrom(text, i, {"\n"})]
    BY <1>1, <1>5, SaysComment DEF i
  <2>2. Lex(text) = b \o LexFrom(text)[FirstFrom(text, Here(text, stream'), {"\n"})]
    BY <1>3, <1>4, <2>1
  <2> QED
    BY <1>1, <2>2, SaysComment
<1> QED
  BY <1>1, <1>2, <1>5, StayingReads

\* reads hands a char over to its reader macro.
LEMMA ReadsMacroReads == ASSUME IInv, Reading, ReadsMacro PROVE Reading'
<1> USE DEF ReadsMacro
<1>1. /\ calls # <<>> /\ value = NoValue /\ Top.at = "reads" /\ IsText(text)
      /\ Placed(text, stream, Top)
  BY Inside
<1> DEFINE c == MacroOf(Head(stream))
<1>2. /\ Left(text, stream) /\ stream # <<>> /\ Head(stream) \in readtable /\ stream' = Tail(stream)
      /\ Go(c) /\ Quiet /\ ~(In("list") /\ AtEOF)
  BY <1>1 DEF At, AtEOF, readc, Placed, Become
<1>3. IsCall(c)
  BY <1>1, <1>2, MacroBegins, 0 \in Nat, TRUE \in BOOLEAN
<1>4. ASSUME NEW a, NEW k, IsSeq(a), IsSeq(k), Has(Top, k), Says(text, stream, Top, a \o k)
      PROVE  \E l : Has(c, l) /\ Says(text, stream', c, a \o l)
  <2>1. Lex(text) = (a \o k) \o LexFrom(text)[Here(text, stream)]
    BY <1>1, <1>4, SaysReads
  <2>2. IsSeq(a \o k)
    BY <1>4, Joined
  <2>3. PICK l : Has(c, l) /\ Says(text, stream', c, (a \o k) \o l)
    BY <1>1, <1>2, <2>1, <2>2, MacroReads
  <2>4. Has(c, k \o l)
    BY <1>1, <1>4, <2>3, HasSkipped, HasBefore
  <2>5. (a \o k) \o l = a \o (k \o l)
    <3>1. Associates(a, k, l)
      BY <1>4, <2>3, HasSeq, JoinedThrice
    <3> QED
      BY ONLY <3>1 DEF Associates
  <2> QED
    BY <2>3, <2>4, <2>5
<1> HIDE DEF c
<1> QED
  BY <1>1, <1>2, <1>3, <1>4, GoingReads

\* A list calls a reader macro.
LEMMA ListMacroReads == ASSUME IInv, Reading, ListMacro PROVE Reading'
<1> USE DEF ListMacro
<1>1. /\ calls # <<>> /\ value = NoValue /\ Top.at = "list" /\ IsText(text)
      /\ Placed(text, stream, Top)
  BY Inside
<1> DEFINE c == MacroOf(Head(stream))
<1>2. /\ Left(text, stream) /\ stream # <<>> /\ Head(stream) \in readtable /\ stream' = Tail(stream)
      /\ Enter(c) /\ Quiet /\ ~(In("list") /\ AtEOF)
  BY <1>1 DEF At, AtEOF, readc, Placed
<1>3. IsCall(c)
  BY <1>1, <1>2, MacroBegins, 0 \in Nat, TRUE \in BOOLEAN
<1>4. ASSUME NEW b, IsSeq(b), Says(text, stream, Top, b)
      PROVE  \E l : Has(c, l) /\ Says(text, stream', c, b \o l)
  <2>1. Lex(text) = b \o LexFrom(text)[Here(text, stream)]
    BY <1>1, <1>4, SaysList
  <2> QED
    BY <1>1, <1>2, <1>4, <2>1, MacroReads
<1> HIDE DEF c
<1> QED
  BY <1>1, <1>2, <1>3, <1>4, EnteringReads

\* A list calls reads for a list in it.
LEMMA ListOpenReads == ASSUME IInv, Reading, ListOpen PROVE Reading'
<1> USE DEF ListOpen
<1>1. /\ calls # <<>> /\ value = NoValue /\ Top.at = "list" /\ IsText(text)
  BY Inside
<1> DEFINE c == Reads(TRUE)
<1>2. /\ stream # <<>> /\ stream' = stream /\ Enter(c) /\ Quiet /\ ~(In("list") /\ AtEOF)
  BY <1>1 DEF At, AtEOF
<1>3. IsCall(c) /\ c.at = "reads" /\ c.buf.data = <<>> /\ c.items = <<>>
  BY NewReads
<1> HIDE DEF c
<1>4. ASSUME NEW b, IsSeq(b), Says(text, stream, Top, b)
      PROVE  \E l : Has(c, l) /\ Says(text, stream', c, b \o l)
  <2>1. Lex(text) = b \o LexFrom(text)[Here(text, stream)]
    BY <1>1, <1>4, SaysList
  <2>2. Has(c, <<>>) /\ b \o <<>> = b
    BY <1>3, <1>4, HasStill, WrittenNothing, JoinedNothing
  <2>3. Says(text, stream', c, b)
    BY <1>2, <1>3, <2>1, SaysReads
  <2> QED
    BY <2>2, <2>3
<1> QED
  BY <1>1, <1>2, <1>3, <1>4, EnteringReads

\* reads begins a list.
LEMMA ReadsListReads == ASSUME IInv, Reading, ReadsList PROVE Reading'
<1> USE DEF ReadsList
<1>1. /\ calls # <<>> /\ value = NoValue /\ Top.at = "reads" /\ IsText(text) /\ IsCall(Top)
      /\ Placed(text, stream, Top)
  BY Inside
<1> DEFINE c == Changed(Top, "list", Top.buf)
           i == Here(text, stream)
<1>2. /\ Left(text, stream) /\ stream # <<>> /\ Head(stream) = "(" /\ stream' = Tail(stream)
      /\ Go(c) /\ Quiet /\ ~(In("list") /\ AtEOF)
  BY <1>1 DEF At, AtEOF, readc, Placed, Continue
<1>3. i \in 1 .. Len(text) /\ text[i] = "(" /\ Here(text, stream') = i + 1 /\ Len(text) \in Nat
  BY <1>1, <1>2, Next1
<1>4. IsCall(c) /\ c.at = "list" /\ c.buf = Top.buf /\ c.items = Top.items
  <2>1. Top.macros
    BY <1>1, <1>2, MayCallMacros
  <2>2. "list" \in Places /\ IsBuffer(Top.buf)
    BY <1>1 DEF Places, IsCall
  <2> QED
    BY <1>1, <2>1, <2>2, ChangedCall
<1> HIDE DEF c, i
<1> DEFINE o == << <<"(">> >>
           rest == LexFrom(text)[i + 1]
<1>5. LexFrom(text)[i] = o \o rest
  BY <1>3, LexSingle DEF Single
<1>6. IsSeq(rest) /\ IsSeq(o)
  <2>1. i + 1 \in 1 .. Len(text) + 1
    BY <1>3
  <2> QED
    BY <1>1, <2>1, LexSeq, JoinedOne
<1>7. ASSUME NEW a, NEW k, IsSeq(a), IsSeq(k), Has(Top, k), Says(text, stream, Top, a \o k)
      PROVE  \E l : Has(c, l) /\ Says(text, stream', c, a \o l)
  <2>1. Lex(text) = (a \o k) \o LexFrom(text)[i]
    BY <1>1, <1>7, SaysReads DEF i
  <2>2. Has(c, k \o o)
    <3>1. c.items = <<>> /\ c.buf.data = <<>> /\ Written(<<>>, k)
      BY <1>1, <1>4, <1>7 DEF Has, IsList
    <3>2. k \o o = k \o (o \o <<>>)
      BY <1>6, JoinedNothing
    <3> HIDE DEF o
    <3>3. \E skip, l : Written(<<>>, skip) /\ Written(c.items, l) /\ k \o o = skip \o (o \o l)
      BY <3>1, <3>2, WrittenNothing
    <3> QED
      BY <1>4, <3>1, <3>3 DEF Has, IsList, o
  <2>3. Lex(text) = (a \o (k \o o)) \o rest
    <3> HIDE DEF o, rest
    <3> DEFINE ak == a \o k
    <3>1. IsSeq(ak) /\ IsSeq(k \o o)
      BY <1>6, <1>7, Joined
    <3>2. ak \o o = a \o (k \o o)
      <4>1. Associates(a, k, o)
        BY <1>6, <1>7, JoinedThrice
      <4> QED
        BY ONLY <4>1 DEF Associates
    <3>3. Lex(text) = ak \o (o \o rest)
      BY <1>5, <2>1
    <3> HIDE DEF ak
    <3>4. (ak \o o) \o rest = ak \o (o \o rest)
      <4>1. Associates(ak, o, rest)
        BY <1>6, <3>1, JoinedThrice
      <4> QED
        BY ONLY <4>1 DEF Associates
    <3> QED
      BY <3>2, <3>3, <3>4, Zenon
  <2>4. Says(text, stream', c, a \o (k \o o))
    BY <1>3, <1>4, <2>3, SaysList
  <2> QED
    BY <2>2, <2>4
<1> QED
  BY <1>1, <1>2, <1>4, <1>7, GoingReads

\* reads comes to the end of the stream.
LEMMA ReadsEOFReads == ASSUME IInv, Reading, ReadsEOF PROVE Reading'
<1> USE DEF ReadsEOF
<1>1. calls # <<>> /\ value = NoValue /\ Top.at = "reads"
  BY Inside
<1>2. stream' = stream /\ Return(sexp_null) /\ Quiet /\ ~(In("list") /\ AtEOF)
  BY <1>1 DEF In
<1>3. ASSUME NEW a, NEW k, IsSeq(a), IsSeq(k), Has(Top, k), Says(text, stream, Top, a \o k)
      PROVE  Returns(text, stream', sexp_null, a)
  <2>1. Lex(text) = (a \o k) \o LexFrom(text)[Here(text, stream)]
    BY <1>1, <1>3, SaysReads
  <2>2. Written(<<>>, k) /\ Present(sexp_null) = <<>>
    BY <1>1, <1>3, HasSkipped DEF Present
  <2> QED
    BY <1>2, <2>1, <2>2 DEF Returns
<1> QED
  BY <1>1, <1>2, <1>3, NullIsAValue, ReturningReads

\* A comment ends and reads is called.
LEMMA CommentEndReads == ASSUME IInv, Reading, CommentEnd PROVE Reading'
<1> USE DEF CommentEnd
<1>1. /\ calls # <<>> /\ value = NoValue /\ Top.at = "comment" /\ IsText(text)
      /\ Placed(text, stream, Top)
  BY Inside
<1> DEFINE c == Reads(TRUE)
           i == Here(text, stream)
           f == FirstFrom(text, i, {"\n"})
<1>2. /\ Left(text, stream) /\ (stream = <<>> \/ Head(stream) = "\n")
      /\ stream' = (IF stream = <<>> THEN stream ELSE Tail(stream)) /\ Go(c) /\ Quiet /\ ~(In("list") /\ AtEOF)
  BY <1>1 DEF At, AtEOF, Placed, In, Become
<1>3. /\ i \in 1 .. Len(text) + 1 /\ Len(text) \in Nat
      /\ stream # <<>> => i \in 1 .. Len(text) /\ text[i] = "\n" /\ Here(text, Tail(stream)) = i + 1
      /\ stream = <<>> => i = Len(text) + 1
  BY <1>1, <1>2, Next1
<1> HIDE DEF i
<1>4. LexFrom(text)[f] = LexFrom(text)[Here(text, stream')]
  <2>1. CASE stream = <<>>
    <3>1. f = i
      BY <1>3, <2>1, FirstFromEnd
    <3> QED
      BY <1>2, <2>1, <3>1 DEF i
  <2>2. CASE stream # <<>>
    <3>1. f = i
      BY <1>3, <2>2, FirstFromSteps
    <3>2. LexFrom(text)[i] = LexFrom(text)[i + 1]
      BY <1>3, <2>2, LexBlank DEF Blank
    <3> QED
      BY <1>2, <1>3, <2>2, <3>1, <3>2
  <2> QED
    BY <2>1, <2>2
<1> HIDE DEF f
<1>5. IsCall(c) /\ c.at = "reads" /\ c.buf.data = <<>> /\ c.items = <<>>
  BY NewReads
<1> HIDE DEF c
<1>6. ASSUME NEW a, NEW k, IsSeq(a), IsSeq(k), Has(Top, k), Says(text, stream, Top, a \o k)
      PROVE  \E l : Has(c, l) /\ Says(text, stream', c, a \o l)
  <2>1. Lex(text) = (a \o k) \o LexFrom(text)[f]
    BY <1>1, <1>6, SaysComment DEF f, i
  <2>2. Says(text, stream', c, a \o k)
    BY <1>4, <1>5, <2>1, SaysReads
  <2>3. Has(c, k)
    BY <1>1, <1>5, <1>6, HasSkipped, HasStill
  <2> QED
    BY <2>2, <2>3
<1> QED
  BY <1>1, <1>2, <1>5, <1>6, GoingReads

-----------------------------------------------------------------------------
(* Calls and returns *)

\* It makes no difference whether x is the first of what is left or the last of what is read.
Regroups(a, k, x, r) == (a \o k) \o (x \o r) = (a \o (k \o x)) \o r

\* Tokens go over from those that are left to those that a call has read.
LEMMA Regrouped ==
  ASSUME NEW a, IsSeq(a), NEW k, IsSeq(k), NEW x, IsSeq(x), NEW r, IsSeq(r)
  PROVE  Regroups(a, k, x, r)
<1> DEFINE ak == a \o k
<1>1. IsSeq(ak)
  BY Joined
<1>2. ak \o x = a \o (k \o x)
  <2>1. Associates(a, k, x)
    BY JoinedThrice
  <2> QED
    BY ONLY <2>1 DEF Associates
<1> HIDE DEF ak
<1>3. (ak \o x) \o r = ak \o (x \o r)
  <2>1. Associates(ak, x, r)
    BY <1>1, JoinedThrice
  <2> QED
    BY ONLY <2>1 DEF Associates
<1>4. (a \o k) \o (x \o r) = (a \o (k \o x)) \o r
  BY <1>2, <1>3, Zenon DEF ak
<1> QED
  BY ONLY <1>4 DEF Regroups

\* A quote calls reads for what is quoted.
LEMMA QuoteReads == ASSUME IInv, Reading, Quote PROVE Reading'
<1> USE DEF Quote
<1>1. /\ calls # <<>> /\ value = NoValue /\ Top.at = "quote" /\ IsCall(Top)
  BY Inside
<1> DEFINE d == [Top EXCEPT !.at = "quoted"]
           c == Reads(TRUE)
           f == Append(Front(calls), d)
           q == << <<"'">> >>
           rest == LexFrom(text)[Here(text, stream)]
<1>2. /\ stream' = stream /\ value' = value /\ text' = text /\ calls' = Append(f, c)
      /\ errors' = errors /\ results' = results
  BY DEF Quiet, NoError, aux
<1>3. IsCall(d) /\ d.at = "quoted"
  <2>1. "quoted" \in Places /\ Top.macros
    BY <1>1 DEF Places, IsCall
  <2> QED
    BY <1>1, <2>1, ChangedAt
<1>4. IsCall(c) /\ c.at = "reads" /\ c.buf.data = <<>> /\ c.items = <<>>
  BY NewReads
<1> HIDE DEF d, c
<1>5. IsStack(calls) /\ IsStack(Front(calls)) /\ IsSeq(calls) /\ IsSeq(Front(calls))
  BY <1>1, Popped, StackSeq DEF IInv, Typed
<1>6. IsStack(f) /\ IsSeq(f)
  BY <1>3, <1>5, Pushed, StackSeq
<1>7. calls' # <<>> /\ Last(calls') = c
  BY <1>2, <1>4, <1>6, Pushed
<1>8. Top' = c
  BY <1>7 DEF Top
<1> SUFFICES ASSUME errors = {}
             PROVE  \E b : AllHave(results, calls', b) /\ Says(text, stream', c, b)
  BY <1>1, <1>2, <1>7, <1>8 DEF Reading
<1>9. PICK b : AllHave(results, calls, b) /\ Says(text, stream, Top, b)
  BY <1>1 DEF Reading, In
<1>10. PICK a, k : IsSeq(a) /\ IsSeq(k) /\ AllHave(results, Front(calls), a) /\ Has(Top, k) /\ Joins(b, a, k)
  <2>1. \E a, k : IsSeq(a) /\ IsSeq(k) /\ AllHave(results, Front(calls), a) /\ Has(Last(calls), k) /\ Joins(b, a, k)
    BY ONLY <1>1, <1>5, <1>9, InnermostHas
  <2> QED
    BY <2>1 DEF Top
<1>11. IsSeq(q) /\ IsSeq(rest)
  <2>1. IsText(text) /\ Left(text, stream)
    BY <1>1, Inside DEF Placed
  <2>2. Here(text, stream) \in 1 .. Len(text) + 1
    BY <2>1, Next1
  <2> QED
    BY <2>1, <2>2, LexSeq, JoinedOne, JoinedNothing
<1>12. Lex(text) = (a \o (k \o q)) \o rest
  <2>1. Lex(text) = b \o (q \o rest)
    BY <1>1, <1>9, SaysQuote
  <2> HIDE DEF q, rest
  <2>2. Lex(text) = (a \o k) \o (q \o rest)
    BY <1>10, <2>1, Zenon DEF Joins
  <2>3. (a \o k) \o (q \o rest) = (a \o (k \o q)) \o rest
    <3>1. Regroups(a, k, q, rest)
      BY <1>10, <1>11, Regrouped
    <3> QED
      BY ONLY <3>1 DEF Regroups
  <2> QED
    BY <2>2, <2>3, Zenon
<1>13. Has(d, k \o q)
  <2>1. Written(<<>>, k)
    BY <1>1, <1>10, HasSkipped
  <2> QED
    BY <1>3, <2>1 DEF Has, IsList
<1>14. AllHave(results, f, a \o (k \o q))
  <2> HIDE DEF q
  <2> QED
    BY <1>5, <1>10, <1>13, OneMoreHas
<1> DEFINE m == a \o (k \o q)
<1>15. IsSeq(m)
  BY <1>6, <1>14, AllSeq
<1>16. Lex(text) = m \o rest
  BY <1>12
<1> HIDE DEF m, f
<1>17. Has(c, <<>>) /\ m \o <<>> = m
  BY <1>4, <1>15, HasStill, WrittenNothing, JoinedNothing
<1>18. AllHave(results, calls', m \o <<>>)
  BY <1>2, <1>6, <1>14, <1>17, OneMoreHas DEF m
<1>19. Says(text, stream', c, m)
  BY <1>2, <1>4, <1>16, SaysReads
<1> QED
  BY <1>17, <1>18, <1>19

\* The tokens after a return.
LEMMA OutsideReads ==
  ASSUME IInv, Reading, calls # <<>>, value # NoValue, errors = {}
  PROVE  \E b, a, k : /\ IsSeq(a) /\ IsSeq(k) /\ AllHave(results, Front(calls), a) /\ Has(Top, k) /\ Joins(b, a, k)
                      /\ Returns(text, stream, value, b)
<1>1. IsSeq(calls)
  BY StackSeq DEF IInv, Typed
<1>2. PICK b : AllHave(results, calls, b) /\ Returns(text, stream, value, b)
  BY DEF Reading, In
<1>3. \E a, k : IsSeq(a) /\ IsSeq(k) /\ AllHave(results, Front(calls), a) /\ Has(Last(calls), k) /\ Joins(b, a, k)
  BY ONLY <1>1, <1>2, calls # <<>>, InnermostHas
<1> QED
  BY <1>2, <1>3 DEF Top

\* A quote returns the list of p-quote and its sexp.
LEMMA QuoteReturnReads == ASSUME IInv, Reading, QuoteReturn PROVE Reading'
<1> USE DEF QuoteReturn
<1>0. Returned("quoted")
  OBVIOUS
<1>1. calls # <<>> /\ value # NoValue /\ Top.at = "quoted" /\ IsText(text) /\ Left(text, stream)
  BY <1>0, Outside
<1> DEFINE v == sexp_new_source_list(<<p_quote, value>>)
           q == << <<"'">> >>
           rest == LexFrom(text)[Here(text, stream)]
<1>2. /\ calls' = Front(calls) /\ value' = v /\ text' = text /\ stream' = stream
      /\ errors' = errors /\ results' = results
  BY DEF Return, Quiet, NoError, aux
<1>3. v # NoValue /\ v # sexp_null /\ v = <<"list", <<p_quote, value>> >>
  BY NotNull DEF sexp_new_source_atom, sexp_new_source_list
<1> HIDE DEF v
<1>4. value' # NoValue'
  BY <1>2, <1>3 DEF NoValue
<1> SUFFICES ASSUME errors = {}
             PROVE  \E b : AllHave(results, Front(calls), b) /\ Returns(text, stream, v, b)
  BY <1>2, <1>4 DEF Reading
<1>5. PICK b, a, k : /\ IsSeq(a) /\ IsSeq(k) /\ AllHave(results, Front(calls), a) /\ Has(Top, k) /\ Joins(b, a, k)
                     /\ Returns(text, stream, value, b)
  BY <1>1, OutsideReads
<1>6. PICK m : Written(Present(value), m) /\ Lex(text) = (b \o m) \o rest
  BY <1>5 DEF Returns
<1>7. PICK skip : Written(<<>>, skip) /\ k = skip \o q
  BY <1>1, <1>5 DEF Has
<1>8. IsSeq(q) /\ IsSeq(rest) /\ IsSeq(m) /\ IsSeq(skip) /\ IsSeq(q \o m)
  <2>1. Here(text, stream) \in 1 .. Len(text) + 1
    BY <1>1, Next1
  <2>2. IsSeq(q) /\ IsSeq(rest) /\ IsSeq(m) /\ IsSeq(skip)
    BY <1>1, <1>6, <1>7, <2>1, LexSeq, JoinedOne, JoinedNothing, WrittenIs
  <2> QED
    BY <2>2, Joined
<1>9. Written(<<v>>, skip \o (q \o m))
  <2>1. Written(<<v>>, q \o m)
    BY <1>3, <1>6, WrittenQuote
  <2>2. Written(<<>> \o <<v>>, skip \o (q \o m))
    BY <1>7, <2>1, WrittenJoined
  <2>3. <<>> \o <<v>> = <<v>>
    BY <2>1, WrittenIs, JoinedNothing
  <2> QED
    BY <2>2, <2>3
<1>10. Present(v) = <<v>>
  BY <1>3 DEF Present
<1> HIDE DEF q, rest
<1>11. Lex(text) = (a \o (skip \o (q \o m))) \o rest
  <2>1. b \o m = a \o (k \o m)
    <3>1. (a \o k) \o m = a \o (k \o m)
      <4>1. Associates(a, k, m)
        BY <1>5, <1>8, JoinedThrice
      <4> QED
        BY ONLY <4>1 DEF Associates
    <3> QED
      BY <1>5, <3>1, Zenon DEF Joins
  <2>2. k \o m = skip \o (q \o m)
    <3>1. (skip \o q) \o m = skip \o (q \o m)
      <4>1. Associates(skip, q, m)
        BY <1>8, JoinedThrice
      <4> QED
        BY ONLY <4>1 DEF Associates
    <3> QED
      BY <1>7, <3>1, Zenon
  <2> QED
    BY <1>6, <2>1, <2>2, Zenon
<1>12. Returns(text, stream, v, a)
  BY <1>9, <1>10, <1>11 DEF Returns, rest
<1> QED
  BY <1>5, <1>12

\* An item belongs to its list.
LEMMA HasItem ==
  ASSUME NEW c, IsList(c), NEW d, d.at = "list", d.buf.data = <<>>, NEW v, d.items = Append(c.items, v),
         NEW k, Has(c, k), NEW m, Written(<<v>>, m)
  PROVE  Has(d, k \o m)
<1> DEFINE o == << <<"(">> >>
           km == k \o m
<1>1. PICK skip, l : Written(<<>>, skip) /\ Written(c.items, l) /\ k = skip \o (o \o l)
  BY DEF Has
<1> DEFINE ol == o \o l
           lm == l \o m
<1>2. IsSeq(o) /\ IsSeq(m) /\ IsSeq(skip) /\ IsSeq(l) /\ IsSeq(c.items)
  BY <1>1, JoinedOne, JoinedNothing, WrittenIs
<1>3. IsSeq(ol) /\ k = skip \o ol
  BY <1>1, <1>2, Joined
<1>4. Written(d.items, lm)
  <2>1. d.items = c.items \o <<v>>
    BY <1>2, JoinedLast
  <2> QED
    BY <1>1, <2>1, WrittenJoined
<1>5. ol \o m = o \o lm
  <2> HIDE DEF o
  <2> QED
    <3>1. Associates(o, l, m)
      BY <1>2, JoinedThrice
    <3> QED
      BY ONLY <3>1 DEF Associates
<1> HIDE DEF ol
<1>6. (skip \o ol) \o m = skip \o (ol \o m)
  <2>1. Associates(skip, ol, m)
    BY ONLY <1>2, <1>3, JoinedThrice
  <2> QED
    BY ONLY <2>1 DEF Associates
<1>7. km = skip \o (o \o lm)
  BY <1>3, <1>5, <1>6, Zenon
<1> HIDE DEF km, lm
<1>8. \E s, n : Written(<<>>, s) /\ Written(d.items, n) /\ km = s \o (o \o n)
  <2>1. Written(<<>>, skip) /\ Written(d.items, lm) /\ km = skip \o (o \o lm)
    BY <1>1, <1>4, <1>7
  <2> WITNESS skip, lm
  <2> QED
    BY <2>1
<1>9. IsList(d) /\ d.at # "quoted" /\ d.at # "reads"
  BY DEF IsList
<1>10. Has(d, km)
  <2> HIDE DEF o
  <2>1. (IsList(d) => \E s, n : Written(<<>>, s) /\ Written(d.items, n) /\ km = s \o (o \o n)) => Has(d, km)
    BY <1>9 DEF Has, o
  <2> QED
    BY <1>8, <2>1, Zenon
<1> QED
  BY <1>10 DEF km

\* A list takes the sexp that a call returned.
LEMMA ListAppendReads == ASSUME IInv, Reading, ListAppend PROVE Reading'
<1> USE DEF ListAppend
<1>1. /\ calls # <<>> /\ value # NoValue /\ Top.at = "list" /\ IsText(text) /\ Left(text, stream)
      /\ IsStack(Front(calls)) /\ IsCall(Top)
  BY Outside
<1> DEFINE c == [Top EXCEPT !.items = Append(Top.items, value)]
           rest == LexFrom(text)[Here(text, stream)]
<1>2. /\ stream' = stream /\ value' = NoValue /\ text' = text /\ calls' = Append(Front(calls), c)
      /\ errors' = errors /\ results' = results
  BY DEF Quiet, NoError, aux
<1>3. IsCall(c) /\ c.at = "list" /\ c.buf = Top.buf /\ c.items = Append(Top.items, value)
  BY <1>1, ChangedItems
<1> HIDE DEF c
<1>4. calls' # <<>> /\ Last(calls') = c
  BY <1>1, <1>2, <1>3, Pushed
<1>5. Top' = c /\ value' = NoValue'
  BY <1>2, <1>4 DEF Top, NoValue
<1>6. value = sexp_null /\ errors = {} => (In("list") /\ AtEOF)'
  <2>1. value = sexp_null /\ errors = {} => stream = <<>>
    BY <1>1 DEF IInv, Promised
  <2> QED
    BY <1>2, <1>3, <1>4, <1>5, <2>1 DEF In, AtEOF
<1> SUFFICES ASSUME errors = {}, value # sexp_null
             PROVE  \E b : AllHave(results, calls', b) /\ Says(text, stream', c, b)
  BY <1>2, <1>4, <1>5, <1>6 DEF Reading
<1>7. PICK b, a, k : /\ IsSeq(a) /\ IsSeq(k) /\ AllHave(results, Front(calls), a) /\ Has(Top, k) /\ Joins(b, a, k)
                     /\ Returns(text, stream, value, b)
  BY <1>1, OutsideReads
<1>8. PICK m : Written(<<value>>, m) /\ Lex(text) = (b \o m) \o rest
  BY <1>7 DEF Returns, Present
<1>9. Top.buf.data = <<>> /\ IsSeq(m)
  BY <1>1, <1>7, <1>8, WrittenIs DEF Has
<1>13. Has(c, k \o m)
  <2>1. IsList(Top) /\ c.at = "list" /\ c.buf.data = <<>>
    BY <1>1, <1>3, <1>9 DEF IsList
  <2>2. Has(Top, k) /\ Written(<<value>>, m)
    BY <1>7, <1>8
  <2> QED
    BY ONLY <1>3, <2>1, <2>2, HasItem
<1>14. AllHave(results, calls', a \o (k \o m))
  BY <1>1, <1>2, <1>7, <1>13, OneMoreHas, StackSeq
<1>15. Lex(text) = (a \o (k \o m)) \o rest
  <2> HIDE DEF rest
  <2>1. (a \o k) \o m = a \o (k \o m)
    <3>1. Associates(a, k, m)
      BY <1>7, <1>9, JoinedThrice
    <3> QED
      BY ONLY <3>1 DEF Associates
  <2> QED
    BY <1>7, <1>8, <2>1, Zenon DEF Joins
<1>16. Says(text, stream', c, a \o (k \o m))
  BY <1>2, <1>3, <1>15, SaysList
<1> QED
  BY <1>14, <1>16

\* A list ends.
LEMMA ListCloseReads == ASSUME IInv, Reading, ListClose PROVE Reading'
<1> USE DEF ListClose
<1>1. /\ calls # <<>> /\ value = NoValue /\ Top.at = "list" /\ IsText(text)
      /\ Placed(text, stream, Top)
  BY Inside
<1> DEFINE v == sexp_new_source_list(Top.items)
           i == Here(text, stream)
           o == << <<"(">> >>
           x == << <<")">> >>
           rest == LexFrom(text)[i + 1]
<1>2. /\ Left(text, stream) /\ stream # <<>> /\ Head(stream) = ")" /\ stream' = Tail(stream)
      /\ Return(v) /\ Quiet /\ ~(In("list") /\ AtEOF)
  BY <1>1 DEF At, AtEOF, readc, Placed
<1>3. i \in 1 .. Len(text) /\ text[i] = ")" /\ Here(text, stream') = i + 1 /\ Len(text) \in Nat
  BY <1>1, <1>2, Next1
<1>4. v # NoValue /\ v # sexp_null /\ v = <<"list", Top.items>>
  BY NotNull DEF sexp_new_source_atom, sexp_new_source_list
<1> HIDE DEF v, i
<1>5. LexFrom(text)[i] = x \o rest
  BY <1>3, LexSingle DEF Single
<1>6. IsSeq(rest) /\ IsSeq(o) /\ IsSeq(x)
  <2>1. i + 1 \in 1 .. Len(text) + 1
    BY <1>3
  <2> QED
    BY <1>1, <2>1, LexSeq, JoinedOne
<1>7. ASSUME NEW a, NEW k, IsSeq(a), IsSeq(k), Has(Top, k), Says(text, stream, Top, a \o k)
      PROVE  Returns(text, stream', v, a)
  <2>1. PICK skip, l : Written(<<>>, skip) /\ Written(Top.items, l) /\ k = skip \o (o \o l)
    BY <1>1, <1>7 DEF Has, IsList
  <2>2. IsSeq(skip) /\ IsSeq(l) /\ IsSeq(o \o l)
    BY <1>6, <2>1, WrittenIs, Joined
  <2>3. k \o x = skip \o (o \o (l \o x))
    <3> HIDE DEF o, x
    <3>1. IsSeq(skip) /\ IsSeq(o) /\ IsSeq(l) /\ IsSeq(x)
      BY <1>6, <2>2
    <3> DEFINE ol == o \o l
    <3>2. ol \o x = o \o (l \o x)
      <4>1. Associates(o, l, x)
        BY ONLY <3>1, JoinedThrice
      <4> QED
        BY ONLY <4>1 DEF Associates
    <3>3. IsSeq(skip) /\ IsSeq(ol) /\ IsSeq(x) /\ k = skip \o ol
      BY <2>1, <2>2, <3>1
    <3> HIDE DEF ol
    <3>4. (skip \o ol) \o x = skip \o (ol \o x)
      <4>1. Associates(skip, ol, x)
        BY ONLY <3>3, JoinedThrice
      <4> QED
        BY ONLY <4>1 DEF Associates
    <3> QED
      BY <3>2, <3>3, <3>4, Zenon
  <2>4. Written(Present(v), k \o x)
    <3>1. Written(<<v>>, o \o (l \o x))
      BY <1>4, <2>1, WrittenList
    <3>2. Written(<<>> \o <<v>>, skip \o (o \o (l \o x)))
      BY <2>1, <3>1, WrittenJoined
    <3>3. <<>> \o <<v>> = <<v>>
      BY <3>1, WrittenIs, JoinedNothing
    <3> QED
      BY <1>4, <2>3, <3>2, <3>3 DEF Present
  <2>5. Lex(text) = (a \o (k \o x)) \o rest
    <3>1. Lex(text) = (a \o k) \o LexFrom(text)[i]
      BY <1>1, <1>7, SaysList DEF i
    <3>a. IsSeq(a) /\ IsSeq(k) /\ IsSeq(x) /\ IsSeq(rest)
      BY <1>6, <1>7
    <3> HIDE DEF x, rest
    <3>2. (a \o k) \o (x \o rest) = (a \o (k \o x)) \o rest
      <4>1. Regroups(a, k, x, rest)
        BY ONLY <3>a, Regrouped
      <4> QED
        BY ONLY <4>1 DEF Regroups
    <3> QED
      BY <1>5, <3>1, <3>2, Zenon
  <2> QED
    BY <1>3, <2>4, <2>5 DEF Returns
<1> QED
  BY <1>1, <1>2, <1>4, <1>7, ReturningReads

\* The caller asks for the next sexp.
LEMMA CallReadsReads == ASSUME IInv, Reading, CallReads PROVE Reading'
<1> USE DEF CallReads
<1> DEFINE c == Reads(TRUE)
<1>1. /\ calls = <<>> /\ value = NoValue /\ calls' = <<c>> /\ value' = value /\ stream' = stream
      /\ text' = text /\ errors' = errors /\ results' = results
  BY DEF Quiet, NoError, aux
<1>2. IsCall(c) /\ c.at = "reads" /\ c.buf.data = <<>> /\ c.items = <<>>
  BY NewReads
<1> HIDE DEF c
<1>3. calls' = Append(calls, c)
  BY ONLY <1>1
<1>4. IsStack(calls) /\ IsSeq(calls)
  BY StackSeq DEF IInv, Typed
<1>5. calls' # <<>> /\ Last(calls') = c
  BY <1>2, <1>3, <1>4, Pushed
<1>6. Top' = c
  BY <1>5 DEF Top
<1> SUFFICES ASSUME errors = {}
             PROVE  \E b : AllHave(results, calls', b) /\ Says(text, stream', c, b)
  BY <1>1, <1>5, <1>6 DEF Reading
<1>7. PICK b : AllHave(results, calls, b) /\ Lex(text) = b \o LexFrom(text)[Here(text, stream)]
  BY <1>1 DEF Reading, In
<1>8. Has(c, <<>>) /\ b \o <<>> = b
  BY <1>2, <1>4, <1>7, HasStill, WrittenNothing, JoinedNothing, AllSeq
<1>9. AllHave(results, calls', b \o <<>>)
  BY <1>3, <1>4, <1>7, <1>8, OneMoreHas
<1>10. Says(text, stream', c, b)
  BY <1>1, <1>2, <1>7, SaysReads
<1> QED
  BY <1>8, <1>9, <1>10

\* The caller gets it.
LEMMA TakeSexpReads == ASSUME IInv, Reading, TakeSexp PROVE Reading'
<1> USE DEF TakeSexp
<1>1. /\ calls = <<>> /\ calls' = calls /\ value # NoValue /\ value' = NoValue /\ stream' = stream
      /\ text' = text /\ errors' = errors
      /\ results' = IF value = sexp_null THEN results ELSE Append(results, value)
  BY DEF NoError
<1>2. value' = NoValue'
  BY <1>1 DEF NoValue
<1> SUFFICES ASSUME errors = {}
             PROVE  \E b : AllHave(results', <<>>, b) /\ Lex(text) = b \o LexFrom(text)[Here(text, stream)]
  BY <1>1, <1>2 DEF Reading, In
<1>3. PICK b : AllHave(results, <<>>, b) /\ Returns(text, stream, value, b)
  BY <1>1 DEF Reading, In
<1>4. PICK k : Written(Present(value), k) /\ Lex(text) = (b \o k) \o LexFrom(text)[Here(text, stream)]
  BY <1>3 DEF Returns
<1>5. Written(results, b) /\ IsSeq(results)
  BY <1>3, NoneHave, WrittenIs
<1>6. results' = results \o Present(value)
  BY <1>1, <1>5, JoinedLast, JoinedNothing DEF Present
<1>7. Written(results', b \o k)
  BY <1>4, <1>5, <1>6, WrittenJoined
<1> QED
  BY <1>4, <1>7, NoneHave

\* Steps that report an error.
LEMMA ReadsUnmatchedReads == ASSUME ReadsUnmatched PROVE Reading'
BY ErrorReads DEF ReadsUnmatched, Report

\* An end of the stream in a list.
LEMMA ListUnclosedReads == ASSUME ListUnclosed PROVE Reading'
BY ErrorReads DEF ListUnclosed, Report

\* One in a string.
LEMMA StringUnterminatedReads == ASSUME StringUnterminated PROVE Reading'
BY ErrorReads DEF StringUnterminated, Report

\* One in an octal escape.
LEMMA EscapeOctalAbortsReads == ASSUME EscapeOctalAborts PROVE Reading'
BY ErrorReads DEF EscapeOctalAborts

\* A hexadecimal numeral that is too long.
LEMMA HexTooLongReads == ASSUME HexTooLong PROVE Reading'
BY ErrorReads DEF HexTooLong, Report

\* No numeral.
LEMMA NumeralErrorReads == ASSUME NumeralError PROVE Reading'
BY ErrorReads DEF NumeralError, Report

\* At first nothing was read.
LEMMA InitReading == ASSUME Init PROVE Reading
<1> USE DEF Init
<1>1. IsText(text) /\ text \in Seq(STRING) /\ Len(text) \in Nat
  BY TextsAre DEF IsText
<1>2. Here(text, stream) = 1
  BY <1>1, LeftAtFirst
<1>3. AllHave(results, calls, <<>>)
  BY NoneHave, WrittenNothing
<1>4. Lex(text) = <<>> \o LexFrom(text)[1]
  <2>1. IsSeq(LexFrom(text)[1])
    BY <1>1, LexSeq, 1 \in 1 .. Len(text) + 1
  <2> QED
    BY <2>1, JoinedNothing DEF Lex
<1> QED
  BY <1>2, <1>3, <1>4 DEF Reading

\* A step that changes nothing keeps it.
LEMMA IdleReads == ASSUME Reading, UNCHANGED vars PROVE Reading'
<1>1. /\ text' = text /\ stream' = stream /\ calls' = calls /\ value' = value
      /\ errors' = errors /\ results' = results
  BY DEF vars
<1> QED
  BY <1>1 DEF Reading, Top, In, AtEOF, NoValue

-----------------------------------------------------------------------------
(* Symbols *)

\* What a call of reads says that is in a symbol.
LEMMA SaysAtom ==
  ASSUME NEW t, NEW s, NEW c, c.at = "atom", NEW b
  PROVE  Says(t, s, c, b) <=>
           \E q \in 1 .. Len(t) : Lex(t) = b \o LexFrom(t)[q] /\ InAtom(t, Here(t, s), q, c.buf.data)
BY DEF Says, Numerals

\* What one says that is in a symbol of a list.
LEMMA SaysListAtom ==
  ASSUME NEW t, NEW s, NEW c, c.at = "list_atom", NEW b
  PROVE  Says(t, s, c, b) <=>
           \E q \in 1 .. Len(t) : Lex(t) = b \o LexFrom(t)[q] /\ InAtom(t, Here(t, s), q, c.buf.data)
BY DEF Says, Numerals

\* A part of a text with the char after it.
LEMMA PartGrows ==
  ASSUME NEW S, NEW t \in Seq(S), NEW q \in 1 .. Len(t), NEW p \in q .. Len(t)
  PROVE  SubSeq(t, q, p) = SubSeq(t, q, p - 1) \o <<t[p]>>
<1> DEFINE a == SubSeq(t, q, p - 1)
           b == SubSeq(t, q, p)
           n == p - q
<1>1. n \in Nat /\ Len(t) \in Nat /\ t[p] \in S
  OBVIOUS
<1>2. a \in Seq(S) /\ Len(a) = n /\ \A h \in 1 .. n : a[h] = t[q + h - 1]
  <2>1. q \in 1 .. Len(t) + 1 /\ p - 1 \in q - 1 .. Len(t) /\ (p - 1) - q + 1 = n
    BY <1>1
  <2> QED
    BY <2>1, PartOfSeq
<1>3. b \in Seq(S) /\ Len(b) = n + 1 /\ \A h \in 1 .. n + 1 : b[h] = t[q + h - 1]
  <2>1. q \in 1 .. Len(t) + 1 /\ p \in q - 1 .. Len(t) /\ p - q + 1 = n + 1
    BY <1>1
  <2> QED
    BY <2>1, PartOfSeq
<1>4. b[n + 1] = t[p]
  <2>1. n + 1 \in 1 .. n + 1 /\ q + (n + 1) - 1 = p
    BY <1>1
  <2> QED
    BY <1>3, <2>1
<1> HIDE DEF a, b, n
<1>5. Append(a, t[p]) \in Seq(S) /\ Len(Append(a, t[p])) = n + 1
  BY <1>1, <1>2
<1>6. ASSUME NEW h \in 1 .. n + 1 PROVE Append(a, t[p])[h] = b[h]
  <2>1. CASE h = n + 1
    BY <1>1, <1>2, <1>4, <2>1
  <2>2. CASE h # n + 1
    <3>1. h \in 1 .. n
      BY <1>1, <2>2
    <3>2. Append(a, t[p])[h] = a[h]
      BY <1>1, <1>2, <3>1
    <3> QED
      BY <1>2, <1>3, <3>1, <3>2
  <2> QED
    BY <2>1, <2>2
<1>7. Append(a, t[p]) = b
  BY <1>1, <1>3, <1>5, <1>6, SeqEqual
<1>8. Append(a, t[p]) = a \o <<t[p]>>
  BY <1>2, JoinedLast DEF IsSeq
<1> QED
  BY <1>7, <1>8, Zenon DEF a, b

\* A symbol begins.
LEMMA AtomStarts ==
  ASSUME NEW t, IsText(t), NEW q \in 1 .. Len(t), BeginsWord(t[q]), ~LooksNumeral(Word(t, q))
  PROVE  InAtom(t, q, q, <<>>)
<1>1. t \in Seq(STRING) /\ Len(t) \in Nat
  BY DEF IsText
<1>2. WordEnd(t, q) \in q + 1 .. Len(t) + 1
  BY <1>1, WordIs
<1>3. SubSeq(t, q, q - 1) = <<>>
  BY <1>1
<1> QED
  BY <1>2, <1>3 DEF InAtom

\* It goes on.
LEMMA AtomGrows ==
  ASSUME NEW t, IsText(t), NEW q \in 1 .. Len(t), NEW p \in 1 .. Len(t), t[p] \notin Delimiter,
         NEW d, InAtom(t, p, q, d)
  PROVE  InAtom(t, p + 1, q, d \o <<t[p]>>)
<1>1. t \in Seq(STRING) /\ Len(t) \in Nat
  BY DEF IsText
<1>2. p \in q .. WordEnd(t, q) /\ d = SubSeq(t, q, p - 1) /\ BeginsWord(t[q]) /\ ~LooksNumeral(Word(t, q))
  BY DEF InAtom
<1>3. WordEnd(t, q) \in q .. Len(t) + 1 /\ (WordEnd(t, q) <= Len(t) => t[WordEnd(t, q)] \in Delimiter)
  <2>1. q \in 1 .. Len(t) + 1
    BY <1>1
  <2> QED
    BY <1>1, <2>1, FirstFromIs DEF WordEnd
<1>4. p + 1 \in q .. WordEnd(t, q) /\ p \in q .. Len(t) /\ p + 1 - 1 = p
  BY <1>1, <1>2, <1>3
<1>5. SubSeq(t, q, p) = d \o <<t[p]>>
  BY <1>1, <1>2, <1>4, PartGrows
<1> QED
  BY <1>2, <1>4, <1>5 DEF InAtom

\* It ends: it is the token that began with it.
LEMMA AtomEnds ==
  ASSUME NEW t, IsText(t), NEW q \in 1 .. Len(t), NEW p \in 1 .. Len(t) + 1, p <= Len(t) => t[p] \in Delimiter,
         NEW d, InAtom(t, p, q, d)
  PROVE  d \in Seq(STRING) /\ d \notin Marks /\ LexFrom(t)[q] = <<d>> \o LexFrom(t)[p]
<1>1. t \in Seq(STRING) /\ Len(t) \in Nat
  BY DEF IsText
<1>2. p \in q .. WordEnd(t, q) /\ d = SubSeq(t, q, p - 1) /\ BeginsWord(t[q]) /\ ~LooksNumeral(Word(t, q))
  BY DEF InAtom
<1>3. WordEnd(t, q) \in q .. Len(t) + 1 /\ \A j \in q .. WordEnd(t, q) - 1 : t[j] \notin Delimiter
  <2>1. q \in 1 .. Len(t) + 1
    BY <1>1
  <2> QED
    BY <1>1, <2>1, FirstFromIs DEF WordEnd
<1>4. p = WordEnd(t, q)
  <2>1. ASSUME p # WordEnd(t, q) PROVE FALSE
    <3>1. p \in q .. WordEnd(t, q) - 1 /\ p <= Len(t)
      BY <1>1, <1>2, <1>3, <2>1
    <3> QED
      BY <1>3, <3>1
  <2> QED
    BY <2>1
<1>5. d = Word(t, q)
  BY <1>2, <1>4 DEF Word
<1>6. d \in Seq(STRING) /\ d[1] = t[q]
  BY <1>1, <1>2, <1>5, WordIs
<1>7. d \notin Marks
  <2>1. d[1] \notin {"(", ")", "'", "#", "semicolon"}
    BY <1>2, <1>6 DEF BeginsWord, Single
  <2>2. \A x \in Marks : x[1] \in {"(", ")", "'", "#", "semicolon"}
    BY DEF Marks, Skipped
  <2> QED
    BY <2>1, <2>2
<1>8. WordToken(t, q) = d /\ WordAfter(t, q) = p
  BY <1>2, <1>4, <1>5 DEF WordToken, WordAfter
<1> QED
  BY <1>1, <1>2, <1>6, <1>7, <1>8, LexWord

\* The whole of a sequence.
LEMMA WholeSeq ==
  ASSUME NEW S, NEW s \in Seq(S)
  PROVE  SubSeq(s, 1, Len(s)) = s
BY IsSeq(s), JoinedApart, JoinedNothing DEF IsSeq

\* A symbol is written as its chars.
LEMMA WrittenSymbol ==
  ASSUME NEW buf, NEW S, buf.data \in Seq(S), buf.data \notin Marks
  PROVE  Written(<<Symbol(buf)>>, <<buf.data>>)
<1> DEFINE v == Symbol(buf)
           n == lps_from_chars_with_len(buf.data, Len(buf.data))
<1>1. Len(buf.data) \in 0 .. Len(buf.data)
  OBVIOUS
<1>2. Chars(n) = buf.data
  BY <1>1, LpsRoundTrip, WholeSeq
<1> HIDE DEF n
<1>3. v = <<"sym", n>>
  BY DEF Symbol, sexp_new_source_atom, n
<1> HIDE DEF v
<1>4. AtomToken(v) = buf.data /\ v[1] \in Atoms
  BY <1>2, <1>3 DEF AtomToken, Atoms
<1>5. Written(<<v>>, <<AtomToken(v)>>)
  BY <1>4, WrittenAtom
<1> QED
  BY <1>4, <1>5 DEF v

\* A call returns a sexp that is one token.
LEMMA TokenReturns ==
  ASSUME NEW t, IsText(t), NEW u, Here(t, u) \in 1 .. Len(t) + 1, NEW v, v # sexp_null,
         NEW a, IsSeq(a), NEW k, Written(<<>>, k), NEW q, Lex(t) = (a \o k) \o LexFrom(t)[q],
         NEW x, LexFrom(t)[q] = <<x>> \o LexFrom(t)[Here(t, u)], Written(<<v>>, <<x>>)
  PROVE  Returns(t, u, v, a)
<1> DEFINE rest == LexFrom(t)[Here(t, u)]
           y == <<x>>
<1>1. IsSeq(rest) /\ IsSeq(y) /\ IsSeq(k)
  BY LexSeq, WrittenIs, JoinedOne, JoinedNothing
<1>2. Present(v) = <<v>>
  BY DEF Present
<1>3. Written(<<v>>, k \o y)
  <2>1. Written(<<>> \o <<v>>, k \o y)
    BY WrittenJoined
  <2>2. <<>> \o <<v>> = <<v>>
    BY WrittenIs, JoinedNothing
  <2> QED
    BY <2>1, <2>2
<1>4. Lex(t) = (a \o k) \o (y \o rest)
  OBVIOUS
<1> HIDE DEF rest, y
<1>5. (a \o k) \o (y \o rest) = (a \o (k \o y)) \o rest
  <2>1. Regroups(a, k, y, rest)
    BY <1>1, Regrouped
  <2> QED
    BY ONLY <2>1 DEF Regroups
<1>6. Lex(t) = (a \o (k \o y)) \o rest
  BY <1>4, <1>5, Zenon
<1> QED
  BY <1>2, <1>3, <1>6 DEF Returns, rest

\* reads begins a symbol.
LEMMA ReadsAtomReads == ASSUME IInv, Reading, ReadsAtom PROVE Reading'
<1> USE DEF ReadsAtom
<1>1. /\ calls # <<>> /\ value = NoValue /\ Top.at = "reads" /\ IsText(text) /\ IsCall(Top)
      /\ Placed(text, stream, Top)
  BY Inside
<1> DEFINE c == Changed(Top, "atom", Top.buf)
           i == Here(text, stream)
<1>2. /\ Left(text, stream) /\ stream # <<>> /\ Head(stream) \notin Delimiter
      /\ (Top.macros => Head(stream) \notin readtable) /\ stream' = stream /\ Go(c) /\ Quiet
      /\ ~(In("list") /\ AtEOF)
  BY <1>1 DEF AtOther, AtEOF, Placed, Continue
<1>3. i \in 1 .. Len(text) /\ Len(text) \in Nat
  BY <1>1, <1>2, Next1
<1>4. IsCall(c) /\ c.at = "atom" /\ c.buf = Top.buf
  <2>1. "atom" \in Places /\ IsBuffer(Top.buf)
    BY <1>1 DEF Places, IsCall
  <2> QED
    BY <1>1, <2>1, ChangedCall
<1> HIDE DEF c, i
<1>5. BeginsWord(text[i]) /\ ~LooksNumeral(Word(text, i))
  BY <1>1, <1>2, AtomHere DEF IsCall, i
<1>6. ASSUME NEW a, NEW k, IsSeq(a), IsSeq(k), Has(Top, k), Says(text, stream, Top, a \o k)
      PROVE  \E l : Has(c, l) /\ Says(text, stream', c, a \o l)
  <2>1. Lex(text) = (a \o k) \o LexFrom(text)[i]
    BY <1>1, <1>6, SaysReads DEF i
  <2>2. c.buf.data = <<>>
    BY <1>1, <1>4, <1>6 DEF Has
  <2>3. InAtom(text, Here(text, stream'), i, c.buf.data)
    <3>1. InAtom(text, i, i, <<>>)
      BY <1>1, <1>3, <1>5, AtomStarts
    <3> QED
      BY <1>2, <2>2, <3>1 DEF i
  <2>4. Says(text, stream', c, a \o k)
    BY <1>3, <1>4, <2>1, <2>3, SaysAtom
  <2>5. Has(c, k)
    BY <1>1, <1>4, <1>6, HasSkipped, HasStill
  <2> QED
    BY <2>4, <2>5
<1> QED
  BY <1>1, <1>2, <1>4, <1>6, GoingReads

\* reads goes on with a symbol.
LEMMA AtomCharReads == ASSUME IInv, Reading, AtomChar PROVE Reading'
<1> USE DEF AtomChar
<1>1. /\ calls # <<>> /\ value = NoValue /\ Top.at = "atom" /\ IsText(text) /\ IsCall(Top)
      /\ Placed(text, stream, Top)
  BY Inside
<1> DEFINE c == Changed(Top, "atom", buffer_append_char(Top.buf, Head(stream)))
           p == Here(text, stream)
<1>2. /\ Left(text, stream) /\ stream # <<>> /\ Head(stream) \notin Delimiter /\ stream' = Tail(stream)
      /\ Go(c) /\ Quiet /\ ~(In("list") /\ AtEOF)
  BY <1>1 DEF AtOther, AtEOF, Placed, Take, readc, Continue
<1>3. IsCall(c) /\ c.at = "atom" /\ c.buf.data = Top.buf.data \o <<Head(stream)>>
  <2>1. "atom" \in Places /\ (~Top.macros => "atom" \in {"reads", "atom"})
    BY <1>1 DEF Places, IsCall
  <2>2. /\ IsBuffer(buffer_append_char(Top.buf, Head(stream)))
        /\ buffer_append_char(Top.buf, Head(stream)).data = Top.buf.data \o <<Head(stream)>>
    BY <1>1, AppendedChar DEF IsCall
  <2> QED
    BY <1>1, <2>1, <2>2, ChangedCall
<1>4. /\ p \in 1 .. Len(text) /\ text[p] = Head(stream) /\ text[p] \notin Delimiter
      /\ Here(text, stream') = p + 1 /\ Len(text) \in Nat
  BY <1>1, <1>2, Next1
<1> HIDE DEF c, p
<1>5. ASSUME NEW a, NEW k, IsSeq(a), IsSeq(k), Has(Top, k), Says(text, stream, Top, a \o k)
      PROVE  \E l : Has(c, l) /\ Says(text, stream', c, a \o l)
  <2>1. PICK q \in 1 .. Len(text) : Lex(text) = (a \o k) \o LexFrom(text)[q] /\ InAtom(text, p, q, Top.buf.data)
    BY <1>1, <1>5, SaysAtom DEF p
  <2>2. InAtom(text, p + 1, q, Top.buf.data \o <<text[p]>>)
    BY <1>1, <1>4, <2>1, AtomGrows
  <2>3. InAtom(text, Here(text, stream'), q, c.buf.data)
    BY <1>3, <1>4, <2>2
  <2>4. Says(text, stream', c, a \o k)
    BY <1>3, <2>1, <2>3, SaysAtom
  <2>5. Has(c, k)
    BY <1>1, <1>3, <1>5, HasSkipped, HasStill
  <2> QED
    BY <2>4, <2>5
<1> QED
  BY <1>1, <1>2, <1>3, <1>5, GoingReads

\* reads returns a symbol.
LEMMA AtomEndReads == ASSUME IInv, Reading, AtomEnd PROVE Reading'
<1> USE DEF AtomEnd
<1>1. /\ calls # <<>> /\ value = NoValue /\ Top.at = "atom" /\ IsText(text) /\ IsCall(Top)
      /\ Placed(text, stream, Top)
  BY Inside
<1> DEFINE v == Symbol(Top.buf)
           p == Here(text, stream)
<1>2. /\ Left(text, stream) /\ (stream = <<>> \/ Head(stream) \in Delimiter) /\ stream' = stream
      /\ Return(v) /\ Quiet /\ ~(In("list") /\ AtEOF)
  BY <1>1 DEF At, AtEOF, Placed, In
<1>3. v # NoValue /\ v # sexp_null
  BY NotNull DEF Symbol
<1>4. p \in 1 .. Len(text) + 1 /\ (p <= Len(text) => text[p] \in Delimiter) /\ Here(text, stream') = p
  BY <1>1, <1>2, Next1
<1> HIDE DEF p
<1>5. ASSUME NEW a, NEW k, IsSeq(a), IsSeq(k), Has(Top, k), Says(text, stream, Top, a \o k)
      PROVE  Returns(text, stream', v, a)
  <2>1. PICK q \in 1 .. Len(text) : Lex(text) = (a \o k) \o LexFrom(text)[q] /\ InAtom(text, p, q, Top.buf.data)
    BY <1>1, <1>5, SaysAtom DEF p
  <2>2. /\ Top.buf.data \in Seq(STRING) /\ Top.buf.data \notin Marks
        /\ LexFrom(text)[q] = <<Top.buf.data>> \o LexFrom(text)[p]
    BY <1>1, <1>4, <2>1, AtomEnds
  <2>3. Written(<<v>>, <<Top.buf.data>>)
    BY <2>2, WrittenSymbol
  <2>4. Written(<<>>, k)
    BY <1>1, <1>5, HasSkipped
  <2> HIDE DEF v
  <2> DEFINE x == Top.buf.data
  <2>5. LexFrom(text)[q] = <<x>> \o LexFrom(text)[Here(text, stream')] /\ Written(<<v>>, <<x>>)
    BY <1>4, <2>2, <2>3
  <2>6. Here(text, stream') \in 1 .. Len(text) + 1
    BY <1>4
  <2> HIDE DEF x
  <2> QED
    BY <1>1, <1>3, <1>5, <2>1, <2>4, <2>5, <2>6, TokenReturns
<1> HIDE DEF v
<1> QED
  BY <1>1, <1>2, <1>3, <1>5, ReturningReads

\* A list begins a symbol.
LEMMA ListAtomReads == ASSUME IInv, Reading, ListAtom PROVE Reading'
<1> USE DEF ListAtom
<1>1. /\ calls # <<>> /\ value = NoValue /\ Top.at = "list" /\ IsText(text) /\ IsCall(Top)
      /\ Placed(text, stream, Top)
  BY Inside
<1> DEFINE c == Changed(Top, "list_atom", buffer_append_char(Top.buf, Head(stream)))
           p == Here(text, stream)
<1>2. /\ Left(text, stream) /\ stream # <<>> /\ Head(stream) \notin Delimiter
      /\ (Top.macros => Head(stream) \notin readtable) /\ stream' = Tail(stream)
      /\ Go(c) /\ Quiet /\ ~(In("list") /\ AtEOF)
  BY <1>1 DEF AtOther, AtEOF, Placed, Take, readc, Continue
<1>3. /\ IsCall(c) /\ c.at = "list_atom" /\ c.buf.data = Top.buf.data \o <<Head(stream)>> /\ c.items = Top.items
      /\ Top.macros
  <2>1. "list_atom" \in Places /\ Top.macros
    BY <1>1 DEF Places, IsCall
  <2>2. /\ IsBuffer(buffer_append_char(Top.buf, Head(stream)))
        /\ buffer_append_char(Top.buf, Head(stream)).data = Top.buf.data \o <<Head(stream)>>
    BY <1>1, AppendedChar DEF IsCall
  <2> QED
    BY <1>1, <2>1, <2>2, ChangedCall
<1>4. /\ p \in 1 .. Len(text) /\ text[p] = Head(stream) /\ text[p] \notin Delimiter
      /\ Here(text, stream') = p + 1 /\ Len(text) \in Nat
  BY <1>1, <1>2, Next1
<1> HIDE DEF c, p
<1>5. BeginsWord(text[p]) /\ ~LooksNumeral(Word(text, p))
  BY <1>1, <1>2, <1>3, <1>4, AtomBegins
<1>6. ASSUME NEW a, NEW k, IsSeq(a), IsSeq(k), Has(Top, k), Says(text, stream, Top, a \o k)
      PROVE  \E l : Has(c, l) /\ Says(text, stream', c, a \o l)
  <2>1. Lex(text) = (a \o k) \o LexFrom(text)[p]
    BY <1>1, <1>6, SaysList DEF p
  <2>2. Top.buf.data = <<>>
    BY <1>1, <1>6 DEF Has
  <2>3. InAtom(text, Here(text, stream'), p, c.buf.data)
    <3>1. InAtom(text, p, p, <<>>)
      BY <1>1, <1>4, <1>5, AtomStarts
    <3>2. InAtom(text, p + 1, p, <<>> \o <<text[p]>>)
      BY <1>1, <1>4, <3>1, AtomGrows
    <3> QED
      BY <1>3, <1>4, <2>2, <3>2
  <2>4. Says(text, stream', c, a \o k)
    BY <1>3, <1>4, <2>1, <2>3, SaysListAtom
  <2>5. Has(c, k)
    BY <1>1, <1>3, <1>6, HasListStill DEF IsList
  <2> QED
    BY <2>4, <2>5
<1> QED
  BY <1>1, <1>2, <1>3, <1>6, GoingReads

\* It goes on with it.
LEMMA ListAtomCharReads == ASSUME IInv, Reading, ListAtomChar PROVE Reading'
<1> USE DEF ListAtomChar
<1>1. /\ calls # <<>> /\ value = NoValue /\ Top.at = "list_atom" /\ IsText(text) /\ IsCall(Top)
      /\ Placed(text, stream, Top)
  BY Inside
<1> DEFINE c == Changed(Top, "list_atom", buffer_append_char(Top.buf, Head(stream)))
           p == Here(text, stream)
<1>2. /\ Left(text, stream) /\ stream # <<>> /\ Head(stream) \notin Delimiter /\ stream' = Tail(stream)
      /\ Go(c) /\ Quiet /\ ~(In("list") /\ AtEOF)
  BY <1>1 DEF AtOther, AtEOF, Placed, Take, readc, Continue
<1>3. IsCall(c) /\ c.at = "list_atom" /\ c.buf.data = Top.buf.data \o <<Head(stream)>> /\ c.items = Top.items
  <2>1. "list_atom" \in Places /\ (~Top.macros => "list_atom" \in {"reads", "atom"})
    BY <1>1 DEF Places, IsCall
  <2>2. /\ IsBuffer(buffer_append_char(Top.buf, Head(stream)))
        /\ buffer_append_char(Top.buf, Head(stream)).data = Top.buf.data \o <<Head(stream)>>
    BY <1>1, AppendedChar DEF IsCall
  <2> QED
    BY <1>1, <2>1, <2>2, ChangedCall
<1>4. /\ p \in 1 .. Len(text) /\ text[p] = Head(stream) /\ text[p] \notin Delimiter
      /\ Here(text, stream') = p + 1 /\ Len(text) \in Nat
  BY <1>1, <1>2, Next1
<1> HIDE DEF c, p
<1>5. ASSUME NEW a, NEW k, IsSeq(a), IsSeq(k), Has(Top, k), Says(text, stream, Top, a \o k)
      PROVE  \E l : Has(c, l) /\ Says(text, stream', c, a \o l)
  <2>1. PICK q \in 1 .. Len(text) : Lex(text) = (a \o k) \o LexFrom(text)[q] /\ InAtom(text, p, q, Top.buf.data)
    BY <1>1, <1>5, SaysListAtom DEF p
  <2>2. InAtom(text, p + 1, q, Top.buf.data \o <<text[p]>>)
    BY <1>1, <1>4, <2>1, AtomGrows
  <2>3. InAtom(text, Here(text, stream'), q, c.buf.data)
    BY <1>3, <1>4, <2>2
  <2>4. Says(text, stream', c, a \o k)
    BY <1>3, <2>1, <2>3, SaysListAtom
  <2>5. Has(c, k)
    <3>1. IsList(Top) /\ IsList(c) /\ c.at # "list" /\ c.items = Top.items
      BY <1>1, <1>3 DEF IsList
    <3> QED
      BY <1>5, <3>1, HasListStill
  <2> QED
    BY <2>4, <2>5
<1> QED
  BY <1>1, <1>2, <1>3, <1>5, GoingReads

\* It takes it.
LEMMA ListAtomEndReads == ASSUME IInv, Reading, ListAtomEnd PROVE Reading'
<1> USE DEF ListAtomEnd
<1>1. /\ calls # <<>> /\ value = NoValue /\ Top.at = "list_atom" /\ IsText(text) /\ IsCall(Top)
      /\ Placed(text, stream, Top)
  BY Inside
<1> DEFINE d == Changed(Top, "list", buffer_clear(Top.buf))
           v == Symbol(Top.buf)
           c == [d EXCEPT !.items = Append(d.items, v)]
           p == Here(text, stream)
           x == Top.buf.data
<1>2. /\ Left(text, stream) /\ (stream = <<>> \/ Head(stream) \in Delimiter) /\ stream' = stream
      /\ Go(c) /\ Quiet /\ ~(In("list") /\ AtEOF)
  BY <1>1 DEF At, AtEOF, Placed, In
<1>3. IsCall(d) /\ d.at = "list" /\ d.buf.data = <<>> /\ d.items = Top.items
  <2>1. "list" \in Places /\ (~Top.macros => "list" \in {"reads", "atom"})
    BY <1>1 DEF Places, IsCall
  <2>2. IsBuffer(buffer_clear(Top.buf)) /\ buffer_clear(Top.buf).data = <<>>
    BY <1>1, ClearedBuffer DEF IsCall
  <2> QED
    BY <1>1, <2>1, <2>2, ChangedCall
<1> HIDE DEF d
<1> HIDE DEF v
<1>4. IsCall(c) /\ c.at = "list" /\ c.buf.data = <<>> /\ c.items = Append(Top.items, v)
  <2> DEFINE more == Append(d.items, v)
  <2>1. more = Append(Top.items, v)
    BY <1>3
  <2> HIDE DEF more
  <2>2. c = [d EXCEPT !.items = more]
    BY DEF more
  <2> HIDE DEF c
  <2>3. IsCall(c) /\ c.at = d.at /\ c.buf = d.buf /\ c.items = more
    BY ONLY <1>3, <2>2, ChangedItems
  <2> QED
    BY ONLY <1>3, <2>1, <2>3
<1>5. p \in 1 .. Len(text) + 1 /\ (p <= Len(text) => text[p] \in Delimiter) /\ Here(text, stream') = p
  BY <1>1, <1>2, Next1
<1> HIDE DEF c, p
<1>6. ASSUME NEW a, NEW k, IsSeq(a), IsSeq(k), Has(Top, k), Says(text, stream, Top, a \o k)
      PROVE  \E l : Has(c, l) /\ Says(text, stream', c, a \o l)
  <2>1. PICK q \in 1 .. Len(text) : Lex(text) = (a \o k) \o LexFrom(text)[q] /\ InAtom(text, p, q, x)
    BY <1>1, <1>6, SaysListAtom DEF p
  <2>2. x \in Seq(STRING) /\ x \notin Marks /\ LexFrom(text)[q] = <<x>> \o LexFrom(text)[p]
    BY <1>1, <1>5, <2>1, AtomEnds
  <2>3. Written(<<v>>, <<x>>)
    BY <2>2, WrittenSymbol DEF v
  <2> HIDE DEF x
  <2> DEFINE y == <<x>>
             rest == LexFrom(text)[p]
  <2>4. IsSeq(y) /\ IsSeq(rest)
    BY <1>1, <1>5, LexSeq, JoinedOne, JoinedNothing
  <2>5. Has(c, k \o y)
    BY <1>1, <1>4, <1>6, <2>3, HasItem DEF IsList
  <2>6. Lex(text) = (a \o k) \o (y \o rest)
    BY <2>1, <2>2
  <2> HIDE DEF y, rest
  <2>7. (a \o k) \o (y \o rest) = (a \o (k \o y)) \o rest
    <3>1. Regroups(a, k, y, rest)
      BY <1>6, <2>4, Regrouped
    <3> QED
      BY ONLY <3>1 DEF Regroups
  <2>8. Lex(text) = (a \o (k \o y)) \o rest
    BY <2>6, <2>7, Zenon
  <2>9. Says(text, stream', c, a \o (k \o y))
    BY <1>4, <1>5, <2>8, SaysList DEF rest
  <2> QED
    BY <2>5, <2>9
<1> QED
  BY <1>1, <1>2, <1>4, <1>6, GoingReads

-----------------------------------------------------------------------------
(* What strings are read *)

\* What a call of reads says that is in a string.
LEMMA SaysString ==
  ASSUME NEW t, NEW s, NEW c, c.at = "string", NEW b
  PROVE  Says(t, s, c, b) <=>
           \E q \in 1 .. Len(t) : /\ Lex(t) = b \o LexFrom(t)[q] /\ t[q] = "quotes"
                                  /\ StringData(t, s, q, c.buf.data)
BY DEF Says, Numerals

\* The chars of a buffer are a sequence.
LEMMA BufferSeq ==
  ASSUME NEW c, IsCall(c)
  PROVE  IsSeq(c.buf.data)
BY DEF IsCall, IsBuffer, IsSeq

\* A string goes on with another buffer.
LEMMA StringReads ==
  ASSUME IInv, Reading, In("string"), NEW buf, IsBuffer(buf), Continue("string", buf), Quiet,
         \A q \in 1 .. Len(text) :
           StringData(text, stream, q, Top.buf.data) => StringData(text, stream', q, buf.data)
  PROVE  Reading'
<1>1. calls # <<>> /\ value = NoValue /\ Top.at = "string" /\ IsCall(Top) /\ Placed(text, stream, Top)
  BY Inside
<1> DEFINE c == Changed(Top, "string", buf)
<1>2. Go(c) /\ ~(In("list") /\ AtEOF)
  BY <1>1 DEF Continue, In
<1>3. IsCall(c) /\ c.at = "string" /\ c.buf = buf
  <2>1. "string" \in Places /\ Top.macros
    BY <1>1 DEF Places, IsCall
  <2> QED
    BY <1>1, <2>1, ChangedCall
<1> HIDE DEF c
<1>4. ASSUME NEW a, NEW k, IsSeq(a), IsSeq(k), Has(Top, k), Says(text, stream, Top, a \o k)
      PROVE  \E l : Has(c, l) /\ Says(text, stream', c, a \o l)
  <2>1. PICK q \in 1 .. Len(text) : /\ Lex(text) = (a \o k) \o LexFrom(text)[q] /\ text[q] = "quotes"
                                    /\ StringData(text, stream, q, Top.buf.data)
    BY <1>1, <1>4, SaysString
  <2>2. StringData(text, stream', q, c.buf.data)
    BY <1>3, <2>1
  <2>3. Says(text, stream', c, a \o k)
    BY <1>3, <2>1, <2>2, SaysString
  <2>4. Has(c, k)
    BY <1>1, <1>3, <1>4, HasSkipped, HasStill
  <2> QED
    BY <2>3, <2>4
<1> QED
  BY <1>1, <1>2, <1>3, <1>4, GoingReads

\* It takes a char, which is what stands between two places of the text.
LEMMA StringTakes ==
  ASSUME IInv, Reading, In("string"), stream # <<>> => Head(stream) # "quotes",
         NEW x, Continue("string", buffer_append_char(Top.buf, x)), Quiet, Left(text, stream'),
         \A q \in 1 .. Len(text) : Open(text, q, Here(text, stream)) => Open(text, q, Here(text, stream')),
         \A q \in 1 .. Len(text) : \A e, from :
           /\ Open(text, q, Here(text, stream)) /\ e = Closing(text, q) /\ e <= Len(text)
           /\ from = ContentFrom(text, e)
           => from[Here(text, stream)] = <<x>> \o from[Here(text, stream')]
  PROVE  Reading'
<1> DEFINE b == buffer_append_char(Top.buf, x)
           d == Top.buf.data
<1>1. IsText(text) /\ IsCall(Top)
  BY Inside
<1>2. Left(text, stream)
  BY InsideString
<1>3. IsBuffer(b) /\ b.data = d \o <<x>> /\ IsSeq(d)
  BY <1>1, AppendedChar, BufferSeq DEF IsCall
<1>4. IsSeq(<<x>>)
  BY JoinedOne, JoinedNothing
<1> HIDE DEF b, d
<1>5. ASSUME NEW q \in 1 .. Len(text), StringData(text, stream, q, d)
      PROVE  StringData(text, stream', q, b.data)
  <2> DEFINE y == <<x>>
             p == Here(text, stream)
             r == Here(text, stream')
  <2>1. Open(text, q, p) => Open(text, q, r)
    OBVIOUS
  <2>2. Open(text, q, p) /\ Closing(text, q) <= Len(text) =>
          ContentFrom(text, Closing(text, q))[p] = y \o ContentFrom(text, Closing(text, q))[r]
    OBVIOUS
  <2>3. IsSeq(y)
    BY <1>4
  <2> HIDE DEF y
  <2>4. StringData(text, stream', q, d \o y)
    BY <1>1, <1>2, <1>3, <1>5, <2>1, <2>2, <2>3, StringDataStep
  <2> QED
    BY <1>3, <2>4 DEF y
<1>6. Continue("string", b)
  BY DEF b
<1> QED
  BY <1>3, <1>5, <1>6, StringReads DEF d

\* What stands before a place of a string that is open there.
LEMMA ContentHere ==
  ASSUME NEW t, IsText(t), NEW q, NEW p, Open(t, q, p), NEW r, Open(t, q, r), p < r,
         NEW e, e = Closing(t, q), NEW from, from = ContentFrom(t, e)
  PROVE  e \in Nat /\ p \in Nat /\ p < e /\ from[p] = FromBy(t, e, from, p)
<1>1. /\ e \in Nat /\ p \in Nat /\ p \in 1 .. e + 3
      /\ \A j \in 1 .. e + 3 : from[j] = FromBy(t, e, from, j)
  BY ContentAt
<1>2. r \in Nat /\ r <= e
  BY ContentAt
<1> QED
  BY <1>1, <1>2

\* A string takes a char.
LEMMA StringCharReads == ASSUME IInv, Reading, StringChar PROVE Reading'
<1> USE DEF StringChar
<1> DEFINE p == Here(text, stream)
           x == Head(stream)
<1>1. /\ In("string") /\ stream # <<>> /\ x \notin {"quotes", "\\"} /\ stream' = Tail(stream)
      /\ Continue("string", buffer_append_char(Top.buf, x)) /\ Quiet
  BY DEF AtOther, Take, readc
<1>2. IsText(text) /\ Len(text) \in Nat
  BY <1>1, Inside DEF IsText
<1>3. Left(text, stream)
  BY <1>1, InsideString
<1>4. p \in 1 .. Len(text) /\ text[p] = x /\ Left(text, stream') /\ Here(text, stream') = p + 1
  BY <1>1, <1>2, <1>3, Next1
<1> HIDE DEF p, x
<1>5. ASSUME NEW q \in 1 .. Len(text), Open(text, q, p) PROVE Open(text, q, p + 1)
  BY <1>1, <1>2, <1>4, <1>5, StringGoesOn
<1>6. ASSUME NEW q \in 1 .. Len(text), NEW e, NEW from, Open(text, q, p), e = Closing(text, q),
             from = ContentFrom(text, e)
      PROVE  from[p] = <<x>> \o from[p + 1]
  <2>1. e \in Nat /\ p \in Nat /\ p < e /\ from[p] = FromBy(text, e, from, p)
    BY <1>2, <1>4, <1>5, <1>6, ContentHere
  <2>2. FromBy(text, e, from, p) = <<text[p]>> \o from[p + 1]
    BY <1>1, <1>4, <2>1, FromByChar
  <2> QED
    BY <1>4, <2>1, <2>2
<1> QED
  BY <1>1, <1>4, <1>5, <1>6, StringTakes DEF p, x

\* It takes the char of an escape.
LEMMA EscapeReads ==
  ASSUME IInv, Reading, In("string"), At({"\\"}), NEW n \in 2 .. Len(stream) + 1, NEW x, EscapeTo(n, x),
         \A q \in 1 .. Len(text) :
           Open(text, q, Here(text, stream)) => Open(text, q, Here(text, stream) + n - 1),
         \A e, from : e \in Nat /\ Here(text, stream) < e =>
           FromBy(text, e, from, Here(text, stream)) = <<x>> \o from[Here(text, stream) + n - 1]
  PROVE  Reading'
<1> DEFINE p == Here(text, stream)
<1>1. /\ stream' = SubSeq(stream, n, Len(stream)) /\ Continue("string", buffer_append_char(Top.buf, x)) /\ Quiet
      /\ Head(stream) # "quotes"
  BY DEF EscapeTo, At
<1>2. /\ IsText(text) /\ text \in Seq(STRING) /\ stream \in Seq(STRING) /\ Len(stream) \in Nat
      /\ Left(text, stream) /\ p \in 1 .. Len(text) /\ Len(text) \in Nat
  BY AtBackslash
<1>3. n \in 1 .. Len(stream) + 1 /\ n \in Nat /\ n >= 2
  BY <1>2
<1>4. Left(text, stream') /\ Here(text, stream') = p + n - 1
  BY <1>1, <1>2, <1>3, LeftDrop
<1> DEFINE r == p + n - 1
<1>5. p < r
  BY <1>2, <1>3
<1> HIDE DEF p
<1>6. ASSUME NEW q \in 1 .. Len(text), NEW e, NEW from, Open(text, q, p), e = Closing(text, q),
             from = ContentFrom(text, e)
      PROVE  from[p] = <<x>> \o from[r]
  <2>1. Open(text, q, r)
    BY <1>6 DEF p
  <2> HIDE DEF r
  <2>2. e \in Nat /\ p \in Nat /\ p < e /\ from[p] = FromBy(text, e, from, p)
    BY <1>2, <1>5, <1>6, <2>1, ContentHere
  <2> QED
    BY <2>2 DEF p, r
<1> QED
  BY <1>1, <1>4, <1>6, StringTakes DEF p

\* It takes the char that a simple escape stands for.
LEMMA EscapeSimpleReads == ASSUME IInv, Reading, EscapeSimple PROVE Reading'
<1> USE DEF EscapeSimple
<1> DEFINE p == Here(text, stream)
           x == Escaped(stream[2])
<1>1. In("string") /\ At({"\\"}) /\ CharAt(2) \cap SimpleEscape # {} /\ EscapeTo(3, x)
  BY DEF Escape
<1>2. /\ Len(text) \in Nat /\ stream \in Seq(STRING) /\ Len(stream) \in Nat /\ p \in 1 .. Len(text)
      /\ text[p] = "\\" /\ Len(stream) = Len(text) - p + 1
      /\ \A i \in 1 .. Len(stream) : stream[i] = text[p + i - 1]
  BY <1>1, AtBackslash
<1>3. 2 <= Len(stream) /\ stream[2] \in SimpleEscape
  <2>1. 2 \in Nat \ {0} /\ stream \in Seq(STRING)
    BY <1>2
  <2> QED
    BY ONLY <1>1, <2>1, TheChar
<1> HIDE DEF p
<1>4. 3 \in 2 .. Len(stream) + 1 /\ p + 1 <= Len(text) /\ p + 3 - 1 = p + 2 /\ p \in Nat
  BY <1>2, <1>3
<1>5. text[p + 1] = stream[2]
  <2>1. 2 \in 1 .. Len(stream) /\ p + 2 - 1 = p + 1
    BY <1>2, <1>3
  <2> QED
    BY <1>2, <2>1
<1>6. \A q \in 1 .. Len(text) : Open(text, q, p) => Open(text, q, p + 3 - 1)
  <2>1. text[p + 1] # "x"
    BY <1>3, <1>5, EscapesDiffer
  <2> QED
    BY <1>2, <1>4, <2>1, StringEscapes
<1>7. ASSUME NEW e, NEW from, e \in Nat, p < e
      PROVE  FromBy(text, e, from, p) = <<x>> \o from[p + 3 - 1]
  <2>1. FromBy(text, e, from, p) = <<Escaped(text[p + 1])>> \o from[p + 2]
    BY <1>2, <1>3, <1>4, <1>5, <1>7, FromBySimple
  <2> QED
    BY <1>4, <1>5, <2>1
<1> HIDE DEF x
<1> QED
  BY <1>1, <1>4, <1>6, <1>7, EscapeReads DEF p

\* It takes the char of an octal escape.
LEMMA EscapeOctalReads == ASSUME IInv, Reading, EscapeOctal PROVE Reading'
<1> USE DEF EscapeOctal
<1> DEFINE p == Here(text, stream)
<1>1. PICK n \in 1 .. 3 : /\ Escape(Octal) /\ OctalDigits(n) /\ Len(stream) > n + 1
                          /\ EscapeTo(n + 2, OctalChar(SubSeq(stream, 2, n + 1)))
  OBVIOUS
<1> DEFINE x == OctalChar(SubSeq(stream, 2, n + 1))
           m == n + 2
<1>2. In("string") /\ At({"\\"}) /\ EscapeTo(m, x)
  BY <1>1 DEF Escape
<1>3. /\ Len(text) \in Nat /\ text \in Seq(STRING) /\ stream \in Seq(STRING) /\ Len(stream) \in Nat
      /\ p \in 1 .. Len(text) /\ text[p] = "\\" /\ Len(stream) = Len(text) - p + 1
      /\ \A i \in 1 .. Len(stream) : stream[i] = text[p + i - 1]
  BY <1>2, AtBackslash
<1>4. /\ \A i \in 1 .. n : text[p + i] \in Octal
      /\ \A q \in 1 .. Len(text) : Open(text, q, p) => Open(text, q, p + n + 1)
  BY <1>1, <1>2, OctalDigitsAre
<1> HIDE DEF p
<1>5. p \in Nat /\ n \in Nat /\ text[p + 1] \in Octal
  <2>1. 1 \in 1 .. n /\ p \in Nat /\ n \in Nat
    BY <1>3
  <2> QED
    BY <1>4, <2>1
<1>6. n < 3 => text[p + n + 1] \notin Octal
  <2> SUFFICES ASSUME n < 3 PROVE text[p + n + 1] \notin Octal
    OBVIOUS
  <2> DEFINE h == n + 2
  <2>1. CharAt(h) \cap Octal = {}
    BY <1>1 DEF OctalDigits
  <2>2. h \in Nat \ {0} /\ h <= Len(stream) /\ h \in 1 .. Len(stream) /\ p + h - 1 = p + n + 1
    BY <1>1, <1>3, <1>5
  <2> HIDE DEF h
  <2>3. stream[h] \notin Octal
    BY <1>3, <2>1, <2>2, TheChar
  <2>4. stream[h] = text[p + h - 1]
    BY <1>3, <2>2
  <2> QED
    BY <2>2, <2>3, <2>4
<1>7. OctalCount(text, p) = n
  BY <1>4, <1>5, <1>6, OctalCountOnly
<1>8. SubSeq(stream, 2, n + 1) = SubSeq(text, p + 1, p + n)
  <2> DEFINE a == SubSeq(stream, 2, n + 1)
             b == SubSeq(text, p + 1, p + n)
  <2>1. /\ 2 \in 1 .. Len(stream) + 1 /\ n + 1 \in 2 - 1 .. Len(stream) /\ (n + 1) - 2 + 1 = n
        /\ p + 1 \in 1 .. Len(text) + 1 /\ p + n \in (p + 1) - 1 .. Len(text) /\ (p + n) - (p + 1) + 1 = n
    BY <1>1, <1>3, <1>5
  <2>2. a \in Seq(STRING) /\ Len(a) = n /\ \A h \in 1 .. n : a[h] = stream[2 + h - 1]
    BY <1>3, <2>1, PartOfSeq
  <2>3. b \in Seq(STRING) /\ Len(b) = n /\ \A h \in 1 .. n : b[h] = text[p + 1 + h - 1]
    BY <1>3, <2>1, PartOfSeq
  <2> HIDE DEF a, b
  <2>4. ASSUME NEW h \in 1 .. n PROVE a[h] = b[h]
    <3>1. 2 + h - 1 \in 1 .. Len(stream) /\ p + (2 + h - 1) - 1 = p + 1 + h - 1
      BY <1>1, <1>3, <1>5
    <3>2. stream[2 + h - 1] = text[p + (2 + h - 1) - 1]
      BY <1>3, <3>1
    <3> QED
      BY <2>2, <2>3, <3>1, <3>2
  <2>5. a = b
    BY <2>2, <2>3, <2>4, SeqEqual
  <2> QED
    BY <2>5 DEF a, b
<1>9. m \in 2 .. Len(stream) + 1 /\ p + m - 1 = p + n + 1
  BY <1>1, <1>3, <1>5
<1>10. x = OctalChar(SubSeq(text, p + 1, p + n))
  BY <1>8
<1> HIDE DEF x, m
<1>11. ASSUME NEW e, NEW from, e \in Nat, p < e
       PROVE  FromBy(text, e, from, p) = <<x>> \o from[p + m - 1]
  <2> DEFINE r == p + m - 1
  <2>1. r = p + OctalCount(text, p) + 1 /\ x = OctalChar(SubSeq(text, p + 1, p + OctalCount(text, p)))
    BY <1>7, <1>9, <1>10
  <2>2. FromBy(text, e, from, p) = <<x>> \o from[r]
    <3>1. e \in Nat /\ p \in Nat /\ p < e /\ text[p] = "\\" /\ text[p + 1] \in Octal
      BY <1>3, <1>5, <1>11
    <3>2. FromBy(text, e, from, p) = <<OctalChar(SubSeq(text, p + 1, p + OctalCount(text, p)))>>
                                     \o from[p + OctalCount(text, p) + 1]
      BY ONLY <3>1, FromByOctal
    <3> HIDE DEF r
    <3> QED
      BY <2>1, <3>2, Zenon
  <2> QED
    BY <2>2 DEF r
<1>12. \A q \in 1 .. Len(text) : Open(text, q, p) => Open(text, q, p + m - 1)
  BY <1>4, <1>9
<1> QED
  BY <1>2, <1>9, <1>11, <1>12, EscapeReads DEF p

\* A hexadecimal escape unreads the quote that opened its string.
LEMMA EscapeHexReads == ASSUME IInv, Reading, EscapeHex PROVE Reading'
<1> USE DEF EscapeHex
<1> DEFINE p == Here(text, stream)
           e == HexCloses(text, p)
           b == buffer_append_char(Top.buf, HexChar)
           d == Top.buf.data
           u == SubSeq(stream, 4, Len(stream))
           v == SubSeq(text, e + 1, Len(text))
<1>1. /\ In("string") /\ At({"\\"}) /\ CharAt(2) = {"x"} /\ Continue("string", b) /\ Quiet
      /\ stream # <<>> /\ Head(stream) = "\\"
  BY DEF At
<1>2. /\ IsText(text) /\ text \in Seq(STRING) /\ Len(text) \in Nat /\ p \in 1 .. Len(text) /\ text[p] = "\\"
      /\ stream \in Seq(STRING) /\ Len(stream) \in Nat /\ Len(stream) = Len(text) - p + 1 /\ Left(text, stream)
      /\ \A i \in 1 .. Len(stream) : stream[i] = text[p + i - 1]
      /\ IsCall(Top)
  BY <1>1, AtBackslash
<1>3. 2 <= Len(stream) /\ stream[2] = "x"
  <2>1. 2 \in Nat \ {0} /\ stream \in Seq(STRING) /\ CharAt(2) \cap {"x"} # {}
    BY <1>1, <1>2
  <2>2. 2 <= Len(stream) /\ stream[2] \in {"x"}
    BY ONLY <2>1, TheChar
  <2> QED
    BY <2>2
<1>4. Top.entry_c = "quotes"
  <2>1. Top.at = "string" /\ Placed(text, stream, Top)
    BY <1>1, Inside
  <2> QED
    BY <2>1 DEF Placed
<1>5. stream' = <<"quotes">> \o u
  <2>1. stream' = <<Top.entry_c>> \o u
    BY DEF unreadc
  <2> HIDE DEF u
  <2> QED
    BY <1>4, <2>1
<1>6. IsBuffer(b) /\ b.data = d \o <<HexChar>> /\ IsSeq(d)
  <2> HIDE DEF p, e, u, v
  <2>1. IsBuffer(Top.buf)
    BY <1>2 DEF IsCall
  <2> QED
    BY <1>2, <2>1, AppendedChar, BufferSeq
<1> HIDE DEF p, b, d
<1>7. p + 1 <= Len(text) /\ text[p + 1] = "x"
  <2>1. 2 \in 1 .. Len(stream) /\ p + 2 - 1 = p + 1
    BY <1>2, <1>3
  <2> QED
    BY <1>2, <1>3, <2>1
<1>8. u = v
  <2>1. CASE p + 2 <= Len(text)
    <3>1. e = p + 2
      BY <2>1 DEF HexCloses
    <3>2. 4 \in 1 .. Len(stream) + 1 /\ p + 4 - 1 = e + 1
      BY <1>2, <2>1, <3>1
    <3>3. Left(text, u) /\ Here(text, u) = p + 4 - 1
      BY <1>2, <3>2, LeftDrop DEF p
    <3> HIDE DEF e, u
    <3>4. u = SubSeq(text, Here(text, u), Len(text))
      BY <3>3 DEF Left
    <3> QED
      BY <3>2, <3>3, <3>4
  <2>2. CASE ~(p + 2 <= Len(text))
    <3>1. e = Len(text) /\ Len(stream) = 2 /\ e \in 1 .. Len(text)
      BY <1>2, <1>7, <2>2 DEF HexCloses
    <3>2. u = <<>>
      <4>0. Len(stream) = 2
        BY <3>1
      <4>1. Len(stream) < 4 /\ Len(stream) \in Int /\ 4 \in Int
        BY ONLY <4>0
      <4> QED
        BY ONLY <4>1, SubSeqEmpty DEF u
    <3>3. v = <<>>
      <4> HIDE DEF e
      <4> QED
        BY <1>2, <3>1
    <3> QED
      BY <3>2, <3>3
  <2> QED
    BY <2>1, <2>2
<1> HIDE DEF u
<1>9. stream' = <<"quotes">> \o v
  BY <1>5, <1>8
<1>10. ASSUME NEW q \in 1 .. Len(text), StringData(text, stream, q, d)
       PROVE  StringData(text, stream', q, b.data)
  <2>1. /\ p = Here(text, stream) /\ stream' = <<"quotes">> \o SubSeq(text, HexCloses(text, p) + 1, Len(text))
    BY <1>9 DEF p
  <2> HIDE DEF e, v
  <2>2. StringData(text, stream', q, d \o <<HexChar>>)
    BY <1>1, <1>2, <1>6, <1>7, <1>10, <2>1, StringDataHex
  <2> QED
    BY <1>6, <2>2
<1> HIDE DEF e, v
<1> QED
  BY <1>1, <1>6, <1>10, StringReads DEF d

\* A string drops an escape that is none.
LEMMA EscapeUnknownReads == ASSUME IInv, Reading, EscapeUnknown PROVE Reading'
<1> USE DEF EscapeUnknown
<1> DEFINE p == Here(text, stream)
           u == SubSeq(stream, 3, Len(stream))
           d == Top.buf.data
           S == SimpleEscape \cup Octal \cup {"x"}
<1>1. /\ In("string") /\ At({"\\"}) /\ CharAt(2) \cap S = {}
      /\ stream' = u /\ UNCHANGED <<calls, value>> /\ Quiet /\ (stream # <<>> => Head(stream) # "quotes")
  BY DEF At
<1>2. /\ IsText(text) /\ text \in Seq(STRING) /\ Len(text) \in Nat /\ p \in 1 .. Len(text) /\ text[p] = "\\"
      /\ stream \in Seq(STRING) /\ Len(stream) \in Nat \ {0} /\ Len(stream) = Len(text) - p + 1 /\ Left(text, stream)
      /\ \A i \in 1 .. Len(stream) : stream[i] = text[p + i - 1]
      /\ calls # <<>> /\ value = NoValue /\ IsCall(Top)
  BY <1>1, AtBackslash
<1>3. 2 <= Len(stream) => stream[2] \notin S
  <2>1. 2 \in Nat \ {0} /\ stream \in Seq(STRING)
    BY <1>2
  <2> HIDE DEF S
  <2> QED
    BY ONLY <1>1, <2>1, TheChar
<1>4. Top.at = "string" /\ ~(In("list") /\ AtEOF)
  BY <1>1 DEF In
<1>5. "x" \in S
  OBVIOUS
<1> HIDE DEF p, d, S
<1>6. /\ Left(text, u)
      /\ \A q \in 1 .. Len(text) : Open(text, q, p) => Open(text, q, Here(text, u))
      /\ \A q \in 1 .. Len(text) : Open(text, q, p) /\ Closing(text, q) <= Len(text) =>
           ContentFrom(text, Closing(text, q))[p] = ContentFrom(text, Closing(text, q))[Here(text, u)]
  <2>1. CASE 2 <= Len(stream)
    <3>1. 3 \in 1 .. Len(stream) + 1 /\ p + 3 - 1 = p + 2 /\ p + 1 <= Len(text) /\ p < p + 2 /\ p \in Nat
      BY <1>2, <2>1
    <3>2. Left(text, u) /\ Here(text, u) = p + 2
      BY <1>2, <3>1, LeftDrop DEF p
    <3> HIDE DEF u
    <3>3. text[p + 1] \notin S
      <4>1. 2 \in 1 .. Len(stream) /\ p + 2 - 1 = p + 1
        BY <1>2, <2>1
      <4>2. stream[2] = text[p + 1]
        BY <1>2, <4>1
      <4> QED
        BY <1>3, <2>1, <4>2
    <3>4. \A q \in 1 .. Len(text) : Open(text, q, p) => Open(text, q, p + 2)
      <4>1. text[p + 1] # "x"
        BY <1>5, <3>3
      <4> QED
        BY <1>2, <3>1, <4>1, StringEscapes
    <3>5. ASSUME NEW q \in 1 .. Len(text), Open(text, q, p)
          PROVE  ContentFrom(text, Closing(text, q))[p] = ContentFrom(text, Closing(text, q))[p + 2]
      <4> DEFINE e == Closing(text, q)
                 from == ContentFrom(text, e)
                 r == p + 2
      <4>1. Open(text, q, r) /\ p < r
        BY <3>1, <3>4, <3>5
      <4> HIDE DEF r
      <4>2. e \in Nat /\ p < e /\ from[p] = FromBy(text, e, from, p)
        BY <1>2, <3>5, <4>1, ContentHere
      <4> HIDE DEF e, from
      <4>3. FromBy(text, e, from, p) = from[p + 2]
        BY <1>2, <3>1, <3>3, <4>2, FromByNone DEF S
      <4>4. from[p] = from[p + 2]
        BY <4>2, <4>3
      <4> QED
        BY <4>4 DEF e, from
    <3> QED
      BY <3>2, <3>4, <3>5
  <2>2. CASE ~(2 <= Len(stream))
    <3>1. Len(stream) = 1 /\ p = Len(text)
      BY <1>2, <2>2
    <3>2. u = <<>>
      BY <1>2, <3>1
    <3>3. <<>> = SubSeq(text, Len(text) + 1, Len(text)) /\ Len(text) + 1 \in 1 .. Len(text) + 1
      BY <1>2
    <3>4. Left(text, <<>>) /\ Here(text, <<>>) = Len(text) + 1
      BY <1>2, <3>3, LeftMade
    <3>5. ASSUME NEW q \in 1 .. Len(text), Open(text, q, p)
          PROVE  Open(text, q, Len(text) + 1) /\ ~(Closing(text, q) <= Len(text))
      <4>1. Open(text, q, Len(text) + 1)
        BY <1>2, <3>1, <3>5, StringBreaksOff
      <4>2. Closing(text, q) = Len(text) + 1
        BY <1>2, <4>1, StringNever
      <4> QED
        BY <1>2, <4>1, <4>2
    <3> QED
      BY <3>2, <3>4, <3>5
  <2> QED
    BY <2>1, <2>2
<1> HIDE DEF u
<1>7. IsSeq(d)
  BY <1>2, BufferSeq DEF d
<1>8. ASSUME NEW q \in 1 .. Len(text), StringData(text, stream, q, d)
      PROVE  StringData(text, stream', q, d)
  <2> DEFINE r == Here(text, u)
             y == <<>>
  <2>1. ContentFrom(text, Closing(text, q))[r] = y \o ContentFrom(text, Closing(text, q))[r] \/ ~Open(text, q, r)
    <3> DEFINE e == Closing(text, q)
               from == ContentFrom(text, e)
    <3>1. ASSUME Open(text, q, r) PROVE IsSeq(from[r])
      <4> HIDE DEF r
      <4>1. r \in 1 .. e + 3 /\ \A j \in 1 .. e + 3 : IsSeq(from[j])
        BY <1>2, <3>1, ContentAt
      <4> QED
        BY <4>1
    <3> HIDE DEF e, from
    <3>2. ASSUME Open(text, q, r) PROVE from[r] = y \o from[r]
      BY <3>1, <3>2, JoinedNothing
    <3> QED
      BY <3>2 DEF e, from
  <2>2. IsSeq(y)
    BY JoinedNothing
  <2>3. Open(text, q, p) => Open(text, q, r)
    BY <1>6
  <2>4. Open(text, q, p) /\ Closing(text, q) <= Len(text) =>
          ContentFrom(text, Closing(text, q))[p] = y \o ContentFrom(text, Closing(text, q))[r]
    BY <1>6, <2>1, <2>3
  <2>5. d \o y = d
    BY <1>7, JoinedNothing
  <2> HIDE DEF r, y
  <2>6. StringData(text, u, q, d \o y)
    BY <1>1, <1>2, <1>6, <1>7, <1>8, <2>2, <2>3, <2>4, StringDataStep DEF p, r
  <2> QED
    BY <1>1, <2>5, <2>6
<1>9. ASSUME NEW b, Says(text, stream, Top, b) PROVE Says(text, stream', Top, b)
  <2>1. PICK q \in 1 .. Len(text) : /\ Lex(text) = b \o LexFrom(text)[q] /\ text[q] = "quotes"
                                    /\ StringData(text, stream, q, d)
    BY <1>4, <1>9, SaysString DEF d
  <2>2. StringData(text, stream', q, d)
    BY <1>8, <2>1
  <2> QED
    BY <1>4, <2>1, <2>2, SaysString DEF d
<1> QED
  BY <1>1, <1>2, <1>4, <1>9, StayingReads

-----------------------------------------------------------------------------
(* The end of a string *)

\* The length of a string of C.
LEMMA StrlenIs ==
  ASSUME NEW s, NEW n \in 0 .. Len(s), Len(s) \in Nat,
         \A i \in 1 .. n : s[i] # NUL, n < Len(s) => s[n + 1] = NUL
  PROVE  strlen(s, NUL) = n
<1> DEFINE k == strlen(s, NUL)
<1>1. \E m \in 0 .. Len(s) : /\ \A i \in 1 .. m : s[i] # NUL
                             /\ m < Len(s) => s[m + 1] = NUL
  OBVIOUS
<1>2. k \in 0 .. Len(s) /\ (\A i \in 1 .. k : s[i] # NUL) /\ (k < Len(s) => s[k + 1] = NUL)
  BY <1>1 DEF strlen
<1> HIDE DEF k
<1>3. ~(k < n)
  <2> SUFFICES ASSUME k < n PROVE FALSE
    OBVIOUS
  <2>1. k + 1 \in 1 .. n /\ k < Len(s)
    BY <1>2
  <2> QED
    BY <1>2, <2>1
<1>4. ~(n < k)
  <2> SUFFICES ASSUME n < k PROVE FALSE
    OBVIOUS
  <2>1. n + 1 \in 1 .. k /\ n < Len(s)
    BY <1>2
  <2> QED
    BY <1>2, <2>1
<1> QED
  BY <1>2, <1>3, <1>4 DEF k

\* A buffer with a nul at its end has the chars of before up to the first nul.
LEMMA TerminatedIs ==
  ASSUME NEW buf, IsBuffer(buf), NEW d, d = buf.data, NEW m, m = buffer_null_terminate(buf).data,
         NEW n, n = FirstFrom(d, 1, {NUL}) - 1
  PROVE  /\ IsSeq(m) /\ IsSeq(d) /\ n \in 0 .. Len(m) /\ n \in 0 .. Len(d) /\ Len(m) \in Nat /\ Len(d) \in Nat
         /\ strlen(m, NUL) = n /\ SubSeq(m, 1, n) = SubSeq(d, 1, n)
<1>1. IsSeq(d) /\ Len(d) \in Nat
  <2>1. IsSeq(d)
    BY DEF IsBuffer, IsSeq
  <2> QED
    BY <2>1, Joined
<1>2. /\ n \in 0 .. Len(d) /\ n + 1 \in 1 .. Len(d) + 1
      /\ (n < Len(d) => d[n + 1] = NUL) /\ \A i \in 1 .. n : d[i] # NUL
  <2> DEFINE f == FirstFrom(d, 1, {NUL})
  <2>1. 1 \in 1 .. Len(d) + 1
    BY <1>1
  <2>2. f \in 1 .. Len(d) + 1 /\ (f <= Len(d) => d[f] \in {NUL}) /\ \A i \in 1 .. f - 1 : d[i] \notin {NUL}
    BY <1>1, <2>1, FirstFromIs
  <2> HIDE DEF f
  <2>3. n = f - 1 /\ n + 1 = f
    BY <2>2 DEF f
  <2>4. n \in 0 .. Len(d) /\ n + 1 \in 1 .. Len(d) + 1 /\ (n < Len(d) => f <= Len(d))
    BY ONLY <1>1, <2>2, <2>3
  <2>5. n < Len(d) => d[n + 1] = NUL
    BY ONLY <2>2, <2>3, <2>4
  <2>6. \A i \in 1 .. n : d[i] # NUL
    BY ONLY <2>2, <2>3
  <2> QED
    BY <2>4, <2>5, <2>6
<1>3. CASE d # <<>> /\ Last(d) = NUL
  <2>1. m = d
    BY <1>3 DEF buffer_null_terminate
  <2>2. strlen(d, NUL) = n
    BY <1>1, <1>2, StrlenIs
  <2> QED
    BY <1>1, <1>2, <2>1, <2>2
<1>4. CASE ~(d # <<>> /\ Last(d) = NUL)
  <2>1. m = buffer_append_char(buf, NUL).data
    BY <1>4 DEF buffer_null_terminate
  <2>2. m = d \o <<NUL>>
    BY <2>1, AppendedChar
  <2>3. m = Append(d, NUL) /\ IsSeq(m)
    BY <1>1, <2>2, JoinedLast
  <2>4. /\ Len(m) = Len(d) + 1 /\ m[Len(d) + 1] = NUL
        /\ \A i \in 1 .. Len(d) : m[i] = d[i]
    <3>1. PICK S : d \in Seq(S)
      BY <1>1 DEF IsSeq
    <3>2. d \in Seq(S \cup {NUL}) /\ NUL \in S \cup {NUL}
      BY <3>1, S \subseteq S \cup {NUL}, SeqMonotonic
    <3> QED
      BY <2>3, <3>2, AppendProperties
  <2>5. n \in 0 .. Len(m) /\ Len(m) \in Nat
    BY <1>1, <1>2, <2>4
  <2>9. ASSUME NEW i \in 1 .. n PROVE m[i] # NUL
    <3>1. i \in 1 .. Len(d)
      BY <1>1, <1>2
    <3>2. m[i] = d[i] /\ d[i] # NUL
      BY ONLY <1>2, <2>4, <3>1
    <3> QED
      BY <3>2
  <2>6. m[n + 1] = NUL
    BY <1>1, <1>2, <2>4, n = Len(d) \/ n + 1 \in 1 .. Len(d)
  <2>7. strlen(m, NUL) = n
    BY <2>5, <2>6, <2>9, StrlenIs
  <2>8. SubSeq(m, 1, n) = SubSeq(d, 1, n)
    <3>1. PICK S : m \in Seq(S)
      BY <2>3 DEF IsSeq
    <3>2. PICK T : d \in Seq(T)
      BY <1>1 DEF IsSeq
    <3> DEFINE x == SubSeq(m, 1, n)
               y == SubSeq(d, 1, n)
    <3>3. /\ 1 \in 1 .. Len(m) + 1 /\ n \in 1 - 1 .. Len(m) /\ 1 \in 1 .. Len(d) + 1 /\ n \in 1 - 1 .. Len(d)
          /\ n - 1 + 1 = n /\ n \in Nat
      BY <1>1, <1>2, <2>5
    <3>4. x \in Seq(S) /\ Len(x) = n /\ \A h \in 1 .. n : x[h] = m[1 + h - 1]
      BY ONLY <3>1, <3>3, PartOfSeq
    <3>5. y \in Seq(T) /\ Len(y) = n /\ \A h \in 1 .. n : y[h] = d[1 + h - 1]
      BY ONLY <3>2, <3>3, PartOfSeq
    <3> HIDE DEF x, y
    <3>6. ASSUME NEW h \in 1 .. n PROVE x[h] = y[h]
      <4>1. 1 + h - 1 = h /\ h \in 1 .. Len(d)
        BY <1>1, <1>2
      <4> QED
        BY <2>4, <3>4, <3>5, <4>1
    <3>7. x \in Seq(S \cup T) /\ y \in Seq(S \cup T)
      BY <3>4, <3>5, SeqMonotonic, S \subseteq S \cup T, T \subseteq S \cup T
    <3>8. x = y
      BY <3>4, <3>5, <3>6, <3>7, SeqEqual
    <3> QED
      BY <3>8 DEF x, y
  <2> QED
    BY <1>1, <1>2, <2>3, <2>5, <2>7, <2>8
<1> QED
  BY <1>3, <1>4

\* The string that begins with a quote is written as its chars up to a nul.
LEMMA WrittenString ==
  ASSUME NEW buf, IsBuffer(buf), NEW n, n = FirstFrom(buf.data, 1, {NUL}) - 1
  PROVE  /\ Written(<<sexp_new_source_atom("str", String(buffer_to_cstr_move(buf)))>>,
                    << <<"quotes", SubSeq(buf.data, 1, n)>> >>)
<1> DEFINE m == buffer_null_terminate(buf).data
           d == buf.data
           s == String(buffer_to_cstr_move(buf))
           v == sexp_new_source_atom("str", s)
           x == SubSeq(d, 1, n)
           tok == <<"quotes", x>>
<1>1. /\ IsSeq(m) /\ n \in 0 .. Len(m) /\ strlen(m, NUL) = n /\ SubSeq(m, 1, n) = x
  BY TerminatedIs
<1>2. s = lps_from_chars_with_len(m, n)
  BY <1>1 DEF String, buffer_to_cstr_move, lps_from_cstr
<1> HIDE DEF m, s, x
<1>3. Chars(s) = x
  <2>1. PICK S : m \in Seq(S)
    BY <1>1 DEF IsSeq
  <2> QED
    BY <1>1, <1>2, <2>1, LpsRoundTrip
<1>4. v[1] = "str" /\ v[2] = s
  BY DEF sexp_new_source_atom
<1> HIDE DEF v
<1>5. AtomToken(v) = tok /\ v[1] \in Atoms
  BY <1>3, <1>4 DEF AtomToken, Atoms
<1>6. tok \notin Marks
  <2>1. tok[1] = "quotes"
    OBVIOUS
  <2>2. \A z \in Marks : z[1] \in {"(", ")", "'", "#", "semicolon"}
    BY DEF Marks, Skipped
  <2> HIDE DEF tok
  <2> QED
    BY <2>1, <2>2
<1> HIDE DEF tok
<1>7. Written(<<v>>, <<AtomToken(v)>>)
  BY <1>5, <1>6, WrittenAtom
<1> QED
  BY <1>5, <1>7 DEF v, tok, s, x

\* A string ends at its quote.
LEMMA StringEndReads == ASSUME IInv, Reading, StringEnd PROVE Reading'
<1> USE DEF StringEnd
<1> DEFINE v == sexp_new_source_atom("str", String(buffer_to_cstr_move(Top.buf)))
           d == Top.buf.data
           n == FirstFrom(d, 1, {NUL}) - 1
           x == <<"quotes", SubSeq(d, 1, n)>>
<1>1. /\ In("string") /\ stream # <<>> /\ Head(stream) = "quotes" /\ stream' = Tail(stream)
      /\ Return(v) /\ Quiet /\ ~(In("list") /\ AtEOF)
  BY DEF At, AtEOF, readc
<1>2. /\ calls # <<>> /\ value = NoValue /\ Top.at = "string" /\ IsText(text) /\ IsCall(Top)
  BY <1>1, Inside
<1>3. v # NoValue /\ v # sexp_null
  BY NotNull
<1>4. IsSeq(d) /\ Written(<<v>>, <<x>>)
  BY <1>2, BufferSeq, WrittenString DEF IsCall
<1>5. Len(text) \in Nat
  BY <1>2 DEF IsText
<1> HIDE DEF v
<1>6. ASSUME NEW a, NEW k, IsSeq(a), IsSeq(k), Has(Top, k), Says(text, stream, Top, a \o k)
      PROVE  Returns(text, stream', v, a)
  <2>1. PICK q \in 1 .. Len(text) : /\ Lex(text) = (a \o k) \o LexFrom(text)[q] /\ text[q] = "quotes"
                                    /\ StringData(text, stream, q, d)
    BY <1>2, <1>6, SaysString
  <2> DEFINE e == Closing(text, q)
  <2>2. /\ e <= Len(text) /\ ContentFrom(text, e)[q + 1] = d
        /\ Left(text, stream') /\ Here(text, stream') = e + 1
    <3> HIDE DEF d, e
    <3> QED
      BY <1>1, <1>2, <1>4, <2>1, StringDataEnds DEF e
  <2>3. LexFrom(text)[q] = <<Content(text, q, e)>> \o LexFrom(text)[e + 1]
    BY <1>5, <2>1, <2>2, LexString
  <2> HIDE DEF e
  <2>4. Content(text, q, e) = x
    BY <2>2 DEF Content
  <2> HIDE DEF x
  <2>5. LexFrom(text)[q] = <<x>> \o LexFrom(text)[Here(text, stream')]
    BY <2>2, <2>3, <2>4
  <2>6. Here(text, stream') \in 1 .. Len(text) + 1
    BY <2>2 DEF Left
  <2>7. Written(<<>>, k)
    BY <1>2, <1>6, HasSkipped
  <2> QED
    BY <1>2, <1>3, <1>4, <1>6, <2>1, <2>5, <2>6, <2>7, TokenReturns
<1> QED
  BY <1>1, <1>2, <1>3, <1>6, ReturningReads

-----------------------------------------------------------------------------
(* What numerals are read *)

\* The chars of the numeral that began at q, up to p, are in data.
InNumber(t, p, q, at, data) ==
  /\ InWord(t, p, q) /\ InNumeral(Word(t, q), p - q, at, data)
  /\ data = NumeralData(Word(t, q), p - q, at)

\* What a call of the numeral reader says.
LEMMA SaysNumber ==
  ASSUME NEW t, NEW s, NEW c, c.at \in Numerals, NEW b
  PROVE  Says(t, s, c, b) <=>
           \E q \in 1 .. Len(t) : Lex(t) = b \o LexFrom(t)[q] /\ InNumber(t, Here(t, s), q, c.at, c.buf.data)
<1>1. c.at \notin {"reads", "list", "comment", "quote", "numeral", "atom", "list_atom", "string"}
  BY DEF Numerals
<1> QED
  BY <1>1 DEF Says, InNumber

\* A numeral goes on with another buffer.
LEMMA NumberGoesReads ==
  ASSUME IInv, Reading, NEW at \in Numerals, In(at), NEW to \in Numerals,
         NEW buf, IsBuffer(buf), Continue(to, buf), Quiet,
         \A q \in 1 .. Len(text) : InNumber(text, Here(text, stream), q, at, Top.buf.data) =>
                                   InNumber(text, Here(text, stream'), q, to, buf.data)
  PROVE  Reading'
<1>1. calls # <<>> /\ value = NoValue /\ Top.at = at /\ IsCall(Top) /\ Top.macros
  BY InsideNumeral
<1> DEFINE c == Changed(Top, to, buf)
<1>2. Go(c) /\ Top.at \notin {"list", "list_atom", "quoted"} /\ to \notin {"reads", "list", "list_atom", "quoted"}
  BY <1>1 DEF Continue, Numerals
<1>3. ~(In("list") /\ AtEOF)
  BY <1>2 DEF In
<1>4. IsCall(c) /\ c.at = to /\ c.buf = buf
  <2>1. to \in Places
    BY DEF Places, Numerals
  <2> QED
    BY <1>1, <2>1, ChangedCall
<1> HIDE DEF c
<1>5. ASSUME NEW a, NEW k, IsSeq(a), IsSeq(k), Has(Top, k), Says(text, stream, Top, a \o k)
      PROVE  \E l : Has(c, l) /\ Says(text, stream', c, a \o l)
  <2>1. PICK q \in 1 .. Len(text) : /\ Lex(text) = (a \o k) \o LexFrom(text)[q]
                                    /\ InNumber(text, Here(text, stream), q, at, Top.buf.data)
    BY <1>1, <1>5, SaysNumber
  <2>2. InNumber(text, Here(text, stream'), q, c.at, c.buf.data)
    BY <1>4, <2>1
  <2>3. Says(text, stream', c, a \o k)
    BY <1>4, <2>1, <2>2, SaysNumber
  <2>4. Has(c, k)
    BY <1>2, <1>4, <1>5, HasSkipped, HasStill
  <2> QED
    BY <2>3, <2>4
<1> QED
  BY <1>1, <1>2, <1>3, <1>4, <1>5, GoingReads

\* A numeral is returned that is one token.
LEMMA NumberReturnsReads ==
  ASSUME IInv, Reading, NEW at \in Numerals, In(at),
         NEW v, v # NoValue, v # sexp_null, Return(v), Quiet, Here(text, stream') \in 1 .. Len(text) + 1,
         \A q \in 1 .. Len(text) : InNumber(text, Here(text, stream), q, at, Top.buf.data) =>
           \E x : LexFrom(text)[q] = <<x>> \o LexFrom(text)[Here(text, stream')] /\ Written(<<v>>, <<x>>)
  PROVE  Reading'
<1>1. calls # <<>> /\ value = NoValue /\ Top.at = at /\ IsText(text)
  BY InsideNumeral
<1>2. Top.at \notin {"list", "list_atom", "quoted"} /\ ~(In("list") /\ AtEOF)
  BY <1>1 DEF Numerals, In
<1>3. ASSUME NEW a, NEW k, IsSeq(a), IsSeq(k), Has(Top, k), Says(text, stream, Top, a \o k)
      PROVE  Returns(text, stream', v, a)
  <2>1. PICK q \in 1 .. Len(text) : /\ Lex(text) = (a \o k) \o LexFrom(text)[q]
                                    /\ InNumber(text, Here(text, stream), q, at, Top.buf.data)
    BY <1>1, <1>3, SaysNumber
  <2>2. PICK x : LexFrom(text)[q] = <<x>> \o LexFrom(text)[Here(text, stream')] /\ Written(<<v>>, <<x>>)
    BY <2>1
  <2>3. Written(<<>>, k)
    BY <1>2, <1>3, HasSkipped
  <2> QED
    BY <1>1, <1>3, <2>1, <2>2, <2>3, TokenReturns
<1> QED
  BY <1>1, <1>2, <1>3, ReturningReads

\* A char more of the word.
LEMMA WordGrows ==
  ASSUME NEW t, IsText(t), NEW q \in 1 .. Len(t), NEW p \in 1 .. Len(t), InWord(t, p, q), t[p] \notin Delimiter
  PROVE  /\ Word(t, q) \in Seq(STRING) /\ p - q \in 1 .. Len(Word(t, q)) - 1
         /\ Word(t, q)[(p - q) + 1] = t[p] /\ (p + 1) - q = (p - q) + 1 /\ InWord(t, p + 1, q)
<1> DEFINE k == Word(t, q)
           n == p - q
<1>1. p \in q + 1 .. Len(t) + 1 /\ BeginsWord(t[q]) /\ n <= Len(k) /\ LooksNumeral(k) /\ Len(t) \in Nat
  BY DEF InWord, IsText
<1>2. p <= Len(t)
  BY <1>1
<1>3. k \in Seq(STRING) /\ n \in 1 .. Len(k) /\ n < Len(k) /\ k[n + 1] = t[p]
  BY <1>1, <1>2, WordGoesOn
<1>4. (p + 1) - q = n + 1 /\ p + 1 \in q + 1 .. Len(t) + 1
  BY <1>1, <1>2
<1> HIDE DEF k, n
<1>5. n \in 1 .. Len(k) - 1 /\ n + 1 <= Len(k)
  BY <1>3
<1>6. InWord(t, p + 1, q)
  BY <1>1, <1>4, <1>5 DEF InWord, k
<1> QED
  BY <1>3, <1>4, <1>5, <1>6 DEF k, n

\* A char more in the buffer.
LEMMA DataGrows ==
  ASSUME NEW k \in Seq(STRING), NEW n \in 1 .. Len(k) - 1, NEW at, NEW to,
         \/ at # "S_HEX" /\ to # "S_HEX"
         \/ at = "S_HEX" /\ to = "S_HEX" /\ n >= 2
  PROVE  NumeralData(k, n + 1, to) = NumeralData(k, n, at) \o <<k[n + 1]>>
<1> DEFINE p == n + 1
<1>1. p \in 1 .. Len(k) /\ p - 1 = n /\ 1 \in 1 .. Len(k) /\ (n >= 2 => 3 \in 1 .. Len(k) /\ p \in 3 .. Len(k))
  OBVIOUS
<1> HIDE DEF p
<1>2. SubSeq(k, 1, p) = SubSeq(k, 1, p - 1) \o <<k[p]>>
  BY <1>1, PartGrows
<1>3. n >= 2 => SubSeq(k, 3, p) = SubSeq(k, 3, p - 1) \o <<k[p]>>
  BY <1>1, PartGrows
<1>4. NumeralData(k, p, to) = NumeralData(k, n, at) \o <<k[p]>>
  BY <1>1, <1>2, <1>3 DEF NumeralData
<1> QED
  BY <1>4 DEF p

\* The numeral reader takes a char that fits its state.
LEMMA NumeralCharReads ==
  ASSUME IInv, Reading, NEW at, NEW S, NEW to, NumeralChar(at, S, to),
         \/ at = "S_INT" /\ S = Digit /\ to = "S_INT"
         \/ at = "S_INT" /\ S = {"."} /\ to = "S_INTDOT"
         \/ at = "S_INTDOT" /\ S = Digit /\ to = "S_FLOAT"
         \/ at = "S_FLOAT" /\ S = Digit /\ to = "S_FLOAT"
         \/ at = "S_HEX" /\ S = HexDigit /\ to = "S_HEX"
  PROVE  Reading'
<1> DEFINE p == Here(text, stream)
           b == buffer_append_char(Top.buf, Head(stream))
           d == Top.buf.data
<1>1. at \in Numerals /\ to \in Numerals /\ S \cap Delimiter = {}
  <2>1. at \in Numerals /\ to \in Numerals
    BY DEF Numerals
  <2>2. S = Digit \/ S = {"."} \/ S = HexDigit
    OBVIOUS
  <2> QED
    BY <2>1, <2>2, DigitsAre
<1>2. /\ In(at) /\ stream # <<>> /\ Head(stream) \in S /\ stream' = Tail(stream) /\ Continue(to, b) /\ Quiet
  BY DEF NumeralChar, At, Take, readc
<1>3. IsText(text) /\ IsBuffer(Top.buf) /\ Left(text, stream)
  BY <1>1, <1>2, InsideNumeral
<1>4. p \in 1 .. Len(text) /\ Head(stream) = text[p] /\ Here(text, stream') = p + 1
  BY <1>2, <1>3, Next1
<1>5. /\ IsBuffer(b) /\ Len(d) \in Nat /\ Len(b.data) = Len(d) + 1 /\ b.data = d \o <<Head(stream)>>
      /\ b.data[1] = IF Len(d) = 0 THEN Head(stream) ELSE d[1]
  BY <1>3, AppendedChar
<1> HIDE DEF p, b, d
<1>6. ASSUME NEW q \in 1 .. Len(text), InNumber(text, p, q, at, d)
      PROVE  InNumber(text, p + 1, q, to, b.data)
  <2> DEFINE k == Word(text, q)
             n == p - q
  <2>1. InWord(text, p, q) /\ InNumeral(k, n, at, d) /\ d = NumeralData(k, n, at)
    BY <1>6 DEF InNumber
  <2>2. text[p] \notin Delimiter
    BY <1>1, <1>2, <1>4
  <2>3. /\ k \in Seq(STRING) /\ n \in 1 .. Len(k) - 1 /\ k[n + 1] = text[p]
        /\ (p + 1) - q = n + 1 /\ InWord(text, p + 1, q)
    BY <1>3, <1>4, <2>1, <2>2, WordGrows
  <2> HIDE DEF k, n
  <2>4. k[n + 1] \in S /\ k[n + 1] = Head(stream)
    BY <1>2, <1>4, <2>3
  <2>5. InNumeral(k, n + 1, to, b.data)
    <3>1. b.data[1] = IF Len(d) = 0 THEN k[n + 1] ELSE d[1]
      BY <1>5, <2>4
    <3> QED
      BY <1>5, <2>1, <2>3, <2>4, <3>1, NextInNumeral
  <2>6. b.data = NumeralData(k, n + 1, to)
    <3>1. at = "S_HEX" => n >= 2
      BY <2>1 DEF InNumeral, HexSoFar
    <3>2. NumeralData(k, n + 1, to) = NumeralData(k, n, at) \o <<k[n + 1]>>
      BY <2>3, <3>1, DataGrows
    <3> QED
      BY <1>5, <2>1, <2>4, <3>2
  <2>7. InNumeral(k, (p + 1) - q, to, b.data) /\ b.data = NumeralData(k, (p + 1) - q, to)
    BY <2>3, <2>5, <2>6
  <2> QED
    BY <2>3, <2>7 DEF InNumber, k
<1> QED
  BY <1>1, <1>2, <1>4, <1>5, <1>6, NumberGoesReads DEF p, d

\* It comes to the x of a hexadecimal numeral.
LEMMA NumeralPrefixReads == ASSUME IInv, Reading, NumeralPrefix PROVE Reading'
<1> USE DEF NumeralPrefix
<1> DEFINE p == Here(text, stream)
           b == buffer_clear(Top.buf)
           d == Top.buf.data
<1>1. "S_INT" \in Numerals /\ "S_HEX" \in Numerals /\ "x" \notin Delimiter
  BY DigitsAre DEF Numerals
<1>2. /\ In("S_INT") /\ stream # <<>> /\ Head(stream) = "x" /\ stream' = Tail(stream)
      /\ d = <<"0">> /\ Continue("S_HEX", b) /\ Quiet
  BY DEF At, readc
<1>3. IsText(text) /\ IsBuffer(Top.buf) /\ Left(text, stream)
  BY <1>1, <1>2, InsideNumeral
<1>4. p \in 1 .. Len(text) /\ text[p] = "x" /\ Here(text, stream') = p + 1
  BY <1>2, <1>3, Next1
<1>5. IsBuffer(b) /\ b.data = <<>>
  BY <1>3, ClearedBuffer
<1> HIDE DEF p, b, d
<1>6. ASSUME NEW q \in 1 .. Len(text), InNumber(text, p, q, "S_INT", d)
      PROVE  InNumber(text, p + 1, q, "S_HEX", b.data)
  <2> DEFINE k == Word(text, q)
             n == p - q
  <2>1. InWord(text, p, q) /\ Len(d) = n /\ d[1] = k[1]
    BY <1>6 DEF InNumber, InNumeral
  <2>2. /\ k \in Seq(STRING) /\ n \in 1 .. Len(k) - 1 /\ k[n + 1] = text[p]
        /\ (p + 1) - q = n + 1 /\ InWord(text, p + 1, q)
    BY <1>1, <1>3, <1>4, <2>1, WordGrows
  <2> HIDE DEF k, n
  <2>3. n = 1 /\ k[1] = "0" /\ k[2] = "x"
    <3>1. Len(<<"0">>) = 1 /\ <<"0">>[1] = "0"
      OBVIOUS
    <3>2. n = 1 /\ k[1] = "0"
      BY <1>2, <2>1, <3>1
    <3> QED
      BY <1>4, <2>2, <3>2
  <2>4. HexSoFar(k, 2) /\ (p + 1) - q = 2
    BY <2>2, <2>3 DEF HexSoFar
  <2>5. Len(b.data) = 0 /\ SubSeq(k, 3, 2) = b.data
    BY <1>5, <2>2
  <2>6. InNumeral(k, (p + 1) - q, "S_HEX", b.data)
    BY <2>4, <2>5 DEF InNumeral
  <2>7. b.data = NumeralData(k, (p + 1) - q, "S_HEX")
    BY <2>4, <2>5 DEF NumeralData
  <2> QED
    BY <2>2, <2>6, <2>7 DEF InNumber, k
<1> QED
  BY <1>1, <1>2, <1>4, <1>5, <1>6, NumberGoesReads DEF p, d

\* It unreads a minus that begins a symbol.
LEMMA NumeralMinusReads == ASSUME IInv, Reading, NumeralMinus PROVE Reading'
<1> USE DEF NumeralMinus
<1>1. /\ calls # <<>> /\ value = NoValue /\ Top.at = "numeral" /\ IsText(text) /\ IsCall(Top)
      /\ Placed(text, stream, Top)
  BY Inside
<1> DEFINE c == Reads(FALSE)
           h == Here(text, stream)
           u == <<text[h - 1]>> \o stream
<1>2. /\ Left(text, stream) /\ h > 1 /\ text[h - 1] = Top.entry_c
      /\ stream' = <<Top.entry_c>> \o stream /\ Go(c) /\ Quiet
  BY <1>1 DEF unreadc, Placed, Become
<1>3. IsCall(c) /\ c.at = "reads" /\ c.buf.data = <<>> /\ c.items = <<>>
  BY NewReads
<1>4. stream' = u /\ ~(In("list") /\ AtEOF)
  BY <1>1, <1>2 DEF In
<1> HIDE DEF c
<1>5. text \in Seq(STRING)
  BY <1>1 DEF IsText
<1>6. Here(text, u) = h - 1
  BY <1>2, <1>5, LeftUnread
<1> HIDE DEF u
<1>7. ASSUME NEW a, NEW k, IsSeq(a), IsSeq(k), Has(Top, k), Says(text, stream, Top, a \o k)
      PROVE  \E l : Has(c, l) /\ Says(text, stream', c, a \o l)
  <2>1. Lex(text) = (a \o k) \o LexFrom(text)[h - 1]
    BY <1>1, <1>7, SaysNumeral
  <2>2. Lex(text) = (a \o k) \o LexFrom(text)[Here(text, stream')]
    BY <1>4, <1>6, <2>1
  <2>3. Says(text, stream', c, a \o k)
    BY <1>3, <2>2, SaysReads
  <2>4. Has(c, k)
    BY <1>1, <1>3, <1>7, HasSkipped, HasStill
  <2> QED
    BY <2>3, <2>4
<1> QED
  BY <1>1, <1>2, <1>3, <1>4, <1>7, GoingReads

\* What begins with a digit, or with a minus and a digit, looks like a numeral.
LEMMA NumeralHere ==
  ASSUME NEW t, IsText(t), NEW q \in 1 .. Len(t), t[q] \in Digit \cup {"-"},
         t[q] = "-" => q + 1 <= Len(t) /\ t[q + 1] \in Digit
  PROVE  InWord(t, q + 1, q) /\ Word(t, q) \in Seq(STRING) /\ Word(t, q)[1] = t[q] /\ Len(Word(t, q)) \in Nat \ {0}
<1> DEFINE k == Word(t, q)
<1>1. t \in Seq(STRING) /\ Len(t) \in Nat /\ q + 1 \in q + 1 .. Len(t) + 1
  BY DEF IsText
<1>2. BeginsWord(t[q])
  BY DEF BeginsWord, Blank, Single, Digit, Octal
<1>3. k \in Seq(STRING) /\ k[1] = t[q] /\ Len(k) \in Nat \ {0}
  <2>1. WordEnd(t, q) \in q + 1 .. Len(t) + 1 /\ k \in Seq(STRING) /\ Len(k) = WordEnd(t, q) - q /\ k[1] = t[q]
    BY <1>1, <1>2, WordIs
  <2> HIDE DEF k
  <2> QED
    BY <1>1, <2>1
<1>4. LooksNumeral(k)
  <2>1. CASE t[q] # "-"
    <3> HIDE DEF k
    <3> QED
      BY <1>3, <2>1 DEF LooksNumeral
  <2>2. CASE t[q] = "-"
    <3>1. q + 1 <= Len(t) /\ t[q + 1] \notin Delimiter /\ (q + 1) - q = 1 /\ 1 <= Len(k)
      BY <1>1, <1>3, <2>2, DigitsAre
    <3>2. 1 < Len(k) /\ k[1 + 1] = t[q + 1]
      <4> DEFINE p == q + 1
      <4>1. p \in q + 1 .. Len(t) + 1 /\ p - q = 1 /\ p <= Len(t) /\ t[p] \notin Delimiter /\ p - q <= Len(Word(t, q))
        BY <1>1, <3>1
      <4> HIDE DEF p
      <4>2. p - q < Len(Word(t, q)) /\ Word(t, q)[(p - q) + 1] = t[p]
        BY <1>2, <4>1, WordGoesOn
      <4> QED
        BY <4>1, <4>2 DEF p
    <3> HIDE DEF k
    <3>3. Len(k) > 1 /\ k[2] \in Digit /\ k[1] = "-"
      BY <1>3, <2>2, <3>2
    <3> QED
      BY <3>3 DEF LooksNumeral
  <2> QED
    BY <2>1, <2>2
<1>5. InWord(t, q + 1, q)
  <2>1. (q + 1) - q <= Len(k)
    <3> HIDE DEF k
    <3> QED
      BY <1>1, <1>3
  <2> QED
    BY <1>1, <1>2, <1>4, <2>1 DEF InWord
<1> QED
  BY <1>3, <1>5

\* It begins with the char it was called for.
LEMMA NumeralBeginReads == ASSUME IInv, Reading, NumeralBegin PROVE Reading'
<1> USE DEF NumeralBegin
<1>1. /\ calls # <<>> /\ value = NoValue /\ Top.at = "numeral" /\ IsText(text) /\ IsCall(Top)
      /\ Placed(text, stream, Top)
  BY Inside
<1> DEFINE p == Here(text, stream)
           q == p - 1
           b == buffer_append_char(Top.buf, Top.entry_c)
           c == Changed(Top, "S_INT", b)
           k == Word(text, q)
<1>2. /\ Left(text, stream) /\ p > 1 /\ text[q] = Top.entry_c /\ Top.entry_c \in Digit \cup {"-"}
      /\ Top.buf.data = <<>>
      /\ (Top.entry_c # "-" \/ (stream # <<>> /\ Head(stream) \in Digit))
      /\ stream' = stream /\ Go(c) /\ Quiet /\ ~(In("list") /\ AtEOF)
  BY <1>1 DEF At, Placed, Continue, In
<1>3. p \in 1 .. Len(text) + 1 /\ Len(text) \in Nat /\ (stream # <<>> => p \in 1 .. Len(text) /\ Head(stream) = text[p])
  BY <1>1, <1>2, Next1
<1>4. IsBuffer(b) /\ Len(b.data) = 1 /\ b.data[1] = Top.entry_c /\ b.data = <<Top.entry_c>>
  <2>0. IsBuffer(Top.buf)
    BY <1>1 DEF IsCall
  <2>1. /\ IsBuffer(b) /\ b.data = <<>> \o <<Top.entry_c>>
    <3>1. IsBuffer(b) /\ b.data = Top.buf.data \o <<Top.entry_c>>
      BY <2>0, AppendedChar
    <3> QED
      BY <1>2, <3>1
  <2>2. b.data = <<Top.entry_c>>
    BY <2>1, JoinedOne, JoinedNothing
  <2> QED
    BY <2>1, <2>2
<1> HIDE DEF b
<1>5. IsCall(c) /\ c.at = "S_INT" /\ c.buf = b
  <2>1. "S_INT" \in Places /\ Top.macros
    BY <1>1 DEF Places, IsCall
  <2> QED
    BY <1>1, <1>4, <2>1, ChangedCall
<1> HIDE DEF p, c
<1>6. q \in 1 .. Len(text) /\ p = q + 1 /\ p - q = 1
  BY <1>2, <1>3
<1> HIDE DEF q
<1>7. InWord(text, p, q) /\ k \in Seq(STRING) /\ k[1] = text[q] /\ Len(k) \in Nat \ {0}
  <2>1. text[q] = "-" => q + 1 <= Len(text) /\ text[q + 1] \in Digit
    BY <1>2, <1>3, <1>6
  <2> QED
    BY <1>1, <1>2, <1>6, <2>1, NumeralHere
<1>8. InNumber(text, p, q, "S_INT", b.data)
  <2>1. InNumeral(k, p - q, "S_INT", b.data) /\ b.data = NumeralData(k, p - q, "S_INT")
    <3> HIDE DEF k
    <3>0. IntSoFar(k, 1)
      BY DEF IntSoFar, DigitsIn
    <3>1. InNumeral(k, p - q, "S_INT", b.data)
      <4>1. Len(b.data) = 1 /\ b.data[1] = k[1]
        BY <1>2, <1>4, <1>7
      <4> QED
        BY <1>6, <3>0, <4>1 DEF InNumeral
    <3>2. SubSeq(k, 1, 1) = <<k[1]>>
      <4>1. 1 \in 1 .. Len(k) /\ SubSeq(k, 1, 1 - 1) = <<>>
        BY <1>7
      <4>2. SubSeq(k, 1, 1) = SubSeq(k, 1, 1 - 1) \o <<k[1]>>
        BY <1>7, <4>1, PartGrows
      <4> QED
        BY <4>1, <4>2, JoinedOne, JoinedNothing
    <3> QED
      BY <1>2, <1>4, <1>6, <1>7, <3>1, <3>2 DEF NumeralData
  <2> QED
    BY <1>7, <2>1 DEF InNumber
<1> HIDE DEF k
<1>9. ASSUME NEW a, NEW l, IsSeq(a), IsSeq(l), Has(Top, l), Says(text, stream, Top, a \o l)
      PROVE  \E m : Has(c, m) /\ Says(text, stream', c, a \o m)
  <2>1. Lex(text) = (a \o l) \o LexFrom(text)[q]
    BY <1>1, <1>9, SaysNumeral DEF p, q
  <2>2. InNumber(text, Here(text, stream'), q, c.at, c.buf.data) /\ c.at \in Numerals
    BY <1>2, <1>5, <1>8 DEF p, Numerals
  <2>3. Says(text, stream', c, a \o l)
    BY <1>6, <2>1, <2>2, SaysNumber
  <2>4. Has(c, l)
    BY <1>1, <1>5, <1>9, HasSkipped, HasStill
  <2> QED
    BY <2>3, <2>4
<1> QED
  BY <1>1, <1>2, <1>5, <1>9, GoingReads

\* Without a nul the terminated chars of a buffer are its chars.
LEMMA DigitsAreAll ==
  ASSUME NEW buf, IsBuffer(buf), NEW k \in Seq(STRING), buf.data = k, \A i \in 1 .. Len(k) : k[i] # NUL
  PROVE  Digits(buffer_null_terminate(buf)) = k
<1> DEFINE n == FirstFrom(k, 1, {NUL}) - 1
           m == buffer_null_terminate(buf).data
<1>1. n = Len(k)
  <2>1. Len(k) \in Nat /\ 1 \in 1 .. Len(k) + 1
    OBVIOUS
  <2>2. FirstFrom(k, 1, {NUL}) \in 1 .. Len(k) + 1 /\ (FirstFrom(k, 1, {NUL}) <= Len(k) => k[FirstFrom(k, 1, {NUL})] \in {NUL})
    BY <2>1, FirstFromIs
  <2> QED
    BY <2>1, <2>2
<1>2. strlen(m, NUL) = n /\ SubSeq(m, 1, n) = SubSeq(k, 1, n)
  BY TerminatedIs
<1> HIDE DEF n, m
<1>3. SubSeq(m, 1, strlen(m, NUL)) = k
  BY <1>1, <1>2, WholeSeq
<1> QED
  BY <1>3 DEF Digits, m

\* A word holds no nul.
LEMMA WordHasNoNul ==
  ASSUME NEW t, IsText(t), NEW q \in 1 .. Len(t), BeginsWord(t[q])
  PROVE  \A i \in 1 .. Len(Word(t, q)) : Word(t, q)[i] # NUL
<1> DEFINE k == Word(t, q)
<1>1. t \in Seq(STRING) /\ Len(t) \in Nat /\ \A j \in 1 .. Len(t) : t[j] # NUL
  BY DEF IsText
<1>2. /\ WordEnd(t, q) \in q + 1 .. Len(t) + 1 /\ Len(k) = WordEnd(t, q) - q
      /\ \A j \in 1 .. WordEnd(t, q) - q : k[j] = t[q + j - 1]
  BY <1>1, WordIs
<1> HIDE DEF k
<1>3. ASSUME NEW i \in 1 .. Len(k) PROVE k[i] # NUL
  <2>1. i \in 1 .. WordEnd(t, q) - q /\ q + i - 1 \in 1 .. Len(t)
    BY <1>1, <1>2
  <2> QED
    BY <1>1, <1>2, <2>1
<1> QED
  BY <1>3 DEF k

\* What does not begin like a mark is none.
LEMMA NoMark ==
  ASSUME NEW x, x[1] \notin {"(", ")", "'", "#", "semicolon"}
  PROVE  x \notin Marks
<1>1. \A z \in Marks : z[1] \in {"(", ")", "'", "#", "semicolon"}
  BY DEF Marks, Skipped
<1> QED
  BY <1>1

\* A numeral is written as its chars.
LEMMA WrittenNumeral ==
  ASSUME NEW at \in {"int", "float"}, NEW x, x[1] \in Digit \cup {"-"}
  PROVE  Written(<<sexp_new_source_atom(at, x)>>, <<x>>)
<1> DEFINE v == sexp_new_source_atom(at, x)
<1>1. v[1] = at /\ v[2] = x
  BY DEF sexp_new_source_atom
<1> HIDE DEF v
<1>2. v[1] \in Atoms /\ AtomToken(v) = x
  BY <1>1 DEF Atoms, AtomToken
<1>3. x \notin Marks
  BY NoMark DEF Digit, Octal
<1> QED
  BY <1>2, <1>3, WrittenAtom DEF v

\* It returns an integer.
LEMMA IntEndReads == ASSUME IInv, Reading, IntEnd PROVE Reading'
<1> USE DEF IntEnd
<1> DEFINE p == Here(text, stream)
           x == Integer(Digits(buffer_null_terminate(Top.buf)))
           v == sexp_new_source_atom("int", x)
<1>1. "S_INT" \in Numerals
  BY DEF Numerals
<1>2. /\ In("S_INT") /\ stream # <<>> /\ Head(stream) \in NumeralEnd /\ stream' = stream
      /\ Return(v) /\ Quiet
  BY DEF At, readc
<1>3. IsText(text) /\ IsBuffer(Top.buf) /\ Left(text, stream) /\ Len(text) \in Nat
  BY <1>1, <1>2, InsideNumeral
<1>4. v # NoValue /\ v # sexp_null
  BY NotNull
<1>5. p \in 1 .. Len(text) /\ text[p] \in NumeralEnd /\ Here(text, stream') = p
  BY <1>2, <1>3, Next1
<1> HIDE DEF p, v
<1>6. ASSUME NEW q \in 1 .. Len(text), InNumber(text, p, q, "S_INT", Top.buf.data)
      PROVE  LexFrom(text)[q] = <<x>> \o LexFrom(text)[p] /\ Written(<<v>>, <<x>>)
  <2> DEFINE k == Word(text, q)
  <2>1. /\ InWord(text, p, q) /\ InNumeral(k, p - q, "S_INT", Top.buf.data)
        /\ Top.buf.data = NumeralData(k, p - q, "S_INT")
    BY <1>6 DEF InNumber
  <2>2. /\ k \in Seq(STRING) /\ k # <<>> /\ LooksNumeral(k) /\ BeginsWord(text[q])
        /\ p - q = Len(k) /\ WordEnd(text, q) = p /\ Ends(text, q)
    BY <1>3, <1>5, <2>1, NumeralEnds
  <2>3. IsInteger(k) /\ ~IsFloat(k)
    BY <2>1, <2>2, WholeInteger DEF InNumeral
  <2>4. WordToken(text, q) = Integer(k) /\ WordAfter(text, q) = p
    BY <2>2, <2>3 DEF WordToken, WordAfter
  <2>5. \A i \in 1 .. Len(k) : k[i] # NUL
    BY <1>3, <2>2, WordHasNoNul
  <2>6. LexFrom(text)[q] = <<WordToken(text, q)>> \o LexFrom(text)[WordAfter(text, q)]
    BY <1>3, <2>2, LexWord
  <2> HIDE DEF k
  <2>7. Top.buf.data = k
    BY <2>1, <2>2, WholeSeq DEF NumeralData
  <2>8. x = Integer(k)
    <3>1. Digits(buffer_null_terminate(Top.buf)) = k
      BY <1>3, <2>2, <2>5, <2>7, DigitsAreAll
    <3> QED
      BY <3>1
  <2>9. x[1] \in Digit \cup {"-"}
    BY <2>2, <2>3, <2>8, IntegerIs
  <2> HIDE DEF x
  <2> QED
    BY <2>4, <2>6, <2>8, <2>9, WrittenNumeral DEF v
<1>7. Here(text, stream') \in 1 .. Len(text) + 1
  BY <1>3, <1>5
<1>8. ASSUME NEW q \in 1 .. Len(text), InNumber(text, Here(text, stream), q, "S_INT", Top.buf.data)
      PROVE  \E y : LexFrom(text)[q] = <<y>> \o LexFrom(text)[Here(text, stream')] /\ Written(<<v>>, <<y>>)
  BY <1>5, <1>6, <1>8 DEF p
<1> QED
  BY <1>1, <1>2, <1>4, <1>7, <1>8, NumberReturnsReads

\* It returns a float, and the char after it is lost.
LEMMA FloatEndReads == ASSUME IInv, Reading, FloatEnd PROVE Reading'
<1> USE DEF FloatEnd
<1> DEFINE p == Here(text, stream)
           x == Digits(buffer_null_terminate(Top.buf))
           v == sexp_new_source_atom("float", x)
<1>1. "S_FLOAT" \in Numerals
  BY DEF Numerals
<1>2. /\ In("S_FLOAT") /\ stream # <<>> /\ Head(stream) \in NumeralEnd /\ stream' = Tail(stream)
      /\ Return(v) /\ Quiet
  BY DEF At, readc
<1>3. IsText(text) /\ IsBuffer(Top.buf) /\ Left(text, stream) /\ Len(text) \in Nat
  BY <1>1, <1>2, InsideNumeral
<1>4. v # NoValue /\ v # sexp_null
  BY NotNull
<1>5. p \in 1 .. Len(text) /\ text[p] \in NumeralEnd /\ Here(text, stream') = p + 1
  BY <1>2, <1>3, Next1
<1> HIDE DEF p, v
<1>6. ASSUME NEW q \in 1 .. Len(text), InNumber(text, p, q, "S_FLOAT", Top.buf.data)
      PROVE  LexFrom(text)[q] = <<x>> \o LexFrom(text)[p + 1] /\ Written(<<v>>, <<x>>)
  <2> DEFINE k == Word(text, q)
  <2>1. /\ InWord(text, p, q) /\ InNumeral(k, p - q, "S_FLOAT", Top.buf.data)
        /\ Top.buf.data = NumeralData(k, p - q, "S_FLOAT")
    BY <1>6 DEF InNumber
  <2>2. /\ k \in Seq(STRING) /\ k # <<>> /\ LooksNumeral(k) /\ BeginsWord(text[q])
        /\ p - q = Len(k) /\ WordEnd(text, q) = p /\ Ends(text, q)
    BY <1>3, <1>5, <2>1, NumeralEnds
  <2>3. ~IsInteger(k) /\ IsFloat(k)
    BY <2>1, <2>2, WholeFloat DEF InNumeral
  <2>4. WordToken(text, q) = k /\ WordAfter(text, q) = p + 1
    BY <2>2, <2>3 DEF WordToken, WordAfter
  <2>5. \A i \in 1 .. Len(k) : k[i] # NUL
    BY <1>3, <2>2, WordHasNoNul
  <2>6. LexFrom(text)[q] = <<WordToken(text, q)>> \o LexFrom(text)[WordAfter(text, q)]
    BY <1>3, <2>2, LexWord
  <2> HIDE DEF k
  <2>7. Top.buf.data = k
    BY <2>1, <2>2, WholeSeq DEF NumeralData
  <2>8. x = k
    BY <1>3, <2>2, <2>5, <2>7, DigitsAreAll
  <2>9. x[1] \in Digit \cup {"-"}
    BY <2>2, <2>8 DEF LooksNumeral
  <2> HIDE DEF x
  <2> QED
    BY <2>4, <2>6, <2>8, <2>9, WrittenNumeral DEF v
<1>7. Here(text, stream') \in 1 .. Len(text) + 1
  BY <1>3, <1>5
<1>8. ASSUME NEW q \in 1 .. Len(text), InNumber(text, Here(text, stream), q, "S_FLOAT", Top.buf.data)
      PROVE  \E y : LexFrom(text)[q] = <<y>> \o LexFrom(text)[Here(text, stream')] /\ Written(<<v>>, <<y>>)
  BY <1>5, <1>6, <1>8 DEF p
<1> QED
  BY <1>1, <1>2, <1>4, <1>7, <1>8, NumberReturnsReads

\* Two chars and the rest are the whole.
LEMMA PrefixedIs ==
  ASSUME NEW k \in Seq(STRING), Len(k) >= 2
  PROVE  <<k[1], k[2]>> \o SubSeq(k, 3, Len(k)) = k
<1> DEFINE r == SubSeq(k, 3, Len(k))
           z == <<k[1], k[2]>>
           w == z \o r
           n == Len(k)
<1>1. n \in Nat /\ k[1] \in STRING /\ k[2] \in STRING
  OBVIOUS
<1>2. r \in Seq(STRING) /\ Len(r) = n - 2 /\ \A h \in 1 .. n - 2 : r[h] = k[3 + h - 1]
  <2>1. 3 \in 1 .. Len(k) + 1 /\ Len(k) \in 3 - 1 .. Len(k) /\ Len(k) - 3 + 1 = n - 2
    BY <1>1
  <2> QED
    BY <2>1, PartOfSeq
<1>3. z \in Seq(STRING) /\ Len(z) = 2 /\ z[1] = k[1] /\ z[2] = k[2]
  BY <1>1
<1> HIDE DEF r, z
<1>4. /\ w \in Seq(STRING) /\ Len(w) = n
      /\ w[1] = k[1] /\ w[2] = k[2] /\ \A h \in 1 .. n - 2 : w[2 + h] = r[h]
  <2>1. IsSeq(z) /\ IsSeq(r)
    BY <1>2, <1>3 DEF IsSeq
  <2>2. /\ Len(w) = Len(z) + Len(r) /\ \A i \in 1 .. Len(z) : w[i] = z[i]
        /\ \A i \in 1 .. Len(r) : w[Len(z) + i] = r[i]
    BY <2>1, Joined
  <2>3. w \in Seq(STRING)
    BY <1>2, <1>3
  <2> HIDE DEF w
  <2> QED
    BY <1>1, <1>2, <1>3, <2>2, <2>3
<1> HIDE DEF w
<1>5. ASSUME NEW i \in 1 .. n PROVE w[i] = k[i]
  <2>1. CASE i <= 2
    BY <1>1, <1>4, <2>1, i = 1 \/ i = 2
  <2>2. CASE i > 2
    <3>1. i - 2 \in 1 .. n - 2 /\ 3 + (i - 2) - 1 = i /\ 2 + (i - 2) = i
      BY <1>1, <2>2
    <3> QED
      BY <1>2, <1>4, <3>1
  <2> QED
    BY <1>1, <2>1, <2>2
<1> HIDE DEF n
<1>6. w = k
  BY <1>1, <1>4, <1>5, SeqEqual DEF n
<1> QED
  BY <1>6 DEF w, r, z, n

\* It returns a hexadecimal numeral.
LEMMA HexEndReads == ASSUME IInv, Reading, HexEnd PROVE Reading'
<1> USE DEF HexEnd
<1> DEFINE p == Here(text, stream)
           d == Top.buf.data
           v == sexp_new_source_atom("uint", d)
           x == <<"0", "x">> \o d
<1>1. "S_HEX" \in Numerals
  BY DEF Numerals
<1>2. /\ In("S_HEX") /\ stream # <<>> /\ Head(stream) \in NumeralEnd /\ stream' = stream
      /\ Return(v) /\ Quiet /\ Len(d) <= HEX_DIGITS
  BY DEF At, readc
<1>3. IsText(text) /\ IsBuffer(Top.buf) /\ Left(text, stream) /\ Len(text) \in Nat
  BY <1>1, <1>2, InsideNumeral
<1>4. v # NoValue /\ v # sexp_null
  BY NotNull
<1>5. p \in 1 .. Len(text) /\ text[p] \in NumeralEnd /\ Here(text, stream') = p
  BY <1>2, <1>3, Next1
<1>9. v[1] \in Atoms /\ AtomToken(v) = x
  <2>1. v[1] = "uint" /\ v[2] = d
    BY DEF sexp_new_source_atom
  <2> HIDE DEF v
  <2> QED
    BY <2>1 DEF Atoms, AtomToken
<1> HIDE DEF p, v, d
<1>6. ASSUME NEW q \in 1 .. Len(text), InNumber(text, p, q, "S_HEX", d)
      PROVE  LexFrom(text)[q] = <<x>> \o LexFrom(text)[p] /\ Written(<<v>>, <<x>>)
  <2> DEFINE k == Word(text, q)
  <2>1. InWord(text, p, q) /\ InNumeral(k, p - q, "S_HEX", d) /\ d = NumeralData(k, p - q, "S_HEX")
    BY <1>6 DEF InNumber
  <2>2. /\ k \in Seq(STRING) /\ k # <<>> /\ LooksNumeral(k) /\ BeginsWord(text[q])
        /\ p - q = Len(k) /\ WordEnd(text, q) = p /\ Ends(text, q)
    BY <1>3, <1>5, <2>1, NumeralEnds
  <2>3. HexSoFar(k, Len(k)) /\ Len(d) = Len(k) - 2 /\ d = SubSeq(k, 3, Len(k))
    BY <2>1, <2>2 DEF InNumeral, NumeralData
  <2>4. ~IsInteger(k) /\ ~IsFloat(k) /\ IsHex(k)
    BY <1>2, <2>2, <2>3, WholeHex
  <2>5. WordToken(text, q) = k /\ WordAfter(text, q) = p
    BY <2>2, <2>4 DEF WordToken, WordAfter
  <2>6. LexFrom(text)[q] = <<WordToken(text, q)>> \o LexFrom(text)[WordAfter(text, q)]
    BY <1>3, <2>2, LexWord
  <2> HIDE DEF k
  <2>7. x = k
    <3>1. k[1] = "0" /\ k[2] = "x" /\ Len(k) >= 2
      BY <2>3 DEF HexSoFar
    <3>2. <<k[1], k[2]>> \o SubSeq(k, 3, Len(k)) = k
      BY <2>2, <3>1, PrefixedIs
    <3> QED
      BY <2>3, <3>1, <3>2
  <2>8. k \notin Marks
    BY <2>3, NoMark DEF HexSoFar
  <2> HIDE DEF x
  <2>9. Written(<<v>>, <<x>>)
    BY <1>9, <2>7, <2>8, WrittenAtom
  <2> QED
    BY <2>5, <2>6, <2>7, <2>9
<1>7. Here(text, stream') \in 1 .. Len(text) + 1
  BY <1>3, <1>5
<1>8. ASSUME NEW q \in 1 .. Len(text), InNumber(text, Here(text, stream), q, "S_HEX", Top.buf.data)
      PROVE  \E y : LexFrom(text)[q] = <<y>> \o LexFrom(text)[Here(text, stream')] /\ Written(<<v>>, <<y>>)
  BY <1>5, <1>6, <1>8 DEF p, d
<1> QED
  BY <1>1, <1>2, <1>4, <1>7, <1>8, NumberReturnsReads

-----------------------------------------------------------------------------
(* All steps *)

\* Every step of reads and of its lists keeps what was read beside the text.
LEMMA ReadsRead == ASSUME IInv, Reading, reads PROVE Reading'
BY ReadsSkipReads, ReadsMacroReads, ReadsEOFReads, ReadsUnmatchedReads, ReadsListReads, ReadsAtomReads,
   AtomCharReads, AtomEndReads,
   ListMacroReads, ListUnclosedReads, ListSkipReads, ListOpenReads, ListAtomReads, ListAtomCharReads,
   ListAtomEndReads, ListCloseReads, ListAppendReads, Zenon DEF reads

\* So does every step of a string.
LEMMA StringsRead == ASSUME IInv, Reading, str_reader_macro PROVE Reading'
BY StringCharReads, StringEndReads, StringUnterminatedReads, EscapeSimpleReads, EscapeOctalReads,
   EscapeOctalAbortsReads, EscapeHexReads, EscapeUnknownReads, Zenon DEF str_reader_macro

\* So does every step of a numeral.
LEMMA NumeralsRead == ASSUME IInv, Reading, numeral_reader_macro PROVE Reading'
<1>1. CASE NumeralChar("S_INT", Digit, "S_INT")
  BY <1>1, NumeralCharReads
<1>2. CASE NumeralChar("S_INT", {"."}, "S_INTDOT")
  BY <1>2, NumeralCharReads
<1>3. CASE NumeralChar("S_INTDOT", Digit, "S_FLOAT")
  BY <1>3, NumeralCharReads
<1>4. CASE NumeralChar("S_FLOAT", Digit, "S_FLOAT")
  BY <1>4, NumeralCharReads
<1>5. CASE NumeralChar("S_HEX", HexDigit, "S_HEX")
  BY <1>5, NumeralCharReads
<1> QED
  BY <1>1, <1>2, <1>3, <1>4, <1>5, NumeralMinusReads, NumeralBeginReads, NumeralPrefixReads, IntEndReads,
     HexEndReads, HexTooLongReads, FloatEndReads, NumeralErrorReads, Zenon DEF numeral_reader_macro

\* So does every step.
LEMMA NextReads == ASSUME IInv, Reading, [Next]_vars PROVE Reading'
BY CallReadsReads, TakeSexpReads, ReadsRead, CommentSkipReads, CommentEndReads, QuoteReads, QuoteReturnReads,
   StringsRead, NumeralsRead, IdleReads, Zenon DEF Next

\* The sexps and the calls in progress have what was read at every step.
THEOREM SpecReading == Spec => [](IInv /\ Reading)
<1>1. Init => IInv /\ Reading
  BY InitIInv, InitReading
<1>2. IInv /\ Reading /\ [Next]_vars => (IInv /\ Reading)'
  BY NextKeeps, NextReads
<1> QED
  BY <1>1, <1>2, PTL DEF Spec

\* Outside every call the tokens are those of the sexps, and those that are left.
LEMMA ReadingReadsText == ASSUME IInv, Reading PROVE ReadsText
<1> SUFFICES ASSUME calls = <<>>, value = NoValue, errors = {}
             PROVE  LET all  == Lex(text)
                        left == LexFrom(text)[Len(text) - Len(stream) + 1]
                        n    == Len(all) - Len(left)
                    IN  /\ n >= 0 /\ left = SubSeq(all, n + 1, Len(all))
                        /\ Remaining(results, SubSeq(all, 1, n)) = <<>>
  BY DEF ReadsText
<1> DEFINE all  == Lex(text)
           left == LexFrom(text)[Len(text) - Len(stream) + 1]
           h == Here(text, stream)
<1>1. IsText(text) /\ text \in Seq(STRING) /\ Len(text) \in Nat /\ Left(text, stream)
  BY TextsAre DEF IInv, Typed, IsText
<1>2. h = Len(text) - Len(stream) + 1 /\ h \in 1 .. Len(text) + 1
  BY <1>1, LeftIs
<1>3. PICK b : Written(results, b) /\ all = b \o LexFrom(text)[h]
  <2>1. ~(In("list") /\ AtEOF)
    BY DEF In
  <2>2. PICK b : AllHave(results, <<>>, b) /\ all = b \o LexFrom(text)[h]
    BY <2>1 DEF Reading
  <2> QED
    BY <2>2, NoneHave
<1>4. left = LexFrom(text)[h] /\ IsSeq(left)
  <2>1. IsSeq(LexFrom(text)[h])
    BY <1>1, <1>2, LexSeq
  <2> QED
    BY <1>2, <2>1
<1>5. IsSeq(b)
  BY <1>3, WrittenIs
<1> HIDE DEF left, h
<1>6. all = b \o left
  BY <1>3, <1>4
<1> HIDE DEF all
<1>7. /\ Len(b) \in Nat /\ Len(left) \in Nat /\ Len(all) = Len(b) + Len(left)
      /\ SubSeq(all, 1, Len(b)) = b /\ SubSeq(all, Len(b) + 1, Len(all)) = left
  <2>1. /\ Len(b) \in Nat /\ Len(left) \in Nat /\ Len(b \o left) = Len(b) + Len(left)
    BY ONLY <1>4, <1>5, Joined
  <2>2. SubSeq(b \o left, 1, Len(b)) = b /\ SubSeq(b \o left, Len(b) + 1, Len(b \o left)) = left
    BY ONLY <1>4, <1>5, JoinedApart
  <2> QED
    BY ONLY <1>6, <2>1, <2>2, Zenon
<1> DEFINE n == Len(all) - Len(left)
<1>8. n = Len(b) /\ n >= 0
  BY <1>7
<1> HIDE DEF n
<1>9. left = SubSeq(all, n + 1, Len(all)) /\ Remaining(results, SubSeq(all, 1, n)) = <<>>
  BY <1>3, <1>7, <1>8, WrittenRemains
<1> QED
  BY <1>8, <1>9 DEF n, all, left

\* Between two sexps, the sexps read so far are written as the tokens of the text up to
\* where the stream is, for texts of any length, nested to any depth.
THEOREM ReaderReadsText == Spec => []ReadsText
<1>1. IInv /\ Reading => ReadsText
  BY ReadingReadsText
<1> QED
  BY <1>1, SpecReading, PTL
=============================================================================
