----------------------------- MODULE MCEvaluator -----------------------------
EXTENDS Scopes

Of(head, args) == List(<<Sym(head)>> \o args)
Quote(s) == Of("p-quote", <<s>>)
Seq2(a, b) == Of("p-macrobody", <<Nil, a, b>>)
x == Sym("x")

\* (p-st-set (p-root-scope) 'let ...), the first sexp of examples/std.ss
StdLet ==
  Of("p-st-set", <<Of("p-root-scope", <<>>), Quote(Sym("let")), Quote(List(<<Nil,
    Of("p-macrobody", <<List(<<Sym("argc"), Sym("argv")>>),
      Of("p-st-set", <<Of("p-parent-scope", <<Of("p-scope", <<>>), Num(4)>>),
                       Of("p-deref", <<Sym("argv")>>),
                       Of("p-multi-eval",
                          <<Of("p-deref", <<Of("p-uadd", <<Sym("argv"), Of("p-sexp-size", <<>>)>>)>>),
                            Nil>>)>>)>>)>>))>>)

LetX(val) == Of("let", <<x, val>>)
Let1(name, val) == Of("let", <<Sym(name), val>>)
Macro(body) == Quote(List(<<Nil, Of("p-macrobody", <<List(<<Sym("argc"), Sym("argv")>>)>> \o body)>>))
Again(s) == Of("p-multi-eval", <<s, Nil>>)

\* (m a) evaluates a beneath a binding of its own; (all ...) passes its arguments on.
DefM == Let1("m", Macro(<<LetX(Num(0)), Again(Of("p-deref", <<Sym("argv")>>))>>))
DefAll == Let1("all", Macro(<<Of("p-slice-eval", <<Sym("p-macrobody"), Sym("argc"), Sym("argv")>>)>>))

Read == Of("p-read", <<>>)
GetIn == Of("p-get-in", <<>>)
SetIn(s) == Of("p-set-in", <<s>>)
Keyboard == Of("p-stdin", <<>>)

\* A file that is loaded may read itself, go on with what the user types, or go back to the program.
MCFiles == [f |-> <<x>>, g |-> <<LetX(Num(0)), x>>, itself |-> <<Read, x, Of("p-is-eof", <<Read>>)>>,
            typed |-> <<SetIn(Keyboard), x>>, back |-> <<SetIn(x), Num(1)>>]
MCStdin == <<Num(2), x, Nil>>
Load(file) == Of("p-load", <<Str(file)>>)
Fopen(file) == Of("p-fopen", <<Str(file), Str("r")>>)

Leaves == {Num(1), x, LetX(Num(1)), Load("g"), Let1("env", Of("p-root-scope", <<>>))}
Unlet(scope, name) == Of("p-st-remove", <<scope, Quote(Sym(name))>>)
Globals == Of("p-root-scope", <<>>)
GlobalX(n) == Of("p-st-set", <<Globals, Quote(x), Num(n)>>)

\* Calls whose arguments are in S.
Forms(S) ==
  {Seq2(a, b) : a, b \in S} \cup {Of("all", <<a, b>>) : a, b \in S}
  \cup {LetX(a) : a \in S \ {LetX(Num(1))}} \cup {Again(a) : a \in S} \cup {Of("m", <<a>>) : a \in S}
  \cup {Of("p-if", <<Of(c, <<x, Num(1)>>), a, x>>) : c \in {"p-and", "p-or"}, a \in S}
  \cup {Of("p-while", <<x, a, LetX(Num(0))>>) : a \in S}

One == Forms(Leaves)
Two == {Seq2(a, b) : a \in {LetX(Num(1)), Load("g")}, b \in One}
       \cup {Seq2(a, x) : a \in One} \cup {Of("m", <<a>>) : a \in One}
Odd == {<<Let1("quote", Sym("p-quote")), Of("quote", <<x>>)>>,
        <<LetX(Num(1)), Seq2(Unlet(Globals, "x"), GlobalX(2)), x>>, <<Unlet(Globals, "x"), Num(1)>>,
        <<LetX(Num(1)), Seq2(Unlet(x, "x"), x)>>, <<LetX(Num(1)), Of("x", <<>>)>>,
        <<Of("p-quote", <<>>)>>, <<Load("h")>>, <<Of("p-load", <<Quote(Sym("f"))>>)>>,
        <<List(<<Str("all"), x, x>>)>>, <<List(<<Str("p-print"), Str("x")>>)>>}

After(prelude, S) == {prelude \o p : p \in S}

\* Every operator at the ends of the ranges of words, of signed words and of ints, and between.
Operands == {0, 1, 5, 7, 8, 15}
Operations == {<<Of(fn, <<Num(a), Num(b)>>)>> : fn \in BinaryOps, a \in Operands, b \in Operands}
              \cup {<<Of(fn, <<Num(a)>>)>> : fn \in {"p-not", "p-bitnot"}, a \in Operands}

\* Those on doubles, where the result is a whole number and no negative zero.
Exact == {p \in FloatOps \X {-6, -3, 0, 1, 3} \X {-3, 0, 1, 3} :
            /\ p[1] = "p-fmul" => (p[2] < 0 => p[3] # 0) /\ (p[3] < 0 => p[2] # 0)
            /\ p[1] = "p-fdiv" => p[3] # 0 /\ (p[2] = 0 => p[3] > 0) /\ p[2] = p[3] * Quotient(p[2], p[3])}
Doubles == {<<Of(p[1], <<Float(p[2]), Float(p[3])>>)>> : p \in Exact}
           \cup {<<Of("p-fadd", <<Float(1), Num(1)>>)>>, <<Of("p-flt", <<Nil, Float(1)>>)>>}

\* What is true: a number through an int and through a word, () as read and as copied, a pointer.
Deref(s) == Of("p-deref", <<s>>)
Get(name) == Of("p-get", <<Quote(Sym(name))>>)
StGet(name) == Of("p-st-get", <<Of("p-root-scope", <<>>), Quote(Sym(name))>>)
Conditions == {Float(0), Float(1), Num(0), Num(8), Num(9), Nil, Quote(Nil), Of("p-print", <<Quote(x)>>), Of("m", <<Nil>>),
               Get("x"), Get("y"), StGet("x"), StGet("y")}
Truths == {<<Of("p-if", <<c, Num(1), Num(2)>>), Of("p-and", <<c, c>>), Of("p-or", <<c, Num(0)>>),
             Of("p-not", <<c>>)>> : c \in Conditions}

\* Lists and pointers into them; a slot is read after it is bound again.
Ls == Quote(List(<<x, Num(1), List(<<x, Nil>>)>>))
Listed == {<<Of("p-length", <<a>>)>> : a \in {Ls, Nil, x}}
          \cup {<<Deref(Of("p-nth", <<Ls, Num(n)>>))>> : n \in 0..3}
          \cup {<<Of("p-list", <<Of("p-nth", <<Ls, Num(n)>>), Num(k)>>)>> : n \in 0..1, k \in 0..3}
          \cup {<<Of("p-replace", <<Ls, Quote(a), Nil>>)>> : a \in {x, Sym("y"), Nil}}
          \cup {<<Of("p-typeof", <<a>>)>> : a \in {Ls, x, Quote(x), Of("p-root-scope", <<>>), Of("p-sexp-size", <<>>),
                                                   Of("p-environ", <<>>), Float(1)}}
          \cup {<<Of("p-is-primitive", <<Quote(a)>>)>> : a \in {x, Sym("p-if"), Nil}}
          \cup {<<Of("p-biteq", <<a, b>>)>> : a, b \in {Get("x"), StGet("x"), Get("y"), Ls}}
          \cup {<<Deref(a), LetX(Num(2)), Deref(a), Of("m", <<Deref(a)>>)>> : a \in {Get("x"), StGet("x")}}
          \cup {<<Deref(Get("y"))>>, <<Deref(Of("p-get", <<Num(1)>>))>>, <<Of("p-st-get", <<Num(1), Quote(x)>>)>>}
Defined == After(<<LetX(Num(1))>>, Truths \cup Listed)

\* Programs that read: themselves, files, the keyboard, with the stream put back or not.
DefRead == Let1("read", Macro(<<Let1("in-file", GetIn), SetIn(Keyboard), Let1("result", Read),
                                SetIn(Sym("in-file")), Sym("result")>>))
Again2(s) == Of("p-multi-eval", <<s, Nil, Nil>>)
Eof(s) == Of("p-is-eof", <<s>>)
InFile(file, s) ==
  <<Let1("in", Fopen(file)), Let1("old", GetIn),
    Of("p-macrobody", <<Nil, SetIn(Sym("in")), s, SetIn(Sym("old"))>>), Of("p-fclose", <<Sym("in")>>)>>
Reading ==
  {<<Of("read", <<>>), Of("read", <<>>), x, Eof(Of("read", <<>>))>>,
   <<Read, Of("all", <<x, Num(2)>>), Let1("y", Read), Num(3), Sym("y")>>,
   <<Eof(Read), Num(1), Eof(Read)>>, <<Again(Read), LetX(Num(3)), x, Read>>,
   <<SetIn(Keyboard), x>>, <<SetIn(Fopen("g")), x>>, <<SetIn(Fopen("h")), x>>, <<SetIn(Num(1)), x>>,
   <<Fopen("h"), Of("p-fclose", <<Fopen("h")>>)>>,
   <<Of("p-biteq", <<GetIn, GetIn>>), Of("p-biteq", <<GetIn, Keyboard>>)>>,
   <<Of("p-not", <<Read>>)>>, <<Of("p-typeof", <<Read>>)>>, <<Of("p-typeof", <<Str("x")>>)>>,
   <<Of("p-strlen", <<Str("load")>>), Of("p-strlen", <<Quote(x)>>), Of("p-strlen", <<Nil>>)>>}
  \cup {<<a, x>> : a \in {Load("itself"), Load("typed"), Seq2(Load("itself"), Load("typed")), Again(Load("itself")),
                         Of("m", <<Load("itself")>>)}}
  \cup {<<LetX(GetIn), Seq2(a, Num(4)), Num(5)>> : a \in {Load("back"), SetIn(x), Load("typed")}}
  \cup {InFile(file, a) \o <<x>> : file \in {"f", "g", "h"}, a \in {Read, Again2(Read), Seq2(Read, Eof(Read)), Load("f")}}
  \cup {InFile("g", Of("p-macrobody", <<Nil, Let1("s", Nil),
          Of("p-while", <<Of("p-not", <<Eof(Sym("s"))>>), Again(Sym("s")), Let1("s", Read)>>)>>)) \o <<x>>}

\* Programs that assign, by the c:= of repl.ss and with pointers to other sexps.
Deref2 == Deref(Of("p-uadd", <<Sym("argv"), Of("p-sexp-size", <<>>)>>))
Size == Of("p-sexp-size", <<>>)
Memcpy(dest, src) == Of("p-memcpy", <<dest, src, Size>>)
Adrof(s) == Of("p-adrof", <<s>>)
DefAssign == Let1("c:=", Macro(<<Let1("val", Of("p-multi-eval", <<Deref2, Nil>>)),
                                 Memcpy(Of("p-get", <<Deref(Sym("argv"))>>), Adrof(Sym("val")))>>))
AssignTo(sym, a) == Of("c:=", <<sym, a>>)
Assigned(a) == {Of("all", <<AssignTo(x, a), x>>), Of("m", <<Seq2(AssignTo(x, a), x)>>),
                Seq2(Of("p-while", <<x, a, AssignTo(x, Num(0))>>), x),
                Seq2(Memcpy(Get("x"), Adrof(a)), x), Deref(Adrof(a))}
Assigning ==
  {<<a, x>> : a \in UNION {Assigned(b) : b \in Leaves \cup {Ls, Nil, Seq2(AssignTo(x, Num(2)), x), Of("all", <<x, Num(2)>>),
                                                       Of("m", <<x>>), Deref(Adrof(x)), Let1("val", Num(3))}}}
  \cup {<<Of("all", <<Memcpy(Get("x"), a), x>>), x>> :
           a \in {Get("x"), Get("let"), Get("y"), Of("p-nth", <<Ls, Num(1)>>), Num(0),
                  Adrof(Seq2(Adrof(Num(2)), Num(3))), Of("p-multi-eval", <<Adrof(Num(2)), Nil>>)}}
  \cup {<<Seq2(Of("p-memcpy", <<Get(n), Adrof(Num(2)), k>>), x), x>> :
           n \in {"x", "y"}, k \in {Size, Seq2(LetX(Num(3)), Size), Of("m", <<Size>>)}}
  \cup {<<AssignTo(Sym("y"), Num(1)), x>>, <<Seq2(AssignTo(Sym("val"), Num(2)), x), x>>, <<Of("p-adrof", <<>>)>>,
        <<Let1("m", Macro(<<AssignTo(x, Deref(Sym("argv")))>>)), Seq2(Of("m", <<Num(4)>>), x), x>>}

\* Programs that call with an empty slice: a macro, whose value is not looked at, itself or in turn, as the
\* print of size.ss does, and primitives.
EmptySlice(fn, ptr) == Of("p-slice-eval", <<Sym(fn), Num(0), ptr>>)
DefK == Let1("k", Macro(<<Num(7)>>))
DefEach ==
  Let1("each", Macro(<<Of("p-if", <<Of("p-ugt", <<Sym("argc"), Num(0)>>),
    Seq2(Again(Deref(Sym("argv"))),
         Of("p-slice-eval", <<Sym("each"), Of("p-usub", <<Sym("argc"), Num(1)>>),
                              Of("p-uadd", <<Sym("argv"), Size>>)>>)), Nil>>)>>))
Pointers == {Get("x"), Get("y"), Of("p-nth", <<Ls, Num(3)>>), Adrof(x)}
Slicing ==
  {<<a, x>> : a \in UNION {{Seq2(s, x), Of("m", <<Seq2(s, Num(3))>>), Of("p-while", <<x, s, LetX(Num(0))>>),
                             Seq2(Again(s), x), Seq2(Of("all", <<s, LetX(Num(2))>>), x)} :
                               s \in {EmptySlice("k", ptr) : ptr \in Pointers}}}
  \cup {<<Seq2(Of("each", <<x, LetX(Num(3))>>), x), x>>, <<Seq2(Of("each", <<>>), x)>>, <<Of("each", <<>>)>>,
        <<EmptySlice("p-sexp-size", Get("y")), x>>, <<Let1("size", Sym("p-sexp-size")), EmptySlice("size", Adrof(x))>>,
        <<EmptySlice("k", Num(1)), x>>, <<EmptySlice("y", Adrof(x)), x>>, <<EmptySlice("p-if", Adrof(x)), x>>}

MCPrograms ==
  After(<<StdLet, DefM, DefAll>>,
        Odd \cup Operations \cup Doubles \cup Defined \cup {<<a, x>> : a \in One \cup Two} \cup {<<LetX(Num(2)), a, Load("f")>> : a \in One}
        \cup After(<<DefRead, LetX(Num(1))>>, Reading)
        \cup After(<<DefAssign, LetX(Num(1))>>, Assigning)
        \cup After(<<DefK, DefEach, LetX(Num(1))>>, Slicing))

\* A file with a let in it, loaded by a sexp of the program itself.
LoadingPrograms == After(<<StdLet>>, {<<Load(file), x>> : file \in {"f", "g"}})
==============================================================================
