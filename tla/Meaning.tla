------------------------------- MODULE Meaning -------------------------------
(***************************************************************************)
(* What programs of system-sexp mean, without call tree, nodes or arenas.  *)
(* An environment has the scopes that are open, outermost first, the stream*)
(* that is read, and what is left of each stream; 0 is the program itself. *)
(* Every call opens a scope for its arguments.  The macro let of           *)
(* examples/std.ss binds in the scope of the call that it stands in, or    *)
(* globally if it stands in none.  A symbol that is removed is not bound,  *)
(* and a macro that is called with an empty slice is called: the code does *)
(* neither.                                                                *)
(***************************************************************************)
EXTENDS Intrinsics

\* The start of a program.
Initially(program) ==
  [scopes |-> <<RootSymbols>>, in_stream |-> Stream(0), streams |-> (0 :> program) @@ StandardStreams]

\* The scope of the innermost binding of a symbol, or 0.  A scope that binds env to the root makes the rest of the search
\* go on there.
ScopeOf(env, sym) ==
  LET seen[k \in 0..Len(env.scopes)] ==
        CASE k = 0                            -> 0
          [] sym \in DOMAIN env.scopes[k]     -> k
          [] k > 1 /\ LPS_ENV \in DOMAIN env.scopes[k] -> seen[1]
          [] OTHER                            -> seen[k-1]
  IN seen[Len(env.scopes)]

Bound(env, sym) == LET k == ScopeOf(env, sym) IN IF k = 0 THEN Abort ELSE env.scopes[k][sym]

Means(val, env) == [val |-> val, env |-> env]
Bind(env, k, sym, val) == [env EXCEPT !.scopes[k] = (sym :> val) @@ @]
Unbind(env, k, sym) == [env EXCEPT !.scopes[k] = [s \in DOMAIN @ \ {sym} |-> @[s]]]

\* What a pointer is to; one that p-adrof gives is to a sexp that stays.
Pointed(env, ptr) ==
  CASE IsSlot(ptr) -> env.scopes[ptr[2][2]][ptr[2][3]]
    [] IsCell(ptr) -> ptr[2][3]
    [] OTHER       -> p_deref(ptr)

Inner(env) == [env EXCEPT !.scopes = Append(@, NoSymbols)]
Outer(env) == [env EXCEPT !.scopes = Front(@)]

\* The end of a call, whose value is a copy.
Close(r) == Means(sexp_dup(r.val), Outer(r.env))

\* The next sexp of the stream that is read.
ReadOf(env) ==
  LET k == env.in_stream[2][2]
      q == env.streams[k]
  IN  CASE ~IsStream(env.in_stream) \/ q = Closed -> Means(Abort, env)
        [] q = <<>> -> Means(Null, env)
        [] OTHER    -> Means(Head(q), [env EXCEPT !.streams[k] = Tail(@)])

From(env, stream) == [env EXCEPT !.in_stream = stream]

\* The pointer to a file that is opened, or NULL.
Opened(env, name) ==
  LET k == Cardinality(DOMAIN env.streams)
  IN  IF name \in DOMAIN Files
      THEN Means(Stream(k), [env EXCEPT !.streams = (k :> Files[name]) @@ @])
      ELSE Means(NullPtr, env)
Shut(env, stream) == [env EXCEPT !.streams[stream[2][2]] = Closed]

-----------------------------------------------------------------------------
(* What the operators denote: words are integers modulo 2^WORD_BITS, or sets of bits. *)

Word == 0..(Modulus - 1)
Bits(n) == {i \in 0..(WORD_BITS - 1) : (n \div 2 ^ i) % 2 = 1}
WordOf(bits) == CHOOSE n \in Word : Bits(n) = bits
SignBit(n) == WORD_BITS - 1 \in Bits(n)

\* a before b, as signed words: the sign bit weighs the other way round.
Before(a, b) == (a + Modulus \div 2) % Modulus < (b + Modulus \div 2) % Modulus

\* The bits of a moved by n places up, or down.
Up(a, n)   == {i + n : i \in Bits(a)} \cap (0..(WORD_BITS - 1))
Down(a, n) == {i - n : i \in Bits(a)} \cap (0..(WORD_BITS - 1))

\* a / b in integers, rounded to 0: the q of the sign of a*b for which |a| - |q*b| is in 0 .. |b|-1.
IsQuotient(q, a, b) ==
  /\ Magnitude(a) - Magnitude(q * b) \in 0..(Magnitude(b) - 1)
  /\ q # 0 => (q < 0 <=> (a < 0) # (b < 0))

Denoted(fn, a, b) ==
  LET n == b % WORD_BITS
      M == Modulus \div 2
  IN CASE Traps(fn, a, b)  -> Abort
       [] fn = "p-uadd"    -> Uint(a + b)
       [] fn = "p-sadd"    -> Num(Signed(a) + Signed(b))
       [] fn = "p-usub"    -> Uint(CHOOSE c \in Word : Wrap(c + b) = a)
       [] fn = "p-ssub"    -> Num(CHOOSE c \in Word : Wrap(c + b) = a)
       [] fn = "p-umul"    -> Uint(a * b)
       [] fn = "p-smul"    -> Num(Signed(a) * Signed(b))
       [] fn = "p-udiv"    -> Uint(CHOOSE q \in Word : IsQuotient(q, a, b))
       [] fn = "p-sdiv"    -> Num(CHOOSE q \in (-M)..(M - 1) : IsQuotient(q, Signed(a), Signed(b)))
       [] fn \in {"p-bitand", "p-umod"} -> Uint(WordOf(Bits(a) \cap Bits(b)))
       [] fn = "p-smod"    -> Num(WordOf(Bits(a) \cap Bits(b)))
       [] fn = "p-bitor"   -> Uint(WordOf(Bits(a) \cup Bits(b)))
       [] fn = "p-bitxor"  -> Uint(WordOf((Bits(a) \cup Bits(b)) \ (Bits(a) \cap Bits(b))))
       [] fn = "p-ushl"    -> Uint(WordOf(Up(a, n)))
       [] fn = "p-sshl"    -> Num(WordOf(Up(a, n)))
       [] fn = "p-ushr"    -> Uint(WordOf(Down(a, n)))
       [] fn = "p-sshr"    -> Num(WordOf(Down(a, n) \cup IF SignBit(a) THEN (WORD_BITS - n)..(WORD_BITS - 1) ELSE {}))
       [] fn = "p-biteq"   -> Bint(Bits(a) = Bits(b))
       [] fn = "p-bitneq"  -> Bint(Bits(a) # Bits(b))
       [] fn = "p-ult"     -> Bint(b - a \in Nat \ {0})
       [] fn = "p-ulte"    -> Bint(b - a \in Nat)
       [] fn = "p-ugt"     -> Bint(a - b \in Nat \ {0})
       [] fn = "p-ugte"    -> Bint(a - b \in Nat)
       [] fn = "p-slt"     -> Bint(Before(a, b))
       [] fn = "p-slte"    -> Bint(~Before(b, a))
       [] fn = "p-sgt"     -> Bint(Before(b, a))
       [] fn = "p-sgte"    -> Bint(~Before(a, b))

-----------------------------------------------------------------------------

RECURSIVE Meaning(_, _), MeansAll(_, _), Run(_, _), Iterated(_, _, _)

\* The values of sexps that are evaluated in turn, up to the first that has none.
MeansAll(q, env) ==
  IF q = <<>> THEN [vals |-> <<>>, env |-> env]
  ELSE LET r    == Meaning(Head(q), env)
           rest == IF r.val = Abort THEN [vals |-> <<>>, env |-> r.env] ELSE MeansAll(Tail(q), r.env)
       IN  [rest EXCEPT !.vals = <<r.val>> \o @]

\* The values of the next n sexps that are read, or of all if n is not in Nat.
Run(n, env) ==
  LET next == ReadOf(env)
      r    == IF next.val = Abort THEN next ELSE Meaning(next.val, next.env)
      rest == IF r.val = Abort THEN [vals |-> <<>>, env |-> r.env] ELSE Run(n - 1, r.env)
  IN  IF n = 0 \/ next.val = Null THEN [vals |-> <<>>, env |-> IF n = 0 THEN env ELSE next.env]
      ELSE [rest EXCEPT !.vals = <<r.val>> \o @]

Stuck(all) == all.vals # <<>> /\ Last(all.vals) = Abort
LastOf(all) == Means(Last(all.vals), all.env)

\* The iterations of a loop, the last of which had the value val.
Iterated(args, val, env) ==
  LET cond == Meaning(args[1], env)
      body == MeansAll(Tail(args), cond.env)
  IN  CASE cond.val = Abort   -> cond
        [] ~True(cond.val)    -> Means(val, cond.env)
        [] Stuck(body)        -> LastOf(body)
        [] OTHER              -> Iterated(args, IF body.vals = <<>> THEN val ELSE Last(body.vals), body.env)

\* A call of a primitive, in the scope it has opened.
Inside(fn, args, env) ==
  LET first == Meaning(args[1], env)
      all   == MeansAll(args, env)
      after == MeansAll(Tail(args), env)
  IN CASE ~ArgcOK(fn, Len(args)) -> Means(Abort, env)
       [] fn = "p-quote"      -> Means(args[1], env)
       [] fn = "p-macrobody"  -> LastOf(after)
       [] fn = "p-root-scope" -> Means(Node(1), env)
       [] fn = "p-while"      -> Iterated(args, Nil, env)
       [] fn = "p-multi-eval" ->
            LET again[i \in 1..Len(args)] ==
                  IF i = 1 THEN first
                  ELSE IF again[i-1].val = Abort THEN again[i-1] ELSE Meaning(again[i-1].val, again[i-1].env)
            IN again[Len(args)]
       [] fn = "p-slice-eval" ->
            IF Stuck(after) THEN LastOf(after)
            ELSE IF IsArray(after.vals[2], after.vals[1][2])
                 THEN Meaning(List(<<args[1]>> \o Array(after.vals[2], after.vals[1][2])), after.env)
                 ELSE Means(Abort, after.env)
       [] fn = "p-load" ->
            LET file   == Opened(first.env, first.val[2])
                loaded == Run(-1, From(Outer(file.env), file.val))
                back   == [Shut(From(loaded.env, first.env.in_stream), file.val)
                             EXCEPT !.scopes = Append(@, Last(first.env.scopes))]
            IN  IF first.val = Abort \/ file.val = NullPtr THEN Means(Abort, first.env)
                ELSE IF Stuck(loaded) THEN LastOf(loaded) ELSE Means(Last(loaded.vals), back)
       [] fn = "p-read"       -> ReadOf(env)
       [] fn = "p-get-in"     -> Means(env.in_stream, env)
       [] fn \in {"p-if", "p-and", "p-or"} /\ first.val = Abort -> first
       [] fn = "p-if" ->
            IF TrueInt(first.val) THEN Meaning(args[2], first.env)
            ELSE Meaning(IF Len(args) = 3 THEN args[3] ELSE Nil, first.env)
       [] fn \in {"p-and", "p-or"} ->
            IF True(first.val) = (fn = "p-or") THEN Means(Bint(fn = "p-or"), first.env)
            ELSE LET second == Meaning(args[2], first.env)
                 IN  IF second.val = Abort THEN second
                     ELSE Means(Bint(True(second.val)), second.env)
       [] Stuck(all)          -> LastOf(all)
       [] fn = "p-st-set"     -> Means(Nil, Bind(all.env, all.vals[1][2][2], all.vals[2][2], all.vals[3]))
       [] fn = "p-st-remove"  -> 
            IF IsNode(all.vals[1]) THEN Means(Nil, Unbind(all.env, all.vals[1][2][2], all.vals[2][2]))
            ELSE Means(Abort, all.env)
       [] fn = "p-deref"      -> Means(Pointed(all.env, all.vals[1]), all.env)
       [] fn = "p-adrof"      -> Means(Cell(0, all.vals[1]), all.env)
       [] fn = "p-memcpy"     ->
            IF Abort \in {Pointed(all.env, all.vals[1]), Pointed(all.env, all.vals[2])} THEN Means(Abort, all.env)
            ELSE Means(all.vals[1], Bind(all.env, all.vals[1][2][2], all.vals[1][2][3], Pointed(all.env, all.vals[2])))
       [] (fn = "p-get" /\ ~IsName(all.vals[1])) \/ (fn = "p-st-get" /\ ~IsNode(all.vals[1])) ->
            Means(Abort, all.env)
       [] fn = "p-get"        ->
            LET k == ScopeOf(all.env, all.vals[1][2])
            IN  Means(IF k = 0 THEN NullPtr ELSE Slot(k, all.vals[1][2]), all.env)
       [] fn = "p-st-get"     ->
            LET k == all.vals[1][2][2]
            IN  Means(IF all.vals[2][2] \in DOMAIN all.env.scopes[k] THEN Slot(k, all.vals[2][2]) ELSE NullPtr, all.env)
       [] fn \in {"p-set-in", "p-fclose"} /\ ~IsPtr(all.vals[1]) -> Means(Abort, all.env)
       [] fn = "p-set-in"     -> Means(all.env.in_stream, From(all.env, all.vals[1]))
       [] fn = "p-fclose"     ->
            IF all.vals[1] = NullPtr THEN Means(Abort, all.env) ELSE Means(Nil, Shut(all.env, all.vals[1]))
       [] fn = "p-fopen"      -> Opened(all.env, all.vals[1][2])
       [] fn \in BinaryOps /\ IsNum(all.vals[1]) /\ IsNum(all.vals[2]) ->
            Means(Denoted(fn, all.vals[1][2], all.vals[2][2]), all.env)
       [] fn \in Strict       -> Means(Computed(fn, all.vals), all.env)

\* (let sym val): the value is evaluated in a scope of its own.
Let(args, env) ==
  LET r == Close(Meaning(args[2], Inner(env)))
  IN  IF r.val = Abort THEN r ELSE Means(NilDup, Bind(r.env, Len(r.env.scopes), args[1][2], r.val))

Meaning(s, env) ==
  LET scope == Inner(env)
      fn    == s[2][1]
      args  == Tail(s[2])
      named == IF fn[2] \in Primitives THEN Sym(fn[2]) ELSE Bound(env, fn[2])
  IN CASE ~Call(s) /\ IsSym(s) -> Means(IF s[2] \in Primitives THEN s ELSE Bound(env, s[2]), env)
       [] ~Call(s)             -> Means(s, env)
       [] ~IsName(fn)          -> Means(Abort, env)
       [] fn[2] = "let"        -> Let(args, env)
       [] IsSym(named) /\ named[2] \in Primitives -> Close(Inside(named[2], args, scope))
       [] IsMacro(named)       -> Close(Inside("p-macrobody", Tail(Expansion(named, args)[2]), scope))
       [] OTHER                -> Means(Abort, env)

=============================================================================
