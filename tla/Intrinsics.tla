----------------------------- MODULE Intrinsics -----------------------------
(***************************************************************************)
(* What the intrinsics compute that only compute (intrinsics.h), and the   *)
(* copy and the replacement of a sexp (sexp.c).                            *)
(***************************************************************************)
EXTENDS Sexps, Bitwise

RECURSIVE sexp_dup(_)
sexp_dup(s) ==
  CASE ~IsList(s)    -> s
    [] s[2] = <<>>   -> NilDup
    [] OTHER         -> List([i \in DOMAIN s[2] |-> sexp_dup(s[2][i])])

-----------------------------------------------------------------------------
(* The operators, on two words.  umod and smod are the & of the code.  A shift *)
(* of a word takes its count modulo the width, as the machine does.           *)

Traps(fn, a, b) ==
  \/ fn \in {"p-udiv", "p-sdiv"} /\ b = 0
  \/ fn = "p-sdiv" /\ 2 * a = Modulus /\ b = Modulus - 1

\* C rounds a quotient to 0.
Magnitude(n) == IF n < 0 THEN -n ELSE n
Quotient(a, b) ==
  LET q == Magnitude(a) \div Magnitude(b) IN IF (a < 0) = (b < 0) THEN q ELSE -q

Arithmetic(fn, a, b) ==
  LET s == Signed(a)  t == Signed(b)  by == 2 ^ (b % WORD_BITS)
  IN CASE fn \in {"p-uadd", "p-sadd"} -> Wrap(a + b)
       [] fn \in {"p-usub", "p-ssub"} -> Wrap(a - b)
       [] fn \in {"p-umul", "p-smul"} -> Wrap(a * b)
       [] fn = "p-udiv"               -> a \div b
       [] fn = "p-sdiv"               -> Wrap(Quotient(s, t))
       [] fn \in {"p-bitand", "p-umod", "p-smod"} -> a & b
       [] fn = "p-bitor"              -> a | b
       [] fn = "p-bitxor"             -> a ^^ b
       [] fn \in {"p-ushl", "p-sshl"} -> Wrap(a * by)
       [] fn = "p-ushr"               -> a \div by
       [] fn = "p-sshr"               -> Wrap(s \div by)

Holds(fn, a, b) ==
  LET s == Signed(a)  t == Signed(b)
  IN CASE fn = "p-biteq" -> a = b [] fn = "p-bitneq" -> a # b
       [] fn = "p-ult" -> a < b   [] fn = "p-ulte" -> a <= b
       [] fn = "p-ugt" -> a > b   [] fn = "p-ugte" -> a >= b
       [] fn = "p-slt" -> s < t   [] fn = "p-slte" -> s <= t
       [] fn = "p-sgt" -> s > t   [] fn = "p-sgte" -> s >= t

\* DEFINE_BINARY_OP.  Of addresses only their sums with a number and whether they are equal are modelled,
\* of the bits of a double nothing.
BinaryOp(fn, v) ==
  CASE fn = "p-uadd" /\ IsSlice(v[1]) /\ IsNum(v[2]) -> Offset(v[1], v[2][2])
    [] fn = "p-biteq" /\ IsPtr(v[1]) /\ IsPtr(v[2]) -> Bint(v[1][2] = v[2][2])
    [] ~(IsNum(v[1]) /\ IsNum(v[2])) \/ Traps(fn, v[1][2], v[2][2]) -> Abort
    [] fn \in UintOps -> Uint(Arithmetic(fn, v[1][2], v[2][2]))
    [] fn \in IntOps  -> Num(Arithmetic(fn, v[1][2], v[2][2]))
    [] fn \in Tests   -> Bint(Holds(fn, v[1][2], v[2][2]))

\* The operators on doubles, where the result is a double as above.
FloatOp(fn, v) ==
  LET a == v[1][2]  b == v[2][2]
  IN CASE ~(IsFloat(v[1]) /\ IsFloat(v[2])) -> Abort
       [] fn = "p-fadd" -> Float(a + b)  [] fn = "p-fsub"  -> Float(a - b)
       [] fn = "p-fmul" -> Float(a * b)  [] fn = "p-fdiv"  -> Float(Quotient(a, b))
       [] fn = "p-flt"  -> Bint(a < b)   [] fn = "p-flte"  -> Bint(a <= b)
       [] fn = "p-fgt"  -> Bint(a > b)   [] fn = "p-fgte"  -> Bint(a >= b)

-----------------------------------------------------------------------------
(* The primitives *)

\* replace_symbol
RECURSIVE replace_symbol(_, _, _)
replace_symbol(s, name, val) ==
  CASE s = Sym(name) -> val
    [] Call(s)       -> List([i \in DOMAIN s[2] |-> replace_symbol(s[2][i], name, val)])
    [] OTHER         -> s

sexp_atom_type(s) ==
  CASE s[1] = "null" -> 0 [] s[1] = "sym" -> 1 [] s[1] = "str" -> 2
    [] s[1] \in {"uval", "uadr"} -> 3 [] s[1] = "sval" -> 4 [] s[1] = "fval" -> 5 [] s[1] = "ptr" -> 6

LIST_T == 7
p_typeof(val) == Uint(IF IsList(val) THEN LIST_T ELSE sexp_atom_type(val))

\* What is printed is left out.
p_print(post) == IF IsName(post) THEN Nil ELSE Abort
p_is_primitive(a) == IF IsName(a) THEN Bint(a[2] \in Primitives) ELSE Abort
p_strlen(str) == IF IsName(str) THEN Uint(Len(str[2])) ELSE Abort
p_getenv == Ptr(<<"environ">>)
p_is_eof(a) == Bint(a = Null)

\* What a primitive makes of the values of its arguments.
Computed(fn, v) ==
  CASE fn \in BinaryOps       -> BinaryOp(fn, v)
    [] fn \in FloatOps        -> FloatOp(fn, v)
    [] fn = "p-sexp-size"     -> p_sexp_size
    [] fn = "p-not"           -> Bint(~TrueInt(v[1]))
    [] fn = "p-bitnot"        -> IF IsNum(v[1]) THEN Uint(-1 - v[1][2]) ELSE Abort
    [] fn = "p-typeof"        -> p_typeof(v[1])
    [] fn = "p-print"         -> p_print(v[1])
    [] fn = "p-strlen"        -> p_strlen(v[1])
    [] fn = "p-is-primitive"  -> p_is_primitive(v[1])
    [] fn = "p-is-eof"        -> p_is_eof(v[1])
    [] fn = "p-environ"       -> p_getenv
    [] fn = "p-stdin"         -> Stream(1)
    [] fn = "p-stdout"        -> Stream(2)
    [] fn = "p-stderr"        -> Stream(3)
    [] fn = "p-length"        -> IF IsList(v[1]) THEN Uint(Len(v[1][2])) ELSE Abort
    [] fn = "p-nth"           -> IF IsList(v[1]) /\ IsNum(v[2]) THEN Slice(v[1][2], v[2][2]) ELSE Abort
    [] fn = "p-list"          ->
         IF IsSlice(v[1]) /\ IsNum(v[2]) /\ v[1][2][3] + v[2][2] <= Len(v[1][2][2])
         THEN IF v[2][2] = 0 THEN NilDup ELSE List(SubSeq(v[1][2][2], v[1][2][3] + 1, v[1][2][3] + v[2][2]))
         ELSE Abort
    [] fn = "p-replace"       -> IF IsName(v[2]) THEN replace_symbol(sexp_dup(v[1]), v[2][2], v[3]) ELSE Abort
    [] fn = "p-deref"         -> p_deref(v[1])

\* A copy of the body of a macro with the arguments of a call put in.
Expansion(macro, args) ==
  LET body  == sexp_dup(macro[2][2])
      binds == body[2][2][2]
      adr   == IF args = <<>> THEN NullPtr ELSE Slice(args, 0)
  IN  replace_symbol(replace_symbol(body, binds[1][2], Uint(Len(args))), binds[2][2], adr)
=============================================================================
