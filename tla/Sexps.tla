-------------------------------- MODULE Sexps --------------------------------
(***************************************************************************)
(* The s-expressions that the evaluator works on (sexp.h, sexp.c), the     *)
(* primitives by name (intrinsics.h), and what a program finds when it     *)
(* starts.  A sexp is a pair of its kind and its content.  A number is     *)
(* held as the unsigned value of its word; addresses count sexps, so that  *)
(* (p-sexp-size) is 1.  A string differs from a symbol in its kind alone.  *)
(* A double is a whole number here, and a zero the positive one: their     *)
(* low 32 bits are 0.                                                      *)
(***************************************************************************)
EXTENDS Integers, SequencesExt

CONSTANTS
  WORD_BITS,           \* the width of a word, a power of 2
  INT_BITS,            \* the width of an int
  Files,               \* the sexps of each file that may be opened
  Stdin                \* the sexps that the user types

ASSUME WidthsAssumption == WORD_BITS \in {1, 2, 4, 8} /\ INT_BITS \in 1..WORD_BITS
ASSUME FilesAssumption == \A f \in DOMAIN Files : Len(Files[f]) > 0

Modulus == 2 ^ WORD_BITS
Wrap(n) == n % Modulus
Signed(n) == IF 2 * n < Modulus THEN n ELSE n - Modulus

atom_new(inner, type) == <<type, inner>>
Sym(name)   == atom_new(name, "sym")
Str(name)   == atom_new(name, "str")
Uint(n)     == atom_new(Wrap(n), "uval")
Num(n)      == atom_new(Wrap(n), "sval")
Float(n)    == atom_new(n, "fval")
Bint(b)     == Num(IF b THEN 1 ELSE 0)
List(q)     == <<"list", q>>
Ptr(adr)    == atom_new(adr, "ptr")
Node(n)     == Ptr(<<"node", n>>)           \* a CallTree*
Slice(q, k) == Ptr(<<"slice", q, k>>)       \* a Sexp* into an array
Slot(n, sym) == Ptr(<<"slot", n, sym>>)     \* a Sexp* into a symbol table
Cell(a, s)  == Ptr(<<"cell", a, s>>)        \* a Sexp* into arena a, where s is
Stream(k)   == Ptr(<<"stream", k>>)         \* a FILE*
NullPtr     == Ptr(<<"NULL">>)
Offset(s, n) == <<"uadr", [s[2] EXCEPT ![3] = @ + n]>>   \* an A_UVAL that holds an address
LPS_ENV     == "env"                     \* names a scope to go on in
LPS_EVAL    == "eval"                    \* names what evaluates each sexp
Null        == <<"null", 0>>                \* sexp_null: nothing was read
Abort       == <<"abort">>                  \* no value: the process stops

\* () as it is read has no array of children; a copy of it has one, of no bytes.
Nil    == List(<<>>)
NilDup == <<"list", <<>>, "allocated">>

IsSym(s)   == s[1] = "sym"
IsName(s)  == s[1] \in {"sym", "str"}       \* what sexp_read_str takes
IsList(s)  == s[1] = "list"
IsNum(s)   == s[1] \in {"uval", "sval"}
IsFloat(s) == s[1] = "fval"
IsPtr(s)   == s[1] \in {"ptr", "uadr"}
sexp_is_nil(s) == IsList(s) /\ s[2] = <<>>
Call(s)    == IsList(s) /\ ~sexp_is_nil(s)
IsNode(s)  == IsPtr(s) /\ s[2][1] = "node"
IsSlice(s) == IsPtr(s) /\ s[2][1] = "slice"
IsSlot(s)  == IsPtr(s) /\ s[2][1] = "slot"
IsCell(s)  == IsPtr(s) /\ s[2][1] = "cell"
IsStream(s) == IsPtr(s) /\ s[2][1] = "stream"

\* sexp_read_s64 is not 0.
True(s) == s \notin {Nil, NullPtr, Null} /\ ~((IsNum(s) \/ IsFloat(s)) /\ s[2] = 0)

\* The same through an int, which has the low bits: none of a double.  An address is taken to be other
\* than 0 in its.
TrueInt(s) == IF IsNum(s) THEN s[2] % 2 ^ INT_BITS # 0 ELSE True(s) /\ ~IsFloat(s)

-----------------------------------------------------------------------------
(* The primitives *)

UintOps == {"p-bitand", "p-bitor", "p-bitxor", "p-uadd", "p-usub", "p-umul", "p-udiv", "p-umod", "p-ushl", "p-ushr"}
IntOps  == {"p-sadd", "p-ssub", "p-smul", "p-sdiv", "p-smod", "p-sshl", "p-sshr"}
Tests   == {"p-biteq", "p-bitneq", "p-ult", "p-ulte", "p-ugt", "p-ugte", "p-slt", "p-slte", "p-sgt", "p-sgte"}
BinaryOps == UintOps \cup IntOps \cup Tests
FloatOps == {"p-fadd", "p-fsub", "p-fmul", "p-fdiv", "p-flt", "p-flte", "p-fgt", "p-fgte"}

\* Evaluate their arguments in turn; with the symbol tables, p-get, p-st-get and p-deref of a slot.
Strict == BinaryOps \cup FloatOps \cup
  {"p-sexp-size", "p-deref", "p-not", "p-bitnot", "p-print", "p-strlen", "p-length", "p-typeof",
   "p-is-primitive", "p-nth", "p-list", "p-replace", "p-get", "p-st-get", "p-is-eof",
   "p-stdin", "p-stdout", "p-stderr", "p-environ"}
Arity(fn) ==
  CASE fn \in {"p-sexp-size", "p-environ", "p-stdin", "p-stdout", "p-stderr"} -> 0
    [] fn = "p-replace"   -> 3
    [] fn \in BinaryOps \cup FloatOps \cup {"p-nth", "p-list", "p-st-get"} -> 2
    [] OTHER              -> 1

Primitives == Strict \cup
  {"p-exec", "p-macrobody", "p-multi-eval", "p-slice-eval", "p-quote", "p-st-set", "p-st-remove",
   "p-scope", "p-parent-scope", "p-root-scope", "p-if", "p-while", "p-and", "p-or", "p-load",
   "p-read", "p-get-in", "p-set-in", "p-fopen", "p-fclose", "p-adrof", "p-memcpy"}

\* The numbers of arguments that the assertion of a primitive allows; p_load and p_is_primitive have none.
ArgcOK(fn, argc) ==
  CASE fn \in Strict \ {"p-is-primitive"}                    -> argc = Arity(fn)
    [] fn \in {"p-scope", "p-root-scope", "p-read", "p-get-in"} -> argc = 0
    [] fn \in {"p-exec", "p-quote", "p-set-in", "p-fclose", "p-adrof"}  -> argc = 1
    [] fn \in {"p-parent-scope", "p-st-remove", "p-and", "p-or", "p-fopen"} -> argc = 2
    [] fn \in {"p-slice-eval", "p-st-set", "p-memcpy"}       -> argc = 3
    [] fn = "p-if"                                           -> argc \in {2, 3}
    [] fn \in {"p-macrobody", "p-multi-eval"}                -> argc > 1
    [] fn = "p-while"                                        -> argc > 0
    [] OTHER                                                 -> TRUE

\* The sexp in an array that a pointer is to.
p_deref(ptr) ==
  IF IsSlice(ptr) /\ ptr[2][3] < Len(ptr[2][2]) THEN ptr[2][2][ptr[2][3] + 1] ELSE Abort
p_sexp_size == Uint(1)

\* The n sexps from a pointer on; of none it does not matter where they would be.
IsArray(ptr, n) == IsPtr(ptr) /\ (n = 0 \/ (IsSlice(ptr) /\ ptr[2][3] + n <= Len(ptr[2][2])))
Array(ptr, n) == IF n = 0 THEN <<>> ELSE SubSeq(ptr[2][2], ptr[2][3] + 1, ptr[2][3] + n)

\* (() (p-macrobody (argc argv) ...)), the value of a symbol that names a macro.
IsMacro(s) ==
  /\ IsList(s) /\ Len(s[2]) = 2 /\ IsList(s[2][2]) /\ Len(s[2][2][2]) >= 2
  /\ LET fn == s[2][2][2][1] IN IsName(fn) /\ fn[2] = "p-macrobody"
  /\ LET binds == s[2][2][2][2] IN
       IsList(binds) /\ Len(binds[2]) = 2 /\ IsName(binds[2][1]) /\ IsName(binds[2][2])

-----------------------------------------------------------------------------
(* What a program finds when it starts *)

NoSymbols == [s \in {} |-> Nil]

\* The symbols of the root when a program starts.
RootSymbols == [s \in {LPS_EVAL} |-> Sym("p-exec")]

\* The streams that are open from the start: stdin, stdout and stderr.
StandardStreams == <<Stdin, <<>>, <<>>>>
Closed == <<Abort>>
=============================================================================
