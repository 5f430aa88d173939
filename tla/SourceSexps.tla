---------------------------- MODULE SourceSexps ----------------------------
(* The sexps that the reader makes (sexp.c): a pair of a kind and a content.   *)
(* Strings and symbols hold an lps, lists the sequence of their children,     *)
(* numbers their digits.                                                      *)
EXTENDS Buffers, Lps

sexp_new_source_atom(kind, val) == <<kind, val>>
sexp_new_source_list(items) == <<"list", items>>
sexp_null == <<"null", <<>>>>

String(s) == lps_from_cstr(s, NUL)
Symbol(buf) == sexp_new_source_atom("sym", lps_from_chars_with_len(buf.data, Len(buf.data)))
Named(chars) == sexp_new_source_atom("sym", String(chars))
=============================================================================
