------------------------------ MODULE Buffers ------------------------------
(* The string buffer of buffer.c: chars in an allocation that is doubled when *)
(* it is full.  What buffer_reserve has reserved is what may be written.      *)
EXTENDS Doubling, Characters

CONSTANT BUFFER_CAPACITY     \* of a new buffer: 16 in the code

ASSUME BuffersAssumption == BUFFER_CAPACITY \in Nat \ {0}

buffer_new == [data |-> <<>>, cap |-> BUFFER_CAPACITY]

\* The capacity doubles until it is large enough.
Grown(cap, n) ==
  LET doubled == Doubled(cap, n)
  IN  doubled[CHOOSE i \in 0 .. n : doubled[i] >= n /\ \A j \in 0 .. i - 1 : doubled[j] < n]

\* A mutated form: no specification uses these, each breaks a property of a run.
buffer_reserve_off_by_one(buf, n) ==
  IF n <= buf.cap + 1 THEN buf ELSE [buf EXCEPT !.cap = Grown(@, n)]

buffer_reserve(buf, n) == IF n <= buf.cap THEN buf ELSE [buf EXCEPT !.cap = Grown(@, n)]

buffer_append_chars(buf, s) ==
  [buffer_reserve(buf, Len(buf.data) + Len(s)) EXCEPT !.data = @ \o s]
buffer_append_char(buf, c) == buffer_append_chars(buf, <<c>>)

\* The allocation stays.
buffer_clear(buf) == [buf EXCEPT !.data = <<>>]

buffer_null_terminate(buf) ==
  IF buf.data # <<>> /\ Last(buf.data) = NUL THEN buf ELSE buffer_append_char(buf, NUL)

\* The chars, whose allocation the caller gets.
buffer_to_cstr_move(buf) == buffer_null_terminate(buf).data

\* Everything that has been written is in the allocation.
Fits(buf) == Len(buf.data) <= buf.cap
=============================================================================
