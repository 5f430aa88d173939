------------------------------ MODULE Doubling ------------------------------
(* A capacity that is doubled until it is enough, as in the loops of          *)
(* include/nob.h and include/ht.h.                                            *)
EXTENDS Integers

\* first, doubled up to n times.
Doubled(first, n) ==
  LET times[k \in 0 .. n] == IF k = 0 THEN first ELSE 2 * times[k - 1]
  IN  times
=============================================================================
