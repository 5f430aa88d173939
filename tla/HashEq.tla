------------------------------- MODULE HashEq -------------------------------
(* The hasheq functions that the program's hash tables are given: that of     *)
(* symbols, over lps.c, and that of the chars of reader macros.               *)
EXTENDS Integers, SequencesExt

CONSTANTS
  Bytes,                     \* the bytes of each symbol, and of each char as the one it has
  HASHES                     \* the number of values of a size_t

ASSUME HashEqAssumption ==
  /\ HASHES \in Nat \ {0}
  /\ \A s \in DOMAIN Bytes : Bytes[s] \in Seq(Nat)

lps_hash(key) ==
  LET Mix(h, byte) == (h * 33 + byte) % HASHES
  IN  FoldLeft(Mix, 5381 % HASHES, Bytes[key])

\* By the first byte that differs, of symbols of one length.
memcmp(s1, s2) ==
  LET i == CHOOSE i \in DOMAIN s1 : s1[i] # s2[i] /\ \A j \in 1 .. i - 1 : s1[j] = s2[j]
  IN  IF s1 = s2 THEN 0 ELSE s1[i] - s2[i]
lps_cmp(s1, s2) ==
  IF Len(Bytes[s1]) # Len(Bytes[s2]) THEN -1 ELSE memcmp(Bytes[s1], Bytes[s2])

lps_hasheq ==
  [HT_HASH |-> [a \in DOMAIN Bytes |-> lps_hash(a)],
   HT_EQ   |-> [a, b \in DOMAIN Bytes |-> lps_cmp(a, b) = 0]]
macro_hasheq == lps_hasheq       \* that of symboltable.c, and the copy in primitives.c
char_hasheq ==
  [HT_HASH |-> [a \in DOMAIN Bytes |-> Bytes[a][1] % HASHES],
   HT_EQ   |-> [a, b \in DOMAIN Bytes |-> Bytes[a][1] = Bytes[b][1]]]
=============================================================================
