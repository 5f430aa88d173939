-------------------------------- MODULE Lps --------------------------------
(* The length-prefixed string of lps.c: a pointer to chars, with the length   *)
(* in the bytes before it.  The byte right before the chars is the length, or *)
(* from HALF on the number of the bytes before the chars, which holds the     *)
(* length with the most significant byte first.                               *)
EXTENDS Integers, SequencesExt

CONSTANT BYTE                \* the number of values of a byte: 256 in the code

HALF == BYTE \div 2          \* 0x80

ASSUME LpsAssumption == BYTE \in Nat /\ BYTE >= 8 /\ BYTE % 2 = 0

\* A length with its last k bytes shifted out, and how many it has.
Shifted(len) ==
  LET shifted[k \in 0 .. len] == IF k = 0 THEN len ELSE shifted[k - 1] \div BYTE
  IN  shifted
Bytes(len) == CHOOSE k \in 0 .. len : Shifted(len)[k] = 0 /\ \A j \in 0 .. k - 1 : Shifted(len)[j] # 0

\* Mutated forms, and the code's.
prefix_len_from_strlen_late(len) == IF len > HALF THEN 1 + Bytes(len) ELSE 1
prefix_len_from_strlen(len) == IF len > HALF - 1 THEN 1 + Bytes(len) ELSE 1

\* The bytes before the chars.
LengthBytes(len) ==
  LET n == prefix_len_from_strlen(len)
  IN  [i \in 1 .. n |-> CASE i < n -> Shifted(len)[n - 1 - i] % BYTE
                          [] n = 1 -> len
                          [] OTHER -> HALF + n]

lps_from_chars_with_len(s, len) == [before |-> LengthBytes(len), chars |-> SubSeq(s, 1, len)]

\* The chars of s before the first nul.
strlen(s, nul) == CHOOSE n \in 0 .. Len(s) : /\ \A i \in 1 .. n : s[i] # nul
                                             /\ n < Len(s) => s[n + 1] = nul
lps_from_cstr(s, nul) == lps_from_chars_with_len(s, strlen(s, nul))

Decoded(bytes) ==
  LET len[i \in 0 .. Len(bytes)] == IF i = 0 THEN 0 ELSE len[i - 1] * BYTE + bytes[i]
  IN  len[Len(bytes)]

\* The length that is read from the bytes before the chars.
lps_len(s) ==
  LET n == Len(s.before)
      last == s.before[n]
  IN  IF last < HALF THEN last ELSE Decoded(SubSeq(s.before, n - (last - HALF) + 1, n - 1))

\* What the users of s take for its chars: as many as lps_len says.
Chars(s) == SubSeq(s.chars, 1, lps_len(s))
=============================================================================
