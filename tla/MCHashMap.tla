----------------------------- MODULE MCHashMap -----------------------------
(* Instances of HashMap for TLC.  Punctuation below '0' comes first, then 0   *)
(* to 7, then the rest: orders that include the one of primitives_default.    *)
EXTENDS HashMap

MCRank == [k \in Chars |-> CASE k < 48 -> 0 [] k \in 48 .. 55 -> 1 [] OTHER -> 2]
=============================================================================
