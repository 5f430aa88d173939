---------------------------- MODULE MCHashTable ----------------------------
(* Instances of HashTable for TLC: three symbols whose hashes meet in a table *)
(* of four slots and part in one of eight, one of them in the range of the    *)
(* marks: it moves onto that of another.                                      *)
EXTENDS HashTable, HashEq

CONSTANTS a, b, c

MCBytes == (a :> <<3>>) @@ (b :> <<5>>) @@ (c :> <<2, 7>>)
=============================================================================
