-------------------------------- MODULE Map --------------------------------
(* What the hash table of ht.h promises: a map from keys to values, pointers  *)
(* through which a value can be read, written and removed, and a walk that    *)
(* comes to every key once.                                                   *)
CONSTANTS Keys, Values,
          default_value,  \* of a key that is inserted without a value
          NULL

VARIABLES
  map,      \* from the keys in the map to their values
  answer,   \* what the last call returned
  pointed,  \* the key the caller's pointer is to, or NULL
  visited   \* the keys the walk in progress has come to

mapVars == <<map, answer, pointed, visited>>

Empty == [k \in {} |-> NULL]
Without(k) == [j \in DOMAIN map \ {k} |-> map[j]]
With(k, v) == [j \in DOMAIN map \cup {k} |-> IF j = k THEN v ELSE map[j]]
Get(k) == IF k \in DOMAIN map THEN map[k] ELSE NULL

Init == map = Empty /\ answer = NULL /\ pointed = NULL /\ visited = {}

\* A walk goes on: the callers insert and empty only outside of one.
Put(k, v) ==
  /\ visited = {}
  /\ map' = With(k, v)
  /\ answer' = v
  /\ pointed' \in {pointed, NULL}
  /\ UNCHANGED visited

Find(k) ==
  /\ answer' = Get(k)
  /\ pointed' = IF k \in DOMAIN map THEN k ELSE NULL
  /\ UNCHANGED <<map, visited>>

FindOrPut(k) ==
  /\ visited = {}
  /\ map' = IF k \in DOMAIN map THEN map ELSE With(k, default_value)
  /\ answer' = map'[k]
  /\ pointed' = k
  /\ UNCHANGED visited

Write(v) ==
  /\ pointed # NULL
  /\ map' = With(pointed, v)
  /\ UNCHANGED <<answer, pointed, visited>>

Delete(k) ==
  /\ map' = Without(k)
  /\ answer' = (k \in DOMAIN map)
  /\ pointed' = IF pointed = k THEN NULL ELSE pointed
  /\ UNCHANGED visited

Visit(k) ==
  /\ k \in DOMAIN map \ visited
  /\ visited' = visited \cup {k}
  /\ answer' = k
  /\ UNCHANGED <<map, pointed>>

EndOfWalk ==
  /\ DOMAIN map \subseteq visited
  /\ visited' = {}
  /\ answer' = NULL
  /\ UNCHANGED <<map, pointed>>

Clear ==
  /\ visited = {}
  /\ map' = Empty
  /\ answer' = NULL
  /\ pointed' = NULL
  /\ UNCHANGED visited

Next ==
  \/ \E k \in Keys :
       \/ \E v \in Values : Put(k, v)
       \/ Find(k) \/ FindOrPut(k) \/ Delete(k) \/ Visit(k)
  \/ \E v \in Values : Write(v)
  \/ EndOfWalk \/ Clear

Spec == Init /\ [][Next]_mapVars
=============================================================================
