------------------------------ MODULE DynArrays ------------------------------
(* The dynamic arrays of include/nob.h: their items, and how many there is    *)
(* room for.                                                                  *)
EXTENDS Doubling, Sequences

CONSTANT NOB_DA_INIT_CAP

ASSUME DynArraysAssumption == NOB_DA_INIT_CAP \in Nat \ {0}

EmptyArray == [items |-> <<>>, capacity |-> 0]

\* The first capacity is doubled until it is enough.
nob_da_reserve(da, expected_capacity) ==
  LET first   == IF da.capacity = 0 THEN NOB_DA_INIT_CAP ELSE da.capacity
      doubled == Doubled(first, expected_capacity)
      times   == CHOOSE k \in 0..expected_capacity :
                   /\ doubled[k] >= expected_capacity
                   /\ \A j \in 0..(k - 1) : doubled[j] < expected_capacity
  IN  IF expected_capacity <= da.capacity THEN da ELSE [da EXCEPT !.capacity = doubled[times]]

nob_da_append(da, item) ==
  LET reserved == nob_da_reserve(da, Len(da.items) + 1)
  IN  [reserved EXCEPT !.items = Append(@, item)]

nob_da_last(da) == da.items[Len(da.items)]

\* The last item, and the array without it.
nob_da_pop(da) ==
  [item |-> nob_da_last(da), da |-> [da EXCEPT !.items = SubSeq(@, 1, Len(@) - 1)]]
=============================================================================
