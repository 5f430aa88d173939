----------------------------- MODULE HashTable -----------------------------
(* The hash table of include/ht.h: open addressing with triangular probing,   *)
(* tombstones for what is deleted, and a rehash into a new allocation when    *)
(* 70 percent of the slots are in use or were.  The program keeps its symbol  *)
(* tables, intrinsics and reader macros in it.                                *)
EXTENDS Doubling, FiniteSets

CONSTANTS Keys, Values,
          hasheq,         \* by the operation: the hashes of keys, and which two are equal
          HT__MIN_CAP,
          default_value,
          NULL

HT__LOAD_FACTOR_PERCENT == 70
HT__EMPTY == 0
HT__DELETED == 1
HT__FIRST_VALID_HASH == 2

ASSUME HashTableAssumption ==
  /\ IsFiniteSet(Keys)
  /\ \A k \in Keys : hasheq["HT_HASH"][k] \in Nat
  /\ \A k, j \in Keys : hasheq["HT_EQ"][<<k, j>>] <=> k = j
  /\ \E i \in 0 .. 8 : HT__MIN_CAP = Doubled(4, 8)[i]
  /\ default_value \in Values
  /\ NULL \notin Keys \cup Values \cup Nat

VARIABLES
  ht,        \* [count, impl_filled_slots, slots]; impl_capacity is the number of slots
  value,     \* the value pointer the caller keeps: a slot of ht, or NULL
  iter,      \* the value pointer of the loop ht_foreach, or NULL
  answer,    \* auxiliary: what the last call returned
  pointed,   \* auxiliary: the key for which value was returned
  visited    \* auxiliary: the keys the loop has come to

vars == <<ht, value, iter, answer, pointed, visited>>

\* A slot's hash is also its mark; nothing reads the rest of an unused slot.
Marked(mark) == [hash |-> mark, key |-> NULL, value |-> NULL]
SlotHash(k) ==
  LET hash == hasheq["HT_HASH"][k]
  IN  IF hash < HT__FIRST_VALID_HASH THEN hash + HT__FIRST_VALID_HASH ELSE hash

Capacity(t) == Cardinality(DOMAIN t.slots)
AllSlotsEmpty(n) == [s \in 0 .. n - 1 |-> Marked(HT__EMPTY)]
Valid(t) == {s \in DOMAIN t.slots : t.slots[s].hash >= HT__FIRST_VALID_HASH}

\* The key of the entry at a slot.
ht_key(t, s) == t.slots[s].key

\* A mutated form: no specification uses these, each breaks a property of a run.
ProbeStops_at_deleted(slot, k) ==
  slot.hash \in {HT__EMPTY, HT__DELETED} \/ (slot.hash = SlotHash(k) /\ hasheq["HT_EQ"][<<slot.key, k>>])

\* The probe for k goes on until an empty slot or k's own.
ProbeStops(slot, k) == slot.hash = HT__EMPTY \/ (slot.hash = SlotHash(k) /\ hasheq["HT_EQ"][<<slot.key, k>>])
ProbeSlot(t, k, i) == (SlotHash(k) + (i * (i + 1)) \div 2) % Capacity(t)
ht__find_slot(t, k) ==
  LET hits == {i \in 0 .. Capacity(t) - 1 : ProbeStops(t.slots[ProbeSlot(t, k, i)], k)}
  IN  IF hits = {} THEN NULL
      ELSE ProbeSlot(t, k, CHOOSE i \in hits : \A j \in hits : i <= j)

\* Where ht__find finds k, or NULL.
ht__find(t, k) ==
  LET s == ht__find_slot(t, k)
  IN  IF Capacity(t) = 0 \/ s = NULL THEN NULL
      ELSE IF t.slots[s].hash = HT__EMPTY THEN NULL
      ELSE s

\* k gets v in its slot or in the first empty one.
ht__put_no_expand(t, k, v) ==
  LET s == ht__find_slot(t, k)
      new == IF t.slots[s].hash = HT__EMPTY THEN 1 ELSE 0
  IN  [count |-> t.count + new,
       impl_filled_slots |-> t.impl_filled_slots + new,
       slots |-> [t.slots EXCEPT ![s] = [hash |-> SlotHash(k), key |-> k, value |-> v]]]

Overloaded(n, slots) == n * 100 >= HT__LOAD_FACTOR_PERCENT * slots

\* Mutated forms.
Expands_by_count(t) == Capacity(t) = 0 \/ Overloaded(t.count, Capacity(t))
NewCapacity_by_half(n) ==
  IF Overloaded(n, HT__MIN_CAP) THEN HT__MIN_CAP + HT__MIN_CAP \div 2 ELSE HT__MIN_CAP

\* Tombstones count for the decision to expand, and not for the new capacity.
Expands(t) == Capacity(t) = 0 \/ Overloaded(t.impl_filled_slots, Capacity(t))
NewCapacity(n) ==
  LET doubled == Doubled(HT__MIN_CAP, n)
      times   == CHOOSE i \in 0 .. n :
                   /\ ~Overloaded(n, doubled[i])
                   /\ \A j \in 0 .. i - 1 : Overloaded(n, doubled[j])
  IN  doubled[times]

\* A table of n empty slots, to which the entries of the first slots of t are moved, slot after slot.
AllEmpty(n) == [count |-> 0, impl_filled_slots |-> 0, slots |-> AllSlotsEmpty(n)]
Moved(t) ==
  LET moved[n \in 0 .. Capacity(t)] ==
        IF n = 0 THEN AllEmpty(NewCapacity(t.count))
        ELSE IF n - 1 \in Valid(t)
             THEN ht__put_no_expand(moved[n - 1], ht_key(t, n - 1), t.slots[n - 1].value)
             ELSE moved[n - 1]
  IN  moved
Rehashed(t) == Moved(t)[Capacity(t)]

ht__expand(t) == IF Expands(t) THEN Rehashed(t) ELSE t
ht__put(t, k, v) == ht__put_no_expand(ht__expand(t), k, v)

\* A mutated form.
Deleted_shifting(t, s) ==
  LET n == (s + 1) % Capacity(t)
  IN  [t EXCEPT !.slots[s] = IF n \in Valid(t) THEN t.slots[n] ELSE Marked(HT__DELETED),
                !.slots[n] = IF n \in Valid(t) THEN Marked(HT__DELETED) ELSE @,
                !.count = @ - 1]

Deleted(t, s) == [t EXCEPT !.slots[s] = Marked(HT__DELETED), !.count = @ - 1]

\* A mutated form.
After_from_start(t, s) == {n \in Valid(t) : n >= s}

\* The slots that ht__next may come to.
After(t, s) == {n \in Valid(t) : n > s}

-----------------------------------------------------------------------------
(* The calls *)

\* A table whose fields are zero.
Init ==
  /\ ht = AllEmpty(0)
  /\ value = NULL /\ iter = NULL
  /\ answer = NULL /\ pointed = NULL /\ visited = {}

\* A pointer into the slots is good until the slots move or their entry goes;
\* from then on the caller must not use it, and has it no more.
Keep == UNCHANGED <<value, pointed>>
Forget == value' = NULL /\ pointed' = NULL
PointTo(s, k) == value' = s /\ pointed' = k
KeepUnless(gone) == IF gone THEN Forget ELSE Keep

\* *ht_put(&ht, k) = v.  The loops over a table do not insert into it.
ht_put(k, v) ==
  /\ iter = NULL
  /\ ht' = ht__put(ht, k, v)
  /\ answer' = v
  /\ KeepUnless(Expands(ht))
  /\ UNCHANGED <<iter, visited>>

ht_find(k) ==
  /\ LET s == ht__find(ht, k)
     IN  IF s = NULL THEN Forget /\ answer' = NULL
         ELSE PointTo(s, k) /\ answer' = ht.slots[s].value
  /\ UNCHANGED <<ht, iter, visited>>

ht_find_or_put(k) ==
  /\ iter = NULL
  /\ ht' = IF ht__find(ht, k) = NULL THEN ht__put(ht, k, default_value) ELSE ht
  /\ PointTo(ht__find(ht', k), k)
  /\ answer' = ht'.slots[value'].value
  /\ UNCHANGED <<iter, visited>>

\* The caller writes through its pointer, as p-set does through that of p-get.
Write(v) ==
  /\ value # NULL
  /\ ht' = [ht EXCEPT !.slots[value].value = v]
  /\ UNCHANGED <<value, iter, answer, pointed, visited>>

\* ht_delete of the caller's pointer.
ht_delete ==
  /\ value # NULL
  /\ ht' = Deleted(ht, value)
  /\ answer' = TRUE
  /\ Forget
  /\ UNCHANGED <<iter, visited>>

\* ht_delete of the pointer of the loop.
ht_delete_visited ==
  /\ iter # NULL /\ iter \in Valid(ht)
  /\ ht' = Deleted(ht, iter)
  /\ answer' = TRUE
  /\ KeepUnless(value = iter)
  /\ UNCHANGED <<iter, visited>>

ht_find_and_delete(k) ==
  LET s == ht__find(ht, k)
  IN  /\ ht' = IF s = NULL THEN ht ELSE Deleted(ht, s)
      /\ answer' = (s # NULL)
      /\ KeepUnless(s # NULL /\ value = s)
      /\ UNCHANGED <<iter, visited>>

\* A step of ht_foreach, the first if iter is NULL.
ht_next ==
  /\ LET rest == After(ht, IF iter = NULL THEN -1 ELSE iter)
     IN  IF rest = {}
         THEN iter' = NULL /\ answer' = NULL /\ visited' = {}
         ELSE /\ iter' = CHOOSE s \in rest : \A n \in rest : s <= n
              /\ answer' = ht_key(ht, iter')
              /\ visited' = visited \cup {answer'}
  /\ UNCHANGED <<ht, value, pointed>>

\* Without any use of a slot since the last reset there is nothing to do.
ht_reset ==
  /\ iter = NULL
  /\ ht' = IF ht.impl_filled_slots = 0 THEN ht
           ELSE AllEmpty(Capacity(ht))
  /\ answer' = NULL
  /\ Forget
  /\ UNCHANGED <<iter, visited>>

ht_free ==
  /\ iter = NULL
  /\ ht' = AllEmpty(0)
  /\ answer' = NULL
  /\ Forget
  /\ UNCHANGED <<iter, visited>>

Next ==
  \/ \E k \in Keys :
       \/ \E v \in Values : ht_put(k, v)
       \/ ht_find(k) \/ ht_find_or_put(k) \/ ht_find_and_delete(k)
  \/ \E v \in Values : Write(v)
  \/ ht_delete \/ ht_delete_visited \/ ht_next \/ ht_reset \/ ht_free

Spec == Init /\ [][Next]_vars

-----------------------------------------------------------------------------
(* Properties *)

Slot == {Marked(HT__EMPTY), Marked(HT__DELETED)}
        \cup [hash : {SlotHash(k) : k \in Keys}, key : Keys, value : Values]

\* Every variable stays in its type; the capacity is a power of two, which the
\* mask and the reach of the triangular probe need (the assertion of ht.h:711).
TypeOK ==
  /\ ht.count \in Nat /\ ht.impl_filled_slots \in Nat
  /\ \/ Capacity(ht) = 0
     \/ \E i \in 0 .. Capacity(ht) : Capacity(ht) = Doubled(HT__MIN_CAP, Capacity(ht))[i]
  /\ ht.slots \in [0 .. Capacity(ht) - 1 -> Slot]
  /\ value \in DOMAIN ht.slots \cup {NULL}
  /\ iter \in DOMAIN ht.slots \cup {NULL}
  /\ pointed \in Keys \cup {NULL}
  /\ answer \in Keys \cup Values \cup BOOLEAN \cup {NULL}
  /\ visited \subseteq Keys

\* count and impl_filled_slots, on which every expansion decides, are what is
\* in the slots, across deletions, rehashes and resets, and a key has one slot.
CountsExact ==
  /\ ht.count = Cardinality(Valid(ht))
  /\ ht.impl_filled_slots = Cardinality({s \in DOMAIN ht.slots : ht.slots[s].hash # HT__EMPTY})
  /\ \A s, n \in Valid(ht) : ht_key(ht, s) = ht_key(ht, n) => s = n

\* The assertions of ht__find and ht__put_no_expand hold: the probe for any key
\* ends, after ht__expand at a slot that can take the key, however many
\* tombstones earlier deletions have left.
AssertsHold ==
  \A k \in Keys :
    /\ Capacity(ht) > 0 => ht__find_slot(ht, k) # NULL
    /\ ht__find_slot(ht__expand(ht), k) # NULL
    /\ ht__find_slot(ht, k) # NULL => ht.slots[ht__find_slot(ht, k)].hash # HT__DELETED

\* A value pointer that no expansion, deletion, reset or free has taken from
\* its caller is still to the value of the key it was returned for, whatever
\* was put and deleted meanwhile.
PointersHold ==
  value # NULL => value \in Valid(ht) /\ ht_key(ht, value) = pointed

\* The table is a map: calls answer as a map's, writes through pointers change
\* their key alone, and ht_foreach comes to every key once, also when entries
\* are deleted in the loop.
KeysOf(t) == {ht_key(t, s) : s \in Valid(t)}
Contents(t) == [k \in KeysOf(t) |-> t.slots[CHOOSE s \in Valid(t) : ht_key(t, s) = k].value]
dictionary == INSTANCE Map WITH map <- Contents(ht)
ImplementsMap == dictionary!Spec
=============================================================================
