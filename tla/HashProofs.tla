----------------------------- MODULE HashProofs -----------------------------
(* The hash table of include/ht.h is a map, for any keys, values and hashes:  *)
(* no probe fails, counts and pointers are right, and every call does what    *)
(* Map promises.                                                              *)
(* The hash map of the read table, for any chars and any order in which they  *)
(* are added: the rehash in place, with its nested insertions and upscales,   *)
(* neither loses nor doubles an entry, and a probe always ends.               *)
EXTENDS HashTable, HashMap, Lemmas

-----------------------------------------------------------------------------
(* Sizes *)

\* The sizes a table gets: none, or HT__MIN_CAP doubled some times.
Sized(n) == n = 0 \/ \E i \in 0 .. n : n = Doubled(HT__MIN_CAP, n)[i]

\* HT__MIN_CAP is a power of two, and so big that a table below the load factor has two empty slots.
LEMMA MinimumIsAPower == PowerOfTwo(HT__MIN_CAP) /\ HT__MIN_CAP \in Nat /\ HT__MIN_CAP >= 4
<1>1. PICK i \in 0 .. 8 : HT__MIN_CAP = Doubled(4, 8)[i]
  BY HashTableAssumption
<1>2. PowerOfTwo(4)
  <2>1. PowerOfTwo(2 * 1)
    BY OneIsAPower, PowersDouble
  <2>2. PowerOfTwo(2 * (2 * 1))
    BY <2>1, PowersDouble
  <2>3. 2 * (2 * 1) = 4
    OBVIOUS
  <2> QED
    BY <2>2, <2>3
<1>3. PowerOfTwo(Doubled(4, 8)[i])
  BY <1>2, DoubledPowers
<1>4. Doubled(4, 8)[i] \in Nat /\ Doubled(4, 8)[i] >= 2 * i + 4
  BY DoubledGrowsTwice
<1> QED
  BY <1>1, <1>3, <1>4

\* So is every size a table gets.
LEMMA SizesArePowers ==
  ASSUME NEW n \in Nat, Sized(n), n # 0 PROVE PowerOfTwo(n) /\ n >= 4
<1>1. PICK i \in 0 .. n : n = Doubled(HT__MIN_CAP, n)[i]
  BY DEF Sized
<1>2. PowerOfTwo(Doubled(HT__MIN_CAP, n)[i])
  BY MinimumIsAPower, DoubledPowers
<1>3. Doubled(HT__MIN_CAP, n)[i] >= 2 * i + 4
  BY MinimumIsAPower, DoubledGrowsTwice
<1> QED
  BY <1>1, <1>2, <1>3

\* ht__expand finds a size that the n entries do not overload.
LEMMA NewCapacityEnough ==
  ASSUME NEW n \in Nat
  PROVE  /\ NewCapacity(n) \in Nat \ {0} /\ Sized(NewCapacity(n))
         /\ ~ Overloaded(n, NewCapacity(n))
<1> DEFINE d == Doubled(HT__MIN_CAP, n)
           T == {i \in 0 .. n : ~ Overloaded(n, d[i])}
           Good(i) == i \in 0 .. n /\ ~ Overloaded(n, d[i]) /\ \A j \in 0 .. i - 1 : Overloaded(n, d[j])
<1>1. d \in [0 .. n -> Nat] /\ \A k \in 0 .. n : d[k] >= 2 * k + 4
  BY MinimumIsAPower, DoubledValues, DoubledGrowsTwice
<1> HIDE DEF d
<1>2. n \in T
  <2>1. d[n] \in Nat /\ d[n] >= 2 * n + 4
    BY <1>1
  <2>2. ~ (n * 100 >= 70 * d[n])
    BY <2>1
  <2> QED
    BY <2>2 DEF Overloaded, HT__LOAD_FACTOR_PERCENT
<1>3. PICK i \in T : \A j \in T : i <= j
  <2>1. T \subseteq Nat /\ T # {}
    BY <1>2
  <2> HIDE DEF T
  <2> QED
    BY <2>1, LeastOf
<1>4. Good(i)
  <2>1. \A j \in 0 .. i - 1 : j \in 0 .. n /\ ~ (i <= j)
    BY <1>3
  <2> QED
    BY <1>3, <2>1
<1> HIDE DEF T
<1> DEFINE times == CHOOSE k \in 0 .. n : ~ Overloaded(n, d[k]) /\ \A j \in 0 .. k - 1 : Overloaded(n, d[j])
<1>5. times \in 0 .. n /\ ~ Overloaded(n, d[times])
  BY <1>4
<1>6. NewCapacity(n) = d[times]
  BY DEF NewCapacity, d
<1> HIDE DEF times
<1> DEFINE m == d[times]
<1>7. m \in Nat \ {0} /\ times \in 0 .. m
  BY <1>1, <1>5
<1>8. Doubled(HT__MIN_CAP, m)[times] = m
  <2> DEFINE e == Doubled(HT__MIN_CAP, m)
             U == {k \in 0 .. times : e[k] = d[k]}
  <2>1. /\ d[0] = HT__MIN_CAP /\ \A k \in 1 .. n : d[k] = 2 * d[k - 1]
        /\ e[0] = HT__MIN_CAP /\ \A k \in 1 .. m : e[k] = 2 * e[k - 1]
    BY <1>7, MinimumIsAPower, DoubledValues DEF d
  <2> HIDE DEF e, m
  <2>2. 0 \in U
    BY <1>5, <2>1
  <2>3. \A k \in 1 .. times : k - 1 \in U => k \in U
    BY <1>5, <1>7, <2>1
  <2> HIDE DEF U
  <2>4. 0 .. times \subseteq U
    BY <1>5, <2>2, <2>3, UpTo
  <2>5. times \in U
    BY <1>5, <2>4
  <2> QED
    BY <2>5 DEF U, e, m
<1> HIDE DEF m
<1> QED
  BY <1>5, <1>6, <1>7, <1>8 DEF Sized, m

-----------------------------------------------------------------------------
(* Slots and probes *)

\* No key's hash is one of the marks.
LEMMA HashesAreValid ==
  ASSUME NEW k \in Keys PROVE SlotHash(k) \in Nat /\ SlotHash(k) >= 2
  BY HashTableAssumption DEF SlotHash, HT__FIRST_VALID_HASH

\* What a slot can be.
LEMMA SlotKinds ==
  ASSUME NEW sl \in Slot
  PROVE  /\ sl.hash \in Nat
         /\ sl.hash >= 2 => sl.key \in Keys /\ sl.value \in Values
         /\ sl.hash < 2 => sl.hash \in {HT__EMPTY, HT__DELETED}
<1>1. CASE sl \in [hash : {SlotHash(k) : k \in Keys}, key : Keys, value : Values]
  BY <1>1, HashesAreValid
<1>2. CASE sl \in {Marked(HT__EMPTY), Marked(HT__DELETED)}
  BY <1>2 DEF Marked, HT__EMPTY, HT__DELETED
<1> QED
  BY <1>1, <1>2 DEF Slot

\* The slots that ht__put_no_expand, ht__delete and ht__expand write.
LEMMA SlotsWritten ==
  /\ Marked(HT__EMPTY) \in Slot /\ Marked(HT__DELETED) \in Slot
  /\ \A k \in Keys, v \in Values : [hash |-> SlotHash(k), key |-> k, value |-> v] \in Slot
  BY DEF Slot

\* A slot has the hash of its key.
Hashed(sl) == sl.hash >= 2 => sl.hash = SlotHash(sl.key)

\* A probe stops at an empty slot and at the slot of its key.
LEMMA Stops ==
  ASSUME NEW sl \in Slot, Hashed(sl), NEW k \in Keys
  PROVE  ProbeStops(sl, k) <=> sl.hash = HT__EMPTY \/ (sl.hash >= 2 /\ sl.key = k)
<1>1. CASE sl.hash >= 2
  <2>1. sl.key \in Keys /\ sl.hash = SlotHash(sl.key) /\ sl.hash # HT__EMPTY
    BY <1>1, SlotKinds DEF Hashed, HT__EMPTY
  <2>2. hasheq["HT_EQ"][<<sl.key, k>>] <=> sl.key = k
    BY <2>1, HashTableAssumption
  <2> QED
    BY <1>1, <2>1, <2>2 DEF ProbeStops
<1>2. CASE ~ (sl.hash >= 2)
  <2>1. sl.hash # SlotHash(k)
    BY <1>2, SlotKinds, HashesAreValid
  <2> QED
    BY <1>2, <2>1 DEF ProbeStops
<1> QED
  BY <1>1, <1>2

\* The tables of n slots.
Tables(n) == [count : Nat, impl_filled_slots : Nat, slots : [0 .. n - 1 -> Slot]]

\* The slots that are in use or were.
Used(t) == {s \in DOMAIN t.slots : t.slots[s].hash # HT__EMPTY}

\* Their number of slots, and the sets of them that are counted.
LEMMA TableSlots ==
  ASSUME NEW n \in Nat, NEW t \in Tables(n)
  PROVE  /\ DOMAIN t.slots = 0 .. n - 1 /\ Capacity(t) = n
         /\ Valid(t) \subseteq Used(t) /\ Used(t) \subseteq 0 .. n - 1
         /\ Valid(t) = {s \in 0 .. n - 1 : t.slots[s].hash >= 2}
         /\ Used(t) = {s \in 0 .. n - 1 : t.slots[s].hash # HT__EMPTY}
         /\ IsFiniteSet(Valid(t)) /\ IsFiniteSet(Used(t))
         /\ Cardinality(Valid(t)) \in Nat /\ Cardinality(Used(t)) \in Nat
         /\ Cardinality(Valid(t)) <= Cardinality(Used(t))
         /\ Cardinality(Used(t)) <= n
         /\ Cardinality(Used(t)) = n => Used(t) = 0 .. n - 1
<1>1. DOMAIN t.slots = 0 .. n - 1
  BY DEF Tables
<1>2. IsFiniteSet(0 .. n - 1) /\ Cardinality(0 .. n - 1) = n
  BY FS_Interval
<1>3. Capacity(t) = n
  BY <1>1, <1>2 DEF Capacity
<1>4. /\ Valid(t) \subseteq Used(t) /\ Used(t) \subseteq 0 .. n - 1
      /\ Valid(t) = {s \in 0 .. n - 1 : t.slots[s].hash >= 2}
      /\ Used(t) = {s \in 0 .. n - 1 : t.slots[s].hash # HT__EMPTY}
  BY <1>1 DEF Valid, Used, HT__EMPTY, HT__FIRST_VALID_HASH
<1>5. /\ IsFiniteSet(Used(t)) /\ Cardinality(Used(t)) <= Cardinality(0 .. n - 1)
      /\ Cardinality(0 .. n - 1) = Cardinality(Used(t)) => 0 .. n - 1 = Used(t)
  BY <1>2, <1>4, FS_Subset
<1>6. IsFiniteSet(Valid(t)) /\ Cardinality(Valid(t)) <= Cardinality(Used(t))
  BY <1>4, <1>5, FS_Subset
<1>7. Cardinality(Valid(t)) \in Nat /\ Cardinality(Used(t)) \in Nat
  BY <1>5, <1>6, FS_CardinalityType
<1> QED
  BY <1>1, <1>2, <1>3, <1>4, <1>5, <1>6, <1>7

\* The probe for k stops at s: its first stop.
LeadsTo(t, k, s) ==
  \E i \in 0 .. Capacity(t) - 1 :
    /\ ProbeSlot(t, k, i) = s
    /\ ProbeStops(t.slots[s], k)
    /\ \A j \in 0 .. i - 1 : ~ ProbeStops(t.slots[ProbeSlot(t, k, j)], k)

\* ht__find_slot is where the probe leads, if it does.
LEMMA FindSlotFollows ==
  ASSUME NEW n \in Nat, NEW t \in Tables(n), NEW k, NEW s, LeadsTo(t, k, s)
  PROVE  ht__find_slot(t, k) = s
<1> DEFINE hits == {i \in 0 .. Capacity(t) - 1 : ProbeStops(t.slots[ProbeSlot(t, k, i)], k)}
           first == CHOOSE i \in hits : \A j \in hits : i <= j
<1>1. PICK i \in 0 .. n - 1 :
        /\ ProbeSlot(t, k, i) = s
        /\ ProbeStops(t.slots[s], k)
        /\ \A j \in 0 .. i - 1 : ~ ProbeStops(t.slots[ProbeSlot(t, k, j)], k)
  BY TableSlots DEF LeadsTo
<1>2. Capacity(t) = n
  BY TableSlots
<1>3. i \in hits /\ hits \subseteq 0 .. n - 1
  BY <1>1, <1>2
<1>4. \A j \in hits : i <= j
  <2> SUFFICES ASSUME NEW j \in hits, j < i PROVE FALSE
    BY <1>2
  <2>1. j \in 0 .. i - 1
    BY <1>2
  <2> QED
    BY <1>1, <2>1
<1>5. ht__find_slot(t, k) = IF hits = {} THEN NULL ELSE ProbeSlot(t, k, first)
  BY DEF ht__find_slot
<1> HIDE DEF hits
<1>6. first \in hits /\ \A j \in hits : first <= j
  BY <1>3, <1>4
<1> HIDE DEF first
<1>7. first = i
  BY <1>3, <1>4, <1>6
<1> QED
  BY <1>1, <1>3, <1>5, <1>7

\* The probe leads somewhere when the key's stop is among the slots.
LEMMA ProbeLeads ==
  ASSUME NEW n \in Nat, PowerOfTwo(n), NEW t \in Tables(n), NEW k \in Keys,
         NEW r \in 0 .. n - 1, ProbeStops(t.slots[r], k)
  PROVE  \E s \in 0 .. n - 1 : LeadsTo(t, k, s)
<1> DEFINE hits == {i \in 0 .. n - 1 : ProbeStops(t.slots[ProbeSlot(t, k, i)], k)}
<1>0. Capacity(t) = n /\ n > 0
  BY TableSlots DEF PowerOfTwo
<1>1. PICK i \in 0 .. n - 1 : (SlotHash(k) + (i * (i + 1)) \div 2) % n = r
  BY HashesAreValid, TrianglesReach
<1>2. i \in hits
  BY <1>0, <1>1 DEF ProbeSlot
<1>3. PICK first \in hits : \A j \in hits : first <= j
  <2>1. hits \subseteq Nat /\ hits # {}
    BY <1>2
  <2> HIDE DEF hits
  <2> QED
    BY <2>1, LeastOf
<1>4. \A j \in 0 .. first - 1 : ~ ProbeStops(t.slots[ProbeSlot(t, k, j)], k)
  <2> SUFFICES ASSUME NEW j \in 0 .. first - 1, ProbeStops(t.slots[ProbeSlot(t, k, j)], k) PROVE FALSE
    OBVIOUS
  <2>1. j \in hits /\ ~ (first <= j)
    OBVIOUS
  <2> QED
    BY <1>3, <2>1
<1> DEFINE s == ProbeSlot(t, k, first)
<1>5. s \in 0 .. n - 1
  <2>1. SlotHash(k) + (first * (first + 1)) \div 2 \in Nat
    BY HashesAreValid, Triangle
  <2> DEFINE e == SlotHash(k) + (first * (first + 1)) \div 2
  <2> HIDE DEF e
  <2>2. e % n \in 0 .. n - 1
    BY <1>0, <2>1, DivMod DEF e
  <2> QED
    BY <1>0, <2>2 DEF ProbeSlot, e
<1>6. LeadsTo(t, k, s)
  BY <1>0, <1>3, <1>4 DEF LeadsTo
<1> QED
  BY <1>5, <1>6

-----------------------------------------------------------------------------
(* Tables *)

\* A table of n slots between two calls: the counts are right, a slot is not used, and the probe for
\* every key leads to its entry.
Sound(t, n) ==
  /\ t \in Tables(n)
  /\ t.count = Cardinality(Valid(t))
  /\ t.impl_filled_slots = Cardinality(Used(t))
  /\ n # 0 => t.impl_filled_slots < n
  /\ \A s \in Valid(t) : Hashed(t.slots[s]) /\ LeadsTo(t, ht_key(t, s), s)

\* Entries have keys and values, and all slots have the hash of their key.
LEMMA Entries ==
  ASSUME NEW n \in Nat, NEW t \in Tables(n), \A s \in Valid(t) : Hashed(t.slots[s])
  PROVE  /\ \A s \in Valid(t) : ht_key(t, s) \in Keys /\ t.slots[s].value \in Values
         /\ \A s \in 0 .. n - 1 : t.slots[s] \in Slot /\ Hashed(t.slots[s])
         /\ KeysOf(t) \subseteq Keys
<1>1. \A s \in 0 .. n - 1 : t.slots[s] \in Slot
  BY DEF Tables
<1>2. \A s \in 0 .. n - 1 : s \in Valid(t) <=> t.slots[s].hash >= 2
  BY TableSlots
<1>3. \A s \in 0 .. n - 1 : Hashed(t.slots[s])
  BY <1>2 DEF Hashed
<1>4. \A s \in Valid(t) : ht_key(t, s) \in Keys /\ t.slots[s].value \in Values
  BY <1>1, <1>2, SlotKinds, TableSlots DEF ht_key
<1> QED
  BY <1>1, <1>3, <1>4 DEF KeysOf

\* A key has one slot.
LEMMA OneSlotAKey ==
  ASSUME NEW n \in Nat, NEW t, Sound(t, n), NEW s \in Valid(t), NEW r \in Valid(t), ht_key(t, s) = ht_key(t, r)
  PROVE  s = r
<1>1. LeadsTo(t, ht_key(t, s), s) /\ LeadsTo(t, ht_key(t, s), r) /\ t \in Tables(n)
  BY DEF Sound
<1> QED
  BY <1>1, FindSlotFollows, Zenon

\* The probe for any key ends, at its entry or at an empty slot.
LEMMA Probe ==
  ASSUME NEW n \in Nat, Sized(n), n # 0, NEW t, Sound(t, n), NEW k \in Keys
  PROVE  \E s \in 0 .. n - 1 :
           /\ LeadsTo(t, k, s) /\ ht__find_slot(t, k) = s
           /\ \/ s \in Valid(t) /\ ht_key(t, s) = k /\ k \in KeysOf(t)
              \/ t.slots[s].hash = HT__EMPTY /\ s \notin Used(t) /\ k \notin KeysOf(t)
<1>1. t \in Tables(n) /\ PowerOfTwo(n) /\ \A s \in Valid(t) : Hashed(t.slots[s])
  BY SizesArePowers DEF Sound
<1>2. PICK r \in 0 .. n - 1 : r \notin Used(t)
  <2>1. Used(t) # 0 .. n - 1
    <3>1. Cardinality(Used(t)) < n
      BY DEF Sound
    <3>2. Cardinality(0 .. n - 1) = n
      BY FS_Interval
    <3> QED
      BY <3>1, <3>2
  <2> QED
    BY <1>1, <2>1, TableSlots
<1>3. t.slots[r].hash = HT__EMPTY
  BY <1>1, <1>2, TableSlots
<1>4. ProbeStops(t.slots[r], k)
  BY <1>3 DEF ProbeStops
<1>5. PICK s \in 0 .. n - 1 : LeadsTo(t, k, s)
  BY <1>1, <1>4, ProbeLeads
<1>6. ht__find_slot(t, k) = s
  BY <1>1, <1>5, FindSlotFollows
<1>7. t.slots[s].hash = HT__EMPTY \/ (t.slots[s].hash >= 2 /\ t.slots[s].key = k)
  <2>1. ProbeStops(t.slots[s], k)
    BY <1>5 DEF LeadsTo
  <2>2. t.slots[s] \in Slot /\ Hashed(t.slots[s])
    BY <1>1, Entries
  <2> QED
    BY <2>1, <2>2, Stops
<1>8. CASE t.slots[s].hash >= 2 /\ t.slots[s].key = k
  <2>1. s \in Valid(t) /\ ht_key(t, s) = k
    BY <1>1, <1>8, TableSlots DEF ht_key
  <2>2. k \in KeysOf(t)
    BY <2>1 DEF KeysOf
  <2> QED
    BY <1>5, <1>6, <2>1, <2>2
<1>9. CASE t.slots[s].hash = HT__EMPTY
  <2>1. s \notin Used(t)
    BY <1>9 DEF Used
  <2>2. k \notin KeysOf(t)
    <3> SUFFICES ASSUME NEW q \in Valid(t), ht_key(t, q) = k PROVE FALSE
      BY DEF KeysOf
    <3>1. LeadsTo(t, k, q)
      BY DEF Sound
    <3>2. q = s
      BY <1>1, <1>6, <3>1, FindSlotFollows
    <3> QED
      BY <1>1, <2>1, <3>2, TableSlots
  <2> QED
    BY <1>5, <1>6, <1>9, <2>1, <2>2
<1> QED
  BY <1>7, <1>8, <1>9

\* ht__find finds the entry of a key, and no other key.
LEMMA Find ==
  ASSUME NEW n \in Nat, Sized(n), NEW t, Sound(t, n), NEW k \in Keys
  PROVE  /\ k \in KeysOf(t) => ht__find(t, k) \in Valid(t) /\ ht_key(t, ht__find(t, k)) = k
         /\ k \notin KeysOf(t) => ht__find(t, k) = NULL
<1>1. t \in Tables(n) /\ Capacity(t) = n
  BY TableSlots DEF Sound
<1>2. CASE n = 0
  <2>1. Valid(t) = {}
    BY <1>1, <1>2, TableSlots
  <2> QED
    BY <1>1, <1>2, <2>1 DEF ht__find, KeysOf
<1>3. CASE n # 0
  <2>1. PICK s \in 0 .. n - 1 :
           /\ LeadsTo(t, k, s) /\ ht__find_slot(t, k) = s
           /\ \/ s \in Valid(t) /\ ht_key(t, s) = k /\ k \in KeysOf(t)
              \/ t.slots[s].hash = HT__EMPTY /\ s \notin Used(t) /\ k \notin KeysOf(t)
    BY <1>3, Probe
  <2>2. s # NULL
    BY HashTableAssumption
  <2>3. ht__find(t, k) = IF t.slots[s].hash = HT__EMPTY THEN NULL ELSE s
    BY <1>1, <1>3, <2>1, <2>2 DEF ht__find
  <2>4. s \in Valid(t) => t.slots[s].hash # HT__EMPTY
    BY <1>1, TableSlots
  <2> QED
    BY <2>1, <2>3, <2>4
<1> QED
  BY <1>2, <1>3

\* What a table has for a key.
LEMMA ContentsAt ==
  ASSUME NEW n \in Nat, NEW t, Sound(t, n)
  PROVE  /\ DOMAIN Contents(t) = KeysOf(t)
         /\ \A s \in Valid(t) : ht_key(t, s) \in KeysOf(t) /\ Contents(t)[ht_key(t, s)] = t.slots[s].value
         /\ Contents(t) = [k \in KeysOf(t) |-> Contents(t)[k]]
<1>1. ASSUME NEW s \in Valid(t)
      PROVE  ht_key(t, s) \in KeysOf(t) /\ Contents(t)[ht_key(t, s)] = t.slots[s].value
  <2> DEFINE r == CHOOSE r \in Valid(t) : ht_key(t, r) = ht_key(t, s)
  <2>1. ht_key(t, s) \in KeysOf(t)
    BY DEF KeysOf
  <2>2. r \in Valid(t) /\ ht_key(t, r) = ht_key(t, s)
    OBVIOUS
  <2>3. r = s
    <3> HIDE DEF r
    <3> QED
      BY <2>2, OneSlotAKey
  <2>4. Contents(t)[ht_key(t, s)] = t.slots[r].value
    BY <2>1 DEF Contents
  <2> QED
    BY <2>1, <2>3, <2>4
<1> QED
  BY <1>1 DEF Contents

\* Tables with the same entries have the same contents; so has one that has an entry more, or less.
LEMMA ContentsAre ==
  ASSUME NEW n \in Nat, NEW t, Sound(t, n), NEW f, f = [k \in DOMAIN f |-> f[k]],
         KeysOf(t) = DOMAIN f, \A s \in Valid(t) : f[ht_key(t, s)] = t.slots[s].value
  PROVE  Contents(t) = f
<1>1. ASSUME NEW k \in KeysOf(t) PROVE Contents(t)[k] = f[k]
  <2>1. PICK s \in Valid(t) : k = ht_key(t, s)
    BY DEF KeysOf
  <2> QED
    BY <2>1, ContentsAt
<1> QED
  BY <1>1, ContentsAt

-----------------------------------------------------------------------------
(* Changes to one slot *)

\* A probe stays among the slots.
LEMMA ProbeInside ==
  ASSUME NEW n \in Nat \ {0}, NEW t \in Tables(n), NEW k \in Keys, NEW i \in Nat
  PROVE  ProbeSlot(t, k, i) \in 0 .. n - 1
<1> DEFINE e == SlotHash(k) + (i * (i + 1)) \div 2
<1>1. e \in Nat
  BY HashesAreValid, Triangle
<1> HIDE DEF e
<1>2. e % n \in 0 .. n - 1
  BY <1>1, DivMod
<1> QED
  BY <1>2, TableSlots DEF ProbeSlot, e

\* A probe leads where it led when slot s changes and the probe had not passed it, or passes it still.
LEMMA LeadsOn ==
  ASSUME NEW n \in Nat, NEW t \in Tables(n), NEW new \in Tables(n), NEW s \in 0 .. n - 1, NEW x,
         new.slots = [t.slots EXCEPT ![s] = x],
         NEW k \in Keys, NEW r \in 0 .. n - 1, LeadsTo(t, k, r),
         r = s => ProbeStops(x, k),
         ProbeStops(x, k) => ProbeStops(t.slots[s], k)
  PROVE  LeadsTo(new, k, r)
<1>1. PICK i \in 0 .. n - 1 :
        /\ ProbeSlot(t, k, i) = r
        /\ ProbeStops(t.slots[r], k)
        /\ \A j \in 0 .. i - 1 : ~ ProbeStops(t.slots[ProbeSlot(t, k, j)], k)
  BY TableSlots DEF LeadsTo
<1>2. Capacity(t) = n /\ Capacity(new) = n /\ DOMAIN t.slots = 0 .. n - 1
  BY TableSlots
<1>3. \A j : ProbeSlot(new, k, j) = ProbeSlot(t, k, j)
  BY <1>2 DEF ProbeSlot
<1>4. new.slots[s] = x /\ \A q \in 0 .. n - 1 : q # s => new.slots[q] = t.slots[q]
  BY <1>2
<1>5. ProbeStops(new.slots[r], k)
  BY <1>1, <1>4
<1>6. ASSUME NEW j \in 0 .. i - 1 PROVE ~ ProbeStops(new.slots[ProbeSlot(new, k, j)], k)
  <2>1. n # 0 /\ j \in Nat
    BY <1>1
  <2>2. ProbeSlot(t, k, j) \in 0 .. n - 1
    BY <2>1, ProbeInside
  <2>3. ~ ProbeStops(t.slots[ProbeSlot(t, k, j)], k)
    BY <1>1
  <2> QED
    BY <1>3, <1>4, <2>2, <2>3
<1> QED
  BY <1>1, <1>2, <1>3, <1>5, <1>6 DEF LeadsTo

\* Through a pointer to an entry its value changes, and nothing else.
ValueSet(t, s, v) == [t EXCEPT !.slots[s].value = v]

\* A write through a value pointer changes the value of the key it is for, and no other.
LEMMA WriteChangesOne ==
  ASSUME NEW n \in Nat, NEW t, Sound(t, n), NEW s \in Valid(t), NEW v \in Values,
         NEW new, new = ValueSet(t, s, v)
  PROVE  /\ Sound(new, n) /\ Valid(new) = Valid(t)
         /\ \A r \in Valid(t) : ht_key(new, r) = ht_key(t, r)
         /\ Contents(new) = [j \in KeysOf(t) |-> IF j = ht_key(t, s) THEN v ELSE Contents(t)[j]]
<1> DEFINE x == [t.slots[s] EXCEPT !.value = v]
<1>1. t \in Tables(n) /\ s \in 0 .. n - 1 /\ t.slots[s].hash >= 2 /\ Hashed(t.slots[s])
  BY TableSlots DEF Sound
<1>2. t.slots[s] \in [hash : {SlotHash(k) : k \in Keys}, key : Keys, value : Values]
  BY <1>1 DEF Tables, Slot, Marked, HT__EMPTY, HT__DELETED
<1>3. x \in Slot /\ x.hash = t.slots[s].hash /\ x.key = t.slots[s].key /\ x.value = v
  BY <1>2 DEF Slot
<1>4. /\ new.slots = [t.slots EXCEPT ![s] = x]
      /\ new.count = t.count /\ new.impl_filled_slots = t.impl_filled_slots
      /\ new \in Tables(n)
  BY <1>1, <1>3 DEF Tables, ValueSet
<1>5. new.slots[s] = x /\ \A q \in 0 .. n - 1 : q # s => new.slots[q] = t.slots[q]
  BY <1>1, <1>4, TableSlots
<1> HIDE DEF x
<1>6. Valid(new) = Valid(t) /\ Used(new) = Used(t)
  <2>1. \A q \in 0 .. n - 1 : new.slots[q].hash = t.slots[q].hash
    BY <1>3, <1>5
  <2>2. /\ Valid(t) = {q \in 0 .. n - 1 : t.slots[q].hash >= 2}
        /\ Used(t) = {q \in 0 .. n - 1 : t.slots[q].hash # HT__EMPTY}
    BY <1>1, TableSlots
  <2>3. /\ Valid(new) = {q \in 0 .. n - 1 : new.slots[q].hash >= 2}
        /\ Used(new) = {q \in 0 .. n - 1 : new.slots[q].hash # HT__EMPTY}
    BY <1>4, TableSlots
  <2> QED
    BY <2>1, <2>2, <2>3
<1>7. \A r \in 0 .. n - 1 : ht_key(new, r) = ht_key(t, r)
  BY <1>3, <1>5 DEF ht_key
<1>8. Valid(t) \subseteq 0 .. n - 1
  BY <1>1, TableSlots
<1>9. ASSUME NEW r \in Valid(new)
      PROVE  Hashed(new.slots[r]) /\ LeadsTo(new, ht_key(new, r), r)
  <2>1. Hashed(t.slots[r]) /\ LeadsTo(t, ht_key(t, r), r) /\ ht_key(t, r) \in Keys
    BY <1>1, <1>6, Entries DEF Sound
  <2>2. Hashed(new.slots[r])
    BY <1>3, <1>5, <1>6, <1>8, <2>1 DEF Hashed
  <2>3. \A k : ProbeStops(x, k) <=> ProbeStops(t.slots[s], k)
    BY <1>3 DEF ProbeStops
  <2>4. r = s => ProbeStops(x, ht_key(t, r))
    BY <2>1, <2>3 DEF LeadsTo
  <2>5. LeadsTo(new, ht_key(t, r), r)
    BY <1>1, <1>4, <1>6, <1>8, <2>1, <2>3, <2>4, LeadsOn
  <2> QED
    BY <1>6, <1>7, <1>8, <2>2, <2>5
<1>10. Sound(new, n)
  BY <1>4, <1>6, <1>9 DEF Sound
<1>11. KeysOf(new) = KeysOf(t)
  BY <1>6, <1>7, <1>8 DEF KeysOf
<1> DEFINE f == [j \in KeysOf(t) |-> IF j = ht_key(t, s) THEN v ELSE Contents(t)[j]]
<1>12. ASSUME NEW r \in Valid(new) PROVE f[ht_key(new, r)] = new.slots[r].value
  <2>1. ht_key(new, r) = ht_key(t, r) /\ r \in 0 .. n - 1 /\ r \in Valid(t)
    BY <1>6, <1>7, <1>8
  <2>2. ht_key(t, r) \in KeysOf(t) /\ Contents(t)[ht_key(t, r)] = t.slots[r].value
    BY <2>1, ContentsAt
  <2>3. ht_key(t, r) = ht_key(t, s) => r = s
    BY <2>1, OneSlotAKey
  <2> QED
    BY <1>3, <1>5, <2>1, <2>2, <2>3
<1>13. f = [j \in DOMAIN f |-> f[j]] /\ DOMAIN f = KeysOf(t)
  OBVIOUS
<1> HIDE DEF f
<1>14. Contents(new) = f
  BY <1>10, <1>11, <1>12, <1>13, ContentsAre
<1> QED
  BY <1>6, <1>7, <1>8, <1>10, <1>14 DEF f

\* The contents of t but for those of k.
WithoutKey(t, k) == [j \in KeysOf(t) \ {k} |-> Contents(t)[j]]

\* ht__delete leaves a tombstone, which every other probe passes.
LEMMA DeleteTakesOne ==
  ASSUME NEW n \in Nat, NEW t, Sound(t, n), NEW s \in Valid(t), NEW new, new = Deleted(t, s)
  PROVE  /\ Sound(new, n) /\ Valid(new) = Valid(t) \ {s}
         /\ \A r \in Valid(new) : ht_key(new, r) = ht_key(t, r)
         /\ Contents(new) = WithoutKey(t, ht_key(t, s))
<1> DEFINE x == Marked(HT__DELETED)
<1>1. t \in Tables(n) /\ s \in 0 .. n - 1 /\ t.slots[s].hash >= 2 /\ Valid(t) \subseteq 0 .. n - 1
      /\ IsFiniteSet(Valid(t)) /\ t.count = Cardinality(Valid(t))
  BY TableSlots DEF Sound
<1>2. Cardinality(Valid(t) \ {s}) = Cardinality(Valid(t)) - 1 /\ Cardinality(Valid(t) \ {s}) \in Nat
  <2>1. IsFiniteSet(Valid(t) \ {s}) /\ Cardinality(Valid(t) \ {s}) = Cardinality(Valid(t)) - 1
    BY <1>1, FS_RemoveElement
  <2> QED
    BY <2>1, FS_CardinalityType
<1>3. x \in Slot /\ x.hash = 1 /\ x.hash # HT__EMPTY /\ ~ (x.hash >= 2)
  BY SlotsWritten DEF Marked, HT__DELETED, HT__EMPTY
<1>4. /\ new.slots = [t.slots EXCEPT ![s] = x]
      /\ new.count = t.count - 1 /\ new.impl_filled_slots = t.impl_filled_slots
      /\ new \in Tables(n)
  BY <1>1, <1>2, <1>3 DEF Tables, Deleted
<1>5. new.slots[s] = x /\ \A q \in 0 .. n - 1 : q # s => new.slots[q] = t.slots[q]
  BY <1>1, <1>4, TableSlots
<1> HIDE DEF x
<1>6. Valid(new) = Valid(t) \ {s} /\ Used(new) = Used(t)
  <2>1. /\ Valid(t) = {q \in 0 .. n - 1 : t.slots[q].hash >= 2}
        /\ Used(t) = {q \in 0 .. n - 1 : t.slots[q].hash # HT__EMPTY}
        /\ Valid(t) \subseteq Used(t)
    BY <1>1, TableSlots
  <2>2. /\ Valid(new) = {q \in 0 .. n - 1 : new.slots[q].hash >= 2}
        /\ Used(new) = {q \in 0 .. n - 1 : new.slots[q].hash # HT__EMPTY}
    BY <1>4, TableSlots
  <2>3. \A q \in 0 .. n - 1 : q \in Valid(new) <=> q \in Valid(t) \ {s}
    BY <1>3, <1>5, <2>1, <2>2
  <2>4. \A q \in 0 .. n - 1 : q \in Used(new) <=> q \in Used(t)
    BY <1>3, <1>5, <2>1, <2>2
  <2>5. Valid(new) \subseteq 0 .. n - 1 /\ Used(new) \subseteq 0 .. n - 1 /\ Used(t) \subseteq 0 .. n - 1
    BY <2>1, <2>2
  <2> QED
    BY <1>1, <2>3, <2>4, <2>5
<1>8. \A r \in Valid(new) : ht_key(new, r) = ht_key(t, r) /\ new.slots[r] = t.slots[r]
  BY <1>1, <1>5, <1>6 DEF ht_key
<1>9. ASSUME NEW r \in Valid(new)
      PROVE  Hashed(new.slots[r]) /\ LeadsTo(new, ht_key(new, r), r)
  <2>1. r \in Valid(t) /\ r # s /\ r \in 0 .. n - 1
    BY <1>1, <1>6
  <2>2. Hashed(t.slots[r]) /\ LeadsTo(t, ht_key(t, r), r) /\ ht_key(t, r) \in Keys
    BY <1>1, <2>1, Entries DEF Sound
  <2>3. ~ ProbeStops(x, ht_key(t, r))
    BY <1>3, <2>2, HashesAreValid DEF ProbeStops
  <2>4. LeadsTo(new, ht_key(t, r), r)
    BY <1>1, <1>4, <2>1, <2>2, <2>3, LeadsOn
  <2> QED
    BY <1>8, <2>2, <2>4
<1>10. Sound(new, n)
  BY <1>1, <1>2, <1>4, <1>6, <1>9 DEF Sound
<1> DEFINE f == WithoutKey(t, ht_key(t, s))
<1>11. ASSUME NEW r \in Valid(new)
       PROVE  ht_key(new, r) \in DOMAIN f /\ f[ht_key(new, r)] = new.slots[r].value
  <2>1. ht_key(new, r) = ht_key(t, r) /\ new.slots[r] = t.slots[r] /\ r \in Valid(t) /\ r # s
    BY <1>6, <1>8
  <2>2. ht_key(t, r) \in KeysOf(t) /\ Contents(t)[ht_key(t, r)] = t.slots[r].value
    BY <2>1, ContentsAt
  <2>3. ht_key(t, r) # ht_key(t, s)
    BY <2>1, OneSlotAKey
  <2> QED
    BY <2>1, <2>2, <2>3 DEF WithoutKey
<1>12. DOMAIN f = KeysOf(t) \ {ht_key(t, s)} /\ \A j \in DOMAIN f : f[j] = Contents(t)[j]
  BY DEF WithoutKey
<1>13. KeysOf(new) = DOMAIN f
  <2>1. ASSUME NEW j \in DOMAIN f PROVE j \in KeysOf(new)
    <3>1. PICK r \in Valid(t) : j = ht_key(t, r) /\ j # ht_key(t, s)
      BY <1>12 DEF KeysOf
    <3>2. r \in Valid(new) /\ ht_key(new, r) = j
      BY <1>6, <1>8, <3>1
    <3> QED
      BY <3>2 DEF KeysOf
  <2>2. KeysOf(new) \subseteq DOMAIN f
    BY <1>11 DEF KeysOf
  <2> QED
    BY <2>1, <2>2
<1>14. f = [j \in DOMAIN f |-> f[j]]
  BY DEF WithoutKey
<1> HIDE DEF f
<1>15. Contents(new) = f
  BY <1>10, <1>11, <1>13, <1>14, ContentsAre
<1> QED
  BY <1>6, <1>8, <1>10, <1>15 DEF f

\* The contents of t with v for k.
WithKey(t, k, v) == [j \in KeysOf(t) \cup {k} |-> IF j = k THEN v ELSE Contents(t)[j]]

\* What a put does to the table t: the entries of t stay where they are.
PutTo(t, k, v, new, n) ==
  /\ Sound(new, n)
  /\ Valid(t) \subseteq Valid(new)
  /\ \A r \in Valid(t) : ht_key(new, r) = ht_key(t, r)
  /\ Contents(new) = WithKey(t, k, v)

\* ht__put_no_expand of a key that is in the table.
LEMMA PutReplaces ==
  ASSUME NEW n \in Nat, Sized(n), n # 0, NEW t, Sound(t, n), NEW k \in Keys, k \in KeysOf(t), NEW v \in Values,
         NEW new, new = ht__put_no_expand(t, k, v)
  PROVE  /\ PutTo(t, k, v, new, n)
         /\ new.count = t.count /\ new.impl_filled_slots = t.impl_filled_slots
<1>1. PICK s \in 0 .. n - 1 : ht__find_slot(t, k) = s /\ s \in Valid(t) /\ ht_key(t, s) = k
  BY Probe
<1>2. t \in Tables(n) /\ t.slots[s].hash >= 2 /\ Hashed(t.slots[s])
  BY <1>1, TableSlots DEF Sound
<1>3. t.slots[s] \in [hash : {SlotHash(j) : j \in Keys}, key : Keys, value : Values]
      /\ t.slots[s].hash = SlotHash(k) /\ t.slots[s].key = k
  BY <1>1, <1>2 DEF Tables, Slot, Marked, HT__EMPTY, HT__DELETED, Hashed, ht_key
<1>4. [t.slots[s] EXCEPT !.value = v] = [hash |-> SlotHash(k), key |-> k, value |-> v]
  BY <1>3
<1>5. new = ValueSet(t, s, v)
  <2>1. new = [count |-> t.count + 0, impl_filled_slots |-> t.impl_filled_slots + 0,
               slots |-> [t.slots EXCEPT ![s] = [hash |-> SlotHash(k), key |-> k, value |-> v]]]
    BY <1>1, <1>2 DEF ht__put_no_expand, HT__EMPTY
  <2>2. ValueSet(t, s, v) = [t EXCEPT !.slots = [t.slots EXCEPT ![s] = [t.slots[s] EXCEPT !.value = v]]]
    BY DEF ValueSet
  <2>3. t.count + 0 = t.count /\ t.impl_filled_slots + 0 = t.impl_filled_slots
    BY <1>2 DEF Tables
  <2>4. t = [count |-> t.count, impl_filled_slots |-> t.impl_filled_slots, slots |-> t.slots]
    BY <1>2 DEF Tables
  <2> DEFINE q == [t.slots EXCEPT ![s] = [hash |-> SlotHash(k), key |-> k, value |-> v]]
  <2>5. [t EXCEPT !.slots = q] = [count |-> t.count, impl_filled_slots |-> t.impl_filled_slots, slots |-> q]
    <3> HIDE DEF q
    <3> QED
      BY <2>4
  <2> QED
    BY <1>4, <2>1, <2>2, <2>3, <2>5
<1>6. /\ Sound(new, n) /\ Valid(new) = Valid(t)
      /\ \A r \in Valid(t) : ht_key(new, r) = ht_key(t, r)
      /\ Contents(new) = [j \in KeysOf(t) |-> IF j = ht_key(t, s) THEN v ELSE Contents(t)[j]]
  BY <1>1, <1>5, WriteChangesOne
<1>7. Contents(new) = WithKey(t, k, v)
  <2>1. KeysOf(t) \cup {k} = KeysOf(t)
    OBVIOUS
  <2> QED
    BY <1>1, <1>6, <2>1 DEF WithKey
<1>8. new.count = t.count /\ new.impl_filled_slots = t.impl_filled_slots
  BY <1>2, <1>5 DEF ValueSet, Tables
<1> QED
  BY <1>6, <1>7, <1>8 DEF PutTo

\* ht__put_no_expand of a new key, into the first empty slot of its probe.
LEMMA PutAdds ==
  ASSUME NEW n \in Nat, Sized(n), n # 0, NEW t, Sound(t, n), t.impl_filled_slots + 1 < n,
         NEW k \in Keys, k \notin KeysOf(t), NEW v \in Values,
         NEW new, new = ht__put_no_expand(t, k, v)
  PROVE  /\ PutTo(t, k, v, new, n)
         /\ new.count = t.count + 1 /\ new.impl_filled_slots = t.impl_filled_slots + 1
<1>1. PICK s \in 0 .. n - 1 :
        /\ LeadsTo(t, k, s) /\ ht__find_slot(t, k) = s
        /\ t.slots[s].hash = HT__EMPTY /\ s \notin Used(t)
  BY Probe
<1> DEFINE x == [hash |-> SlotHash(k), key |-> k, value |-> v]
<1>2. /\ t \in Tables(n) /\ Valid(t) \subseteq Used(t) /\ Used(t) \subseteq 0 .. n - 1
      /\ t.count = Cardinality(Valid(t)) /\ t.impl_filled_slots = Cardinality(Used(t))
      /\ IsFiniteSet(Valid(t)) /\ IsFiniteSet(Used(t))
      /\ t.count \in Nat /\ t.impl_filled_slots \in Nat
  BY TableSlots DEF Sound
<1>3. /\ Cardinality(Valid(t) \cup {s}) = t.count + 1
      /\ Cardinality(Used(t) \cup {s}) = t.impl_filled_slots + 1
  <2>1. s \notin Used(t) /\ s \notin Valid(t)
    BY <1>1, <1>2
  <2>2. Cardinality(Valid(t) \cup {s}) = Cardinality(Valid(t)) + 1
    BY <1>2, <2>1, FS_AddElement
  <2>3. Cardinality(Used(t) \cup {s}) = Cardinality(Used(t)) + 1
    BY <1>2, <2>1, FS_AddElement
  <2> QED
    BY <1>2, <2>2, <2>3
<1>4. x \in Slot /\ x.hash = SlotHash(k) /\ x.key = k /\ x.value = v
      /\ x.hash >= 2 /\ x.hash # HT__EMPTY
  BY SlotsWritten, HashesAreValid DEF HT__EMPTY
<1>5. /\ new.slots = [t.slots EXCEPT ![s] = x]
      /\ new.count = t.count + 1 /\ new.impl_filled_slots = t.impl_filled_slots + 1
      /\ new \in Tables(n)
  <2>1. new = [count |-> t.count + 1, impl_filled_slots |-> t.impl_filled_slots + 1,
               slots |-> [t.slots EXCEPT ![s] = x]]
    BY <1>1 DEF ht__put_no_expand
  <2>2. [t.slots EXCEPT ![s] = x] \in [0 .. n - 1 -> Slot]
    BY <1>2, <1>4 DEF Tables
  <2> HIDE DEF x
  <2> QED
    BY <1>2, <2>1, <2>2 DEF Tables
<1>6. new.slots[s] = x /\ \A q \in 0 .. n - 1 : q # s => new.slots[q] = t.slots[q]
  BY <1>2, <1>5, TableSlots
<1> HIDE DEF x
<1>7. Valid(new) = Valid(t) \cup {s} /\ Used(new) = Used(t) \cup {s}
  <2>1. /\ Valid(t) = {q \in 0 .. n - 1 : t.slots[q].hash >= 2}
        /\ Used(t) = {q \in 0 .. n - 1 : t.slots[q].hash # HT__EMPTY}
    BY <1>2, TableSlots
  <2>2. /\ Valid(new) = {q \in 0 .. n - 1 : new.slots[q].hash >= 2}
        /\ Used(new) = {q \in 0 .. n - 1 : new.slots[q].hash # HT__EMPTY}
    BY <1>5, TableSlots
  <2>3. \A q \in 0 .. n - 1 : q \in Valid(new) <=> q \in Valid(t) \cup {s}
    BY <1>4, <1>6, <2>1, <2>2
  <2>4. \A q \in 0 .. n - 1 : q \in Used(new) <=> q \in Used(t) \cup {s}
    BY <1>4, <1>6, <2>1, <2>2
  <2>5. Valid(new) \subseteq 0 .. n - 1 /\ Used(new) \subseteq 0 .. n - 1
    BY <2>2
  <2> QED
    BY <1>2, <2>3, <2>4, <2>5
<1>8. /\ \A r \in Valid(t) : ht_key(new, r) = ht_key(t, r) /\ new.slots[r] = t.slots[r]
      /\ ht_key(new, s) = k
  BY <1>1, <1>2, <1>4, <1>6 DEF ht_key
<1>9. ASSUME NEW r \in Valid(t)
      PROVE  Hashed(new.slots[r]) /\ LeadsTo(new, ht_key(new, r), r)
  <2>1. r # s /\ r \in 0 .. n - 1
    BY <1>1, <1>2
  <2>2. Hashed(t.slots[r]) /\ LeadsTo(t, ht_key(t, r), r) /\ ht_key(t, r) \in Keys
    BY <1>2, Entries DEF Sound
  <2>3. ProbeStops(t.slots[s], ht_key(t, r))
    BY <1>1 DEF ProbeStops
  <2>4. LeadsTo(new, ht_key(t, r), r)
    BY <1>2, <1>5, <2>1, <2>2, <2>3, LeadsOn
  <2> QED
    BY <1>8, <2>2, <2>4
<1>10. Hashed(new.slots[s]) /\ LeadsTo(new, ht_key(new, s), s)
  <2>1. Hashed(x)
    BY <1>4 DEF Hashed
  <2>2. ProbeStops(x, k) /\ ProbeStops(t.slots[s], k)
    BY <1>1, <1>4, <2>1, Stops DEF ProbeStops
  <2>3. LeadsTo(new, k, s)
    BY <1>1, <1>2, <1>5, <2>2, LeadsOn
  <2> QED
    BY <1>6, <1>8, <2>1, <2>3
<1>11. Sound(new, n)
  <2>1. \A r \in Valid(new) : Hashed(new.slots[r]) /\ LeadsTo(new, ht_key(new, r), r)
    BY <1>7, <1>9, <1>10
  <2> QED
    BY <1>3, <1>5, <1>7, <2>1 DEF Sound
<1>12. KeysOf(new) = KeysOf(t) \cup {k}
  BY <1>7, <1>8 DEF KeysOf
<1> DEFINE f == WithKey(t, k, v)
<1>13. ASSUME NEW r \in Valid(new) PROVE f[ht_key(new, r)] = new.slots[r].value
  <2>1. CASE r = s
    BY <1>4, <1>6, <1>8, <2>1 DEF WithKey
  <2>2. CASE r # s
    <3>1. r \in Valid(t) /\ ht_key(new, r) = ht_key(t, r) /\ new.slots[r] = t.slots[r]
      BY <1>7, <1>8, <2>2
    <3>2. ht_key(t, r) \in KeysOf(t) /\ Contents(t)[ht_key(t, r)] = t.slots[r].value
      BY <3>1, ContentsAt
    <3> QED
      BY <3>1, <3>2 DEF WithKey
  <2> QED
    BY <2>1, <2>2
<1>14. DOMAIN f = KeysOf(t) \cup {k}
  BY DEF WithKey
<1>15. f = [j \in DOMAIN f |-> f[j]]
  BY DEF WithKey
<1> HIDE DEF f
<1>16. KeysOf(new) = DOMAIN f
  BY <1>12, <1>14
<1>17. Contents(new) = f
  BY <1>11, <1>13, <1>15, <1>16, ContentsAre
<1> QED
  BY <1>5, <1>7, <1>8, <1>11, <1>17 DEF f, PutTo

-----------------------------------------------------------------------------
(* ht__expand *)

\* A table of empty slots is sound, and has no contents.
LEMMA EmptyTable ==
  ASSUME NEW n \in Nat, NEW t, t = AllEmpty(n)
  PROVE  /\ Sound(t, n) /\ Valid(t) = {} /\ KeysOf(t) = {} /\ Contents(t) = [k \in {} |-> NULL]
         /\ t.count = 0 /\ t.impl_filled_slots = 0
<1>1. /\ t.slots = [s \in 0 .. n - 1 |-> Marked(HT__EMPTY)] /\ t.count = 0 /\ t.impl_filled_slots = 0
      /\ t \in Tables(n)
  BY SlotsWritten DEF AllEmpty, AllSlotsEmpty, Tables
<1>2. \A s \in 0 .. n - 1 : t.slots[s].hash = HT__EMPTY
  BY <1>1 DEF Marked
<1>3. Valid(t) = {} /\ Used(t) = {}
  BY <1>1, <1>2, TableSlots DEF HT__EMPTY
<1>4. Cardinality({}) = 0
  BY FS_EmptySet
<1>5. Sound(t, n)
  BY <1>1, <1>3, <1>4 DEF Sound
<1>6. KeysOf(t) = {}
  BY <1>3 DEF KeysOf
<1>7. Contents(t) = [k \in {} |-> NULL]
  BY <1>6 DEF Contents
<1> QED
  BY <1>1, <1>3, <1>5, <1>6, <1>7

\* A put is from tables to tables, also where it has no slot.
LEMMA PutType ==
  ASSUME NEW n \in Nat, NEW t \in Tables(n), NEW k \in Keys, NEW v \in Values
  PROVE  ht__put_no_expand(t, k, v) \in Tables(n)
<1> DEFINE s == ht__find_slot(t, k)
           x == [hash |-> SlotHash(k), key |-> k, value |-> v]
           more == IF t.slots[s].hash = HT__EMPTY THEN 1 ELSE 0
<1>1. x \in Slot
  BY SlotsWritten
<1>2. more \in Nat
  OBVIOUS
<1>3. ht__put_no_expand(t, k, v) =
        [count |-> t.count + more, impl_filled_slots |-> t.impl_filled_slots + more,
         slots |-> [t.slots EXCEPT ![s] = x]]
  BY DEF ht__put_no_expand
<1> HIDE DEF s, x, more
<1>4. [t.slots EXCEPT ![s] = x] \in [0 .. n - 1 -> Slot]
  BY <1>1 DEF Tables
<1> QED
  BY <1>2, <1>3, <1>4 DEF Tables

\* The entries are moved one after the other.
LEMMA MovedValues ==
  ASSUME NEW n \in Nat, NEW t, Sound(t, n)
  PROVE  /\ Moved(t)[0] = AllEmpty(NewCapacity(t.count))
         /\ \A k \in 1 .. n : Moved(t)[k] =
              IF k - 1 \in Valid(t)
              THEN ht__put_no_expand(Moved(t)[k - 1], ht_key(t, k - 1), t.slots[k - 1].value)
              ELSE Moved(t)[k - 1]
<1> DEFINE m == NewCapacity(t.count)
           first == AllEmpty(m)
           Move(k, x) == IF k - 1 \in Valid(t)
                         THEN ht__put_no_expand(x, ht_key(t, k - 1), t.slots[k - 1].value) ELSE x
           F == [k \in 1 .. n |-> [x \in Tables(m) |-> Move(k, x)]]
<1>1. t \in Tables(n) /\ Capacity(t) = n /\ t.count \in Nat
  BY TableSlots DEF Sound, Tables
<1>2. m \in Nat
  BY <1>1, NewCapacityEnough
<1>3. first \in Tables(m)
  BY <1>2, EmptyTable DEF Sound
<1>4. ASSUME NEW k \in 1 .. n, NEW x \in Tables(m) PROVE Move(k, x) \in Tables(m)
  <2>1. CASE k - 1 \in Valid(t)
    <3>1. ht_key(t, k - 1) \in Keys /\ t.slots[k - 1].value \in Values
      BY <1>1, <2>1, Entries DEF Sound
    <3> QED
      BY <1>2, <1>4, <2>1, <3>1, PutType
  <2>2. CASE k - 1 \notin Valid(t)
    BY <2>2
  <2> QED
    BY <2>1, <2>2
<1> HIDE DEF m, first, Move
<1>5. \A k \in 1 .. n, x \in Tables(m) : F[k][x] = Move(k, x) /\ F[k][x] \in Tables(m)
  BY <1>4
<1> HIDE DEF F
<1>6. PICK g \in [0 .. n -> Tables(m)] : Iterates(g, first, F, n)
  BY <1>3, <1>5, Iterate
<1>7. \A k \in 1 .. n : g[k] = Move(k, g[k - 1])
  BY <1>5, <1>6 DEF Iterates
<1>8. g = [k \in 0 .. n |-> IF k = 0 THEN first ELSE Move(k, g[k - 1])]
  BY <1>6, <1>7 DEF Iterates
<1> DEFINE d == Moved(t)
<1>9. d = [k \in 0 .. n |-> IF k = 0 THEN first ELSE Move(k, d[k - 1])]
  BY <1>1, <1>8 DEF Moved, first, m, Move
<1> HIDE DEF d
<1>10. d[0] = first /\ \A k \in 1 .. n : d[k] = Move(k, d[k - 1])
  BY <1>9
<1> QED
  BY <1>10 DEF d, first, m, Move

\* The entries that have been moved after k slots.
Before(t, k) == {s \in Valid(t) : s < k}

\* The table u has the first entries of t, those of k slots.
HasMoved(t, k, u, m) ==
  /\ Sound(u, m)
  /\ u.count = Cardinality(Before(t, k)) /\ u.impl_filled_slots = u.count
  /\ KeysOf(u) = {ht_key(t, s) : s \in Before(t, k)}
  /\ \A s \in Before(t, k) : Contents(u)[ht_key(t, s)] = t.slots[s].value

\* Moving one more entry.
LEMMA MovesOne ==
  ASSUME NEW n \in Nat, NEW t, Sound(t, n), NEW m \in Nat, Sized(m), m # 0, t.count < m - 1,
         NEW k \in 1 .. n, k - 1 \in Valid(t), NEW u, HasMoved(t, k - 1, u, m),
         NEW new, new = ht__put_no_expand(u, ht_key(t, k - 1), t.slots[k - 1].value)
  PROVE  HasMoved(t, k, new, m)
<1> DEFINE j == ht_key(t, k - 1)
           v == t.slots[k - 1].value
<1>1. t \in Tables(n) /\ Valid(t) \subseteq 0 .. n - 1 /\ IsFiniteSet(Valid(t)) /\ t.count = Cardinality(Valid(t))
      /\ j \in Keys /\ v \in Values
  BY TableSlots, Entries DEF Sound
<1> HIDE DEF v, j
<1>2. /\ Before(t, k) = Before(t, k - 1) \cup {k - 1} /\ k - 1 \notin Before(t, k - 1)
      /\ Before(t, k) \subseteq Valid(t) /\ Before(t, k - 1) \subseteq Valid(t)
  BY <1>1 DEF Before
<1>3. /\ Cardinality(Before(t, k)) = Cardinality(Before(t, k - 1)) + 1
      /\ Cardinality(Before(t, k)) <= t.count
      /\ Cardinality(Before(t, k - 1)) \in Nat
  <2>1. IsFiniteSet(Before(t, k - 1)) /\ IsFiniteSet(Before(t, k))
        /\ Cardinality(Before(t, k)) <= Cardinality(Valid(t))
    BY <1>1, <1>2, FS_Subset
  <2>2. Cardinality(Before(t, k - 1) \cup {k - 1}) = Cardinality(Before(t, k - 1)) + 1
    BY <1>2, <2>1, FS_AddElement
  <2> QED
    BY <1>1, <1>2, <2>1, <2>2, FS_CardinalityType
<1>4. j \notin KeysOf(u)
  <2> SUFFICES ASSUME NEW s \in Before(t, k - 1), j = ht_key(t, s) PROVE FALSE
    BY DEF HasMoved
  <2>1. s \in Valid(t)
    BY <1>2
  <2>2. s = k - 1
    BY <2>1, OneSlotAKey DEF j
  <2> QED
    BY <1>2, <2>2
<1>5. Sound(u, m) /\ u.count \in Nat /\ u.impl_filled_slots + 1 < m
  BY <1>1, <1>3 DEF HasMoved, Sound, Tables
<1>6. new = ht__put_no_expand(u, j, v)
  BY DEF j, v
<1>7. /\ PutTo(u, j, v, new, m)
      /\ new.count = u.count + 1 /\ new.impl_filled_slots = u.impl_filled_slots + 1
  BY <1>1, <1>4, <1>5, <1>6, PutAdds
<1>8. Sound(new, m) /\ KeysOf(new) = KeysOf(u) \cup {j}
      /\ \A i \in KeysOf(u) \cup {j} : Contents(new)[i] = IF i = j THEN v ELSE Contents(u)[i]
  <2>1. Sound(new, m) /\ Contents(new) = WithKey(u, j, v)
    BY <1>7 DEF PutTo
  <2>2. DOMAIN Contents(new) = KeysOf(new)
    BY <2>1, ContentsAt
  <2> QED
    BY <2>1, <2>2 DEF WithKey
<1>9. KeysOf(new) = {ht_key(t, s) : s \in Before(t, k)}
  BY <1>2, <1>8 DEF HasMoved, j
<1>10. ASSUME NEW s \in Before(t, k) PROVE Contents(new)[ht_key(t, s)] = t.slots[s].value
  <2>1. CASE s = k - 1
    BY <1>8, <2>1 DEF j, v
  <2>2. CASE s # k - 1
    <3>1. s \in Before(t, k - 1)
      BY <1>2, <2>2
    <3>2. ht_key(t, s) \in KeysOf(u) /\ Contents(u)[ht_key(t, s)] = t.slots[s].value
      BY <3>1 DEF HasMoved
    <3>3. ht_key(t, s) # j
      BY <1>4, <3>2
    <3> QED
      BY <1>8, <3>2, <3>3
  <2> QED
    BY <2>1, <2>2
<1>11. new.count = Cardinality(Before(t, k)) /\ new.impl_filled_slots = new.count
  BY <1>3, <1>7 DEF HasMoved
<1> QED
  BY <1>8, <1>9, <1>10, <1>11 DEF HasMoved

\* A rehash keeps the contents, and leaves no tombstone.
LEMMA Rehash ==
  ASSUME NEW n \in Nat, NEW t, Sound(t, n), NEW m, m = NewCapacity(t.count), NEW new, new = Rehashed(t)
  PROVE  /\ Sound(new, m) /\ Contents(new) = Contents(t)
         /\ new.impl_filled_slots = t.count
<1> DEFINE d == Moved(t)
           T == {k \in 0 .. n : HasMoved(t, k, d[k], m)}
<1>1. t \in Tables(n) /\ Valid(t) \subseteq 0 .. n - 1 /\ Capacity(t) = n /\ t.count \in Nat
      /\ t.count = Cardinality(Valid(t))
  BY TableSlots DEF Sound, Tables
<1>2. m \in Nat /\ m # 0 /\ Sized(m) /\ ~ Overloaded(t.count, m)
  BY <1>1, NewCapacityEnough
<1>3. t.count < m - 1
  <2>1. m >= 4
    BY <1>2, SizesArePowers
  <2>2. ~ (t.count * 100 >= 70 * m)
    BY <1>2 DEF Overloaded, HT__LOAD_FACTOR_PERCENT
  <2> QED
    BY <1>1, <1>2, <2>1, <2>2
<1>4. /\ d[0] = AllEmpty(m)
      /\ \A k \in 1 .. n : d[k] =
           IF k - 1 \in Valid(t) THEN ht__put_no_expand(d[k - 1], ht_key(t, k - 1), t.slots[k - 1].value)
           ELSE d[k - 1]
  BY MovedValues
<1> HIDE DEF d
<1>5. 0 \in T
  <2>1. /\ Sound(d[0], m) /\ KeysOf(d[0]) = {}
        /\ d[0].count = 0 /\ d[0].impl_filled_slots = 0
    BY <1>2, <1>4, EmptyTable
  <2>2. Before(t, 0) = {}
    BY <1>1 DEF Before
  <2>3. Cardinality({}) = 0
    BY FS_EmptySet
  <2>4. HasMoved(t, 0, d[0], m)
    BY <2>1, <2>2, <2>3 DEF HasMoved
  <2> QED
    BY <2>4
<1>6. ASSUME NEW k \in 1 .. n, k - 1 \in T PROVE k \in T
  <2>1. HasMoved(t, k - 1, d[k - 1], m) /\ k \in 0 .. n
    BY <1>6
  <2>2. CASE k - 1 \in Valid(t)
    <3>1. d[k] = ht__put_no_expand(d[k - 1], ht_key(t, k - 1), t.slots[k - 1].value)
      BY <1>4, <2>2
    <3>2. HasMoved(t, k, d[k], m)
      BY <1>2, <1>3, <2>1, <2>2, <3>1, MovesOne
    <3> QED
      BY <2>1, <3>2
  <2>3. CASE k - 1 \notin Valid(t)
    <3>1. Before(t, k) = Before(t, k - 1)
      BY <1>1, <2>3 DEF Before
    <3>2. d[k] = d[k - 1]
      BY <1>4, <2>3
    <3>3. HasMoved(t, k, d[k], m)
      BY <2>1, <3>1, <3>2 DEF HasMoved
    <3> QED
      BY <2>1, <3>3
  <2> QED
    BY <2>2, <2>3
<1> HIDE DEF T
<1>7. n \in T
  <2>1. 0 .. n \subseteq T
    BY <1>5, <1>6, UpTo
  <2> QED
    BY <2>1
<1>8. new = d[n]
  BY <1>1 DEF Rehashed, d
<1>9. HasMoved(t, n, new, m)
  BY <1>7, <1>8 DEF T
<1>10. Before(t, n) = Valid(t)
  BY <1>1 DEF Before
<1>11. /\ Sound(new, m) /\ new.count = t.count /\ new.impl_filled_slots = t.count
       /\ KeysOf(new) = KeysOf(t)
       /\ \A s \in Valid(t) : Contents(new)[ht_key(t, s)] = t.slots[s].value
  BY <1>1, <1>9, <1>10 DEF HasMoved, KeysOf
<1>12. Contents(t) = Contents(new)
  <2> DEFINE f == Contents(new)
  <2>1. f = [k \in DOMAIN f |-> f[k]] /\ KeysOf(t) = DOMAIN f
    BY <1>11 DEF Contents
  <2> HIDE DEF f
  <2>2. \A s \in Valid(t) : f[ht_key(t, s)] = t.slots[s].value
    BY <1>11 DEF f
  <2>3. Contents(t) = f
    BY <2>1, <2>2, ContentsAre
  <2> QED
    BY <2>3 DEF f
<1> QED
  BY <1>11, <1>12

\* ht__expand keeps the contents and makes room for one more entry; a table it leaves alone is the same.
LEMMA Expand ==
  ASSUME NEW n \in Nat, Sized(n), NEW t, Sound(t, n), NEW new, new = ht__expand(t)
  PROVE  \E m \in Nat :
           /\ Sized(m) /\ m # 0 /\ Sound(new, m) /\ Contents(new) = Contents(t)
           /\ new.impl_filled_slots + 1 < m
           /\ ~ Expands(t) => new = t
<1>1. t \in Tables(n) /\ Capacity(t) = n /\ t.count \in Nat /\ t.impl_filled_slots \in Nat
  BY TableSlots DEF Sound, Tables
<1>2. ASSUME NEW m \in Nat, Sized(m), m # 0, NEW e \in Nat, ~ Overloaded(e, m) PROVE e + 1 < m
  <2>1. m >= 4
    BY <1>2, SizesArePowers
  <2>2. ~ (e * 100 >= 70 * m)
    BY <1>2 DEF Overloaded, HT__LOAD_FACTOR_PERCENT
  <2> QED
    BY <2>1, <2>2
<1>3. CASE Expands(t)
  <2> DEFINE m == NewCapacity(t.count)
  <2>1. new = Rehashed(t)
    BY <1>3 DEF ht__expand
  <2>2. m \in Nat /\ m # 0 /\ Sized(m) /\ ~ Overloaded(t.count, m)
    BY <1>1, NewCapacityEnough
  <2>3. Sound(new, m) /\ Contents(new) = Contents(t) /\ new.impl_filled_slots = t.count
    BY <2>1, Rehash
  <2> HIDE DEF m
  <2>4. new.impl_filled_slots + 1 < m
    BY <1>1, <1>2, <2>2, <2>3
  <2> QED
    BY <1>3, <2>2, <2>3, <2>4
<1>4. CASE ~ Expands(t)
  <2>1. new = t
    BY <1>4 DEF ht__expand
  <2>2. n # 0 /\ ~ Overloaded(t.impl_filled_slots, n)
    BY <1>1, <1>4 DEF Expands
  <2>3. new.impl_filled_slots + 1 < n
    BY <1>1, <1>2, <2>1, <2>2
  <2> QED
    BY <2>1, <2>2, <2>3
<1> QED
  BY <1>3, <1>4

\* What ht_put does.
LEMMA Put ==
  ASSUME NEW n \in Nat, Sized(n), NEW t, Sound(t, n), NEW k \in Keys, NEW v \in Values,
         NEW new, new = ht__put(t, k, v)
  PROVE  /\ \E m \in Nat : Sized(m) /\ Sound(new, m)
         /\ Contents(new) = WithKey(t, k, v)
         /\ ~ Expands(t) => /\ Valid(t) \subseteq Valid(new)
                            /\ \A r \in Valid(t) : ht_key(new, r) = ht_key(t, r)
<1> DEFINE u == ht__expand(t)
<1>1. PICK m \in Nat :
           /\ Sized(m) /\ m # 0 /\ Sound(u, m) /\ Contents(u) = Contents(t)
           /\ u.impl_filled_slots + 1 < m
           /\ ~ Expands(t) => u = t
  BY Expand
<1>2. new = ht__put_no_expand(u, k, v)
  BY DEF ht__put
<1> HIDE DEF u
<1>3. PutTo(u, k, v, new, m)
  <2>1. CASE k \in KeysOf(u)
    BY <1>1, <1>2, <2>1, PutReplaces
  <2>2. CASE k \notin KeysOf(u)
    BY <1>1, <1>2, <2>2, PutAdds
  <2> QED
    BY <2>1, <2>2
<1>4. WithKey(u, k, v) = WithKey(t, k, v)
  <2>1. KeysOf(u) = KeysOf(t)
    BY <1>1, ContentsAt
  <2> QED
    BY <1>1, <2>1 DEF WithKey
<1> QED
  BY <1>1, <1>3, <1>4 DEF PutTo

-----------------------------------------------------------------------------
(* The calls *)

\* A pointer to an entry, and the key it was returned for.
Pointers(t, p, k) ==
  /\ p # NULL => p \in Valid(t) /\ ht_key(t, p) = k
  /\ p = NULL => k = NULL

\* A loop that is at slot i has come to the keys before and there.
Walk(t, i, seen) ==
  /\ i = NULL => seen = {}
  /\ i # NULL => /\ i \in DOMAIN t.slots
                 /\ \A s \in Valid(t) : ht_key(t, s) \in seen <=> s <= i

\* The inductive invariant.
TableInv ==
  /\ \E n \in Nat : Sized(n) /\ Sound(ht, n)
  /\ Pointers(ht, value, pointed)
  /\ Walk(ht, iter, visited) /\ visited \subseteq Keys
  /\ answer \in Keys \cup Values \cup BOOLEAN \cup {NULL}

\* No slot and no key is NULL.
LEMMA NotNull ==
  ASSUME NEW n \in Nat, NEW t, Sound(t, n)
  PROVE  /\ t \in Tables(n) /\ DOMAIN t.slots = 0 .. n - 1 /\ Capacity(t) = n
         /\ Valid(t) \subseteq 0 .. n - 1
         /\ \A s \in Valid(t) : s # NULL /\ s \in Nat /\ ht_key(t, s) \in Keys /\ t.slots[s].value \in Values
         /\ \A k \in Keys : k # NULL
         /\ KeysOf(t) \subseteq Keys
<1>1. t \in Tables(n) /\ \A s \in Valid(t) : Hashed(t.slots[s])
  BY DEF Sound
<1>2. DOMAIN t.slots = 0 .. n - 1 /\ Capacity(t) = n /\ Valid(t) \subseteq 0 .. n - 1
  BY <1>1, TableSlots
<1>3. /\ \A s \in Valid(t) : ht_key(t, s) \in Keys /\ t.slots[s].value \in Values
      /\ KeysOf(t) \subseteq Keys
  BY <1>1, Entries
<1> QED
  BY <1>1, <1>2, <1>3, HashTableAssumption

\* A deletion keeps a pointer to another entry, and every loop.
LEMMA DeleteKeeps ==
  ASSUME NEW n \in Nat, NEW t, Sound(t, n), NEW s \in Valid(t), NEW new, new = Deleted(t, s),
         NEW p, NEW k, Pointers(t, p, k), NEW i, NEW seen, Walk(t, i, seen)
  PROVE  /\ Sound(new, n) /\ Walk(new, i, seen)
         /\ p # s => Pointers(new, p, k)
         /\ k = ht_key(t, s) <=> p = s
         /\ Contents(new) = WithoutKey(t, ht_key(t, s))
<1>1. /\ Sound(new, n) /\ Valid(new) = Valid(t) \ {s}
      /\ \A r \in Valid(new) : ht_key(new, r) = ht_key(t, r)
      /\ Contents(new) = WithoutKey(t, ht_key(t, s))
  BY DeleteTakesOne
<1>2. DOMAIN new.slots = DOMAIN t.slots
  <2>1. DOMAIN new.slots = 0 .. n - 1 /\ DOMAIN t.slots = 0 .. n - 1
    BY <1>1, NotNull
  <2> QED
    BY <2>1
<1>3. Walk(new, i, seen)
  BY <1>1, <1>2 DEF Walk
<1>4. p # s => Pointers(new, p, k)
  BY <1>1 DEF Pointers
<1>5. k = ht_key(t, s) <=> p = s
  <2>1. CASE p = NULL
    <3>1. k = NULL
      BY <2>1 DEF Pointers
    <3>2. s # NULL /\ ht_key(t, s) # NULL
      BY NotNull
    <3> QED
      BY <2>1, <3>1, <3>2
  <2>2. CASE p # NULL
    <3>1. p \in Valid(t) /\ ht_key(t, p) = k
      BY <2>2 DEF Pointers
    <3> QED
      BY <3>1, OneSlotAKey
  <2> QED
    BY <2>1, <2>2
<1> QED
  BY <1>1, <1>3, <1>4, <1>5

\* Nothing has been put, and nothing visited, in an empty table.
LEMMA NoPointers ==
  ASSUME NEW t PROVE Pointers(t, NULL, NULL) /\ Walk(t, NULL, {})
  BY DEF Pointers, Walk

\* The invariant holds at first, and the map is empty.
LEMMA TableInit == Init => TableInv /\ dictionary!Init
<1> SUFFICES ASSUME Init PROVE TableInv /\ dictionary!Init
  OBVIOUS
<1>1. ht = AllEmpty(0) /\ value = NULL /\ iter = NULL /\ answer = NULL /\ pointed = NULL /\ visited = {}
  BY DEF Init
<1>2. Sound(ht, 0) /\ Contents(ht) = [k \in {} |-> NULL]
  BY <1>1, EmptyTable
<1>3. Sized(0)
  BY DEF Sized
<1>4. Pointers(ht, value, pointed) /\ Walk(ht, iter, visited)
  BY <1>1, NoPointers
<1>5. dictionary!Init
  BY <1>1, <1>2 DEF dictionary!Init, dictionary!Empty
<1>6. \E n \in Nat : Sized(n) /\ Sound(ht, n)
  BY <1>2, <1>3
<1> QED
  BY <1>1, <1>4, <1>5, <1>6 DEF TableInv

\* ht_put is the map's.
LEMMA PutStep ==
  ASSUME TableInv, NEW k \in Keys, NEW v \in Values, ht_put(k, v) PROVE TableInv' /\ dictionary!Put(k, v)
<1>1. PICK n \in Nat : Sized(n) /\ Sound(ht, n)
  BY DEF TableInv
<1>2. /\ iter = NULL /\ iter' = NULL /\ visited = {} /\ visited' = {}
      /\ answer' = v /\ ht' = ht__put(ht, k, v)
      /\ Expands(ht) => value' = NULL /\ pointed' = NULL
      /\ ~ Expands(ht) => value' = value /\ pointed' = pointed
  BY DEF ht_put, TableInv, Walk, KeepUnless, Keep, Forget
<1>3. /\ \E m \in Nat : Sized(m) /\ Sound(ht', m)
      /\ Contents(ht') = WithKey(ht, k, v)
      /\ ~ Expands(ht) => /\ Valid(ht) \subseteq Valid(ht')
                          /\ \A r \in Valid(ht) : ht_key(ht', r) = ht_key(ht, r)
  BY <1>1, <1>2, Put
<1>4. Pointers(ht', value', pointed')
  <2>1. CASE Expands(ht)
    BY <1>2, <2>1, NoPointers
  <2>2. CASE ~ Expands(ht)
    BY <1>2, <1>3, <2>2 DEF TableInv, Pointers
  <2> QED
    BY <2>1, <2>2
<1>5. Walk(ht', iter', visited')
  BY <1>2, NoPointers
<1>6. TableInv'
  BY <1>2, <1>3, <1>4, <1>5 DEF TableInv
<1>7. DOMAIN Contents(ht) = KeysOf(ht)
  BY <1>1, ContentsAt
<1>8. dictionary!Put(k, v)
  BY <1>2, <1>3, <1>7 DEF dictionary!Put, dictionary!With, WithKey
<1> QED
  BY <1>6, <1>8

\* So is ht_find.
LEMMA FindStep ==
  ASSUME TableInv, NEW k \in Keys, ht_find(k) PROVE TableInv' /\ dictionary!Find(k)
<1>1. PICK n \in Nat : Sized(n) /\ Sound(ht, n)
  BY DEF TableInv
<1> DEFINE s == ht__find(ht, k)
<1>2. ht' = ht /\ iter' = iter /\ visited' = visited
  BY DEF ht_find
<1>3. /\ k \in KeysOf(ht) => s \in Valid(ht) /\ ht_key(ht, s) = k
      /\ k \notin KeysOf(ht) => s = NULL
  BY <1>1, Find
<1>4. DOMAIN Contents(ht) = KeysOf(ht)
      /\ \A r \in Valid(ht) : Contents(ht)[ht_key(ht, r)] = ht.slots[r].value
  BY <1>1, ContentsAt
<1>5. CASE k \in KeysOf(ht)
  <2>1. s # NULL /\ ht.slots[s].value \in Values
    BY <1>1, <1>3, <1>5, NotNull
  <2>2. value' = s /\ pointed' = k /\ answer' = ht.slots[s].value
    BY <2>1 DEF ht_find, PointTo
  <2>3. Pointers(ht', value', pointed')
    BY <1>2, <1>3, <1>5, <2>1, <2>2 DEF Pointers
  <2>4. TableInv'
    BY <1>2, <2>1, <2>2, <2>3 DEF TableInv
  <2>5. dictionary!Find(k)
    BY <1>2, <1>3, <1>4, <1>5, <2>2 DEF dictionary!Find, dictionary!Get
  <2> QED
    BY <2>4, <2>5
<1>6. CASE k \notin KeysOf(ht)
  <2>1. value' = NULL /\ pointed' = NULL /\ answer' = NULL
    BY <1>3, <1>6 DEF ht_find, Forget
  <2>2. Pointers(ht', value', pointed')
    BY <2>1, NoPointers
  <2>3. TableInv'
    BY <1>2, <2>1, <2>2 DEF TableInv
  <2>4. dictionary!Find(k)
    BY <1>2, <1>4, <1>6, <2>1 DEF dictionary!Find, dictionary!Get
  <2> QED
    BY <2>3, <2>4
<1> QED
  BY <1>5, <1>6

\* And ht_find_or_put.
LEMMA FindOrPutStep ==
  ASSUME TableInv, NEW k \in Keys, ht_find_or_put(k) PROVE TableInv' /\ dictionary!FindOrPut(k)
<1>1. PICK n \in Nat : Sized(n) /\ Sound(ht, n)
  BY DEF TableInv
<1>2. /\ iter = NULL /\ iter' = NULL /\ visited = {} /\ visited' = {}
      /\ ht' = IF ht__find(ht, k) = NULL THEN ht__put(ht, k, default_value) ELSE ht
      /\ value' = ht__find(ht', k) /\ pointed' = k /\ answer' = ht'.slots[value'].value
  BY DEF ht_find_or_put, TableInv, Walk, PointTo
<1>3. default_value \in Values
  BY HashTableAssumption
<1>4. DOMAIN Contents(ht) = KeysOf(ht)
  BY <1>1, ContentsAt
<1>5. /\ \E m \in Nat : Sized(m) /\ Sound(ht', m)
      /\ k \in KeysOf(ht')
      /\ Contents(ht') = IF k \in DOMAIN Contents(ht) THEN Contents(ht) ELSE WithKey(ht, k, default_value)
  <2>1. CASE k \in KeysOf(ht)
    <3>1. ht__find(ht, k) # NULL
      BY <1>1, <2>1, Find, NotNull
    <3> QED
      BY <1>1, <1>2, <1>4, <2>1, <3>1
  <2>2. CASE k \notin KeysOf(ht)
    <3>1. ht__find(ht, k) = NULL
      BY <1>1, <2>2, Find
    <3>2. ht' = ht__put(ht, k, default_value)
      BY <1>2, <3>1
    <3>3. /\ \E m \in Nat : Sized(m) /\ Sound(ht', m)
          /\ Contents(ht') = WithKey(ht, k, default_value)
      BY <1>1, <1>3, <3>2, Put
    <3>4. DOMAIN Contents(ht') = KeysOf(ht')
      BY <3>3, ContentsAt
    <3>5. k \in DOMAIN WithKey(ht, k, default_value)
      BY DEF WithKey
    <3> QED
      BY <1>4, <2>2, <3>3, <3>4, <3>5
  <2> QED
    BY <2>1, <2>2
<1>6. PICK m \in Nat : Sized(m) /\ Sound(ht', m)
  BY <1>5
<1>7. value' \in Valid(ht') /\ ht_key(ht', value') = k
  BY <1>2, <1>5, <1>6, Find
<1>8. value' # NULL /\ answer' \in Values /\ answer' = Contents(ht')[k]
  <2>1. value' # NULL /\ ht'.slots[value'].value \in Values
    BY <1>6, <1>7, NotNull
  <2>2. Contents(ht')[k] = ht'.slots[value'].value
    BY <1>6, <1>7, ContentsAt
  <2> QED
    BY <1>2, <2>1, <2>2
<1>9. Pointers(ht', value', pointed')
  BY <1>2, <1>7, <1>8 DEF Pointers
<1>10. Walk(ht', iter', visited')
  BY <1>2, NoPointers
<1>11. TableInv'
  BY <1>2, <1>5, <1>8, <1>9, <1>10 DEF TableInv
<1>12. dictionary!FindOrPut(k)
  BY <1>2, <1>4, <1>5, <1>8 DEF dictionary!FindOrPut, dictionary!With, WithKey
<1> QED
  BY <1>11, <1>12

\* The caller's write through its pointer is the map's.
LEMMA WriteStep ==
  ASSUME TableInv, NEW v \in Values, Write(v) PROVE TableInv' /\ dictionary!Write(v)
<1>1. PICK n \in Nat : Sized(n) /\ Sound(ht, n)
  BY DEF TableInv
<1>2. /\ value # NULL /\ value' = value /\ pointed' = pointed
      /\ iter' = iter /\ visited' = visited /\ answer' = answer
      /\ ht' = ValueSet(ht, value, v)
  BY DEF Write, ValueSet
<1>3. value \in Valid(ht) /\ ht_key(ht, value) = pointed
  BY <1>2 DEF TableInv, Pointers
<1>4. /\ Sound(ht', n) /\ Valid(ht') = Valid(ht)
      /\ \A r \in Valid(ht) : ht_key(ht', r) = ht_key(ht, r)
      /\ Contents(ht') = [j \in KeysOf(ht) |-> IF j = pointed THEN v ELSE Contents(ht)[j]]
  BY <1>1, <1>2, <1>3, WriteChangesOne
<1>5. DOMAIN ht'.slots = DOMAIN ht.slots
  <2>1. DOMAIN ht'.slots = 0 .. n - 1 /\ DOMAIN ht.slots = 0 .. n - 1
    BY <1>1, <1>4, NotNull
  <2> QED
    BY <2>1
<1>6. Pointers(ht', value', pointed') /\ Walk(ht', iter', visited')
  BY <1>2, <1>3, <1>4, <1>5 DEF TableInv, Pointers, Walk
<1>7. TableInv'
  BY <1>1, <1>2, <1>4, <1>6 DEF TableInv
<1>8. dictionary!Write(v)
  <2>1. DOMAIN Contents(ht) = KeysOf(ht) /\ pointed \in KeysOf(ht) /\ pointed # NULL
    <3>1. DOMAIN Contents(ht) = KeysOf(ht) /\ pointed \in KeysOf(ht)
      BY <1>1, <1>3, ContentsAt
    <3>2. pointed # NULL
      BY <1>1, <1>3, NotNull
    <3> QED
      BY <3>1, <3>2
  <2>2. DOMAIN Contents(ht) \cup {pointed} = KeysOf(ht)
    BY <2>1
  <2> QED
    BY <1>2, <1>4, <2>1, <2>2 DEF dictionary!Write, dictionary!With
<1> QED
  BY <1>7, <1>8

\* A deletion of the entry at a slot is the map's of its key.
LEMMA DeleteStep ==
  ASSUME TableInv, NEW s \in Valid(ht), ht' = Deleted(ht, s), answer' = TRUE, KeepUnless(value = s),
         iter' = iter, visited' = visited
  PROVE  TableInv' /\ ht_key(ht, s) \in Keys /\ dictionary!Delete(ht_key(ht, s))
<1>1. PICK n \in Nat : Sized(n) /\ Sound(ht, n)
  BY DEF TableInv
<1>2. Pointers(ht, value, pointed) /\ Walk(ht, iter, visited)
  BY DEF TableInv
<1>3. /\ Sound(ht', n) /\ Walk(ht', iter, visited)
      /\ value # s => Pointers(ht', value, pointed)
      /\ pointed = ht_key(ht, s) <=> value = s
      /\ Contents(ht') = WithoutKey(ht, ht_key(ht, s))
  BY <1>1, <1>2, DeleteKeeps
<1>4. Pointers(ht', value', pointed')
  <2>1. CASE value = s
    BY <2>1, NoPointers DEF KeepUnless, Forget
  <2>2. CASE value # s
    BY <1>3, <2>2 DEF KeepUnless, Keep
  <2> QED
    BY <2>1, <2>2
<1>5. TableInv'
  BY <1>1, <1>3, <1>4 DEF TableInv
<1>6. ht_key(ht, s) \in Keys /\ ht_key(ht, s) \in KeysOf(ht) /\ DOMAIN Contents(ht) = KeysOf(ht)
  BY <1>1, NotNull, ContentsAt
<1>7. pointed' = IF pointed = ht_key(ht, s) THEN NULL ELSE pointed
  BY <1>3 DEF KeepUnless, Keep, Forget
<1>8. dictionary!Delete(ht_key(ht, s))
  BY <1>3, <1>6, <1>7 DEF dictionary!Delete, dictionary!Without, WithoutKey
<1> QED
  BY <1>5, <1>6, <1>8

\* So ht_delete of the caller's pointer, and of the loop's, are deletions of the map.
LEMMA DeletePointedStep ==
  ASSUME TableInv, ht_delete PROVE TableInv' /\ \E k \in Keys : dictionary!Delete(k)
<1>1. value \in Valid(ht)
  BY DEF ht_delete, TableInv, Pointers
<1>2. ht' = Deleted(ht, value) /\ answer' = TRUE /\ KeepUnless(value = value) /\ iter' = iter /\ visited' = visited
  BY DEF ht_delete, KeepUnless
<1> QED
  BY <1>1, <1>2, DeleteStep

\* ht_delete of the entry at which ht_foreach is deletes its key.
LEMMA DeleteVisitedStep ==
  ASSUME TableInv, ht_delete_visited PROVE TableInv' /\ \E k \in Keys : dictionary!Delete(k)
<1>1. /\ iter \in Valid(ht) /\ ht' = Deleted(ht, iter) /\ answer' = TRUE /\ KeepUnless(value = iter)
      /\ iter' = iter /\ visited' = visited
  BY DEF ht_delete_visited
<1> QED
  BY <1>1, DeleteStep

\* ht_find_and_delete deletes the key, if it is in the map.
LEMMA FindAndDeleteStep ==
  ASSUME TableInv, NEW k \in Keys, ht_find_and_delete(k) PROVE TableInv' /\ dictionary!Delete(k)
<1>1. PICK n \in Nat : Sized(n) /\ Sound(ht, n)
  BY DEF TableInv
<1> DEFINE s == ht__find(ht, k)
<1>2. /\ k \in KeysOf(ht) => s \in Valid(ht) /\ ht_key(ht, s) = k
      /\ k \notin KeysOf(ht) => s = NULL
  BY <1>1, Find
<1>3. CASE k \in KeysOf(ht)
  <2>1. s # NULL
    BY <1>1, <1>2, <1>3, NotNull
  <2>2. /\ ht' = Deleted(ht, s) /\ answer' = TRUE /\ KeepUnless(value = s)
        /\ iter' = iter /\ visited' = visited
    BY <2>1 DEF ht_find_and_delete, KeepUnless
  <2> HIDE DEF s
  <2> QED
    BY <1>2, <1>3, <2>2, DeleteStep
<1>4. CASE k \notin KeysOf(ht)
  <2>1. /\ ht' = ht /\ answer' = FALSE /\ value' = value /\ pointed' = pointed
        /\ iter' = iter /\ visited' = visited
    BY <1>2, <1>4 DEF ht_find_and_delete, KeepUnless, Keep
  <2>2. TableInv'
    BY <2>1 DEF TableInv
  <2>3. DOMAIN Contents(ht) = KeysOf(ht) /\ Contents(ht) = [j \in KeysOf(ht) |-> Contents(ht)[j]]
    BY <1>1, ContentsAt
  <2>4. pointed # k
    <3>1. CASE value = NULL
      BY <1>1, <3>1, NotNull DEF TableInv, Pointers
    <3>2. CASE value # NULL
      BY <1>1, <1>4, <3>2, ContentsAt DEF TableInv, Pointers
    <3> QED
      BY <3>1, <3>2
  <2>5. DOMAIN Contents(ht) \ {k} = KeysOf(ht)
    BY <1>4, <2>3
  <2>6. dictionary!Without(k) = Contents(ht)
    <3> DEFINE f == Contents(ht)
    <3>1. dictionary!Without(k) = [j \in DOMAIN f \ {k} |-> f[j]]
      BY DEF dictionary!Without
    <3>2. f = [j \in DOMAIN f |-> f[j]] /\ DOMAIN f \ {k} = DOMAIN f
      BY <2>3, <2>5
    <3> HIDE DEF f
    <3>3. dictionary!Without(k) = f
      BY <3>1, <3>2
    <3> QED
      BY <3>3 DEF f
  <2>7. answer' = (k \in DOMAIN Contents(ht))
    <3>1. k \notin DOMAIN Contents(ht)
      BY <1>4, <2>3
    <3>2. (k \in DOMAIN Contents(ht)) = FALSE
      BY <3>1
    <3> QED
      BY <2>1, <3>2, Zenon
  <2>8. dictionary!Delete(k)
    BY <2>1, <2>4, <2>6, <2>7 DEF dictionary!Delete
  <2> QED
    BY <2>2, <2>8
<1> QED
  BY <1>3, <1>4

\* A step of ht_foreach comes to a key of the map, or ends the walk.
LEMMA NextStep ==
  ASSUME TableInv, ht_next PROVE TableInv' /\ ((\E k \in Keys : dictionary!Visit(k)) \/ dictionary!EndOfWalk)
<1>1. PICK n \in Nat : Sized(n) /\ Sound(ht, n)
  BY DEF TableInv
<1> DEFINE at == IF iter = NULL THEN -1 ELSE iter
           rest == After(ht, at)
<1>2. ht' = ht /\ value' = value /\ pointed' = pointed
  BY DEF ht_next
<1>3. DOMAIN ht.slots = 0 .. n - 1 /\ Valid(ht) \subseteq 0 .. n - 1
  BY <1>1, NotNull
<1>4. at \in Int /\ \A s \in Valid(ht) : ht_key(ht, s) \in visited <=> s <= at
  <2>1. CASE iter = NULL
    BY <1>3, <2>1 DEF TableInv, Walk
  <2>2. CASE iter # NULL
    BY <1>3, <2>2 DEF TableInv, Walk
  <2> QED
    BY <2>1, <2>2
<1>5. rest = {s \in Valid(ht) : s > at}
  BY DEF After
<1> HIDE DEF at
<1>6. DOMAIN Contents(ht) = KeysOf(ht)
  BY <1>1, ContentsAt
<1>7. CASE rest = {}
  <2>1. iter' = NULL /\ answer' = NULL /\ visited' = {}
    BY <1>7 DEF ht_next, at
  <2>2. Walk(ht', iter', visited') /\ Pointers(ht', value', pointed')
    BY <1>2, <2>1 DEF Walk, TableInv
  <2>3. TableInv'
    BY <1>2, <2>1, <2>2 DEF TableInv
  <2>4. \A s \in Valid(ht) : ht_key(ht, s) \in visited
    BY <1>3, <1>4, <1>5, <1>7
  <2>5. dictionary!EndOfWalk
    BY <1>2, <1>6, <2>1, <2>4 DEF dictionary!EndOfWalk, KeysOf
  <2> QED
    BY <2>3, <2>5
<1>8. CASE rest # {}
  <2>1. /\ iter' = CHOOSE s \in rest : \A j \in rest : s <= j
        /\ answer' = ht_key(ht, iter') /\ visited' = visited \cup {answer'}
    BY <1>8 DEF ht_next, at
  <2>2. rest \subseteq Nat
    BY <1>3, <1>5
  <2> HIDE DEF rest
  <2>3. iter' \in rest /\ \A j \in rest : iter' <= j
    <3>1. \E s \in rest : \A j \in rest : s <= j
      BY <1>8, <2>2, LeastOf
    <3> QED
      BY <2>1, <3>1
  <2>4. iter' \in Valid(ht) /\ iter' > at
    BY <1>5, <2>3
  <2>5. answer' \in Keys /\ answer' \in KeysOf(ht) /\ iter' # NULL
    BY <1>1, <2>1, <2>4, NotNull, ContentsAt
  <2>6. ASSUME NEW s \in Valid(ht) PROVE ht_key(ht, s) \in visited' <=> s <= iter'
    <3>1. ht_key(ht, s) \in visited' <=> s <= at \/ ht_key(ht, s) = ht_key(ht, iter')
      BY <1>4, <2>1
    <3>2. ht_key(ht, s) = ht_key(ht, iter') <=> s = iter'
      BY <1>1, <2>4, OneSlotAKey
    <3>3. s <= at \/ s \in rest
      BY <1>3, <1>4, <1>5
    <3>4. s \in Nat /\ iter' \in Nat
      BY <1>3, <2>4
    <3> QED
      BY <1>4, <2>3, <2>4, <3>1, <3>2, <3>3, <3>4
  <2>7. Walk(ht', iter', visited') /\ Pointers(ht', value', pointed')
    BY <1>2, <1>3, <2>4, <2>5, <2>6 DEF Walk, TableInv
  <2>8. TableInv'
    BY <1>2, <2>1, <2>5, <2>7 DEF TableInv
  <2>9. answer' \notin visited
    <3>1. ~ (iter' <= at)
      BY <1>3, <1>4, <2>4
    <3> QED
      BY <1>4, <2>1, <2>4, <3>1
  <2>10. dictionary!Visit(answer')
    BY <1>2, <1>6, <2>1, <2>5, <2>9 DEF dictionary!Visit
  <2> QED
    BY <2>5, <2>8, <2>10
<1> QED
  BY <1>7, <1>8

\* ht_reset and ht_free empty the map.
LEMMA ClearStep ==
  ASSUME TableInv, ht_reset \/ ht_free PROVE TableInv' /\ dictionary!Clear
<1>1. PICK n \in Nat : Sized(n) /\ Sound(ht, n)
  BY DEF TableInv
<1>2. /\ iter = NULL /\ iter' = NULL /\ visited = {} /\ visited' = {}
      /\ value' = NULL /\ pointed' = NULL /\ answer' = NULL
  BY DEF ht_reset, ht_free, TableInv, Walk, Forget
<1>3. (\E m \in Nat : Sized(m) /\ Sound(ht', m)) /\ Contents(ht') = [k \in {} |-> NULL]
  <2>1. CASE ht_free
    <3>1. ht' = AllEmpty(0) /\ Sized(0)
      BY <2>1 DEF ht_free, Sized
    <3> QED
      BY <3>1, EmptyTable
  <2>2. CASE ht_reset /\ ht.impl_filled_slots # 0
    <3>1. ht' = AllEmpty(n)
      BY <1>1, <2>2, NotNull DEF ht_reset
    <3> QED
      BY <1>1, <3>1, EmptyTable
  <2>3. CASE ht_reset /\ ht.impl_filled_slots = 0
    <3>1. ht' = ht
      BY <2>3 DEF ht_reset
    <3>2. Valid(ht) = {}
      <4>1. IsFiniteSet(Used(ht)) /\ Cardinality(Used(ht)) = 0 /\ Valid(ht) \subseteq Used(ht)
        BY <1>1, <2>3, TableSlots DEF Sound
      <4> QED
        BY <4>1, FS_EmptySet
    <3>3. KeysOf(ht) = {}
      BY <3>2 DEF KeysOf
    <3>4. Contents(ht) = [k \in {} |-> NULL]
      BY <3>3 DEF Contents
    <3> QED
      BY <1>1, <3>1, <3>4
  <2> QED
    BY <2>1, <2>2, <2>3
<1>4. Pointers(ht', value', pointed') /\ Walk(ht', iter', visited')
  BY <1>2, NoPointers
<1>5. TableInv'
  BY <1>2, <1>3, <1>4 DEF TableInv
<1>6. dictionary!Clear
  BY <1>2, <1>3 DEF dictionary!Clear, dictionary!Empty
<1> QED
  BY <1>5, <1>6

\* A step that changes nothing keeps the invariant, and the map.
LEMMA TableIdle ==
  ASSUME TableInv, UNCHANGED vars PROVE TableInv' /\ UNCHANGED dictionary!mapVars
<1>1. /\ ht' = ht /\ value' = value /\ iter' = iter
      /\ answer' = answer /\ pointed' = pointed /\ visited' = visited
  BY DEF vars
<1>2. TableInv'
  BY <1>1 DEF TableInv
<1>3. UNCHANGED dictionary!mapVars
  BY <1>1 DEF dictionary!mapVars
<1> QED
  BY <1>2, <1>3

\* Every call keeps the invariant, and is a step of the map.
LEMMA TableStep ==
  ASSUME TableInv, [Next]_vars PROVE TableInv' /\ [dictionary!Next]_(dictionary!mapVars)
<1>1. ASSUME NEW k \in Keys, NEW v \in Values, ht_put(k, v) PROVE TableInv' /\ dictionary!Next
  BY <1>1, PutStep DEF dictionary!Next
<1>2. ASSUME NEW k \in Keys, ht_find(k) PROVE TableInv' /\ dictionary!Next
  BY <1>2, FindStep DEF dictionary!Next
<1>3. ASSUME NEW k \in Keys, ht_find_or_put(k) PROVE TableInv' /\ dictionary!Next
  BY <1>3, FindOrPutStep DEF dictionary!Next
<1>4. ASSUME NEW k \in Keys, ht_find_and_delete(k) PROVE TableInv' /\ dictionary!Next
  BY <1>4, FindAndDeleteStep DEF dictionary!Next
<1>5. ASSUME NEW v \in Values, Write(v) PROVE TableInv' /\ dictionary!Next
  BY <1>5, WriteStep DEF dictionary!Next
<1>6. ASSUME ht_delete PROVE TableInv' /\ dictionary!Next
  BY <1>6, DeletePointedStep DEF dictionary!Next
<1>7. ASSUME ht_delete_visited PROVE TableInv' /\ dictionary!Next
  BY <1>7, DeleteVisitedStep DEF dictionary!Next
<1>8. ASSUME ht_next PROVE TableInv' /\ dictionary!Next
  BY <1>8, NextStep DEF dictionary!Next
<1>9. ASSUME ht_reset \/ ht_free PROVE TableInv' /\ dictionary!Next
  BY <1>9, ClearStep DEF dictionary!Next
<1>10. CASE UNCHANGED vars
  BY <1>10, TableIdle
<1>11. CASE Next
  BY <1>1, <1>2, <1>3, <1>4, <1>5, <1>6, <1>7, <1>8, <1>9, <1>11 DEF Next
<1> QED
  BY <1>10, <1>11

-----------------------------------------------------------------------------
(* Theorems *)

\* The inductive invariant is one.
LEMMA TableAlways == Spec => []TableInv
<1>1. Init => TableInv
  BY TableInit
<1>2. TableInv /\ [Next]_vars => TableInv'
  BY TableStep
<1> QED
  BY <1>1, <1>2, PTL DEF Spec

\* Every variable stays in its type, and the capacity is HT__MIN_CAP doubled some times: the mask of
\* ht__find_slot and the reach of its probe are right after every expansion.
THEOREM TableWellFormed == Spec => []TypeOK
<1>1. ASSUME TableInv PROVE TypeOK
  <2>1. PICK n \in Nat : Sized(n) /\ Sound(ht, n)
    BY <1>1 DEF TableInv
  <2>2. /\ ht \in Tables(n) /\ DOMAIN ht.slots = 0 .. n - 1 /\ Capacity(ht) = n
        /\ Valid(ht) \subseteq 0 .. n - 1
    BY <2>1, NotNull
  <2>3. ht.count \in Nat /\ ht.impl_filled_slots \in Nat /\ ht.slots \in [0 .. Capacity(ht) - 1 -> Slot]
    BY <2>2 DEF Tables
  <2>4. Capacity(ht) = 0 \/ \E i \in 0 .. Capacity(ht) : Capacity(ht) = Doubled(HT__MIN_CAP, Capacity(ht))[i]
    BY <2>1, <2>2 DEF Sized
  <2>5. value \in DOMAIN ht.slots \cup {NULL} /\ pointed \in Keys \cup {NULL}
    <3>1. CASE value = NULL
      BY <1>1, <3>1 DEF TableInv, Pointers
    <3>2. CASE value # NULL
      <4>1. value \in Valid(ht) /\ ht_key(ht, value) = pointed
        BY <1>1, <3>2 DEF TableInv, Pointers
      <4> QED
        BY <2>1, <2>2, <4>1, NotNull
    <3> QED
      BY <3>1, <3>2
  <2>6. iter \in DOMAIN ht.slots \cup {NULL}
    BY <1>1 DEF TableInv, Walk
  <2>7. visited \subseteq Keys /\ answer \in Keys \cup Values \cup BOOLEAN \cup {NULL}
    BY <1>1 DEF TableInv
  <2> QED
    BY <2>3, <2>4, <2>5, <2>6, <2>7 DEF TypeOK
<1> QED
  BY <1>1, TableAlways, PTL

\* The counts on which every expansion decides are those of the slots, and a key has one slot, after
\* any calls and for any hashes.
THEOREM CountsAlwaysExact == Spec => []CountsExact
<1>1. ASSUME TableInv PROVE CountsExact
  <2>1. PICK n \in Nat : Sized(n) /\ Sound(ht, n)
    BY <1>1 DEF TableInv
  <2>2. ht.count = Cardinality(Valid(ht)) /\ ht.impl_filled_slots = Cardinality(Used(ht))
    BY <2>1 DEF Sound
  <2>3. \A s, r \in Valid(ht) : ht_key(ht, s) = ht_key(ht, r) => s = r
    BY <2>1, OneSlotAKey
  <2> QED
    BY <2>2, <2>3 DEF CountsExact, Used
<1> QED
  BY <1>1, TableAlways, PTL

\* The assertions of ht__find and of ht__put_no_expand hold after any calls and for any hashes.
THEOREM AssertsAlwaysHold == Spec => []AssertsHold
<1>1. ASSUME TableInv, NEW k \in Keys
      PROVE  /\ Capacity(ht) > 0 => ht__find_slot(ht, k) # NULL
             /\ ht__find_slot(ht__expand(ht), k) # NULL
             /\ ht__find_slot(ht, k) # NULL => ht.slots[ht__find_slot(ht, k)].hash # HT__DELETED
  <2>1. PICK n \in Nat : Sized(n) /\ Sound(ht, n)
    BY <1>1 DEF TableInv
  <2>2. ASSUME NEW m \in Nat, Sized(m), m # 0, NEW t, Sound(t, m)
        PROVE  ht__find_slot(t, k) # NULL /\ t.slots[ht__find_slot(t, k)].hash # HT__DELETED
    <3>1. PICK s \in 0 .. m - 1 : ht__find_slot(t, k) = s /\ (s \in Valid(t) \/ t.slots[s].hash = HT__EMPTY)
      BY <2>2, Probe
    <3>2. s # NULL
      BY HashTableAssumption
    <3>3. t.slots[s].hash # HT__DELETED
      BY <3>1 DEF Valid, HT__EMPTY, HT__DELETED, HT__FIRST_VALID_HASH
    <3> QED
      BY <3>1, <3>2, <3>3
  <2>3. ht \in Tables(n) /\ Capacity(ht) = n
    BY <2>1, NotNull
  <2>4. ht__find_slot(ht__expand(ht), k) # NULL
    <3> DEFINE t == ht__expand(ht)
    <3>1. PICK m \in Nat : Sized(m) /\ m # 0 /\ Sound(t, m)
      BY <2>1, Expand
    <3> HIDE DEF t
    <3>2. ht__find_slot(t, k) # NULL
      BY <2>2, <3>1
    <3> QED
      BY <3>2 DEF t
  <2>5. CASE n = 0
    <3>1. ht__find_slot(ht, k) = NULL
      <4>1. 0 .. Capacity(ht) - 1 = {}
        BY <2>3, <2>5
      <4> QED
        BY <4>1 DEF ht__find_slot
    <3> QED
      BY <2>3, <2>4, <2>5, <3>1
  <2>6. CASE n # 0
    BY <2>1, <2>2, <2>4, <2>6
  <2> QED
    BY <2>5, <2>6
<1>2. ASSUME TableInv PROVE AssertsHold
  BY <1>1, <1>2 DEF AssertsHold
<1> QED
  BY <1>2, TableAlways, PTL

\* A value pointer that the caller may use is to the value of its key.
THEOREM PointersAlwaysHold == Spec => []PointersHold
<1>1. ASSUME TableInv PROVE PointersHold
  BY <1>1 DEF TableInv, Pointers, PointersHold
<1> QED
  BY <1>1, TableAlways, PTL

\* The hash table implements Map: every call of ht.h is the map's call, whatever the keys, the values
\* and the hashes.
THEOREM TableIsAMap == Spec => ImplementsMap
<1>1. Init => dictionary!Init
  BY TableInit
<1>2. TableInv /\ [Next]_vars => [dictionary!Next]_(dictionary!mapVars)
  BY TableStep
<1> QED
  BY <1>1, <1>2, TableAlways, PTL DEF Spec, ImplementsMap, dictionary!Spec

-----------------------------------------------------------------------------
(* The stack of calls *)

\* The calls without the innermost, and the innermost.
LEMMA Popped ==
  ASSUME NEW S, NEW c \in Seq(S), c # <<>>
  PROVE  /\ Front(c) \in Seq(S) /\ Len(Front(c)) = Len(c) - 1
         /\ Len(c) \in Nat /\ Len(c) >= 1
         /\ \A i \in 1 .. Len(c) - 1 : Front(c)[i] = c[i]
         /\ Last(c) = c[Len(c)] /\ c[Len(c)] \in S
<1>1. Len(c) \in Nat /\ Len(c) >= 1
  BY EmptySeq
<1>2. \A i \in 1 .. Len(c) : c[i] \in S
  BY ElementOfSeq
<1> DEFINE m == Len(c) - 1
<1>3. /\ SubSeq(c, 1, m) \in Seq(S)
      /\ Len(SubSeq(c, 1, m)) = m
      /\ \A i \in 1 .. m : SubSeq(c, 1, m)[i] = c[i]
  <2>1. m \in Int /\ m >= 0 /\ \A i \in 1 .. m : c[i] \in S
    BY <1>1, <1>2
  <2> HIDE DEF m
  <2>2. /\ SubSeq(c, 1, m) \in Seq(S)
        /\ Len(SubSeq(c, 1, m)) = IF 1 <= m THEN m - 1 + 1 ELSE 0
        /\ \A i \in 1 .. m - 1 + 1 : SubSeq(c, 1, m)[i] = c[1 + i - 1]
    BY ONLY <2>1, SubSeqProperties
  <2> QED
    BY <2>1, <2>2
<1>4. c[Len(c)] \in S
  BY <1>1, <1>2
<1> QED
  BY <1>1, <1>3, <1>4 DEF Front, Last

\* One other call in its place.
OneInPlace(S, c, x, new) ==
  /\ new \in Seq(S) /\ Len(new) = Len(c)
  /\ \A i \in 1 .. Len(c) - 1 : new[i] = c[i]
  /\ new[Len(c)] = x

\* The innermost call goes on as x.
LEMMA Replaced ==
  ASSUME NEW S, NEW c \in Seq(S), c # <<>>, NEW x \in S,
         NEW new, new = Append(Front(c), x)
  PROVE  OneInPlace(S, c, x, new)
<1> DEFINE f == Front(c)
<1>1. /\ f \in Seq(S) /\ Len(f) = Len(c) - 1 /\ Len(c) \in Nat /\ Len(c) >= 1
      /\ \A i \in 1 .. Len(c) - 1 : f[i] = c[i]
  BY Popped
<1> HIDE DEF f
<1>2. new = Append(f, x)
  BY DEF f
<1> QED
  BY <1>1, <1>2 DEF OneInPlace

\* Two calls in its place.
TwoInPlace(S, c, x, y, new) ==
  /\ new \in Seq(S) /\ Len(new) = Len(c) + 1
  /\ \A i \in 1 .. Len(c) - 1 : new[i] = c[i]
  /\ new[Len(c)] = x /\ new[Len(c) + 1] = y

\* The innermost call goes on as x and calls y.
LEMMA ReplacedByTwo ==
  ASSUME NEW S, NEW c \in Seq(S), c # <<>>, NEW x \in S, NEW y \in S,
         NEW new, new = Front(c) \o <<x, y>>
  PROVE  TwoInPlace(S, c, x, y, new)
<1> DEFINE f == Front(c)
<1>1. /\ f \in Seq(S) /\ Len(f) = Len(c) - 1 /\ Len(c) \in Nat /\ Len(c) >= 1
      /\ \A i \in 1 .. Len(c) - 1 : f[i] = c[i]
  BY Popped
<1> HIDE DEF f
<1>2. <<x, y>> \in Seq(S) /\ Len(<<x, y>>) = 2 /\ <<x, y>>[1] = x /\ <<x, y>>[2] = y
  OBVIOUS
<1> DEFINE g == <<x, y>>
<1>3. new = f \o g
  BY DEF f
<1> HIDE DEF g
<1>4. g \in Seq(S) /\ Len(g) = 2 /\ g[1] = x /\ g[2] = y
  BY <1>2 DEF g
<1>5. new \in Seq(S) /\ Len(new) = Len(f) + Len(g)
      /\ \A i \in 1 .. Len(f) + Len(g) : new[i] = IF i <= Len(f) THEN f[i] ELSE g[i - Len(f)]
  <2>1. /\ f \o g \in Seq(S) /\ Len(f \o g) = Len(f) + Len(g)
        /\ \A i \in 1 .. Len(f) + Len(g) : (f \o g)[i] = IF i <= Len(f) THEN f[i] ELSE g[i - Len(f)]
    BY ONLY <1>1, <1>4, ConcatProperties
  <2> QED
    BY ONLY <1>3, <2>1
<1>6. new[Len(c)] = g[Len(c) - Len(f)] /\ new[Len(c) + 1] = g[Len(c) + 1 - Len(f)]
  <2>1. /\ Len(c) \in 1 .. Len(f) + Len(g) /\ ~ (Len(c) <= Len(f))
        /\ Len(c) + 1 \in 1 .. Len(f) + Len(g) /\ ~ (Len(c) + 1 <= Len(f))
    BY <1>1, <1>4
  <2> QED
    BY <1>5, <2>1
<1>7. Len(c) - Len(f) = 1 /\ Len(c) + 1 - Len(f) = 2
  BY <1>1
<1> QED
  BY <1>1, <1>4, <1>5, <1>6, <1>7 DEF TwoInPlace

-----------------------------------------------------------------------------
(* The probe *)

\* A probe stays among the slots.
LEMMA IndexInside ==
  ASSUME HMTypeOK, NEW k \in Chars, NEW i \in 0 .. capacity - 1 PROVE HM_index(k, i) \in Slots
<1>1. capacity \in Nat \ {0} /\ k \in Nat /\ i \in Nat
  BY HashMapAssumption DEF HMTypeOK
<1>2. Offset(i) \in Nat
  BY <1>1 DEF Offset
<1> DEFINE e == k + Offset(i)
<1>3. e \in Nat
  BY <1>1, <1>2
<1> HIDE DEF e
<1>4. e % capacity \in 0 .. capacity - 1
  BY <1>1, <1>3, DivMod
<1> QED
  BY <1>4 DEF HM_index, Slots, e

\* It ends at a slot it looks for, if it comes to one.
LEMMA EarliestAttempt ==
  ASSUME HMTypeOK, NEW k \in Chars, NEW S, Attempts(k, S) # {}
  PROVE  /\ HM_index(k, Earliest(Attempts(k, S))) \in Slots
         /\ table[HM_index(k, Earliest(Attempts(k, S)))] \in S
<1> DEFINE A == Attempts(k, S)
<1>1. A \subseteq Nat /\ A # {} /\ \A i \in A : i \in 0 .. capacity - 1 /\ table[HM_index(k, i)] \in S
  BY DEF Attempts, HMTypeOK
<1> HIDE DEF A
<1>2. \E i \in A : \A j \in A : i <= j
  BY <1>1, LeastOf
<1>3. Earliest(A) \in A
  BY <1>2 DEF Earliest
<1> QED
  BY <1>1, <1>3, IndexInside DEF A

\* A multiple of n and a rest.
LEMMA RestOf ==
  ASSUME NEW n \in Nat \ {0}, NEW q \in Nat, NEW r \in 0 .. n - 1
  PROVE  (q * n + r) % n = r
<1> DEFINE a == q * n + r
           d == a \div n
<1>1. a \in Nat /\ a = q * n + r
  OBVIOUS
<1> HIDE DEF a
<1>2. d \in Nat /\ (a % n) \in 0 .. n - 1 /\ d * n + (a % n) = a
  BY <1>1, DivMod
<1> HIDE DEF d
<1>3. ~ (d > q)
  <2> SUFFICES ASSUME d > q PROVE FALSE
    OBVIOUS
  <2>1. d * n >= (q + 1) * n /\ (q + 1) * n = q * n + n
    BY <1>2
  <2> QED
    BY <1>1, <1>2, <2>1
<1>4. ~ (d < q)
  <2> SUFFICES ASSUME d < q PROVE FALSE
    OBVIOUS
  <2>1. q * n >= (d + 1) * n /\ (d + 1) * n = d * n + n
    BY <1>2
  <2> QED
    BY <1>1, <1>2, <2>1
<1>5. d = q
  BY <1>2, <1>3, <1>4
<1>6. (a % n) = r
  BY <1>1, <1>2, <1>5
<1> QED
  BY <1>6 DEF a

\* A probe comes to every slot: the capacity is even, and the offsets are its numbers, swapped in pairs.
LEMMA ProbeReaches ==
  ASSUME HMTypeOK, NEW k \in Chars, NEW s \in Slots
  PROVE  \E i \in 0 .. capacity - 1 : HM_index(k, i) = s
<1>1. capacity \in Nat \ {0} /\ capacity % 2 = 0 /\ k \in Nat /\ s \in 0 .. capacity - 1
  BY HashMapAssumption DEF HMTypeOK, Slots
<1> DEFINE q == k \div capacity
           r == k % capacity
<1>2. q \in Nat /\ r \in 0 .. capacity - 1 /\ q * capacity + r = k
  BY <1>1, DivMod
<1> HIDE DEF q, r
<1>3. PICK o \in 0 .. capacity - 1 : (k + o) % capacity = s
  <2>1. CASE s >= r
    <3> DEFINE i == s - r
               a == k + i
    <3>1. a = q * capacity + s /\ i \in 0 .. capacity - 1
      BY <1>1, <1>2, <2>1
    <3> HIDE DEF a, i
    <3>2. a % capacity = s
      <4>1. (q * capacity + s) % capacity = s
        BY <1>1, <1>2, RestOf, Zenon
      <4> QED
        BY <3>1, <4>1, Zenon
    <3> QED
      BY <3>1, <3>2, Zenon DEF a
  <2>2. CASE s < r
    <3> DEFINE i == s + capacity - r
               a == k + i
               p == q + 1
    <3>1. a = p * capacity + s /\ i \in 0 .. capacity - 1 /\ p \in Nat
      BY <1>1, <1>2, <2>2
    <3> HIDE DEF a, p, i
    <3>2. a % capacity = s
      <4>1. (p * capacity + s) % capacity = s
        BY <1>1, <3>1, RestOf, Zenon
      <4> QED
        BY <3>1, <4>1, Zenon
    <3> QED
      BY <3>1, <3>2, Zenon DEF a
  <2> QED
    BY <1>1, <1>2, <2>1, <2>2
<1>4. PICK i \in 0 .. capacity - 1 : Offset(i) = o
  <2>1. CASE o % 2 = 0
    <3>1. o + 1 \in 0 .. capacity - 1 /\ Offset(o + 1) = o
      BY <1>1, <2>1 DEF Offset
    <3> QED
      BY <3>1
  <2>2. CASE o % 2 # 0
    <3>1. o - 1 \in 0 .. capacity - 1 /\ Offset(o - 1) = o
      BY <1>1, <2>2 DEF Offset
    <3> QED
      BY <3>1
  <2> QED
    BY <2>1, <2>2
<1> QED
  BY <1>3, <1>4 DEF HM_index

-----------------------------------------------------------------------------
(* The inductive invariant *)

\* Only the innermost call has not looked at the load.
LastInserts == \A i \in DOMAIN calls : calls[i].fn = "insert" => i = Len(calls)

\* Every inserted key is at one place, a slot or a call in progress.
OnePlace ==
  /\ \A s \in UsedSlots : table[s] \in inserted
  /\ \A s, r \in UsedSlots : table[s] = table[r] => s = r
  /\ \A i \in InHand : calls[i].key \in inserted
  /\ \A i, j \in InHand : calls[i].key = calls[j].key => i = j
  /\ \A i \in InHand, s \in UsedSlots : calls[i].key # table[s]
  /\ \A k \in inserted : (\E s \in UsedSlots : table[s] = k) \/ (\E i \in InHand : calls[i].key = k)

\* The insertion that readtable_add_macro began is at its start.
Fresh == Len(calls) = 1 /\ calls[1].fn = "insert"
Settled == IF Fresh THEN Cardinality(inserted) - 1 ELSE Cardinality(inserted)

\* All entries but the one that comes in would be below the load, so an upscale has only to go on
\* counting to stay safe.
Roomy ==
  /\ Cardinality(UsedSlots) <= num_elements
  /\ (Settled - 1) * 5 < capacity * 4

MapInv == HMTypeOK /\ capacity > 4 /\ LastInserts /\ OnePlace /\ Roomy

\* Where a function to a finite set takes every element to another, its domain is no larger.
LEMMA NoLarger ==
  ASSUME NEW S, NEW T, IsFiniteSet(T), NEW f \in [S -> T], \A a, b \in S : f[a] = f[b] => a = b
  PROVE  /\ IsFiniteSet(S) /\ Cardinality(S) <= Cardinality(T)
         /\ (\A t \in T : \E a \in S : f[a] = t) => Cardinality(S) = Cardinality(T)
<1>1. f \in Injection(S, T)
  BY DEF Injection, IsInjective
<1>2. (\A t \in T : \E a \in S : f[a] = t) => f \in Surjection(S, T)
  BY DEF Surjection
<1> QED
  BY <1>1, <1>2, FS_Injection

\* The slots in use and the inserted keys are finite sets.
LEMMA Finite ==
  ASSUME HMTypeOK
  PROVE  /\ IsFiniteSet(UsedSlots) /\ Cardinality(UsedSlots) \in Nat /\ UsedSlots \subseteq Slots
         /\ \A s \in UsedSlots : table[s] \in Chars
         /\ IsFiniteSet(inserted) /\ Cardinality(inserted) \in Nat
<1>1. UsedSlots \subseteq Slots /\ \A s \in UsedSlots : table[s] \in Chars
  BY DEF UsedSlots, HMTypeOK
<1>2. capacity \in Nat /\ inserted \subseteq Chars
  BY DEF HMTypeOK
<1>3. IsFiniteSet(Slots)
  BY <1>2, FS_Interval DEF Slots
<1>4. IsFiniteSet(UsedSlots) /\ IsFiniteSet(inserted)
  BY <1>1, <1>2, <1>3, FS_Subset, HashMapAssumption
<1> QED
  BY <1>1, <1>4, FS_CardinalityType

\* The innermost call.
LEMMA Innermost ==
  ASSUME HMTypeOK, calls # <<>>
  PROVE  /\ Len(calls) \in Nat /\ Len(calls) >= 1 /\ DOMAIN calls = 1 .. Len(calls)
         /\ \A i \in 1 .. Len(calls) : calls[i] \in Call
         /\ Top = calls[Len(calls)] /\ Top.fn \in {"insert", "probe", "upscale"}
         /\ Top.fn \in {"insert", "probe"} => Top.key \in Chars
         /\ Top.fn = "upscale" => Top.i \in 0 .. capacity /\ Top.old_capacity \in 0 .. capacity
<1>1. calls \in Seq(Call)
  BY DEF HMTypeOK
<1>2. Len(calls) \in Nat /\ Len(calls) >= 1 /\ Top = calls[Len(calls)] /\ Top \in Call
  BY <1>1, Popped DEF Top
<1>3. DOMAIN calls = 1 .. Len(calls) /\ \A i \in 1 .. Len(calls) : calls[i] \in Call
  BY <1>1, LenProperties, ElementOfSeq
<1> QED
  BY <1>2, <1>3 DEF Call

\* The slots in use hold the inserted keys, but for the one in hand at the start of an insertion.
LEMMA UsedCount ==
  ASSUME HMTypeOK, OnePlace
  PROVE  /\ Cardinality(UsedSlots) <= Cardinality(inserted)
         /\ Fresh => Cardinality(UsedSlots) = Cardinality(inserted) - 1
<1> DEFINE f == [s \in UsedSlots |-> table[s]]
<1>1. f \in [UsedSlots -> inserted] /\ \A s, r \in UsedSlots : f[s] = f[r] => s = r
  BY DEF OnePlace
<1>2. Cardinality(UsedSlots) <= Cardinality(inserted)
  <2> HIDE DEF f
  <2> QED
    BY <1>1, Finite, NoLarger
<1>3. ASSUME Fresh PROVE Cardinality(UsedSlots) = Cardinality(inserted) - 1
  <2> DEFINE k == calls[1].key
             T == inserted \ {k}
  <2>1. InHand = {1}
    <3>1. DOMAIN calls = {1} /\ calls[1].fn = "insert"
      <4>1. DOMAIN calls = 1 .. 1
        BY <1>3, LenProperties DEF Fresh, HMTypeOK
      <4> QED
        BY <1>3, <4>1 DEF Fresh
    <3> QED
      BY <3>1 DEF InHand
  <2>2. k \in inserted /\ f \in [UsedSlots -> T]
    BY <1>1, <2>1 DEF OnePlace
  <2>3. \A j \in T : \E s \in UsedSlots : f[s] = j
    BY <2>1 DEF OnePlace
  <2>4. IsFiniteSet(T) /\ Cardinality(T) = Cardinality(inserted) - 1
    <3> HIDE DEF k
    <3> QED
      BY <2>2, Finite, FS_RemoveElement
  <2> HIDE DEF f, T
  <2>5. Cardinality(UsedSlots) = Cardinality(T)
    BY <1>1, <2>2, <2>3, <2>4, NoLarger
  <2> QED
    BY <2>4, <2>5
<1> QED
  BY <1>2, <1>3

\* The invariant implies what the runs check.
LEMMA InvKeeps == MapInv => EntriesKept
<1> SUFFICES ASSUME MapInv, NEW k \in Chars
             PROVE  Cardinality({s \in UsedSlots : table[s] = k}) + Cardinality({i \in InHand : calls[i].key = k})
                      = IF k \in inserted THEN 1 ELSE 0
  BY DEF EntriesKept
<1> DEFINE A == {s \in UsedSlots : table[s] = k}
           B == {i \in InHand : calls[i].key = k}
<1>1. Cardinality({}) = 0 /\ \A x : Cardinality({x}) = 1
  BY FS_EmptySet, FS_Singleton
<1>2. CASE k \notin inserted
  <2>1. A = {} /\ B = {}
    BY <1>2 DEF MapInv, OnePlace
  <2> QED
    BY <1>1, <1>2, <2>1
<1>3. CASE k \in inserted /\ \E s \in UsedSlots : table[s] = k
  <2>1. PICK s \in UsedSlots : table[s] = k
    BY <1>3
  <2>2. A = {s} /\ B = {}
    BY <2>1 DEF MapInv, OnePlace
  <2> QED
    BY <1>1, <1>3, <2>2
<1>4. CASE k \in inserted /\ \E i \in InHand : calls[i].key = k
  <2>1. PICK c \in InHand : calls[c].key = k
    BY <1>4
  <2>2. A = {} /\ B = {c}
    BY <2>1 DEF MapInv, OnePlace
  <2>3. Cardinality({c}) = 1
    BY <1>1
  <2> HIDE DEF A, B
  <2>4. Cardinality(A) = 0 /\ Cardinality(B) = 1
    BY <1>1, <2>2, <2>3, Zenon
  <2> QED
    BY <1>4, <2>4 DEF A, B
<1> QED
  BY <1>2, <1>3, <1>4 DEF MapInv, OnePlace

\* Roomy bounds the slots in use, for upscale adds more than it counts again.
LEMMA InvBounds == MapInv => LoadBounded
<1> SUFFICES ASSUME MapInv PROVE LoadBounded
  OBVIOUS
<1>1. /\ Cardinality(UsedSlots) \in Nat /\ Cardinality(inserted) \in Nat
      /\ Cardinality(UsedSlots) <= Cardinality(inserted)
      /\ Fresh => Cardinality(UsedSlots) = Cardinality(inserted) - 1
      /\ capacity \in Nat /\ capacity > 4
  BY Finite, UsedCount DEF MapInv, HMTypeOK
<1>2. Cardinality(UsedSlots) <= num_elements /\ (Settled - 1) * 5 < capacity * 4
  BY DEF MapInv, Roomy
<1>3. Settled \in Int /\ Cardinality(UsedSlots) <= Settled
  BY <1>1 DEF Settled
<1>4. (Cardinality(UsedSlots) - 1) * 5 < capacity * 4
  BY <1>1, <1>2, <1>3
<1>5. Cardinality(UsedSlots) < capacity
  BY <1>1, <1>4
<1> QED
  BY <1>2, <1>4, <1>5 DEF LoadBounded

-----------------------------------------------------------------------------
(* The steps *)

\* A step that puts other calls in the place of the innermost, for the same key, and leaves the
\* entries where they are.
LEMMA SamePlaces ==
  ASSUME OnePlace, UsedSlots' = UsedSlots, \A s \in UsedSlots : table'[s] = table[s],
         InHand' = InHand, \A i \in InHand : calls'[i].key = calls[i].key, inserted' = inserted
  PROVE  OnePlace'
BY DEF OnePlace

\* A return leaves a call that is no insertion before its look at the load.
LEMMA Returns ==
  ASSUME HMTypeOK, LastInserts, calls # <<>>, Top.fn # "insert", Return
  PROVE  /\ calls' \in Seq(Call) /\ LastInserts' /\ ~ Fresh /\ ~ Fresh'
         /\ Len(calls) \in Nat /\ DOMAIN calls = 1 .. Len(calls)
         /\ DOMAIN calls' = DOMAIN calls \ {Len(calls)}
         /\ \A i \in DOMAIN calls' : calls'[i] = calls[i]
<1> DEFINE n == Len(calls)
<1>1. /\ n \in Nat /\ n >= 1 /\ DOMAIN calls = 1 .. n /\ calls[n].fn # "insert"
  BY Innermost
<1>2. /\ calls' \in Seq(Call) /\ Len(calls') = n - 1
      /\ \A i \in 1 .. n - 1 : calls'[i] = calls[i]
  BY Popped DEF HMTypeOK, Return
<1>3. DOMAIN calls' = 1 .. n - 1
  <2>1. DOMAIN calls' = 1 .. Len(calls')
    BY <1>2, LenProperties
  <2> QED
    BY <1>2, <2>1
<1> HIDE DEF n
<1>4. \A i \in 1 .. n - 1 : calls[i].fn # "insert"
  BY <1>1 DEF LastInserts, n
<1>5. LastInserts'
  BY <1>2, <1>3, <1>4 DEF LastInserts
<1>6. ~ Fresh
  BY <1>1 DEF Fresh, n
<1>7. ~ Fresh'
  BY <1>1, <1>2, <1>3, <1>4 DEF Fresh
<1>8. DOMAIN calls' = DOMAIN calls \ {n}
  BY <1>1, <1>3
<1> QED
  BY <1>1, <1>2, <1>3, <1>5, <1>6, <1>7, <1>8 DEF n

\* Without a step of the table, the slots in use are the same.
LEMMA UsedSame ==
  ASSUME capacity' = capacity, table' = table PROVE UsedSlots' = UsedSlots /\ Slots' = Slots
BY DEF UsedSlots, Slots

\* The invariant holds of the empty map.
LEMMA MapInit == HMInit => MapInv
<1> SUFFICES ASSUME HMInit PROVE MapInv
  OBVIOUS
<1>1. /\ capacity = INITIAL_SIZE /\ num_elements = 0 /\ calls = <<>> /\ inserted = {}
      /\ table = [s \in 0 .. INITIAL_SIZE - 1 |-> EMPTY]
  BY DEF HMInit
<1>2. capacity \in Nat /\ capacity > 4 /\ capacity % 2 = 0
  BY <1>1, HashMapAssumption
<1>3. HMTypeOK
  <2>1. calls \in Seq(Call)
    BY <1>1, EmptySeq
  <2>2. table \in [Slots -> Chars \cup {EMPTY}]
    BY <1>1 DEF Slots
  <2> QED
    BY <1>1, <1>2, <2>1, <2>2 DEF HMTypeOK
<1>4. UsedSlots = {} /\ InHand = {} /\ ~ Fresh /\ LastInserts
  BY <1>1 DEF UsedSlots, InHand, Fresh, LastInserts, Slots
<1>5. OnePlace
  BY <1>1, <1>4 DEF OnePlace
<1>6. Roomy
  <2>1. Cardinality({}) = 0
    BY FS_EmptySet
  <2> QED
    BY <1>1, <1>2, <1>4, <2>1 DEF Roomy, Settled
<1> QED
  BY <1>2, <1>3, <1>4, <1>5, <1>6 DEF MapInv

\* readtable_add_macro brings a key in, in the hand of its call.
LEMMA AddStep ==
  ASSUME MapInv, NEW k \in Chars, readtable_add_macro(k) PROVE MapInv'
<1>1. /\ calls = <<>> /\ k \notin inserted /\ inserted' = inserted \cup {k}
      /\ calls' = <<Insert(k)>>
      /\ capacity' = capacity /\ num_elements' = num_elements /\ table' = table
  BY DEF readtable_add_macro
<1>2. Insert(k).fn = "insert" /\ Insert(k).key = k /\ Insert(k) \in Call
  BY DEF Insert, Call
<1>3. HMTypeOK' /\ capacity' > 4
  BY <1>1, <1>2 DEF MapInv, HMTypeOK, Slots, Call
<1>4. UsedSlots' = UsedSlots
  BY <1>1, UsedSame
<1>5. InHand = {} /\ InHand' = {1} /\ calls'[1].key = k /\ calls'[1].fn = "insert" /\ Len(calls') = 1
      /\ DOMAIN calls' = {1}
  BY <1>1, <1>2 DEF InHand
<1>6. LastInserts'
  BY <1>5 DEF LastInserts
<1>7. OnePlace'
  <2>1. \A s \in UsedSlots' : table'[s] \in inserted' /\ table'[s] # k
    BY <1>1, <1>4 DEF MapInv, OnePlace
  <2>2. \A s, r \in UsedSlots' : table'[s] = table'[r] => s = r
    BY <1>1, <1>4 DEF MapInv, OnePlace
  <2>3. \A j \in inserted' : (\E s \in UsedSlots' : table'[s] = j) \/ (\E i \in InHand' : calls'[i].key = j)
    BY <1>1, <1>4, <1>5 DEF MapInv, OnePlace
  <2> QED
    BY <1>1, <1>5, <2>1, <2>2, <2>3 DEF OnePlace
<1>8. Roomy'
  <2>1. Cardinality(inserted') = Cardinality(inserted) + 1 /\ Cardinality(inserted) \in Nat
    BY <1>1, Finite, FS_AddElement DEF MapInv
  <2>2. ~ Fresh /\ Fresh'
    BY <1>1, <1>5 DEF Fresh
  <2>3. Settled' = Settled
    BY <2>1, <2>2 DEF Settled
  <2> QED
    BY <1>1, <1>4, <2>3 DEF MapInv, Roomy
<1> QED
  BY <1>3, <1>6, <1>7, <1>8 DEF MapInv

\* insert looks at the load and goes on to its probe.
LEMMA InsertStep ==
  ASSUME MapInv, InsertWithoutUpscale PROVE MapInv'
<1> DEFINE n == Len(calls)
<1>1. /\ calls # <<>> /\ Top.fn = "insert" /\ ~ Loaded
      /\ calls' = Append(Front(calls), Probing(Top.key))
      /\ capacity' = capacity /\ num_elements' = num_elements /\ table' = table /\ inserted' = inserted
  BY DEF InsertWithoutUpscale
<1>2. /\ n \in Nat /\ n >= 1 /\ DOMAIN calls = 1 .. n /\ Top = calls[n] /\ Top.key \in Chars
  BY <1>1, Innermost DEF MapInv
<1>3. Probing(Top.key).fn = "probe" /\ Probing(Top.key).key = Top.key /\ Probing(Top.key) \in Call
  BY <1>2 DEF Probing, Call
<1>4. /\ calls' \in Seq(Call) /\ Len(calls') = n
      /\ \A i \in 1 .. n - 1 : calls'[i] = calls[i]
      /\ calls'[n] = Probing(Top.key)
  <2> DEFINE x == Probing(Top.key)
             S == Call
  <2>1. calls \in Seq(S) /\ calls # <<>> /\ x \in S /\ calls' = Append(Front(calls), x)
    BY <1>1, <1>3 DEF MapInv, HMTypeOK
  <2> HIDE DEF x, S
  <2>2. OneInPlace(S, calls, x, calls')
    BY <2>1, Replaced
  <2> QED
    BY <2>2 DEF OneInPlace, x, S
<1>5. DOMAIN calls' = 1 .. n
  BY <1>4, LenProperties
<1>6. HMTypeOK' /\ capacity' > 4
  <2>1. Call' = Call /\ Slots' = Slots
    BY <1>1 DEF Call, Slots
  <2> QED
    BY <1>1, <1>4, <2>1 DEF MapInv, HMTypeOK
<1> HIDE DEF n
<1>7. \A i \in 1 .. n : calls'[i].fn # "insert"
  BY <1>2, <1>3, <1>4 DEF MapInv, LastInserts, n
<1>8. LastInserts' /\ ~ Fresh'
  BY <1>2, <1>4, <1>5, <1>7 DEF LastInserts, Fresh
<1>9. OnePlace'
  <2>1. \A i \in 1 .. n : (calls'[i].fn \in {"insert", "probe"} <=> calls[i].fn \in {"insert", "probe"})
                          /\ (i = n \/ calls'[i] = calls[i]) /\ (i = n => calls'[i].key = calls[i].key)
    BY <1>1, <1>2, <1>3, <1>4
  <2>2. InHand' = InHand /\ \A i \in InHand : calls'[i].key = calls[i].key
    BY <1>2, <1>5, <2>1 DEF InHand, n
  <2> QED
    BY <1>1, <2>2, UsedSame, SamePlaces DEF MapInv
<1>10. Roomy'
  <2>1. Cardinality(inserted) \in Nat /\ Cardinality(UsedSlots) \in Nat
        /\ (Fresh => Cardinality(UsedSlots) = Cardinality(inserted) - 1)
        /\ capacity \in Nat /\ num_elements \in Nat
    BY Finite, UsedCount DEF MapInv, HMTypeOK
  <2>2. Settled' = Cardinality(inserted)
    BY <1>1, <1>8 DEF Settled
  <2>3. (Cardinality(inserted) - 1) * 5 < capacity * 4
    <3>1. CASE Fresh
      BY <1>1, <2>1, <3>1 DEF MapInv, Roomy, Loaded
    <3>2. CASE ~ Fresh
      BY <3>2 DEF MapInv, Roomy, Settled
    <3> QED
      BY <3>1, <3>2
  <2>4. Cardinality(UsedSlots') <= num_elements'
    BY <1>1, UsedSame DEF MapInv, Roomy
  <2> QED
    BY <1>1, <2>2, <2>3, <2>4 DEF Roomy
<1> QED
  BY <1>6, <1>8, <1>9, <1>10 DEF MapInv

\* insert calls upscale, which doubles the capacity.
LEMMA UpscaleStep ==
  ASSUME MapInv, HM_upscale PROVE MapInv'
<1> DEFINE n == Len(calls)
<1>1. /\ calls # <<>> /\ Top.fn = "insert" /\ capacity' = 2 * capacity /\ table' = Extended
      /\ calls' = Front(calls) \o <<Probing(Top.key), Upscale(0, capacity)>>
      /\ num_elements' = num_elements /\ inserted' = inserted
  BY DEF HM_upscale
<1>2. /\ n \in Nat /\ n >= 1 /\ DOMAIN calls = 1 .. n /\ Top = calls[n] /\ Top.key \in Chars
      /\ capacity \in Nat /\ capacity > 4 /\ capacity % 2 = 0
  BY <1>1, Innermost DEF MapInv, HMTypeOK
<1>3. /\ Probing(Top.key).fn = "probe" /\ Probing(Top.key).key = Top.key /\ Probing(Top.key) \in Call'
      /\ Upscale(0, capacity).fn = "upscale" /\ Upscale(0, capacity) \in Call'
  BY <1>1, <1>2 DEF Probing, Upscale, Call
<1>4. /\ calls' \in Seq(Call') /\ Len(calls') = n + 1
      /\ \A i \in 1 .. n - 1 : calls'[i] = calls[i]
      /\ calls'[n] = Probing(Top.key) /\ calls'[n + 1] = Upscale(0, capacity)
  <2>1. Call \subseteq Call'
    BY <1>1, <1>2 DEF Call
  <2>2. calls \in Seq(Call')
    BY <2>1, SeqMonotonic DEF MapInv, HMTypeOK
  <2> DEFINE x == Probing(Top.key)
             y == Upscale(0, capacity)
             S == Call'
  <2>3. calls \in Seq(S) /\ calls # <<>> /\ x \in S /\ y \in S /\ calls' = Front(calls) \o <<x, y>>
    BY <1>1, <1>3, <2>2
  <2> HIDE DEF x, y, S
  <2>4. TwoInPlace(S, calls, x, y, calls')
    BY <2>3, ReplacedByTwo
  <2> QED
    BY <2>4 DEF TwoInPlace, x, y, S
<1>5. DOMAIN calls' = 1 .. n + 1
  BY <1>4, LenProperties
<1>6. HMTypeOK' /\ capacity' > 4
  <2>1. table' \in [Slots' -> Chars \cup {EMPTY}]
    BY <1>1, <1>2 DEF Extended, Slots, MapInv, HMTypeOK
  <2>2. capacity' \in Nat \ {0} /\ capacity' % 2 = 0 /\ capacity' > 4
    BY <1>1, <1>2
  <2> QED
    BY <1>1, <1>4, <2>1, <2>2 DEF MapInv, HMTypeOK
<1> HIDE DEF n
<1>7. \A i \in 1 .. n + 1 : calls'[i].fn # "insert"
  BY <1>2, <1>3, <1>4 DEF MapInv, LastInserts, n
<1>8. LastInserts' /\ ~ Fresh'
  BY <1>2, <1>4, <1>5, <1>7 DEF LastInserts, Fresh
<1>9. UsedSlots' = UsedSlots /\ \A s \in UsedSlots : table'[s] = table[s]
  BY <1>1, <1>2 DEF UsedSlots, Slots, Extended
<1>10. OnePlace'
  <2>1. \A i \in 1 .. n : (calls'[i].fn \in {"insert", "probe"} <=> calls[i].fn \in {"insert", "probe"})
                          /\ (i = n \/ calls'[i] = calls[i]) /\ (i = n => calls'[i].key = calls[i].key)
    BY <1>1, <1>2, <1>3, <1>4
  <2>2. calls'[n + 1].fn \notin {"insert", "probe"}
    BY <1>3, <1>4
  <2>3. InHand' = InHand /\ \A i \in InHand : calls'[i].key = calls[i].key
    <3>1. \A i \in 1 .. n + 1 : i \in 1 .. n \/ i = n + 1
      BY <1>2
    <3>2. \A i \in 1 .. n : i \in 1 .. n + 1
      BY <1>2
    <3> QED
      BY <1>2, <1>5, <2>1, <2>2, <3>1, <3>2 DEF InHand
  <2> QED
    BY <1>1, <1>9, <2>3, SamePlaces DEF MapInv
<1>11. Roomy'
  <2>1. Cardinality(inserted) \in Nat
    BY Finite DEF MapInv
  <2>2. Settled' = Cardinality(inserted) /\ Cardinality(inserted) <= Settled + 1 /\ Settled \in Int
    BY <1>1, <1>8, <2>1 DEF Settled
  <2>3. (Cardinality(inserted) - 1) * 5 < (2 * capacity) * 4
    BY <1>2, <2>1, <2>2 DEF MapInv, Roomy
  <2> QED
    BY <1>1, <1>9, <2>2, <2>3 DEF MapInv, Roomy
<1> QED
  BY <1>6, <1>8, <1>10, <1>11 DEF MapInv

\* insert puts its key into an empty slot and returns.
LEMMA PlaceStep ==
  ASSUME MapInv, InsertPlace PROVE MapInv'
<1> DEFINE n == Len(calls)
           k == Top.key
           h == HM_index(k, Earliest(Attempts(k, {EMPTY})))
<1>1. /\ calls # <<>> /\ Top.fn = "probe" /\ Attempts(k, {EMPTY}) # {}
      /\ table' = [table EXCEPT ![h] = k] /\ num_elements' = num_elements + 1 /\ Return
      /\ capacity' = capacity /\ inserted' = inserted
  BY DEF InsertPlace
<1>2. /\ n \in Nat /\ n >= 1 /\ DOMAIN calls = 1 .. n /\ Top = calls[n] /\ k \in Chars
  BY <1>1, Innermost DEF MapInv
<1>3. /\ calls' \in Seq(Call) /\ LastInserts' /\ ~ Fresh /\ ~ Fresh'
      /\ DOMAIN calls' = DOMAIN calls \ {n} /\ \A i \in DOMAIN calls' : calls'[i] = calls[i]
  BY <1>1, Returns DEF MapInv
<1>4. h \in Slots /\ table[h] = EMPTY
  <2>1. h \in Slots /\ table[h] \in {EMPTY}
    BY <1>1, <1>2, EarliestAttempt DEF MapInv
  <2> QED
    BY <2>1
<1>5. n \in InHand /\ calls[n].key = k
  BY <1>1, <1>2 DEF InHand
<1>6. InHand' = InHand \ {n} /\ \A i \in InHand' : calls'[i].key = calls[i].key
  BY <1>3 DEF InHand
<1> HIDE DEF n, k, h
<1>7. table \in [Slots -> Chars \cup {EMPTY}] /\ k # EMPTY /\ Slots' = Slots
  BY <1>1, <1>2, HashMapAssumption DEF MapInv, HMTypeOK, Slots
<1>8. /\ table' \in [Slots -> Chars \cup {EMPTY}] /\ table'[h] = k
      /\ \A s \in Slots : s # h => table'[s] = table[s]
  BY <1>1, <1>2, <1>4, <1>7
<1>9. HMTypeOK' /\ capacity' > 4
  <2>1. Call' = Call
    BY <1>1 DEF Call
  <2> QED
    BY <1>1, <1>3, <1>7, <1>8, <2>1 DEF MapInv, HMTypeOK
<1>10. UsedSlots' = UsedSlots \cup {h} /\ h \notin UsedSlots
  BY <1>4, <1>7, <1>8 DEF UsedSlots
<1>11. OnePlace'
  <2>1. \A s \in UsedSlots : s # h /\ table'[s] = table[s]
    BY <1>8, <1>10 DEF UsedSlots
  <2>2. /\ \A s \in UsedSlots : table[s] \in inserted /\ table[s] # k
        /\ \A s, r \in UsedSlots : table[s] = table[r] => s = r
        /\ k \in inserted
        /\ \A i \in InHand : calls[i].key = k => i = n
    BY <1>5 DEF MapInv, OnePlace
  <2>3. \A s \in UsedSlots' : table'[s] \in inserted'
    BY <1>1, <1>8, <1>10, <2>1, <2>2
  <2>4. \A s, r \in UsedSlots' : table'[s] = table'[r] => s = r
    BY <1>8, <1>10, <2>1, <2>2
  <2>5. /\ \A i \in InHand' : calls'[i].key \in inserted' /\ calls'[i].key # k
        /\ \A i, j \in InHand' : calls'[i].key = calls'[j].key => i = j
    BY <1>1, <1>6, <2>2 DEF MapInv, OnePlace
  <2>6. \A i \in InHand', s \in UsedSlots' : calls'[i].key # table'[s]
    BY <1>6, <1>8, <1>10, <2>1, <2>5 DEF MapInv, OnePlace
  <2>7. ASSUME NEW j \in inserted'
        PROVE  (\E s \in UsedSlots' : table'[s] = j) \/ (\E i \in InHand' : calls'[i].key = j)
    <3>1. CASE j = k
      BY <1>8, <1>10, <3>1
    <3>2. CASE j # k /\ \E s \in UsedSlots : table[s] = j
      BY <1>10, <2>1, <3>2
    <3>3. CASE j # k /\ \E i \in InHand : calls[i].key = j
      BY <1>5, <1>6, <3>3
    <3> QED
      BY <1>1, <3>1, <3>2, <3>3 DEF MapInv, OnePlace
  <2> QED
    BY <2>3, <2>4, <2>5, <2>6, <2>7 DEF OnePlace
<1>12. Roomy'
  <2>1. Cardinality(UsedSlots') = Cardinality(UsedSlots) + 1 /\ Cardinality(UsedSlots) \in Nat
    BY <1>10, Finite, FS_AddElement DEF MapInv
  <2>2. Settled' = Settled
    BY <1>1, <1>3 DEF Settled
  <2> QED
    BY <1>1, <2>1, <2>2 DEF MapInv, Roomy, HMTypeOK
<1> QED
  BY <1>3, <1>9, <1>11, <1>12 DEF MapInv

\* upscale takes an entry out of its slot and calls insert for it.
LEMMA MoveStep ==
  ASSUME MapInv, UpscaleMove PROVE MapInv'
<1> DEFINE n == Len(calls)
<1>1. /\ calls # <<>> /\ Top.fn = "upscale"
      /\ capacity' = capacity /\ num_elements' = num_elements /\ inserted' = inserted
  BY DEF UpscaleMove
<1>2. PICK m \in Top.i .. Top.old_capacity - 1 :
        /\ table[m] # EMPTY /\ table' = [table EXCEPT ![m] = EMPTY]
        /\ calls' = Front(calls) \o <<Upscale(m + 1, Top.old_capacity), Insert(table[m])>>
  BY DEF UpscaleMove
<1> DEFINE k == table[m]
           x == Upscale(m + 1, Top.old_capacity)
<1>3. /\ n \in Nat /\ n >= 1 /\ DOMAIN calls = 1 .. n /\ Top = calls[n]
      /\ Top.i \in 0 .. capacity /\ Top.old_capacity \in 0 .. capacity /\ capacity \in Nat
  BY <1>1, Innermost DEF MapInv, HMTypeOK
<1>4. m \in Slots /\ m \in UsedSlots /\ k \in Chars
  <2>1. m \in Slots /\ m \in UsedSlots
    BY <1>2, <1>3 DEF Slots, UsedSlots
  <2> QED
    BY <2>1, Finite DEF MapInv
<1>5. /\ x.fn = "upscale" /\ x \in Call
      /\ Insert(k).fn = "insert" /\ Insert(k).key = k /\ Insert(k) \in Call
  <2>1. m + 1 \in 0 .. capacity /\ Top.old_capacity \in 0 .. capacity
    BY <1>2, <1>3
  <2> QED
    BY <1>4, <2>1 DEF Upscale, Insert, Call
<1>6. /\ calls' \in Seq(Call) /\ Len(calls') = n + 1
      /\ \A i \in 1 .. n - 1 : calls'[i] = calls[i]
      /\ calls'[n] = x /\ calls'[n + 1] = Insert(k)
  <2> DEFINE y == Insert(k)
             S == Call
  <2>1. calls \in Seq(S) /\ calls # <<>> /\ x \in S /\ y \in S /\ calls' = Front(calls) \o <<x, y>>
    BY <1>1, <1>2, <1>5 DEF MapInv, HMTypeOK
  <2> HIDE DEF x, y, S
  <2>2. TwoInPlace(S, calls, x, y, calls')
    BY <2>1, ReplacedByTwo
  <2> QED
    BY <2>2 DEF TwoInPlace, y, S
<1>7. DOMAIN calls' = 1 .. n + 1
  BY <1>6, LenProperties
<1> HIDE DEF n, k, x
<1>8. table \in [Slots -> Chars \cup {EMPTY}] /\ Slots' = Slots
  BY <1>1 DEF MapInv, HMTypeOK, Slots
<1>9. /\ table' \in [Slots -> Chars \cup {EMPTY}] /\ table'[m] = EMPTY
      /\ \A s \in Slots : s # m => table'[s] = table[s]
  BY <1>2, <1>4, <1>8
<1>10. HMTypeOK' /\ capacity' > 4
  <2>1. Call' = Call
    BY <1>1 DEF Call
  <2> QED
    BY <1>1, <1>6, <1>8, <1>9, <2>1 DEF MapInv, HMTypeOK
<1>11. UsedSlots' = UsedSlots \ {m} /\ \A s \in UsedSlots' : table'[s] = table[s]
  BY <1>4, <1>8, <1>9 DEF UsedSlots
<1>12. \A i \in 1 .. n + 1 : i \in 1 .. n - 1 \/ i = n \/ i = n + 1
  BY <1>3
<1>13. calls[n].fn = "upscale" /\ \A i \in 1 .. n : calls[i].fn # "insert"
  BY <1>1, <1>3 DEF MapInv, LastInserts, n
<1>14. LastInserts' /\ ~ Fresh' /\ ~ Fresh
  <2>1. \A i \in 1 .. n + 1 : i # n + 1 => calls'[i].fn # "insert"
    <3>1. \A i \in 1 .. n - 1 : i \in 1 .. n
      BY <1>3
    <3> QED
      BY <1>5, <1>6, <1>12, <1>13, <3>1
  <2>2. LastInserts'
    BY <1>6, <1>7, <2>1 DEF LastInserts
  <2>3. ~ Fresh'
    BY <1>3, <1>6 DEF Fresh
  <2>4. n = 1 => calls[1].fn # "insert"
    BY <1>13
  <2>5. ~ Fresh
    BY <2>4 DEF Fresh, n
  <2> QED
    BY <2>2, <2>3, <2>5
<1>15. /\ n + 1 \notin InHand /\ InHand' = InHand \cup {n + 1}
       /\ calls'[n + 1].key = k /\ \A i \in InHand : calls'[i].key = calls[i].key
  <2>1. \A i \in 1 .. n - 1 : i \in 1 .. n /\ i \in 1 .. n + 1
    BY <1>3
  <2>2. \A i \in 1 .. n : i \in 1 .. n - 1 \/ i = n
    BY <1>3
  <2>3. n + 1 \in 1 .. n + 1 /\ n + 1 \notin 1 .. n
    BY <1>3
  <2> QED
    BY <1>3, <1>5, <1>6, <1>7, <1>12, <1>13, <2>1, <2>2, <2>3 DEF InHand
<1>16. OnePlace'
  <2>1. /\ \A s \in UsedSlots : table[s] \in inserted /\ (table[s] = k => s = m)
        /\ \A i \in InHand : calls[i].key \in inserted /\ calls[i].key # k
    BY <1>4 DEF MapInv, OnePlace, k
  <2>2. /\ \A s \in UsedSlots' : table'[s] \in inserted' /\ table'[s] # k
        /\ \A s, r \in UsedSlots' : table'[s] = table'[r] => s = r
    BY <1>1, <1>11, <2>1 DEF MapInv, OnePlace
  <2>3. k \in inserted
    BY <1>4, <2>1 DEF k
  <2>4. \A i \in InHand' : calls'[i].key \in inserted'
    BY <1>1, <1>15, <2>1, <2>3
  <2>5. \A i, j \in InHand' : calls'[i].key = calls'[j].key => i = j
    BY <1>15, <2>1 DEF MapInv, OnePlace
  <2>6. \A i \in InHand', s \in UsedSlots' : calls'[i].key # table'[s]
    BY <1>11, <1>15, <2>2 DEF MapInv, OnePlace
  <2>7. ASSUME NEW j \in inserted'
        PROVE  (\E s \in UsedSlots' : table'[s] = j) \/ (\E i \in InHand' : calls'[i].key = j)
    <3>1. CASE j = k
      BY <1>15, <3>1
    <3>2. CASE j # k /\ \E s \in UsedSlots : table[s] = j
      BY <1>11, <3>2 DEF k
    <3>3. CASE j # k /\ \E i \in InHand : calls[i].key = j
      BY <1>15, <3>3
    <3> QED
      BY <1>1, <3>1, <3>2, <3>3 DEF MapInv, OnePlace
  <2> QED
    BY <2>2, <2>4, <2>5, <2>6, <2>7 DEF OnePlace
<1>17. Roomy'
  <2>1. Cardinality(UsedSlots') = Cardinality(UsedSlots) - 1 /\ Cardinality(UsedSlots) \in Nat
    BY <1>4, <1>11, Finite, FS_RemoveElement DEF MapInv
  <2>2. Settled' = Settled
    BY <1>1, <1>14 DEF Settled
  <2> QED
    BY <1>1, <2>1, <2>2 DEF MapInv, Roomy, HMTypeOK
<1> QED
  BY <1>10, <1>14, <1>16, <1>17 DEF MapInv

\* upscale returns.
LEMMA UpscaleReturnStep ==
  ASSUME MapInv, UpscaleReturn PROVE MapInv'
<1> DEFINE n == Len(calls)
<1>1. /\ calls # <<>> /\ Top.fn = "upscale" /\ Return
      /\ capacity' = capacity /\ num_elements' = num_elements /\ table' = table /\ inserted' = inserted
  BY DEF UpscaleReturn
<1>2. DOMAIN calls = 1 .. n /\ n \in DOMAIN calls /\ Top = calls[n]
  BY <1>1, Innermost DEF MapInv
<1>3. /\ calls' \in Seq(Call) /\ LastInserts' /\ ~ Fresh /\ ~ Fresh'
      /\ DOMAIN calls' = DOMAIN calls \ {n} /\ \A i \in DOMAIN calls' : calls'[i] = calls[i]
  BY <1>1, Returns DEF MapInv
<1> HIDE DEF n
<1>4. HMTypeOK' /\ capacity' > 4
  <2>1. Call' = Call /\ Slots' = Slots
    BY <1>1 DEF Call, Slots
  <2> QED
    BY <1>1, <1>3, <2>1 DEF MapInv, HMTypeOK
<1>5. OnePlace'
  <2>1. InHand' = InHand /\ \A i \in InHand : calls'[i].key = calls[i].key
    BY <1>1, <1>2, <1>3 DEF InHand
  <2> QED
    BY <1>1, <2>1, UsedSame, SamePlaces DEF MapInv
<1>6. Roomy'
  <2>1. Settled' = Settled
    BY <1>1, <1>3 DEF Settled
  <2> QED
    BY <1>1, <2>1, UsedSame DEF MapInv, Roomy
<1> QED
  BY <1>3, <1>4, <1>5, <1>6 DEF MapInv

\* Every step of insert and of upscale keeps the invariant.
LEMMA MapStep == MapInv /\ [HMNext]_hmVars => MapInv'
<1> SUFFICES ASSUME MapInv, [HMNext]_hmVars PROVE MapInv'
  OBVIOUS
<1>1. CASE UNCHANGED hmVars
  BY <1>1 DEF hmVars, MapInv, HMTypeOK, LastInserts, OnePlace, Roomy, Settled, Fresh, UsedSlots, InHand, Slots, Call
<1>2. CASE HMNext
  BY <1>2, AddStep, InsertStep, UpscaleStep, PlaceStep, MoveStep, UpscaleReturnStep DEF HMNext
<1> QED
  BY <1>1, <1>2

-----------------------------------------------------------------------------
(* Theorems *)

\* The inductive invariant is one.
LEMMA MapAlways == HMSpec => []MapInv
BY MapInit, MapStep, PTL DEF HMSpec

\* Every variable stays in its type, and the capacity stays even.
THEOREM MapWellFormed == HMSpec => []HMTypeOK
<1>1. MapInv => HMTypeOK
  BY DEF MapInv
<1> QED
  BY <1>1, MapAlways, PTL

\* The rehash in place keeps every entry, once: for any chars, in any order, however the insertions
\* and the upscales of upscale are nested.
THEOREM EntriesAlwaysKept == HMSpec => []EntriesKept
BY MapAlways, InvKeeps, PTL

\* The load stays below the bound, although num_elements is not the number of entries.
THEOREM LoadAlwaysBounded == HMSpec => []LoadBounded
BY MapAlways, InvBounds, PTL

\* So the loops of insert and of get, which count no attempts, end: the probe for any key comes to an
\* empty slot.
ProbesEnd == \A k \in Chars : Attempts(k, {EMPTY}) # {}

\* The probes of insert and of get, which count no attempts, come to an empty slot and end.
THEOREM ProbesAlwaysEnd == HMSpec => []ProbesEnd
<1>1. ASSUME MapInv, NEW k \in Chars PROVE Attempts(k, {EMPTY}) # {}
  <2>1. Cardinality(UsedSlots) < capacity /\ capacity \in Nat /\ HMTypeOK
    BY <1>1, InvBounds DEF MapInv, LoadBounded, HMTypeOK
  <2>2. Cardinality(Slots) = capacity
    BY <2>1, FS_Interval DEF Slots
  <2>3. PICK s \in Slots : table[s] = EMPTY
    <3>1. UsedSlots # Slots
      BY <2>1, <2>2
    <3> QED
      BY <3>1 DEF UsedSlots
  <2>4. PICK i \in 0 .. capacity - 1 : HM_index(k, i) = s
    BY <2>1, ProbeReaches
  <2> QED
    BY <2>3, <2>4 DEF Attempts
<1>2. MapInv => ProbesEnd
  BY <1>1 DEF ProbesEnd
<1> QED
  BY <1>2, MapAlways, PTL
=============================================================================
