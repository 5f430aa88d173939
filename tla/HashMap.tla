------------------------------ MODULE HashMap ------------------------------
(* The open-addressing hash map of hashmap.ct as the read table uses it       *)
(* (readtable.ct): char to reader macro, one insertion a char, look-ups and   *)
(* no removal.  A slot holds a key, which stands for the key and its macro.   *)
(* The upscale inserts with the function that called it, while it walks over  *)
(* the very table it inserts into, so the calls in progress are a stack and   *)
(* every insertion is a step.                                                 *)
EXTENDS Naturals, FiniteSets, Sequences, SequencesExt

CONSTANTS Chars,          \* the chars that get a reader macro
          Rank,           \* the order in which they are added; equal ranks in any
          INITIAL_SIZE,
          EMPTY            \* what a slot holds while its not_null is false

ASSUME HashMapAssumption ==
  /\ Chars \subseteq Nat
  /\ IsFiniteSet(Chars)
  /\ Rank \in [Chars -> Nat]
  /\ INITIAL_SIZE \in Nat /\ INITIAL_SIZE > 4   \* of 4 slots, 3 are below the load that upscales
  /\ INITIAL_SIZE % 2 = 0
  /\ EMPTY \notin Nat

VARIABLES
  capacity,
  num_elements,
  table,
  calls,        \* the calls of insert and upscale in progress, innermost last
  inserted      \* auxiliary: the keys inserted so far

hmVars == <<capacity, num_elements, table, calls, inserted>>

\* hash_char is the identity and the macro's (i + i^2)/2 is (2i xor 2)/2, ^
\* being exclusive or in C: the slots after the hash, each pair swapped.
Offset(i) == IF i % 2 = 0 THEN i + 1 ELSE i - 1
HM_index(k, i) == (k + Offset(i)) % capacity

\* The attempts of a probe that come to a slot which satisfies S.
Attempts(k, S) == {i \in 0 .. capacity - 1 : table[HM_index(k, i)] \in S}
Earliest(A) == CHOOSE i \in A : \A j \in A : i <= j

\* The probe ends at the key or at the first empty slot.
HM_get(k) == table[HM_index(k, Earliest(Attempts(k, {k, EMPTY})))]

\* A call of insert that has not looked at the load yet, one that has, and a
\* call of upscale that goes on at slot i.
Insert(k)     == [fn |-> "insert", key |-> k]
Probing(k)    == [fn |-> "probe", key |-> k]
Upscale(i, n) == [fn |-> "upscale", i |-> i, old_capacity |-> n]

Top == Last(calls)
Return == calls' = Front(calls)

\* readtable_new
HMInit ==
  /\ capacity = INITIAL_SIZE
  /\ num_elements = 0
  /\ table = [s \in 0 .. INITIAL_SIZE - 1 |-> EMPTY]
  /\ calls = <<>>
  /\ inserted = {}

\* readtable_add_macro of a char that has none.
readtable_add_macro(k) ==
  /\ calls = <<>>
  /\ k \notin inserted
  /\ \A j \in Chars \ inserted : Rank[k] <= Rank[j]
  /\ inserted' = inserted \cup {k}
  /\ calls' = <<Insert(k)>>
  /\ UNCHANGED <<capacity, num_elements, table>>

\* A mutated form, and the code's.
Loaded_never == FALSE
Loaded == num_elements * 5 >= capacity * 4

Extended == [s \in 0 .. 2 * capacity - 1 |-> IF s < capacity THEN table[s] ELSE EMPTY]

\* Mutated forms: no specification uses them, each breaks a property of a run.
HM_upscale_capacity_kept ==
  /\ calls # <<>> /\ Top.fn = "insert" /\ Loaded
  /\ table' = Extended
  /\ calls' = Front(calls) \o <<Probing(Top.key), Upscale(0, capacity)>>
  /\ UNCHANGED <<capacity, num_elements, inserted>>
HM_upscale_without_rehash ==
  /\ calls # <<>> /\ Top.fn = "insert" /\ Loaded
  /\ capacity' = 2 * capacity
  /\ table' = Extended
  /\ calls' = Append(Front(calls), Probing(Top.key))
  /\ UNCHANGED <<num_elements, inserted>>
UpscaleMove_copies ==
  /\ calls # <<>> /\ Top.fn = "upscale"
  /\ \E i \in Top.i .. Top.old_capacity - 1 :
       /\ table[i] # EMPTY
       /\ \A s \in Top.i .. i - 1 : table[s] = EMPTY
       /\ calls' = Front(calls) \o <<Upscale(i + 1, Top.old_capacity), Insert(table[i])>>
  /\ UNCHANGED <<capacity, num_elements, table, inserted>>

\* insert finds 0.8 of the capacity used and calls upscale.
HM_upscale ==
  /\ calls # <<>> /\ Top.fn = "insert" /\ Loaded
  /\ capacity' = 2 * capacity
  /\ table' = Extended
  /\ calls' = Front(calls) \o <<Probing(Top.key), Upscale(0, capacity)>>
  /\ UNCHANGED <<num_elements, inserted>>

InsertWithoutUpscale ==
  /\ calls # <<>> /\ Top.fn = "insert" /\ ~Loaded
  /\ calls' = Append(Front(calls), Probing(Top.key))
  /\ UNCHANGED <<capacity, num_elements, table, inserted>>

\* The probe of insert takes the first empty slot and would not end without one.
InsertPlace ==
  /\ calls # <<>> /\ Top.fn = "probe"
  /\ LET free == Attempts(Top.key, {EMPTY})
     IN  /\ free # {}
         /\ table' = [table EXCEPT ![HM_index(Top.key, Earliest(free))] = Top.key]
  /\ num_elements' = num_elements + 1
  /\ Return
  /\ UNCHANGED <<capacity, inserted>>

\* upscale takes the next entry of the old part out of its slot and inserts it.
UpscaleMove ==
  /\ calls # <<>> /\ Top.fn = "upscale"
  /\ \E i \in Top.i .. Top.old_capacity - 1 :
       /\ table[i] # EMPTY
       /\ \A s \in Top.i .. i - 1 : table[s] = EMPTY
       /\ table' = [table EXCEPT ![i] = EMPTY]
       /\ calls' = Front(calls) \o <<Upscale(i + 1, Top.old_capacity), Insert(table[i])>>
  /\ UNCHANGED <<capacity, num_elements, inserted>>

UpscaleReturn ==
  /\ calls # <<>> /\ Top.fn = "upscale"
  /\ \A s \in Top.i .. Top.old_capacity - 1 : table[s] = EMPTY
  /\ Return
  /\ UNCHANGED <<capacity, num_elements, table, inserted>>

HMNext ==
  \/ \E k \in Chars : readtable_add_macro(k)
  \/ HM_upscale \/ InsertWithoutUpscale \/ InsertPlace
  \/ UpscaleMove \/ UpscaleReturn

HMSpec == HMInit /\ [][HMNext]_hmVars

-----------------------------------------------------------------------------
(* Properties *)

Slots == 0 .. capacity - 1
Call == [fn : {"insert", "probe"}, key : Chars]
        \cup [fn : {"upscale"}, i : 0 .. capacity, old_capacity : 0 .. capacity]

\* Every variable stays in its type; the capacity stays even, which makes the
\* pairwise swapped probe visit every slot.
HMTypeOK ==
  /\ capacity \in Nat \ {0} /\ capacity % 2 = 0
  /\ num_elements \in Nat
  /\ table \in [Slots -> Chars \cup {EMPTY}]
  /\ calls \in Seq(Call)
  /\ inserted \subseteq Chars

UsedSlots == {s \in Slots : table[s] # EMPTY}
InHand == {i \in DOMAIN calls : calls[i].fn \in {"insert", "probe"}}

\* Rehashing in place neither drops nor doubles an entry: every inserted key is
\* in exactly one slot or in the hand of exactly one call in progress.
EntriesKept ==
  \A k \in Chars :
    Cardinality({s \in UsedSlots : table[s] = k}) + Cardinality({i \in InHand : calls[i].key = k})
      = IF k \in inserted THEN 1 ELSE 0

\* No more than 0.8 of the slots are in use before the last insertion, although
\* num_elements counts a moved entry again: it errs only to the safe side.  So
\* the probes, which have no bound of their own, end at an empty slot.
LoadBounded ==
  /\ Cardinality(UsedSlots) <= num_elements
  /\ Cardinality(UsedSlots) < capacity
  /\ UsedSlots # {} => (Cardinality(UsedSlots) - 1) * 5 < capacity * 4

\* Between two calls readtable_get_macro finds the macro of every char that was
\* given one.
Found == calls = <<>> => \A k \in inserted : HM_get(k) = k
=============================================================================
