---------------------------- MODULE SymbolTable ----------------------------
(* The tables of symbols (symboltable.c), of intrinsics and of reader macros   *)
(* (primitives.c) over the hash table; one table stands for each.  The first  *)
(* two remove an entry by calling ht_delete with the key, where ht_delete     *)
(* takes the pointer to the value.                                            *)
EXTENDS HashTable

CONSTANT SIZE_MAX       \* the greatest size_t

VARIABLE removed        \* auxiliary: the keys removed and not set since

symbolVars == <<vars, removed>>

SymbolInit == Init /\ removed = {}

symboltable_set(k, v) == ht_put(k, v) /\ removed' = removed \ {k}

symboltable_peek(k) ==
  /\ answer' = LET s == ht__find(ht, k) IN IF s = NULL THEN NULL ELSE ht.slots[s].value
  /\ UNCHANGED <<ht, value, iter, pointed, visited, removed>>

symboltable_get_ref(k) == ht_find(k) /\ UNCHANGED removed

\* What is done of ht_delete to the table when the pointer is to no slot of it.
\* The mark goes where the hash of such a slot would be: behind the key's chars.
Undeleted(t) == [t EXCEPT !.count = IF @ = 0 THEN SIZE_MAX ELSE @ - 1]

symboltable_remove(k) ==
  LET s == ht__find(ht, k)
  IN  /\ ht' = IF s = NULL THEN ht ELSE Undeleted(ht)
      /\ answer' = IF s = NULL THEN NULL ELSE ht.slots[s].value
      /\ removed' = removed \cup {k}
      /\ UNCHANGED <<value, iter, pointed, visited>>

symboltable_free == ht_free /\ removed' = {}

\* The second of its two puts makes the value the default one before it is set.
primitives_set_macro(k, v) ==
  /\ iter = NULL
  /\ ht' = ht__put(ht__put(ht, k, default_value), k, v)
  /\ answer' = v
  /\ Forget
  /\ removed' = removed \ {k}
  /\ UNCHANGED <<iter, visited>>

primitives_unset_macro(k) ==
  /\ ht' = Undeleted(ht)
  /\ removed' = removed \cup {k}
  /\ UNCHANGED <<value, iter, answer, pointed, visited>>

primitives_get_macro(k) == symboltable_peek(k)

\* The table of reader macros is a third one; its entries do go.
primitives_set_reader(k, v) == primitives_set_macro(k, v)
primitives_unset_reader(k) == ht_find_and_delete(k) /\ removed' = removed \cup {k}

\* The loop of primitives_export_readers, entry after entry.
primitives_export_readers == ht_next /\ UNCHANGED removed

SymbolNext ==
  \/ \E k \in Keys :
       \/ \E v \in Values :
            symboltable_set(k, v) \/ primitives_set_macro(k, v) \/ primitives_set_reader(k, v)
       \/ symboltable_peek(k) \/ symboltable_get_ref(k) \/ primitives_get_macro(k)
       \/ symboltable_remove(k) \/ primitives_unset_macro(k) \/ primitives_unset_reader(k)
  \/ \E v \in Values : Write(v) /\ UNCHANGED removed
  \/ primitives_export_readers
  \/ symboltable_free

SymbolSpec == SymbolInit /\ [][SymbolNext]_symbolVars

-----------------------------------------------------------------------------
\* "Delete the element by the pointer to its value slot" (ht.h:277): a symbol
\* that has been removed is not found until it is set again.
RemoveRemoves == \A k \in removed : ht__find(ht, k) = NULL
=============================================================================
