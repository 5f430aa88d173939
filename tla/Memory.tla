------------------------------- MODULE Memory -------------------------------
(* The memory of the call tree: every node has an arena of the pool           *)
(* (arenapool.c) for as long as it lives (interpreter.c 37-78).  Its header,  *)
(* a CallTree, is in the arena of its parent; its symbol table, the results   *)
(* of its arguments and what it allocates are in its own.  The program's      *)
(* calls nest, so that the youngest node goes first; a node may have any      *)
(* node for its parent (p_eval_at, p_load).                                   *)
(*                                                                            *)
(* An object is a block that the program uses: byte i of object o is <<o, i>>.*)
(* A list of children is one that grows.                                      *)
EXTENDS Arenas, DynArrays, FiniteSets

CONSTANTS
  Sexp, CallTree, Symboltable,   \* the sizes of the C types
  ArgCounts,                     \* the numbers of results a node keeps
  Sizes,                         \* the sizes that p_ct_alloc is called with
  MAX_NODES, MAX_OBJECTS,        \* bounds of the model: nodes and objects at a time
  Lengths, MAX_CHILDREN          \* bounds of the model: the children of lists

ASSUME MemoryAssumption ==
  /\ {Sexp, CallTree, Symboltable} \cup Sizes \subseteq Nat \ {0}
  /\ ArgCounts \cup Lengths \subseteq Nat
  /\ MAX_NODES \in Nat /\ MAX_CHILDREN \in Nat
  /\ MAX_OBJECTS \in Nat /\ MAX_OBJECTS >= 2     \* what the root needs

VARIABLES
  total,        \* the array of the pool's arenas
  available,    \* the stack of the unused ones, as indices
  nodes,        \* the arenas of the call tree's nodes, the root's first
  objects,      \* auxiliary: object |-> the node it lives as long as, its place and size, whether a list
  most          \* auxiliary: the largest number of nodes there have been

vars == <<total, available, nodes, objects, most>>

Object(depth, ptr, size, list) == [depth |-> depth, ptr |-> ptr, size |-> size, list |-> list]

Names == 1..MAX_OBJECTS
Unused(objs) == Names \ DOMAIN objs
NewName(objs) == CHOOSE o \in Unused(objs) : TRUE

Heap == [total |-> total, objects |-> objects]

\* The content of bytes first to last of object o.
Bytes(o, first, last) == [i \in first..last |-> <<o, i>>]

\* The heap with one more object of the node at depth, filled by the program.
Allocated(heap, depth, arena, size, list) ==
  LET name == NewName(heap.objects)
      new  == inner_alloc(heap.total.items[arena], size)
  IN  [total   |-> [heap.total EXCEPT !.items[arena] =
                      Written(new.arena, new.ptr, Bytes(name, 0, size - 1))],
       objects |-> [o \in DOMAIN heap.objects \cup {name} |->
                      IF o = name THEN Object(depth, new.ptr, size, list) ELSE heap.objects[o]]]

\* The unused arena on top of the stack, or a new one.
arena_pool_get_unpopped ==
  IF available.items = <<>>
  THEN LET made == nob_da_append(total, arena_allocator_new)
       IN  [total |-> made, available |-> available, arena |-> Len(made.items)]
  ELSE [total |-> total, available |-> available, arena |-> nob_da_last(available)]
arena_pool_get ==
  IF available.items = <<>>
  THEN LET made == nob_da_append(total, arena_allocator_new)
       IN  [total |-> made, available |-> available, arena |-> Len(made.items)]
  ELSE LET popped == nob_da_pop(available)
       IN  [total |-> total, available |-> popped.da, arena |-> popped.item]

\* stackstate_new: an arena with a symbol table and num zeroed results.
stackstate_new(heap, depth, arena, num) ==
  Allocated(Allocated(heap, depth, arena, Symboltable, FALSE), depth, arena, num * Sexp, FALSE)

\* interpreter_new: the root has no results, and its CallTree is not in an arena.
arena_pool_new == [total |-> EmptyArray, available |-> EmptyArray]
Init ==
  LET pool == arena_pool_new
      root == stackstate_new([total   |-> nob_da_append(pool.total, arena_allocator_new),
                              objects |-> [o \in {} |-> 0]], 1, 1, 0)
  IN  /\ total = root.total
      /\ available = pool.available
      /\ nodes = <<1>>
      /\ objects = root.objects
      /\ most = 1

calltree_child_at(parent, num) ==
  /\ nodes # <<>> /\ Len(nodes) < MAX_NODES /\ Cardinality(Unused(objects)) >= 3
  /\ LET got    == arena_pool_get
         header == Allocated([total |-> got.total, objects |-> objects], parent, nodes[parent],
                            CallTree, FALSE)
         child  == stackstate_new(header, Len(nodes) + 1, got.arena, num)
     IN  /\ total' = child.total
         /\ objects' = child.objects
         /\ available' = got.available
         /\ nodes' = Append(nodes, got.arena)
  /\ most' = IF Len(nodes) < most THEN most ELSE Len(nodes) + 1

\* The objects without those of the node at depth.
Released(objs, depth) == [o \in {p \in DOMAIN objs : objs[p].depth # depth} |-> objs[o]]

arena_pool_return(arena) ==
  /\ total' = [total EXCEPT !.items[arena] = arena_allocator_reset(@)]
  /\ available' = nob_da_append(available, arena)

calltree_destroy ==
  /\ Len(nodes) > 1
  /\ arena_pool_return(nodes[Len(nodes)])
  /\ objects' = Released(objects, Len(nodes))
  /\ nodes' = SubSeq(nodes, 1, Len(nodes) - 1)
  /\ UNCHANGED most

\* A block in the arena of a node.
calltree_alloc(depth, size, list) ==
  /\ Unused(objects) # {}
  /\ LET heap == Allocated(Heap, depth, nodes[depth], size, list)
     IN  total' = heap.total /\ objects' = heap.objects
  /\ UNCHANGED <<available, nodes, most>>

\* The program may allocate in any node that it has a pointer to.
p_ct_alloc(depth, size) == calltree_alloc(depth, size, FALSE)

\* A list of a length that is known: its children are zeroed, and then written.
sexp_list_reserved(depth, len) == calltree_alloc(depth, len * Sexp, FALSE)

\* The first child of a list: its array is allocated as by a realloc of NULL.
sexp_list_append_first(depth) == calltree_alloc(depth, Sexp, TRUE)

\* The heap with one more child in list o: the array moves, and only the new child is written.
Grown(heap, o, arena) ==
  LET old == heap.objects[o].size
      new == inner_realloc(heap.total.items[arena], heap.objects[o].ptr, old, old + Sexp)
  IN  [total   |-> [heap.total EXCEPT !.items[arena] =
                      Written(new.arena, new.ptr, Bytes(o, old, old + Sexp - 1))],
       objects |-> [heap.objects EXCEPT ![o] = Object(@.depth, new.ptr, old + Sexp, TRUE)]]

sexp_list_append(o) ==
  /\ objects[o].list /\ objects[o].size < MAX_CHILDREN * Sexp
  /\ LET heap == Grown(Heap, o, nodes[objects[o].depth])
     IN  total' = heap.total /\ objects' = heap.objects
  /\ UNCHANGED <<available, nodes, most>>

\* Every arena is freed, whether a node has it or not.
arena_pool_destroy(pool) ==
  /\ total' = [pool.total EXCEPT !.items = [i \in DOMAIN @ |-> arena_allocator_free(@[i])]]
  /\ available' = pool.available

\* The root's arena goes with the pool.
interpreter_free ==
  /\ Len(nodes) = 1
  /\ arena_pool_destroy([total |-> total, available |-> available])
  /\ nodes' = <<>>
  /\ objects' = [o \in {} |-> 0]
  /\ UNCHANGED most

Next ==
  \/ \E depth \in DOMAIN nodes :
       \/ \E num \in ArgCounts : calltree_child_at(depth, num)
       \/ \E size \in Sizes : p_ct_alloc(depth, size)
       \/ \E len \in Lengths : sexp_list_reserved(depth, len)
       \/ sexp_list_append_first(depth)
  \/ \E o \in DOMAIN objects : sexp_list_append(o)
  \/ calltree_destroy
  \/ interpreter_free

Spec == Init /\ [][Next]_vars

-----------------------------------------------------------------------------
(* Properties *)

Unspent(a) == a.end \in {0, 1} /\ \A i \in DOMAIN a.regions : a.regions[i].count = 0

\* No region is used beyond its capacity, none behind end is used, and the unused arenas are empty.
TypeOK ==
  /\ \A n \in DOMAIN total.items :
       /\ total.items[n].end \in 0..Len(total.items[n].regions)
       /\ total.items[n].end = 0 <=> total.items[n].regions = <<>>
       /\ \A i \in DOMAIN total.items[n].regions :
            /\ total.items[n].regions[i].count \in 0..total.items[n].regions[i].capacity
            /\ i > total.items[n].end => total.items[n].regions[i].count = 0
  /\ Len(total.items) <= total.capacity /\ Len(available.items) <= available.capacity
  /\ available.items \in Seq(DOMAIN total.items)
  /\ \A i \in DOMAIN available.items : Unspent(total.items[available.items[i]])
  /\ nodes \in Seq(DOMAIN total.items)
  /\ DOMAIN objects \subseteq Names

\* The size bytes at ptr are given out by arena a.
GivenOut(a, ptr, size) ==
  ptr.region \in DOMAIN a.regions /\ ptr.at + size <= WORD * a.regions[ptr.region].count

\* Every object of a node that lives is memory of its arena that is given out, with the content that the
\* program gave it: no other was laid over it, whatever was allocated, in which node, and freed meanwhile,
\* and a list that moves keeps its children.
ObjectsKept ==
  \A o \in DOMAIN objects :
    /\ objects[o].depth \in DOMAIN nodes
    /\ GivenOut(total.items[nodes[objects[o].depth]], objects[o].ptr, objects[o].size)
    /\ \A i \in 0..(objects[o].size - 1) :
         Read(total.items[nodes[objects[o].depth]], objects[o].ptr, i) = <<o, i>>

\* The pool has no more arenas than there were nodes at a time, and none is in two places.
PoolReuses ==
  nodes # <<>> =>
    /\ Len(total.items) = most
    /\ Len(nodes) + Len(available.items) = most
    /\ {nodes[i] : i \in DOMAIN nodes} \cup {available.items[i] : i \in DOMAIN available.items} = 1..most
=============================================================================
