------------------------------- MODULE Arenas -------------------------------
(* The arenas that sexps and calls live in (allocators/arena.h), behind the   *)
(* Allocator of allocators/arena-alloc.c.  An arena is a list of regions; the *)
(* bytes of a region are given out in order, by words.  end is the region     *)
(* given out of, 0 for NULL.  Memory that is not given out has no content.    *)
EXTENDS Integers, Sequences

CONSTANTS
  WORD,                              \* sizeof(uintptr_t), in bytes
  ARENA_REGION_DEFAULT_CAPACITY      \* in words

ASSUME ArenasAssumption ==
  /\ WORD \in Nat \ {0}
  /\ ARENA_REGION_DEFAULT_CAPACITY \in Nat \ {0}

None == <<>>                         \* the content of memory that was not written

Words_rounded_down(bytes) == bytes \div WORD
Words(bytes) == (bytes + WORD - 1) \div WORD

new_region(words) ==
  [capacity |-> words, count |-> 0, data |-> [i \in 0..(WORD * words - 1) |-> None]]

EmptyArena == [regions |-> <<>>, end |-> 0]
arena_allocator_new == EmptyArena

Fits(region, size) == region.count + size <= region.capacity

\* The region that arena_alloc stops at: the first from end on that has room, or the last.
Stop(a, size) ==
  CHOOSE i \in a.end..Len(a.regions) :
    /\ Fits(a.regions[i], size) \/ i = Len(a.regions)
    /\ \A j \in a.end..(i - 1) : ~Fits(a.regions[j], size)

\* The arena with a region at end that has room for size words.
WithRoom(a, size) ==
  IF a.end # 0 /\ Fits(a.regions[Stop(a, size)], size)
  THEN [a EXCEPT !.end = Stop(a, size)]
  ELSE LET capacity == IF ARENA_REGION_DEFAULT_CAPACITY < size THEN size ELSE ARENA_REGION_DEFAULT_CAPACITY
       IN  [regions |-> Append(a.regions, new_region(capacity)), end |-> Len(a.regions) + 1]

\* The arena after the allocation, and the pointer.
arena_alloc(a, size_bytes) ==
  LET room == WithRoom(a, Words(size_bytes))
  IN  [arena |-> [room EXCEPT !.regions[room.end].count = @ + Words(size_bytes)],
       ptr   |-> [region |-> room.end, at |-> WORD * room.regions[room.end].count]]

Read(a, ptr, i) == a.regions[ptr.region].data[ptr.at + i]

\* bytes, a function from offsets, written at a pointer.
Written(a, ptr, bytes) ==
  [a EXCEPT !.regions[ptr.region].data =
     [i \in DOMAIN @ |-> IF i - ptr.at \in DOMAIN bytes THEN bytes[i - ptr.at] ELSE @[i]]]

arena_realloc(a, oldptr, oldsz, newsz) ==
  IF newsz <= oldsz THEN [arena |-> a, ptr |-> oldptr]
  ELSE LET new == arena_alloc(a, newsz)
       IN  [new EXCEPT !.arena = Written(@, new.ptr, [i \in 0..(oldsz - 1) |-> Read(a, oldptr, i)])]

\* The functions of the Allocator.
inner_alloc(a, size) == arena_alloc(a, size)
inner_realloc(a, ptr, oldsz, newsz) == arena_realloc(a, ptr, oldsz, newsz)

\* Every region is empty again; none is freed.
arena_reset_of_last(a) ==
  IF a.regions = <<>> THEN a ELSE [a EXCEPT !.regions[a.end] = new_region(@.capacity), !.end = 1]
arena_reset(a) ==
  [regions |-> [i \in DOMAIN a.regions |-> new_region(a.regions[i].capacity)],
   end     |-> IF a.regions = <<>> THEN 0 ELSE 1]
arena_allocator_reset(a) == arena_reset(a)

\* Every region is freed.
free_region(a) == [a EXCEPT !.regions = Tail(@)]
arena_free(a) ==
  LET freed[i \in 0..Len(a.regions)] == IF i = 0 THEN a ELSE free_region(freed[i - 1])
  IN  [freed[Len(a.regions)] EXCEPT !.end = 0]
arena_allocator_free(a) == arena_free(a)
=============================================================================
