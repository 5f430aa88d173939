---------------------------- MODULE MemoryProofs ----------------------------
(* Proofs about Memory, for words, regions and types of any size, any number  *)
(* of nodes and objects, and lists of any length.                             *)
EXTENDS Memory, Lemmas

-----------------------------------------------------------------------------
(* What is invariant *)

Content == {None} \cup (Names \X Nat)

Region ==
  UNION {[capacity : {c}, count : 0..c, data : [0..(WORD * c - 1) -> Content]] : c \in Nat}

Arena ==
  {a \in [regions : Seq(Region), end : Nat] :
     /\ a.end <= Len(a.regions)
     /\ a.end = 0 => Len(a.regions) = 0
     /\ \A i \in 1..Len(a.regions) : i > a.end => a.regions[i].count = 0}

Ptr == [region : Nat, at : Nat]

\* size bytes at ptr are given out.
BlockIn(a, ptr, size) ==
  /\ ptr \in Ptr
  /\ ptr.region \in 1..Len(a.regions)
  /\ ptr.at + size <= WORD * a.regions[ptr.region].count

\* size bytes at ptr are not given out.
BlockFree(a, ptr) ==
  ptr.region \in 1..Len(a.regions) => ptr.at >= WORD * a.regions[ptr.region].count

\* What is given out in a is given out in b, with the same content.
Extends(a, b) ==
  /\ Len(a.regions) <= Len(b.regions)
  /\ \A r \in 1..Len(a.regions) :
       /\ a.regions[r].count <= b.regions[r].count
       /\ \A i \in 0..(WORD * a.regions[r].count - 1) : b.regions[r].data[i] = a.regions[r].data[i]

-----------------------------------------------------------------------------
(* Lemmas about numbers *)

\* Multiplication by a constant, which the solver does not know to be linear.
LEMMA Products ==
  ASSUME NEW w \in Nat, NEW a \in Nat, NEW b \in Nat
  PROVE  /\ w * a \in Nat
         /\ w * (a + b) = w * a + w * b
         /\ a <= b => w * a <= w * b
<1>1. w * (a + b) = w * a + w * b
  OBVIOUS
<1>2. ASSUME a <= b PROVE w * a <= w * b
  <2>1. PICK d \in Nat : b = a + d
    BY <1>2
  <2>2. w * b = w * a + w * d /\ w * d \in Nat /\ w * a \in Nat
    BY <2>1
  <2> QED BY <2>2
<1> QED
  BY <1>1, <1>2

\* The words of a block have room for its bytes.
LEMMA WordsEnough ==
  ASSUME NEW size \in Nat
  PROVE  Words(size) \in Nat /\ size <= WORD * Words(size)
  BY ArenasAssumption DEF Words

-----------------------------------------------------------------------------
(* Lemmas about regions and arenas *)

\* What a region is made of.
LEMMA RegionFields ==
  ASSUME NEW r \in Region
  PROVE  /\ r = [capacity |-> r.capacity, count |-> r.count, data |-> r.data]
         /\ r.capacity \in Nat /\ r.count \in Nat /\ r.count <= r.capacity
         /\ r.data \in [0..(WORD * r.capacity - 1) -> Content]
  BY DEF Region

\* What makes a region.
LEMMA IsRegion ==
  ASSUME NEW c \in Nat, NEW n \in 0..c, NEW d \in [0..(WORD * c - 1) -> Content]
  PROVE  [capacity |-> c, count |-> n, data |-> d] \in Region
  BY DEF Region

\* A new region is empty, and as large as was asked for.
LEMMA NewRegion ==
  ASSUME NEW words \in Nat
  PROVE  new_region(words) \in Region /\ new_region(words).count = 0 /\ new_region(words).capacity = words
<1>1. [i \in 0..(WORD * words - 1) |-> None] \in [0..(WORD * words - 1) -> Content]
  BY DEF Content
<1> QED
  BY <1>1, IsRegion DEF new_region

\* What an arena is made of.
LEMMA ArenaFields ==
  ASSUME NEW a \in Arena
  PROVE  /\ a = [regions |-> a.regions, end |-> a.end]
         /\ a.regions \in Seq(Region) /\ a.end \in Nat /\ a.end <= Len(a.regions)
         /\ Len(a.regions) \in Nat /\ DOMAIN a.regions = 1..Len(a.regions)
         /\ \A i \in 1..Len(a.regions) : a.regions[i] \in Region
         /\ a.end = 0 => Len(a.regions) = 0
         /\ \A i \in 1..Len(a.regions) : i > a.end => a.regions[i].count = 0
<1>1. /\ a = [regions |-> a.regions, end |-> a.end]
      /\ a.regions \in Seq(Region) /\ a.end \in Nat /\ a.end <= Len(a.regions)
      /\ a.end = 0 => Len(a.regions) = 0
      /\ \A i \in 1..Len(a.regions) : i > a.end => a.regions[i].count = 0
  BY DEF Arena
<1> QED
  BY <1>1, LenProperties, ElementOfSeq

\* arena_alloc finds where to stop.
LEMMA StopExists ==
  ASSUME NEW a \in Arena, NEW size \in Nat
  PROVE  Stop(a, size) \in a.end..Len(a.regions)
<1> DEFINE T == {i \in a.end..Len(a.regions) : Fits(a.regions[i], size) \/ i = Len(a.regions)}
<1>1. a.end \in Nat /\ Len(a.regions) \in Nat /\ a.end <= Len(a.regions)
  BY ArenaFields
<1>2. T \subseteq Nat /\ Len(a.regions) \in T
  BY <1>1
<1>3. PICK i \in T : \A j \in T : i <= j
  <2> HIDE DEF T
  <2> QED
    BY <1>2, LeastOf
<1>4. \A j \in a.end..(i - 1) : ~Fits(a.regions[j], size)
  <2> SUFFICES ASSUME NEW j \in a.end..(i - 1), Fits(a.regions[j], size)
               PROVE  FALSE
    OBVIOUS
  <2>1. j \in T
    BY <1>1, <1>2, <1>3
  <2> QED
    BY <1>1, <1>2, <1>3, <2>1
<1>5. \E k \in a.end..Len(a.regions) :
        /\ Fits(a.regions[k], size) \/ k = Len(a.regions)
        /\ \A j \in a.end..(k - 1) : ~Fits(a.regions[j], size)
  BY <1>3, <1>4
<1> QED
  BY <1>5 DEF Stop

\* An arena with room for a block is one that extends the arena.
LEMMA RoomMade ==
  ASSUME NEW a \in Arena, NEW size \in Nat
  PROVE  LET room == WithRoom(a, size)
         IN  /\ room \in Arena
             /\ room.end \in 1..Len(room.regions)
             /\ room.regions[room.end].count + size <= room.regions[room.end].capacity
             /\ Extends(a, room)
             /\ \A r \in 1..Len(a.regions) : room.regions[r].count = a.regions[r].count
             /\ room.end \notin 1..Len(a.regions) => room.regions[room.end].count = 0
<1> DEFINE room == WithRoom(a, size)
<1>1. /\ a = [regions |-> a.regions, end |-> a.end]
      /\ a.regions \in Seq(Region) /\ a.end \in Nat /\ a.end <= Len(a.regions)
      /\ Len(a.regions) \in Nat /\ DOMAIN a.regions = 1..Len(a.regions)
      /\ \A i \in 1..Len(a.regions) : a.regions[i] \in Region
  BY ArenaFields
<1>2. \A i \in 1..Len(a.regions) : a.regions[i].count \in Nat
  BY <1>1, RegionFields
<1>3. CASE a.end # 0 /\ Fits(a.regions[Stop(a, size)], size)
  <2>1. room = [regions |-> a.regions, end |-> Stop(a, size)]
    BY <1>1, <1>3 DEF WithRoom
  <2>2. Stop(a, size) \in 1..Len(a.regions)
    BY <1>1, <1>3, StopExists
  <2>3. room \in Arena
    <3>1. \A i \in 1..Len(a.regions) : i > Stop(a, size) => a.regions[i].count = 0
      BY <1>1, StopExists, ArenaFields
    <3> QED
      BY <1>1, <2>1, <2>2, <3>1 DEF Arena
  <2>4. Extends(a, room)
    BY <1>1, <1>2, <2>1 DEF Extends
  <2> QED
    BY <1>1, <1>3, <2>1, <2>2, <2>3, <2>4 DEF Fits
<1>4. CASE ~(a.end # 0 /\ Fits(a.regions[Stop(a, size)], size))
  <2> DEFINE capacity == IF ARENA_REGION_DEFAULT_CAPACITY < size THEN size ELSE ARENA_REGION_DEFAULT_CAPACITY
             new == new_region(capacity)
             n == Len(a.regions) + 1
  <2>1. room = [regions |-> Append(a.regions, new), end |-> n]
    BY <1>4 DEF WithRoom
  <2>2. capacity \in Nat /\ size <= capacity
    BY ArenasAssumption
  <2>3. new \in Region /\ new.count = 0 /\ new.capacity = capacity
    BY <2>2, NewRegion
  <2> HIDE DEF new, capacity
  <2>4. /\ room.regions \in Seq(Region) /\ Len(room.regions) = n
        /\ \A i \in 1..Len(a.regions) : room.regions[i] = a.regions[i]
        /\ room.regions[n] = new /\ room.end = n /\ n \in Nat /\ n \notin 1..Len(a.regions)
    BY <1>1, <2>1, <2>3
  <2>5. room \in Arena
    <3>1. \A i \in 1..Len(room.regions) : ~(i > room.end)
      BY <1>1, <2>4
    <3> QED
      BY <1>1, <2>1, <2>4, <3>1 DEF Arena
  <2>6. Extends(a, room)
    BY <1>1, <1>2, <2>4 DEF Extends
  <2> QED
    BY <1>1, <2>2, <2>3, <2>4, <2>5, <2>6
<1> QED
  BY <1>3, <1>4

\* What an arena is after a change to one field of one region.
LEMMA CountSet ==
  ASSUME NEW a, a = [regions |-> a.regions, end |-> a.end], NEW e \in DOMAIN a.regions, NEW w,
         a.regions[e] = [capacity |-> a.regions[e].capacity, count |-> a.regions[e].count, data |-> a.regions[e].data]
  PROVE  [a EXCEPT !.regions[e].count = @ + w]
           = [regions |-> [a.regions EXCEPT ![e] =
                [capacity |-> a.regions[e].capacity, count |-> a.regions[e].count + w, data |-> a.regions[e].data]],
              end |-> a.end]
  OBVIOUS

\* What an EXCEPT of a region's data in an arena is.
LEMMA DataSet ==
  ASSUME NEW a, a = [regions |-> a.regions, end |-> a.end], NEW e \in DOMAIN a.regions, NEW d,
         a.regions[e] = [capacity |-> a.regions[e].capacity, count |-> a.regions[e].count, data |-> a.regions[e].data]
  PROVE  [a EXCEPT !.regions[e].data = d]
           = [regions |-> [a.regions EXCEPT ![e] =
                [capacity |-> a.regions[e].capacity, count |-> a.regions[e].count, data |-> d]],
              end |-> a.end]
  OBVIOUS

\* An allocation gives out a block that was not given out, and nothing else changes.
LEMMA AllocGivesOut ==
  ASSUME NEW a \in Arena, NEW size \in Nat
  PROVE  LET new == arena_alloc(a, size)
         IN  /\ new.arena \in Arena
             /\ BlockIn(new.arena, new.ptr, size)
             /\ BlockFree(a, new.ptr)
             /\ Extends(a, new.arena)
<1> DEFINE w == Words(size)
           room == WithRoom(a, w)
           e == room.end
           old == room.regions[e]
           more == [capacity |-> old.capacity, count |-> old.count + w, data |-> old.data]
           new == arena_alloc(a, size)
<1>1. w \in Nat /\ size <= WORD * w
  BY WordsEnough
<1>2. /\ room \in Arena
      /\ e \in 1..Len(room.regions)
      /\ old.count + w <= old.capacity
      /\ Extends(a, room)
      /\ \A r \in 1..Len(a.regions) : room.regions[r].count = a.regions[r].count
      /\ e \notin 1..Len(a.regions) => old.count = 0
  <2> HIDE DEF w
  <2> QED
    BY <1>1, RoomMade
<1> HIDE DEF w, room
<1>3. /\ room = [regions |-> room.regions, end |-> e]
      /\ room.regions \in Seq(Region) /\ e \in Nat /\ e <= Len(room.regions)
      /\ Len(room.regions) \in Nat /\ DOMAIN room.regions = 1..Len(room.regions)
      /\ \A i \in 1..Len(room.regions) : room.regions[i] \in Region
  BY <1>2, ArenaFields
<1>4. /\ old = [capacity |-> old.capacity, count |-> old.count, data |-> old.data]
      /\ old.capacity \in Nat /\ old.count \in Nat
      /\ old.data \in [0..(WORD * old.capacity - 1) -> Content]
  BY <1>2, <1>3, RegionFields
<1>6. more \in Region
  <2>1. old.count + w \in 0..old.capacity
    BY <1>1, <1>2, <1>4
  <2> QED
    BY <1>4, <2>1, IsRegion
<1>7. new = [arena |-> [regions |-> [room.regions EXCEPT ![e] = more], end |-> e],
             ptr   |-> [region |-> e, at |-> WORD * old.count]]
  <2>1. [room EXCEPT !.regions[e].count = @ + w] = [regions |-> [room.regions EXCEPT ![e] = more], end |-> e]
    <3>1. e \in DOMAIN room.regions
      BY <1>2, <1>3
    <3>2. room = [regions |-> room.regions, end |-> room.end]
      BY <1>3
    <3> QED
      BY ONLY <1>4, <3>1, <3>2, CountSet
  <2> QED
    BY <2>1 DEF arena_alloc, room, w
<1>8. /\ new.arena.regions \in Seq(Region) /\ Len(new.arena.regions) = Len(room.regions)
      /\ \A i \in 1..Len(room.regions) : new.arena.regions[i] = IF i = e THEN more ELSE room.regions[i]
      /\ new.arena.end = e
  <2>1. /\ [room.regions EXCEPT ![e] = more] \in Seq(Region)
        /\ Len([room.regions EXCEPT ![e] = more]) = Len(room.regions)
        /\ \A i \in 1..Len(room.regions) :
             [room.regions EXCEPT ![e] = more][i] = IF i = e THEN more ELSE room.regions[i]
    BY <1>2, <1>3, <1>6, ExceptSeq
  <2>2. new.arena.regions = [room.regions EXCEPT ![e] = more] /\ new.arena.end = e
    BY <1>7
  <2> QED
    BY <2>1, <2>2
<1>9. new.arena \in Arena
  <2>1. new.arena = [regions |-> new.arena.regions, end |-> new.arena.end]
    BY <1>7
  <2>2. \A i \in 1..Len(room.regions) : i > e => new.arena.regions[i].count = 0
    BY <1>2, <1>3, <1>8, ArenaFields
  <2> HIDE DEF new
  <2> QED
    BY <1>2, <1>3, <1>8, <2>1, <2>2 DEF Arena
<1>10. /\ WORD * old.count \in Nat /\ WORD * w \in Nat
       /\ WORD * (old.count + w) = WORD * old.count + WORD * w
  BY <1>1, <1>4, Products, ArenasAssumption
<1>11. BlockIn(new.arena, new.ptr, size)
  <2>1. new.ptr = [region |-> e, at |-> WORD * old.count]
    BY <1>7
  <2>2. new.arena.regions[e].count = old.count + w
    BY <1>2, <1>8
  <2>3. WORD * old.count + size <= WORD * (old.count + w)
    BY <1>1, <1>10
  <2> QED
    BY <1>2, <1>3, <1>8, <1>10, <2>1, <2>2, <2>3 DEF BlockIn, Ptr
<1>12. BlockFree(a, new.ptr)
  <2>1. new.ptr.region = e /\ new.ptr.at = WORD * old.count
    BY <1>7
  <2>2. e \in 1..Len(a.regions) => a.regions[e].count = old.count
    BY <1>2
  <2> QED
    BY <1>10, <2>1, <2>2 DEF BlockFree
<1>13. Extends(a, new.arena)
  <2>1. \A r \in 1..Len(a.regions) :
          r \in 1..Len(room.regions) /\ room.regions[r].count = a.regions[r].count /\ room.regions[r].count \in Nat
    <3>1. Len(a.regions) \in Nat /\ Len(a.regions) <= Len(room.regions)
      BY <1>2, ArenaFields DEF Extends
    <3>2. \A r \in 1..Len(room.regions) : room.regions[r].count \in Nat
      BY <1>3, RegionFields
    <3> QED
      BY <1>2, <1>3, <3>1, <3>2
  <2>2. \A r \in 1..Len(room.regions) :
          /\ new.arena.regions[r].data = room.regions[r].data
          /\ new.arena.regions[r].count >= room.regions[r].count
    <3>1. \A r \in 1..Len(room.regions) : room.regions[r].count \in Nat
      BY <1>3, RegionFields
    <3> QED
      BY <1>1, <1>4, <1>8, <3>1
  <2> HIDE DEF new
  <2> QED
    BY <1>2, <1>8, <2>1, <2>2 DEF Extends
<1> QED
  BY <1>9, <1>11, <1>12, <1>13

\* A write to a block that was not given out when the arena was a changes nothing of a.
LEMMA WriteToFree ==
  ASSUME NEW a \in Arena, NEW b \in Arena, NEW ptr, NEW size \in Nat,
         NEW lo \in Nat, NEW hi \in 0..size, NEW bytes \in [lo..(hi - 1) -> Content],
         BlockIn(b, ptr, size), BlockFree(a, ptr), Extends(a, b)
  PROVE  LET c == Written(b, ptr, bytes)
         IN  /\ c \in Arena
             /\ BlockIn(c, ptr, size)
             /\ Extends(a, c)
             /\ \A i \in 0..(size - 1) :
                  Read(c, ptr, i) = IF i \in lo..(hi - 1) THEN bytes[i] ELSE Read(b, ptr, i)
<1> DEFINE e == ptr.region
           old == b.regions[e]
           data == [i \in DOMAIN old.data |-> IF i - ptr.at \in DOMAIN bytes THEN bytes[i - ptr.at] ELSE old.data[i]]
           new == [capacity |-> old.capacity, count |-> old.count, data |-> data]
           c == Written(b, ptr, bytes)
<1>1. /\ b = [regions |-> b.regions, end |-> b.end]
      /\ b.regions \in Seq(Region) /\ b.end \in Nat /\ b.end <= Len(b.regions)
      /\ Len(b.regions) \in Nat /\ DOMAIN b.regions = 1..Len(b.regions)
      /\ \A i \in 1..Len(b.regions) : b.regions[i] \in Region
  BY ArenaFields
<1>2. e \in 1..Len(b.regions) /\ ptr.at \in Nat /\ ptr.at + size <= WORD * old.count
  BY DEF BlockIn, Ptr
<1>3. /\ old = [capacity |-> old.capacity, count |-> old.count, data |-> old.data]
      /\ old.capacity \in Nat /\ old.count \in Nat /\ old.count <= old.capacity
      /\ old.data \in [0..(WORD * old.capacity - 1) -> Content]
  BY <1>1, <1>2, RegionFields
<1>4. data \in [0..(WORD * old.capacity - 1) -> Content]
  BY <1>3
<1>6. new \in Region
  <2> HIDE DEF data
  <2> QED
    BY <1>3, <1>4, IsRegion
<1>7. c = [regions |-> [b.regions EXCEPT ![e] = new], end |-> b.end]
  <2>1. e \in DOMAIN b.regions
    BY <1>1, <1>2
  <2>2. b = [regions |-> b.regions, end |-> b.end]
    BY <1>1
  <2>3. [b EXCEPT !.regions[e].data = data] = [regions |-> [b.regions EXCEPT ![e] = new], end |-> b.end]
    <3> HIDE DEF data
    <3> QED
      BY ONLY <1>3, <2>1, <2>2, DataSet
  <2>4. c = [b EXCEPT !.regions[e].data = data]
    BY Zenon DEF Written
  <2> QED
    BY <2>3, <2>4, Zenon
<1> HIDE DEF new, c
<1>8. /\ c.regions \in Seq(Region) /\ Len(c.regions) = Len(b.regions)
      /\ \A i \in 1..Len(b.regions) : c.regions[i] = IF i = e THEN new ELSE b.regions[i]
      /\ c.end = b.end
  <2>1. /\ [b.regions EXCEPT ![e] = new] \in Seq(Region)
        /\ Len([b.regions EXCEPT ![e] = new]) = Len(b.regions)
        /\ \A i \in 1..Len(b.regions) :
             [b.regions EXCEPT ![e] = new][i] = IF i = e THEN new ELSE b.regions[i]
    BY <1>1, <1>2, <1>6, ExceptSeq
  <2>2. c.regions = [b.regions EXCEPT ![e] = new] /\ c.end = b.end
    BY <1>7
  <2> QED
    BY <2>1, <2>2
<1>9. c \in Arena
  <2>1. \A i \in 1..Len(b.regions) : i > b.end => c.regions[i].count = 0
    <3>1. \A i \in 1..Len(b.regions) : i > b.end => b.regions[i].count = 0
      BY ArenaFields
    <3>2. new.count = old.count
      BY DEF new
    <3> QED
      BY <1>8, <3>1, <3>2
  <2>2. b.end = 0 => Len(b.regions) = 0
    BY ArenaFields
  <2>3. c = [regions |-> c.regions, end |-> c.end]
    BY <1>7
  <2> QED
    BY <1>1, <1>8, <2>1, <2>2, <2>3 DEF Arena
<1>10. /\ \A i \in 1..Len(b.regions) : c.regions[i].count = b.regions[i].count
       /\ c.regions[e].data = data
       /\ \A i \in 1..Len(b.regions) : i # e => c.regions[i].data = b.regions[i].data
  <2>1. new.count = old.count /\ new.data = data
    BY DEF new
  <2> HIDE DEF data
  <2> QED
    BY <1>2, <1>8, <2>1
<1>11. BlockIn(c, ptr, size)
  BY <1>2, <1>8, <1>10 DEF BlockIn
<1>12. /\ WORD * old.count \in Nat /\ WORD * old.capacity \in Nat
       /\ WORD * old.count <= WORD * old.capacity
  BY <1>3, Products, ArenasAssumption
<1>13. Extends(a, c)
  <2>1. ASSUME NEW r \in 1..Len(a.regions)
        PROVE  /\ a.regions[r].count <= c.regions[r].count
               /\ \A i \in 0..(WORD * a.regions[r].count - 1) : c.regions[r].data[i] = a.regions[r].data[i]
    <3>1. /\ a.regions[r].count <= b.regions[r].count
          /\ \A i \in 0..(WORD * a.regions[r].count - 1) : b.regions[r].data[i] = a.regions[r].data[i]
          /\ r \in 1..Len(b.regions)
      BY <1>1, ArenaFields DEF Extends
    <3>2. CASE r # e
      BY <1>10, <3>1, <3>2
    <3>3. CASE r = e
      <4>1. ptr.at >= WORD * a.regions[e].count
        BY <3>3 DEF BlockFree
      <4>2. a.regions[e].count \in Nat /\ WORD * a.regions[e].count \in Nat
        BY <3>3, ArenaFields, RegionFields, Products, ArenasAssumption
      <4>3. WORD * a.regions[e].count <= WORD * old.count
        BY <1>3, <3>1, <3>3, <4>2, Products, ArenasAssumption
      <4>4. \A i \in 0..(WORD * a.regions[e].count - 1) : i \in DOMAIN old.data /\ i - ptr.at \notin DOMAIN bytes
        <5>1. /\ DOMAIN old.data = 0..(WORD * old.capacity - 1)
              /\ \A i \in DOMAIN bytes : i >= 0
          BY <1>3
        <5>2. WORD * old.count \in Nat /\ WORD * old.capacity \in Nat
          BY <1>12
        <5>3. WORD * a.regions[e].count <= WORD * old.capacity
          <6>1. \A x, y, z \in Nat : x <= y /\ y <= z => x <= z
            OBVIOUS
          <6> HIDE DEF old, e
          <6> QED
            BY <1>12, <4>2, <4>3, <6>1
        <5> HIDE DEF old, e
        <5> TAKE i \in 0..(WORD * a.regions[e].count - 1)
        <5>4. i \in DOMAIN old.data
          BY <4>2, <5>1, <5>2, <5>3
        <5>5. i - ptr.at < 0
          <6>1. \A n, at \in Nat : at >= n => \A j \in 0..(n - 1) : j - at < 0
            OBVIOUS
          <6> QED
            BY <1>2, <4>1, <4>2, <6>1
        <5> QED
          BY <5>1, <5>4, <5>5
      <4>5. \A i \in 0..(WORD * a.regions[e].count - 1) : data[i] = old.data[i]
        BY <4>4
      <4> HIDE DEF data
      <4> QED
        BY <1>10, <3>1, <3>3, <4>5
    <3> QED
      BY <3>2, <3>3
  <2> QED
    BY <1>8, <2>1 DEF Extends
<1>14. ASSUME NEW i \in 0..(size - 1)
       PROVE  Read(c, ptr, i) = IF i \in lo..(hi - 1) THEN bytes[i] ELSE Read(b, ptr, i)
  <2>1. ptr.at + i \in DOMAIN old.data /\ (ptr.at + i) - ptr.at = i
    <3>1. DOMAIN old.data = 0..(WORD * old.capacity - 1)
      BY <1>3
    <3> HIDE DEF old
    <3> QED
      BY <1>2, <1>12, <3>1
  <2>2. data[ptr.at + i] = IF i \in lo..(hi - 1) THEN bytes[i] ELSE old.data[ptr.at + i]
    BY <2>1
  <2> HIDE DEF data
  <2> QED
    BY <1>10, <2>2 DEF Read
<1> QED
  BY <1>9, <1>11, <1>13, <1>14 DEF c

-----------------------------------------------------------------------------
(* Lemmas about the heap *)

ObjectOf(n) == [depth : 1..n, ptr : Ptr, size : Nat, list : BOOLEAN]

\* Object x, which is o, is in arena a with its content.
Kept(a, o, x) ==
  /\ BlockIn(a, x.ptr, x.size)
  /\ \A i \in 0..(x.size - 1) : Read(a, x.ptr, i) = <<o, i>>

\* The nodes nds have arenas of their own, and every object is kept in the arena of its node.
HeapOK(items, objs, nds) ==
  /\ items \in Seq(Arena)
  /\ nds \in Seq(1..Len(items))
  /\ \A i, j \in 1..Len(nds) : nds[i] = nds[j] => i = j
  /\ DOMAIN objs \subseteq Names
  /\ objs \in [DOMAIN objs -> ObjectOf(Len(nds))]
  /\ \A o \in DOMAIN objs : Kept(items[nds[objs[o].depth]], o, objs[o])

IsArray(da) == da = [items |-> da.items, capacity |-> da.capacity]

Roomy(da) == da.capacity \in Nat /\ Len(da.items) <= da.capacity

\* Of the arenas of tot, only this one is another in new.
Changed(tot, new, arena) ==
  /\ new.capacity = tot.capacity /\ Len(new.items) = Len(tot.items)
  /\ \A k \in 1..Len(tot.items) : k # arena => new.items[k] = tot.items[k]

UnusedEmpty(items, avail) == \A i \in 1..Len(avail) : Unspent(items[avail[i]])

\* An object that an arena keeps is kept when the arena gives out more.
LEMMA KeptByExtension ==
  ASSUME NEW a \in Arena, NEW b \in Arena, Extends(a, b), NEW o, NEW n \in Nat, NEW x \in ObjectOf(n), Kept(a, o, x)
  PROVE  Kept(b, o, x)
<1> DEFINE r == x.ptr.region
<1>1. /\ x.size \in Nat /\ x.ptr \in Ptr /\ x.ptr.at \in Nat /\ r \in 1..Len(a.regions)
      /\ x.ptr.at + x.size <= WORD * a.regions[r].count
  BY DEF ObjectOf, Kept, BlockIn, Ptr
<1>2. /\ Len(a.regions) \in Nat /\ Len(b.regions) \in Nat /\ Len(a.regions) <= Len(b.regions)
      /\ r \in 1..Len(b.regions)
  BY <1>1, ArenaFields DEF Extends
<1>3. a.regions[r].count \in Nat /\ b.regions[r].count \in Nat /\ a.regions[r].count <= b.regions[r].count
  <2>1. a.regions[r] \in Region /\ b.regions[r] \in Region
    BY <1>1, <1>2, ArenaFields
  <2> QED
    BY <1>1, <2>1, RegionFields DEF Extends
<1>4. /\ WORD * a.regions[r].count \in Nat /\ WORD * b.regions[r].count \in Nat
      /\ WORD * a.regions[r].count <= WORD * b.regions[r].count
  BY <1>3, Products, ArenasAssumption
<1>5. x.ptr.at + x.size <= WORD * b.regions[r].count
  <2>1. \A k, m, n1 \in Nat : k <= m /\ m <= n1 => k <= n1
    OBVIOUS
  <2>2. x.ptr.at + x.size \in Nat
    BY <1>1
  <2> QED
    BY <1>1, <1>4, <2>1, <2>2
<1>6. ASSUME NEW i \in 0..(x.size - 1)
      PROVE  Read(b, x.ptr, i) = <<o, i>>
  <2>1. \A at, m \in Nat : at + x.size <= m => at + i \in 0..(m - 1)
    BY <1>1
  <2>2. x.ptr.at + i \in 0..(WORD * a.regions[r].count - 1)
    BY <1>1, <1>4, <2>1
  <2>3. b.regions[r].data[x.ptr.at + i] = a.regions[r].data[x.ptr.at + i]
    BY <1>1, <2>2 DEF Extends
  <2> QED
    BY <2>3 DEF Kept, Read
<1> QED
  BY <1>1, <1>2, <1>5, <1>6 DEF Kept, BlockIn

\* What an EXCEPT of an item of a dynamic array is.
LEMMA ItemSet ==
  ASSUME NEW da, IsArray(da), NEW n \in DOMAIN da.items, NEW x
  PROVE  [da EXCEPT !.items[n] = x] = [items |-> [da.items EXCEPT ![n] = x], capacity |-> da.capacity]
  BY DEF IsArray

\* The types that HeapOK implies.
LEMMA HeapTypes ==
  ASSUME NEW items, NEW objs, NEW nds, HeapOK(items, objs, nds)
  PROVE  /\ Len(items) \in Nat /\ DOMAIN items = 1..Len(items)
         /\ \A n \in 1..Len(items) : items[n] \in Arena
         /\ Len(nds) \in Nat /\ DOMAIN nds = 1..Len(nds)
         /\ \A i \in 1..Len(nds) : nds[i] \in 1..Len(items)
         /\ \A o \in DOMAIN objs : objs[o] \in ObjectOf(Len(nds)) /\ objs[o].depth \in 1..Len(nds)
                                   /\ o \in Names
<1>1. Len(items) \in Nat /\ DOMAIN items = 1..Len(items) /\ \A n \in 1..Len(items) : items[n] \in Arena
  BY LenProperties, ElementOfSeq DEF HeapOK
<1>2. Len(nds) \in Nat /\ DOMAIN nds = 1..Len(nds) /\ \A i \in 1..Len(nds) : nds[i] \in 1..Len(items)
  BY LenProperties, ElementOfSeq DEF HeapOK
<1>3. \A o \in DOMAIN objs : objs[o] \in ObjectOf(Len(nds)) /\ objs[o].depth \in 1..Len(nds) /\ o \in Names
  BY DEF HeapOK, ObjectOf
<1> QED
  BY <1>1, <1>2, <1>3

\* The arena of a node may be replaced by one that extends it.
LEMMA ArenaReplaced ==
  ASSUME NEW items, NEW objs, NEW nds, HeapOK(items, objs, nds),
         NEW depth \in 1..Len(nds), NEW b \in Arena, Extends(items[nds[depth]], b)
  PROVE  LET new == [items EXCEPT ![nds[depth]] = b]
         IN  HeapOK(new, objs, nds) /\ Len(new) = Len(items) /\ new[nds[depth]] = b
<1> DEFINE new == [items EXCEPT ![nds[depth]] = b]
<1>1. /\ new \in Seq(Arena) /\ Len(new) = Len(items)
      /\ \A n \in 1..Len(items) : new[n] = IF n = nds[depth] THEN b ELSE items[n]
  BY HeapTypes, ExceptSeq DEF HeapOK
<1> HIDE DEF new
<1>2. ASSUME NEW o \in DOMAIN objs
      PROVE  Kept(new[nds[objs[o].depth]], o, objs[o])
  <2>1. /\ nds[objs[o].depth] \in 1..Len(items) /\ items[nds[objs[o].depth]] \in Arena
        /\ objs[o] \in ObjectOf(Len(nds)) /\ Len(nds) \in Nat
    BY HeapTypes
  <2>2. Kept(items[nds[objs[o].depth]], o, objs[o])
    BY DEF HeapOK
  <2>3. CASE nds[objs[o].depth] = nds[depth]
    <3>1. new[nds[objs[o].depth]] = b /\ Extends(items[nds[objs[o].depth]], b)
      BY <1>1, <2>1, <2>3
    <3> QED
      BY <2>1, <2>2, <3>1, KeptByExtension
  <2>4. CASE nds[objs[o].depth] # nds[depth]
    BY <1>1, <2>1, <2>2, <2>4
  <2> QED
    BY <2>3, <2>4
<1>3. nds[depth] \in 1..Len(items)
  BY HeapTypes
<1> QED
  BY <1>1, <1>2, <1>3 DEF HeapOK, new

\* The objects with x as the object name.
Added(objs, name, x) == [o \in DOMAIN objs \cup {name} |-> IF o = name THEN x ELSE objs[o]]

\* An object that is kept may be added, or take the place of what it was.
LEMMA ObjectAdded ==
  ASSUME NEW items, NEW objs, NEW nds, HeapOK(items, objs, nds),
         NEW name \in Names, NEW x \in ObjectOf(Len(nds)), Kept(items[nds[x.depth]], name, x)
  PROVE  HeapOK(items, Added(objs, name, x), nds) /\ DOMAIN Added(objs, name, x) = DOMAIN objs \cup {name}
<1> DEFINE new == Added(objs, name, x)
<1>1. /\ DOMAIN new \subseteq Names /\ new \in [DOMAIN new -> ObjectOf(Len(nds))]
      /\ DOMAIN new = DOMAIN objs \cup {name}
  BY DEF HeapOK, Added
<1>2. \A o \in DOMAIN new : Kept(items[nds[new[o].depth]], o, new[o])
  BY DEF HeapOK, Added
<1> HIDE DEF new
<1>3. HeapOK(items, new, nds)
  BY <1>1, <1>2 DEF HeapOK
<1> QED
  BY <1>1, <1>3 DEF new

\* The name of a new object is one that no object has.
LEMMA NameUnused ==
  ASSUME NEW objs, Unused(objs) # {}
  PROVE  NewName(objs) \in Unused(objs) /\ NewName(objs) \in Names /\ NewName(objs) \notin DOMAIN objs
  BY DEF NewName, Unused

\* new is the heap of tot and objs with one object more, in the arena of the node at depth.
OneObjectMore(new, tot, objs, nds, depth) ==
  /\ new = [total |-> new.total, objects |-> new.objects]
  /\ IsArray(new.total)
  /\ HeapOK(new.total.items, new.objects, nds)
  /\ Changed(tot, new.total, nds[depth])
  /\ DOMAIN new.objects = DOMAIN objs \cup {NewName(objs)}
  /\ NewName(objs) \in Unused(objs)

\* An object more, and the others are kept.
LEMMA AllocatedKeeps ==
  ASSUME NEW tot, NEW objs, NEW nds, IsArray(tot), HeapOK(tot.items, objs, nds),
         NEW depth \in 1..Len(nds), NEW size \in Nat, NEW list \in BOOLEAN, Unused(objs) # {},
         NEW new, new = Allocated([total |-> tot, objects |-> objs], depth, nds[depth], size, list)
  PROVE  OneObjectMore(new, tot, objs, nds, depth)
<1> DEFINE name == NewName(objs)
           arena == nds[depth]
           a == tot.items[arena]
           got == arena_alloc(a, size)
           bytes == Bytes(name, 0, size - 1)
           c == Written(got.arena, got.ptr, bytes)
           x == Object(depth, got.ptr, size, list)
           tot2 == [tot EXCEPT !.items[arena] = c]
           objs2 == Added(objs, name, x)
<1>1. name \in Unused(objs) /\ name \in Names
  BY NameUnused
<1>2. new = [total |-> tot2, objects |-> objs2]
  BY DEF Allocated, Added, inner_alloc
<1>3. arena \in 1..Len(tot.items) /\ DOMAIN tot.items = 1..Len(tot.items) /\ a \in Arena
  BY HeapTypes
<1> HIDE DEF name, arena, a
<1>4. /\ got.arena \in Arena
      /\ BlockIn(got.arena, got.ptr, size)
      /\ BlockFree(a, got.ptr)
      /\ Extends(a, got.arena)
  BY <1>3, AllocGivesOut
<1>5. bytes \in [0..(size - 1) -> Content]
  BY <1>1 DEF Content, Bytes
<1> HIDE DEF got, bytes
<1>6. /\ c \in Arena
      /\ BlockIn(c, got.ptr, size)
      /\ Extends(a, c)
      /\ \A i \in 0..(size - 1) :
           Read(c, got.ptr, i) = IF i \in 0..(size - 1) THEN bytes[i] ELSE Read(got.arena, got.ptr, i)
  <2>1. 0 \in Nat /\ size \in 0..size /\ size \in Nat
    OBVIOUS
  <2> QED
    BY ONLY <1>3, <1>4, <1>5, <2>1, WriteToFree
<1> HIDE DEF c
<1>7. \A i \in 0..(size - 1) : Read(c, got.ptr, i) = <<name, i>>
  BY <1>6 DEF bytes, Bytes
<1>8. /\ x \in ObjectOf(Len(nds)) /\ x.ptr = got.ptr /\ x.size = size /\ x.depth = depth
  BY <1>4 DEF Object, ObjectOf, BlockIn
<1>9. Kept(c, name, x)
  BY <1>6, <1>7, <1>8 DEF Kept
<1>10. tot2 = [items |-> [tot.items EXCEPT ![arena] = c], capacity |-> tot.capacity]
  <2>1. IsArray(tot) /\ arena \in DOMAIN tot.items
    BY <1>3
  <2> QED
    BY <2>1 DEF IsArray
<1>11. IsArray(tot2) /\ tot2.items = [tot.items EXCEPT ![arena] = c]
  BY <1>10 DEF IsArray
<1>12. HeapOK(tot2.items, objs, nds) /\ Len(tot2.items) = Len(tot.items) /\ tot2.items[arena] = c
  BY <1>6, <1>11, ArenaReplaced DEF arena, a
<1> HIDE DEF x, tot2
<1>13. HeapOK(tot2.items, objs2, nds)
  <2>1. tot2.items[nds[x.depth]] = c
    BY <1>8, <1>12 DEF arena
  <2>2. Kept(tot2.items[nds[x.depth]], name, x)
    BY <1>9, <2>1
  <2>3. HeapOK(tot2.items, objs, nds) /\ name \in Names /\ x \in ObjectOf(Len(nds))
    BY <1>1, <1>8, <1>12
  <2> QED
    BY ONLY <2>2, <2>3, ObjectAdded
<1>14. DOMAIN objs2 = DOMAIN objs \cup {name}
  BY DEF Added
<1>15. Changed(tot, tot2, arena)
  BY <1>3, <1>10, <1>11, <1>12 DEF Changed
<1> HIDE DEF objs2
<1> QED
  BY <1>1, <1>2, <1>11, <1>12, <1>13, <1>14, <1>15 DEF name, arena, OneObjectMore

\* What arena_alloc returns.
LEMMA AllocFields ==
  ASSUME NEW a, NEW size
  PROVE  arena_alloc(a, size) = [arena |-> arena_alloc(a, size).arena, ptr |-> arena_alloc(a, size).ptr]
  BY DEF arena_alloc

\* What an EXCEPT of the arena in that is.
LEMMA ArenaSet ==
  ASSUME NEW r, NEW u, NEW v, r = [arena |-> u, ptr |-> v], NEW w
  PROVE  [r EXCEPT !.arena = w] = [arena |-> w, ptr |-> v]
  OBVIOUS

\* Sizes of C types and of arrays of them are sizes.
LEMMA SizesTimes ==
  /\ Sexp \in Nat \ {0} /\ CallTree \in Nat /\ Symboltable \in Nat
  /\ \A n \in Nat : n * Sexp \in Nat
<1>1. Sexp \in Nat \ {0} /\ CallTree \in Nat /\ Symboltable \in Nat
  BY MemoryAssumption
<1>2. \A x, n \in Nat : n * x \in Nat
  OBVIOUS
<1> QED
  BY <1>1, <1>2

\* A list that grows moves with its content, and the other objects are kept.
LEMMA GrownKeeps ==
  ASSUME NEW tot, NEW objs, NEW nds, IsArray(tot), HeapOK(tot.items, objs, nds), NEW o \in DOMAIN objs
  PROVE  LET heap == Grown([total |-> tot, objects |-> objs], o, nds[objs[o].depth])
         IN  /\ IsArray(heap.total)
             /\ HeapOK(heap.total.items, heap.objects, nds)
             /\ Changed(tot, heap.total, nds[objs[o].depth])
<1> DEFINE arena == nds[objs[o].depth]
           heap  == Grown([total |-> tot, objects |-> objs], o, arena)
           old   == objs[o].size
           size  == old + Sexp
           new   == inner_realloc(tot.items[arena], objs[o].ptr, old, old + Sexp)
           child == Bytes(o, old, old + Sexp - 1)
           tot2  == heap.total
           objs2 == heap.objects
<1>a. arena = nds[objs[o].depth]
  OBVIOUS
<1> HIDE DEF arena
<1>b. tot2 = [tot EXCEPT !.items[arena] = Written(new.arena, new.ptr, child)]
  BY ONLY DEF Grown
<1>c. objs2 = [objs EXCEPT ![o] = Object(objs[o].depth, new.ptr, old + Sexp, TRUE)]
  BY ONLY DEF Grown
<1>d. /\ old = objs[o].size /\ size = old + Sexp /\ child = Bytes(o, old, size - 1)
      /\ new = inner_realloc(tot.items[arena], objs[o].ptr, old, size)
  <2>1. old = objs[o].size /\ child = Bytes(o, old, old + Sexp - 1)
        /\ new = inner_realloc(tot.items[arena], objs[o].ptr, old, old + Sexp)
    OBVIOUS
  <2>2. size = old + Sexp
    OBVIOUS
  <2>3. objs[o].size \in Nat /\ Sexp \in Nat
    BY HeapTypes, SizesTimes DEF ObjectOf
  <2> HIDE DEF size, child, new, old
  <2>4. old \in Nat /\ size \in Nat
    BY ONLY <2>1, <2>2, <2>3
  <2> QED
    BY ONLY <2>1, <2>2, <2>3, <2>4
<1> HIDE DEF old, size, new, child, tot2, objs2
<1> USE <1>a, <1>b, <1>c, <1>d, SizesTimes
<1> DEFINE a     == tot.items[arena]
           ptr   == objs[o].ptr
           got   == arena_alloc(a, size)
           bytes == [i \in 0..(old - 1) |-> Read(a, ptr, i)]
           b     == Written(got.arena, got.ptr, bytes)
           c     == Written(b, got.ptr, child)
           x     == Object(objs[o].depth, got.ptr, size, TRUE)
<1>1. /\ arena \in 1..Len(tot.items) /\ DOMAIN tot.items = 1..Len(tot.items) /\ a \in Arena
      /\ objs[o] \in ObjectOf(Len(nds)) /\ objs[o].depth \in 1..Len(nds) /\ o \in Names
      /\ Len(nds) \in Nat
  BY HeapTypes
<1>2. /\ objs[o] = [depth |-> objs[o].depth, ptr |-> ptr, size |-> old, list |-> objs[o].list]
      /\ old \in Nat /\ objs[o].list \in BOOLEAN /\ ptr \in Ptr /\ size \in Nat /\ old \in 0..size
      /\ ~(size <= old)
  BY <1>1 DEF ObjectOf
<1>3. Kept(a, o, objs[o])
  BY DEF HeapOK
<1>4. \A i \in 0..(old - 1) : Read(a, ptr, i) = <<o, i>>
  BY <1>3 DEF Kept
<1>5. bytes \in [0..(old - 1) -> Content]
  BY <1>1, <1>2, <1>4 DEF Content
<1>6. child \in [old..(size - 1) -> Content]
  BY <1>1, <1>2 DEF Content, Bytes
<1>7. new = [got EXCEPT !.arena = b]
  BY <1>2 DEF inner_realloc, arena_realloc
<1> HIDE DEF a, ptr
<1>8. new = [arena |-> b, ptr |-> got.ptr]
  <2>1. got = [arena |-> got.arena, ptr |-> got.ptr]
    BY AllocFields
  <2> HIDE DEF got, b
  <2> QED
    BY <1>7, <2>1, ArenaSet
<1>9. /\ got.arena \in Arena
      /\ BlockIn(got.arena, got.ptr, size)
      /\ BlockFree(a, got.ptr)
      /\ Extends(a, got.arena)
  BY <1>1, <1>2, AllocGivesOut
<1> HIDE DEF got, bytes
<1>10. /\ b \in Arena
       /\ BlockIn(b, got.ptr, size)
       /\ Extends(a, b)
       /\ \A i \in 0..(size - 1) :
            Read(b, got.ptr, i) = IF i \in 0..(old - 1) THEN bytes[i] ELSE Read(got.arena, got.ptr, i)
  <2>1. 0 \in Nat /\ size \in Nat /\ old \in 0..size /\ a \in Arena
    BY <1>1, <1>2
  <2> QED
    BY ONLY <1>5, <1>9, <2>1, WriteToFree
<1> HIDE DEF b
<1>11. /\ c \in Arena
       /\ BlockIn(c, got.ptr, size)
       /\ Extends(a, c)
       /\ \A i \in 0..(size - 1) :
            Read(c, got.ptr, i) = IF i \in old..(size - 1) THEN child[i] ELSE Read(b, got.ptr, i)
  <2>1. old \in Nat /\ size \in Nat /\ size \in 0..size /\ a \in Arena
    BY <1>1, <1>2
  <2> QED
    BY ONLY <1>6, <1>9, <1>10, <2>1, WriteToFree
<1> HIDE DEF c
<1>12. ASSUME NEW i \in 0..(size - 1)
       PROVE  Read(c, got.ptr, i) = <<o, i>>
  <2>1. CASE i \in old..(size - 1)
    BY <1>11, <2>1 DEF Bytes
  <2>2. CASE i \notin old..(size - 1)
    <3>1. i \in 0..(old - 1)
      BY <1>2, <2>2
    <3>2. Read(c, got.ptr, i) = bytes[i]
      BY <1>10, <1>11, <2>2, <3>1
    <3> QED
      BY <1>4, <3>1, <3>2 DEF bytes
  <2> QED
    BY <2>1, <2>2
<1>13. x \in ObjectOf(Len(nds)) /\ x.ptr = got.ptr /\ x.size = size /\ x.depth = objs[o].depth
  <2>1. got.ptr \in Ptr
    BY <1>9 DEF BlockIn
  <2> QED
    BY <1>1, <1>2, <2>1 DEF Object, ObjectOf
<1>14. Kept(c, o, x)
  BY <1>11, <1>12, <1>13 DEF Kept
<1>15. tot2 = [items |-> [tot.items EXCEPT ![arena] = c], capacity |-> tot.capacity]
  <2>1. Written(new.arena, new.ptr, child) = c
    BY <1>8 DEF c
  <2>2. IsArray(tot) /\ arena \in DOMAIN tot.items
    BY <1>1
  <2> QED
    BY <2>1, <2>2 DEF IsArray
<1>16. IsArray(tot2) /\ tot2.items = [tot.items EXCEPT ![arena] = c]
  BY ONLY <1>15 DEF IsArray
<1>17. HeapOK(tot2.items, objs, nds) /\ Len(tot2.items) = Len(tot.items) /\ tot2.items[arena] = c
  <2>1. /\ HeapOK(tot.items, objs, nds) /\ objs[o].depth \in 1..Len(nds) /\ c \in Arena
        /\ Extends(tot.items[nds[objs[o].depth]], c)
    BY <1>1, <1>11 DEF a
  <2>2. arena = nds[objs[o].depth]
    OBVIOUS
  <2> QED
    BY ONLY <1>16, <2>1, <2>2, ArenaReplaced
<1>18. objs2 = Added(objs, o, x)
  <2>1. new.ptr = got.ptr
    BY ONLY <1>8
  <2>2. objs2 = [objs EXCEPT ![o] = x]
    <3> HIDE DEF got
    <3> QED
      BY <2>1
  <2>3. objs = [p \in DOMAIN objs |-> objs[p]]
    BY DEF HeapOK
  <2> HIDE DEF x
  <2> QED
    BY ONLY <2>2, <2>3 DEF Added
<1> HIDE DEF x
<1>19. HeapOK(tot2.items, objs2, nds)
  <2>1. Kept(tot2.items[nds[x.depth]], o, x)
    BY <1>13, <1>14, <1>17
  <2>2. HeapOK(tot2.items, objs, nds) /\ o \in Names /\ x \in ObjectOf(Len(nds))
    BY <1>1, <1>13, <1>17
  <2>3. HeapOK(tot2.items, Added(objs, o, x), nds)
    BY ONLY <2>1, <2>2, ObjectAdded
  <2> QED
    BY <1>18, <2>3
<1>20. tot2 = heap.total /\ objs2 = heap.objects
  BY ONLY DEF tot2, objs2
<1> HIDE DEF heap
<1>21. Changed(tot, tot2, arena)
  BY <1>1, <1>15, <1>16, <1>17 DEF Changed
<1>22. IsArray(heap.total) /\ HeapOK(heap.total.items, heap.objects, nds)
       /\ Changed(tot, heap.total, arena)
  BY ONLY <1>16, <1>19, <1>20, <1>21
<1> QED
  BY ONLY <1>22 DEF heap, arena

-----------------------------------------------------------------------------
(* Lemmas about nodes and the pool *)

\* A new arena is one, with nothing given out.
LEMMA EmptyIsArena == EmptyArena \in Arena /\ Unspent(EmptyArena)
  BY DEF EmptyArena, Arena, Unspent

\* A reset leaves an arena with nothing given out.
LEMMA ResetIsArena ==
  ASSUME NEW a \in Arena
  PROVE  arena_reset(a) \in Arena /\ Unspent(arena_reset(a))
<1> DEFINE rs == [i \in DOMAIN a.regions |-> new_region(a.regions[i].capacity)]
<1>1. /\ Len(a.regions) \in Nat /\ DOMAIN a.regions = 1..Len(a.regions)
      /\ \A i \in 1..Len(a.regions) : new_region(a.regions[i].capacity) \in Region
  BY ArenaFields, RegionFields, NewRegion
<1>2. rs \in Seq(Region) /\ Len(rs) = Len(a.regions) /\ DOMAIN rs = 1..Len(a.regions)
  <2>1. rs \in [1..Len(a.regions) -> Region]
    BY <1>1
  <2> HIDE DEF rs
  <2> QED
    BY <1>1, <2>1
<1>5. \A i \in 1..Len(a.regions) : rs[i].count = 0
  BY <1>1, ArenaFields, RegionFields, NewRegion
<1>3. a.regions = <<>> <=> Len(a.regions) = 0
  BY ArenaFields, EmptySeq
<1>4. arena_reset(a) = [regions |-> rs, end |-> IF a.regions = <<>> THEN 0 ELSE 1]
  BY DEF arena_reset
<1> HIDE DEF rs
<1> QED
  BY <1>1, <1>2, <1>3, <1>4, <1>5 DEF Arena, Unspent

\* The arenas of the nodes and the unused ones are others, and together they are 1..max.
Parted(avail, nds, max) ==
  /\ max \in Nat
  /\ nds \in Seq(1..max) /\ avail \in Seq(1..max)
  /\ \A i, j \in 1..Len(nds) : nds[i] = nds[j] => i = j
  /\ \A i, j \in 1..Len(avail) : avail[i] = avail[j] => i = j
  /\ \A i \in 1..Len(avail), j \in 1..Len(nds) : avail[i] # nds[j]
  /\ Len(nds) + Len(avail) = max
  /\ {nds[i] : i \in DOMAIN nds} \cup {avail[i] : i \in DOMAIN avail} = 1..max

PoolOK(items, avail, nds, max) == Len(items) = max /\ Parted(avail, nds, max)

\* Parted, element by element.
LEMMA PartedElements ==
  ASSUME NEW avail, NEW nds, NEW max, Parted(avail, nds, max)
  PROVE  /\ Len(nds) \in Nat /\ Len(avail) \in Nat /\ max \in Nat
         /\ \A i \in 1..Len(nds) : nds[i] \in 1..max
         /\ \A i \in 1..Len(avail) : avail[i] \in 1..max
         /\ \A k \in 1..max : (\E i \in 1..Len(nds) : nds[i] = k) \/ (\E i \in 1..Len(avail) : avail[i] = k)
<1>1. /\ Len(nds) \in Nat /\ DOMAIN nds = 1..Len(nds)
      /\ Len(avail) \in Nat /\ DOMAIN avail = 1..Len(avail)
      /\ \A i \in 1..Len(nds) : nds[i] \in 1..max
      /\ \A i \in 1..Len(avail) : avail[i] \in 1..max
  BY LenProperties, ElementOfSeq DEF Parted
<1>2. \A k \in 1..max : (\E i \in 1..Len(nds) : nds[i] = k) \/ (\E i \in 1..Len(avail) : avail[i] = k)
  BY ONLY <1>1, Parted(avail, nds, max) DEF Parted
<1> QED
  BY <1>1, <1>2 DEF Parted

\* And back.
LEMMA ElementsParted ==
  ASSUME NEW max \in Nat, NEW nds \in Seq(1..max), NEW avail \in Seq(1..max),
         \A i, j \in 1..Len(nds) : nds[i] = nds[j] => i = j,
         \A i, j \in 1..Len(avail) : avail[i] = avail[j] => i = j,
         \A i \in 1..Len(avail), j \in 1..Len(nds) : avail[i] # nds[j],
         Len(nds) + Len(avail) = max,
         \A k \in 1..max : (\E i \in 1..Len(nds) : nds[i] = k) \/ (\E i \in 1..Len(avail) : avail[i] = k)
  PROVE  Parted(avail, nds, max)
<1>1. /\ DOMAIN nds = 1..Len(nds) /\ DOMAIN avail = 1..Len(avail)
      /\ \A i \in 1..Len(nds) : nds[i] \in 1..max
      /\ \A i \in 1..Len(avail) : avail[i] \in 1..max
  BY LenProperties, ElementOfSeq
<1>2. {nds[i] : i \in DOMAIN nds} \cup {avail[i] : i \in DOMAIN avail} = 1..max
  BY ONLY <1>1, \A k \in 1..max : (\E i \in 1..Len(nds) : nds[i] = k) \/ (\E i \in 1..Len(avail) : avail[i] = k)
<1> QED
  BY <1>2 DEF Parted

\* The facts about a sequence and the sequence with an element more.
LEMMA OneMore ==
  ASSUME NEW S, NEW s \in Seq(S), NEW x \in S,
         \A i, j \in 1..Len(s) : s[i] = s[j] => i = j, \A i \in 1..Len(s) : s[i] # x
  PROVE  /\ Append(s, x) \in Seq(S) /\ Len(Append(s, x)) = Len(s) + 1
         /\ Append(s, x)[Len(s) + 1] = x
         /\ \A i \in 1..Len(s) : Append(s, x)[i] = s[i]
         /\ \A i \in 1..(Len(s) + 1) : i \in 1..Len(s) \/ i = Len(s) + 1
         /\ \A i, j \in 1..(Len(s) + 1) : Append(s, x)[i] = Append(s, x)[j] => i = j
<1> DEFINE t == Append(s, x)
<1>1. /\ t \in Seq(S) /\ Len(t) = Len(s) + 1 /\ t[Len(s) + 1] = x
      /\ \A i \in 1..Len(s) : t[i] = s[i]
  OBVIOUS
<1>2. \A i \in 1..(Len(s) + 1) : i \in 1..Len(s) \/ i = Len(s) + 1
  <2>1. Len(s) \in Nat
    OBVIOUS
  <2>2. \A n \in Nat : \A i \in 1..(n + 1) : i \in 1..n \/ i = n + 1
    OBVIOUS
  <2> QED
    BY ONLY <2>1, <2>2
<1> HIDE DEF t
<1>3. \A i, j \in 1..(Len(s) + 1) : t[i] = t[j] => i = j
  BY ONLY <1>1, <1>2, \A i, j \in 1..Len(s) : s[i] = s[j] => i = j, \A i \in 1..Len(s) : s[i] # x
<1> QED
  BY <1>1, <1>2, <1>3 DEF t

\* The facts about a sequence and the sequence without its last element.
LEMMA OneLess ==
  ASSUME NEW S, NEW s \in Seq(S), Len(s) > 0
  PROVE  /\ SubSeq(s, 1, Len(s) - 1) \in Seq(S) /\ Len(SubSeq(s, 1, Len(s) - 1)) = Len(s) - 1
         /\ s[Len(s)] \in S
         /\ \A i \in 1..(Len(s) - 1) : SubSeq(s, 1, Len(s) - 1)[i] = s[i]
         /\ \A i \in 1..Len(s) : i \in 1..(Len(s) - 1) \/ i = Len(s)
         /\ \A i \in 1..(Len(s) - 1) : i \in 1..Len(s) /\ i # Len(s)
         /\ Len(s) \in 1..Len(s)
<1> DEFINE n == Len(s)
<1>1. n \in Nat /\ n > 0 /\ n = Len(s)
  OBVIOUS
<1> HIDE DEF n
<1>2. \A i \in 1..n : s[i] \in S
  BY <1>1, ElementOfSeq
<1>3. /\ SubSeq(s, 1, n - 1) \in Seq(S) /\ Len(SubSeq(s, 1, n - 1)) = n - 1
      /\ \A i \in 1..(n - 1) : SubSeq(s, 1, n - 1)[i] = s[i]
  BY <1>1
<1>4. /\ \A i \in 1..n : i \in 1..(n - 1) \/ i = n
      /\ \A i \in 1..(n - 1) : i \in 1..n /\ i # n
      /\ n \in 1..n
  BY ONLY <1>1
<1> QED
  BY ONLY <1>1, <1>2, <1>3, <1>4

\* The last element of one of the two parts goes to the other.
LEMMA Moved ==
  ASSUME NEW avail, NEW nds, NEW max, Parted(avail, nds, max), Len(avail) > 0
  PROVE  /\ Parted(SubSeq(avail, 1, Len(avail) - 1), Append(nds, avail[Len(avail)]), max)
         /\ avail[Len(avail)] \in 1..max
         /\ \A i \in 1..Len(nds) : nds[i] # avail[Len(avail)]
<1> DEFINE x    == avail[Len(avail)]
           less == SubSeq(avail, 1, Len(avail) - 1)
           more == Append(nds, x)
<1>1. /\ Len(nds) \in Nat /\ Len(avail) \in Nat /\ max \in Nat
      /\ \A i \in 1..Len(nds) : nds[i] \in 1..max
      /\ \A i \in 1..Len(avail) : avail[i] \in 1..max
      /\ \A k \in 1..max : (\E i \in 1..Len(nds) : nds[i] = k) \/ (\E i \in 1..Len(avail) : avail[i] = k)
  BY PartedElements
<1>2. /\ nds \in Seq(1..max) /\ avail \in Seq(1..max)
      /\ \A i, j \in 1..Len(nds) : nds[i] = nds[j] => i = j
      /\ \A i, j \in 1..Len(avail) : avail[i] = avail[j] => i = j
      /\ \A i \in 1..Len(avail), j \in 1..Len(nds) : avail[i] # nds[j]
      /\ Len(nds) + Len(avail) = max
  BY DEF Parted
<1>3. /\ less \in Seq(1..max) /\ Len(less) = Len(avail) - 1 /\ x \in 1..max
      /\ \A i \in 1..(Len(avail) - 1) : less[i] = avail[i]
      /\ \A i \in 1..Len(avail) : i \in 1..(Len(avail) - 1) \/ i = Len(avail)
      /\ \A i \in 1..(Len(avail) - 1) : i \in 1..Len(avail) /\ i # Len(avail)
      /\ Len(avail) \in 1..Len(avail)
  BY <1>2, OneLess
<1>4. \A i \in 1..Len(nds) : nds[i] # x
  BY ONLY <1>2, <1>3 DEF x
<1>5. x = avail[Len(avail)]
  OBVIOUS
<1> HIDE DEF x, less
<1>6. /\ more \in Seq(1..max) /\ Len(more) = Len(nds) + 1 /\ more[Len(nds) + 1] = x
      /\ \A i \in 1..Len(nds) : more[i] = nds[i]
      /\ \A i \in 1..(Len(nds) + 1) : i \in 1..Len(nds) \/ i = Len(nds) + 1
      /\ \A i, j \in 1..(Len(nds) + 1) : more[i] = more[j] => i = j
  <2> DEFINE S == 1..max
  <2>1. nds \in Seq(S) /\ x \in S
    BY <1>2, <1>3
  <2> HIDE DEF S
  <2>2. /\ more \in Seq(S) /\ Len(more) = Len(nds) + 1 /\ more[Len(nds) + 1] = x
        /\ \A i \in 1..Len(nds) : more[i] = nds[i]
        /\ \A i \in 1..(Len(nds) + 1) : i \in 1..Len(nds) \/ i = Len(nds) + 1
        /\ \A i, j \in 1..(Len(nds) + 1) : more[i] = more[j] => i = j
    BY ONLY <1>2, <1>4, <2>1, OneMore
  <2> QED
    BY <2>2 DEF S
<1> HIDE DEF more
<1>7. \A i, j \in 1..Len(less) : less[i] = less[j] => i = j
  BY ONLY <1>2, <1>3
<1>8. \A i \in 1..Len(less), j \in 1..Len(more) : less[i] # more[j]
  <2> SUFFICES ASSUME NEW i \in 1..Len(less), NEW j \in 1..Len(more) PROVE less[i] # more[j]
    OBVIOUS
  <2>1. less[i] = avail[i] /\ i \in 1..Len(avail) /\ i # Len(avail)
    BY ONLY <1>3
  <2>2. CASE j \in 1..Len(nds)
    BY ONLY <1>2, <1>6, <2>1, <2>2
  <2>3. CASE j = Len(nds) + 1
    BY ONLY <1>2, <1>3, <1>5, <1>6, <2>1, <2>3
  <2> QED
    BY ONLY <1>6, <2>2, <2>3
<1>9. Len(more) + Len(less) = max
  <2>1. Len(nds) \in Nat /\ Len(avail) \in Nat /\ Len(nds) + Len(avail) = max
    BY <1>1, <1>2
  <2>2. Len(more) = Len(nds) + 1 /\ Len(less) = Len(avail) - 1
    BY ONLY <1>3, <1>6
  <2> QED
    BY ONLY <2>1, <2>2
<1>10. \A k \in 1..max : (\E i \in 1..Len(more) : more[i] = k) \/ (\E i \in 1..Len(less) : less[i] = k)
  <2> SUFFICES ASSUME NEW k \in 1..max
               PROVE  (\E i \in 1..Len(more) : more[i] = k) \/ (\E i \in 1..Len(less) : less[i] = k)
    OBVIOUS
  <2>1. 1..Len(nds) \subseteq 1..Len(more) /\ Len(nds) + 1 \in 1..Len(more)
    BY ONLY <1>1, <1>6
  <2>2. ASSUME NEW i \in 1..Len(nds), nds[i] = k PROVE \E j \in 1..Len(more) : more[j] = k
    BY ONLY <1>6, <2>1, <2>2
  <2>3. ASSUME NEW i \in 1..Len(avail), avail[i] = k, i # Len(avail)
        PROVE  \E j \in 1..Len(less) : less[j] = k
    BY ONLY <1>3, <2>3
  <2>4. x = k => \E j \in 1..Len(more) : more[j] = k
    BY ONLY <1>6, <2>1
  <2> QED
    BY ONLY <1>1, <1>5, <2>2, <2>3, <2>4
<1>11. Parted(less, more, max)
  BY <1>1, <1>3, <1>6, <1>7, <1>8, <1>9, <1>10, ElementsParted
<1> QED
  BY <1>3, <1>4, <1>11 DEF less, more, x

\* Parted does not tell one list from the other.
LEMMA PartedEitherWay ==
  ASSUME NEW avail, NEW nds, NEW max, Parted(avail, nds, max)
  PROVE  Parted(nds, avail, max)
<1>1. /\ Len(nds) \in Nat /\ Len(avail) \in Nat /\ max \in Nat
      /\ \A k \in 1..max : (\E i \in 1..Len(avail) : avail[i] = k) \/ (\E i \in 1..Len(nds) : nds[i] = k)
  BY PartedElements
<1>2. /\ nds \in Seq(1..max) /\ avail \in Seq(1..max)
      /\ \A i, j \in 1..Len(nds) : nds[i] = nds[j] => i = j
      /\ \A i, j \in 1..Len(avail) : avail[i] = avail[j] => i = j
      /\ \A i \in 1..Len(nds), j \in 1..Len(avail) : nds[i] # avail[j]
      /\ Len(avail) + Len(nds) = max
  BY <1>1 DEF Parted
<1> QED
  BY ONLY <1>1, <1>2, ElementsParted

\* When no arena is unused, a new one is the next.
LEMMA PartedExtended ==
  ASSUME NEW avail, avail = <<>>, NEW nds, NEW max, Parted(avail, nds, max), NEW next, next = max + 1
  PROVE  /\ Parted(avail, Append(nds, next), next)
         /\ Len(nds) = max
         /\ \A i \in 1..Len(nds) : nds[i] # next
<1> DEFINE more == Append(nds, next)
<1>1. /\ Len(nds) \in Nat /\ max \in Nat /\ next \in Nat
      /\ \A i \in 1..Len(nds) : nds[i] \in 1..max
      /\ \A k \in 1..max : (\E i \in 1..Len(nds) : nds[i] = k) \/ (\E i \in 1..Len(avail) : avail[i] = k)
  BY PartedElements
<1>2. Len(avail) = 0 /\ (\A i \in 1..Len(avail) : FALSE) /\ avail \in Seq(1..next)
  OBVIOUS
<1>3. /\ nds \in Seq(1..max)
      /\ \A i, j \in 1..Len(nds) : nds[i] = nds[j] => i = j
      /\ Len(nds) = max
  BY <1>1, <1>2 DEF Parted
<1>4. nds \in Seq(1..next) /\ next \in 1..next
  <2>1. 1..max \subseteq 1..next
    BY <1>1
  <2> QED
    BY <1>1, <1>3, <2>1, SeqMonotonic
<1>5. \A i \in 1..Len(nds) : nds[i] # next
  BY <1>1
<1>6. /\ more \in Seq(1..next) /\ Len(more) = Len(nds) + 1 /\ more[Len(nds) + 1] = next
      /\ \A i \in 1..Len(nds) : more[i] = nds[i]
      /\ \A i, j \in 1..(Len(nds) + 1) : more[i] = more[j] => i = j
  <2> DEFINE S == 1..next
  <2>1. nds \in Seq(S) /\ next \in S
    BY <1>4
  <2> HIDE DEF S
  <2>2. /\ more \in Seq(S) /\ Len(more) = Len(nds) + 1 /\ more[Len(nds) + 1] = next
        /\ \A i \in 1..Len(nds) : more[i] = nds[i]
        /\ \A i, j \in 1..(Len(nds) + 1) : more[i] = more[j] => i = j
    BY ONLY <1>3, <1>5, <2>1, OneMore
  <2> QED
    BY <2>2 DEF S
<1> HIDE DEF more
<1>7. \A k \in 1..next : \E i \in 1..Len(more) : more[i] = k
  <2>1. \A k \in 1..next : k \in 1..max \/ k = next
    BY <1>1
  <2>2. 1..Len(nds) \subseteq 1..Len(more) /\ Len(nds) + 1 \in 1..Len(more)
    BY <1>1, <1>6
  <2>3. \A k \in 1..max : \E i \in 1..Len(nds) : nds[i] = k
    BY ONLY <1>1, <1>2
  <2> QED
    BY ONLY <1>6, <2>1, <2>2, <2>3
<1>8. Len(more) + Len(avail) = next /\ \A i, j \in 1..Len(more) : more[i] = more[j] => i = j
  BY ONLY <1>1, <1>2, <1>3, <1>6, next = max + 1
<1>9. Parted(avail, more, next)
  BY ONLY <1>1, <1>2, <1>6, <1>7, <1>8, ElementsParted
<1> QED
  BY <1>3, <1>5, <1>9 DEF more

\* The capacity is doubled until it is enough.
LEMMA Reserved ==
  ASSUME NEW da, IsArray(da), da.capacity \in Nat, NEW expected \in Nat
  PROVE  nob_da_reserve(da, expected).capacity \in Nat /\ nob_da_reserve(da, expected).capacity >= expected
<1>1. CASE expected <= da.capacity
  BY <1>1 DEF nob_da_reserve
<1>2. CASE ~(expected <= da.capacity)
  <2> DEFINE first   == IF da.capacity = 0 THEN NOB_DA_INIT_CAP ELSE da.capacity
             doubled == Doubled(first, expected)
             Enough(k) == doubled[k] >= expected /\ \A j \in 0..(k - 1) : doubled[j] < expected
             T       == {k \in 0..expected : doubled[k] >= expected}
             times   == CHOOSE k \in 0..expected : Enough(k)
  <2>1. first \in Nat \ {0}
    BY DynArraysAssumption
  <2>2. nob_da_reserve(da, expected) = [da EXCEPT !.capacity = doubled[times]]
    BY <1>2 DEF nob_da_reserve
  <2> HIDE DEF first
  <2>3. \A k \in 0..expected : doubled[k] \in Nat /\ doubled[k] > k
    BY <2>1, DoubledGrows
  <2> HIDE DEF doubled
  <2>4. expected \in T /\ T \subseteq Nat
    BY <2>3
  <2>5. PICK k \in T : \A j \in T : k <= j
    <3> HIDE DEF T
    <3> QED
      BY <2>4, LeastOf
  <2>6. k \in 0..expected /\ Enough(k)
    BY <2>3, <2>5
  <2>7. times \in 0..expected /\ Enough(times)
    <3> HIDE DEF Enough
    <3> QED
      BY <2>6
  <2>8. doubled[times] \in Nat /\ doubled[times] >= expected
    BY <2>3, <2>7
  <2> HIDE DEF times
  <2>9. [da EXCEPT !.capacity = doubled[times]].capacity = doubled[times]
    BY DEF IsArray
  <2> QED
    BY <2>2, <2>8, <2>9
<1> QED
  BY <1>1, <1>2

\* nob_da_append appends, and leaves a dynamic array whose items fit.
LEMMA AppendedItem ==
  ASSUME NEW S, NEW da, IsArray(da), NEW x \in S
  PROVE  /\ IsArray(nob_da_append(da, x))
         /\ nob_da_append(da, x).items = Append(da.items, x)
         /\ da.items \in Seq(S) /\ Roomy(da) => Roomy(nob_da_append(da, x))
<1> DEFINE da2 == nob_da_reserve(da, Len(da.items) + 1)
<1>1. da2 = [items |-> da2.items, capacity |-> da2.capacity] /\ da2.items = da.items
  BY DEF nob_da_reserve, IsArray
<1>2. nob_da_append(da, x) = [da2 EXCEPT !.items = Append(@, x)]
  BY DEF nob_da_append
<1> HIDE DEF da2
<1>3. nob_da_append(da, x) = [items |-> Append(da2.items, x), capacity |-> da2.capacity]
  BY <1>1, <1>2
<1>4. ASSUME da.items \in Seq(S), Roomy(da) PROVE Roomy(nob_da_append(da, x))
  <2>1. Len(da.items) + 1 \in Nat /\ Len(Append(da.items, x)) = Len(da.items) + 1
    BY <1>4
  <2>2. da2.capacity \in Nat /\ da2.capacity >= Len(da.items) + 1
    BY <1>4, <2>1, Reserved DEF da2, Roomy
  <2> QED
    BY <1>1, <1>3, <2>1, <2>2 DEF Roomy
<1> QED
  BY <1>1, <1>3, <1>4 DEF IsArray

\* One arena more.
LEMMA ArenaAdded ==
  ASSUME NEW items, NEW objs, NEW nds, HeapOK(items, objs, nds)
  PROVE  /\ HeapOK(Append(items, EmptyArena), objs, nds)
         /\ Len(Append(items, EmptyArena)) = Len(items) + 1
<1> DEFINE new == Append(items, EmptyArena)
<1>1. /\ new \in Seq(Arena) /\ Len(new) = Len(items) + 1
      /\ \A n \in 1..Len(items) : new[n] = items[n]
  BY EmptyIsArena DEF HeapOK
<1> HIDE DEF new
<1>2. nds \in Seq(1..Len(new))
  <2>1. 1..Len(items) \subseteq 1..Len(new)
    BY <1>1, HeapTypes
  <2> QED
    BY <2>1, SeqMonotonic DEF HeapOK
<1>3. \A o \in DOMAIN objs : Kept(new[nds[objs[o].depth]], o, objs[o])
  BY <1>1, HeapTypes DEF HeapOK
<1>4. HeapOK(new, objs, nds)
  BY <1>1, <1>2, <1>3 DEF HeapOK
<1> QED
  BY <1>1, <1>4 DEF new

\* One node more, in an arena that no node has.
LEMMA NodeAdded ==
  ASSUME NEW items, NEW objs, NEW nds, HeapOK(items, objs, nds),
         NEW arena \in 1..Len(items), \A i \in 1..Len(nds) : nds[i] # arena
  PROVE  /\ HeapOK(items, objs, Append(nds, arena))
         /\ Len(Append(nds, arena)) = Len(nds) + 1
         /\ Append(nds, arena)[Len(nds) + 1] = arena
         /\ \A i \in 1..Len(nds) : Append(nds, arena)[i] = nds[i]
<1> DEFINE new == Append(nds, arena)
<1>1. Len(nds) \in Nat
  BY HeapTypes
<1>2. /\ new \in Seq(1..Len(items)) /\ Len(new) = Len(nds) + 1
      /\ new[Len(nds) + 1] = arena
      /\ \A i \in 1..Len(nds) : new[i] = nds[i]
  BY DEF HeapOK
<1> HIDE DEF new
<1>3. \A i, j \in 1..Len(new) : new[i] = new[j] => i = j
  <2>1. \A i \in 1..Len(new) : i \in 1..Len(nds) \/ i = Len(nds) + 1
    <3>1. \A n \in Nat : \A i \in 1..(n + 1) : i \in 1..n \/ i = n + 1
      OBVIOUS
    <3>2. Len(new) = Len(nds) + 1
      BY <1>2
    <3> QED
      BY ONLY <1>1, <3>1, <3>2
  <2>2. \A i, j \in 1..Len(nds) : nds[i] = nds[j] => i = j
    BY DEF HeapOK
  <2> QED
    BY ONLY <1>2, <2>1, <2>2, \A i \in 1..Len(nds) : nds[i] # arena
<1>4. objs \in [DOMAIN objs -> ObjectOf(Len(new))] /\ DOMAIN objs \subseteq Names
  <2>1. ObjectOf(Len(nds)) \subseteq ObjectOf(Len(new))
    BY <1>1, <1>2 DEF ObjectOf
  <2> QED
    BY <2>1 DEF HeapOK
<1>5. \A o \in DOMAIN objs : Kept(items[new[objs[o].depth]], o, objs[o])
  BY <1>2, HeapTypes DEF HeapOK
<1>6. HeapOK(items, objs, new)
  BY <1>2, <1>3, <1>4, <1>5 DEF HeapOK
<1> QED
  BY <1>2, <1>6 DEF new

\* Without the youngest node, whose arena is reset, and without its objects.
LEMMA NodeRemoved ==
  ASSUME NEW items, NEW objs, NEW nds, HeapOK(items, objs, nds), Len(nds) > 1,
         NEW b \in Arena, NEW items2, items2 = [items EXCEPT ![nds[Len(nds)]] = b]
  PROVE  /\ HeapOK(items2, Released(objs, Len(nds)), SubSeq(nds, 1, Len(nds) - 1))
         /\ Len(items2) = Len(items)
         /\ Len(SubSeq(nds, 1, Len(nds) - 1)) = Len(nds) - 1
<1> DEFINE last   == nds[Len(nds)]
           objs2  == Released(objs, Len(nds))
           nds2   == SubSeq(nds, 1, Len(nds) - 1)
<1>1. /\ Len(nds) \in Nat /\ last \in 1..Len(items)
      /\ \A i \in 1..Len(nds) : nds[i] \in 1..Len(items)
      /\ \A n \in 1..Len(items) : items[n] \in Arena
  BY HeapTypes
<1>2. /\ items2 \in Seq(Arena) /\ Len(items2) = Len(items)
      /\ \A n \in 1..Len(items) : n # last => items2[n] = items[n]
  <2>1. items2 = [items EXCEPT ![last] = b]
    OBVIOUS
  <2> HIDE DEF last
  <2> QED
    BY <1>1, <2>1, ExceptSeq DEF HeapOK
<1>3. /\ nds2 \in Seq(1..Len(items)) /\ Len(nds2) = Len(nds) - 1
      /\ \A i \in 1..(Len(nds) - 1) : nds2[i] = nds[i]
  BY <1>1 DEF HeapOK
<1>4. \A i \in 1..(Len(nds) - 1) : nds[i] # last
  <2>1. \A i \in 1..(Len(nds) - 1) : i \in 1..Len(nds) /\ i # Len(nds) /\ Len(nds) \in 1..Len(nds)
    BY <1>1
  <2>2. \A i, j \in 1..Len(nds) : nds[i] = nds[j] => i = j
    BY DEF HeapOK
  <2> QED
    BY ONLY <2>1, <2>2
<1>5. \A o \in DOMAIN objs2 : o \in DOMAIN objs /\ objs2[o] = objs[o] /\ objs2[o].depth \in 1..(Len(nds) - 1)
  BY <1>1, HeapTypes DEF Released
<1> HIDE DEF last, nds2
<1>6. objs2 \in [DOMAIN objs2 -> ObjectOf(Len(nds2))] /\ DOMAIN objs2 \subseteq Names
  <2>1. \A o \in DOMAIN objs : objs[o] \in ObjectOf(Len(nds)) /\ o \in Names
    BY HeapTypes
  <2>2. \A x \in ObjectOf(Len(nds)) : x.depth \in 1..(Len(nds) - 1) => x \in ObjectOf(Len(nds) - 1)
    BY <1>1 DEF ObjectOf
  <2>3. objs2 = [o \in DOMAIN objs2 |-> objs2[o]]
    BY DEF Released
  <2> HIDE DEF objs2
  <2> QED
    BY ONLY <1>3, <1>5, <2>1, <2>2, <2>3
<1> HIDE DEF objs2
<1>7. ASSUME NEW o \in DOMAIN objs2
      PROVE  Kept(items2[nds2[objs2[o].depth]], o, objs2[o])
  <2>1. Kept(items[nds[objs[o].depth]], o, objs[o])
    BY <1>5 DEF HeapOK
  <2>2. nds2[objs2[o].depth] = nds[objs[o].depth] /\ nds[objs[o].depth] \in 1..Len(items)
        /\ nds[objs[o].depth] # last
    BY <1>1, <1>3, <1>4, <1>5
  <2> QED
    BY <1>2, <1>5, <2>1, <2>2
<1>8. HeapOK(items2, objs2, nds2)
  <2>1. \A i, j \in 1..Len(nds2) : nds2[i] = nds2[j] => i = j
    BY <1>1, <1>3 DEF HeapOK
  <2> QED
    BY <1>2, <1>3, <1>6, <1>7, <2>1 DEF HeapOK
<1> QED
  BY <1>2, <1>3, <1>8 DEF objs2, nds2

-----------------------------------------------------------------------------
(* The actions *)

\* An object more takes one of the unused names.
LEMMA NamesLeft ==
  ASSUME NEW objs
  PROVE  /\ Cardinality(Unused(objs)) \in Nat
         /\ Cardinality(Unused(objs)) > 0 => Unused(objs) # {}
         /\ \A objs2, name : name \in Unused(objs) /\ DOMAIN objs2 = DOMAIN objs \cup {name}
              => Cardinality(Unused(objs2)) = Cardinality(Unused(objs)) - 1
<1>1. IsFiniteSet(Names)
  BY MemoryAssumption, FS_Interval DEF Names
<1>2. Unused(objs) \subseteq Names
  BY DEF Unused
<1>3. IsFiniteSet(Unused(objs))
  BY <1>1, <1>2, FS_Subset
<1>4. Cardinality(Unused(objs)) \in Nat
  BY <1>3, FS_CardinalityType
<1>5. Cardinality(Unused(objs)) > 0 => Unused(objs) # {}
  BY FS_EmptySet
<1>6. ASSUME NEW objs2, NEW name \in Unused(objs), DOMAIN objs2 = DOMAIN objs \cup {name}
      PROVE  Cardinality(Unused(objs2)) = Cardinality(Unused(objs)) - 1
  <2>1. Unused(objs2) = Unused(objs) \ {name}
    BY <1>6 DEF Unused
  <2> QED
    BY <1>3, <2>1, FS_RemoveElement
<1> QED
  BY <1>4, <1>5, <1>6

\* stackstate_new makes two objects in the arena of its node and disturbs nothing.
LEMMA StackstateKeeps ==
  ASSUME NEW tot, NEW objs, NEW nds, IsArray(tot), HeapOK(tot.items, objs, nds),
         NEW depth \in 1..Len(nds), NEW num \in Nat, Cardinality(Unused(objs)) >= 2,
         NEW new, new = stackstate_new([total |-> tot, objects |-> objs], depth, nds[depth], num)
  PROVE  /\ IsArray(new.total)
         /\ HeapOK(new.total.items, new.objects, nds)
         /\ Changed(tot, new.total, nds[depth])
<1> DEFINE size  == num * Sexp
           table == Allocated([total |-> tot, objects |-> objs], depth, nds[depth], Symboltable, FALSE)
           again == Allocated([total |-> table.total, objects |-> table.objects], depth, nds[depth], size, FALSE)
<1>1. Symboltable \in Nat /\ size \in Nat /\ FALSE \in BOOLEAN
  BY SizesTimes
<1>2. Unused(objs) # {}
  BY NamesLeft
<1>4. /\ table = Allocated([total |-> tot, objects |-> objs], depth, nds[depth], Symboltable, FALSE)
      /\ new = Allocated(table, depth, nds[depth], size, FALSE)
  BY DEF stackstate_new
<1> HIDE DEF table
<1>3. /\ table = [total |-> table.total, objects |-> table.objects]
      /\ IsArray(table.total)
      /\ HeapOK(table.total.items, table.objects, nds)
      /\ Changed(tot, table.total, nds[depth])
      /\ DOMAIN table.objects = DOMAIN objs \cup {NewName(objs)}
      /\ NewName(objs) \in Unused(objs)
  <2>1. OneObjectMore(table, tot, objs, nds, depth)
    BY <1>1, <1>2, <1>4, AllocatedKeeps
  <2> QED
    BY ONLY <2>1 DEF OneObjectMore
<1>5. new = again
  BY <1>3, <1>4
<1>6. Unused(table.objects) # {}
  <2>1. Cardinality(Unused(table.objects)) = Cardinality(Unused(objs)) - 1
    BY <1>3, NamesLeft
  <2>2. Cardinality(Unused(objs)) \in Nat
    BY NamesLeft
  <2> QED
    BY <2>1, <2>2, NamesLeft
<1>7. again = Allocated([total |-> table.total, objects |-> table.objects], depth, nds[depth], size, FALSE)
  OBVIOUS
<1> HIDE DEF again, size
<1>8. /\ IsArray(again.total)
      /\ HeapOK(again.total.items, again.objects, nds)
      /\ Changed(table.total, again.total, nds[depth])
  <2>1. OneObjectMore(again, table.total, table.objects, nds, depth)
    BY <1>1, <1>3, <1>6, <1>7, AllocatedKeeps
  <2> QED
    BY <2>1 DEF OneObjectMore
<1>9. Changed(tot, again.total, nds[depth])
  BY <1>3, <1>8 DEF Changed
<1> QED
  BY <1>5, <1>8, <1>9

\* When the program has ended, every arena of the pool is empty.
Freed ==
  /\ nodes = <<>> /\ DOMAIN objects = {}
  /\ Roomy(total) /\ Roomy(available)
  /\ DOMAIN total.items = 1..Len(total.items)
  /\ \A n \in 1..Len(total.items) : total.items[n] = EmptyArena
  /\ available.items \in Seq(1..Len(total.items))

\* While it lives, the heap and the pool of its nodes.
Living ==
  /\ nodes # <<>>
  /\ IsArray(total) /\ IsArray(available)
  /\ HeapOK(total.items, objects, nodes)
  /\ PoolOK(total.items, available.items, nodes, most)
  /\ Roomy(total) /\ Roomy(available)
  /\ UnusedEmpty(total.items, available.items)

IInv == Freed \/ Living

\* What changes the arena of a node changes no unused one.
LEMMA UnusedKept ==
  ASSUME NEW avail, NEW nds, NEW max, Parted(avail, nds, max), NEW d \in 1..Len(nds),
         NEW tot, NEW new, Changed(tot, new, nds[d]), Len(tot.items) = max,
         Roomy(tot), UnusedEmpty(tot.items, avail)
  PROVE  Roomy(new) /\ UnusedEmpty(new.items, avail)
<1>1. \A i \in 1..Len(avail) : avail[i] \in 1..max /\ avail[i] # nds[d]
  BY PartedElements DEF Parted
<1>2. \A i \in 1..Len(avail) : new.items[avail[i]] = tot.items[avail[i]]
  BY <1>1 DEF Changed
<1> QED
  BY <1>2 DEF Changed, Roomy, UnusedEmpty

\* The invariant holds initially.
LEMMA InitOK == Init => IInv
<1> SUFFICES ASSUME Init PROVE IInv
  OBVIOUS
<1> DEFINE tot  == nob_da_append(EmptyArray, EmptyArena)
           objs == [o \in {} |-> 0]
           root == stackstate_new([total |-> tot, objects |-> objs], 1, 1, 0)
<1>1. IsArray(tot) /\ tot.items = <<EmptyArena>> /\ Roomy(tot) /\ Roomy(EmptyArray)
  <2>1. IsArray(EmptyArray) /\ Append(EmptyArray.items, EmptyArena) = <<EmptyArena>>
        /\ EmptyArray.items \in Seq(Arena) /\ Roomy(EmptyArray)
    BY DEF EmptyArray, IsArray, Roomy
  <2> QED
    BY <2>1, EmptyIsArena, AppendedItem
<1>2. total = root.total /\ objects = root.objects /\ nodes = <<1>> /\ most = 1
      /\ available = EmptyArray
  BY DEF Init, arena_pool_new, arena_allocator_new
<1> HIDE DEF tot
<1>3. HeapOK(tot.items, objs, nodes)
  <2>1. tot.items \in Seq(Arena) /\ Len(tot.items) = 1
    BY <1>1, EmptyIsArena
  <2>2. nodes \in Seq(1..Len(tot.items)) /\ Len(nodes) = 1
    BY <1>2, <2>1
  <2>3. \A i, j \in 1..Len(nodes) : nodes[i] = nodes[j] => i = j
    BY <2>2
  <2>4. DOMAIN objs = {} /\ objs \in [{} -> ObjectOf(Len(nodes))]
    OBVIOUS
  <2> HIDE DEF objs
  <2> QED
    BY <2>1, <2>2, <2>3, <2>4 DEF HeapOK
<1>4. Cardinality(Unused(objs)) >= 2
  <2>1. Unused(objs) = 1..MAX_OBJECTS
    BY DEF Unused, Names
  <2>2. MAX_OBJECTS \in Nat /\ MAX_OBJECTS >= 2
    BY MemoryAssumption
  <2> HIDE DEF objs
  <2> QED
    BY <2>1, <2>2, FS_Interval
<1>5. /\ IsArray(root.total)
      /\ HeapOK(root.total.items, root.objects, nodes)
      /\ Changed(tot, root.total, nodes[1])
  <2>1. ASSUME NEW t, NEW o, NEW d \in 1..Len(nodes),
               IsArray(t), HeapOK(t.items, o, nodes), Cardinality(Unused(o)) >= 2
        PROVE  LET r == stackstate_new([total |-> t, objects |-> o], d, nodes[d], 0)
               IN  /\ IsArray(r.total)
                   /\ HeapOK(r.total.items, r.objects, nodes)
                   /\ Changed(t, r.total, nodes[d])
    BY <2>1, StackstateKeeps
  <2>2. PICK d \in 1..Len(nodes) : d = 1
    BY <1>2
  <2>3. root = stackstate_new([total |-> tot, objects |-> objs], d, nodes[d], 0)
    BY <1>2, <2>2
  <2>4. IsArray(tot)
    BY <1>1
  <2> HIDE DEF objs, root
  <2> QED
    BY ONLY <1>3, <1>4, <2>1, <2>2, <2>3, <2>4
<1> HIDE DEF root
<1>6. IsArray(available) /\ available.items = <<>>
  BY <1>2 DEF EmptyArray, IsArray
<1>7. Len(total.items) = 1 /\ Roomy(total) /\ Roomy(available)
  BY <1>1, <1>2, <1>5 DEF Changed, Roomy
<1>8. PoolOK(total.items, available.items, nodes, most)
  <2>1. nodes \in Seq(1..1) /\ <<>> \in Seq(1..1) /\ Len(nodes) = 1 /\ Len(<<>>) = 0 /\ nodes[1] = 1
    BY <1>2
  <2>2. Parted(<<>>, nodes, 1)
    <3> DEFINE max == 1
               none == <<>>
    <3>1. /\ max \in Nat /\ nodes \in Seq(1..max) /\ none \in Seq(1..max)
          /\ Len(nodes) + Len(none) = max
          /\ \A i, j \in 1..Len(nodes) : nodes[i] = nodes[j] => i = j
          /\ \A k \in 1..max : \E i \in 1..Len(nodes) : nodes[i] = k
          /\ \A i \in 1..Len(none) : FALSE
      BY <2>1
    <3> HIDE DEF max, none
    <3>2. Parted(none, nodes, max)
      BY ONLY <3>1, ElementsParted
    <3> QED
      BY <3>2 DEF max, none
  <2> QED
    BY <1>2, <1>6, <1>7, <2>2 DEF PoolOK
<1>9. UnusedEmpty(total.items, available.items) /\ nodes # <<>>
  BY <1>2, <1>6 DEF UnusedEmpty
<1> QED
  BY <1>2, <1>5, <1>6, <1>7, <1>8, <1>9 DEF IInv, Living

\* calltree_alloc keeps the invariant.
LEMMA AllocStep ==
  ASSUME Living, NEW depth \in DOMAIN nodes, NEW size \in Nat, NEW list \in BOOLEAN,
         calltree_alloc(depth, size, list)
  PROVE  Living'
<1> DEFINE new == Allocated([total |-> total, objects |-> objects], depth, nodes[depth], size, list)
<1>1. /\ nodes # <<>> /\ IsArray(total) /\ IsArray(available)
      /\ HeapOK(total.items, objects, nodes)
      /\ PoolOK(total.items, available.items, nodes, most)
      /\ Roomy(total) /\ Roomy(available) /\ UnusedEmpty(total.items, available.items)
  BY DEF Living
<1>2. depth \in 1..Len(nodes)
  BY <1>1, HeapTypes
<1>3. total' = new.total /\ objects' = new.objects /\ UNCHANGED <<available, nodes, most>> /\ Unused(objects) # {}
  BY DEF calltree_alloc, Heap
<1>7. new = Allocated([total |-> total, objects |-> objects], depth, nodes[depth], size, list)
  OBVIOUS
<1> HIDE DEF new
<1>4. /\ IsArray(new.total)
      /\ HeapOK(new.total.items, new.objects, nodes)
      /\ Changed(total, new.total, nodes[depth])
  <2>1. OneObjectMore(new, total, objects, nodes, depth)
    BY <1>1, <1>2, <1>3, <1>7, AllocatedKeeps
  <2> QED
    BY <2>1 DEF OneObjectMore
<1>5. PoolOK(total'.items, available.items, nodes, most)
  BY <1>1, <1>3, <1>4 DEF PoolOK, Changed
<1>6. Roomy(new.total) /\ UnusedEmpty(new.total.items, available.items)
  BY <1>1, <1>2, <1>4, UnusedKept DEF PoolOK
<1> QED
  BY <1>1, <1>3, <1>4, <1>5, <1>6 DEF Living

\* sexp_list_append keeps the invariant, whether the list moves or not.
LEMMA AppendStep ==
  ASSUME Living, NEW o \in DOMAIN objects, sexp_list_append(o)
  PROVE  Living'
<1> DEFINE depth == objects[o].depth
           heap  == Grown([total |-> total, objects |-> objects], o, nodes[depth])
<1>1. /\ nodes # <<>> /\ IsArray(total) /\ IsArray(available)
      /\ HeapOK(total.items, objects, nodes)
      /\ PoolOK(total.items, available.items, nodes, most)
      /\ Roomy(total) /\ Roomy(available) /\ UnusedEmpty(total.items, available.items)
  BY DEF Living
<1>2. total' = heap.total /\ objects' = heap.objects /\ UNCHANGED <<available, nodes, most>>
  BY DEF sexp_list_append, Heap
<1>3. /\ IsArray(heap.total) /\ HeapOK(heap.total.items, heap.objects, nodes)
      /\ Changed(total, heap.total, nodes[depth])
  BY <1>1, GrownKeeps
<1>4. depth \in 1..Len(nodes)
  BY <1>1, HeapTypes
<1> HIDE DEF heap, depth
<1>5. PoolOK(total'.items, available.items, nodes, most)
  BY <1>1, <1>2, <1>3 DEF PoolOK, Changed
<1>6. Roomy(heap.total) /\ UnusedEmpty(heap.total.items, available.items)
  BY <1>1, <1>3, <1>4, UnusedKept DEF PoolOK
<1> QED
  BY <1>1, <1>2, <1>3, <1>5, <1>6 DEF Living

\* arena_free takes the regions away, one after the other.
LEMMA FreeEmpties ==
  ASSUME NEW a \in Arena
  PROVE  arena_free(a) = EmptyArena
<1> DEFINE n    == Len(a.regions)
           S    == [regions : Seq(Region), end : Nat]
           F    == [k \in 1..n |-> [x \in S |-> IF x.regions = <<>> THEN x ELSE free_region(x)]]
           freed == CHOOSE f : f = [i \in 0..n |-> IF i = 0 THEN a ELSE free_region(f[i - 1])]
<1>1. n \in Nat /\ a \in S
  BY ArenaFields DEF Arena
<1>2. ASSUME NEW x \in S, x.regions # <<>>
      PROVE  /\ free_region(x) \in S /\ free_region(x).end = x.end
             /\ Len(free_region(x).regions) = Len(x.regions) - 1
  BY <1>2, HeadTailProperties DEF free_region
<1>3. ASSUME NEW k \in 1..n, NEW x \in S
      PROVE  /\ F[k][x] \in S
             /\ x.regions # <<>> => F[k][x] = free_region(x)
  BY <1>2
<1>4. arena_free(a) = [freed[n] EXCEPT !.end = 0]
  BY DEF arena_free
<1> HIDE DEF n, S, F
<1>5. PICK g \in [0..n -> S] : Iterates(g, a, F, n)
  BY <1>1, <1>3, Iterate
<1>6. g[0] = a /\ \A k \in 1..n : g[k] = F[k][g[k - 1]]
  BY <1>5 DEF Iterates
<1> DEFINE T == {k \in 0..n : Len(g[k].regions) = n - k}
<1>7. ASSUME NEW k \in 1..n, k - 1 \in T
      PROVE  g[k] = free_region(g[k - 1]) /\ k \in T
  <2>1. k - 1 \in 0..n /\ k \in 0..n /\ g[k - 1] \in S /\ Len(g[k - 1].regions) = n - (k - 1)
    BY <1>1, <1>7
  <2>2. Len(g[k - 1].regions) # 0 /\ n - (k - 1) = (n - k) + 1
    BY <1>1, <2>1
  <2>3. g[k - 1].regions # <<>>
    BY <2>2
  <2>4. g[k] = free_region(g[k - 1])
    BY <1>3, <1>6, <2>1, <2>3
  <2>5. Len(g[k].regions) = n - k
    <3>1. Len(free_region(g[k - 1]).regions) = Len(g[k - 1].regions) - 1
      BY <1>2, <2>1, <2>3
    <3>2. \A j \in 0..n : (n - (j - 1)) - 1 = n - j
      BY <1>1
    <3> QED
      BY ONLY <2>1, <2>4, <3>1, <3>2
  <2> QED
    BY <2>1, <2>4, <2>5
<1>8. 0 \in T
  BY <1>1, <1>6 DEF n
<1> HIDE DEF T
<1>9. 0..n \subseteq T
  BY <1>1, <1>7, <1>8, UpTo
<1>10. \A k \in 1..n : g[k] = free_region(g[k - 1])
  <2>1. \A k \in 1..n : k - 1 \in 0..n
    BY <1>1
  <2> QED
    BY <1>7, <1>9, <2>1
<1>11. g = [i \in 0..n |-> IF i = 0 THEN a ELSE free_region(g[i - 1])]
  <2>1. \A i \in 0..n : i # 0 => i \in 1..n
    BY <1>1
  <2>2. \A i \in 0..n : g[i] = IF i = 0 THEN a ELSE free_region(g[i - 1])
    BY <1>6, <1>10, <2>1
  <2> QED
    BY <2>2
<1>12. freed = [i \in 0..n |-> IF i = 0 THEN a ELSE free_region(freed[i - 1])]
  BY <1>11
<1> HIDE DEF freed
<1>13. \A i \in 0..n : freed[i] = g[i]
  <2> DEFINE U == {i \in 0..n : freed[i] = g[i]}
  <2>1. 0 \in U
    BY <1>1, <1>6, <1>12
  <2>2. ASSUME NEW i \in 1..n, i - 1 \in U PROVE i \in U
    <3>1. freed[i - 1] = g[i - 1] /\ i \in 0..n /\ i # 0
      BY <1>1, <2>2
    <3>2. freed[i] = free_region(freed[i - 1])
      BY <1>12, <3>1
    <3> QED
      BY <1>10, <3>1, <3>2
  <2> HIDE DEF U
  <2>3. 0..n \subseteq U
    BY <1>1, <2>1, <2>2, UpTo
  <2> QED
    BY <2>3 DEF U
<1>14. freed[n] \in S /\ freed[n].regions = <<>>
  <2>1. n \in 0..n /\ n \in T /\ n - n = 0
    BY <1>1, <1>9
  <2>2. freed[n] \in S /\ Len(freed[n].regions) = 0
    BY <1>13, <2>1 DEF T
  <2> QED
    BY <2>2 DEF S
<1> QED
  BY <1>4, <1>14 DEF EmptyArena, S

\* interpreter_free leaves nothing.
LEMMA FreeStep ==
  ASSUME Living, interpreter_free
  PROVE  Freed'
<1>1. /\ IsArray(total) /\ IsArray(available)
      /\ HeapOK(total.items, objects, nodes)
      /\ PoolOK(total.items, available.items, nodes, most)
      /\ Roomy(total) /\ Roomy(available)
  BY DEF Living
<1>2. Len(total.items) \in Nat /\ DOMAIN total.items = 1..Len(total.items)
      /\ \A n \in 1..Len(total.items) : total.items[n] \in Arena
  BY <1>1, HeapTypes
<1>3. /\ total' = [total EXCEPT !.items = [n \in DOMAIN total.items |-> arena_free(total.items[n])]]
      /\ available' = available /\ nodes' = <<>> /\ objects' = [o \in {} |-> 0]
  BY DEF interpreter_free, arena_pool_destroy, arena_allocator_free
<1> DEFINE items2 == [n \in DOMAIN total.items |-> arena_free(total.items[n])]
<1>4. /\ DOMAIN items2 = 1..Len(total.items)
      /\ \A n \in 1..Len(total.items) : items2[n] = EmptyArena
  BY <1>2, FreeEmpties
<1>5. total'.items = items2 /\ total'.capacity = total.capacity
  BY <1>1, <1>3 DEF IsArray
<1> HIDE DEF items2
<1>6. Len(items2) = Len(total.items)
  BY <1>2, <1>4
<1>7. available.items \in Seq(1..Len(total.items))
  BY <1>1 DEF PoolOK, Parted
<1> QED
  BY <1>1, <1>3, <1>4, <1>5, <1>6, <1>7 DEF Freed, Roomy

\* arena_pool_get gives an arena that no node has, and adds one only when all are in use.
LEMMA PoolGet ==
  ASSUME IsArray(total), IsArray(available), HeapOK(total.items, objects, nodes),
         PoolOK(total.items, available.items, nodes, most),
         Roomy(total), Roomy(available), UnusedEmpty(total.items, available.items)
  PROVE  LET got == arena_pool_get
         IN  /\ IsArray(got.total) /\ IsArray(got.available)
             /\ HeapOK(got.total.items, objects, nodes)
             /\ got.arena \in 1..Len(got.total.items)
             /\ \A i \in 1..Len(nodes) : nodes[i] # got.arena
             /\ PoolOK(got.total.items, got.available.items, Append(nodes, got.arena),
                       IF Len(nodes) < most THEN most ELSE Len(nodes) + 1)
             /\ Roomy(got.total) /\ Roomy(got.available)
             /\ UnusedEmpty(got.total.items, got.available.items)
<1> DEFINE got  == arena_pool_get
           made == nob_da_append(total, EmptyArena)
           max  == IF Len(nodes) < most THEN most ELSE Len(nodes) + 1
           less == SubSeq(available.items, 1, Len(available.items) - 1)
<1>1. Len(total.items) = most /\ Parted(available.items, nodes, most)
  BY DEF PoolOK
<1>2. Len(nodes) \in Nat /\ Len(available.items) \in Nat /\ most \in Nat
      /\ Len(nodes) + Len(available.items) = most
  BY <1>1, PartedElements DEF Parted
<1>3. CASE available.items = <<>>
  <2>1. got = [total |-> made, available |-> available, arena |-> Len(made.items)]
    BY <1>3 DEF arena_pool_get, arena_allocator_new
  <2>2. IsArray(made) /\ made.items = Append(total.items, EmptyArena) /\ Roomy(made)
    BY EmptyIsArena, AppendedItem DEF HeapOK
  <2>8. UnusedEmpty(made.items, available.items)
    BY <1>3 DEF UnusedEmpty
  <2> HIDE DEF made, got
  <2>3. HeapOK(made.items, objects, nodes) /\ Len(made.items) = most + 1
    BY <1>1, <2>2, ArenaAdded
  <2>4. /\ Parted(available.items, Append(nodes, most + 1), most + 1)
        /\ Len(nodes) = most
        /\ \A i \in 1..Len(nodes) : nodes[i] # most + 1
    <3> DEFINE next == most + 1
    <3>1. next = most + 1
      OBVIOUS
    <3> HIDE DEF next
    <3>2. /\ Parted(available.items, Append(nodes, next), next)
          /\ Len(nodes) = most
          /\ \A i \in 1..Len(nodes) : nodes[i] # next
      BY ONLY <1>1, <1>3, <3>1, PartedExtended
    <3> QED
      BY <3>2 DEF next
  <2>5. max = most + 1
    BY <1>2, <2>4
  <2> HIDE DEF max
  <2>6. PoolOK(got.total.items, got.available.items, Append(nodes, got.arena), max)
    BY <1>3, <2>1, <2>3, <2>4, <2>5 DEF PoolOK
  <2>7. got.arena \in 1..Len(got.total.items)
    BY <1>2, <2>1, <2>3
  <2> QED
    BY <2>1, <2>2, <2>3, <2>4, <2>6, <2>7, <2>8 DEF got, max
<1>4. CASE available.items # <<>>
  <2>1. got = [total     |-> total,
               available |-> [items |-> less, capacity |-> available.capacity],
               arena     |-> available.items[Len(available.items)]]
    BY <1>4 DEF arena_pool_get, nob_da_pop, nob_da_last, IsArray
  <2>2. Len(available.items) > 0
    <3>1. available.items \in Seq(1..most)
      BY <1>1 DEF Parted
    <3>2. Len(available.items) # 0
      BY <1>4, <3>1, EmptySeq
    <3> QED
      BY <1>2, <3>2
  <2>3. /\ Parted(less, Append(nodes, available.items[Len(available.items)]), most)
        /\ available.items[Len(available.items)] \in 1..most
        /\ \A i \in 1..Len(nodes) : nodes[i] # available.items[Len(available.items)]
    BY <1>1, <2>2, Moved
  <2>7. /\ Len(less) = Len(available.items) - 1
        /\ \A i \in 1..Len(less) : i \in 1..Len(available.items) /\ less[i] = available.items[i]
    BY <1>1, <1>2, <2>2, OneLess DEF Parted
  <2>4. max = most
    BY <1>2, <2>2
  <2> HIDE DEF max, got, less
  <2>5. /\ got.total = total /\ got.available.items = less
        /\ got.arena = available.items[Len(available.items)]
        /\ IsArray(got.available)
    BY <2>1 DEF IsArray
  <2>6. PoolOK(got.total.items, got.available.items, Append(nodes, got.arena), max)
    BY <1>1, <2>3, <2>4, <2>5 DEF PoolOK
  <2>8. Roomy(got.available)
    BY <1>2, <2>1, <2>7 DEF Roomy
  <2>9. UnusedEmpty(got.total.items, got.available.items)
    BY <2>5, <2>7 DEF UnusedEmpty
  <2> QED
    BY <1>1, <2>3, <2>5, <2>6, <2>8, <2>9 DEF got, max
<1> QED
  BY <1>3, <1>4

\* calltree_child_at keeps the invariant.
LEMMA ChildStep ==
  ASSUME Living, NEW parent \in DOMAIN nodes, NEW num \in Nat, calltree_child_at(parent, num)
  PROVE  Living'
<1> DEFINE got    == arena_pool_get
           header == Allocated([total |-> got.total, objects |-> objects], parent, nodes[parent], CallTree, FALSE)
           nds    == Append(nodes, got.arena)
           depth  == Len(nodes) + 1
           child  == stackstate_new(header, depth, got.arena, num)
           max    == IF Len(nodes) < most THEN most ELSE Len(nodes) + 1
<1>1. /\ nodes # <<>> /\ IsArray(total) /\ IsArray(available)
      /\ HeapOK(total.items, objects, nodes)
      /\ PoolOK(total.items, available.items, nodes, most)
      /\ Roomy(total) /\ Roomy(available) /\ UnusedEmpty(total.items, available.items)
  BY DEF calltree_child_at, Living
<1>2. parent \in 1..Len(nodes) /\ Len(nodes) \in Nat
  BY <1>1, HeapTypes
<1>3. /\ total' = child.total /\ objects' = child.objects /\ available' = got.available
      /\ nodes' = nds /\ most' = max
      /\ Cardinality(Unused(objects)) >= 3
  BY ONLY calltree_child_at(parent, num) DEF calltree_child_at, Heap
<1>4. /\ IsArray(got.total) /\ IsArray(got.available)
      /\ HeapOK(got.total.items, objects, nodes)
      /\ got.arena \in 1..Len(got.total.items)
      /\ \A i \in 1..Len(nodes) : nodes[i] # got.arena
      /\ PoolOK(got.total.items, got.available.items, nds, max)
      /\ Roomy(got.total) /\ Roomy(got.available)
      /\ UnusedEmpty(got.total.items, got.available.items)
  BY ONLY <1>1, PoolGet
<1> HIDE DEF got
<1>5. Unused(objects) # {} /\ Cardinality(Unused(objects)) \in Nat
  BY <1>3, NamesLeft
<1>16. header = Allocated([total |-> got.total, objects |-> objects], parent, nodes[parent], CallTree, FALSE)
  OBVIOUS
<1> HIDE DEF header
<1>6. /\ header = [total |-> header.total, objects |-> header.objects]
      /\ IsArray(header.total)
      /\ HeapOK(header.total.items, header.objects, nodes)
      /\ Changed(got.total, header.total, nodes[parent])
      /\ DOMAIN header.objects = DOMAIN objects \cup {NewName(objects)}
      /\ NewName(objects) \in Unused(objects)
  <2>1. CallTree \in Nat /\ FALSE \in BOOLEAN
    BY SizesTimes
  <2>2. OneObjectMore(header, got.total, objects, nodes, parent)
    BY ONLY <1>2, <1>4, <1>5, <1>16, <2>1, AllocatedKeeps
  <2> QED
    BY ONLY <2>2 DEF OneObjectMore
<1>7. Cardinality(Unused(header.objects)) >= 2
  <2>1. Cardinality(Unused(header.objects)) = Cardinality(Unused(objects)) - 1
    BY <1>6, NamesLeft
  <2> QED
    BY <1>3, <1>5, <2>1
<1>8. /\ HeapOK(header.total.items, header.objects, nds)
      /\ Len(nds) = Len(nodes) + 1 /\ nds[Len(nodes) + 1] = got.arena
      /\ nds[parent] = nodes[parent] /\ parent \in 1..Len(nds)
  BY <1>2, <1>4, <1>6, NodeAdded DEF Changed
<1> HIDE DEF nds, max
<1>9. depth \in 1..Len(nds) /\ nds[depth] = got.arena
  BY <1>2, <1>8
<1>10. child = stackstate_new([total |-> header.total, objects |-> header.objects], depth, nds[depth], num)
  BY <1>6, <1>9
<1> HIDE DEF depth, child
<1>11. /\ IsArray(child.total)
       /\ HeapOK(child.total.items, child.objects, nds)
       /\ Changed(header.total, child.total, nds[depth])
  BY ONLY <1>6, <1>7, <1>8, <1>9, <1>10, num \in Nat, StackstateKeeps
<1>12. PoolOK(child.total.items, got.available.items, nds, max)
  BY ONLY <1>4, <1>6, <1>11 DEF PoolOK, Changed
<1>13. nds # <<>>
  BY <1>2, <1>8
<1>14. Roomy(header.total) /\ UnusedEmpty(header.total.items, got.available.items)
  BY <1>4, <1>6, <1>8, UnusedKept DEF PoolOK
<1>15. Roomy(child.total) /\ UnusedEmpty(child.total.items, got.available.items)
  <2>1. Len(header.total.items) = max /\ Parted(got.available.items, nds, max)
    BY <1>4, <1>6 DEF PoolOK, Changed
  <2> QED
    BY <1>9, <1>11, <1>14, <2>1, UnusedKept
<1> QED
  BY <1>3, <1>4, <1>11, <1>12, <1>13, <1>15 DEF Living

\* The destroyed node's arena is the last of the nodes', and goes to the unused ones.
LEMMA DestroyStep ==
  ASSUME Living, calltree_destroy
  PROVE  Living'
<1> DEFINE last   == nodes[Len(nodes)]
           fewer  == SubSeq(nodes, 1, Len(nodes) - 1)
           avail2 == Append(available.items, last)
<1>1. /\ IsArray(total) /\ IsArray(available)
      /\ HeapOK(total.items, objects, nodes)
      /\ PoolOK(total.items, available.items, nodes, most)
      /\ Len(nodes) > 1
      /\ Roomy(total) /\ Roomy(available) /\ UnusedEmpty(total.items, available.items)
  BY DEF calltree_destroy, Living
<1>2. /\ Len(nodes) \in Nat /\ last \in 1..Len(total.items) /\ DOMAIN total.items = 1..Len(total.items)
      /\ total.items[last] \in Arena
  BY <1>1, HeapTypes
<1>3. /\ total' = [total EXCEPT !.items[last] = arena_reset(total.items[last])]
      /\ available' = nob_da_append(available, last)
      /\ objects' = Released(objects, Len(nodes))
      /\ nodes' = fewer
      /\ most' = most
  BY DEF calltree_destroy, arena_pool_return, arena_allocator_reset
<1> HIDE DEF last
<1>4. /\ IsArray(total') /\ total'.capacity = total.capacity
      /\ total'.items = [total.items EXCEPT ![last] = arena_reset(total.items[last])]
  <2>1. total' = [items |-> [total.items EXCEPT ![last] = arena_reset(total.items[last])],
                  capacity |-> total.capacity]
    BY <1>1, <1>2, <1>3, ItemSet
  <2> QED
    BY ONLY <2>1 DEF IsArray
<1>5. IsArray(available') /\ available'.items = avail2 /\ Roomy(available')
  <2>1. available.items \in Seq(1..most) /\ last \in 1..most
    BY <1>1, <1>2 DEF PoolOK, Parted
  <2> QED
    BY <1>1, <1>3, <2>1, AppendedItem
<1>6. /\ HeapOK(total'.items, objects', nodes')
      /\ Len(total'.items) = Len(total.items)
      /\ Len(nodes') = Len(nodes) - 1
  <2>1. arena_reset(total.items[last]) \in Arena
    BY <1>2, ResetIsArena
  <2>2. total'.items = [total.items EXCEPT ![nodes[Len(nodes)]] = arena_reset(total.items[last])]
    BY <1>4 DEF last
  <2>3. /\ HeapOK(total'.items, Released(objects, Len(nodes)), SubSeq(nodes, 1, Len(nodes) - 1))
        /\ Len(total'.items) = Len(total.items)
        /\ Len(SubSeq(nodes, 1, Len(nodes) - 1)) = Len(nodes) - 1
    BY ONLY <1>1, <2>1, <2>2, NodeRemoved
  <2> QED
    BY <1>3, <2>3
<1>7. Parted(avail2, fewer, most)
  <2>1. Parted(nodes, available.items, most)
    BY <1>1, PartedEitherWay DEF PoolOK
  <2>2. Parted(fewer, avail2, most)
    BY <1>1, <2>1, Moved DEF last
  <2> QED
    BY <2>2, PartedEitherWay
<1>8. PoolOK(total'.items, available'.items, nodes', most')
  BY <1>1, <1>3, <1>5, <1>6, <1>7 DEF PoolOK
<1>9. nodes' # <<>>
  BY <1>1, <1>2, <1>6
<1>10. Roomy(total')
  BY <1>1, <1>4, <1>6 DEF Roomy
<1>11. UnusedEmpty(total'.items, available'.items)
  <2>1. /\ Unspent(total'.items[last])
        /\ \A n \in 1..Len(total.items) : n # last => total'.items[n] = total.items[n]
    BY <1>2, <1>4, ResetIsArena
  <2>2. /\ available.items \in Seq(1..Len(total.items))
        /\ \A i \in 1..Len(available.items) : available.items[i] \in 1..Len(total.items)
    BY <1>1, PartedElements DEF PoolOK, Parted
  <2>3. /\ Len(avail2) = Len(available.items) + 1 /\ avail2[Len(available.items) + 1] = last
        /\ \A i \in 1..Len(available.items) : avail2[i] = available.items[i]
        /\ Len(available.items) \in Nat
    BY <1>2, <2>2
  <2>4. \A i \in 1..Len(avail2) : i \in 1..Len(available.items) \/ i = Len(available.items) + 1
    BY <2>3
  <2>5. ASSUME NEW i \in 1..Len(avail2) PROVE Unspent(total'.items[avail2[i]])
    <3>1. CASE i \in 1..Len(available.items) /\ available.items[i] # last
      BY <1>1, <2>1, <2>2, <2>3, <3>1 DEF UnusedEmpty
    <3> QED
      BY <2>1, <2>3, <2>4, <3>1
  <2> QED
    BY <1>5, <2>5 DEF UnusedEmpty
<1> QED
  BY <1>4, <1>5, <1>6, <1>8, <1>9, <1>10, <1>11 DEF Living

\* Every step keeps the invariant.
LEMMA NextOK == IInv /\ [Next]_vars => IInv'
<1> SUFFICES ASSUME IInv, [Next]_vars PROVE IInv'
  OBVIOUS
<1>1. CASE UNCHANGED vars
  BY <1>1 DEF vars, IInv, Freed, Living
<1>2. CASE Freed /\ Next
  <2>1. nodes = <<>> /\ DOMAIN nodes = {} /\ Len(nodes) = 0 /\ DOMAIN objects = {}
    BY <1>2 DEF Freed
  <2> QED
    BY <1>2, <2>1 DEF Next, calltree_destroy, interpreter_free
<1>3. CASE Living /\ Next
  <2>1. ASSUME NEW depth \in DOMAIN nodes, NEW num \in ArgCounts, calltree_child_at(depth, num) PROVE Living'
    <3>1. num \in Nat
      BY MemoryAssumption
    <3> QED
      BY <1>3, <2>1, <3>1, ChildStep
  <2>2. ASSUME NEW depth \in DOMAIN nodes, NEW size \in Sizes, p_ct_alloc(depth, size) PROVE Living'
    <3>1. size \in Nat
      BY MemoryAssumption
    <3> QED
      BY <1>3, <2>2, <3>1, AllocStep DEF p_ct_alloc
  <2>3. ASSUME NEW depth \in DOMAIN nodes, NEW len \in Lengths, sexp_list_reserved(depth, len) PROVE Living'
    <3> DEFINE size == len * Sexp
    <3>1. size \in Nat
      BY MemoryAssumption, SizesTimes
    <3>2. calltree_alloc(depth, size, FALSE)
      BY <2>3 DEF sexp_list_reserved
    <3> HIDE DEF size
    <3> QED
      BY <1>3, <3>1, <3>2, AllocStep
  <2>4. ASSUME NEW depth \in DOMAIN nodes, sexp_list_append_first(depth) PROVE Living'
    BY <1>3, <2>4, SizesTimes, AllocStep DEF sexp_list_append_first
  <2>5. ASSUME NEW o \in DOMAIN objects, sexp_list_append(o) PROVE Living'
    BY <1>3, <2>5, AppendStep
  <2>6. ASSUME calltree_destroy PROVE Living'
    BY <1>3, <2>6, DestroyStep
  <2>7. ASSUME interpreter_free PROVE Freed'
    BY <1>3, <2>7, FreeStep
  <2> QED
    BY ONLY <1>3, <2>1, <2>2, <2>3, <2>4, <2>5, <2>6, <2>7 DEF Next, IInv
<1> QED
  BY <1>1, <1>2, <1>3 DEF IInv

-----------------------------------------------------------------------------
(* Theorems *)

\* Each arena gives its bytes out up to end and never more of a region than it has (arena_alloc,
\* allocators/arena.h), the dynamic arrays of the pool have room for what is in them (nob_da_append), and
\* what waits in the pool is empty: whatever the calls allocate and free, and when the pool is destroyed.
THEOREM ArenasWellFormed == Spec => []TypeOK
<1>1. ASSUME NEW a \in Arena
      PROVE  /\ a.end \in 0..Len(a.regions)
             /\ a.end = 0 <=> a.regions = <<>>
             /\ \A i \in DOMAIN a.regions :
                  /\ a.regions[i].count \in 0..a.regions[i].capacity
                  /\ i > a.end => a.regions[i].count = 0
  <2>1. /\ a.regions \in Seq(Region) /\ a.end \in Nat /\ a.end <= Len(a.regions)
        /\ Len(a.regions) \in Nat /\ DOMAIN a.regions = 1..Len(a.regions)
        /\ \A i \in 1..Len(a.regions) : a.regions[i] \in Region
        /\ a.end = 0 => Len(a.regions) = 0
        /\ \A i \in 1..Len(a.regions) : i > a.end => a.regions[i].count = 0
    BY ArenaFields
  <2>2. a.regions = <<>> <=> Len(a.regions) = 0
    BY <2>1, EmptySeq
  <2>3. \A i \in 1..Len(a.regions) : a.regions[i].count \in 0..a.regions[i].capacity
    BY <2>1, RegionFields
  <2> QED
    BY <2>1, <2>2, <2>3
<1>2. ASSUME Living PROVE TypeOK
  <2>1. /\ HeapOK(total.items, objects, nodes)
        /\ PoolOK(total.items, available.items, nodes, most)
        /\ Roomy(total) /\ Roomy(available)
        /\ UnusedEmpty(total.items, available.items)
    BY <1>2 DEF Living
  <2>2. /\ DOMAIN total.items = 1..Len(total.items)
        /\ \A n \in 1..Len(total.items) : total.items[n] \in Arena
        /\ nodes \in Seq(DOMAIN total.items) /\ DOMAIN objects \subseteq Names
    BY <2>1, HeapTypes DEF HeapOK
  <2>3. available.items \in Seq(DOMAIN total.items) /\ DOMAIN available.items = 1..Len(available.items)
    BY <2>1, <2>2 DEF PoolOK, Parted
  <2> QED
    BY <1>1, <2>1, <2>2, <2>3 DEF TypeOK, Roomy, UnusedEmpty
<1>3. ASSUME Freed PROVE TypeOK
  <2>1. /\ nodes = <<>> /\ DOMAIN objects = {}
        /\ Roomy(total) /\ Roomy(available)
        /\ DOMAIN total.items = 1..Len(total.items)
        /\ \A n \in 1..Len(total.items) : total.items[n] = EmptyArena
        /\ available.items \in Seq(1..Len(total.items))
    BY <1>3 DEF Freed
  <2>2. \A i \in DOMAIN available.items : available.items[i] \in 1..Len(total.items)
    BY <2>1, ElementOfSeq, LenProperties
  <2>3. nodes \in Seq(DOMAIN total.items)
    BY <2>1
  <2>4. \A n \in DOMAIN total.items : total.items[n] \in Arena /\ Unspent(total.items[n])
    BY <2>1, EmptyIsArena
  <2> QED
    BY <1>1, <2>1, <2>2, <2>3, <2>4 DEF TypeOK, Roomy
<1> QED
  BY <1>2, <1>3, InitOK, NextOK, PTL DEF Spec, IInv

\* Whatever the calls allocate, in their own node and in others, and whatever lists grow and nodes go
\* meanwhile, each block that calltree_alloc (interpreter.h) gave out is in the arena of its node, and
\* has the content that the program wrote.
THEOREM ObjectsAlwaysKept == Spec => []ObjectsKept
<1>1. IInv => ObjectsKept
  <2> SUFFICES ASSUME Living, NEW o \in DOMAIN objects
               PROVE  /\ objects[o].depth \in DOMAIN nodes
                      /\ GivenOut(total.items[nodes[objects[o].depth]], objects[o].ptr, objects[o].size)
                      /\ \A i \in 0..(objects[o].size - 1) :
                           Read(total.items[nodes[objects[o].depth]], objects[o].ptr, i) = <<o, i>>
    BY DEF ObjectsKept, IInv, Freed
  <2>1. HeapOK(total.items, objects, nodes)
    BY DEF Living
  <2>2. Kept(total.items[nodes[objects[o].depth]], o, objects[o])
    BY <2>1 DEF HeapOK
  <2>3. objects[o].depth \in DOMAIN nodes /\ total.items[nodes[objects[o].depth]] \in Arena
    BY <2>1, HeapTypes
  <2>4. GivenOut(total.items[nodes[objects[o].depth]], objects[o].ptr, objects[o].size)
    <3> DEFINE a == total.items[nodes[objects[o].depth]]
    <3>1. DOMAIN a.regions = 1..Len(a.regions)
      BY <2>3, ArenaFields
    <3> HIDE DEF a
    <3>2. GivenOut(a, objects[o].ptr, objects[o].size)
      BY <2>2, <3>1 DEF Kept, BlockIn, GivenOut, a
    <3> QED
      BY <3>2 DEF a
  <2> QED
    BY <2>2, <2>3, <2>4 DEF Kept
<1> QED
  BY <1>1, InitOK, NextOK, PTL DEF Spec

\* arena_pool_get (arenapool.c) adds an arena only when every one is a living node's, and no arena is
\* ever two nodes', or a node's and unused.
THEOREM ArenasReused == Spec => []PoolReuses
<1>1. IInv => PoolReuses
  BY DEF IInv, Freed, Living, PoolOK, Parted, PoolReuses
<1> QED
  BY <1>1, InitOK, NextOK, PTL DEF Spec
=============================================================================
