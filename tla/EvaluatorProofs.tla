-------------------------- MODULE EvaluatorProofs --------------------------
(* The evaluator gives every node of its call tree an arena of its own, and   *)
(* after each sexp all of them are back in the pool but those that            *)
(* p_slice_eval leaves behind, and those of the macros that it calls with an  *)
(* empty slice, whatever the program and whatever its primitives compute.     *)
EXTENDS Evaluator, Lemmas

-----------------------------------------------------------------------------
(* The stack of C calls, innermost first *)

\* A sequence, of whatever.
IsStack(q) == q \in Seq({q[i] : i \in DOMAIN q})

\* The members of a set do for that.
LEMMA StackOf ==
  ASSUME NEW S, NEW q \in Seq(S)
  PROVE  IsStack(q) /\ Len(q) \in Nat /\ DOMAIN q = 1 .. Len(q) /\ (q = <<>> <=> Len(q) = 0)
<1>1. Len(q) \in Nat /\ DOMAIN q = 1 .. Len(q) /\ (q = <<>> <=> Len(q) = 0)
  BY LenProperties, EmptySeq
<1> DEFINE T == {q[i] : i \in DOMAIN q}
<1>2. q = [i \in 1 .. Len(q) |-> q[i]]
  BY SeqDef, <1>1
<1>3. \A i \in 1 .. Len(q) : q[i] \in T
  BY <1>1
<1> HIDE DEF T
<1>4. [i \in 1 .. Len(q) |-> q[i]] \in Seq(T)
  BY <1>1, <1>3, IsASeq
<1>5. q \in Seq(T)
  BY <1>2, <1>4
<1> QED
  BY <1>1, <1>5 DEF IsStack, T

\* A function calls another.
LEMMA Pushed ==
  ASSUME NEW q, IsStack(q), NEW f, NEW new, new = <<f>> \o q
  PROVE  /\ IsStack(new) /\ Len(new) = Len(q) + 1 /\ Len(q) \in Nat
         /\ DOMAIN q = 1 .. Len(q) /\ DOMAIN new = 1 .. Len(q) + 1
         /\ new[1] = f /\ \A i \in 1 .. Len(q) : new[i + 1] = q[i]
<1> DEFINE S == {q[i] : i \in DOMAIN q} \cup {f}
<1>1. q \in Seq(S)
  BY SeqMonotonic DEF IsStack
<1>2. <<f>> \in Seq(S) /\ Len(<<f>>) = 1 /\ <<f>>[1] = f
  BY IsASeq
<1> HIDE DEF S
<1>3. /\ new \in Seq(S) /\ Len(new) = 1 + Len(q)
      /\ \A i \in 1 .. 1 + Len(q) : new[i] = IF i <= 1 THEN <<f>>[i] ELSE q[i - 1]
  BY <1>1, <1>2, ConcatProperties
<1>4. IsStack(new) /\ DOMAIN new = 1 .. Len(new) /\ DOMAIN q = 1 .. Len(q) /\ Len(q) \in Nat
  BY <1>1, <1>3, StackOf
<1> QED
  BY <1>2, <1>3, <1>4

\* A function returns.
LEMMA Returned ==
  ASSUME NEW q, IsStack(q), q # <<>>
  PROVE  /\ IsStack(Tail(q)) /\ Len(q) \in Nat /\ Len(q) >= 1 /\ Len(Tail(q)) = Len(q) - 1
         /\ DOMAIN q = 1 .. Len(q) /\ DOMAIN Tail(q) = 1 .. Len(q) - 1
         /\ \A i \in 1 .. Len(q) - 1 : Tail(q)[i] = q[i + 1]
         /\ Head(q) = q[1]
         /\ Tail(q) = <<>> <=> Len(q) = 1
<1> DEFINE S == {q[i] : i \in DOMAIN q}
<1>1. q \in Seq(S)
  BY DEF IsStack
<1> HIDE DEF S
<1>2. /\ Tail(q) \in Seq(S) /\ Len(Tail(q)) = Len(q) - 1
      /\ \A i \in 1 .. Len(Tail(q)) : Tail(q)[i] = q[i + 1]
      /\ Head(q) = q[1]
  BY <1>1, HeadTailProperties
<1>3. IsStack(Tail(q)) /\ DOMAIN Tail(q) = 1 .. Len(Tail(q)) /\ (Tail(q) = <<>> <=> Len(Tail(q)) = 0)
  BY <1>2, StackOf
<1>4. Len(q) \in Nat /\ DOMAIN q = 1 .. Len(q) /\ (q = <<>> <=> Len(q) = 0)
  BY <1>1, StackOf
<1> QED
  BY <1>2, <1>3, <1>4

\* The innermost function goes on as f.
LEMMA WentOn ==
  ASSUME NEW q, IsStack(q), q # <<>>, NEW f, NEW new, new = <<f>> \o Tail(q)
  PROVE  /\ IsStack(new) /\ Len(new) = Len(q) /\ DOMAIN new = DOMAIN q
         /\ new[1] = f /\ \A i \in DOMAIN q : i # 1 => new[i] = q[i]
<1>1. /\ IsStack(Tail(q)) /\ Len(q) \in Nat /\ Len(q) >= 1 /\ Len(Tail(q)) = Len(q) - 1
      /\ DOMAIN q = 1 .. Len(q)
      /\ \A i \in 1 .. Len(q) - 1 : Tail(q)[i] = q[i + 1]
  BY Returned
<1> DEFINE t == Tail(q)
<1>4. /\ IsStack(new) /\ Len(new) = Len(t) + 1 /\ DOMAIN new = 1 .. Len(t) + 1
      /\ new[1] = f /\ \A i \in 1 .. Len(t) : new[i + 1] = t[i]
  <2>1. IsStack(t) /\ new = <<f>> \o t
    BY <1>1
  <2> HIDE DEF t
  <2>2. IsStack(new) /\ Len(new) = Len(t) + 1
    BY <2>1, Pushed
  <2>3. DOMAIN new = 1 .. Len(t) + 1
    BY <2>1, Pushed
  <2>4. new[1] = f
    BY <2>1, Pushed
  <2>5. \A i \in 1 .. Len(t) : new[i + 1] = t[i]
    BY <2>1, Pushed
  <2> QED
    BY <2>2, <2>3, <2>4, <2>5
<1>2. /\ IsStack(new) /\ Len(new) = Len(q) /\ DOMAIN new = 1 .. Len(q)
      /\ new[1] = f /\ \A i \in 1 .. Len(q) - 1 : new[i + 1] = Tail(q)[i]
  BY <1>1, <1>4
<1>3. ASSUME NEW i \in DOMAIN q, i # 1 PROVE new[i] = q[i]
  <2>1. i - 1 \in 1 .. Len(q) - 1 /\ (i - 1) + 1 = i
    BY <1>1, <1>3
  <2> QED
    BY <1>1, <1>2, <2>1
<1> QED
  BY <1>1, <1>2, <1>3

-----------------------------------------------------------------------------
(* The inductive invariant *)

\* What frames and nodes are made of.
IsFrame(c) ==
  c = [fn |-> c.fn, at |-> c.at, argv |-> c.argv, own |-> c.own, vals |-> c.vals, result |-> c.result,
       src |-> c.src, prev_src |-> c.prev_src]
IsTreeNode(n) == n = [parent |-> n.parent, called |-> n.called, symboltable |-> n.symboltable, arena |-> n.arena]

\* A function whose caller destroys its node has one that is below the node of the caller, younger than
\* those of all functions that called it, and nobody else's.  The others are what p_slice_eval calls and the
\* eval of p_load.
FrameOK(i) ==
  /\ IsFrame(calls[i]) /\ calls[i].own \in BOOLEAN
  /\ calls[i].at \in DOMAIN nodes
  /\ ~ calls[i].own => calls[i].fn \in {"eval", "p-exec"}
  /\ calls[i].own =>
       /\ calls[i].at # Root /\ calls[i].at \notin abandoned
       /\ nodes[calls[i].at].parent = IF i = Len(calls) THEN Root ELSE calls[i + 1].at
       /\ \A j \in DOMAIN calls : i < j => calls[j].at < calls[i].at
StackOK == IsStack(calls) /\ \A i \in DOMAIN calls : FrameOK(i)

\* Every node is the root, or will be destroyed when a function in progress returns, or is one that p_slice_eval,
\* or p_exec in it, has left behind.
Held == {calls[i].at : i \in {j \in DOMAIN calls : calls[j].own}}
TreeOK ==
  /\ DOMAIN nodes \subseteq Nat
  /\ \E top \in Nat : \A n \in DOMAIN nodes : n <= top
  /\ DOMAIN nodes = {Root} \cup abandoned \cup Held
  /\ \A n \in DOMAIN nodes : IsTreeNode(nodes[n])
  /\ total \in Nat

EvaluatorInv == TypeOK /\ StackOK /\ TreeOK /\ ArenasOwned

-----------------------------------------------------------------------------
(* Nodes and arenas *)

\* A tree whose nodes have the parents and the arenas that they have in nodes.
SameTree(tree) ==
  /\ DOMAIN tree = DOMAIN nodes
  /\ \A n \in DOMAIN nodes :
       IsTreeNode(tree[n]) /\ tree[n].parent = nodes[n].parent /\ tree[n].arena = nodes[n].arena

\* A new node is younger than all that there are.
LEMMA NewNodeYoungest ==
  ASSUME TreeOK
  PROVE  NewNode \in Nat /\ \A n \in DOMAIN nodes : n < NewNode
<1> DEFINE T == {b \in Nat : \A n \in DOMAIN nodes : n <= b}
           D == DOMAIN nodes
<1>1. T \subseteq Nat /\ T # {} /\ D \subseteq Nat /\ Root \in D
  BY DEF TreeOK
<1>2. PICK b \in T : \A c \in T : b <= c
  <2> HIDE DEF T, D
  <2> QED
    BY <1>1, LeastOf
<1>3. b \in D
  <2> SUFFICES ASSUME b \notin D PROVE FALSE
    OBVIOUS
  <2>1. b \in Nat /\ \A n \in D : n \in Nat /\ n <= b /\ n # b
    BY <1>1, <1>2
  <2>2. b - 1 \in Nat
    BY <1>1, <2>1 DEF Root
  <2>3. \A n \in D : n <= b - 1
    BY <2>1, <2>2
  <2>4. b - 1 \in T
    BY <2>2, <2>3
  <2>5. b <= b - 1
    BY <1>2, <2>4
  <2> QED
    BY <2>1, <2>5
<1>4. \A n \in D : b >= n
  BY <1>1, <1>2
<1> HIDE DEF T, D
<1>5. Max(D) \in D /\ \A n \in D : Max(D) >= n
  <2>1. \E x \in D : \A y \in D : x >= y
    BY <1>3, <1>4
  <2> QED
    BY <2>1, Zenon DEF Max
<1>6. NewNode = 1 + Max(D)
  BY DEF NewNode, D
<1>7. NewNode \in Nat /\ \A n \in D : n < NewNode
  <2>1. PICK m \in Nat : m = Max(D)
    BY <1>1, <1>5
  <2>2. \A n \in D : n \in Nat /\ n <= m
    BY <1>1, <1>5, <2>1
  <2> QED
    BY <1>6, <2>1, <2>2
<1> QED
  BY <1>7 DEF D

\* The last arena that was returned, and the others.
LEMMA LastReturned ==
  ASSUME NEW S, NEW q \in Seq(S), q # <<>>
  PROVE  /\ Front(q) \in Seq(S) /\ Len(q) \in Nat /\ Len(q) >= 1
         /\ DOMAIN q = 1 .. Len(q) /\ DOMAIN Front(q) = 1 .. Len(q) - 1
         /\ \A i \in 1 .. Len(q) - 1 : Front(q)[i] = q[i]
         /\ Last(q) = q[Len(q)] /\ Last(q) \in S
<1>1. Len(q) \in Nat /\ Len(q) >= 1 /\ DOMAIN q = 1 .. Len(q)
  BY LenProperties, EmptySeq
<1>2. \A i \in 1 .. Len(q) : q[i] \in S
  BY ElementOfSeq
<1>3. \A i \in 1 .. Len(q) - 1 : q[i] \in S
  BY <1>1, <1>2
<1>4. /\ Front(q) \in Seq(S) /\ Len(Front(q)) = Len(q) - 1
      /\ \A i \in 1 .. Len(q) - 1 : Front(q)[i] = q[i]
  BY <1>1, <1>3, SubSeqProperties DEF Front
<1>5. DOMAIN Front(q) = 1 .. Len(q) - 1
  BY <1>4, LenProperties
<1> QED
  BY <1>1, <1>2, <1>4, <1>5 DEF Last

\* A new node gets an arena that no node has: one of the pool, or a new one.
LEMMA ChildMade ==
  ASSUME TypeOK, TreeOK, ArenasOwned, NEW tree, SameTree(tree),
         NEW parent, NEW called, calltree_child_at(tree, parent, called)
  PROVE  /\ DOMAIN nodes' = DOMAIN nodes \cup {NewNode}
         /\ nodes'[NewNode].parent = parent
         /\ \A n \in DOMAIN nodes' : IsTreeNode(nodes'[n])
         /\ \A n \in DOMAIN nodes : nodes'[n].parent = nodes[n].parent
         /\ \A n \in DOMAIN nodes' : nodes'[n].arena \in 1 .. total'
         /\ total' \in Nat /\ total' >= total
         /\ available' \in Seq(1 .. total')
         /\ ArenasOwned'
<1> DEFINE new == [parent |-> parent, called |-> called, symboltable |-> NoSymbols, arena |-> GivenOut]
<1>1. NewNode \in Nat /\ NewNode \notin DOMAIN nodes
  <2>1. NewNode \in Nat /\ \A n \in DOMAIN nodes : n < NewNode
    BY NewNodeYoungest
  <2> QED
    BY <2>1 DEF TreeOK
<1>2. /\ DOMAIN nodes' = DOMAIN nodes \cup {NewNode}
      /\ nodes'[NewNode] = new
      /\ \A n \in DOMAIN nodes : nodes'[n] = tree[n]
  <2> HIDE DEF new
  <2>1. nodes' = [n \in DOMAIN nodes \cup {NewNode} |-> IF n = NewNode THEN new ELSE tree[n]]
    BY DEF calltree_child_at, WithChild, SameTree, new
  <2> QED
    BY <1>1, <2>1
<1>3. total \in Nat /\ available \in Seq(1 .. total) /\ \A n \in DOMAIN nodes : nodes[n].arena \in 1 .. total
  BY DEF TypeOK, TreeOK
<1>4. IsTreeNode(new) /\ new.parent = parent /\ new.arena = GivenOut
  BY DEF IsTreeNode
<1> HIDE DEF new
<1>5. /\ nodes'[NewNode].parent = parent /\ nodes'[NewNode].arena = GivenOut
      /\ \A n \in DOMAIN nodes : nodes'[n].arena = nodes[n].arena /\ nodes'[n].parent = nodes[n].parent
      /\ \A n \in DOMAIN nodes' : IsTreeNode(nodes'[n])
  BY <1>2, <1>4 DEF SameTree
<1>6. /\ \A n \in DOMAIN nodes : nodes[n].arena # GivenOut
      /\ total' \in Nat /\ total' >= total /\ GivenOut \in 1 .. total'
      /\ available' \in Seq(1 .. total')
      /\ \A i, j \in DOMAIN available' : available'[i] = available'[j] => i = j
      /\ ToSet(available') = ToSet(available) \ {GivenOut}
      /\ 1 .. total' = (1 .. total) \cup {GivenOut}
  <2>1. CASE available = <<>>
    <3>1. GivenOut = total + 1 /\ total' = total + 1 /\ available' = available
      BY <2>1 DEF GivenOut, calltree_child_at
    <3>2. 1 .. total' = (1 .. total) \cup {GivenOut} /\ GivenOut \in 1 .. total' /\ GivenOut \notin 1 .. total
      BY <1>3, <3>1
    <3>3. available' \in Seq(1 .. total')
      <4>1. (1 .. total) \subseteq (1 .. total')
        BY <3>2
      <4> QED
        BY <1>3, <3>1, <4>1, SeqMonotonic
    <3>4. GivenOut \notin ToSet(available) /\ ToSet(available') = ToSet(available)
      BY <3>1, <3>2 DEF ArenasOwned
    <3>5. \A i, j \in DOMAIN available' : available'[i] = available'[j] => i = j
      BY <3>1 DEF ArenasOwned
    <3>6. \A n \in DOMAIN nodes : nodes[n].arena # GivenOut
      BY <1>3, <3>2
    <3>7. ToSet(available') = ToSet(available) \ {GivenOut}
      BY <3>4
    <3> QED
      BY <1>3, <3>1, <3>2, <3>3, <3>5, <3>6, <3>7
  <2>2. CASE available # <<>>
    <3>1. GivenOut = Last(available) /\ total' = total /\ available' = Front(available)
      BY <2>2 DEF GivenOut, calltree_child_at
    <3>2. /\ Front(available) \in Seq(1 .. total) /\ Len(available) \in Nat /\ Len(available) >= 1
          /\ DOMAIN available = 1 .. Len(available) /\ DOMAIN Front(available) = 1 .. Len(available) - 1
          /\ \A i \in 1 .. Len(available) - 1 : Front(available)[i] = available[i]
          /\ Last(available) = available[Len(available)] /\ Last(available) \in 1 .. total
      BY <1>3, <2>2, LastReturned
    <3>3. \A i, j \in DOMAIN available : available[i] = available[j] => i = j
      BY DEF ArenasOwned
    <3>4. \A i, j \in DOMAIN available' : available'[i] = available'[j] => i = j
      BY <3>1, <3>2, <3>3
    <3>5. /\ \A i \in 1 .. Len(available) : i \in 1 .. Len(available) - 1 \/ i = Len(available)
          /\ \A i \in 1 .. Len(available) - 1 : i \in 1 .. Len(available) /\ i # Len(available)
      <4>1. PICK k \in Nat : k = Len(available) /\ k >= 1
        BY <3>2
      <4>2. /\ \A i \in 1 .. k : i \in 1 .. k - 1 \/ i = k
            /\ \A i \in 1 .. k - 1 : i \in 1 .. k /\ i # k
        BY <4>1
      <4> QED
        BY <4>1, <4>2
    <3>6. \A i \in 1 .. Len(available) - 1 : i \in DOMAIN available /\ i # Len(available)
      BY <3>2, <3>5
    <3>7. Len(available) \in DOMAIN available
      BY <3>2
    <3>8. ToSet(available') = ToSet(available) \ {GivenOut}
      <4>1. ASSUME NEW a \in ToSet(available') PROVE a \in ToSet(available) /\ a # GivenOut
        BY <3>1, <3>2, <3>3, <3>6, <3>7, <4>1 DEF ToSet
      <4>2. ASSUME NEW a \in ToSet(available), a # GivenOut PROVE a \in ToSet(available')
        BY <3>1, <3>2, <3>5, <4>2 DEF ToSet
      <4> QED
        BY <4>1, <4>2
    <3>9. GivenOut \in ToSet(available)
      BY <3>1, <3>2, <3>7 DEF ToSet
    <3>10. \A n \in DOMAIN nodes : nodes[n].arena # GivenOut
      BY <3>9 DEF ArenasOwned
    <3>11. total' \in Nat /\ total' >= total /\ GivenOut \in 1 .. total' /\ 1 .. total' = (1 .. total) \cup {GivenOut}
      BY <1>3, <3>1, <3>2
    <3> QED
      BY <3>1, <3>2, <3>4, <3>8, <3>10, <3>11
  <2> QED
    BY <2>1, <2>2
<1>7. ArenasOwned'
  <2> DEFINE used == {nodes[n].arena : n \in DOMAIN nodes}
  <2>1. {nodes'[n].arena : n \in DOMAIN nodes'} = used \cup {GivenOut}
    BY <1>2, <1>5
  <2>2. ToSet(available') = (1 .. total') \ (used \cup {GivenOut})
    BY <1>6 DEF ArenasOwned
  <2>3. \A m, n \in DOMAIN nodes' : nodes'[m].arena = nodes'[n].arena => m = n
    BY <1>2, <1>5, <1>6 DEF ArenasOwned
  <2> QED
    BY <1>6, <2>1, <2>2, <2>3 DEF ArenasOwned
<1>8. \A n \in DOMAIN nodes' : nodes'[n].arena \in 1 .. total'
  BY <1>2, <1>3, <1>5, <1>6
<1> QED
  BY <1>2, <1>5, <1>6, <1>7, <1>8
-----------------------------------------------------------------------------
(* The kinds of steps *)

\* A function calls another one: those in progress stay as they are.
LEMMA CallKeepsFrames ==
  ASSUME StackOK, NEW f, calls' = <<f>> \o calls,
         DOMAIN nodes \subseteq DOMAIN nodes',
         \A n \in DOMAIN nodes : nodes'[n].parent = nodes[n].parent,
         \A n \in DOMAIN nodes : n \in abandoned' => n \in abandoned
  PROVE  /\ IsStack(calls') /\ Len(calls') = Len(calls) + 1 /\ Len(calls) \in Nat
         /\ calls'[1] = f /\ 1 \in DOMAIN calls'
         /\ \A i \in DOMAIN calls' : i = 1 \/ \E k \in DOMAIN calls : i = k + 1 /\ calls'[i] = calls[k]
         /\ \A k \in DOMAIN calls : FrameOK(k + 1)'
         /\ Held' = IF f.own THEN Held \cup {f.at} ELSE Held
<1>1. IsStack(calls)
  BY DEF StackOK
<1>2. IsStack(calls')
  BY <1>1, Pushed
<1>3. Len(calls') = Len(calls) + 1 /\ Len(calls) \in Nat
  BY <1>1, Pushed
<1>4. DOMAIN calls = 1 .. Len(calls)
  BY <1>1, Pushed
<1>5. DOMAIN calls' = 1 .. Len(calls) + 1
  BY <1>1, Pushed
<1>6. calls'[1] = f
  BY <1>1, Pushed
<1>7. \A i \in 1 .. Len(calls) : calls'[i + 1] = calls[i]
  BY <1>1, Pushed
<1>8. PICK size \in Nat : size = Len(calls)
  BY <1>3
<1>9. ASSUME NEW i \in DOMAIN calls' PROVE i = 1 \/ \E k \in DOMAIN calls : i = k + 1 /\ calls'[i] = calls[k]
  <2>1. i \in 1 .. size + 1
    BY <1>5, <1>8, <1>9
  <2>2. i = 1 \/ (i - 1 \in 1 .. size /\ i = (i - 1) + 1)
    BY <2>1
  <2> QED
    BY <1>4, <1>7, <1>8, <2>2
<1>10. ASSUME NEW k \in DOMAIN calls
       PROVE  k \in Nat /\ k <= size /\ k + 1 \in DOMAIN calls' /\ calls'[k + 1] = calls[k]
  <2>1. k \in 1 .. size
    BY <1>4, <1>8
  <2>2. k \in Nat /\ k <= size /\ k + 1 \in 1 .. size + 1
    BY <2>1
  <2> QED
    BY <1>4, <1>5, <1>7, <1>8, <2>2
<1>11. ASSUME NEW k \in DOMAIN calls PROVE FrameOK(k + 1)'
  <2>1. FrameOK(k)
    BY DEF StackOK
  <2>2. k \in Nat /\ k <= size /\ k + 1 \in DOMAIN calls' /\ calls'[k + 1] = calls[k]
    BY <1>10
  <2>3. \A j \in DOMAIN calls' : k + 1 < j => calls'[j].at < calls[k].at \/ ~ calls[k].own
    <3> SUFFICES ASSUME NEW j \in DOMAIN calls', k + 1 < j, calls[k].own PROVE calls'[j].at < calls[k].at
      OBVIOUS
    <3>1. j # 1
      BY <2>2
    <3>2. PICK m \in DOMAIN calls : j = m + 1 /\ calls'[j] = calls[m]
      BY <1>9, <3>1
    <3>3. m \in Nat
      BY <1>10
    <3>4. k < m
      BY <2>2, <3>2, <3>3
    <3> QED
      BY <2>1, <3>2, <3>4 DEF FrameOK
  <2>4. (IF k = Len(calls) THEN Root ELSE calls[k + 1].at) = (IF k + 1 = Len(calls') THEN Root ELSE calls'[(k + 1) + 1].at)
    <3>1. CASE k = Len(calls)
      BY <1>3, <3>1
    <3>2. CASE k # Len(calls)
      <4>1. k + 1 \in 1 .. size /\ k + 1 # size + 1
        BY <1>8, <2>2, <3>2
      <4>2. k + 1 # Len(calls')
        BY <1>3, <1>8, <4>1
      <4>3. calls'[(k + 1) + 1] = calls[k + 1]
        BY <1>7, <1>8, <4>1
      <4> QED
        BY <3>2, <4>2, <4>3
    <3> QED
      BY <3>1, <3>2
  <2>5. calls[k].at \in DOMAIN nodes
    BY <2>1 DEF FrameOK
  <2> QED
    BY <2>1, <2>2, <2>3, <2>4, <2>5 DEF FrameOK
<1>12. 1 \in DOMAIN calls'
  BY <1>5, <1>8
<1>13. Held' = IF f.own THEN Held \cup {f.at} ELSE Held
  <2>1. ASSUME NEW n \in Held' PROVE n \in Held \/ (f.own /\ n = f.at)
    <3>1. PICK i \in DOMAIN calls' : calls'[i].own /\ n = calls'[i].at
      BY <2>1 DEF Held
    <3> QED
      BY <1>6, <1>9, <3>1 DEF Held
  <2>2. ASSUME NEW n \in Held PROVE n \in Held'
    <3>1. PICK k \in DOMAIN calls : calls[k].own /\ n = calls[k].at
      BY <2>2 DEF Held
    <3>2. k + 1 \in DOMAIN calls' /\ calls'[k + 1] = calls[k]
      BY <1>10
    <3> QED
      BY <3>1, <3>2 DEF Held
  <2>3. f.own => f.at \in Held'
    BY <1>6, <1>12 DEF Held
  <2> QED
    BY <2>1, <2>2, <2>3
<1> QED
  BY <1>2, <1>3, <1>6, <1>9, <1>11, <1>12, <1>13

\* A function calls another one at a new node below its own, which is destroyed when that returns or is
\* left behind.
LEMMA EnteredKeeps ==
  ASSUME EvaluatorInv, NEW tree, SameTree(tree), NEW parent, NEW called, NEW fn, NEW args, NEW own \in BOOLEAN,
         calltree_child_at(tree, parent, called),
         parent = IF calls = <<>> THEN Root ELSE Head(calls).at,
         calls' = <<Frame(fn, NewNode, args, own)>> \o calls,
         abandoned' = IF own THEN abandoned ELSE abandoned \cup {NewNode},
         ~ own => fn = "p-exec",
         cells' \subseteq cells, aborted' \in BOOLEAN
  PROVE  EvaluatorInv'
<1> DEFINE f == Frame(fn, NewNode, args, own)
<1>1. TypeOK /\ StackOK /\ TreeOK /\ ArenasOwned
  BY DEF EvaluatorInv
<1>2. NewNode \in Nat /\ \A n \in DOMAIN nodes : n < NewNode
  BY <1>1, NewNodeYoungest
<1>3. /\ DOMAIN nodes' = DOMAIN nodes \cup {NewNode}
      /\ nodes'[NewNode].parent = parent
      /\ \A n \in DOMAIN nodes' : IsTreeNode(nodes'[n])
      /\ \A n \in DOMAIN nodes : nodes'[n].parent = nodes[n].parent
      /\ \A n \in DOMAIN nodes' : nodes'[n].arena \in 1 .. total'
      /\ total' \in Nat /\ total' >= total
      /\ available' \in Seq(1 .. total')
      /\ ArenasOwned'
  BY <1>1, ChildMade
<1>4. DOMAIN nodes \subseteq Nat /\ Root \in DOMAIN nodes /\ abandoned \subseteq DOMAIN nodes
  BY <1>1 DEF TreeOK
<1>5. NewNode \notin DOMAIN nodes
  BY <1>2, <1>4
<1>6. \A i \in DOMAIN calls : FrameOK(i)
  BY <1>1 DEF StackOK
<1>7. /\ IsFrame(f) /\ f.at = NewNode /\ f.own = own /\ f.fn = fn /\ calls' = <<f>> \o calls
  BY DEF IsFrame, Frame
<1> HIDE DEF f
<1>8. /\ IsStack(calls') /\ Len(calls') = Len(calls) + 1 /\ Len(calls) \in Nat
      /\ calls'[1] = f /\ 1 \in DOMAIN calls'
      /\ \A i \in DOMAIN calls' : i = 1 \/ \E k \in DOMAIN calls : i = k + 1 /\ calls'[i] = calls[k]
      /\ \A k \in DOMAIN calls : FrameOK(k + 1)'
      /\ Held' = IF f.own THEN Held \cup {f.at} ELSE Held
  <2>1. DOMAIN nodes \subseteq DOMAIN nodes'
    BY <1>3
  <2>2. \A n \in DOMAIN nodes : n \in abandoned' => n \in abandoned
    BY <1>5
  <2> QED
    BY <1>1, <1>3, <1>7, <2>1, <2>2, CallKeepsFrames
<1>9. parent = IF 1 = Len(calls') THEN Root ELSE calls'[2].at
  <2>1. CASE calls = <<>>
    <3>1. Len(calls) = 0
      BY <2>1, EmptySeq
    <3> QED
      BY <1>8, <2>1, <3>1
  <2>2. CASE calls # <<>>
    <3>1. /\ Len(calls) >= 1 /\ Head(calls) = calls[1] /\ DOMAIN calls = 1 .. Len(calls)
          /\ IsStack(calls)
      BY <1>1, <2>2, Returned DEF StackOK
    <3>2. calls'[1 + 1] = calls[1]
      BY <1>8, <3>1, Pushed, <1>7
    <3>3. Len(calls') # 1
      BY <1>8, <3>1
    <3> QED
      BY <2>2, <3>1, <3>2, <3>3
  <2> QED
    BY <2>1, <2>2
<1>10. FrameOK(1)'
  <2>1. \A j \in DOMAIN calls' : 1 < j => calls'[j].at < NewNode
    BY <1>2, <1>6, <1>8 DEF FrameOK
  <2>2. IsFrame(calls'[1]) /\ calls'[1].own = own /\ calls'[1].at = NewNode /\ calls'[1].fn = fn
    BY <1>7, <1>8
  <2>3. own => NewNode # Root /\ NewNode \notin abandoned'
    BY <1>4, <1>5
  <2>4. calls'[1].at \in DOMAIN nodes'
    BY <1>3, <2>2
  <2>5. own => nodes'[calls'[1].at].parent = IF 1 = Len(calls') THEN Root ELSE calls'[2].at
    BY <1>3, <1>9, <2>2
  <2>6. calls'[1 + 1] = calls'[2]
    OBVIOUS
  <2> QED
    BY <2>1, <2>2, <2>3, <2>4, <2>5, <2>6 DEF FrameOK, IsFrame
<1>11. StackOK'
  BY <1>8, <1>10 DEF StackOK
<1>12. TreeOK'
  <2>1. DOMAIN nodes' = {Root} \cup abandoned' \cup Held'
    BY <1>1, <1>3, <1>7, <1>8 DEF TreeOK
  <2>2. \A n \in DOMAIN nodes' : n \in Nat /\ n <= NewNode
    BY <1>2, <1>3, <1>4
  <2> QED
    BY <1>2, <1>3, <2>1, <2>2 DEF TreeOK
<1>13. TypeOK'
  <2>1. parent \in Nat
    <3>1. CASE calls = <<>>
      BY <3>1 DEF Root
    <3>2. CASE calls # <<>>
      <4>1. Head(calls) = calls[1] /\ DOMAIN calls = 1 .. Len(calls) /\ Len(calls) >= 1
        BY <1>1, <3>2, Returned DEF StackOK
      <4>2. 1 \in DOMAIN calls
        BY <1>8, <4>1
      <4> QED
        BY <1>4, <1>6, <3>2, <4>1, <4>2 DEF FrameOK
    <3> QED
      BY <3>1, <3>2
  <2>2. \A n \in DOMAIN nodes' : nodes'[n].parent \in Nat /\ nodes'[n].arena \in 1 .. total'
    BY <1>1, <1>3, <2>1 DEF TypeOK
  <2>3. Live' \subseteq DOMAIN nodes'
    BY <1>11 DEF StackOK, FrameOK, Live
  <2>4. \A c \in cells' : IsCell(c) /\ c[2][2] \in 1 .. total'
    <3>1. \A a \in 1 .. total : a \in 1 .. total'
      BY <1>1, <1>3 DEF TreeOK
    <3> QED
      BY <1>1, <3>1 DEF TypeOK
  <2>5. abandoned' \subseteq Nat
    BY <1>2, <1>4
  <2>6. Root \in DOMAIN nodes'
    BY <1>3, <1>4
  <2> QED
    BY <1>3, <2>2, <2>3, <2>4, <2>5, <2>6 DEF TypeOK
<1> QED
  BY <1>3, <1>11, <1>12, <1>13 DEF EvaluatorInv

\* p_load has a sexp evaluated at a node that there is.
LEMMA LoadedKeeps ==
  ASSUME EvaluatorInv, NEW n \in DOMAIN nodes, NEW args,
         calls' = <<Frame("eval", n, args, FALSE)>> \o calls,
         UNCHANGED <<nodes, total, available, cells, aborted, abandoned>>
  PROVE  EvaluatorInv'
<1> DEFINE f == Frame("eval", n, args, FALSE)
<1>1. TypeOK /\ StackOK /\ TreeOK /\ ArenasOwned
  BY DEF EvaluatorInv
<1>2. /\ IsFrame(f) /\ f.at = n /\ f.own = FALSE /\ f.fn = "eval" /\ calls' = <<f>> \o calls
  BY DEF IsFrame, Frame
<1> HIDE DEF f
<1>3. /\ IsStack(calls') /\ Len(calls') = Len(calls) + 1 /\ Len(calls) \in Nat
      /\ calls'[1] = f /\ 1 \in DOMAIN calls'
      /\ \A i \in DOMAIN calls' : i = 1 \/ \E k \in DOMAIN calls : i = k + 1 /\ calls'[i] = calls[k]
      /\ \A k \in DOMAIN calls : FrameOK(k + 1)'
      /\ Held' = IF f.own THEN Held \cup {f.at} ELSE Held
  <2>1. /\ DOMAIN nodes \subseteq DOMAIN nodes'
        /\ \A m \in DOMAIN nodes : nodes'[m].parent = nodes[m].parent
        /\ \A m \in DOMAIN nodes : m \in abandoned' => m \in abandoned
    OBVIOUS
  <2> QED
    BY <1>1, <1>2, <2>1, CallKeepsFrames
<1>4. FrameOK(1)'
  BY <1>2, <1>3 DEF FrameOK, IsFrame
<1>5. StackOK'
  BY <1>3, <1>4 DEF StackOK
<1>6. Held' = Held
  BY <1>2, <1>3
<1>7. TreeOK' /\ ArenasOwned'
  BY <1>1, <1>6 DEF TreeOK, ArenasOwned
<1>8. TypeOK'
  <2>1. Live' \subseteq DOMAIN nodes'
    BY <1>5 DEF StackOK, FrameOK, Live
  <2> QED
    BY <1>1, <2>1 DEF TypeOK
<1> QED
  BY <1>5, <1>7, <1>8 DEF EvaluatorInv

\* The innermost function changes its locals.
LEMMA WentOnKeeps ==
  ASSUME EvaluatorInv, calls # <<>>, NEW f, IsFrame(f),
         f.fn = Head(calls).fn, f.at = Head(calls).at, f.own = Head(calls).own,
         calls' = <<f>> \o Tail(calls),
         UNCHANGED <<nodes, total, available, cells, aborted, abandoned>>
  PROVE  EvaluatorInv'
<1>1. TypeOK /\ StackOK /\ TreeOK /\ ArenasOwned
  BY DEF EvaluatorInv
<1>2. IsStack(calls)
  BY <1>1 DEF StackOK
<1>3. IsStack(calls') /\ Len(calls') = Len(calls) /\ DOMAIN calls' = DOMAIN calls
  BY <1>2, WentOn
<1>4. calls'[1] = f /\ \A i \in DOMAIN calls : i # 1 => calls'[i] = calls[i]
  BY <1>2, WentOn
<1>5. Len(calls) \in Nat /\ DOMAIN calls = 1 .. Len(calls) /\ Head(calls) = calls[1]
  BY <1>2, Returned
<1>6. \A i \in DOMAIN calls :
        IsFrame(calls'[i]) /\ calls'[i].fn = calls[i].fn /\ calls'[i].at = calls[i].at /\ calls'[i].own = calls[i].own
  BY <1>1, <1>4, <1>5 DEF StackOK, FrameOK
<1>7. ASSUME NEW i \in DOMAIN calls PROVE FrameOK(i)'
  <2>1. FrameOK(i)
    BY <1>1 DEF StackOK
  <2>2. i # Len(calls) => i + 1 \in DOMAIN calls
    BY <1>5
  <2>3. (IF i = Len(calls) THEN Root ELSE calls[i + 1].at) = (IF i = Len(calls') THEN Root ELSE calls'[i + 1].at)
    BY <1>3, <1>6, <2>2
  <2> QED
    BY <1>3, <1>6, <2>1, <2>3 DEF FrameOK
<1>8. StackOK'
  BY <1>3, <1>7 DEF StackOK
<1>9. Held' = Held /\ Live' = Live
  <2>1. {j \in DOMAIN calls' : calls'[j].own} = {j \in DOMAIN calls : calls[j].own}
    BY <1>3, <1>6
  <2>2. {calls'[j].at : j \in DOMAIN calls'} = {calls[j].at : j \in DOMAIN calls}
    BY <1>3, <1>6
  <2>3. Held' = Held
    <3> DEFINE own == {j \in DOMAIN calls : calls[j].own}
    <3>1. \A j \in own : calls'[j].at = calls[j].at
      BY <1>6
    <3> HIDE DEF own
    <3>2. {calls'[j].at : j \in own} = {calls[j].at : j \in own}
      BY <3>1
    <3> QED
      BY <2>1, <3>2 DEF Held, own
  <2> QED
    BY <2>2, <2>3 DEF Live
<1>10. TreeOK' /\ ArenasOwned' /\ TypeOK'
  BY <1>1, <1>9 DEF TreeOK, ArenasOwned, TypeOK
<1> QED
  BY <1>8, <1>10 DEF EvaluatorInv

\* The tree, the pool and the stack stay.
LEMMA StayedKeeps ==
  ASSUME EvaluatorInv, UNCHANGED <<nodes, total, available, cells, calls, abandoned>>, aborted' \in BOOLEAN
  PROVE  EvaluatorInv'
<1>1. TypeOK' /\ ArenasOwned'
  BY DEF EvaluatorInv, TypeOK, ArenasOwned, Live
<1>2. TreeOK'
  BY DEF EvaluatorInv, TreeOK, Held
<1>3. StackOK'
  BY DEF EvaluatorInv, StackOK, FrameOK
<1> QED
  BY <1>1, <1>2, <1>3 DEF EvaluatorInv

\* The arena of a node that is destroyed is the last one of the pool.
LEMMA NodeDestroyed ==
  ASSUME TypeOK, TreeOK, ArenasOwned, NEW tree, SameTree(tree), NEW n \in DOMAIN nodes,
         nodes' = [m \in DOMAIN tree \ {n} |-> tree[m]],
         available' = Append(available, tree[n].arena), total' = total
  PROVE  ArenasOwned' /\ available' \in Seq(1 .. total')
<1>1. total \in Nat /\ available \in Seq(1 .. total) /\ nodes[n].arena \in 1 .. total
  BY DEF TypeOK, TreeOK
<1>2. tree[n].arena = nodes[n].arena
  BY DEF SameTree
<1>3. PICK size \in Nat : size = Len(available)
  BY <1>1, LenProperties
<1>4. DOMAIN available = 1 .. size
  BY <1>1, <1>3, LenProperties
<1>5. /\ available' \in Seq(1 .. total) /\ Len(available') = size + 1
      /\ \A i \in 1 .. size : available'[i] = available[i]
      /\ available'[size + 1] = nodes[n].arena
  BY <1>1, <1>2, <1>3, AppendProperties
<1>6. DOMAIN available' = 1 .. size + 1
  BY <1>5, LenProperties
<1>7. \A i \in 1 .. size + 1 : i \in 1 .. size \/ i = size + 1
  OBVIOUS
<1>8. size + 1 \in 1 .. size + 1 /\ \A i \in 1 .. size : i \in 1 .. size + 1
  OBVIOUS
<1>9. \A i \in 1 .. size : available[i] # nodes[n].arena
  BY <1>4 DEF ArenasOwned, ToSet
<1>10. \A i, j \in DOMAIN available' : available'[i] = available'[j] => i = j
  BY <1>4, <1>5, <1>6, <1>7, <1>9 DEF ArenasOwned
<1>11. ToSet(available') = ToSet(available) \cup {nodes[n].arena}
  <2>1. ASSUME NEW a \in ToSet(available') PROVE a \in ToSet(available) \cup {nodes[n].arena}
    BY <1>4, <1>5, <1>6, <1>7, <2>1 DEF ToSet
  <2>2. ASSUME NEW a \in ToSet(available) PROVE a \in ToSet(available')
    BY <1>4, <1>5, <1>6, <1>8, <2>2 DEF ToSet
  <2>3. nodes[n].arena \in ToSet(available')
    BY <1>5, <1>6, <1>8 DEF ToSet
  <2> QED
    BY <2>1, <2>2, <2>3
<1>12. DOMAIN nodes' = DOMAIN nodes \ {n} /\ \A m \in DOMAIN nodes' : nodes'[m].arena = nodes[m].arena
  BY DEF SameTree
<1>13. \A l, m \in DOMAIN nodes : nodes[l].arena = nodes[m].arena => l = m
  BY DEF ArenasOwned
<1>14. {nodes'[m].arena : m \in DOMAIN nodes'} = {nodes[m].arena : m \in DOMAIN nodes} \ {nodes[n].arena}
  BY <1>12, <1>13
<1>15. ToSet(available') = 1 .. total' \ {nodes'[m].arena : m \in DOMAIN nodes'}
  <2>1. ToSet(available) = 1 .. total \ {nodes[m].arena : m \in DOMAIN nodes}
    BY DEF ArenasOwned
  <2> QED
    BY <1>1, <1>11, <1>14, <2>1
<1>16. \A l, m \in DOMAIN nodes' : nodes'[l].arena = nodes'[m].arena => l = m
  BY <1>12, <1>13
<1> QED
  BY <1>5, <1>10, <1>15, <1>16 DEF ArenasOwned

\* The innermost function gives its caller a value and is gone.
LEMMA Answered ==
  ASSUME StackOK, calls # <<>>, NEW val, Answer(val), NEW size \in Nat, size = Len(calls) - 1
  PROVE  /\ DOMAIN calls = 1 .. size + 1 /\ Len(calls) = size + 1 /\ Head(calls) = calls[1]
         /\ IsStack(calls') /\ Len(calls') = size /\ DOMAIN calls' = 1 .. size
         /\ \A i \in 1 .. size : /\ IsFrame(calls'[i]) /\ calls'[i].fn = calls[i + 1].fn
                                 /\ calls'[i].at = calls[i + 1].at /\ calls'[i].own = calls[i + 1].own
<1> DEFINE rest == Tail(calls)
<1>2. /\ IsStack(rest) /\ Len(calls) \in Nat /\ Len(calls) >= 1 /\ Len(rest) = Len(calls) - 1
      /\ DOMAIN calls = 1 .. Len(calls) /\ DOMAIN rest = 1 .. Len(calls) - 1
      /\ \A i \in 1 .. Len(calls) - 1 : rest[i] = calls[i + 1]
      /\ Head(calls) = calls[1]
      /\ rest = <<>> <=> Len(calls) = 1
  BY Returned DEF StackOK
<1>3. /\ rest = <<>> => calls' = <<>>
      /\ rest # <<>> => calls' = <<[rest[1] EXCEPT !.vals = Append(@, val)]>> \o Tail(rest)
  BY DEF Answer
<1> HIDE DEF rest
<1>5. /\ DOMAIN calls = 1 .. size + 1 /\ Len(rest) = size /\ DOMAIN rest = 1 .. size
      /\ \A i \in 1 .. size : rest[i] = calls[i + 1]
      /\ Len(calls) = size + 1 /\ (rest = <<>> <=> size = 0)
  BY <1>2
<1>6. \A i \in DOMAIN calls : FrameOK(i)
  BY DEF StackOK
<1>7. /\ IsStack(calls') /\ Len(calls') = size /\ DOMAIN calls' = 1 .. size
      /\ \A i \in 1 .. size : /\ IsFrame(calls'[i]) /\ calls'[i].fn = calls[i + 1].fn
                              /\ calls'[i].at = calls[i + 1].at /\ calls'[i].own = calls[i + 1].own
  <2>1. CASE rest = <<>>
    <3>1. calls' = <<>> /\ size = 0
      BY <1>3, <1>5, <2>1
    <3>2. <<>> \in Seq(Nat)
      BY EmptySeq
    <3>3. IsStack(<<>>) /\ Len(<<>>) = 0 /\ DOMAIN <<>> = 1 .. 0
      BY <3>2, StackOf, EmptySeq
    <3> QED
      BY <3>1, <3>3
  <2>2. CASE rest # <<>>
    <3>1. PICK c, v : c = rest[1] /\ v = Append(c.vals, val)
      OBVIOUS
    <3>2. PICK f : f = [c EXCEPT !.vals = v]
      OBVIOUS
    <3>3. calls' = <<f>> \o Tail(rest)
      BY <1>3, <2>2, <3>1, <3>2
    <3>4. 1 \in 1 .. size /\ 1 + 1 \in DOMAIN calls
      BY <1>5, <2>2
    <3>5. c = calls[1 + 1] /\ IsFrame(c)
      BY <1>5, <1>6, <3>1, <3>4 DEF FrameOK
    <3>6. IsFrame(f) /\ f.fn = c.fn /\ f.at = c.at /\ f.own = c.own
      BY <3>2, <3>5 DEF IsFrame
    <3>7. IsStack(rest)
      BY <1>2
    <3>8. PICK new : new = calls'
      OBVIOUS
    <3>9. new = <<f>> \o Tail(rest)
      BY <3>3, <3>8
    <3>10. IsStack(new) /\ Len(new) = Len(rest) /\ DOMAIN new = DOMAIN rest
      BY <2>2, <3>7, <3>9, WentOn
    <3>11. new[1] = f /\ \A i \in DOMAIN rest : i # 1 => new[i] = rest[i]
      BY <2>2, <3>7, <3>9, WentOn
    <3>12. IsStack(calls') /\ Len(calls') = Len(rest) /\ DOMAIN calls' = DOMAIN rest
      BY <3>8, <3>10
    <3>13. calls'[1] = f /\ \A i \in DOMAIN rest : i # 1 => calls'[i] = rest[i]
      BY <3>8, <3>11
    <3>14. ASSUME NEW i \in 1 .. size
          PROVE  /\ IsFrame(calls'[i]) /\ calls'[i].fn = calls[i + 1].fn
                 /\ calls'[i].at = calls[i + 1].at /\ calls'[i].own = calls[i + 1].own
      <4>1. CASE i = 1
        BY <3>5, <3>6, <3>13, <4>1
      <4>2. CASE i # 1
        <5>1. calls'[i] = calls[i + 1] /\ i + 1 \in DOMAIN calls
          BY <1>5, <3>13, <4>2
        <5> QED
          BY <1>6, <5>1 DEF FrameOK
      <4> QED
        BY <4>1, <4>2
    <3> QED
      BY <1>5, <3>12, <3>14
  <2> QED
    BY <2>1, <2>2
<1> QED
  BY <1>2, <1>5, <1>7

\* The functions that go on still have their nodes.
LEMMA AnsweredFrames ==
  ASSUME StackOK, calls # <<>>, NEW val, Answer(val), NEW size \in Nat, size = Len(calls) - 1,
         \A i \in 1 .. size : /\ calls[i + 1].at \in DOMAIN nodes'
                              /\ nodes'[calls[i + 1].at].parent = nodes[calls[i + 1].at].parent
                              /\ calls[i + 1].at \in abandoned' => calls[i + 1].at \in abandoned
  PROVE  StackOK'
<1>5. /\ DOMAIN calls = 1 .. size + 1 /\ Len(calls) = size + 1
      /\ IsStack(calls') /\ Len(calls') = size /\ DOMAIN calls' = 1 .. size
  BY Answered
<1>6. \A i \in DOMAIN calls : FrameOK(i)
  BY DEF StackOK
<1>7. \A i \in 1 .. size : /\ IsFrame(calls'[i]) /\ calls'[i].fn = calls[i + 1].fn
                           /\ calls'[i].at = calls[i + 1].at /\ calls'[i].own = calls[i + 1].own
  BY Answered
<1>9. \A i \in 1 .. size : i + 1 \in DOMAIN calls
  BY <1>5
<1>14. ASSUME NEW i \in DOMAIN calls' PROVE FrameOK(i)'
  <2>1. i \in 1 .. size /\ i + 1 \in DOMAIN calls /\ FrameOK(i + 1)
    BY <1>5, <1>6, <1>9
  <2>2. /\ IsFrame(calls'[i]) /\ calls'[i].fn = calls[i + 1].fn
        /\ calls'[i].at = calls[i + 1].at /\ calls'[i].own = calls[i + 1].own
    BY <1>7, <2>1
  <2>3. calls[i + 1].own => \A j \in DOMAIN calls' : i < j => calls'[j].at < calls[i + 1].at
    <3> SUFFICES ASSUME calls[i + 1].own, NEW j \in DOMAIN calls', i < j PROVE calls'[j].at < calls[i + 1].at
      OBVIOUS
    <3>1. j \in 1 .. size
      BY <1>5
    <3>2. j + 1 \in DOMAIN calls /\ i + 1 < j + 1 /\ calls'[j].at = calls[j + 1].at
      BY <1>7, <1>9, <2>1, <3>1
    <3> QED
      BY <2>1, <3>2 DEF FrameOK
  <2>4. (IF i + 1 = Len(calls) THEN Root ELSE calls[(i + 1) + 1].at) = (IF i = Len(calls') THEN Root ELSE calls'[i + 1].at)
    <3>1. CASE i = size
      BY <1>5, <1>7, <3>1
    <3>2. CASE i # size
      <4>1. i + 1 \in 1 .. size /\ i + 1 # size + 1
        BY <2>1, <3>2
      <4> QED
        BY <1>5, <1>7, <3>2, <4>1
    <3> QED
      BY <3>1, <3>2
  <2>5. /\ calls[i + 1].at \in DOMAIN nodes' /\ nodes'[calls[i + 1].at].parent = nodes[calls[i + 1].at].parent
        /\ calls[i + 1].at \in abandoned' => calls[i + 1].at \in abandoned
    BY <2>1
  <2> QED
    BY <2>1, <2>2, <2>3, <2>4, <2>5 DEF FrameOK, IsFrame
<1> QED
  BY <1>5, <1>14 DEF StackOK

\* A function returns: its node goes if its caller destroys it.
LEMMA ReturnedKeeps ==
  ASSUME EvaluatorInv, calls # <<>>, NEW tree, SameTree(tree),
         NEW kept, \A c \in kept : IsCell(c) /\ c[2][2] \in 1 .. total,
         NEW val, ReturnKeeping(kept, tree, val)
  PROVE  EvaluatorInv'
<1> DEFINE frame == Head(calls)
<1>1. TypeOK /\ StackOK /\ TreeOK /\ ArenasOwned
  BY DEF EvaluatorInv
<1>2. Len(calls) \in Nat /\ Len(calls) >= 1
  BY <1>1, Returned DEF StackOK
<1>3. /\ frame.own => nodes' = [n \in DOMAIN tree \ {frame.at} |-> tree[n]]
      /\ frame.own => available' = Append(available, tree[frame.at].arena)
      /\ ~ frame.own => nodes' = tree /\ available' = available
      /\ Answer(val)
      /\ cells' = kept /\ total' = total /\ aborted' = aborted /\ abandoned' = abandoned
  BY DEF ReturnKeeping
<1> HIDE DEF frame
<1>4. PICK size \in Nat : size = Len(calls) - 1
  <2>1. Len(calls) - 1 \in Nat
    BY <1>2
  <2> QED
    BY <2>1
<1>5. DOMAIN calls = 1 .. size + 1 /\ frame = calls[1] /\ DOMAIN calls' = 1 .. size
  BY <1>1, <1>3, <1>4, Answered DEF frame
<1>6. \A i \in DOMAIN calls : FrameOK(i)
  BY <1>1 DEF StackOK
<1>7. \A i \in 1 .. size : /\ IsFrame(calls'[i]) /\ calls'[i].fn = calls[i + 1].fn
                           /\ calls'[i].at = calls[i + 1].at /\ calls'[i].own = calls[i + 1].own
  BY <1>1, <1>3, <1>4, Answered
<1>8. FrameOK(1) /\ frame = calls[1] /\ 1 \in DOMAIN calls
  <2>1. 1 \in DOMAIN calls
    BY <1>5
  <2> QED
    BY <1>5, <1>6, <2>1
<1>9. \A i \in 1 .. size : i + 1 \in DOMAIN calls /\ 1 < i + 1
  BY <1>5
<1>10. DOMAIN nodes \subseteq Nat
  BY <1>1 DEF TreeOK
<1>11. frame.at \in Nat /\ \A i \in 1 .. size : frame.own => calls[i + 1].at # frame.at
  <2>1. ASSUME NEW i \in 1 .. size, frame.own PROVE calls[i + 1].at # frame.at
    <3>1. calls[i + 1].at < frame.at
      BY <1>8, <1>9, <2>1 DEF FrameOK
    <3>2. calls[i + 1].at \in Nat /\ frame.at \in Nat
      BY <1>6, <1>8, <1>9, <1>10 DEF FrameOK
    <3> QED
      BY <3>1, <3>2
  <2> QED
    BY <1>8, <1>10, <2>1 DEF FrameOK
<1>12. /\ DOMAIN nodes' = IF frame.own THEN DOMAIN nodes \ {frame.at} ELSE DOMAIN nodes
       /\ \A n \in DOMAIN nodes' : /\ n \in DOMAIN nodes /\ IsTreeNode(nodes'[n])
                                  /\ nodes'[n].parent = nodes[n].parent /\ nodes'[n].arena = nodes[n].arena
  BY <1>3 DEF SameTree
<1>13. \A i \in 1 .. size : calls[i + 1].at \in DOMAIN nodes'
  BY <1>6, <1>9, <1>11, <1>12 DEF FrameOK
<1>14. \A i \in 1 .. size : nodes'[calls[i + 1].at].parent = nodes[calls[i + 1].at].parent
  BY <1>12, <1>13
<1>15. StackOK'
  BY <1>1, <1>3, <1>4, <1>13, <1>14, AnsweredFrames
<1>16. Held' = IF frame.own THEN Held \ {frame.at} ELSE Held
  <2>1. ASSUME NEW n \in Held' PROVE n \in Held /\ (frame.own => n # frame.at)
    <3>1. PICK i \in DOMAIN calls' : calls'[i].own /\ n = calls'[i].at
      BY <2>1 DEF Held
    <3>2. i \in 1 .. size /\ calls[i + 1].own /\ n = calls[i + 1].at /\ i + 1 \in DOMAIN calls
      BY <1>5, <1>7, <1>9, <3>1
    <3> QED
      BY <1>11, <3>2 DEF Held
  <2>2. ASSUME NEW n \in Held, frame.own => n # frame.at PROVE n \in Held'
    <3>1. PICK k \in DOMAIN calls : calls[k].own /\ n = calls[k].at
      BY <2>2 DEF Held
    <3>2. k # 1
      BY <1>8, <2>2, <3>1
    <3>3. k - 1 \in 1 .. size /\ (k - 1) + 1 = k
      BY <1>5, <3>1, <3>2
    <3>4. k - 1 \in DOMAIN calls' /\ calls'[k - 1].own /\ calls'[k - 1].at = n
      BY <1>5, <1>7, <3>1, <3>3
    <3> QED
      BY <3>4 DEF Held
  <2> QED
    BY <2>1, <2>2
<1>17. frame.own => frame.at # Root /\ frame.at \notin abandoned
  BY <1>8 DEF FrameOK
<1>18. TreeOK'
  <2>1. DOMAIN nodes' = {Root} \cup abandoned' \cup Held'
    BY <1>1, <1>3, <1>12, <1>16, <1>17 DEF TreeOK
  <2>2. DOMAIN nodes' \subseteq DOMAIN nodes
    BY <1>12
  <2> QED
    BY <1>1, <1>3, <1>12, <2>1, <2>2 DEF TreeOK
<1>19. ArenasOwned' /\ available' \in Seq(1 .. total')
  <2>1. CASE frame.own
    <3>1. frame.at \in DOMAIN nodes
      BY <1>8 DEF FrameOK
    <3> QED
      BY <1>1, <1>3, <2>1, <3>1, NodeDestroyed
  <2>2. CASE ~ frame.own
    <3>1. available' = available /\ total' = total /\ DOMAIN nodes' = DOMAIN nodes
      BY <1>3, <1>12, <2>2
    <3>2. {nodes'[n].arena : n \in DOMAIN nodes'} = {nodes[n].arena : n \in DOMAIN nodes}
      BY <1>12, <3>1
    <3>3. \A m, n \in DOMAIN nodes' : nodes'[m].arena = nodes'[n].arena => m = n
      BY <1>1, <1>12, <3>1 DEF ArenasOwned
    <3> QED
      BY <1>1, <3>1, <3>2, <3>3 DEF ArenasOwned, TypeOK
  <2> QED
    BY <2>1, <2>2
<1>20. TypeOK'
  <2>1. \A n \in DOMAIN nodes' : nodes'[n].parent \in Nat /\ nodes'[n].arena \in 1 .. total'
    BY <1>1, <1>3, <1>12 DEF TypeOK
  <2>2. Live' \subseteq DOMAIN nodes'
    BY <1>15 DEF StackOK, FrameOK, Live
  <2>3. Root \in DOMAIN nodes'
    BY <1>18 DEF TreeOK
  <2>4. aborted' \in BOOLEAN /\ abandoned' \subseteq Nat
    BY <1>1, <1>3 DEF TypeOK
  <2> QED
    BY <1>3, <1>19, <2>1, <2>2, <2>3, <2>4 DEF TypeOK
<1> QED
  BY <1>15, <1>18, <1>19, <1>20 DEF EvaluatorInv

\* A function whose node its caller leaves returns with a new node that nothing destroys.
LEMMA ReturnBeforeKeeps ==
  ASSUME EvaluatorInv, calls # <<>>, ~ Head(calls).own, NEW called, NEW val, ReturnBefore(called, val)
  PROVE  EvaluatorInv'
<1>1. TypeOK /\ StackOK /\ TreeOK /\ ArenasOwned
  BY DEF EvaluatorInv
<1>2. NewNode \in Nat /\ \A n \in DOMAIN nodes : n < NewNode
  BY <1>1, NewNodeYoungest
<1>3. /\ calltree_child_at(nodes, at, called) /\ abandoned' = abandoned \cup {NewNode}
      /\ Answer(val) /\ cells' \subseteq cells /\ aborted' = aborted
  BY DEF ReturnBefore
<1>4. SameTree(nodes)
  BY <1>1 DEF SameTree, TreeOK
<1>5. /\ DOMAIN nodes' = DOMAIN nodes \cup {NewNode}
      /\ nodes'[NewNode].parent = at
      /\ \A n \in DOMAIN nodes' : IsTreeNode(nodes'[n])
      /\ \A n \in DOMAIN nodes : nodes'[n].parent = nodes[n].parent
      /\ \A n \in DOMAIN nodes' : nodes'[n].arena \in 1 .. total'
      /\ total' \in Nat /\ total' >= total
      /\ available' \in Seq(1 .. total')
      /\ ArenasOwned'
  BY <1>1, <1>3, <1>4, ChildMade
<1>6. /\ DOMAIN nodes \subseteq Nat /\ Root \in DOMAIN nodes /\ abandoned \subseteq DOMAIN nodes
      /\ NewNode \notin DOMAIN nodes
  BY <1>1, <1>2 DEF TreeOK
<1>7. \A i \in DOMAIN calls : FrameOK(i)
  BY <1>1 DEF StackOK
<1>8. PICK size \in Nat : size = Len(calls) - 1
  <2>1. Len(calls) \in Nat /\ Len(calls) >= 1
    BY <1>1, Returned DEF StackOK
  <2> QED
    BY <2>1
<1>9. /\ DOMAIN calls = 1 .. size + 1 /\ Head(calls) = calls[1] /\ DOMAIN calls' = 1 .. size
      /\ \A i \in 1 .. size : calls'[i].at = calls[i + 1].at /\ calls'[i].own = calls[i + 1].own
  BY <1>1, <1>3, <1>8, Answered
<1>10. 1 \in DOMAIN calls /\ \A i \in 1 .. size : i + 1 \in DOMAIN calls
  BY <1>9
<1>11. at \in DOMAIN nodes /\ \A i \in 1 .. size : calls[i + 1].at \in DOMAIN nodes
  BY <1>7, <1>9, <1>10 DEF FrameOK, at
<1>12. StackOK'
  <2>1. \A i \in 1 .. size : /\ calls[i + 1].at \in DOMAIN nodes'
                             /\ nodes'[calls[i + 1].at].parent = nodes[calls[i + 1].at].parent
                             /\ calls[i + 1].at \in abandoned' => calls[i + 1].at \in abandoned
    BY <1>3, <1>5, <1>6, <1>11
  <2> QED
    BY <1>1, <1>3, <1>8, <2>1, AnsweredFrames
<1>13. Held' = Held
  <2>1. ASSUME NEW n \in Held' PROVE n \in Held
    <3>1. PICK i \in DOMAIN calls' : calls'[i].own /\ n = calls'[i].at
      BY <2>1 DEF Held
    <3>2. i + 1 \in DOMAIN calls /\ calls[i + 1].own /\ n = calls[i + 1].at
      BY <1>9, <1>10, <3>1
    <3> QED
      BY <3>2 DEF Held
  <2>2. ASSUME NEW n \in Held PROVE n \in Held'
    <3>1. PICK k \in DOMAIN calls : calls[k].own /\ n = calls[k].at
      BY <2>2 DEF Held
    <3>2. k # 1
      BY <1>9, <3>1
    <3>3. k - 1 \in 1 .. size /\ (k - 1) + 1 = k
      BY <1>9, <3>1, <3>2
    <3>4. k - 1 \in DOMAIN calls' /\ calls'[k - 1].own /\ calls'[k - 1].at = n
      BY <1>9, <3>1, <3>3
    <3> QED
      BY <3>4 DEF Held
  <2> QED
    BY <2>1, <2>2
<1>14. TreeOK'
  <2>1. DOMAIN nodes' = {Root} \cup abandoned' \cup Held'
    BY <1>1, <1>3, <1>5, <1>13 DEF TreeOK
  <2>2. \A n \in DOMAIN nodes' : n \in Nat /\ n <= NewNode
    BY <1>2, <1>5, <1>6
  <2> QED
    BY <1>2, <1>5, <2>1, <2>2 DEF TreeOK
<1>15. TypeOK'
  <2>1. \A n \in DOMAIN nodes' : nodes'[n].parent \in Nat /\ nodes'[n].arena \in 1 .. total'
    BY <1>1, <1>5, <1>6, <1>11 DEF TypeOK
  <2>2. Live' \subseteq DOMAIN nodes'
    BY <1>12 DEF StackOK, FrameOK, Live
  <2>3. \A c \in cells' : IsCell(c) /\ c[2][2] \in 1 .. total'
    <3>1. \A a \in 1 .. total : a \in 1 .. total'
      BY <1>1, <1>5 DEF TreeOK
    <3> QED
      BY <1>1, <1>3, <3>1 DEF TypeOK
  <2>4. abandoned' \subseteq Nat /\ Root \in DOMAIN nodes' /\ aborted' \in BOOLEAN
    BY <1>1, <1>2, <1>3, <1>5, <1>6 DEF TypeOK
  <2> QED
    BY <1>5, <2>1, <2>2, <2>3, <2>4 DEF TypeOK
<1> QED
  BY <1>5, <1>12, <1>14, <1>15 DEF EvaluatorInv
-----------------------------------------------------------------------------
(* The steps of the primitives, in terms of these *)

\* A function calls another one, by EVAL or otherwise.
LEMMA EnterKeeps ==
  ASSUME EvaluatorInv, calls # <<>>, NEW called, NEW fn, NEW args, Enter(at, called, fn, args), cells' \subseteq cells
  PROVE  EvaluatorInv'
<1>1. SameTree(nodes)
  BY DEF SameTree, EvaluatorInv, TreeOK
<1>2. /\ calltree_child_at(nodes, at, called)
      /\ calls' = <<Frame(fn, NewNode, args, TRUE)>> \o calls
      /\ abandoned' = abandoned /\ aborted' = aborted
  BY DEF Enter
<1>3. at = IF calls = <<>> THEN Root ELSE Head(calls).at
  BY DEF at
<1>4. aborted' \in BOOLEAN
  BY <1>2 DEF EvaluatorInv, TypeOK
<1>5. abandoned' = IF TRUE THEN abandoned ELSE abandoned \cup {NewNode}
  BY <1>2
<1>6. TRUE \in BOOLEAN /\ (~ TRUE => fn = "p-exec")
  OBVIOUS
<1> HIDE DEF at
<1> QED
  BY <1>1, <1>2, <1>3, <1>4, <1>5, <1>6, EnteredKeeps

\* calltree_child_at and a call at the new node, from a primitive.
LEMMA CallAtKeeps ==
  ASSUME EvaluatorInv, calls # <<>>, NEW called, NEW fn, NEW args, CallAt(at, called, fn, args)
  PROVE  EvaluatorInv'
<1>1. Enter(at, called, fn, args) /\ cells' \subseteq cells
  BY DEF CallAt
<1> QED
  BY <1>1, EnterKeeps

\* The macro EVAL: p_exec on an argument, at a new node.
LEMMA EVALKeeps ==
  ASSUME EvaluatorInv, calls # <<>>, NEW i, EVAL(i)
  PROVE  EvaluatorInv'
<1>1. Enter(at, argv[i], "p-exec", <<argv[i]>>) /\ cells' \subseteq cells
  BY DEF EVAL
<1> QED
  BY <1>1, EnterKeeps

\* A failed assertion, or abort().
LEMMA StopKeeps ==
  ASSUME EvaluatorInv, Stop
  PROVE  EvaluatorInv'
<1>1. UNCHANGED <<nodes, total, available, cells, calls, abandoned>> /\ aborted' \in BOOLEAN
  BY DEF Stop
<1> QED
  BY <1>1, StayedKeeps

\* A function returns.
LEMMA ReturnLeavingKeeps ==
  ASSUME EvaluatorInv, calls # <<>>, NEW tree, SameTree(tree), NEW val, ReturnLeaving(tree, val)
  PROVE  EvaluatorInv'
<1>1. \A c \in cells : IsCell(c) /\ c[2][2] \in 1 .. total
  BY DEF EvaluatorInv, TypeOK
<1>2. ReturnKeeping(cells, tree, val)
  BY DEF ReturnLeaving
<1> QED
  BY <1>1, <1>2, ReturnedKeeps

\* The tree is its own shape.
LEMMA NodesStay ==
  ASSUME EvaluatorInv
  PROVE  SameTree(nodes)
BY DEF SameTree, EvaluatorInv, TreeOK

\* A function returns and leaves the tree as it is.
LEMMA ReturnKeeps ==
  ASSUME EvaluatorInv, calls # <<>>, NEW val, Return(val)
  PROVE  EvaluatorInv'
<1>1. Stop \/ ReturnLeaving(nodes, val)
  BY DEF Return
<1> QED
  BY <1>1, NodesStay, StopKeeps, ReturnLeavingKeeps

-----------------------------------------------------------------------------
(* One step for every action *)

\* A new interpreter: the root alone, with the one arena.
LEMMA InitInv == Init => EvaluatorInv
<1> SUFFICES ASSUME Init PROVE EvaluatorInv
  OBVIOUS
<1> DEFINE root == [parent |-> 0, called |-> Nil, symboltable |-> RootSymbols, arena |-> 1]
<1>1. /\ nodes = [n \in {Root} |-> root] /\ total = 1 /\ available = <<>> /\ cells = {} /\ calls = <<>>
      /\ aborted = FALSE /\ abandoned = {}
  BY DEF Init
<1>2. IsTreeNode(root) /\ root.parent = 0 /\ root.arena = 1
  BY DEF IsTreeNode
<1> HIDE DEF root
<1>3. DOMAIN nodes = {Root} /\ nodes[Root] = root
  BY <1>1
<1>4. DOMAIN calls = {} /\ IsStack(calls)
  <2>1. <<>> \in Seq(Nat) /\ DOMAIN <<>> = {}
    BY EmptySeq
  <2> QED
    BY <1>1, <2>1, StackOf
<1>5. Held = {} /\ Live = {}
  BY <1>4 DEF Held, Live
<1>6. TreeOK
  BY <1>1, <1>2, <1>3, <1>5 DEF TreeOK, Root
<1>7. StackOK
  BY <1>4 DEF StackOK
<1>8. ArenasOwned
  <2>1. DOMAIN available = {}
    BY <1>1, EmptySeq
  <2>2. {nodes[n].arena : n \in DOMAIN nodes} = 1 .. total
    BY <1>1, <1>2, <1>3
  <2>3. ToSet(available) = {}
    BY <2>1 DEF ToSet
  <2> QED
    BY <1>3, <2>1, <2>2, <2>3 DEF ArenasOwned
<1>9. TypeOK
  <2>1. available \in Seq(1 .. total)
    BY <1>1, EmptySeq
  <2>2. \A n \in DOMAIN nodes : nodes[n].parent \in Nat /\ nodes[n].arena \in 1 .. total
    BY <1>1, <1>2, <1>3
  <2>3. Root \in DOMAIN nodes /\ Live \subseteq DOMAIN nodes
    BY <1>3, <1>5
  <2>4. aborted \in BOOLEAN /\ abandoned \subseteq Nat
    BY <1>1
  <2>5. \A c \in cells : IsCell(c) /\ c[2][2] \in 1 .. total
    BY <1>1
  <2> QED
    BY <2>1, <2>2, <2>3, <2>4, <2>5 DEF TypeOK
<1> QED
  BY <1>6, <1>7, <1>8, <1>9 DEF EvaluatorInv

\* dispatcher_loop: the next sexp becomes a child of the root.
LEMMA ReadSexpStep == EvaluatorInv /\ ReadSexp => EvaluatorInv'
<1> SUFFICES ASSUME EvaluatorInv, ReadSexp PROVE EvaluatorInv'
  OBVIOUS
<1>1. PICK next \in NextSexps \ {Null} :
        /\ calltree_child_at([nodes EXCEPT ![Root].called = List(Append(@[2], next))], Root, next)
        /\ calls' = <<Frame("eval", NewNode, <<next>>, TRUE)>>
  BY DEF ReadSexp
<1>2. calls = <<>> /\ cells' \subseteq cells /\ abandoned' = abandoned /\ aborted' = aborted
  BY DEF ReadSexp
<1> DEFINE list == List(Append(nodes[Root].called[2], next))
           tree == [nodes EXCEPT ![Root].called = list]
<1>3. tree = [nodes EXCEPT ![Root].called = List(Append(@[2], next))]
  BY DEF EvaluatorInv, TypeOK
<1>4. SameTree(tree)
  <2> HIDE DEF list
  <2>1. \A m \in DOMAIN nodes : IsTreeNode(nodes[m])
    BY DEF EvaluatorInv, TreeOK
  <2> QED
    BY <2>1 DEF SameTree, IsTreeNode
<1> HIDE DEF tree
<1>5. calls' = <<Frame("eval", NewNode, <<next>>, TRUE)>> \o calls
  BY <1>1, <1>2, ConcatEmptySeq
<1>6. Root = IF calls = <<>> THEN Root ELSE Head(calls).at
  BY <1>2
<1>7. aborted' \in BOOLEAN
  BY <1>2 DEF EvaluatorInv, TypeOK
<1>8. abandoned' = IF TRUE THEN abandoned ELSE abandoned \cup {NewNode}
  BY <1>2
<1>9. TRUE \in BOOLEAN /\ (~ TRUE => "eval" = "p-exec")
  OBVIOUS
<1> QED
  BY <1>1, <1>2, <1>3, <1>4, <1>5, <1>6, <1>7, <1>8, <1>9, EnteredKeeps

\* eval, and p_exec.
LEMMA EvalStep == EvaluatorInv /\ (eval \/ p_exec) => EvaluatorInv'
<1> SUFFICES ASSUME EvaluatorInv, eval \/ p_exec PROVE EvaluatorInv'
  OBVIOUS
<1>1. calls # <<>>
  BY DEF eval, p_exec, ExecAtom, ExecPrimitive, ExecMacro, ExecStops, ExecReturn, Runs
<1>2. CASE eval
  <2>1. CASE vals = <<>>
    <3> DEFINE with_eval == List(<<Sym(LPS_EVAL), argv[1]>>)
    <3>1. \/ Enter(at, with_eval, "p-exec", <<with_eval>>) /\ cells' \subseteq cells
          \/ Return(vals[1])
      BY <1>2 DEF eval
    <3> HIDE DEF with_eval
    <3> QED
      BY <1>1, <3>1, EnterKeeps, ReturnKeeps
  <2>2. CASE vals # <<>>
    BY <1>1, <1>2, <2>2, ReturnKeeps DEF eval
  <2> QED
    BY <2>1, <2>2
<1>3. CASE ExecAtom
  <2>1. \E val : Return(val)
    BY <1>3 DEF ExecAtom
  <2> QED
    BY <1>1, <2>1, ReturnKeeps
<1>4. CASE ExecPrimitive
  <2>1. \E called, fn, args : CallAt(at, called, fn, args)
    BY <1>4 DEF ExecPrimitive
  <2> QED
    BY <1>1, <2>1, CallAtKeeps
<1>5. CASE ExecMacro
  <2>1. \/ \E called, fn, args : CallAt(at, called, fn, args)
        \/ ~ Head(calls).own /\ \E called, val : ReturnBefore(called, val)
    BY <1>5 DEF ExecMacro, NoCallResults
  <2> QED
    BY <1>1, <2>1, CallAtKeeps, ReturnBeforeKeeps
<1>6. CASE ExecStops
  BY <1>6, StopKeeps DEF ExecStops
<1>7. CASE ExecReturn
  BY <1>1, <1>7, ReturnKeeps DEF ExecReturn
<1> QED
  BY <1>2, <1>3, <1>4, <1>5, <1>6, <1>7 DEF p_exec

\* The primitives that evaluate arguments, and return a value.
LEMMA PlainStep ==
  EvaluatorInv /\ (WrongArgc \/ strict \/ p_quote \/ p_macrobody \/ p_multi_eval \/ p_parent_scope \/ p_root_scope
                  \/ p_if \/ p_and \/ p_or \/ p_get_in)
    => EvaluatorInv'
<1> SUFFICES ASSUME EvaluatorInv,
                    WrongArgc \/ strict \/ p_quote \/ p_macrobody \/ p_multi_eval \/ p_parent_scope \/ p_root_scope
                    \/ p_if \/ p_and \/ p_or \/ p_get_in
             PROVE  EvaluatorInv'
  OBVIOUS
<1>1. calls # <<>>
  BY DEF WrongArgc, strict, p_quote, p_macrobody, p_multi_eval, p_parent_scope, p_root_scope, p_if, p_and, p_or,
         p_get_in, Runs
<1>2. CASE WrongArgc
  BY <1>2, StopKeeps DEF WrongArgc
<1>3. CASE strict
  <2>1. (\E i : EVAL(i)) \/ (\E val : Return(val))
    BY <1>3 DEF strict
  <2> QED
    BY <1>1, <2>1, EVALKeeps, ReturnKeeps
<1>4. CASE p_quote
  BY <1>1, <1>4, ReturnKeeps DEF p_quote
<1>5. CASE p_macrobody
  <2>1. (\E called, fn, args : CallAt(at, called, fn, args)) \/ (\E val : Return(val))
    BY <1>5 DEF p_macrobody
  <2> QED
    BY <1>1, <2>1, CallAtKeeps, ReturnKeeps
<1>6. CASE p_multi_eval
  <2>1. (\E i : EVAL(i)) \/ (\E called, fn, args : CallAt(at, called, fn, args)) \/ (\E val : Return(val))
    BY <1>6 DEF p_multi_eval
  <2> QED
    BY <1>1, <2>1, EVALKeeps, CallAtKeeps, ReturnKeeps
<1>7. CASE p_parent_scope
  <2>1. (\E i : EVAL(i)) \/ (\E val : Return(val)) \/ Stop
    BY <1>7 DEF p_parent_scope
  <2> QED
    BY <1>1, <2>1, EVALKeeps, ReturnKeeps, StopKeeps
<1>8. CASE p_root_scope
  BY <1>1, <1>8, ReturnKeeps DEF p_root_scope
<1>9. CASE p_if
  <2>1. (\E i : EVAL(i)) \/ (\E called, fn, args : CallAt(at, called, fn, args)) \/ (\E val : Return(val))
    BY <1>9 DEF p_if
  <2> QED
    BY <1>1, <2>1, EVALKeeps, CallAtKeeps, ReturnKeeps
<1>10. CASE p_and
  <2>1. (\E i : EVAL(i)) \/ (\E val : Return(val))
    BY <1>10 DEF p_and
  <2> QED
    BY <1>1, <2>1, EVALKeeps, ReturnKeeps
<1>11. CASE p_or
  <2>1. (\E i : EVAL(i)) \/ (\E val : Return(val))
    BY <1>11 DEF p_or
  <2> QED
    BY <1>1, <2>1, EVALKeeps, ReturnKeeps
<1>12. CASE p_get_in
  BY <1>1, <1>12, ReturnKeeps DEF p_get_in
<1> QED
  BY <1>2, <1>3, <1>4, <1>5, <1>6, <1>7, <1>8, <1>9, <1>10, <1>11, <1>12

\* p_scope looks for parent_ctx first.
LEMMA ScopeStep == EvaluatorInv /\ p_scope => EvaluatorInv'
<1> SUFFICES ASSUME EvaluatorInv, p_scope PROVE EvaluatorInv'
  OBVIOUS
<1>1. calls # <<>> /\ (Stop \/ \E val : Return(val))
  BY DEF p_scope, Runs
<1> QED
  BY <1>1, StopKeeps, ReturnKeeps

\* What p_slice_eval calls has a node that is left behind.
LEMMA SliceStep == EvaluatorInv /\ p_slice_eval => EvaluatorInv'
<1> SUFFICES ASSUME EvaluatorInv, p_slice_eval PROVE EvaluatorInv'
  OBVIOUS
<1>1. calls # <<>>
  BY DEF p_slice_eval, Runs
<1>2. \/ \E i : EVAL(i)
      \/ \E val : Return(val)
      \/ Stop
      \/ \E to_call :
           /\ calltree_child_at(nodes, at, to_call)
           /\ calls' = <<Frame("p-exec", NewNode, <<to_call>>, FALSE)>> \o calls
           /\ abandoned' = abandoned \cup {NewNode} /\ cells' \subseteq cells /\ aborted' = aborted
  BY DEF p_slice_eval
<1>3. CASE \E to_call :
             /\ calltree_child_at(nodes, at, to_call)
             /\ calls' = <<Frame("p-exec", NewNode, <<to_call>>, FALSE)>> \o calls
             /\ abandoned' = abandoned \cup {NewNode} /\ cells' \subseteq cells /\ aborted' = aborted
  <2>1. PICK to_call :
          /\ calltree_child_at(nodes, at, to_call)
          /\ calls' = <<Frame("p-exec", NewNode, <<to_call>>, FALSE)>> \o calls
          /\ abandoned' = abandoned \cup {NewNode} /\ cells' \subseteq cells /\ aborted' = aborted
    BY <1>3
  <2>2. at = IF calls = <<>> THEN Root ELSE Head(calls).at
    BY <1>1 DEF at
  <2>3. aborted' \in BOOLEAN
    BY <2>1 DEF EvaluatorInv, TypeOK
  <2>4. abandoned' = IF FALSE THEN abandoned ELSE abandoned \cup {NewNode}
    BY <2>1
  <2>5. FALSE \in BOOLEAN /\ (~ FALSE => "p-exec" = "p-exec")
    OBVIOUS
  <2> QED
    BY <2>1, <2>2, <2>3, <2>4, <2>5, NodesStay, EnteredKeeps
<1> QED
  BY <1>1, <1>2, <1>3, EVALKeeps, ReturnKeeps, StopKeeps

\* The symbol tables, and the memory of a symbol.
LEMMA SymbolStep == EvaluatorInv /\ (p_st_set \/ p_st_remove \/ p_memcpy) => EvaluatorInv'
<1> SUFFICES ASSUME EvaluatorInv, p_st_set \/ p_st_remove \/ p_memcpy PROVE EvaluatorInv'
  OBVIOUS
<1>1. calls # <<>>
  BY DEF p_st_set, p_st_remove, p_memcpy, Runs
<1>2. CASE p_st_set
  <2>1. \/ \E i : EVAL(i)
        \/ Stop
        \/ \E n, sym, val, r : ReturnLeaving(calltree_set_symbol_val(n, sym, val), r)
    BY <1>2 DEF p_st_set
  <2>2. ASSUME NEW n, NEW sym, NEW val PROVE SameTree(calltree_set_symbol_val(n, sym, val))
    <3>1. \A m \in DOMAIN nodes : IsTreeNode(nodes[m])
      BY DEF EvaluatorInv, TreeOK
    <3> QED
      BY <3>1 DEF calltree_set_symbol_val, SameTree, IsTreeNode
  <2> QED
    BY <1>1, <2>1, <2>2, EVALKeeps, StopKeeps, ReturnLeavingKeeps
<1>3. CASE p_st_remove
  <2>1. \/ \E i : EVAL(i)
        \/ Stop
        \/ \E r : ReturnLeaving(nodes, r)
    BY <1>3 DEF p_st_remove, calltree_remove_symbol_val
  <2> QED
    BY <1>1, <2>1, NodesStay, EVALKeeps, StopKeeps, ReturnLeavingKeeps
<1>4. CASE p_memcpy
  <2>1. \/ \E i : EVAL(i)
        \/ Stop
        \/ \E n, sym, val, r : ReturnLeaving([nodes EXCEPT ![n].symboltable[sym] = val], r)
    BY <1>4 DEF p_memcpy
  <2>2. ASSUME NEW n, NEW sym, NEW val PROVE SameTree([nodes EXCEPT ![n].symboltable[sym] = val])
    <3>1. \A m \in DOMAIN nodes : IsTreeNode(nodes[m])
      BY DEF EvaluatorInv, TreeOK
    <3> QED
      BY <3>1 DEF SameTree, IsTreeNode
  <2> QED
    BY <1>1, <2>1, <2>2, EVALKeeps, StopKeeps, ReturnLeavingKeeps
<1> QED
  BY <1>2, <1>3, <1>4

\* p_adrof puts a sexp into the arena of the function that called it: its node is there, since only eval and
\* p_exec run at nodes that their callers leave.
LEMMA AdrofStep == EvaluatorInv /\ p_adrof => EvaluatorInv'
<1> SUFFICES ASSUME EvaluatorInv, p_adrof PROVE EvaluatorInv'
  OBVIOUS
<1>1. calls # <<>> /\ Head(calls).fn = "p-adrof"
  BY DEF p_adrof, Runs
<1> DEFINE arena  == nodes[nodes[at].parent].arena
           result == Cell(arena, vals[1])
<1>2. (\E i : EVAL(i)) \/ ReturnKeeping((cells \ Cells(arena)) \cup {result}, nodes, result)
  BY DEF p_adrof
<1>3. arena \in 1 .. total
  <2>1. /\ IsStack(calls) /\ Len(calls) \in Nat /\ Len(calls) >= 1 /\ DOMAIN calls = 1 .. Len(calls)
        /\ Head(calls) = calls[1]
    BY <1>1, Returned DEF EvaluatorInv, StackOK
  <2>2. PICK size \in Nat : size = Len(calls) /\ size >= 1
    BY <2>1
  <2>3. 1 \in DOMAIN calls /\ (1 # size => 1 + 1 \in DOMAIN calls)
    BY <2>1, <2>2
  <2>4. FrameOK(1) /\ (1 # size => FrameOK(1 + 1))
    BY <2>3 DEF EvaluatorInv, StackOK
  <2>5. calls[1].own
    BY <1>1, <2>1, <2>4 DEF FrameOK
  <2>6. nodes[calls[1].at].parent = IF 1 = size THEN Root ELSE calls[1 + 1].at
    BY <2>2, <2>4, <2>5 DEF FrameOK
  <2>7. Root \in DOMAIN nodes /\ \A n \in DOMAIN nodes : nodes[n].arena \in 1 .. total
    BY DEF EvaluatorInv, TypeOK
  <2>8. nodes[calls[1].at].parent \in DOMAIN nodes
    BY <2>4, <2>6, <2>7 DEF FrameOK
  <2> QED
    BY <2>1, <2>7, <2>8 DEF at
<1> HIDE DEF arena
<1>4. IsCell(result) /\ result[2][2] \in 1 .. total
  BY <1>3 DEF Cell, IsCell, IsPtr, Ptr, atom_new
<1> HIDE DEF result
<1>5. \A c \in (cells \ Cells(arena)) \cup {result} : IsCell(c) /\ c[2][2] \in 1 .. total
  BY <1>4 DEF EvaluatorInv, TypeOK
<1> QED
  BY <1>1, <1>2, <1>5, NodesStay, EVALKeeps, ReturnedKeeps

\* An iteration of p_while ends.
LEMMA WhileStep == EvaluatorInv /\ p_while => EvaluatorInv'
<1> SUFFICES ASSUME EvaluatorInv, p_while PROVE EvaluatorInv'
  OBVIOUS
<1>1. calls # <<>>
  BY DEF p_while, Runs
<1>2. IsFrame(Head(calls))
  <2>1. Head(calls) = calls[1] /\ Len(calls) \in Nat /\ Len(calls) >= 1 /\ DOMAIN calls = 1 .. Len(calls)
    BY <1>1, Returned DEF EvaluatorInv, StackOK
  <2>2. 1 \in DOMAIN calls
    BY <2>1
  <2> QED
    BY <2>1, <2>2 DEF EvaluatorInv, StackOK, FrameOK
<1>3. \/ \E i : EVAL(i)
      \/ \E val : Return(val)
      \/ \E val : Locally([Head(calls) EXCEPT !.vals = <<>>, !.result = val])
  BY DEF p_while
<1>4. CASE \E val : Locally([Head(calls) EXCEPT !.vals = <<>>, !.result = val])
  <2>1. PICK val : Locally([Head(calls) EXCEPT !.vals = <<>>, !.result = val])
    BY <1>4
  <2>2. PICK c, f : c = Head(calls) /\ f = [c EXCEPT !.vals = <<>>, !.result = val]
    OBVIOUS
  <2>3. calls' = <<f>> \o Tail(calls) /\ UNCHANGED <<nodes, total, available, cells, aborted, abandoned>>
    BY <2>1, <2>2 DEF Locally
  <2>4. IsFrame(c)
    BY <1>2, <2>2
  <2>5. IsFrame(f) /\ f.fn = c.fn /\ f.at = c.at /\ f.own = c.own
    BY <2>2, <2>4 DEF IsFrame
  <2> QED
    BY <1>1, <2>2, <2>3, <2>5, WentOnKeeps
<1> QED
  BY <1>1, <1>3, <1>4, EVALKeeps, ReturnKeeps

\* The streams are no part of the tree.
LEMMA StreamStep == EvaluatorInv /\ (p_read \/ p_set_in \/ p_fopen \/ p_fclose) => EvaluatorInv'
<1> SUFFICES ASSUME EvaluatorInv, p_read \/ p_set_in \/ p_fopen \/ p_fclose PROVE EvaluatorInv'
  OBVIOUS
<1>1. calls # <<>>
  BY DEF p_read, p_set_in, p_fopen, p_fclose, Runs
<1>2. CASE p_read
  <2>1. Stop \/ \E val : ReturnLeaving(nodes, val)
    BY <1>2 DEF p_read
  <2> QED
    BY <1>1, <2>1, NodesStay, StopKeeps, ReturnLeavingKeeps
<1>3. CASE p_set_in
  <2>1. (\E i : EVAL(i)) \/ Stop \/ \E val : ReturnLeaving(nodes, val)
    BY <1>3 DEF p_set_in
  <2> QED
    BY <1>1, <2>1, NodesStay, EVALKeeps, StopKeeps, ReturnLeavingKeeps
<1>4. CASE p_fopen
  <2>1. (\E i : EVAL(i)) \/ (\E val : ReturnLeaving(nodes, val)) \/ Return(NullPtr)
    BY <1>4 DEF p_fopen
  <2> QED
    BY <1>1, <2>1, NodesStay, EVALKeeps, ReturnLeavingKeeps, ReturnKeeps
<1>5. CASE p_fclose
  <2>1. (\E i : EVAL(i)) \/ Stop \/ \E val : ReturnLeaving(nodes, val)
    BY <1>5 DEF p_fclose
  <2> QED
    BY <1>1, <2>1, NodesStay, EVALKeeps, StopKeeps, ReturnLeavingKeeps
<1> QED
  BY <1>2, <1>3, <1>4, <1>5

\* p_load has the sexps of a file evaluated at parent_ctx, and returns the value of the last.
LEMMA LoadStep == EvaluatorInv /\ p_load => EvaluatorInv'
<1> SUFFICES ASSUME EvaluatorInv, p_load PROVE EvaluatorInv'
  OBVIOUS
<1>1. calls # <<>>
  BY DEF p_load, LoadOpen, LoadNext, LoadEnd, Runs
<1>2. IsFrame(Head(calls))
  <2>1. Head(calls) = calls[1] /\ Len(calls) \in Nat /\ Len(calls) >= 1 /\ DOMAIN calls = 1 .. Len(calls)
    BY <1>1, Returned DEF EvaluatorInv, StackOK
  <2>2. 1 \in DOMAIN calls
    BY <2>1
  <2> QED
    BY <2>1, <2>2 DEF EvaluatorInv, StackOK, FrameOK
<1>3. CASE EVAL(1)
  BY <1>1, <1>3, EVALKeeps
<1>4. CASE LoadOpen
  <2>1. Stop \/ \E src, prev : Locally([Head(calls) EXCEPT !.src = src, !.prev_src = prev])
    BY <1>4 DEF LoadOpen
  <2>2. CASE \E src, prev : Locally([Head(calls) EXCEPT !.src = src, !.prev_src = prev])
    <3>1. PICK src, prev : Locally([Head(calls) EXCEPT !.src = src, !.prev_src = prev])
      BY <2>2
    <3>2. PICK c, f : c = Head(calls) /\ f = [c EXCEPT !.src = src, !.prev_src = prev]
      OBVIOUS
    <3>3. calls' = <<f>> \o Tail(calls) /\ UNCHANGED <<nodes, total, available, cells, aborted, abandoned>>
      BY <3>1, <3>2 DEF Locally
    <3>4. IsFrame(c)
      BY <1>2, <3>2
    <3>5. IsFrame(f) /\ f.fn = c.fn /\ f.at = c.at /\ f.own = c.own
      BY <3>2, <3>4 DEF IsFrame
    <3> QED
      BY <1>1, <3>2, <3>3, <3>5, WentOnKeeps
  <2> QED
    BY <2>1, <2>2, StopKeeps
<1>5. CASE LoadNext
  <2>1. \/ Stop
        \/ /\ parent_ctx(at) \in DOMAIN nodes
           /\ \E cur : calls' = <<Frame("eval", parent_ctx(at), <<cur>>, FALSE)>> \o calls
           /\ UNCHANGED <<nodes, total, available, cells, aborted, abandoned>>
    BY <1>5 DEF LoadNext
  <2> QED
    BY <2>1, StopKeeps, LoadedKeeps
<1>6. CASE LoadEnd
  <2>1. \E val : ReturnLeaving(nodes, val)
    BY <1>6 DEF LoadEnd
  <2> QED
    BY <1>1, <2>1, NodesStay, ReturnLeavingKeeps
<1> QED
  BY <1>3, <1>4, <1>5, <1>6 DEF p_load

\* Every step keeps the invariant.
LEMMA NextKeeps == EvaluatorInv /\ [Next]_vars => EvaluatorInv'
<1> SUFFICES ASSUME EvaluatorInv, [Next]_vars PROVE EvaluatorInv'
  OBVIOUS
<1>1. CASE UNCHANGED vars \/ Finished
  <2>1. UNCHANGED <<nodes, total, available, cells, calls, abandoned>> /\ aborted' = aborted
    BY <1>1 DEF vars, Finished
  <2>2. aborted' \in BOOLEAN
    BY <2>1 DEF EvaluatorInv, TypeOK
  <2> QED
    BY <2>1, <2>2, StayedKeeps
<1>2. CASE ReadStops
  BY <1>2, StopKeeps DEF ReadStops
<1> QED
  BY <1>1, <1>2, ReadSexpStep, EvalStep, PlainStep, ScopeStep, SliceStep, SymbolStep, AdrofStep, WhileStep,
     StreamStep, LoadStep DEF Next

\* The invariant of the evaluator (interpreter.c 37-191, arenapool.c): every node of the call tree has a
\* live arena of its own, and is the root, or one that a function in progress will destroy, or one that the
\* code never destroys: what p_slice_eval calls (intrinsics.h 259), or the macro that p_exec returns from
\* before its end since the slice is empty (207-217).
THEOREM SpecInv == Spec => []EvaluatorInv
<1>1. Init => EvaluatorInv
  BY InitInv
<1>2. EvaluatorInv /\ [Next]_vars => EvaluatorInv'
  BY NextKeeps
<1> QED
  BY <1>1, <1>2, PTL DEF Spec

\* Nodes, arenas and the pointers of p_adrof stay what they are taken for.
THEOREM SpecTypeOK == Spec => []TypeOK
<1>1. EvaluatorInv => TypeOK
  BY DEF EvaluatorInv
<1> QED
  BY <1>1, SpecInv, PTL

\* arena_pool_get and arena_pool_return (arenapool.c 28-47): no arena is two nodes' memory, or unused
\* twice, and none is lost, whatever the programs evaluate and however they leave their calls.
THEOREM SpecArenasOwned == Spec => []ArenasOwned
<1>1. EvaluatorInv => ArenasOwned
  BY DEF EvaluatorInv
<1> QED
  BY <1>1, SpecInv, PTL

\* calltree_destroy (interpreter.c 76) is reached for every node but that of each p_slice_eval and that of a macro
\* that p_slice_eval calls with an empty slice: when a sexp of the program has been evaluated, nothing else is
\* left of its calls.
THEOREM SpecArenasReturned == Spec => []ArenasReturned
<1>1. EvaluatorInv => ArenasReturned
  <2> SUFFICES ASSUME EvaluatorInv, calls = <<>> PROVE DOMAIN nodes = {Root} \cup abandoned
    BY DEF ArenasReturned
  <2>1. DOMAIN calls = {}
    BY EmptySeq
  <2>2. Held = {}
    BY <2>1 DEF Held
  <2> QED
    BY <2>2 DEF EvaluatorInv, TreeOK
<1> QED
  BY <1>1, SpecInv, PTL

============================================================================
