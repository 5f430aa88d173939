------------------------------- MODULE Lemmas -------------------------------
(* What the proofs of several modules need: recursive functions over an       *)
(* interval (there is one for every first value and every step), what doubling *)
(* a number gives (also that among as many slots as a power of two, the        *)
(* triangular probing of include/ht.h comes to every one), and the linked      *)
(* lists of master_slave_channel.c.                                            *)
EXTENDS Doubling, FiniteSetTheorems, SequenceTheorems, TLAPS

\* A set of natural numbers has a least one.
LEMMA LeastOf ==
  ASSUME NEW T, T \subseteq Nat, T # {}
  PROVE  \E i \in T : \A j \in T : i <= j
<1>1. PICK i \in T : \A j \in T : <<j, i>> \notin OpToRel(<, Nat)
  BY NatLessThanWellFounded, WFMin, Zenon
<1>2. \A j \in T : ~ (j < i)
  BY <1>1 DEF OpToRel
<1> QED
  BY <1>2

\* A set that has 0 and, with each number up to n, the next has them all.
LEMMA UpTo ==
  ASSUME NEW n \in Nat, NEW T, 0 \in T, \A k \in 1 .. n : k - 1 \in T => k \in T
  PROVE  0 .. n \subseteq T
<1> DEFINE Not == (0 .. n) \ T
<1> SUFFICES ASSUME Not # {} PROVE FALSE
  OBVIOUS
<1>1. PICK i \in Not : \A j \in Not : i <= j
  <2>1. Not \subseteq Nat
    OBVIOUS
  <2> HIDE DEF Not
  <2> QED
    BY <2>1, LeastOf
<1>2. i \in 1 .. n /\ i - 1 \in 0 .. n /\ i - 1 < i
  BY <1>1
<1>3. i - 1 \in T
  BY <1>1, <1>2
<1> QED
  BY <1>1, <1>2, <1>3

\* g has the values after each of n steps: step k takes a value x to F[k][x].
Iterates(g, first, F, n) == g[0] = first /\ \A k \in 1 .. n : g[k] = F[k][g[k - 1]]

\* There are such values.
LEMMA Iterate ==
  ASSUME NEW S, NEW n \in Nat, NEW first \in S,
         NEW F, \A k \in 1 .. n, x \in S : F[k][x] \in S
  PROVE  \E g \in [0 .. n -> S] : Iterates(g, first, F, n)
<1> USE DEF Iterates
<1> DEFINE Upto(m, g) == Iterates(g, first, F, m)
           T == {m \in 0 .. n : \E g \in [0 .. n -> S] : Upto(m, g)}
<1>1. 0 \in T
  <2> DEFINE h == [k \in 0 .. n |-> first]
  <2>1. 0 \in 0 .. n
    OBVIOUS
  <2>2. h \in [0 .. n -> S] /\ h[0] = first
    BY <2>1
  <2> HIDE DEF h
  <2>3. Upto(0, h)
    BY <2>2
  <2> HIDE DEF Upto
  <2> QED
    BY <2>1, <2>2, <2>3
<1>2. ASSUME NEW m \in 1 .. n, m - 1 \in T
      PROVE  m \in T
  <2>1. PICK g \in [0 .. n -> S] : Upto(m - 1, g)
    BY <1>2
  <2> DEFINE h == [g EXCEPT ![m] = F[m][g[m - 1]]]
  <2>2. m - 1 \in 0 .. n /\ m \in 0 .. n /\ F[m][g[m - 1]] \in S
    BY <1>2
  <2>3. h \in [0 .. n -> S] /\ h[m] = F[m][g[m - 1]] /\ \A k \in 0 .. n : k # m => h[k] = g[k]
    BY <2>2
  <2> HIDE DEF h
  <2>4. ASSUME NEW k \in 1 .. m PROVE h[k] = F[k][h[k - 1]]
    <3>1. k \in 0 .. n /\ k - 1 \in 0 .. n /\ k - 1 # m /\ h[k - 1] = g[k - 1]
      BY <2>3
    <3>2. CASE k = m
      BY <3>1, <3>2, <2>3
    <3>3. CASE k # m
      <4>1. k \in 1 .. (m - 1)
        BY <3>3
      <4>2. g[k] = F[k][g[k - 1]]
        BY <2>1, <4>1
      <4> QED
        BY <2>3, <3>1, <3>3, <4>2
    <3> QED
      BY <3>2, <3>3
  <2>5. h[0] = first
    BY <2>1, <2>3
  <2> QED
    BY <2>2, <2>3, <2>4, <2>5
<1>3. n \in T
  <2> HIDE DEF T
  <2>1. 0 .. n \subseteq T
    BY <1>1, <1>2, UpTo
  <2> QED
    BY <2>1
<1> QED
  BY <1>3

-----------------------------------------------------------------------------
(* Doubled *)

\* Each of the values is twice the one before.
LEMMA DoubledValues ==
  ASSUME NEW first \in Nat, NEW n \in Nat
  PROVE  /\ Doubled(first, n) \in [0 .. n -> Nat]
         /\ Doubled(first, n)[0] = first
         /\ \A k \in 1 .. n : Doubled(first, n)[k] = 2 * Doubled(first, n)[k - 1]
<1> DEFINE F == [k \in 1 .. n |-> [x \in Nat |-> 2 * x]]
<1>1. \A k \in 1 .. n, x \in Nat : F[k][x] \in Nat
  OBVIOUS
<1>2. \A k \in 1 .. n, x \in Nat : F[k][x] = 2 * x
  OBVIOUS
<1> HIDE DEF F
<1>3. PICK g \in [0 .. n -> Nat] : g[0] = first /\ \A k \in 1 .. n : g[k] = F[k][g[k - 1]]
  <2>1. PICK g \in [0 .. n -> Nat] : Iterates(g, first, F, n)
    BY <1>1, Iterate
  <2> QED
    BY <2>1 DEF Iterates
<1>4. ASSUME NEW k \in 1 .. n PROVE g[k] = 2 * g[k - 1]
  <2>1. k - 1 \in 0 .. n
    OBVIOUS
  <2>2. g[k - 1] \in Nat
    BY <1>3, <2>1
  <2> QED
    BY <1>2, <1>3, <2>2
<1> DEFINE d == Doubled(first, n)
<1>5. g = [k \in 0 .. n |-> IF k = 0 THEN first ELSE 2 * g[k - 1]]
  BY <1>3, <1>4
<1>6. d = [k \in 0 .. n |-> IF k = 0 THEN first ELSE 2 * d[k - 1]]
  BY <1>5 DEF Doubled
<1> HIDE DEF d
<1>7. d[0] = first /\ \A k \in 1 .. n : d[k] = 2 * d[k - 1]
  BY <1>6
<1>8. DOMAIN d = 0 .. n /\ d = [k \in 0 .. n |-> d[k]]
  BY <1>6
<1>9. \A k \in 0 .. n : d[k] \in Nat
  <2> DEFINE T == {k \in 0 .. n : d[k] \in Nat}
  <2>1. 0 \in T
    BY <1>7
  <2>2. \A k \in 1 .. n : k - 1 \in T => k \in T
    BY <1>7
  <2> HIDE DEF T
  <2>3. 0 .. n \subseteq T
    BY <2>1, <2>2, UpTo
  <2> QED
    BY <2>3 DEF T
<1>10. d \in [0 .. n -> Nat]
  BY <1>8, <1>9
<1> QED
  BY <1>7, <1>10 DEF d

\* A positive number that is doubled n times is more than n.
LEMMA DoubledGrows ==
  ASSUME NEW first \in Nat \ {0}, NEW n \in Nat, NEW k \in 0 .. n
  PROVE  Doubled(first, n)[k] \in Nat /\ Doubled(first, n)[k] > k
<1> DEFINE d == Doubled(first, n)
           T == {i \in 0 .. n : d[i] > i}
<1>1. d \in [0 .. n -> Nat] /\ d[0] = first /\ \A i \in 1 .. n : d[i] = 2 * d[i - 1]
  BY DoubledValues
<1> HIDE DEF d
<1>2. 0 \in T
  BY <1>1
<1>3. \A i \in 1 .. n : i - 1 \in T => i \in T
  BY <1>1
<1> HIDE DEF T
<1>4. 0 .. n \subseteq T
  BY <1>2, <1>3, UpTo
<1>5. k \in T
  BY <1>4
<1> QED
  BY <1>1, <1>5 DEF T, d

\* More precisely, from 4 on.
LEMMA DoubledGrowsTwice ==
  ASSUME NEW first \in Nat, first >= 4, NEW n \in Nat, NEW k \in 0 .. n
  PROVE  Doubled(first, n)[k] \in Nat /\ Doubled(first, n)[k] >= 2 * k + 4
<1> DEFINE d == Doubled(first, n)
           T == {i \in 0 .. n : d[i] >= 2 * i + 4}
<1>1. d \in [0 .. n -> Nat] /\ d[0] = first /\ \A i \in 1 .. n : d[i] = 2 * d[i - 1]
  BY DoubledValues
<1> HIDE DEF d
<1>2. 0 \in T
  BY <1>1
<1>3. \A i \in 1 .. n : i - 1 \in T => i \in T
  BY <1>1
<1> HIDE DEF T
<1>4. 0 .. n \subseteq T
  BY <1>2, <1>3, UpTo
<1>5. k \in T
  BY <1>4
<1> QED
  BY <1>1, <1>5 DEF T, d

-----------------------------------------------------------------------------
(* Triangular numbers and powers of two *)

\* What the integer division and the remainder are.
LEMMA DivMod ==
  ASSUME NEW a \in Nat, NEW n \in Nat \ {0}
  PROVE  a \div n \in Nat /\ a % n \in 0 .. n - 1 /\ (a \div n) * n + (a % n) = a
<1>1. a \div n \in Nat /\ a % n \in 0 .. n - 1
  OBVIOUS
<1>2. (a \div n) * n + (a % n) = a
  BY Z3
<1> QED
  BY <1>1, <1>2

\* A number is even or odd.
LEMMA EvenOdd ==
  ASSUME NEW i \in Nat PROVE  \E h \in Nat : i = 2 * h \/ i = 2 * h + 1
<1>1. i \div 2 \in Nat /\ i % 2 \in 0 .. 1 /\ (i \div 2) * 2 + (i % 2) = i
  BY DivMod
<1>2. i = 2 * (i \div 2) \/ i = 2 * (i \div 2) + 1
  BY <1>1
<1> QED
  BY <1>1, <1>2

\* The i-th triangular number is half of i * (i + 1).
LEMMA Triangle ==
  ASSUME NEW i \in Nat
  PROVE  (i * (i + 1)) \div 2 \in Nat /\ 2 * ((i * (i + 1)) \div 2) = i * (i + 1)
<1>1. PICK h \in Nat : i = 2 * h \/ i = 2 * h + 1
  BY EvenOdd
<1>2. \E t \in Nat : i * (i + 1) = 2 * t
  <2>1. CASE i = 2 * h
    <3>1. i * (i + 1) = 2 * (h * (i + 1)) /\ h * (i + 1) \in Nat
      BY <2>1
    <3> QED
      BY <3>1
  <2>2. CASE i = 2 * h + 1
    <3>1. i + 1 = 2 * (h + 1)
      BY <2>2
    <3>2. i * (i + 1) = 2 * (i * (h + 1)) /\ i * (h + 1) \in Nat
      BY <3>1
    <3> QED
      BY <3>2
  <2> QED
    BY <1>1, <2>1, <2>2
<1>3. PICK t \in Nat : i * (i + 1) = 2 * t
  BY <1>2
<1>4. (2 * t) \div 2 = t
  BY Z3
<1> QED
  BY <1>3, <1>4

\* P divides b when it divides a product of b and an odd number.
PowerOfTwo(P) ==
  /\ P \in Nat \ {0}
  /\ \A u, b, q \in Nat : (2 * u + 1) * b = P * q => \E r \in Nat : b = P * r

\* One does.
LEMMA OneIsAPower == PowerOfTwo(1)
<1> SUFFICES ASSUME NEW b \in Nat PROVE \E r \in Nat : b = 1 * r
  BY DEF PowerOfTwo
<1> QED
  OBVIOUS

\* Twice a number that does, does.
LEMMA PowersDouble ==
  ASSUME NEW P, PowerOfTwo(P) PROVE PowerOfTwo(2 * P)
<1>0. P \in Nat \ {0}
  BY DEF PowerOfTwo
<1> SUFFICES ASSUME NEW u \in Nat, NEW b \in Nat, NEW q \in Nat, (2 * u + 1) * b = (2 * P) * q
             PROVE  \E r \in Nat : b = (2 * P) * r
  BY <1>0 DEF PowerOfTwo
<1>1. PICK c \in Nat : b = 2 * c \/ b = 2 * c + 1
  BY EvenOdd
<1> DEFINE x == u * b
           y == P * q
<1>2. x \in Nat /\ y \in Nat /\ (2 * u + 1) * b = 2 * x + b /\ (2 * P) * q = 2 * y
  BY <1>0
<1>3. b = 2 * c
  <2> HIDE DEF x, y
  <2> QED
    BY <1>1, <1>2
<1>4. (2 * u + 1) * c = P * q
  <2>1. (2 * u + 1) * b = 2 * ((2 * u + 1) * c)
    BY <1>3
  <2>2. (2 * P) * q = 2 * (P * q) 
    BY <1>0
  <2>3. (2 * u + 1) * c \in Nat /\ P * q \in Nat
    BY <1>0
  <2> QED
    BY <2>1, <2>2, <2>3
<1>5. PICK r \in Nat : c = P * r
  BY <1>4 DEF PowerOfTwo
<1>6. b = (2 * P) * r
  BY <1>0, <1>3, <1>5
<1> QED
  BY <1>6

\* Doubling goes from power to power.
LEMMA DoubledPowers ==
  ASSUME NEW first, PowerOfTwo(first), NEW n \in Nat, NEW k \in 0 .. n
  PROVE  PowerOfTwo(Doubled(first, n)[k])
<1> DEFINE d == Doubled(first, n)
           T == {i \in 0 .. n : PowerOfTwo(d[i])}
<1>1. d[0] = first /\ \A i \in 1 .. n : d[i] = 2 * d[i - 1]
  BY DoubledValues DEF PowerOfTwo
<1> HIDE DEF d
<1>2. 0 \in T
  BY <1>1
<1>3. \A i \in 1 .. n : i - 1 \in T => i \in T
  BY <1>1, PowersDouble
<1> HIDE DEF T
<1>4. 0 .. n \subseteq T
  BY <1>2, <1>3, UpTo
<1> QED
  BY <1>4 DEF T, d

\* Two triangular numbers below a power of two, added to h, leave different remainders.
LEMMA TrianglesApart ==
  ASSUME NEW P, PowerOfTwo(P), NEW h \in Nat, NEW i \in 0 .. P - 1, NEW j \in 0 .. P - 1, i < j
  PROVE  (h + (i * (i + 1)) \div 2) % P # (h + (j * (j + 1)) \div 2) % P
<1> DEFINE ti == (i * (i + 1)) \div 2
           tj == (j * (j + 1)) \div 2
<1>0. P \in Nat \ {0}
  BY DEF PowerOfTwo
<1>1. /\ ti \in Nat /\ 2 * ti = i * (i + 1)
      /\ tj \in Nat /\ 2 * tj = j * (j + 1)
  BY <1>0, Triangle
<1> HIDE DEF ti, tj
<1> SUFFICES ASSUME (h + ti) % P = (h + tj) % P PROVE FALSE
  BY DEF ti, tj
<1> DEFINE x == (h + ti) \div P
           y == (h + tj) \div P
           rest == (h + ti) % P
<1>2. /\ x \in Nat /\ x * P + rest = h + ti
      /\ y \in Nat /\ y * P + rest = h + tj
      /\ rest \in Nat
  <2>1. h + ti \in Nat /\ h + tj \in Nat
    BY <1>1
  <2> DEFINE ei == h + ti
             ej == h + tj
  <2> HIDE DEF ei, ej
  <2>2. /\ ei \div P \in Nat /\ (ei \div P) * P + (ei % P) = ei /\ ei % P \in 0 .. P - 1
        /\ ej \div P \in Nat /\ (ej \div P) * P + (ej % P) = ej
    <3>1. ei \in Nat /\ ej \in Nat
      BY <2>1 DEF ei, ej
    <3> QED
      BY <1>0, <3>1, DivMod, Zenon
  <2>3. ei % P = ej % P
    BY DEF ei, ej
  <2> QED
    BY <1>0, <2>2, <2>3 DEF ei, ej
<1> HIDE DEF x, y, rest
<1>3. tj - ti = y * P - x * P
  <2>1. x * P \in Nat /\ y * P \in Nat
    BY <1>0, <1>2
  <2> QED
    BY <1>1, <1>2, <2>1
<1> DEFINE a == j - i
           b == j + i + 1
<1>4. a \in Nat /\ b \in Nat /\ a > 0 /\ a < P /\ b > 0 /\ b < 2 * P /\ a + b = 2 * j + 1
  BY <1>0
<1>5. a * b = (2 * P) * (y - x)
  <2>1. a * b = j * (j + 1) - i * (i + 1)
    BY <1>0
  <2>2. j * (j + 1) - i * (i + 1) = 2 * (y * P - x * P)
    BY <1>0, <1>1, <1>2, <1>3
  <2>3. 2 * (y * P - x * P) = (2 * P) * (y - x)
    BY <1>0, <1>2
  <2> QED
    BY <2>1, <2>2, <2>3
<1> HIDE DEF a, b
<1>6. y - x \in Nat
  <2>1. a * b > 0
    BY <1>4
  <2>2. CASE y - x < 0
    <3>1. (2 * P) * (y - x) < 0
      BY <1>0, <1>2, <2>2
    <3> QED
      BY <1>4, <1>5, <2>1, <3>1
  <2> QED
    BY <1>2, <2>2
<1>7. PowerOfTwo(2 * P)
  BY PowersDouble
<1>8. ASSUME NEW u \in Nat, NEW c \in Nat, (2 * u + 1) * c = (2 * P) * (y - x), c > 0, c < 2 * P
      PROVE  FALSE
  <2>1. PICK r \in Nat : c = (2 * P) * r
    <3> DEFINE q == y - x
               PP == 2 * P
    <3>1. PowerOfTwo(PP) /\ (2 * u + 1) * c = PP * q /\ q \in Nat
      BY <1>6, <1>7, <1>8
    <3> HIDE DEF q, PP
    <3>2. \E r \in Nat : c = PP * r
      BY ONLY <3>1, u \in Nat, c \in Nat, Zenon DEF PowerOfTwo
    <3> QED
      BY <3>2 DEF PP
  <2>2. CASE r = 0
    BY <1>0, <1>8, <2>1, <2>2
  <2>3. CASE r >= 1
    <3>1. (2 * P) * r >= 2 * P
      BY <1>0, <2>3
    <3> QED
      BY <1>0, <1>8, <2>1, <3>1
  <2> QED
    BY <2>2, <2>3
<1>9. PICK u \in Nat : a = 2 * u \/ a = 2 * u + 1
  BY <1>4, EvenOdd
<1>10. CASE a = 2 * u + 1
  BY <1>0, <1>4, <1>5, <1>8, <1>10
<1>11. CASE a = 2 * u
  <2>1. j - u \in Nat /\ b = 2 * (j - u) + 1
    BY <1>0, <1>4, <1>11
  <2>2. b * a = (2 * P) * (y - x)
    BY <1>4, <1>5
  <2>3. a < 2 * P
    BY <1>0, <1>4
  <2> QED
    BY <1>4, <1>8, <2>1, <2>2, <2>3
<1> QED
  BY <1>9, <1>10, <1>11

\* In as many slots as a power of two, steps of 1, 2, 3 ... come to every slot.
LEMMA TrianglesReach ==
  ASSUME NEW P, PowerOfTwo(P), NEW h \in Nat, NEW s \in 0 .. P - 1
  PROVE  \E i \in 0 .. P - 1 : (h + (i * (i + 1)) \div 2) % P = s
<1> DEFINE S == 0 .. P - 1
           f == [i \in S |-> (h + (i * (i + 1)) \div 2) % P]
<1>0. P \in Nat \ {0}
  BY DEF PowerOfTwo
<1>1. \A i \in S : (h + (i * (i + 1)) \div 2) % P \in S
  <2> SUFFICES ASSUME NEW i \in S PROVE (h + (i * (i + 1)) \div 2) % P \in S
    OBVIOUS
  <2> DEFINE e == h + (i * (i + 1)) \div 2
  <2>1. e \in Nat
    BY <1>0, Triangle
  <2> HIDE DEF e
  <2>2. e % P \in S
    BY <1>0, <2>1, DivMod
  <2> QED
    BY <2>2 DEF e
<1>2. f \in [S -> S]
  BY <1>1
<1>3. ASSUME NEW i \in S, NEW j \in S, f[i] = f[j] PROVE i = j
  <2>1. ~ (i < j)
    BY <1>3, TrianglesApart
  <2>2. ~ (j < i)
    BY <1>3, TrianglesApart
  <2> QED
    BY <1>0, <2>1, <2>2
<1>4. f \in Injection(S, S)
  <2> HIDE DEF f, S
  <2> QED
    BY <1>2, <1>3 DEF Injection, IsInjective
<1>5. IsFiniteSet(S)
  BY <1>0, FS_Interval
<1>6. f \in Surjection(S, S)
  <2> HIDE DEF f, S
  <2> QED
    BY <1>4, <1>5, FS_Injection
<1>7. \E i \in S : f[i] = s
  <2>1. s \in S
    OBVIOUS
  <2> HIDE DEF f, S
  <2> QED
    BY <1>6, <2>1 DEF Surjection
<1> QED
  BY <1>7
-----------------------------------------------------------------------------
(* Linked lists *)

\* What a sequence without its first element is.
LEMMA RestOfSeq ==
  ASSUME NEW S, NEW q \in Seq(S), q # <<>>
  PROVE  /\ SubSeq(q, 2, Len(q)) \in Seq(S)
         /\ Len(SubSeq(q, 2, Len(q))) = Len(q) - 1
         /\ \A i \in 1 .. Len(q) - 1 : SubSeq(q, 2, Len(q))[i] = q[i + 1]
         /\ Len(q) \in Nat \ {0}
<1>1. Len(q) \in Nat \ {0}
  BY EmptySeq
<1>2. \A i \in 2 .. Len(q) : q[i] \in S
  BY <1>1, ElementOfSeq
<1>3. 2 \in Int /\ Len(q) \in Int
  BY <1>1
<1>4. /\ SubSeq(q, 2, Len(q)) \in Seq(S)
      /\ Len(SubSeq(q, 2, Len(q))) = IF 2 <= Len(q) THEN Len(q) - 2 + 1 ELSE 0
      /\ \A i \in 1 .. Len(q) - 2 + 1 : SubSeq(q, 2, Len(q))[i] = q[2 + i - 1]
  BY ONLY <1>2, <1>3, SubSeqProperties
<1>5. ASSUME NEW i \in 1 .. Len(q) - 1
      PROVE  SubSeq(q, 2, Len(q))[i] = q[i + 1]
  <2>1. i \in 1 .. Len(q) - 2 + 1 /\ 2 + i - 1 = i + 1
    BY <1>1
  <2> QED
    BY <1>4, <2>1
<1>6. Len(SubSeq(q, 2, Len(q))) = Len(q) - 1
  <2>1. \A n \in Nat \ {0} : (IF 2 <= n THEN n - 2 + 1 ELSE 0) = n - 1
    OBVIOUS
  <2> QED
    BY <1>1, <1>4, <2>1, Zenon
<1> QED
  BY <1>1, <1>4, <1>5, <1>6

\* Of nothing it is nothing.
LEMMA RestIsSeq ==
  ASSUME NEW S, NEW q \in Seq(S)
  PROVE  SubSeq(q, 2, Len(q)) \in Seq(S)
<1>1. CASE q # <<>>
  BY <1>1, RestOfSeq
<1>2. CASE q = <<>>
  BY <1>2, EmptySeq, SubSeqEmpty
<1> QED
  BY <1>1, <1>2

\* A list of the members of q: first and last lead to its ends, succ from each node to the next.
FirstOf(q, none) == IF q = <<>> THEN none ELSE q[1]
LastOf(q, none)  == IF q = <<>> THEN none ELSE q[Len(q)]
Linked(first, last, succ, q, none) ==
  /\ first = FirstOf(q, none) /\ last = LastOf(q, none)
  /\ \A i \in 1 .. Len(q) : succ[q[i]] = IF i = Len(q) THEN none ELSE q[i + 1]

\* The ends are members, or nothing.
LEMMA EndsOfList ==
  ASSUME NEW M, NEW none, none \notin M, NEW q \in Seq(M)
  PROVE  /\ Len(q) \in Nat
         /\ q = <<>> <=> Len(q) = 0
         /\ \A i \in 1 .. Len(q) : q[i] \in M
         /\ FirstOf(q, none) \in M \cup {none} /\ (FirstOf(q, none) = none <=> q = <<>>)
         /\ LastOf(q, none) \in M \cup {none} /\ (LastOf(q, none) = none <=> q = <<>>)
<1>1. Len(q) \in Nat /\ (q = <<>> <=> Len(q) = 0)
  BY EmptySeq, LenProperties
<1>2. \A i \in 1 .. Len(q) : q[i] \in M
  BY ElementOfSeq
<1>3. q # <<>> => q[1] \in M /\ q[Len(q)] \in M
  BY <1>1, <1>2
<1> QED
  BY <1>1, <1>2, <1>3 DEF FirstOf, LastOf

\* The list of q becomes that of q2, with a node behind the last one.
Queued(M, none, q, first, last, succ, m, q2, first2, succ2) ==
  /\ q2 = Append(q, m)
  /\ first2 = IF last = none THEN m ELSE first
  /\ \A x \in M : succ2[x] = IF x = m THEN none ELSE IF x = last THEN m ELSE succ[x]

\* That is a list if the node is new.
LEMMA ListGrows ==
  ASSUME NEW M, NEW none, none \notin M, NEW q \in Seq(M), NEW first, NEW last, NEW succ,
         Linked(first, last, succ, q, none),
         \A i, j \in 1 .. Len(q) : q[i] = q[j] => i = j,
         NEW m \in M, \A i \in 1 .. Len(q) : q[i] # m,
         NEW q2, NEW first2, NEW succ2, Queued(M, none, q, first, last, succ, m, q2, first2, succ2)
  PROVE  /\ Linked(first2, m, succ2, q2, none)
         /\ q2 # <<>> /\ Len(q2) = Len(q) + 1 /\ q2[Len(q) + 1] = m
         /\ \A i \in 1 .. Len(q) : q2[i] = q[i]
<1>0. /\ q2 = Append(q, m)
      /\ first2 = IF last = none THEN m ELSE first
      /\ \A x \in M : succ2[x] = IF x = m THEN none ELSE IF x = last THEN m ELSE succ[x]
  BY DEF Queued
<1>1. PICK n \in Nat : n = Len(q)
  BY LenProperties
<1>2. /\ (q = <<>> <=> n = 0)
      /\ \A i \in 1 .. n : q[i] \in M
      /\ (last = none <=> q = <<>>)
  BY <1>1, EndsOfList DEF Linked
<1>3. /\ Len(q2) = n + 1 /\ q2[n + 1] = m /\ q2 # <<>>
      /\ \A i \in 1 .. n : q2[i] = q[i]
  BY ONLY <1>0, <1>1, q \in Seq(M), m \in M, AppendProperties
<1>4. first2 = q2[1]
  <2>1. CASE q = <<>>
    BY <2>1, <1>0, <1>2, <1>3
  <2>2. CASE q # <<>>
    BY <2>2, <1>0, <1>2, <1>3 DEF Linked, FirstOf, LastOf
  <2> QED
    BY <2>1, <2>2
<1>5. ASSUME NEW i \in 1 .. n + 1
      PROVE  succ2[q2[i]] = IF i = n + 1 THEN none ELSE q2[i + 1]
  <2>1. CASE i = n + 1
    BY <2>1, <1>0, <1>3
  <2>2. CASE i = n
    <3>1. i \in 1 .. n /\ q2[i] = q[n] /\ q[n] \in M /\ q[n] # m
      BY <2>2, <1>1, <1>2, <1>3
    <3>2. last = q[n]
      BY <3>1, <1>1, <1>2 DEF Linked, FirstOf, LastOf
    <3> QED
      BY <3>1, <3>2, <2>2, <1>0, <1>2, <1>3
  <2>3. CASE i \in 1 .. n - 1
    <3>1. i \in 1 .. n /\ i + 1 \in 1 .. n /\ n \in 1 .. n /\ i # n /\ i # n + 1
      BY <2>3
    <3>2. last = q[n] /\ q[i] # q[n]
      BY <3>1, <1>1, <1>2 DEF Linked, FirstOf, LastOf
    <3>3. succ[q[i]] = q[i + 1]
      BY <3>1, <1>1 DEF Linked, FirstOf, LastOf
    <3>4. succ2[q[i]] = succ[q[i]]
      BY <3>1, <3>2, <1>0, <1>1, <1>2
    <3>5. q2[i] = q[i] /\ q2[i + 1] = q[i + 1]
      BY <3>1, <1>3
    <3> QED
      BY <3>1, <3>3, <3>4, <3>5
  <2>4. i = n + 1 \/ i = n \/ i \in 1 .. n - 1
    OBVIOUS
  <2> QED
    BY <2>1, <2>2, <2>3, <2>4
<1> QED
  BY <1>1, <1>3, <1>4, <1>5 DEF Linked, FirstOf, LastOf

\* The list of q becomes that of q2, without its first node; an empty list has no last one.
Dequeued(none, q, first, last, succ, q2, first2, last2) ==
  /\ first # none
  /\ q2 = SubSeq(q, 2, Len(q))
  /\ first2 = succ[first]
  /\ last2 = IF q2 = <<>> THEN none ELSE last

\* That is a list too.
LEMMA ListShrinks ==
  ASSUME NEW M, NEW none, none \notin M, NEW q \in Seq(M), NEW first, NEW last, NEW succ,
         Linked(first, last, succ, q, none),
         NEW q2, NEW first2, NEW last2, Dequeued(none, q, first, last, succ, q2, first2, last2)
  PROVE  /\ Linked(first2, last2, succ, q2, none)
         /\ q # <<>> /\ first = q[1] /\ Len(q) \in Nat \ {0}
         /\ q2 \in Seq(M) /\ Len(q2) = Len(q) - 1
         /\ \A i \in 1 .. Len(q) - 1 : q2[i] = q[i + 1]
         /\ q2 = <<>> <=> Len(q) = 1
<1>0. first # none /\ q2 = SubSeq(q, 2, Len(q)) /\ first2 = succ[first] /\ last2 = IF q2 = <<>> THEN none ELSE last
  BY DEF Dequeued
<1>1. PICK n \in Nat : n = Len(q)
  BY LenProperties
<1>2. q # <<>> /\ first = q[1] /\ n # 0 /\ n \in 1 .. n /\ 1 \in 1 .. n
  <2>1. q # <<>> /\ n # 0
    BY <1>0, <1>1, EndsOfList DEF Linked
  <2> QED
    BY <2>1 DEF Linked, FirstOf, LastOf
<1>3. /\ q2 \in Seq(M) /\ Len(q2) = n - 1
      /\ \A i \in 1 .. n - 1 : q2[i] = q[i + 1]
      /\ q2 = <<>> <=> n = 1
  <2>1. /\ q2 \in Seq(M) /\ Len(q2) = n - 1
        /\ \A i \in 1 .. n - 1 : q2[i] = q[i + 1]
    BY ONLY <1>1, <1>2, q \in Seq(M), RestOfSeq, <1>0
  <2>2. q2 = <<>> <=> Len(q2) = 0
    BY ONLY <2>1, EmptySeq
  <2> QED
    BY <2>1, <2>2
<1>4. \A i \in 1 .. n : succ[q[i]] = IF i = n THEN none ELSE q[i + 1]
  BY <1>1 DEF Linked, FirstOf, LastOf
<1>5. first2 = IF q2 = <<>> THEN none ELSE q2[1]
  BY <1>0, <1>2, <1>3, <1>4
<1>6. last2 = IF q2 = <<>> THEN none ELSE q2[n - 1]
  <2>1. n # 1 => n - 1 \in 1 .. n - 1 /\ (n - 1) + 1 = n
    BY <1>2
  <2>2. n # 1 => q2[n - 1] = q[n]
    BY <2>1, <1>3
  <2> QED
    BY <2>2, <1>0, <1>1, <1>2, <1>3 DEF Linked, FirstOf, LastOf
<1>7. ASSUME NEW i \in 1 .. n - 1
      PROVE  succ[q2[i]] = IF i = n - 1 THEN none ELSE q2[i + 1]
  <2>1. i \in 1 .. n /\ i + 1 \in 1 .. n /\ q2[i] = q[i + 1]
    BY <1>3
  <2>2. succ[q2[i]] = IF i + 1 = n THEN none ELSE q[i + 1 + 1]
    BY <2>1, <1>4
  <2>3. i # n - 1 => i + 1 \in 1 .. n - 1
    OBVIOUS
  <2>4. i # n - 1 => q2[i + 1] = q[i + 1 + 1]
    BY <2>3, <1>3
  <2>5. i + 1 = n <=> i = n - 1
    OBVIOUS
  <2> QED
    BY <2>2, <2>4, <2>5
<1> QED
  BY <1>1, <1>2, <1>3, <1>5, <1>6, <1>7 DEF Linked, FirstOf, LastOf
=============================================================================
