---------------------------- MODULE DataLemmas ----------------------------
(***************************************************************************)
(* Facts about naturals, sequences and counting that the proofs of several *)
(* components rest on.  Induction is stated with sets, so that the provers *)
(* can use it.                                                             *)
(***************************************************************************)
EXTENDS Integers, SequencesExt, FiniteSetTheorems, SequenceTheorems,
        WellFoundedInduction, TLAPS

\* A set of naturals has a least element.
LEMMA LeastElement ==
    ASSUME NEW T \in SUBSET Nat, T # {}
    PROVE  \E x \in T : \A y \in T : x <= y
<1> DEFINE R == {ss \in Nat \X Nat : ss[1] < ss[2]}
<1>1. IsWellFoundedOn(R, Nat)
      BY NatLessThanWellFounded DEF OpToRel
<1>2. \A x, y \in T : y < x => <<y, x>> \in R
      OBVIOUS
<1> HIDE DEF R
<1>3. PICK x \in T : \A y \in T : ~(<<y, x>> \in R)
      BY <1>1, WFMin
<1>4. \A y \in T : ~(y < x)
      BY <1>2, <1>3
<1>5. \A y \in T : x <= y
      BY <1>4
<1> QED BY <1>5

\* Induction up to n: a set that holds 0 and the successors of its members.
LEMMA SetInduction ==
    ASSUME NEW n \in Nat, NEW T, 0 \in T,
           \A i \in 0 .. n - 1 : i \in T => i + 1 \in T
    PROVE  0 .. n \subseteq T
<1> SUFFICES ASSUME ~(0 .. n \subseteq T) PROVE FALSE
    OBVIOUS
<1> DEFINE B == (0 .. n) \ T
<1>1. B \in SUBSET Nat /\ B # {}
      OBVIOUS
<1>2. PICK x \in B : \A y \in B : x <= y
      BY <1>1, LeastElement
<1>3. x \in 0 .. n /\ x # 0 /\ x - 1 \in 0 .. n - 1 /\ x - 1 \notin B
      BY <1>2
<1>4. x - 1 \in T
      BY <1>3
<1>5. (x - 1) + 1 = x /\ x \in T
      BY <1>3, <1>4
<1> QED BY <1>2, <1>5

\* The values of a recursive function on 0 .. n whose value at i depends on i and
\* on the value at i - 1.
Recursive(f, n, first, step) ==
    f = [i \in 0 .. n |-> IF i = 0 THEN first ELSE step[i][f[i - 1]]]

LEMMA RecursionExists ==
    ASSUME NEW n \in Nat, NEW X, NEW first \in X, NEW step \in [1 .. n -> [X -> X]]
    PROVE  \E f \in [0 .. n -> X] : Recursive(f, n, first, step)
<1> DEFINE Good(m, f) == f = [i \in 0 .. m |->
                                 IF i = 0 THEN first ELSE step[i][f[i - 1]]]
           T == {m \in 0 .. n : \E f \in [0 .. m -> X] : Good(m, f)}
<1>1. 0 \in T
  <2> DEFINE g == [i \in 0 .. 0 |-> first]
  <2>1. g \in [0 .. 0 -> X] /\ Good(0, g)
        OBVIOUS
  <2>2. 0 \in 0 .. n
        OBVIOUS
  <2> HIDE DEF g, Good
  <2> QED BY <2>1, <2>2
<1>2. ASSUME NEW m \in 0 .. n - 1, m \in T
      PROVE  m + 1 \in T
  <2>1. PICK f \in [0 .. m -> X] : Good(m, f)
        BY <1>2
  <2> DEFINE g == [i \in 0 .. m + 1 |-> IF i <= m THEN f[i] ELSE step[m + 1][f[m]]]
  <2>2. g \in [0 .. m + 1 -> X]
    <3>1. m + 1 \in 1 .. n /\ f[m] \in X
          OBVIOUS
    <3>2. step[m + 1][f[m]] \in X
          BY <3>1
    <3> QED BY <3>2
  <2>3. ASSUME NEW i \in 0 .. m + 1
        PROVE  g[i] = IF i = 0 THEN first ELSE step[i][g[i - 1]]
    <3>1. CASE i = 0
          BY <2>1, <3>1
    <3>2. CASE i \in 1 .. m
      <4>1. i \in 0 .. m /\ i - 1 \in 0 .. m /\ i # 0
            BY <3>2
      <4>2. f[i] = step[i][f[i - 1]]
            BY <2>1, <4>1
      <4> QED BY <4>1, <4>2
    <3>3. CASE i = m + 1
      <4>1. i - 1 = m /\ ~(i <= m) /\ i # 0 /\ m \in 0 .. m + 1
            BY <3>3
      <4> QED BY <4>1
    <3> QED BY <3>1, <3>2, <3>3
  <2>4. Good(m + 1, g)
        BY <2>2, <2>3
  <2>5. m + 1 \in 0 .. n
        OBVIOUS
  <2> HIDE DEF g, Good
  <2> QED BY <2>2, <2>4, <2>5
<1> HIDE DEF Good
<1>3. 0 .. n \subseteq T
  <2> HIDE DEF T
  <2> QED BY <1>1, <1>2, SetInduction
<1>4. n \in T
      BY <1>3
<1> QED BY <1>4 DEF Good, Recursive

\* erase: the list is one entry shorter and the entries behind the place move up.
LEMMA RemoveAtProperties ==
    ASSUME NEW S, NEW s \in Seq(S), NEW p \in 1 .. Len(s)
    PROVE  /\ RemoveAt(s, p) \in Seq(S)
           /\ Len(RemoveAt(s, p)) = Len(s) - 1
           /\ \A k \in 1 .. Len(s) - 1 :
                  /\ k < p => RemoveAt(s, p)[k] = s[k]
                  /\ k >= p => RemoveAt(s, p)[k] = s[k + 1]
<1> DEFINE before == SubSeq(s, 1, p - 1)
           after  == SubSeq(s, p + 1, Len(s))
<1>1. /\ before \in Seq(S) /\ Len(before) = p - 1
      /\ \A i \in 1 .. p - 1 : before[i] = s[i]
  <2>1. \A i \in 1 .. p - 1 : s[i] \in S
        BY LenProperties
  <2>2. \A i \in 1 .. (p - 1) - 1 + 1 : before[i] = s[1 + i - 1]
        BY <2>1, SubSeqProperties
  <2>3. before \in Seq(S) /\ Len(before) = IF 1 <= p - 1 THEN p - 1 - 1 + 1 ELSE 0
        BY <2>1, SubSeqProperties
  <2> HIDE DEF before
  <2> QED BY <2>2, <2>3
<1>2. /\ after \in Seq(S) /\ Len(after) = Len(s) - p
      /\ \A i \in 1 .. Len(s) - p : after[i] = s[p + i]
  <2>1. Len(s) \in Nat /\ \A i \in p + 1 .. Len(s) : s[i] \in S
        BY LenProperties
  <2>2. \A i \in 1 .. Len(s) - (p + 1) + 1 : after[i] = s[p + 1 + i - 1]
        BY <2>1, SubSeqProperties
  <2>3. after \in Seq(S) /\ Len(after) = IF p + 1 <= Len(s) THEN Len(s) - (p + 1) + 1 ELSE 0
        BY <2>1, SubSeqProperties
  <2> HIDE DEF after
  <2> QED BY <2>1, <2>2, <2>3
<1>3. RemoveAt(s, p) = before \o after
      BY DEF RemoveAt
<1> HIDE DEF before, after
<1>4. Len(s) \in Nat
      BY LenProperties
<1>5. /\ before \o after \in Seq(S) /\ Len(before \o after) = Len(s) - 1
      /\ \A i \in 1 .. Len(s) - 1 :
             (before \o after)[i] = IF i <= p - 1 THEN before[i] ELSE after[i - (p - 1)]
      BY <1>1, <1>2, <1>4, ConcatProperties
<1>6. ASSUME NEW k \in 1 .. Len(s) - 1
      PROVE  /\ k < p => (before \o after)[k] = s[k]
             /\ k >= p => (before \o after)[k] = s[k + 1]
  <2>1. CASE k < p
        BY <2>1, <1>1, <1>4, <1>5
  <2>2. CASE k >= p
    <3>1. k - (p - 1) \in 1 .. Len(s) - p /\ p + (k - (p - 1)) = k + 1 /\ ~(k <= p - 1)
          BY <2>2, <1>4
    <3> QED BY <2>2, <3>1, <1>2, <1>5
  <2> QED BY <2>1, <2>2, <1>4
<1> QED BY <1>3, <1>5, <1>6

\* t is s without the entry at p: what is left is in the same order.
Erased(s, t, p) ==
    \E m \in [1 .. Len(s) - 1 -> 1 .. Len(s)] :
        /\ \A k \in 1 .. Len(s) - 1 : m[k] # p /\ t[k] = s[m[k]]
        /\ \A j, k \in 1 .. Len(s) - 1 : j < k <=> m[j] < m[k]
        /\ \A i \in 1 .. Len(s) : i # p => \E k \in 1 .. Len(s) - 1 : m[k] = i

LEMMA RemoveAtErases ==
    ASSUME NEW S, NEW s \in Seq(S), NEW p \in 1 .. Len(s)
    PROVE  Erased(s, RemoveAt(s, p), p)
<1> DEFINE m == [k \in 1 .. Len(s) - 1 |-> IF k < p THEN k ELSE k + 1]
<1>0. Len(s) \in Nat
      BY LenProperties
<1>1. m \in [1 .. Len(s) - 1 -> 1 .. Len(s)]
      BY <1>0
<1>2. \A k \in 1 .. Len(s) - 1 : m[k] # p /\ RemoveAt(s, p)[k] = s[m[k]]
      BY <1>0, RemoveAtProperties
<1>3. \A j, k \in 1 .. Len(s) - 1 : j < k <=> m[j] < m[k]
      BY <1>0
<1>4. ASSUME NEW i \in 1 .. Len(s), i # p
      PROVE  \E k \in 1 .. Len(s) - 1 : m[k] = i
  <2>1. CASE i < p
    <3>1. i \in 1 .. Len(s) - 1 /\ m[i] = i
          BY <2>1, <1>0
    <3> QED BY <3>1
  <2>2. CASE i > p
    <3>1. i - 1 \in 1 .. Len(s) - 1 /\ m[i - 1] = i
          BY <2>2, <1>0
    <3> QED BY <3>1
  <2> QED BY <2>1, <2>2, <1>4, <1>0
<1> HIDE DEF m
<1> QED BY <1>1, <1>2, <1>3, <1>4 DEF Erased

\* Positions of a sequence are counted with naturals.
LEMMA PositionsFinite ==
    ASSUME NEW S, NEW s \in Seq(S), NEW P \in SUBSET (1 .. Len(s))
    PROVE  IsFiniteSet(P) /\ Cardinality(P) \in Nat
<1>1. Len(s) \in Nat /\ IsFiniteSet(1 .. Len(s))
      BY LenProperties, FS_Interval
<1> QED BY <1>1, FS_Subset, FS_CardinalityType

\* Two sets between which a function is one to one and onto count the same.
LEMMA CountByMap ==
    ASSUME NEW A, NEW B, IsFiniteSet(A), NEW f \in [A -> B],
           \A x, y \in A : f[x] = f[y] => x = y,
           \A z \in B : \E x \in A : f[x] = z
    PROVE  Cardinality(A) = Cardinality(B) /\ IsFiniteSet(B)
<1>1. f \in Bijection(A, B)
      BY DEF Bijection, Injection, Surjection, IsInjective
<1>2. ExistsBijection(A, B)
      BY <1>1 DEF ExistsBijection
<1> QED BY <1>2, FS_Bijection

\* The sums of the first elements of a sequence, as a recursive function.
RunningSum(b, n, first, w) ==
    b = [k \in 1 .. n |-> IF k = 1 THEN first ELSE b[k - 1] + w[k - 1]]

LEMMA RunningSumExists ==
    ASSUME NEW n \in Nat \ {0}, NEW first \in Nat, NEW w \in [1 .. n -> Nat]
    PROVE  \E b \in [1 .. n -> Nat] : RunningSum(b, n, first, w)
<1> DEFINE step == [i \in 1 .. n - 1 |-> [x \in Nat |-> x + w[i]]]
<1>1. n - 1 \in Nat /\ step \in [1 .. n - 1 -> [Nat -> Nat]]
      OBVIOUS
<1>2. \A i \in 1 .. n - 1, x \in Nat : step[i][x] = x + w[i]
      OBVIOUS
<1> HIDE DEF step
<1>3. PICK f \in [0 .. n - 1 -> Nat] : Recursive(f, n - 1, first, step)
      BY <1>1, RecursionExists
<1> DEFINE b == [k \in 1 .. n |-> f[k - 1]]
<1>4. b \in [1 .. n -> Nat]
      OBVIOUS
<1>5. ASSUME NEW k \in 1 .. n
      PROVE  b[k] = IF k = 1 THEN first ELSE b[k - 1] + w[k - 1]
  <2>1. f[k - 1] = IF k - 1 = 0 THEN first ELSE step[k - 1][f[(k - 1) - 1]]
    <3>1. k - 1 \in 0 .. n - 1
          OBVIOUS
    <3> QED BY <1>3, <3>1 DEF Recursive
  <2>2. CASE k = 1
        BY <2>1, <2>2
  <2>3. CASE k # 1
    <3>1. /\ k - 1 \in 1 .. n - 1 /\ (k - 1) - 1 \in 0 .. n - 1 /\ k - 1 \in 1 .. n
          /\ f[(k - 1) - 1] \in Nat /\ b[k - 1] = f[(k - 1) - 1] /\ b[k] = f[k - 1]
          BY <2>3
    <3>2. f[k - 1] = step[k - 1][f[(k - 1) - 1]]
          BY <2>1, <2>3
    <3>3. step[k - 1][f[(k - 1) - 1]] = f[(k - 1) - 1] + w[k - 1]
          BY <1>2, <3>1
    <3> HIDE DEF b
    <3> QED BY <3>1, <3>2, <3>3, <2>3
  <2> QED BY <2>2, <2>3
<1> HIDE DEF b
<1>6. RunningSum(b, n, first, w)
  <2>1. b = [k \in 1 .. n |-> b[k]]
        BY <1>4
  <2> QED BY <1>5, <2>1 DEF RunningSum
<1> QED BY <1>4, <1>6

(***************************************************************************)
(* Powers of two, quotients and remainders                                 *)
(***************************************************************************)
LEMMA PowerPositive ==
    ASSUME NEW n \in Nat
    PROVE  2 ^ n \in Nat \ {0}
<1>1. IsFiniteSet(1 .. n) /\ Cardinality(1 .. n) = n
      BY FS_Interval
<1>2. IsFiniteSet(SUBSET (1 .. n)) /\ Cardinality(SUBSET (1 .. n)) = 2 ^ n
      BY <1>1, FS_SUBSET
<1>3. Cardinality(SUBSET (1 .. n)) # 0
      BY <1>2, FS_EmptySet
<1> QED BY <1>2, <1>3, FS_CardinalityType

\* A set with one element more has twice as many subsets.
LEMMA PowerDoubles ==
    ASSUME NEW n \in Nat
    PROVE  2 ^ (n + 1) = 2 * 2 ^ n
<1> DEFINE A == SUBSET (1 .. n)
           B == {S \in SUBSET (1 .. n + 1) : n + 1 \in S}
           f == [S \in A |-> S \cup {n + 1}]
<1>1. /\ IsFiniteSet(1 .. n) /\ Cardinality(1 .. n) = n
      /\ IsFiniteSet(1 .. n + 1) /\ Cardinality(1 .. n + 1) = n + 1
      BY FS_Interval
<1>2. /\ IsFiniteSet(A) /\ Cardinality(A) = 2 ^ n
      /\ Cardinality(SUBSET (1 .. n + 1)) = 2 ^ (n + 1)
      BY <1>1, FS_SUBSET
<1>3. f \in [A -> B]
      OBVIOUS
<1>4. \A S, T \in A : f[S] = f[T] => S = T
  <2> SUFFICES ASSUME NEW S \in A, NEW T \in A, f[S] = f[T] PROVE S = T
      OBVIOUS
  <2>1. S \cup {n + 1} = T \cup {n + 1} /\ n + 1 \notin S /\ n + 1 \notin T
        OBVIOUS
  <2> QED BY <2>1
<1>5. ASSUME NEW T \in B PROVE \E S \in A : f[S] = T
  <2>1. T \ {n + 1} \in A
        OBVIOUS
  <2>2. f[T \ {n + 1}] = T
        BY <2>1
  <2> QED BY <2>1, <2>2
<1>6. Cardinality(B) = Cardinality(A) /\ IsFiniteSet(B)
  <2> HIDE DEF f, A, B
  <2> QED BY <1>2, <1>3, <1>4, <1>5, CountByMap
<1>7. SUBSET (1 .. n + 1) = A \cup B
  <2>1. ASSUME NEW S \in SUBSET (1 .. n + 1), n + 1 \notin S
        PROVE  S \in A
    <3>1. \A x \in S : x \in 1 .. n
          BY <2>1
    <3> QED BY <3>1
  <2>2. A \subseteq SUBSET (1 .. n + 1)
        OBVIOUS
  <2> QED BY <2>1, <2>2
<1>8. A \cap B = {}
      OBVIOUS
<1>9. 2 ^ n \in Nat
      BY PowerPositive
<1> HIDE DEF A, B
<1>10. Cardinality(A \cup B) = Cardinality(A) + Cardinality(B) - Cardinality(A \cap B)
       BY <1>2, <1>6, FS_Union
<1>11. Cardinality(A \cap B) = 0
       BY <1>8, FS_EmptySet
<1>12. 2 ^ (n + 1) = Cardinality(A \cup B)
       BY <1>2, <1>7
<1>13. Cardinality(A \cup B) = 2 ^ n + 2 ^ n
       BY <1>2, <1>6, <1>9, <1>10, <1>11
<1> QED BY <1>9, <1>12, <1>13

LEMMA PowerAdds ==
    ASSUME NEW m \in Nat, NEW n \in Nat
    PROVE  2 ^ (m + n) = 2 ^ m * 2 ^ n
<1> DEFINE T == {i \in 0 .. n : 2 ^ (m + i) = 2 ^ m * 2 ^ i}
<1>1. 0 \in T
  <2>1. 2 ^ 0 = 1 /\ m + 0 = m /\ 2 ^ m \in Nat
        BY PowerPositive
  <2> QED BY <2>1
<1>2. ASSUME NEW i \in 0 .. n - 1, i \in T
      PROVE  i + 1 \in T
  <2>1. 2 ^ (i + 1) = 2 * 2 ^ i /\ 2 ^ i \in Nat /\ 2 ^ m \in Nat
        BY PowerDoubles, PowerPositive
  <2>2. 2 ^ (m + (i + 1)) = 2 * 2 ^ (m + i)
    <3>1. m + i \in Nat /\ m + (i + 1) = (m + i) + 1
          OBVIOUS
    <3> QED BY <3>1, PowerDoubles
  <2>3. 2 ^ (m + i) = 2 ^ m * 2 ^ i
        BY <1>2
  <2>4. 2 ^ (m + (i + 1)) = 2 ^ m * 2 ^ (i + 1)
    <3> DEFINE x == 2 ^ m
               y == 2 ^ i
    <3>1. x \in Nat /\ y \in Nat /\ 2 * (x * y) = x * (2 * y)
          BY <2>1
    <3> QED BY <2>1, <2>2, <2>3, <3>1
  <2> QED BY <2>4
<1>3. 0 .. n \subseteq T
  <2> HIDE DEF T
  <2> QED BY <1>1, <1>2, SetInduction
<1> QED BY <1>3

LEMMA DivMod ==
    ASSUME NEW x \in Nat, NEW d \in Nat \ {0}
    PROVE  x \div d \in Nat /\ x % d \in 0 .. d - 1 /\ x = (d * (x \div d)) + (x % d)
OBVIOUS

LEMMA DivModUnique ==
    ASSUME NEW d \in Nat \ {0}, NEW q \in Nat, NEW r \in 0 .. d - 1
    PROVE  ((d * q) + r) \div d = q /\ ((d * q) + r) % d = r
OBVIOUS

\* Dividing twice.
LEMMA DivDiv ==
    ASSUME NEW x \in Nat, NEW c \in Nat \ {0}, NEW d \in Nat \ {0}
    PROVE  x \div (c * d) = (x \div c) \div d
<1> DEFINE y == x \div c
           r == x % c
           z == y \div d
           s == y % d
<1>1. y \in Nat /\ r \in 0 .. c - 1 /\ x = (c * y) + r
      BY DivMod
<1>2. z \in Nat /\ s \in 0 .. d - 1 /\ y = (d * z) + s
      BY <1>1, DivMod
<1> HIDE DEF y, r, z, s
<1>3. c * d \in Nat \ {0} /\ c * s \in Nat /\ c * s <= c * (d - 1) /\ c * (d - 1) = (c * d) - c
      BY <1>2
<1>4. (c * s) + r \in 0 .. (c * d) - 1
      BY <1>1, <1>3
<1>5. c * y = ((c * d) * z) + (c * s)
      BY <1>2
<1>6. x = ((c * d) * z) + ((c * s) + r)
  <2> DEFINE u == (c * d) * z
             v == c * s
  <2>1. u \in Nat /\ v \in Nat /\ x = (u + v) + r
        BY <1>1, <1>2, <1>3, <1>5
  <2> HIDE DEF u, v
  <2>2. x = u + (v + r)
        BY <1>1, <2>1
  <2> QED BY <2>2 DEF u, v
<1>7. x \div (c * d) = z
      BY <1>2, <1>3, <1>4, <1>6, DivModUnique, ZenonT(60)
<1> QED BY <1>7 DEF y, z

\* One more makes the remainder one more, or starts over.
LEMMA NextTurn ==
    ASSUME NEW n \in Nat, NEW d \in Nat \ {0}
    PROVE  \/ /\ n % d < d - 1 /\ (n + 1) % d = (n % d) + 1 /\ (n + 1) \div d = n \div d
           \/ /\ n % d = d - 1 /\ (n + 1) % d = 0 /\ (n + 1) \div d = (n \div d) + 1
<1> DEFINE q == n \div d
           r == n % d
<1>1. q \in Nat /\ r \in 0 .. d - 1 /\ n = (d * q) + r
      BY DivMod
<1> HIDE DEF q, r
<1>2. CASE r < d - 1
  <2>1. r + 1 \in 0 .. d - 1 /\ n + 1 = (d * q) + (r + 1)
        BY <1>1, <1>2
  <2>2. (n + 1) \div d = q /\ (n + 1) % d = r + 1
        BY <1>1, <2>1, DivModUnique
  <2> QED BY <1>2, <2>2 DEF q, r
<1>3. CASE r = d - 1
  <2>1. n + 1 = (d * (q + 1)) + 0 /\ q + 1 \in Nat /\ 0 \in 0 .. d - 1
        BY <1>1, <1>3
  <2> DEFINE p == q + 1
  <2>2. ((d * p) + 0) \div d = p /\ ((d * p) + 0) % d = 0
    <3> HIDE DEF p
    <3> QED BY <2>1, DivModUnique DEF p
  <2>3. (n + 1) \div d = q + 1 /\ (n + 1) % d = 0
        BY <2>1, <2>2
  <2> QED BY <1>3, <2>3 DEF q, r
<1> QED BY <1>1, <1>2, <1>3
=============================================================================
