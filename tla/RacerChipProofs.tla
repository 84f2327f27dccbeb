-------------------------- MODULE RacerChipProofs --------------------------
(* The interpreter of RACER programs, for every chip, cost table and program.*)
EXTENDS RacerChip, DataLemmas

(***************************************************************************)
(* The operators                                                           *)
(***************************************************************************)
\* The function FlattenSeq defines.
Flattened(f, ss) ==
    f = [i \in 1 .. Len(ss) |-> IF i = 1 THEN ss[i] ELSE f[i - 1] \o ss[i]]

LEMMA FlattenExists ==
    ASSUME NEW S, NEW ss \in Seq(Seq(S)), Len(ss) # 0
    PROVE  \E f \in [1 .. Len(ss) -> Seq(S)] : Flattened(f, ss)
<1> DEFINE n == Len(ss)
           step == [i \in 1 .. n - 1 |-> [x \in Seq(S) |-> x \o ss[i + 1]]]
<1>1. n \in Nat \ {0} /\ n - 1 \in Nat /\ 1 \in 1 .. n
      BY LenProperties
<1>2. \A i \in 1 .. n : ss[i] \in Seq(S)
      BY ElementOfSeq
<1>3. step \in [1 .. n - 1 -> [Seq(S) -> Seq(S)]]
  <2>1. \A i \in 1 .. n - 1 : i + 1 \in 1 .. n
        BY <1>1
  <2>2. \A i \in 1 .. n - 1, x \in Seq(S) : x \o ss[i + 1] \in Seq(S)
        BY <1>2, <2>1, ConcatProperties
  <2> HIDE DEF n
  <2> QED BY <2>2
<1>4. \A i \in 1 .. n - 1, x \in Seq(S) : step[i][x] = x \o ss[i + 1]
      OBVIOUS
<1> HIDE DEF step, n
<1>5. PICK g \in [0 .. n - 1 -> Seq(S)] : Recursive(g, n - 1, ss[1], step)
      BY <1>1, <1>2, <1>3, RecursionExists
<1> DEFINE f == [i \in 1 .. n |-> g[i - 1]]
<1>6. f \in [1 .. n -> Seq(S)]
      BY <1>1
<1>7. ASSUME NEW i \in 1 .. n
      PROVE  f[i] = IF i = 1 THEN ss[i] ELSE f[i - 1] \o ss[i]
  <2>1. g[i - 1] = IF i - 1 = 0 THEN ss[1] ELSE step[i - 1][g[(i - 1) - 1]]
    <3>1. i - 1 \in 0 .. n - 1
          BY <1>1
    <3> QED BY <1>5, <3>1 DEF Recursive
  <2>2. CASE i = 1
        BY <2>1, <2>2
  <2>3. CASE i # 1
    <3>1. /\ i - 1 \in 1 .. n - 1 /\ (i - 1) - 1 \in 0 .. n - 1 /\ i - 1 \in 1 .. n
          /\ (i - 1) + 1 = i
          BY <1>1, <2>3
    <3>2. f[i] = g[i - 1] /\ f[i - 1] = g[(i - 1) - 1] /\ g[(i - 1) - 1] \in Seq(S)
          BY <3>1
    <3>3. g[i - 1] = step[i - 1][g[(i - 1) - 1]]
          BY <2>1, <2>3
    <3>4. step[i - 1][g[(i - 1) - 1]] = g[(i - 1) - 1] \o ss[i]
          BY <1>4, <3>1, <3>2
    <3> HIDE DEF f
    <3> QED BY <2>3, <3>2, <3>3, <3>4
  <2> QED BY <2>2, <2>3
<1> HIDE DEF f
<1>8. f = [i \in 1 .. n |-> f[i]]
      BY <1>6
<1>9. Flattened(f, ss)
      BY <1>7, <1>8 DEF Flattened, n
<1> QED BY <1>6, <1>9 DEF n

\* It determines its values.
LEMMA FlattenUnique ==
    ASSUME NEW S, NEW ss \in Seq(S), Len(ss) # 0,
           NEW f, NEW g, Flattened(f, ss), Flattened(g, ss)
    PROVE  f[Len(ss)] = g[Len(ss)]
<1> DEFINE n == Len(ss)
           T == {i \in 0 .. n - 1 : f[i + 1] = g[i + 1]}
<1>1. n \in Nat \ {0} /\ n - 1 \in Nat
      BY LenProperties
<1>2. \A i \in 1 .. n : /\ f[i] = IF i = 1 THEN ss[i] ELSE f[i - 1] \o ss[i]
                        /\ g[i] = IF i = 1 THEN ss[i] ELSE g[i - 1] \o ss[i]
      BY DEF Flattened
<1> HIDE DEF n
<1>3. 0 \in T
  <2>1. 1 \in 1 .. n /\ 0 \in 0 .. n - 1 /\ 0 + 1 = 1
        BY <1>1
  <2> QED BY <1>2, <2>1
<1>4. \A i \in 0 .. (n - 1) - 1 : i \in T => i + 1 \in T
  <2> SUFFICES ASSUME NEW i \in 0 .. (n - 1) - 1, i \in T PROVE i + 1 \in T
      OBVIOUS
  <2>1. /\ i + 1 \in 0 .. n - 1 /\ (i + 1) + 1 \in 1 .. n /\ (i + 1) + 1 # 1
        /\ ((i + 1) + 1) - 1 = i + 1
        BY <1>1
  <2>2. f[i + 1] = g[i + 1]
        OBVIOUS
  <2> QED BY <1>2, <2>1, <2>2
<1>5. 0 .. n - 1 \subseteq T
  <2> HIDE DEF T
  <2> QED BY <1>1, <1>3, <1>4, SetInduction
<1>6. n - 1 \in T /\ (n - 1) + 1 = n
      BY <1>1, <1>5
<1> QED BY <1>6 DEF n

LEMMA FlattenValue ==
    ASSUME NEW S, NEW ss \in Seq(Seq(S)), Len(ss) # 0, NEW f, Flattened(f, ss)
    PROVE  FlattenSeq(ss) = f[Len(ss)]
<1>1. FlattenSeq(ss) = (CHOOSE g : Flattened(g, ss))[Len(ss)]
      BY DEF FlattenSeq, Flattened
<1>2. Flattened(CHOOSE g : Flattened(g, ss), ss)
      OBVIOUS
<1> QED BY <1>1, <1>2, FlattenUnique

\* One more sequence comes after all others.
LEMMA FlattenAppend ==
    ASSUME NEW S, NEW ss \in Seq(Seq(S)), NEW s \in Seq(S)
    PROVE  /\ FlattenSeq(ss) \in Seq(S)
           /\ FlattenSeq(Append(ss, s)) = FlattenSeq(ss) \o s
<1> DEFINE n == Len(ss)
           tt == Append(ss, s)
<1>1. /\ tt \in Seq(Seq(S)) /\ Len(tt) = n + 1 /\ n \in Nat /\ tt[n + 1] = s
      /\ \A i \in 1 .. n : tt[i] = ss[i]
      BY AppendProperties, LenProperties
<1>2. CASE n = 0
  <2>1. ss = <<>>
        BY <1>2, EmptySeq
  <2>2. FlattenSeq(ss) = <<>>
        BY <2>1 DEF FlattenSeq
  <2> DEFINE g == [i \in 1 .. Len(tt) |-> s]
  <2>3. Flattened(g, tt)
    <3>1. 1 .. Len(tt) = {1} /\ tt[1] = s
          BY <1>1, <1>2
    <3> HIDE DEF tt
    <3> QED BY <3>1 DEF Flattened
  <2>4. FlattenSeq(tt) = g[Len(tt)]
    <3>1. Len(tt) # 0
          BY <1>1, <1>2
    <3> HIDE DEF tt, g
    <3> QED BY <1>1, <2>3, <3>1, FlattenValue
  <2>5. FlattenSeq(tt) = s
        BY <1>1, <1>2, <2>4
  <2>6. <<>> \o s = s /\ <<>> \in Seq(S)
        BY ConcatEmptySeq, EmptySeq
  <2> QED BY <2>2, <2>5, <2>6
<1>3. CASE n # 0
  <2>1. PICK f \in [1 .. n -> Seq(S)] : Flattened(f, ss)
        BY <1>3, FlattenExists
  <2>2. FlattenSeq(ss) = f[n]
        BY <1>3, <2>1, FlattenValue
  <2> DEFINE g == [i \in 1 .. n + 1 |-> IF i = n + 1 THEN f[n] \o s ELSE f[i]]
  <2>3. \A i \in 1 .. n : f[i] = IF i = 1 THEN ss[i] ELSE f[i - 1] \o ss[i]
        BY <2>1 DEF Flattened
  <2>4. ASSUME NEW i \in 1 .. n + 1
        PROVE  g[i] = IF i = 1 THEN tt[i] ELSE g[i - 1] \o tt[i]
    <3>1. CASE i = n + 1
      <4>1. i # 1 /\ i - 1 = n /\ n \in 1 .. n + 1 /\ n # n + 1
            BY <1>1, <1>3, <3>1
      <4>2. g[i] = f[n] \o s /\ g[i - 1] = f[n] /\ tt[i] = s
            BY <1>1, <3>1, <4>1
      <4> HIDE DEF g, tt
      <4> QED BY <4>1, <4>2
    <3>2. CASE i # n + 1
      <4>1. i \in 1 .. n /\ (i # 1 => i - 1 \in 1 .. n /\ i - 1 # n + 1)
            BY <1>1, <3>2
      <4>2. g[i] = f[i] /\ tt[i] = ss[i] /\ (i # 1 => g[i - 1] = f[i - 1])
            BY <1>1, <3>2, <4>1
      <4> HIDE DEF g, tt
      <4> QED BY <2>3, <4>1, <4>2
    <3> QED BY <3>1, <3>2
  <2>5. g = [i \in 1 .. n + 1 |-> g[i]]
        OBVIOUS
  <2>6. g[n + 1] = f[n] \o s
        BY <1>1
  <2> HIDE DEF g
  <2>7. Flattened(g, tt)
        BY <1>1, <2>4, <2>5 DEF Flattened
  <2>8. FlattenSeq(tt) = g[n + 1]
    <3>1. n + 1 # 0
          BY <1>1
    <3> HIDE DEF tt, n
    <3> QED BY <1>1, <2>7, <3>1, FlattenValue
  <2>9. f[n] \in Seq(S)
    <3>1. n \in 1 .. n
          BY <1>1, <1>3
    <3> HIDE DEF n
    <3> QED BY <2>1, <3>1
  <2> QED BY <2>2, <2>6, <2>8, <2>9
<1> QED BY <1>2, <1>3

\* list.remove keeps the other elements.
LEMMA RemoveFirstType ==
    ASSUME NEW S, NEW s \in Seq(S), NEW e
    PROVE  RemoveFirst(s, e) \in Seq(S)
<1>1. CASE ~ \E i \in 1 .. Len(s) : s[i] = e
      BY <1>1 DEF RemoveFirst
<1>2. CASE \E i \in 1 .. Len(s) : s[i] = e
  <2> DEFINE I == {i \in 1 .. Len(s) : s[i] = e}
             m == CHOOSE x \in I : \A y \in I : x <= y
  <2>1. I # {} /\ I \in SUBSET Nat
        BY <1>2
  <2>2. \E x \in I : \A y \in I : x <= y
    <3> HIDE DEF I
    <3> QED BY <2>1, LeastElement
  <2>3. m \in I
    <3> HIDE DEF I
    <3> QED BY <2>2
  <2>4. RemoveFirst(s, e) = RemoveAt(s, m)
        BY <1>2, <2>1 DEF RemoveFirst, SelectInSeq, Min
  <2>5. m \in 1 .. Len(s)
        BY <2>3
  <2> HIDE DEF m
  <2> QED BY <2>4, <2>5, RemoveAtProperties
<1> QED BY <1>1, <1>2

LEMMA RemoveEachType ==
    ASSUME NEW S, NEW m \in Seq(S), NEW T, NEW units \in Seq(T)
    PROVE  RemoveEach(m, units) \in Seq(S)
<1> DEFINE n == Len(units)
           step == [k \in 1 .. n |-> [x \in Seq(S) |-> RemoveFirst(x, units[k])]]
           good(f) == f = [k \in 0 .. n |-> IF k = 0 THEN m
                                            ELSE RemoveFirst(f[k - 1], units[k])]
<1>1. n \in Nat
      BY LenProperties
<1>2. step \in [1 .. n -> [Seq(S) -> Seq(S)]]
      BY RemoveFirstType
<1>3. \A k \in 1 .. n, x \in Seq(S) : step[k][x] = RemoveFirst(x, units[k])
      OBVIOUS
<1> HIDE DEF n, step
<1>4. PICK f \in [0 .. n -> Seq(S)] : Recursive(f, n, m, step)
      BY <1>1, <1>2, RecursionExists
<1>5. good(f)
  <2>1. ASSUME NEW k \in 0 .. n
        PROVE  f[k] = IF k = 0 THEN m ELSE RemoveFirst(f[k - 1], units[k])
    <3>1. f[k] = IF k = 0 THEN m ELSE step[k][f[k - 1]]
          BY <1>4 DEF Recursive
    <3>2. CASE k # 0
      <4>1. k \in 1 .. n /\ k - 1 \in 0 .. n
            BY <1>1, <3>2
      <4>2. f[k - 1] \in Seq(S)
            BY <4>1
      <4> QED BY <1>3, <3>1, <3>2, <4>1, <4>2
    <3> QED BY <3>1, <3>2
  <2>2. f = [k \in 0 .. n |-> f[k]]
        OBVIOUS
  <2> QED BY <2>1, <2>2
<1>6. RemoveEach(m, units) = (CHOOSE g : good(g))[n]
      BY DEF RemoveEach, n
<1> DEFINE g == CHOOSE h : good(h)
<1>7. good(g)
  <2> HIDE DEF good
  <2> QED BY <1>5
<1> HIDE DEF g
<1> DEFINE V == {k \in 0 .. n : g[k] \in Seq(S)}
<1>8. \A k \in 0 .. n : g[k] = IF k = 0 THEN m ELSE RemoveFirst(g[k - 1], units[k])
      BY <1>7
<1>9. 0 \in V
      BY <1>1, <1>8
<1>10. \A i \in 0 .. n - 1 : i \in V => i + 1 \in V
  <2> SUFFICES ASSUME NEW i \in 0 .. n - 1, i \in V PROVE i + 1 \in V
      OBVIOUS
  <2>1. i + 1 \in 0 .. n /\ i + 1 # 0 /\ (i + 1) - 1 = i /\ g[i] \in Seq(S)
        BY <1>1
  <2>2. g[i + 1] = RemoveFirst(g[i], units[i + 1])
        BY <1>8, <2>1
  <2>3. RemoveFirst(g[i], units[i + 1]) \in Seq(S)
        BY <2>1, RemoveFirstType
  <2> QED BY <2>1, <2>2, <2>3
<1>11. 0 .. n \subseteq V
  <2> HIDE DEF V
  <2> QED BY <1>1, <1>9, <1>10, SetInduction
<1>12. g[n] \in Seq(S)
       BY <1>1, <1>11
<1> QED BY <1>6, <1>12 DEF g

LEMMA ChipSize == NumClusters * ClusterSize \in Nat \ {0}
BY ChipAssumption

\* What a readable instruction's arguments are.
LEMMA ReadableArguments ==
    ASSUME NEW p, ReadableProgram(p), NEW i \in 1 .. Len(p)
    PROVE  /\ p \in Seq([op : STRING, args : Seq(Nat)]) /\ Len(p) \in Nat
           /\ p[i] \in [op : STRING, args : Seq(Nat)] /\ Readable(p[i])
           /\ Len(p[i].args) \in Nat
           /\ \A k \in 1 .. Len(p[i].args) : p[i].args[k] \in Nat
<1>1. p \in Seq([op : STRING, args : Seq(Nat)]) /\ Readable(p[i])
      BY DEF ReadableProgram
<1>2. p[i] \in [op : STRING, args : Seq(Nat)]
      BY <1>1, ElementOfSeq
<1>3. p[i].args \in Seq(Nat)
      BY <1>2
<1> QED BY <1>1, <1>2, <1>3, ElementOfSeq, LenProperties

\* SETBULK selects as many units as it says.
LEMMA BulkUnits ==
    ASSUME NEW start \in Nat, NEW num \in Nat, NEW step \in Nat \ {0},
           num = 0 \/ start + (num - 1) * step \in Units
    PROVE  PyRange(start, start + num * step, step) \in Seq(Units)
<1> DEFINE stop == start + num * step
           len  == IF stop > start THEN (stop - start + step - 1) \div step ELSE 0
           q    == [i \in 1 .. len |-> start + (i - 1) * step]
<1>1. len = num
  <2>1. CASE num = 0
        BY <2>1
  <2>2. CASE num # 0
    <3> DEFINE t == step * num
    <3>1. t \in Nat /\ t > 0 /\ num * step = t
          BY <2>2
    <3>2. (t + (step - 1)) \div step = num
          BY DivModUnique
    <3> HIDE DEF t
    <3>3. stop > start /\ stop - start + step - 1 = t + (step - 1)
          BY <3>1
    <3> QED BY <3>2, <3>3
  <2> QED BY <2>1, <2>2
<1>2. ASSUME NEW i \in 1 .. num
      PROVE  start + (i - 1) * step \in Units
  <2>1. num # 0 /\ i - 1 \in Nat /\ num - 1 \in Nat /\ i - 1 <= num - 1
        OBVIOUS
  <2>2. (i - 1) * step \in Nat /\ (num - 1) * step \in Nat
        BY <2>1
  <2>3. (i - 1) * step <= (num - 1) * step
    <3> DEFINE x == i - 1
               y == num - 1
    <3> HIDE DEF x, y
    <3>1. ASSUME x \in Nat, y \in Nat, x <= y PROVE x * step <= y * step
      <4>1. y - x \in Nat
            BY <3>1
      <4>2. (y - x) * step \in Nat
            BY <4>1
      <4>3. y * step = (x * step) + ((y - x) * step)
            BY <3>1
      <4>4. x * step \in Nat
            BY <3>1
      <4> QED BY <4>2, <4>3, <4>4
    <3> QED BY <2>1, <3>1 DEF x, y
  <2>4. start + (num - 1) * step \in Units
        BY <2>1
  <2> HIDE DEF Units
  <2> QED BY <2>2, <2>3, <2>4, ChipSize DEF Units
<1>3. PyRange(start, stop, step) = [i \in 1 .. len |-> start + (i - 1) * step]
      BY DEF PyRange
<1>4. PyRange(start, stop, step) = [i \in 1 .. num |-> start + (i - 1) * step]
      BY <1>1, <1>3
<1>5. [i \in 1 .. num |-> start + (i - 1) * step] \in Seq(Units)
      BY <1>2, IsASeq
<1> QED BY <1>4, <1>5

\* A readable mask instruction leaves a mask of units that exist.
LEMMA NewMaskType ==
    ASSUME TypeOK, NEW i \in 1 .. Len(program), program[i].op \in MaskOps
    PROVE  NewMask(program[i]) \in Seq(Units)
<1> DEFINE instr == program[i]
<1>1. /\ instr \in [op : STRING, args : Seq(Nat)] /\ Readable(instr)
      /\ \A k \in 1 .. Len(instr.args) : instr.args[k] \in Nat
      /\ Len(instr.args) \in Nat /\ mask \in Seq(Units)
      BY ReadableArguments DEF TypeOK
<1>2. instr.op \in MaskOps
      OBVIOUS
<1> HIDE DEF instr
<1>3. CASE instr.op = "SETALL"
  <2>1. \A k \in 1 .. NumClusters * ClusterSize : k - 1 \in Units
        BY ChipSize DEF Units
  <2>2. [k \in 1 .. NumClusters * ClusterSize |-> k - 1] \in Seq(Units)
        BY <2>1, ChipSize, IsASeq
  <2> QED BY <1>3, <2>2 DEF NewMask, instr
<1>4. CASE instr.op = "UNSETALL"
  <2>1. NewMask(instr) = <<>>
        BY <1>4 DEF NewMask
  <2> QED BY <2>1, EmptySeq DEF instr
<1>5. CASE instr.op = "SET"
  <2>1. NewMask(instr) = Append(mask, First(instr)) /\ First(instr) \in Units
        BY <1>1, <1>5 DEF NewMask, Readable
  <2> QED BY <1>1, <2>1, AppendProperties DEF instr
<1>6. CASE instr.op = "UNSET"
  <2>1. NewMask(instr) = RemoveFirst(mask, First(instr))
        BY <1>6 DEF NewMask
  <2> QED BY <1>1, <2>1, RemoveFirstType DEF instr
<1>7. CASE instr.op = "SETBULK"
  <2>1. NewMask(instr) = mask \o PyRange(First(instr), First(instr) + Second(instr) * Third(instr),
                                          Third(instr))
        BY <1>7 DEF NewMask, SetBulk
  <2>2. Len(instr.args) >= 3 /\ Third(instr) > 0
        BY <1>1, <1>7 DEF Readable
  <2>3. /\ First(instr) \in Nat /\ Second(instr) \in Nat /\ Third(instr) \in Nat \ {0}
    <3>1. 1 \in 1 .. Len(instr.args) /\ 2 \in 1 .. Len(instr.args) /\ 3 \in 1 .. Len(instr.args)
          BY <1>1, <2>2
    <3> QED BY <1>1, <2>2, <3>1 DEF First, Second, Third
  <2>4. Second(instr) = 0 \/ First(instr) + (Second(instr) - 1) * Third(instr) \in Units
        BY <1>1, <1>7 DEF Readable
  <2>5. PyRange(First(instr), First(instr) + Second(instr) * Third(instr), Third(instr))
            \in Seq(Units)
        BY <2>3, <2>4, BulkUnits
  <2> QED BY <1>1, <2>1, <2>5, ConcatProperties DEF instr
<1>8. CASE instr.op = "UNSETBULK"
  <2> DEFINE r == RemoveList(instr)
             start == First(instr)
             step == Third(instr)
             len == IF Second(instr) > start
                    THEN (Second(instr) - start + step - 1) \div step ELSE 0
  <2>1. NewMask(instr) = RemoveEach(mask, r)
        BY <1>8 DEF NewMask
  <2>2. Len(instr.args) >= 3 /\ step > 0
        BY <1>1, <1>8 DEF Readable
  <2>3. start \in Nat /\ Second(instr) \in Nat /\ step \in Nat \ {0}
    <3>1. 1 \in 1 .. Len(instr.args) /\ 2 \in 1 .. Len(instr.args) /\ 3 \in 1 .. Len(instr.args)
          BY <1>1, <2>2
    <3> QED BY <1>1, <2>2, <3>1 DEF First, Second, Third
  <2>4. len \in Nat
    <3>1. CASE Second(instr) > start
      <4>1. Second(instr) - start + step - 1 \in Nat
            BY <2>3, <3>1
      <4>2. (Second(instr) - start + step - 1) \div step \in Nat
            BY <2>3, <4>1, DivMod
      <4> QED BY <3>1, <4>2
    <3>2. CASE ~(Second(instr) > start)
          BY <3>2
    <3> QED BY <3>1, <3>2
  <2>5. r = [k \in 1 .. len |-> start + (k - 1) * step]
        BY DEF RemoveList, PyRange
  <2> HIDE DEF len
  <2>6. \A k \in 1 .. len : start + (k - 1) * step \in Int
        BY <2>3
  <2>7. r \in Seq(Int)
        BY <2>4, <2>5, <2>6, IsASeq
  <2> HIDE DEF r
  <2> QED BY <1>1, <2>1, <2>7, RemoveEachType DEF instr
<1> QED BY <1>2, <1>3, <1>4, <1>5, <1>6, <1>7, <1>8 DEF MaskOps, instr

-----------------------------------------------------------------------------
(***************************************************************************)
(* Types                                                                   *)
(***************************************************************************)
LEMMA ProgramLength ==
    ASSUME TypeOK
    PROVE  /\ program \in Seq([op : STRING, args : Seq(Nat)])
           /\ Len(program) \in Nat /\ pc \in Nat
<1>1. program \in Seq([op : STRING, args : Seq(Nat)])
      BY DEF TypeOK, ReadableProgram
<1> QED BY <1>1, LenProperties DEF TypeOK

LEMMA InitTypes == Init => TypeOK
<1> SUFFICES ASSUME Init PROVE TypeOK
    OBVIOUS
<1>1. ReadableProgram(program) /\ program \in Seq([op : STRING, args : Seq(Nat)])
      BY ProgramAssumption DEF Init, ReadableProgram
<1>2. Len(program) \in Nat
      BY <1>1, LenProperties
<1>3. <<>> \in Seq(Units) /\ <<>> \in Seq(Seq(Units)) /\ <<>> \in Seq(ComputePositions)
      BY EmptySeq
<1> QED BY <1>1, <1>2, <1>3 DEF Init, TypeOK

\* configSetup
LEMMA ConfigTypes ==
    ASSUME TypeOK, ConfigStep \/ ConfigDone \/ ConfigFails
    PROVE  TypeOK'
<1> USE DEF localVars, accountVars, ComputePositions
<1>1. CASE ConfigStep
  <2>1. pc + 1 \in 1 .. Len(program) /\ pc' = pc + 1
        BY <1>1, ProgramLength DEF ConfigStep, AtEnd
  <2>2. mask' \in Seq(Units)
        BY <1>1, <2>1, NewMaskType DEF ConfigStep, Instruction
  <2>3. pc' \in 0 .. Len(program)
        BY <2>1, ProgramLength
  <2> QED BY <1>1, <2>2, <2>3 DEF ConfigStep, TypeOK
<1>2. CASE ConfigDone
  <2>1. <<>> \in Seq(Units) /\ <<>> \in Seq(Seq(Units))
        BY EmptySeq
  <2> QED BY <1>2, <2>1 DEF ConfigDone, TypeOK
<1>3. CASE ConfigFails
      BY <1>3 DEF ConfigFails, Raise, TypeOK
<1> QED BY <1>1, <1>2, <1>3

\* The sequences and the collected instructions of executeEpoch
LEMMA SplitTypes ==
    ASSUME TypeOK, SplitStep \/ SplitDone
    PROVE  TypeOK'
<1> USE DEF accountVars, ComputePositions
<1>1. CASE SplitStep
  <2> DEFINE u == mask[visited + 1]
  <2>1. u \in Units
    <3>1. Len(mask) \in Nat /\ mask \in Seq(Units) /\ visited \in Nat /\ visited < Len(mask)
          BY <1>1, LenProperties DEF TypeOK, SplitStep
    <3>2. visited + 1 \in 1 .. Len(mask)
          BY <3>1
    <3> QED BY <3>1, <3>2, ElementOfSeq
  <2>2. sequence \in Seq(Units) /\ executionSequences \in Seq(Seq(Units))
        BY DEF TypeOK
  <2>3. /\ Append(sequence, u) \in Seq(Units) /\ <<u>> \in Seq(Units)
        /\ Append(executionSequences, sequence) \in Seq(Seq(Units))
    <3>1. <<u>> \in Seq(Units)
          BY <2>1
    <3> HIDE DEF u
    <3> QED BY <2>1, <2>2, <3>1, AppendProperties
  <2>4. /\ executionSequences' \in Seq(Seq(Units)) /\ sequence' \in Seq(Units)
        BY <1>1, <2>2, <2>3 DEF SplitStep
  <2>5. /\ UNCHANGED <<program, pc, mask, stage, error, computeInstructions, epochLatency,
                        epochEnergy, accountVars, charges, due>>
        /\ visited' \in Nat
        BY <1>1 DEF SplitStep, TypeOK
  <2> QED BY <2>4, <2>5 DEF TypeOK
<1>2. CASE SplitDone
  <2>1. executionSequences' \in Seq(Seq(Units))
        BY <1>2, AppendProperties DEF SplitDone, TypeOK
  <2>2. <<>> \in Seq(ComputePositions)
        BY EmptySeq
  <2> QED BY <1>2, <2>1, <2>2 DEF SplitDone, TypeOK
<1> QED BY <1>1, <1>2

LEMMA CollectTypes ==
    ASSUME TypeOK, CollectStep \/ CollectDone \/ CollectFails
    PROVE  TypeOK'
<1> USE DEF localVars, accountVars, ComputePositions
<1>1. CASE CollectStep
  <2>1. pc + 1 \in 1 .. Len(program) /\ pc' = pc + 1 /\ program' = program
        BY <1>1, ProgramLength DEF CollectStep, AtEnd
  <2>2. pc' \in 0 .. Len(program)
        BY <2>1, ProgramLength
  <2>3. computeInstructions' \in Seq(ComputePositions)
    <3>1. pc + 1 \in ComputePositions
          BY <1>1, <2>1 DEF CollectStep, Instruction, ComputePositions
    <3> QED BY <1>1, <3>1, AppendProperties DEF CollectStep, TypeOK
  <2>4. due' \in [1 .. Len(program) -> Nat]
    <3>1. Len(mask) \in Nat
          BY LenProperties DEF TypeOK
    <3>2. due' = [due EXCEPT ![pc + 1] = @ + Len(mask)]
          BY <1>1 DEF CollectStep
    <3>3. due \in [1 .. Len(program) -> Nat]
          BY DEF TypeOK
    <3> QED BY <2>1, <3>1, <3>2, <3>3
  <2> QED BY <1>1, <2>1, <2>2, <2>3, <2>4 DEF CollectStep, TypeOK
<1>2. CASE CollectDone
      BY <1>2 DEF CollectDone, TypeOK
<1>3. CASE CollectFails
      BY <1>3 DEF CollectFails, Raise, TypeOK
<1> QED BY <1>1, <1>2, <1>3

\* What the loops over the collected instructions look at.
LEMMA Collected ==
    ASSUME TypeOK, NEW j \in 1 .. Len(computeInstructions)
    PROVE  /\ computeInstructions[j] \in 1 .. Len(program)
           /\ program[computeInstructions[j]].op \notin MaskOps
<1>1. computeInstructions[j] \in ComputePositions
      BY ElementOfSeq DEF TypeOK
<1> QED BY <1>1 DEF ComputePositions

LEMMA SelectedType ==
    ASSUME TypeOK
    PROVE  /\ SelectedUnits \in Seq(Units) /\ Len(SelectedUnits) \in Nat
           /\ NumSequences \in Nat /\ Len(computeInstructions) \in Nat
           /\ Len(mask) \in Nat /\ visited \in Nat
<1>1. /\ executionSequences \in Seq(Seq(Units)) /\ computeInstructions \in Seq(ComputePositions)
      /\ mask \in Seq(Units) /\ visited \in Nat
      BY DEF TypeOK
<1>2. <<>> \in Seq(Units)
      BY EmptySeq
<1>3. FlattenSeq(executionSequences) \in Seq(Units)
      BY <1>1, <1>2, FlattenAppend
<1> QED BY <1>1, <1>3, LenProperties DEF SelectedUnits, NumSequences

LEMMA PositionType ==
    ASSUME TypeOK, visited < Len(computeInstructions)
    PROVE  /\ visited + 1 \in 1 .. Len(computeInstructions)
           /\ Position \in 1 .. Len(program) /\ program[Position].op \notin MaskOps
<1>1. visited + 1 \in 1 .. Len(computeInstructions)
      BY SelectedType
<1> QED BY <1>1, Collected DEF Position

\* The cost of an instruction of the epoch.
LEMMA ChargeTypes ==
    ASSUME TypeOK, NEW i \in 1 .. Len(program),
           program[i].op \notin MaskOps, Charge(program[i]),
           InTable(program[i].op) \/ program[i].op \in LoadOps \cup {"SHIFT", "PROP"}
    PROVE  epochLatency' \in Nat /\ epochEnergy' \in Int
<1> DEFINE instr == program[i]
           cost == opTab[instr.op]
           n == NumSequences
           m == Len(SelectedUnits)
<1>1. /\ Readable(instr) /\ Len(instr.args) \in Nat
      /\ \A k \in 1 .. Len(instr.args) : instr.args[k] \in Nat
      BY ReadableArguments DEF TypeOK
<1>2. Len(instr.args) >= 2
      BY <1>1 DEF Readable
<1>3. /\ First(instr) \in Nat /\ Second(instr) \in Nat
      /\ multiplicativeFactor(instr) \in Nat /\ fleetSize(instr) \in Nat
  <2>1. /\ 1 \in 1 .. Len(instr.args) /\ 2 \in 1 .. Len(instr.args)
        /\ Len(instr.args) \in 1 .. Len(instr.args) /\ Len(instr.args) - 1 \in 1 .. Len(instr.args)
        BY <1>1, <1>2
  <2> QED BY <1>1, <2>1 DEF First, Second, multiplicativeFactor, fleetSize
<1>4. /\ hopLatCost \in Nat /\ hopEnergyCost \in Nat /\ propLatCost \in Nat
      /\ propEnergyCost \in Nat /\ dynamicPower \in Nat
      BY ChipAssumption
<1>5. n \in Nat /\ m \in Nat /\ epochLatency \in Nat /\ epochEnergy \in Int
      BY SelectedType DEF TypeOK
<1>6. Charge(instr)
      OBVIOUS
<1> HIDE DEF instr, n, m
<1>7. CASE instr.op \in LoadOps
  <2>1. epochLatency' = epochLatency /\ epochEnergy' = epochEnergy
        BY <1>6, <1>7 DEF Charge, LoadOps
  <2> QED BY <1>5, <2>1
<1>8. CASE instr.op = "SHIFT"
  <2>1. /\ epochLatency' = epochLatency + First(instr) * hopLatCost
        /\ epochEnergy' = epochEnergy + Second(instr) * hopEnergyCost
        BY <1>6, <1>8 DEF Charge, LoadOps
  <2>2. First(instr) * hopLatCost \in Nat /\ Second(instr) * hopEnergyCost \in Nat
        BY <1>3, <1>4
  <2> QED BY <1>5, <2>1, <2>2
<1>9. CASE instr.op = "PROP"
  <2>1. /\ epochLatency' = epochLatency + First(instr) * propLatCost
        /\ epochEnergy' = epochEnergy + Second(instr) * propEnergyCost
        BY <1>6, <1>9 DEF Charge, LoadOps
  <2>2. First(instr) * propLatCost \in Nat /\ Second(instr) * propEnergyCost \in Nat
        BY <1>3, <1>4
  <2> QED BY <1>5, <2>1, <2>2
<1>10. CASE instr.op \notin LoadOps \cup {"SHIFT", "PROP"}
  <2>1. /\ cost.energyCost \in Nat /\ cost.latency \in Nat
        /\ cost.warmupEnergy \in Int /\ cost.warmupLatency \in Nat
    <3>1. instr.op \in DOMAIN opTab
          BY <1>10 DEF InTable, instr
    <3>2. cost \in [energyCost : Nat, latency : Nat, warmupEnergy : Int, warmupLatency : Nat]
          BY <3>1, ChipAssumption
    <3> QED BY <3>2
  <2> HIDE DEF cost
  <2>2. CASE pipelined(instr.op)
    <3> DEFINE l == cost.latency * fleetSize(instr)
               e == cost.energyCost * fleetSize(instr)
               x == (l + cost.warmupLatency) * n
               y == (e + cost.warmupEnergy) * multiplicativeFactor(instr)
               z == epochLatency' * dynamicPower
    <3>1. epochLatency' = epochLatency + x /\ epochEnergy' = epochEnergy + (y + z) * m
          BY <1>6, <1>10, <2>2 DEF Charge, LoadOps, cost, n, m
    <3>2. l \in Nat /\ e \in Nat
          BY <1>3, <2>1, SMTT(60)
    <3> HIDE DEF l, e
    <3>3. x \in Nat /\ y \in Int
      <4>1. l + cost.warmupLatency \in Nat /\ e + cost.warmupEnergy \in Int
            BY <2>1, <3>2
      <4>2. \A c \in Nat, d \in Nat : c * d \in Nat
            OBVIOUS
      <4>3. \A c \in Int, d \in Nat : c * d \in Int
            OBVIOUS
      <4> QED BY <1>3, <1>5, <4>1, <4>2, <4>3
    <3> HIDE DEF x, y
    <3>4. epochLatency' \in Nat
          BY <1>5, <3>1, <3>3
    <3>5. z \in Nat
      <4>1. \A c \in Nat, d \in Nat : c * d \in Nat
            OBVIOUS
      <4> QED BY <1>4, <3>4, <4>1
    <3> HIDE DEF z
    <3>6. (y + z) * m \in Int
          BY <1>5, <3>3, <3>5
    <3> QED BY <1>5, <3>1, <3>4, <3>6
  <2>3. CASE ~ pipelined(instr.op)
    <3> DEFINE x == cost.latency * n
               y == cost.latency * dynamicPower
    <3>1. epochLatency' = epochLatency + x /\ epochEnergy' = epochEnergy + y * m
          BY <1>6, <1>10, <2>3 DEF Charge, LoadOps, cost, n, m
    <3>2. x \in Nat /\ y \in Nat
          BY <1>4, <1>5, <2>1
    <3> HIDE DEF x, y
    <3>3. y * m \in Nat
          BY <1>5, <3>2
    <3> QED BY <1>5, <3>1, <3>2, <3>3
  <2> QED BY <2>2, <2>3
<1> QED BY <1>7, <1>8, <1>9, <1>10

LEMMA ChargeStageTypes ==
    ASSUME TypeOK, ChargeStep \/ ChargeFails \/ ChargeDone
    PROVE  TypeOK'
<1> USE DEF localVars, accountVars, ComputePositions
<1>1. CASE ChargeStep
  <2>1. /\ visited < Len(computeInstructions) /\ Charge(program[Position])
        /\ InTable(program[Position].op) \/ program[Position].op \in LoadOps \cup {"SHIFT", "PROP"}
        BY <1>1 DEF ChargeStep
  <2>2. Position \in 1 .. Len(program) /\ program[Position].op \notin MaskOps
        BY <2>1, PositionType
  <2>3. epochLatency' \in Nat /\ epochEnergy' \in Int
        BY <2>1, <2>2, ChargeTypes
  <2>4. charges' \in [1 .. Len(program) -> Nat]
    <3>1. charges' = [charges EXCEPT ![Position] =
                         IF ChargedHere(program[Position].op) THEN @ + Len(SelectedUnits) ELSE @]
          BY <1>1 DEF ChargeStep
    <3>2. charges \in [1 .. Len(program) -> Nat] /\ Len(SelectedUnits) \in Nat
          BY SelectedType DEF TypeOK
    <3> QED BY <2>2, <3>1, <3>2
  <2>5. /\ UNCHANGED <<program, pc, mask, stage, error, executionSequences, sequence,
                        computeInstructions, accountVars, due>>
        /\ visited' \in Nat
        BY <1>1 DEF ChargeStep, TypeOK
  <2> QED BY <2>3, <2>4, <2>5 DEF TypeOK
<1>2. CASE ChargeFails
      BY <1>2 DEF ChargeFails, Raise, TypeOK
<1>3. CASE ChargeDone
      BY <1>3 DEF ChargeDone, TypeOK
<1> QED BY <1>1, <1>2, <1>3

\* The loop over units and instructions stays within both.
LEMMA LoopPositionType ==
    ASSUME TypeOK, visited < LoopLength
    PROVE  /\ Len(computeInstructions) \in Nat \ {0}
           /\ (visited % Len(computeInstructions)) + 1 \in 1 .. Len(computeInstructions)
           /\ LoopPosition \in 1 .. Len(program) /\ program[LoopPosition].op \notin MaskOps
<1> DEFINE L == Len(computeInstructions)
           m == Len(SelectedUnits)
<1>1. L \in Nat /\ m \in Nat /\ visited \in Nat /\ visited < m * L
      BY SelectedType DEF LoopLength
<1> HIDE DEF L, m
<1>2. L # 0
      BY <1>1
<1>3. visited % L \in 0 .. L - 1
      BY <1>1, <1>2, DivMod
<1>4. (visited % L) + 1 \in 1 .. L
      BY <1>1, <1>3
<1> QED BY <1>1, <1>2, <1>4, Collected DEF L, LoopPosition

LEMMA AddedTo ==
    ASSUME NEW D, NEW f \in [D -> Nat], NEW x, NEW c \in Nat
    PROVE  [f EXCEPT ![x] = @ + c] \in [D -> Nat]
<1>1. CASE x \in D
      BY <1>1
<1>2. CASE x \notin D
  <2>1. [f EXCEPT ![x] = @ + c] = f
        BY <1>2
  <2> QED BY <2>1
<1> QED BY <1>1, <1>2

LEMMA UnitStageTypes ==
    ASSUME TypeOK, UnitStep \/ UnitFails \/ EpochDone
    PROVE  TypeOK'
<1> USE DEF localVars, accountVars, ComputePositions
<1>1. CASE UnitStep
  <2> DEFINE instr == program[LoopPosition]
  <2>1. /\ visited < LoopLength /\ (InTable(instr.op) \/ instr.op \in {"SHIFT", "PROP"})
        /\ IF Skipped(instr.op)
           THEN UNCHANGED <<unitEnergy, localTransfers, globalTransfers, charges>>
           ELSE ExecuteOp(instr, LoopUnit)
        BY <1>1 DEF UnitStep
  <2>2. /\ UNCHANGED <<program, pc, mask, stage, error, executionSequences, sequence,
                        computeInstructions, epochLatency, epochEnergy, latency, energy, due>>
        /\ visited' \in Nat
        BY <1>1 DEF UnitStep, TypeOK
  <2>3. LoopPosition \in 1 .. Len(program) /\ instr.op \notin MaskOps
        BY <1>1, LoopPositionType DEF UnitStep
  <2>4. /\ unitEnergy \in [Units -> Nat] /\ localTransfers \in [Clusters -> Nat]
        /\ globalTransfers \in Nat /\ charges \in [1 .. Len(program) -> Nat]
        BY DEF TypeOK
  <2>5. CASE Skipped(instr.op)
        BY <2>1, <2>2, <2>5 DEF TypeOK
  <2>6. CASE ~ Skipped(instr.op)
    <3>1. instr.op \in DOMAIN opTab /\ ExecuteOp(instr, LoopUnit)
          BY <2>1, <2>6 DEF Skipped, InTable
    <3>2. opTab[instr.op].energyCost * multiplicativeFactor(instr) \in Nat
      <4>1. opTab[instr.op].energyCost \in Nat
            BY <3>1, ChipAssumption
      <4>2. multiplicativeFactor(instr) \in Nat
        <5>1. /\ Readable(instr) /\ Len(instr.args) \in Nat
              /\ \A k \in 1 .. Len(instr.args) : instr.args[k] \in Nat
              BY <2>3, ReadableArguments DEF TypeOK
        <5>2. Len(instr.args) \in 1 .. Len(instr.args)
              BY <2>3, <5>1 DEF Readable
        <5> QED BY <5>1, <5>2 DEF multiplicativeFactor
      <4> QED BY <4>1, <4>2
    <3>3. CASE instr.op \notin BusOps
      <4> DEFINE c == opTab[instr.op].energyCost * multiplicativeFactor(instr)
      <4>1. /\ unitEnergy' = [unitEnergy EXCEPT ![LoopUnit] = @ + c]
            /\ charges' = [charges EXCEPT ![LoopPosition] = @ + 1]
            /\ UNCHANGED <<localTransfers, globalTransfers>>
            BY <3>1, <3>3 DEF ExecuteOp
      <4>0. c \in Nat
            BY <3>2
      <4> HIDE DEF c
      <4>2. unitEnergy' \in [Units -> Nat]
            BY <2>4, <4>0, <4>1, AddedTo
      <4>3. charges' \in [1 .. Len(program) -> Nat]
            BY <2>3, <2>4, <4>1, SMTT(60)
      <4> QED BY <2>2, <4>1, <4>2, <4>3 DEF TypeOK
    <3>4. CASE instr.op \in BusOps
      <4>1. /\ localTransfers' = IF instr.op = "SLLOAD"
                  THEN [localTransfers EXCEPT ![ClusterOf(First(instr))] = @ + 1]
                  ELSE localTransfers
            /\ globalTransfers' = globalTransfers + (IF instr.op = "SGLOAD" THEN 1 ELSE 0)
            /\ UNCHANGED <<unitEnergy, charges>>
            BY <3>1, <3>4 DEF ExecuteOp
      <4>2. localTransfers' \in [Clusters -> Nat]
            BY <2>4, <4>1, AddedTo
      <4>3. globalTransfers' \in Nat
            BY <2>4, <4>1
      <4> QED BY <2>2, <4>1, <4>2, <4>3 DEF TypeOK
    <3> QED BY <3>3, <3>4
  <2> QED BY <2>5, <2>6
<1>2. CASE UnitFails
      BY <1>2 DEF UnitFails, Raise, TypeOK
<1>3. CASE EpochDone
      BY <1>3 DEF EpochDone, Continue, TypeOK
<1> QED BY <1>1, <1>2, <1>3

LEMMA NextTypes == TypeOK /\ [Next]_vars => TypeOK'
<1> SUFFICES ASSUME TypeOK, [Next]_vars PROVE TypeOK'
    OBVIOUS
<1>1. CASE UNCHANGED vars
      BY <1>1 DEF vars, localVars, accountVars, TypeOK, ComputePositions
<1>2. CASE Finished
      BY <1>2 DEF Finished, vars, localVars, accountVars, TypeOK, ComputePositions
<1> QED BY <1>1, <1>2, ConfigTypes, SplitTypes, CollectTypes, ChargeStageTypes,
           UnitStageTypes DEF Next

\* The interpreter of readable programs keeps the types of all variables: the
\* mask never names a unit that does not exist and pc never passes the end.
THEOREM ChipTypes == Spec => []TypeOK
BY InitTypes, NextTypes, PTL DEF Spec

(***************************************************************************)
(* The order of execution                                                  *)
(***************************************************************************)
\* `all' splits m into sequences that use no cluster twice, each but the first
\* begun because its first unit's cluster was busy.
Splits(all, m) ==
    /\ FlattenSeq(all) = m
    /\ \A k \in 1 .. Len(all) : UsesClustersOnce(all[k])
    /\ \A k \in 1 .. Len(all) - 1 : Conflict(all[k], all[k + 1])

LEMMA ToSetSeq ==
    ASSUME NEW S, NEW s \in Seq(S), NEW i \in 1 .. Len(s)
    PROVE  s[i] \in ToSet(s)
BY DEF ToSet

LEMMA NothingSplit == Splits(Append(<<>>, <<>>), <<>>)
<1> DEFINE all == Append(<<>>, <<>>)
<1>1. /\ <<>> \in Seq(Seq(Units)) /\ <<>> \in Seq(Units) /\ Len(all) = 1
      /\ all[1] = <<>> /\ all \in Seq(Seq(Units))
      OBVIOUS
<1>2. FlattenSeq(all) = FlattenSeq(<<>>) \o <<>>
      BY <1>1, FlattenAppend
<1>3. FlattenSeq(<<>>) = <<>>
      BY DEF FlattenSeq
<1>4. FlattenSeq(all) = <<>>
      BY <1>2, <1>3
<1>5. UsesClustersOnce(<<>>)
      BY DEF UsesClustersOnce
<1> HIDE DEF all
<1>6. Splits(all, <<>>)
      BY <1>1, <1>4, <1>5 DEF Splits
<1> QED BY <1>6 DEF all

LEMMA StartsSequence ==
    ASSUME NEW all \in Seq(Seq(Units)), Len(all) # 0, NEW m \in Seq(Units), Splits(all, m),
           NEW u \in Units, NEW i \in 1 .. Len(all[Len(all)]),
           ClusterOf(u) = ClusterOf(all[Len(all)][i])
    PROVE  Splits(Append(all, <<u>>), Append(m, u))
<1> DEFINE n == Len(all)
           next == Append(all, <<u>>)
<1>1. /\ n \in Nat \ {0} /\ Len(next) = n + 1 /\ next[n + 1] = <<u>> /\ <<u>> \in Seq(Units)
      /\ \A k \in 1 .. n : next[k] = all[k]
      BY LenProperties, AppendProperties
<1>2. FlattenSeq(next) = FlattenSeq(all) \o <<u>>
      BY <1>1, FlattenAppend
<1>3. FlattenSeq(next) = Append(m, u)
      BY <1>2, AppendIsConcat DEF Splits
<1>4. UsesClustersOnce(<<u>>)
      BY DEF UsesClustersOnce
<1>5. Conflict(all[n], <<u>>)
  <2>1. all[n] \in Seq(Units)
        BY <1>1, ElementOfSeq
  <2>2. all[n][i] \in ToSet(all[n])
        BY <2>1, ToSetSeq
  <2>3. <<u>> # <<>> /\ <<u>>[1] = u
        OBVIOUS
  <2> QED BY <2>2, <2>3 DEF Conflict
<1> HIDE DEF next, n
<1>6. \A k \in 1 .. n + 1 : UsesClustersOnce(next[k])
  <2> TAKE k \in 1 .. n + 1
  <2>1. CASE k = n + 1
        BY <1>1, <1>4, <2>1
  <2>2. CASE k # n + 1
    <3>1. k \in 1 .. n
          BY <1>1, <2>2
    <3> QED BY <1>1, <3>1 DEF Splits, n
  <2> QED BY <2>1, <2>2
<1>7. \A k \in 1 .. (n + 1) - 1 : Conflict(next[k], next[k + 1])
  <2> TAKE k \in 1 .. (n + 1) - 1
  <2>1. CASE k = n
    <3>1. n \in 1 .. n /\ next[n] = all[n]
          BY <1>1
    <3> QED BY <1>1, <1>5, <2>1, <3>1 DEF n
  <2>2. CASE k # n
    <3>1. k \in 1 .. n - 1 /\ k \in 1 .. n /\ k + 1 \in 1 .. n
          BY <1>1, <2>2
    <3> QED BY <1>1, <3>1 DEF Splits, n
  <2> QED BY <2>1, <2>2
<1> QED BY <1>1, <1>3, <1>6, <1>7 DEF Splits, next

LEMMA ContinuesSequence ==
    ASSUME NEW es \in Seq(Seq(Units)), NEW s \in Seq(Units), NEW m \in Seq(Units),
           Splits(Append(es, s), m), NEW u \in Units,
           \A i \in 1 .. Len(s) : ClusterOf(u) # ClusterOf(s[i])
    PROVE  Splits(Append(es, Append(s, u)), Append(m, u))
<1> DEFINE n == Len(es)
           t == Append(s, u)
           all == Append(es, s)
           next == Append(es, t)
<1>1. /\ n \in Nat /\ Len(s) \in Nat /\ t \in Seq(Units) /\ Len(t) = Len(s) + 1
      /\ t[Len(s) + 1] = u /\ \A i \in 1 .. Len(s) : t[i] = s[i]
      BY LenProperties, AppendProperties
<1>2. /\ Len(all) = n + 1 /\ Len(next) = n + 1 /\ all[n + 1] = s /\ next[n + 1] = t
      /\ \A k \in 1 .. n : all[k] = es[k] /\ next[k] = es[k]
      BY <1>1, AppendProperties
<1>3. FlattenSeq(next) = Append(m, u)
  <2> DEFINE F == FlattenSeq(es)
  <2>1. F \in Seq(Units) /\ FlattenSeq(next) = F \o t /\ m = F \o s
        BY <1>1, FlattenAppend DEF Splits
  <2> HIDE DEF F
  <2>2. F \o Append(s, u) = Append(F \o s, u)
    <3>1. <<u>> \in Seq(Units) /\ Append(s, u) = s \o <<u>>
          BY AppendIsConcat
    <3>2. F \o s \in Seq(Units) /\ Append(F \o s, u) = (F \o s) \o <<u>>
          BY <2>1, ConcatProperties, AppendIsConcat
    <3>3. F \o (s \o <<u>>) = (F \o s) \o <<u>>
          BY <2>1, <3>1, ConcatAssociative
    <3> QED BY <3>1, <3>2, <3>3
  <2> QED BY <2>1, <2>2
<1>4. UsesClustersOnce(t)
  <2> SUFFICES ASSUME NEW i \in 1 .. Len(t), NEW j \in 1 .. Len(t), i # j
               PROVE  ClusterOf(t[i]) # ClusterOf(t[j])
      BY DEF UsesClustersOnce
  <2>1. UsesClustersOnce(s)
    <3>1. n + 1 \in 1 .. Len(all)
          BY <1>1, <1>2
    <3> QED BY <1>2, <3>1 DEF Splits
  <2>2. CASE i \in 1 .. Len(s) /\ j \in 1 .. Len(s)
        BY <1>1, <2>1, <2>2 DEF UsesClustersOnce
  <2>3. CASE i = Len(s) + 1 /\ j \in 1 .. Len(s)
        BY <1>1, <2>3
  <2>4. CASE j = Len(s) + 1 /\ i \in 1 .. Len(s)
        BY <1>1, <2>4
  <2>5. \/ i \in 1 .. Len(s) /\ j \in 1 .. Len(s)
        \/ i = Len(s) + 1 /\ j \in 1 .. Len(s)
        \/ j = Len(s) + 1 /\ i \in 1 .. Len(s)
        BY <1>1
  <2> QED BY <2>2, <2>3, <2>4, <2>5
<1> HIDE DEF next, all, t, n
<1>5. \A k \in 1 .. n + 1 : UsesClustersOnce(next[k])
  <2> TAKE k \in 1 .. n + 1
  <2>1. CASE k = n + 1
        BY <1>2, <1>4, <2>1
  <2>2. CASE k # n + 1
    <3>1. k \in 1 .. n
          BY <1>1, <2>2
    <3>2. UsesClustersOnce(all[k])
          BY <1>2 DEF Splits, all
    <3> QED BY <1>2, <3>1, <3>2
  <2> QED BY <2>1, <2>2
<1>6. \A k \in 1 .. (n + 1) - 1 : Conflict(next[k], next[k + 1])
  <2> SUFFICES ASSUME NEW k \in 1 .. (n + 1) - 1
               PROVE  Conflict(next[k], next[k + 1])
      OBVIOUS
  <2>1. k \in 1 .. n /\ k + 1 \in 1 .. n + 1
        BY <1>1
  <2>2. Conflict(all[k], all[k + 1]) /\ next[k] = all[k]
        BY <1>2, <2>1 DEF Splits, all
  <2>3. CASE k + 1 = n + 1
    <3>1. s # <<>> /\ all[k + 1] = s /\ next[k + 1] = t
          BY <1>2, <2>2, <2>3 DEF Conflict
    <3>2. Len(s) # 0
          BY <3>1, EmptySeq
    <3>3. 1 \in 1 .. Len(s) /\ 1 \in 1 .. Len(t)
          BY <1>1, <3>2
    <3>4. t[1] = s[1] /\ t # <<>>
          BY <1>1, <3>3, EmptySeq
    <3> QED BY <2>2, <3>1, <3>4 DEF Conflict
  <2>4. CASE k + 1 # n + 1
    <3>1. k + 1 \in 1 .. n
          BY <1>1, <2>1, <2>4
    <3> QED BY <1>2, <2>2, <3>1
  <2> QED BY <2>3, <2>4
<1> QED BY <1>2, <1>3, <1>5, <1>6 DEF Splits, next, t

LEMMA SplitInit == Init => SplitInv
BY DEF Init, SplitInv, InEpoch

\* SplitInv, stage by stage.
LEMMA SplitInvStages ==
    ASSUME TypeOK
    PROVE  SplitInv <=>
               /\ stage = "split" =>
                      /\ visited <= Len(mask)
                      /\ Splits(Append(executionSequences, sequence),
                                SubSeq(mask, 1, visited))
               /\ stage \in {"collect", "charge", "units"} =>
                      Splits(executionSequences, mask)
<1>1. SubSeq(mask, 1, Len(mask)) = mask
      BY SubSeqFull DEF TypeOK
<1>2. CASE stage = "split"
      BY <1>2 DEF SplitInv, InEpoch, AllSequences, Splits
<1>3. CASE stage \in {"collect", "charge", "units"}
      BY <1>1, <1>3 DEF SplitInv, InEpoch, AllSequences, Splits
<1>4. CASE ~InEpoch
      BY <1>4 DEF SplitInv, InEpoch
<1> QED BY <1>2, <1>3, <1>4 DEF InEpoch

LEMMA SplitPreserved == TypeOK /\ TypeOK' /\ SplitInv /\ [Next]_vars => SplitInv'
<1> SUFFICES ASSUME TypeOK, TypeOK', SplitInv, [Next]_vars PROVE SplitInv'
    OBVIOUS
<1>1. /\ mask \in Seq(Units) /\ executionSequences \in Seq(Seq(Units))
      /\ sequence \in Seq(Units) /\ visited \in Nat /\ Len(mask) \in Nat
      BY LenProperties DEF TypeOK
<1>a. SplitInv' <=>
          /\ stage' = "split" =>
                 /\ visited' <= Len(mask')
                 /\ Splits(Append(executionSequences', sequence'),
                           SubSeq(mask', 1, visited'))
          /\ stage' \in {"collect", "charge", "units"} =>
                 Splits(executionSequences', mask')
  <2>1. SubSeq(mask', 1, Len(mask')) = mask'
        BY SubSeqFull DEF TypeOK
  <2>2. CASE stage' = "split"
        BY <2>2 DEF SplitInv, InEpoch, AllSequences, Splits, UsesClustersOnce, Conflict, ClusterOf
  <2>3. CASE stage' \in {"collect", "charge", "units"}
        BY <2>1, <2>3 DEF SplitInv, InEpoch, AllSequences, Splits, UsesClustersOnce, Conflict, ClusterOf
  <2>4. CASE ~InEpoch'
        BY <2>4 DEF SplitInv, InEpoch
  <2> QED BY <2>2, <2>3, <2>4 DEF InEpoch
<1>2. CASE ConfigDone
  <2>1. SubSeq(mask, 1, 0) = <<>>
        BY SubSeqEmpty
  <2>2. /\ stage' = "split" /\ visited' = 0 /\ mask' = mask
        /\ executionSequences' = <<>> /\ sequence' = <<>>
        BY <1>2 DEF ConfigDone
  <2>3. Splits(Append(executionSequences', sequence'), SubSeq(mask', 1, visited'))
        BY ONLY <2>1, <2>2, NothingSplit, Zenon
  <2>4. stage' = "split" /\ visited' <= Len(mask')
        BY <1>1, <2>2
  <2>5. stage' \notin {"collect", "charge", "units"}
        BY <2>2
  <2> QED BY ONLY <1>a, <2>3, <2>4, <2>5
<1>3. CASE SplitStep
  <2> DEFINE u == mask[visited + 1]
             m == SubSeq(mask, 1, visited)
             all == Append(executionSequences, sequence)
  <2>1. /\ stage = "split" /\ stage' = "split" /\ mask' = mask /\ visited' = visited + 1
        /\ visited < Len(mask)
        BY <1>3 DEF SplitStep, Running
  <2>2. visited' \in 1 .. Len(mask) /\ u \in Units
    <3>1. visited + 1 \in 1 .. Len(mask)
          BY <1>1, <2>1
    <3> QED BY <1>1, <2>1, <3>1, ElementOfSeq
  <2>3. Splits(all, m)
        BY <2>1, SplitInvStages
  <2>4. m \in Seq(Units) /\ SubSeq(mask', 1, visited') = Append(m, u)
    <3>1. \A i \in 1 .. visited : mask[i] \in Units
          BY <1>1, <2>1, ElementOfSeq
    <3>2. m \in Seq(Units)
          BY <1>1, <3>1, SubSeqProperties
    <3>3. SubSeq(mask, 1, visited + 1) = m \o <<mask[visited + 1]>>
      <4>1. 1 \in 1 .. Len(mask) /\ visited + 1 \in 1 .. Len(mask) /\ (visited + 1) - 1 = visited
            BY <1>1, <2>1
      <4> QED BY <1>1, <4>1, SubSeqRecursiveSecond
    <3> QED BY <2>1, <2>2, <3>2, <3>3, AppendIsConcat
  <2>5. /\ all \in Seq(Seq(Units)) /\ Len(all) # 0 /\ all[Len(all)] = sequence
        BY <1>1, AppendProperties, LenProperties
  <2> HIDE DEF m
  <2>6. CASE Overlaps(u)
    <3>1. executionSequences' = all /\ sequence' = <<u>>
          BY <1>3, <2>6 DEF SplitStep
    <3>2. PICK i \in 1 .. Len(sequence) : ClusterOf(u) = ClusterOf(sequence[i])
          BY <2>6 DEF Overlaps, overlapList
    <3> HIDE DEF all, u
    <3>3. Splits(Append(all, <<u>>), Append(m, u))
          BY <2>2, <2>3, <2>4, <2>5, <3>2, StartsSequence
    <3>4. Splits(Append(executionSequences', sequence'), SubSeq(mask', 1, visited'))
          BY ONLY <2>4, <3>1, <3>3, Zenon
    <3>5. stage' = "split" /\ visited' <= Len(mask')
          BY <2>1, <2>2
    <3>6. stage' \notin {"collect", "charge", "units"}
          BY <2>1
    <3> QED BY ONLY <1>a, <3>4, <3>5, <3>6
  <2>7. CASE ~Overlaps(u)
    <3>1. executionSequences' = executionSequences /\ sequence' = Append(sequence, u)
          BY <1>3, <2>7 DEF SplitStep
    <3>2. \A i \in 1 .. Len(sequence) : ClusterOf(u) # ClusterOf(sequence[i])
          BY <2>7 DEF Overlaps, overlapList
    <3> HIDE DEF u
    <3>3. Splits(Append(executionSequences, Append(sequence, u)), Append(m, u))
          BY <1>1, <2>2, <2>3, <2>4, <3>2, ContinuesSequence
    <3>4. Splits(Append(executionSequences', sequence'), SubSeq(mask', 1, visited'))
          BY ONLY <2>4, <3>1, <3>3, Zenon
    <3>5. stage' = "split" /\ visited' <= Len(mask')
          BY <2>1, <2>2
    <3>6. stage' \notin {"collect", "charge", "units"}
          BY <2>1
    <3> QED BY ONLY <1>a, <3>4, <3>5, <3>6
  <2> QED BY <2>6, <2>7
<1>4. CASE SplitDone
  <2>1. /\ stage = "split" /\ stage' = "collect" /\ visited = Len(mask) /\ mask' = mask
        /\ executionSequences' = Append(executionSequences, sequence)
        BY <1>4 DEF SplitDone, Running
  <2>2. SubSeq(mask, 1, Len(mask)) = mask
        BY <1>1, SubSeqFull
  <2> QED BY <1>a, <2>1, <2>2, SplitInvStages
<1>5. CASE \/ CollectStep \/ CollectDone \/ ChargeStep \/ ChargeDone \/ UnitStep
  <2>1. /\ stage \in {"collect", "charge", "units"} /\ stage' \in {"collect", "charge", "units"}
        /\ mask' = mask /\ executionSequences' = executionSequences
        BY <1>5 DEF CollectStep, CollectDone, ChargeStep, ChargeDone, UnitStep, Running
  <2> QED BY <1>a, <2>1, SplitInvStages
<1>6. CASE ConfigStep
      BY <1>6 DEF ConfigStep, Running, SplitInv, InEpoch
<1>7. CASE EpochDone
      BY <1>7 DEF EpochDone, Continue, SplitInv, InEpoch
<1>8. CASE ConfigFails \/ CollectFails \/ ChargeFails \/ UnitFails \/ Finished \/ UNCHANGED vars
  <2>1. UNCHANGED <<stage, mask, executionSequences, sequence, visited>>
        BY <1>8 DEF ConfigFails, CollectFails, ChargeFails, UnitFails, Finished, Raise, vars,
                    localVars
  <2> QED BY <1>a, <2>1, SplitInvStages
<1> QED BY <1>2, <1>3, <1>4, <1>5, <1>6, <1>7, <1>8 DEF Next

LEMMA SplitMeans == TypeOK /\ SplitInv => SequencesSplitTheMask /\ SequencesAreMaximal
<1> SUFFICES ASSUME TypeOK, SplitInv, stage \in {"collect", "charge", "units"}
             PROVE  SequencesSplitTheMask /\ SequencesAreMaximal
    BY DEF SequencesSplitTheMask, SequencesAreMaximal
<1>1. Splits(executionSequences, mask)
      BY SplitInvStages
<1>2. SequencesSplitTheMask
      BY <1>1 DEF SequencesSplitTheMask, Splits, SelectedUnits, NumSequences, UsesClustersOnce
<1>3. SequencesAreMaximal
      BY <1>1 DEF SequencesAreMaximal, Splits, NumSequences, Conflict
<1> QED BY <1>2, <1>3

LEMMA ChipSplit == Spec => [](TypeOK /\ SplitInv)
<1>1. TypeOK /\ SplitInv /\ [Next]_vars => TypeOK' /\ SplitInv'
      BY NextTypes, SplitPreserved
<1> QED BY <1>1, InitTypes, SplitInit, PTL DEF Spec

\* executeEpoch's sequences are the mask cut up, in order, and none of them
\* uses a cluster twice: nothing that shares a cluster runs at the same time.
THEOREM MaskIsSplit == Spec => []SequencesSplitTheMask
BY ChipSplit, SplitMeans, PTL

\* It never cuts without need, so that the latency is the smallest the order of
\* the mask allows.
THEOREM SplitIsMaximal == Spec => []SequencesAreMaximal
BY ChipSplit, SplitMeans, PTL

(***************************************************************************)
(* The accounts                                                            *)
(***************************************************************************)
LEMMA CollectPreserved ==
    TypeOK /\ SplitInv /\ CollectInv /\ [Next]_vars => CollectInv'
<1> SUFFICES ASSUME TypeOK, SplitInv, CollectInv, [Next]_vars PROVE CollectInv'
    OBVIOUS
<1> DEFINE e == Len(computeInstructions)
<1>1. /\ computeInstructions \in Seq(ComputePositions) /\ e \in Nat /\ pc \in Nat
      /\ visited \in Nat /\ Len(mask) \in Nat
  <2>1. computeInstructions \in Seq(ComputePositions)
        BY DEF TypeOK
  <2>2. Len(computeInstructions) \in Nat
        BY <2>1, LenProperties
  <2>3. Len(program) \in Nat /\ pc \in 0 .. Len(program) /\ visited \in Nat /\ mask \in Seq(Units)
        BY ProgramLength DEF TypeOK
  <2>4. Len(mask) \in Nat
        BY <2>3, LenProperties
  <2> QED BY <2>1, <2>2, <2>3, <2>4
<1>2. CASE SplitDone
  <2>1. stage' = "collect" /\ computeInstructions' = <<>> /\ pc' = pc
        BY <1>2 DEF SplitDone
  <2>2. Len(computeInstructions') = 0
        BY <2>1
  <2> QED BY <1>1, <2>1, <2>2 DEF CollectInv, EpochSize
<1>3. CASE CollectStep
  <2>1. /\ stage = "collect" /\ stage' = "collect" /\ pc' = pc + 1
        /\ computeInstructions' = Append(computeInstructions, pc + 1)
        BY <1>3 DEF CollectStep, Running
  <2>2. /\ Len(computeInstructions') = e + 1 /\ computeInstructions'[e + 1] = pc + 1
        /\ \A j \in 1 .. e : computeInstructions'[j] = computeInstructions[j]
        BY <1>1, <2>1 DEF AppendProperties
  <2>3. e <= pc /\ \A j \in 1 .. e : computeInstructions[j] = (pc - e) + j
        BY <2>1 DEF CollectInv, EpochSize
  <2> HIDE DEF e
  <2>4. ASSUME NEW j \in 1 .. e + 1
        PROVE  computeInstructions'[j] = ((pc + 1) - (e + 1)) + j
    <3>1. CASE j = e + 1
          BY <1>1, <2>2, <3>1
    <3>2. CASE j # e + 1
      <4>1. j \in 1 .. e
            BY <1>1, <3>2
      <4> QED BY <1>1, <2>2, <2>3, <4>1
    <3> QED BY <3>1, <3>2
  <2>5. EpochSize' = e + 1 /\ EpochSize' <= pc'
        BY <1>1, <2>1, <2>2, <2>3 DEF EpochSize
  <2>6. \A j \in 1 .. EpochSize' : computeInstructions'[j] = pc' - EpochSize' + j
        BY <2>1, <2>4, <2>5
  <2> QED BY <2>1, <2>5, <2>6 DEF CollectInv
<1>4. CASE \/ CollectDone \/ ChargeDone
  <2>1. /\ stage \in {"collect", "charge"} /\ stage' \in {"charge", "units"} /\ pc' = pc
        /\ computeInstructions' = computeInstructions /\ visited' = 0 /\ mask' = mask
        BY <1>4 DEF CollectDone, ChargeDone, Running
  <2>2. 0 <= Len(mask) * e
        BY <1>1
  <2> QED BY <1>1, <2>1, <2>2 DEF CollectInv, EpochSize
<1>5. CASE ChargeStep
  <2>1. /\ stage = "charge" /\ stage' = "charge" /\ pc' = pc /\ visited < e
        /\ computeInstructions' = computeInstructions /\ visited' = visited + 1
        BY <1>5 DEF ChargeStep, Running
  <2> QED BY <1>1, <2>1 DEF CollectInv, EpochSize
<1>6. CASE UnitStep
  <2>1. /\ stage = "units" /\ stage' = "units" /\ pc' = pc /\ visited < LoopLength
        /\ computeInstructions' = computeInstructions /\ visited' = visited + 1
        /\ mask' = mask
        BY <1>6 DEF UnitStep, Running
  <2>2. SelectedUnits = mask
        BY <2>1, SplitMeans DEF SequencesSplitTheMask
  <2>3. visited < Len(mask) * e /\ Len(mask) * e \in Nat
        BY <1>1, <2>1, <2>2 DEF LoopLength
  <2> HIDE DEF e
  <2>4. visited + 1 <= Len(mask) * e
    <3> DEFINE n == Len(mask) * e
    <3>1. visited < n /\ n \in Nat
          BY <2>3
    <3> HIDE DEF n
    <3>2. visited + 1 <= n
          BY <1>1, <3>1
    <3> QED BY <3>2 DEF n
  <2>5. e <= pc /\ \A j \in 1 .. e : computeInstructions[j] = pc - e + j
        BY <2>1 DEF CollectInv, EpochSize, e
  <2> QED BY <2>1, <2>4, <2>5 DEF CollectInv, EpochSize, e
<1>7. CASE ConfigStep \/ ConfigDone \/ SplitStep \/ EpochDone
      BY <1>7 DEF ConfigStep, ConfigDone, SplitStep, EpochDone, Running, Continue, CollectInv
<1>8. CASE ConfigFails \/ CollectFails \/ ChargeFails \/ UnitFails \/ Finished \/ UNCHANGED vars
  <2>1. UNCHANGED <<stage, mask, pc, computeInstructions, visited>>
        BY <1>8 DEF ConfigFails, CollectFails, ChargeFails, UnitFails, Finished, Raise, vars,
                    localVars
  <2> QED BY <2>1 DEF CollectInv, EpochSize
<1> QED BY <1>2, <1>3, <1>4, <1>5, <1>6, <1>7, <1>8 DEF Next

\* How often x visits in turn to d instructions come to instruction j: after
\* no visit, one more visit, and all visits.
TurnsOf(x, d, j) == (x \div d) + (IF j - 1 < x % d THEN 1 ELSE 0)

LEMMA Turns ==
    ASSUME NEW n \in Nat, NEW v \in Nat, NEW d \in Nat \ {0}, NEW j \in 1 .. d
    PROVE  /\ TurnsOf(v, d, j) \in Nat
           /\ TurnsOf(0, d, j) = 0
           /\ TurnsOf(n * d, d, j) = n
           /\ TurnsOf(v + 1, d, j) = TurnsOf(v, d, j) + (IF j = (v % d) + 1 THEN 1 ELSE 0)
<1> DEFINE turns(x) == (x \div d) + (IF j - 1 < x % d THEN 1 ELSE 0)
<1>1. v \div d \in Nat /\ v % d \in 0 .. d - 1
      BY DivMod
<1>2. ((d * 0) + 0) \div d = 0 /\ ((d * 0) + 0) % d = 0
  <2>1. 0 \in Nat /\ 0 \in 0 .. d - 1
        OBVIOUS
  <2> QED BY <2>1, DivModUnique
<1>3. ((d * n) + 0) \div d = n /\ ((d * n) + 0) % d = 0
  <2>1. 0 \in 0 .. d - 1
        OBVIOUS
  <2> QED BY <2>1, DivModUnique
<1>4. (d * 0) + 0 = 0 /\ (d * n) + 0 = n * d
      OBVIOUS
<1>5. turns(v) \in Nat
      BY <1>1
<1>6. turns(0) = 0
      BY <1>2, <1>4
<1>7. turns(n * d) = n
  <2>1. (n * d) \div d = n /\ (n * d) % d = 0
        BY <1>3, <1>4
  <2> QED BY <2>1
<1>8. turns(v + 1) = turns(v) + (IF j = (v % d) + 1 THEN 1 ELSE 0)
  <2> DEFINE q == v \div d
             r == v % d
             q1 == (v + 1) \div d
             r1 == (v + 1) % d
  <2>1. \/ r < d - 1 /\ r1 = r + 1 /\ q1 = q
        \/ r = d - 1 /\ r1 = 0 /\ q1 = q + 1
        BY NextTurn
  <2>2. q \in Nat /\ r \in 0 .. d - 1
        BY <1>1
  <2>3. turns(v + 1) = q1 + (IF j - 1 < r1 THEN 1 ELSE 0)
        OBVIOUS
  <2>4. turns(v) = q + (IF j - 1 < r THEN 1 ELSE 0)
        OBVIOUS
  <2> HIDE DEF turns, q, r, q1, r1
  <2>5. turns(v + 1) = turns(v) + (IF j = r + 1 THEN 1 ELSE 0)
        BY <2>1, <2>2, <2>3, <2>4
  <2> QED BY <2>5 DEF r
<1> HIDE DEF turns
<1>9. /\ turns(v) \in Nat
      /\ turns(0) = 0
      /\ turns(n * d) = n
      /\ turns(v + 1) = turns(v) + (IF j = (v % d) + 1 THEN 1 ELSE 0)
      BY <1>5, <1>6, <1>7, <1>8
<1> QED BY <1>9 DEF turns, TurnsOf

\* What the latency pass takes for pipelined is what the unit loop skips: both
\* warm-up costs of an operation are zero or neither is.
WarmupsGoTogether ==
    \A op \in DOMAIN opTab : opTab[op].warmupEnergy # 0 <=> opTab[op].warmupLatency # 0

LEMMA ChargedOrSkipped ==
    ASSUME WarmupsGoTogether, NEW i, Computes(i), InTable(program[i].op)
    PROVE  Skipped(program[i].op) <=> ChargedHere(program[i].op)
BY DEF WarmupsGoTogether, Computes, InTable, Skipped, ChargedHere, pipelined, BusOps

\* The account of one instruction.
Balance(i) ==
    IF /\ stage \in {"collect", "charge", "units"}
       /\ i \in pc - EpochSize + 1 .. pc
    THEN charges[i] + StillDue(i - (pc - EpochSize)) = due[i]
    ELSE charges[i] = due[i]

LEMMA AccountTypes ==
    ASSUME TypeOK, NEW i \in 1 .. Len(program)
    PROVE  /\ pc \in Nat /\ EpochSize \in Nat /\ visited \in Nat /\ Len(mask) \in Nat
           /\ charges[i] \in Nat /\ due[i] \in Nat /\ i \in Nat /\ Len(program) \in Nat
<1>1. Len(program) \in Nat /\ pc \in Nat
      BY ProgramLength
<1>2. /\ computeInstructions \in Seq(ComputePositions) /\ mask \in Seq(Units) /\ visited \in Nat
      /\ charges \in [1 .. Len(program) -> Nat] /\ due \in [1 .. Len(program) -> Nat]
      BY DEF TypeOK
<1>3. Len(computeInstructions) \in Nat /\ Len(mask) \in Nat
      BY <1>2, LenProperties
<1> QED BY <1>1, <1>2, <1>3, SMTT(60) DEF EpochSize

\* The stages before and after an epoch, and the collection.
LEMMA CollectBalance ==
    ASSUME TypeOK, AccountInv, error' = "none", NEW i \in 1 .. Len(program), Computes(i),
           ConfigStep \/ ConfigDone \/ SplitStep \/ SplitDone \/ CollectStep \/ CollectDone
    PROVE  Balance(i)'
<1>0. error = "none"
      BY DEF ConfigStep, ConfigDone, SplitStep, SplitDone, CollectStep, CollectDone
<1>1. Balance(i)
      BY <1>0 DEF AccountInv, Balance
<1>2. /\ pc \in Nat /\ EpochSize \in Nat /\ visited \in Nat /\ Len(mask) \in Nat
      /\ charges[i] \in Nat /\ due[i] \in Nat /\ i \in Nat
      BY AccountTypes
<1>3. CASE ConfigStep \/ ConfigDone \/ SplitStep
      BY <1>1, <1>3 DEF ConfigStep, ConfigDone, SplitStep, Running, Balance
<1>4. CASE SplitDone
  <2>1. /\ stage = "split" /\ stage' = "collect" /\ pc' = pc /\ computeInstructions' = <<>>
        /\ UNCHANGED <<charges, due>>
        BY <1>4 DEF SplitDone, Running
  <2>2. EpochSize' = 0
        BY <2>1 DEF EpochSize
  <2>3. i \notin pc' - EpochSize' + 1 .. pc'
        BY <1>2, <2>1, <2>2
  <2> QED BY <1>1, <2>1, <2>3 DEF Balance
<1>5. CASE CollectStep
  <2>1. /\ stage = "collect" /\ stage' = "collect" /\ pc' = pc + 1 /\ UNCHANGED <<charges, mask>>
        /\ computeInstructions' = Append(computeInstructions, pc + 1)
        /\ due' = [due EXCEPT ![pc + 1] = @ + Len(mask)]
        BY <1>5 DEF CollectStep, Running
  <2>2. EpochSize' = EpochSize + 1
    <3>1. computeInstructions \in Seq(ComputePositions)
          BY DEF TypeOK
    <3> QED BY <2>1, <3>1 DEF EpochSize
  <2>3. StillDue(i - (pc - EpochSize)) = Len(mask) /\ StillDue(i - (pc - EpochSize))' = Len(mask)
        BY <2>1 DEF StillDue
  <2>4. due \in [1 .. Len(program) -> Nat]
        BY DEF TypeOK
  <2>5. pc' - EpochSize' = pc - EpochSize
        BY <1>2, <2>1, <2>2
  <2>6. CASE i = pc + 1
    <3>1. due'[i] = due[i] + Len(mask)
          BY <2>1, <2>4, <2>6
    <3>2. i \notin pc - EpochSize + 1 .. pc /\ i \in pc' - EpochSize' + 1 .. pc'
          BY <1>2, <2>1, <2>5, <2>6
    <3>3. charges[i] = due[i]
          BY <1>1, <3>2 DEF Balance
    <3> QED BY <1>2, <2>1, <2>3, <3>1, <3>2, <3>3 DEF Balance
  <2>7. CASE i # pc + 1
    <3>1. due'[i] = due[i]
          BY <2>1, <2>4, <2>7
    <3>2. i \in pc' - EpochSize' + 1 .. pc' <=> i \in pc - EpochSize + 1 .. pc
          BY <1>2, <2>1, <2>5, <2>7
    <3> QED BY <1>1, <2>1, <2>3, <3>1, <3>2 DEF Balance
  <2> QED BY <2>6, <2>7
<1>6. CASE CollectDone
  <2>1. /\ stage = "collect" /\ stage' = "charge" /\ visited' = 0
        /\ UNCHANGED <<charges, due, mask, pc, computeInstructions>>
        BY <1>6 DEF CollectDone, Running
  <2>2. EpochSize' = EpochSize
        BY <2>1 DEF EpochSize
  <2>3. CASE i \in pc - EpochSize + 1 .. pc
    <3>1. ~(i - (pc - EpochSize) <= 0)
          BY <1>2, <2>3
    <3>2. StillDue(i - (pc - EpochSize)) = Len(mask) /\ StillDue(i - (pc - EpochSize))' = Len(mask)
          BY <2>1, <2>2, <3>1 DEF StillDue
    <3> QED BY <1>1, <2>1, <2>2, <3>2 DEF Balance
  <2>4. CASE i \notin pc - EpochSize + 1 .. pc
        BY <1>1, <2>1, <2>2, <2>4 DEF Balance
  <2> QED BY <2>3, <2>4
<1> QED BY <1>3, <1>4, <1>5, <1>6

\* The instruction at position i is the one the epoch holds at i - (pc - EpochSize).
LEMMA EpochPosition ==
    ASSUME TypeOK, CollectInv, stage \in {"collect", "charge", "units"},
           NEW i \in pc - EpochSize + 1 .. pc
    PROVE  /\ i - (pc - EpochSize) \in 1 .. EpochSize
           /\ computeInstructions[i - (pc - EpochSize)] = i
<1>1. pc \in Nat /\ EpochSize \in Nat
  <2>1. computeInstructions \in Seq(ComputePositions)
        BY DEF TypeOK
  <2> QED BY <2>1, ProgramLength, LenProperties DEF EpochSize
<1>2. i - (pc - EpochSize) \in 1 .. EpochSize
      BY <1>1
<1>3. computeInstructions[i - (pc - EpochSize)] = (pc - EpochSize) + (i - (pc - EpochSize))
      BY <1>2 DEF CollectInv
<1> QED BY <1>1, <1>2, <1>3

LEMMA ChargeBalance ==
    ASSUME TypeOK, SplitInv, CollectInv, AccountInv, error' = "none",
           NEW i \in 1 .. Len(program), Computes(i), ChargeStep \/ ChargeDone
    PROVE  Balance(i)'
<1> DEFINE b == pc - EpochSize
           here == ChargedHere(program[i].op)
<1>0. error = "none" /\ stage = "charge"
      BY DEF ChargeStep, ChargeDone, Running
<1>1. Balance(i)
      BY <1>0 DEF AccountInv, Balance
<1>2. /\ pc \in Nat /\ EpochSize \in Nat /\ visited \in Nat /\ Len(mask) \in Nat
      /\ charges[i] \in Nat /\ due[i] \in Nat /\ i \in Nat
      BY AccountTypes
<1>3. UNCHANGED <<pc, computeInstructions, EpochSize, mask, due, program>>
      BY DEF ChargeStep, ChargeDone, EpochSize
<1>4. ASSUME i \in b + 1 .. pc
      PROVE  /\ i - b \in 1 .. EpochSize /\ computeInstructions[i - b] = i
             /\ StillDue(i - b) = IF here /\ i - b <= visited THEN 0 ELSE Len(mask)
             /\ charges[i] + StillDue(i - b) = due[i]
  <2>1. i - b \in 1 .. EpochSize /\ computeInstructions[i - b] = i
        BY <1>0, <1>4, EpochPosition
  <2> QED BY <1>0, <1>1, <1>4, <2>1 DEF StillDue, Balance
<1>5. CASE ChargeStep
  <2>1. /\ visited < Len(computeInstructions) /\ visited' = visited + 1 /\ stage' = "charge"
        /\ charges' = [charges EXCEPT ![Position] =
                 IF ChargedHere(program[Position].op) THEN @ + Len(SelectedUnits) ELSE @]
        BY <1>5, <1>0 DEF ChargeStep
  <2>2. /\ visited + 1 \in 1 .. EpochSize /\ Position = b + (visited + 1)
    <3>1. visited + 1 \in 1 .. EpochSize
          BY <1>2, <2>1 DEF EpochSize
    <3> QED BY <1>0, <3>1 DEF CollectInv, Position
  <2>3. charges \in [1 .. Len(program) -> Nat]
        BY DEF TypeOK
  <2>4. SelectedUnits = mask
        BY <1>0, SplitMeans DEF SequencesSplitTheMask
  <2>5. CASE i = Position
    <3>1. i \in b + 1 .. pc /\ i - b = visited + 1
          BY <1>2, <2>2, <2>5
    <3>2. charges'[i] = IF here THEN charges[i] + Len(mask) ELSE charges[i]
          BY <2>1, <2>3, <2>4, <2>5
    <3>3. StillDue(i - b) = Len(mask)
          BY <1>2, <1>4, <3>1
    <3>4. (StillDue(i - b))' = IF here THEN 0 ELSE Len(mask)
      <4>1. (i - b)' = i - b
            BY <1>3
      <4>2. (StillDue(i - b))' = IF here /\ i - b <= visited + 1 THEN 0 ELSE Len(mask)
            BY <1>3, <1>4, <2>1, <3>1, <4>1 DEF StillDue, ChargedHere, pipelined
      <4> QED BY <1>2, <3>1, <4>2
    <3>5. charges'[i] + (StillDue(i - b))' = due[i]
          BY <1>2, <1>4, <3>1, <3>2, <3>3, <3>4
    <3> QED BY <1>3, <2>1, <3>1, <3>5 DEF Balance
  <2>6. CASE i # Position
    <3>1. charges'[i] = charges[i]
          BY <2>1, <2>3, <2>6
    <3>2. CASE i \in b + 1 .. pc
      <4>1. (i - b)' = i - b /\ i - b # visited + 1
            BY <1>2, <1>3, <2>2, <2>6, <3>2
      <4>2. i - b <= visited + 1 <=> i - b <= visited
            BY <1>2, <4>1
      <4>3. (StillDue(i - b))' = StillDue(i - b)
        <5>1. (StillDue(i - b))' = IF here /\ i - b <= visited + 1 THEN 0 ELSE Len(mask)
              BY <1>3, <1>4, <2>1, <3>2, <4>1 DEF StillDue, ChargedHere, pipelined
        <5> QED BY <1>4, <3>2, <4>2, <5>1
      <4>4. charges'[i] + (StillDue(i - b))' = due[i]
            BY <1>4, <3>1, <3>2, <4>3
      <4> QED BY <1>3, <2>1, <3>2, <4>4 DEF Balance
    <3>3. CASE i \notin b + 1 .. pc
          BY <1>0, <1>1, <1>3, <3>1, <3>3 DEF Balance
    <3> QED BY <3>2, <3>3
  <2> QED BY <2>5, <2>6
<1>6. CASE ChargeDone
  <2>1. visited = EpochSize /\ visited' = 0 /\ stage' = "units" /\ charges' = charges
        BY <1>6 DEF ChargeDone, EpochSize
  <2>2. CASE i \in b + 1 .. pc
    <3>1. (i - b)' = i - b /\ i - b <= visited /\ EpochSize # 0
          BY <1>2, <1>3, <1>4, <2>1, <2>2
    <3>2. (LoopTurns(i - b))' = 0
      <4>1. (LoopTurns(i - b))' = TurnsOf(0, EpochSize, i - b)
            BY <1>3, <2>1 DEF LoopTurns, TurnsOf
      <4> QED BY <1>2, <1>4, <2>2, <3>1, <4>1, Turns
    <3>3. (StillDue(i - b))' = IF here THEN 0 ELSE Len(mask) - 0
          BY <1>3, <1>4, <2>1, <2>2, <3>1, <3>2 DEF StillDue, ChargedHere, pipelined
    <3>4. (StillDue(i - b))' = StillDue(i - b)
          BY <1>2, <1>4, <2>2, <3>1, <3>3
    <3> QED BY <1>3, <1>4, <2>1, <2>2, <3>4 DEF Balance
  <2>3. CASE i \notin b + 1 .. pc
        BY <1>0, <1>1, <1>3, <2>1, <2>3 DEF Balance
  <2> QED BY <2>2, <2>3
<1> QED BY <1>5, <1>6

LEMMA UnitBalance ==
    ASSUME WarmupsGoTogether, TypeOK, SplitInv, CollectInv, AccountInv, error' = "none",
           NEW i \in 1 .. Len(program), Computes(i), UnitStep \/ EpochDone
    PROVE  Balance(i)'
<1> DEFINE b == pc - EpochSize
           here == ChargedHere(program[i].op)
<1>0. error = "none" /\ stage = "units"
      BY DEF UnitStep, EpochDone, Running
<1>1. Balance(i)
      BY <1>0 DEF AccountInv, Balance
<1>2. /\ pc \in Nat /\ EpochSize \in Nat /\ visited \in Nat /\ Len(mask) \in Nat
      /\ charges[i] \in Nat /\ due[i] \in Nat /\ i \in Nat
      BY AccountTypes
<1>3. UNCHANGED <<pc, computeInstructions, EpochSize, mask, due, program>>
      BY DEF UnitStep, EpochDone, EpochSize, localVars
<1>4. ASSUME i \in b + 1 .. pc
      PROVE  /\ i - b \in 1 .. EpochSize /\ computeInstructions[i - b] = i
             /\ StillDue(i - b) = IF here THEN 0 ELSE Len(mask) - LoopTurns(i - b)
             /\ charges[i] + StillDue(i - b) = due[i]
             /\ LoopTurns(i - b) \in Nat
  <2>1. i - b \in 1 .. EpochSize /\ computeInstructions[i - b] = i
        BY <1>0, <1>4, EpochPosition
  <2>2. EpochSize # 0
        BY <1>2, <2>1
  <2>3. LoopTurns(i - b) = TurnsOf(visited, EpochSize, i - b)
        BY DEF LoopTurns, TurnsOf
  <2>4. LoopTurns(i - b) \in Nat
    <3> DEFINE j == i - b
    <3>1. j \in 1 .. EpochSize /\ EpochSize \in Nat \ {0}
          BY <1>2, <2>1, <2>2
    <3> HIDE DEF j
    <3>2. TurnsOf(visited, EpochSize, j) \in Nat
          BY <1>2, <3>1, Turns
    <3> QED BY <2>3, <3>2 DEF j
  <2> QED BY <1>0, <1>1, <1>4, <2>1, <2>4 DEF StillDue, Balance
<1>5. SelectedUnits = mask /\ LoopLength = Len(mask) * EpochSize
      BY <1>0, SplitMeans DEF SequencesSplitTheMask, LoopLength, EpochSize
<1>6. CASE UnitStep
  <2> DEFINE turn == (visited % EpochSize) + 1
  <2>1. /\ visited < LoopLength /\ visited' = visited + 1 /\ stage' = "units"
        BY <1>6, <1>0 DEF UnitStep
  <2>2. /\ EpochSize # 0 /\ turn \in 1 .. EpochSize /\ LoopPosition = b + turn
    <3>1. EpochSize # 0
          BY <1>2, <1>5, <2>1
    <3>2. turn \in 1 .. EpochSize
      <4>1. visited % EpochSize \in 0 .. EpochSize - 1
            BY <1>2, <3>1, DivMod
      <4> QED BY <1>2, <3>1, <4>1
    <3>3. LoopPosition = computeInstructions[turn]
          BY DEF LoopPosition, EpochSize
    <3> QED BY <1>0, <3>1, <3>2, <3>3 DEF CollectInv
  <2>3. charges \in [1 .. Len(program) -> Nat]
        BY DEF TypeOK
  <2>4. charges' = charges \/ charges' = [charges EXCEPT ![LoopPosition] = @ + 1]
        BY <1>6 DEF UnitStep, ExecuteOp
  <2>5. CASE i = LoopPosition
    <3>1. i \in b + 1 .. pc /\ i - b = turn /\ (i - b)' = i - b
          BY <1>2, <1>3, <2>2, <2>5
    <3>2. program[i].op \notin {"SHIFT", "PROP"} \cup BusOps /\ InTable(program[i].op)
          BY <1>6, <2>5 DEF UnitStep, Computes
    <3>3. Skipped(program[i].op) <=> here
          BY <3>2, ChargedOrSkipped
    <3>4. charges'[i] = IF here THEN charges[i] ELSE charges[i] + 1
      <4>1. CASE here
            BY <1>6, <2>5, <3>3, <4>1 DEF UnitStep
      <4>2. CASE ~here
        <5>1. charges' = [charges EXCEPT ![LoopPosition] = @ + 1]
              BY <1>6, <2>5, <3>2, <3>3, <4>2 DEF UnitStep, ExecuteOp
        <5> QED BY <2>3, <2>5, <4>2, <5>1
      <4> QED BY <4>1, <4>2
    <3>5. (LoopTurns(i - b))' = LoopTurns(i - b) + 1
      <4>1. /\ (LoopTurns(i - b))' = TurnsOf(visited + 1, EpochSize, i - b)
            /\ LoopTurns(i - b) = TurnsOf(visited, EpochSize, i - b)
            BY <1>3, <2>1 DEF LoopTurns, TurnsOf
      <4>2. TurnsOf(visited + 1, EpochSize, i - b) = TurnsOf(visited, EpochSize, i - b) + 1
        <5> DEFINE j == i - b
        <5>1. j \in 1 .. EpochSize /\ EpochSize \in Nat \ {0} /\ j = turn
              BY <1>2, <1>4, <2>2, <3>1
        <5> HIDE DEF j
        <5>2. TurnsOf(visited + 1, EpochSize, j) = TurnsOf(visited, EpochSize, j) + 1
              BY <1>2, <5>1, Turns
        <5> QED BY <5>2 DEF j
      <4> QED BY <4>1, <4>2
    <3>6. (StillDue(i - b))' = IF here THEN 0 ELSE Len(mask) - (LoopTurns(i - b) + 1)
          BY <1>3, <1>4, <2>1, <3>1, <3>5 DEF StillDue, ChargedHere, pipelined
    <3>7. charges'[i] + (StillDue(i - b))' = due[i]
          BY <1>2, <1>4, <3>1, <3>4, <3>6
    <3> QED BY <1>3, <2>1, <3>1, <3>7 DEF Balance
  <2>6. CASE i # LoopPosition
    <3>1. charges'[i] = charges[i]
          BY <2>3, <2>4, <2>6
    <3>2. CASE i \in b + 1 .. pc
      <4>1. (i - b)' = i - b /\ i - b # turn
            BY <1>2, <1>3, <2>2, <2>6, <3>2
      <4>2. (LoopTurns(i - b))' = LoopTurns(i - b)
        <5>1. /\ (LoopTurns(i - b))' = TurnsOf(visited + 1, EpochSize, i - b)
              /\ LoopTurns(i - b) = TurnsOf(visited, EpochSize, i - b)
              BY <1>3, <2>1 DEF LoopTurns, TurnsOf
        <5>2. TurnsOf(visited + 1, EpochSize, i - b) = TurnsOf(visited, EpochSize, i - b) + 0
          <6> DEFINE j == i - b
          <6>1. j \in 1 .. EpochSize /\ EpochSize \in Nat \ {0} /\ j # turn
                BY <1>2, <1>4, <2>2, <3>2, <4>1
          <6> HIDE DEF j
          <6>2. TurnsOf(visited + 1, EpochSize, j) = TurnsOf(visited, EpochSize, j) + 0
                BY <1>2, <6>1, Turns
          <6> QED BY <6>2 DEF j
        <5> QED BY <1>4, <3>2, <5>1, <5>2
      <4>3. (StillDue(i - b))' = StillDue(i - b)
            BY <1>3, <1>4, <2>1, <3>2, <4>1, <4>2 DEF StillDue, ChargedHere, pipelined
      <4>4. charges'[i] + (StillDue(i - b))' = due[i]
            BY <1>4, <3>1, <3>2, <4>3
      <4> QED BY <1>3, <2>1, <3>2, <4>4 DEF Balance
    <3>3. CASE i \notin b + 1 .. pc
          BY <1>0, <1>1, <1>3, <2>1, <3>1, <3>3 DEF Balance
    <3> QED BY <3>2, <3>3
  <2> QED BY <2>5, <2>6
<1>7. CASE EpochDone
  <2>1. /\ visited = Len(mask) * EpochSize /\ stage' \in {"config", "done"} /\ charges' = charges
        BY <1>5, <1>7 DEF EpochDone, Continue
  <2>2. charges[i] = due[i]
    <3>1. CASE i \in b + 1 .. pc
      <4>1. EpochSize # 0
            BY <1>2, <1>4, <3>1
      <4>2. LoopTurns(i - b) = Len(mask)
        <5> DEFINE j == i - b
        <5>1. LoopTurns(j) = TurnsOf(Len(mask) * EpochSize, EpochSize, j)
              BY <2>1 DEF LoopTurns, TurnsOf
        <5>2. j \in 1 .. EpochSize /\ EpochSize \in Nat \ {0}
              BY <1>2, <1>4, <3>1, <4>1
        <5> HIDE DEF j
        <5>3. TurnsOf(Len(mask) * EpochSize, EpochSize, j) = Len(mask)
          <6> DEFINE d == EpochSize
                     n == Len(mask)
          <6>1. n \in Nat /\ d \in Nat \ {0} /\ j \in 1 .. d
                BY <1>2, <5>2
          <6> HIDE DEF d, n
          <6>2. TurnsOf(n * d, d, j) = n
                BY <1>2, <6>1, Turns
          <6> QED BY <6>2 DEF d, n
        <5> QED BY <5>1, <5>3 DEF j
      <4> QED BY <1>2, <1>4, <3>1, <4>2
    <3>2. CASE i \notin b + 1 .. pc
          BY <1>0, <1>1, <3>2 DEF Balance
    <3> QED BY <3>1, <3>2
  <2> QED BY <1>3, <2>1, <2>2 DEF Balance
<1> QED BY <1>6, <1>7

LEMMA AccountPreserved ==
    ASSUME WarmupsGoTogether, TypeOK, SplitInv, CollectInv, AccountInv, [Next]_vars
    PROVE  AccountInv'
<1>1. program' = program
      BY DEF Next, ConfigStep, ConfigDone, ConfigFails, SplitStep, SplitDone, CollectStep,
             CollectDone, CollectFails, ChargeStep, ChargeFails, ChargeDone, UnitStep,
             UnitFails, EpochDone, Finished, Raise, vars
<1> SUFFICES ASSUME error' = "none", NEW i \in 1 .. Len(program), Computes(i)
             PROVE  Balance(i)'
    BY <1>1 DEF AccountInv, Balance, Computes
<1>2. CASE ConfigFails \/ CollectFails \/ ChargeFails \/ UnitFails
      BY <1>2 DEF ConfigFails, CollectFails, ChargeFails, UnitFails, Raise
<1>3. CASE Finished \/ UNCHANGED vars
  <2>1. UNCHANGED <<program, stage, error, mask, pc, computeInstructions, visited, charges, due>>
        BY <1>3 DEF Finished, vars, localVars
  <2>2. Balance(i)
        BY <2>1 DEF AccountInv, Balance
  <2> QED BY <2>1, <2>2 DEF Balance, EpochSize, StillDue, LoopTurns, ChargedHere, pipelined
<1> QED BY <1>2, <1>3, CollectBalance, ChargeBalance, UnitBalance DEF Next

\* With tables whose warm-up costs go together, every epoch charges the energy
\* of every compute instruction exactly once to every selected unit.
THEOREM ChargedOnce == WarmupsGoTogether => (Spec => []ChargedOncePerUnit)
<1> SUFFICES ASSUME WarmupsGoTogether PROVE Spec => []ChargedOncePerUnit
    OBVIOUS
<1> DEFINE Inv == TypeOK /\ SplitInv /\ CollectInv /\ AccountInv
<1>1. Init => Inv
  <2> SUFFICES ASSUME Init PROVE Inv
      OBVIOUS
  <2>1. CollectInv /\ AccountInv
        BY DEF Init, CollectInv, AccountInv
  <2> QED BY <2>1, InitTypes, SplitInit
<1>2. Inv /\ [Next]_vars => Inv'
      BY NextTypes, SplitPreserved, CollectPreserved, AccountPreserved
<1>3. Inv => ChargedOncePerUnit
      BY DEF AccountInv, ChargedOncePerUnit
<1> QED BY <1>1, <1>2, <1>3, PTL DEF Spec
=============================================================================
