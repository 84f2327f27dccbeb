------------------------- MODULE MultiChannelProofs -------------------------
(***************************************************************************)
(* The mapping of addresses and the routing of requests, for every number  *)
(* of channels and every width of the address fields.                      *)
(***************************************************************************)
EXTENDS MultiChannel, MCAddressMapping, DataLemmas

(***************************************************************************)
(* The fields of an address, and the sweep of MCAddressMapping             *)
(***************************************************************************)
\* Widths are naturals, and the low column bits are those of a burst.
LEMMA WidthsAreNaturals ==
    /\ \A f \in Fields : BitWidth(f) \in Nat
    /\ THROW_AWAY_BITS \in Nat
    /\ BYTE_OFFSET_WIDTH + COL_LOW_BIT_WIDTH = THROW_AWAY_BITS
<1> USE WidthAssumption
<1>1. COL_LOW_BIT_WIDTH = BL_LOG
      BY DEF COL_LOW_BIT_WIDTH, THROW_AWAY_BITS, BYTE_OFFSET_WIDTH
<1>2. NUM_COLS_LOG - COL_LOW_BIT_WIDTH \in Nat
      BY <1>1
<1>3. \A f \in Fields : BitWidth(f) \in Nat
      BY <1>2 DEF Fields, BitWidth
<1> QED BY <1>1, <1>3 DEF THROW_AWAY_BITS, BYTE_OFFSET_WIDTH

\* Every scheme shifts out each field once.
LEMMA EveryFieldOnce ==
    ASSUME NEW s \in Schemes
    PROVE  /\ \A k \in 1 .. 5 : ShiftOrder(s)[k] \in Fields
           /\ \A f \in Fields : \E k \in 1 .. 5 : ShiftOrder(s)[k] = f
           /\ \A j, k \in 1 .. 5 : ShiftOrder(s)[j] = ShiftOrder(s)[k] => j = k
<1> DEFINE once == /\ \A k \in 1 .. 5 : ShiftOrder(s)[k] \in Fields
                   /\ \A f \in Fields : \E k \in 1 .. 5 : ShiftOrder(s)[k] = f
                   /\ \A j, k \in 1 .. 5 : ShiftOrder(s)[j] = ShiftOrder(s)[k] => j = k
<1>1. ASSUME NEW a, NEW b, NEW c, NEW d, NEW e, ShiftOrder(s) = <<a, b, c, d, e>>,
             Fields = {a, b, c, d, e},
             a \notin {b, c, d, e}, b \notin {c, d, e}, c \notin {d, e}, d # e
      PROVE  once
  <2>1. /\ ShiftOrder(s)[1] = a /\ ShiftOrder(s)[2] = b /\ ShiftOrder(s)[3] = c
        /\ ShiftOrder(s)[4] = d /\ ShiftOrder(s)[5] = e
        BY <1>1
  <2>2. \A k \in 1 .. 5 : k = 1 \/ k = 2 \/ k = 3 \/ k = 4 \/ k = 5
        OBVIOUS
  <2>3. 1 \in 1 .. 5 /\ 2 \in 1 .. 5 /\ 3 \in 1 .. 5 /\ 4 \in 1 .. 5 /\ 5 \in 1 .. 5
        OBVIOUS
  <2>4. \A k \in 1 .. 5 : ShiftOrder(s)[k] \in Fields
        BY <1>1, <2>1, <2>2
  <2>5. \A f \in Fields : \E k \in 1 .. 5 : ShiftOrder(s)[k] = f
        BY <1>1, <2>1, <2>3
  <2>6. \A j, k \in 1 .. 5 : ShiftOrder(s)[j] = ShiftOrder(s)[k] => j = k
        BY <1>1, <2>1, <2>2
  <2> QED BY <2>4, <2>5, <2>6
<1> HIDE DEF once
<1>2. CASE s = 1
  <2>1. ShiftOrder(s) = <<"bank", "col", "row", "rank", "chan">>
        BY <1>2 DEF ShiftOrder
  <2>2. Fields = {"bank", "col", "row", "rank", "chan"}
        BY DEF Fields
  <2> QED BY <1>1, <2>1, <2>2
<1>3. CASE s = 2
  <2>1. ShiftOrder(s) = <<"rank", "bank", "col", "row", "chan">>
        BY <1>3 DEF ShiftOrder
  <2>2. Fields = {"rank", "bank", "col", "row", "chan"}
        BY DEF Fields
  <2> QED BY <1>1, <2>1, <2>2
<1>4. CASE s = 3
  <2>1. ShiftOrder(s) = <<"row", "col", "bank", "rank", "chan">>
        BY <1>4 DEF ShiftOrder
  <2>2. Fields = {"row", "col", "bank", "rank", "chan"}
        BY DEF Fields
  <2> QED BY <1>1, <2>1, <2>2
<1>5. CASE s = 4
  <2>1. ShiftOrder(s) = <<"col", "row", "bank", "rank", "chan">>
        BY <1>5 DEF ShiftOrder
  <2>2. Fields = {"col", "row", "bank", "rank", "chan"}
        BY DEF Fields
  <2> QED BY <1>1, <2>1, <2>2
<1>6. CASE s = 5
  <2>1. ShiftOrder(s) = <<"bank", "rank", "col", "row", "chan">>
        BY <1>6 DEF ShiftOrder
  <2>2. Fields = {"bank", "rank", "col", "row", "chan"}
        BY DEF Fields
  <2> QED BY <1>1, <2>1, <2>2
<1>7. CASE s = 6
  <2>1. ShiftOrder(s) = <<"col", "rank", "bank", "row", "chan">>
        BY <1>7 DEF ShiftOrder
  <2>2. Fields = {"col", "rank", "bank", "row", "chan"}
        BY DEF Fields
  <2> QED BY <1>1, <2>1, <2>2
<1>8. CASE s \in {7, 8}
  <2>1. ShiftOrder(s) = <<"chan", "bank", "rank", "col", "row">>
        BY <1>8 DEF ShiftOrder
  <2>2. Fields = {"chan", "bank", "rank", "col", "row"}
        BY DEF Fields
  <2> QED BY <1>1, <2>1, <2>2
<1>9. s \in {1, 2, 3, 4, 5, 6} \/ s \in {7, 8}
      BY DEF Schemes
<1> QED BY <1>2, <1>3, <1>4, <1>5, <1>6, <1>7, <1>8, <1>9 DEF once

\* The recursive function ShiftedOut is what its equations say.
LEMMA ShiftedOutValues ==
    ASSUME NEW s \in Schemes
    PROVE  /\ ShiftedOut(s) \in [1 .. 5 -> Nat]
           /\ ShiftedOut(s)[1] = THROW_AWAY_BITS
           /\ \A k \in 1 .. 4 :
                 ShiftedOut(s)[k + 1] = ShiftedOut(s)[k] + BitWidth(ShiftOrder(s)[k])
<1> DEFINE first == BYTE_OFFSET_WIDTH + COL_LOW_BIT_WIDTH
           w == [k \in 1 .. 5 |-> BitWidth(ShiftOrder(s)[k])]
           good(b) == b = [k \in 1 .. 5 |->
                              IF k = 1 THEN first
                              ELSE b[k - 1] + BitWidth(ShiftOrder(s)[k - 1])]
<1>1. first = THROW_AWAY_BITS /\ first \in Nat
      BY WidthsAreNaturals
<1>2. w \in [1 .. 5 -> Nat]
      BY WidthsAreNaturals, EveryFieldOnce
<1>3. ASSUME NEW b, RunningSum(b, 5, first, w)
      PROVE  good(b)
  <2>1. \A k \in 1 .. 5 : k # 1 => w[k - 1] = BitWidth(ShiftOrder(s)[k - 1])
        OBVIOUS
  <2> HIDE DEF w, first
  <2>2. [k \in 1 .. 5 |-> IF k = 1 THEN first ELSE b[k - 1] + w[k - 1]]
        = [k \in 1 .. 5 |-> IF k = 1 THEN first
                            ELSE b[k - 1] + BitWidth(ShiftOrder(s)[k - 1])]
        BY <2>1
  <2> QED BY <1>3, <2>2 DEF RunningSum
<1>4. \E b : good(b)
  <2> HIDE DEF w, first, good
  <2>1. \E b \in [1 .. 5 -> Nat] : RunningSum(b, 5, first, w)
    <3>1. 5 \in Nat \ {0}
          OBVIOUS
    <3> QED BY <1>1, <1>2, <3>1, RunningSumExists
  <2> QED BY <1>3, <2>1
<1>5. ShiftedOut(s) = CHOOSE b : good(b)
      BY DEF ShiftedOut
<1>6. good(ShiftedOut(s))
  <2> HIDE DEF good
  <2> QED BY <1>4, <1>5
<1> DEFINE b == ShiftedOut(s)
<1> HIDE DEF b
<1>7. b = [k \in 1 .. 5 |-> IF k = 1 THEN first
                            ELSE b[k - 1] + BitWidth(ShiftOrder(s)[k - 1])]
      BY <1>6 DEF b
<1>8. b[1] = first
      BY <1>7
<1>9. \A k \in 1 .. 4 : b[k + 1] = b[k] + BitWidth(ShiftOrder(s)[k])
  <2> SUFFICES ASSUME NEW k \in 1 .. 4
               PROVE  b[k + 1] = b[k] + BitWidth(ShiftOrder(s)[k])
      OBVIOUS
  <2>1. k + 1 \in 1 .. 5 /\ k + 1 # 1 /\ (k + 1) - 1 = k
        OBVIOUS
  <2> QED BY <1>7, <2>1
<1>10. \A k \in 1 .. 4 : BitWidth(ShiftOrder(s)[k]) \in Nat
       BY WidthsAreNaturals, EveryFieldOnce
<1>11. \A k \in 1 .. 5 : b[k] \in Nat
  <2>1. b[1] \in Nat
        BY <1>1, <1>8
  <2>2. b[2] \in Nat
        BY <2>1, <1>9, <1>10
  <2>3. b[3] \in Nat
        BY <2>2, <1>9, <1>10
  <2>4. b[4] \in Nat
        BY <2>3, <1>9, <1>10
  <2>5. b[5] \in Nat
        BY <2>4, <1>9, <1>10
  <2> QED BY <2>1, <2>2, <2>3, <2>4, <2>5
<1>12. b \in [1 .. 5 -> Nat]
  <2>1. b = [k \in 1 .. 5 |-> b[k]]
        BY <1>7
  <2> QED BY <1>11, <2>1
<1> QED BY <1>1, <1>8, <1>9, <1>12 DEF b
-----------------------------------------------------------------------------
\* A scheme's fields, first and last: the order of its shifts, reversed, is the
\* layout that its comment names, and together they are as wide as the address.
LEMMA LayoutOfScheme ==
    ASSUME NEW s \in Schemes
    PROVE  /\ \A k \in 1 .. 5 : Documented[s][k] = ShiftOrder(s)[6 - k]
           /\ ShiftedOut(s)[5] + BitWidth(ShiftOrder(s)[5]) = AddressBits
<1> DEFINE layout == \A k \in 1 .. 5 : Documented[s][k] = ShiftOrder(s)[6 - k]
           width  == ShiftedOut(s)[5] + BitWidth(ShiftOrder(s)[5]) = AddressBits
           b == ShiftedOut(s)
           o == ShiftOrder(s)
<1>1. AddressBits = THROW_AWAY_BITS + BitWidth("chan") + BitWidth("rank")
                    + BitWidth("bank") + BitWidth("row") + BitWidth("col")
      BY DEF AddressBits, BitWidth
<1>2. /\ BitWidth("chan") \in Nat /\ BitWidth("rank") \in Nat /\ BitWidth("bank") \in Nat
      /\ BitWidth("row") \in Nat /\ BitWidth("col") \in Nat /\ THROW_AWAY_BITS \in Nat
      BY WidthsAreNaturals DEF Fields
<1>3. /\ b[1] = THROW_AWAY_BITS
      /\ b[2] = b[1] + BitWidth(o[1]) /\ b[3] = b[2] + BitWidth(o[2])
      /\ b[4] = b[3] + BitWidth(o[3]) /\ b[5] = b[4] + BitWidth(o[4])
  <2>1. b[1] = THROW_AWAY_BITS /\ \A k \in 1 .. 4 : b[k + 1] = b[k] + BitWidth(o[k])
        BY ShiftedOutValues
  <2>2. 1 \in 1 .. 4 /\ 2 \in 1 .. 4 /\ 3 \in 1 .. 4 /\ 4 \in 1 .. 4
        OBVIOUS
  <2> HIDE DEF b, o
  <2> QED BY <2>1, <2>2
<1>4. ASSUME NEW u, NEW v, NEW x, NEW y, NEW z, ShiftOrder(s) = <<u, v, x, y, z>>,
             Documented[s] = <<z, y, x, v, u>>
      PROVE  layout
  <2>1. \A k \in 1 .. 5 : k = 1 \/ k = 2 \/ k = 3 \/ k = 4 \/ k = 5
        OBVIOUS
  <2> QED BY <1>4, <2>1
<1>5. CASE s = 1
  <2>1. ShiftOrder(s) = <<"bank", "col", "row", "rank", "chan">>
        BY <1>5 DEF ShiftOrder
  <2>2. Documented[s] = <<"chan", "rank", "row", "col", "bank">>
        BY <1>5 DEF Documented
  <2>3. o[1] = "bank" /\ o[2] = "col" /\ o[3] = "row" /\ o[4] = "rank" /\ o[5] = "chan"
        BY <2>1
  <2>4. layout
    <3> HIDE DEF layout
    <3> QED BY <1>4, <2>1, <2>2
  <2>5. b[5] + BitWidth(o[5]) = AddressBits
    <3> HIDE DEF b, o
    <3> QED BY <1>1, <1>2, <1>3, <2>3
  <2> QED BY <2>4, <2>5
<1>6. CASE s = 2
  <2>1. ShiftOrder(s) = <<"rank", "bank", "col", "row", "chan">>
        BY <1>6 DEF ShiftOrder
  <2>2. Documented[s] = <<"chan", "row", "col", "bank", "rank">>
        BY <1>6 DEF Documented
  <2>3. o[1] = "rank" /\ o[2] = "bank" /\ o[3] = "col" /\ o[4] = "row" /\ o[5] = "chan"
        BY <2>1
  <2>4. layout
    <3> HIDE DEF layout
    <3> QED BY <1>4, <2>1, <2>2
  <2>5. b[5] + BitWidth(o[5]) = AddressBits
    <3> HIDE DEF b, o
    <3> QED BY <1>1, <1>2, <1>3, <2>3
  <2> QED BY <2>4, <2>5
<1>7. CASE s = 3
  <2>1. ShiftOrder(s) = <<"row", "col", "bank", "rank", "chan">>
        BY <1>7 DEF ShiftOrder
  <2>2. Documented[s] = <<"chan", "rank", "bank", "col", "row">>
        BY <1>7 DEF Documented
  <2>3. o[1] = "row" /\ o[2] = "col" /\ o[3] = "bank" /\ o[4] = "rank" /\ o[5] = "chan"
        BY <2>1
  <2>4. layout
    <3> HIDE DEF layout
    <3> QED BY <1>4, <2>1, <2>2
  <2>5. b[5] + BitWidth(o[5]) = AddressBits
    <3> HIDE DEF b, o
    <3> QED BY <1>1, <1>2, <1>3, <2>3
  <2> QED BY <2>4, <2>5
<1>8. CASE s = 4
  <2>1. ShiftOrder(s) = <<"col", "row", "bank", "rank", "chan">>
        BY <1>8 DEF ShiftOrder
  <2>2. Documented[s] = <<"chan", "rank", "bank", "row", "col">>
        BY <1>8 DEF Documented
  <2>3. o[1] = "col" /\ o[2] = "row" /\ o[3] = "bank" /\ o[4] = "rank" /\ o[5] = "chan"
        BY <2>1
  <2>4. layout
    <3> HIDE DEF layout
    <3> QED BY <1>4, <2>1, <2>2
  <2>5. b[5] + BitWidth(o[5]) = AddressBits
    <3> HIDE DEF b, o
    <3> QED BY <1>1, <1>2, <1>3, <2>3
  <2> QED BY <2>4, <2>5
<1>9. CASE s = 5
  <2>1. ShiftOrder(s) = <<"bank", "rank", "col", "row", "chan">>
        BY <1>9 DEF ShiftOrder
  <2>2. Documented[s] = <<"chan", "row", "col", "rank", "bank">>
        BY <1>9 DEF Documented
  <2>3. o[1] = "bank" /\ o[2] = "rank" /\ o[3] = "col" /\ o[4] = "row" /\ o[5] = "chan"
        BY <2>1
  <2>4. layout
    <3> HIDE DEF layout
    <3> QED BY <1>4, <2>1, <2>2
  <2>5. b[5] + BitWidth(o[5]) = AddressBits
    <3> HIDE DEF b, o
    <3> QED BY <1>1, <1>2, <1>3, <2>3
  <2> QED BY <2>4, <2>5
<1>10. CASE s = 6
  <2>1. ShiftOrder(s) = <<"col", "rank", "bank", "row", "chan">>
        BY <1>10 DEF ShiftOrder
  <2>2. Documented[s] = <<"chan", "row", "bank", "rank", "col">>
        BY <1>10 DEF Documented
  <2>3. o[1] = "col" /\ o[2] = "rank" /\ o[3] = "bank" /\ o[4] = "row" /\ o[5] = "chan"
        BY <2>1
  <2>4. layout
    <3> HIDE DEF layout
    <3> QED BY <1>4, <2>1, <2>2
  <2>5. b[5] + BitWidth(o[5]) = AddressBits
    <3> HIDE DEF b, o
    <3> QED BY <1>1, <1>2, <1>3, <2>3
  <2> QED BY <2>4, <2>5
<1>11. CASE s \in {7, 8}
  <2>1. ShiftOrder(s) = <<"chan", "bank", "rank", "col", "row">>
        BY <1>11 DEF ShiftOrder
  <2>2. Documented[s] = <<"row", "col", "rank", "bank", "chan">>
        BY <1>11 DEF Documented
  <2>3. o[1] = "chan" /\ o[2] = "bank" /\ o[3] = "rank" /\ o[4] = "col" /\ o[5] = "row"
        BY <2>1
  <2>4. layout
    <3> HIDE DEF layout
    <3> QED BY <1>4, <2>1, <2>2
  <2>5. b[5] + BitWidth(o[5]) = AddressBits
    <3> HIDE DEF b, o
    <3> QED BY <1>1, <1>2, <1>3, <2>3
  <2> QED BY <2>4, <2>5
<1>12. s \in {1, 2, 3, 4, 5, 6} \/ s \in {7, 8}
       BY DEF Schemes
<1> QED BY <1>5, <1>6, <1>7, <1>8, <1>9, <1>10, <1>11, <1>12

\* What addressMapping finds in each field, and what is left above the last one.
LEMMA FieldsOfAddress ==
    ASSUME NEW s \in Schemes, NEW a \in 0 .. Capacity - 1
    PROVE  \E B \in [1 .. 6 -> Nat] :
              /\ B[1] = a \div 2 ^ THROW_AWAY_BITS
              /\ B[6] = 0
              /\ \A k \in 1 .. 5 :
                    B[k] = B[k + 1] * 2 ^ BitWidth(ShiftOrder(s)[k])
                           + addressMapping(a, s, 0)[ShiftOrder(s)[k]]
<1> DEFINE b == ShiftedOut(s)
           o == ShiftOrder(s)
           w(k) == BitWidth(o[k])
           B == [k \in 1 .. 6 |-> IF k = 6 THEN a \div 2 ^ AddressBits
                                  ELSE a \div 2 ^ b[k]]
<1>1. /\ b \in [1 .. 5 -> Nat] /\ b[1] = THROW_AWAY_BITS
      /\ \A k \in 1 .. 4 : b[k + 1] = b[k] + w(k)
      BY ShiftedOutValues
<1>2. \A k \in 1 .. 5 : o[k] \in Fields /\ w(k) \in Nat
      BY EveryFieldOnce, WidthsAreNaturals
<1>3. b[5] + w(5) = AddressBits
      BY LayoutOfScheme
<1>4. AddressBits \in Nat
      BY <1>1, <1>2, <1>3
<1>5. Capacity \in Nat \ {0} /\ Capacity = 2 ^ AddressBits
      BY <1>4, PowerPositive DEF Capacity
<1>6. a \in Nat
      BY <1>5
<1>7. \A n \in Nat : 2 ^ n \in Nat \ {0} /\ a \div 2 ^ n \in Nat
      BY <1>6, PowerPositive, DivMod
<1>8. \A k \in 1 .. 5 : addressMapping(a, s, 0)[o[k]] = (a \div 2 ^ b[k]) % 2 ^ w(k)
  <2> SUFFICES ASSUME NEW k \in 1 .. 5
               PROVE  addressMapping(a, s, 0)[o[k]] = (a \div 2 ^ b[k]) % 2 ^ w(k)
      OBVIOUS
  <2> DEFINE f == o[k]
             i == CHOOSE j \in 1 .. 5 : o[j] = f
  <2>1. i = k
    <3>1. i \in 1 .. 5 /\ o[i] = f
          OBVIOUS
    <3> HIDE DEF i
    <3> QED BY <3>1, EveryFieldOnce
  <2>2. addressMapping(a, s, 0)[f] = (a \div 2 ^ b[i]) % 2 ^ BitWidth(f)
        BY <1>2 DEF addressMapping
  <2> HIDE DEF i
  <2> QED BY <2>1, <2>2
<1> HIDE DEF b, o
<1>9. B \in [1 .. 6 -> Nat]
  <2>1. \A k \in 1 .. 6 : k # 6 => b[k] \in Nat
        BY <1>1
  <2> QED BY <1>4, <1>7, <2>1
<1>10. B[1] = a \div 2 ^ THROW_AWAY_BITS
       BY <1>1
<1>11. B[6] = 0
  <2>1. a = (Capacity * 0) + a /\ 0 \in Nat
        BY <1>5, <1>6
  <2>2. ((Capacity * 0) + a) \div Capacity = 0
        BY <1>5, <2>1, DivModUnique
  <2> QED BY <1>5, <2>1, <2>2
<1>12. ASSUME NEW k \in 1 .. 5
       PROVE  B[k] = B[k + 1] * 2 ^ w(k) + addressMapping(a, s, 0)[o[k]]
  <2> DEFINE x == a \div 2 ^ b[k]
             d == 2 ^ w(k)
  <2>1. b[k] \in Nat /\ w(k) \in Nat /\ k + 1 \in 1 .. 6 /\ k \in 1 .. 6 /\ k # 6
        BY <1>1, <1>2
  <2>2. x \in Nat /\ d \in Nat \ {0} /\ 2 ^ b[k] \in Nat \ {0}
        BY <1>7, <2>1
  <2>3. B[k] = x
        BY <2>1
  <2>4. B[k + 1] = a \div 2 ^ (b[k] + w(k))
    <3>1. CASE k = 5
          BY <1>3, <3>1
    <3>2. CASE k # 5
      <4>1. k \in 1 .. 4 /\ k + 1 # 6
            BY <3>2
      <4>2. b[k + 1] = b[k] + w(k)
            BY <1>1, <4>1
      <4> QED BY <2>1, <4>1, <4>2
    <3> QED BY <3>1, <3>2
  <2>5. a \div 2 ^ (b[k] + w(k)) = x \div d
    <3>1. 2 ^ (b[k] + w(k)) = 2 ^ b[k] * d
          BY <2>1, PowerAdds
    <3>2. a \div (2 ^ b[k] * d) = (a \div 2 ^ b[k]) \div d
      <4> HIDE DEF d
      <4> QED BY <1>6, <2>2, DivDiv
    <3> QED BY <3>1, <3>2
  <2>6. addressMapping(a, s, 0)[o[k]] = x % d
        BY <1>8
  <2> HIDE DEF x, d, B
  <2>7. x \div d \in Nat /\ x % d \in 0 .. d - 1 /\ x = (d * (x \div d)) + (x % d)
        BY <2>2, DivMod
  <2>8. d * (x \div d) = (x \div d) * d
        BY <2>2, <2>7
  <2> QED BY <2>3, <2>4, <2>5, <2>6, <2>7, <2>8 DEF d
<1> HIDE DEF B
<1> QED BY <1>9, <1>10, <1>11, <1>12 DEF o

\* Horner's rule over the documented layout undoes the shifts one by one.
LEMMA BlockIsRecovered ==
    ASSUME sweptScheme \in Schemes, sweptAddress \in 0 .. Capacity - 1
    PROVE  MappingFollowsTheComments
<1> DEFINE names == Documented[sweptScheme]
           o == ShiftOrder(sweptScheme)
           loc == addressMapping(sweptAddress, sweptScheme, 0)
           good(u) == u = [k \in 0 .. 5 |->
                              IF k = 0 THEN 0
                              ELSE u[k - 1] * 2 ^ BitWidth(names[k]) + loc[names[k]]]
<1>1. PICK B \in [1 .. 6 -> Nat] :
         /\ B[1] = sweptAddress \div 2 ^ THROW_AWAY_BITS
         /\ B[6] = 0
         /\ \A k \in 1 .. 5 : B[k] = B[k + 1] * 2 ^ BitWidth(o[k]) + loc[o[k]]
      BY FieldsOfAddress
<1>2. \A k \in 1 .. 5 : names[k] = o[6 - k]
      BY LayoutOfScheme
<1> DEFINE H == [k \in 0 .. 5 |-> B[6 - k]]
<1> HIDE DEF names, o, loc
<1>3. good(H)
  <2>1. ASSUME NEW k \in 0 .. 5
        PROVE  H[k] = IF k = 0 THEN 0
                      ELSE H[k - 1] * 2 ^ BitWidth(names[k]) + loc[names[k]]
    <3>1. CASE k = 0
          BY <1>1, <3>1
    <3>2. CASE k # 0
      <4>1. /\ k \in 1 .. 5 /\ 6 - k \in 1 .. 5 /\ k - 1 \in 0 .. 5
            /\ 6 - (k - 1) = (6 - k) + 1
            BY <3>2
      <4>2. H[k] = B[6 - k] /\ H[k - 1] = B[(6 - k) + 1] /\ names[k] = o[6 - k]
            BY <1>2, <4>1
      <4> HIDE DEF H
      <4> QED BY <1>1, <3>2, <4>1, <4>2
    <3> QED BY <3>1, <3>2
  <2>2. H = [k \in 0 .. 5 |-> H[k]]
        OBVIOUS
  <2> HIDE DEF H
  <2> QED BY <2>1, <2>2
<1>4. ASSUME NEW u, good(u)
      PROVE  u[5] = B[1]
  <2>1. \A k \in 0 .. 5 : u[k] = IF k = 0 THEN 0
                        ELSE u[k - 1] * 2 ^ BitWidth(names[k]) + loc[names[k]]
        BY <1>4
  <2>2. \A k \in 0 .. 5 : H[k] = IF k = 0 THEN 0
                        ELSE H[k - 1] * 2 ^ BitWidth(names[k]) + loc[names[k]]
        BY <1>3
  <2>3. H[5] = B[1]
        OBVIOUS
  <2> HIDE DEF H, good
  <2>4. u[0] = H[0]
        BY <2>1, <2>2
  <2>5. ASSUME NEW k \in 0 .. 4, u[k] = H[k]
        PROVE  u[k + 1] = H[k + 1]
    <3>1. k + 1 \in 0 .. 5 /\ k + 1 # 0 /\ (k + 1) - 1 = k
          OBVIOUS
    <3> QED BY <2>1, <2>2, <2>5, <3>1
  <2>6. u[1] = H[1]
        BY <2>4, <2>5
  <2>7. u[2] = H[2]
        BY <2>5, <2>6
  <2>8. u[3] = H[3]
        BY <2>5, <2>7
  <2>9. u[4] = H[4]
        BY <2>5, <2>8
  <2>10. u[5] = H[5]
        BY <2>5, <2>9
  <2> QED BY <2>3, <2>10
<1>5. BlockNumber(Location) = (CHOOSE u : good(u))[5]
      BY DEF BlockNumber, Location, names, loc
<1>6. good(CHOOSE u : good(u))
  <2> HIDE DEF good, H
  <2> QED BY <1>3
<1>7. (CHOOSE u : good(u))[5] = B[1]
  <2> HIDE DEF good
  <2> QED BY <1>4, <1>6
<1> QED BY <1>1, <1>5, <1>7 DEF MappingFollowsTheComments

-----------------------------------------------------------------------------
\* What the sweep enumerates.
SweepInv == sweptScheme \in Schemes /\ sweptAddress \in 0 .. Capacity - 1

LEMMA CapacityIsPositive == Capacity \in Nat \ {0}
<1>1. 1 \in Schemes /\ 5 \in 1 .. 5
      BY DEF Schemes
<1>2. /\ ShiftedOut(1)[5] \in Nat
      /\ ShiftedOut(1)[5] + BitWidth(ShiftOrder(1)[5]) = AddressBits
      BY <1>1, ShiftedOutValues, LayoutOfScheme
<1>3. BitWidth(ShiftOrder(1)[5]) \in Nat
      BY <1>1, EveryFieldOnce, WidthsAreNaturals
<1>4. AddressBits \in Nat
      BY <1>2, <1>3
<1> QED BY <1>4, PowerPositive DEF Capacity

\* Every scheme is the bijection between the blocks of the memory and the
\* locations that its comment describes, whatever the widths of the fields are.
THEOREM MappingIsDocumented == SweepSpec => []MappingFollowsTheComments
<1>1. SweepInit => SweepInv
  <2>1. 0 \in 0 .. Capacity - 1
        BY CapacityIsPositive
  <2> QED BY <2>1 DEF SweepInit, SweepInv
<1>2. SweepInv /\ [SweepNext]_<<sweptScheme, sweptAddress>> => SweepInv'
  <2> SUFFICES ASSUME SweepInv, [SweepNext]_<<sweptScheme, sweptAddress>>
               PROVE  SweepInv'
      OBVIOUS
  <2>1. CASE SweepNext
    <3>1. sweptAddress + 1 \in Nat
          BY CapacityIsPositive DEF SweepInv
    <3>2. (sweptAddress + 1) % Capacity \in 0 .. Capacity - 1
          BY <3>1, CapacityIsPositive, DivMod
    <3> QED BY <2>1, <3>2 DEF SweepNext, SweepInv
  <2>2. CASE UNCHANGED <<sweptScheme, sweptAddress>>
        BY <2>2 DEF SweepInv
  <2> QED BY <2>1, <2>2
<1>3. SweepInv => MappingFollowsTheComments
      BY BlockIsRecovered DEF SweepInv
<1> QED BY <1>1, <1>2, <1>3, PTL DEF SweepSpec

(***************************************************************************)
(* The routing of requests                                                 *)
(***************************************************************************)
LEMMA ChannelsExist ==
    NUM_CHANS \in Nat \ {0} /\ NUM_CHANS = 2 ^ BitWidth("chan")
<1>1. NUM_CHANS_LOG \in Nat /\ BitWidth("chan") = NUM_CHANS_LOG
      BY WidthAssumption DEF BitWidth
<1> QED BY <1>1, PowerPositive DEF NUM_CHANS

\* addressMapping names a channel that exists.
LEMMA MappedChannel ==
    ASSUME NEW a \in Nat, NEW s \in Schemes, NEW n \in Nat
    PROVE  addressMapping(a, s, n).chan \in Channels
<1> DEFINE k == CHOOSE i \in 1 .. 5 : ShiftOrder(s)[i] = "chan"
           q == a \div 2 ^ ShiftedOut(s)[k]
<1>1. "chan" \in Fields
      BY DEF Fields
<1>2. k \in 1 .. 5
  <2>1. \E i \in 1 .. 5 : ShiftOrder(s)[i] = "chan"
        BY <1>1, EveryFieldOnce
  <2> QED BY <2>1
<1>3. addressMapping(a, s, n).chan = IF s = 8 /\ n # 0 THEN n % NUM_CHANS
                                      ELSE q % 2 ^ BitWidth("chan")
      BY <1>1 DEF addressMapping
<1> HIDE DEF k
<1>4. q \in Nat
  <2>1. ShiftedOut(s)[k] \in Nat
        BY <1>2, ShiftedOutValues
  <2>2. 2 ^ ShiftedOut(s)[k] \in Nat \ {0}
        BY <2>1, PowerPositive
  <2> QED BY <2>2, DivMod
<1> HIDE DEF q
<1>5. addressMapping(a, s, n).chan = (IF s = 8 /\ n # 0 THEN n ELSE q) % NUM_CHANS
      BY <1>3, ChannelsExist
<1>6. \A x \in Nat : x % NUM_CHANS \in 0 .. NUM_CHANS - 1
      BY ChannelsExist, DivMod
<1> QED BY <1>4, <1>5, <1>6 DEF Channels

\* So does channelOf, in every state.
LEMMA ChannelOfAddress ==
    ASSUME TypeOK, NEW a \in Address
    PROVE  channelOf(a) \in Channels
<1>1. 0 \in Channels
      BY ChannelsExist DEF Channels
<1>2. a \in Nat /\ scheme \in Schemes /\ transactionCount \in Nat
      BY RoutingAssumption DEF TypeOK
<1>3. addressMapping(a, scheme, transactionCount).chan \in Channels
      BY <1>2, MappedChannel
<1> QED BY <1>1, <1>3 DEF channelOf

\* Types are kept by what every added transaction does ...
LEMMA CountedTypes ==
    ASSUME TypeOK, NEW a \in Address, findChannelNumber(a)
    PROVE  /\ transactionCount' \in 0 .. MaxCount
           /\ routed' \in [Channels -> Nat]
           /\ homes' \in [Address -> SUBSET Channels]
<1>1. channelOf(a) \in Channels
      BY ChannelOfAddress
<1>2. transactionCount' \in 0 .. MaxCount
      BY RoutingAssumption DEF TypeOK, findChannelNumber
<1>3. routed' \in [Channels -> Nat]
      BY <1>1 DEF TypeOK, findChannelNumber
<1>4. homes' \in [Address -> SUBSET Channels]
      BY <1>1 DEF TypeOK, findChannelNumber
<1> QED BY <1>2, <1>3, <1>4

\* ... and by the rest of the step.
LEMMA NextTypes ==
    ASSUME TypeOK, [Next]_vars
    PROVE  TypeOK'
<1>1. ASSUME NEW a \in Address, AddAlways(a)
      PROVE  TypeOK'
  <2>1. channelOf(a) \in Channels
        BY ChannelOfAddress
  <2>2. /\ transactionCount' \in 0 .. MaxCount
        /\ routed' \in [Channels -> Nat]
        /\ homes' \in [Address -> SUBSET Channels]
        BY <1>1, CountedTypes DEF AddAlways
  <2>3. queued' \in [Channels -> 0 .. TRANS_QUEUE_DEPTH] /\ setAside' \in [Channels -> Nat]
    <3>1. CASE WillAcceptTransaction(channelOf(a))
      <4>1. queued[channelOf(a)] + 1 \in 0 .. TRANS_QUEUE_DEPTH
            BY <2>1, <3>1, RoutingAssumption DEF TypeOK, WillAcceptTransaction
      <4> QED BY <1>1, <3>1, <4>1 DEF AddAlways, TypeOK
    <3>2. CASE ~ WillAcceptTransaction(channelOf(a))
          BY <1>1, <2>1, <3>2 DEF AddAlways, TypeOK
    <3> QED BY <3>1, <3>2
  <2>4. scheme' = scheme /\ callers' = callers
        BY <1>1 DEF AddAlways, deploymentVars
  <2> QED BY <2>2, <2>3, <2>4 DEF TypeOK
<1>2. ASSUME NEW a \in Address, AddOrRetry(a)
      PROVE  TypeOK'
  <2>1. channelOf(a) \in Channels
        BY ChannelOfAddress
  <2>2. /\ transactionCount' \in 0 .. MaxCount
        /\ routed' \in [Channels -> Nat]
        /\ homes' \in [Address -> SUBSET Channels]
        BY <1>2, CountedTypes DEF AddOrRetry
  <2>3. queued' \in [Channels -> 0 .. TRANS_QUEUE_DEPTH]
    <3>1. CASE WillAcceptTransaction(channelOf(a))
      <4>1. queued[channelOf(a)] + 1 \in 0 .. TRANS_QUEUE_DEPTH
            BY <2>1, <3>1, RoutingAssumption DEF TypeOK, WillAcceptTransaction
      <4> QED BY <1>2, <3>1, <4>1 DEF AddOrRetry, TypeOK
    <3>2. CASE ~ WillAcceptTransaction(channelOf(a))
          BY <1>2, <3>2 DEF AddOrRetry, TypeOK
    <3> QED BY <3>1, <3>2
  <2>4. scheme' = scheme /\ callers' = callers /\ setAside' = setAside
        BY <1>2 DEF AddOrRetry, deploymentVars
  <2> QED BY <2>2, <2>3, <2>4 DEF TypeOK
<1>3. ASSUME ActualUpdate
      PROVE  TypeOK'
  <2> DEFINE entered == {c \in Channels : setAside[c] > 0 /\ WillAcceptTransaction(c)}
             after(c) == queued[c] + (IF c \in entered THEN 1 ELSE 0)
  <2>1. \A c \in Channels : after(c) \in 0 .. TRANS_QUEUE_DEPTH
        BY RoutingAssumption DEF TypeOK, WillAcceptTransaction
  <2>2. \A c \in Channels : setAside[c] - (IF c \in entered THEN 1 ELSE 0) \in Nat
        BY DEF TypeOK
  <2>3. PICK busy \in SUBSET Channels :
           /\ setAside' = [c \in Channels |-> setAside[c] - (IF c \in entered THEN 1 ELSE 0)]
           /\ queued' = [c \in Channels |-> IF c \notin busy /\ after(c) > 0
                                            THEN after(c) - 1 ELSE after(c)]
           /\ UNCHANGED <<deploymentVars, transactionCount, routed, homes>>
        BY <1>3 DEF ActualUpdate
  <2> HIDE DEF entered, after
  <2>4. queued' \in [Channels -> 0 .. TRANS_QUEUE_DEPTH]
    <3>1. \A c \in Channels : (IF c \notin busy /\ after(c) > 0 THEN after(c) - 1 ELSE after(c))
                              \in 0 .. TRANS_QUEUE_DEPTH
          BY <2>1, RoutingAssumption
    <3> QED BY <2>3, <3>1
  <2>5. setAside' \in [Channels -> Nat]
        BY <2>2, <2>3
  <2> QED BY <2>3, <2>4, <2>5 DEF TypeOK, deploymentVars
<1>4. CASE UNCHANGED vars
      BY <1>4 DEF vars, deploymentVars, TypeOK
<1> QED BY <1>1, <1>2, <1>3, <1>4 DEF Next, AddAskingAddress, AddAskingAny

LEMMA InitTypes == Init => TypeOK
<1> SUFFICES ASSUME Init PROVE TypeOK
    OBVIOUS
<1>1. PICK d \in Deployments : scheme = d.scheme /\ callers = d.callers
      BY DEF Init
<1>2. [scheme |-> scheme, callers |-> callers] = d
      BY <1>1, RoutingAssumption
<1>3. 0 \in 0 .. MaxCount /\ 0 \in 0 .. TRANS_QUEUE_DEPTH
      BY RoutingAssumption
<1> QED BY <1>2, <1>3 DEF Init, TypeOK

\* Every variable keeps its type and no transaction queue exceeds its depth,
\* however transactions are added, refused, set aside and scheduled.
THEOREM RoutingTypes == Spec => []TypeOK
<1>1. Init => TypeOK
      BY InitTypes
<1>2. TypeOK /\ [Next]_vars => TypeOK'
      BY NextTypes
<1> QED BY <1>1, <1>2, PTL DEF Spec

-----------------------------------------------------------------------------
\* No other scheme than 8 looks at the count of transactions.
LEMMA CountDoesNotMatter ==
    ASSUME NEW a, NEW s, s # 8, NEW m, NEW n
    PROVE  addressMapping(a, s, m).chan = addressMapping(a, s, n).chan
BY DEF addressMapping, Fields

LEMMA StepKeepsHomes ==
    ASSUME TypeOK, HomeInv, [Next]_vars
    PROVE  HomeInv'
<1> SUFFICES ASSUME scheme' # 8, NEW a \in Address
             PROVE  homes'[a] \subseteq {channelOf(a)'}
    BY DEF HomeInv
<1>1. TypeOK'
      BY NextTypes
<1>2. scheme' = scheme
      BY DEF Next, AddAskingAddress, AddAskingAny, AddAlways, AddOrRetry, ActualUpdate,
             vars, deploymentVars
<1>3. channelOf(a)' = channelOf(a)
  <2>1. /\ channelOf(a) = IF NUM_CHANS = 1 THEN 0
                          ELSE addressMapping(a, scheme, transactionCount).chan
        /\ channelOf(a)' = IF NUM_CHANS = 1 THEN 0
                           ELSE addressMapping(a, scheme, transactionCount').chan
        BY <1>2 DEF channelOf
  <2> QED BY <1>2, <2>1, CountDoesNotMatter
<1>4. homes[a] \subseteq {channelOf(a)}
      BY <1>2 DEF HomeInv
<1>5. CASE \E b \in Address : findChannelNumber(b)
  <2>1. PICK b \in Address : findChannelNumber(b)
        BY <1>5
  <2>2. homes'[a] = IF a = b THEN homes[a] \cup {channelOf(a)} ELSE homes[a]
        BY <2>1 DEF findChannelNumber, TypeOK
  <2> QED BY <1>3, <1>4, <2>2
<1>6. CASE UNCHANGED homes
      BY <1>3, <1>4, <1>6
<1> QED BY <1>5, <1>6 DEF Next, AddAskingAddress, AddAskingAny, AddAlways, AddOrRetry,
           ActualUpdate, vars

\* Under schemes 1 to 7 the transactions of an address all go to one channel,
\* whatever else is in flight.
THEOREM OneChannel == Spec => []OneChannelPerAddress
<1>1. Init => HomeInv
      BY DEF Init, HomeInv
<1>2. TypeOK /\ HomeInv /\ [Next]_vars => HomeInv'
      BY StepKeepsHomes
<1>3. TypeOK /\ HomeInv => OneChannelPerAddress
  <2> SUFFICES ASSUME TypeOK, HomeInv, scheme # 8, NEW a \in Address
               PROVE  Cardinality(homes[a]) <= 1
      BY DEF OneChannelPerAddress
  <2>1. homes[a] = {} \/ homes[a] = {channelOf(a)}
        BY DEF HomeInv
  <2>2. Cardinality({}) = 0 /\ Cardinality({channelOf(a)}) = 1
        BY FS_EmptySet, FS_Singleton
  <2> QED BY <2>1, <2>2
<1> QED BY <1>1, <1>2, <1>3, RoutingTypes, PTL DEF Spec

-----------------------------------------------------------------------------
\* No caller asks about an address where scheme 8 picks among several channels.
NobodyAsksAboutAddresses ==
    \A d \in Deployments : d.scheme = 8 /\ NUM_CHANS # 1 => "address" \notin d.callers

\* Then a caller that was told there is room finds room.
LEMMA ToldRoomIsThere ==
    ASSUME NobodyAsksAboutAddresses, TypeOK, NEW a \in Address,
           AddAskingAddress(a) \/ AddAskingAny(a)
    PROVE  WillAcceptTransaction(channelOf(a))
<1>1. channelOf(a) \in Channels
      BY ChannelOfAddress
<1>2. CASE AddAskingAny(a)
      BY <1>1, <1>2 DEF AddAskingAny, willAcceptAny
<1>3. CASE AddAskingAddress(a)
  <2>1. WillAcceptTransaction(addressMapping(a, scheme, 0).chan)
        BY <1>3 DEF AddAskingAddress, willAcceptAddress
  <2>2. CASE NUM_CHANS = 1
    <3>1. a \in Nat /\ scheme \in Schemes /\ 0 \in Nat
          BY RoutingAssumption DEF TypeOK
    <3>2. addressMapping(a, scheme, 0).chan \in Channels
          BY <3>1, MappedChannel
    <3>3. Channels = {0}
          BY <2>2 DEF Channels
    <3> QED BY <1>1, <2>1, <3>2, <3>3
  <2>3. CASE NUM_CHANS # 1
    <3>1. scheme # 8
      <4> DEFINE d == [scheme |-> scheme, callers |-> callers]
      <4>1. d \in Deployments /\ d.scheme = scheme /\ d.callers = callers
            BY DEF TypeOK
      <4>2. "address" \in callers
            BY <1>3 DEF AddAskingAddress
      <4> QED BY <2>3, <4>1, <4>2 DEF NobodyAsksAboutAddresses
    <3> QED BY <2>1, <2>3, <3>1, CountDoesNotMatter DEF channelOf
  <2> QED BY <2>2, <2>3
<1> QED BY <1>2, <1>3

LEMMA NothingSetAside ==
    ASSUME NobodyAsksAboutAddresses, TypeOK, PromisedRoomExists, [Next]_vars
    PROVE  PromisedRoomExists'
<1>1. ASSUME NEW a \in Address, AddAskingAddress(a) \/ AddAskingAny(a)
      PROVE  UNCHANGED setAside
  <2>1. WillAcceptTransaction(channelOf(a))
        BY <1>1, ToldRoomIsThere
  <2> QED BY <1>1, <2>1 DEF AddAskingAddress, AddAskingAny, AddAlways
<1>2. ASSUME ActualUpdate
      PROVE  UNCHANGED setAside
  <2> DEFINE entered == {c \in Channels : setAside[c] > 0 /\ WillAcceptTransaction(c)}
  <2>1. setAside' = [c \in Channels |-> setAside[c] - (IF c \in entered THEN 1 ELSE 0)]
        BY <1>2 DEF ActualUpdate
  <2>2. \A c \in Channels : c \notin entered
        BY DEF PromisedRoomExists
  <2> HIDE DEF entered
  <2> QED BY <2>1, <2>2 DEF TypeOK
<1>3. UNCHANGED setAside
      BY <1>1, <1>2 DEF Next, AddOrRetry, vars
<1> QED BY <1>3 DEF PromisedRoomExists

\* Unless callers ask about an address while scheme 8 deals transactions out,
\* willAcceptTransaction tells the truth: nothing is ever set aside.
THEOREM RoomIsThere ==
    NobodyAsksAboutAddresses => (Spec => []PromisedRoomExists)
<1> SUFFICES ASSUME NobodyAsksAboutAddresses
             PROVE  Spec => []PromisedRoomExists
    OBVIOUS
<1>1. Init => PromisedRoomExists
      BY DEF Init, PromisedRoomExists
<1>2. TypeOK /\ PromisedRoomExists /\ [Next]_vars => PromisedRoomExists'
      BY NothingSetAside
<1> QED BY <1>1, <1>2, RoutingTypes, PTL DEF Spec

-----------------------------------------------------------------------------
\* One transaction more is one more for the channel whose turn it is.
LEMMA ShareGrows ==
    ASSUME NEW c \in Channels, NEW n \in Nat
    PROVE  /\ Share(c, n) \in Nat
           /\ Share(c, n + 1) = Share(c, n) + One(c = n % NUM_CHANS)
<1> DEFINE d == NUM_CHANS
           q == n \div d
           r == n % d
           q1 == (n + 1) \div d
           r1 == (n + 1) % d
<1>1. q \in Nat /\ r \in 0 .. d - 1 /\ d \in Nat \ {0}
      BY ChannelsExist, DivMod
<1>2. c \in 0 .. d - 1
      BY DEF Channels
<1>3. \/ r < d - 1 /\ r1 = r + 1 /\ q1 = q
      \/ r = d - 1 /\ r1 = 0 /\ q1 = q + 1
      BY ChannelsExist, NextTurn
<1>4. Share(c, n) = q + (IF c < r THEN 1 ELSE 0)
      BY DEF Share, One
<1>5. Share(c, n + 1) = q1 + (IF c < r1 THEN 1 ELSE 0)
      BY DEF Share, One
<1>6. One(c = r) = IF c = r THEN 1 ELSE 0
      BY DEF One
<1> HIDE DEF q, r, q1, r1, d
<1>7. Share(c, n) \in Nat
      BY <1>1, <1>4
<1>8. Share(c, n + 1) = Share(c, n) + One(c = r)
      BY <1>1, <1>2, <1>3, <1>4, <1>5, <1>6
<1> QED BY <1>7, <1>8 DEF r, d

\* Nothing has been dealt at first, and the first turn is channel 0's.
LEMMA ShareOfNone ==
    ASSUME NEW c \in Channels
    PROVE  Share(c, 0) = 0 /\ Share(c, 1) = One(c = 0)
<1>1. 0 \div NUM_CHANS = 0 /\ 0 % NUM_CHANS = 0
      BY ChannelsExist
<1>2. Share(c, 0) = 0
      BY <1>1, ChannelsExist DEF Share, One, Channels
<1>3. Share(c, 0 + 1) = Share(c, 0) + One(c = 0)
      BY <1>1, ShareGrows
<1>4. One(c = 0) \in Nat /\ 0 + 1 = 1
      BY DEF One
<1> QED BY <1>2, <1>3, <1>4

LEMMA StepDeals ==
    ASSUME TypeOK, DealInv, [Next]_vars
    PROVE  DealInv'
<1> SUFFICES ASSUME scheme' = 8, NUM_CHANS # 1
             PROVE  \E first \in Channels : \A c \in Channels :
                       routed'[c] = Share(c, transactionCount')
                                    + (IF transactionCount' = 0 THEN 0
                                       ELSE One(c = first) - One(c = 0))
    BY DEF DealInv, Share
<1>1. scheme' = scheme
      BY DEF Next, AddAskingAddress, AddAskingAny, AddAlways, AddOrRetry, ActualUpdate,
             vars, deploymentVars
<1> DEFINE n == transactionCount
<1>2. n \in Nat
      BY RoutingAssumption DEF TypeOK
<1>3. PICK first \in Channels : \A c \in Channels :
         routed[c] = Share(c, n) + (IF n = 0 THEN 0 ELSE One(c = first) - One(c = 0))
      BY <1>1 DEF DealInv
<1>4. \A x \in BOOLEAN : One(x) \in Int
      BY DEF One
<1>5. CASE \E a \in Address : findChannelNumber(a)
  <2>1. PICK a \in Address : findChannelNumber(a)
        BY <1>5
  <2> DEFINE ch == channelOf(a)
  <2>2. ch \in Channels
        BY ChannelOfAddress
  <2>3. transactionCount' = n + 1 /\ n + 1 # 0
        BY <1>2, <2>1 DEF findChannelNumber
  <2>4. \A c \in Channels : routed'[c] = routed[c] + One(c = ch)
    <3> SUFFICES ASSUME NEW c \in Channels PROVE routed'[c] = routed[c] + One(c = ch)
        OBVIOUS
    <3>1. routed' = [routed EXCEPT ![ch] = @ + 1]
          BY <2>1 DEF findChannelNumber
    <3> HIDE DEF ch
    <3>2. routed'[c] = IF c = ch THEN routed[c] + 1 ELSE routed[c]
          BY <2>2, <3>1 DEF TypeOK
    <3>3. routed[c] \in Nat
          BY DEF TypeOK
    <3> QED BY <3>2, <3>3 DEF One
  <2>5. CASE n = 0
    <3>1. \A c \in Channels : routed'[c] = Share(c, n + 1) + (One(c = ch) - One(c = 0))
      <4> SUFFICES ASSUME NEW c \in Channels
                   PROVE  routed'[c] = Share(c, n + 1) + (One(c = ch) - One(c = 0))
          OBVIOUS
      <4>1. routed[c] = 0 /\ Share(c, n + 1) = One(c = 0)
            BY <1>3, <2>5, ShareOfNone
      <4>2. One(c = ch) \in Int /\ One(c = 0) \in Int
            BY <1>4
      <4> QED BY <2>4, <4>1, <4>2
    <3> QED BY <2>2, <2>3, <3>1
  <2>6. CASE n # 0
    <3>1. ch = n % NUM_CHANS
      <4>1. "chan" \in Fields
            BY DEF Fields
      <4> QED BY <1>1, <2>6, <4>1 DEF channelOf, addressMapping
    <3>2. \A c \in Channels : routed'[c] = Share(c, n + 1) + (One(c = first) - One(c = 0))
      <4> SUFFICES ASSUME NEW c \in Channels
                   PROVE  routed'[c] = Share(c, n + 1) + (One(c = first) - One(c = 0))
          OBVIOUS
      <4>1. /\ Share(c, n) \in Nat
            /\ Share(c, n + 1) = Share(c, n) + One(c = ch)
            BY <1>2, <3>1, ShareGrows
      <4>2. /\ One(c = ch) \in Int /\ One(c = 0) \in Int /\ One(c = first) \in Int
            BY <1>4
      <4>3. routed[c] = Share(c, n) + (One(c = first) - One(c = 0))
            BY <1>3, <2>6
      <4> HIDE DEF ch, n
      <4> QED BY <2>4, <4>1, <4>2, <4>3
    <3> QED BY <2>3, <3>2
  <2> QED BY <2>5, <2>6
<1>6. CASE UNCHANGED <<routed, transactionCount>>
      BY <1>3, <1>6
<1> QED BY <1>5, <1>6 DEF Next, AddAskingAddress, AddAskingAny, AddAlways, AddOrRetry,
           ActualUpdate, vars

\* Under scheme 8 no channel is ever more than two transactions ahead of another.
THEOREM EvenDeal == Spec => []DealtEvenly
<1>1. Init => DealInv
  <2> SUFFICES ASSUME Init PROVE DealInv
      OBVIOUS
  <2>1. \A c \in Channels : routed[c] = 0 /\ Share(c, 0) = 0
        BY ShareOfNone DEF Init
  <2>2. 0 \in Channels /\ transactionCount = 0
        BY ChannelsExist DEF Channels, Init
  <2> QED BY <2>1, <2>2 DEF DealInv
<1>2. TypeOK /\ DealInv /\ [Next]_vars => DealInv'
      BY StepDeals
<1>3. TypeOK /\ DealInv => DealtEvenly
  <2> SUFFICES ASSUME TypeOK, DealInv, scheme = 8, NEW c \in Channels, NEW d \in Channels
               PROVE  routed[c] <= routed[d] + 2
      BY DEF DealtEvenly
  <2>1. CASE NUM_CHANS = 1
    <3>1. c = d /\ routed[c] \in Nat
          BY <2>1 DEF Channels, TypeOK
    <3> QED BY <3>1
  <2>2. CASE NUM_CHANS # 1
    <3> DEFINE n == transactionCount
               q == n \div NUM_CHANS
               r == n % NUM_CHANS
    <3>1. PICK first \in Channels : \A e \in Channels :
             routed[e] = Share(e, n) + (IF n = 0 THEN 0 ELSE One(e = first) - One(e = 0))
          BY <2>2 DEF DealInv
    <3>2. n \in Nat
          BY RoutingAssumption DEF TypeOK
    <3>3. q \in Nat /\ r \in Nat
      <4>1. q \in Nat /\ r \in 0 .. NUM_CHANS - 1
            BY <3>2, ChannelsExist, DivMod
      <4> QED BY <4>1, ChannelsExist
    <3>4. c \in Nat /\ d \in Nat
          BY DEF Channels
    <3>5. \A e \in Channels : Share(e, n) = q + (IF e < r THEN 1 ELSE 0)
          BY DEF Share, One
    <3>6. \A e \in Channels : /\ One(e = first) = IF e = first THEN 1 ELSE 0
                              /\ One(e = 0) = IF e = 0 THEN 1 ELSE 0
          BY DEF One
    <3> HIDE DEF n, q, r
    <3>7. CASE n = 0
      <4>1. /\ routed[c] = q + (IF c < r THEN 1 ELSE 0)
            /\ routed[d] = q + (IF d < r THEN 1 ELSE 0)
            BY <3>1, <3>3, <3>5, <3>7
      <4> QED BY <3>3, <4>1
    <3>8. CASE n # 0
      <4>1. /\ routed[c] = (q + (IF c < r THEN 1 ELSE 0))
                           + ((IF c = first THEN 1 ELSE 0) - (IF c = 0 THEN 1 ELSE 0))
            /\ routed[d] = (q + (IF d < r THEN 1 ELSE 0))
                           + ((IF d = first THEN 1 ELSE 0) - (IF d = 0 THEN 1 ELSE 0))
            BY <3>1, <3>5, <3>6, <3>8
      <4> QED BY <3>3, <3>4, <4>1
    <3> QED BY <3>7, <3>8
  <2> QED BY <2>1, <2>2
<1> QED BY <1>1, <1>2, <1>3, RoutingTypes, PTL DEF Spec
=============================================================================
