-------------------------- MODULE AgreementProofs ---------------------------
(***************************************************************************)
(* How the operations fit together, on whatever values the registers come  *)
(* to hold: the comparison is the exact order, and the neighbours, the     *)
(* selections and the sign of a difference follow it; check_range rounds   *)
(* a result again, into the exponent range, and the two roundings are one; *)
(* no operation treats one sign or one direction of rounding specially;    *)
(* rounding to an integer rounds once, and the parts of a value make it    *)
(* again; an operation with an integer operand is the one on values.  Most *)
(* of it rests on the facts that a number has one rounding and that        *)
(* rounding keeps the order.                                               *)
(***************************************************************************)
EXTENDS CalculatorProofs

-----------------------------------------------------------------------------
(* Comparison and neighbours.                                              *)

\* The magnitude of a normal value in units of 2^t.
MantAt(a, t) == a.mant * Pow2(Scale(a) - t)

\* A value lies in the binade its exponent names.
LEMMA BinadeBounds ==
    ASSUME NEW a, Operand(a), a.kind = "normal", NEW t \in Int, t <= Scale(a)
    PROVE  /\ a.exp - t \in Nat \ {0} /\ MantAt(a, t) \in Nat \ {0}
           /\ Pow2((a.exp - t) - 1) <= MantAt(a, t) /\ MantAt(a, t) < Pow2(a.exp - t)
<1> DEFINE n == Scale(a) - t
<1>1. n \in Nat /\ a.prec + n = a.exp - t
  BY NormalParts
<1> HIDE DEF n
<1>2. /\ a.prec + n \in Nat \ {0} /\ a.mant * Pow2(n) \in Nat \ {0}
      /\ Pow2((a.prec + n) - 1) <= a.mant * Pow2(n) /\ a.mant * Pow2(n) < Pow2(a.prec + n)
  BY <1>1, AlignedLength
<1> QED
  BY <1>1, <1>2 DEF MantAt, n

\* A value of the higher binade is the greater.
LEMMA HigherBinade ==
    ASSUME NEW a, Operand(a), a.kind = "normal", NEW b, Operand(b), b.kind = "normal",
           NEW t \in Int, t <= Scale(a), t <= Scale(b), a.exp < b.exp
    PROVE  MantAt(a, t) < MantAt(b, t)
<1> DEFINE i == a.exp - t
           j == (b.exp - t) - 1
<1>1. /\ i \in Nat \ {0} /\ MantAt(a, t) < Pow2(i) /\ MantAt(a, t) \in Nat
  BY BinadeBounds
<1>2. /\ b.exp - t \in Nat \ {0} /\ Pow2(j) <= MantAt(b, t) /\ MantAt(b, t) \in Nat
  BY BinadeBounds
<1>3. i <= j /\ j \in Nat
  <2>1. a.exp \in Int /\ b.exp \in Int
    BY NormalParts
  <2> QED
    BY <1>1, <1>2, <2>1
<1> HIDE DEF i, j
<1>4. Pow2(i) <= Pow2(j) /\ Pow2(i) \in Nat /\ Pow2(j) \in Nat
  BY <1>1, <1>3, Pow2Split
<1> QED
  BY <1>1, <1>2, <1>4

\* In units of a common last place: in one binade the longer of two values
\* sets the unit.
LEMMA MantAtScaled ==
    ASSUME NEW a, Operand(a), a.kind = "normal", NEW n \in Nat, NEW t \in Int,
           t <= Scale(a) - n
    PROVE  /\ MantAt(a, t) = (a.mant * Pow2(n)) * Pow2((Scale(a) - n) - t)
           /\ a.mant * Pow2(n) \in Nat /\ Pow2((Scale(a) - n) - t) \in Nat \ {0}
<1> DEFINE i == (Scale(a) - n) - t
           N == Pow2(n)
           I == Pow2(i)
<1>1. i \in Nat /\ n + i = Scale(a) - t /\ a.mant \in Nat
  BY NormalParts
<1> HIDE DEF i
<1>2. Pow2(n + i) = N * I /\ N \in Nat /\ I \in Nat \ {0}
  BY <1>1, Pow2Sum, Pow2Type
<1>3. MantAt(a, t) = a.mant * (N * I)
  BY <1>1, <1>2 DEF MantAt
<1> HIDE DEF N, I
<1>4. a.mant * (N * I) = (a.mant * N) * I /\ a.mant * N \in Nat
  BY <1>1, <1>2
<1> QED
  BY <1>2, <1>3, <1>4 DEF N, I, i

\* compareMagnitude (cmp_raw.ts) finds the order of the magnitudes.
LEMMA MagnitudesCompare ==
    ASSUME NEW a, Operand(a), a.kind = "normal", NEW b, Operand(b), b.kind = "normal",
           NEW t \in Int, t <= Scale(a), t <= Scale(b)
    PROVE  CompareMagnitude(a, b) = Sgn(MantAt(a, t) - MantAt(b, t))
<1>1. /\ a.exp \in Int /\ b.exp \in Int /\ a.prec \in Nat /\ b.prec \in Nat
      /\ Scale(a) = a.exp - a.prec /\ Scale(b) = b.exp - b.prec
  BY NormalParts
<1>2. MantAt(a, t) \in Nat /\ MantAt(b, t) \in Nat
  BY BinadeBounds
<1>3. CASE a.exp # b.exp
  <2>1. CompareMagnitude(a, b) = Sgn(a.exp - b.exp)
    BY <1>3 DEF CompareMagnitude
  <2>2. CASE a.exp < b.exp
    <3>1. MantAt(a, t) < MantAt(b, t)
      BY <2>2, HigherBinade
    <3> QED
      BY <1>1, <1>2, <2>1, <2>2, <3>1 DEF Sgn
  <2>3. CASE b.exp < a.exp
    <3>1. MantAt(b, t) < MantAt(a, t)
      BY <2>3, HigherBinade
    <3> QED
      BY <1>1, <1>2, <2>1, <2>3, <3>1 DEF Sgn
  <2> QED
    BY <1>1, <1>3, <2>2, <2>3
<1>4. CASE a.exp = b.exp
  <2> DEFINE p == IF a.prec > b.prec THEN a.prec ELSE b.prec
             i == p - a.prec
             j == p - b.prec
             A == a.mant * Pow2(i)
             B == b.mant * Pow2(j)
             U == Pow2((Scale(a) - i) - t)
  <2>1. CompareMagnitude(a, b) = Sgn(A - B)
    BY <1>4, Zenon DEF CompareMagnitude
  <2>2. /\ i \in Nat /\ j \in Nat /\ t <= Scale(a) - i /\ t <= Scale(b) - j
        /\ Scale(a) - i = Scale(b) - j
    BY <1>1, <1>4
  <2> HIDE DEF p, i, j
  <2>3. MantAt(a, t) = A * U /\ A \in Nat /\ U \in Nat \ {0}
    BY <2>2, MantAtScaled
  <2>4. MantAt(b, t) = B * U /\ B \in Nat
    BY <2>2, MantAtScaled
  <2> HIDE DEF A, B, U
  <2>5. A * U - B * U = (A - B) * U /\ A - B \in Int
    BY <2>3, <2>4
  <2> DEFINE z == A - B
  <2>6. z \in Int /\ Sgn(z * U) = Sgn(z)
    <3>1. z \in Int
      BY <2>5
    <3> HIDE DEF z
    <3> QED
      BY <2>3, <3>1, SgnScale
  <2> QED
    BY <2>1, <2>3, <2>4, <2>5, <2>6
<1> QED
  BY <1>3, <1>4

\* Another mantissa changes nothing else.
LEMMA OtherMantissa ==
    ASSUME NEW v, Operand(v), v.kind = "normal", NEW z
    PROVE  [v EXCEPT !.mant = z] = Normal(v.sign, v.prec, v.exp, z)
<1> DEFINE s == v.sign
           p == v.prec
           e == v.exp
<1>1. v = Normal(s, p, e, v.mant)
  BY Kinds
<1> HIDE DEF s, p, e
<1>2. [v EXCEPT !.mant = z] = Normal(s, p, e, z)
  BY <1>1 DEF Normal
<1> QED
  BY <1>2 DEF s, p, e

\* The mantissa of b with zeros appended to the length p.
Padded(b, p) == b.mant * Pow2(p - b.prec)

\* Against a value that is not longer, compareMagnitude shifts that one only.
LEMMA CompareShorter ==
    ASSUME NEW a, Operand(a), a.kind = "normal", NEW b, Operand(b), b.kind = "normal",
           b.prec <= a.prec
    PROVE  /\ CompareMagnitude(a, b) = IF a.exp # b.exp THEN Sgn(a.exp - b.exp)
                                                     ELSE Sgn(a.mant - Padded(b, a.prec))
           /\ Padded(b, a.prec) \in Pow2(a.prec - 1) .. Pow2(a.prec) - 1
           /\ Pow2(a.prec - 1) \in Nat \ {0} /\ Pow2(a.prec) = 2 * Pow2(a.prec - 1)
           /\ a.mant \in Pow2(a.prec - 1) .. Pow2(a.prec) - 1
           /\ a.exp \in Int /\ b.exp \in Int /\ a.prec \in Nat \ {0}
<1> DEFINE n == a.prec - b.prec
<1>1. /\ a.prec \in Nat \ {0} /\ b.prec \in Nat \ {0} /\ a.exp \in Int /\ b.exp \in Int
      /\ a.mant \in Pow2(a.prec - 1) .. Pow2(a.prec) - 1 /\ a.mant \in Nat
      /\ b.mant \in Pow2(b.prec - 1) .. Pow2(b.prec) - 1
  BY NormalParts
<1>2. n \in Nat /\ b.prec + n = a.prec /\ a.prec - a.prec = 0
  BY <1>1
<1> HIDE DEF n
<1>3. b.mant * Pow2(n) \in Pow2((b.prec + n) - 1) .. Pow2(b.prec + n) - 1
  BY <1>1, <1>2, ShiftedLength
<1>4. Padded(b, a.prec) \in Pow2(a.prec - 1) .. Pow2(a.prec) - 1
  BY <1>2, <1>3 DEF Padded, n
<1>5. Pow2(a.prec - 1) \in Nat \ {0} /\ Pow2(a.prec) = 2 * Pow2(a.prec - 1)
  BY <1>1, LengthBounds
<1>6. CompareMagnitude(a, b) = IF a.exp # b.exp THEN Sgn(a.exp - b.exp)
                                             ELSE Sgn(a.mant - Padded(b, a.prec))
  <2> DEFINE p == IF a.prec > b.prec THEN a.prec ELSE b.prec
  <2>1. p = a.prec
    BY <1>1
  <2>2. CompareMagnitude(a, b) = IF a.exp # b.exp THEN Sgn(a.exp - b.exp)
                                 ELSE Sgn(a.mant * Pow2(p - a.prec) - b.mant * Pow2(p - b.prec))
    BY Zenon DEF CompareMagnitude
  <2> HIDE DEF p
  <2>3. Pow2(p - a.prec) = 1
    BY <1>2, <2>1, Pow2Zero
  <2>4. a.mant * 1 = a.mant
    BY <1>1
  <2> QED
    BY <2>1, <2>2, <2>3, <2>4, Zenon DEF Padded
<1> QED
  BY <1>1, <1>4, <1>5, <1>6

\* The four kinds of step lead to no value beyond another of at most the same
\* precision: the largest value of a precision,
LEMMA LargestIsLargest ==
    ASSUME NEW b, Operand(b), b.kind = "normal", NEW p \in Nat \ {0}, b.prec <= p,
           b.exp <= EMAX_DEFAULT, NEW s \in Sign
    PROVE  CompareMagnitude(Largest(s, p), b) \in {0, 1}
<1> DEFINE a == Largest(s, p)
<1>1. EMAX_DEFAULT \in Int /\ Pow2(p) - 1 \in Pow2(p - 1) .. Pow2(p) - 1
  BY LengthBounds, RangeAssumption
<1>2. Operand(a) /\ a.kind = "normal" /\ a.prec = p /\ a.exp = EMAX_DEFAULT /\ a.mant = Pow2(p) - 1
  BY <1>1, NormalIsOperand DEF Largest
<1> HIDE DEF a
<1>3. /\ CompareMagnitude(a, b) = IF a.exp # b.exp THEN Sgn(a.exp - b.exp)
                                                ELSE Sgn(a.mant - Padded(b, a.prec))
      /\ Padded(b, a.prec) \in Pow2(a.prec - 1) .. Pow2(a.prec) - 1
      /\ Pow2(a.prec - 1) \in Nat \ {0} /\ Pow2(a.prec) = 2 * Pow2(a.prec - 1) /\ b.exp \in Int
  BY <1>2, CompareShorter
<1>4. CompareMagnitude(a, b) \in {0, 1}
  <2> DEFINE B == Padded(b, a.prec)
             H == Pow2(a.prec - 1)
  <2>1. a.mant = 2 * H - 1 /\ B \in H .. 2 * H - 1 /\ H \in Nat \ {0}
    BY <1>2, <1>3
  <2>2. CompareMagnitude(a, b) = IF a.exp # b.exp THEN Sgn(a.exp - b.exp) ELSE Sgn(a.mant - B)
    BY <1>3
  <2> HIDE DEF B, H
  <2> QED
    BY <1>1, <1>2, <1>3, <2>1, <2>2 DEF Sgn
<1> QED
  BY <1>4 DEF a

\* the smallest,
LEMMA SmallestIsSmallest ==
    ASSUME NEW b, Operand(b), b.kind = "normal", NEW p \in Nat \ {0},
           b.prec <= p, b.exp >= EMIN_DEFAULT, NEW s \in Sign
    PROVE  CompareMagnitude(Smallest(s, p), b) \in {-1, 0}
<1> DEFINE a == Smallest(s, p)
<1>1. EMIN_DEFAULT \in Int /\ Pow2(p - 1) \in Pow2(p - 1) .. Pow2(p) - 1
  BY LengthBounds, RangeAssumption DEF EMIN_DEFAULT
<1>2. Operand(a) /\ a.kind = "normal" /\ a.prec = p /\ a.exp = EMIN_DEFAULT /\ a.mant = Pow2(p - 1)
  BY <1>1, NormalIsOperand DEF Smallest
<1> HIDE DEF a
<1>3. /\ CompareMagnitude(a, b) = IF a.exp # b.exp THEN Sgn(a.exp - b.exp)
                                                ELSE Sgn(a.mant - Padded(b, a.prec))
      /\ Padded(b, a.prec) \in Pow2(a.prec - 1) .. Pow2(a.prec) - 1
      /\ Pow2(a.prec - 1) \in Nat \ {0} /\ b.exp \in Int
  BY <1>2, CompareShorter
<1>4. CompareMagnitude(a, b) \in {-1, 0}
  <2> DEFINE B == Padded(b, a.prec)
             H == Pow2(a.prec - 1)
  <2>1. a.mant = H /\ B \in Int /\ B >= H /\ H \in Nat \ {0}
    BY <1>2, <1>3
  <2>2. CompareMagnitude(a, b) = IF a.exp # b.exp THEN Sgn(a.exp - b.exp) ELSE Sgn(a.mant - B)
    BY <1>3
  <2> HIDE DEF B, H
  <2> QED
    BY <1>1, <1>2, <1>3, <2>1, <2>2 DEF Sgn
<1> QED
  BY <1>4 DEF a

\* the next one up,
LEMMA NextStaysBelow ==
    ASSUME NEW a, Operand(a), a.kind = "normal", NEW b, Operand(b), b.kind = "normal",
           b.prec <= a.prec, b.exp <= EMAX_DEFAULT, CompareMagnitude(a, b) = -1
    PROVE  /\ Operand(NextToInf(a)) /\ NextToInf(a).kind = "normal" /\ NextToInf(a).sign = a.sign
           /\ CompareMagnitude(NextToInf(a), b) \in {-1, 0}
<1> DEFINE p == a.prec
           H == Pow2(p - 1)
           B == Padded(b, p)
           m == a.mant
           w == NextToInf(a)
<1>1. /\ CompareMagnitude(a, b) = IF a.exp # b.exp THEN Sgn(a.exp - b.exp) ELSE Sgn(m - B)
      /\ B \in H .. Pow2(p) - 1 /\ H \in Nat \ {0} /\ Pow2(p) = 2 * H
      /\ m \in H .. Pow2(p) - 1 /\ a.exp \in Int /\ b.exp \in Int /\ p \in Nat \ {0}
  BY CompareShorter
<1>2. a.sign \in Sign /\ EMAX_DEFAULT \in Int
  BY NormalParts, RangeAssumption
<1>3. a.exp < b.exp \/ (a.exp = b.exp /\ m < B)
  <2> HIDE DEF m, B, H
  <2> QED
    BY <1>1 DEF Sgn
<1>4. ASSUME NEW e \in Int, NEW M \in H .. Pow2(p) - 1, w = Normal(a.sign, p, e, M),
             e < b.exp \/ (e = b.exp /\ M <= B)
      PROVE  /\ Operand(w) /\ w.kind = "normal" /\ w.sign = a.sign
             /\ CompareMagnitude(w, b) \in {-1, 0}
  <2> HIDE DEF w
  <2>1. /\ Operand(w) /\ w.kind = "normal" /\ w.sign = a.sign /\ w.prec = p /\ w.exp = e
        /\ w.mant = M
    BY <1>1, <1>2, <1>4, NormalIsOperand
  <2>2. CompareMagnitude(w, b) = IF w.exp # b.exp THEN Sgn(w.exp - b.exp)
                                             ELSE Sgn(w.mant - Padded(b, w.prec))
    BY <1>1, <2>1, CompareShorter
  <2>3. CompareMagnitude(w, b) = IF e # b.exp THEN Sgn(e - b.exp) ELSE Sgn(M - B)
    BY <2>1, <2>2
  <2>4. M \in Int /\ B \in Int
    BY <1>1
  <2> HIDE DEF B, H
  <2> QED
    BY <1>1, <1>4, <2>1, <2>3, <2>4 DEF Sgn
<1>5. CASE m + 1 < Pow2(p)
  <2>1. w = [a EXCEPT !.mant = a.mant + 1]
    BY <1>1, <1>5 DEF NextToInf
  <2>2. w = Normal(a.sign, p, a.exp, m + 1)
    BY <2>1, OtherMantissa
  <2> HIDE DEF w
  <2>3. m + 1 \in H .. Pow2(p) - 1 /\ (a.exp < b.exp \/ (a.exp = b.exp /\ m + 1 <= B))
    BY <1>1, <1>3, <1>5
  <2> QED
    BY <1>1, <1>4, <2>2, <2>3 DEF w
<1>6. CASE ~(m + 1 < Pow2(p))
  <2>1. a.exp < b.exp
    BY <1>1, <1>3, <1>6
  <2>2. a.exp # EMAX_DEFAULT
    BY <1>1, <1>2, <2>1
  <2>3. w = Normal(a.sign, p, a.exp + 1, H)
    BY <1>1, <1>6, <2>2 DEF NextToInf
  <2> HIDE DEF w
  <2>4. H \in H .. Pow2(p) - 1 /\ a.exp + 1 \in Int
        /\ (a.exp + 1 < b.exp \/ (a.exp + 1 = b.exp /\ H <= B))
    BY <1>1, <2>1
  <2> QED
    BY <1>4, <2>3, <2>4 DEF w
<1> QED
  BY <1>5, <1>6

\* and the next one down.
LEMMA NextStaysAbove ==
    ASSUME NEW a, Operand(a), a.kind = "normal", NEW b, Operand(b), b.kind = "normal",
           b.prec <= a.prec, b.exp >= EMIN_DEFAULT, CompareMagnitude(a, b) = 1
    PROVE  /\ Operand(NextToZero(a)) /\ NextToZero(a).kind = "normal" /\ NextToZero(a).sign = a.sign
           /\ CompareMagnitude(NextToZero(a), b) \in {0, 1}
<1> DEFINE p == a.prec
           H == Pow2(p - 1)
           B == Padded(b, p)
           m == a.mant
           w == NextToZero(a)
<1>1. /\ CompareMagnitude(a, b) = IF a.exp # b.exp THEN Sgn(a.exp - b.exp) ELSE Sgn(m - B)
      /\ B \in H .. Pow2(p) - 1 /\ H \in Nat \ {0} /\ Pow2(p) = 2 * H
      /\ m \in H .. Pow2(p) - 1 /\ a.exp \in Int /\ b.exp \in Int /\ p \in Nat \ {0}
  BY CompareShorter
<1>2. a.sign \in Sign /\ EMIN_DEFAULT \in Int
  BY NormalParts, RangeAssumption DEF EMIN_DEFAULT
<1>3. b.exp < a.exp \/ (a.exp = b.exp /\ B < m)
  <2> HIDE DEF m, B, H
  <2> QED
    BY <1>1 DEF Sgn
<1>4. ASSUME NEW e \in Int, NEW M \in H .. Pow2(p) - 1, w = Normal(a.sign, p, e, M),
             b.exp < e \/ (e = b.exp /\ B <= M)
      PROVE  /\ Operand(w) /\ w.kind = "normal" /\ w.sign = a.sign
             /\ CompareMagnitude(w, b) \in {0, 1}
  <2> HIDE DEF w
  <2>1. /\ Operand(w) /\ w.kind = "normal" /\ w.sign = a.sign /\ w.prec = p /\ w.exp = e
        /\ w.mant = M
    BY <1>1, <1>2, <1>4, NormalIsOperand
  <2>2. CompareMagnitude(w, b) = IF w.exp # b.exp THEN Sgn(w.exp - b.exp)
                                             ELSE Sgn(w.mant - Padded(b, w.prec))
    BY <1>1, <2>1, CompareShorter
  <2>3. CompareMagnitude(w, b) = IF e # b.exp THEN Sgn(e - b.exp) ELSE Sgn(M - B)
    BY <2>1, <2>2
  <2>4. M \in Int /\ B \in Int
    BY <1>1
  <2> HIDE DEF B, H
  <2> QED
    BY <1>1, <1>4, <2>1, <2>3, <2>4 DEF Sgn
<1>5. CASE m - 1 >= H
  <2>1. w = [a EXCEPT !.mant = a.mant - 1]
    BY <1>1, <1>5 DEF NextToZero
  <2>2. w = Normal(a.sign, p, a.exp, m - 1)
    BY <2>1, OtherMantissa
  <2> HIDE DEF w
  <2>3. m - 1 \in H .. Pow2(p) - 1 /\ (b.exp < a.exp \/ (a.exp = b.exp /\ B <= m - 1))
    BY <1>1, <1>3, <1>5
  <2> QED
    BY <1>1, <1>4, <2>2, <2>3 DEF w
<1>6. CASE ~(m - 1 >= H)
  <2>1. b.exp < a.exp
    BY <1>1, <1>3, <1>6
  <2>2. a.exp # EMIN_DEFAULT
    BY <1>1, <1>2, <2>1
  <2>3. w = Normal(a.sign, p, a.exp - 1, Pow2(p) - 1)
    BY <1>1, <1>6, <2>2 DEF NextToZero
  <2> HIDE DEF w
  <2>4. Pow2(p) - 1 \in H .. Pow2(p) - 1 /\ a.exp - 1 \in Int
        /\ (b.exp < a.exp - 1 \/ (a.exp - 1 = b.exp /\ B <= Pow2(p) - 1))
    BY <1>1, <2>1
  <2> QED
    BY <1>4, <2>3, <2>4 DEF w
<1> QED
  BY <1>5, <1>6

\* compareMPFR, kind by kind.
LEMMA ComparisonTable ==
    ASSUME NEW a, NEW b
    PROVE  /\ a.kind = "zero" /\ b.kind = "zero" => Compare(a, b) = 0
           /\ a.kind = "inf" /\ b.kind = "inf" => Compare(a, b) = IF a.sign = b.sign THEN 0 ELSE a.sign
           /\ a.kind = "inf" /\ b.kind \in {"zero", "normal"} => Compare(a, b) = a.sign
           /\ a.kind \in {"zero", "normal"} /\ b.kind = "inf" => Compare(a, b) = -b.sign
           /\ a.kind = "zero" /\ b.kind = "normal" => Compare(a, b) = -b.sign
           /\ a.kind = "normal" /\ b.kind = "zero" => Compare(a, b) = a.sign
           /\ a.kind = "normal" /\ b.kind = "normal" =>
                 Compare(a, b) = IF a.sign # b.sign THEN a.sign ELSE a.sign * CompareMagnitude(a, b)
  BY DEF Compare

\* A step changes the kind at the end of the range only, and never the sign.
LEMMA NextKinds ==
    ASSUME NEW a, Operand(a), a.kind = "normal"
    PROVE  /\ NextToInf(a).kind \in {"normal", "inf"} /\ NextToInf(a).sign = a.sign
           /\ NextToZero(a).kind \in {"normal", "zero"} /\ NextToZero(a).sign = a.sign
<1>1. /\ a.mant \in Int /\ Pow2(a.prec) \in Int /\ Pow2(a.prec - 1) \in Int
  BY NormalParts, LengthBounds
<1>2. /\ \A z : [a EXCEPT !.mant = z].kind = "normal" /\ [a EXCEPT !.mant = z].sign = a.sign
      /\ \A p, e, m : Normal(a.sign, p, e, m).kind = "normal" /\ Normal(a.sign, p, e, m).sign = a.sign
      /\ \A p : Inf(a.sign, p).kind = "inf" /\ Inf(a.sign, p).sign = a.sign
      /\ \A p : Zero(a.sign, p).kind = "zero" /\ Zero(a.sign, p).sign = a.sign
  <2>1. ASSUME NEW z
        PROVE  [a EXCEPT !.mant = z].kind = "normal" /\ [a EXCEPT !.mant = z].sign = a.sign
    BY OtherMantissa DEF Normal
  <2> QED
    BY <2>1 DEF Normal, Inf, Zero
<1>3. NextToInf(a).kind \in {"normal", "inf"} /\ NextToInf(a).sign = a.sign
  <2>1. CASE a.mant + 1 < Pow2(a.prec)
    <3>1. NextToInf(a) = [a EXCEPT !.mant = a.mant + 1]
      BY <1>1, <2>1 DEF NextToInf
    <3> QED
      BY <1>2, <3>1
  <2>2. CASE ~(a.mant + 1 < Pow2(a.prec)) /\ a.exp = EMAX_DEFAULT
    <3>1. NextToInf(a) = Inf(a.sign, a.prec)
      BY <1>1, <2>2 DEF NextToInf
    <3> QED
      BY <1>2, <3>1
  <2>3. CASE ~(a.mant + 1 < Pow2(a.prec)) /\ a.exp # EMAX_DEFAULT
    <3>1. NextToInf(a) = Normal(a.sign, a.prec, a.exp + 1, Pow2(a.prec - 1))
      BY <1>1, <2>3 DEF NextToInf
    <3> QED
      BY <1>2, <3>1
  <2> QED
    BY <2>1, <2>2, <2>3
<1>4. NextToZero(a).kind \in {"normal", "zero"} /\ NextToZero(a).sign = a.sign
  <2>1. CASE a.mant - 1 >= Pow2(a.prec - 1)
    <3>1. NextToZero(a) = [a EXCEPT !.mant = a.mant - 1]
      BY <1>1, <2>1 DEF NextToZero
    <3> QED
      BY <1>2, <3>1
  <2>2. CASE ~(a.mant - 1 >= Pow2(a.prec - 1)) /\ a.exp = EMIN_DEFAULT
    <3>1. NextToZero(a) = Zero(a.sign, a.prec)
      BY <1>1, <2>2 DEF NextToZero
    <3> QED
      BY <1>2, <3>1
  <2>3. CASE ~(a.mant - 1 >= Pow2(a.prec - 1)) /\ a.exp # EMIN_DEFAULT
    <3>1. NextToZero(a) = Normal(a.sign, a.prec, a.exp - 1, Pow2(a.prec) - 1)
      BY <1>1, <2>3 DEF NextToZero
    <3> QED
      BY <1>2, <3>1
  <2> QED
    BY <2>1, <2>2, <2>3
<1> QED
  BY <1>3, <1>4

\* The two ends of the range as values.
LEMMA EndsOfRange ==
    ASSUME NEW s \in Sign, NEW p
    PROVE  /\ Largest(s, p).kind = "normal" /\ Largest(s, p).sign = s
           /\ Smallest(s, p).kind = "normal" /\ Smallest(s, p).sign = s
  BY DEF Largest, Smallest, Normal

\* A step away from zero stops before every value that lies farther out, or at
\* it.
LEMMA OutwardStep ==
    ASSUME NEW a, Operand(a), a.kind # "nan", NEW b, Operand(b), b.kind # "nan", InRange(b),
           b.kind = "normal" => b.prec <= a.prec,
           a.sign * Compare(a, b) = -1
    PROVE  a.sign * Compare(NextToInf(a), b) \in {-1, 0}
<1> DEFINE s == a.sign
           w == NextToInf(a)
<1>1. /\ a.kind \in {"inf", "zero", "normal"} /\ b.kind \in {"inf", "zero", "normal"}
      /\ s \in Sign /\ b.sign \in Sign /\ a.prec \in Nat \ {0}
  BY Kinds
<1>2. CASE a.kind = "inf"
  BY <1>1, <1>2, ComparisonTable DEF Sign
<1>3. CASE a.kind = "zero"
  <2>1. w = Smallest(s, a.prec)
    BY <1>3 DEF NextToInf
  <2>2. w.kind = "normal" /\ w.sign = s
    BY <1>1, <2>1, EndsOfRange
  <2>3. b.kind = "normal" => CompareMagnitude(w, b) \in {-1, 0}
    <3> SUFFICES ASSUME b.kind = "normal" PROVE CompareMagnitude(w, b) \in {-1, 0}
      OBVIOUS
    <3>1. b.exp >= EMIN_DEFAULT
      BY NormalParts, RangeAssumption DEF InRange, EMIN_DEFAULT
    <3> QED
      BY <1>1, <2>1, <3>1, SmallestIsSmallest
  <2> HIDE DEF w
  <2>4. s * Compare(w, b) \in {-1, 0}
    BY <1>1, <1>3, <2>2, <2>3, ComparisonTable DEF Sign
  <2> QED
    BY <2>4 DEF w
<1>4. CASE a.kind = "normal"
  <2>1. w.kind \in {"normal", "inf"} /\ w.sign = s
    BY <1>4, NextKinds
  <2>2. CASE b.kind = "normal"
    <3>1. b.sign = s /\ CompareMagnitude(a, b) = -1
      <4> DEFINE c == CompareMagnitude(a, b)
      <4>1. c \in {-1, 0, 1}
        BY DEF CompareMagnitude, Sgn
      <4>2. Compare(a, b) = IF a.sign # b.sign THEN a.sign ELSE a.sign * c
        BY <1>4, <2>2, ComparisonTable
      <4> HIDE DEF c
      <4>3. b.sign = s /\ c = -1
        BY <1>1, <4>1, <4>2 DEF Sign
      <4> QED
        BY <4>3 DEF c
    <3>2. b.exp <= EMAX_DEFAULT
      BY <2>2, NormalParts, RangeAssumption DEF InRange, EMIN_DEFAULT
    <3>3. w.kind = "normal" /\ CompareMagnitude(w, b) \in {-1, 0}
      BY <1>4, <2>2, <3>1, <3>2, NextStaysBelow
    <3> HIDE DEF w
    <3>4. Compare(w, b) = s * CompareMagnitude(w, b)
      BY <2>1, <2>2, <3>1, <3>3, ComparisonTable
    <3> QED
      BY <1>1, <3>3, <3>4 DEF Sign, w
  <2>3. CASE b.kind # "normal"
    <3> HIDE DEF w
    <3>1. s * Compare(w, b) \in {-1, 0}
      BY <1>1, <1>4, <2>1, <2>3, ComparisonTable DEF Sign
    <3> QED
      BY <3>1 DEF w
  <2> QED
    BY <2>2, <2>3
<1> QED
  BY <1>1, <1>2, <1>3, <1>4

\* A step towards zero stops before every value that lies farther in or on the
\* other side, or at it.
LEMMA InwardStep ==
    ASSUME NEW a, Operand(a), a.kind # "nan", NEW b, Operand(b), b.kind # "nan", InRange(b),
           b.kind = "normal" => b.prec <= a.prec,
           a.sign * Compare(a, b) = 1
    PROVE  a.sign * Compare(NextToZero(a), b) \in {0, 1}
<1> DEFINE s == a.sign
           w == NextToZero(a)
<1>1. /\ a.kind \in {"inf", "zero", "normal"} /\ b.kind \in {"inf", "zero", "normal"}
      /\ s \in Sign /\ -s \in Sign /\ b.sign \in Sign /\ a.prec \in Nat \ {0}
  BY Kinds, ProductOfSigns
<1>0. b.kind = "normal" => b.exp >= EMIN_DEFAULT /\ b.exp <= EMAX_DEFAULT
  BY NormalParts, RangeAssumption DEF InRange, EMIN_DEFAULT
<1>2. CASE a.kind = "inf"
  <2>1. w = Largest(s, a.prec)
    BY <1>2 DEF NextToZero
  <2>2. w.kind = "normal" /\ w.sign = s
    BY <1>1, <2>1, EndsOfRange
  <2>3. b.kind = "normal" => CompareMagnitude(w, b) \in {0, 1}
    BY <1>0, <1>1, <2>1, LargestIsLargest
  <2> HIDE DEF w
  <2>4. s * Compare(w, b) \in {0, 1}
    BY <1>1, <1>2, <2>2, <2>3, ComparisonTable DEF Sign
  <2> QED
    BY <2>4 DEF w
<1>3. CASE a.kind = "zero"
  <2>1. w = Smallest(-s, a.prec)
    BY <1>3 DEF NextToZero
  <2>2. w.kind = "normal" /\ w.sign = -s
    BY <1>1, <2>1, EndsOfRange
  <2>3. b.kind = "normal" => CompareMagnitude(w, b) \in {-1, 0}
    BY <1>0, <1>1, <2>1, SmallestIsSmallest
  <2> HIDE DEF w
  <2>4. s * Compare(w, b) \in {0, 1}
    BY <1>1, <1>3, <2>2, <2>3, ComparisonTable DEF Sign
  <2> QED
    BY <2>4 DEF w
<1>4. CASE a.kind = "normal"
  <2>1. w.kind \in {"normal", "zero"} /\ w.sign = s
    BY <1>4, NextKinds
  <2>2. CASE b.kind = "normal" /\ b.sign = s
    <3>1. CompareMagnitude(a, b) = 1
      <4> DEFINE c == CompareMagnitude(a, b)
      <4>1. c \in {-1, 0, 1}
        BY DEF CompareMagnitude, Sgn
      <4>2. Compare(a, b) = a.sign * c
        BY <1>4, <2>2, ComparisonTable
      <4> HIDE DEF c
      <4>3. c = 1
        BY <1>1, <4>1, <4>2 DEF Sign
      <4> QED
        BY <4>3 DEF c
    <3>3. w.kind = "normal" /\ CompareMagnitude(w, b) \in {0, 1}
      BY <1>0, <1>4, <2>2, <3>1, NextStaysAbove
    <3> HIDE DEF w
    <3>4. Compare(w, b) = s * CompareMagnitude(w, b)
      BY <2>1, <2>2, <3>3, ComparisonTable
    <3> QED
      BY <1>1, <3>3, <3>4 DEF Sign, w
  <2>3. CASE ~(b.kind = "normal" /\ b.sign = s)
    <3> HIDE DEF w
    <3>1. s * Compare(w, b) \in {0, 1}
      BY <1>1, <1>4, <2>1, <2>3, ComparisonTable DEF Sign
    <3> QED
      BY <3>1 DEF w
  <2> QED
    BY <2>2, <2>3
<1> QED
  BY <1>1, <1>2, <1>3, <1>4

\* The other order.
LEMMA CompareOpposite ==
    ASSUME NEW a, Operand(a), a.kind # "nan", NEW b, Operand(b), b.kind # "nan"
    PROVE  Compare(b, a) = -Compare(a, b) /\ Compare(a, b) \in {-1, 0, 1}
<1>1. /\ a.kind \in {"inf", "zero", "normal"} /\ b.kind \in {"inf", "zero", "normal"}
      /\ a.sign \in Sign /\ b.sign \in Sign
  BY Kinds
<1>2. CASE a.kind = "normal" /\ b.kind = "normal"
  <2>1. PICK t \in Int : t <= Scale(a) /\ t <= Scale(b)
    <3>1. Scale(a) \in Int /\ Scale(b) \in Int
      BY <1>2, NormalParts
    <3> QED
      BY <3>1
  <2> DEFINE A == MantAt(a, t)
             B == MantAt(b, t)
  <2>2. A \in Int /\ B \in Int
    BY <1>2, <2>1, BinadeBounds
  <2>3. CompareMagnitude(a, b) = Sgn(A - B) /\ CompareMagnitude(b, a) = Sgn(B - A)
    BY <1>2, <2>1, MagnitudesCompare
  <2> HIDE DEF A, B
  <2>4. CompareMagnitude(b, a) = -CompareMagnitude(a, b) /\ CompareMagnitude(a, b) \in {-1, 0, 1}
    BY <2>2, <2>3 DEF Sgn
  <2> QED
    BY <1>1, <1>2, <2>4, ComparisonTable DEF Sign
<1>3. CASE ~(a.kind = "normal" /\ b.kind = "normal")
  BY <1>1, <1>3, ComparisonTable DEF Sign
<1> QED
  BY <1>2, <1>3

\* Nothing of at most the same precision lies between a value and nextabove of
\* it, or nextbelow.
LEMMA NextStepsToNearest ==
    ASSUME NEW a, Valid(a), a.kind # "nan", NEW b, Valid(b), b.kind # "nan", InRange(b),
           b.kind = "normal" => b.prec <= a.prec
    PROVE  /\ LessP(a, b) => Compare(NextAbove(a), b) \in {-1, 0}
           /\ GreaterP(a, b) => Compare(NextBelow(a), b) \in {0, 1}
<1> DEFINE out == Compare(NextToInf(a), b)
           in == Compare(NextToZero(a), b)
           c == Compare(a, b)
<1>1. Operand(a) /\ Operand(b) /\ a.sign \in Sign
  BY ValidIsOperand, Kinds
<1>2. out \in Int /\ in \in Int /\ c \in Int
  <2>1. \A w : Valid(w) => Compare(w, b) \in Int
    BY CompareOrders DEF Unordered
  <2>2. Valid(NextToInf(a)) /\ Valid(NextToZero(a))
    BY NextIsValid
  <2> QED
    BY <2>1, <2>2
<1>3. a.sign * c = -1 => a.sign * out \in {-1, 0}
  BY <1>1, OutwardStep
<1>4. a.sign * c = 1 => a.sign * in \in {0, 1}
  BY <1>1, InwardStep
<1>5. /\ NextAbove(a) = (IF a.sign = -1 THEN NextToZero(a) ELSE NextToInf(a))
      /\ NextBelow(a) = (IF a.sign = -1 THEN NextToInf(a) ELSE NextToZero(a))
  BY DEF NextAbove, NextBelow
<1>6. CASE a.sign = 1
  <2>1. Compare(NextAbove(a), b) = out /\ Compare(NextBelow(a), b) = in
    BY <1>5, <1>6
  <2> HIDE DEF out, in
  <2>2. /\ c = -1 => out \in {-1, 0}
        /\ c = 1 => in \in {0, 1}
    BY <1>2, <1>3, <1>4, <1>6
  <2> QED
    BY <2>1, <2>2 DEF LessP, GreaterP
<1>7. CASE a.sign = -1
  <2>1. Compare(NextAbove(a), b) = in /\ Compare(NextBelow(a), b) = out
    BY <1>5, <1>7
  <2> HIDE DEF out, in
  <2>2. /\ c = -1 => in \in {-1, 0}
        /\ c = 1 => out \in {0, 1}
    <3> HIDE DEF c
    <3> QED
      BY <1>2, <1>3, <1>4, <1>7
  <2> QED
    BY <2>1, <2>2 DEF LessP, GreaterP
<1> QED
  BY <1>1, <1>6, <1>7 DEF Sign

\* The invariant of a walk: its two ends are values of the exponent range.
WalkInv == Valid(x) /\ Valid(y) /\ InRange(x) /\ InRange(y)

\* A step stays in the exponent range.
LEMMA StepInRange ==
    ASSUME NEW v, Operand(v), InRange(v)
    PROVE  InRange(NextToInf(v)) /\ InRange(NextToZero(v))
<1>1. EMAX_DEFAULT \in Nat \ {0} /\ EMIN_DEFAULT = -EMAX_DEFAULT
  BY RangeAssumption DEF EMIN_DEFAULT
<1>2. CASE v.kind = "nan"
  BY <1>2, <1>1 DEF NextToInf, NextToZero, NAN_VALUE, InRange
<1>3. CASE v.kind = "inf"
  <2>1. NextToInf(v) = v /\ NextToZero(v) = Largest(v.sign, v.prec)
    BY <1>3 DEF NextToInf, NextToZero
  <2>2. Largest(v.sign, v.prec).exp = EMAX_DEFAULT
    BY DEF Largest, Normal
  <2> QED
    BY <1>1, <2>1, <2>2 DEF InRange
<1>4. CASE v.kind = "zero"
  <2>1. NextToInf(v) = Smallest(v.sign, v.prec) /\ NextToZero(v) = Smallest(-v.sign, v.prec)
    BY <1>4 DEF NextToInf, NextToZero
  <2>2. \A s : Smallest(s, v.prec).exp = EMIN_DEFAULT
    BY DEF Smallest, Normal
  <2> QED
    BY <1>1, <2>1, <2>2 DEF InRange
<1>5. CASE v.kind = "normal"
  <2>1. /\ v.mant \in Int /\ Pow2(v.prec) \in Int /\ Pow2(v.prec - 1) \in Int
        /\ v.exp \in EMIN_DEFAULT .. EMAX_DEFAULT
    BY <1>5, NormalParts, LengthBounds DEF InRange
  <2>2. \A z : [v EXCEPT !.mant = z].exp = v.exp
    BY <1>5, OtherMantissa DEF Normal
  <2>3. /\ \A p, e, m : Normal(v.sign, p, e, m).exp = e
        /\ \A p : Inf(v.sign, p).kind = "inf" /\ Zero(v.sign, p).kind = "zero"
    BY DEF Normal, Inf, Zero
  <2>4. InRange(NextToInf(v))
    <3>1. CASE v.mant + 1 < Pow2(v.prec)
      <4>1. NextToInf(v) = [v EXCEPT !.mant = v.mant + 1]
        BY <1>5, <2>1, <3>1 DEF NextToInf
      <4> QED
        BY <2>1, <2>2, <4>1 DEF InRange
    <3>2. CASE ~(v.mant + 1 < Pow2(v.prec)) /\ v.exp = EMAX_DEFAULT
      <4>1. NextToInf(v) = Inf(v.sign, v.prec)
        BY <1>5, <2>1, <3>2 DEF NextToInf
      <4> QED
        BY <2>3, <4>1 DEF InRange
    <3>3. CASE ~(v.mant + 1 < Pow2(v.prec)) /\ v.exp # EMAX_DEFAULT
      <4>1. NextToInf(v) = Normal(v.sign, v.prec, v.exp + 1, Pow2(v.prec - 1))
        BY <1>5, <2>1, <3>3 DEF NextToInf
      <4>2. v.exp + 1 \in EMIN_DEFAULT .. EMAX_DEFAULT
        BY <1>1, <2>1, <3>3
      <4> QED
        BY <2>3, <4>1, <4>2 DEF InRange
    <3> QED
      BY <3>1, <3>2, <3>3
  <2>5. InRange(NextToZero(v))
    <3>1. CASE v.mant - 1 >= Pow2(v.prec - 1)
      <4>1. NextToZero(v) = [v EXCEPT !.mant = v.mant - 1]
        BY <1>5, <2>1, <3>1 DEF NextToZero
      <4> QED
        BY <2>1, <2>2, <4>1 DEF InRange
    <3>2. CASE ~(v.mant - 1 >= Pow2(v.prec - 1)) /\ v.exp = EMIN_DEFAULT
      <4>1. NextToZero(v) = Zero(v.sign, v.prec)
        BY <1>5, <2>1, <3>2 DEF NextToZero
      <4> QED
        BY <2>3, <4>1 DEF InRange
    <3>3. CASE ~(v.mant - 1 >= Pow2(v.prec - 1)) /\ v.exp # EMIN_DEFAULT
      <4>1. NextToZero(v) = Normal(v.sign, v.prec, v.exp - 1, Pow2(v.prec) - 1)
        BY <1>5, <2>1, <3>3 DEF NextToZero
      <4>2. v.exp - 1 \in EMIN_DEFAULT .. EMAX_DEFAULT
        BY <1>1, <2>1, <3>3
      <4> QED
        BY <2>3, <4>1, <4>2 DEF InRange
    <3> QED
      BY <3>1, <3>2, <3>3
  <2> QED
    BY <2>4, <2>5
<1> QED
  BY <1>2, <1>3, <1>4, <1>5, Kinds

\* The values a walk starts from are in the exponent range.
LEMMA ValuesAreInRange ==
    ASSUME NEW w, \E n \in Nat : w \in ValuesUpTo(n)
    PROVE  InRange(w)
<1>1. \A s, p : Inf(s, p).kind = "inf" /\ Zero(s, p).kind = "zero"
  BY DEF Inf, Zero
<1>2. \A s, p, e, m : Normal(s, p, e, m).exp = e
  BY DEF Normal
<1>3. NAN_VALUE.kind = "nan"
  BY DEF NAN_VALUE
<1>4. PICK n \in Nat : w \in ValuesUpTo(n)
  OBVIOUS
<1>5. CASE w = NAN_VALUE
  BY <1>3, <1>5 DEF InRange
<1>6. CASE \E p \in 1 .. n : w \in Normals(p)
  <2>1. PICK p \in 1 .. n : w \in Normals(p)
    BY <1>6
  <2>2. PICK s \in Sign, e \in EMIN_DEFAULT..EMAX_DEFAULT, m \in Pow2(p - 1) .. Pow2(p) - 1 :
           w = Normal(s, p, e, m)
    BY <2>1 DEF Normals
  <2> QED
    BY <1>2, <2>2 DEF InRange
<1>7. CASE \E p \in 1 .. n : w \in Specials(p)
  BY <1>1, <1>7 DEF Specials, InRange
<1> QED
  BY <1>4, <1>5, <1>6, <1>7 DEF ValuesUpTo

\* A walk never passes its goal: nexttoward leaves a register on its side of the
\* other, or equal to it, whatever kinds and binades it goes through.
THEOREM WalksNeverPass == WalkSpec => WalkNeverPasses
<1>1. Strolling => WalkInv
  <2> SUFFICES ASSUME Strolling
               PROVE  WalkInv
    OBVIOUS
  <2>1. PREC_MAX \in Nat /\ TARGET_PREC \in 1 .. PREC_MAX
    BY PrecAssumption, BoundsAssumption DEF Precision
  <2>2. x \in ValuesUpTo(PREC_MAX) /\ y \in ValuesUpTo(TARGET_PREC) /\ TARGET_PREC \in Nat
    BY <2>1 DEF Strolling, Values
  <2>3. y \in ValuesUpTo(PREC_MAX)
    <3>1. 1 .. TARGET_PREC \subseteq 1 .. PREC_MAX
      BY <2>1
    <3> QED
      BY <2>2, <3>1 DEF ValuesUpTo
  <2>4. Valid(x) /\ Valid(y)
    BY <2>2, <2>3, ValuesAreValid DEF Values
  <2>5. InRange(x) /\ InRange(y)
    BY <2>1, <2>2, ValuesAreInRange
  <2> QED
    BY <2>4, <2>5 DEF WalkInv
<1>2. WalkInv /\ [Walk]_vars => WalkInv'
  <2> SUFFICES ASSUME WalkInv, [Walk]_vars
               PROVE  WalkInv'
    OBVIOUS
  <2>1. Operand(x) /\ Operand(y)
    BY ValidIsOperand DEF WalkInv
  <2>2. CASE Walk
    <3>1. x' = NextToward(x, y) /\ y' = y
      BY <2>2 DEF Walk, mpfr_nexttoward, Store
    <3>2. Valid(NextToward(x, y))
      BY NextTowardIsValid DEF WalkInv
    <3>3. InRange(NextToInf(x)) /\ InRange(NextToZero(x)) /\ InRange(x)
      BY <2>1, StepInRange DEF WalkInv
    <3>4. InRange(NAN_VALUE)
      BY DEF NAN_VALUE, InRange
    <3>5. Compare(x, y) \in {-1, 0, 1} \/ UnorderedP(x, y)
      BY CompareOrders DEF WalkInv
    <3>6. NextToward(x, y) \in {NAN_VALUE, x, NextToInf(x), NextToZero(x)}
      BY <3>5 DEF NextToward, NextAbove, NextBelow, LessP, GreaterP, EqualP
    <3>7. InRange(NextToward(x, y))
      BY <3>3, <3>4, <3>6
    <3> QED
      BY <3>1, <3>2, <3>7 DEF WalkInv
  <2>3. CASE UNCHANGED vars
    BY <2>3 DEF WalkInv, vars
  <2> QED
    BY <2>2, <2>3
<1>3. WalkInv /\ [Walk]_vars => [OnGrid => Compare(x', y) \in {0, Compare(x, y)}]_vars
  <2> SUFFICES ASSUME WalkInv, Walk, OnGrid
               PROVE  Compare(x', y) \in {0, Compare(x, y)}
    OBVIOUS
  <2>1. x' = NextToward(x, y)
    BY DEF Walk, mpfr_nexttoward, Store
  <2>2. x.kind # "nan" /\ y.kind # "nan" /\ Valid(x) /\ Valid(y) /\ InRange(y)
    BY DEF OnGrid, UnorderedP, WalkInv
  <2>3. Compare(x, y) \in {-1, 0, 1}
    BY <2>2, CompareOpposite, ValidIsOperand
  <2>4. /\ LessP(x, y) => Compare(NextAbove(x), y) \in {-1, 0}
        /\ GreaterP(x, y) => Compare(NextBelow(x), y) \in {0, 1}
    BY <2>2, NextStepsToNearest DEF OnGrid
  <2>5. CASE Compare(x, y) = -1
    BY <2>1, <2>4, <2>5 DEF OnGrid, NextToward, LessP, EqualP, GreaterP
  <2>6. CASE Compare(x, y) = 0
    BY <2>1, <2>4, <2>6 DEF OnGrid, NextToward, LessP, EqualP, GreaterP
  <2>7. CASE Compare(x, y) = 1
    BY <2>1, <2>4, <2>7 DEF OnGrid, NextToward, LessP, EqualP, GreaterP
  <2> QED
    BY <2>3, <2>5, <2>6, <2>7
<1> QED
  BY <1>1, <1>2, <1>3, PTL DEF WalkSpec, WalkNeverPasses

-----------------------------------------------------------------------------
(* Rounding and the exponent range.                                        *)

\* A rounded magnitude is in the binade of its mantissa, in the one below it or
\* at the upper end: rounding crosses a power of two only to stop there.
LEMMA RoundsInBinade ==
    ASSUME NEW H \in Nat \ {0}, NEW M \in H .. 2 * H - 1, NEW g \in Nat \ {0}, NEW A \in Nat,
           NEW sign \in Sign, NEW t, NEW rnd \in RoundingMode, RoundsTo(M, H, g, A, sign, t, rnd)
    PROVE  /\ 2 * (H * g) < A /\ A < 8 * (H * g)
           /\ A <= 4 * (H * g) => M = H
<1> DEFINE hg == H * g
           x4 == (M - H) * g
           y4 == (2 * H - 1 - M) * g
<1>1. hg \in Nat /\ hg >= g /\ x4 \in Nat /\ y4 \in Nat /\ M \in Nat /\ g >= 1
  <2>1. M - H \in Nat /\ 2 * H - 1 - M \in Nat /\ H - 1 \in Nat
    OBVIOUS
  <2>2. x4 \in Nat /\ y4 \in Nat /\ (H - 1) * g \in Nat
    BY <2>1
  <2>3. (H - 1) * g = hg - g /\ hg \in Int
    OBVIOUS
  <2> QED
    BY <2>2, <2>3
<1>2. M * g = hg + x4 /\ M * g = 2 * hg - g - y4 /\ M * g \in Nat
  OBVIOUS
<1>3. M # H => x4 >= g
  <2> SUFFICES ASSUME M # H PROVE x4 >= g
    OBVIOUS
  <2>1. M - H - 1 \in Nat
    OBVIOUS
  <2>2. (M - H - 1) * g \in Nat /\ (M - H - 1) * g = x4 - g
    BY <2>1
  <2> QED
    BY <1>1, <2>2
<1> DEFINE mg == M * g
<1>4. /\ (4 * M) * g = 4 * mg /\ (4 * M + 4) * g = 4 * mg + 4 * g /\ (4 * M + 2) * g = 4 * mg + 2 * g
      /\ (4 * M - 1) * g = 4 * mg - g /\ (4 * M - 2) * g = 4 * mg - 2 * g
      /\ (4 * M - 4) * g = 4 * mg - 4 * g
  BY <1>1
<1>5. \/ Off(4 * M, g, A) <= 0 /\ Off(4 * M + 4, g, A) > 0
      \/ Off(4 * M, g, A) >= 0 /\ Off(IF M = H THEN 4 * M - 2 ELSE 4 * M - 4, g, A) < 0
      \/ Off(4 * M + 2, g, A) >= 0 /\ Off(IF M = H THEN 4 * M - 1 ELSE 4 * M - 2, g, A) <= 0
  BY DEF RoundsTo, RoundingMode, Sign
<1> HIDE DEF hg, x4, y4, mg
<1>6. mg \in Nat /\ mg = hg + x4 /\ mg = 2 * hg - g - y4
  BY <1>2 DEF mg
<1>7. \/ 4 * mg <= A /\ 4 * mg + 4 * g > A
      \/ 4 * mg >= A /\ (IF M = H THEN 4 * mg - 2 * g ELSE 4 * mg - 4 * g) < A
      \/ 4 * mg + 2 * g >= A /\ (IF M = H THEN 4 * mg - g ELSE 4 * mg - 2 * g) <= A
  <2>1. \A z \in Int : (Sgn(z) <= 0 <=> z <= 0) /\ (Sgn(z) >= 0 <=> z >= 0)
                       /\ (Sgn(z) < 0 <=> z < 0) /\ (Sgn(z) > 0 <=> z > 0)
    BY DEF Sgn
  <2>2. /\ Off(4 * M, g, A) = Sgn(4 * mg - A) /\ Off(4 * M + 4, g, A) = Sgn(4 * mg + 4 * g - A)
        /\ Off(4 * M + 2, g, A) = Sgn(4 * mg + 2 * g - A) /\ Off(4 * M - 1, g, A) = Sgn(4 * mg - g - A)
        /\ Off(4 * M - 2, g, A) = Sgn(4 * mg - 2 * g - A)
        /\ Off(4 * M - 4, g, A) = Sgn(4 * mg - 4 * g - A)
    BY <1>4 DEF Off
  <2>3. /\ 4 * mg - A \in Int /\ 4 * mg + 4 * g - A \in Int /\ 4 * mg + 2 * g - A \in Int
        /\ 4 * mg - g - A \in Int /\ 4 * mg - 2 * g - A \in Int /\ 4 * mg - 4 * g - A \in Int
    BY <1>6
  <2>4. /\ (Off(4 * M, g, A) <= 0 <=> 4 * mg <= A) /\ (Off(4 * M, g, A) >= 0 <=> 4 * mg >= A)
        /\ (Off(4 * M + 4, g, A) > 0 <=> 4 * mg + 4 * g > A)
        /\ (Off(4 * M + 2, g, A) >= 0 <=> 4 * mg + 2 * g >= A)
        /\ (Off(4 * M - 1, g, A) <= 0 <=> 4 * mg - g <= A)
        /\ (Off(4 * M - 2, g, A) <= 0 <=> 4 * mg - 2 * g <= A)
        /\ (Off(4 * M - 2, g, A) < 0 <=> 4 * mg - 2 * g < A)
        /\ (Off(4 * M - 4, g, A) < 0 <=> 4 * mg - 4 * g < A)
    <3>1. \A z \in Int : (z <= 0 <=> Sgn(z) <= 0)
      BY <2>1
    <3>2. (4 * mg - A <= 0 <=> 4 * mg <= A) /\ (4 * mg - A >= 0 <=> 4 * mg >= A)
          /\ (4 * mg + 4 * g - A > 0 <=> 4 * mg + 4 * g > A)
          /\ (4 * mg + 2 * g - A >= 0 <=> 4 * mg + 2 * g >= A)
          /\ (4 * mg - g - A <= 0 <=> 4 * mg - g <= A)
          /\ (4 * mg - 2 * g - A <= 0 <=> 4 * mg - 2 * g <= A)
          /\ (4 * mg - 2 * g - A < 0 <=> 4 * mg - 2 * g < A)
          /\ (4 * mg - 4 * g - A < 0 <=> 4 * mg - 4 * g < A)
      BY <1>6
    <3> QED
      BY <2>1, <2>2, <2>3, <3>2
  <2>5. CASE M = H
    BY <1>5, <2>4, <2>5
  <2>6. CASE M # H
    BY <1>5, <2>4, <2>6
  <2> QED
    BY <2>5, <2>6
<1>8. 2 * hg < A /\ A < 8 * hg
  BY <1>1, <1>3, <1>6, <1>7
<1>9. A <= 4 * hg => M = H
  BY <1>1, <1>3, <1>6, <1>7
<1> QED
  BY <1>8, <1>9 DEF hg

\* A magnitude rounded up to a power of two: it is so in the modes that may, it
\* was not below the predecessor and, to nearest, not below the midpoint.
LEMMA RoundsUpToPower ==
    ASSUME NEW H \in Nat \ {0}, NEW g \in Nat \ {0}, NEW A \in Nat, A < 4 * (H * g),
           NEW sign \in Sign, NEW t, NEW rnd \in RoundingMode, RoundsTo(H, H, g, A, sign, t, rnd)
    PROVE  /\ t = sign /\ ~IsLikeRNDZ(rnd, sign)
           /\ (4 * H - 2) * g <= A
           /\ rnd = "RNDN" => (4 * H - 1) * g <= A
<1> DEFINE hg == H * g
<1>1. hg \in Nat /\ g \in Nat \ {0} /\ (4 * H) * g = 4 * hg /\ (4 * H - 1) * g = 4 * hg - g
      /\ (4 * H - 2) * g = 4 * hg - 2 * g
  OBVIOUS
<1>2. A < 4 * hg
  OBVIOUS
<1> HIDE DEF hg
<1>3. /\ Off(4 * H, g, A) = Sgn(4 * hg - A) /\ Off(4 * H - 1, g, A) = Sgn(4 * hg - g - A)
      /\ Off(4 * H - 2, g, A) = Sgn(4 * hg - 2 * g - A)
  BY <1>1 DEF Off
<1>4. Off(4 * H, g, A) = 1
  BY <1>1, <1>2, <1>3 DEF Sgn
<1>5. /\ Off(4 * H - 1, g, A) <= 0 => 4 * hg - g <= A
      /\ Off(4 * H - 2, g, A) < 0 => 4 * hg - 2 * g <= A
  BY <1>1, <1>3 DEF Sgn
<1>6. /\ t = sign * Off(4 * H, g, A)
      /\ rnd = "RNDZ" => Off(4 * H, g, A) <= 0
      /\ rnd = "RNDA" => Off(4 * H - 2, g, A) < 0
      /\ rnd = "RNDD" => IF sign = 1 THEN Off(4 * H, g, A) <= 0 ELSE Off(4 * H - 2, g, A) < 0
      /\ rnd = "RNDU" => IF sign = 1 THEN Off(4 * H - 2, g, A) < 0 ELSE Off(4 * H, g, A) <= 0
      /\ rnd = "RNDN" => Off(4 * H - 1, g, A) <= 0
  BY DEF RoundsTo
<1>7. t = sign
  BY <1>4, <1>6 DEF Sign
<1>8. ~IsLikeRNDZ(rnd, sign)
  BY <1>4, <1>6 DEF IsLikeRNDZ, Sign
<1>9. rnd = "RNDN" => (4 * H - 1) * g <= A
  BY <1>1, <1>5, <1>6
<1>10. rnd # "RNDN" => (4 * H - 2) * g <= A
  BY <1>1, <1>4, <1>5, <1>6 DEF RoundingMode, Sign
<1> QED
  BY <1>1, <1>7, <1>8, <1>9, <1>10

\* The order of two powers of two is that of their exponents.
LEMMA UnitOrder ==
    ASSUME NEW D \in Nat \ {0}, NEW b \in Int, NEW i \in Int, NEW j \in Int, b <= i, b <= j
    PROVE  /\ D * Pow2(i - b) \in Nat \ {0} /\ D * Pow2(j - b) \in Nat \ {0}
           /\ i <= j => D * Pow2(i - b) <= D * Pow2(j - b)
           /\ D * Pow2(i - b) < D * Pow2(j - b) => i < j
<1> DEFINE di == i - b
           dj == j - b
<1>1. di \in Nat /\ dj \in Nat /\ (i <= j <=> di <= dj)
  OBVIOUS
<1> HIDE DEF di, dj
<1>2. ASSUME NEW u \in Nat, NEW v \in Nat, u <= v
      PROVE  D * Pow2(u) <= D * Pow2(v) /\ D * Pow2(u) \in Nat \ {0} /\ D * Pow2(v) \in Nat \ {0}
  <2> DEFINE U == Pow2(u)
             V == Pow2(v)
  <2>1. U <= V /\ U \in Nat \ {0} /\ V \in Nat \ {0}
    BY <1>2, Pow2Split
  <2> HIDE DEF U, V
  <2>2. D * (V - U) \in Nat /\ D * (V - U) = D * V - D * U /\ D * U \in Nat \ {0} /\ D * V \in Nat \ {0}
    <3>1. V - U \in Nat
      BY <2>1
    <3>2. D * (V - U) \in Nat
      BY <3>1
    <3>3. D * (V - U) = D * V - D * U
      BY <2>1
    <3>4. \A w \in Nat \ {0} : D * w \in Nat \ {0}
      BY ProductSign
    <3> QED
      BY <2>1, <3>2, <3>3, <3>4
  <2>3. D * U <= D * V
    BY <2>2
  <2> QED
    BY <2>2, <2>3 DEF U, V
<1>3. D * Pow2(di) \in Nat \ {0} /\ D * Pow2(dj) \in Nat \ {0}
  BY <1>1, <1>2
<1>4. /\ di <= dj => D * Pow2(di) <= D * Pow2(dj)
      /\ dj <= di => D * Pow2(dj) <= D * Pow2(di)
  BY <1>1, <1>2
<1>5. i >= j => dj <= di
  BY <1>1 DEF di, dj
<1> QED
  BY <1>1, <1>3, <1>4, <1>5 DEF di, dj

\* 2^j / D-th of the units of 2^b.
Unit(j, D, b) == D * Pow2(j - b)

\* How a magnitude A lies to a power of two, from its rounding to E and M.
PlacedBy(E, M, q, sign, t, rnd, A, j, D, b) ==
    /\ A < Unit(j, D, b) => E - 2 < j
    /\ Unit(j, D, b) <= A => j < E
    /\ E <= j => A < Unit(j, D, b)
    /\ j <= E - 2 => Unit(j, D, b) < A
    /\ j = E - 1 => (A <= Unit(j, D, b) <=> M = Pow2(q - 1) /\ sign * t >= 0)
    /\ j = E - 1 /\ A < Unit(j, D, b) =>
          /\ M = Pow2(q - 1) /\ t = sign /\ ~IsLikeRNDZ(rnd, sign)
          /\ (Pow2(q) - 1) * Unit(j - q, D, b) <= A
          /\ rnd = "RNDN" => (2 * Pow2(q) - 1) * Unit(j - q - 1, D, b) <= A

\* What the rounded value tells of the exact one near a power of two.
LEMMA RoundedPlaces ==
    ASSUME NEW res, NEW sign \in Sign, NEW q \in Nat \ {0}, NEW rnd \in RoundingMode,
           NEW m \in Nat \ {0}, NEW l \in Int, NEW D \in Nat \ {0},
           RoundedTo(res, sign, q, rnd, m, l, D),
           NEW E, NEW M, E = res.value.exp, M = res.value.mant,
           NEW b \in Int, b <= l, b <= E - q - 2, NEW j \in Int, b <= j
    PROVE  PlacedBy(E, M, q, sign, res.ternary, rnd, m * Pow2(l - b), j, D, b)
<1> DEFINE H == Pow2(q - 1)
           g == Unit(E - q - 2, D, b)
           A == m * Pow2(l - b)
           t == res.ternary
           hg == H * g
           U == Unit(j, D, b)
<1>1. H \in Nat \ {0} /\ Pow2(q) = 2 * H /\ E \in Int /\ M \in H .. 2 * H - 1
  BY LengthBounds DEF RoundedTo
<1>2. A \in Nat
  <2> DEFINE i == l - b
  <2>1. i \in Nat
    OBVIOUS
  <2> HIDE DEF i
  <2>2. Pow2(i) \in Nat
    BY <2>1, Pow2Type
  <2>3. m * Pow2(i) \in Nat
    BY <2>2
  <2> QED
    BY <2>3 DEF i
<1>3. g \in Nat \ {0} /\ U \in Nat \ {0} /\ b <= E - q - 2 /\ E - q - 2 \in Int
  <2>1. b <= E - q - 2 /\ E - q - 2 \in Int
    BY <1>1
  <2> QED
    BY <2>1, UnitOrder DEF Unit
<1>4. RoundsTo(M, H, g, A, sign, t, rnd)
  BY <1>1 DEF RoundedTo, Unit
<1>5. /\ Unit(E - 2, D, b) = 2 * hg /\ Unit(E - 1, D, b) = 4 * hg /\ Unit(E, D, b) = 8 * hg
      /\ Unit(E - q - 1, D, b) = 2 * g
  <2> DEFINE d == E - q - 2 - b
             G == Pow2(d)
  <2>1. d \in Nat /\ q - 1 \in Nat /\ (q - 1) + d \in Nat
        /\ E - 2 - b = ((q - 1) + d) + 1 /\ E - 1 - b = ((q - 1) + d) + 2
        /\ E - b = (((q - 1) + d) + 2) + 1 /\ E - q - 1 - b = d + 1
        /\ ((q - 1) + d) + 2 \in Nat
    BY <1>1
  <2>2. g = D * Pow2(d)
    BY DEF Unit
  <2> HIDE DEF d
  <2>3. /\ G \in Nat \ {0} /\ Pow2((q - 1) + d) = H * G
        /\ Pow2(((q - 1) + d) + 1) = 2 * Pow2((q - 1) + d)
        /\ Pow2(((q - 1) + d) + 2) = 4 * Pow2((q - 1) + d)
        /\ Pow2((((q - 1) + d) + 2) + 1) = 2 * Pow2(((q - 1) + d) + 2)
        /\ Pow2(d + 1) = 2 * G
    <3>1. G \in Nat \ {0} /\ Pow2((q - 1) + d) = H * G
      BY <2>1, Pow2Type, Pow2Sum
    <3>2. Pow2(((q - 1) + d) + 1) = 2 * Pow2((q - 1) + d) /\ Pow2(((q - 1) + d) + 2) = 4 * Pow2((q - 1) + d)
      BY <2>1, Pow2Quarter
    <3>3. Pow2((((q - 1) + d) + 2) + 1) = 2 * Pow2(((q - 1) + d) + 2) /\ Pow2(d + 1) = 2 * G
      BY <2>1, Pow2Step
    <3> QED
      BY <3>1, <3>2, <3>3
  <2>4. Unit(E - 2, D, b) = D * (2 * (H * G)) /\ Unit(E - 1, D, b) = D * (4 * (H * G))
        /\ Unit(E, D, b) = D * (2 * (4 * (H * G))) /\ Unit(E - q - 1, D, b) = D * (2 * G)
    BY <2>1, <2>3 DEF Unit
  <2> HIDE DEF H, G, g
  <2>5. hg = H * (D * G)
    BY <2>2 DEF G
  <2>6. /\ D * (2 * (H * G)) = 2 * (H * (D * G)) /\ D * (4 * (H * G)) = 4 * (H * (D * G))
        /\ D * (2 * (4 * (H * G))) = 8 * (H * (D * G)) /\ D * (2 * G) = 2 * (D * G)
    BY <1>1, <2>3
  <2> QED
    BY <2>2, <2>4, <2>5, <2>6 DEF G
<1> HIDE DEF H, g, A, t
<1>6. 2 * hg < A /\ A < 8 * hg /\ (A <= 4 * hg => M = H) /\ hg \in Nat
  <2>1. 2 * (H * g) < A /\ A < 8 * (H * g) /\ (A <= 4 * (H * g) => M = H)
    BY <1>1, <1>2, <1>3, <1>4, RoundsInBinade
  <2>2. H * g \in Nat
    BY <1>1, <1>3
  <2> QED
    BY <2>1, <2>2
<1>7. b <= E /\ b <= E - 1 /\ b <= E - 2 /\ E - 2 \in Int /\ E - 1 \in Int
  BY <1>1
<1>8. /\ U < Unit(E, D, b) => j < E
      /\ E <= j => Unit(E, D, b) <= U
      /\ Unit(E - 2, D, b) < U => E - 2 < j
      /\ j <= E - 2 => U <= Unit(E - 2, D, b)
  <2>1. /\ U < Unit(E, D, b) => j < E
        /\ E <= j => Unit(E, D, b) <= U
    BY <1>1, <1>7, UnitOrder DEF Unit
  <2>2. /\ Unit(E - 2, D, b) < U => E - 2 < j
        /\ j <= E - 2 => U <= Unit(E - 2, D, b)
    BY <1>7, UnitOrder DEF Unit
  <2> QED
    BY <2>1, <2>2
<1> HIDE DEF U, hg
<1>9. /\ A < U => E - 2 < j
      /\ U <= A => j < E
      /\ E <= j => A < U
      /\ j <= E - 2 => U < A
  BY <1>1, <1>2, <1>3, <1>5, <1>6, <1>8
<1>10. j = E - 1 => (A <= U <=> M = H /\ sign * t >= 0)
  <2> SUFFICES ASSUME j = E - 1 PROVE A <= U <=> M = H /\ sign * t >= 0
    OBVIOUS
  <2>1. U = 4 * hg
    BY <1>5 DEF U
  <2>2. t = sign * Off(4 * M, g, A)
    BY <1>4 DEF RoundsTo
  <2>3. M = H => (Off(4 * M, g, A) >= 0 <=> A <= U) /\ Off(4 * M, g, A) \in Int
    <3>1. (4 * H) * g = 4 * (H * g) /\ H * g \in Nat
      BY <1>1, <1>3
    <3>2. Off(4 * H, g, A) = Sgn(4 * hg - A)
      BY <3>1 DEF Off, hg
    <3> QED
      BY <1>2, <1>6, <2>1, <3>2 DEF Sgn
  <2>4. CASE M = H
    <3>1. sign * t = Off(4 * M, g, A)
      BY <2>2, <2>3, <2>4 DEF Sign
    <3> QED
      BY <2>3, <2>4, <3>1
  <2>5. CASE M # H
    BY <1>6, <2>1, <2>5
  <2> QED
    BY <2>4, <2>5
<1>11. j = E - 1 /\ A < U =>
          /\ M = H /\ t = sign /\ ~IsLikeRNDZ(rnd, sign)
          /\ (Pow2(q) - 1) * Unit(j - q, D, b) <= A
          /\ rnd = "RNDN" => (2 * Pow2(q) - 1) * Unit(j - q - 1, D, b) <= A
  <2> SUFFICES ASSUME j = E - 1, A < U
               PROVE  /\ M = H /\ t = sign /\ ~IsLikeRNDZ(rnd, sign)
                      /\ (Pow2(q) - 1) * Unit(j - q, D, b) <= A
                      /\ rnd = "RNDN" => (2 * Pow2(q) - 1) * Unit(j - q - 1, D, b) <= A
    OBVIOUS
  <2>1. A < 4 * (H * g) /\ M = H
    BY <1>2, <1>5, <1>6 DEF U, hg
  <2>2. /\ t = sign /\ ~IsLikeRNDZ(rnd, sign) /\ (4 * H - 2) * g <= A
        /\ rnd = "RNDN" => (4 * H - 1) * g <= A
    BY <1>1, <1>2, <1>3, <1>4, <2>1, RoundsUpToPower
  <2>3. Unit(j - q, D, b) = 2 * g /\ Unit(j - q - 1, D, b) = g
    <3>1. j - q = E - q - 1 /\ j - q - 1 = E - q - 2
      BY <1>1
    <3> QED
      BY <1>5, <3>1 DEF g
  <2>4. (2 * H - 1) * (2 * g) = (4 * H - 2) * g /\ 2 * (2 * H) - 1 = 4 * H - 1
    BY <1>1, <1>3
  <2> QED
    BY <1>1, <2>1, <2>2, <2>3, <2>4
<1> QED
  BY <1>9, <1>10, <1>11 DEF PlacedBy, U, H, A, t

\* RangedCorrectly for comparisons given by a function.
RangedBy(res, q, rnd, c) == RangedCorrectly(res, q, rnd, LAMBDA n, k : c[<<n, k>>])

\* The comparison behind RangedCorrectly's AtLeast.
LEMMA ComparedInUnits ==
    ASSUME NEW c, NEW sign \in Sign, NEW m \in Nat, NEW l \in Int, NEW D \in Nat \ {0},
           NEW low \in Int, ComparesWith(c, sign, m, l, D, low),
           NEW b \in Int, b <= low, b <= l, NEW k \in Int, b <= k, NEW n \in Int
    PROVE  /\ sign * c[<<sign * n, k>>] <= 0 <=> n * Unit(k, D, b) <= m * Pow2(l - b)
           /\ sign * c[<<sign * n, k>>] < 0 <=> n * Unit(k, D, b) < m * Pow2(l - b)
<1> DEFINE A == m * Pow2(l - b)
           U == Unit(k, D, b)
           z == n * U - A
<1>1. U \in Nat /\ A \in Int
  <2>1. l - b \in Nat
    OBVIOUS
  <2>2. Pow2(l - b) \in Nat
    BY <2>1, Pow2Type
  <2>3. D * Pow2(k - b) \in Nat
    BY UnitOrder
  <2> QED
    BY <2>2, <2>3 DEF Unit
<1>2. sign * n \in Int
  BY DEF Sign
<1>3. c[<<sign * n, k>>] = Sgn((sign * n) * U - sign * A)
  BY <1>2 DEF ComparesWith, Unit
<1> HIDE DEF A, U
<1>4. (sign * n) * U - sign * A = sign * z /\ z \in Int
  BY <1>1 DEF Sign
<1> HIDE DEF z
<1>5. c[<<sign * n, k>>] = sign * Sgn(z)
  BY <1>3, <1>4, SgnLaws
<1>6. sign * c[<<sign * n, k>>] = Sgn(z)
  BY <1>4, <1>5, SgnLaws DEF Sign
<1>7. /\ Sgn(z) <= 0 <=> z <= 0
      /\ Sgn(z) < 0 <=> z < 0
  BY <1>4 DEF Sgn
<1>8. n * U \in Int
  BY <1>1
<1>9. /\ z <= 0 <=> n * U <= A
      /\ z < 0 <=> n * U < A
  BY <1>1, <1>8 DEF z
<1> QED
  BY <1>6, <1>7, <1>9 DEF A, U

\* The modes that round outward are those is_like_rndz is false of.
LEMMA OutwardModes ==
    ASSUME NEW rnd \in RoundingMode, NEW s \in Sign, NEW nearest \in BOOLEAN
    PROVE  /\ rnd # "RNDN" => (Outward(rnd, s, nearest) <=> ~IsLikeRNDZ(rnd, s))
           /\ rnd = "RNDN" => (Outward(rnd, s, nearest) <=> nearest) /\ ~IsLikeRNDZ(rnd, s)
<1>1. CASE rnd = "RNDN"
  BY <1>1 DEF Outward, IsLikeRNDZ
<1>2. CASE rnd = "RNDZ"
  BY <1>2 DEF Outward, IsLikeRNDZ
<1>3. CASE rnd = "RNDA"
  BY <1>3 DEF Outward, IsLikeRNDZ
<1>4. CASE rnd = "RNDU"
  BY <1>4 DEF Outward, IsLikeRNDZ, Sign
<1>5. CASE rnd = "RNDD"
  BY <1>5 DEF Outward, IsLikeRNDZ, Sign
<1> QED
  BY <1>1, <1>2, <1>3, <1>4, <1>5 DEF RoundingMode

\* The half of the least power of two decides to nearest.
HalfRule(v, t) ==
    \/ v.exp + 1 < EMIN_DEFAULT
    \/ PowerOf2Raw(v) /\ (IF v.sign = -1 THEN t <= 0 ELSE t >= 0)

\* check_range, exponent by exponent.
LEMMA CheckRangeTable ==
    ASSUME NEW v, Operand(v), v.kind = "normal", NEW t, NEW rnd \in RoundingMode
    PROVE  /\ v.exp < EMIN_DEFAULT =>
                 CheckRange(v, t, rnd) =
                     Underflow(v.prec, IF rnd = "RNDN" /\ HalfRule(v, t) THEN "RNDZ" ELSE rnd, v.sign)
           /\ v.exp > EMAX_DEFAULT => CheckRange(v, t, rnd) = Overflow(v.prec, rnd, v.sign)
           /\ v.exp \in EMIN_DEFAULT .. EMAX_DEFAULT => CheckRange(v, t, rnd) = Result(v, t)
<1>1. v.exp \in Int /\ EMAX_DEFAULT \in Nat \ {0} /\ EMIN_DEFAULT = -EMAX_DEFAULT
  BY NormalParts, RangeAssumption DEF EMIN_DEFAULT
<1>2. CASE v.exp < EMIN_DEFAULT
  <2>1. CheckRange(v, t, rnd) =
            Underflow(v.prec, IF rnd = "RNDN" /\ HalfRule(v, t) THEN "RNDZ" ELSE rnd, v.sign)
    <3>1. ~(v.exp > EMAX_DEFAULT) /\ ~(v.exp \in EMIN_DEFAULT .. EMAX_DEFAULT)
      BY <1>1, <1>2
    <3> QED
      BY <1>2, <3>1, Zenon DEF CheckRange, HalfRule
  <2> QED
    BY <1>1, <1>2, <2>1
<1>3. CASE v.exp > EMAX_DEFAULT
  <2>1. ~(v.exp < EMIN_DEFAULT) /\ ~(v.exp \in EMIN_DEFAULT .. EMAX_DEFAULT)
    BY <1>1, <1>3
  <2> QED
    BY <1>3, <2>1, Zenon DEF CheckRange
<1>4. CASE v.exp \in EMIN_DEFAULT .. EMAX_DEFAULT
  <2>1. ~(v.exp < EMIN_DEFAULT) /\ ~(v.exp > EMAX_DEFAULT)
    BY <1>1, <1>4
  <2> QED
    BY <1>4, <2>1, Zenon DEF CheckRange
<1> QED
  BY <1>1, <1>2, <1>3, <1>4

\* What RangedCorrectly compares: is the magnitude below the least power of two,
\* at the greatest, above half the least, at the largest value, and at the
\* midpoint above that.
Tiny(c, s) == ~(s * c[<<s * 1, EMIN_DEFAULT - 1>>] <= 0)
Huge(q, c, s) == s * c[<<s * Pow2(q), EMAX_DEFAULT - q>>] <= 0
AboveHalf(c, s) == s * c[<<s, EMIN_DEFAULT - 2>>] < 0
PastLargest(q, c, s) == s * c[<<s * (Pow2(q) - 1), EMAX_DEFAULT - q>>] <= 0
PastMidpoint(q, c, s) == s * c[<<s * (Pow2(q + 1) - 1), EMAX_DEFAULT - q - 1>>] <= 0

\* RangedCorrectly once its comparisons are made.
RangeVerdict(w, q, rnd, c, s, tiny, huge, half, last, mid) ==
    /\ tiny => w = IF Outward(rnd, s, half) THEN Result(Smallest(s, q), s) ELSE Result(Zero(s, q), -s)
    /\ huge => w = IF Outward(rnd, s, TRUE) THEN Result(Inf(s, q), s) ELSE Result(Largest(s, q), -s)
    /\ ~tiny /\ ~huge =>
          \/ w.value.kind = "normal" /\ InRange(w.value) /\ CorrectBy(w, q, rnd, c)
          \/ w = Result(Inf(s, q), s) /\ last /\ Outward(rnd, s, mid)

\* The verdict is RangedCorrectly.
LEMMA VerdictIsRanged ==
    ASSUME NEW w, NEW q, NEW rnd, NEW c, NEW s, s = -c[<<0, 0>>],
           RangeVerdict(w, q, rnd, c, s, Tiny(c, s), Huge(q, c, s), AboveHalf(c, s),
                        PastLargest(q, c, s), PastMidpoint(q, c, s))
    PROVE  RangedBy(w, q, rnd, c)
  BY DEF RangeVerdict, RangedBy, RangedCorrectly, CorrectBy, Tiny, Huge, AboveHalf, PastLargest, PastMidpoint

\* check_range after a correctly rounded operation rounds the exact result into
\* the bounded range: the ternary value makes up for the bits that are gone.
LEMMA CheckedIsRanged ==
    ASSUME NEW res, NEW sign \in Sign, NEW q \in Precision, NEW rnd \in RoundingMode,
           NEW m \in Nat \ {0}, NEW l \in Int, NEW D \in Nat \ {0},
           RoundedTo(res, sign, q, rnd, m, l, D),
           NEW low \in Int, NEW c, ComparesWith(c, sign, m, l, D, low)
    PROVE  RangedBy(Checked(res, rnd), q, rnd, c)
<1> DEFINE v == res.value
           E == v.exp
           M == v.mant
           t == res.ternary
           w == Checked(res, rnd)
<1>1. /\ Valid(v) /\ v.kind = "normal" /\ v.sign = sign /\ v.prec = q /\ E \in Int
      /\ M \in Pow2(q - 1) .. Pow2(q) - 1
  BY RoundedToIsValid
<1>2. /\ q \in Nat \ {0} /\ EMAX_DEFAULT \in Nat \ {0} /\ EMIN_DEFAULT = -EMAX_DEFAULT
      /\ EMIN_DEFAULT \in Int /\ EMIN_DEFAULT < EMAX_DEFAULT
  BY PrecAssumption, RangeAssumption DEF Precision, EMIN_DEFAULT
<1>3. Operand(v)
  BY <1>1, ValidIsOperand
<1>4. CorrectBy(res, q, rnd, c)
  BY RoundedIsCorrect
<1>5. c[<<0, 0>>] = -sign
  BY <1>1, <1>4 DEF CorrectBy, CorrectlyRounded
<1>6. w = CheckRange(v, t, rnd)
  BY DEF Checked
<1> HIDE DEF w
<1>7. PICK b \in Int : /\ b <= low /\ b <= l /\ b <= E - q - 2
                       /\ b <= EMIN_DEFAULT - 2 /\ b <= EMAX_DEFAULT - q - 1
  <2> DEFINE b1 == IF low <= l THEN low ELSE l
             b2 == IF b1 <= E - q - 2 THEN b1 ELSE E - q - 2
             b3 == IF b2 <= EMIN_DEFAULT - 2 THEN b2 ELSE EMIN_DEFAULT - 2
             b4 == IF b3 <= EMAX_DEFAULT - q - 1 THEN b3 ELSE EMAX_DEFAULT - q - 1
  <2>1. b4 \in Int /\ b4 <= low /\ b4 <= l /\ b4 <= E - q - 2 /\ b4 <= EMIN_DEFAULT - 2
        /\ b4 <= EMAX_DEFAULT - q - 1
    BY <1>1, <1>2
  <2> QED
    BY <2>1
<1> DEFINE A == m * Pow2(l - b)
           H == Pow2(q - 1)
           tiny == A < Unit(EMIN_DEFAULT - 1, D, b)
           huge == Unit(EMAX_DEFAULT, D, b) <= A
           half == Unit(EMIN_DEFAULT - 2, D, b) < A
           last == (Pow2(q) - 1) * Unit(EMAX_DEFAULT - q, D, b) <= A
           mid == (2 * Pow2(q) - 1) * Unit(EMAX_DEFAULT - q - 1, D, b) <= A
<1>8. A \in Nat
  <2>1. l - b \in Nat
    BY <1>7
  <2>2. Pow2(l - b) \in Nat
    BY <2>1, Pow2Type
  <2> QED
    BY <2>2
<1>9. /\ b <= EMIN_DEFAULT - 1 /\ EMIN_DEFAULT - 1 \in Int
      /\ b <= EMIN_DEFAULT - 2 /\ EMIN_DEFAULT - 2 \in Int
      /\ b <= EMAX_DEFAULT /\ EMAX_DEFAULT \in Int
      /\ b <= EMAX_DEFAULT - q /\ EMAX_DEFAULT - q \in Int
      /\ b <= EMAX_DEFAULT - q - 1 /\ EMAX_DEFAULT - q - 1 \in Int
  BY <1>2, <1>7
<1>10. \A j \in Int : b <= j => PlacedBy(E, M, q, sign, t, rnd, A, j, D, b)
  BY <1>2, <1>7, RoundedPlaces
<1>11. PlacedBy(E, M, q, sign, t, rnd, A, EMIN_DEFAULT - 1, D, b)
       /\ PlacedBy(E, M, q, sign, t, rnd, A, EMIN_DEFAULT - 2, D, b)
       /\ PlacedBy(E, M, q, sign, t, rnd, A, EMAX_DEFAULT, D, b)
  BY <1>9, <1>10
<1>12. Pow2(q) \in Nat \ {0} /\ Pow2(q) = 2 * H /\ Pow2(q + 1) = 2 * Pow2(q) /\ H \in Nat \ {0}
  BY <1>2, LengthBounds, Pow2Step
<1>13. Unit(EMAX_DEFAULT, D, b) = Pow2(q) * Unit(EMAX_DEFAULT - q, D, b)
  <2> DEFINE d == EMAX_DEFAULT - q - b
             P == Pow2(q)
             G == Pow2(d)
  <2>1. d \in Nat /\ q + d = EMAX_DEFAULT - b
    BY <1>2, <1>9
  <2>2. Pow2(q + d) = P * G /\ G \in Nat /\ P \in Nat
    BY <1>2, <2>1, Pow2Sum, Pow2Type
  <2> HIDE DEF P, G
  <2>3. D * (P * G) = P * (D * G)
    BY <2>2
  <2> QED
    BY <2>1, <2>2, <2>3 DEF Unit, P, G
<1>14. Unit(EMIN_DEFAULT - 1, D, b) <= Unit(EMAX_DEFAULT, D, b)
       /\ Unit(EMIN_DEFAULT - 1, D, b) \in Nat /\ Unit(EMAX_DEFAULT, D, b) \in Nat
       /\ Unit(EMIN_DEFAULT - 2, D, b) \in Nat
  <2>1. EMIN_DEFAULT - 1 <= EMAX_DEFAULT
    BY <1>2
  <2> QED
    BY <1>9, <2>1, UnitOrder DEF Unit
<1> DEFINE s == sign
<1>15. /\ tiny <=> ~(s * c[<<s * 1, EMIN_DEFAULT - 1>>] <= 0)
       /\ huge <=> s * c[<<s * Pow2(q), EMAX_DEFAULT - q>>] <= 0
       /\ half <=> s * c[<<s, EMIN_DEFAULT - 2>>] < 0
       /\ last <=> s * c[<<s * (Pow2(q) - 1), EMAX_DEFAULT - q>>] <= 0
       /\ mid <=> s * c[<<s * (Pow2(q + 1) - 1), EMAX_DEFAULT - q - 1>>] <= 0
  <2>1. \A k, n \in Int : b <= k =>
            /\ s * c[<<s * n, k>>] <= 0 <=> n * Unit(k, D, b) <= A
            /\ s * c[<<s * n, k>>] < 0 <=> n * Unit(k, D, b) < A
    <3>1. m \in Nat
      OBVIOUS
    <3> QED
      BY <1>7, <3>1, ComparedInUnits
  <2> HIDE DEF A
  <2>2. Pow2(q) \in Int /\ Pow2(q) - 1 \in Int /\ Pow2(q + 1) - 1 \in Int /\ 1 \in Int
        /\ Pow2(q + 1) - 1 = 2 * Pow2(q) - 1
    BY <1>12
  <2>3. /\ s * c[<<s * 1, EMIN_DEFAULT - 1>>] <= 0 <=> 1 * Unit(EMIN_DEFAULT - 1, D, b) <= A
        /\ s * c[<<s * 1, EMIN_DEFAULT - 2>>] < 0 <=> 1 * Unit(EMIN_DEFAULT - 2, D, b) < A
    BY <1>9, <2>1, <2>2
  <2>4. /\ s * c[<<s * Pow2(q), EMAX_DEFAULT - q>>] <= 0 <=> Pow2(q) * Unit(EMAX_DEFAULT - q, D, b) <= A
        /\ s * c[<<s * (Pow2(q) - 1), EMAX_DEFAULT - q>>] <= 0
              <=> (Pow2(q) - 1) * Unit(EMAX_DEFAULT - q, D, b) <= A
        /\ s * c[<<s * (Pow2(q + 1) - 1), EMAX_DEFAULT - q - 1>>] <= 0
              <=> (Pow2(q + 1) - 1) * Unit(EMAX_DEFAULT - q - 1, D, b) <= A
    BY <1>9, <2>1, <2>2
  <2>5. s * 1 = s
    BY DEF Sign
  <2>6. 1 * Unit(EMIN_DEFAULT - 1, D, b) = Unit(EMIN_DEFAULT - 1, D, b)
        /\ 1 * Unit(EMIN_DEFAULT - 2, D, b) = Unit(EMIN_DEFAULT - 2, D, b)
    BY <1>14
  <2>7. ~(Unit(EMIN_DEFAULT - 1, D, b) <= A) <=> tiny
    BY <1>8, <1>14 DEF A
  <2> QED
    BY <1>13, <2>2, <2>3, <2>4, <2>5, <2>6, <2>7
<1>16. ~(tiny /\ huge)
  BY <1>8, <1>14
<1>17. tiny \in BOOLEAN /\ huge \in BOOLEAN /\ half \in BOOLEAN /\ last \in BOOLEAN /\ mid \in BOOLEAN
  OBVIOUS
<1>18. SetMin(q, EMIN_DEFAULT, s) = Smallest(s, q) /\ SetMax(q, EMAX_DEFAULT, s) = Largest(s, q)
  BY DEF SetMin, SetMax, Smallest, Largest
<1>19. \A r : /\ Underflow(q, r, s) = IF IsLikeRNDZ(r, s) THEN Result(Zero(s, q), -s)
                                                          ELSE Result(Smallest(s, q), s)
              /\ Overflow(q, r, s) = IF IsLikeRNDZ(r, s) THEN Result(Largest(s, q), -s)
                                                         ELSE Result(Inf(s, q), s)
  BY <1>18 DEF Underflow, Overflow
<1>20. /\ E < EMIN_DEFAULT => w = Underflow(q, IF rnd = "RNDN" /\ HalfRule(v, t) THEN "RNDZ" ELSE rnd, s)
       /\ E > EMAX_DEFAULT => w = Overflow(q, rnd, s)
       /\ E \in EMIN_DEFAULT .. EMAX_DEFAULT => w = Result(v, t)
  BY <1>1, <1>3, <1>6, CheckRangeTable
<1>21. sign * t >= 0 <=> (IF v.sign = -1 THEN t <= 0 ELSE t >= 0)
  <2>1. t \in Int
    <3>1. t = sign * Off(4 * M, Unit(E - q - 2, D, b), A)
      BY <1>1, <1>7 DEF RoundedTo, RoundsTo, Unit
    <3>2. Off(4 * M, Unit(E - q - 2, D, b), A) \in {-1, 0, 1}
      BY DEF Off, Sgn
    <3> QED
      BY <3>1, <3>2 DEF Sign
  <2> QED
    BY <1>1, <2>1 DEF Sign
<1>22. PowerOf2Raw(v) <=> M = H
  BY <1>1 DEF PowerOf2Raw
<1> HIDE DEF A, H, v, E, M, t, tiny, huge, half, last, mid
<1>23. ASSUME tiny PROVE RangeVerdict(w, q, rnd, c, s, tiny, huge, half, last, mid)
  <2>1. E <= EMIN_DEFAULT
    BY <1>1, <1>2, <1>11, <1>23 DEF PlacedBy, tiny
  <2>2. CASE E = EMIN_DEFAULT
    <3>1. M = H /\ t = s /\ ~IsLikeRNDZ(rnd, s) /\ half
      <4>1. EMIN_DEFAULT - 1 = E - 1 /\ EMIN_DEFAULT - 2 <= E - 2
        BY <1>2, <2>2
      <4> QED
        BY <1>11, <1>23, <4>1 DEF PlacedBy, tiny, half, H
    <3>2. w = Result(v, t)
      BY <1>2, <1>20, <2>2
    <3>3. v = Smallest(s, q)
      <4>1. v = Normal(s, q, E, M)
        BY DEF RoundedTo, Result, v, E, M
      <4> QED
        BY <2>2, <3>1, <4>1 DEF Smallest, H
    <3>4. Outward(rnd, s, half)
      BY <1>17, <3>1, OutwardModes
    <3> QED
      BY <1>16, <1>23, <3>1, <3>2, <3>3, <3>4 DEF RangeVerdict
  <2>3. CASE E < EMIN_DEFAULT
    <3>1. HalfRule(v, t) <=> ~half
      <4>1. CASE E + 1 < EMIN_DEFAULT
        <5>1. E <= EMIN_DEFAULT - 2
          BY <1>1, <1>2, <4>1 DEF E
        <5>2. ~half
          BY <1>8, <1>11, <1>14, <5>1 DEF PlacedBy, half
        <5> QED
          BY <4>1, <5>2 DEF HalfRule, E
      <4>2. CASE ~(E + 1 < EMIN_DEFAULT)
        <5>1. EMIN_DEFAULT - 2 = E - 1
          BY <1>1, <1>2, <2>3, <4>2 DEF E
        <5>2. A <= Unit(EMIN_DEFAULT - 2, D, b) <=> M = H /\ s * t >= 0
          BY <1>11, <5>1 DEF PlacedBy, H
        <5>3. ~half <=> A <= Unit(EMIN_DEFAULT - 2, D, b)
          BY <1>8, <1>14 DEF half
        <5> QED
          BY <1>21, <1>22, <4>2, <5>2, <5>3 DEF HalfRule, E
      <4> QED
        BY <4>1, <4>2
    <3> DEFINE r == IF rnd = "RNDN" /\ HalfRule(v, t) THEN "RNDZ" ELSE rnd
    <3>2. w = Underflow(q, r, s)
      BY <1>20, <2>3
    <3>3. IsLikeRNDZ(r, s) <=> ~Outward(rnd, s, half)
      <4>1. CASE rnd = "RNDN"
        <5>1. Outward(rnd, s, half) <=> half
          BY <1>17, <4>1, OutwardModes
        <5>2. half => r = "RNDN"
          BY <3>1, <4>1
        <5>3. ~half => r = "RNDZ"
          BY <3>1, <4>1
        <5> QED
          BY <1>17, <5>1, <5>2, <5>3 DEF IsLikeRNDZ
      <4>2. CASE rnd # "RNDN"
        <5>1. r = rnd
          BY <4>2
        <5> QED
          BY <1>17, <4>2, <5>1, OutwardModes
      <4> QED
        BY <4>1, <4>2
    <3>4. w = IF IsLikeRNDZ(r, s) THEN Result(Zero(s, q), -s) ELSE Result(Smallest(s, q), s)
      BY <1>19, <3>2
    <3> HIDE DEF r
    <3> QED
      BY <1>16, <1>23, <3>3, <3>4 DEF RangeVerdict
  <2> QED
    BY <1>1, <1>2, <2>1, <2>2, <2>3 DEF E
<1>24. ASSUME huge PROVE RangeVerdict(w, q, rnd, c, s, tiny, huge, half, last, mid)
  <2>1. E > EMAX_DEFAULT
    BY <1>1, <1>2, <1>11, <1>24 DEF PlacedBy, huge
  <2>2. w = IF IsLikeRNDZ(rnd, s) THEN Result(Largest(s, q), -s) ELSE Result(Inf(s, q), s)
    BY <1>19, <1>20, <2>1
  <2>3. IsLikeRNDZ(rnd, s) <=> ~Outward(rnd, s, TRUE)
    BY OutwardModes
  <2> QED
    BY <1>16, <1>24, <2>2, <2>3 DEF RangeVerdict
<1>25. ASSUME ~tiny /\ ~huge PROVE RangeVerdict(w, q, rnd, c, s, tiny, huge, half, last, mid)
  <2>1. E >= EMIN_DEFAULT /\ E <= EMAX_DEFAULT + 1
    <3>1. Unit(EMIN_DEFAULT - 1, D, b) <= A /\ A < Unit(EMAX_DEFAULT, D, b)
      BY <1>8, <1>14, <1>25 DEF tiny, huge
    <3>2. EMIN_DEFAULT - 1 < E /\ E - 2 < EMAX_DEFAULT
      BY <1>11, <3>1 DEF PlacedBy
    <3> QED
      BY <1>1, <1>2, <3>2 DEF E
  <2>2. CASE E = EMAX_DEFAULT + 1
    <3>1. A < Unit(EMAX_DEFAULT, D, b) /\ EMAX_DEFAULT = E - 1 /\ E > EMAX_DEFAULT
      BY <1>2, <1>8, <1>14, <1>25, <2>2 DEF huge
    <3>2. ~IsLikeRNDZ(rnd, s) /\ last /\ (rnd = "RNDN" => mid)
      BY <1>11, <3>1 DEF PlacedBy, last, mid
    <3>3. w = Result(Inf(s, q), s)
      BY <1>19, <1>20, <3>1, <3>2
    <3>4. Outward(rnd, s, mid)
      BY <1>17, <3>2, OutwardModes
    <3> QED
      BY <1>25, <3>2, <3>3, <3>4 DEF RangeVerdict
  <2>3. CASE E # EMAX_DEFAULT + 1
    <3>1. E \in EMIN_DEFAULT .. EMAX_DEFAULT
      BY <1>1, <1>2, <2>1, <2>3 DEF E
    <3>2. w = Result(v, t) /\ w.value = v /\ w.ternary = t
      BY <1>20, <3>1 DEF Result
    <3>3. InRange(v) /\ v.kind = "normal"
      BY <1>1, <3>1 DEF InRange, E, v
    <3>4. CorrectBy(w, q, rnd, c)
      BY <1>4, <3>2 DEF CorrectBy, CorrectlyRounded, v, t
    <3> QED
      BY <1>25, <3>2, <3>3, <3>4 DEF RangeVerdict
  <2> QED
    BY <2>2, <2>3
<1>26. RangeVerdict(w, q, rnd, c, s, tiny, huge, half, last, mid)
  BY <1>23, <1>24, <1>25
<1>27. s = -c[<<0, 0>>]
  BY <1>5 DEF Sign
<1>28. /\ Tiny(c, s) <=> tiny
       /\ Huge(q, c, s) <=> huge
       /\ AboveHalf(c, s) <=> half
       /\ PastLargest(q, c, s) <=> last
       /\ PastMidpoint(q, c, s) <=> mid
  BY <1>15, Zenon DEF Tiny, Huge, AboveHalf, PastLargest, PastMidpoint
<1>30. RangeVerdict(w, q, rnd, c, s, Tiny(c, s), Huge(q, c, s), AboveHalf(c, s),
                    PastLargest(q, c, s), PastMidpoint(q, c, s))
  BY <1>26, <1>28 DEF RangeVerdict, Outward
<1>31. RangedBy(w, q, rnd, c)
  BY <1>27, <1>30, VerdictIsRanged
<1> QED
  BY <1>31 DEF w

\* The numbers a rounding into the bounded range is compared at are integers.
LEMMA RangedAtIntegers ==
    ASSUME NEW s \in Sign, NEW q \in Precision
    PROVE  /\ 0 \in Int /\ s \in Int /\ s * 1 \in Int /\ s * Pow2(q) \in Int
           /\ s * (Pow2(q) - 1) \in Int /\ s * (Pow2(q + 1) - 1) \in Int
           /\ EMIN_DEFAULT - 1 \in Int /\ EMIN_DEFAULT - 2 \in Int
           /\ EMAX_DEFAULT - q \in Int /\ EMAX_DEFAULT - q - 1 \in Int
<1>1. q \in Nat /\ q + 1 \in Nat /\ EMAX_DEFAULT \in Int /\ EMIN_DEFAULT \in Int
  BY PrecAssumption, RangeAssumption DEF Precision, EMIN_DEFAULT
<1>2. Pow2(q) \in Int /\ Pow2(q + 1) \in Int
  BY <1>1, Pow2Type
<1> QED
  BY <1>1, <1>2 DEF Sign

\* So are the numbers around a normal value.
LEMMA NeighboursAtIntegers ==
    ASSUME NEW v, Valid(v), v.kind = "normal"
    PROVE  /\ Scale(v) \in Int /\ Scale(v) - 1 \in Int /\ Scale(v) - 2 \in Int
           /\ v.sign * v.mant \in Int /\ v.sign * (v.mant + 1) \in Int
           /\ v.sign * (2 * v.mant - 1) \in Int /\ v.sign * (v.mant - 1) \in Int
           /\ v.sign * (2 * v.mant + 1) \in Int /\ v.sign * (4 * v.mant - 1) \in Int
<1>1. v.sign \in Sign /\ v.mant \in Int /\ Scale(v) \in Int
  BY ValidIsOperand, NormalParts
<1> QED
  BY <1>1 DEF Sign

\* What CheckRangeIsCorrect says of one product.
ProductRanged(a, b, q, rnd) ==
    RangedCorrectly(Checked(Mul(a, b, q, rnd), rnd), q, rnd, LAMBDA n, k : ProductCmp(a, b, n, k))

\* It follows from the same for the function.
LEMMA ProductFromTable ==
    ASSUME NEW a, NEW b, NEW q \in Precision, NEW rnd, ProductCmp(a, b, 0, 0) \in Sign,
           RangedBy(Checked(Mul(a, b, q, rnd), rnd), q, rnd, ProductTable(a, b))
    PROVE  ProductRanged(a, b, q, rnd)
<1> DEFINE w == Checked(Mul(a, b, q, rnd), rnd)
           c == ProductTable(a, b)
           s == -ProductCmp(a, b, 0, 0)
           r == -c[<<0, 0>>]
<1>1. \A n, k \in Int : c[<<n, k>>] = ProductCmp(a, b, n, k)
  BY DEF ProductTable
<1>2. RangedBy(w, q, rnd, c)
  OBVIOUS
<1> HIDE DEF c, w
<1>3. r = s /\ s \in Sign /\ c[<<0, 0>>] = ProductCmp(a, b, 0, 0)
  BY <1>1 DEF Sign
<1>4. /\ c[<<s * 1, EMIN_DEFAULT - 1>>] = ProductCmp(a, b, s * 1, EMIN_DEFAULT - 1)
      /\ c[<<s, EMIN_DEFAULT - 2>>] = ProductCmp(a, b, s, EMIN_DEFAULT - 2)
      /\ c[<<s * Pow2(q), EMAX_DEFAULT - q>>] = ProductCmp(a, b, s * Pow2(q), EMAX_DEFAULT - q)
      /\ c[<<s * (Pow2(q) - 1), EMAX_DEFAULT - q>>] = ProductCmp(a, b, s * (Pow2(q) - 1), EMAX_DEFAULT - q)
      /\ c[<<s * (Pow2(q + 1) - 1), EMAX_DEFAULT - q - 1>>]
            = ProductCmp(a, b, s * (Pow2(q + 1) - 1), EMAX_DEFAULT - q - 1)
  <2> HIDE DEF s
  <2> QED
    BY <1>1, <1>3, RangedAtIntegers
<1>5. CorrectBy(w, q, rnd, c) => CorrectlyRounded(w, q, rnd, LAMBDA n, k : ProductCmp(a, b, n, k))
  <2> SUFFICES ASSUME CorrectBy(w, q, rnd, c)
               PROVE  CorrectlyRounded(w, q, rnd, LAMBDA n, k : ProductCmp(a, b, n, k))
    OBVIOUS
  <2> DEFINE v == w.value
             M == v.mant
             K == Scale(v)
             g == v.sign
  <2>1. Valid(v) /\ v.kind = "normal"
    BY DEF CorrectBy, CorrectlyRounded
  <2>2. /\ c[<<g * M, K>>] = ProductCmp(a, b, g * M, K)
        /\ c[<<g * (M + 1), K>>] = ProductCmp(a, b, g * (M + 1), K)
        /\ c[<<g * (2 * M - 1), K - 1>>] = ProductCmp(a, b, g * (2 * M - 1), K - 1)
        /\ c[<<g * (M - 1), K>>] = ProductCmp(a, b, g * (M - 1), K)
        /\ c[<<g * (2 * M + 1), K - 1>>] = ProductCmp(a, b, g * (2 * M + 1), K - 1)
        /\ c[<<g * (4 * M - 1), K - 2>>] = ProductCmp(a, b, g * (4 * M - 1), K - 2)
    BY <1>1, <2>1, NeighboursAtIntegers
  <2> QED
    BY <1>3, <2>2 DEF CorrectBy, CorrectlyRounded
<1>6. /\ c[<<r * 1, EMIN_DEFAULT - 1>>] = ProductCmp(a, b, s * 1, EMIN_DEFAULT - 1)
      /\ c[<<r, EMIN_DEFAULT - 2>>] = ProductCmp(a, b, s, EMIN_DEFAULT - 2)
      /\ c[<<r * Pow2(q), EMAX_DEFAULT - q>>] = ProductCmp(a, b, s * Pow2(q), EMAX_DEFAULT - q)
      /\ c[<<r * (Pow2(q) - 1), EMAX_DEFAULT - q>>] = ProductCmp(a, b, s * (Pow2(q) - 1), EMAX_DEFAULT - q)
      /\ c[<<r * (Pow2(q + 1) - 1), EMAX_DEFAULT - q - 1>>]
            = ProductCmp(a, b, s * (Pow2(q + 1) - 1), EMAX_DEFAULT - q - 1)
  BY <1>3, <1>4, Zenon
<1> HIDE DEF s, r
<1> QED
  BY <1>2, <1>3, <1>5, <1>6 DEF RangedBy, RangedCorrectly, CorrectBy, ProductRanged, s, r, w

\* What it says of one quotient.
QuotientRanged(a, b, q, rnd) ==
    RangedCorrectly(Checked(Div(a, b, q, rnd), rnd), q, rnd, LAMBDA n, k : QuotientCmp(a, b, n, k))

\* It follows from the same for the function.
LEMMA QuotientFromTable ==
    ASSUME NEW a, NEW b, NEW q \in Precision, NEW rnd, QuotientCmp(a, b, 0, 0) \in Sign,
           RangedBy(Checked(Div(a, b, q, rnd), rnd), q, rnd, QuotientTable(a, b))
    PROVE  QuotientRanged(a, b, q, rnd)
<1> DEFINE w == Checked(Div(a, b, q, rnd), rnd)
           c == QuotientTable(a, b)
           s == -QuotientCmp(a, b, 0, 0)
           r == -c[<<0, 0>>]
<1>1. \A n, k \in Int : c[<<n, k>>] = QuotientCmp(a, b, n, k)
  BY DEF QuotientTable
<1>2. RangedBy(w, q, rnd, c)
  OBVIOUS
<1> HIDE DEF c, w
<1>3. r = s /\ s \in Sign /\ c[<<0, 0>>] = QuotientCmp(a, b, 0, 0)
  BY <1>1 DEF Sign
<1>4. /\ c[<<s * 1, EMIN_DEFAULT - 1>>] = QuotientCmp(a, b, s * 1, EMIN_DEFAULT - 1)
      /\ c[<<s, EMIN_DEFAULT - 2>>] = QuotientCmp(a, b, s, EMIN_DEFAULT - 2)
      /\ c[<<s * Pow2(q), EMAX_DEFAULT - q>>] = QuotientCmp(a, b, s * Pow2(q), EMAX_DEFAULT - q)
      /\ c[<<s * (Pow2(q) - 1), EMAX_DEFAULT - q>>] = QuotientCmp(a, b, s * (Pow2(q) - 1), EMAX_DEFAULT - q)
      /\ c[<<s * (Pow2(q + 1) - 1), EMAX_DEFAULT - q - 1>>]
            = QuotientCmp(a, b, s * (Pow2(q + 1) - 1), EMAX_DEFAULT - q - 1)
  <2> HIDE DEF s
  <2> QED
    BY <1>1, <1>3, RangedAtIntegers
<1>5. CorrectBy(w, q, rnd, c) => CorrectlyRounded(w, q, rnd, LAMBDA n, k : QuotientCmp(a, b, n, k))
  <2> SUFFICES ASSUME CorrectBy(w, q, rnd, c)
               PROVE  CorrectlyRounded(w, q, rnd, LAMBDA n, k : QuotientCmp(a, b, n, k))
    OBVIOUS
  <2> DEFINE v == w.value
             M == v.mant
             K == Scale(v)
             g == v.sign
  <2>1. Valid(v) /\ v.kind = "normal"
    BY DEF CorrectBy, CorrectlyRounded
  <2>2. /\ c[<<g * M, K>>] = QuotientCmp(a, b, g * M, K)
        /\ c[<<g * (M + 1), K>>] = QuotientCmp(a, b, g * (M + 1), K)
        /\ c[<<g * (2 * M - 1), K - 1>>] = QuotientCmp(a, b, g * (2 * M - 1), K - 1)
        /\ c[<<g * (M - 1), K>>] = QuotientCmp(a, b, g * (M - 1), K)
        /\ c[<<g * (2 * M + 1), K - 1>>] = QuotientCmp(a, b, g * (2 * M + 1), K - 1)
        /\ c[<<g * (4 * M - 1), K - 2>>] = QuotientCmp(a, b, g * (4 * M - 1), K - 2)
    BY <1>1, <2>1, NeighboursAtIntegers
  <2> QED
    BY <1>3, <2>2 DEF CorrectBy, CorrectlyRounded
<1>6. /\ c[<<r * 1, EMIN_DEFAULT - 1>>] = QuotientCmp(a, b, s * 1, EMIN_DEFAULT - 1)
      /\ c[<<r, EMIN_DEFAULT - 2>>] = QuotientCmp(a, b, s, EMIN_DEFAULT - 2)
      /\ c[<<r * Pow2(q), EMAX_DEFAULT - q>>] = QuotientCmp(a, b, s * Pow2(q), EMAX_DEFAULT - q)
      /\ c[<<r * (Pow2(q) - 1), EMAX_DEFAULT - q>>] = QuotientCmp(a, b, s * (Pow2(q) - 1), EMAX_DEFAULT - q)
      /\ c[<<r * (Pow2(q + 1) - 1), EMAX_DEFAULT - q - 1>>]
            = QuotientCmp(a, b, s * (Pow2(q + 1) - 1), EMAX_DEFAULT - q - 1)
  BY <1>3, <1>4, Zenon
<1> HIDE DEF s, r
<1> QED
  BY <1>2, <1>3, <1>5, <1>6 DEF RangedBy, RangedCorrectly, CorrectBy, QuotientRanged, s, r, w

\* What it says of one sum.
SumRanged(a, b, q, rnd) ==
    RangedCorrectly(Checked(Add(a, b, q, rnd), rnd), q, rnd, LAMBDA n, k : SumCmp(a, b, n, k))

\* It follows from the same for the function.
LEMMA SumFromTable ==
    ASSUME NEW a, NEW b, NEW q \in Precision, NEW rnd, SumCmp(a, b, 0, 0) \in Sign,
           RangedBy(Checked(Add(a, b, q, rnd), rnd), q, rnd, SumTable(a, b))
    PROVE  SumRanged(a, b, q, rnd)
<1> DEFINE w == Checked(Add(a, b, q, rnd), rnd)
           c == SumTable(a, b)
           s == -SumCmp(a, b, 0, 0)
           r == -c[<<0, 0>>]
<1>1. \A n, k \in Int : c[<<n, k>>] = SumCmp(a, b, n, k)
  BY DEF SumTable
<1>2. RangedBy(w, q, rnd, c)
  OBVIOUS
<1> HIDE DEF c, w
<1>3. r = s /\ s \in Sign /\ c[<<0, 0>>] = SumCmp(a, b, 0, 0)
  BY <1>1 DEF Sign
<1>4. /\ c[<<s * 1, EMIN_DEFAULT - 1>>] = SumCmp(a, b, s * 1, EMIN_DEFAULT - 1)
      /\ c[<<s, EMIN_DEFAULT - 2>>] = SumCmp(a, b, s, EMIN_DEFAULT - 2)
      /\ c[<<s * Pow2(q), EMAX_DEFAULT - q>>] = SumCmp(a, b, s * Pow2(q), EMAX_DEFAULT - q)
      /\ c[<<s * (Pow2(q) - 1), EMAX_DEFAULT - q>>] = SumCmp(a, b, s * (Pow2(q) - 1), EMAX_DEFAULT - q)
      /\ c[<<s * (Pow2(q + 1) - 1), EMAX_DEFAULT - q - 1>>]
            = SumCmp(a, b, s * (Pow2(q + 1) - 1), EMAX_DEFAULT - q - 1)
  <2> HIDE DEF s
  <2> QED
    BY <1>1, <1>3, RangedAtIntegers
<1>5. CorrectBy(w, q, rnd, c) => CorrectlyRounded(w, q, rnd, LAMBDA n, k : SumCmp(a, b, n, k))
  <2> SUFFICES ASSUME CorrectBy(w, q, rnd, c)
               PROVE  CorrectlyRounded(w, q, rnd, LAMBDA n, k : SumCmp(a, b, n, k))
    OBVIOUS
  <2> DEFINE v == w.value
             M == v.mant
             K == Scale(v)
             g == v.sign
  <2>1. Valid(v) /\ v.kind = "normal"
    BY DEF CorrectBy, CorrectlyRounded
  <2>2. /\ c[<<g * M, K>>] = SumCmp(a, b, g * M, K)
        /\ c[<<g * (M + 1), K>>] = SumCmp(a, b, g * (M + 1), K)
        /\ c[<<g * (2 * M - 1), K - 1>>] = SumCmp(a, b, g * (2 * M - 1), K - 1)
        /\ c[<<g * (M - 1), K>>] = SumCmp(a, b, g * (M - 1), K)
        /\ c[<<g * (2 * M + 1), K - 1>>] = SumCmp(a, b, g * (2 * M + 1), K - 1)
        /\ c[<<g * (4 * M - 1), K - 2>>] = SumCmp(a, b, g * (4 * M - 1), K - 2)
    BY <1>1, <2>1, NeighboursAtIntegers
  <2> QED
    BY <1>3, <2>2 DEF CorrectBy, CorrectlyRounded
<1>6. /\ c[<<r * 1, EMIN_DEFAULT - 1>>] = SumCmp(a, b, s * 1, EMIN_DEFAULT - 1)
      /\ c[<<r, EMIN_DEFAULT - 2>>] = SumCmp(a, b, s, EMIN_DEFAULT - 2)
      /\ c[<<r * Pow2(q), EMAX_DEFAULT - q>>] = SumCmp(a, b, s * Pow2(q), EMAX_DEFAULT - q)
      /\ c[<<r * (Pow2(q) - 1), EMAX_DEFAULT - q>>] = SumCmp(a, b, s * (Pow2(q) - 1), EMAX_DEFAULT - q)
      /\ c[<<r * (Pow2(q + 1) - 1), EMAX_DEFAULT - q - 1>>]
            = SumCmp(a, b, s * (Pow2(q + 1) - 1), EMAX_DEFAULT - q - 1)
  BY <1>3, <1>4, Zenon
<1> HIDE DEF s, r
<1> QED
  BY <1>2, <1>3, <1>5, <1>6 DEF RangedBy, RangedCorrectly, CorrectBy, SumRanged, s, r, w

\* mpfr_check_range after mpfr_add, mpfr_mul or mpfr_div rounds the exact result
\* once into the bounded range, in every state the calculator reaches: at the
\* underflow threshold too, where the rounded value alone does not tell which
\* way to go.
THEOREM RangeIsCheckedCorrectly == Spec => []CheckRangeIsCorrect
<1>1. TypeOK => CheckRangeIsCorrect
  <2> SUFFICES ASSUME TypeOK, x.kind = "normal", y.kind = "normal",
                      NEW q \in Precision, NEW rnd \in RoundingMode
               PROVE  /\ SumCmp(x, y, 0, 0) # 0 => SumRanged(x, y, q, rnd)
                      /\ ProductRanged(x, y, q, rnd)
                      /\ QuotientRanged(x, y, q, rnd)
    BY DEF CheckRangeIsCorrect, SumRanged, ProductRanged, QuotientRanged
  <2>1. Operand(x) /\ Operand(y) /\ Finite(x) /\ Finite(y)
    BY ValidIsOperand DEF TypeOK, Finite
  <2>2. \A sign \in Sign : -(-sign) = sign /\ -sign \in Sign
    BY DEF Sign
  <2>3. 1 \in Nat \ {0}
    OBVIOUS
  <2>4. ASSUME SumCmp(x, y, 0, 0) # 0 PROVE SumRanged(x, y, q, rnd)
    <3> DEFINE res == Add(x, y, q, rnd)
    <3>1. SumOutcome(res, x, y, q, rnd)
      BY <2>1, AddCompares
    <3>2. PICK s \in Sign, m \in Nat \ {0}, l, low \in Int :
              RoundedTo(res, s, q, rnd, m, l, 1) /\ ComparesWith(SumTable(x, y), s, m, l, 1, low)
      BY <2>4, <3>1 DEF SumOutcome
    <3> HIDE DEF res
    <3>3. RangedBy(Checked(res, rnd), q, rnd, SumTable(x, y))
      BY <2>3, <3>2, CheckedIsRanged
    <3>4. CorrectlyRounded(res, q, rnd, LAMBDA n, k : SumCmp(x, y, n, k))
      <4>1. SumRounded(x, y, q, rnd)
        BY <2>1, AddCorrect
      <4> QED
        BY <2>4, <4>1 DEF SumRounded, res
    <3>5. SumCmp(x, y, 0, 0) \in Sign
      BY <2>2, <3>2, <3>4, RoundedToIsValid DEF CorrectlyRounded
    <3> QED
      BY <3>3, <3>5, SumFromTable DEF res
  <2>5. ProductRanged(x, y, q, rnd)
    <3> DEFINE res == Mul(x, y, q, rnd)
               s == x.sign * y.sign
               m == x.mant * y.mant
               l == Scale(x) + Scale(y)
    <3>1. s \in Sign /\ m \in Nat \ {0} /\ l \in Int /\ RoundedTo(res, s, q, rnd, m, l, 1)
      BY <2>1, MulRounds, NormalParts
    <3>2. ComparesWith(ProductTable(x, y), s, m, l, 1, l)
      BY <2>1, MulCompares
    <3>3. CorrectlyRounded(res, q, rnd, LAMBDA n, k : ProductCmp(x, y, n, k))
      <4>1. ProductRounded(x, y, q, rnd)
        BY <2>1, MulCorrect
      <4> QED
        BY <4>1 DEF ProductRounded
    <3> HIDE DEF res, s, m, l
    <3>4. RangedBy(Checked(res, rnd), q, rnd, ProductTable(x, y))
      BY <2>3, <3>1, <3>2, CheckedIsRanged
    <3>5. ProductCmp(x, y, 0, 0) \in Sign
      BY <2>2, <3>1, <3>3, RoundedToIsValid DEF CorrectlyRounded
    <3> QED
      BY <3>4, <3>5, ProductFromTable DEF res
  <2>6. QuotientRanged(x, y, q, rnd)
    <3> DEFINE res == Div(x, y, q, rnd)
               s == x.sign * y.sign
               m == x.mant
               D == y.mant
               l == Scale(x) - Scale(y)
    <3>1. s \in Sign /\ m \in Nat \ {0} /\ l \in Int /\ D \in Nat \ {0} /\ RoundedTo(res, s, q, rnd, m, l, D)
      BY <2>1, DivRounds, NormalParts
    <3>2. ComparesWith(QuotientTable(x, y), s, m, l, D, l)
      BY <2>1, DivCompares
    <3>3. CorrectlyRounded(res, q, rnd, LAMBDA n, k : QuotientCmp(x, y, n, k))
      <4>1. QuotientRounded(x, y, q, rnd)
        BY <2>1, DivCorrect
      <4> QED
        BY <4>1 DEF QuotientRounded
    <3> HIDE DEF res, s, m, l, D
    <3>4. RangedBy(Checked(res, rnd), q, rnd, QuotientTable(x, y))
      BY <3>1, <3>2, CheckedIsRanged
    <3>5. QuotientCmp(x, y, 0, 0) \in Sign
      BY <2>2, <3>1, <3>3, RoundedToIsValid DEF CorrectlyRounded
    <3> QED
      BY <3>4, <3>5, QuotientFromTable DEF res
  <2> QED
    BY <2>4, <2>5, <2>6
<1> QED
  BY <1>1, RegistersAreValid, PTL

-----------------------------------------------------------------------------
(* The other sign and the special operands.                                *)

\* The mode turned round.
LEMMA MirrorModes ==
    ASSUME NEW rnd \in RoundingMode
    PROVE  /\ Mirror(rnd) \in RoundingMode
           /\ Mirror(rnd) = IF rnd = "RNDU" THEN "RNDD" ELSE IF rnd = "RNDD" THEN "RNDU" ELSE rnd
<1>1. Mirror(rnd) = IF rnd = "RNDU" THEN "RNDD" ELSE IF rnd = "RNDD" THEN "RNDU" ELSE rnd
  BY DEF Mirror
<1> QED
  BY <1>1 DEF RoundingMode

\* A value of the other sign.
LEMMA NegatedShapes ==
    ASSUME NEW v, Operand(v)
    PROVE  /\ Operand(Negated(v)) /\ Negated(v).kind = v.kind
           /\ v.kind = "nan" => Negated(v) = v
           /\ v.kind # "nan" => /\ Negated(v).sign = -v.sign /\ Negated(v).prec = v.prec
                                /\ Negated(v).exp = v.exp /\ Negated(v).mant = v.mant
           /\ v.kind = "inf" => Negated(v) = Inf(-v.sign, v.prec)
           /\ v.kind = "zero" => Negated(v) = Zero(-v.sign, v.prec)
           /\ v.kind = "normal" => Negated(v) = Normal(-v.sign, v.prec, v.exp, v.mant)
           /\ v.sign \in Sign /\ -v.sign \in Sign
<1>1. v.sign \in Sign /\ -v.sign \in Sign
  BY Kinds, ProductOfSigns
<1>2. CASE v.kind = "nan"
  BY <1>1, <1>2 DEF Negated
<1>3. CASE v.kind # "nan"
  <2>1. Negated(v) = [v EXCEPT !.sign = -v.sign]
    BY <1>3 DEF Negated
  <2>2. /\ Operand(Negated(v)) /\ Negated(v).kind = v.kind
        /\ Negated(v).sign = -v.sign /\ Negated(v).prec = v.prec
        /\ Negated(v).exp = v.exp /\ Negated(v).mant = v.mant
    BY <1>3, <2>1, OppositeSign
  <2> QED
    BY <1>1, <1>3, <2>2, Kinds
<1> QED
  BY <1>2, <1>3

\* An exact result stays exact.
LEMMA OppositeOfZero ==
    ASSUME NEW t \in Int, t <= 0, t >= 0
    PROVE  -t = 0
  OBVIOUS

\* A result of the other sign.
LEMMA NegatedResults ==
    ASSUME NEW s \in Sign, NEW q \in Nat \ {0}
    PROVE  /\ NegatedResult(Exactly(NAN_VALUE)) = Exactly(NAN_VALUE)
           /\ NegatedResult(Exactly(Inf(s, q))) = Exactly(Inf(-s, q))
           /\ NegatedResult(Exactly(Zero(s, q))) = Exactly(Zero(-s, q))
           /\ \A e, m, t : NegatedResult(Result(Normal(s, q, e, m), t)) = Result(Normal(-s, q, e, m), -t)
<1>1. NAN_VALUE.kind = "nan"
  BY DEF NAN_VALUE
<1>2. /\ Negated(NAN_VALUE) = NAN_VALUE
      /\ Negated(Inf(s, q)) = Inf(-s, q)
      /\ Negated(Zero(s, q)) = Zero(-s, q)
      /\ \A e, m : Negated(Normal(s, q, e, m)) = Normal(-s, q, e, m)
  BY <1>1 DEF Negated, Inf, Zero, Normal
<1>3. \A v, t : NegatedResult(Result(v, t)) = Result(Negated(v), -t)
  BY ExactlyOf DEF NegatedResult
<1>4. \A v, t : t = 0 => NegatedResult(Result(v, t)) = Result(Negated(v), 0)
  <2>1. 0 \in Int /\ 0 <= 0 /\ 0 >= 0
    OBVIOUS
  <2>2. \A t : t = 0 => -t = 0
    BY <2>1, OppositeOfZero, Zenon
  <2> QED
    BY <1>3, <2>2, Zenon
<1> QED
  BY <1>2, <1>3, <1>4 DEF Exactly

\* The rounding of the other sign in the mode turned round.
LEMMA RoundsToMirrored ==
    ASSUME NEW M \in Nat, NEW H, NEW g \in Nat, NEW A \in Int, NEW sign \in Sign, NEW t,
           NEW rnd \in RoundingMode, RoundsTo(M, H, g, A, sign, t, rnd)
    PROVE  RoundsTo(M, H, g, A, -sign, -t, Mirror(rnd))
<1> DEFINE o == Off(4 * M, g, A)
           out == Off(4 * M + 4, g, A) > 0
           in == Off(IF M = H THEN 4 * M - 2 ELSE 4 * M - 4, g, A) < 0
           low == o <= 0
           high == o >= 0
           near == /\ Off(4 * M + 2, g, A) >= 0 /\ Off(IF M = H THEN 4 * M - 1 ELSE 4 * M - 2, g, A) <= 0
                   /\ Off(4 * M + 2, g, A) = 0 => M % 2 = 0
                   /\ Off(IF M = H THEN 4 * M - 1 ELSE 4 * M - 2, g, A) = 0 => M % 2 = 0 \/ M = H
<1>1. o \in Int
  BY DEF Off, Sgn
<1>2. /\ t = sign * o
      /\ rnd = "RNDZ" => low /\ out
      /\ rnd = "RNDA" => high /\ in
      /\ rnd = "RNDD" => IF sign = 1 THEN low /\ out ELSE high /\ in
      /\ rnd = "RNDU" => IF sign = 1 THEN high /\ in ELSE low /\ out
      /\ rnd = "RNDN" => near
  BY Zenon DEF RoundsTo
<1> DEFINE z == Mirror(rnd)
           s == -sign
           u == -t
<1> SUFFICES /\ u = s * o
             /\ z = "RNDZ" => low /\ out
             /\ z = "RNDA" => high /\ in
             /\ z = "RNDD" => IF s = 1 THEN low /\ out ELSE high /\ in
             /\ z = "RNDU" => IF s = 1 THEN high /\ in ELSE low /\ out
             /\ z = "RNDN" => near
  BY Zenon DEF RoundsTo
<1>3. z = IF rnd = "RNDU" THEN "RNDD" ELSE IF rnd = "RNDD" THEN "RNDU" ELSE rnd
  BY MirrorModes
<1> HIDE DEF o, out, in, low, high, near, z
<1>4. u = s * o /\ (s = 1 <=> sign # 1)
  BY <1>1, <1>2 DEF Sign
<1> QED
  BY <1>2, <1>3, <1>4 DEF RoundingMode

\* So with a result.
LEMMA RoundedToMirrored ==
    ASSUME NEW res, NEW sign \in Sign, NEW q \in Nat \ {0}, NEW rnd \in RoundingMode,
           NEW m \in Nat, NEW l \in Int, NEW D \in Nat, RoundedTo(res, sign, q, rnd, m, l, D)
    PROVE  RoundedTo(NegatedResult(res), -sign, q, Mirror(rnd), m, l, D)
<1> DEFINE E == res.value.exp
           M == res.value.mant
           H == Pow2(q - 1)
           t == res.ternary
<1>1. /\ E \in Int /\ M \in H .. Pow2(q) - 1
      /\ res = Result(Normal(sign, q, E, M), t)
      /\ \A b \in Int : b <= l /\ b <= E - q - 2 =>
             RoundsTo(M, H, D * Pow2(E - q - 2 - b), m * Pow2(l - b), sign, t, rnd)
  BY DEF RoundedTo
<1> HIDE DEF E, M, t
<1>2. NegatedResult(res) = Result(Normal(-sign, q, E, M), -t)
  BY <1>1, NegatedResults
<1>3. H \in Nat \ {0} /\ Pow2(q) \in Nat /\ M \in Nat
  BY <1>1, LengthBounds
<1>4. ASSUME NEW b \in Int, b <= l, b <= E - q - 2
      PROVE  RoundsTo(M, H, D * Pow2(E - q - 2 - b), m * Pow2(l - b), -sign, -t, Mirror(rnd))
  <2>1. RoundsTo(M, H, D * Pow2(E - q - 2 - b), m * Pow2(l - b), sign, t, rnd)
    BY <1>1, <1>4
  <2>2. E - q - 2 - b \in Nat /\ l - b \in Nat
    BY <1>1, <1>4
  <2>3. D * Pow2(E - q - 2 - b) \in Nat /\ m * Pow2(l - b) \in Int
    <3>1. Pow2(E - q - 2 - b) \in Nat /\ Pow2(l - b) \in Nat
      BY <2>2, Pow2Type
    <3> QED
      BY <3>1, NaturalProducts
  <2> QED
    BY <1>3, <2>1, <2>3, RoundsToMirrored
<1> DEFINE w == NegatedResult(res)
<1>5. w.value.exp = E /\ w.value.mant = M /\ w.ternary = -t
  BY <1>2 DEF Result, Normal
<1>6. w = Result(Normal(-sign, q, w.value.exp, w.value.mant), w.ternary)
  BY <1>2, <1>5
<1> HIDE DEF w, H
<1>7. RoundedTo(w, -sign, q, Mirror(rnd), m, l, D)
  BY <1>1, <1>4, <1>5, <1>6 DEF RoundedTo, H
<1> QED
  BY <1>7 DEF w

\* A number written in one way is the same number.
LEMMA SameAsItself ==
    ASSUME NEW m \in Int, NEW l \in Int
    PROVE  SameNumber(m, l, m, l)
<1>1. l <= l /\ l \in Int
  OBVIOUS
<1> QED
  BY <1>1, Zenon DEF SameNumber

\* Two results for a magnitude, one of each sign and in mirrored modes, differ
\* in the signs only.
LEMMA MirroredIsUnique ==
    ASSUME NEW sign \in Sign, NEW q \in Nat \ {0}, NEW rnd \in RoundingMode, NEW D \in Nat \ {0},
           NEW r, NEW m \in Nat, NEW l \in Int, RoundedTo(r, sign, q, rnd, m, l, D),
           NEW s, NEW n \in Nat, NEW k \in Int, RoundedTo(s, -sign, q, Mirror(rnd), n, k, D),
           SameNumber(m, l, n, k)
    PROVE  s = NegatedResult(r)
<1>1. RoundedTo(NegatedResult(r), -sign, q, Mirror(rnd), m, l, D)
  BY RoundedToMirrored
<1>2. -sign \in Sign /\ Mirror(rnd) \in RoundingMode
  BY ProductOfSigns, MirrorModes
<1> QED
  BY <1>1, <1>2, RoundingIsUnique

\* mpfr_mul, and
LEMMA MulMirrored ==
    ASSUME NEW a, Operand(a), NEW b, Operand(b), NEW q \in Precision, NEW rnd \in RoundingMode
    PROVE  Mul(Negated(a), b, q, Mirror(rnd)) = NegatedResult(Mul(a, b, q, rnd))
<1> DEFINE c == Negated(a)
           z == Mirror(rnd)
<1>1. /\ a.kind \in {"nan", "inf", "zero", "normal"} /\ b.kind \in {"nan", "inf", "zero", "normal"}
      /\ a.sign \in Sign /\ b.sign \in Sign /\ a.sign * b.sign \in Sign /\ q \in Nat \ {0}
      /\ z \in RoundingMode
  BY Kinds, ProductOfSigns, MirrorModes, PrecAssumption DEF Precision
<1>2. Operand(c) /\ c.kind = a.kind /\ (a.kind # "nan" => c.sign = -a.sign /\ c.mant = a.mant
                                                          /\ c.exp = a.exp /\ c.prec = a.prec)
  BY NegatedShapes
<1>3. (-a.sign) * b.sign = -(a.sign * b.sign)
  BY <1>1 DEF Sign
<1> HIDE DEF c
<1>4. CASE a.kind = "normal" /\ b.kind = "normal"
  <2> DEFINE s == a.sign * b.sign
             m == a.mant * b.mant
             l == Scale(a) + Scale(b)
  <2>1. m \in Nat \ {0} /\ RoundedTo(Mul(a, b, q, rnd), s, q, rnd, m, l, 1)
    BY <1>4, MulRounds
  <2>2. RoundedTo(Mul(c, b, q, z), c.sign * b.sign, q, z, c.mant * b.mant, Scale(c) + Scale(b), 1)
    BY <1>1, <1>2, <1>4, MulRounds
  <2>3. Scale(c) = Scale(a) /\ c.mant * b.mant = m /\ c.sign * b.sign = -s
    BY <1>2, <1>3, <1>4 DEF Scale
  <2>4. RoundedTo(Mul(c, b, q, z), -s, q, z, m, l, 1)
    BY <2>2, <2>3
  <2>5. l \in Int /\ 1 \in Nat \ {0}
    <3>1. Scale(a) \in Int /\ Scale(b) \in Int
      BY <1>4, NormalParts
    <3> QED
      BY <3>1
  <2>6. SameNumber(m, l, m, l)
    BY <2>1, <2>5, SameAsItself
  <2> HIDE DEF s, m, l
  <2>7. s \in Sign
    BY <1>1 DEF s
  <2> QED
    BY <1>1, <2>1, <2>4, <2>5, <2>6, <2>7, MirroredIsUnique DEF c
<1>5. CASE ~(a.kind = "normal" /\ b.kind = "normal")
  <2> DEFINE s == a.sign * b.sign
  <2>1. /\ a.kind # "nan" /\ b.kind # "nan" => c.sign * b.sign = -s
    BY <1>2, <1>3
  <2>2. /\ NegatedResult(Exactly(NAN_VALUE)) = Exactly(NAN_VALUE)
        /\ NegatedResult(Exactly(Inf(s, q))) = Exactly(Inf(-s, q))
        /\ NegatedResult(Exactly(Zero(s, q))) = Exactly(Zero(-s, q))
    BY <1>1, NegatedResults
  <2> HIDE DEF z
  <2>3. CASE a.kind = "nan" \/ b.kind = "nan"
    <3>1. Mul(a, b, q, rnd) = Exactly(NAN_VALUE) /\ Mul(c, b, q, z) = Exactly(NAN_VALUE)
      BY <1>2, <2>3 DEF Mul
    <3> QED
      BY <2>2, <3>1 DEF c, z
  <2>4. CASE a.kind # "nan" /\ b.kind # "nan"
    <3>1. CASE {a.kind, b.kind} = {"inf", "zero"}
      <4>1. Mul(a, b, q, rnd) = Exactly(NAN_VALUE) /\ Mul(c, b, q, z) = Exactly(NAN_VALUE)
        BY <1>2, <2>4, <3>1 DEF Mul
      <4> QED
        BY <2>2, <4>1 DEF c, z
    <3>2. CASE {a.kind, b.kind} \in {{"inf"}, {"inf", "normal"}}
      <4>1. Mul(a, b, q, rnd) = Exactly(Inf(s, q))
        BY <1>1, <1>5, <2>4, <3>2 DEF Mul
      <4>2. Mul(c, b, q, z) = Exactly(Inf(c.sign * b.sign, q))
        BY <1>1, <1>2, <1>5, <2>4, <3>2 DEF Mul
      <4> QED
        BY <2>1, <2>2, <2>4, <4>1, <4>2, Zenon DEF c, z
    <3>3. CASE {a.kind, b.kind} \in {{"zero"}, {"zero", "normal"}}
      <4>1. Mul(a, b, q, rnd) = Exactly(Zero(s, q))
        BY <1>1, <1>5, <2>4, <3>3 DEF Mul
      <4>2. Mul(c, b, q, z) = Exactly(Zero(c.sign * b.sign, q))
        BY <1>1, <1>2, <1>5, <2>4, <3>3 DEF Mul
      <4> QED
        BY <2>1, <2>2, <2>4, <4>1, <4>2, Zenon DEF c, z
    <3> QED
      BY <1>1, <1>5, <2>4, <3>1, <3>2, <3>3
  <2> QED
    BY <2>3, <2>4
<1> QED
  BY <1>4, <1>5

\* mpfr_div treat both signs alike.
LEMMA DivMirrored ==
    ASSUME NEW a, Operand(a), NEW b, Operand(b), NEW q \in Precision, NEW rnd \in RoundingMode
    PROVE  Div(a, Negated(b), q, Mirror(rnd)) = NegatedResult(Div(a, b, q, rnd))
<1> DEFINE c == Negated(b)
           z == Mirror(rnd)
<1>1. /\ a.kind \in {"nan", "inf", "zero", "normal"} /\ b.kind \in {"nan", "inf", "zero", "normal"}
      /\ a.sign \in Sign /\ b.sign \in Sign /\ a.sign * b.sign \in Sign /\ q \in Nat \ {0}
      /\ z \in RoundingMode
  BY Kinds, ProductOfSigns, MirrorModes, PrecAssumption DEF Precision
<1>2. Operand(c) /\ c.kind = b.kind /\ (b.kind # "nan" => c.sign = -b.sign /\ c.mant = b.mant
                                                          /\ c.exp = b.exp /\ c.prec = b.prec)
  BY NegatedShapes
<1>3. a.sign * (-b.sign) = -(a.sign * b.sign)
  BY <1>1 DEF Sign
<1> HIDE DEF c
<1>4. CASE a.kind = "normal" /\ b.kind = "normal"
  <2> DEFINE s == a.sign * b.sign
             m == a.mant
             D == b.mant
             l == Scale(a) - Scale(b)
  <2>1. m \in Nat \ {0} /\ D \in Nat \ {0} /\ RoundedTo(Div(a, b, q, rnd), s, q, rnd, m, l, D)
    BY <1>4, DivRounds
  <2>2. RoundedTo(Div(a, c, q, z), a.sign * c.sign, q, z, a.mant, Scale(a) - Scale(c), c.mant)
    BY <1>1, <1>2, <1>4, DivRounds
  <2>3. Scale(c) = Scale(b) /\ c.mant = D /\ a.sign * c.sign = -s
    BY <1>2, <1>3, <1>4 DEF Scale
  <2>4. RoundedTo(Div(a, c, q, z), -s, q, z, m, l, D)
    BY <2>2, <2>3
  <2>5. l \in Int
    <3>1. Scale(a) \in Int /\ Scale(b) \in Int
      BY <1>4, NormalParts
    <3> QED
      BY <3>1
  <2>6. SameNumber(m, l, m, l)
    BY <2>1, <2>5, SameAsItself
  <2> HIDE DEF s, m, l, D
  <2>7. s \in Sign
    BY <1>1 DEF s
  <2> QED
    BY <1>1, <2>1, <2>4, <2>5, <2>6, <2>7, MirroredIsUnique DEF c
<1>5. CASE ~(a.kind = "normal" /\ b.kind = "normal")
  <2> DEFINE s == a.sign * b.sign
  <2>1. /\ a.kind # "nan" /\ b.kind # "nan" => a.sign * c.sign = -s
    BY <1>2, <1>3
  <2>2. /\ NegatedResult(Exactly(NAN_VALUE)) = Exactly(NAN_VALUE)
        /\ NegatedResult(Exactly(Inf(s, q))) = Exactly(Inf(-s, q))
        /\ NegatedResult(Exactly(Zero(s, q))) = Exactly(Zero(-s, q))
    BY <1>1, NegatedResults
  <2> HIDE DEF z
  <2>3. CASE a.kind = "nan" \/ b.kind = "nan" \/ (a.kind = b.kind /\ a.kind \in {"inf", "zero"})
    BY <1>2, <2>2, <2>3 DEF Div, c, z
  <2>4. CASE a.kind # "nan" /\ b.kind # "nan" /\ ~(a.kind = b.kind /\ a.kind \in {"inf", "zero"})
    <3>1. CASE (a.kind = "inf" /\ b.kind \in {"zero", "normal"}) \/ (a.kind = "normal" /\ b.kind = "zero")
      <4>1. Div(a, b, q, rnd) = Exactly(Inf(s, q))
        BY <1>1, <1>5, <2>4, <3>1 DEF Div
      <4>2. Div(a, c, q, z) = Exactly(Inf(a.sign * c.sign, q))
        BY <1>1, <1>2, <1>5, <2>4, <3>1 DEF Div
      <4> QED
        BY <2>1, <2>2, <2>4, <4>1, <4>2, Zenon DEF c, z
    <3>2. CASE (a.kind \in {"zero", "normal"} /\ b.kind = "inf") \/ (a.kind = "zero" /\ b.kind = "normal")
      <4>1. Div(a, b, q, rnd) = Exactly(Zero(s, q))
        BY <1>1, <1>5, <2>4, <3>2 DEF Div
      <4>2. Div(a, c, q, z) = Exactly(Zero(a.sign * c.sign, q))
        BY <1>1, <1>2, <1>5, <2>4, <3>2 DEF Div
      <4> QED
        BY <2>1, <2>2, <2>4, <4>1, <4>2, Zenon DEF c, z
    <3> QED
      BY <1>1, <1>5, <2>4, <3>1, <3>2
  <2> QED
    BY <2>3, <2>4
<1> QED
  BY <1>4, <1>5

\* What set4 rounds.
LEMMA Set4Rounds ==
    ASSUME NEW v, Operand(v), v.kind = "normal", NEW s \in Sign,
           NEW q \in Precision, NEW rnd \in RoundingMode
    PROVE  RoundedTo(Set4(v, q, rnd, s), s, q, rnd, v.mant, Scale(v), 1)
<1>1. /\ v.prec \in Nat \ {0} /\ v.exp \in Int /\ Scale(v) = v.exp - v.prec
      /\ v.mant \in Pow2(v.prec - 1) .. Pow2(v.prec) - 1 /\ q \in Nat \ {0}
  BY NormalParts, PrecAssumption DEF Precision
<1>2. Set4(v, q, rnd, s) = PackNormal(s, v.exp, v.mant, v.prec, q, rnd)
  BY DEF Set4
<1> QED
  BY <1>1, <1>2, PackNormalRounds

\* The specials of set4.
LEMMA Set4Table ==
    ASSUME NEW v, NEW q, NEW rnd, NEW s
    PROVE  /\ v.kind = "nan" => Set4(v, q, rnd, s) = Exactly(NAN_VALUE)
           /\ v.kind = "inf" => Set4(v, q, rnd, s) = Exactly(Inf(s, q))
           /\ v.kind = "zero" => Set4(v, q, rnd, s) = Exactly(Zero(s, q))
           /\ RoundToPrec(v, q, rnd) = Set4(v, q, rnd, v.sign)
           /\ Set(v, q, rnd) = Set4(v, q, rnd, v.sign)
  BY DEF Set4, RoundToPrec, Set

\* set mirrors.
LEMMA RoundToPrecMirrored ==
    ASSUME NEW v, Operand(v), NEW q \in Precision, NEW rnd \in RoundingMode
    PROVE  RoundToPrec(Negated(v), q, Mirror(rnd)) = NegatedResult(RoundToPrec(v, q, rnd))
<1> DEFINE c == Negated(v)
           z == Mirror(rnd)
           s == v.sign
<1>1. /\ v.kind \in {"nan", "inf", "zero", "normal"} /\ s \in Sign /\ -s \in Sign
      /\ q \in Nat \ {0} /\ z \in RoundingMode
  <2>1. z \in RoundingMode
    BY MirrorModes
  <2> QED
    BY <2>1, Kinds, ProductOfSigns, PrecAssumption DEF Precision
<1>2. Operand(c) /\ c.kind = v.kind /\ (v.kind # "nan" => c.sign = -s /\ c.mant = v.mant
                                                          /\ c.exp = v.exp /\ c.prec = v.prec)
  BY NegatedShapes
<1>3. /\ NegatedResult(Exactly(NAN_VALUE)) = Exactly(NAN_VALUE)
      /\ NegatedResult(Exactly(Inf(s, q))) = Exactly(Inf(-s, q))
      /\ NegatedResult(Exactly(Zero(s, q))) = Exactly(Zero(-s, q))
  BY <1>1, NegatedResults
<1> HIDE DEF c, z
<1>4. CASE v.kind # "normal"
  <2> HIDE DEF s
  <2> QED
    BY <1>1, <1>2, <1>3, <1>4, Set4Table DEF c, z, s
<1>5. CASE v.kind = "normal"
  <2>1. /\ RoundToPrec(v, q, rnd) = Set4(v, q, rnd, s)
        /\ RoundToPrec(c, q, z) = Set4(c, q, z, -s)
    BY <1>2, <1>5, Set4Table
  <2>2. RoundedTo(Set4(v, q, rnd, s), s, q, rnd, v.mant, Scale(v), 1)
    BY <1>1, <1>5, Set4Rounds
  <2>3. RoundedTo(Set4(c, q, z, -s), -s, q, z, c.mant, Scale(c), 1)
    BY <1>1, <1>2, <1>5, Set4Rounds
  <2>4. c.mant = v.mant /\ Scale(c) = Scale(v)
    BY <1>2, <1>5 DEF Scale
  <2>5. v.mant \in Nat /\ Scale(v) \in Int /\ 1 \in Nat \ {0}
    BY <1>5, NormalParts
  <2>6. SameNumber(v.mant, Scale(v), v.mant, Scale(v))
    BY <2>5, SameAsItself
  <2> HIDE DEF s
  <2>7. Set4(c, q, z, -s) = NegatedResult(Set4(v, q, rnd, s))
    BY <1>1, <2>2, <2>3, <2>4, <2>5, <2>6, MirroredIsUnique DEF z
  <2> QED
    BY <2>1, <2>7 DEF c, z
<1> QED
  BY <1>4, <1>5

\* The order of two values is that of their negatives turned round.
LEMMA CompareNegated ==
    ASSUME NEW a, Operand(a), a.kind # "nan", NEW b, Operand(b), b.kind # "nan"
    PROVE  Compare(Negated(a), Negated(b)) = -Compare(a, b)
<1> DEFINE c == Negated(a)
           d == Negated(b)
           n == CompareMagnitude(a, b)
<1>1. /\ a.kind \in {"inf", "zero", "normal"} /\ b.kind \in {"inf", "zero", "normal"}
      /\ a.sign \in Sign /\ b.sign \in Sign
  BY Kinds
<1>2. /\ c.kind = a.kind /\ c.sign = -a.sign /\ c.exp = a.exp /\ c.prec = a.prec /\ c.mant = a.mant
      /\ d.kind = b.kind /\ d.sign = -b.sign /\ d.exp = b.exp /\ d.prec = b.prec /\ d.mant = b.mant
  BY NegatedShapes
<1> HIDE DEF c, d
<1>3. CompareMagnitude(c, d) = n /\ n \in {-1, 0, 1}
  <2>1. n \in {-1, 0, 1}
    BY DEF CompareMagnitude, Sgn
  <2>2. CompareMagnitude(c, d) = n
    BY <1>2, Zenon DEF CompareMagnitude
  <2> QED
    BY <2>1, <2>2
<1> HIDE DEF n
<1>4. Compare(c, d) = -Compare(a, b)
  <2>1. CASE a.kind = "normal" /\ b.kind = "normal"
    <3>1. /\ Compare(a, b) = IF a.sign # b.sign THEN a.sign ELSE a.sign * n
          /\ Compare(c, d) = IF c.sign # d.sign THEN c.sign ELSE c.sign * n
      BY <1>2, <1>3, <2>1, ComparisonTable DEF n
    <3> QED
      BY <1>1, <1>2, <1>3, <3>1 DEF Sign
  <2>2. CASE ~(a.kind = "normal" /\ b.kind = "normal")
    BY <1>1, <1>2, <2>2, ComparisonTable DEF Sign
  <2> QED
    BY <2>1, <2>2
<1> QED
  BY <1>4 DEF c, d

\* The magnitudes of two values in a common unit, by their order.
LEMMA OrderedMagnitudes ==
    ASSUME NEW a, Operand(a), a.kind = "normal", NEW b, Operand(b), b.kind = "normal"
    PROVE  /\ CompareMagnitude(a, b) \in {-1, 0, 1}
           /\ CompareMagnitude(a, b) \in {-1, 0} => AtMost(a.mant, Scale(a), b.mant, Scale(b))
           /\ CompareMagnitude(a, b) \in {0, 1} => AtMost(b.mant, Scale(b), a.mant, Scale(a))
           /\ CompareMagnitude(a, b) = 0 => SameNumber(a.mant, Scale(a), b.mant, Scale(b))
<1>1. PICK t \in Int : t <= Scale(a) /\ t <= Scale(b)
  <2>1. Scale(a) \in Int /\ Scale(b) \in Int
    BY NormalParts
  <2> QED
    BY <2>1
<1> DEFINE A == MantAt(a, t)
           B == MantAt(b, t)
<1>2. A \in Int /\ B \in Int /\ A = a.mant * Pow2(Scale(a) - t) /\ B = b.mant * Pow2(Scale(b) - t)
  BY <1>1, BinadeBounds DEF MantAt
<1>3. CompareMagnitude(a, b) = Sgn(A - B)
  BY <1>1, MagnitudesCompare
<1> HIDE DEF A, B
<1>4. /\ CompareMagnitude(a, b) \in {-1, 0, 1}
      /\ CompareMagnitude(a, b) \in {-1, 0} => A <= B
      /\ CompareMagnitude(a, b) \in {0, 1} => B <= A
      /\ CompareMagnitude(a, b) = 0 => A = B
  BY <1>2, <1>3 DEF Sgn
<1> QED
  BY <1>1, <1>2, <1>4 DEF AtMost, SameNumber

\* Equal values, of whatever precisions, have one rounding.
LEMMA EqualsRoundAlike ==
    ASSUME NEW a, Operand(a), a.kind = "normal", NEW b, Operand(b), b.kind = "normal",
           Compare(a, b) = 0, NEW q \in Precision, NEW rnd \in RoundingMode
    PROVE  RoundToPrec(a, q, rnd) = RoundToPrec(b, q, rnd)
<1> DEFINE n == CompareMagnitude(a, b)
<1>1. a.sign \in Sign /\ b.sign \in Sign /\ q \in Nat \ {0}
  BY Kinds, PrecAssumption DEF Precision
<1>2. Compare(a, b) = IF a.sign # b.sign THEN a.sign ELSE a.sign * n
  BY ComparisonTable
<1>3. n \in {-1, 0, 1}
  BY OrderedMagnitudes
<1> HIDE DEF n
<1>4. a.sign = b.sign /\ n = 0
  BY <1>1, <1>2, <1>3 DEF Sign
<1>5. SameNumber(a.mant, Scale(a), b.mant, Scale(b))
  BY <1>4, OrderedMagnitudes DEF n
<1>6. /\ RoundedTo(Set4(a, q, rnd, a.sign), a.sign, q, rnd, a.mant, Scale(a), 1)
      /\ RoundedTo(Set4(b, q, rnd, a.sign), a.sign, q, rnd, b.mant, Scale(b), 1)
  BY <1>1, Set4Rounds
<1>7. a.mant \in Nat /\ b.mant \in Nat /\ Scale(a) \in Int /\ Scale(b) \in Int /\ 1 \in Nat \ {0}
  BY NormalParts
<1>8. Set4(a, q, rnd, a.sign) = Set4(b, q, rnd, a.sign)
  BY <1>1, <1>5, <1>6, <1>7, RoundingIsUnique
<1> QED
  BY <1>4, <1>8, Set4Table

\* mpfr_max and mpfr_min, case by case.
LEMMA SelectionTable ==
    ASSUME NEW a, Operand(a), NEW b, Operand(b), NEW q, NEW rnd
    PROVE  /\ a.kind = "nan" => /\ Max(a, b, q, rnd) = RoundToPrec(b, q, rnd)
                                /\ Min(a, b, q, rnd) = RoundToPrec(b, q, rnd)
           /\ a.kind # "nan" /\ b.kind = "nan" => /\ Max(a, b, q, rnd) = RoundToPrec(a, q, rnd)
                                                  /\ Min(a, b, q, rnd) = RoundToPrec(a, q, rnd)
           /\ a.kind = "zero" /\ b.kind = "zero" =>
                 /\ Max(a, b, q, rnd) = Exactly(Zero(IF 1 \in {a.sign, b.sign} THEN 1 ELSE -1, q))
                 /\ Min(a, b, q, rnd) = Exactly(Zero(IF -1 \in {a.sign, b.sign} THEN -1 ELSE 1, q))
           /\ a.kind # "nan" /\ b.kind # "nan" /\ ~(a.kind = "zero" /\ b.kind = "zero") =>
                 /\ Max(a, b, q, rnd) = RoundToPrec(IF LessEqualP(a, b) THEN b ELSE a, q, rnd)
                 /\ Min(a, b, q, rnd) = RoundToPrec(IF LessEqualP(a, b) THEN a ELSE b, q, rnd)
<1>1. CASE a.kind = "nan"
  BY <1>1 DEF Max, Min, UnorderedP
<1>2. CASE a.kind # "nan" /\ b.kind = "nan"
  BY <1>2 DEF Max, Min, UnorderedP
<1>3. CASE a.kind = "zero" /\ b.kind = "zero"
  BY <1>3 DEF Max, Min, UnorderedP
<1>4. CASE a.kind # "nan" /\ b.kind # "nan" /\ ~(a.kind = "zero" /\ b.kind = "zero")
  <2>1. ~UnorderedP(a, b) /\ {a.kind, b.kind} # {"zero"}
    BY <1>4 DEF UnorderedP
  <2>2. /\ Max(a, b, q, rnd) = RoundToPrec(IF LessEqualP(a, b) THEN b ELSE a, q, rnd)
        /\ Min(a, b, q, rnd) = RoundToPrec(IF LessEqualP(a, b) THEN a ELSE b, q, rnd)
    BY <1>4, <2>1, Zenon DEF Max, Min
  <2> QED
    BY <1>4, <2>2
<1> QED
  BY <1>1, <1>2, <1>3, <1>4

\* max of the negatives is the negative of min.
LEMMA MaxMirrored ==
    ASSUME NEW a, Operand(a), NEW b, Operand(b), NEW q \in Precision, NEW rnd \in RoundingMode
    PROVE  Max(Negated(a), Negated(b), q, Mirror(rnd)) = NegatedResult(Min(a, b, q, rnd))
<1> DEFINE c == Negated(a)
           d == Negated(b)
           z == Mirror(rnd)
<1>1. /\ Operand(c) /\ c.kind = a.kind /\ (a.kind # "nan" => c.sign = -a.sign)
      /\ Operand(d) /\ d.kind = b.kind /\ (b.kind # "nan" => d.sign = -b.sign)
  BY NegatedShapes
<1>2. /\ RoundToPrec(c, q, z) = NegatedResult(RoundToPrec(a, q, rnd))
      /\ RoundToPrec(d, q, z) = NegatedResult(RoundToPrec(b, q, rnd))
  BY RoundToPrecMirrored
<1>3. a.sign \in Sign /\ b.sign \in Sign /\ q \in Nat \ {0}
  BY Kinds, PrecAssumption DEF Precision
<1>4. a.kind # "nan" /\ b.kind # "nan" => /\ Compare(c, d) = -Compare(a, b)
                                          /\ Compare(a, b) \in {-1, 0, 1}
  BY CompareNegated, CompareOpposite
<1> HIDE DEF c, d, z
<1>5. CASE a.kind = "nan" \/ b.kind = "nan"
  BY <1>1, <1>2, <1>5, SelectionTable DEF c, d, z
<1>6. CASE a.kind = "zero" /\ b.kind = "zero"
  <2> DEFINE s == IF -1 \in {a.sign, b.sign} THEN -1 ELSE 1
  <2>1. s \in Sign /\ -s = (IF 1 \in {c.sign, d.sign} THEN 1 ELSE -1)
    BY <1>1, <1>3, <1>6 DEF Sign
  <2>2. Min(a, b, q, rnd) = Exactly(Zero(s, q))
    BY <1>6, SelectionTable
  <2>3. Max(c, d, q, z) = Exactly(Zero(-s, q))
    BY <1>1, <1>6, <2>1, SelectionTable
  <2> HIDE DEF s
  <2> QED
    BY <1>3, <2>1, <2>2, <2>3, NegatedResults DEF c, d, z
<1>7. CASE a.kind # "nan" /\ b.kind # "nan" /\ ~(a.kind = "zero" /\ b.kind = "zero")
  <2>1. Min(a, b, q, rnd) = RoundToPrec(IF LessEqualP(a, b) THEN a ELSE b, q, rnd)
    BY <1>7, SelectionTable
  <2>2. Max(c, d, q, z) = RoundToPrec(IF LessEqualP(c, d) THEN d ELSE c, q, z)
    BY <1>1, <1>7, SelectionTable
  <2>3. CASE Compare(a, b) = -1
    <3>1. LessEqualP(a, b) /\ ~LessEqualP(c, d)
      BY <1>4, <1>7, <2>3 DEF LessEqualP
    <3> QED
      BY <1>2, <2>1, <2>2, <3>1 DEF c, d, z
  <2>4. CASE Compare(a, b) = 1
    <3>1. ~LessEqualP(a, b) /\ LessEqualP(c, d)
      BY <1>4, <1>7, <2>4 DEF LessEqualP
    <3> QED
      BY <1>2, <2>1, <2>2, <3>1 DEF c, d, z
  <2>5. CASE Compare(a, b) = 0
    <3>1. LessEqualP(a, b) /\ LessEqualP(c, d)
      <4>1. Compare(c, d) = 0
        BY <1>4, <1>7, <2>5
      <4> QED
        BY <2>5, <4>1 DEF LessEqualP
    <3>2. RoundToPrec(a, q, rnd) = RoundToPrec(b, q, rnd)
      <4>1. (a.kind = "normal" /\ b.kind = "normal") \/ (a.kind = "inf" /\ b.kind = "inf" /\ a.sign = b.sign)
        BY <1>3, <1>7, <2>5, ComparisonTable, Kinds DEF Sign
      <4>2. CASE a.kind = "normal" /\ b.kind = "normal"
        BY <2>5, <4>2, EqualsRoundAlike
      <4>3. CASE a.kind = "inf" /\ b.kind = "inf" /\ a.sign = b.sign
        BY <4>3, Set4Table
      <4> QED
        BY <4>1, <4>2, <4>3
    <3> QED
      BY <1>2, <2>1, <2>2, <3>1, <3>2 DEF c, d, z
  <2> QED
    BY <1>4, <1>7, <2>3, <2>4, <2>5
<1> QED
  BY <1>5, <1>6, <1>7

\* What SignSymmetry says of one sum.
SumMirrored(a, b, q, rnd) ==
    LET sum == Add(a, b, q, rnd)
        mirrored == Add(Negated(a), Negated(b), q, Mirror(rnd))
    IN  IF a.sign # b.sign /\ sum.value.kind = "zero" /\ rnd \notin {"RNDU", "RNDD"}
        THEN sum = mirrored /\ sum.value.sign = 1
        ELSE mirrored = NegatedResult(sum)

\* The zero of a cancellation, and when there is one.
LEMMA CancelledSum ==
    ASSUME NEW a, Operand(a), a.kind = "normal", NEW b, Operand(b), b.kind = "normal",
           \A t \in Int : t <= Scale(a) /\ t <= Scale(b) => SumOf(a, b, t) = 0,
           NEW q \in Precision, NEW rnd \in RoundingMode
    PROVE  /\ b.sign = -a.sign
           /\ Add(a, b, q, rnd) = Exactly(Zero(CancellationZeroSign(rnd), q))
<1> DEFINE lowA == a.exp - a.prec
           lowB == b.exp - b.prec
           anchor == IF lowA < lowB THEN lowA ELSE lowB
           am == a.mant * Pow2(lowA - anchor)
           bm == b.mant * Pow2(lowB - anchor)
<1>1. /\ a.sign \in Sign /\ b.sign \in Sign /\ lowA \in Int /\ lowB \in Int
      /\ Scale(a) = lowA /\ Scale(b) = lowB /\ a.mant \in Nat \ {0} /\ b.mant \in Nat \ {0}
      /\ Num(a) = a.sign * a.mant /\ Num(b) = b.sign * b.mant
  BY NormalParts
<1> HIDE DEF lowA, lowB
<1>2. anchor \in Int /\ anchor <= lowA /\ anchor <= lowB
  BY <1>1
<1> HIDE DEF anchor
<1> DEFINE A == Pow2(lowA - anchor)
           B == Pow2(lowB - anchor)
<1>3. lowA - anchor \in Nat /\ lowB - anchor \in Nat
  BY <1>1, <1>2
<1>4. A \in Nat \ {0} /\ B \in Nat \ {0}
  BY <1>3, Pow2Type
<1>5. am \in Nat \ {0} /\ bm \in Nat \ {0}
  BY <1>1, <1>4, NaturalProducts
<1>6. SumOf(a, b, anchor) = (a.sign * a.mant) * A + (b.sign * b.mant) * B
  BY <1>1, Zenon DEF SumOf
<1>7. (a.sign * a.mant) * A = a.sign * am /\ (b.sign * b.mant) * B = b.sign * bm
  <2>1. \A s \in Int, m \in Nat, P \in Nat : (s * m) * P = s * (m * P)
    OBVIOUS
  <2>2. a.sign \in Int /\ b.sign \in Int
    BY <1>1 DEF Sign
  <2> HIDE DEF A, B
  <2> QED
    BY <1>1, <1>4, <2>1, <2>2 DEF A, B
<1>8. SumOf(a, b, anchor) = 0
  BY <1>1, <1>2
<1> HIDE DEF A, B, am, bm
<1>9. am = bm /\ b.sign = -a.sign
  BY <1>1, <1>5, <1>6, <1>7, <1>8 DEF Sign
<1>10. a.sign # b.sign /\ am = bm
  BY <1>1, <1>9 DEF Sign
<1>11. AddNormalNormal(a, b, q, rnd) = Exactly(Zero(CancellationZeroSign(rnd), q))
  <2>1. ~(am > bm) /\ ~(am < bm)
    BY <1>5, <1>9
  <2> QED
    BY <1>10, <2>1, Zenon DEF AddNormalNormal, am, bm, anchor, lowA, lowB
<1> QED
  BY <1>9, <1>11 DEF Add

\* A sum that is not cancelled has the sign and the magnitude it is rounded from.
LEMMA SumMagnitude ==
    ASSUME NEW a, Operand(a), a.kind = "normal", NEW b, Operand(b), b.kind = "normal",
           NEW q \in Precision, NEW rnd \in RoundingMode,
           NEW res, SumRounding(res, a, b, q, rnd),
           NEW u \in Int, u <= Scale(a), u <= Scale(b), SumOf(a, b, u) # 0
    PROVE  \E s \in Sign, m \in Nat \ {0}, l \in Int :
              /\ RoundedTo(res, s, q, rnd, m, l, 1)
              /\ \A t \in Int : t <= l /\ t <= Scale(a) /\ t <= Scale(b) =>
                    SumOf(a, b, t) = s * (m * Pow2(l - t))
  BY DEF SumRounding

\* The sum of the negatives.
LEMMA SumOfNegated ==
    ASSUME NEW a, Operand(a), a.kind = "normal", NEW b, Operand(b), b.kind = "normal",
           NEW t \in Int, t <= Scale(a), t <= Scale(b)
    PROVE  /\ Scale(Negated(a)) = Scale(a) /\ Scale(Negated(b)) = Scale(b)
           /\ SumOf(a, b, t) \in Int /\ SumOf(Negated(a), Negated(b), t) = -SumOf(a, b, t)
<1> DEFINE c == Negated(a)
           d == Negated(b)
           A == Pow2(Scale(a) - t)
           B == Pow2(Scale(b) - t)
           i == Num(a)
           j == Num(b)
<1>1. /\ c.sign = -a.sign /\ c.mant = a.mant /\ c.exp = a.exp /\ c.prec = a.prec
      /\ d.sign = -b.sign /\ d.mant = b.mant /\ d.exp = b.exp /\ d.prec = b.prec
  BY NegatedShapes
<1>2. /\ Scale(a) \in Int /\ Scale(b) \in Int /\ a.mant \in Nat /\ b.mant \in Nat
      /\ a.sign \in Int /\ b.sign \in Int
  BY NormalParts DEF Sign
<1> HIDE DEF c, d
<1>3. Scale(c) = Scale(a) /\ Scale(d) = Scale(b)
  BY <1>1 DEF Scale
<1>4. Num(c) = -i /\ Num(d) = -j /\ i \in Int /\ j \in Int
  BY <1>1, <1>2 DEF Num
<1>5. A \in Nat /\ B \in Nat
  <2>1. Scale(a) - t \in Nat /\ Scale(b) - t \in Nat
    BY <1>2
  <2> QED
    BY <2>1, Pow2Type
<1>6. SumOf(a, b, t) = i * A + j * B
  BY DEF SumOf
<1>7. SumOf(c, d, t) = (-i) * A + (-j) * B
  BY <1>3, <1>4 DEF SumOf
<1> HIDE DEF i, j, A, B
<1>8. i * A \in Int /\ j * B \in Int /\ (-i) * A = -(i * A) /\ (-j) * B = -(j * B)
  BY <1>4, <1>5
<1>9. SumOf(a, b, t) \in Int /\ SumOf(c, d, t) = -SumOf(a, b, t)
  BY <1>6, <1>7, <1>8
<1> QED
  BY <1>3, <1>9 DEF c, d

\* Magnitudes equal at a common place are the same number.
LEMMA MirroredMagnitudes ==
    ASSUME NEW s \in Sign, NEW m \in Nat \ {0}, NEW r \in Sign, NEW n \in Nat \ {0},
           NEW P \in Nat \ {0}, NEW Q \in Nat \ {0}, s * (m * P) = -(r * (n * Q))
    PROVE  r = -s /\ m * P = n * Q
<1> DEFINE X == m * P
           Y == n * Q
<1>1. X \in Nat \ {0} /\ Y \in Nat \ {0}
  BY NaturalProducts
<1> HIDE DEF X, Y
<1>2. s * X = -(r * Y)
  BY DEF X, Y
<1>3. r = -s /\ X = Y
  BY <1>1, <1>2 DEF Sign
<1> QED
  BY <1>3 DEF X, Y

\* mpfr_add of two normal values mirrors, but for the zero of a cancellation.
LEMMA AddNormalMirrored ==
    ASSUME NEW a, Operand(a), a.kind = "normal", NEW b, Operand(b), b.kind = "normal",
           NEW q \in Precision, NEW rnd \in RoundingMode
    PROVE  SumMirrored(a, b, q, rnd)
<1> DEFINE c == Negated(a)
           d == Negated(b)
           z == Mirror(rnd)
           sum == Add(a, b, q, rnd)
           mir == Add(c, d, q, z)
<1>1. /\ Operand(c) /\ c.kind = "normal" /\ c.sign = -a.sign
      /\ Operand(d) /\ d.kind = "normal" /\ d.sign = -b.sign
  BY NegatedShapes
<1>2. /\ a.sign \in Sign /\ b.sign \in Sign /\ Scale(a) \in Int /\ Scale(b) \in Int
      /\ q \in Nat \ {0} /\ 1 \in Nat \ {0}
  BY NormalParts, PrecAssumption DEF Precision
<1>3. z \in RoundingMode /\ z = IF rnd = "RNDU" THEN "RNDD" ELSE IF rnd = "RNDD" THEN "RNDU" ELSE rnd
  BY MirrorModes
<1>4. \A t \in Int : t <= Scale(a) /\ t <= Scale(b) =>
          /\ Scale(c) = Scale(a) /\ Scale(d) = Scale(b)
          /\ SumOf(a, b, t) \in Int /\ SumOf(c, d, t) = -SumOf(a, b, t)
  BY SumOfNegated
<1>5. PICK u \in Int : u <= Scale(a) /\ u <= Scale(b)
  BY <1>2
<1>6. Scale(c) = Scale(a) /\ Scale(d) = Scale(b)
  BY <1>4, <1>5
<1>7. Finite(a) /\ Finite(b) /\ Finite(c) /\ Finite(d)
  BY <1>1 DEF Finite
<1>8. SumRounding(sum, a, b, q, rnd) /\ SumRounding(mir, c, d, q, z)
  BY <1>1, <1>3, <1>7, AddRounds
<1> HIDE DEF c, d, z
<1>9. CASE \A t \in Int : t <= Scale(a) /\ t <= Scale(b) => SumOf(a, b, t) = 0
  <2>1. b.sign = -a.sign /\ sum = Exactly(Zero(CancellationZeroSign(rnd), q))
    BY <1>9, CancelledSum
  <2>2. \A t \in Int : t <= Scale(c) /\ t <= Scale(d) => SumOf(c, d, t) = 0
    <3> SUFFICES ASSUME NEW t \in Int, t <= Scale(c), t <= Scale(d)
                 PROVE  SumOf(c, d, t) = 0
      OBVIOUS
    <3>1. SumOf(c, d, t) = -SumOf(a, b, t) /\ SumOf(a, b, t) = 0
      BY <1>4, <1>6, <1>9
    <3>2. 0 \in Int /\ 0 <= 0 /\ 0 >= 0
      OBVIOUS
    <3> QED
      BY <3>1, <3>2, OppositeOfZero, Zenon
  <2>3. mir = Exactly(Zero(CancellationZeroSign(z), q))
    BY <1>1, <1>3, <2>2, CancelledSum
  <2>4. CASE rnd \notin {"RNDU", "RNDD"}
    <3>1. CancellationZeroSign(rnd) = 1 /\ CancellationZeroSign(z) = 1
      BY <1>3, <2>4 DEF CancellationZeroSign
    <3>2. sum.value.kind = "zero" /\ sum.value.sign = 1 /\ a.sign # b.sign
      BY <1>2, <2>1, <3>1 DEF Exactly, Result, Zero, Sign
    <3>3. sum = mir
      BY <2>1, <2>3, <3>1
    <3> QED
      BY <2>4, <3>2, <3>3, Zenon DEF SumMirrored, c, d, z
  <2>5. CASE rnd \in {"RNDU", "RNDD"}
    <3>1. CancellationZeroSign(rnd) \in Sign /\ CancellationZeroSign(z) = -CancellationZeroSign(rnd)
      BY <1>3, <2>5 DEF CancellationZeroSign, Sign
    <3>2. mir = NegatedResult(sum)
      BY <1>2, <2>1, <2>3, <3>1, NegatedResults
    <3> QED
      BY <2>5, <3>2, Zenon DEF SumMirrored, c, d, z
  <2> QED
    BY <2>4, <2>5
<1>10. CASE \E t \in Int : t <= Scale(a) /\ t <= Scale(b) /\ SumOf(a, b, t) # 0
  <2>1. PICK t \in Int : t <= Scale(a) /\ t <= Scale(b) /\ SumOf(a, b, t) # 0
    BY <1>10
  <2>2. SumOf(c, d, t) # 0
    BY <1>4, <2>1
  <2>3. PICK s \in Sign, m \in Nat \ {0}, l \in Int :
           /\ RoundedTo(sum, s, q, rnd, m, l, 1)
           /\ \A k \in Int : k <= l /\ k <= Scale(a) /\ k <= Scale(b) =>
                 SumOf(a, b, k) = s * (m * Pow2(l - k))
    BY <1>8, <2>1, SumMagnitude
  <2>4. PICK r \in Sign, n \in Nat \ {0}, j \in Int :
           /\ RoundedTo(mir, r, q, z, n, j, 1)
           /\ \A k \in Int : k <= j /\ k <= Scale(c) /\ k <= Scale(d) =>
                 SumOf(c, d, k) = r * (n * Pow2(j - k))
    BY <1>1, <1>3, <1>6, <1>8, <2>1, <2>2, SumMagnitude
  <2> HIDE DEF sum, mir
  <2>5. PICK k \in Int : k <= l /\ k <= j /\ k <= Scale(a) /\ k <= Scale(b)
    BY <1>2
  <2>6. /\ SumOf(a, b, k) = s * (m * Pow2(l - k))
        /\ SumOf(c, d, k) = r * (n * Pow2(j - k))
        /\ SumOf(c, d, k) = -SumOf(a, b, k) /\ SumOf(a, b, k) \in Int
    BY <1>4, <1>6, <2>3, <2>4, <2>5
  <2>7. Pow2(l - k) \in Nat \ {0} /\ Pow2(j - k) \in Nat \ {0}
    <3>1. l - k \in Nat /\ j - k \in Nat
      BY <2>5
    <3> QED
      BY <3>1, Pow2Type
  <2>8. s * (m * Pow2(l - k)) = -(r * (n * Pow2(j - k)))
    BY <2>6
  <2>9. r = -s /\ m * Pow2(l - k) = n * Pow2(j - k)
    BY <2>7, <2>8, MirroredMagnitudes
  <2>10. SameNumber(m, l, n, j)
    BY <2>5, <2>9 DEF SameNumber
  <2>11. mir = NegatedResult(sum)
    BY <1>2, <2>3, <2>4, <2>9, <2>10, MirroredIsUnique DEF z
  <2>12. sum.value.kind = "normal"
    BY <2>3, RoundedToIsValid
  <2> QED
    BY <2>11, <2>12 DEF SumMirrored, c, d, z, sum, mir
<1> QED
  BY <1>9, <1>10

\* mpfr_add, kind by kind.
LEMMA AdditionTable ==
    ASSUME NEW a, NEW b, NEW q, NEW rnd
    PROVE  /\ a.kind = "nan" \/ b.kind = "nan" => Add(a, b, q, rnd) = Exactly(NAN_VALUE)
           /\ a.kind = "inf" /\ b.kind = "inf" =>
                 Add(a, b, q, rnd) = Exactly(IF a.sign = b.sign THEN Inf(a.sign, q) ELSE NAN_VALUE)
           /\ a.kind = "inf" /\ b.kind \in {"zero", "normal"} => Add(a, b, q, rnd) = Exactly(Inf(a.sign, q))
           /\ a.kind \in {"zero", "normal"} /\ b.kind = "inf" => Add(a, b, q, rnd) = Exactly(Inf(b.sign, q))
           /\ a.kind = "zero" /\ b.kind = "zero" =>
                 Add(a, b, q, rnd) = Exactly(Zero(ZeroSumSign(a.sign, b.sign, rnd), q))
           /\ a.kind = "zero" /\ b.kind = "normal" => Add(a, b, q, rnd) = RoundToPrec(b, q, rnd)
           /\ a.kind = "normal" /\ b.kind = "zero" => Add(a, b, q, rnd) = RoundToPrec(a, q, rnd)
<1>1. \A v : v.kind = "normal" =>
         RoundToPrec(v, q, rnd) = PackNormal(v.sign, v.exp, v.mant, v.prec, q, rnd)
  BY DEF RoundToPrec, Set4
<1>2. a.kind = "zero" /\ b.kind = "normal" => Add(a, b, q, rnd) = RoundToPrec(b, q, rnd)
  <2> SUFFICES ASSUME a.kind = "zero", b.kind = "normal"
               PROVE  Add(a, b, q, rnd) = RoundToPrec(b, q, rnd)
    OBVIOUS
  <2>1. Add(a, b, q, rnd) = PackNormal(b.sign, b.exp, b.mant, b.prec, q, rnd)
    BY DEF Add
  <2> QED
    BY <1>1, <2>1
<1>3. a.kind = "normal" /\ b.kind = "zero" => Add(a, b, q, rnd) = RoundToPrec(a, q, rnd)
  <2> SUFFICES ASSUME a.kind = "normal", b.kind = "zero"
               PROVE  Add(a, b, q, rnd) = RoundToPrec(a, q, rnd)
    OBVIOUS
  <2>1. Add(a, b, q, rnd) = PackNormal(a.sign, a.exp, a.mant, a.prec, q, rnd)
    BY DEF Add
  <2> QED
    BY <1>1, <2>1
<1>4. /\ a.kind = "nan" \/ b.kind = "nan" => Add(a, b, q, rnd) = Exactly(NAN_VALUE)
      /\ a.kind = "inf" /\ b.kind = "inf" =>
            Add(a, b, q, rnd) = Exactly(IF a.sign = b.sign THEN Inf(a.sign, q) ELSE NAN_VALUE)
      /\ a.kind = "inf" /\ b.kind \in {"zero", "normal"} => Add(a, b, q, rnd) = Exactly(Inf(a.sign, q))
      /\ a.kind \in {"zero", "normal"} /\ b.kind = "inf" => Add(a, b, q, rnd) = Exactly(Inf(b.sign, q))
      /\ a.kind = "zero" /\ b.kind = "zero" =>
            Add(a, b, q, rnd) = Exactly(Zero(ZeroSumSign(a.sign, b.sign, rnd), q))
  BY DEF Add
<1> QED
  BY <1>2, <1>3, <1>4

\* A rounding keeps the kind and the sign.
LEMMA RoundingKeepsKind ==
    ASSUME NEW v, Operand(v), NEW q \in Precision, NEW rnd \in RoundingMode
    PROVE  /\ RoundToPrec(v, q, rnd).value.kind = v.kind
           /\ RoundToPrec(v, q, rnd).value.sign = v.sign
<1>1. v.kind \in {"nan", "inf", "zero", "normal"} /\ v.sign \in Sign
      /\ (v.kind = "nan" => v = NAN_VALUE)
  BY Kinds
<1>2. CASE v.kind = "normal"
  <2>1. RoundedTo(Set4(v, q, rnd, v.sign), v.sign, q, rnd, v.mant, Scale(v), 1)
    BY <1>1, <1>2, Set4Rounds
  <2>2. RoundToPrec(v, q, rnd) = Set4(v, q, rnd, v.sign)
    BY Set4Table
  <2> QED
    BY <1>2, <2>1, <2>2 DEF RoundedTo, Result, Normal
<1>3. CASE v.kind # "normal"
  <2>1. \A w : Exactly(w).value = w
    BY DEF Exactly, Result
  <2>2. RoundToPrec(v, q, rnd) = Set4(v, q, rnd, v.sign)
    BY Set4Table
  <2>3. CASE v.kind = "nan"
    <3>1. RoundToPrec(v, q, rnd) = Exactly(NAN_VALUE)
      BY <2>2, <2>3, Set4Table
    <3> QED
      BY <1>1, <2>1, <2>3, <3>1
  <2>4. CASE v.kind = "inf"
    <3>1. RoundToPrec(v, q, rnd) = Exactly(Inf(v.sign, q))
      BY <2>2, <2>4, Set4Table
    <3> QED
      BY <2>1, <2>4, <3>1 DEF Inf
  <2>5. CASE v.kind = "zero"
    <3>1. RoundToPrec(v, q, rnd) = Exactly(Zero(v.sign, q))
      BY <2>2, <2>5, Set4Table
    <3> QED
      BY <2>1, <2>5, <3>1 DEF Zero
  <2> QED
    BY <1>1, <1>3, <2>3, <2>4, <2>5
<1> QED
  BY <1>2, <1>3

\* mpfr_add mirrors, but for the zero of two operands of opposite signs.
LEMMA AddMirrored ==
    ASSUME NEW a, Operand(a), NEW b, Operand(b), NEW q \in Precision, NEW rnd \in RoundingMode
    PROVE  SumMirrored(a, b, q, rnd)
<1> DEFINE c == Negated(a)
           d == Negated(b)
           z == Mirror(rnd)
           sum == Add(a, b, q, rnd)
           mir == Add(c, d, q, z)
<1>1. /\ a.kind \in {"nan", "inf", "zero", "normal"} /\ b.kind \in {"nan", "inf", "zero", "normal"}
      /\ a.sign \in Sign /\ b.sign \in Sign /\ q \in Nat \ {0}
  BY Kinds, PrecAssumption DEF Precision
<1>2. /\ c.kind = a.kind /\ (a.kind # "nan" => c.sign = -a.sign)
      /\ d.kind = b.kind /\ (b.kind # "nan" => d.sign = -b.sign)
  BY NegatedShapes
<1>3. z = IF rnd = "RNDU" THEN "RNDD" ELSE IF rnd = "RNDD" THEN "RNDU" ELSE rnd
  BY MirrorModes
<1>4. \A s \in Sign : /\ NegatedResult(Exactly(NAN_VALUE)) = Exactly(NAN_VALUE)
                      /\ NegatedResult(Exactly(Inf(s, q))) = Exactly(Inf(-s, q))
                      /\ NegatedResult(Exactly(Zero(s, q))) = Exactly(Zero(-s, q))
  BY <1>1, NegatedResults
<1>5. /\ \A w : Exactly(w).value = w
      /\ NAN_VALUE.kind = "nan"
      /\ \A s : Inf(s, q).kind = "inf" /\ Zero(s, q).kind = "zero" /\ Zero(s, q).sign = s
  BY DEF Exactly, Result, NAN_VALUE, Inf, Zero
<1>6. /\ sum.value.kind # "zero" /\ mir = NegatedResult(sum) => SumMirrored(a, b, q, rnd)
      /\ a.sign = b.sign /\ mir = NegatedResult(sum) => SumMirrored(a, b, q, rnd)
      /\ rnd \in {"RNDU", "RNDD"} /\ mir = NegatedResult(sum) => SumMirrored(a, b, q, rnd)
      /\ a.sign # b.sign /\ rnd \notin {"RNDU", "RNDD"} /\ sum.value.kind = "zero" /\ sum = mir
         /\ sum.value.sign = 1 => SumMirrored(a, b, q, rnd)
  BY Zenon DEF SumMirrored
<1>7. CASE a.kind = "normal" /\ b.kind = "normal"
  BY <1>7, AddNormalMirrored
<1>8. CASE a.kind = "nan" \/ b.kind = "nan"
  <2>1. sum = Exactly(NAN_VALUE)
    BY <1>8, AdditionTable
  <2>2. mir = Exactly(NAN_VALUE)
    BY <1>2, <1>8, AdditionTable
  <2>3. NegatedResult(Exactly(NAN_VALUE)) = Exactly(NAN_VALUE)
    BY <1>1, <1>4
  <2> HIDE DEF sum, mir
  <2> QED
    BY <1>5, <1>6, <2>1, <2>2, <2>3
<1>9. CASE a.kind = "inf" /\ b.kind = "inf"
  <2>1. sum = Exactly(IF a.sign = b.sign THEN Inf(a.sign, q) ELSE NAN_VALUE)
    BY <1>9, AdditionTable
  <2>2. mir = Exactly(IF c.sign = d.sign THEN Inf(c.sign, q) ELSE NAN_VALUE)
    BY <1>2, <1>9, AdditionTable
  <2>3. (c.sign = d.sign <=> a.sign = b.sign) /\ c.sign = -a.sign
    BY <1>1, <1>2, <1>9 DEF Sign
  <2> HIDE DEF sum, mir, c, d, z
  <2> QED
    BY <1>1, <1>4, <1>5, <1>6, <2>1, <2>2, <2>3
<1>10. CASE a.kind = "inf" /\ b.kind \in {"zero", "normal"}
  <2>1. sum = Exactly(Inf(a.sign, q))
    BY <1>10, AdditionTable
  <2>2. mir = Exactly(Inf(c.sign, q))
    BY <1>2, <1>10, AdditionTable
  <2>3. c.sign = -a.sign
    BY <1>2, <1>10
  <2> HIDE DEF sum, mir, c, d, z
  <2> QED
    BY <1>1, <1>4, <1>5, <1>6, <2>1, <2>2, <2>3
<1>11. CASE a.kind \in {"zero", "normal"} /\ b.kind = "inf"
  <2>1. sum = Exactly(Inf(b.sign, q))
    BY <1>11, AdditionTable
  <2>2. mir = Exactly(Inf(d.sign, q))
    BY <1>2, <1>11, AdditionTable
  <2>3. d.sign = -b.sign
    BY <1>2, <1>11
  <2> HIDE DEF sum, mir, c, d, z
  <2> QED
    BY <1>1, <1>4, <1>5, <1>6, <2>1, <2>2, <2>3
<1>12. CASE a.kind = "zero" /\ b.kind = "normal"
  <2>1. sum = RoundToPrec(b, q, rnd)
    BY <1>12, AdditionTable
  <2>2. mir = RoundToPrec(d, q, z)
    BY <1>2, <1>12, AdditionTable
  <2>3. RoundToPrec(d, q, z) = NegatedResult(RoundToPrec(b, q, rnd))
    BY RoundToPrecMirrored
  <2>4. RoundToPrec(b, q, rnd).value.kind = "normal"
    BY <1>12, RoundingKeepsKind
  <2> HIDE DEF sum, mir, c, d, z
  <2> QED
    BY <1>6, <2>1, <2>2, <2>3, <2>4
<1>13. CASE a.kind = "normal" /\ b.kind = "zero"
  <2>1. sum = RoundToPrec(a, q, rnd)
    BY <1>13, AdditionTable
  <2>2. mir = RoundToPrec(c, q, z)
    BY <1>2, <1>13, AdditionTable
  <2>3. RoundToPrec(c, q, z) = NegatedResult(RoundToPrec(a, q, rnd))
    BY RoundToPrecMirrored
  <2>4. RoundToPrec(a, q, rnd).value.kind = "normal"
    BY <1>13, RoundingKeepsKind
  <2> HIDE DEF sum, mir, c, d, z
  <2> QED
    BY <1>6, <2>1, <2>2, <2>3, <2>4
<1>14. CASE a.kind = "zero" /\ b.kind = "zero"
  <2> DEFINE s == ZeroSumSign(a.sign, b.sign, rnd)
             t == ZeroSumSign(c.sign, d.sign, z)
  <2>1. sum = Exactly(Zero(s, q))
    BY <1>14, AdditionTable
  <2>2. mir = Exactly(Zero(t, q))
    BY <1>2, <1>14, AdditionTable
  <2>3. c.sign = -a.sign /\ d.sign = -b.sign
    BY <1>2, <1>14
  <2> HIDE DEF c, d
  <2>4. /\ s \in Sign
        /\ a.sign = b.sign \/ rnd \in {"RNDU", "RNDD"} => t = -s
        /\ a.sign # b.sign /\ rnd \notin {"RNDU", "RNDD"} => s = 1 /\ t = 1
    <3>1. s = IF rnd = "RNDD" THEN IF a.sign = 1 /\ b.sign = 1 THEN 1 ELSE -1
                            ELSE IF a.sign = -1 /\ b.sign = -1 THEN -1 ELSE 1
      BY Zenon DEF ZeroSumSign
    <3>2. t = IF z = "RNDD" THEN IF c.sign = 1 /\ d.sign = 1 THEN 1 ELSE -1
                          ELSE IF c.sign = -1 /\ d.sign = -1 THEN -1 ELSE 1
      BY Zenon DEF ZeroSumSign
    <3> HIDE DEF z, s, t
    <3>3. /\ c.sign = 1 <=> a.sign = -1
          /\ c.sign = -1 <=> a.sign = 1
          /\ d.sign = 1 <=> b.sign = -1
          /\ d.sign = -1 <=> b.sign = 1
          /\ a.sign = 1 \/ a.sign = -1
          /\ b.sign = 1 \/ b.sign = -1
      BY <1>1, <2>3 DEF Sign
    <3>4. s \in {1, -1} /\ t \in {1, -1}
      BY <3>1, <3>2
    <3>5. a.sign = b.sign \/ rnd \in {"RNDU", "RNDD"} => (t = 1 <=> s = -1)
      BY <1>3, <3>1, <3>2, <3>3
    <3>6. a.sign # b.sign /\ rnd \notin {"RNDU", "RNDD"} => s = 1 /\ t = 1
      BY <1>3, <3>1, <3>2, <3>3
    <3>7. (t = 1 <=> s = -1) => t = -s
      BY <3>4
    <3> QED
      BY <3>4, <3>5, <3>6, <3>7 DEF Sign
  <2> HIDE DEF sum, mir, s, t, z
  <2>5. t = -s => mir = NegatedResult(sum)
    BY <1>4, <2>1, <2>2, <2>4
  <2>6. sum.value.kind = "zero" /\ sum.value.sign = s
    BY <1>5, <2>1
  <2> QED
    BY <1>6, <2>1, <2>2, <2>4, <2>5, <2>6
<1> QED
  BY <1>1, <1>7, <1>8, <1>9, <1>10, <1>11, <1>12, <1>13, <1>14

\* The kind and the sign that w has as a product of a and b, and as a quotient.
ProductShape(w, a, b) ==
    IF "nan" \in {a.kind, b.kind} \/ {a.kind, b.kind} = {"inf", "zero"} THEN w = NAN_VALUE
    ELSE /\ w.sign = a.sign * b.sign
         /\ w.kind = IF "inf" \in {a.kind, b.kind} THEN "inf"
                     ELSE IF "zero" \in {a.kind, b.kind} THEN "zero" ELSE "normal"
QuotientShape(w, a, b) ==
    IF "nan" \in {a.kind, b.kind} \/ {a.kind, b.kind} \in {{"inf"}, {"zero"}} THEN w = NAN_VALUE
    ELSE /\ w.sign = a.sign * b.sign
         /\ w.kind = IF a.kind = "inf" \/ b.kind = "zero" THEN "inf"
                     ELSE IF a.kind = "zero" \/ b.kind = "inf" THEN "zero" ELSE "normal"

\* mpfr_mul, and
LEMMA ProductKinds ==
    ASSUME NEW a, Operand(a), NEW b, Operand(b), NEW q \in Precision, NEW rnd \in RoundingMode,
           NEW w, w = Mul(a, b, q, rnd).value
    PROVE  ProductShape(w, a, b)
<1> DEFINE s == a.sign * b.sign
<1>1. /\ a.kind \in {"nan", "inf", "zero", "normal"} /\ b.kind \in {"nan", "inf", "zero", "normal"}
      /\ q \in Nat \ {0}
  BY Kinds, PrecAssumption DEF Precision
<1>2. /\ \A v : Exactly(v).value = v
      /\ Inf(s, q).kind = "inf" /\ Inf(s, q).sign = s /\ Zero(s, q).kind = "zero" /\ Zero(s, q).sign = s
  BY DEF Exactly, Result, Inf, Zero
<1>3. CASE a.kind = "normal" /\ b.kind = "normal"
  <2>1. RoundedTo(Mul(a, b, q, rnd), s, q, rnd, a.mant * b.mant, Scale(a) + Scale(b), 1)
    BY <1>3, MulRounds
  <2>2. w.kind = "normal" /\ w.sign = s
    BY <2>1 DEF RoundedTo, Result, Normal
  <2> QED
    BY <1>3, <2>2 DEF ProductShape
<1>4. CASE "nan" \in {a.kind, b.kind} \/ {a.kind, b.kind} = {"inf", "zero"}
  <2>1. Mul(a, b, q, rnd) = Exactly(NAN_VALUE)
    BY <1>4 DEF Mul
  <2> QED
    BY <1>2, <1>4, <2>1 DEF ProductShape
<1>5. CASE /\ "nan" \notin {a.kind, b.kind} /\ {a.kind, b.kind} # {"inf", "zero"}
           /\ "inf" \in {a.kind, b.kind}
  <2>1. Mul(a, b, q, rnd) = Exactly(Inf(s, q))
    BY <1>1, <1>5 DEF Mul
  <2> HIDE DEF s
  <2> QED
    BY <1>2, <1>5, <2>1 DEF s, ProductShape
<1>6. CASE /\ "nan" \notin {a.kind, b.kind} /\ "inf" \notin {a.kind, b.kind}
           /\ "zero" \in {a.kind, b.kind}
  <2>1. Mul(a, b, q, rnd) = Exactly(Zero(s, q))
    BY <1>1, <1>6 DEF Mul
  <2> HIDE DEF s
  <2> QED
    BY <1>2, <1>6, <2>1 DEF s, ProductShape
<1> QED
  BY <1>1, <1>3, <1>4, <1>5, <1>6

\* mpfr_div.
LEMMA QuotientKinds ==
    ASSUME NEW a, Operand(a), NEW b, Operand(b), NEW q \in Precision, NEW rnd \in RoundingMode,
           NEW w, w = Div(a, b, q, rnd).value
    PROVE  QuotientShape(w, a, b)
<1> DEFINE s == a.sign * b.sign
<1>1. /\ a.kind \in {"nan", "inf", "zero", "normal"} /\ b.kind \in {"nan", "inf", "zero", "normal"}
      /\ q \in Nat \ {0}
  BY Kinds, PrecAssumption DEF Precision
<1>2. /\ \A v : Exactly(v).value = v
      /\ Inf(s, q).kind = "inf" /\ Inf(s, q).sign = s /\ Zero(s, q).kind = "zero" /\ Zero(s, q).sign = s
  BY DEF Exactly, Result, Inf, Zero
<1>3. CASE a.kind = "normal" /\ b.kind = "normal"
  <2>1. RoundedTo(Div(a, b, q, rnd), s, q, rnd, a.mant, Scale(a) - Scale(b), b.mant)
    BY <1>3, DivRounds
  <2>2. w.kind = "normal" /\ w.sign = s
    BY <2>1 DEF RoundedTo, Result, Normal
  <2> QED
    BY <1>3, <2>2 DEF QuotientShape
<1>4. CASE "nan" \in {a.kind, b.kind} \/ {a.kind, b.kind} \in {{"inf"}, {"zero"}}
  <2>1. Div(a, b, q, rnd) = Exactly(NAN_VALUE)
    BY <1>1, <1>4 DEF Div
  <2> QED
    BY <1>2, <1>4, <2>1 DEF QuotientShape
<1>5. CASE /\ "nan" \notin {a.kind, b.kind} /\ {a.kind, b.kind} \notin {{"inf"}, {"zero"}}
           /\ a.kind = "inf" \/ b.kind = "zero"
  <2>1. Div(a, b, q, rnd) = Exactly(Inf(s, q))
    BY <1>1, <1>5 DEF Div
  <2> HIDE DEF s
  <2> QED
    BY <1>2, <1>5, <2>1 DEF s, QuotientShape
<1>6. CASE /\ "nan" \notin {a.kind, b.kind} /\ {a.kind, b.kind} \notin {{"inf"}, {"zero"}}
           /\ ~(a.kind = "inf" \/ b.kind = "zero") /\ (a.kind = "zero" \/ b.kind = "inf")
  <2>1. Div(a, b, q, rnd) = Exactly(Zero(s, q))
    BY <1>1, <1>6 DEF Div
  <2> HIDE DEF s
  <2> QED
    BY <1>2, <1>6, <2>1 DEF s, QuotientShape
<1> QED
  BY <1>1, <1>3, <1>4, <1>5, <1>6

\* 1 is an operand.
LEMMA OneIsOperand == Operand(One) /\ One.kind = "normal" /\ One.sign = 1
<1>1. 1 \in Nat \ {0} /\ 1 \in Int /\ 1 \in Sign /\ 1 - 1 = 0
  BY DEF Sign
<1>2. Pow2(1 - 1) = 1 /\ Pow2(1) = 2
  <2>1. Pow2(0 + 1) = 2 * Pow2(0) /\ 0 + 1 = 1
    BY Pow2Step
  <2> QED
    BY <1>1, <2>1, Pow2Zero
<1>3. 1 \in Pow2(1 - 1) .. Pow2(1) - 1
  BY <1>2
<1>4. Operand(Normal(1, 1, 1, 1))
  BY <1>1, <1>3, NormalIsOperand
<1> QED
  BY <1>4, NormalShape DEF One

\* What DivMulAgree says.
LEMMA QuotientsLikeProducts ==
    ASSUME NEW a, Operand(a), NEW b, Operand(b), NEW q \in Precision, NEW rnd \in RoundingMode,
           NEW r, Operand(r), r = Div(One, b, q, rnd).value,
           NEW u, u = Div(a, b, q, rnd).value, NEW v, v = Mul(a, r, q, rnd).value
    PROVE  u.kind = v.kind /\ u.sign = v.sign
<1>1. /\ a.kind \in {"nan", "inf", "zero", "normal"} /\ b.kind \in {"nan", "inf", "zero", "normal"}
      /\ a.sign \in Sign /\ b.sign \in Sign
  BY Kinds
<1>2. /\ b.kind = "nan" => r = NAN_VALUE
      /\ b.kind # "nan" => /\ r.sign = 1 * b.sign
                           /\ r.kind = IF b.kind = "zero" THEN "inf"
                                       ELSE IF b.kind = "inf" THEN "zero" ELSE "normal"
  <2>1. One.kind = "normal" /\ One.sign = 1 /\ QuotientShape(r, One, b)
    BY OneIsOperand, QuotientKinds
  <2> QED
    BY <1>1, <2>1 DEF QuotientShape
<1>3. NAN_VALUE.kind = "nan" /\ 1 * b.sign = b.sign
  BY <1>1 DEF NAN_VALUE, Sign
<1>4. /\ "nan" \in {a.kind, b.kind} \/ {a.kind, b.kind} \in {{"inf"}, {"zero"}} => u = NAN_VALUE
      /\ ~("nan" \in {a.kind, b.kind} \/ {a.kind, b.kind} \in {{"inf"}, {"zero"}}) =>
            /\ u.sign = a.sign * b.sign
            /\ u.kind = IF a.kind = "inf" \/ b.kind = "zero" THEN "inf"
                        ELSE IF a.kind = "zero" \/ b.kind = "inf" THEN "zero" ELSE "normal"
  <2>1. QuotientShape(u, a, b)
    BY QuotientKinds
  <2> QED
    BY <2>1 DEF QuotientShape
<1>5. /\ "nan" \in {a.kind, r.kind} \/ {a.kind, r.kind} = {"inf", "zero"} => v = NAN_VALUE
      /\ ~("nan" \in {a.kind, r.kind} \/ {a.kind, r.kind} = {"inf", "zero"}) =>
            /\ v.sign = a.sign * r.sign
            /\ v.kind = IF "inf" \in {a.kind, r.kind} THEN "inf"
                        ELSE IF "zero" \in {a.kind, r.kind} THEN "zero" ELSE "normal"
  <2>1. ProductShape(v, a, r)
    BY ProductKinds
  <2> QED
    BY <2>1 DEF ProductShape
<1>6. CASE "nan" \in {a.kind, b.kind} \/ {a.kind, b.kind} \in {{"inf"}, {"zero"}}
  <2>1. "nan" \in {a.kind, r.kind} \/ {a.kind, r.kind} = {"inf", "zero"}
    BY <1>1, <1>2, <1>3, <1>6
  <2> QED
    BY <1>4, <1>5, <1>6, <2>1
<1>7. CASE ~("nan" \in {a.kind, b.kind} \/ {a.kind, b.kind} \in {{"inf"}, {"zero"}})
  <2>1. ~("nan" \in {a.kind, r.kind} \/ {a.kind, r.kind} = {"inf", "zero"})
    BY <1>1, <1>2, <1>7
  <2>2. r.sign = b.sign
    BY <1>1, <1>2, <1>3, <1>7
  <2>3. u.sign = v.sign
    BY <1>4, <1>5, <1>7, <2>1, <2>2
  <2>4. u.kind = v.kind
    BY <1>1, <1>2, <1>4, <1>5, <1>7, <2>1
  <2> QED
    BY <2>3, <2>4
<1> QED
  BY <1>6, <1>7

\* Negating the operands negates the result, but for the zero of x + (-x), and
\* a quotient has the kind and the sign of the product with the reciprocal: in
\* every mode, for every pair of values a register holds (src/ops/add.ts,
\* sub.ts, mul.ts, div.ts, max.ts, min.ts).
THEOREM SpecialsAreAlike == Spec => []SpecialsAgree
<1>1. TypeOK => SpecialsAgree
  <2> SUFFICES ASSUME TypeOK PROVE SpecialsAgree
    OBVIOUS
  <2>1. Valid(x) /\ Valid(y) /\ Operand(x) /\ Operand(y)
    BY ValidIsOperand DEF TypeOK
  <2>2. \A q \in Precision, rnd \in RoundingMode :
           /\ SumMirrored(x, y, q, rnd)
           /\ Mul(Negated(x), y, q, Mirror(rnd)) = NegatedResult(Mul(x, y, q, rnd))
           /\ Div(x, Negated(y), q, Mirror(rnd)) = NegatedResult(Div(x, y, q, rnd))
           /\ Max(Negated(x), Negated(y), q, Mirror(rnd)) = NegatedResult(Min(x, y, q, rnd))
    BY <2>1, AddMirrored, MulMirrored, DivMirrored, MaxMirrored
  <2>3. SignSymmetry
    BY <2>2, Zenon DEF SignSymmetry, SumMirrored
  <2>4. ASSUME NEW q \in Precision, NEW rnd \in RoundingMode
        PROVE  /\ Div(x, y, q, rnd).value.kind = Mul(x, Div(One, y, q, rnd).value, q, rnd).value.kind
               /\ Div(x, y, q, rnd).value.sign = Mul(x, Div(One, y, q, rnd).value, q, rnd).value.sign
    <3>1. Operand(Div(One, y, q, rnd).value)
      BY <2>1, OneIsOperand, DivIsValid, ValidIsOperand
    <3> QED
      BY <2>1, <3>1, QuotientsLikeProducts
  <2>5. DivMulAgree
    BY <2>4 DEF DivMulAgree
  <2> QED
    BY <2>3, <2>5 DEF SpecialsAgree
<1> QED
  BY <1>1, RegistersAreValid, PTL

-----------------------------------------------------------------------------
(* Selection and rounding, neighbours, and the sign of a difference.       *)

\* Two values of one precision are compared by exponent, then by mantissa.
LEMMA CompareSamePrecision ==
    ASSUME NEW a, Operand(a), a.kind = "normal", NEW b, Operand(b), b.kind = "normal", a.prec = b.prec
    PROVE  /\ CompareMagnitude(a, b) = IF a.exp # b.exp THEN Sgn(a.exp - b.exp) ELSE Sgn(a.mant - b.mant)
           /\ a.exp \in Int /\ b.exp \in Int /\ a.mant \in Int /\ b.mant \in Int
<1>1. a.exp \in Int /\ b.exp \in Int /\ a.mant \in Int /\ b.mant \in Int /\ b.prec \in Nat \ {0}
  BY NormalParts
<1>2. b.prec <= a.prec /\ a.prec - b.prec = 0 /\ b.mant * 1 = b.mant
  BY <1>1
<1>3. Padded(b, a.prec) = b.mant
  BY <1>2, Pow2Zero, Zenon DEF Padded
<1>4. CompareMagnitude(a, b) = IF a.exp # b.exp THEN Sgn(a.exp - b.exp) ELSE Sgn(a.mant - Padded(b, a.prec))
  BY <1>2, CompareShorter
<1> QED
  BY <1>1, <1>3, <1>4

\* The order of normal values by their signs and the order of the magnitudes.
LEMMA CompareBySign ==
    ASSUME NEW a, Operand(a), a.kind = "normal", NEW b, Operand(b), b.kind = "normal"
    PROVE  /\ CompareMagnitude(a, b) \in {-1, 0, 1}
           /\ a.sign # b.sign => Compare(a, b) = a.sign
           /\ a.sign = 1 /\ b.sign = 1 => Compare(a, b) = CompareMagnitude(a, b)
           /\ a.sign = -1 /\ b.sign = -1 => Compare(a, b) = -CompareMagnitude(a, b)
           /\ Compare(a, b) = 0 => a.sign = b.sign
<1> DEFINE n == CompareMagnitude(a, b)
<1>1. /\ Compare(a, b) = IF a.sign # b.sign THEN a.sign ELSE a.sign * n
      /\ a.sign \in Sign /\ b.sign \in Sign
  BY Kinds, ComparisonTable
<1>2. n \in {-1, 0, 1}
  BY DEF CompareMagnitude, Sgn
<1> HIDE DEF n
<1>3. /\ a.sign # b.sign => Compare(a, b) = a.sign
      /\ a.sign = 1 /\ b.sign = 1 => Compare(a, b) = n
      /\ a.sign = -1 /\ b.sign = -1 => Compare(a, b) = -n
      /\ Compare(a, b) = 0 => a.sign = b.sign
  BY <1>1, <1>2 DEF Sign
<1> QED
  BY <1>2, <1>3 DEF n

\* A value equals itself.
LEMMA CompareItself ==
    ASSUME NEW a, Operand(a), a.kind # "nan"
    PROVE  Compare(a, a) = 0
<1> DEFINE c == Compare(a, a)
<1>1. c = -c /\ c \in {-1, 0, 1}
  BY CompareOpposite
<1> HIDE DEF c
<1>2. c = 0
  BY <1>1
<1> QED
  BY <1>2 DEF c

\* Rounding keeps the order of two magnitudes.
LEMMA RoundedMagnitudes ==
    ASSUME NEW a, Operand(a), a.kind = "normal", NEW b, Operand(b), b.kind = "normal",
           a.sign = b.sign, NEW q \in Precision, NEW rnd \in RoundingMode,
           NEW u, u = RoundToPrec(a, q, rnd).value, NEW v, v = RoundToPrec(b, q, rnd).value
    PROVE  /\ Operand(u) /\ u.kind = "normal" /\ u.sign = a.sign
           /\ Operand(v) /\ v.kind = "normal" /\ v.sign = a.sign
           /\ CompareMagnitude(a, b) \in {-1, 0} => CompareMagnitude(u, v) \in {-1, 0}
<1>1. /\ a.sign \in Sign /\ q \in Nat \ {0} /\ 1 \in Nat \ {0}
      /\ a.mant \in Nat /\ b.mant \in Nat /\ Scale(a) \in Int /\ Scale(b) \in Int
  BY NormalParts, PrecAssumption DEF Precision
<1> DEFINE r == RoundToPrec(a, q, rnd)
           s == RoundToPrec(b, q, rnd)
<1>2. /\ RoundedTo(r, a.sign, q, rnd, a.mant, Scale(a), 1)
      /\ RoundedTo(s, a.sign, q, rnd, b.mant, Scale(b), 1)
  <2>1. r = Set4(a, q, rnd, a.sign) /\ s = Set4(b, q, rnd, a.sign)
    BY Set4Table
  <2> QED
    BY <1>1, <2>1, Set4Rounds
<1> HIDE DEF r, s
<1>3. /\ Valid(u) /\ u.kind = "normal" /\ u.sign = a.sign /\ u.prec = q
      /\ Valid(v) /\ v.kind = "normal" /\ v.sign = a.sign /\ v.prec = q
  <2>1. r.value = u /\ s.value = v
    BY DEF r, s
  <2>2. /\ Valid(r.value) /\ r.value.kind = "normal" /\ r.value.sign = a.sign /\ r.value.prec = q
        /\ Valid(s.value) /\ s.value.kind = "normal" /\ s.value.sign = a.sign /\ s.value.prec = q
    BY <1>1, <1>2, RoundedToIsValid
  <2> QED
    BY <2>1, <2>2
<1>4. Operand(u) /\ Operand(v)
  BY <1>3, ValidIsOperand
<1>5. CompareMagnitude(a, b) \in {-1, 0} => CompareMagnitude(u, v) \in {-1, 0}
  <2> SUFFICES ASSUME CompareMagnitude(a, b) \in {-1, 0} PROVE CompareMagnitude(u, v) \in {-1, 0}
    OBVIOUS
  <2>1. AtMost(a.mant, Scale(a), b.mant, Scale(b))
    BY OrderedMagnitudes
  <2>2. r.value.exp < s.value.exp \/ (r.value.exp = s.value.exp /\ r.value.mant <= s.value.mant)
    BY <1>1, <1>2, <2>1, RoundingIsMonotone
  <2>3. u.exp < v.exp \/ (u.exp = v.exp /\ u.mant <= v.mant)
    BY <2>2 DEF r, s
  <2>4. /\ CompareMagnitude(u, v) = IF u.exp # v.exp THEN Sgn(u.exp - v.exp) ELSE Sgn(u.mant - v.mant)
        /\ u.exp \in Int /\ v.exp \in Int /\ u.mant \in Int /\ v.mant \in Int
    BY <1>3, <1>4, CompareSamePrecision
  <2> QED
    BY <2>3, <2>4 DEF Sgn
<1> QED
  BY <1>3, <1>4, <1>5

\* Rounding keeps the order of two values.
LEMMA RoundingKeepsOrder ==
    ASSUME NEW a, Operand(a), a.kind # "nan", NEW b, Operand(b), b.kind # "nan",
           LessEqualP(a, b), NEW q \in Precision, NEW rnd \in RoundingMode
    PROVE  LessEqualP(RoundToPrec(a, q, rnd).value, RoundToPrec(b, q, rnd).value)
<1> DEFINE u == RoundToPrec(a, q, rnd).value
           v == RoundToPrec(b, q, rnd).value
<1>1. u.kind = a.kind /\ u.sign = a.sign /\ v.kind = b.kind /\ v.sign = b.sign
  BY RoundingKeepsKind
<1>2. /\ a.kind \in {"inf", "zero", "normal"} /\ b.kind \in {"inf", "zero", "normal"}
      /\ a.sign \in Sign /\ b.sign \in Sign
  BY Kinds
<1>3. Compare(a, b) \in {-1, 0}
  BY DEF LessEqualP
<1>4. Compare(u, v) \in {-1, 0}
  <2>1. CASE ~(a.kind = "normal" /\ b.kind = "normal")
    <3> HIDE DEF u, v
    <3>1. Compare(u, v) = Compare(a, b)
      BY <1>1, <1>2, <2>1, ComparisonTable
    <3> QED
      BY <1>3, <3>1
  <2>2. CASE a.kind = "normal" /\ b.kind = "normal" /\ a.sign # b.sign
    <3> HIDE DEF u, v
    <3>1. Compare(u, v) = u.sign /\ Compare(a, b) = a.sign
      BY <1>1, <2>2, ComparisonTable
    <3> QED
      BY <1>1, <1>3, <3>1
  <2>3. CASE a.kind = "normal" /\ b.kind = "normal" /\ a.sign = b.sign
    <3> DEFINE n == CompareMagnitude(a, b)
               m == CompareMagnitude(u, v)
               k == CompareMagnitude(v, u)
    <3>1. n \in {-1, 0} => m \in {-1, 0}
      BY <2>3, RoundedMagnitudes
    <3>2. CompareMagnitude(b, a) \in {-1, 0} => k \in {-1, 0}
      BY <2>3, RoundedMagnitudes
    <3>3. Operand(u) /\ Operand(v)
      BY <2>3, RoundedMagnitudes
    <3> HIDE DEF u, v
    <3>4. Compare(b, a) = -Compare(a, b) /\ Compare(v, u) = -Compare(u, v)
      BY <1>1, <1>2, <3>3, CompareOpposite
    <3>7. u.kind = "normal" /\ v.kind = "normal" /\ b.sign = a.sign /\ u.sign = a.sign /\ v.sign = a.sign
      BY <1>1, <2>3
    <3> HIDE DEF n, m, k
    <3>5. CASE a.sign = 1
      <4>1. Compare(a, b) = n /\ Compare(u, v) = m
        BY <2>3, <3>3, <3>5, <3>7, CompareBySign DEF n, m, k
      <4> QED
        BY <1>3, <3>1, <4>1 DEF n, m
    <3>6. CASE a.sign = -1
      <4>1. Compare(b, a) = -CompareMagnitude(b, a) /\ Compare(v, u) = -k
        BY <2>3, <3>3, <3>6, <3>7, CompareBySign DEF n, m, k
      <4>2. CompareMagnitude(b, a) \in {-1, 0, 1} /\ k \in {-1, 0, 1}
        BY <2>3, <3>3, <3>7, CompareBySign DEF n, m, k
      <4>3. Compare(a, b) = -n /\ Compare(u, v) = -m
        BY <2>3, <3>3, <3>6, <3>7, CompareBySign DEF n, m, k
      <4>4. n \in {-1, 0, 1} /\ m \in {-1, 0, 1}
        BY <2>3, <3>3, <3>7, CompareBySign DEF n, m, k
      <4>5. CompareMagnitude(b, a) \in {-1, 0}
        BY <1>3, <3>4, <4>1, <4>2, <4>3, <4>4
      <4>6. k \in {-1, 0}
        BY <3>2, <4>5
      <4> QED
        BY <3>4, <4>1, <4>3, <4>4, <4>6
    <3> QED
      BY <1>2, <3>5, <3>6 DEF Sign
  <2> QED
    BY <2>1, <2>2, <2>3
<1> QED
  BY <1>4 DEF LessEqualP

\* What SelectionsBound says of two values.
SelectionBounds(a, b, q, rnd) ==
    LET rx == RoundToPrec(a, q, rnd).value
        ry == RoundToPrec(b, q, rnd).value
        hi == Max(a, b, q, rnd).value
        lo == Min(a, b, q, rnd).value
    IN  /\ {lo, hi} = {rx, ry}
        /\ LessEqualP(lo, rx) /\ LessEqualP(lo, ry)
        /\ LessEqualP(rx, hi) /\ LessEqualP(ry, hi)

\* max and min bound the rounded operands.
LEMMA SelectionIsBounded ==
    ASSUME NEW a, Operand(a), a.kind # "nan", NEW b, Operand(b), b.kind # "nan",
           NEW q \in Precision, NEW rnd \in RoundingMode
    PROVE  SelectionBounds(a, b, q, rnd)
<1> DEFINE u == RoundToPrec(a, q, rnd).value
           v == RoundToPrec(b, q, rnd).value
           hi == Max(a, b, q, rnd).value
           lo == Min(a, b, q, rnd).value
<1>1. /\ u.kind = a.kind /\ v.kind = b.kind
      /\ a.sign \in Sign /\ b.sign \in Sign /\ q \in Nat \ {0}
  BY RoundingKeepsKind, Kinds, PrecAssumption DEF Precision
<1>2. Operand(u) /\ Operand(v)
  <2>1. Valid(u) /\ Valid(v)
    BY <1>1, Set4Table, Set4IsValid
  <2> QED
    BY <2>1, ValidIsOperand
<1>3. Compare(u, u) = 0 /\ Compare(v, v) = 0
  <2> HIDE DEF u, v
  <2> QED
    BY <1>1, <1>2, CompareItself
<1>4. LessEqualP(a, b) => LessEqualP(u, v)
  BY RoundingKeepsOrder
<1>5. ~LessEqualP(a, b) => LessEqualP(v, u)
  <2> SUFFICES ASSUME ~LessEqualP(a, b) PROVE LessEqualP(v, u)
    OBVIOUS
  <2>1. Compare(b, a) = -Compare(a, b) /\ Compare(a, b) \in {-1, 0, 1}
    BY CompareOpposite
  <2>2. LessEqualP(b, a)
    BY <2>1 DEF LessEqualP
  <2> QED
    BY <2>2, RoundingKeepsOrder
<1>6. /\ {lo, hi} = {u, v}
      /\ LessEqualP(lo, u) /\ LessEqualP(lo, v) /\ LessEqualP(u, hi) /\ LessEqualP(v, hi)
  <2>1. CASE a.kind = "zero" /\ b.kind = "zero"
    <3>1. /\ u = Zero(a.sign, q) /\ v = Zero(b.sign, q)
          /\ hi = Zero(IF 1 \in {a.sign, b.sign} THEN 1 ELSE -1, q)
          /\ lo = Zero(IF -1 \in {a.sign, b.sign} THEN -1 ELSE 1, q)
      <4>1. /\ RoundToPrec(a, q, rnd) = Exactly(Zero(a.sign, q))
            /\ RoundToPrec(b, q, rnd) = Exactly(Zero(b.sign, q))
            /\ Max(a, b, q, rnd) = Exactly(Zero(IF 1 \in {a.sign, b.sign} THEN 1 ELSE -1, q))
            /\ Min(a, b, q, rnd) = Exactly(Zero(IF -1 \in {a.sign, b.sign} THEN -1 ELSE 1, q))
        BY <2>1, Set4Table, SelectionTable
      <4> QED
        BY <4>1, ExactlyOf
    <3> HIDE DEF u, v, hi, lo
    <3>2. {lo, hi} = {u, v}
      <4>1. CASE a.sign = b.sign
        BY <1>1, <3>1, <4>1 DEF Sign
      <4>2. CASE a.sign = 1 /\ b.sign = -1
        BY <3>1, <4>2
      <4>3. CASE a.sign = -1 /\ b.sign = 1
        BY <3>1, <4>3
      <4> QED
        BY <1>1, <4>1, <4>2, <4>3 DEF Sign
    <3>3. \A w \in {u, v}, z \in {u, v} : Compare(w, z) = 0
      BY <1>1, <2>1, ComparisonTable
    <3>4. lo \in {u, v} /\ hi \in {u, v}
      BY <3>2
    <3> QED
      BY <3>2, <3>3, <3>4 DEF LessEqualP
  <2>2. CASE ~(a.kind = "zero" /\ b.kind = "zero")
    <3>1. /\ Max(a, b, q, rnd) = RoundToPrec(IF LessEqualP(a, b) THEN b ELSE a, q, rnd)
          /\ Min(a, b, q, rnd) = RoundToPrec(IF LessEqualP(a, b) THEN a ELSE b, q, rnd)
      BY <2>2, SelectionTable
    <3>2. CASE LessEqualP(a, b)
      <4>1. hi = v /\ lo = u
        BY <3>1, <3>2
      <4> HIDE DEF u, v, hi, lo
      <4>2. LessEqualP(u, u) /\ LessEqualP(v, v)
        BY <1>3 DEF LessEqualP
      <4> QED
        BY <1>4, <3>2, <4>1, <4>2
    <3>3. CASE ~LessEqualP(a, b)
      <4>1. hi = u /\ lo = v
        BY <3>1, <3>3
      <4> HIDE DEF u, v, hi, lo
      <4>2. LessEqualP(u, u) /\ LessEqualP(v, v)
        BY <1>3 DEF LessEqualP
      <4> QED
        BY <1>5, <3>3, <4>1, <4>2
    <3> QED
      BY <3>2, <3>3
  <2> QED
    BY <2>1, <2>2
<1> QED
  BY <1>6, Zenon DEF SelectionBounds

\* A step away from zero leads farther out, and a step towards zero farther in
\* or to the other side.
LEMMA StepGrows ==
    ASSUME NEW a, Valid(a), a.kind # "nan", InRange(a)
    PROVE  /\ a.kind # "inf" => Compare(a, NextToInf(a)) = -a.sign
           /\ Compare(a, NextToZero(a)) = a.sign
<1> DEFINE s == a.sign
           w == NextToInf(a)
           z == NextToZero(a)
<1>1. a.kind \in {"inf", "zero", "normal"} /\ s \in Sign /\ a.prec \in Nat \ {0} /\ Operand(a)
  BY ValidIsOperand, Kinds
<1>2. CASE a.kind = "inf"
  <2>1. z.kind = "normal"
    <3>1. z = Largest(s, a.prec)
      BY <1>2 DEF NextToZero
    <3> QED
      BY <1>1, <3>1, EndsOfRange
  <2> HIDE DEF z
  <2>2. Compare(a, z) = s
    BY <1>2, <2>1, ComparisonTable
  <2> QED
    BY <1>2, <2>2 DEF z
<1>3. CASE a.kind = "zero"
  <2>1. w = Smallest(s, a.prec) /\ z = Smallest(-s, a.prec)
    BY <1>3 DEF NextToInf, NextToZero
  <2>2. w.kind = "normal" /\ w.sign = s /\ z.kind = "normal" /\ z.sign = -s
    BY <1>1, <2>1, EndsOfRange, ProductOfSigns
  <2> HIDE DEF w, z
  <2>3. Compare(a, w) = -s /\ Compare(a, z) = -(-s)
    BY <1>3, <2>2, ComparisonTable
  <2>4. -(-s) = s
    BY <1>1 DEF Sign
  <2> QED
    BY <2>3, <2>4 DEF w, z
<1>4. CASE a.kind = "normal"
  <2>1. /\ a.mant \in Int /\ a.exp \in Int /\ Pow2(a.prec) \in Int /\ Pow2(a.prec - 1) \in Int
        /\ a.mant \in Pow2(a.prec - 1) .. Pow2(a.prec) - 1
    BY <1>1, <1>4, NormalParts, LengthBounds
  <2>2. /\ w.kind \in {"normal", "inf"} /\ w.sign = s
        /\ z.kind \in {"normal", "zero"} /\ z.sign = s
    BY <1>1, <1>4, NextKinds
  <2>3. w.kind = "normal" => /\ w.prec = a.prec
                             /\ w.exp > a.exp \/ (w.exp = a.exp /\ w.mant > a.mant)
    <3>1. CASE a.mant + 1 < Pow2(a.prec)
      <4>1. w = [a EXCEPT !.mant = a.mant + 1]
        BY <1>4, <2>1, <3>1 DEF NextToInf
      <4>2. w = Normal(a.sign, a.prec, a.exp, a.mant + 1)
        BY <1>1, <1>4, <4>1, OtherMantissa
      <4> QED
        BY <2>1, <4>2, NormalShape
    <3>2. CASE ~(a.mant + 1 < Pow2(a.prec)) /\ a.exp = EMAX_DEFAULT
      <4>1. w = Inf(a.sign, a.prec)
        BY <1>4, <2>1, <3>2 DEF NextToInf
      <4> QED
        BY <4>1 DEF Inf
    <3>3. CASE ~(a.mant + 1 < Pow2(a.prec)) /\ a.exp # EMAX_DEFAULT
      <4>1. w = Normal(a.sign, a.prec, a.exp + 1, Pow2(a.prec - 1))
        BY <1>4, <2>1, <3>3 DEF NextToInf
      <4>2. w.prec = a.prec /\ w.exp = a.exp + 1
        BY <4>1, NormalShape
      <4> QED
        BY <2>1, <4>2
    <3> QED
      BY <3>1, <3>2, <3>3
  <2>4. z.kind = "normal" => /\ z.prec = a.prec
                             /\ z.exp < a.exp \/ (z.exp = a.exp /\ z.mant < a.mant)
    <3>1. CASE a.mant - 1 >= Pow2(a.prec - 1)
      <4>1. z = [a EXCEPT !.mant = a.mant - 1]
        BY <1>4, <2>1, <3>1 DEF NextToZero
      <4>2. z = Normal(a.sign, a.prec, a.exp, a.mant - 1)
        BY <1>1, <1>4, <4>1, OtherMantissa
      <4> QED
        BY <2>1, <4>2, NormalShape
    <3>2. CASE ~(a.mant - 1 >= Pow2(a.prec - 1)) /\ a.exp = EMIN_DEFAULT
      <4>1. z = Zero(a.sign, a.prec)
        BY <1>4, <2>1, <3>2 DEF NextToZero
      <4> QED
        BY <4>1 DEF Zero
    <3>3. CASE ~(a.mant - 1 >= Pow2(a.prec - 1)) /\ a.exp # EMIN_DEFAULT
      <4>1. z = Normal(a.sign, a.prec, a.exp - 1, Pow2(a.prec) - 1)
        BY <1>4, <2>1, <3>3 DEF NextToZero
      <4>2. z.prec = a.prec /\ z.exp = a.exp - 1
        BY <4>1, NormalShape
      <4> QED
        BY <2>1, <4>2
    <3> QED
      BY <3>1, <3>2, <3>3
  <2>5. (w.kind = "normal" => Operand(w)) /\ (z.kind = "normal" => Operand(z))
    BY NextIsValid, ValidIsOperand
  <2> HIDE DEF w, z
  <2>6. Compare(a, w) = -s
    <3>1. CASE w.kind = "inf"
      <4>1. Compare(a, w) = -w.sign
        BY <1>4, <3>1, ComparisonTable
      <4> QED
        BY <2>2, <4>1
    <3>2. CASE w.kind = "normal"
      <4>1. /\ CompareMagnitude(a, w) = IF a.exp # w.exp THEN Sgn(a.exp - w.exp) ELSE Sgn(a.mant - w.mant)
            /\ w.exp \in Int /\ w.mant \in Int
        BY <1>1, <1>4, <2>3, <2>5, <3>2, CompareSamePrecision
      <4>2. CompareMagnitude(a, w) = -1
        BY <2>1, <2>3, <3>2, <4>1 DEF Sgn
      <4>3. Compare(a, w) = s * CompareMagnitude(a, w)
        BY <1>4, <2>2, <3>2, ComparisonTable
      <4> QED
        BY <1>1, <4>2, <4>3 DEF Sign
    <3> QED
      BY <2>2, <3>1, <3>2
  <2>7. Compare(a, z) = s
    <3>1. CASE z.kind = "zero"
      BY <1>4, <3>1, ComparisonTable
    <3>2. CASE z.kind = "normal"
      <4>1. /\ CompareMagnitude(a, z) = IF a.exp # z.exp THEN Sgn(a.exp - z.exp) ELSE Sgn(a.mant - z.mant)
            /\ z.exp \in Int /\ z.mant \in Int
        BY <1>1, <1>4, <2>4, <2>5, <3>2, CompareSamePrecision
      <4>2. CompareMagnitude(a, z) = 1
        BY <2>1, <2>4, <3>2, <4>1 DEF Sgn
      <4>3. Compare(a, z) = s * CompareMagnitude(a, z)
        BY <1>4, <2>2, <3>2, ComparisonTable
      <4> QED
        BY <1>1, <4>2, <4>3 DEF Sign
    <3> QED
      BY <2>2, <3>1, <3>2
  <2> QED
    BY <2>6, <2>7 DEF w, z
<1> QED
  BY <1>1, <1>2, <1>3, <1>4

\* The order seen from the other operand.
LEMMA CompareTurned ==
    ASSUME NEW a, Operand(a), a.kind # "nan", NEW b, Operand(b), b.kind # "nan"
    PROVE  /\ Compare(a, b) = -1 <=> Compare(b, a) = 1
           /\ Compare(a, b) = 1 <=> Compare(b, a) = -1
           /\ Compare(a, b) = 0 <=> Compare(b, a) = 0
<1> DEFINE c == Compare(a, b)
           d == Compare(b, a)
<1>1. c \in {-1, 0, 1} /\ d = -c
  BY CompareOpposite
<1> HIDE DEF c, d
<1>2. (c = -1 <=> d = 1) /\ (c = 1 <=> d = -1) /\ (c = 0 <=> d = 0)
  BY <1>1
<1> QED
  BY <1>2 DEF c, d

\* A step keeps the precision.
LEMMA NextKeepsPrecision ==
    ASSUME NEW a, Operand(a), a.kind # "nan"
    PROVE  /\ NextToInf(a).kind # "nan" /\ NextToInf(a).prec = a.prec
           /\ NextToZero(a).kind # "nan" /\ NextToZero(a).prec = a.prec
<1>1. a.kind \in {"inf", "zero", "normal"}
  BY Kinds
<1>2. /\ \A s, e, m : Normal(s, a.prec, e, m).kind = "normal" /\ Normal(s, a.prec, e, m).prec = a.prec
      /\ \A s : Inf(s, a.prec).kind = "inf" /\ Inf(s, a.prec).prec = a.prec
      /\ \A s : Zero(s, a.prec).kind = "zero" /\ Zero(s, a.prec).prec = a.prec
  BY DEF Normal, Inf, Zero
<1>3. \A s : /\ Largest(s, a.prec).kind = "normal" /\ Largest(s, a.prec).prec = a.prec
             /\ Smallest(s, a.prec).kind = "normal" /\ Smallest(s, a.prec).prec = a.prec
  BY <1>2 DEF Largest, Smallest
<1>4. CASE a.kind = "inf" \/ a.kind = "zero"
  BY <1>3, <1>4 DEF NextToInf, NextToZero
<1>5. CASE a.kind = "normal"
  <2>1. a.mant \in Int /\ Pow2(a.prec) \in Int /\ Pow2(a.prec - 1) \in Int
    BY <1>5, NormalParts, LengthBounds
  <2>2. \A m : [a EXCEPT !.mant = m].kind = "normal" /\ [a EXCEPT !.mant = m].prec = a.prec
    BY <1>2, <1>5, OtherMantissa
  <2>3. NextToInf(a).kind # "nan" /\ NextToInf(a).prec = a.prec
    BY <1>2, <1>5, <2>1, <2>2 DEF NextToInf
  <2>4. NextToZero(a).kind # "nan" /\ NextToZero(a).prec = a.prec
    BY <1>2, <1>5, <2>1, <2>2 DEF NextToZero
  <2> QED
    BY <2>3, <2>4
<1> QED
  BY <1>1, <1>4, <1>5

\* nextabove of a value that is not +inf is above it, nextbelow of one that is
\* not -inf below.
LEMMA NextMoves ==
    ASSUME NEW a, Valid(a), a.kind # "nan", InRange(a)
    PROVE  /\ Valid(NextAbove(a)) /\ NextAbove(a).kind # "nan" /\ NextAbove(a).prec = a.prec
           /\ Valid(NextBelow(a)) /\ NextBelow(a).kind # "nan" /\ NextBelow(a).prec = a.prec
           /\ InRange(NextAbove(a)) /\ InRange(NextBelow(a))
           /\ ~(a.kind = "inf" /\ a.sign = 1) => Compare(a, NextAbove(a)) = -1
           /\ ~(a.kind = "inf" /\ a.sign = -1) => Compare(a, NextBelow(a)) = 1
<1> DEFINE w == NextToInf(a)
           z == NextToZero(a)
<1>1. Operand(a) /\ a.sign \in Sign
  BY ValidIsOperand, Kinds
<1>2. /\ NextAbove(a) = (IF a.sign = -1 THEN z ELSE w)
      /\ NextBelow(a) = (IF a.sign = -1 THEN w ELSE z)
  BY DEF NextAbove, NextBelow
<1>3. /\ Valid(w) /\ w.kind # "nan" /\ w.prec = a.prec /\ InRange(w)
      /\ Valid(z) /\ z.kind # "nan" /\ z.prec = a.prec /\ InRange(z)
  BY <1>1, NextIsValid, NextKeepsPrecision, StepInRange
<1>4. /\ a.kind # "inf" => Compare(a, w) = -a.sign
      /\ Compare(a, z) = a.sign
  BY StepGrows
<1> HIDE DEF w, z
<1>5. CASE a.sign = 1
  <2>1. NextAbove(a) = w /\ NextBelow(a) = z
    BY <1>2, <1>5
  <2> QED
    BY <1>3, <1>4, <1>5, <2>1
<1>6. CASE a.sign = -1
  <2>1. NextAbove(a) = z /\ NextBelow(a) = w
    BY <1>2, <1>6
  <2>2. a.kind # "inf" => Compare(a, w) = 1
    BY <1>4, <1>6
  <2> QED
    BY <1>3, <1>4, <1>6, <2>1, <2>2
<1> QED
  BY <1>1, <1>5, <1>6 DEF Sign

\* nextabove goes to the next value of the precision, and nextbelow comes back.
LEMMA NextIsNext ==
    ASSUME NEW a, Valid(a), a.kind # "nan", InRange(a), ~(a.kind = "inf" /\ a.sign = 1)
    PROVE  /\ LessP(a, NextAbove(a)) /\ InRange(NextAbove(a))
           /\ EqualP(NextBelow(NextAbove(a)), a)
           /\ \A b : Valid(b) /\ b.prec = a.prec /\ InRange(b) => ~(LessP(a, b) /\ LessP(b, NextAbove(a)))
<1> DEFINE u == NextAbove(a)
           v == NextBelow(u)
<1>1. /\ Valid(u) /\ u.kind # "nan" /\ u.prec = a.prec /\ InRange(u) /\ Compare(a, u) = -1
  BY NextMoves
<1>2. Operand(a) /\ Operand(u) /\ a.prec \in Nat /\ a.sign \in Sign /\ u.sign \in Sign
      /\ a.kind \in {"inf", "zero", "normal"}
  BY <1>1, ValidIsOperand, Kinds
<1> HIDE DEF u
<1>3. Compare(u, a) = 1
  BY <1>1, <1>2, CompareTurned
<1>4. ~(u.kind = "inf" /\ u.sign = -1)
  <2> SUFFICES ASSUME u.kind = "inf", u.sign = -1 PROVE FALSE
    OBVIOUS
  <2>1. CASE a.kind = "inf"
    <3>1. a.sign = -1
      BY <1>2, <2>1 DEF Sign
    <3>2. Compare(u, a) = 0
      BY <2>1, <3>1, ComparisonTable
    <3> QED
      BY <1>3, <3>2
  <2>2. CASE a.kind # "inf"
    <3>1. Compare(u, a) = u.sign
      BY <1>2, <2>2, ComparisonTable
    <3> QED
      BY <1>3, <3>1
  <2> QED
    BY <2>1, <2>2
<1>5. /\ Valid(v) /\ v.kind # "nan" /\ v.prec = u.prec /\ InRange(v) /\ Compare(u, v) = 1
  BY <1>1, <1>4, NextMoves
<1> HIDE DEF v
<1>6. Compare(v, a) = 0
  <2>1. Compare(v, a) \in {0, 1}
    <3>1. GreaterP(u, a)
      BY <1>3 DEF GreaterP
    <3>2. a.prec <= u.prec
      BY <1>1, <1>2
    <3> QED
      BY <1>1, <3>1, <3>2, NextStepsToNearest DEF v
  <2>2. Compare(v, a) # 1
    <3> SUFFICES ASSUME Compare(v, a) = 1 PROVE FALSE
      OBVIOUS
    <3>1. Compare(a, v) = -1
      <4>1. Operand(v)
        BY <1>5, ValidIsOperand
      <4> QED
        BY <1>2, <1>5, <4>1, CompareTurned
    <3>2. LessP(a, v) /\ v.prec <= a.prec
      BY <1>1, <1>2, <1>5, <3>1 DEF LessP
    <3>3. Compare(u, v) \in {-1, 0}
      BY <1>5, <3>2, NextStepsToNearest DEF u
    <3> QED
      BY <1>5, <3>3
  <2> QED
    BY <2>1, <2>2
<1>7. ASSUME NEW b, Valid(b), b.prec = a.prec, InRange(b), LessP(a, b), LessP(b, u)
      PROVE  FALSE
  <2>1. b.kind # "nan" /\ Operand(b)
    <3>1. b.kind = "nan" => Compare(a, b) = Unordered
      BY DEF Compare
    <3> QED
      BY <1>7, <3>1, ValidIsOperand DEF LessP, Unordered
  <2>2. Compare(u, b) = 1
    <3>1. Compare(b, u) = -1
      BY <1>7 DEF LessP
    <3> QED
      BY <1>1, <1>2, <2>1, <3>1, CompareTurned
  <2>3. b.prec <= a.prec
    BY <1>2, <1>7
  <2>4. Compare(u, b) \in {-1, 0}
    BY <1>7, <2>1, <2>3, NextStepsToNearest DEF u
  <2> QED
    BY <2>2, <2>4
<1>8. /\ LessP(a, u) /\ InRange(u) /\ EqualP(v, a)
      /\ \A b : Valid(b) /\ b.prec = a.prec /\ InRange(b) => ~(LessP(a, b) /\ LessP(b, u))
  BY <1>1, <1>6, <1>7 DEF LessP, EqualP
<1> QED
  BY <1>8 DEF u, v

\* A sum has the sign of the greater magnitude.
LEMMA SignOfSum ==
    ASSUME NEW s \in Sign, NEW A \in Nat \ {0}, NEW r \in Sign, NEW B \in Nat \ {0}
    PROVE  /\ s = r => Sgn(s * A + r * B) = s
           /\ s # r => Sgn(s * A + r * B) = s * Sgn(A - B)
<1>1. CASE s = 1 /\ r = 1
  BY <1>1 DEF Sgn
<1>2. CASE s = -1 /\ r = -1
  BY <1>2 DEF Sgn
<1>3. CASE s = 1 /\ r = -1
  BY <1>3 DEF Sgn
<1>4. CASE s = -1 /\ r = 1
  BY <1>4 DEF Sgn
<1> QED
  BY <1>1, <1>2, <1>3, <1>4 DEF Sign

\* The sign of the exact sum is the order of one operand and the opposite of
\* the other.
LEMMA SumSignIsOrder ==
    ASSUME NEW a, Operand(a), a.kind = "normal", NEW b, Operand(b), b.kind = "normal",
           NEW t \in Int, t <= Scale(a), t <= Scale(b)
    PROVE  Sgn(SumOf(a, b, t)) = Compare(a, Negated(b))
<1> DEFINE c == Negated(b)
           A == MantAt(a, t)
           B == MantAt(b, t)
           P == Pow2(Scale(a) - t)
           Q == Pow2(Scale(b) - t)
<1>1. A \in Nat \ {0} /\ B \in Nat \ {0} /\ a.sign \in Sign /\ b.sign \in Sign
  BY BinadeBounds, NormalParts
<1>2. /\ Operand(c) /\ c.kind = "normal" /\ c.sign = -b.sign /\ c.mant = b.mant /\ Scale(c) = Scale(b)
  <2>1. /\ Operand(c) /\ c.kind = "normal" /\ c.sign = -b.sign /\ c.mant = b.mant
        /\ c.exp = b.exp /\ c.prec = b.prec
    BY NegatedShapes
  <2> HIDE DEF c
  <2> QED
    BY <2>1 DEF Scale
<1> HIDE DEF c
<1>3. CompareMagnitude(a, c) = Sgn(A - B)
  <2>1. MantAt(c, t) = B
    BY <1>2 DEF MantAt
  <2>2. t <= Scale(c)
    BY <1>2
  <2>3. CompareMagnitude(a, c) = Sgn(MantAt(a, t) - MantAt(c, t))
    BY <1>2, <2>2, MagnitudesCompare
  <2> HIDE DEF A, B
  <2> QED
    BY <2>1, <2>3 DEF A
<1>4. SumOf(a, b, t) = a.sign * A + b.sign * B
  <2>1. SumOf(a, b, t) = (a.sign * a.mant) * P + (b.sign * b.mant) * Q
    <3>1. Num(a) = a.sign * a.mant /\ Num(b) = b.sign * b.mant
      BY NormalParts
    <3> QED
      BY <3>1 DEF SumOf
  <2>2. P \in Nat /\ Q \in Nat
    <3>1. Scale(a) - t \in Nat /\ Scale(b) - t \in Nat
      BY NormalParts
    <3> QED
      BY <3>1, Pow2Type
  <2>3. a.mant \in Nat /\ b.mant \in Nat /\ a.sign \in Int /\ b.sign \in Int
    BY NormalParts DEF Sign
  <2>4. A = a.mant * P /\ B = b.mant * Q
    BY DEF MantAt
  <2> HIDE DEF A, B, P, Q
  <2>5. (a.sign * a.mant) * P = a.sign * (a.mant * P) /\ (b.sign * b.mant) * Q = b.sign * (b.mant * Q)
    BY <2>2, <2>3
  <2> QED
    BY <2>1, <2>4, <2>5
<1>5. Compare(a, c) = IF a.sign # c.sign THEN a.sign ELSE a.sign * CompareMagnitude(a, c)
  BY <1>2, ComparisonTable
<1>6. a.sign # c.sign <=> a.sign = b.sign
  BY <1>1, <1>2 DEF Sign
<1> HIDE DEF A, B
<1>7. /\ a.sign = b.sign => Sgn(SumOf(a, b, t)) = a.sign
      /\ a.sign # b.sign => Sgn(SumOf(a, b, t)) = a.sign * Sgn(A - B)
  BY <1>1, <1>4, SignOfSum
<1>8. Sgn(SumOf(a, b, t)) = Compare(a, c)
  BY <1>3, <1>5, <1>6, <1>7
<1> QED
  BY <1>8 DEF c

\* A rounded sum has the sign of the exact one.
LEMMA RoundedSumSign ==
    ASSUME NEW a, Operand(a), a.kind = "normal", NEW b, Operand(b), b.kind = "normal",
           NEW q \in Precision, NEW rnd \in RoundingMode
    PROVE  SgnOf(Add(a, b, q, rnd).value) = Compare(a, Negated(b))
<1> DEFINE res == Add(a, b, q, rnd)
<1>1. SumRounding(res, a, b, q, rnd)
  <2>1. Finite(a) /\ Finite(b)
    BY DEF Finite
  <2> QED
    BY <2>1, AddRounds
<1>2. Scale(a) \in Int /\ Scale(b) \in Int
  BY NormalParts
<1> HIDE DEF res
<1>3. CASE /\ \A t \in Int : t <= Scale(a) /\ t <= Scale(b) => SumOf(a, b, t) = 0
           /\ \E z \in Sign : res = Exactly(Zero(z, q))
  <2>1. PICK t \in Int : t <= Scale(a) /\ t <= Scale(b)
    BY <1>2
  <2>2. SumOf(a, b, t) = 0 /\ Sgn(SumOf(a, b, t)) = Compare(a, Negated(b))
    BY <1>3, <2>1, SumSignIsOrder
  <2>3. Compare(a, Negated(b)) = 0
    BY <2>2 DEF Sgn
  <2>4. res.value.kind = "zero"
    BY <1>3 DEF Exactly, Result, Zero
  <2>5. SgnOf(res.value) = 0
    BY <2>4 DEF SgnOf
  <2> QED
    BY <2>3, <2>5 DEF res
<1>4. CASE \E s \in Sign, m \in Nat \ {0}, l \in Int :
              /\ RoundedTo(res, s, q, rnd, m, l, 1)
              /\ \A t \in Int : t <= l /\ t <= Scale(a) /\ t <= Scale(b) =>
                    SumOf(a, b, t) = s * (m * Pow2(l - t))
  <2>1. PICK s \in Sign, m \in Nat \ {0}, l \in Int :
              /\ RoundedTo(res, s, q, rnd, m, l, 1)
              /\ \A t \in Int : t <= l /\ t <= Scale(a) /\ t <= Scale(b) =>
                    SumOf(a, b, t) = s * (m * Pow2(l - t))
    BY <1>4
  <2>2. PICK t \in Int : t <= l /\ t <= Scale(a) /\ t <= Scale(b)
    BY <1>2
  <2> DEFINE M == m * Pow2(l - t)
  <2>3. M \in Nat \ {0}
    <3>1. l - t \in Nat
      BY <2>2
    <3>2. Pow2(l - t) \in Nat \ {0}
      BY <3>1, Pow2Type
    <3> QED
      BY <3>2, NaturalProducts
  <2>4. SumOf(a, b, t) = s * M
    BY <2>1, <2>2
  <2> HIDE DEF M
  <2>5. Sgn(SumOf(a, b, t)) = s
    BY <2>3, <2>4 DEF Sgn, Sign
  <2>6. Sgn(SumOf(a, b, t)) = Compare(a, Negated(b))
    BY <2>2, SumSignIsOrder
  <2>7. res.value.kind = "normal" /\ res.value.sign = s
    BY <2>1, RoundedToIsValid
  <2>8. SgnOf(res.value) = s
    BY <2>7 DEF SgnOf
  <2> QED
    BY <2>5, <2>6, <2>8 DEF res
<1> QED
  BY <1>1, <1>3, <1>4 DEF SumRounding

\* So has a sum with a zero or one infinity.
LEMMA SumShowsOrder ==
    ASSUME NEW a, Operand(a), a.kind # "nan", NEW b, Operand(b), b.kind # "nan",
           ~(a.kind = "inf" /\ b.kind = "inf"), NEW q \in Precision, NEW rnd \in RoundingMode
    PROVE  SgnOf(Add(a, b, q, rnd).value) = Compare(a, Negated(b))
<1> DEFINE c == Negated(b)
           w == Add(a, b, q, rnd).value
<1>1. /\ a.kind \in {"inf", "zero", "normal"} /\ b.kind \in {"inf", "zero", "normal"}
      /\ a.sign \in Sign /\ b.sign \in Sign
  BY Kinds
<1>2. c.kind = b.kind /\ c.sign = -b.sign /\ -c.sign = b.sign
  <2>1. c.kind = b.kind /\ c.sign = -b.sign
    BY NegatedShapes
  <2> HIDE DEF c
  <2> QED
    BY <1>1, <2>1 DEF Sign
<1>3. /\ \A v : Exactly(v).value = v
      /\ \A s, p : /\ Inf(s, p).kind = "inf" /\ Inf(s, p).sign = s /\ Zero(s, p).kind = "zero"
  BY DEF Exactly, Result, Inf, Zero
<1>4. CASE a.kind = "normal" /\ b.kind = "normal"
  BY <1>4, RoundedSumSign
<1>5. CASE a.kind = "inf" /\ b.kind \in {"zero", "normal"}
  <2>1. Add(a, b, q, rnd) = Exactly(Inf(a.sign, q))
    BY <1>5, AdditionTable
  <2>2. w.kind = "inf" /\ w.sign = a.sign
    BY <1>3, <2>1
  <2> HIDE DEF c, w
  <2>3. Compare(a, c) = a.sign
    BY <1>2, <1>5, ComparisonTable
  <2>4. SgnOf(w) = a.sign
    BY <2>2 DEF SgnOf
  <2> QED
    BY <2>3, <2>4 DEF c, w
<1>6. CASE a.kind \in {"zero", "normal"} /\ b.kind = "inf"
  <2>1. Add(a, b, q, rnd) = Exactly(Inf(b.sign, q))
    BY <1>6, AdditionTable
  <2>2. w.kind = "inf" /\ w.sign = b.sign
    BY <1>3, <2>1
  <2> HIDE DEF c, w
  <2>3. Compare(a, c) = -c.sign
    BY <1>2, <1>6, ComparisonTable
  <2>4. SgnOf(w) = b.sign
    BY <2>2 DEF SgnOf
  <2> QED
    BY <1>2, <2>3, <2>4 DEF c, w
<1>7. CASE a.kind = "zero" /\ b.kind = "zero"
  <2>1. w.kind = "zero"
    BY <1>3, <1>7, AdditionTable
  <2> HIDE DEF c, w
  <2>2. Compare(a, c) = 0
    BY <1>2, <1>7, ComparisonTable
  <2>3. SgnOf(w) = 0
    BY <2>1 DEF SgnOf
  <2> QED
    BY <2>2, <2>3 DEF c, w
<1>8. CASE a.kind = "zero" /\ b.kind = "normal"
  <2>1. Add(a, b, q, rnd) = RoundToPrec(b, q, rnd)
    BY <1>8, AdditionTable
  <2>2. w.kind = "normal" /\ w.sign = b.sign
    BY <1>8, <2>1, RoundingKeepsKind
  <2> HIDE DEF c, w
  <2>3. Compare(a, c) = -c.sign
    BY <1>2, <1>8, ComparisonTable
  <2>4. SgnOf(w) = b.sign
    BY <2>2 DEF SgnOf
  <2> QED
    BY <1>2, <2>3, <2>4 DEF c, w
<1>9. CASE a.kind = "normal" /\ b.kind = "zero"
  <2>1. Add(a, b, q, rnd) = RoundToPrec(a, q, rnd)
    BY <1>9, AdditionTable
  <2>2. w.kind = "normal" /\ w.sign = a.sign
    BY <1>9, <2>1, RoundingKeepsKind
  <2> HIDE DEF c, w
  <2>3. Compare(a, c) = a.sign
    BY <1>2, <1>9, ComparisonTable
  <2>4. SgnOf(w) = a.sign
    BY <2>2 DEF SgnOf
  <2> QED
    BY <2>3, <2>4 DEF c, w
<1> QED
  BY <1>1, <1>4, <1>5, <1>6, <1>7, <1>8, <1>9

\* The opposite of the opposite.
LEMMA NegatedTwice ==
    ASSUME NEW v, Operand(v)
    PROVE  Negated(Negated(v)) = v
<1> DEFINE s == v.sign
           p == v.prec
<1>1. /\ v.kind \in {"nan", "inf", "zero", "normal"} /\ s \in Sign /\ -s \in Sign
      /\ v.kind = "inf" => v = Inf(s, p)
      /\ v.kind = "zero" => v = Zero(s, p)
      /\ v.kind = "normal" => v = Normal(s, p, v.exp, v.mant)
  BY Kinds, ProductOfSigns
<1>2. -(-s) = s
  BY <1>1 DEF Sign
<1>3. Operand(Negated(v)) /\ Negated(v).kind = v.kind /\ (v.kind = "nan" => Negated(v) = v)
  BY NegatedShapes
<1>4. v.kind # "nan" => /\ Negated(v).sign = -s /\ Negated(v).prec = p
                        /\ Negated(v).exp = v.exp /\ Negated(v).mant = v.mant
  BY NegatedShapes
<1> DEFINE w == Negated(v)
<1>5. /\ w.kind = "inf" => Negated(w) = Inf(-w.sign, w.prec)
      /\ w.kind = "zero" => Negated(w) = Zero(-w.sign, w.prec)
      /\ w.kind = "normal" => Negated(w) = Normal(-w.sign, w.prec, w.exp, w.mant)
  <2>1. Operand(w)
    BY <1>3
  <2> HIDE DEF w
  <2> QED
    BY <2>1, NegatedShapes
<1> HIDE DEF w, s, p
<1>6. Negated(w) = v
  <2>1. CASE v.kind = "nan"
    <3>1. w = v
      BY <1>3, <2>1 DEF w
    <3> QED
      BY <3>1 DEF w
  <2>2. CASE v.kind # "nan"
    <3>1. w.kind = v.kind /\ -w.sign = s /\ w.prec = p /\ w.exp = v.exp /\ w.mant = v.mant
      BY <1>2, <1>3, <1>4, <2>2 DEF w
    <3> QED
      BY <1>1, <1>5, <2>2, <3>1
  <2> QED
    BY <2>1, <2>2
<1> QED
  BY <1>6 DEF w

\* mpfr_sub has the sign of the order, mpfr_cmp3 the order of a sum, and
LEMMA DifferenceShowsOrder ==
    ASSUME NEW a, Operand(a), a.kind # "nan", NEW b, Operand(b), b.kind # "nan",
           ~(a.kind = "inf" /\ b.kind = "inf"), NEW q \in Precision, NEW rnd \in RoundingMode
    PROVE  /\ SgnOf(Sub(a, b, q, rnd).value) = Compare(a, b)
           /\ SgnOf(Add(a, b, q, rnd).value) = Cmp3(a, b, -1)
           /\ SgnOf(Dim(a, b, q, rnd).value) = IF Compare(a, b) = 1 THEN 1 ELSE 0
<1> DEFINE c == Negated(b)
<1>1. c = [b EXCEPT !.sign = -b.sign] /\ Operand(c) /\ c.kind = b.kind /\ Negated(c) = b
  BY NegatedShapes, NegatedTwice DEF Negated
<1>2. Sub(a, b, q, rnd) = Add(a, c, q, rnd)
  BY <1>1, Zenon DEF Sub
<1>3. Cmp3(a, b, -1) = Compare(a, c)
  <2>1. -1 < 0
    OBVIOUS
  <2> QED
    BY <1>1, <2>1, Zenon DEF Cmp3
<1> HIDE DEF c
<1>4. SgnOf(Sub(a, b, q, rnd).value) = Compare(a, b)
  BY <1>1, <1>2, SumShowsOrder
<1>5. SgnOf(Add(a, b, q, rnd).value) = Cmp3(a, b, -1)
  BY <1>3, SumShowsOrder DEF c
<1>6. SgnOf(Dim(a, b, q, rnd).value) = IF Compare(a, b) = 1 THEN 1 ELSE 0
  <2>1. Compare(a, b) \in {-1, 0, 1} /\ ~UnorderedP(a, b)
    BY CompareOpposite DEF UnorderedP
  <2>2. CASE Compare(a, b) = 1
    <3>1. Dim(a, b, q, rnd) = Sub(a, b, q, rnd)
      BY <2>1, <2>2 DEF Dim
    <3> QED
      BY <1>4, <2>2, <3>1
  <2>3. CASE Compare(a, b) # 1
    <3>1. Dim(a, b, q, rnd) = Exactly(Zero(1, q))
      BY <2>1, <2>3 DEF Dim
    <3> QED
      BY <2>3, <3>1 DEF Exactly, Result, Zero, SgnOf
  <2> QED
    BY <2>2, <2>3
<1> QED
  BY <1>4, <1>5, <1>6

\* mpfr_abs at the precision of the operand drops the sign and nothing else.
LEMMA AbsShape ==
    ASSUME NEW v, Operand(v), v.kind # "nan", NEW rnd,
           NEW w, w = Abs(v, v.prec, rnd).value
    PROVE  /\ Operand(w) /\ w.kind = v.kind /\ w.sign = 1 /\ w.prec = v.prec
           /\ v.kind = "normal" => w.exp = v.exp /\ w.mant = v.mant
<1>1. /\ v.kind \in {"inf", "zero", "normal"} /\ v.prec \in Nat \ {0} /\ 1 \in Sign
      /\ \A z : Exactly(z).value = z
  BY Kinds DEF Sign, Exactly, Result
<1>2. Abs(v, v.prec, rnd) = Set4(v, v.prec, rnd, 1)
  BY DEF Abs
<1>3. CASE v.kind = "inf" \/ v.kind = "zero"
  <2>1. w = IF v.kind = "inf" THEN Inf(1, v.prec) ELSE Zero(1, v.prec)
    BY <1>1, <1>2, <1>3, Set4Table
  <2>2. Operand(w)
    BY <1>1, <2>1 DEF Operand
  <2>3. w.kind = v.kind /\ w.sign = 1 /\ w.prec = v.prec
    BY <1>3, <2>1 DEF Inf, Zero
  <2> QED
    BY <1>3, <2>2, <2>3
<1>4. CASE v.kind = "normal"
  <2>1. /\ v.mant \in Nat /\ v.exp \in Int /\ v.mant \in Pow2(v.prec - 1) .. Pow2(v.prec) - 1
    BY <1>4, NormalParts
  <2>2. v.prec >= v.prec /\ v.prec - v.prec = 0 /\ v.mant * 1 = v.mant
    BY <1>1, <2>1
  <2>3. Set4(v, v.prec, rnd, 1) = PackNormal(1, v.exp, v.mant, v.prec, v.prec, rnd)
    BY <1>4 DEF Set4
  <2>4. PackNormal(1, v.exp, v.mant, v.prec, v.prec, rnd)
        = Exactly(Normal(1, v.prec, v.exp, v.mant * Pow2(v.prec - v.prec)))
    BY <2>2 DEF PackNormal
  <2>5. v.mant * Pow2(v.prec - v.prec) = v.mant
    BY <2>2, Pow2Zero, Zenon
  <2>6. w = Normal(1, v.prec, v.exp, v.mant)
    BY <1>1, <1>2, <2>3, <2>4, <2>5
  <2>7. Operand(w)
    BY <1>1, <2>1, <2>6, NormalIsOperand
  <2> QED
    BY <1>4, <2>6, <2>7, NormalShape
<1> QED
  BY <1>1, <1>3, <1>4

\* mpfr_cmpabs the order of the magnitudes.
LEMMA CmpAbsOrders ==
    ASSUME NEW a, Operand(a), a.kind # "nan", NEW b, Operand(b), b.kind # "nan",
           ~(a.kind = "inf" /\ b.kind = "inf"),
           NEW u, Operand(u), u.kind = a.kind, u.sign = 1, u.prec = a.prec,
           a.kind = "normal" => u.exp = a.exp /\ u.mant = a.mant,
           NEW v, Operand(v), v.kind = b.kind, v.sign = 1, v.prec = b.prec,
           b.kind = "normal" => v.exp = b.exp /\ v.mant = b.mant
    PROVE  CmpAbs(a, b) = Compare(u, v)
<1>1. a.kind \in {"inf", "zero", "normal"} /\ b.kind \in {"inf", "zero", "normal"}
  BY Kinds
<1>2. CASE a.kind = "normal" /\ b.kind = "normal"
  <2>1. CompareMagnitude(u, v) = CompareMagnitude(a, b)
    BY <1>2, Zenon DEF CompareMagnitude
  <2>2. Compare(u, v) = CompareMagnitude(u, v)
    BY <1>2, CompareBySign
  <2>3. CmpAbs(a, b) = CompareMagnitude(a, b)
    BY <1>2 DEF CmpAbs
  <2> QED
    BY <2>1, <2>2, <2>3
<1>3. CASE a.kind = "inf"
  <2>1. CmpAbs(a, b) = 1
    BY <1>1, <1>3 DEF CmpAbs
  <2>2. Compare(u, v) = 1
    BY <1>1, <1>3, ComparisonTable
  <2> QED
    BY <2>1, <2>2
<1>4. CASE b.kind = "inf"
  <2>1. CmpAbs(a, b) = -1
    BY <1>1, <1>4 DEF CmpAbs
  <2>2. Compare(u, v) = -1
    BY <1>1, <1>4, ComparisonTable
  <2> QED
    BY <2>1, <2>2
<1>5. CASE a.kind = "zero" /\ b.kind = "zero"
  <2>1. CmpAbs(a, b) = 0
    BY <1>5 DEF CmpAbs
  <2>2. Compare(u, v) = 0
    BY <1>5, ComparisonTable
  <2> QED
    BY <2>1, <2>2
<1>6. CASE a.kind = "zero" /\ b.kind = "normal"
  <2>1. CmpAbs(a, b) = -1
    BY <1>6 DEF CmpAbs
  <2>2. Compare(u, v) = -1
    BY <1>6, ComparisonTable
  <2> QED
    BY <2>1, <2>2
<1>7. CASE a.kind = "normal" /\ b.kind = "zero"
  <2>1. CmpAbs(a, b) = 1
    BY <1>7 DEF CmpAbs
  <2>2. Compare(u, v) = 1
    BY <1>7, ComparisonTable
  <2> QED
    BY <2>1, <2>2
<1> QED
  BY <1>1, <1>2, <1>3, <1>4, <1>5, <1>6, <1>7

\* Whatever sequence of calls led to the two registers: the comparison is the
\* sign of the difference, before and after rounding; max and min are one
\* operand rounded and the other, in order; and nextabove leads to the next
\* value, from which nextbelow comes back (src/internal/mpfr/cmp_raw.ts,
\* src/ops/sub.ts, max.ts, min.ts, nextabove.ts, nextbelow.ts).
THEOREM OrdersAreOne == Spec => []OrdersAgree
<1>1. TypeOK => OrdersAgree
  <2> SUFFICES ASSUME TypeOK PROVE OrdersAgree
    OBVIOUS
  <2>1. Valid(x) /\ Valid(y) /\ Operand(x) /\ Operand(y) /\ 1 \in Precision
    BY ValidIsOperand, PrecAssumption DEF TypeOK, Precision
  <2>2. UnorderedP(x, y) <=> x.kind = "nan" \/ y.kind = "nan"
    BY DEF UnorderedP
  <2>3. OrderIsSignOfDifference
    <3> SUFFICES ASSUME ~UnorderedP(x, y), ~(x.kind = "inf" /\ y.kind = "inf"), NEW rnd \in RoundingMode
                 PROVE  /\ Compare(x, y) = SgnOf(Sub(x, y, 1, rnd).value)
                        /\ Cmp3(x, y, -1) = SgnOf(Add(x, y, 1, rnd).value)
                        /\ SgnOf(Dim(x, y, 1, rnd).value) = (IF Compare(x, y) = 1 THEN 1 ELSE 0)
                        /\ CmpAbs(x, y) = SgnOf(Sub(Abs(x, x.prec, rnd).value,
                                                    Abs(y, y.prec, rnd).value, 1, rnd).value)
      BY Zenon DEF OrderIsSignOfDifference
    <3>1. /\ Compare(x, y) = SgnOf(Sub(x, y, 1, rnd).value)
          /\ Cmp3(x, y, -1) = SgnOf(Add(x, y, 1, rnd).value)
          /\ SgnOf(Dim(x, y, 1, rnd).value) = (IF Compare(x, y) = 1 THEN 1 ELSE 0)
      BY <2>1, <2>2, DifferenceShowsOrder
    <3> DEFINE u == Abs(x, x.prec, rnd).value
               v == Abs(y, y.prec, rnd).value
    <3>2. /\ Operand(u) /\ u.kind = x.kind /\ u.sign = 1 /\ u.prec = x.prec
          /\ x.kind = "normal" => u.exp = x.exp /\ u.mant = x.mant
          /\ Operand(v) /\ v.kind = y.kind /\ v.sign = 1 /\ v.prec = y.prec
          /\ y.kind = "normal" => v.exp = y.exp /\ v.mant = y.mant
      BY <2>1, <2>2, AbsShape
    <3> HIDE DEF u, v
    <3>3. CmpAbs(x, y) = Compare(u, v)
      BY <2>1, <2>2, <3>2, CmpAbsOrders
    <3>4. SgnOf(Sub(u, v, 1, rnd).value) = Compare(u, v)
      BY <2>1, <2>2, <3>2, DifferenceShowsOrder
    <3> QED
      BY <3>1, <3>3, <3>4 DEF u, v
  <2>4. SelectionsBound
    <3>1. ~UnorderedP(x, y) => \A q \in Precision, rnd \in RoundingMode : SelectionBounds(x, y, q, rnd)
      BY <2>1, <2>2, SelectionIsBounded
    <3> QED
      BY <3>1, Zenon DEF SelectionsBound, SelectionBounds
  <2>5. NextIsAdjacent
    <3> SUFFICES ASSUME x.kind # "nan", InRange(x)
                 PROVE  LET above == NextAbove(x)
                        IN  IF x.kind = "inf" /\ x.sign = 1 THEN above = x
                            ELSE /\ LessP(x, above) /\ InRange(above)
                                 /\ EqualP(NextBelow(above), x)
                                 /\ (y.prec = x.prec /\ InRange(y)) => ~(LessP(x, y) /\ LessP(y, above))
      BY Zenon DEF NextIsAdjacent
    <3>1. CASE x.kind = "inf" /\ x.sign = 1
      <4>1. NextAbove(x) = x
        BY <3>1 DEF NextAbove, NextToInf
      <4> QED
        BY <3>1, <4>1
    <3>2. CASE ~(x.kind = "inf" /\ x.sign = 1)
      BY <2>1, <3>2, NextIsNext
    <3> QED
      BY <3>1, <3>2
  <2> QED
    BY <2>3, <2>4, <2>5 DEF OrdersAgree
<1> QED
  BY <1>1, RegistersAreValid, PTL

-----------------------------------------------------------------------------
(* Rounding to an integer.                                                 *)

\* The unit 2^g of the integers of q bits at least as long as the value, and
\* how many of it a value on them is: the numbers OnIntegers compares.
UnitOf(a, q) == IF a.exp > q THEN a.exp - q ELSE 0
UnitsIn(w, g) ==
    IF w.kind = "zero" THEN 0
    ELSE IF Scale(w) >= g THEN w.mant * Pow2(Scale(w) - g) ELSE w.mant \div Pow2(g - Scale(w))

\* Half a unit of 2^g, in units of 2^t.
HalfUnit(g, t) == Pow2((g - 1) - t)

\* An integer i of k bits, as a mantissa of q bits.
IntegerOfBits(s, q, k, g, i) == Normal(s, q, g + k, i * Pow2(q - k))

\* It is i units.
LEMMA IntegerInUnits ==
    ASSUME NEW q \in Nat \ {0}, NEW k \in 1 .. q, NEW g \in Nat, NEW s \in Sign,
           NEW i \in Nat \ {0}, NEW w, w = IntegerOfBits(s, q, k, g, i)
    PROVE  UnitsIn(w, g) = i /\ CompareDyadic(i, g, w.mant, Scale(w)) = 0
<1> DEFINE n == q - k
           U == Pow2(n)
<1>1. n \in Nat /\ U \in Nat \ {0} /\ g + k \in Int
  BY Pow2Type
<1>2. w.kind = "normal" /\ w.mant = i * U /\ Scale(w) = g - n /\ i * U \in Int
  <2>1. w.kind = "normal" /\ w.mant = i * U /\ w.exp = g + k /\ w.prec = q
    BY NormalShape DEF IntegerOfBits
  <2> QED
    BY <1>1, <2>1 DEF Scale
<1>3. UnitsIn(w, g) = i
  <2>1. CASE n = 0
    <3>1. U = 1
      BY <2>1, Pow2Zero
    <3>2. Scale(w) = g /\ g - g = 0 /\ w.mant = i
      BY <1>2, <2>1, <3>1
    <3> QED
      BY <1>2, <3>2, Pow2Zero DEF UnitsIn
  <2>2. CASE n # 0
    <3>1. ~(Scale(w) >= g) /\ g - Scale(w) = n
      BY <1>1, <1>2, <2>2
    <3>2. UnitsIn(w, g) = (i * U) \div U
      BY <1>2, <3>1, Zenon DEF UnitsIn
    <3> HIDE DEF U
    <3>3. i * U \in Nat /\ 0 \in 0 .. U - 1 /\ i * U = i * U + 0
      BY <1>1, NaturalProducts
    <3>4. (i * U) \div U = i
      BY <1>1, <3>3, DivisionUnique
    <3> QED
      BY <3>2, <3>4
  <2> QED
    BY <2>1, <2>2
<1>4. CompareDyadic(i, g, w.mant, Scale(w)) = 0
  <2>1. g - n = Scale(w) - 0 /\ Scale(w) \in Int
    BY <1>1, <1>2
  <2>2. w.mant \in Int
    BY <1>2
  <2> HIDE DEF n
  <2>3. CompareDyadic(i, g, w.mant, Scale(w)) = Sgn(i * Pow2(n) - w.mant * Pow2(0))
    BY <1>1, <2>1, <2>2, CompareAt
  <2>4. i * Pow2(n) - w.mant * Pow2(0) = 0
    <3>1. w.mant * 1 = w.mant
      BY <2>2
    <3> QED
      BY <1>2, <3>1, Pow2Zero
  <2> QED
    BY <2>3, <2>4 DEF Sgn
<1> QED
  BY <1>3, <1>4

\* The power of two after the integers of k bits.
PowerAfterBits(s, q, k, g) == Normal(s, q, (g + k) + 1, Pow2(q - 1))

\* It is the next number of units.
LEMMA PowerInUnits ==
    ASSUME NEW q \in Nat \ {0}, NEW k \in 1 .. q, NEW g \in Nat, NEW s \in Sign,
           NEW w, w = PowerAfterBits(s, q, k, g)
    PROVE  UnitsIn(w, g) = Pow2(k) /\ CompareDyadic(Pow2(k), g, w.mant, Scale(w)) = 0
<1>1. Pow2(k) \in Nat \ {0} /\ k \in Nat \ {0} /\ (g + k) + 1 = g + (k + 1)
  BY Pow2Type
<1>2. CASE k < q
  <2>1. k + 1 \in 1 .. q /\ q - (k + 1) \in Nat /\ k + (q - (k + 1)) = q - 1
    BY <1>2
  <2>2. Pow2(q - 1) = Pow2(k) * Pow2(q - (k + 1))
    <3>1. Pow2(k + (q - (k + 1))) = Pow2(k) * Pow2(q - (k + 1))
      BY <1>1, <2>1, Pow2Sum
    <3> QED
      BY <2>1, <3>1
  <2> DEFINE l == k + 1
             i == Pow2(k)
  <2>3. l \in 1 .. q /\ i \in Nat \ {0} /\ w = IntegerOfBits(s, q, l, g, i)
    BY <1>1, <2>1, <2>2 DEF IntegerOfBits, PowerAfterBits
  <2> HIDE DEF l, i
  <2>4. UnitsIn(w, g) = i /\ CompareDyadic(i, g, w.mant, Scale(w)) = 0
    BY <2>3, IntegerInUnits
  <2> QED
    BY <2>4 DEF i
<1>3. CASE k = q
  <2> DEFINE m == Pow2(q - 1)
  <2>1. m \in Nat \ {0} /\ Pow2(k) = 2 * m
    BY <1>3, LengthBounds
  <2>2. w.kind = "normal" /\ w.mant = m /\ Scale(w) = g + 1
    <3>1. w.kind = "normal" /\ w.mant = m /\ w.exp = (g + k) + 1 /\ w.prec = q
      BY NormalShape DEF PowerAfterBits
    <3> QED
      BY <1>3, <3>1 DEF Scale
  <2>3. Pow2(1) = 2 /\ Pow2(0) = 1
    <3>1. Pow2(0 + 1) = 2 * Pow2(0) /\ 0 + 1 = 1
      BY Pow2Step
    <3> QED
      BY <3>1, Pow2Zero
  <2> HIDE DEF m
  <2>4. UnitsIn(w, g) = m * Pow2(1)
    <3>1. Scale(w) >= g /\ Scale(w) - g = 1
      BY <2>2
    <3> QED
      BY <2>2, <3>1 DEF UnitsIn
  <2>5. CompareDyadic(Pow2(k), g, w.mant, Scale(w)) = Sgn(Pow2(k) * Pow2(0) - w.mant * Pow2(1))
    <3>1. g - 0 = Scale(w) - 1 /\ Scale(w) \in Int /\ w.mant \in Int /\ Pow2(k) \in Int
      BY <1>1, <2>1, <2>2
    <3> QED
      BY <3>1, CompareAt
  <2>6. Pow2(k) * Pow2(0) - w.mant * Pow2(1) = 0
    BY <2>1, <2>2, <2>3
  <2> QED
    BY <2>1, <2>3, <2>4, <2>5, <2>6 DEF Sgn
<1> QED
  BY <1>1, <1>2, <1>3

\* The comparisons of OnIntegers, in halves of the unit.
LEMMA ComparedInHalves ==
    ASSUME NEW a, Operand(a), a.kind = "normal", NEW g \in Nat,
           NEW t \in Int, t <= Scale(a), t <= g - 1
    PROVE  /\ HalfUnit(g, t) \in Nat \ {0} /\ Pow2(g - t) = 2 * HalfUnit(g, t)
           /\ MantAt(a, t) \in Nat \ {0}
           /\ \A n \in Int :
                 /\ CompareDyadic(n, g, a.mant, Scale(a)) = Sgn(n * (2 * HalfUnit(g, t)) - MantAt(a, t))
                 /\ CompareDyadic(n, g - 1, a.mant, Scale(a)) = Sgn(n * HalfUnit(g, t) - MantAt(a, t))
<1> DEFINE l == Scale(a)
           j == l - t
           h == (g - 1) - t
           i == g - t
<1>1. a.mant \in Int /\ l \in Int /\ j \in Nat /\ h \in Nat /\ i \in Nat /\ i = h + 1
  BY NormalParts
<1>2. g - i = l - j /\ (g - 1) - h = l - j /\ g - 1 \in Int
  BY <1>1
<1>3. HalfUnit(g, t) = Pow2(h) /\ MantAt(a, t) = a.mant * Pow2(j)
  BY DEF HalfUnit, MantAt
<1>4. MantAt(a, t) \in Nat \ {0}
  BY BinadeBounds
<1> HIDE DEF l, j, h, i
<1>5. Pow2(h) \in Nat \ {0} /\ Pow2(i) = 2 * Pow2(h)
  BY <1>1, Pow2Type, Pow2Step
<1>6. \A n \in Int : /\ CompareDyadic(n, g, a.mant, l) = Sgn(n * Pow2(i) - a.mant * Pow2(j))
                     /\ CompareDyadic(n, g - 1, a.mant, l) = Sgn(n * Pow2(h) - a.mant * Pow2(j))
  BY <1>1, <1>2, CompareAt
<1> QED
  BY <1>3, <1>4, <1>5, <1>6 DEF l, i

\* The dropped bits d out of W and the same part of a unit of two halves H.
LEMMA RestInHalves ==
    ASSUME NEW C \in Nat \ {0}, NEW W \in Nat \ {0}, NEW d \in 0 .. W - 1,
           NEW H \in Nat \ {0}, 2 * H = W * C
    PROVE  /\ d * C \in 0 .. 2 * H - 1
           /\ d = 0 <=> d * C = 0
           /\ 2 * d > W <=> d * C > H
           /\ 2 * d >= W <=> d * C >= H
           /\ 2 * d = W <=> d * C = H
<1> DEFINE r == d * C
<1>1. d \in Nat /\ r \in Nat
  BY NaturalProducts
<1>2. (W - d) * C = 2 * H - r /\ (2 * d - W) * C = 2 * r - 2 * H
  BY <1>1
<1>3. (W - d) * C > 0
  <2>1. W - d \in Int /\ W - d > 0
    BY <1>1
  <2> QED
    BY <2>1, ProductSign
<1>4. d > 0 => r > 0
  BY <1>1, ProductSign
<1>5. d = 0 => r = 0
  OBVIOUS
<1>6. /\ 2 * d - W > 0 => (2 * d - W) * C > 0
      /\ 2 * d - W < 0 => (2 * d - W) * C < 0
      /\ 2 * d - W = 0 => (2 * d - W) * C = 0
  <2>1. 2 * d - W \in Int
    BY <1>1
  <2> QED
    BY <2>1, ProductSign
<1> HIDE DEF r
<1>7. r < 2 * H
  BY <1>1, <1>2, <1>3
<1>8. 2 * d > W <=> r > H
  BY <1>1, <1>2, <1>6
<1>9. 2 * d >= W <=> r >= H
  BY <1>1, <1>2, <1>6
<1>10. 2 * d = W <=> r = H
  BY <1>1, <1>2, <1>6
<1>11. r \in 0 .. 2 * H - 1 /\ (d = 0 <=> r = 0)
  BY <1>1, <1>4, <1>5, <1>7
<1> QED
  BY <1>8, <1>9, <1>10, <1>11 DEF r

\* A value lies N units of 2^g and a rest below one beyond zero, and the
\* dropped bits are to W what the rest is to the unit.
RestOf(a, g, t, N) == MantAt(a, t) - N * (2 * HalfUnit(g, t))
Placed(a, g, t, N, part) ==
    /\ RestOf(a, g, t, N) \in 0 .. 2 * HalfUnit(g, t) - 1
    /\ part.dropped = 0 <=> RestOf(a, g, t, N) = 0
    /\ 2 * part.dropped > part.W <=> RestOf(a, g, t, N) > HalfUnit(g, t)
    /\ 2 * part.dropped >= part.W <=> RestOf(a, g, t, N) >= HalfUnit(g, t)
    /\ 2 * part.dropped = part.W <=> RestOf(a, g, t, N) = HalfUnit(g, t)

\* Of a value of at least 1, N is the kept bits.
LEMMA PartIsPlaced ==
    ASSUME NEW a, Operand(a), a.kind = "normal", a.exp > 0, NEW q \in Nat \ {0},
           NEW part, part = IntegralPart(a, q), NEW k, k = KeptBits(a, q),
           NEW g, g = UnitOf(a, q), NEW t \in Int, t <= Scale(a), t <= g - 1
    PROVE  \E N \in Pow2(k - 1) .. Pow2(k) - 1 :
              part.mant = N * Pow2(q - k) /\ Placed(a, g, t, N, part)
<1> DEFINE p == a.prec
           m == a.mant
           j == Scale(a) - t
           h == HalfUnit(g, t)
           Z == MantAt(a, t)
<1>1. /\ p \in Nat \ {0} /\ m \in Nat \ {0} /\ m \in Pow2(p - 1) .. Pow2(p) - 1
      /\ a.exp \in Int /\ Scale(a) = a.exp - p /\ j \in Nat
  BY NormalParts
<1>2. k \in 1 .. q /\ k \in Nat \ {0} /\ g \in Nat /\ a.exp = g + k /\ q - k \in Nat
  BY <1>1 DEF KeptBits, UnitOf
<1>3. h \in Nat \ {0} /\ Pow2(g - t) = 2 * h /\ Z \in Nat \ {0} /\ Z = m * Pow2(j)
  <2>1. HalfUnit(g, t) \in Nat \ {0} /\ Pow2(g - t) = 2 * HalfUnit(g, t) /\ MantAt(a, t) \in Nat \ {0}
    BY <1>2, ComparedInHalves
  <2> QED
    BY <2>1 DEF MantAt
<1>4. CASE p > k
  <2> DEFINE W == Pow2(p - k)
             N == m \div W
             d == m % W
             C == Pow2(j)
  <2>1. /\ part.mant = N * Pow2(q - k) /\ N \in Pow2(k - 1) .. Pow2(k) - 1
        /\ part.W = W /\ part.dropped = d
    BY <1>4, IntegralParts
  <2>2. W \in Nat \ {0} /\ C \in Nat \ {0} /\ p - k \in Nat
    BY <1>1, <1>2, <1>4, Pow2Type
  <2>3. 2 * h = W * C
    <3>1. (p - k) + j = g - t
      BY <1>1, <1>2
    <3>2. Pow2((p - k) + j) = W * C
      BY <1>1, <2>2, Pow2Sum
    <3> QED
      BY <1>3, <3>1, <3>2
  <2>4. N \in Nat /\ d \in 0 .. W - 1 /\ m = N * W + d
    <3> HIDE DEF W
    <3> QED
      BY <1>1, <2>2, Division
  <2>5. Z = m * C
    BY <1>3
  <2> HIDE DEF W, N, d, C, h, Z, m
  <2>6. Z - N * (2 * h) = d * C
    <3>1. Z = (N * W + d) * C /\ N * (2 * h) = N * (W * C)
      BY <2>3, <2>4, <2>5
    <3> QED
      BY <2>2, <2>4, <3>1
  <2>7. /\ d * C \in 0 .. 2 * h - 1
        /\ d = 0 <=> d * C = 0
        /\ 2 * d > W <=> d * C > h
        /\ 2 * d >= W <=> d * C >= h
        /\ 2 * d = W <=> d * C = h
    BY <1>3, <2>2, <2>3, <2>4, RestInHalves
  <2>8. RestOf(a, g, t, N) = d * C
    BY <2>6 DEF RestOf, Z, h
  <2>9. Placed(a, g, t, N, part)
    BY <2>1, <2>7, <2>8 DEF Placed, h
  <2> QED
    BY <2>1, <2>9
<1>5. CASE ~(p > k)
  <2> DEFINE n == k - p
             N == m * Pow2(n)
  <2>1. part.dropped = 0 /\ part.W = 1 /\ part.mant = m * Pow2(q - p)
    BY <1>5, IntegralParts
  <2>2. n \in Nat /\ p + n = k /\ q - p \in Nat /\ n + (q - k) = q - p /\ n + (g - t) = j /\ g - t \in Nat
    BY <1>1, <1>2, <1>5
  <2>3. Pow2(n) \in Nat \ {0} /\ Pow2(q - k) \in Nat \ {0}
    BY <1>2, <2>2, Pow2Type
  <2>4. Pow2(q - p) = Pow2(n) * Pow2(q - k)
    <3>1. Pow2(n + (q - k)) = Pow2(n) * Pow2(q - k)
      BY <1>2, <2>2, Pow2Sum
    <3> QED
      BY <2>2, <3>1
  <2>5. Pow2(j) = Pow2(n) * (2 * h)
    <3>1. Pow2(n + (g - t)) = Pow2(n) * Pow2(g - t)
      BY <2>2, Pow2Sum
    <3> QED
      BY <1>3, <2>2, <3>1
  <2>6. N \in Pow2(k - 1) .. Pow2(k) - 1 /\ N \in Nat
    <3> HIDE DEF m, p, n
    <3>1. m * Pow2(n) \in Pow2((p + n) - 1) .. Pow2(p + n) - 1 /\ m * Pow2(n) \in Nat \ {0}
      BY <1>1, <2>2, ShiftedLength
    <3> QED
      BY <2>2, <3>1
  <2> DEFINE B == Pow2(n)
             U == Pow2(q - k)
  <2>7. N = m * B /\ B \in Nat /\ U \in Nat /\ Pow2(q - p) = B * U /\ Pow2(j) = B * (2 * h)
    BY <2>3, <2>4, <2>5
  <2> HIDE DEF n, N, B, U, h, Z, m
  <2>8. part.mant = N * U
    BY <1>1, <2>1, <2>7
  <2>9. Z - N * (2 * h) = 0
    BY <1>1, <1>3, <2>7
  <2>10. RestOf(a, g, t, N) = 0
    BY <2>9 DEF RestOf, Z, h
  <2>11. Placed(a, g, t, N, part)
    <3> DEFINE r == RestOf(a, g, t, N)
    <3>1. r = 0 /\ h \in Nat \ {0} /\ 0 \in 0 .. 2 * h - 1
      BY <1>3, <2>10
    <3>2. r = 0 /\ ~(0 > h) /\ ~(0 >= h) /\ 0 # h /\ ~(2 * 0 > 1) /\ ~(2 * 0 >= 1) /\ 2 * 0 # 1
      BY <3>1
    <3> HIDE DEF r
    <3>3. /\ r \in 0 .. 2 * h - 1
          /\ part.dropped = 0 <=> r = 0
          /\ 2 * part.dropped > part.W <=> r > h
          /\ 2 * part.dropped >= part.W <=> r >= h
          /\ 2 * part.dropped = part.W <=> r = h
      BY <2>1, <3>1, <3>2
    <3> QED
      BY <3>3 DEF Placed, r, h
  <2> QED
    BY <2>6, <2>8, <2>11 DEF U
<1> QED
  BY <1>1, <1>2, <1>4, <1>5

\* A value below 1 is the rest of no unit; from 1/2 on it has exponent 0.
LEMMA BelowOneIsPlaced ==
    ASSUME NEW a, Operand(a), a.kind = "normal", a.exp <= 0,
           NEW t \in Int, t <= Scale(a), t <= -1
    PROVE  /\ RestOf(a, 0, t, 0) \in 1 .. 2 * HalfUnit(0, t) - 1
           /\ a.exp = 0 <=> RestOf(a, 0, t, 0) >= HalfUnit(0, t)
           /\ a.exp = 0 /\ a.mant # Pow2(a.prec - 1) <=> RestOf(a, 0, t, 0) > HalfUnit(0, t)
<1> DEFINE p == a.prec
           m == a.mant
           e == a.exp
           j == Scale(a) - t
           h == HalfUnit(0, t)
           Z == MantAt(a, t)
<1>1. /\ p \in Nat \ {0} /\ m \in Nat \ {0} /\ e \in Int /\ Scale(a) = e - p /\ j \in Nat
      /\ m >= Pow2(p - 1) /\ Pow2(p - 1) \in Nat \ {0}
  BY NormalParts, LengthBounds
<1>2. h \in Nat \ {0} /\ Pow2(0 - t) = 2 * h /\ Z \in Nat \ {0}
  BY ComparedInHalves
<1>3. e - t \in Nat \ {0} /\ Pow2((e - t) - 1) <= Z /\ Z < Pow2(e - t)
  BY BinadeBounds
<1>4. RestOf(a, 0, t, 0) = Z
  BY <1>2 DEF RestOf
<1>5. CASE e < 0
  <2>1. e - t \in Nat /\ (0 - 1) - t \in Nat /\ e - t <= (0 - 1) - t
    BY <1>1, <1>3, <1>5
  <2>2. Pow2(e - t) <= Pow2((0 - 1) - t) /\ Pow2(e - t) \in Nat
    BY <2>1, Pow2Split
  <2>3. Z < h
    BY <1>2, <1>3, <2>2 DEF HalfUnit
  <2> HIDE DEF Z, h
  <2> QED
    BY <1>2, <1>4, <1>5, <2>3 DEF Z, h
<1>6. CASE e = 0
  <2>1. h <= Z /\ Z < 2 * h
    <3>1. (e - t) - 1 = (0 - 1) - t /\ e - t = 0 - t
      BY <1>6
    <3> QED
      BY <1>2, <1>3, <3>1 DEF HalfUnit
  <2>2. Z = m * Pow2(j) /\ h = Pow2(p - 1) * Pow2(j) /\ Pow2(j) \in Nat \ {0}
    <3>1. (p - 1) + j = (0 - 1) - t /\ p - 1 \in Nat
      BY <1>1, <1>6
    <3>2. Pow2((p - 1) + j) = Pow2(p - 1) * Pow2(j)
      BY <1>1, <3>1, Pow2Sum
    <3> QED
      BY <1>1, <3>1, <3>2, Pow2Type DEF HalfUnit, MantAt
  <2>3. m # Pow2(p - 1) <=> Z > h
    <3> DEFINE d == m - Pow2(p - 1)
               C == Pow2(j)
               b == Pow2(p - 1)
    <3>1. d \in Int /\ d >= 0 /\ C \in Nat \ {0} /\ b \in Nat /\ d = m - b /\ Z = m * C /\ h = b * C
      BY <1>1, <2>2
    <3> HIDE DEF C, b, Z, h, m, d
    <3>2. d * C = Z - h
      BY <1>1, <3>1
    <3>3. (d > 0 => d * C > 0) /\ (d = 0 => d * C = 0)
      BY <3>1, ProductSign
    <3>4. m # b <=> Z > h
      BY <1>1, <1>2, <3>1, <3>2, <3>3
    <3> QED
      BY <3>4 DEF b
  <2> HIDE DEF Z, h
  <2> QED
    BY <1>2, <1>4, <1>6, <2>1, <2>3 DEF Z, h
<1> QED
  BY <1>1, <1>5, <1>6

\* A result is N units, with the sign of the value, at precision q.
Lands(res, a, q, N) ==
    /\ Valid(res.value) /\ res.value.kind \in {"zero", "normal"}
    /\ res.value.prec = q /\ res.value.sign = a.sign
    /\ UnitsIn(res.value, UnitOf(a, q)) = N
    /\ res.value.kind = "normal" => CompareDyadic(N, UnitOf(a, q), res.value.mant, Scale(res.value)) = 0

\* The kept bits, or one unit more, from 1 on.
LEMMA ToIntegralLands ==
    ASSUME NEW a, Operand(a), a.kind = "normal", a.exp > 0, NEW q \in Precision, NEW away \in BOOLEAN,
           NEW part, part = IntegralPart(a, q), NEW k, k = KeptBits(a, q),
           NEW N \in Pow2(k - 1) .. Pow2(k) - 1, part.mant = N * Pow2(q - k)
    PROVE  LET res == ToIntegral(a, q, away)
           IN  /\ part.dropped = 0 => Lands(res, a, q, N) /\ res.ternary = 0
               /\ part.dropped # 0 /\ ~away => Lands(res, a, q, N) /\ res.ternary = -a.sign
               /\ part.dropped # 0 /\ away => Lands(res, a, q, N + 1) /\ res.ternary = a.sign
<1> DEFINE res == ToIntegral(a, q, away)
           g == UnitOf(a, q)
           U == Pow2(q - k)
           s == a.sign
           low == Normal(s, q, a.exp, part.mant)
<1>1. a.exp \in Int /\ s \in Sign /\ q \in Nat \ {0}
  BY NormalParts, PrecAssumption DEF Precision
<1>2. k \in 1 .. q /\ part.ulp = U /\ U \in Nat \ {0}
  BY <1>1, IntegralParts
<1>3. g \in Nat /\ a.exp = g + k /\ k \in Nat \ {0}
  <2>1. k = IF a.exp >= q THEN q ELSE a.exp
    BY DEF KeptBits
  <2> QED
    BY <1>1, <2>1 DEF UnitOf
<1>4. N \in Nat \ {0} /\ Pow2(k) \in Nat \ {0}
  BY <1>3, LengthBounds
<1>0. s \in Sign /\ q \in Nat \ {0} /\ k \in 1 .. q /\ g \in Nat
  BY <1>1, <1>2, <1>3
<1>5. Valid(res.value)
  BY ToIntegralIsValid
<1>6. res = IF part.dropped = 0 THEN Exactly(low)
            ELSE IF away THEN Result(OneUnitAway(a, q, part), s)
            ELSE Result(low, -s)
  BY <1>1 DEF ToIntegral
<1> HIDE DEF res, g
<1>7. \A i \in Nat \ {0} : \A w :
         w = IntegerOfBits(s, q, k, g, i) =>
             /\ UnitsIn(w, g) = i /\ CompareDyadic(i, g, w.mant, Scale(w)) = 0
             /\ w.kind = "normal" /\ w.prec = q /\ w.sign = s
  <2> SUFFICES ASSUME NEW i \in Nat \ {0}, NEW w, w = IntegerOfBits(s, q, k, g, i)
               PROVE  /\ UnitsIn(w, g) = i /\ CompareDyadic(i, g, w.mant, Scale(w)) = 0
                      /\ w.kind = "normal" /\ w.prec = q /\ w.sign = s
    OBVIOUS
  <2> HIDE DEF s, U
  <2>1. UnitsIn(w, g) = i /\ CompareDyadic(i, g, w.mant, Scale(w)) = 0
    BY <1>0, IntegerInUnits
  <2>2. w.kind = "normal" /\ w.prec = q /\ w.sign = s
    BY NormalShape DEF IntegerOfBits
  <2> QED
    BY <2>1, <2>2
<1>8. low = IntegerOfBits(s, q, k, g, N)
  BY <1>3 DEF IntegerOfBits
<1>9. ASSUME res.value = low PROVE Lands(res, a, q, N)
  BY <1>4, <1>5, <1>7, <1>8, <1>9 DEF Lands, g
<1>10. ASSUME part.dropped # 0, away PROVE Lands(res, a, q, N + 1) /\ res.ternary = s
  <2> DEFINE w == OneUnitAway(a, q, part)
  <2>1. res.value = w /\ res.ternary = s
    BY <1>6, <1>10, ExactlyOf
  <2>2. part.mant + part.ulp = (N + 1) * U /\ N * U \in Nat /\ Pow2(q) = Pow2(k) * U
    <3>1. q - k \in Nat /\ k + (q - k) = q /\ k \in Nat
      BY <1>1, <1>2
    <3>2. Pow2(k + (q - k)) = Pow2(k) * U
      BY <3>1, Pow2Sum
    <3> HIDE DEF U
    <3> QED
      BY <1>2, <1>4, <3>1, <3>2 DEF U
  <2>3. w = IF part.mant + part.ulp = Pow2(q) THEN Normal(s, q, a.exp + 1, Pow2(q - 1))
                                              ELSE Normal(s, q, a.exp, part.mant + part.ulp)
    BY DEF OneUnitAway
  <2> HIDE DEF w
  <2>4. CASE N + 1 = Pow2(k)
    <3>1. w = PowerAfterBits(s, q, k, g)
      <4>1. part.mant + part.ulp = Pow2(q)
        BY <2>2, <2>4
      <4> QED
        BY <1>3, <2>3, <4>1 DEF PowerAfterBits
    <3> HIDE DEF s, U
    <3>2. UnitsIn(w, g) = Pow2(k) /\ CompareDyadic(Pow2(k), g, w.mant, Scale(w)) = 0
      BY <1>0, <3>1, PowerInUnits
    <3>3. w.kind = "normal" /\ w.prec = q /\ w.sign = s
      BY <3>1, NormalShape DEF PowerAfterBits
    <3> QED
      BY <1>5, <2>1, <2>4, <3>2, <3>3 DEF Lands, g, s
  <2>5. CASE N + 1 # Pow2(k)
    <3>1. (N + 1) * U # Pow2(k) * U
      <4>1. N + 1 < Pow2(k) /\ N + 1 \in Nat
        BY <1>4, <2>5
      <4>2. ((N + 1) + 1) * U <= Pow2(k) * U
        BY <1>2, <1>4, <4>1, ProductMonotone
      <4> HIDE DEF U
      <4>3. ((N + 1) + 1) * U = (N + 1) * U + U /\ (N + 1) * U \in Int
        BY <1>2, <4>1
      <4> QED
        BY <1>2, <4>2, <4>3
    <3>2. w = Normal(s, q, g + k, (N + 1) * U)
      BY <1>3, <2>2, <2>3, <3>1
    <3> DEFINE i == N + 1
    <3>3. i \in Nat \ {0}
      BY <1>4
    <3> HIDE DEF i
    <3>4. w = IntegerOfBits(s, q, k, g, i)
      BY <3>2 DEF IntegerOfBits, i
    <3>5. /\ UnitsIn(w, g) = i /\ CompareDyadic(i, g, w.mant, Scale(w)) = 0
          /\ w.kind = "normal" /\ w.prec = q /\ w.sign = s
      BY <1>7, <3>3, <3>4
    <3>6. Lands(res, a, q, i)
      BY <1>5, <2>1, <3>5 DEF Lands, g
    <3> QED
      BY <2>1, <3>6 DEF i
  <2> QED
    BY <2>4, <2>5
<1>11. ASSUME part.dropped = 0 PROVE Lands(res, a, q, N) /\ res.ternary = 0
  BY <1>6, <1>9, <1>11, ExactlyOf
<1>12. ASSUME part.dropped # 0, ~away PROVE Lands(res, a, q, N) /\ res.ternary = -s
  BY <1>6, <1>9, <1>12, ExactlyOf
<1> QED
  BY <1>10, <1>11, <1>12 DEF res

\* Below 1 the result is 0 or 1.
LEMMA BelowOneLands ==
    ASSUME NEW a, Operand(a), a.kind = "normal", a.exp <= 0, NEW q \in Precision, NEW away \in BOOLEAN
    PROVE  LET res == ToIntegral(a, q, away)
           IN  /\ UnitOf(a, q) = 0
               /\ ~away => Lands(res, a, q, 0) /\ res.ternary = -a.sign
               /\ away => Lands(res, a, q, 1) /\ res.ternary = a.sign
<1> DEFINE res == ToIntegral(a, q, away)
           s == a.sign
           one == Normal(s, q, 1, Pow2(q - 1))
<1>1. a.exp \in Int /\ s \in Sign /\ q \in Nat \ {0} /\ Pow2(q - 1) \in Int
  BY NormalParts, PrecAssumption, LengthBounds DEF Precision
<1>2. UnitOf(a, q) = 0
  BY <1>1 DEF UnitOf
<1>3. Valid(res.value)
  BY ToIntegralIsValid
<1>4. res = IF away THEN Result(one, s) ELSE Result(Zero(s, q), -s)
  BY <1>1 DEF ToIntegral
<1> HIDE DEF res
<1>5. UnitsIn(one, 0) = 1 /\ CompareDyadic(1, 0, one.mant, Scale(one)) = 0
  <2>1. one = IntegerOfBits(s, q, 1, 0, 1)
    <3>1. 0 + 1 = 1 /\ 1 * Pow2(q - 1) = Pow2(q - 1)
      BY <1>1
    <3> QED
      BY <3>1 DEF IntegerOfBits
  <2>2. 1 \in 1 .. q /\ 0 \in Nat /\ 1 \in Nat \ {0}
    BY <1>1
  <2> HIDE DEF one
  <2> QED
    BY <1>1, <2>1, <2>2, IntegerInUnits
<1>6. one.kind = "normal" /\ one.prec = q /\ one.sign = s
  BY NormalShape
<1>7. ASSUME away PROVE Lands(res, a, q, 1) /\ res.ternary = s
  <2>1. res.value = one /\ res.ternary = s
    BY <1>4, <1>7, ExactlyOf
  <2> HIDE DEF one
  <2> QED
    BY <1>2, <1>3, <1>5, <1>6, <2>1 DEF Lands
<1>8. ASSUME ~away PROVE Lands(res, a, q, 0) /\ res.ternary = -s
  <2>1. res.value = Zero(s, q) /\ res.ternary = -s
    BY <1>4, <1>8, ExactlyOf
  <2>2. res.value.kind = "zero" /\ res.value.prec = q /\ res.value.sign = s
    BY <2>1 DEF Zero
  <2> QED
    BY <1>2, <1>3, <2>1, <2>2 DEF Lands, UnitsIn
<1> QED
  BY <1>2, <1>7, <1>8 DEF res

\* How Z lies to N units of two halves H, to N + 1 and to the midpoints, when r
\* of the next unit is left.
Around(N, H, Z, r) ==
    /\ Sgn(N * (2 * H) - Z) = IF r = 0 THEN 0 ELSE -1
    /\ Sgn((N + 1) * (2 * H) - Z) = 1
    /\ r = 0 => Sgn((N - 1) * (2 * H) - Z) = -1
    /\ Sgn((2 * N + 1) * H - Z) = Sgn(H - r)
    /\ Sgn((2 * N - 1) * H - Z) = -1
    /\ Sgn((2 * (N + 1) + 1) * H - Z) = 1
    /\ Sgn((2 * (N + 1) - 1) * H - Z) = Sgn(H - r)

\* So it does.
LEMMA RestCompares ==
    ASSUME NEW N \in Nat, NEW H \in Nat \ {0}, NEW Z \in Nat, NEW r, r = Z - N * (2 * H),
           r \in 0 .. 2 * H - 1
    PROVE  Around(N, H, Z, r)
<1> DEFINE B == N * H
<1>1. /\ B \in Nat /\ N * (2 * H) = 2 * B /\ (N + 1) * (2 * H) = 2 * B + 2 * H
      /\ (N - 1) * (2 * H) = 2 * B - 2 * H
      /\ (2 * N + 1) * H = 2 * B + H /\ (2 * N - 1) * H = 2 * B - H
      /\ (2 * (N + 1) + 1) * H = 2 * B + 3 * H /\ (2 * (N + 1) - 1) * H = 2 * B + H
  BY NaturalProducts
<1> HIDE DEF B
<1>2. Z = 2 * B + r /\ r \in Int
  BY <1>1
<1>3. 2 * B + H - Z = H - r
  BY <1>1, <1>2
<1> QED
  BY <1>1, <1>2, <1>3 DEF Sgn, Around

\* The number a mode lands on: N, or N + 1 when it goes away.
Directed(direction, N, H, r, away) ==
    \/ r = 0
    \/ direction = "inward" /\ ~away
    \/ direction = "outward" /\ away
    \/ direction = "even" /\ (away <=> r > H \/ (r = H /\ N % 2 = 1))
    \/ direction = "away" /\ (away <=> r >= H)

\* The condition OnIntegers puts on the comparisons of i, of its neighbours and
\* of the midpoints with the value.
Chosen(direction, at, above, below, midAbove, midBelow, i) ==
    CASE direction = "inward" -> at <= 0 /\ above > 0
      [] direction = "outward" -> at >= 0 /\ below < 0
      [] direction = "even" -> /\ midAbove >= 0 /\ midBelow <= 0
                               /\ 0 \in {midAbove, midBelow} => i % 2 = 0
      [] direction = "away" -> midAbove > 0 /\ midBelow <= 0

\* How N compares, and how N + 1 does when a rest is left.
LowerCompares(H, r, at, above, below, midAbove, midBelow) ==
    /\ at = IF r = 0 THEN 0 ELSE -1
    /\ above = 1
    /\ r = 0 => below = -1
    /\ midAbove = Sgn(H - r) /\ midBelow = -1
UpperCompares(H, r, at, above, below, midAbove, midBelow) ==
    at = 1 /\ below = -1 /\ midAbove = 1 /\ midBelow = Sgn(H - r)

\* N meets it when the direction keeps the value there.
LEMMA LowerIsChosen ==
    ASSUME NEW N \in Nat, NEW H \in Nat \ {0}, NEW r \in 0 .. 2 * H - 1,
           NEW direction \in {"inward", "outward", "even", "away"}, NEW away \in BOOLEAN,
           Directed(direction, N, H, r, away), r = 0 \/ ~away,
           NEW at, NEW above, NEW below, NEW midAbove, NEW midBelow,
           LowerCompares(H, r, at, above, below, midAbove, midBelow)
    PROVE  Chosen(direction, at, above, below, midAbove, midBelow, N)
<1>0. (at = IF r = 0 THEN 0 ELSE -1) /\ above = 1 /\ (r = 0 => below = -1) /\ midAbove = Sgn(H - r) /\ midBelow = -1
  BY DEF LowerCompares
<1>1. r \in Int /\ H \in Int /\ at \in Int /\ at <= 0
  BY <1>0
<1>2. /\ midAbove > 0 <=> H > r
      /\ midAbove = 0 <=> H = r
      /\ midAbove >= 0 <=> H >= r
      /\ r = 0 => midAbove > 0
  BY <1>0 DEF Sgn
<1>3. CASE direction = "inward"
  BY <1>1, <1>3, <1>0 DEF Chosen
<1>4. CASE direction = "outward"
  <2>1. r = 0
    BY <1>4 DEF Directed
  <2> QED
    BY <1>4, <2>1, <1>0 DEF Chosen
<1>5. CASE direction = "even"
  <2>1. r = 0 \/ ~(r > H \/ (r = H /\ N % 2 = 1))
    BY <1>5 DEF Directed
  <2>2. midAbove >= 0
    BY <1>1, <1>2, <2>1
  <2>3. midAbove = 0 => N % 2 = 0
    BY <1>1, <1>2, <2>1
  <2> QED
    BY <1>5, <2>2, <2>3, <1>0 DEF Chosen
<1>6. CASE direction = "away"
  <2>1. r = 0 \/ ~(r >= H)
    BY <1>6 DEF Directed
  <2>2. midAbove > 0
    BY <1>1, <1>2, <2>1
  <2> QED
    BY <1>6, <2>2, <1>0 DEF Chosen
<1> QED
  BY <1>3, <1>4, <1>5, <1>6

\* N + 1 meets it when the direction goes away.
LEMMA UpperIsChosen ==
    ASSUME NEW N \in Nat, NEW H \in Nat \ {0}, NEW r \in 0 .. 2 * H - 1,
           NEW direction \in {"inward", "outward", "even", "away"}, NEW away \in BOOLEAN,
           Directed(direction, N, H, r, away), r # 0, away,
           NEW at, NEW above, NEW below, NEW midAbove, NEW midBelow,
           UpperCompares(H, r, at, above, below, midAbove, midBelow)
    PROVE  Chosen(direction, at, above, below, midAbove, midBelow, N + 1)
<1>0. at = 1 /\ below = -1 /\ midAbove = 1 /\ midBelow = Sgn(H - r)
  BY DEF UpperCompares
<1>1. r \in Int /\ H \in Int
  OBVIOUS
<1>2. /\ midBelow = 0 <=> H = r
      /\ midBelow <= 0 <=> H <= r
  BY <1>0 DEF Sgn
<1>3. direction # "inward"
  BY DEF Directed
<1>4. CASE direction = "outward"
  BY <1>4, <1>0 DEF Chosen
<1>5. CASE direction = "even"
  <2>1. r > H \/ (r = H /\ N % 2 = 1)
    BY <1>5 DEF Directed
  <2>2. midBelow <= 0
    BY <1>1, <1>2, <2>1
  <2>3. midBelow = 0 => (N + 1) % 2 = 0
    BY <1>1, <1>2, <2>1
  <2> QED
    BY <1>5, <2>2, <2>3, <1>0 DEF Chosen
<1>6. CASE direction = "away"
  <2>1. r >= H
    BY <1>6 DEF Directed
  <2>2. midBelow <= 0
    BY <1>1, <1>2, <2>1
  <2> QED
    BY <1>6, <2>2, <1>0 DEF Chosen
<1> QED
  BY <1>3, <1>4, <1>5, <1>6

\* The comparisons of OnIntegers with i units.
ChosenAt(direction, a, g, i) ==
    Chosen(direction, CompareDyadic(i, g, a.mant, Scale(a)),
           CompareDyadic(i + 1, g, a.mant, Scale(a)), CompareDyadic(i - 1, g, a.mant, Scale(a)),
           CompareDyadic(2 * i + 1, g - 1, a.mant, Scale(a)),
           CompareDyadic(2 * i - 1, g - 1, a.mant, Scale(a)), i)

\* The rounding that OnIntegers asks for, of a result that lands on i.
LEMMA LandsOnIntegers ==
    ASSUME NEW a, NEW q, NEW res, NEW i, Lands(res, a, q, i),
           NEW direction \in {"inward", "outward", "even", "away"},
           res.ternary = a.sign * CompareDyadic(i, UnitOf(a, q), a.mant, Scale(a)),
           ChosenAt(direction, a, UnitOf(a, q), i)
    PROVE  OnIntegers(res, a, q, direction)
<1> DEFINE w == res.value
           g == UnitOf(a, q)
           n == UnitsIn(w, g)
<1>1. /\ Valid(w) /\ w.kind \in {"zero", "normal"} /\ w.prec = q /\ w.sign = a.sign
      /\ n = i
      /\ w.kind = "normal" => CompareDyadic(n, g, w.mant, Scale(w)) = 0
  BY DEF Lands
<1>2. res.ternary = a.sign * CompareDyadic(n, g, a.mant, Scale(a)) /\ ChosenAt(direction, a, g, n)
  BY <1>1
<1>3. OnIntegers(res, a, q, direction) <=>
          /\ Valid(w) /\ w.kind \in {"zero", "normal"} /\ w.prec = q /\ w.sign = a.sign
          /\ w.kind = "normal" => CompareDyadic(n, g, w.mant, Scale(w)) = 0
          /\ res.ternary = a.sign * CompareDyadic(n, g, a.mant, Scale(a))
          /\ ChosenAt(direction, a, g, n)
  BY Zenon DEF OnIntegers, UnitsIn, UnitOf, ChosenAt, Chosen
<1> HIDE DEF n, g
<1> QED
  BY <1>1, <1>2, <1>3

\* A result that lands where the direction sends it.
LEMMA DirectedOnIntegers ==
    ASSUME NEW a, Operand(a), a.kind = "normal", NEW q \in Nat \ {0}, NEW g \in Nat, g = UnitOf(a, q),
           NEW t \in Int, t <= Scale(a), t <= g - 1,
           NEW N \in Nat, NEW H, H = HalfUnit(g, t), NEW r, r = RestOf(a, g, t, N), r \in 0 .. 2 * H - 1,
           NEW direction \in {"inward", "outward", "even", "away"}, NEW away \in BOOLEAN,
           Directed(direction, N, H, r, away), NEW res,
           r = 0 => Lands(res, a, q, N) /\ res.ternary = 0,
           r # 0 /\ ~away => Lands(res, a, q, N) /\ res.ternary = -a.sign,
           r # 0 /\ away => Lands(res, a, q, N + 1) /\ res.ternary = a.sign
    PROVE  OnIntegers(res, a, q, direction)
<1> DEFINE At(n, k) == CompareDyadic(n, k, a.mant, Scale(a))
           Z == MantAt(a, t)
<1>1. /\ H \in Nat \ {0} /\ Z \in Nat \ {0}
      /\ \A n \in Int : At(n, g) = Sgn(n * (2 * H) - Z) /\ At(n, g - 1) = Sgn(n * H - Z)
  BY ComparedInHalves
<1>2. r = Z - N * (2 * H) /\ r \in 0 .. 2 * H - 1
  BY DEF RestOf
<1>3. /\ N + 1 \in Int /\ N - 1 \in Int /\ 2 * N + 1 \in Int /\ 2 * N - 1 \in Int
      /\ 2 * (N + 1) + 1 \in Int /\ 2 * (N + 1) - 1 \in Int /\ (N + 1) - 1 = N /\ N \in Int
  OBVIOUS
<1>4. Around(N, H, Z, r)
  <2>1. Z \in Nat /\ H \in Nat \ {0}
    BY <1>1
  <2> HIDE DEF Z
  <2> QED
    BY <1>2, <2>1, RestCompares
<1> HIDE DEF At, Z
<1>5. /\ At(N, g) = IF r = 0 THEN 0 ELSE -1
      /\ At(N + 1, g) = 1
      /\ r = 0 => At(N - 1, g) = -1
      /\ At(2 * N + 1, g - 1) = Sgn(H - r)
      /\ At(2 * N - 1, g - 1) = -1
  <2>1. /\ At(N, g) = Sgn(N * (2 * H) - Z) /\ At(N + 1, g) = Sgn((N + 1) * (2 * H) - Z)
        /\ At(N - 1, g) = Sgn((N - 1) * (2 * H) - Z)
        /\ At(2 * N + 1, g - 1) = Sgn((2 * N + 1) * H - Z)
        /\ At(2 * N - 1, g - 1) = Sgn((2 * N - 1) * H - Z)
    BY <1>1, <1>3, Zenon
  <2> QED
    BY <1>4, <2>1, Zenon DEF Around
<1>6. At(2 * (N + 1) + 1, g - 1) = 1 /\ At(2 * (N + 1) - 1, g - 1) = Sgn(H - r)
  <2>1. /\ At(2 * (N + 1) + 1, g - 1) = Sgn((2 * (N + 1) + 1) * H - Z)
        /\ At(2 * (N + 1) - 1, g - 1) = Sgn((2 * (N + 1) - 1) * H - Z)
    BY <1>1, <1>3, Zenon
  <2> QED
    BY <1>4, <2>1, Zenon DEF Around
<1>7. a.sign \in {1, -1}
  BY NormalParts DEF Sign
<1>8. CASE r = 0 \/ ~away
  <2>1. Chosen(direction, At(N, g), At(N + 1, g), At(N - 1, g), At(2 * N + 1, g - 1), At(2 * N - 1, g - 1), N)
    <3>1. H \in Nat \ {0}
      BY <1>1
    <3>2. LowerCompares(H, r, At(N, g), At(N + 1, g), At(N - 1, g), At(2 * N + 1, g - 1), At(2 * N - 1, g - 1))
      BY <1>5, Zenon DEF LowerCompares
    <3> QED
      BY <1>2, <1>8, <3>1, <3>2, LowerIsChosen
  <2>2. ChosenAt(direction, a, g, N)
    BY <2>1 DEF ChosenAt, At
  <2>3. Lands(res, a, q, N) /\ res.ternary = a.sign * At(N, g)
    BY <1>5, <1>7, <1>8
  <2> QED
    BY <2>2, <2>3, LandsOnIntegers DEF At
<1>9. CASE r # 0 /\ away
  <2> DEFINE M == N + 1
  <2>1. At(M, g) = 1 /\ At(M - 1, g) = -1 /\ At(2 * M + 1, g - 1) = 1 /\ At(2 * M - 1, g - 1) = Sgn(H - r)
    BY <1>3, <1>5, <1>6, <1>9
  <2>2. Chosen(direction, At(M, g), At(M + 1, g), At(M - 1, g), At(2 * M + 1, g - 1), At(2 * M - 1, g - 1), M)
    <3>1. H \in Nat \ {0}
      BY <1>1
    <3> HIDE DEF M
    <3>2. UpperCompares(H, r, At(M, g), At(M + 1, g), At(M - 1, g), At(2 * M + 1, g - 1), At(2 * M - 1, g - 1))
      BY <2>1, Zenon DEF UpperCompares
    <3>3. Chosen(direction, At(M, g), At(M + 1, g), At(M - 1, g), At(2 * M + 1, g - 1), At(2 * M - 1, g - 1), N + 1)
      BY <1>2, <1>9, <3>1, <3>2, UpperIsChosen
    <3> QED
      BY <3>3 DEF M
  <2>3. Lands(res, a, q, M) /\ res.ternary = a.sign * At(M, g)
    BY <1>5, <1>7, <1>9
  <2> HIDE DEF M
  <2>4. ChosenAt(direction, a, g, M)
    BY <2>2 DEF ChosenAt, At
  <2> QED
    BY <2>3, <2>4, LandsOnIntegers DEF At
<1> QED
  BY <1>8, <1>9

\* The choice between the kept bits and one unit more that fits a direction, of
\* a magnitude below 1 and of a larger one.
GoesAway(direction, a, part) ==
    CASE direction = "inward" -> FALSE
      [] direction = "outward" -> TRUE
      [] direction = "even" ->
            IF a.exp <= 0 THEN a.exp = 0 /\ a.mant # Pow2(a.prec - 1)
            ELSE \/ 2 * part.dropped > part.W
                 \/ 2 * part.dropped = part.W /\ (part.mant \div part.ulp) % 2 = 1
      [] direction = "away" -> IF a.exp <= 0 THEN a.exp = 0 ELSE 2 * part.dropped >= part.W

\* The cut of the fraction and of the bits beyond the precision, made in one, is
\* one rounding to an integer of the precision.
LEMMA ToIntegralRounds ==
    ASSUME NEW a, Operand(a), a.kind = "normal", NEW q \in Precision,
           NEW direction \in {"inward", "outward", "even", "away"}, NEW away \in BOOLEAN,
           away <=> GoesAway(direction, a, IntegralPart(a, q))
    PROVE  OnIntegers(ToIntegral(a, q, away), a, q, direction)
<1> DEFINE g == UnitOf(a, q)
           l == Scale(a)
           t == IF l <= g - 1 THEN l ELSE g - 1
           H == HalfUnit(g, t)
           part == IntegralPart(a, q)
           res == ToIntegral(a, q, away)
<1>1. q \in Nat \ {0} /\ a.exp \in Int /\ l \in Int /\ g \in Nat
  BY PrecAssumption, NormalParts DEF Precision, UnitOf
<1>2. t \in Int /\ t <= l /\ t <= g - 1
  BY <1>1
<1> HIDE DEF t
<1>3. H \in Nat \ {0}
  <2> HIDE DEF g
  <2> QED
    BY <1>1, <1>2, ComparedInHalves
<1> HIDE DEF g, l, H, res
<1>4. CASE a.exp <= 0
  <2> DEFINE r == RestOf(a, g, t, 0)
  <2>1. /\ g = 0
        /\ ~away => Lands(res, a, q, 0) /\ res.ternary = -a.sign
        /\ away => Lands(res, a, q, 1) /\ res.ternary = a.sign
    BY <1>4, BelowOneLands DEF res, g
  <2>2. t <= -1
    BY <1>2, <2>1
  <2>3. /\ r \in 1 .. 2 * H - 1
        /\ a.exp = 0 <=> r >= H
        /\ a.exp = 0 /\ a.mant # Pow2(a.prec - 1) <=> r > H
    BY <1>2, <1>4, <2>1, <2>2, BelowOneIsPlaced DEF H, l
  <2> HIDE DEF r
  <2>4. r \in 0 .. 2 * H - 1 /\ r # 0
    BY <1>3, <2>3
  <2>5. Directed(direction, 0, H, r, away)
    <3>1. direction = "even" => (away <=> r > H)
      BY <1>4, <2>3 DEF GoesAway
    <3>2. direction = "away" => (away <=> r >= H)
      BY <1>4, <2>3 DEF GoesAway
    <3>3. (direction = "inward" => ~away) /\ (direction = "outward" => away)
      BY DEF GoesAway
    <3>4. ~(r = H /\ 0 % 2 = 1)
      OBVIOUS
    <3> QED
      BY <3>1, <3>2, <3>3, <3>4 DEF Directed
  <2>6. /\ r = 0 => Lands(res, a, q, 0) /\ res.ternary = 0
        /\ r # 0 /\ ~away => Lands(res, a, q, 0) /\ res.ternary = -a.sign
        /\ r # 0 /\ away => Lands(res, a, q, 0 + 1) /\ res.ternary = a.sign
    BY <2>1, <2>4
  <2> DEFINE N == 0
  <2>7. /\ r = RestOf(a, g, t, N) /\ H = HalfUnit(g, t) /\ N \in Nat /\ g = UnitOf(a, q)
        /\ Directed(direction, N, H, r, away)
        /\ r = 0 => Lands(res, a, q, N) /\ res.ternary = 0
        /\ r # 0 /\ ~away => Lands(res, a, q, N) /\ res.ternary = -a.sign
        /\ r # 0 /\ away => Lands(res, a, q, N + 1) /\ res.ternary = a.sign
    BY <2>5, <2>6 DEF r, H, g
  <2> HIDE DEF N
  <2>8. OnIntegers(res, a, q, direction)
    BY <1>1, <1>2, <2>4, <2>7, DirectedOnIntegers DEF l
  <2> QED
    BY <2>8 DEF res
<1>5. CASE a.exp > 0
  <2> DEFINE k == KeptBits(a, q)
  <2>1. PICK N \in Pow2(k - 1) .. Pow2(k) - 1 : part.mant = N * Pow2(q - k) /\ Placed(a, g, t, N, part)
    BY <1>1, <1>2, <1>5, PartIsPlaced DEF l, g
  <2> DEFINE r == RestOf(a, g, t, N)
  <2>2. /\ part.dropped = 0 => Lands(res, a, q, N) /\ res.ternary = 0
        /\ part.dropped # 0 /\ ~away => Lands(res, a, q, N) /\ res.ternary = -a.sign
        /\ part.dropped # 0 /\ away => Lands(res, a, q, N + 1) /\ res.ternary = a.sign
    BY <1>5, <2>1, ToIntegralLands DEF res
  <2>3. N \in Nat /\ part.ulp \in Nat \ {0} /\ part.ulp = Pow2(q - k)
    <3>1. k \in 1 .. q /\ part.ulp = Pow2(q - k) /\ part.ulp \in Nat \ {0}
      BY <1>1, <1>5, IntegralParts
    <3>2. Pow2(k - 1) \in Nat
      <4> HIDE DEF k
      <4>1. k \in Nat \ {0}
        BY <1>1, <3>1
      <4> QED
        BY <4>1, LengthBounds
    <3> QED
      BY <3>1, <3>2
  <2>4. part.mant \div part.ulp = N
    <3> DEFINE U == part.ulp
    <3>1. part.mant = N * U + 0 /\ N * U \in Nat /\ 0 \in 0 .. U - 1
      BY <2>1, <2>3, NaturalProducts
    <3>2. part.mant \in Nat
      BY <3>1
    <3> HIDE DEF U, part
    <3> QED
      BY <2>3, <3>1, <3>2, DivisionUnique DEF U
  <2> HIDE DEF k, part, r
  <2>5. /\ r \in 0 .. 2 * H - 1
        /\ part.dropped = 0 <=> r = 0
        /\ 2 * part.dropped > part.W <=> r > H
        /\ 2 * part.dropped >= part.W <=> r >= H
        /\ 2 * part.dropped = part.W <=> r = H
    BY <2>1 DEF Placed, r, H
  <2>6. away <=> GoesAway(direction, a, part)
    BY DEF part
  <2>7. ~(a.exp <= 0)
    BY <1>1, <1>5
  <2>8. Directed(direction, N, H, r, away)
    <3>1. direction = "even" => (away <=> r > H \/ (r = H /\ N % 2 = 1))
      <4> SUFFICES ASSUME direction = "even" PROVE away <=> r > H \/ (r = H /\ N % 2 = 1)
        OBVIOUS
      <4>1. GoesAway(direction, a, part) <=> \/ 2 * part.dropped > part.W
                                             \/ 2 * part.dropped = part.W /\ (part.mant \div part.ulp) % 2 = 1
        BY <2>7 DEF GoesAway
      <4> QED
        BY <2>4, <2>5, <2>6, <4>1, Zenon
    <3>2. direction = "away" => (away <=> r >= H)
      <4> SUFFICES ASSUME direction = "away" PROVE away <=> r >= H
        OBVIOUS
      <4>1. GoesAway(direction, a, part) <=> 2 * part.dropped >= part.W
        BY <2>7 DEF GoesAway
      <4> QED
        BY <2>5, <2>6, <4>1, Zenon
    <3>3. (direction = "inward" => ~away) /\ (direction = "outward" => away)
      BY <2>6 DEF GoesAway
    <3> QED
      BY <3>1, <3>2, <3>3, Zenon DEF Directed
  <2>9. /\ r = RestOf(a, g, t, N) /\ H = HalfUnit(g, t) /\ g = UnitOf(a, q)
        /\ r = 0 => Lands(res, a, q, N) /\ res.ternary = 0
        /\ r # 0 /\ ~away => Lands(res, a, q, N) /\ res.ternary = -a.sign
        /\ r # 0 /\ away => Lands(res, a, q, N + 1) /\ res.ternary = a.sign
    BY <2>2, <2>5 DEF r, H, g
  <2>10. OnIntegers(res, a, q, direction)
    BY <1>1, <1>2, <2>3, <2>5, <2>8, <2>9, DirectedOnIntegers DEF l
  <2> QED
    BY <2>10 DEF res
<1> QED
  BY <1>1, <1>4, <1>5

\* mpfr_rint and mpfr_round make the choice of their direction.
RintDirection(a, rnd) ==
    CASE rnd = "RNDN" -> "even"
      [] rnd = "RNDZ" \/ (rnd = "RNDU" /\ a.sign = -1) \/ (rnd = "RNDD" /\ a.sign = 1) -> "inward"
      [] OTHER -> "outward"
RintAway(a, q, rnd) ==
    CASE rnd = "RNDZ" -> FALSE
      [] rnd = "RNDU" -> a.sign = 1
      [] rnd = "RNDD" -> a.sign = -1
      [] rnd = "RNDA" -> TRUE
      [] rnd = "RNDN" -> GoesAway("even", a, IntegralPart(a, q))

\* So they are calls of the one cut.
LEMMA RintGoesAway ==
    ASSUME NEW a, Operand(a), a.kind = "normal", NEW q \in Precision, NEW rnd \in RoundingMode
    PROVE  /\ RintDirection(a, rnd) \in {"inward", "outward", "even", "away"}
           /\ RintAway(a, q, rnd) \in BOOLEAN
           /\ RintAway(a, q, rnd) <=> GoesAway(RintDirection(a, rnd), a, IntegralPart(a, q))
           /\ Rint(a, q, rnd) = ToIntegral(a, q, RintAway(a, q, rnd))
           /\ GoesAway("away", a, IntegralPart(a, q)) \in BOOLEAN
           /\ Round(a, q) = ToIntegral(a, q, GoesAway("away", a, IntegralPart(a, q)))
<1> DEFINE part == IntegralPart(a, q)
<1>1. a.sign = 1 \/ a.sign = -1
  BY NormalParts DEF Sign
<1>2. a.sign = 1 => a.sign # -1
  OBVIOUS
<1>3. /\ GoesAway("inward", a, part) = FALSE
      /\ GoesAway("outward", a, part) = TRUE
      /\ GoesAway("even", a, part) =
            IF a.exp <= 0 THEN a.exp = 0 /\ a.mant # Pow2(a.prec - 1)
            ELSE \/ 2 * part.dropped > part.W
                 \/ 2 * part.dropped = part.W /\ (part.mant \div part.ulp) % 2 = 1
      /\ GoesAway("away", a, part) = IF a.exp <= 0 THEN a.exp = 0 ELSE 2 * part.dropped >= part.W
  BY Zenon DEF GoesAway
<1>4. GoesAway("even", a, part) \in BOOLEAN /\ GoesAway("away", a, part) \in BOOLEAN
  <2>1. CASE a.exp <= 0
    BY <2>1 DEF GoesAway
  <2>2. CASE ~(a.exp <= 0)
    BY <2>2 DEF GoesAway
  <2> QED
    BY <2>1, <2>2
<1>5. Round(a, q) = ToIntegral(a, q, GoesAway("away", a, part))
  BY <1>3, Zenon DEF Round
<1>6. NearestEven(a, q) = ToIntegral(a, q, GoesAway("even", a, part))
  BY <1>3, Zenon DEF NearestEven
<1> HIDE DEF part
<1>7. CASE rnd = "RNDN"
  <2>1. RintDirection(a, rnd) = "even"
    BY <1>7, Zenon DEF RintDirection
  <2>2. RintAway(a, q, rnd) = GoesAway("even", a, part)
    BY <1>7 DEF RintAway, part
  <2>3. Rint(a, q, rnd) = NearestEven(a, q)
    BY <1>7 DEF Rint
  <2> QED
    BY <1>4, <1>5, <1>6, <2>1, <2>2, <2>3 DEF part
<1>8. CASE rnd = "RNDZ"
  <2>1. RintDirection(a, rnd) = "inward" /\ RintAway(a, q, rnd) = FALSE
    BY <1>8 DEF RintDirection, RintAway
  <2>2. Rint(a, q, rnd) = ToIntegral(a, q, FALSE)
    BY <1>8 DEF Rint, Trunc
  <2> QED
    BY <1>3, <1>4, <1>5, <2>1, <2>2 DEF part
<1>9. CASE rnd = "RNDA"
  <2>1. RintDirection(a, rnd) = "outward" /\ RintAway(a, q, rnd) = TRUE
    BY <1>9 DEF RintDirection, RintAway
  <2>2. Rint(a, q, rnd) = ToIntegral(a, q, TRUE)
    <3>1. Rint(a, q, rnd) = IF a.sign = 1 THEN Ceil(a, q) ELSE Floor(a, q)
      BY <1>9 DEF Rint
    <3>2. a.sign = 1 => Ceil(a, q) = ToIntegral(a, q, TRUE)
      BY DEF Ceil
    <3>3. a.sign = -1 => Floor(a, q) = ToIntegral(a, q, TRUE)
      BY DEF Floor
    <3>4. CASE a.sign = 1
      BY <3>1, <3>2, <3>4, Zenon
    <3>5. CASE a.sign = -1
      <4>1. a.sign # 1
        BY <3>5
      <4> QED
        BY <3>1, <3>3, <3>5, <4>1, Zenon
    <3> QED
      BY <1>1, <3>4, <3>5
  <2> QED
    BY <1>3, <1>4, <1>5, <2>1, <2>2 DEF part
<1>10. CASE rnd = "RNDU"
  <2>1. /\ a.sign = -1 => RintDirection(a, rnd) = "inward"
        /\ a.sign = 1 => RintDirection(a, rnd) = "outward"
    BY <1>10 DEF RintDirection
  <2>2. RintAway(a, q, rnd) = (a.sign = 1) /\ Rint(a, q, rnd) = ToIntegral(a, q, a.sign = 1)
    BY <1>10 DEF RintAway, Rint, Ceil
  <2> QED
    BY <1>1, <1>2, <1>3, <1>4, <1>5, <2>1, <2>2 DEF part
<1>11. CASE rnd = "RNDD"
  <2>1. /\ a.sign = 1 => RintDirection(a, rnd) = "inward"
        /\ a.sign = -1 => RintDirection(a, rnd) = "outward"
    BY <1>11 DEF RintDirection
  <2>2. RintAway(a, q, rnd) = (a.sign = -1) /\ Rint(a, q, rnd) = ToIntegral(a, q, a.sign = -1)
    BY <1>11 DEF RintAway, Rint, Floor
  <2> QED
    BY <1>1, <1>2, <1>3, <1>4, <1>5, <2>1, <2>2 DEF part
<1> QED
  BY <1>7, <1>8, <1>9, <1>10, <1>11 DEF RoundingMode

\* rint rounds once, in every mode, to an integer of the output precision, and
\* round does, with ties away from zero, whatever value a register holds.
THEOREM IntegersAreRounded == Spec => []IntegralIsCorrect
<1>1. TypeOK => IntegralIsCorrect
  <2> SUFFICES ASSUME TypeOK, x.kind = "normal", NEW q \in Precision
               PROVE  /\ \A rnd \in RoundingMode : OnIntegers(Rint(x, q, rnd), x, q, RintDirection(x, rnd))
                      /\ OnIntegers(Round(x, q), x, q, "away")
    BY Zenon DEF IntegralIsCorrect, RintDirection
  <2>1. Operand(x)
    BY ValidIsOperand DEF TypeOK
  <2>2. ASSUME NEW rnd \in RoundingMode
        PROVE  OnIntegers(Rint(x, q, rnd), x, q, RintDirection(x, rnd))
    <3>1. /\ RintDirection(x, rnd) \in {"inward", "outward", "even", "away"}
          /\ RintAway(x, q, rnd) \in BOOLEAN
          /\ RintAway(x, q, rnd) <=> GoesAway(RintDirection(x, rnd), x, IntegralPart(x, q))
          /\ Rint(x, q, rnd) = ToIntegral(x, q, RintAway(x, q, rnd))
      BY <2>1, RintGoesAway
    <3> QED
      BY <2>1, <3>1, ToIntegralRounds
  <2>3. OnIntegers(Round(x, q), x, q, "away")
    <3>1. \E rnd : rnd \in RoundingMode
      BY DEF RoundingMode
    <3>2. /\ GoesAway("away", x, IntegralPart(x, q)) \in BOOLEAN
          /\ Round(x, q) = ToIntegral(x, q, GoesAway("away", x, IntegralPart(x, q)))
      BY <2>1, <3>1, RintGoesAway
    <3> QED
      BY <2>1, <3>2, ToIntegralRounds
  <2> QED
    BY <2>2, <2>3
<1> QED
  BY <1>1, RegistersAreValid, PTL

-----------------------------------------------------------------------------
(* The parts of a value.                                                   *)

\* A magnitude in a smaller unit.
LEMMA MantAtLower ==
    ASSUME NEW a, Operand(a), a.kind = "normal", NEW t \in Int, t <= Scale(a), NEW u \in Nat
    PROVE  MantAt(a, t - u) = MantAt(a, t) * Pow2(u)
<1> DEFINE i == Scale(a) - t
           I == Pow2(i)
           U == Pow2(u)
           m == a.mant
<1>1. i \in Nat /\ m \in Nat /\ i + u = Scale(a) - (t - u)
  BY NormalParts
<1> HIDE DEF i
<1>2. Pow2(i + u) = I * U /\ I \in Nat /\ U \in Nat
  BY <1>1, Pow2Sum, Pow2Type
<1>3. MantAt(a, t - u) = m * (I * U)
  BY <1>1, <1>2, Zenon DEF MantAt
<1>4. MantAt(a, t) = m * I
  BY DEF MantAt, i
<1> HIDE DEF I, U, m
<1>5. m * (I * U) = (m * I) * U
  BY <1>1, <1>2
<1> QED
  BY <1>3, <1>4, <1>5 DEF U

\* A sum of two values with their signs.
LEMMA SumInMants ==
    ASSUME NEW a, Operand(a), a.kind = "normal", NEW b, Operand(b), b.kind = "normal",
           NEW t \in Int, t <= Scale(a), t <= Scale(b)
    PROVE  /\ SumOf(a, b, t) = a.sign * MantAt(a, t) + b.sign * MantAt(b, t)
           /\ MantAt(a, t) \in Nat \ {0} /\ MantAt(b, t) \in Nat \ {0}
<1>1. MantAt(a, t) \in Nat \ {0} /\ MantAt(b, t) \in Nat \ {0}
  BY BinadeBounds
<1>2. /\ a.sign \in Sign /\ b.sign \in Sign /\ a.mant \in Nat /\ b.mant \in Nat
      /\ Num(a) = a.sign * a.mant /\ Num(b) = b.sign * b.mant
      /\ Scale(a) \in Int /\ Scale(b) \in Int
  BY NormalParts
<1> DEFINE P == Pow2(Scale(a) - t)
           Q == Pow2(Scale(b) - t)
<1>3. P \in Nat /\ Q \in Nat
  BY <1>2, Pow2Type
<1>4. MantAt(a, t) = a.mant * P /\ MantAt(b, t) = b.mant * Q
      /\ SumOf(a, b, t) = (a.sign * a.mant) * P + (b.sign * b.mant) * Q
  BY <1>2, Zenon DEF MantAt, SumOf
<1> HIDE DEF P, Q
<1>5. (a.sign * a.mant) * P = a.sign * (a.mant * P)
  BY <1>2, <1>3 DEF Sign
<1>6. (b.sign * b.mant) * Q = b.sign * (b.mant * Q)
  BY <1>2, <1>3 DEF Sign
<1> QED
  BY <1>1, <1>4, <1>5, <1>6

\* An exact sum that is a value of the output's precision is the result.
LEMMA SumIsValue ==
    ASSUME NEW a, Operand(a), a.kind = "normal", NEW b, Operand(b), b.kind = "normal",
           NEW v, Operand(v), v.kind = "normal", v.prec \in Precision, NEW rnd \in RoundingMode,
           NEW t \in Int, t <= Scale(a), t <= Scale(b), t <= Scale(v),
           SumOf(a, b, t) = v.sign * MantAt(v, t)
    PROVE  Add(a, b, v.prec, rnd) = Exactly(v)
<1> DEFINE q == v.prec
           res == Add(a, b, q, rnd)
<1>1. v.sign \in Sign /\ MantAt(v, t) \in Nat \ {0} /\ Scale(v) \in Int /\ Scale(a) \in Int /\ Scale(b) \in Int
      /\ v.mant \in Nat \ {0}
  BY BinadeBounds, NormalParts
<1>2. SumOf(a, b, t) # 0
  BY <1>1 DEF Sign
<1>3. SumRounding(res, a, b, q, rnd)
  <2>1. SumRounding(AddNormalNormal(a, b, q, rnd), a, b, q, rnd)
    BY AddNormalRounds
  <2>2. Add(a, b, q, rnd) = AddNormalNormal(a, b, q, rnd)
    BY DEF Add
  <2> QED
    BY <2>1, <2>2
<1> HIDE DEF res
<1>4. PICK s \in Sign, m \in Nat \ {0}, l \in Int :
         /\ RoundedTo(res, s, q, rnd, m, l, 1)
         /\ \A i \in Int : i <= l /\ i <= Scale(a) /\ i <= Scale(b) =>
               SumOf(a, b, i) = s * (m * Pow2(l - i))
  BY <1>2, <1>3, SumMagnitude
<1>5. PICK u \in Nat : t - u <= l
  <2>1. (IF t <= l THEN 0 ELSE t - l) \in Nat /\ t - (IF t <= l THEN 0 ELSE t - l) <= l
    OBVIOUS
  <2> QED
    BY <2>1
<1> DEFINE i == t - u
           U == Pow2(u)
           A == MantAt(a, t)
           B == MantAt(b, t)
           V == MantAt(v, t)
<1>6. i \in Int /\ i <= l /\ i <= Scale(a) /\ i <= Scale(b) /\ i <= Scale(v)
  BY <1>1, <1>5
<1>7. SumOf(a, b, i) = s * (m * Pow2(l - i))
  BY <1>4, <1>6
<1>8. /\ MantAt(a, i) = A * U /\ MantAt(b, i) = B * U /\ MantAt(v, i) = V * U
      /\ SumOf(a, b, t) = a.sign * A + b.sign * B
      /\ A \in Nat /\ B \in Nat /\ V \in Nat \ {0} /\ U \in Nat \ {0}
  BY <1>1, MantAtLower, SumInMants, Pow2Type
<1>9. SumOf(a, b, i) = a.sign * MantAt(a, i) + b.sign * MantAt(b, i)
  <2> HIDE DEF i
  <2> QED
    BY <1>6, SumInMants
<1>10. a.sign \in Sign /\ b.sign \in Sign
  BY NormalParts
<1>11. l - i \in Nat /\ Pow2(l - i) \in Nat \ {0}
  BY <1>6, Pow2Type
<1>12. m * Pow2(l - i) \in Nat \ {0}
  BY <1>11, NaturalProducts
<1>13. V * U \in Nat \ {0}
  BY <1>8, NaturalProducts
<1>14. MantAt(v, i) = v.mant * Pow2(Scale(v) - i)
  BY DEF MantAt
<1> DEFINE M == m * Pow2(l - i)
           N == V * U
<1>15. SumOf(a, b, i) = v.sign * N
  <2>1. a.sign * A + b.sign * B = v.sign * V
    BY <1>8
  <2>2. \A S \in Int, R \in Nat, C \in Nat, T \in Int, D \in Nat :
           (S * R) * C + (T * D) * C = (S * R + T * D) * C
    OBVIOUS
  <2>4. a.sign \in Int /\ b.sign \in Int /\ v.sign \in Sign
    BY <1>1, <1>10 DEF Sign
  <2> HIDE DEF A, B, V, U, i
  <2>3. a.sign * (A * U) = (a.sign * A) * U /\ b.sign * (B * U) = (b.sign * B) * U
    BY <1>8, <1>10 DEF Sign
  <2>5. SumOf(a, b, i) = (a.sign * A) * U + (b.sign * B) * U
    BY <1>8, <1>9, <2>3
  <2>6. SumOf(a, b, i) = (a.sign * A + b.sign * B) * U
    BY <1>8, <2>2, <2>4, <2>5
  <2>7. (v.sign * V) * U = v.sign * (V * U)
    BY <1>8, <2>4 DEF Sign
  <2> QED
    BY <2>1, <2>6, <2>7
<1>16. M \in Nat \ {0} /\ N \in Nat \ {0} /\ s * M = v.sign * N
  BY <1>7, <1>12, <1>13, <1>15
<1>17. M = v.mant * Pow2(Scale(v) - i)
  <2> HIDE DEF M, N
  <2>1. M = N /\ s = v.sign
    BY <1>1, <1>16 DEF Sign
  <2> QED
    BY <1>8, <1>14, <2>1 DEF N
<1>18. s = v.sign
  <2> HIDE DEF M, N
  <2> QED
    BY <1>1, <1>16 DEF Sign
<1>19. SameNumber(m, l, v.mant, Scale(v))
  <2> HIDE DEF i
  <2> QED
    BY <1>6, <1>17 DEF SameNumber
<1>20. RoundedTo(Exactly(v), s, q, rnd, v.mant, Scale(v), 1)
  BY <1>18, ValueRoundsToItself
<1>21. q \in Nat \ {0} /\ m \in Nat /\ v.mant \in Nat /\ 1 \in Nat \ {0}
  BY <1>1, NormalParts
<1> HIDE DEF q
<1>22. res = Exactly(v)
  BY <1>1, <1>4, <1>19, <1>20, <1>21, RoundingIsUnique
<1> QED
  BY <1>22 DEF res, q

\* A value is itself at its own precision, and the sum of it and a zero is.
LEMMA ValueIsKept ==
    ASSUME NEW v, Valid(v), v.kind = "normal", NEW rnd \in RoundingMode
    PROVE  /\ Set(v, v.prec, rnd) = Exactly(v)
           /\ \A z : z.kind = "zero" => /\ Add(v, z, v.prec, rnd) = Exactly(v)
                                        /\ Add(z, v, v.prec, rnd) = Exactly(v)
<1>0. Operand(v)
  BY ValidIsOperand
<1>1. v.prec \in Nat \ {0} /\ v.mant \in Nat /\ v = Normal(v.sign, v.prec, v.exp, v.mant)
  BY <1>0, NormalParts, Kinds
<1>2. v.prec >= v.prec /\ v.prec - v.prec = 0 /\ v.mant * 1 = v.mant
  BY <1>1
<1>3. PackNormal(v.sign, v.exp, v.mant, v.prec, v.prec, rnd)
      = Exactly(Normal(v.sign, v.prec, v.exp, v.mant * Pow2(v.prec - v.prec)))
  BY <1>2 DEF PackNormal
<1>4. v.mant * Pow2(v.prec - v.prec) = v.mant
  BY <1>2, Pow2Zero
<1>5. PackNormal(v.sign, v.exp, v.mant, v.prec, v.prec, rnd) = Exactly(v)
  BY <1>1, <1>3, <1>4, Zenon
<1>6. Set(v, v.prec, rnd) = Exactly(v) /\ RoundToPrec(v, v.prec, rnd) = Exactly(v)
  BY <1>5, Zenon DEF Set, RoundToPrec, Set4
<1> QED
  BY <1>6, AdditionTable

\* The fraction of a value of at least 1 that is no integer, with as many bits
\* as the value.
FractionBits(v) == v.mant % Pow2(v.prec - v.exp)
FractionOf(v) ==
    Normal(v.sign, v.prec, BitLength[FractionBits(v)] - (v.prec - v.exp),
           FractionBits(v) * Pow2(v.prec - BitLength[FractionBits(v)]))

\* Such a value, its integral part, and its fraction, which is below 1.
LEMMA PartsOfValue ==
    ASSUME NEW v, Valid(v), v.kind = "normal", v.exp > 0, ~IntegerP(v),
           NEW i, i = Trunc(v, v.prec).value, NEW f, f = FractionOf(v)
    PROVE  /\ Valid(i) /\ i.kind = "normal" /\ i.sign = v.sign /\ i.prec = v.prec /\ i.exp = v.exp
           /\ IntegerP(i)
           /\ Valid(f) /\ f.kind = "normal" /\ f.sign = v.sign /\ f.prec = v.prec /\ f.exp <= 0
           /\ \E t \in Int : /\ t <= Scale(v) /\ t <= Scale(i) /\ t <= Scale(f)
                             /\ MantAt(v, t) = MantAt(i, t) + MantAt(f, t)
<1> DEFINE s == v.sign
           p == v.prec
           e == v.exp
           m == v.mant
           W == Pow2(p - e)
           u == m \div W
           d == FractionBits(v)
           L == BitLength[d]
           part == IntegralPart(v, p)
<1>1. /\ Operand(v) /\ s \in Sign /\ p \in Precision /\ p \in Nat \ {0} /\ e \in Int
      /\ m \in Pow2(p - 1) .. Pow2(p) - 1 /\ m \in Nat \ {0}
  BY ValidIsOperand, ValidNormal, NormalParts
<1>2. e < p /\ d # 0 /\ d = m % W
  BY DEF IntegerP, FractionBits
<1>3. p - e \in Nat /\ W \in Nat \ {0}
  BY <1>1, <1>2, Pow2Type
<1>4. u \in Nat /\ d \in 1 .. W - 1 /\ m = u * W + d
  <2> HIDE DEF W, d
  <2>1. u \in Nat /\ m % W \in 0 .. W - 1 /\ m = u * W + (m % W)
    BY <1>1, <1>3, Division
  <2> QED
    BY <1>2, <1>3, <2>1
<1>5. /\ KeptBits(v, p) = e /\ part.dropped = d /\ part.mant = u * W
      /\ part.mant \in Pow2(p - 1) .. Pow2(p) - 1
  <2>1. KeptBits(v, p) = e /\ p > e
    BY <1>1, <1>2 DEF KeptBits
  <2>2. part.mant = u * part.ulp /\ part.ulp = W /\ part.dropped = m % W
        /\ part.mant \in Pow2(p - 1) .. Pow2(p) - 1
    BY <1>1, <2>1, IntegralParts
  <2> QED
    BY <1>2, <2>1, <2>2
<1>6. i = Normal(s, p, e, u * W)
  <2>1. Trunc(v, p) = ToIntegral(v, p, FALSE)
    BY DEF Trunc
  <2>2. ToIntegral(v, p, FALSE) = IF part.dropped = 0 THEN Exactly(Normal(s, p, e, part.mant))
                                  ELSE Result(Normal(s, p, e, part.mant), -s)
    BY <1>1 DEF ToIntegral
  <2>3. Trunc(v, p) = Result(Normal(s, p, e, part.mant), -s)
    BY <1>2, <1>5, <2>1, <2>2
  <2> QED
    BY <1>5, <2>3, ExactlyOf
<1> HIDE DEF part
<1>7. /\ Valid(i) /\ Operand(i) /\ i.kind = "normal" /\ i.sign = s /\ i.prec = p /\ i.exp = e
      /\ i.mant = u * W
  <2>1. u * W \in Pow2(p - 1) .. Pow2(p) - 1
    BY <1>5
  <2> DEFINE n == u * W
  <2> HIDE DEF n, s, p, e
  <2>2. Valid(Normal(s, p, e, n))
    BY <1>1, <2>1, NormalIsValid DEF n
  <2>3. i = Normal(s, p, e, n)
    BY <1>6 DEF n
  <2> QED
    BY <2>2, <2>3, NormalShape, ValidIsOperand DEF n
<1>8. IntegerP(i)
  <2>1. (u * W) % W = 0
    <3> HIDE DEF W
    <3>1. u * W \in Nat /\ u \in Int /\ 0 \in 0 .. W - 1 /\ u * W = u * W + 0
      BY <1>3, <1>4, NaturalProducts
    <3> QED
      BY <1>3, <3>1, DivisionUnique
  <2> QED
    BY <1>7, <2>1 DEF IntegerP
<1> HIDE DEF d
<1>9. L \in Nat \ {0} /\ d \in Pow2(L - 1) .. Pow2(L) - 1 /\ d \in Nat \ {0}
  BY <1>4, BitLengthBounds
<1>10. L <= p - e
  <2> HIDE DEF L
  <2> SUFFICES ASSUME ~(L <= p - e) PROVE FALSE
    OBVIOUS
  <2>1. L - 1 \in Nat /\ p - e <= L - 1
    BY <1>3, <1>9
  <2>2. W <= Pow2(L - 1) /\ Pow2(L - 1) \in Nat
    BY <1>3, <2>1, Pow2Split
  <2> QED
    BY <1>3, <1>4, <1>9, <2>2
<1>11. p - L \in Nat
  BY <1>1, <1>3, <1>9, <1>10
<1> DEFINE n == d * Pow2(p - L)
<1>12. n \in Pow2(p - 1) .. Pow2(p) - 1
  <2> DEFINE k == p - L
  <2>1. k \in Nat /\ L + k = p
    BY <1>1, <1>9, <1>11
  <2> HIDE DEF k, L, d
  <2>2. d * Pow2(k) \in Pow2((L + k) - 1) .. Pow2(L + k) - 1
    BY <1>9, <2>1, ShiftedLength
  <2> QED
    BY <2>1, <2>2 DEF k
<1>13. f = Normal(s, p, L - (p - e), n)
  BY DEF FractionOf, d
<1>14. L - (p - e) \in Int /\ L - (p - e) <= 0
  BY <1>1, <1>3, <1>9, <1>10
<1>15. /\ Valid(f) /\ Operand(f) /\ f.kind = "normal" /\ f.sign = s /\ f.prec = p
       /\ f.exp = L - (p - e) /\ f.mant = n
  <2> DEFINE g == L - (p - e)
  <2>1. g \in Int /\ n \in Pow2(p - 1) .. Pow2(p) - 1 /\ f = Normal(s, p, g, n)
    BY <1>12, <1>13, <1>14
  <2> HIDE DEF g, n, s, p, e, L
  <2>2. Valid(f)
    BY <1>1, <2>1, NormalIsValid
  <2> QED
    BY <2>1, <2>2, NormalShape, ValidIsOperand DEF g
<1> DEFINE t == Scale(f)
           l == p - L
<1>16. /\ t = (e - p) - l /\ l \in Nat /\ t \in Int
       /\ Scale(v) = e - p /\ Scale(i) = e - p /\ Scale(v) - t = l /\ Scale(i) - t = l
       /\ t <= Scale(v) /\ t <= Scale(i) /\ t <= Scale(f) /\ Scale(f) - t = 0
  <2>1. Scale(v) = e - p /\ Scale(i) = e - p /\ Scale(f) = (L - (p - e)) - p
    BY <1>7, <1>15 DEF Scale
  <2>2. (L - (p - e)) - p = (e - p) - l
    BY <1>1, <1>9
  <2> QED
    BY <1>1, <1>9, <1>11, <2>1, <2>2
<1>17. MantAt(v, t) = m * Pow2(l) /\ MantAt(i, t) = (u * W) * Pow2(l) /\ MantAt(f, t) = d * Pow2(l) * Pow2(0)
  <2> HIDE DEF t
  <2> QED
    BY <1>7, <1>15, <1>16 DEF MantAt
<1>18. MantAt(v, t) = MantAt(i, t) + MantAt(f, t)
  <2> DEFINE P == Pow2(l)
  <2>1. P \in Nat
    BY <1>16, Pow2Type
  <2>2. MantAt(v, t) = m * P /\ MantAt(i, t) = (u * W) * P /\ MantAt(f, t) = d * P * 1
    BY <1>17, Pow2Zero
  <2> HIDE DEF P, W, u, d, m, t
  <2>3. u * W \in Nat /\ d \in Nat /\ m = u * W + d
    BY <1>3, <1>4, NaturalProducts
  <2> DEFINE H == u * W
  <2>4. H \in Nat /\ m = H + d /\ MantAt(i, t) = H * P
    BY <2>2, <2>3
  <2> HIDE DEF H
  <2>5. (H + d) * P = H * P + d * P /\ d * P * 1 = d * P
    BY <2>1, <2>3, <2>4
  <2> QED
    BY <2>2, <2>4, <2>5
<1>19. \E b \in Int : /\ b <= Scale(v) /\ b <= Scale(i) /\ b <= Scale(f)
                      /\ MantAt(v, b) = MantAt(i, b) + MantAt(f, b)
  <2> HIDE DEF t
  <2> QED
    BY <1>16, <1>18
<1> QED
  BY <1>7, <1>8, <1>14, <1>15, <1>19

\* The fraction is what the integral part leaves of the value, exactly, and
\* adding it gives the value back.
LEMMA FractionRemains ==
    ASSUME NEW v, Valid(v), v.kind = "normal", v.exp > 0, ~IntegerP(v), NEW rnd \in RoundingMode,
           NEW i, i = Trunc(v, v.prec).value, NEW f, f = FractionOf(v)
    PROVE  Sub(v, i, v.prec, rnd) = Exactly(f) /\ Add(i, f, v.prec, rnd) = Exactly(v)
<1> DEFINE p == v.prec
           s == v.sign
           c == Negated(i)
<1>1. /\ Operand(v) /\ p \in Precision /\ s \in Sign
      /\ Operand(i) /\ i.kind = "normal" /\ i.sign = s /\ i.prec = p
      /\ Operand(f) /\ f.kind = "normal" /\ f.sign = s /\ f.prec = p
  BY ValidIsOperand, ValidNormal, PartsOfValue
<1>2. PICK t \in Int : /\ t <= Scale(v) /\ t <= Scale(i) /\ t <= Scale(f)
                       /\ MantAt(v, t) = MantAt(i, t) + MantAt(f, t)
  BY PartsOfValue
<1>3. /\ Operand(c) /\ c.kind = "normal" /\ c.sign = -s
      /\ c.exp = i.exp /\ c.mant = i.mant /\ c.prec = i.prec
      /\ c = [i EXCEPT !.sign = -i.sign]
  BY <1>1, NegatedShapes DEF Negated
<1>4. Scale(c) = Scale(i) /\ MantAt(c, t) = MantAt(i, t)
  BY <1>3 DEF Scale, MantAt
<1>5. Sub(v, i, p, rnd) = Add(v, c, p, rnd)
  BY <1>1, <1>3 DEF Sub
<1> HIDE DEF c
<1> DEFINE V == MantAt(v, t)
           I == MantAt(i, t)
           F == MantAt(f, t)
<1>6. V \in Nat /\ I \in Nat /\ F \in Nat /\ V = I + F
  <2>1. V \in Nat /\ I \in Nat /\ F \in Nat
    BY <1>1, <1>2, BinadeBounds
  <2> QED
    BY <1>2, <2>1
<1> HIDE DEF p, s
<1>7. SumOf(v, c, t) = s * V + (-s) * I
  <2>1. Operand(v) /\ v.kind = "normal" /\ Operand(c) /\ c.kind = "normal" /\ t <= Scale(v) /\ t <= Scale(c)
    BY <1>1, <1>2, <1>3, <1>4
  <2>2. SumOf(v, c, t) = v.sign * MantAt(v, t) + c.sign * MantAt(c, t)
    BY <2>1, SumInMants
  <2> QED
    BY <1>3, <1>4, <2>2 DEF V, I, s
<1>8. SumOf(i, f, t) = s * I + s * F
  <2>1. Operand(i) /\ i.kind = "normal" /\ Operand(f) /\ f.kind = "normal" /\ t <= Scale(i) /\ t <= Scale(f)
    BY <1>1, <1>2
  <2>2. SumOf(i, f, t) = i.sign * MantAt(i, t) + f.sign * MantAt(f, t)
    BY <2>1, SumInMants
  <2> QED
    BY <1>1, <2>2 DEF I, F
<1> HIDE DEF V, I, F
<1>9. s * V + (-s) * I = s * F /\ s * I + s * F = s * V
  BY <1>1, <1>6 DEF Sign
<1>10. Add(v, c, p, rnd) = Exactly(f)
  <2>1. SumOf(v, c, t) = f.sign * MantAt(f, t) /\ f.prec = p
    BY <1>1, <1>7, <1>9 DEF F
  <2>2. t <= Scale(c)
    BY <1>2, <1>4
  <2>3. f.prec \in Precision
    BY <1>1
  <2>4. Add(v, c, f.prec, rnd) = Exactly(f)
    BY <1>1, <1>2, <1>3, <2>1, <2>2, <2>3, SumIsValue
  <2> QED
    BY <2>1, <2>4
<1>11. Add(i, f, p, rnd) = Exactly(v)
  <2>1. SumOf(i, f, t) = v.sign * MantAt(v, t)
    BY <1>8, <1>9 DEF V, s
  <2>2. v.prec \in Precision /\ p = v.prec
    BY <1>1 DEF p
  <2> QED
    BY <1>1, <1>2, <2>1, <2>2, SumIsValue
<1> QED
  BY <1>5, <1>10, <1>11 DEF p

\* What the parts mpfr_modf gives must satisfy.
Recombined(parts, v, rnd) ==
    LET i == parts.iop.value
        f == parts.fop.value
    IN  /\ parts.iop.ternary = 0 /\ parts.fop.ternary = 0
        /\ i.sign = v.sign /\ IntegerP(i)
        /\ f.sign = v.sign /\ (f.kind = "normal" => f.exp <= 0)
        /\ Add(i, f, v.prec, rnd) = Exactly(v)
        /\ \A q \in Precision : Frac(v, q, rnd) = Modf(v, v.prec, q, rnd).fop

\* The branches of mpfr_modf, and of mpfr_frac.
LEMMA ModfBranches ==
    ASSUME NEW v, NEW p, NEW q, NEW rnd,
           v.kind = "normal" => v.exp \in Int /\ v.prec \in Int
    PROVE  /\ v.kind = "zero" =>
                 /\ Modf(v, p, q, rnd).iop = Exactly(Zero(v.sign, p))
                 /\ Modf(v, p, q, rnd).fop = Exactly(Zero(v.sign, q))
                 /\ Frac(v, q, rnd) = Exactly(Zero(v.sign, q))
           /\ v.kind = "normal" /\ v.exp <= 0 =>
                 /\ Modf(v, p, q, rnd).iop = Exactly(Zero(v.sign, p))
                 /\ Modf(v, p, q, rnd).fop = Set(v, q, rnd)
                 /\ Frac(v, q, rnd) = Set(v, q, rnd)
           /\ v.kind = "normal" /\ v.exp > 0 /\ IntegerP(v) =>
                 /\ Modf(v, p, q, rnd).iop = Set(v, p, rnd)
                 /\ Modf(v, p, q, rnd).fop = Exactly(Zero(v.sign, q))
                 /\ Frac(v, q, rnd) = Exactly(Zero(v.sign, q))
           /\ v.kind = "normal" /\ v.exp > 0 /\ ~IntegerP(v) =>
                 /\ Modf(v, p, q, rnd).iop = Set(Trunc(v, v.prec).value, p, rnd)
                 /\ Modf(v, p, q, rnd).fop = Frac(v, q, rnd)
                 /\ Frac(v, q, rnd) = Sub(v, Trunc(v, v.prec).value, q, rnd)
<1> DEFINE m == Modf(v, p, q, rnd)
<1>1. \A g, h : [iop |-> g, fop |-> h].iop = g /\ [iop |-> g, fop |-> h].fop = h
  OBVIOUS
<1>2. CASE v.kind = "zero"
  <2>1. IntegerP(v) /\ v.kind # "nan" /\ v.kind # "normal"
    BY <1>2 DEF IntegerP
  <2>2. m = [iop |-> Exactly(Zero(v.sign, p)), fop |-> Exactly(Zero(v.sign, q))]
    BY <1>2 DEF Modf
  <2>3. Frac(v, q, rnd) = Exactly(Zero(v.sign, q))
    BY <2>1 DEF Frac
  <2> HIDE DEF m
  <2>4. m.iop = Exactly(Zero(v.sign, p)) /\ m.fop = Exactly(Zero(v.sign, q))
    BY <1>1, <2>2
  <2> QED
    BY <2>1, <2>3, <2>4 DEF m
<1>3. CASE v.kind = "normal" /\ v.exp <= 0
  <2>1. ~(v.exp > 0)
    BY <1>3
  <2>2. ~IntegerP(v)
    BY <1>3, <2>1 DEF IntegerP
  <2>3. m = [iop |-> Exactly(Zero(v.sign, p)), fop |-> Set(v, q, rnd)]
    BY <1>3, <2>1 DEF Modf
  <2>4. Frac(v, q, rnd) = Set(v, q, rnd)
    BY <1>3, <2>2 DEF Frac
  <2> HIDE DEF m
  <2>5. m.iop = Exactly(Zero(v.sign, p)) /\ m.fop = Set(v, q, rnd)
    BY <1>1, <2>3
  <2> QED
    BY <1>3, <2>1, <2>4, <2>5 DEF m
<1>4. CASE v.kind = "normal" /\ v.exp > 0 /\ IntegerP(v)
  <2>1. ~(v.exp <= 0)
    BY <1>4
  <2>2. Frac(v, q, rnd) = Exactly(Zero(v.sign, q))
    BY <1>4 DEF Frac
  <2>3. RintTrunc(v, p, rnd) = Set(v, p, rnd)
    BY <1>4 DEF RintTrunc
  <2>4. m = [iop |-> Set(v, p, rnd), fop |-> Exactly(Zero(v.sign, q))]
    <3>1. CASE v.exp >= v.prec /\ ~(v.exp < v.prec)
      BY <1>4, <2>1, <3>1 DEF Modf
    <3>2. CASE v.exp < v.prec /\ ~(v.exp >= v.prec)
      <4>1. m = [iop |-> RintTrunc(v, p, rnd), fop |-> Frac(v, q, rnd)]
        BY <1>4, <2>1, <3>2 DEF Modf
      <4> QED
        BY <2>2, <2>3, <4>1
    <3>3. v.exp >= v.prec <=> ~(v.exp < v.prec)
      BY <1>4
    <3> QED
      BY <3>1, <3>2, <3>3
  <2> HIDE DEF m
  <2>5. m.iop = Set(v, p, rnd) /\ m.fop = Exactly(Zero(v.sign, q))
    BY <1>1, <2>4
  <2> QED
    BY <1>4, <2>1, <2>2, <2>5 DEF m
<1>5. CASE v.kind = "normal" /\ v.exp > 0 /\ ~IntegerP(v)
  <2>1. ~(v.exp <= 0) /\ v.exp < v.prec /\ ~(v.exp >= v.prec)
    BY <1>5 DEF IntegerP
  <2>2. Frac(v, q, rnd) = Sub(v, Trunc(v, v.prec).value, q, rnd)
    BY <1>5, <2>1 DEF Frac
  <2>3. RintTrunc(v, p, rnd) = Set(Trunc(v, v.prec).value, p, rnd)
    BY <1>5 DEF RintTrunc
  <2>4. m = [iop |-> RintTrunc(v, p, rnd), fop |-> Frac(v, q, rnd)]
    BY <1>5, <2>1 DEF Modf
  <2> HIDE DEF m
  <2>5. m.iop = RintTrunc(v, p, rnd) /\ m.fop = Frac(v, q, rnd)
    BY <1>1, <2>4
  <2> QED
    BY <1>5, <2>1, <2>2, <2>3, <2>5 DEF m
<1>6. v.kind = "normal" => (v.exp <= 0 \/ v.exp > 0)
  OBVIOUS
<1> QED
  BY <1>2, <1>3, <1>4, <1>5, <1>6

\* Two parts that add up to the value are what is asked for.
LEMMA TwoParts ==
    ASSUME NEW v, Valid(v), v.kind \in {"zero", "normal"}, NEW rnd \in RoundingMode, NEW i, NEW f,
           Modf(v, v.prec, v.prec, rnd).iop = Exactly(i), Modf(v, v.prec, v.prec, rnd).fop = Exactly(f),
           i.sign = v.sign, IntegerP(i), f.sign = v.sign, f.kind = "normal" => f.exp <= 0,
           Add(i, f, v.prec, rnd) = Exactly(v)
    PROVE  Recombined(Modf(v, v.prec, v.prec, rnd), v, rnd)
<1> DEFINE parts == Modf(v, v.prec, v.prec, rnd)
<1>1. v.kind = "normal" => v.exp \in Int /\ v.prec \in Int
  BY ValidNormal
<1>2. \A q \in Precision : Frac(v, q, rnd) = Modf(v, v.prec, q, rnd).fop
  <2> TAKE q \in Precision
  <2>1. v.kind = "normal" => (v.exp <= 0 \/ v.exp > 0)
    BY <1>1
  <2> QED
    BY <1>1, <2>1, ModfBranches
<1>3. parts.iop.value = i /\ parts.fop.value = f /\ parts.iop.ternary = 0 /\ parts.fop.ternary = 0
  <2> HIDE DEF parts
  <2>1. parts.iop = Exactly(i) /\ parts.fop = Exactly(f)
    BY DEF parts
  <2> QED
    BY <2>1, ExactlyOf
<1> HIDE DEF parts
<1>4. Recombined(parts, v, rnd)
  BY <1>2, <1>3 DEF Recombined
<1> QED
  BY <1>4 DEF parts

\* mpfr_modf gives them, whatever the value.
LEMMA ValueIsItsParts ==
    ASSUME NEW v, Valid(v), v.kind \in {"zero", "normal"}, NEW rnd \in RoundingMode
    PROVE  Recombined(Modf(v, v.prec, v.prec, rnd), v, rnd)
<1> DEFINE z == Zero(v.sign, v.prec)
           p == v.prec
<1>1. z.kind = "zero" /\ z.sign = v.sign /\ IntegerP(z) /\ z.kind # "normal"
  BY DEF Zero, IntegerP
<1>2. v.kind = "normal" => v.exp \in Int /\ v.prec \in Int
  BY ValidNormal
<1>3. v.kind = "normal" => /\ Set(v, p, rnd) = Exactly(v)
                           /\ Add(v, z, p, rnd) = Exactly(v)
                           /\ Add(z, v, p, rnd) = Exactly(v)
  <2> HIDE DEF z
  <2> QED
    BY <1>1, ValueIsKept
<1>4. CASE v.kind = "zero"
  <2>1. Modf(v, p, p, rnd).iop = Exactly(z) /\ Modf(v, p, p, rnd).fop = Exactly(z)
    BY <1>2, <1>4, ModfBranches
  <2>2. Operand(v) /\ v.sign \in Sign /\ v = z
    BY <1>4, ValidIsOperand, Kinds
  <2>3. Add(z, z, p, rnd) = Exactly(Zero(ZeroSumSign(v.sign, v.sign, rnd), p))
    BY <1>1, AdditionTable
  <2>4. ZeroSumSign(v.sign, v.sign, rnd) = v.sign
    BY <2>2 DEF ZeroSumSign, Sign
  <2>5. Add(z, z, p, rnd) = Exactly(v)
    BY <2>2, <2>3, <2>4
  <2> HIDE DEF z
  <2> QED
    BY <1>1, <1>4, <2>1, <2>5, TwoParts
<1>5. CASE v.kind = "normal" /\ v.exp <= 0
  <2>1. Modf(v, p, p, rnd).iop = Exactly(z) /\ Modf(v, p, p, rnd).fop = Set(v, p, rnd)
    BY <1>2, <1>5, ModfBranches
  <2>2. Modf(v, p, p, rnd).fop = Exactly(v) /\ Add(z, v, p, rnd) = Exactly(v)
    BY <1>3, <1>5, <2>1
  <2> HIDE DEF z
  <2> QED
    BY <1>1, <1>5, <2>1, <2>2, TwoParts
<1>6. CASE v.kind = "normal" /\ v.exp > 0 /\ IntegerP(v)
  <2>1. Modf(v, p, p, rnd).iop = Set(v, p, rnd) /\ Modf(v, p, p, rnd).fop = Exactly(z)
    BY <1>2, <1>6, ModfBranches
  <2>2. Modf(v, p, p, rnd).iop = Exactly(v) /\ Add(v, z, p, rnd) = Exactly(v)
    BY <1>3, <1>6, <2>1
  <2> HIDE DEF z
  <2> QED
    BY <1>1, <1>6, <2>1, <2>2, TwoParts
<1>7. CASE v.kind = "normal" /\ v.exp > 0 /\ ~IntegerP(v)
  <2> DEFINE i == Trunc(v, p).value
             f == FractionOf(v)
  <2>1. /\ Modf(v, p, p, rnd).iop = Set(i, p, rnd) /\ Modf(v, p, p, rnd).fop = Frac(v, p, rnd)
        /\ Frac(v, p, rnd) = Sub(v, i, p, rnd)
    BY <1>2, <1>7, ModfBranches
  <2> HIDE DEF i, f
  <2>2. i = Trunc(v, v.prec).value /\ f = FractionOf(v)
    BY DEF i, f
  <2>3. /\ Valid(i) /\ i.kind = "normal" /\ i.sign = v.sign /\ i.prec = v.prec /\ IntegerP(i)
        /\ f.sign = v.sign /\ f.exp <= 0
    BY <1>7, <2>2, PartsOfValue
  <2>4. Sub(v, i, p, rnd) = Exactly(f) /\ Add(i, f, p, rnd) = Exactly(v)
    BY <1>7, <2>2, FractionRemains
  <2>5. Set(i, p, rnd) = Exactly(i)
    BY <2>3, ValueIsKept
  <2>6. Modf(v, p, p, rnd).iop = Exactly(i) /\ Modf(v, p, p, rnd).fop = Exactly(f)
    BY <2>1, <2>4, <2>5
  <2> QED
    BY <1>7, <2>3, <2>4, <2>6, TwoParts
<1>8. v.kind = "normal" => (v.exp <= 0 \/ v.exp > 0)
  BY <1>2
<1> QED
  BY <1>4, <1>5, <1>6, <1>7, <1>8

\* A multiple of W is one of 2 * W unless its quotient is odd.
LEMMA MultiplesOfTwice ==
    ASSUME NEW m \in Nat, NEW W \in Nat \ {0}, m % W = 0
    PROVE  m % (2 * W) = 0 <=> (m \div W) % 2 # 1
<1> DEFINE u == m \div W
           k == u \div 2
           b == u % 2
<1>1. u \in Nat /\ m = u * W + 0
  BY Division
<1> HIDE DEF u
<1>2. k \in Nat /\ b \in 0 .. 1 /\ u = k * 2 + b
  BY <1>1
<1> HIDE DEF k, b
<1>3. b * W \in 0 .. 2 * W - 1 /\ 2 * W \in Nat \ {0}
  <2>1. b = 0 \/ b = 1
    BY <1>2
  <2> QED
    BY <2>1
<1>4. m = k * (2 * W) + b * W
  <2>1. (k * 2 + b) * W = k * (2 * W) + b * W
    BY <1>2
  <2>2. u * W \in Int
    BY <1>1
  <2> QED
    BY <1>1, <1>2, <2>1, <2>2
<1>5. m % (2 * W) = b * W
  <2> DEFINE T == 2 * W
             d == b * W
  <2>1. T \in Nat \ {0} /\ d \in 0 .. T - 1 /\ m = k * T + d /\ k \in Int
    BY <1>2, <1>3, <1>4
  <2> HIDE DEF T, d
  <2>2. m % T = d
    BY <2>1, DivisionUnique
  <2> QED
    BY <2>2 DEF T, d
<1>6. b * W = 0 <=> b # 1
  <2>1. b = 0 \/ b = 1
    BY <1>2
  <2> QED
    BY <2>1
<1> QED
  BY <1>5, <1>6 DEF b, u

\* Halving a value moves its exponent.
LEMMA HalfOfValue ==
    ASSUME NEW v, Valid(v), v.kind = "normal",
           NEW h, h = Div2si(v, 1, v.prec, "RNDN").value
    PROVE  h.kind = "normal" /\ h.prec = v.prec /\ h.exp = v.exp - 1 /\ h.mant = v.mant
<1>1. Operand(v) /\ v.exp \in Int
  BY ValidIsOperand, ValidNormal
<1>2. v = Normal(v.sign, v.prec, v.exp, v.mant)
  BY <1>1, Kinds
<1>3. "RNDN" \in RoundingMode
  BY DEF RoundingMode
<1>4. Set(v, v.prec, "RNDN") = Exactly(v)
  BY <1>3, ValueIsKept
<1> DEFINE r == PackNormal(v.sign, v.exp, v.mant, v.prec, v.prec, "RNDN")
<1>5. Set(v, v.prec, "RNDN") = r
  BY Zenon DEF Set, Set4
<1>6. r.value = v
  BY <1>4, <1>5, ExactlyOf
<1>7. Div2si(v, 1, v.prec, "RNDN") = Result([r.value EXCEPT !.exp = @ + (-1)], r.ternary)
  BY DEF Div2si, Scaled
<1> HIDE DEF r
<1>8. Div2si(v, 1, v.prec, "RNDN") = Result([v EXCEPT !.exp = v.exp + (-1)], r.ternary)
  BY <1>6, <1>7
<1>9. h = [v EXCEPT !.exp = v.exp + (-1)]
  BY <1>8, ExactlyOf
<1>10. h = Normal(v.sign, v.prec, v.exp + (-1), v.mant)
  BY <1>2, <1>9, NormalShape
<1>11. h.kind = "normal" /\ h.prec = v.prec /\ h.exp = v.exp + (-1) /\ h.mant = v.mant
  BY <1>10, NormalShape
<1> QED
  BY <1>1, <1>11

\* A value is odd when it is an integer and its half is not.
LEMMA OddIsHalved ==
    ASSUME NEW v, Valid(v), v.kind \in {"zero", "normal"},
           NEW h, h = Div2si(v, 1, v.prec, "RNDN").value
    PROVE  OddP(v) <=> IntegerP(v) /\ ~IntegerP(h)
<1> DEFINE p == v.prec
           e == v.exp
           m == v.mant
<1>1. CASE v.kind = "zero"
  <2>1. h = Zero(v.sign, p)
    <3>1. Div2si(v, 1, p, "RNDN") = Exactly(Zero(v.sign, p))
      BY <1>1 DEF Div2si, Scaled
    <3> QED
      BY <3>1, ExactlyOf
  <2>2. IntegerP(h) /\ ~OddP(v)
    BY <1>1, <2>1 DEF IntegerP, OddP, Zero
  <2> QED
    BY <2>2
<1>2. CASE v.kind = "normal"
  <2>1. /\ p \in Nat \ {0} /\ e \in Int /\ m \in Pow2(p - 1) .. Pow2(p) - 1
        /\ Pow2(p - 1) \in Nat \ {0} /\ Pow2(p) = 2 * Pow2(p - 1) /\ m \in Nat
    <3>1. /\ p \in Nat \ {0} /\ e \in Int /\ m \in Pow2(p - 1) .. Pow2(p) - 1
          /\ Pow2(p - 1) \in Nat \ {0} /\ Pow2(p) = 2 * Pow2(p - 1)
      BY <1>2, ValidNormal
    <3> QED
      BY <3>1
  <2>2. h.kind = "normal" /\ h.prec = p /\ h.exp = e - 1 /\ h.mant = m
    BY <1>2, HalfOfValue
  <2>3. CASE e <= 0
    BY <1>2, <2>1, <2>3 DEF OddP, IntegerP
  <2>4. CASE e > p
    <3>1. ~(e <= p) /\ e - 1 > 0 /\ ~(e - 1 < p)
      BY <2>1, <2>4
    <3>2. ~OddP(v)
      BY <3>1 DEF OddP
    <3>3. IntegerP(h)
      BY <2>2, <3>1 DEF IntegerP
    <3> QED
      BY <3>2, <3>3
  <2>5. CASE e \in 1 .. p
    <3> DEFINE W == Pow2(p - e)
    <3>1. p - e \in Nat /\ W \in Nat \ {0} /\ e > 0 /\ e <= p
      BY <2>1, <2>5, Pow2Type
    <3>2. IntegerP(v) <=> m % W = 0
      <4>1. CASE e < p
        BY <1>2, <3>1, <4>1 DEF IntegerP
      <4>2. CASE e = p
        <5>1. p - e = 0
          BY <2>1, <4>2
        <5>2. W = 1
          BY <5>1, Pow2Zero
        <5> HIDE DEF W
        <5>3. m % W = 0
          BY <2>1, <5>2
        <5>4. ~(e < p)
          BY <2>1, <4>2
        <5> QED
          BY <1>2, <3>1, <5>3, <5>4 DEF IntegerP
      <4> QED
        BY <2>1, <2>5, <4>1, <4>2
    <3>3. OddP(v) <=> (m \div W) % 2 = 1 /\ m % W = 0
      BY <1>2, <3>1 DEF OddP
    <3>4. CASE e = 1
      <4>1. ~IntegerP(h)
        BY <2>1, <2>2, <3>4 DEF IntegerP
      <4>2. W = Pow2(p - 1)
        BY <3>4
      <4> HIDE DEF W
      <4>3. m \div W = 1
        <5>1. m \in W .. 2 * W - 1
          BY <2>1, <4>2
        <5>2. m - W \in 0 .. W - 1 /\ m = 1 * W + (m - W)
          BY <2>1, <3>1, <5>1
        <5> QED
          BY <2>1, <3>1, <5>2, DivisionUnique
      <4>4. (m \div W) % 2 = 1
        BY <4>3
      <4> QED
        BY <3>2, <3>3, <4>1, <4>4
    <3>5. CASE e > 1
      <4>1. p - (e - 1) = (p - e) + 1 /\ e - 1 > 0 /\ e - 1 < p
        BY <2>1, <3>1, <3>5
      <4>2. Pow2(p - (e - 1)) = 2 * W
        <5>1. Pow2((p - e) + 1) = 2 * Pow2(p - e)
          BY <3>1, Pow2Step
        <5> QED
          BY <4>1, <5>1
      <4>3. IntegerP(h) <=> m % (2 * W) = 0
        BY <2>2, <4>1, <4>2 DEF IntegerP
      <4> HIDE DEF W
      <4>4. m % W = 0 => (m % (2 * W) = 0 <=> (m \div W) % 2 # 1)
        BY <2>1, <3>1, MultiplesOfTwice
      <4> QED
        BY <3>2, <3>3, <4>3, <4>4
    <3> QED
      BY <2>1, <2>5, <3>4, <3>5
  <2> QED
    BY <2>1, <2>3, <2>4, <2>5
<1> QED
  BY <1>1, <1>2

\* modf splits every value a register may hold into an integer and a fraction
\* below 1 of its sign, both exact, whose sum is the value; frac is that
\* fraction in every precision and mode, and a value is odd when it is an
\* integer and its half is not.
THEOREM PartsAreRecombined == Spec => []PartsRecombine
<1>1. TypeOK => PartsRecombine
  <2> SUFFICES ASSUME TypeOK, Finite(x) PROVE PartsRecombine
    BY DEF PartsRecombine
  <2>1. Valid(x) /\ x.kind \in {"zero", "normal"}
    BY DEF TypeOK, Finite
  <2>2. \A rnd \in RoundingMode : Recombined(Modf(x, x.prec, x.prec, rnd), x, rnd)
    BY <2>1, ValueIsItsParts
  <2>3. OddP(x) <=> IntegerP(x) /\ ~IntegerP(Div2si(x, 1, x.prec, "RNDN").value)
    BY <2>1, OddIsHalved
  <2> QED
    BY <2>2, <2>3, Zenon DEF PartsRecombine, Recombined
<1> QED
  BY <1>1, RegistersAreValid, PTL

-----------------------------------------------------------------------------
(* Operations with an integer operand.                                     *)

\* Two normal values of whatever precisions that are the same number.
Equals(a, b) ==
    /\ Operand(a) /\ a.kind = "normal" /\ Operand(b) /\ b.kind = "normal"
    /\ Compare(a, b) = 0

\* They have one sign, and one magnitude in every unit below theirs.
LEMMA EqualsHaveOneMagnitude ==
    ASSUME NEW a, NEW b, Equals(a, b)
    PROVE  /\ a.sign = b.sign /\ CompareMagnitude(a, b) = 0
           /\ SameNumber(a.mant, Scale(a), b.mant, Scale(b))
           /\ \A t \in Int : t <= Scale(a) /\ t <= Scale(b) => MantAt(a, t) = MantAt(b, t)
<1> DEFINE n == CompareMagnitude(a, b)
<1>1. Operand(a) /\ a.kind = "normal" /\ Operand(b) /\ b.kind = "normal" /\ Compare(a, b) = 0
  BY DEF Equals
<1>2. a.sign \in Sign /\ b.sign \in Sign
  BY <1>1, Kinds
<1>3. Compare(a, b) = IF a.sign # b.sign THEN a.sign ELSE a.sign * n
  BY <1>1, ComparisonTable
<1>4. n \in {-1, 0, 1}
  BY <1>1, OrderedMagnitudes
<1> HIDE DEF n
<1>5. a.sign = b.sign /\ n = 0
  BY <1>1, <1>2, <1>3, <1>4 DEF Sign
<1>6. SameNumber(a.mant, Scale(a), b.mant, Scale(b))
  BY <1>1, <1>5, OrderedMagnitudes DEF n
<1>7. ASSUME NEW t \in Int, t <= Scale(a), t <= Scale(b)
      PROVE  MantAt(a, t) = MantAt(b, t)
  <2> DEFINE A == MantAt(a, t)
             B == MantAt(b, t)
  <2>1. A \in Nat /\ B \in Nat
    BY <1>1, <1>7, BinadeBounds
  <2>2. n = Sgn(A - B)
    BY <1>1, <1>7, MagnitudesCompare DEF n
  <2> HIDE DEF A, B
  <2>3. A = B
    BY <1>5, <2>1, <2>2 DEF Sgn
  <2> QED
    BY <2>3 DEF A, B
<1> QED
  BY <1>5, <1>6, <1>7 DEF n

\* One sign and one magnitude in one unit make two values equal.
LEMMA OneMagnitudeEquals ==
    ASSUME NEW a, Operand(a), a.kind = "normal", NEW b, Operand(b), b.kind = "normal", a.sign = b.sign,
           NEW t \in Int, t <= Scale(a), t <= Scale(b), MantAt(a, t) = MantAt(b, t)
    PROVE  Equals(a, b)
<1> DEFINE A == MantAt(a, t)
           B == MantAt(b, t)
<1>1. A \in Nat /\ B \in Nat
  BY BinadeBounds
<1>2. CompareMagnitude(a, b) = Sgn(A - B)
  BY MagnitudesCompare
<1>3. A = B
  OBVIOUS
<1> HIDE DEF A, B
<1>4. CompareMagnitude(a, b) = 0
  BY <1>1, <1>2, <1>3 DEF Sgn
<1>5. Compare(a, b) = a.sign * CompareMagnitude(a, b)
  BY ComparisonTable
<1>6. a.sign \in Sign
  BY Kinds
<1>7. Compare(a, b) = 0
  BY <1>4, <1>5, <1>6 DEF Sign
<1> QED
  BY <1>7 DEF Equals

\* The negatives of equal values are equal.
LEMMA NegatedEquals ==
    ASSUME NEW a, NEW b, Equals(a, b)
    PROVE  Equals(Negated(a), Negated(b))
<1>1. Operand(a) /\ a.kind = "normal" /\ Operand(b) /\ b.kind = "normal" /\ Compare(a, b) = 0
  BY DEF Equals
<1>2. a.kind # "nan" /\ b.kind # "nan"
  BY <1>1
<1>3. Compare(Negated(a), Negated(b)) = -Compare(a, b)
  BY <1>1, <1>2, CompareNegated
<1>4. /\ Operand(Negated(a)) /\ Negated(a).kind = "normal"
      /\ Operand(Negated(b)) /\ Negated(b).kind = "normal"
  BY <1>1, NegatedShapes
<1>5. Compare(Negated(a), Negated(b)) = 0
  <2> DEFINE n == Compare(a, b)
  <2>1. n \in Int /\ n <= 0 /\ n >= 0
    BY <1>1
  <2> HIDE DEF n
  <2>2. -n = 0
    BY <2>1, OppositeOfZero
  <2> QED
    BY <1>3, <2>2 DEF n
<1> QED
  BY <1>4, <1>5 DEF Equals

\* There is a unit below any five.
LEMMA UnitBelow ==
    ASSUME NEW a \in Int, NEW b \in Int, NEW c \in Int, NEW d \in Int, NEW e \in Int
    PROVE  \E t \in Int : t <= a /\ t <= b /\ t <= c /\ t <= d /\ t <= e
<1>1. PICK f \in Int : f <= a /\ f <= b
  OBVIOUS
<1>2. PICK g \in Int : g <= f /\ g <= c
  OBVIOUS
<1>3. PICK h \in Int : h <= g /\ h <= d
  OBVIOUS
<1>4. PICK t \in Int : t <= h /\ t <= e
  OBVIOUS
<1>5. t <= a /\ t <= b /\ t <= c /\ t <= d /\ t <= e
  BY <1>1, <1>2, <1>3, <1>4
<1> QED
  BY <1>5

\* A positive number of units with a sign is not 0.
LEMMA SignedUnits ==
    ASSUME NEW s \in Sign, NEW m \in Nat \ {0}, NEW n \in Nat
    PROVE  s * (m * Pow2(n)) # 0 /\ m * Pow2(n) \in Nat \ {0}
<1> DEFINE X == m * Pow2(n)
<1>1. Pow2(n) \in Nat \ {0}
  BY Pow2Type
<1>2. X \in Nat \ {0}
  BY <1>1, NaturalProducts
<1> HIDE DEF X
<1>3. s * X # 0
  BY <1>2 DEF Sign
<1> QED
  BY <1>2, <1>3 DEF X

\* Two sums that are the same number have one rounding.
LEMMA SumsRoundAlike ==
    ASSUME NEW v, Operand(v), v.kind = "normal", NEW a, NEW b, Equals(a, b),
           NEW q \in Precision, NEW rnd \in RoundingMode
    PROVE  Add(v, a, q, rnd) = Add(v, b, q, rnd)
<1> DEFINE ra == Add(v, a, q, rnd)
           rb == Add(v, b, q, rnd)
<1>1. Operand(a) /\ a.kind = "normal" /\ Operand(b) /\ b.kind = "normal"
  BY DEF Equals
<1>2. a.sign = b.sign /\ \A t \in Int : t <= Scale(a) /\ t <= Scale(b) => MantAt(a, t) = MantAt(b, t)
  BY EqualsHaveOneMagnitude
<1>3. Scale(v) \in Int /\ Scale(a) \in Int /\ Scale(b) \in Int
  BY <1>1, NormalParts
<1>4. ASSUME NEW t \in Int, t <= Scale(v), t <= Scale(a), t <= Scale(b)
      PROVE  SumOf(v, a, t) = SumOf(v, b, t)
  <2>1. /\ SumOf(v, a, t) = v.sign * MantAt(v, t) + a.sign * MantAt(a, t)
        /\ SumOf(v, b, t) = v.sign * MantAt(v, t) + b.sign * MantAt(b, t)
    BY <1>1, <1>4, SumInMants
  <2> QED
    BY <1>2, <1>4, <2>1
<1>5. ra = AddNormalNormal(v, a, q, rnd) /\ rb = AddNormalNormal(v, b, q, rnd)
  BY <1>1 DEF Add
<1>6. SumRounding(ra, v, a, q, rnd) /\ SumRounding(rb, v, b, q, rnd)
  BY <1>1, <1>5, AddNormalRounds
<1>7. CASE \A t \in Int : t <= Scale(v) /\ t <= Scale(a) => SumOf(v, a, t) = 0
  <2>1. \A t \in Int : t <= Scale(v) /\ t <= Scale(b) => SumOf(v, b, t) = 0
    <3> SUFFICES ASSUME NEW s \in Sign, NEW m \in Nat \ {0}, NEW l \in Int,
                        \A i \in Int : i <= l /\ i <= Scale(v) /\ i <= Scale(b) =>
                            SumOf(v, b, i) = s * (m * Pow2(l - i))
                 PROVE  FALSE
      BY <1>6 DEF SumRounding
    <3>1. PICK i \in Int : i <= l /\ i <= Scale(v) /\ i <= Scale(a) /\ i <= Scale(b)
      BY <1>3, UnitBelow
    <3>2. SumOf(v, b, i) = 0 /\ SumOf(v, b, i) = s * (m * Pow2(l - i))
      BY <1>4, <1>7, <3>1
    <3>3. l - i \in Nat
      BY <3>1
    <3> QED
      BY <3>2, <3>3, SignedUnits
  <2>2. /\ ra = Exactly(Zero(CancellationZeroSign(rnd), q))
        /\ rb = Exactly(Zero(CancellationZeroSign(rnd), q))
    BY <1>1, <1>7, <2>1, CancelledSum
  <2> QED
    BY <2>2
<1>8. CASE ~\A t \in Int : t <= Scale(v) /\ t <= Scale(a) => SumOf(v, a, t) = 0
  <2> HIDE DEF ra, rb
  <2>1. PICK s \in Sign, m \in Nat \ {0}, l \in Int :
           /\ RoundedTo(ra, s, q, rnd, m, l, 1)
           /\ \A i \in Int : i <= l /\ i <= Scale(v) /\ i <= Scale(a) => SumOf(v, a, i) = s * (m * Pow2(l - i))
    BY <1>6, <1>8 DEF SumRounding
  <2>2. ~\A t \in Int : t <= Scale(v) /\ t <= Scale(b) => SumOf(v, b, t) = 0
    <3>1. PICK i \in Int : i <= l /\ i <= Scale(v) /\ i <= Scale(a) /\ i <= Scale(b)
      BY <1>3, UnitBelow
    <3>2. SumOf(v, b, i) = s * (m * Pow2(l - i)) /\ l - i \in Nat
      BY <1>4, <2>1, <3>1
    <3>3. SumOf(v, b, i) # 0
      BY <3>2, SignedUnits
    <3> QED
      BY <3>1, <3>3
  <2>3. PICK r \in Sign, n \in Nat \ {0}, k \in Int :
           /\ RoundedTo(rb, r, q, rnd, n, k, 1)
           /\ \A i \in Int : i <= k /\ i <= Scale(v) /\ i <= Scale(b) => SumOf(v, b, i) = r * (n * Pow2(k - i))
    BY <1>6, <2>2 DEF SumRounding
  <2>4. PICK i \in Int : i <= l /\ i <= k /\ i <= Scale(v) /\ i <= Scale(a) /\ i <= Scale(b)
    BY <1>3, UnitBelow
  <2> DEFINE X == m * Pow2(l - i)
             Y == n * Pow2(k - i)
  <2>5. s * X = r * Y
    <3>1. SumOf(v, a, i) = SumOf(v, b, i)
      BY <1>4, <2>4
    <3> QED
      BY <2>1, <2>3, <2>4, <3>1
  <2>6. X \in Nat \ {0} /\ Y \in Nat \ {0}
    BY <2>4, SignedUnits
  <2>7. s = r /\ X = Y
    <3> HIDE DEF X, Y
    <3> QED
      BY <2>5, <2>6 DEF Sign
  <2>8. SameNumber(m, l, n, k)
    BY <2>4, <2>7 DEF SameNumber
  <2>9. q \in Nat \ {0} /\ 1 \in Nat \ {0} /\ m \in Nat /\ n \in Nat
    BY PrecAssumption DEF Precision
  <2>10. RoundedTo(ra, s, q, rnd, m, l, 1) /\ RoundedTo(rb, s, q, rnd, n, k, 1)
    BY <2>1, <2>3, <2>7
  <2>11. ra = rb
    BY <2>8, <2>9, <2>10, RoundingIsUnique
  <2> QED
    BY <2>11 DEF ra, rb
<1> QED
  BY <1>7, <1>8

\* The operations do not tell equal values apart.
LEMMA AddOfEquals ==
    ASSUME NEW v, Operand(v), NEW a, NEW b, Equals(a, b), NEW q \in Precision, NEW rnd \in RoundingMode
    PROVE  Add(v, a, q, rnd) = Add(v, b, q, rnd) /\ Sub(v, a, q, rnd) = Sub(v, b, q, rnd)
<1>1. ASSUME NEW c, NEW d, Equals(c, d)
      PROVE  Add(v, c, q, rnd) = Add(v, d, q, rnd)
  <2>1. Operand(c) /\ c.kind = "normal" /\ Operand(d) /\ d.kind = "normal" /\ Compare(c, d) = 0
    BY <1>1 DEF Equals
  <2>2. CASE v.kind = "normal"
    BY <1>1, <2>2, SumsRoundAlike
  <2>3. CASE v.kind = "zero"
    <3>1. RoundToPrec(c, q, rnd) = RoundToPrec(d, q, rnd)
      BY <2>1, EqualsRoundAlike
    <3> QED
      BY <2>1, <2>3, <3>1, AdditionTable
  <2>4. CASE v.kind \in {"nan", "inf"}
    BY <2>1, <2>4, AdditionTable
  <2> QED
    BY <2>2, <2>3, <2>4, Kinds
<1>2. Equals(Negated(a), Negated(b))
  BY NegatedEquals
<1>3. a.kind = "normal" /\ b.kind = "normal"
  BY DEF Equals
<1>4. CASE v.kind = "nan"
  BY <1>1, <1>4 DEF Sub
<1>5. CASE v.kind # "nan"
  <2>1. /\ Sub(v, a, q, rnd) = Add(v, Negated(a), q, rnd)
        /\ Sub(v, b, q, rnd) = Add(v, Negated(b), q, rnd)
    BY <1>3, <1>5 DEF Sub, Negated
  <2> QED
    BY <1>1, <1>2, <2>1
<1> QED
  BY <1>4, <1>5

\* mpfr_mul, kind by kind.
LEMMA MultiplicationTable ==
    ASSUME NEW a, Operand(a), NEW b, Operand(b), NEW q, NEW rnd
    PROVE  /\ a.kind = "nan" \/ b.kind = "nan" => Mul(a, b, q, rnd) = Exactly(NAN_VALUE)
           /\ a.kind = "inf" /\ b.kind = "zero" => Mul(a, b, q, rnd) = Exactly(NAN_VALUE)
           /\ a.kind = "inf" /\ b.kind = "normal" => Mul(a, b, q, rnd) = Exactly(Inf(a.sign * b.sign, q))
           /\ a.kind = "zero" /\ b.kind \in {"zero", "normal"} => Mul(a, b, q, rnd) = Exactly(Zero(a.sign * b.sign, q))
           /\ a.kind = "normal" /\ b.kind = "zero" => Mul(a, b, q, rnd) = Exactly(Zero(a.sign * b.sign, q))
<1>1. a.kind = "nan" \/ b.kind = "nan" => Mul(a, b, q, rnd) = Exactly(NAN_VALUE)
  BY DEF Mul
<1>2. ASSUME a.kind = "inf", b.kind = "zero" PROVE Mul(a, b, q, rnd) = Exactly(NAN_VALUE)
  <2>1. {a.kind, b.kind} = {"inf", "zero"}
    BY <1>2
  <2> QED
    BY <1>2, <2>1 DEF Mul
<1>3. ASSUME a.kind = "inf", b.kind = "normal" PROVE Mul(a, b, q, rnd) = Exactly(Inf(a.sign * b.sign, q))
  <2>1. {a.kind, b.kind} \in {{"inf"}, {"inf", "normal"}} /\ {a.kind, b.kind} # {"inf", "zero"}
    BY <1>3
  <2> QED
    BY <1>3, <2>1 DEF Mul
<1>4. ASSUME \/ a.kind = "zero" /\ b.kind \in {"zero", "normal"}
             \/ a.kind = "normal" /\ b.kind = "zero"
      PROVE  Mul(a, b, q, rnd) = Exactly(Zero(a.sign * b.sign, q))
  <2>1. /\ {a.kind, b.kind} \in {{"zero"}, {"zero", "normal"}}
        /\ {a.kind, b.kind} # {"inf", "zero"}
        /\ {a.kind, b.kind} \notin {{"inf"}, {"inf", "normal"}}
        /\ a.kind # "nan" /\ b.kind # "nan" /\ ~(a.kind = "normal" /\ b.kind = "normal")
    BY <1>4
  <2> QED
    BY <2>1 DEF Mul
<1> QED
  BY <1>1, <1>2, <1>3, <1>4

\* A factor keeps numbers the same.
LEMMA SameProducts ==
    ASSUME NEW m \in Nat, NEW l \in Int, NEW n \in Nat, NEW k \in Int, SameNumber(m, l, n, k),
           NEW c \in Nat, NEW j \in Int
    PROVE  SameNumber(c * m, j + l, c * n, j + k)
<1>1. PICK t \in Int : t <= l /\ t <= k /\ m * Pow2(l - t) = n * Pow2(k - t)
  BY DEF SameNumber
<1> DEFINE P == Pow2(l - t)
           Q == Pow2(k - t)
<1>2. P \in Nat /\ Q \in Nat /\ (j + l) - (j + t) = l - t /\ (j + k) - (j + t) = k - t
  BY <1>1, Pow2Type
<1>3. j + t \in Int /\ j + t <= j + l /\ j + t <= j + k
  BY <1>1
<1>4. Pow2((j + l) - (j + t)) = P /\ Pow2((j + k) - (j + t)) = Q
  BY <1>2
<1>5. m * P = n * Q
  BY <1>1
<1> HIDE DEF P, Q
<1>6. (c * m) * P = c * (m * P) /\ (c * n) * Q = c * (n * Q)
  BY <1>2
<1>7. (c * m) * Pow2((j + l) - (j + t)) = (c * n) * Pow2((j + k) - (j + t))
  BY <1>4, <1>5, <1>6
<1> QED
  BY <1>3, <1>7, Zenon DEF SameNumber

\* So with products,
LEMMA MulOfEquals ==
    ASSUME NEW v, Operand(v), NEW a, NEW b, Equals(a, b), NEW q \in Precision, NEW rnd \in RoundingMode
    PROVE  Mul(v, a, q, rnd) = Mul(v, b, q, rnd)
<1>1. /\ Operand(a) /\ a.kind = "normal" /\ Operand(b) /\ b.kind = "normal"
      /\ a.sign = b.sign /\ SameNumber(a.mant, Scale(a), b.mant, Scale(b))
  BY EqualsHaveOneMagnitude DEF Equals
<1>2. CASE v.kind = "normal"
  <2> DEFINE ra == Mul(v, a, q, rnd)
             rb == Mul(v, b, q, rnd)
             s == v.sign * a.sign
             m == v.mant * a.mant
             n == v.mant * b.mant
             l == Scale(v) + Scale(a)
             k == Scale(v) + Scale(b)
  <2>1. /\ v.mant \in Nat /\ a.mant \in Nat /\ b.mant \in Nat
        /\ Scale(v) \in Int /\ Scale(a) \in Int /\ Scale(b) \in Int
    BY <1>1, <1>2, NormalParts
  <2>2. SameNumber(m, l, n, k)
    BY <1>1, <2>1, SameProducts
  <2>3. /\ RoundedTo(ra, s, q, rnd, m, l, 1) /\ s \in Sign /\ m \in Nat
        /\ RoundedTo(rb, v.sign * b.sign, q, rnd, n, k, 1) /\ n \in Nat
    BY <1>1, <1>2, MulRounds
  <2>4. RoundedTo(rb, s, q, rnd, n, k, 1)
    BY <1>1, <2>3
  <2>5. q \in Nat \ {0} /\ 1 \in Nat \ {0} /\ l \in Int /\ k \in Int
    BY <2>1, PrecAssumption DEF Precision
  <2> HIDE DEF ra, rb, s, m, n, l, k
  <2>6. ra = rb
    BY <2>2, <2>3, <2>4, <2>5, RoundingIsUnique
  <2> QED
    BY <2>6 DEF ra, rb
<1>3. CASE v.kind \in {"nan", "inf", "zero"}
  BY <1>1, <1>3, MultiplicationTable
<1> QED
  BY <1>2, <1>3, Kinds

\* comparisons,
LEMMA CompareOfEquals ==
    ASSUME NEW v, Operand(v), NEW a, NEW b, Equals(a, b)
    PROVE  Compare(v, a) = Compare(v, b)
<1>1. Operand(a) /\ a.kind = "normal" /\ Operand(b) /\ b.kind = "normal" /\ a.sign = b.sign
  BY EqualsHaveOneMagnitude DEF Equals
<1>2. CASE v.kind = "normal"
  <2>1. Scale(v) \in Int /\ Scale(a) \in Int /\ Scale(b) \in Int
    BY <1>1, <1>2, NormalParts
  <2>2. PICK t \in Int : t <= Scale(v) /\ t <= Scale(a) /\ t <= Scale(b)
    BY <2>1, UnitBelow
  <2>3. MantAt(a, t) = MantAt(b, t)
    BY <2>2, EqualsHaveOneMagnitude
  <2>4. /\ CompareMagnitude(v, a) = Sgn(MantAt(v, t) - MantAt(a, t))
        /\ CompareMagnitude(v, b) = Sgn(MantAt(v, t) - MantAt(b, t))
    BY <1>1, <1>2, <2>2, MagnitudesCompare
  <2>5. CompareMagnitude(v, a) = CompareMagnitude(v, b)
    BY <2>3, <2>4
  <2> QED
    BY <1>1, <1>2, <2>5, ComparisonTable
<1>3. CASE v.kind \in {"inf", "zero"}
  BY <1>1, <1>3, ComparisonTable
<1>4. CASE v.kind = "nan"
  BY <1>4 DEF Compare
<1> QED
  BY <1>2, <1>3, <1>4, Kinds

\* and copies.
LEMMA SetOfEquals ==
    ASSUME NEW a, NEW b, Equals(a, b), NEW q \in Precision, NEW rnd \in RoundingMode
    PROVE  Set(a, q, rnd) = Set(b, q, rnd)
<1>1. RoundToPrec(a, q, rnd) = RoundToPrec(b, q, rnd)
  BY EqualsRoundAlike DEF Equals
<1>2. Set(a, q, rnd) = RoundToPrec(a, q, rnd) /\ Set(b, q, rnd) = RoundToPrec(b, q, rnd)
  BY Set4Table
<1> QED
  BY <1>1, <1>2

\* An integer with all its bits, and what copies of it are.
LEMMA ExactZShape ==
    ASSUME NEW n \in Int, n # 0, NEW z, z = ExactZ(n)
    PROVE  /\ Operand(z) /\ z.kind = "normal" /\ z.sign = (IF n < 0 THEN -1 ELSE 1)
           /\ z.mant = Magnitude(n) /\ z.exp = BitLength[Magnitude(n)] /\ z.prec = BitLength[Magnitude(n)]
           /\ Scale(z) = 0
           /\ \A q, rnd : SetZ(n, q, rnd) = Set(z, q, rnd)
<1> DEFINE a == Magnitude(n)
           b == BitLength[a]
           s == IF n < 0 THEN -1 ELSE 1
<1>1. b \in Nat \ {0} /\ a \in Nat \ {0} /\ a \in Pow2(b - 1) .. Pow2(b) - 1
  BY MagnitudeLength
<1>2. Operand(z)
  BY ExactZIsOperand
<1>3. z = PackNormal(s, b, a, b, b, "RNDN").value
  BY Zenon DEF ExactZ, SetZ, Magnitude
<1>4. \A q, rnd : SetZ(n, q, rnd) = PackNormal(s, b, a, b, q, rnd)
  BY Zenon DEF SetZ, Magnitude
<1> HIDE DEF a, b, s
<1>5. PackNormal(s, b, a, b, b, "RNDN") = Exactly(Normal(s, b, b, a * Pow2(b - b)))
  BY <1>1 DEF PackNormal
<1>6. a * Pow2(b - b) = a
  <2>1. b - b = 0
    BY <1>1
  <2> QED
    BY <1>1, <2>1, Pow2Zero
<1>7. z = Normal(s, b, b, a)
  BY <1>3, <1>5, <1>6, ExactlyOf
<1>8. z.kind = "normal" /\ z.sign = s /\ z.prec = b /\ z.exp = b /\ z.mant = a
  BY <1>7, NormalShape
<1>9. Scale(z) = 0
  BY <1>1, <1>8 DEF Scale
<1>10. \A q, rnd : SetZ(n, q, rnd) = Set(z, q, rnd)
  <2> TAKE q, rnd
  <2>1. SetZ(n, q, rnd) = PackNormal(s, b, a, b, q, rnd)
    BY <1>4
  <2>2. Set(z, q, rnd) = PackNormal(z.sign, z.exp, z.mant, z.prec, q, rnd)
    BY <1>8, Zenon DEF Set, Set4
  <2> QED
    BY <1>8, <2>1, <2>2
<1> QED
  BY <1>2, <1>8, <1>9, <1>10 DEF a, b, s

\* The opposite integer.
LEMMA ExactZNegated ==
    ASSUME NEW n \in Int, n # 0
    PROVE  Negated(ExactZ(-n)) = ExactZ(n) /\ Negated(ExactZ(n)) = ExactZ(-n)
<1> DEFINE a == Magnitude(n)
           b == BitLength[a]
<1>1. ASSUME NEW m \in Int, m # 0
      PROVE  ExactZ(m) = Normal(IF m < 0 THEN -1 ELSE 1, BitLength[Magnitude(m)], BitLength[Magnitude(m)], Magnitude(m))
  <2> DEFINE z == ExactZ(m)
             c == BitLength[Magnitude(m)]
             s == IF m < 0 THEN -1 ELSE 1
  <2>1. Operand(z) /\ z.kind = "normal" /\ z.sign = s /\ z.mant = Magnitude(m) /\ z.exp = c /\ z.prec = c
    BY <1>1, ExactZShape
  <2> HIDE DEF z, c, s
  <2>2. z = Normal(s, c, c, Magnitude(m))
    BY <2>1, Kinds
  <2> QED
    BY <2>2 DEF z, c, s
<1>2. Magnitude(-n) = a /\ -n \in Int /\ -n # 0 /\ -(-n) = n
  BY DEF Magnitude
<1> DEFINE s == IF n < 0 THEN -1 ELSE 1
           r == IF -n < 0 THEN -1 ELSE 1
<1>3. ExactZ(n) = Normal(s, b, b, a) /\ ExactZ(-n) = Normal(r, b, b, a)
  BY <1>1, <1>2
<1>4. r = -s /\ s = -r
  BY <1>2
<1> HIDE DEF a, b, s, r
<1>5. \A t : Negated(Normal(t, b, b, a)) = Normal(-t, b, b, a)
  BY DEF Negated, Normal
<1> QED
  BY <1>3, <1>4, <1>5

\* The integer of a register is the value of the register.
LEMMA IntegerEquals ==
    ASSUME NEW v, Valid(v), v.kind = "normal", IntegerP(v)
    PROVE  Integer(v) \in Int /\ Integer(v) # 0 /\ Equals(ExactZ(Integer(v)), v)
<1> DEFINE p == v.prec
           e == v.exp
           m == v.mant
           s == v.sign
           N == IF e >= p THEN m * Pow2(e - p) ELSE m \div Pow2(p - e)
           n == Integer(v)
           z == ExactZ(n)
<1>1. Operand(v) /\ p \in Nat \ {0} /\ e \in Int /\ m \in Nat \ {0} /\ s \in Sign /\ Scale(v) = e - p
  BY ValidIsOperand, NormalParts
<1>2. n = s * N
  BY DEF Integer
<1> HIDE DEF n
<1>3. PICK t \in Int : t <= 0 /\ t <= Scale(v) /\ N \in Nat \ {0} /\ MantAt(v, t) = N * Pow2(0 - t)
  <2>1. CASE e >= p
    <3>1. e - p \in Nat /\ (e - p) - 0 = e - p /\ 0 - 0 = 0
      BY <1>1, <2>1
    <3>2. N = m * Pow2(e - p) /\ Pow2(e - p) \in Nat \ {0}
      BY <2>1, <3>1, Pow2Type
    <3> DEFINE P == Pow2(e - p)
    <3>3. m * P \in Nat \ {0}
      BY <1>1, <3>2, NaturalProducts
    <3>4. MantAt(v, 0) = m * P
      BY <1>1, <3>1 DEF MantAt
    <3> HIDE DEF P
    <3>5. N = m * P
      BY <3>2 DEF P
    <3> HIDE DEF N
    <3>6. MantAt(v, 0) = N * Pow2(0 - 0) /\ N \in Nat \ {0}
      BY <3>1, <3>3, <3>4, <3>5, Pow2Zero
    <3> QED
      BY <1>1, <3>1, <3>6
  <2>2. CASE e < p
    <3> DEFINE W == Pow2(p - e)
    <3>1. p - e \in Nat /\ W \in Nat \ {0} /\ 0 - (e - p) = p - e /\ (e - p) - (e - p) = 0
      BY <1>1, <2>2, Pow2Type
    <3>2. m % W = 0
      BY <2>2 DEF IntegerP
    <3>3. N = m \div W
      BY <1>1, <2>2
    <3> HIDE DEF W
    <3>4. N \in Nat /\ m = N * W
      <4>1. m \div W \in Nat /\ m = (m \div W) * W + (m % W)
        BY <1>1, <3>1, Division
      <4> HIDE DEF N
      <4>2. N \in Nat /\ m = N * W + 0
        BY <3>2, <3>3, <4>1
      <4>3. N * W \in Nat
        BY <3>1, <4>2, NaturalProducts
      <4> QED
        BY <4>2, <4>3
    <3> HIDE DEF N
    <3>5. N # 0
      BY <1>1, <3>1, <3>4
    <3>6. MantAt(v, e - p) = m * Pow2(0)
      BY <1>1, <3>1 DEF MantAt
    <3>7. MantAt(v, e - p) = N * Pow2(0 - (e - p))
      BY <1>1, <3>1, <3>4, <3>6, Pow2Zero DEF W
    <3> QED
      BY <1>1, <2>2, <3>4, <3>5, <3>7
  <2> QED
    BY <1>1, <2>1, <2>2
<1> HIDE DEF N
<1>4. n \in Int /\ n # 0 /\ Magnitude(n) = N /\ (IF n < 0 THEN -1 ELSE 1) = s
  BY <1>1, <1>2, <1>3 DEF Sign, Magnitude
<1>5. /\ Operand(z) /\ z.kind = "normal" /\ z.sign = (IF n < 0 THEN -1 ELSE 1)
      /\ z.mant = Magnitude(n) /\ Scale(z) = 0
  BY <1>4, ExactZShape
<1> HIDE DEF z
<1>6. MantAt(z, t) = MantAt(v, t)
  BY <1>3, <1>4, <1>5 DEF MantAt
<1>7. z.sign = v.sign /\ t <= Scale(z)
  BY <1>3, <1>4, <1>5
<1>8. Equals(z, v)
  BY <1>1, <1>3, <1>5, <1>6, <1>7, OneMagnitudeEquals
<1> QED
  BY <1>4, <1>8 DEF z, n

\* A power of two in one bit.
PowerOfTwo(k) == Normal(1, 1, k + 1, 1)

\* Such a power is a valid operand whose magnitude is 2^k.
LEMMA PowerIsOperand ==
    ASSUME NEW k \in Int, NEW v, v = PowerOfTwo(k)
    PROVE  Operand(v) /\ v.kind = "normal" /\ v.sign = 1 /\ v.mant = 1 /\ Scale(v) = k
<1>1. v.kind = "normal" /\ v.sign = 1 /\ v.prec = 1 /\ v.exp = k + 1 /\ v.mant = 1
  BY NormalShape DEF PowerOfTwo
<1>2. Pow2(0) = 1 /\ 1 - 1 = 0 /\ Pow2(1) = 2
  <2>1. Pow2(0 + 1) = 2 * Pow2(0) /\ 0 + 1 = 1
    BY Pow2Step
  <2> QED
    BY <2>1, Pow2Zero
<1>3. 1 \in Pow2(1 - 1) .. Pow2(1) - 1 /\ 1 \in Sign /\ k + 1 \in Int /\ 1 \in Nat \ {0}
  BY <1>2 DEF Sign
<1>4. Operand(v)
  BY <1>3, NormalIsOperand DEF PowerOfTwo
<1>5. Scale(v) = k
  BY <1>1 DEF Scale
<1> QED
  BY <1>1, <1>4, <1>5

\* It is the integer it is a power of, when it is one.
LEMMA PowerEquals ==
    ASSUME NEW k \in Nat
    PROVE  Equals(PowerOfTwo(k), ExactZ(Pow2(k)))
<1> DEFINE c == Pow2(k)
           v == PowerOfTwo(k)
           z == ExactZ(c)
<1>1. c \in Nat \ {0} /\ k \in Int
  BY Pow2Type
<1>2. Operand(v) /\ v.kind = "normal" /\ v.sign = 1 /\ v.mant = 1 /\ Scale(v) = k
  BY <1>1, PowerIsOperand
<1>3. Operand(z) /\ z.kind = "normal" /\ z.sign = 1 /\ z.mant = c /\ Scale(z) = 0
  <2> HIDE DEF c
  <2>1. c \in Int /\ c # 0 /\ ~(c < 0) /\ Magnitude(c) = c
    BY <1>1 DEF Magnitude
  <2> QED
    BY <2>1, ExactZShape
<1>4. MantAt(v, 0) = MantAt(z, 0)
  <2>1. k - 0 = k /\ 0 - 0 = 0
    OBVIOUS
  <2>2. MantAt(v, 0) = 1 * Pow2(k) /\ MantAt(z, 0) = c * Pow2(0)
    <3> HIDE DEF v, z, c
    <3> QED
      BY <1>2, <1>3, <2>1 DEF MantAt
  <2> QED
    BY <1>1, <2>2, Pow2Zero
<1> HIDE DEF v, z
<1>5. 0 \in Int /\ 0 <= Scale(v) /\ 0 <= Scale(z)
  BY <1>2, <1>3
<1>6. Equals(v, z)
  BY <1>2, <1>3, <1>4, <1>5, OneMagnitudeEquals
<1> QED
  BY <1>6 DEF v, z

\* Moving the exponent of a rounding rounds the moved number.
LEMMA RoundedToShifted ==
    ASSUME NEW r, NEW s, NEW q \in Nat \ {0}, NEW rnd, NEW m, NEW l \in Int, NEW D,
           RoundedTo(r, s, q, rnd, m, l, D), NEW k \in Int,
           NEW res, res = Result([r.value EXCEPT !.exp = r.value.exp + k], r.ternary)
    PROVE  RoundedTo(res, s, q, rnd, m, l + k, D)
<1> DEFINE E == r.value.exp
           M == r.value.mant
           t == r.ternary
           F == E + k
<1>1. /\ r = Result(Normal(s, q, E, M), t)
      /\ E \in Int /\ M \in Pow2(q - 1) .. Pow2(q) - 1
      /\ \A b \in Int : b <= l /\ b <= E - q - 2 =>
             RoundsTo(M, Pow2(q - 1), D * Pow2(E - q - 2 - b), m * Pow2(l - b), s, t, rnd)
  BY DEF RoundedTo
<1>2. r.value = Normal(s, q, E, M)
  <2> HIDE DEF E, M, t
  <2> QED
    BY <1>1, ExactlyOf
<1>3. res = Result([r.value EXCEPT !.exp = F], t)
  OBVIOUS
<1> HIDE DEF E, M, t
<1>4. res = Result(Normal(s, q, F, M), t)
  <2> HIDE DEF F
  <2>1. [r.value EXCEPT !.exp = F] = Normal(s, q, F, M)
    BY <1>2, NormalShape
  <2> QED
    BY <1>3, <2>1
<1>5. res.value.exp = F /\ res.value.mant = M /\ res.ternary = t
  <2> HIDE DEF F
  <2> QED
    BY <1>4, ExactlyOf, NormalShape
<1>6. ASSUME NEW b \in Int, b <= l + k, b <= F - q - 2
      PROVE  RoundsTo(M, Pow2(q - 1), D * Pow2(F - q - 2 - b), m * Pow2(l + k - b), s, t, rnd)
  <2> DEFINE a == b - k
  <2>1. a \in Int /\ a <= l /\ a <= E - q - 2 /\ E - q - 2 - a = F - q - 2 - b /\ l - a = l + k - b
    BY <1>1, <1>6
  <2> HIDE DEF a, F
  <2>2. RoundsTo(M, Pow2(q - 1), D * Pow2(E - q - 2 - a), m * Pow2(l - a), s, t, rnd)
    BY <1>1, <2>1
  <2> QED
    BY <2>1, <2>2
<1>7. F \in Int
  BY <1>1
<1> HIDE DEF F
<1> QED
  BY <1>1, <1>4, <1>5, <1>6, <1>7 DEF RoundedTo

\* What a scaling rounds.
LEMMA ScaledRounds ==
    ASSUME NEW v, Operand(v), v.kind = "normal", NEW k \in Int,
           NEW q \in Precision, NEW rnd \in RoundingMode
    PROVE  RoundedTo(Scaled(v, k, q, rnd), v.sign, q, rnd, v.mant, Scale(v) + k, 1)
<1> DEFINE r == PackNormal(v.sign, v.exp, v.mant, v.prec, q, rnd)
           res == Scaled(v, k, q, rnd)
<1>1. q \in Nat \ {0} /\ v.sign \in Sign /\ Scale(v) \in Int
  BY NormalParts, PrecAssumption DEF Precision
<1>2. Set4(v, q, rnd, v.sign) = r
  BY DEF Set4
<1>3. RoundedTo(r, v.sign, q, rnd, v.mant, Scale(v), 1)
  BY <1>1, <1>2, Set4Rounds
<1>4. res = Result([r.value EXCEPT !.exp = r.value.exp + k], r.ternary)
  BY DEF Scaled
<1> HIDE DEF r, res
<1>5. RoundedTo(res, v.sign, q, rnd, v.mant, Scale(v) + k, 1)
  BY <1>1, <1>3, <1>4, RoundedToShifted
<1> QED
  BY <1>5 DEF res

\* mpfr_div by a normal value, kind by kind.
LEMMA DivisionTable ==
    ASSUME NEW a, NEW b, b.kind = "normal", NEW q, NEW rnd
    PROVE  /\ a.kind = "nan" => Div(a, b, q, rnd) = Exactly(NAN_VALUE)
           /\ a.kind = "inf" => Div(a, b, q, rnd) = Exactly(Inf(a.sign * b.sign, q))
           /\ a.kind = "zero" => Div(a, b, q, rnd) = Exactly(Zero(a.sign * b.sign, q))
  BY DEF Div

\* A scaling is a product with a power of two, or the quotient by one.
LEMMA ScaledIsProduct ==
    ASSUME NEW v, Operand(v), NEW k \in Int, NEW q \in Precision, NEW rnd \in RoundingMode
    PROVE  /\ Scaled(v, k, q, rnd) = Mul(v, PowerOfTwo(k), q, rnd)
           /\ Scaled(v, -k, q, rnd) = Div(v, PowerOfTwo(k), q, rnd)
<1> DEFINE w == PowerOfTwo(k)
           s == v.sign
<1>1. Operand(w) /\ w.kind = "normal" /\ w.sign = 1 /\ w.mant = 1 /\ Scale(w) = k
  BY PowerIsOperand
<1> HIDE DEF w
<1>2. v.kind \in {"nan", "inf", "zero", "normal"} /\ s \in Sign /\ s * w.sign = s
  <2>1. v.kind \in {"nan", "inf", "zero", "normal"} /\ s \in Sign
    BY Kinds
  <2> QED
    BY <1>1, <2>1 DEF Sign
<1>3. CASE v.kind = "normal"
  <2> DEFINE m == v.mant
             l == Scale(v) + k
             j == Scale(v) - k
  <2>1. m \in Nat /\ Scale(v) \in Int /\ q \in Nat \ {0} /\ 1 \in Nat \ {0} /\ -k \in Int
    BY <1>3, NormalParts, PrecAssumption DEF Precision
  <2>2. m * 1 = m /\ Scale(v) + (-k) = j /\ l \in Int /\ j \in Int
    BY <2>1
  <2>3. RoundedTo(Scaled(v, k, q, rnd), s, q, rnd, m, l, 1)
    BY <1>3, ScaledRounds
  <2>4. RoundedTo(Scaled(v, -k, q, rnd), s, q, rnd, m, Scale(v) + (-k), 1)
    BY <1>3, <2>1, ScaledRounds
  <2>5. RoundedTo(Mul(v, w, q, rnd), s * w.sign, q, rnd, m * w.mant, Scale(v) + Scale(w), 1)
    BY <1>1, <1>3, MulRounds
  <2>6. RoundedTo(Div(v, w, q, rnd), s * w.sign, q, rnd, m, Scale(v) - Scale(w), w.mant)
    BY <1>1, <1>3, DivRounds
  <2>7. /\ RoundedTo(Mul(v, w, q, rnd), s, q, rnd, m, l, 1)
        /\ RoundedTo(Div(v, w, q, rnd), s, q, rnd, m, j, 1)
        /\ RoundedTo(Scaled(v, -k, q, rnd), s, q, rnd, m, j, 1)
    BY <1>1, <1>2, <2>2, <2>4, <2>5, <2>6
  <2> HIDE DEF m, l, j, s
  <2>8. SameNumber(m, l, m, l) /\ SameNumber(m, j, m, j)
    BY <2>1, <2>2, SameAsItself
  <2>9. Scaled(v, k, q, rnd) = Mul(v, w, q, rnd)
    BY <1>2, <2>1, <2>2, <2>3, <2>7, <2>8, RoundingIsUnique
  <2>10. Scaled(v, -k, q, rnd) = Div(v, w, q, rnd)
    BY <1>2, <2>1, <2>2, <2>7, <2>8, RoundingIsUnique
  <2> QED
    BY <2>9, <2>10 DEF w
<1>4. CASE v.kind \in {"nan", "inf", "zero"}
  <2>1. \A i : /\ v.kind = "nan" => Scaled(v, i, q, rnd) = Exactly(NAN_VALUE)
               /\ v.kind = "inf" => Scaled(v, i, q, rnd) = Exactly(Inf(s, q))
               /\ v.kind = "zero" => Scaled(v, i, q, rnd) = Exactly(Zero(s, q))
    BY DEF Scaled
  <2>2. /\ v.kind = "nan" => Mul(v, w, q, rnd) = Exactly(NAN_VALUE)
        /\ v.kind = "inf" => Mul(v, w, q, rnd) = Exactly(Inf(s * w.sign, q))
        /\ v.kind = "zero" => Mul(v, w, q, rnd) = Exactly(Zero(s * w.sign, q))
    BY <1>1, MultiplicationTable
  <2>3. /\ v.kind = "nan" => Div(v, w, q, rnd) = Exactly(NAN_VALUE)
        /\ v.kind = "inf" => Div(v, w, q, rnd) = Exactly(Inf(s * w.sign, q))
        /\ v.kind = "zero" => Div(v, w, q, rnd) = Exactly(Zero(s * w.sign, q))
    BY <1>1, DivisionTable
  <2> HIDE DEF s
  <2>4. Scaled(v, k, q, rnd) = Mul(v, w, q, rnd) /\ Scaled(v, -k, q, rnd) = Div(v, w, q, rnd)
    BY <1>2, <1>4, <2>1, <2>2, <2>3
  <2> QED
    BY <2>4 DEF w
<1> QED
  BY <1>2, <1>3, <1>4

\* The ranges of the two longs.
LEMMA LongRanges ==
    /\ ULong \subseteq Nat /\ 0 \in ULong
    /\ Long \subseteq Int /\ 0 \in Long
    /\ \A z \in Long : (z >= 0 => z \in ULong) /\ (z < 0 => -z \in ULong)
<1>1. Pow2(LONG_BITS) \in Nat \ {0} /\ Pow2(LONG_BITS - 1) \in Nat \ {0}
  <2>1. LONG_BITS \in Nat /\ LONG_BITS - 1 \in Nat
    BY LongAssumption
  <2> QED
    BY <2>1, Pow2Type
<1>2. ULong \subseteq Nat /\ 0 \in ULong /\ Long \subseteq Int /\ 0 \in Long
  BY <1>1 DEF ULong, Long
<1> QED
  BY <1>2, LongMagnitude

\* mpfr_sub is mpfr_add of the negated operand.
LEMMA SubIsAdd ==
    ASSUME NEW v, NEW b, b.kind = "normal", NEW q, NEW rnd
    PROVE  Sub(v, b, q, rnd) = Add(v, Negated(b), q, rnd)
<1>1. CASE v.kind = "nan"
  BY <1>1, AdditionTable DEF Sub
<1>2. CASE v.kind # "nan"
  BY <1>2 DEF Sub, Negated
<1> QED
  BY <1>1, <1>2

\* add_ui and sub_ui are add and sub of the integer as a value,
LEMMA AddUiIsAdd ==
    ASSUME NEW v, Operand(v), NEW c \in ULong, c # 0, NEW q, NEW rnd
    PROVE  /\ AddUi(v, c, q, rnd) = Add(v, ExactZ(c), q, rnd)
           /\ SubUi(v, c, q, rnd) = Sub(v, ExactZ(c), q, rnd)
<1> DEFINE z == ExactZ(c)
<1>1. c \in Int
  BY LongRanges
<1>2. Operand(z) /\ z.kind = "normal" /\ SetZ(c, q, rnd) = Set(z, q, rnd)
  BY <1>1, ExactZShape
<1>3. v.kind \in {"nan", "inf", "zero", "normal"}
  BY Kinds
<1>4. Sub(v, z, q, rnd) = Add(v, Negated(z), q, rnd) /\ Negated(z).kind = "normal"
  BY <1>2, SubIsAdd, NegatedShapes
<1>5. CASE v.kind = "nan"
  <2>1. AddUi(v, c, q, rnd) = Exactly(NAN_VALUE) /\ SubUi(v, c, q, rnd) = Exactly(NAN_VALUE)
    BY <1>5 DEF AddUi, SubUi
  <2> QED
    BY <1>4, <1>5, <2>1, AdditionTable
<1>6. CASE v.kind = "inf"
  <2>1. AddUi(v, c, q, rnd) = Exactly(Inf(v.sign, q)) /\ SubUi(v, c, q, rnd) = Exactly(Inf(v.sign, q))
    BY <1>6 DEF AddUi, SubUi
  <2> HIDE DEF z
  <2>2. Add(v, z, q, rnd) = Exactly(Inf(v.sign, q)) /\ Add(v, Negated(z), q, rnd) = Exactly(Inf(v.sign, q))
    BY <1>2, <1>4, <1>6, AdditionTable
  <2> QED
    BY <1>4, <2>1, <2>2 DEF z
<1>7. CASE v.kind = "zero"
  <2>1. AddUi(v, c, q, rnd) = SetUi(c, q, rnd) /\ SubUi(v, c, q, rnd) = Sub(v, z, q, rnd)
    BY <1>7 DEF AddUi, SubUi
  <2>2. SetUi(c, q, rnd) = Set(z, q, rnd)
    BY <1>2 DEF SetUi
  <2> HIDE DEF z
  <2>3. Add(v, z, q, rnd) = RoundToPrec(z, q, rnd)
    BY <1>2, <1>7, AdditionTable
  <2>4. Set(z, q, rnd) = RoundToPrec(z, q, rnd)
    BY Set4Table
  <2> QED
    BY <2>1, <2>2, <2>3, <2>4 DEF z
<1>8. CASE v.kind = "normal"
  BY <1>8 DEF AddUi, SubUi
<1> QED
  BY <1>3, <1>5, <1>6, <1>7, <1>8

\* and so are add_z and sub_z, whichever routine they go through.
LEMMA AddZIsAdd ==
    ASSUME NEW v, Operand(v), NEW n \in Int, n # 0, NEW q, NEW rnd
    PROVE  /\ AddZ(v, n, q, rnd) = Add(v, ExactZ(n), q, rnd)
           /\ SubZ(v, n, q, rnd) = Sub(v, ExactZ(n), q, rnd)
<1>1. CASE n \notin Long
  BY <1>1 DEF AddZ, SubZ
<1>2. CASE n \in Long /\ n >= 0
  <2>1. AddZ(v, n, q, rnd) = AddUi(v, n, q, rnd) /\ SubZ(v, n, q, rnd) = SubUi(v, n, q, rnd)
    BY <1>2 DEF AddZ, SubZ, AddSi, SubSi
  <2>2. n \in ULong
    BY <1>2, LongRanges
  <2> QED
    BY <2>1, <2>2, AddUiIsAdd
<1>3. CASE n \in Long /\ n < 0
  <2>1. ~(n >= 0) /\ -n \in ULong /\ -n # 0 /\ -n \in Int
    BY <1>3, LongRanges
  <2>2. AddZ(v, n, q, rnd) = SubUi(v, -n, q, rnd) /\ SubZ(v, n, q, rnd) = AddUi(v, -n, q, rnd)
    BY <1>3, <2>1 DEF AddZ, SubZ, AddSi, SubSi
  <2>3. AddZ(v, n, q, rnd) = Sub(v, ExactZ(-n), q, rnd) /\ SubZ(v, n, q, rnd) = Add(v, ExactZ(-n), q, rnd)
    BY <2>1, <2>2, AddUiIsAdd
  <2>4. ExactZ(n).kind = "normal" /\ ExactZ(-n).kind = "normal"
    BY <2>1, ExactZShape
  <2>5. /\ Sub(v, ExactZ(-n), q, rnd) = Add(v, Negated(ExactZ(-n)), q, rnd)
        /\ Sub(v, ExactZ(n), q, rnd) = Add(v, Negated(ExactZ(n)), q, rnd)
    BY <2>4, SubIsAdd
  <2> QED
    BY <2>3, <2>5, ExactZNegated
<1> QED
  BY <1>1, <1>2, <1>3

\* A scaling by 2^0 is a copy.
LEMMA ScaledByNothing ==
    ASSUME NEW v, Operand(v), NEW q \in Precision, NEW rnd \in RoundingMode
    PROVE  Scaled(v, 0, q, rnd) = Set(v, q, rnd)
<1>1. CASE v.kind = "normal"
  <2> DEFINE r == Scaled(v, 0, q, rnd)
             s == v.sign
             m == v.mant
             l == Scale(v)
  <2>1. m \in Nat /\ l \in Int /\ q \in Nat \ {0} /\ 1 \in Nat \ {0} /\ s \in Sign
    BY <1>1, NormalParts, PrecAssumption DEF Precision
  <2>2. RoundedTo(r, s, q, rnd, m, l + 0, 1)
    BY <1>1, ScaledRounds
  <2>3. RoundedTo(Set4(v, q, rnd, s), s, q, rnd, m, l, 1)
    BY <1>1, <2>1, Set4Rounds
  <2> HIDE DEF r, m, l
  <2>4. l + 0 = l /\ SameNumber(m, l, m, l)
    BY <2>1, SameAsItself
  <2>5. RoundedTo(r, s, q, rnd, m, l, 1)
    BY <2>2, <2>4
  <2>6. r = Set4(v, q, rnd, s)
    BY <2>1, <2>3, <2>4, <2>5, RoundingIsUnique
  <2> QED
    BY <2>6, Set4Table DEF r
<1>2. CASE v.kind \in {"nan", "inf", "zero"}
  <2>1. /\ v.kind = "nan" => Scaled(v, 0, q, rnd) = Exactly(NAN_VALUE)
        /\ v.kind = "inf" => Scaled(v, 0, q, rnd) = Exactly(Inf(v.sign, q))
        /\ v.kind = "zero" => Scaled(v, 0, q, rnd) = Exactly(Zero(v.sign, q))
    BY DEF Scaled
  <2>2. /\ v.kind = "nan" => Set(v, q, rnd) = Exactly(NAN_VALUE)
        /\ v.kind = "inf" => Set(v, q, rnd) = Exactly(Inf(v.sign, q))
        /\ v.kind = "zero" => Set(v, q, rnd) = Exactly(Zero(v.sign, q))
    BY Set4Table
  <2> QED
    BY <1>2, <2>1, <2>2
<1> QED
  BY <1>1, <1>2, Kinds

\* mul_ui multiplies, its two short ways included.
LEMMA MulUiIsMul ==
    ASSUME NEW v, Operand(v), NEW c \in ULong, c # 0, NEW q \in Precision, NEW rnd \in RoundingMode
    PROVE  MulUi(v, c, q, rnd) = Mul(v, ExactZ(c), q, rnd)
<1> DEFINE z == ExactZ(c)
           b == BitLength[c]
<1>1. c \in Nat \ {0} /\ c \in Int /\ ~(c < 0)
  BY LongRanges
<1>2. Operand(z) /\ z.kind = "normal" /\ z.sign = 1
  BY <1>1, ExactZShape
<1>3. v.kind \in {"nan", "inf", "zero", "normal"} /\ v.sign \in Sign /\ v.sign * 1 = v.sign
  <2>1. v.kind \in {"nan", "inf", "zero", "normal"} /\ v.sign \in Sign
    BY Kinds
  <2> QED
    BY <2>1 DEF Sign
<1>4. CASE v.kind \in {"nan", "inf", "zero"}
  <2>1. /\ v.kind = "nan" => MulUi(v, c, q, rnd) = Exactly(NAN_VALUE)
        /\ v.kind = "inf" => MulUi(v, c, q, rnd) = Exactly(Inf(v.sign, q))
        /\ v.kind = "zero" => MulUi(v, c, q, rnd) = Exactly(Zero(v.sign, q))
    BY DEF MulUi
  <2> HIDE DEF z
  <2>2. /\ v.kind = "nan" => Mul(v, z, q, rnd) = Exactly(NAN_VALUE)
        /\ v.kind = "inf" => Mul(v, z, q, rnd) = Exactly(Inf(v.sign * z.sign, q))
        /\ v.kind = "zero" => Mul(v, z, q, rnd) = Exactly(Zero(v.sign * z.sign, q))
    BY <1>2, MultiplicationTable
  <2> QED
    BY <1>2, <1>3, <1>4, <2>1, <2>2 DEF z
<1>5. ASSUME NEW k \in Nat, c = Pow2(k)
      PROVE  Scaled(v, k, q, rnd) = Mul(v, z, q, rnd)
  <2>1. Scaled(v, k, q, rnd) = Mul(v, PowerOfTwo(k), q, rnd)
    BY ScaledIsProduct
  <2>2. Equals(PowerOfTwo(k), z)
    BY <1>5, PowerEquals
  <2> HIDE DEF z
  <2>3. Mul(v, PowerOfTwo(k), q, rnd) = Mul(v, z, q, rnd)
    BY <2>2, MulOfEquals
  <2> QED
    BY <2>1, <2>3
<1>6. CASE v.kind = "normal" /\ c = 1
  <2>1. MulUi(v, c, q, rnd) = Set(v, q, rnd)
    BY <1>6 DEF MulUi
  <2>2. c = Pow2(0) /\ 0 \in Nat
    BY <1>6, Pow2Zero
  <2>3. Scaled(v, 0, q, rnd) = Mul(v, z, q, rnd)
    BY <1>5, <2>2
  <2> QED
    BY <2>1, <2>3, ScaledByNothing
<1>7. CASE v.kind = "normal" /\ c # 1 /\ IsPow2(c)
  <2>1. MulUi(v, c, q, rnd) = Scaled(v, b - 1, q, rnd)
    BY <1>7 DEF MulUi, Mul2si
  <2>2. b \in Nat \ {0}
    BY <1>1, BitLengthBounds
  <2>3. b - 1 \in Nat /\ c = Pow2(b - 1)
    BY <1>7, <2>2 DEF IsPow2
  <2> QED
    BY <1>5, <2>1, <2>3
<1>8. CASE v.kind = "normal" /\ c # 1 /\ ~IsPow2(c)
  BY <1>8 DEF MulUi
<1> QED
  BY <1>3, <1>4, <1>6, <1>7, <1>8

\* A negated factor, one or the other.
LEMMA NegatedFactor ==
    ASSUME NEW v, Operand(v), NEW b, Operand(b), b.kind = "normal",
           NEW q \in Precision, NEW rnd \in RoundingMode
    PROVE  Mul(Negated(v), b, q, rnd) = Mul(v, Negated(b), q, rnd)
<1> DEFINE w == Negated(v)
           c == Negated(b)
<1>1. /\ Operand(w) /\ w.kind = v.kind /\ (v.kind # "nan" => w.sign = -v.sign)
      /\ (v.kind # "nan" => w.prec = v.prec /\ w.exp = v.exp /\ w.mant = v.mant)
      /\ Operand(c) /\ c.kind = "normal" /\ c.sign = -b.sign /\ c.prec = b.prec /\ c.exp = b.exp
      /\ c.mant = b.mant
  BY NegatedShapes
<1>2. v.kind \in {"nan", "inf", "zero", "normal"} /\ v.sign \in Sign /\ b.sign \in Sign
  BY Kinds
<1>3. (-v.sign) * b.sign = v.sign * (-b.sign)
  BY <1>2 DEF Sign
<1>4. v.kind # "nan" => w.sign * b.sign = v.sign * c.sign
  BY <1>1, <1>3
<1> HIDE DEF w, c
<1>5. CASE v.kind = "normal"
  <2> DEFINE s == v.sign * c.sign
             m == v.mant * b.mant
             l == Scale(v) + Scale(b)
  <2>1. m \in Nat /\ l \in Int /\ q \in Nat \ {0} /\ 1 \in Nat \ {0}
    <3>1. Scale(v) \in Int /\ Scale(b) \in Int
      BY <1>5, NormalParts
    <3>2. v.mant * b.mant \in Nat
      BY <1>5, MulRounds
    <3> QED
      BY <3>1, <3>2, PrecAssumption DEF Precision
  <2>2. Scale(w) = Scale(v) /\ Scale(c) = Scale(b)
    BY <1>1, <1>5 DEF Scale
  <2>3. RoundedTo(Mul(w, b, q, rnd), w.sign * b.sign, q, rnd, w.mant * b.mant, Scale(w) + Scale(b), 1)
    BY <1>1, <1>5, MulRounds
  <2>4. RoundedTo(Mul(v, c, q, rnd), s, q, rnd, v.mant * c.mant, Scale(v) + Scale(c), 1) /\ s \in Sign
    BY <1>1, <1>5, MulRounds
  <2>5. RoundedTo(Mul(w, b, q, rnd), s, q, rnd, m, l, 1) /\ RoundedTo(Mul(v, c, q, rnd), s, q, rnd, m, l, 1)
    BY <1>1, <1>4, <1>5, <2>2, <2>3, <2>4
  <2> HIDE DEF s, m, l
  <2>6. SameNumber(m, l, m, l)
    BY <2>1, SameAsItself
  <2>7. Mul(w, b, q, rnd) = Mul(v, c, q, rnd)
    BY <2>1, <2>4, <2>5, <2>6, RoundingIsUnique
  <2> QED
    BY <2>7 DEF w, c
<1>6. CASE v.kind \in {"nan", "inf", "zero"}
  <2>1. /\ v.kind = "nan" => Mul(w, b, q, rnd) = Exactly(NAN_VALUE)
        /\ v.kind = "inf" => Mul(w, b, q, rnd) = Exactly(Inf(w.sign * b.sign, q))
        /\ v.kind = "zero" => Mul(w, b, q, rnd) = Exactly(Zero(w.sign * b.sign, q))
    BY <1>1, MultiplicationTable
  <2>2. /\ v.kind = "nan" => Mul(v, c, q, rnd) = Exactly(NAN_VALUE)
        /\ v.kind = "inf" => Mul(v, c, q, rnd) = Exactly(Inf(v.sign * c.sign, q))
        /\ v.kind = "zero" => Mul(v, c, q, rnd) = Exactly(Zero(v.sign * c.sign, q))
    BY <1>1, MultiplicationTable
  <2>3. Mul(w, b, q, rnd) = Mul(v, c, q, rnd)
    BY <1>4, <1>6, <2>1, <2>2
  <2> QED
    BY <2>3 DEF w, c
<1> QED
  BY <1>2, <1>5, <1>6

\* mul_si turns the mode round for the magnitude, so that mul_z multiplies.
LEMMA MulZIsMul ==
    ASSUME NEW v, Operand(v), NEW n \in Int, n # 0, NEW q \in Precision, NEW rnd \in RoundingMode
    PROVE  MulZ(v, n, q, rnd) = Mul(v, ExactZ(n), q, rnd)
<1>1. CASE n \notin Long
  BY <1>1 DEF MulZ
<1>2. CASE n \in Long /\ n >= 0
  <2>1. MulZ(v, n, q, rnd) = MulUi(v, n, q, rnd)
    BY <1>2 DEF MulZ, MulSi
  <2>2. n \in ULong
    BY <1>2, LongRanges
  <2> QED
    BY <2>1, <2>2, MulUiIsMul
<1>3. CASE n \in Long /\ n < 0
  <2> DEFINE c == -n
             e == Mirror(rnd)
             r == MulUi(v, c, q, e)
             z == ExactZ(c)
  <2>1. ~(n >= 0) /\ c \in ULong /\ c # 0 /\ c \in Int
    BY <1>3, LongRanges
  <2>2. e \in RoundingMode /\ InvertRnd(rnd) = e /\ Mirror(e) = rnd
    <3>1. InvertRnd(rnd) = e
      BY DEF InvertRnd, Mirror
    <3>2. e \in RoundingMode
      BY MirrorModes
    <3>3. Mirror(e) = rnd
      BY DEF Mirror, RoundingMode
    <3> QED
      BY <3>1, <3>2, <3>3
  <2>3. MulZ(v, n, q, rnd) = Result(ChangeSign(r.value), -r.ternary)
    BY <1>3, <2>1, <2>2 DEF MulZ, MulSi
  <2> HIDE DEF c, e
  <2>4. r = Mul(v, z, q, e)
    BY <2>1, <2>2, MulUiIsMul
  <2>5. Operand(z) /\ z.kind = "normal"
    BY <2>1, ExactZShape
  <2> HIDE DEF r
  <2>6. Result(ChangeSign(r.value), -r.ternary) = NegatedResult(r)
    BY DEF ChangeSign, NegatedResult, Negated
  <2>7. Negated(z) = ExactZ(n)
    BY ExactZNegated DEF c
  <2> HIDE DEF z
  <2>8. NegatedResult(Mul(v, z, q, e)) = Mul(Negated(v), z, q, Mirror(e))
    BY <2>2, <2>5, MulMirrored
  <2>9. Mul(Negated(v), z, q, rnd) = Mul(v, Negated(z), q, rnd)
    BY <2>5, NegatedFactor
  <2> QED
    BY <2>2, <2>3, <2>4, <2>6, <2>7, <2>8, <2>9
<1> QED
  BY <1>1, <1>2, <1>3

\* What an operation with the integer of y must agree with.
AgreesWith(v, w, n, q, rnd) ==
    /\ AddZ(v, n, q, rnd) = IF n = 0 THEN Set(v, q, rnd) ELSE Add(v, w, q, rnd)
    /\ SubZ(v, n, q, rnd) = IF n = 0 THEN Set(v, q, rnd) ELSE Sub(v, w, q, rnd)
    /\ MulZ(v, n, q, rnd) = Mul(v, IF n = 0 THEN Zero(1, 1) ELSE w, q, rnd)
    /\ SetZ(n, q, rnd) = Set(IF n = 0 THEN Zero(1, 1) ELSE w, q, rnd)
    /\ Compare(v, ExactZ(n)) = Compare(v, w)
    /\ n \in ULong => /\ AddUi(v, n, q, rnd) = AddZ(v, n, q, rnd)
                      /\ SubUi(v, n, q, rnd) = SubZ(v, n, q, rnd)
                      /\ MulUi(v, n, q, rnd) = MulZ(v, n, q, rnd)

\* The integer 0.
LEMMA ZeroAgrees ==
    ASSUME NEW v, Operand(v), NEW w, w.kind = "zero", NEW q \in Precision, NEW rnd \in RoundingMode
    PROVE  AgreesWith(v, w, 0, q, rnd)
<1> DEFINE z == Zero(1, 1)
<1>1. 0 \in ULong /\ 0 \in Long
  BY LongRanges
<1>2. v.kind \in {"nan", "inf", "zero", "normal"} /\ v.sign \in Sign /\ v.sign * 1 = v.sign
  <2>1. v.kind \in {"nan", "inf", "zero", "normal"} /\ v.sign \in Sign
    BY Kinds
  <2> QED
    BY <2>1 DEF Sign
<1>3. ExactZ(0) = z
  BY ExactlyOf DEF ExactZ, SetZ
<1>4. Operand(z) /\ z.kind = "zero" /\ z.sign = 1
  <2>1. Operand(ExactZ(0))
    BY ExactZIsOperand
  <2> QED
    BY <1>3, <2>1 DEF Zero
<1>5. AddUi(v, 0, q, rnd) = Set(v, q, rnd) /\ SubUi(v, 0, q, rnd) = Set(v, q, rnd)
  BY <1>1 DEF AddUi, SubUi
<1>6. AddZ(v, 0, q, rnd) = AddUi(v, 0, q, rnd) /\ SubZ(v, 0, q, rnd) = SubUi(v, 0, q, rnd)
  BY <1>1 DEF AddZ, AddSi, SubZ, SubSi
<1>7. MulZ(v, 0, q, rnd) = MulUi(v, 0, q, rnd)
  BY <1>1 DEF MulZ, MulSi
<1>8. SetZ(0, q, rnd) = Set(z, q, rnd)
  <2>1. SetZ(0, q, rnd) = Exactly(Zero(1, q))
    BY DEF SetZ
  <2> HIDE DEF z
  <2>2. Set(z, q, rnd) = Exactly(Zero(1, q))
    BY <1>4, Set4Table
  <2> QED
    BY <2>1, <2>2
<1>9. Compare(v, z) = Compare(v, w)
  <2> HIDE DEF z
  <2>1. CASE v.kind = "nan"
    BY <2>1 DEF Compare
  <2>2. CASE v.kind \in {"inf", "zero", "normal"}
    BY <1>4, <2>2, ComparisonTable
  <2> QED
    BY <1>2, <2>1, <2>2
<1>10. MulUi(v, 0, q, rnd) = Mul(v, z, q, rnd)
  <2>1. /\ v.kind = "nan" => MulUi(v, 0, q, rnd) = Exactly(NAN_VALUE)
        /\ v.kind = "inf" => MulUi(v, 0, q, rnd) = Exactly(NAN_VALUE)
        /\ v.kind \in {"zero", "normal"} => MulUi(v, 0, q, rnd) = Exactly(Zero(v.sign, q))
    BY <1>1 DEF MulUi
  <2> HIDE DEF z
  <2>2. /\ v.kind = "nan" => Mul(v, z, q, rnd) = Exactly(NAN_VALUE)
        /\ v.kind = "inf" => Mul(v, z, q, rnd) = Exactly(NAN_VALUE)
        /\ v.kind \in {"zero", "normal"} => Mul(v, z, q, rnd) = Exactly(Zero(v.sign * z.sign, q))
    BY <1>4, MultiplicationTable
  <2> QED
    BY <1>2, <1>4, <2>1, <2>2
<1> HIDE DEF z
<1>11. Compare(v, ExactZ(0)) = Compare(v, w)
  BY <1>3, <1>9
<1> QED
  BY <1>5, <1>6, <1>7, <1>8, <1>10, <1>11 DEF AgreesWith, z

\* The other integers.
LEMMA IntegerAgrees ==
    ASSUME NEW v, Operand(v), NEW w, NEW n \in Int, n # 0, Equals(ExactZ(n), w),
           NEW q \in Precision, NEW rnd \in RoundingMode
    PROVE  AgreesWith(v, w, n, q, rnd)
<1> DEFINE z == ExactZ(n)
<1>1. /\ AddZ(v, n, q, rnd) = Add(v, z, q, rnd) /\ SubZ(v, n, q, rnd) = Sub(v, z, q, rnd)
      /\ MulZ(v, n, q, rnd) = Mul(v, z, q, rnd)
  BY AddZIsAdd, MulZIsMul
<1>2. n \in ULong => /\ AddUi(v, n, q, rnd) = Add(v, z, q, rnd) /\ SubUi(v, n, q, rnd) = Sub(v, z, q, rnd)
                     /\ MulUi(v, n, q, rnd) = Mul(v, z, q, rnd)
  BY AddUiIsAdd, MulUiIsMul
<1>3. SetZ(n, q, rnd) = Set(z, q, rnd)
  BY ExactZShape
<1> HIDE DEF z
<1>4. Equals(z, w)
  BY DEF z
<1>5. /\ Add(v, z, q, rnd) = Add(v, w, q, rnd) /\ Sub(v, z, q, rnd) = Sub(v, w, q, rnd)
      /\ Mul(v, z, q, rnd) = Mul(v, w, q, rnd) /\ Set(z, q, rnd) = Set(w, q, rnd)
      /\ Compare(v, z) = Compare(v, w)
  BY <1>4, AddOfEquals, MulOfEquals, SetOfEquals, CompareOfEquals
<1>6. Compare(v, ExactZ(n)) = Compare(v, w)
  BY <1>5 DEF z
<1> QED
  BY <1>1, <1>2, <1>3, <1>5, <1>6 DEF AgreesWith

\* What a scaling must agree with.
ScalingAgrees(v, n, q, rnd) ==
    /\ n \in ULong => /\ Mul2exp(v, n, q, rnd) = Mul(v, PowerOfTwo(n), q, rnd)
                      /\ Div2exp(v, n, q, rnd) = Div(v, PowerOfTwo(n), q, rnd)
    /\ Mul2si(v, n, q, rnd) = Mul(v, PowerOfTwo(n), q, rnd)
    /\ Div2si(v, n, q, rnd) = Div(v, PowerOfTwo(n), q, rnd)

\* Every one does.
LEMMA ScalingsAgree ==
    ASSUME NEW v, Operand(v), NEW n \in Int, NEW q \in Precision, NEW rnd \in RoundingMode
    PROVE  ScalingAgrees(v, n, q, rnd)
<1>1. /\ Scaled(v, n, q, rnd) = Mul(v, PowerOfTwo(n), q, rnd)
      /\ Scaled(v, -n, q, rnd) = Div(v, PowerOfTwo(n), q, rnd)
  BY ScaledIsProduct
<1>2. Mul2si(v, n, q, rnd) = Scaled(v, n, q, rnd) /\ Div2si(v, n, q, rnd) = Scaled(v, -n, q, rnd)
  BY DEF Mul2si, Div2si
<1>3. ASSUME n \in ULong
      PROVE  Mul2exp(v, n, q, rnd) = Scaled(v, n, q, rnd) /\ Div2exp(v, n, q, rnd) = Scaled(v, -n, q, rnd)
  <2>1. ~(n < 0)
    BY <1>3, LongRanges
  <2> QED
    BY <1>3, <2>1 DEF Mul2exp, Div2exp, Mul2ui, Div2ui
<1> QED
  BY <1>1, <1>2, <1>3 DEF ScalingAgrees

\* An operation with an integer operand is the operation on values, for every
\* integer a register holds, whichever of the routines for unsigned, signed
\* and longer integers the call goes through, shortcuts and the turned mode of
\* mul_si included; a scaling is a product or a quotient with a power of two.
THEOREM IntegerOperandsAgree == Spec => []MixedAgree
<1>1. TypeOK => MixedAgree
  <2> SUFFICES ASSUME TypeOK, IntegerP(y), NEW q \in Precision, NEW rnd \in RoundingMode
               PROVE  LET z == Integer(y)
                          power == Normal(1, 1, z + 1, 1)
                      IN  /\ AddZ(x, z, q, rnd) = IF z = 0 THEN Set(x, q, rnd) ELSE Add(x, y, q, rnd)
                          /\ SubZ(x, z, q, rnd) = IF z = 0 THEN Set(x, q, rnd) ELSE Sub(x, y, q, rnd)
                          /\ MulZ(x, z, q, rnd) = Mul(x, IF z = 0 THEN Zero(1, 1) ELSE y, q, rnd)
                          /\ z \in ULong => /\ AddUi(x, z, q, rnd) = AddZ(x, z, q, rnd)
                                            /\ SubUi(x, z, q, rnd) = SubZ(x, z, q, rnd)
                                            /\ MulUi(x, z, q, rnd) = MulZ(x, z, q, rnd)
                                            /\ SetUi(z, q, rnd) = SetZ(z, q, rnd)
                                            /\ CmpUi(x, z) = Compare(x, y)
                                            /\ Mul2exp(x, z, q, rnd) = Mul(x, power, q, rnd)
                                            /\ Div2exp(x, z, q, rnd) = Div(x, power, q, rnd)
                          /\ SetZ(z, q, rnd) = Set(IF z = 0 THEN Zero(1, 1) ELSE y, q, rnd)
                          /\ z \in Long => CmpSi(x, z) = Compare(x, y) /\ SetSi(z, q, rnd) = SetZ(z, q, rnd)
                          /\ Mul2si(x, z, q, rnd) = Mul(x, power, q, rnd)
                          /\ Div2si(x, z, q, rnd) = Div(x, power, q, rnd)
    BY Zenon DEF MixedAgree
  <2> DEFINE n == Integer(y)
  <2>1. Valid(x) /\ Operand(x) /\ Valid(y)
    BY ValidIsOperand DEF TypeOK
  <2>2. n \in Int
    BY <2>1, IntegerIsInteger
  <2> HIDE DEF n
  <2>3. AgreesWith(x, y, n, q, rnd)
    <3>1. CASE y.kind = "zero"
      <4>1. n = 0
        BY <3>1 DEF n, Integer
      <4> QED
        BY <2>1, <3>1, <4>1, ZeroAgrees
    <3>2. CASE y.kind = "normal"
      <4>1. n # 0 /\ Equals(ExactZ(n), y)
        BY <2>1, <3>2, IntegerEquals DEF n
      <4> QED
        BY <2>1, <2>2, <4>1, IntegerAgrees
    <3> QED
      BY <3>1, <3>2 DEF IntegerP
  <2>4. ScalingAgrees(x, n, q, rnd)
    BY <2>1, <2>2, ScalingsAgree
  <2>5. n \in ULong => SetUi(n, q, rnd) = SetZ(n, q, rnd) /\ CmpUi(x, n) = Compare(x, y)
    BY <2>3 DEF SetUi, CmpUi, AgreesWith
  <2>6. n \in Long => SetSi(n, q, rnd) = SetZ(n, q, rnd) /\ CmpSi(x, n) = Compare(x, y)
    BY <2>3 DEF SetSi, CmpSi, AgreesWith
  <2>7. PowerOfTwo(n) = Normal(1, 1, n + 1, 1)
    BY DEF PowerOfTwo
  <2> QED
    BY <2>3, <2>4, <2>5, <2>6, <2>7, Zenon DEF AgreesWith, ScalingAgrees, n
<1> QED
  BY <1>1, RegistersAreValid, PTL

=============================================================================
