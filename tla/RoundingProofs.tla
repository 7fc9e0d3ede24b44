--------------------------- MODULE RoundingProofs ---------------------------
(***************************************************************************)
(* Arithmetic is correctly rounded for every precision, exponent and mode. *)
(* A result is compared with an exact value brought to a common unit       *)
(* (RoundedTo): roundMantissa, packNormal, the product, the quotient by    *)
(* its remainder and the root by its sticky bit are shown to be such       *)
(* roundings, of mantissas of any length.                                  *)
(***************************************************************************)
EXTENDS Arith, Exact, FiniteSetTheorems, TLAPS

-----------------------------------------------------------------------------
(* Induction.                                                              *)

\* Every set of naturals that is not empty has a least element.
LEMMA LeastNumber ==
    ASSUME NEW T \in SUBSET Nat, T # {}
    PROVE  \E m \in T : \A k \in T : ~(k < m)
<1>1. PICK m \in T : \A k \in T : <<k, m>> \notin OpToRel(<, Nat)
  BY WFMin, NatLessThanWellFounded, Zenon
<1>2. \A k \in T : ~(k < m)
  BY <1>1, Zenon DEF OpToRel
<1> QED
  BY <1>2

\* Induction over a set: one that holds what all smaller numbers force into
\* it holds every number.
LEMMA StrongInduction ==
    ASSUME NEW S, \A n \in Nat : (\A k \in Nat : k < n => k \in S) => n \in S
    PROVE  Nat \subseteq S
<1> SUFFICES ASSUME Nat \ S # {} PROVE FALSE
  OBVIOUS
<1>1. PICK m \in Nat \ S : \A k \in Nat \ S : ~(k < m)
  BY LeastNumber
<1>2. \A k \in Nat : k < m => k \in S
  BY <1>1
<1> QED
  BY <1>1, <1>2

\* Induction over the naturals, for a set.
LEMMA Induction ==
    ASSUME NEW S, 0 \in S, \A n \in Nat : n \in S => n + 1 \in S
    PROVE  Nat \subseteq S
<1>1. ASSUME NEW n \in Nat, \A k \in Nat : k < n => k \in S PROVE n \in S
  <2>1. CASE n = 0
    BY <2>1
  <2>2. CASE n # 0
    <3>1. n - 1 \in Nat /\ n - 1 < n
      BY <2>2
    <3>2. n - 1 \in S
      BY <1>1, <3>1
    <3>3. (n - 1) + 1 \in S
      BY <3>1, <3>2
    <3> QED
      BY <3>3
  <2> QED
    BY <2>1, <2>2
<1> QED
  BY <1>1, StrongInduction

-----------------------------------------------------------------------------
(* Powers of two. They count subsets, and a set with one element more has  *)
(* twice as many.                                                          *)

\* One more element doubles the number of subsets.
LEMMA SubsetsDouble ==
    ASSUME NEW S, IsFiniteSet(S), NEW x, x \notin S
    PROVE  Cardinality(SUBSET (S \cup {x})) = 2 * Cardinality(SUBSET S)
<1> DEFINE With == {T \cup {x} : T \in SUBSET S}
           add == [T \in SUBSET S |-> T \cup {x}]
<1>1. IsFiniteSet(SUBSET S)
  BY FS_SUBSET
<1>2. SUBSET (S \cup {x}) = (SUBSET S) \cup With
  <2>1. ASSUME NEW T \in SUBSET (S \cup {x}) PROVE T \in (SUBSET S) \cup With
    <3>1. CASE x \in T
      <4>1. T \ {x} \in SUBSET S /\ T = (T \ {x}) \cup {x}
        BY <3>1
      <4> QED
        BY <4>1
    <3>2. CASE x \notin T
      BY <3>2
    <3> QED
      BY <3>1, <3>2
  <2>2. ASSUME NEW T \in (SUBSET S) \cup With PROVE T \in SUBSET (S \cup {x})
    OBVIOUS
  <2> QED
    BY <2>1, <2>2
<1>3. (SUBSET S) \cap With = {}
  OBVIOUS
<1>4. add \in Bijection(SUBSET S, With)
  <2>1. \A T, U \in SUBSET S : T \cup {x} = U \cup {x} => T = U
    <3> SUFFICES ASSUME NEW T \in SUBSET S, NEW U \in SUBSET S, T \cup {x} = U \cup {x}
                 PROVE T = U
      OBVIOUS
    <3>1. T = (T \cup {x}) \ {x} /\ U = (U \cup {x}) \ {x}
      OBVIOUS
    <3> QED
      BY <3>1
  <2>2. add \in [SUBSET S -> With] /\ \A T \in SUBSET S : add[T] = T \cup {x}
    OBVIOUS
  <2>3. \A U \in With : \E T \in SUBSET S : add[T] = U
    OBVIOUS
  <2> HIDE DEF add, With
  <2> QED
    BY <2>1, <2>2, <2>3 DEF Bijection, Injection, Surjection, IsInjective
<1> HIDE DEF With, add
<1>5. IsFiniteSet(With) /\ Cardinality(With) = Cardinality(SUBSET S)
  <2>1. ExistsBijection(SUBSET S, With)
    BY <1>4 DEF ExistsBijection
  <2> QED
    BY <1>1, <2>1, FS_Bijection
<1>6. Cardinality((SUBSET S) \cup With)
      = Cardinality(SUBSET S) + Cardinality(With) - Cardinality((SUBSET S) \cap With)
  BY <1>1, <1>5, FS_Union
<1>7. Cardinality((SUBSET S) \cap With) = 0
  BY <1>3, FS_EmptySet
<1>8. Cardinality(SUBSET S) \in Nat
  BY <1>1, FS_CardinalityType
<1>9. Cardinality(SUBSET (S \cup {x})) = Cardinality((SUBSET S) \cup With)
  BY <1>2
<1> DEFINE c == Cardinality(SUBSET S)
<1>10. Cardinality((SUBSET S) \cup With) = c + c - 0
  BY <1>5, <1>6, <1>7
<1> QED
  BY <1>8, <1>9, <1>10

\* 2^n counts the subsets of a set of n elements.
LEMMA Pow2Counts ==
    ASSUME NEW S, IsFiniteSet(S)
    PROVE  Pow2(Cardinality(S)) = Cardinality(SUBSET S)
  BY FS_SUBSET, Zenon DEF Pow2

\* The shift by no bit.
LEMMA Pow2Zero == Pow2(0) = 1
<1>1. Pow2(Cardinality({})) = Cardinality(SUBSET {})
  BY Pow2Counts, FS_EmptySet
<1>2. SUBSET {} = {{}}
  OBVIOUS
<1>3. Cardinality({{}}) = 1
  BY FS_Singleton
<1> QED
  BY <1>1, <1>2, <1>3, FS_EmptySet

\* One bit more doubles the power of two.
LEMMA Pow2Step ==
    ASSUME NEW n \in Nat
    PROVE  Pow2(n) \in Nat /\ Pow2(n + 1) = 2 * Pow2(n)
<1>1. /\ IsFiniteSet(1..n) /\ Cardinality(1..n) = n
      /\ IsFiniteSet(1..(n + 1)) /\ Cardinality(1..(n + 1)) = n + 1
  BY FS_Interval
<1>2. 1..(n + 1) = (1..n) \cup {n + 1} /\ n + 1 \notin 1..n
  OBVIOUS
<1>3. Cardinality(SUBSET (1..(n + 1))) = 2 * Cardinality(SUBSET (1..n))
  BY <1>1, <1>2, SubsetsDouble
<1>4. Cardinality(SUBSET (1..n)) \in Nat
  BY <1>1, FS_SUBSET, FS_CardinalityType
<1>5. Pow2(n) = Cardinality(SUBSET (1..n)) /\ Pow2(n + 1) = Cardinality(SUBSET (1..(n + 1)))
  BY <1>1, Pow2Counts
<1> QED
  BY <1>3, <1>4, <1>5

\* A power of two is a positive natural.
LEMMA Pow2Type == \A n \in Nat : Pow2(n) \in Nat \ {0}
<1> DEFINE S == {n \in Nat : Pow2(n) \in Nat \ {0}}
<1>1. 0 \in S
  BY Pow2Zero
<1>2. \A n \in Nat : n \in S => n + 1 \in S
  BY Pow2Step
<1>3. Nat \subseteq S
  <2> HIDE DEF S
  <2> QED
    BY <1>1, <1>2, Induction
<1> QED
  BY <1>3

\* 2^(a + b) = 2^a * 2^b.
LEMMA Pow2Sum ==
    ASSUME NEW a \in Nat, NEW b \in Nat
    PROVE  Pow2(a + b) = Pow2(a) * Pow2(b)
<1> DEFINE S == {n \in Nat : Pow2(a + n) = Pow2(a) * Pow2(n)}
<1>0. Pow2(a) \in Nat
  BY Pow2Type
<1>1. 0 \in S
  BY <1>0, Pow2Zero
<1>2. ASSUME NEW n \in Nat, n \in S PROVE n + 1 \in S
  <2> DEFINE A == Pow2(a)
             N == Pow2(n)
  <2>1. /\ Pow2((a + n) + 1) = 2 * Pow2(a + n)
        /\ Pow2(n + 1) = 2 * N /\ N \in Nat
        /\ (a + n) + 1 = a + (n + 1)
    BY Pow2Step
  <2>2. Pow2(a + n) = A * N
    BY <1>2
  <2>3. Pow2(a + (n + 1)) = 2 * (A * N)
    BY <2>1, <2>2
  <2>4. A * Pow2(n + 1) = 2 * (A * N)
    <3>1. A * Pow2(n + 1) = A * (2 * N)
      BY <2>1
    <3> HIDE DEF A, N
    <3> QED
      BY <1>0, <2>1, <3>1, Z3 DEF A
  <2> QED
    BY <2>3, <2>4
<1>3. Nat \subseteq S
  <2> HIDE DEF S
  <2> QED
    BY <1>1, <1>2, Induction
<1> QED
  BY <1>3

\* 2^b = 2^a * 2^(b - a).
LEMMA Pow2Split ==
    ASSUME NEW a \in Nat, NEW b \in Nat, a <= b
    PROVE  /\ Pow2(a) \in Nat \ {0} /\ Pow2(b) \in Nat \ {0} /\ Pow2(b - a) \in Nat \ {0}
           /\ Pow2(b) = Pow2(a) * Pow2(b - a)
           /\ Pow2(a) <= Pow2(b)
           /\ a < b => 2 * Pow2(a) <= Pow2(b)
<1>1. b - a \in Nat /\ a + (b - a) = b
  OBVIOUS
<1>2. /\ Pow2(a) \in Nat \ {0} /\ Pow2(b) \in Nat \ {0} /\ Pow2(b - a) \in Nat \ {0}
  BY <1>1, Pow2Type
<1>3. Pow2(b) = Pow2(a) * Pow2(b - a)
  BY <1>1, Pow2Sum
<1>4. ASSUME NEW A \in Nat \ {0}, NEW D \in Nat \ {0} PROVE A <= A * D
  <2>1. D - 1 \in Nat /\ A * (D - 1) \in Nat /\ A * (D - 1) = A * D - A
    OBVIOUS
  <2> QED
    BY <2>1
<1>5. Pow2(a) <= Pow2(b)
  BY <1>2, <1>3, <1>4
<1>6. ASSUME a < b PROVE 2 * Pow2(a) <= Pow2(b)
  <2>1. b - (a + 1) \in Nat /\ (a + 1) + (b - (a + 1)) = b
    BY <1>6
  <2>2. Pow2(b) = Pow2(a + 1) * Pow2(b - (a + 1)) /\ Pow2(a + 1) = 2 * Pow2(a)
    BY <2>1, Pow2Sum, Pow2Step
  <2>3. Pow2(a + 1) \in Nat \ {0} /\ Pow2(b - (a + 1)) \in Nat \ {0}
    BY <2>1, Pow2Type
  <2> QED
    BY <1>4, <2>2, <2>3
<1> QED
  BY <1>2, <1>3, <1>5, <1>6

-----------------------------------------------------------------------------
(* Signs and comparisons.                                                  *)

\* The sign of a number: its range, what it decides, and the sign of the
\* opposite.
LEMMA SgnLaws ==
    ASSUME NEW z \in Int
    PROVE  /\ Sgn(z) \in {-1, 0, 1}
           /\ Sgn(z) > 0 <=> z > 0
           /\ Sgn(z) < 0 <=> z < 0
           /\ Sgn(z) = 0 <=> z = 0
           /\ Sgn(-z) = -Sgn(z)
           /\ \A s \in Sign : Sgn(s * z) = s * Sgn(z)
  BY DEF Sgn, Sign

\* A positive factor keeps the sign.
LEMMA ProductSign ==
    ASSUME NEW z \in Int, NEW P \in Nat \ {0}
    PROVE  /\ z * P \in Int
           /\ z > 0 => z * P > 0
           /\ z < 0 => z * P < 0
           /\ z = 0 => z * P = 0
<1>1. z * P \in Int
  OBVIOUS
<1>2. CASE z > 0
  <2>1. (z - 1) * P \in Nat
    <3>1. z - 1 \in Nat
      BY <1>2
    <3> QED
      BY <3>1
  <2>2. (z - 1) * P = z * P - P
    OBVIOUS
  <2> QED
    BY <1>1, <1>2, <2>1, <2>2
<1>3. CASE z < 0
  <2>1. (-z - 1) * P \in Nat
    <3>1. -z - 1 \in Nat
      BY <1>3
    <3> QED
      BY <3>1
  <2>2. (-z - 1) * P = -(z * P) - P
    OBVIOUS
  <2> QED
    BY <1>1, <1>3, <2>1, <2>2
<1> QED
  BY <1>1, <1>2, <1>3

\* A comparison does not depend on the unit it is made in.
LEMMA SgnScale ==
    ASSUME NEW z \in Int, NEW P \in Nat \ {0}
    PROVE  Sgn(z * P) = Sgn(z)
<1>1. z * P \in Int
  OBVIOUS
<1>2. z > 0 \/ z < 0 \/ z = 0
  OBVIOUS
<1> QED
  BY <1>1, <1>2, ProductSign DEF Sgn

\* n * 2^k and m * 2^l brought to a common power of two.
LEMMA CompareAt ==
    ASSUME NEW n \in Int, NEW k \in Int, NEW m \in Int, NEW l \in Int,
           NEW i \in Nat, NEW j \in Nat, k - i = l - j
    PROVE  CompareDyadic(n, k, m, l) = Sgn(n * Pow2(i) - m * Pow2(j))
<1>1. CASE k >= l
  <2> DEFINE P == Pow2(j)
             R == Pow2(k - l)
  <2>1. k - l \in Nat /\ (k - l) + j = i
    BY <1>1
  <2>2. P \in Nat \ {0} /\ R \in Nat \ {0} /\ Pow2(i) = R * P
    BY <2>1, Pow2Type, Pow2Sum
  <2> HIDE DEF P, R
  <2>3. n * R - m \in Int
    BY <2>2
  <2>4. (n * R - m) * P = n * (R * P) - m * P
    BY <2>2
  <2>5. Sgn((n * R - m) * P) = Sgn(n * R - m)
    BY <2>2, <2>3, SgnScale
  <2> QED
    BY <1>1, <2>2, <2>4, <2>5 DEF CompareDyadic, P, R
<1>2. CASE k < l
  <2> DEFINE P == Pow2(i)
             R == Pow2(l - k)
  <2>1. l - k \in Nat /\ (l - k) + i = j
    BY <1>2
  <2>2. P \in Nat \ {0} /\ R \in Nat \ {0} /\ Pow2(j) = R * P
    BY <2>1, Pow2Type, Pow2Sum
  <2> HIDE DEF P, R
  <2>3. n - m * R \in Int
    BY <2>2
  <2>4. (n - m * R) * P = n * P - m * (R * P)
    BY <2>2
  <2>5. Sgn((n - m * R) * P) = Sgn(n - m * R)
    BY <2>2, <2>3, SgnScale
  <2>6. ~(k >= l)
    BY <1>2
  <2> QED
    BY <2>6, <2>2, <2>4, <2>5 DEF CompareDyadic, P, R
<1> QED
  BY <1>1, <1>2

\* The sign of c quarters of g minus A.
Off(c, g, A) == Sgn(c * g - A)

\* The deviation from a result, in another unit.
LEMMA OffScale ==
    ASSUME NEW c \in Int, NEW g \in Nat \ {0}, NEW A \in Int,
           NEW U \in Nat \ {0}, NEW B \in Int, A * U = g * B
    PROVE  Off(c, g, A) = Off(c, U, B)
<1>1. c * g - A \in Int /\ c * U - B \in Int
  OBVIOUS
<1>2. (c * g - A) * U = (c * U - B) * g
  <2>1. (c * g - A) * U = c * g * U - A * U
    OBVIOUS
  <2>2. (c * U - B) * g = c * g * U - g * B
    OBVIOUS
  <2> QED
    BY <2>1, <2>2
<1>3. Sgn((c * g - A) * U) = Sgn(c * g - A) /\ Sgn((c * U - B) * g) = Sgn(c * U - B)
  BY <1>1, SgnScale
<1> QED
  BY <1>2, <1>3 DEF Off

-----------------------------------------------------------------------------
(* Correct rounding of a magnitude, and the rounding of round_raw.ts.      *)

\* M, of the length H begins, is the magnitude A rounded to multiples of 4 * g:
\* the comparisons of CorrectlyRounded, brought to a common unit.
RoundsTo(M, H, g, A, sign, t, rnd) ==
    LET inner == IF M = H THEN 4 * M - 2 ELSE 4 * M - 4
        midIn == IF M = H THEN 4 * M - 1 ELSE 4 * M - 2
        below == Off(4 * M, g, A) <= 0 /\ Off(4 * M + 4, g, A) > 0
        above == Off(4 * M, g, A) >= 0 /\ Off(inner, g, A) < 0
    IN  /\ t = sign * Off(4 * M, g, A)
        /\ rnd = "RNDZ" => below
        /\ rnd = "RNDA" => above
        /\ rnd = "RNDD" => IF sign = 1 THEN below ELSE above
        /\ rnd = "RNDU" => IF sign = 1 THEN above ELSE below
        /\ rnd = "RNDN" => /\ Off(4 * M + 2, g, A) >= 0 /\ Off(midIn, g, A) <= 0
                           /\ Off(4 * M + 2, g, A) = 0 => M % 2 = 0
                           /\ Off(midIn, g, A) = 0 => M % 2 = 0 \/ M = H

\* A correct rounding is one in every unit.
LEMMA RoundsToScale ==
    ASSUME NEW M \in Int, NEW H, NEW sign, NEW t, NEW rnd,
           NEW g \in Nat \ {0}, NEW A \in Int,
           NEW U \in Nat \ {0}, NEW B \in Int, A * U = g * B,
           RoundsTo(M, H, U, B, sign, t, rnd)
    PROVE  RoundsTo(M, H, g, A, sign, t, rnd)
<1>1. /\ Off(4 * M, g, A) = Off(4 * M, U, B)
      /\ Off(4 * M + 4, g, A) = Off(4 * M + 4, U, B)
      /\ Off(4 * M + 2, g, A) = Off(4 * M + 2, U, B)
      /\ Off(4 * M - 1, g, A) = Off(4 * M - 1, U, B)
      /\ Off(4 * M - 2, g, A) = Off(4 * M - 2, U, B)
      /\ Off(4 * M - 4, g, A) = Off(4 * M - 4, U, B)
  BY OffScale
<1> QED
  BY <1>1 DEF RoundsTo

\* A magnitude of exactly M units is rounded to M in every mode.
LEMMA ExactRounds ==
    ASSUME NEW M \in Nat, NEW H \in Nat, NEW g \in Nat \ {0}, NEW sign \in Sign, NEW rnd
    PROVE  RoundsTo(M, H, g, (4 * M) * g, sign, 0, rnd)
<1> DEFINE A == (4 * M) * g
<1>1. /\ (4 * M) * g - A = 0
      /\ (4 * M + 4) * g - A = 4 * g
      /\ (4 * M + 2) * g - A = 2 * g
      /\ (4 * M - 1) * g - A = -g
      /\ (4 * M - 2) * g - A = -(2 * g)
      /\ (4 * M - 4) * g - A = -(4 * g)
  OBVIOUS
<1>2. /\ Off(4 * M, g, A) = 0
      /\ Off(4 * M + 4, g, A) = 1
      /\ Off(4 * M + 2, g, A) = 1
      /\ Off(4 * M - 1, g, A) = -1
      /\ Off(4 * M - 2, g, A) = -1
      /\ Off(4 * M - 4, g, A) = -1
  <2> HIDE DEF A
  <2> QED
    BY <1>1 DEF Off, Sgn
<1> HIDE DEF A
<1>3. sign * 0 = 0
  BY DEF Sign
<1>4. RoundsTo(M, H, g, A, sign, 0, rnd)
  BY <1>2, <1>3 DEF RoundsTo
<1> QED
  BY <1>4 DEF A

\* The rounded mantissa in units of the output's first binade.
Units(r, e) == IF r.exp = e THEN r.mant ELSE 2 * r.mant

\* r is m rounded as the sign and the mode ask for, with its ternary value.
IsRounding(r, m, W, H, e, sign, rnd) ==
    LET error == Units(r, e) * W - m
    IN  /\ r.mant \in H .. 2 * H - 1 /\ r.exp \in {e, e + 1}
        /\ -W < error /\ error < W
        /\ r.ternary = Sgn(sign * error)
        /\ rnd = "RNDZ" => error <= 0
        /\ rnd = "RNDA" => error >= 0
        /\ rnd = "RNDD" => sign * error <= 0
        /\ rnd = "RNDU" => sign * error >= 0
        /\ rnd = "RNDN" => /\ 2 * error <= W /\ -W <= 2 * error
                           /\ (2 * error = W \/ 2 * error = -W) => Units(r, e) % 2 = 0

\* The quotient and the remainder of a mantissa by a unit.
LEMMA Division ==
    ASSUME NEW m \in Nat, NEW W \in Nat \ {0}
    PROVE  /\ m \div W \in Nat /\ m % W \in 0 .. W - 1
           /\ m = (m \div W) * W + (m % W)
<1>1. m % W \in 0 .. W - 1
  OBVIOUS
<1>2. m \div W \in Int
  OBVIOUS
<1>3. m = W * (m \div W) + (m % W)
  BY Z3
<1>4. m \div W >= 0
  BY <1>1, <1>2, <1>3
<1> QED
  BY <1>1, <1>2, <1>3, <1>4

\* The multiples of W are W apart.
LEMMA ProductMonotone ==
    ASSUME NEW a \in Nat, NEW b \in Nat, NEW W \in Nat \ {0}, a < b
    PROVE  (a + 1) * W <= b * W
<1>1. b - (a + 1) \in Nat
  OBVIOUS
<1>2. (b - (a + 1)) * W \in Nat
  BY <1>1
<1>3. (b - (a + 1)) * W = b * W - (a + 1) * W
  OBVIOUS
<1> QED
  BY <1>2, <1>3

\* The truncated mantissa has the output's length.
LEMMA TruncLength ==
    ASSUME NEW m \in Nat, NEW W \in Nat \ {0}, NEW H \in Nat \ {0},
           H * W <= m, m < 2 * H * W
    PROVE  m \div W \in H .. 2 * H - 1
<1> DEFINE t == m \div W
           d == m % W
<1>1. /\ t \in Nat /\ d \in 0 .. W - 1
      /\ m = t * W + d
  BY Division
<1>2. ASSUME t < H PROVE FALSE
  <2>1. (t + 1) * W <= H * W
    BY <1>1, <1>2, ProductMonotone
  <2>2. (t + 1) * W = t * W + W
    BY <1>1
  <2>3. t * W \in Int /\ H * W \in Int
    BY <1>1
  <2> QED
    BY <1>1, <2>1, <2>2, <2>3
<1>3. ASSUME t > 2 * H - 1 PROVE FALSE
  <2>1. CASE t = 2 * H
    <3>1. t * W = 2 * H * W
      BY <2>1
    <3> QED
      BY <1>1, <3>1
  <2>2. CASE t > 2 * H
    <3>1. (2 * H + 1) * W <= t * W
      BY <1>1, <2>2, ProductMonotone
    <3>2. (2 * H + 1) * W = 2 * H * W + W
      OBVIOUS
    <3> QED
      BY <1>1, <3>1, <3>2
  <2> QED
    BY <1>1, <1>3, <2>1, <2>2
<1> QED
  BY <1>1, <1>2, <1>3

\* What each mode decides about a mantissa with something dropped.
LEMMA IncrementsBy ==
    ASSUME NEW t \in Nat, NEW W \in Nat \ {0}, NEW d \in 1 .. W - 1,
           NEW sign \in Sign, NEW rnd \in RoundingMode
    PROVE  /\ rnd = "RNDZ" => ~Increments(t, d, W, sign, rnd)
           /\ rnd = "RNDA" => Increments(t, d, W, sign, rnd)
           /\ rnd = "RNDD" => (Increments(t, d, W, sign, rnd) <=> sign = -1)
           /\ rnd = "RNDU" => (Increments(t, d, W, sign, rnd) <=> sign = 1)
           /\ rnd = "RNDN" => (Increments(t, d, W, sign, rnd)
                                  <=> (2 * d > W \/ (2 * d = W /\ t % 2 = 1)))
  BY DEF Increments, RoundingMode

\* An error in the direction and of the size the mode allows is a rounding.
LEMMA ErrorSuffices ==
    ASSUME NEW m \in Nat, NEW W \in Nat \ {0}, NEW H \in Nat \ {0}, NEW e \in Int,
           NEW sign \in Sign, NEW rnd \in RoundingMode,
           NEW t \in Nat, NEW d \in 1 .. W - 1, m = t * W + d,
           NEW r, NEW up \in {0, 1}, Units(r, e) = t + up,
           r.mant \in H .. 2 * H - 1, r.exp \in {e, e + 1},
           r.ternary = IF up = 1 THEN sign ELSE -sign,
           up = 1 <=> Increments(t, d, W, sign, rnd)
    PROVE  IsRounding(r, m, W, H, e, sign, rnd)
<1> DEFINE error == Units(r, e) * W - m
<1>1. error = up * W - d
  <2>1. (t + up) * W = t * W + up * W
    OBVIOUS
  <2>2. t * W \in Int /\ up * W \in Int
    OBVIOUS
  <2> QED
    BY <2>1, <2>2
<1>2. error = IF up = 1 THEN W - d ELSE -d
  BY <1>1
<1>3. error \in Int /\ -W < error /\ error < W
  BY <1>2
<1>4. r.ternary = Sgn(sign * error)
  BY <1>2 DEF Sgn, Sign
<1>5. /\ rnd = "RNDZ" => error <= 0
      /\ rnd = "RNDA" => error >= 0
      /\ rnd = "RNDD" => sign * error <= 0
      /\ rnd = "RNDU" => sign * error >= 0
  BY <1>2, IncrementsBy DEF Sign
<1>6. ASSUME rnd = "RNDN"
      PROVE  /\ 2 * error <= W /\ -W <= 2 * error
             /\ (2 * error = W \/ 2 * error = -W) => Units(r, e) % 2 = 0
  <2>1. up = 1 <=> (2 * d > W \/ (2 * d = W /\ t % 2 = 1))
    BY <1>6, IncrementsBy
  <2>2. 2 * error <= W /\ -W <= 2 * error
    BY <1>2, <2>1
  <2>3. ASSUME 2 * error = W \/ 2 * error = -W PROVE (t + up) % 2 = 0
    <3>1. 2 * d = W
      BY <1>2, <2>3
    <3> QED
      BY <2>1, <3>1
  <2> QED
    BY <2>2, <2>3
<1> QED
  BY <1>3, <1>4, <1>5, <1>6 DEF IsRounding

\* roundMantissa (round_raw.ts): the result is the neighbour of the source
\* mantissa that the mode asks for, ties to even, has the output's length even
\* when the increment carries into a new binade, and the ternary value is the
\* sign of rounded minus exact, for every length, shift and sign.
THEOREM RoundingIsCorrect ==
    ASSUME NEW m \in Nat, NEW W \in Nat \ {0}, NEW H \in Nat \ {0}, NEW e \in Int,
           NEW sign \in Sign, NEW rnd \in RoundingMode,
           H * W <= m, m < 2 * H * W
    PROVE  IsRounding(RoundUnits(m, W, 2 * H, e, sign, rnd), m, W, H, e, sign, rnd)
<1> DEFINE t == m \div W
           d == m % W
           r == RoundUnits(m, W, 2 * H, e, sign, rnd)
<1>1. /\ t \in Nat /\ d \in 0 .. W - 1
      /\ m = t * W + d
  BY Division
<1>2. t \in H .. 2 * H - 1
  BY TruncLength
<1>3. CASE d = 0
  <2>1. r = [mant |-> t, exp |-> e, ternary |-> 0]
    BY <1>3 DEF RoundUnits
  <2>2. Units(r, e) * W - m = 0
    BY <1>1, <1>3, <2>1 DEF Units
  <2> QED
    BY <1>2, <2>1, <2>2 DEF IsRounding, Sgn, Sign
<1>4. CASE d # 0 /\ ~Increments(t, d, W, sign, rnd)
  <2>1. r = [mant |-> t, exp |-> e, ternary |-> -sign]
    BY <1>4 DEF RoundUnits
  <2>2. Units(r, e) = t + 0
    BY <1>1, <2>1 DEF Units
  <2> HIDE DEF t, d, r
  <2>5. d \in 1 .. W - 1 /\ 0 \in {0, 1}
    BY <1>1, <1>4
  <2>6. r.mant \in H .. 2 * H - 1 /\ r.exp \in {e, e + 1}
    BY <1>1, <1>2, <1>4, <2>1
  <2>7. r.ternary = IF 0 = 1 THEN sign ELSE -sign
    BY <2>1
  <2>8. 0 = 1 <=> Increments(t, d, W, sign, rnd)
    BY <1>4
  <2>9. IsRounding(r, m, W, H, e, sign, rnd)
    BY <1>1, <2>2, <2>5, <2>6, <2>7, <2>8, ErrorSuffices
  <2> QED
    BY <2>9 DEF r
<1>5. CASE d # 0 /\ Increments(t, d, W, sign, rnd) /\ t + 1 < 2 * H
  <2>1. r = [mant |-> t + 1, exp |-> e, ternary |-> sign]
    BY <1>1, <1>5 DEF RoundUnits
  <2>2. Units(r, e) = t + 1
    BY <2>1 DEF Units
  <2> HIDE DEF t, d, r
  <2>5. d \in 1 .. W - 1 /\ 1 \in {0, 1}
    BY <1>1, <1>5
  <2>6. r.mant \in H .. 2 * H - 1 /\ r.exp \in {e, e + 1}
    BY <1>1, <1>2, <1>5, <2>1
  <2>7. r.ternary = IF 1 = 1 THEN sign ELSE -sign
    BY <2>1
  <2>8. 1 = 1 <=> Increments(t, d, W, sign, rnd)
    BY <1>5
  <2>9. IsRounding(r, m, W, H, e, sign, rnd)
    BY <1>1, <2>2, <2>5, <2>6, <2>7, <2>8, ErrorSuffices
  <2> QED
    BY <2>9 DEF r
<1>6. CASE d # 0 /\ Increments(t, d, W, sign, rnd) /\ t + 1 >= 2 * H
  <2>1. t + 1 = 2 * H /\ (2 * H) \div 2 = H
    BY <1>2, <1>6
  <2>2. r = [mant |-> H, exp |-> e + 1, ternary |-> sign]
    BY <1>1, <1>6, <2>1 DEF RoundUnits
  <2>3. Units(r, e) = t + 1
    BY <2>1, <2>2 DEF Units
  <2> HIDE DEF t, d, r
  <2>5. d \in 1 .. W - 1 /\ 1 \in {0, 1}
    BY <1>1, <1>6
  <2>6. r.mant \in H .. 2 * H - 1 /\ r.exp \in {e, e + 1}
    BY <1>1, <1>2, <1>6, <2>2
  <2>7. r.ternary = IF 1 = 1 THEN sign ELSE -sign
    BY <2>2
  <2>8. 1 = 1 <=> Increments(t, d, W, sign, rnd)
    BY <1>6
  <2>9. IsRounding(r, m, W, H, e, sign, rnd)
    BY <1>1, <2>3, <2>5, <2>6, <2>7, <2>8, ErrorSuffices
  <2> QED
    BY <2>9 DEF r
<1> QED
  BY <1>1, <1>3, <1>4, <1>5, <1>6

\* With its exponent, the rounded mantissa is m rounded in the terms of
\* CorrectlyRounded: a carry into a new binade doubles the unit.
LEMMA RoundUnitsRoundsTo ==
    ASSUME NEW m \in Nat, NEW W \in Nat \ {0}, NEW H \in Nat \ {0}, NEW e \in Int,
           NEW sign \in Sign, NEW rnd \in RoundingMode,
           H * W <= m, m < 2 * H * W,
           NEW r, r = RoundUnits(m, W, 2 * H, e, sign, rnd),
           NEW U, U = IF r.exp = e THEN W ELSE 2 * W
    PROVE  /\ r.mant \in H .. 2 * H - 1 /\ r.exp \in {e, e + 1}
           /\ RoundsTo(r.mant, H, U, 4 * m, sign, r.ternary, rnd)
<1> DEFINE M == r.mant
           error == Units(r, e) * W - m
<1>1. IsRounding(r, m, W, H, e, sign, rnd)
  BY RoundingIsCorrect
<1>2. M \in H .. 2 * H - 1 /\ r.exp \in {e, e + 1} /\ M \in Nat
  BY <1>1 DEF IsRounding
<1>3. Units(r, e) \in Nat /\ error \in Int
  BY <1>2 DEF Units
<1>4. /\ -W < error /\ error < W
      /\ r.ternary = Sgn(sign * error)
      /\ rnd = "RNDZ" => error <= 0
      /\ rnd = "RNDA" => error >= 0
      /\ rnd = "RNDD" => sign * error <= 0
      /\ rnd = "RNDU" => sign * error >= 0
      /\ rnd = "RNDN" => /\ 2 * error <= W /\ -W <= 2 * error
                         /\ (2 * error = W \/ 2 * error = -W) => Units(r, e) % 2 = 0
  BY <1>1 DEF IsRounding
<1> HIDE DEF error
<1>5. r.ternary = sign * Sgn(error)
  BY <1>3, <1>4, SgnLaws
<1>6. \A j \in Int : (4 * M + j) * U - 4 * m = 4 * error + j * U
  <2> SUFFICES ASSUME NEW j \in Int PROVE (4 * M + j) * U - 4 * m = 4 * error + j * U
    OBVIOUS
  <2>1. Units(r, e) * W = M * U
    BY <1>2 DEF Units
  <2>2. U \in Nat
    OBVIOUS
  <2>3. (4 * M + j) * U = 4 * (M * U) + j * U
    BY <1>2, <2>2
  <2>4. M * U \in Int /\ j * U \in Int
    BY <1>2, <2>2
  <2> QED
    BY <1>3, <2>1, <2>3, <2>4 DEF error
<1>7. /\ Off(4 * M, U, 4 * m) = Sgn(4 * error)
      /\ Off(4 * M + 4, U, 4 * m) = Sgn(4 * error + 4 * U)
      /\ Off(4 * M + 2, U, 4 * m) = Sgn(4 * error + 2 * U)
      /\ Off(4 * M - 1, U, 4 * m) = Sgn(4 * error - U)
      /\ Off(4 * M - 2, U, 4 * m) = Sgn(4 * error - 2 * U)
      /\ Off(4 * M - 4, U, 4 * m) = Sgn(4 * error - 4 * U)
  <2>1. /\ (4 * M + 0) * U - 4 * m = 4 * error + 0 * U
        /\ (4 * M + 4) * U - 4 * m = 4 * error + 4 * U
        /\ (4 * M + 2) * U - 4 * m = 4 * error + 2 * U
        /\ (4 * M + (-1)) * U - 4 * m = 4 * error + (-1) * U
        /\ (4 * M + (-2)) * U - 4 * m = 4 * error + (-2) * U
        /\ (4 * M + (-4)) * U - 4 * m = 4 * error + (-4) * U
    BY <1>6
  <2>2. /\ 4 * M + 0 = 4 * M /\ 4 * M + (-1) = 4 * M - 1
        /\ 4 * M + (-2) = 4 * M - 2 /\ 4 * M + (-4) = 4 * M - 4
    BY <1>2
  <2>3. /\ 4 * error + 0 * U = 4 * error /\ 4 * error + (-1) * U = 4 * error - U
        /\ 4 * error + (-2) * U = 4 * error - 2 * U /\ 4 * error + (-4) * U = 4 * error - 4 * U
    BY <1>3
  <2> QED
    BY <2>1, <2>2, <2>3 DEF Off
<1>8. CASE r.exp = e
  <2>1. U = W /\ Units(r, e) = M
    BY <1>8 DEF Units
  <2>2. M = H => error <= 0
    BY <1>2, <2>1 DEF error
  <2> QED
    BY <1>2, <1>3, <1>4, <1>5, <1>7, <2>1, <2>2 DEF RoundsTo, Sgn, Sign, RoundingMode
<1>9. CASE r.exp # e
  <2>1. U = 2 * W /\ Units(r, e) = 2 * M
    BY <1>9 DEF Units
  <2>2. M = H
    <3> SUFFICES ASSUME H < M PROVE FALSE
      BY <1>2
    <3>1. (H + 1) * W <= M * W
      BY <1>2, ProductMonotone
    <3>2. (H + 1) * W = H * W + W /\ 2 * M * W = 2 * (M * W) /\ 2 * H * W = 2 * (H * W)
          /\ M * W \in Int /\ H * W \in Int
      BY <1>2
    <3>3. 2 * M * W - m < W
      BY <1>4, <2>1 DEF error
    <3> QED
      BY <3>1, <3>2, <3>3
  <2> QED
    BY <1>2, <1>3, <1>4, <1>5, <1>7, <2>1, <2>2 DEF RoundsTo, Sgn, Sign, RoundingMode
<1> QED
  BY <1>2, <1>8, <1>9

-----------------------------------------------------------------------------
(* Correct rounding of m * 2^l / D.                                        *)

\* res is the magnitude m * 2^l / D with the given sign, rounded to q bits.
RoundedTo(res, sign, q, rnd, m, l, D) ==
    LET E == res.value.exp
        M == res.value.mant
    IN  /\ res = Result(Normal(sign, q, E, M), res.ternary)
        /\ E \in Int /\ M \in Pow2(q - 1) .. Pow2(q) - 1
        /\ \A b \in Int : b <= l /\ b <= E - q - 2 =>
              RoundsTo(M, Pow2(q - 1), D * Pow2(E - q - 2 - b), m * Pow2(l - b),
                       sign, res.ternary, rnd)

\* The range of the mantissas of q bits.
LEMMA LengthBounds ==
    ASSUME NEW q \in Nat \ {0}
    PROVE  /\ Pow2(q - 1) \in Nat \ {0} /\ Pow2(q) \in Nat \ {0}
           /\ Pow2(q) = 2 * Pow2(q - 1)
<1>1. q - 1 \in Nat /\ (q - 1) + 1 = q
  OBVIOUS
<1> QED
  BY <1>1, Pow2Type, Pow2Step

\* One and two bits more: the half and the quarter of a unit.
LEMMA Pow2Quarter ==
    ASSUME NEW n \in Nat
    PROVE  Pow2(n + 1) = 2 * Pow2(n) /\ Pow2(n + 2) = 4 * Pow2(n)
<1>1. Pow2(n + 1) = 2 * Pow2(n) /\ Pow2((n + 1) + 1) = 2 * Pow2(n + 1) /\ (n + 1) + 1 = n + 2
      /\ Pow2(n) \in Nat
  BY Pow2Step
<1> QED
  BY <1>1

\* packNormal rounds the value of the source mantissa, whether it pads it or
\* shortens it.
LEMMA PackNormalRounds ==
    ASSUME NEW sign \in Sign, NEW e \in Int, NEW p \in Nat \ {0}, NEW q \in Nat \ {0},
           NEW m \in Pow2(p - 1) .. Pow2(p) - 1, NEW rnd \in RoundingMode
    PROVE  RoundedTo(PackNormal(sign, e, m, p, q, rnd), sign, q, rnd, m, e - p, 1)
<1> DEFINE res == PackNormal(sign, e, m, p, q, rnd)
           H == Pow2(q - 1)
<1>1. /\ H \in Nat \ {0} /\ Pow2(q) = 2 * H
      /\ Pow2(p - 1) \in Nat \ {0} /\ Pow2(p) = 2 * Pow2(p - 1) /\ m \in Nat
  BY LengthBounds
<1>2. CASE q >= p
  <2> DEFINE F == Pow2(q - p)
             M == m * F
  <2>1. q - p \in Nat /\ (p - 1) + (q - p) = q - 1 /\ p - 1 \in Nat
    BY <1>2
  <2>2. F \in Nat \ {0} /\ H = Pow2(p - 1) * F
    BY <2>1, Pow2Type, Pow2Sum
  <2>3. M \in H .. 2 * H - 1
    <3> DEFINE B == Pow2(p - 1)
    <3> HIDE DEF F, B, H
    <3>1. B \in Nat /\ H = B * F /\ B <= m /\ m < 2 * B
      BY <1>1, <2>2 DEF B
    <3>2. (m - B) * F \in Nat /\ (2 * B - m) * F >= 1
      <4>1. m - B \in Nat
        BY <1>1, <3>1
      <4>2. 2 * B - m \in Nat \ {0}
        BY <1>1, <3>1
      <4> QED
        BY <2>2, <4>1, <4>2, ProductSign
    <3>3. (m - B) * F = m * F - B * F /\ (2 * B - m) * F = 2 * (B * F) - m * F
          /\ m * F \in Int /\ B * F \in Int
      BY <1>1, <2>2, <3>1
    <3> QED
      BY <3>1, <3>2, <3>3
  <2>4. res = Result(Normal(sign, q, e, M), 0)
    BY <1>2 DEF PackNormal, Exactly
  <2>5. res.value.exp = e /\ res.value.mant = M /\ res.ternary = 0
    BY <2>4 DEF Result, Normal
  <2> HIDE DEF res, H
  <2>6. ASSUME NEW b \in Int, b <= e - p, b <= e - q - 2
        PROVE  RoundsTo(M, H, 1 * Pow2(e - q - 2 - b), m * Pow2((e - p) - b), sign, 0, rnd)
    <3> DEFINE g == Pow2(e - q - 2 - b)
    <3>1. e - q - 2 - b \in Nat /\ (e - q - 2 - b) + 2 = e - q - b
          /\ e - q - b \in Nat /\ (q - p) + (e - q - b) = (e - p) - b
      BY <2>1, <2>6
    <3>2. g \in Nat \ {0} /\ Pow2(e - q - b) = 4 * g /\ Pow2((e - p) - b) = F * Pow2(e - q - b)
      <4>1. Pow2((e - q - 2 - b) + 2) = 4 * g /\ g \in Nat \ {0}
        BY <3>1, Pow2Type, Pow2Quarter
      <4>2. Pow2((q - p) + (e - q - b)) = F * Pow2(e - q - b)
        BY <2>1, <3>1, Pow2Sum
      <4> QED
        BY <3>1, <4>1, <4>2
    <3>3. m * Pow2((e - p) - b) = (4 * M) * g
      <4>1. m * Pow2((e - p) - b) = m * (F * (4 * g))
        BY <3>2
      <4> HIDE DEF F, g
      <4> QED
        BY <1>1, <2>2, <3>2, <4>1
    <3>4. M \in Nat /\ H \in Nat
      BY <1>1, <2>3
    <3>5. RoundsTo(M, H, g, (4 * M) * g, sign, 0, rnd)
      BY <3>2, <3>4, ExactRounds
    <3>6. 1 * g = g
      BY <3>2
    <3> QED
      BY <3>3, <3>5, <3>6
  <2> HIDE DEF M
  <2>7. RoundedTo(res, sign, q, rnd, m, e - p, 1)
    BY <1>1, <2>3, <2>4, <2>5, <2>6 DEF RoundedTo, H
  <2> QED
    BY <2>7 DEF res
<1>3. CASE q < p
  <2> DEFINE W == Pow2(p - q)
             r == RoundUnits(m, W, 2 * H, e, sign, rnd)
             U == IF r.exp = e THEN W ELSE 2 * W
  <2>1. p - q \in Nat /\ (q - 1) + (p - q) = p - 1 /\ q - 1 \in Nat
    BY <1>3
  <2>2. W \in Nat \ {0} /\ H * W = Pow2(p - 1)
    BY <2>1, Pow2Type, Pow2Sum
  <2>3. H * W <= m /\ m < 2 * H * W
    <3> HIDE DEF W, H
    <3>1. 2 * H * W = 2 * (H * W)
      BY <1>1, <2>2
    <3> QED
      BY <1>1, <2>2, <3>1
  <2>4. res = Result(Normal(sign, q, r.exp, r.mant), r.ternary)
    BY <1>1, <1>3 DEF PackNormal, RoundMantissa
  <2>5. res.value.exp = r.exp /\ res.value.mant = r.mant /\ res.ternary = r.ternary
    BY <2>4 DEF Result, Normal
  <2> HIDE DEF res, H, W, r, U
  <2>6. /\ r.mant \in H .. 2 * H - 1 /\ r.exp \in {e, e + 1}
        /\ RoundsTo(r.mant, H, U, 4 * m, sign, r.ternary, rnd)
    <3>1. r = RoundUnits(m, W, 2 * H, e, sign, rnd) /\ U = IF r.exp = e THEN W ELSE 2 * W
      BY DEF r, U
    <3>2. m \in Nat /\ W \in Nat \ {0} /\ H \in Nat \ {0} /\ H * W <= m /\ m < 2 * H * W
      BY <1>1, <2>2, <2>3
    <3> QED
      BY <3>1, <3>2, RoundUnitsRoundsTo
  <2>7. U \in Nat \ {0} /\ r.exp \in Int /\ U = Pow2(p - q + (r.exp - e))
    <3>1. CASE r.exp = e
      <4>1. p - q + (r.exp - e) = p - q
        BY <3>1
      <4> QED
        BY <2>2, <3>1, <4>1 DEF U, W
    <3>2. CASE r.exp = e + 1
      <4>1. p - q + (r.exp - e) = (p - q) + 1 /\ r.exp # e
        BY <3>2
      <4>2. Pow2((p - q) + 1) = 2 * W
        BY <2>1, Pow2Step DEF W
      <4> QED
        BY <2>2, <3>2, <4>1, <4>2 DEF U
    <3> QED
      BY <2>6, <3>1, <3>2
  <2>8. ASSUME NEW b \in Int, b <= e - p, b <= r.exp - q - 2
        PROVE  RoundsTo(r.mant, H, 1 * Pow2(r.exp - q - 2 - b), m * Pow2((e - p) - b), sign, r.ternary, rnd)
    <3> DEFINE g == Pow2(r.exp - q - 2 - b)
               P == Pow2((e - p) - b)
    <3>1. /\ r.exp - q - 2 - b \in Nat /\ (r.exp - q - 2 - b) + 2 = r.exp - q - b
          /\ (e - p) - b \in Nat /\ p - q + (r.exp - e) \in Nat
          /\ ((e - p) - b) + (p - q + (r.exp - e)) = r.exp - q - b
      BY <2>1, <2>6, <2>7, <2>8
    <3>2. g \in Nat \ {0} /\ P \in Nat \ {0} /\ P * U = 4 * g
      <4>1. Pow2((r.exp - q - 2 - b) + 2) = 4 * g /\ g \in Nat \ {0} /\ P \in Nat \ {0}
        BY <3>1, Pow2Type, Pow2Quarter
      <4>2. Pow2(((e - p) - b) + (p - q + (r.exp - e))) = P * Pow2(p - q + (r.exp - e))
        BY <3>1, Pow2Sum
      <4> QED
        BY <2>7, <3>1, <4>1, <4>2
    <3> HIDE DEF g, P
    <3>3. (m * P) * U = g * (4 * m)
      <4>1. (m * P) * U = m * (P * U)
        BY <1>1, <2>7, <3>2
      <4>2. m * (P * U) = m * (4 * g)
        BY <3>2
      <4> QED
        BY <1>1, <3>2, <4>1, <4>2
    <3>4. m * P \in Int /\ 4 * m \in Int /\ r.mant \in Int
      BY <1>1, <2>6, <3>2
    <3>5. RoundsTo(r.mant, H, g, m * P, sign, r.ternary, rnd)
      BY <2>6, <2>7, <3>2, <3>3, <3>4, RoundsToScale
    <3> QED
      BY <3>2, <3>5 DEF g, P
  <2>9. RoundedTo(res, sign, q, rnd, m, e - p, 1)
    BY <1>1, <2>4, <2>5, <2>6, <2>7, <2>8 DEF RoundedTo, H
  <2> QED
    BY <2>9 DEF res
<1> QED
  BY <1>2, <1>3

\* What a packed mantissa is: a normal value of the precision asked for.
LEMMA RoundedToIsValid ==
    ASSUME NEW res, NEW sign \in Sign, NEW q \in Precision, NEW rnd, NEW m, NEW l, NEW D,
           RoundedTo(res, sign, q, rnd, m, l, D)
    PROVE  /\ Valid(res.value) /\ res.value.kind = "normal"
           /\ res.value.sign = sign /\ res.value.prec = q
           /\ res.value.exp \in Int /\ res.value.mant \in Pow2(q - 1) .. Pow2(q) - 1
<1>1. res.value = Normal(sign, q, res.value.exp, res.value.mant)
      /\ res.value.exp \in Int /\ res.value.mant \in Pow2(q - 1) .. Pow2(q) - 1
  BY DEF RoundedTo, Result
<1>2. /\ res.value.kind = "normal" /\ res.value.sign = sign /\ res.value.prec = q
  BY <1>1 DEF Normal
<1> QED
  BY <1>1, <1>2 DEF Valid

\* The numbers a rounded result is compared at are integers.
LEMMA ComparedAtIntegers ==
    ASSUME NEW res, NEW sign \in Sign, NEW q \in Precision, NEW rnd, NEW m, NEW l, NEW D,
           RoundedTo(res, sign, q, rnd, m, l, D),
           NEW v, v = res.value
    PROVE  /\ Scale(v) \in Int /\ Scale(v) - 1 \in Int /\ Scale(v) - 2 \in Int
           /\ v.sign * v.mant \in Int /\ v.sign * (v.mant + 1) \in Int
           /\ v.sign * (2 * v.mant - 1) \in Int /\ v.sign * (v.mant - 1) \in Int
           /\ v.sign * (2 * v.mant + 1) \in Int /\ v.sign * (4 * v.mant - 1) \in Int
<1>1. q \in Nat \ {0}
  BY PrecAssumption DEF Precision
<1>2. /\ v.sign = sign /\ v.prec = q /\ v.exp \in Int
      /\ v.mant \in Pow2(q - 1) .. Pow2(q) - 1
  BY RoundedToIsValid
<1>3. v.mant \in Int
  BY <1>1, <1>2, LengthBounds
<1> QED
  BY <1>1, <1>2, <1>3 DEF Scale, Sign

-----------------------------------------------------------------------------
(* From the comparisons to CorrectlyRounded.                               *)

\* Correct rounding of the value that compares with n * 2^k as c[<<n, k>>] says.
CorrectBy(res, q, rnd, c) == CorrectlyRounded(res, q, rnd, LAMBDA n, k : c[<<n, k>>])

\* Below some power of two, c compares with sign * m * 2^l / D.
ComparesWith(c, sign, m, l, D, low) ==
    \A b, n, k \in Int : b <= low /\ b <= l /\ b <= k =>
        c[<<n, k>>] = Sgn(n * (D * Pow2(k - b)) - sign * (m * Pow2(l - b)))

\* A result is correctly rounded with respect to comparisons that, above some
\* power of two, are those with sign * m * 2^l / D.
LEMMA RoundedIsCorrect ==
    ASSUME NEW res, NEW sign \in Sign, NEW q \in Precision, NEW rnd \in RoundingMode,
           NEW m \in Nat \ {0}, NEW l \in Int, NEW D \in Nat \ {0},
           RoundedTo(res, sign, q, rnd, m, l, D),
           NEW low \in Int, NEW c, ComparesWith(c, sign, m, l, D, low)
    PROVE  CorrectBy(res, q, rnd, c)
<1> DEFINE E == res.value.exp
           M == res.value.mant
           K == E - q
<1>1. /\ Valid(res.value) /\ res.value.kind = "normal"
      /\ res.value.sign = sign /\ res.value.prec = q
      /\ E \in Int /\ M \in Pow2(q - 1) .. Pow2(q) - 1
  BY RoundedToIsValid
<1>2. q \in Nat \ {0}
  BY PrecAssumption DEF Precision
<1>3. M \in Nat /\ K \in Int
  BY <1>1, <1>2, LengthBounds
<1>4. PICK b \in Int : b <= low /\ b <= l /\ b <= K - 2 /\ b <= 0
  <2> DEFINE b1 == IF low <= l THEN low ELSE l
             b2 == IF b1 <= K - 2 THEN b1 ELSE K - 2
             b3 == IF b2 <= 0 THEN b2 ELSE 0
  <2>1. b3 \in Int /\ b3 <= low /\ b3 <= l /\ b3 <= K - 2 /\ b3 <= 0
    BY <1>3
  <2> QED
    BY <2>1
<1> DEFINE g == D * Pow2(K - 2 - b)
           A == m * Pow2(l - b)
<1>5. /\ Pow2(K - 2 - b) \in Nat \ {0} /\ Pow2(K - 1 - b) = 2 * Pow2(K - 2 - b)
      /\ Pow2(K - b) = 4 * Pow2(K - 2 - b) /\ Pow2(l - b) \in Nat \ {0} /\ Pow2(0 - b) \in Nat
  <2>1. K - 2 - b \in Nat /\ (K - 2 - b) + 1 = K - 1 - b /\ (K - 2 - b) + 2 = K - b
        /\ l - b \in Nat /\ 0 - b \in Nat
    BY <1>3, <1>4
  <2> QED
    BY <2>1, Pow2Type, Pow2Quarter
<1>6. g \in Nat \ {0} /\ A \in Nat \ {0}
  <2>1. \A i, j \in Nat \ {0} : i * j \in Nat \ {0}
    BY ProductSign
  <2> QED
    BY <1>5, <2>1
<1>7. RoundsTo(M, Pow2(q - 1), g, A, sign, res.ternary, rnd)
  <2>1. E - q - 2 - b = K - 2 - b
    OBVIOUS
  <2> QED
    BY <1>1, <1>4, <2>1 DEF RoundedTo
<1>8. /\ D * Pow2(K - b) = 4 * g /\ D * Pow2(K - 1 - b) = 2 * g
  BY <1>5
<1> HIDE DEF g, A, E, M, K
<1>9. \A n \in Int : /\ c[<<sign * n, K>>] = sign * Off(4 * n, g, A)
                     /\ c[<<sign * n, K - 1>>] = sign * Off(2 * n, g, A)
                     /\ c[<<sign * n, K - 2>>] = sign * Off(n, g, A)
  <2> SUFFICES ASSUME NEW n \in Int
               PROVE  /\ c[<<sign * n, K>>] = sign * Off(4 * n, g, A)
                      /\ c[<<sign * n, K - 1>>] = sign * Off(2 * n, g, A)
                      /\ c[<<sign * n, K - 2>>] = sign * Off(n, g, A)
    OBVIOUS
  <2>1. sign * n \in Int
    BY DEF Sign
  <2>2. /\ c[<<sign * n, K>>] = Sgn((sign * n) * (4 * g) - sign * A)
        /\ c[<<sign * n, K - 1>>] = Sgn((sign * n) * (2 * g) - sign * A)
        /\ c[<<sign * n, K - 2>>] = Sgn((sign * n) * g - sign * A)
    <3>1. \A k \in Int : b <= k =>
            c[<<sign * n, k>>] = Sgn((sign * n) * (D * Pow2(k - b)) - sign * (m * Pow2(l - b)))
      BY <1>4, <2>1 DEF ComparesWith
    <3> QED
      BY <1>3, <1>4, <1>8, <3>1 DEF g, A
  <2>3. /\ (sign * n) * (4 * g) - sign * A = sign * ((4 * n) * g - A)
        /\ (sign * n) * (2 * g) - sign * A = sign * ((2 * n) * g - A)
        /\ (sign * n) * g - sign * A = sign * (n * g - A)
    BY <1>6 DEF Sign
  <2>4. (4 * n) * g - A \in Int /\ (2 * n) * g - A \in Int /\ n * g - A \in Int
    BY <1>6
  <2> QED
    BY <2>2, <2>3, <2>4, SgnLaws DEF Off
<1>10. \A j \in Int : sign * (sign * Off(j, g, A)) = Off(j, g, A) /\ Off(j, g, A) \in {-1, 0, 1}
  <2> SUFFICES ASSUME NEW j \in Int
               PROVE  sign * (sign * Off(j, g, A)) = Off(j, g, A) /\ Off(j, g, A) \in {-1, 0, 1}
    OBVIOUS
  <2>1. j * g - A \in Int
    BY <1>6
  <2> QED
    BY <2>1, SgnLaws DEF Off, Sign
<1>11. c[<<0, 0>>] = -sign
  <2>1. c[<<0, 0>>] = Sgn(0 * (D * Pow2(0 - b)) - sign * A)
    BY <1>4 DEF A, ComparesWith
  <2>2. 0 * (D * Pow2(0 - b)) - sign * A = sign * (-A)
    BY <1>5, <1>6 DEF Sign
  <2>3. Sgn(-A) = -1
    BY <1>6 DEF Sgn
  <2> QED
    BY <1>6, <2>1, <2>2, <2>3, SgnLaws DEF Sign
<1>12. /\ sign * c[<<sign * M, K>>] = Off(4 * M, g, A)
       /\ c[<<sign * M, K>>] = sign * Off(4 * M, g, A)
       /\ sign * c[<<sign * (M + 1), K>>] = Off(4 * M + 4, g, A)
       /\ sign * c[<<sign * (2 * M - 1), K - 1>>] = Off(4 * M - 2, g, A)
       /\ sign * c[<<sign * (M - 1), K>>] = Off(4 * M - 4, g, A)
       /\ sign * c[<<sign * (2 * M + 1), K - 1>>] = Off(4 * M + 2, g, A)
       /\ sign * c[<<sign * (4 * M - 1), K - 2>>] = Off(4 * M - 1, g, A)
  <2>1. /\ 4 * (M + 1) = 4 * M + 4 /\ 2 * (2 * M - 1) = 4 * M - 2 /\ 4 * (M - 1) = 4 * M - 4
        /\ 2 * (2 * M + 1) = 4 * M + 2
        /\ M + 1 \in Int /\ 2 * M - 1 \in Int /\ M - 1 \in Int /\ 2 * M + 1 \in Int
        /\ 4 * M - 1 \in Int /\ M \in Int /\ 4 * M \in Int /\ 4 * M + 4 \in Int
        /\ 4 * M - 2 \in Int /\ 4 * M - 4 \in Int /\ 4 * M + 2 \in Int
    BY <1>3
  <2>2. c[<<sign * M, K>>] = sign * Off(4 * M, g, A)
    BY <1>9, <2>1
  <2>3. c[<<sign * (M + 1), K>>] = sign * Off(4 * M + 4, g, A)
    BY <1>9, <2>1
  <2>4. c[<<sign * (M - 1), K>>] = sign * Off(4 * M - 4, g, A)
    BY <1>9, <2>1
  <2>5. c[<<sign * (2 * M - 1), K - 1>>] = sign * Off(4 * M - 2, g, A)
    BY <1>9, <2>1
  <2>6. c[<<sign * (2 * M + 1), K - 1>>] = sign * Off(4 * M + 2, g, A)
    BY <1>9, <2>1
  <2>7. c[<<sign * (4 * M - 1), K - 2>>] = sign * Off(4 * M - 1, g, A)
    BY <1>9, <2>1
  <2> QED
    BY <1>10, <2>1, <2>2, <2>3, <2>4, <2>5, <2>6, <2>7
<1>13. K = Scale(res.value)
  BY <1>1 DEF Scale, K, E
<1> DEFINE v == res.value
<1>14. /\ Valid(v) /\ v.kind = "normal" /\ v.prec = q /\ v.sign = sign /\ v.mant = M /\ Scale(v) = K
  BY <1>1, <1>13 DEF M
<1> HIDE DEF v
<1>15. CorrectBy(res, q, rnd, c)
  BY <1>7, <1>10, <1>11, <1>12, <1>14 DEF CorrectBy, CorrectlyRounded, RoundsTo, RoundingMode, Sign, v
<1> QED
  BY <1>15

-----------------------------------------------------------------------------
(* Bit lengths.                                                            *)

\* b is the bit length of n.
IsLength(n, b) ==
    /\ b \in Nat /\ n < Pow2(b)
    /\ n = 0 => b = 0
    /\ n # 0 => b >= 1 /\ Pow2(b - 1) <= n

\* A number has one bit length.
LEMMA LengthUnique ==
    ASSUME NEW n \in Nat, NEW b, NEW c, IsLength(n, b), IsLength(n, c)
    PROVE  b = c
<1>1. ASSUME NEW i, NEW j, IsLength(n, i), IsLength(n, j), i < j PROVE FALSE
  <2>1. i \in Nat /\ j \in Nat /\ j - 1 \in Nat /\ i <= j - 1 /\ n # 0
    BY <1>1 DEF IsLength
  <2>2. Pow2(i) <= Pow2(j - 1) /\ Pow2(i) \in Nat /\ Pow2(j - 1) \in Nat
    BY <2>1, Pow2Split
  <2> QED
    BY <1>1, <2>1, <2>2 DEF IsLength
<1>2. b \in Nat /\ c \in Nat
  BY DEF IsLength
<1> QED
  BY <1>1, <1>2

\* The bits of n without the last.
LEMMA Halving ==
    ASSUME NEW n \in Nat \ {0}
    PROVE  /\ n \div 2 \in Nat /\ n \div 2 < n
           /\ 2 * (n \div 2) <= n /\ n <= 2 * (n \div 2) + 1
  OBVIOUS

\* One bit more than the half has.
LEMMA LengthStep ==
    ASSUME NEW n \in Nat \ {0}, NEW b, IsLength(n \div 2, b)
    PROVE  IsLength(n, 1 + b)
<1> DEFINE h == n \div 2
<1>1. h \in Nat /\ 2 * h <= n /\ n <= 2 * h + 1
  BY Halving
<1> HIDE DEF h
<1>2. IsLength(h, b)
  BY DEF h
<1>3. b \in Nat /\ h < Pow2(b) /\ Pow2(b) \in Nat /\ Pow2(b + 1) = 2 * Pow2(b) /\ 1 + b = b + 1
      /\ (1 + b) - 1 = b
  BY <1>2, Pow2Step DEF IsLength
<1>4. n < Pow2(1 + b)
  BY <1>1, <1>3
<1>5. Pow2(b) <= n
  <2>1. CASE h = 0
    <3>1. b = 0
      BY <1>2, <2>1 DEF IsLength
    <3> QED
      BY <3>1, Pow2Zero
  <2>2. CASE h # 0
    <3>1. b - 1 \in Nat /\ (b - 1) + 1 = b /\ Pow2(b - 1) <= h
      BY <1>2, <2>2 DEF IsLength
    <3>2. Pow2(b) = 2 * Pow2(b - 1) /\ Pow2(b - 1) \in Nat
      BY <3>1, Pow2Step
    <3> QED
      BY <1>1, <3>1, <3>2
  <2> QED
    BY <2>1, <2>2
<1> QED
  BY <1>3, <1>4, <1>5 DEF IsLength

\* Every natural has a bit length.
LEMMA LengthExists == \A n \in Nat : \E b \in Nat : IsLength(n, b)
<1> DEFINE S == {n \in Nat : \E b \in Nat : IsLength(n, b)}
<1>1. ASSUME NEW n \in Nat, \A k \in Nat : k < n => k \in S PROVE n \in S
  <2>1. CASE n = 0
    <3>1. IsLength(0, 0)
      BY Pow2Zero DEF IsLength
    <3> QED
      BY <2>1, <3>1
  <2>2. CASE n # 0
    <3>1. n \div 2 \in Nat /\ n \div 2 < n
      BY <2>2, Halving
    <3>2. PICK b \in Nat : IsLength(n \div 2, b)
      BY <1>1, <3>1
    <3>3. IsLength(n, 1 + b) /\ 1 + b \in Nat
      BY <2>2, <3>2, LengthStep
    <3> QED
      BY <3>3
  <2> QED
    BY <2>1, <2>2
<1>2. Nat \subseteq S
  <2> HIDE DEF S
  <2> QED
    BY <1>1, StrongInduction
<1> QED
  BY <1>2

\* BitLength is the function its recursive definition describes.
LEMMA BitLengthDefined ==
    BitLength = [n \in Nat |-> IF n = 0 THEN 0 ELSE 1 + BitLength[n \div 2]]
<1> DEFINE Solves(f) == f = [n \in Nat |-> IF n = 0 THEN 0 ELSE 1 + f[n \div 2]]
           Len(n) == CHOOSE b \in Nat : IsLength(n, b)
           g == [n \in Nat |-> Len(n)]
<1>1. \A n \in Nat : Len(n) \in Nat /\ IsLength(n, Len(n))
  BY LengthExists
<1> HIDE DEF Len
<1>2. \A n \in Nat : g[n] \in Nat /\ IsLength(n, g[n])
  BY <1>1
<1>3. ASSUME NEW n \in Nat PROVE g[n] = IF n = 0 THEN 0 ELSE 1 + g[n \div 2]
  <2> HIDE DEF g
  <2>1. CASE n = 0
    BY <1>2, <2>1 DEF IsLength
  <2>2. CASE n # 0
    <3>1. IsLength(n, 1 + g[n \div 2])
      BY <1>2, <2>2, Halving, LengthStep
    <3> QED
      BY <1>2, <2>2, <3>1, LengthUnique
  <2> QED
    BY <2>1, <2>2
<1>4. Solves(g)
  <2>1. g = [n \in Nat |-> g[n]]
    OBVIOUS
  <2> HIDE DEF g
  <2> QED
    BY <1>3, <2>1
<1>5. BitLength = CHOOSE f : Solves(f)
  BY Zenon DEF BitLength
<1>6. Solves(CHOOSE f : Solves(f))
  <2> HIDE DEF Solves
  <2> QED
    BY <1>4
<1> QED
  BY <1>5, <1>6

\* bitLength counts the bits.
LEMMA BitLengthCounts == \A n \in Nat : IsLength(n, BitLength[n])
<1> DEFINE S == {n \in Nat : IsLength(n, BitLength[n])}
           f == [n \in Nat |-> IF n = 0 THEN 0 ELSE 1 + BitLength[n \div 2]]
<1>0. \A n \in Nat : BitLength[n] = IF n = 0 THEN 0 ELSE 1 + BitLength[n \div 2]
  <2>1. \A n \in Nat : f[n] = IF n = 0 THEN 0 ELSE 1 + BitLength[n \div 2]
    OBVIOUS
  <2>2. BitLength = f
    BY BitLengthDefined
  <2> HIDE DEF f
  <2> QED
    BY <2>1, <2>2
<1>1. ASSUME NEW n \in Nat, \A k \in Nat : k < n => k \in S PROVE n \in S
  <2>1. CASE n = 0
    BY <1>0, <2>1, Pow2Zero DEF IsLength
  <2>2. CASE n # 0
    <3>1. n \div 2 \in Nat /\ n \div 2 < n
      BY <2>2, Halving
    <3>2. IsLength(n \div 2, BitLength[n \div 2])
      BY <1>1, <3>1
    <3>3. IsLength(n, 1 + BitLength[n \div 2])
      BY <2>2, <3>2, LengthStep
    <3> QED
      BY <1>0, <2>2, <3>3
  <2> QED
    BY <2>1, <2>2
<1>2. Nat \subseteq S
  <2> HIDE DEF S
  <2> QED
    BY <1>1, StrongInduction
<1> QED
  BY <1>2

\* A positive n has the top bit of its bit length.
LEMMA BitLengthBounds ==
    ASSUME NEW n \in Nat \ {0}
    PROVE  BitLength[n] \in Nat \ {0} /\ n \in Pow2(BitLength[n] - 1) .. Pow2(BitLength[n]) - 1
<1>1. IsLength(n, BitLength[n])
  BY BitLengthCounts
<1>2. BitLength[n] \in Nat \ {0}
  BY <1>1 DEF IsLength
<1>3. Pow2(BitLength[n] - 1) \in Nat /\ Pow2(BitLength[n]) \in Nat
  BY <1>2, LengthBounds
<1> QED
  BY <1>1, <1>2, <1>3 DEF IsLength

\* The naturals are closed under products, and so are the positive ones.
LEMMA NaturalProducts ==
    /\ \A i, j \in Nat : i * j \in Nat
    /\ \A i, j \in Nat \ {0} : i * j \in Nat \ {0}
  BY ProductSign

\* A product grows with its factor.
LEMMA SmallerFactor ==
    ASSUME NEW i \in Nat, NEW j \in Nat, NEW c \in Nat, i <= j
    PROVE  c * i <= c * j
<1>1. j - i \in Nat
  OBVIOUS
<1>2. c * (j - i) \in Nat
  BY <1>1, NaturalProducts
<1>3. c * (j - i) = c * j - c * i /\ c * j \in Int /\ c * i \in Int
  OBVIOUS
<1> QED
  BY <1>2, <1>3

\* A mantissa of p bits with n zeros appended has p + n bits.
LEMMA ShiftedLength ==
    ASSUME NEW p \in Nat \ {0}, NEW m \in Pow2(p - 1) .. Pow2(p) - 1, NEW n \in Nat
    PROVE  /\ p + n \in Nat \ {0}
           /\ m * Pow2(n) \in Nat \ {0}
           /\ m * Pow2(n) \in Pow2((p + n) - 1) .. Pow2(p + n) - 1
<1> DEFINE P == Pow2(p - 1)
           N == Pow2(n)
<1>2. P \in Nat \ {0} /\ Pow2(p) = 2 * P /\ N \in Nat \ {0} /\ m \in Nat \ {0}
  BY LengthBounds, Pow2Type
<1>3. Pow2((p + n) - 1) = P * N /\ Pow2(p + n) = 2 * (P * N)
  <2>1. p - 1 \in Nat /\ (p - 1) + n = (p + n) - 1 /\ p + n \in Nat \ {0}
    OBVIOUS
  <2>2. Pow2((p - 1) + n) = P * N
    BY <2>1, Pow2Sum
  <2>3. Pow2(p + n) = 2 * Pow2((p + n) - 1)
    BY <2>1, LengthBounds
  <2> QED
    BY <2>1, <2>2, <2>3
<1>4. m * N \in Nat \ {0}
  BY <1>2, NaturalProducts
<1>5. N * P <= N * m /\ N * (m + 1) <= N * (2 * P)
  <2>1. N \in Nat /\ P \in Nat /\ m \in Nat /\ m + 1 \in Nat /\ 2 * P \in Nat /\ P <= m /\ m + 1 <= 2 * P
    BY <1>2
  <2> HIDE DEF N, P
  <2> QED
    BY <2>1, SmallerFactor
<1>6. N * P = P * N /\ N * m = m * N /\ N * (m + 1) = m * N + N /\ N * (2 * P) = 2 * (P * N)
      /\ P * N \in Int
  BY <1>2
<1> HIDE DEF N, P
<1>7. m * N \in Pow2((p + n) - 1) .. Pow2(p + n) - 1
  BY <1>2, <1>3, <1>4, <1>5, <1>6
<1> QED
  BY <1>4, <1>7 DEF N

\* The first k bits of a mantissa of more bits are a mantissa of k bits.
LEMMA CutLength ==
    ASSUME NEW p \in Nat \ {0}, NEW m \in Pow2(p - 1) .. Pow2(p) - 1,
           NEW k \in Nat \ {0}, k < p
    PROVE  m \div Pow2(p - k) \in Pow2(k - 1) .. Pow2(k) - 1
<1> DEFINE H == Pow2(k - 1)
           W == Pow2(p - k)
<1>1. p - k \in Nat /\ k - 1 \in Nat /\ (k - 1) + (p - k) = p - 1
  OBVIOUS
<1>2. H \in Nat \ {0} /\ Pow2(k) = 2 * H /\ Pow2(p) = 2 * Pow2(p - 1) /\ m \in Nat
  BY LengthBounds
<1>3. W \in Nat \ {0} /\ H * W = Pow2(p - 1)
  <2>1. Pow2((k - 1) + (p - k)) = H * W
    BY <1>1, Pow2Sum
  <2>2. W \in Nat \ {0}
    BY <1>1, Pow2Type
  <2> QED
    BY <1>1, <2>1, <2>2
<1>4. H * W <= m /\ m < 2 * H * W
  <2>1. 2 * H * W = 2 * (H * W)
    BY <1>2, <1>3
  <2> QED
    BY <1>2, <1>3, <2>1
<1> HIDE DEF H, W
<1>5. m \div W \in H .. 2 * H - 1
  BY <1>2, <1>3, <1>4, TruncLength
<1> QED
  BY <1>2, <1>5 DEF H, W

-----------------------------------------------------------------------------
(* Multiplication.                                                         *)

\* A value of any precision: an integer operand becomes a value of as many
\* bits as it needs.
Operand(v) ==
    \/ v = NAN_VALUE
    \/ \E s \in Sign, p \in Nat \ {0} : v \in {Inf(s, p), Zero(s, p)}
    \/ /\ v = Normal(v.sign, v.prec, v.exp, v.mant) /\ v.sign \in Sign /\ v.prec \in Nat \ {0}
       /\ v.exp \in Int /\ v.mant \in Pow2(v.prec - 1) .. Pow2(v.prec) - 1

\* The precisions validate accepts are among them.
LEMMA ValidIsOperand ==
    ASSUME NEW v, Valid(v)
    PROVE  Operand(v)
<1>1. \A p \in Precision : p \in Nat \ {0}
  BY PrecAssumption DEF Precision
<1> QED
  BY <1>1 DEF Valid, Operand

\* The fields of a normal value, and the value with another one.
LEMMA NormalShape ==
    ASSUME NEW v, NEW s, NEW p, NEW e, NEW m, v = Normal(s, p, e, m)
    PROVE  /\ v.kind = "normal" /\ v.sign = s /\ v.prec = p /\ v.exp = e /\ v.mant = m
           /\ \A z : [v EXCEPT !.sign = z] = Normal(z, p, e, m)
           /\ \A z : [v EXCEPT !.exp = z] = Normal(s, p, z, m)
           /\ \A z : [v EXCEPT !.mant = z] = Normal(s, p, e, z)
  BY DEF Normal

\* The four kinds, and what each carries.
LEMMA Kinds ==
    ASSUME NEW v, Operand(v)
    PROVE  /\ v.kind \in {"nan", "inf", "zero", "normal"} /\ v.sign \in Sign
           /\ v.kind = "nan" => v = NAN_VALUE
           /\ v.kind = "inf" => v = Inf(v.sign, v.prec)
           /\ v.kind = "zero" => v = Zero(v.sign, v.prec)
           /\ v.kind = "normal" => v = Normal(v.sign, v.prec, v.exp, v.mant)
           /\ v.kind # "nan" => v.prec \in Nat \ {0}
           /\ Valid(v) /\ v.kind # "nan" => v.prec \in Precision
<1>1. NAN_VALUE.kind = "nan" /\ NAN_VALUE.sign = 1
  BY DEF NAN_VALUE
<1>2. \A s, p : /\ Inf(s, p).kind = "inf" /\ Inf(s, p).sign = s /\ Inf(s, p).prec = p
                /\ Zero(s, p).kind = "zero" /\ Zero(s, p).sign = s /\ Zero(s, p).prec = p
  BY DEF Inf, Zero
<1>3. CASE v = NAN_VALUE
  BY <1>1, <1>3 DEF Sign
<1>4. CASE \E s \in Sign, p \in Nat \ {0} : v \in {Inf(s, p), Zero(s, p)}
  <2>1. PICK s \in Sign, p \in Nat \ {0} : v \in {Inf(s, p), Zero(s, p)}
    BY <1>4
  <2>2. v.sign = s /\ v.prec = p /\ (v.kind = "inf" \/ v.kind = "zero")
        /\ (v.kind = "inf" => v = Inf(s, p)) /\ (v.kind = "zero" => v = Zero(s, p))
    BY <1>2, <2>1
  <2>3. Valid(v) => v.prec \in Precision
    BY <1>1, <1>2, <2>2 DEF Valid
  <2> QED
    BY <2>2, <2>3
<1>5. CASE /\ v = Normal(v.sign, v.prec, v.exp, v.mant) /\ v.sign \in Sign /\ v.prec \in Nat \ {0}
           /\ v.exp \in Int /\ v.mant \in Pow2(v.prec - 1) .. Pow2(v.prec) - 1
  <2>1. v.kind = "normal"
    BY <1>5, NormalShape
  <2>2. Valid(v) => v.prec \in Precision
    BY <1>1, <1>2, <2>1 DEF Valid
  <2> QED
    BY <1>5, <2>1, <2>2
<1> QED
  BY <1>3, <1>4, <1>5 DEF Operand

\* What validate says of a normal value.
LEMMA NormalParts ==
    ASSUME NEW a, Operand(a), a.kind = "normal"
    PROVE  /\ a.sign \in Sign /\ a.prec \in Nat \ {0} /\ a.exp \in Int
           /\ a.mant \in Pow2(a.prec - 1) .. Pow2(a.prec) - 1 /\ a.mant \in Nat \ {0}
           /\ Scale(a) \in Int /\ Scale(a) = a.exp - a.prec /\ Num(a) = a.sign * a.mant
<1>1. a.sign \in Sign /\ a.prec \in Nat \ {0} /\ a.exp \in Int
      /\ a.mant \in Pow2(a.prec - 1) .. Pow2(a.prec) - 1
  BY DEF Operand, NAN_VALUE, Inf, Zero
<1>2. a.mant \in Nat \ {0}
  BY <1>1, LengthBounds
<1> QED
  BY <1>1, <1>2 DEF Scale, Num

\* An operand whose precision is in range is a value.
LEMMA ShortOperandIsValid ==
    ASSUME NEW v, Operand(v), v.kind = "nan" \/ v.prec \in Precision
    PROVE  Valid(v)
<1>1. /\ v.kind \in {"nan", "inf", "zero", "normal"} /\ v.sign \in Sign
      /\ v.kind = "nan" => v = NAN_VALUE
      /\ v.kind = "inf" => v = Inf(v.sign, v.prec)
      /\ v.kind = "zero" => v = Zero(v.sign, v.prec)
      /\ v.kind = "normal" => v = Normal(v.sign, v.prec, v.exp, v.mant)
  BY Kinds
<1>2. CASE v.kind = "normal"
  BY <1>1, <1>2, NormalParts DEF Valid
<1> QED
  BY <1>1, <1>2 DEF Valid

\* Changing the sign of a value changes nothing else.
LEMMA OppositeSign ==
    ASSUME NEW b, Operand(b), b.kind # "nan", NEW c, c = [b EXCEPT !.sign = -b.sign]
    PROVE  /\ Operand(c) /\ (Valid(b) => Valid(c))
           /\ c.kind = b.kind /\ c.sign = -b.sign /\ c.prec = b.prec
           /\ c.exp = b.exp /\ c.mant = b.mant
<1>1. -b.sign \in Sign /\ b.prec \in Nat \ {0} /\ (Valid(b) => b.prec \in Precision)
  BY Kinds DEF Sign
<1>2. CASE b.kind = "normal"
  <2> DEFINE s == b.sign
             p == b.prec
             e == b.exp
             m == b.mant
  <2>0. b = Normal(s, p, e, m) /\ c = [b EXCEPT !.sign = -s]
    BY <1>2, Kinds
  <2> HIDE DEF s, p, e, m
  <2>1. c = Normal(-s, p, e, m)
    BY <2>0 DEF Normal
  <2>2. c.kind = "normal" /\ c.sign = -s /\ c.prec = p /\ c.exp = e /\ c.mant = m
    BY <2>1 DEF Normal
  <2>3. Operand(c)
    BY <1>1, <1>2, <2>1, <2>2, NormalParts DEF Operand, s, p, e, m
  <2> QED
    BY <1>1, <1>2, <2>2, <2>3, ShortOperandIsValid DEF s, p, e, m
<1>3. CASE b.kind = "inf"
  <2>1. b = Inf(b.sign, b.prec)
    BY <1>3, Kinds
  <2> DEFINE s == b.sign
             p == b.prec
  <2> HIDE DEF s, p
  <2>0. b = Inf(s, p) /\ c = [b EXCEPT !.sign = -s]
    BY <2>1 DEF s, p
  <2>2. c = Inf(-s, p) /\ b.exp = 0 /\ b.mant = 0
    BY <2>0 DEF Inf
  <2>3. c.kind = "inf" /\ c.sign = -s /\ c.prec = p /\ c.exp = 0 /\ c.mant = 0
    BY <2>2 DEF Inf
  <2>4. Operand(c)
    BY <1>1, <2>2 DEF Operand, s, p
  <2> QED
    BY <1>1, <1>3, <2>2, <2>3, <2>4, ShortOperandIsValid DEF s, p
<1>4. CASE b.kind = "zero"
  <2>1. b = Zero(b.sign, b.prec)
    BY <1>4, Kinds
  <2> DEFINE s == b.sign
             p == b.prec
  <2> HIDE DEF s, p
  <2>0. b = Zero(s, p) /\ c = [b EXCEPT !.sign = -s]
    BY <2>1 DEF s, p
  <2>2. c = Zero(-s, p) /\ b.exp = 0 /\ b.mant = 0
    BY <2>0 DEF Zero
  <2>3. c.kind = "zero" /\ c.sign = -s /\ c.prec = p /\ c.exp = 0 /\ c.mant = 0
    BY <2>2 DEF Zero
  <2>4. Operand(c)
    BY <1>1, <2>2 DEF Operand, s, p
  <2> QED
    BY <1>1, <1>4, <2>2, <2>3, <2>4, ShortOperandIsValid DEF s, p
<1> QED
  BY <1>2, <1>3, <1>4, Kinds

\* The fields of a result.
LEMMA ExactlyOf ==
    \A v, t : Exactly(v).value = v /\ Exactly(v).ternary = 0
              /\ Result(v, t).value = v /\ Result(v, t).ternary = t
  BY DEF Exactly, Result

\* A product of mantissas lies between products of their bounds.
LEMMA ProductBounds ==
    ASSUME NEW P \in Nat \ {0}, NEW Q \in Nat \ {0},
           NEW m \in P .. 2 * P - 1, NEW n \in Q .. 2 * Q - 1
    PROVE  m * n \in Nat /\ P * Q \in Nat /\ P * Q <= m * n /\ m * n < 4 * (P * Q)
<1>1. (m - P) * Q \in Nat /\ m * (n - Q) \in Nat /\ m \in Nat /\ n \in Nat
  <2>1. m - P \in Nat /\ n - Q \in Nat /\ m \in Nat
    OBVIOUS
  <2>2. \A i, j \in Nat : i * j \in Nat
    OBVIOUS
  <2> QED
    BY <2>1, <2>2
<1>2. (m - P) * Q = m * Q - P * Q /\ m * (n - Q) = m * n - m * Q
      /\ m * Q \in Int /\ P * Q \in Int /\ m * n \in Int
  BY <1>1
<1>3. (2 * P - m) * (2 * Q) \in Nat \ {0} /\ m * (2 * Q - n) \in Nat
  <2>1. 2 * P - m \in Nat \ {0} /\ 2 * Q - n \in Nat \ {0} /\ 2 * Q \in Nat \ {0} /\ m \in Nat \ {0}
    OBVIOUS
  <2>2. \A i, j \in Nat \ {0} : i * j \in Nat \ {0}
    BY ProductSign
  <2> QED
    BY <2>1, <2>2
<1>4. (2 * P - m) * (2 * Q) = 4 * (P * Q) - 2 * (m * Q)
      /\ m * (2 * Q - n) = 2 * (m * Q) - m * n
  BY <1>1
<1> QED
  BY <1>1, <1>2, <1>3, <1>4

\* The product of two mantissas has the length ProductLength says.
LEMMA ProductLengthIsLength ==
    ASSUME NEW a, NEW b, Operand(a), a.kind = "normal", Operand(b), b.kind = "normal"
    PROVE  /\ a.mant * b.mant \in Nat \ {0} /\ ProductLength(a, b) \in Nat \ {0}
           /\ a.mant * b.mant \in Pow2(ProductLength(a, b) - 1) .. Pow2(ProductLength(a, b)) - 1
<1> DEFINE P == Pow2(a.prec - 1)
           Q == Pow2(b.prec - 1)
           product == a.mant * b.mant
           p == a.prec + b.prec
<1>1. a.prec \in Nat \ {0} /\ b.prec \in Nat \ {0} /\ p \in Nat /\ p - 2 \in Nat
  BY NormalParts
<1>2. /\ P \in Nat \ {0} /\ Q \in Nat \ {0}
      /\ a.mant \in P .. 2 * P - 1 /\ b.mant \in Q .. 2 * Q - 1
  BY <1>1, NormalParts, LengthBounds
<1>3. Pow2(p - 2) = P * Q /\ Pow2(p - 1) = 2 * (P * Q) /\ Pow2(p) = 4 * (P * Q)
  <2>1. a.prec - 1 \in Nat /\ b.prec - 1 \in Nat /\ (a.prec - 1) + (b.prec - 1) = p - 2
        /\ (p - 2) + 1 = p - 1 /\ (p - 2) + 2 = p
    BY <1>1
  <2>2. Pow2((a.prec - 1) + (b.prec - 1)) = P * Q
    BY <2>1, Pow2Sum
  <2>3. Pow2((p - 2) + 1) = 2 * Pow2(p - 2) /\ Pow2((p - 2) + 2) = 4 * Pow2(p - 2)
    BY <1>1, Pow2Quarter
  <2> QED
    BY <2>1, <2>2, <2>3
<1> HIDE DEF P, Q
<1>4. product \in Nat /\ P * Q \in Nat \ {0} /\ P * Q <= product /\ product < 4 * (P * Q)
  BY <1>2, ProductBounds, ProductSign
<1> HIDE DEF product
<1>5. CASE product >= Pow2(p - 1)
  <2>1. ProductLength(a, b) = p
    BY <1>1, <1>5 DEF ProductLength, product
  <2> QED
    BY <1>1, <1>3, <1>4, <1>5, <2>1 DEF product
<1>6. CASE ~(product >= Pow2(p - 1))
  <2>1. ProductLength(a, b) = p - 1 /\ (p - 1) - 1 = p - 2
    BY <1>1, <1>6 DEF ProductLength, product
  <2> QED
    BY <1>1, <1>3, <1>4, <1>6, <2>1 DEF product
<1> QED
  BY <1>5, <1>6

\* Mul of two normal values rounds the product of their mantissas, at the sum
\* of their scales.
LEMMA MulRounds ==
    ASSUME NEW a, NEW b, Operand(a), a.kind = "normal", Operand(b), b.kind = "normal",
           NEW q \in Precision, NEW rnd \in RoundingMode
    PROVE  /\ a.sign * b.sign \in Sign /\ a.mant * b.mant \in Nat \ {0}
           /\ RoundedTo(Mul(a, b, q, rnd), a.sign * b.sign, q, rnd,
                        a.mant * b.mant, Scale(a) + Scale(b), 1)
<1> DEFINE L == ProductLength(a, b)
           product == a.mant * b.mant
           e == a.exp + b.exp + (L - a.prec - b.prec)
           sign == a.sign * b.sign
<1>1. sign \in Sign
  BY NormalParts DEF Sign
<1>2. product \in Nat \ {0} /\ L \in Nat \ {0} /\ product \in Pow2(L - 1) .. Pow2(L) - 1
  BY ProductLengthIsLength
<1>3. e \in Int /\ e - L = Scale(a) + Scale(b)
  BY <1>2, NormalParts DEF Scale
<1>4. Mul(a, b, q, rnd) = PackNormal(sign, e, product, L, q, rnd)
  <2>1. Mul(a, b, q, rnd) = MulNormalNormal(a, b, q, rnd)
    BY DEF Mul
  <2> QED
    BY <1>2, <2>1 DEF MulNormalNormal
<1>5. q \in Nat \ {0}
  BY PrecAssumption DEF Precision
<1> HIDE DEF L, product, e, sign
<1>6. RoundedTo(PackNormal(sign, e, product, L, q, rnd), sign, q, rnd, product, e - L, 1)
  BY <1>1, <1>2, <1>3, <1>5, PackNormalRounds
<1> QED
  BY <1>1, <1>2, <1>3, <1>4, <1>6 DEF product, sign

-----------------------------------------------------------------------------
(* Division.                                                               *)

\* A quotient and a remainder in range are those of the division.
LEMMA DivisionUnique ==
    ASSUME NEW m \in Nat, NEW W \in Nat \ {0}, NEW t \in Int, NEW d \in 0 .. W - 1,
           m = t * W + d
    PROVE  m \div W = t /\ m % W = d
<1> DEFINE u == m \div W
           r == m % W
<1>1. u \in Nat /\ r \in 0 .. W - 1 /\ m = u * W + r
  BY Division
<1> HIDE DEF u, r
<1>2. (u - t) * W = d - r
  <2>1. (u - t) * W = u * W - t * W /\ u * W \in Int /\ t * W \in Int
    BY <1>1
  <2> QED
    BY <1>1, <2>1
<1>3. u - t = 0
  <2>1. CASE u - t > 0
    <3>1. u - t - 1 \in Nat /\ (u - t - 1) * W \in Nat
      BY <1>1, <2>1
    <3>2. (u - t - 1) * W = (u - t) * W - W
      BY <1>1
    <3> QED
      BY <1>1, <1>2, <3>1, <3>2
  <2>2. CASE u - t < 0
    <3>1. t - u - 1 \in Nat /\ (t - u - 1) * W \in Nat
      BY <1>1, <2>2
    <3>2. (t - u - 1) * W = -((u - t) * W) - W
      BY <1>1
    <3> QED
      BY <1>1, <1>2, <3>1, <3>2
  <2> QED
    BY <1>1, <2>1, <2>2
<1>4. u = t
  BY <1>1, <1>3
<1> QED
  BY <1>1, <1>2, <1>3, <1>4 DEF u, r

\* Half a quotient is the quotient by twice the divisor, and the bit that is
\* shifted out joins the remainder.
LEMMA HalfQuotient ==
    ASSUME NEW num \in Nat, NEW d \in Nat \ {0}
    PROVE  /\ (num \div d) \div 2 = num \div (2 * d)
           /\ num % (2 * d) = ((num \div d) % 2) * d + (num % d)
           /\ (num \div d) % 2 \in {0, 1}
           /\ num % d \in 0 .. d - 1
<1> DEFINE u == num \div d
           r == num % d
           t == u \div 2
           bit == u % 2
<1>1. u \in Nat /\ r \in 0 .. d - 1 /\ num = u * d + r
  BY Division
<1>2. t \in Nat /\ bit \in {0, 1} /\ u = 2 * t + bit
  BY <1>1
<1> HIDE DEF u, r, t, bit
<1>3. num = t * (2 * d) + (bit * d + r)
  <2>1. u * d = t * (2 * d) + bit * d
    <3>1. (2 * t + bit) * d = t * (2 * d) + bit * d
      BY <1>2
    <3> QED
      BY <1>2, <3>1
  <2>2. u * d \in Int /\ t * (2 * d) \in Int /\ bit * d \in Int
    BY <1>1, <1>2
  <2> QED
    BY <1>1, <2>1, <2>2
<1>4. bit * d + r \in 0 .. 2 * d - 1 /\ 2 * d \in Nat \ {0}
  <2>1. CASE bit = 0
    BY <1>1, <2>1
  <2>2. CASE bit = 1
    BY <1>1, <2>2
  <2> QED
    BY <1>2, <2>1, <2>2
<1> DEFINE W == 2 * d
           o == bit * d + r
<1>5. num \div W = t /\ num % W = o
  <2> HIDE DEF W, o
  <2>1. W \in Nat \ {0} /\ o \in 0 .. W - 1 /\ num = t * W + o /\ t \in Int
    BY <1>2, <1>3, <1>4 DEF W, o
  <2> QED
    BY <2>1, DivisionUnique
<1> QED
  BY <1>1, <1>2, <1>5, Zenon DEF u, r, t, bit, W, o

\* finishDiv: from a quotient of q + 1 bits and a sticky bit it takes the
\* decision that roundMantissa takes from all the bits of the dividend.
FinishDivAgrees(sign, e, q, rnd, num, d) ==
    LET r == RoundUnits(num, 2 * d, Pow2(q), e, sign, rnd)
    IN  num \div d < 2 * Pow2(q) =>
           FinishDiv(sign, e, num \div d, q, rnd, num % d # 0)
           = Result(Normal(sign, q, r.exp, r.mant), r.ternary)

\* divMantissas's rounding by the remainder agrees with roundMantissa's by the
\* discarded bits, for every dividend and divisor.
LEMMA FinishDivRounds ==
    ASSUME NEW sign \in Sign, NEW e \in Int, NEW q \in Nat \ {0}, NEW rnd \in RoundingMode,
           NEW num \in Nat, NEW d \in Nat \ {0}
    PROVE  FinishDivAgrees(sign, e, q, rnd, num, d)
<1> DEFINE r == RoundUnits(num, 2 * d, Pow2(q), e, sign, rnd)
<1> SUFFICES ASSUME num \div d < 2 * Pow2(q)
             PROVE  FinishDiv(sign, e, num \div d, q, rnd, num % d # 0)
                    = Result(Normal(sign, q, r.exp, r.mant), r.ternary)
  BY Zenon DEF FinishDivAgrees
<1>0. r = RoundUnits(num, 2 * d, Pow2(q), e, sign, rnd)
  OBVIOUS
<1> HIDE DEF r
<1> DEFINE quot == num \div d
           rem == num % d
           trunc == quot \div 2
           bit == quot % 2
           W == 2 * d
           dropped == num % W
           Q == Pow2(q)
<1>1. num \div W = trunc /\ dropped = bit * d + rem /\ bit \in {0, 1} /\ rem \in 0 .. d - 1
  BY HalfQuotient
<1>2. quot \in Nat /\ trunc \in Nat /\ quot = 2 * trunc + bit
  <2>1. quot \in Nat
    BY Division
  <2> QED
    BY <2>1
<1>3. Q \in Nat \ {0}
  BY Pow2Type
<1>4. trunc + 1 >= Q <=> trunc + 1 = Q
  <2>1. quot < 2 * Q
    OBVIOUS
  <2> HIDE DEF quot, bit, trunc, Q
  <2> QED
    BY <1>1, <1>2, <1>3, <2>1
<1>5. dropped = IF bit = 1 THEN d + rem ELSE rem
  BY <1>1
<1> DEFINE increment == CASE rnd = "RNDN" -> bit = 1 /\ (rem # 0 \/ trunc % 2 = 1)
                           [] rnd = "RNDZ" -> FALSE
                           [] rnd = "RNDA" -> TRUE
                           [] rnd = "RNDD" -> sign = -1
                           [] rnd = "RNDU" -> sign = 1
<1>6. ASSUME dropped # 0
      PROVE  Increments(trunc, dropped, W, sign, rnd) <=> increment
  <2>1. dropped \in 1 .. W - 1 /\ W \in Nat \ {0}
    BY <1>1, <1>5, <1>6
  <2>2. 2 * dropped > W \/ (2 * dropped = W /\ trunc % 2 = 1)
        <=> bit = 1 /\ (rem # 0 \/ trunc % 2 = 1)
    <3> HIDE DEF quot, rem, bit, trunc, dropped
    <3> QED
      BY <1>1, <1>2, <1>5
  <2> HIDE DEF quot, rem, bit, trunc, dropped, W
  <2>3. /\ rnd = "RNDZ" => ~Increments(trunc, dropped, W, sign, rnd)
        /\ rnd = "RNDA" => Increments(trunc, dropped, W, sign, rnd)
        /\ rnd = "RNDD" => (Increments(trunc, dropped, W, sign, rnd) <=> sign = -1)
        /\ rnd = "RNDU" => (Increments(trunc, dropped, W, sign, rnd) <=> sign = 1)
        /\ rnd = "RNDN" => (Increments(trunc, dropped, W, sign, rnd)
                               <=> (2 * dropped > W \/ (2 * dropped = W /\ trunc % 2 = 1)))
    BY <1>2, <2>1, IncrementsBy
  <2> QED
    BY <2>2, <2>3 DEF RoundingMode
<1>7. dropped = 0 <=> bit # 1 /\ rem = 0
  BY <1>1, <1>5
<1> HIDE DEF quot, rem, bit, trunc, dropped, W, Q
<1>8. r = IF dropped = 0
          THEN [mant |-> trunc, exp |-> e, ternary |-> 0]
          ELSE IF ~Increments(trunc, dropped, W, sign, rnd)
          THEN [mant |-> trunc, exp |-> e, ternary |-> -sign]
          ELSE IF trunc + 1 >= Q
          THEN [mant |-> Q \div 2, exp |-> e + 1, ternary |-> sign]
          ELSE [mant |-> trunc + 1, exp |-> e, ternary |-> sign]
  <2>1. r = RoundUnits(num, W, Q, e, sign, rnd)
    BY <1>0 DEF W, Q
  <2> QED
    BY <1>1, <2>1 DEF RoundUnits, dropped
<1> DEFINE f == FinishDiv(sign, e, quot, q, rnd, rem # 0)
<1>9. /\ bit # 1 /\ rem = 0 => f = Exactly(Normal(sign, q, e, trunc))
      /\ (bit = 1 \/ rem # 0) /\ ~increment => f = Result(Normal(sign, q, e, trunc), -sign)
      /\ (bit = 1 \/ rem # 0) /\ increment =>
            f = Result(IF trunc + 1 = Q THEN Normal(sign, q, e + 1, Q \div 2)
                                        ELSE Normal(sign, q, e, trunc + 1), sign)
  BY DEF FinishDiv, trunc, bit, Q, increment
<1> HIDE DEF f, increment
<1>10. f = Result(Normal(sign, q, r.exp, r.mant), r.ternary)
  <2>1. CASE dropped = 0
    BY <1>7, <1>8, <1>9, <2>1 DEF Exactly
  <2>2. CASE dropped # 0 /\ ~Increments(trunc, dropped, W, sign, rnd)
    BY <1>6, <1>7, <1>8, <1>9, <2>2
  <2>3. CASE dropped # 0 /\ Increments(trunc, dropped, W, sign, rnd)
    BY <1>4, <1>6, <1>7, <1>8, <1>9, <2>3
  <2> QED
    BY <2>1, <2>2, <2>3
<1> QED
  BY <1>10 DEF f, quot, rem

\* A quotient whose dividend lies between two multiples of the divisor.
LEMMA QuotientBounds ==
    ASSUME NEW num \in Nat, NEW d \in Nat \ {0}, NEW c \in Nat, NEW C \in Nat
    PROVE  /\ c * d <= num <=> c <= num \div d
           /\ num < C * d <=> num \div d < C
<1> DEFINE u == num \div d
           r == num % d
<1>1. u \in Nat /\ r \in 0 .. d - 1 /\ num = u * d + r
  BY Division
<1> HIDE DEF u, r
<1>2. \A k \in Nat : k <= u => k * d <= num
  <2> SUFFICES ASSUME NEW k \in Nat, k <= u PROVE k * d <= num
    OBVIOUS
  <2>1. d * k <= d * u
    BY <1>1, SmallerFactor
  <2>2. d * k = k * d /\ d * u = u * d /\ k * d \in Int /\ u * d \in Int
    BY <1>1
  <2> QED
    BY <1>1, <2>1, <2>2
<1>3. \A k \in Nat : u < k => num < k * d
  <2> SUFFICES ASSUME NEW k \in Nat, u < k PROVE num < k * d
    OBVIOUS
  <2>1. d * (u + 1) <= d * k
    BY <1>1, SmallerFactor
  <2>2. d * (u + 1) = u * d + d /\ d * k = k * d /\ k * d \in Int /\ u * d \in Int
    BY <1>1
  <2> QED
    BY <1>1, <2>1, <2>2
<1>4. \A k \in Nat : k * d \in Int
  OBVIOUS
<1>5. c * d <= num <=> c <= u
  BY <1>1, <1>2, <1>3, <1>4
<1>6. num < C * d <=> u < C
  BY <1>1, <1>2, <1>3, <1>4
<1> QED
  BY <1>5, <1>6 DEF u

\* The shift divMantissas aligns the mantissas with.
Shift(a, b, q) == q + 1 + b.prec - a.prec

\* The numerator of the long division.
Dividend(a, b, q) ==
    IF Shift(a, b, q) >= 0 THEN a.mant * Pow2(Shift(a, b, q)) ELSE a.mant

\* The denominator of the long division.
Divisor(a, b, q) ==
    IF Shift(a, b, q) >= 0 THEN b.mant ELSE b.mant * Pow2(-Shift(a, b, q))

\* The dividend is scaled so that the quotient has q + 1 or q + 2 bits.
LEMMA QuotientLength ==
    ASSUME NEW a, NEW b, Operand(a), a.kind = "normal", Operand(b), b.kind = "normal",
           NEW q \in Nat \ {0}
    PROVE  /\ Dividend(a, b, q) \in Nat \ {0} /\ Divisor(a, b, q) \in Nat \ {0}
           /\ Pow2(q) * Divisor(a, b, q) <= Dividend(a, b, q)
           /\ Dividend(a, b, q) < (4 * Pow2(q)) * Divisor(a, b, q)
<1> DEFINE shift == Shift(a, b, q)
           num == Dividend(a, b, q)
           d == Divisor(a, b, q)
           P == Pow2(a.prec - 1)
           B == Pow2(b.prec - 1)
           Q == Pow2(q)
           am == a.mant
           bm == b.mant
<1>1. /\ a.prec \in Nat \ {0} /\ b.prec \in Nat \ {0}
      /\ P \in Nat \ {0} /\ B \in Nat \ {0} /\ Q \in Nat \ {0}
      /\ am \in P .. 2 * P - 1 /\ bm \in B .. 2 * B - 1
      /\ am \in Nat \ {0} /\ bm \in Nat \ {0}
      /\ a.prec - 1 \in Nat /\ b.prec - 1 \in Nat
      /\ Pow2(q + 1) = 2 * Q
  <2>1. a.prec \in Nat \ {0} /\ b.prec \in Nat \ {0} /\ am \in Nat \ {0} /\ bm \in Nat \ {0}
    BY NormalParts
  <2>2. a.mant \in Pow2(a.prec - 1) .. Pow2(a.prec) - 1 /\ b.mant \in Pow2(b.prec - 1) .. Pow2(b.prec) - 1
    BY NormalParts
  <2>3. P \in Nat \ {0} /\ B \in Nat \ {0} /\ Pow2(a.prec) = 2 * P /\ Pow2(b.prec) = 2 * B
    BY <2>1, LengthBounds
  <2>4. Q \in Nat \ {0} /\ Pow2(q + 1) = 2 * Q
    BY Pow2Type, Pow2Step
  <2> QED
    BY <2>1, <2>2, <2>3, <2>4
<1>5. shift \in Int
  BY <1>1 DEF Shift
<1>2. ASSUME NEW G \in Nat \ {0}, num \in Nat \ {0}, d \in Nat \ {0},
             G <= d, d < 2 * G, (2 * Q) * G <= num, num < (4 * Q) * G
      PROVE  Q * d <= num /\ num < (4 * Q) * d
  <2> HIDE DEF num, d, Q
  <2>1. Q * d <= Q * (2 * G) /\ (4 * Q) * G <= (4 * Q) * d
    <3>1. Q \in Nat /\ 4 * Q \in Nat /\ d \in Nat /\ 2 * G \in Nat /\ d <= 2 * G /\ G <= d
      BY <1>1, <1>2
    <3> QED
      BY <3>1, SmallerFactor
  <2>2. Q * (2 * G) = (2 * Q) * G /\ Q * d \in Int /\ (2 * Q) * G \in Int /\ (4 * Q) * G \in Int
        /\ (4 * Q) * d \in Int
    BY <1>1, <1>2
  <2> QED
    BY <1>2, <2>1, <2>2
<1>3. CASE shift >= 0
  <2> DEFINE S == Pow2(shift)
  <2>1. shift \in Nat /\ (a.prec - 1) + shift = (q + 1) + (b.prec - 1) /\ q + 1 \in Nat
    BY <1>1, <1>3 DEF Shift
  <2>2. S \in Nat \ {0} /\ P * S = (2 * Q) * B
    <3>1. Pow2((a.prec - 1) + shift) = P * S
      BY <1>1, <2>1, Pow2Sum
    <3>2. Pow2((q + 1) + (b.prec - 1)) = Pow2(q + 1) * B
      BY <1>1, <2>1, Pow2Sum
    <3> QED
      BY <1>1, <2>1, <3>1, <3>2, Pow2Type
  <2>3. num = am * S /\ d = bm
    BY <1>3 DEF Dividend, Divisor
  <2> HIDE DEF num, d, P, B, Q, S, am, bm, shift
  <2>4. num \in Nat \ {0} /\ d \in Nat \ {0}
    BY <1>1, <2>2, <2>3, NaturalProducts
  <2>5. S * P <= S * am /\ S * (am + 1) <= S * (2 * P)
    <3>1. S \in Nat /\ P \in Nat /\ am \in Nat /\ am + 1 \in Nat /\ 2 * P \in Nat
          /\ P <= am /\ am + 1 <= 2 * P
      BY <1>1, <2>2
    <3> QED
      BY <3>1, SmallerFactor
  <2>6. S * P = P * S /\ S * am = am * S /\ S * (am + 1) = am * S + S /\ S * (2 * P) = 2 * (P * S)
        /\ am * S \in Int /\ P * S \in Int
    BY <1>1, <2>2
  <2>7. (4 * Q) * B = 2 * ((2 * Q) * B) /\ (2 * Q) * B \in Int
    BY <1>1
  <2>8. (2 * Q) * B <= num /\ num < (4 * Q) * B
    BY <2>2, <2>3, <2>5, <2>6, <2>7
  <2>9. Q * d <= num /\ num < (4 * Q) * d
    BY <1>1, <1>2, <2>3, <2>4, <2>8
  <2> QED
    BY <2>4, <2>9 DEF num, d, Q
<1>4. CASE shift < 0
  <2> DEFINE S == Pow2(-shift)
             G == B * S
  <2>1. -shift \in Nat /\ (q + 1) + ((b.prec - 1) + (-shift)) = a.prec - 1 /\ q + 1 \in Nat
        /\ (b.prec - 1) + (-shift) \in Nat
    BY <1>1, <1>4 DEF Shift
  <2>2. S \in Nat \ {0} /\ P = (2 * Q) * G
    <3>1. Pow2((q + 1) + ((b.prec - 1) + (-shift))) = Pow2(q + 1) * Pow2((b.prec - 1) + (-shift))
      BY <2>1, Pow2Sum
    <3>2. Pow2((b.prec - 1) + (-shift)) = B * S
      BY <1>1, <2>1, Pow2Sum
    <3> QED
      BY <1>1, <2>1, <3>1, <3>2, Pow2Type
  <2>3. num = am /\ d = bm * S
    <3>1. ~(shift >= 0)
      BY <1>4, <1>5
    <3> QED
      BY <3>1 DEF Dividend, Divisor
  <2> HIDE DEF num, d, P, B, Q, S, am, bm, shift
  <2>4. num \in Nat \ {0} /\ d \in Nat \ {0} /\ G \in Nat \ {0}
    BY <1>1, <2>2, <2>3, NaturalProducts
  <2>5. S * B <= S * bm /\ S * (bm + 1) <= S * (2 * B)
    <3>1. S \in Nat /\ B \in Nat /\ bm \in Nat /\ bm + 1 \in Nat /\ 2 * B \in Nat
          /\ B <= bm /\ bm + 1 <= 2 * B
      BY <1>1, <2>2
    <3> QED
      BY <3>1, SmallerFactor
  <2>6. S * B = G /\ S * bm = bm * S /\ S * (bm + 1) = bm * S + S /\ S * (2 * B) = 2 * G
        /\ bm * S \in Int
    BY <1>1, <2>2
  <2> HIDE DEF G
  <2>7. (4 * Q) * G = 2 * ((2 * Q) * G) /\ (2 * Q) * G \in Int
    BY <1>1, <2>4
  <2>8. (2 * Q) * G <= num /\ num < (4 * Q) * G /\ G <= d /\ d < 2 * G
    BY <1>1, <2>2, <2>3, <2>4, <2>5, <2>6, <2>7
  <2>9. Q * d <= num /\ num < (4 * Q) * d
    BY <1>2, <2>4, <2>8
  <2> QED
    BY <2>4, <2>9 DEF num, d, Q
<1> QED
  BY <1>3, <1>4, <1>5

\* The result is what roundMantissa makes of num in units of 2d or 4d.
QuotientRounding(res, num, d, e, sign, q, rnd) ==
    \E W \in {2 * d, 4 * d} : \E f \in Int :
        /\ \/ W = 2 * d /\ f = e
           \/ W = 4 * d /\ f = e + 1
        /\ Pow2(q - 1) * W <= num /\ num < (2 * Pow2(q - 1)) * W
        /\ LET r == RoundUnits(num, W, 2 * Pow2(q - 1), f, sign, rnd)
           IN  res = Result(Normal(sign, q, r.exp, r.mant), r.ternary)

\* Shortened or not, the quotient that division computes rounds num / d at
\* units of W = 2d or 4d: the result of roundMantissa on the whole dividend.
LEMMA QuotientRounds ==
    ASSUME NEW sign \in Sign, NEW e \in Int, NEW q \in Nat \ {0}, NEW rnd \in RoundingMode,
           NEW num \in Nat, NEW d \in Nat \ {0},
           Pow2(q) * d <= num, num < (4 * Pow2(q)) * d,
           NEW quot, quot = num \div d,
           NEW rem, rem = num - quot * d,
           NEW short, short = ShortenQuotient(quot, rem),
           NEW res,
           res = IF quot < Pow2(q + 1) THEN FinishDiv(sign, e, quot, q, rnd, rem # 0)
                                       ELSE FinishDiv(sign, e + 1, short.quot, q, rnd, short.rem # 0)
    PROVE  QuotientRounding(res, num, d, e, sign, q, rnd)
<1> DEFINE H == Pow2(q - 1)
<1>1. H \in Nat \ {0} /\ Pow2(q) = 2 * H /\ Pow2(q + 1) = 4 * H
  <2>1. H \in Nat \ {0} /\ Pow2(q) = 2 * H
    BY LengthBounds
  <2>2. Pow2(q + 1) = 2 * Pow2(q)
    BY Pow2Step
  <2> QED
    BY <2>1, <2>2
<1>2. quot \in Nat /\ rem = num % d /\ num % d \in 0 .. d - 1
  <2>1. num \div d \in Nat /\ num % d \in 0 .. d - 1 /\ num = (num \div d) * d + (num % d)
    BY Division
  <2>2. (num \div d) * d \in Int
    BY <2>1
  <2> QED
    BY <2>1, <2>2
<1>3. H * (2 * d) = (2 * H) * d /\ (2 * H) * (2 * d) = (4 * H) * d
      /\ H * (4 * d) = (4 * H) * d /\ (2 * H) * (4 * d) = (8 * H) * d
      /\ (2 * H) * d \in Int /\ (4 * H) * d \in Int /\ (8 * H) * d \in Int
  BY <1>1
<1>4. (2 * H) * d <= num /\ num < (8 * H) * d
  <2>1. 4 * Pow2(q) = 8 * H
    BY <1>1
  <2> QED
    BY <1>1, <2>1
<1>5. num < (4 * H) * d <=> quot < 4 * H
  <2> DEFINE C == 4 * H
  <2>1. C \in Nat
    BY <1>1
  <2> HIDE DEF C
  <2>2. num < C * d <=> num \div d < C
    BY <2>1, QuotientBounds
  <2> QED
    BY <2>2 DEF C
<1>6. CASE quot < 4 * H
  <2> DEFINE W == 2 * d
             r == RoundUnits(num, W, 2 * H, e, sign, rnd)
  <2> DEFINE sticky == rem # 0
  <2>1. res = FinishDiv(sign, e, quot, q, rnd, sticky) /\ sticky = (num % d # 0) /\ sticky \in BOOLEAN
    BY <1>1, <1>2, <1>6
  <2>2. num \div d < 2 * Pow2(q) /\ r = RoundUnits(num, 2 * d, Pow2(q), e, sign, rnd)
    <3>1. 2 * Pow2(q) = 4 * H
      BY <1>1
    <3>2. num \div d < 2 * Pow2(q)
      BY <1>6, <3>1
    <3> HIDE DEF H
    <3> QED
      BY <1>1, <3>2
  <2> HIDE DEF r, sticky
  <2>3. res = Result(Normal(sign, q, r.exp, r.mant), r.ternary)
    <3>1. FinishDivAgrees(sign, e, q, rnd, num, d)
      BY FinishDivRounds
    <3> QED
      BY <2>1, <2>2, <3>1, Zenon DEF FinishDivAgrees
  <2>4. H * W <= num /\ num < (2 * H) * W
    BY <1>3, <1>4, <1>5, <1>6
  <2> QED
    BY <2>3, <2>4 DEF r, QuotientRounding
<1>7. CASE ~(quot < 4 * H)
  <2> DEFINE W == 4 * d
             d2 == 2 * d
             r == RoundUnits(num, W, 2 * H, e + 1, sign, rnd)
  <2>1. short.quot = num \div d2 /\ (short.rem # 0 <=> num % d2 # 0)
    <3>1. (num \div d) \div 2 = num \div d2
          /\ num % d2 = ((num \div d) % 2) * d + (num % d) /\ (num \div d) % 2 \in {0, 1}
      BY HalfQuotient
    <3>2. num % d2 = IF quot % 2 = 1 THEN d + rem ELSE rem
      BY <1>2, <3>1
    <3>3. short.quot = quot \div 2 /\ short.rem = IF quot % 2 = 1 THEN 1 ELSE rem
      BY DEF ShortenQuotient
    <3> HIDE DEF d2
    <3> QED
      BY <1>2, <3>1, <3>2, <3>3
  <2> DEFINE sticky == short.rem # 0
  <2>2. res = FinishDiv(sign, e + 1, short.quot, q, rnd, sticky)
        /\ sticky \in BOOLEAN
    BY <1>1, <1>7
  <2>3. d2 \in Nat \ {0} /\ 2 * d2 = W /\ e + 1 \in Int
    OBVIOUS
  <2>4. num \div d2 < 2 * Pow2(q)
    <3>1. num < (4 * H) * d2
      <4>1. (4 * H) * d2 = (8 * H) * d
        BY <1>1
      <4> QED
        BY <1>4, <4>1
    <3>2. 4 * H \in Nat /\ 2 * Pow2(q) = 4 * H
      BY <1>1
    <3> HIDE DEF d2
    <3>3. num \div d2 < 4 * H
      BY <2>3, <3>1, <3>2, QuotientBounds
    <3> QED
      BY <3>2, <3>3
  <2>5. r = RoundUnits(num, 2 * d2, Pow2(q), e + 1, sign, rnd)
    <3> HIDE DEF H, d2, W
    <3> QED
      BY <1>1, <2>3
  <2> HIDE DEF r, d2, W, sticky
  <2>6. res = Result(Normal(sign, q, r.exp, r.mant), r.ternary)
    <3> DEFINE f == e + 1
    <3> HIDE DEF f
    <3>1. f \in Int /\ r = RoundUnits(num, W, Pow2(q), f, sign, rnd)
      BY <2>3, <2>5 DEF f
    <3>2. res = FinishDiv(sign, f, short.quot, q, rnd, sticky)
      BY <2>2, Zenon DEF f
    <3>3. sticky <=> num % d2 # 0
      BY <2>1 DEF sticky
    <3>4. FinishDivAgrees(sign, f, q, rnd, num, d2)
      BY <2>3, <3>1, FinishDivRounds
    <3>5. r = RoundUnits(num, 2 * d2, Pow2(q), f, sign, rnd) /\ sticky = (num % d2 # 0)
      BY <2>2, <2>3, <3>1, <3>3
    <3> QED
      BY <2>1, <2>4, <3>2, <3>4, <3>5, Zenon DEF FinishDivAgrees
  <2>7. H * W <= num /\ num < (2 * H) * W
    <3>1. ~(num < (4 * H) * d)
      BY <1>5, <1>7
    <3>2. num >= (4 * H) * d
      BY <1>3, <3>1
    <3> QED
      BY <1>3, <1>4, <3>2 DEF W
  <2> QED
    BY <2>6, <2>7 DEF r, W, QuotientRounding
<1> QED
  BY <1>6, <1>7

\* Dividend and divisor are the two mantissas, up to a power of two.
LEMMA QuotientScale ==
    ASSUME NEW a, NEW b, Operand(a), a.kind = "normal", Operand(b), b.kind = "normal",
           NEW q \in Nat \ {0}, NEW i \in Nat, NEW j \in Nat, NEW n \in Nat,
           i + n = (j + 2) + Shift(a, b, q)
    PROVE  (a.mant * Pow2(i)) * (Divisor(a, b, q) * Pow2(n))
           = (b.mant * Pow2(j)) * (4 * Dividend(a, b, q))
<1> DEFINE shift == Shift(a, b, q)
           num == Dividend(a, b, q)
           d == Divisor(a, b, q)
           am == a.mant
           bm == b.mant
           D == Pow2(n)
           I == Pow2(i)
           J == Pow2(j)
<1>1. /\ a.prec \in Nat \ {0} /\ b.prec \in Nat \ {0} /\ a.exp \in Int /\ b.exp \in Int
      /\ am \in Nat /\ bm \in Nat
      /\ Scale(a) = a.exp - a.prec /\ Scale(b) = b.exp - b.prec
  BY NormalParts
<1>2. shift \in Int /\ i + n = (j + 2) + shift
  BY <1>1 DEF Shift
<1>3. I \in Nat /\ J \in Nat /\ D \in Nat
  BY <1>2, Pow2Type
<1>4. Pow2(i + n) = I * D /\ Pow2(j + 2) = 4 * J
  BY <1>2, Pow2Sum, Pow2Quarter
<1>5. CASE shift >= 0
  <2> DEFINE S == Pow2(shift)
  <2>1. shift \in Nat /\ j + 2 \in Nat
    BY <1>2, <1>5
  <2>2. S \in Nat /\ I * D = (4 * J) * S
    <3>1. Pow2((j + 2) + shift) = Pow2(j + 2) * S
      BY <2>1, Pow2Sum
    <3>2. S \in Nat
      BY <2>1, Pow2Type
    <3> QED
      BY <1>2, <1>4, <3>1, <3>2
  <2>3. num = am * S /\ d = bm
    BY <1>5 DEF Dividend, Divisor
  <2> HIDE DEF num, d, I, J, D, S, am, bm, shift
  <2>4. (am * I) * (bm * D) = (am * bm) * (I * D)
    BY <1>1, <1>3
  <2>5. (bm * J) * (4 * (am * S)) = (am * bm) * ((4 * J) * S)
    BY <1>1, <1>3, <2>2
  <2>6. (am * I) * (d * D) = (bm * J) * (4 * num)
    BY <2>2, <2>3, <2>4, <2>5
  <2> QED
    BY <2>6 DEF num, d, I, J, D, am, bm
<1>6. CASE ~(shift >= 0)
  <2> DEFINE S == Pow2(-shift)
  <2>1. -shift \in Nat /\ j + 2 \in Nat /\ (i + n) + (-shift) = j + 2 /\ i + n \in Nat
    BY <1>2, <1>6
  <2>2. S \in Nat /\ (I * D) * S = 4 * J
    <3>1. Pow2((i + n) + (-shift)) = Pow2(i + n) * S
      BY <2>1, Pow2Sum
    <3>2. S \in Nat
      BY <2>1, Pow2Type
    <3> QED
      BY <1>4, <2>1, <3>1, <3>2
  <2>3. num = am /\ d = bm * S
    BY <1>6 DEF Dividend, Divisor
  <2> HIDE DEF num, d, I, J, D, S, am, bm, shift
  <2>4. (am * I) * ((bm * S) * D) = (am * bm) * ((I * D) * S)
    BY <1>1, <1>3, <2>2
  <2>5. (bm * J) * (4 * am) = (am * bm) * (4 * J)
    BY <1>1, <1>3
  <2>6. (am * I) * (d * D) = (bm * J) * (4 * num)
    BY <2>2, <2>3, <2>4, <2>5
  <2> QED
    BY <2>6 DEF num, d, I, J, D, am, bm
<1> QED
  BY <1>5, <1>6

\* Division of two normal values takes the branch its quotient asks for.
LEMMA DivNormalRounds ==
    ASSUME NEW a, NEW b, Operand(a), a.kind = "normal", Operand(b), b.kind = "normal",
           NEW q \in Nat \ {0}, NEW rnd \in RoundingMode
    PROVE  QuotientRounding(DivNormalNormal(a, b, q, rnd), Dividend(a, b, q), Divisor(a, b, q),
                            a.exp - b.exp, a.sign * b.sign, q, rnd)
<1> DEFINE sign == a.sign * b.sign
           num == Dividend(a, b, q)
           d == Divisor(a, b, q)
           e == a.exp - b.exp
           quot == num \div d
           rem == num - quot * d
           high == Pow2(q + 1)
           short == ShortenQuotient(quot, rem)
           res == DivNormalNormal(a, b, q, rnd)
<1>1. sign \in Sign /\ e \in Int
  BY NormalParts DEF Sign
<1>2. num \in Nat \ {0} /\ d \in Nat \ {0} /\ Pow2(q) * d <= num /\ num < (4 * Pow2(q)) * d
  BY QuotientLength
<1>3. high \in Nat \ {0} /\ high = 2 * Pow2(q) /\ Pow2(q) \in Nat \ {0}
  BY Pow2Step, Pow2Type
<1>4. quot \in Nat /\ Pow2(q) <= quot /\ quot < 4 * Pow2(q)
  <2> DEFINE c == Pow2(q)
             C == 4 * Pow2(q)
  <2>1. c \in Nat /\ C \in Nat
    BY <1>3
  <2>2. num \in Nat /\ d \in Nat \ {0} /\ c * d <= num /\ num < C * d
    BY <1>2
  <2> HIDE DEF num, d, c, C
  <2>3. num \div d \in Nat
    BY <2>2, Division
  <2>4. c <= num \div d /\ num \div d < C
    BY <2>1, <2>2, QuotientBounds
  <2> QED
    BY <2>3, <2>4 DEF c, C
<1>5. res = IF quot < high THEN FinishDiv(sign, e, quot, q, rnd, rem # 0)
                           ELSE FinishDiv(sign, e + 1, short.quot, q, rnd, short.rem # 0)
  <2>1. res = CASE quot < high \div 2 \/ quot >= 2 * high -> EPREC
                [] quot >= high \div 2 /\ quot < high -> FinishDiv(sign, e, quot, q, rnd, rem # 0)
                [] quot >= high /\ quot < 2 * high ->
                      FinishDiv(sign, e + 1, short.quot, q, rnd, short.rem # 0)
    BY Zenon DEF DivNormalNormal, Dividend, Divisor, Shift
  <2>2. high \div 2 = Pow2(q)
    BY <1>3
  <2> HIDE DEF res, quot, rem, short, high
  <2>3. ~(quot < high \div 2 \/ quot >= 2 * high) /\ quot >= high \div 2
        /\ quot < 2 * high /\ (quot >= high <=> ~(quot < high))
    BY <1>3, <1>4, <2>2
  <2> QED
    BY <2>1, <2>3
<1> HIDE DEF sign, num, d, e, quot, rem, high, short, res
<1>6. QuotientRounding(res, num, d, e, sign, q, rnd)
  <2>1. num \in Nat /\ quot = num \div d /\ rem = num - quot * d /\ short = ShortenQuotient(quot, rem)
    BY <1>2 DEF quot, rem, short
  <2>2. res = IF quot < Pow2(q + 1) THEN FinishDiv(sign, e, quot, q, rnd, rem # 0)
                           ELSE FinishDiv(sign, e + 1, short.quot, q, rnd, short.rem # 0)
    BY <1>5 DEF high
  <2> QED
    BY <1>1, <1>2, <2>1, <2>2, QuotientRounds
<1> QED
  BY <1>6 DEF sign, num, d, e, res

\* Div of two normal values rounds the quotient of their mantissas, at the
\* difference of their scales.
LEMMA DivRounds ==
    ASSUME NEW a, NEW b, Operand(a), a.kind = "normal", Operand(b), b.kind = "normal",
           NEW q \in Precision, NEW rnd \in RoundingMode
    PROVE  /\ a.sign * b.sign \in Sign /\ a.mant \in Nat \ {0} /\ b.mant \in Nat \ {0}
           /\ RoundedTo(Div(a, b, q, rnd), a.sign * b.sign, q, rnd,
                        a.mant, Scale(a) - Scale(b), b.mant)
<1> DEFINE sign == a.sign * b.sign
           num == Dividend(a, b, q)
           d == Divisor(a, b, q)
           e == a.exp - b.exp
           res == Div(a, b, q, rnd)
           H == Pow2(q - 1)
           am == a.mant
           bm == b.mant
           l == Scale(a) - Scale(b)
<1>1. sign \in Sign /\ e \in Int /\ am \in Nat \ {0} /\ bm \in Nat \ {0} /\ l \in Int
  BY NormalParts DEF Sign
<1>2. q \in Nat \ {0}
  BY PrecAssumption DEF Precision
<1>3. num \in Nat \ {0} /\ d \in Nat \ {0}
  BY <1>2, QuotientLength
<1>4. H \in Nat \ {0} /\ Pow2(q) = 2 * H
  BY <1>2, LengthBounds
<1>5. QuotientRounding(res, num, d, e, sign, q, rnd)
  <2>1. res = DivNormalNormal(a, b, q, rnd)
    BY DEF Div
  <2> QED
    BY <1>2, <2>1, DivNormalRounds
<1> HIDE DEF sign, num, d, e, res, am, bm, l
<1>6. PICK W \in {2 * d, 4 * d}, f \in Int :
        /\ \/ W = 2 * d /\ f = e
           \/ W = 4 * d /\ f = e + 1
        /\ H * W <= num /\ num < (2 * H) * W
        /\ LET r == RoundUnits(num, W, 2 * H, f, sign, rnd)
           IN  res = Result(Normal(sign, q, r.exp, r.mant), r.ternary)
  BY <1>5 DEF QuotientRounding
<1> DEFINE r == RoundUnits(num, W, 2 * H, f, sign, rnd)
           M == r.mant
           E == r.exp
           U == IF E = f THEN W ELSE 2 * W
<1> HIDE DEF r
<1>7. res = Result(Normal(sign, q, E, M), r.ternary)
  BY <1>6 DEF r
<1>8. M \in H .. 2 * H - 1 /\ E \in {f, f + 1} /\ RoundsTo(M, H, U, 4 * num, sign, r.ternary, rnd)
  <2>1. num \in Nat /\ W \in Nat \ {0} /\ r = RoundUnits(num, W, 2 * H, f, sign, rnd)
    BY <1>3, <1>6 DEF r
  <2>2. H * W <= num /\ num < 2 * H * W
    BY <1>6
  <2>3. U = IF r.exp = f THEN W ELSE 2 * W
    OBVIOUS
  <2> HIDE DEF H, U
  <2>4. sign \in Sign /\ H \in Nat \ {0} /\ f \in Int
    BY <1>1, <1>4
  <2>5. /\ r.mant \in H .. 2 * H - 1 /\ r.exp \in {f, f + 1}
        /\ RoundsTo(r.mant, H, U, 4 * num, sign, r.ternary, rnd)
    BY <2>1, <2>2, <2>3, <2>4, RoundUnitsRoundsTo
  <2> QED
    BY <2>5
<1>9. PICK delta \in {0, 1, 2} : E = e + delta /\ U = d * Pow2(1 + delta)
  <2>1. Pow2(1) = 2 /\ Pow2(2) = 4 /\ Pow2(3) = 8
    <3>1. Pow2(0 + 1) = 2 * Pow2(0) /\ Pow2(0 + 2) = 4 * Pow2(0) /\ Pow2(2 + 1) = 2 * Pow2(2)
      BY Pow2Step, Pow2Quarter
    <3> QED
      BY <3>1, Pow2Zero
  <2>2. E \in Int
    BY <1>6, <1>8
  <2>3. CASE E = f /\ W = 2 * d /\ f = e
    <3> WITNESS 0 \in {0, 1, 2}
    <3> QED
      BY <1>1, <1>3, <2>1, <2>3
  <2>4. CASE E = f + 1 /\ W = 2 * d /\ f = e
    <3> WITNESS 1 \in {0, 1, 2}
    <3> QED
      BY <1>1, <1>3, <2>1, <2>4
  <2>5. CASE E = f /\ W = 4 * d /\ f = e + 1
    <3> WITNESS 1 \in {0, 1, 2}
    <3> QED
      BY <1>1, <1>3, <2>1, <2>5
  <2>6. CASE E = f + 1 /\ W = 4 * d /\ f = e + 1
    <3> WITNESS 2 \in {0, 1, 2}
    <3> QED
      BY <1>1, <1>3, <2>1, <2>6
  <2> QED
    BY <1>6, <1>8, <2>3, <2>4, <2>5, <2>6
<1>10. M \in Nat /\ E \in Int /\ U \in Nat \ {0}
  BY <1>3, <1>4, <1>6, <1>8
<1> HIDE DEF M, E, U, H
<1>11. ASSUME NEW t \in Int, t <= l, t <= E - q - 2
       PROVE  RoundsTo(M, H, bm * Pow2(E - q - 2 - t), am * Pow2(l - t), sign, r.ternary, rnd)
  <2> DEFINE i == l - t
             j == E - q - 2 - t
             g == bm * Pow2(j)
             A == am * Pow2(i)
             B == 4 * num
  <2>1. i \in Nat /\ j \in Nat
    BY <1>1, <1>2, <1>10, <1>11
  <2>2. Pow2(i) \in Nat \ {0} /\ Pow2(j) \in Nat \ {0}
    BY <2>1, Pow2Type
  <2>3. g \in Nat \ {0} /\ A \in Int /\ B \in Int
    <3>1. g \in Nat \ {0}
      BY <1>1, <2>2, NaturalProducts
    <3> QED
      BY <1>1, <1>3, <2>2, <3>1
  <2>4. A * U = g * B
    <3> DEFINE n == 1 + delta
    <3>1. n \in Nat
      OBVIOUS
    <3>2. i + n = (j + 2) + Shift(a, b, q)
      BY <1>2, <1>9, <1>10, NormalParts DEF l, e, Shift
    <3>3. (a.mant * Pow2(i)) * (Divisor(a, b, q) * Pow2(n))
           = (b.mant * Pow2(j)) * (4 * Dividend(a, b, q))
      <4> HIDE DEF i, j, n
      <4> QED
        BY <1>2, <2>1, <3>1, <3>2, QuotientScale
    <3> QED
      BY <1>9, <3>3 DEF am, bm, num, d
  <2> HIDE DEF g, A, B
  <2>5. RoundsTo(M, H, U, B, sign, r.ternary, rnd)
    BY <1>8 DEF B, M, U, E, H
  <2>6. RoundsTo(M, H, g, A, sign, r.ternary, rnd)
    BY <1>10, <2>3, <2>4, <2>5, RoundsToScale
  <2> QED
    BY <2>6 DEF g, A
<1>12. res.value.exp = E /\ res.value.mant = M /\ res.ternary = r.ternary
  BY <1>7 DEF Result, Normal
<1>13. RoundedTo(res, sign, q, rnd, am, l, bm)
  <2>1. M \in Pow2(q - 1) .. Pow2(q) - 1
    BY <1>4, <1>8 DEF H, M
  <2> QED
    BY <1>7, <1>10, <1>11, <1>12, <2>1, Zenon DEF RoundedTo, H
<1> QED
  BY <1>1, <1>13 DEF sign, res, am, bm, l

-----------------------------------------------------------------------------
(* The integer square root.                                                *)

\* r is the integer square root of n.
IsRoot(n, r) == r \in Nat /\ r * r <= n /\ n < (r + 1) * (r + 1)

\* Squares grow with their roots.
LEMMA SquareGrows ==
    ASSUME NEW i \in Nat, NEW j \in Nat, i <= j
    PROVE  i * i <= j * j /\ i * i \in Nat /\ j * j \in Nat
<1>1. i * i <= i * j /\ j * i <= j * j
  BY SmallerFactor
<1>2. i * j = j * i /\ i * i \in Nat /\ j * j \in Nat /\ i * j \in Nat
  BY NaturalProducts
<1> QED
  BY <1>1, <1>2

\* A natural has one integer square root.
LEMMA RootUnique ==
    ASSUME NEW n \in Nat, NEW r, NEW s, IsRoot(n, r), IsRoot(n, s)
    PROVE  r = s
<1>1. ASSUME NEW i, NEW j, IsRoot(n, i), IsRoot(n, j), i < j PROVE FALSE
  <2>1. i \in Nat /\ j \in Nat /\ i + 1 \in Nat /\ i + 1 <= j
    BY <1>1 DEF IsRoot
  <2>2. (i + 1) * (i + 1) <= j * j /\ (i + 1) * (i + 1) \in Nat /\ j * j \in Nat
    BY <2>1, SquareGrows
  <2> QED
    BY <1>1, <2>2 DEF IsRoot
<1>2. r \in Nat /\ s \in Nat
  BY DEF IsRoot
<1> QED
  BY <1>1, <1>2

\* Every natural has an integer square root.
LEMMA RootExists ==
    ASSUME NEW n \in Nat
    PROVE  \E r \in Nat : IsRoot(n, r)
<1> DEFINE T == {k \in Nat : n < (k + 1) * (k + 1)}
<1>1. n \in T
  <2>1. (n + 1) * (n + 1) = n * n + 2 * n + 1 /\ n * n \in Nat
    BY NaturalProducts
  <2> QED
    BY <2>1
<1>2. PICK r \in T : \A k \in T : ~(k < r)
  BY <1>1, LeastNumber
<1>3. CASE r = 0
  BY <1>2, <1>3 DEF IsRoot
<1>4. CASE r # 0
  <2>1. r - 1 \in Nat /\ r - 1 < r /\ (r - 1) + 1 = r
    BY <1>2, <1>4
  <2>2. ~(n < r * r) /\ r * r \in Nat
    BY <1>2, <2>1, NaturalProducts
  <2> QED
    BY <1>2, <2>2 DEF IsRoot
<1> QED
  BY <1>3, <1>4

\* A step of the iteration.
NewtonStep(n, x0) == (x0 + n \div x0) \div 2

\* A guess at or below the root is not improved: the loop stops there.
LEMMA NewtonStops ==
    ASSUME NEW n \in Nat, NEW i \in Nat \ {0}, i * i <= n
    PROVE  NewtonStep(n, i) \in Nat /\ NewtonStep(n, i) >= i
<1> DEFINE u == n \div i
<1>1. u \in Nat
  BY Division
<1>2. i <= u
  BY QuotientBounds
<1> HIDE DEF u
<1>3. NewtonStep(n, i) = (i + u) \div 2
  BY DEF NewtonStep, u
<1>4. (i + u) \div 2 \in Nat /\ (i + u) \div 2 >= i
  BY <1>1, <1>2
<1> QED
  BY <1>3, <1>4

\* From above, the mean of a number and the quotient by it falls, but not
\* below the root: the square of a mean is at least the product.
LEMMA NewtonFalls ==
    ASSUME NEW n \in Nat, n >= 2, NEW i \in Nat \ {0}, n < i * i
    PROVE  /\ NewtonStep(n, i) \in Nat \ {0} /\ NewtonStep(n, i) < i
           /\ n < (NewtonStep(n, i) + 1) * (NewtonStep(n, i) + 1)
<1> DEFINE u == n \div i
           j == (i + u) \div 2
<1>1. u \in Nat
  BY Division
<1>2. u < i
  BY QuotientBounds
<1>3. n < (u + 1) * i
  BY <1>1, QuotientBounds
<1> HIDE DEF u
<1>4. i # 1
  OBVIOUS
<1>5. j \in Nat \ {0} /\ j < i /\ i + u + 1 <= 2 * (j + 1)
  BY <1>1, <1>2, <1>4
<1> HIDE DEF j
<1>6. n < (j + 1) * (j + 1)
  <2> DEFINE a == 2 * (j + 1)
             b == i + u + 1
             d == i - (u + 1)
  <2>1. a \in Nat /\ b \in Nat /\ b <= a /\ d \in Nat
    BY <1>1, <1>2, <1>5
  <2>2. b * b <= a * a /\ d * d \in Nat
    <3> HIDE DEF a, b, d
    <3> QED
      BY <2>1, SquareGrows, NaturalProducts
  <2>3. a * a = 4 * ((j + 1) * (j + 1)) /\ (j + 1) * (j + 1) \in Int
    BY <1>5
  <2>4. b * b = d * d + 4 * ((u + 1) * i) /\ (u + 1) * i \in Int
    BY <1>1
  <2> HIDE DEF a, b, d
  <2> DEFINE J == (j + 1) * (j + 1)
             U == (u + 1) * i
             A == a * a
             B == b * b
             D == d * d
  <2>5. B <= A /\ D \in Nat /\ A = 4 * J /\ J \in Int /\ B = D + 4 * U /\ U \in Int /\ n < U
    BY <1>3, <2>2, <2>3, <2>4
  <2> HIDE DEF A, B, D, J, U
  <2>6. n < J
    BY <2>5
  <2> QED
    BY <2>6 DEF J
<1> QED
  BY <1>5, <1>6 DEF NewtonStep, j, u

\* The loop of bigintIsqrt from every guess, as a function.
Newton(n) ==
    CHOOSE f : f = [i \in Nat \ {0} |-> IF NewtonStep(n, i) >= i THEN i ELSE f[NewtonStep(n, i)]]

\* The iteration has a definition: it stops at once from below the root, and
\* at the root from above.
LEMMA NewtonDefined ==
    ASSUME NEW n \in Nat, n >= 2
    PROVE  \A i \in Nat \ {0} :
              Newton(n)[i] = IF NewtonStep(n, i) >= i THEN i ELSE Newton(n)[NewtonStep(n, i)]
<1> DEFINE Solves(f) ==
              f = [i \in Nat \ {0} |-> IF NewtonStep(n, i) >= i THEN i ELSE f[NewtonStep(n, i)]]
<1>1. PICK r \in Nat : IsRoot(n, r)
  BY RootExists
<1> DEFINE g == [i \in Nat \ {0} |-> IF i * i <= n THEN i ELSE r]
<1>2. ASSUME NEW i \in Nat \ {0}
      PROVE  g[i] = IF NewtonStep(n, i) >= i THEN i ELSE g[NewtonStep(n, i)]
  <2> DEFINE j == NewtonStep(n, i)
  <2>0. i * i \in Nat
    BY NaturalProducts
  <2>1. CASE i * i <= n
    <3>1. j >= i
      BY <2>1, NewtonStops
    <3> QED
      BY <2>1, <3>1
  <2>2. CASE ~(i * i <= n)
    <3>1. j \in Nat \ {0} /\ j < i /\ n < (j + 1) * (j + 1)
      BY <2>0, <2>2, NewtonFalls
    <3> HIDE DEF j
    <3>2. g[i] = r /\ g[j] = IF j * j <= n THEN j ELSE r
      BY <2>2, <3>1
    <3>3. j * j <= n => j = r
      <4>1. j * j <= n => IsRoot(n, j)
        BY <3>1 DEF IsRoot
      <4> QED
        BY <1>1, <4>1, RootUnique
    <3>4. g[i] = g[j] /\ ~(j >= i)
      BY <3>1, <3>2, <3>3
    <3> QED
      BY <3>4 DEF j
  <2> QED
    BY <2>1, <2>2
<1>3. Solves(g)
  <2>1. g = [i \in Nat \ {0} |-> g[i]]
    OBVIOUS
  <2> HIDE DEF g
  <2> QED
    BY <1>2, <2>1
<1> HIDE DEF g
<1>4. Newton(n) = CHOOSE f : Solves(f)
  BY Zenon DEF Newton
<1>5. Solves(CHOOSE f : Solves(f))
  <2> HIDE DEF Solves
  <2> QED
    BY <1>3
<1>6. Solves(Newton(n))
  <2> HIDE DEF Solves
  <2> QED
    BY <1>4, <1>5
<1> DEFINE f == Newton(n)
<1>7. f = [i \in Nat \ {0} |-> IF NewtonStep(n, i) >= i THEN i ELSE f[NewtonStep(n, i)]]
  BY <1>6
<1> HIDE DEF f
<1>8. \A i \in Nat \ {0} : f[i] = IF NewtonStep(n, i) >= i THEN i ELSE f[NewtonStep(n, i)]
  BY <1>7, Zenon
<1> QED
  BY <1>8 DEF f

\* From a guess above the root, or at it, the loop ends at the root.
LEMMA NewtonFinds ==
    ASSUME NEW n \in Nat, n >= 2
    PROVE  \A i \in Nat \ {0} : n < (i + 1) * (i + 1) => IsRoot(n, Newton(n)[i])
<1> DEFINE S == {i \in Nat : i # 0 /\ n < (i + 1) * (i + 1) => IsRoot(n, Newton(n)[i])}
<1>1. ASSUME NEW i \in Nat, \A k \in Nat : k < i => k \in S PROVE i \in S
  <2> SUFFICES ASSUME i # 0, n < (i + 1) * (i + 1) PROVE IsRoot(n, Newton(n)[i])
    OBVIOUS
  <2> DEFINE j == NewtonStep(n, i)
  <2>0. i * i \in Nat /\ i \in Nat \ {0}
    BY NaturalProducts
  <2>1. Newton(n)[i] = IF j >= i THEN i ELSE Newton(n)[j]
    BY <2>0, NewtonDefined
  <2>2. CASE i * i <= n
    <3>1. j >= i
      BY <2>2, NewtonStops
    <3> HIDE DEF j
    <3> QED
      BY <2>1, <2>2, <3>1 DEF IsRoot
  <2>3. CASE ~(i * i <= n)
    <3>1. j \in Nat \ {0} /\ j < i /\ n < (j + 1) * (j + 1)
      BY <2>0, <2>3, NewtonFalls
    <3> HIDE DEF j
    <3>2. IsRoot(n, Newton(n)[j])
      BY <1>1, <3>1
    <3>3. ~(j >= i)
      BY <3>1
    <3> QED
      BY <2>1, <3>2, <3>3
  <2> QED
    BY <2>2, <2>3
<1>2. Nat \subseteq S
  <2> HIDE DEF S
  <2> QED
    BY <1>1, StrongInduction
<1> QED
  BY <1>2

\* isqrt returns the integer square root.
LEMMA IsqrtIsRoot ==
    ASSUME NEW n \in Nat
    PROVE  IsRoot(n, Isqrt(n))
<1>1. CASE n < 2
  <2>1. Isqrt(n) = n
    BY <1>1 DEF Isqrt
  <2>2. n = 0 \/ n = 1
    BY <1>1
  <2> QED
    BY <2>1, <2>2 DEF IsRoot
<1>2. CASE ~(n < 2)
  <2> DEFINE L == BitLength[n]
             h == (L + 1) \div 2
             X == Pow2(h)
  <2>1. Isqrt(n) = Newton(n)[X]
    BY <1>2, Zenon DEF Isqrt, Newton, NewtonStep
  <2>2. L \in Nat /\ n < Pow2(L)
    BY BitLengthCounts DEF IsLength
  <2> HIDE DEF L
  <2>3. h \in Nat /\ L <= h + h /\ h + h \in Nat
    BY <2>2
  <2> HIDE DEF h
  <2>4. X \in Nat \ {0} /\ Pow2(h + h) = X * X /\ Pow2(L) <= Pow2(h + h) /\ Pow2(L) \in Nat
    BY <2>2, <2>3, Pow2Type, Pow2Sum, Pow2Split
  <2> HIDE DEF X
  <2>5. (X + 1) * (X + 1) = X * X + 2 * X + 1 /\ X * X \in Nat
    BY <2>4, NaturalProducts
  <2>6. n < (X + 1) * (X + 1)
    BY <2>2, <2>4, <2>5
  <2> QED
    BY <1>2, <2>1, <2>4, <2>6, NewtonFinds
<1> QED
  BY <1>1, <1>2

-----------------------------------------------------------------------------
(* The square root.                                                        *)

\* The radicand is RootNum / RootDen, which mpfr_sqrt cuts to an integer.
RootShift(v, q) == 2 * (q + 1) - v.prec + (v.exp % 2)

\* The radicand as a fraction: its numerator,
RootNum(v, q) == IF RootShift(v, q) >= 0 THEN v.mant * Pow2(RootShift(v, q)) ELSE v.mant

\* and its denominator.
RootDen(v, q) == IF RootShift(v, q) >= 0 THEN 1 ELSE Pow2(-RootShift(v, q))

\* The integer root sqrtNormal takes.
RootInt(v, q) == Isqrt(Radicand(v, RootShift(v, q)).n)

\* What the integer root leaves out.
RootSticky(v, q) == LET radicand == Radicand(v, RootShift(v, q))
                    IN  radicand.n # RootInt(v, q) * RootInt(v, q) \/ radicand.sticky

\* The mantissa sqrtNormal rounds: the integer root and a sticky bit.
RootMant(v, q) == 2 * RootInt(v, q) + BoolToInt(RootSticky(v, q))

\* The scale of that mantissa.
RootLow(v, q) == (v.exp - 2 * (q + 1) - (v.exp % 2)) \div 2 - 1

\* The integer part of the radicand and its sticky bit; the root has at least
\* q + 1 bits.
LEMMA RadicandLength ==
    ASSUME NEW v, Operand(v), v.kind = "normal", NEW q \in Nat \ {0},
           NEW rad, rad = Radicand(v, RootShift(v, q))
    PROVE  /\ RootShift(v, q) \in Int /\ RootNum(v, q) \in Nat /\ RootDen(v, q) \in Nat \ {0}
           /\ rad.n = RootNum(v, q) \div RootDen(v, q)
           /\ (rad.sticky <=> RootNum(v, q) % RootDen(v, q) # 0)
           /\ rad.n \in Nat /\ Pow2(q + q) <= rad.n
<1> DEFINE p == v.prec
           m == v.mant
           s == RootShift(v, q)
           B == p + s
<1>1. /\ p \in Nat \ {0} /\ m \in Nat \ {0} /\ m \in Pow2(p - 1) .. Pow2(p) - 1
      /\ v.exp \in Int /\ v.exp % 2 \in {0, 1}
  <2>1. v.exp \in Int
    BY NormalParts
  <2> QED
    BY <2>1, NormalParts
<1>2. s \in Int /\ B \in Nat \ {0} /\ q + q <= B - 1
  BY <1>1 DEF RootShift
<1>4. /\ RootNum(v, q) \in Nat /\ RootDen(v, q) \in Nat \ {0}
      /\ rad.n = RootNum(v, q) \div RootDen(v, q)
      /\ (rad.sticky <=> RootNum(v, q) % RootDen(v, q) # 0)
      /\ rad.n \in Nat /\ rad.n >= Pow2(B - 1)
  <2>1. CASE s >= 0
    <3> DEFINE S == Pow2(s)
    <3>1. RootNum(v, q) = m * S /\ RootDen(v, q) = 1 /\ rad.n = m * S /\ ~rad.sticky
      BY <2>1 DEF RootNum, RootDen, Radicand
    <3>2. s \in Nat
      BY <1>2, <2>1
    <3> HIDE DEF s, m, p, S
    <3>3. m * S \in Nat \ {0} /\ m * S \in Pow2((p + s) - 1) .. Pow2(p + s) - 1
      BY <1>1, <3>2, ShiftedLength DEF S
    <3> DEFINE num == m * S
    <3>5. num >= Pow2(B - 1)
      BY <1>2, <3>3, LengthBounds
    <3> HIDE DEF B
    <3>4. num \in Nat /\ num \div 1 = num /\ num % 1 = 0
      BY <3>3
    <3>6. RootNum(v, q) = num /\ RootDen(v, q) = 1 /\ rad.n = num /\ ~rad.sticky
      BY <3>1
    <3> HIDE DEF num
    <3> QED
      BY <3>4, <3>5, <3>6
  <2>2. CASE ~(s >= 0)
    <3> DEFINE S == Pow2(-s)
    <3>1. RootNum(v, q) = m /\ RootDen(v, q) = S /\ rad.n = m \div S /\ (rad.sticky <=> m % S # 0)
      BY <2>2 DEF RootNum, RootDen, Radicand
    <3>2. -s \in Nat /\ B < p /\ p - B = -s
      BY <1>1, <1>2, <2>2
    <3>3. S \in Nat \ {0}
      BY <3>2, Pow2Type
    <3>4. m \div Pow2(p - B) \in Pow2(B - 1) .. Pow2(B) - 1
      <4> HIDE DEF B, m, p
      <4> QED
        BY <1>1, <1>2, <3>2, CutLength
    <3>5. m \div S \in Pow2(B - 1) .. Pow2(B) - 1
      BY <3>2, <3>4
    <3> HIDE DEF s, m, p, S, B
    <3>6. m \div S \in Nat
      BY <1>2, <3>5, LengthBounds
    <3> QED
      BY <1>1, <1>2, <3>1, <3>3, <3>5, <3>6
  <2> QED
    BY <2>1, <2>2
<1>5. Pow2(q + q) <= rad.n
  <2>1. q + q \in Nat /\ B - 1 \in Nat
    BY <1>2
  <2>2. Pow2(q + q) <= Pow2(B - 1) /\ Pow2(q + q) \in Nat /\ Pow2(B - 1) \in Nat
    BY <1>2, <2>1, Pow2Split
  <2> QED
    BY <1>4, <2>2
<1> QED
  BY <1>2, <1>4, <1>5

\* RootMant is the root of num / D in halves, up to a sticky bit.
IsHalfRoot(M, r, num, D) ==
    /\ r \in Nat
    /\ (r * r) * D <= num /\ num < ((r + 1) * (r + 1)) * D
    /\ M = IF num = (r * r) * D THEN 2 * r ELSE 2 * r + 1

\* sqrtNormal's mantissa is the root in half units, odd when it is not exact.
LEMMA RootMantIsRoot ==
    ASSUME NEW v, Operand(v), v.kind = "normal", NEW q \in Nat \ {0}
    PROVE  /\ IsHalfRoot(RootMant(v, q), RootInt(v, q), RootNum(v, q), RootDen(v, q))
           /\ RootInt(v, q) >= Pow2(q)
<1> DEFINE rad == Radicand(v, RootShift(v, q))
           n == rad.n
           r == RootInt(v, q)
           num == RootNum(v, q)
           D == RootDen(v, q)
<1>1. /\ num \in Nat /\ D \in Nat \ {0} /\ n = num \div D /\ (rad.sticky <=> num % D # 0)
      /\ n \in Nat /\ Pow2(q + q) <= n
  BY RadicandLength
<1>2. IsRoot(n, r)
  BY <1>1, IsqrtIsRoot DEF RootInt
<1>3. RootMant(v, q) = IF n # r * r \/ rad.sticky THEN 2 * r + 1 ELSE 2 * r
  <2>1. RootMant(v, q) = 2 * r + BoolToInt(n # r * r \/ rad.sticky) /\ r \in Nat
    BY <1>2 DEF RootMant, RootSticky, IsRoot
  <2> HIDE DEF rad, r
  <2>2. 2 * r + 0 = 2 * r
    BY <2>1
  <2> QED
    BY <2>1, <2>2 DEF BoolToInt
<1> HIDE DEF rad, n, r, num, D
<1>4. r \in Nat /\ r * r \in Nat /\ (r + 1) * (r + 1) \in Nat /\ r * r <= n /\ n < (r + 1) * (r + 1)
  BY <1>2, NaturalProducts DEF IsRoot
<1>5. (r * r) * D <= num /\ num < ((r + 1) * (r + 1)) * D
  <2> DEFINE c == r * r
             C == (r + 1) * (r + 1)
  <2>1. c \in Nat /\ C \in Nat /\ c <= num \div D /\ num \div D < C
    BY <1>1, <1>4
  <2> HIDE DEF c, C
  <2>2. c * D <= num /\ num < C * D
    BY <1>1, <2>1, QuotientBounds
  <2> QED
    BY <2>2 DEF c, C
<1>6. num = (r * r) * D <=> n = r * r /\ num % D = 0
  <2> DEFINE c == r * r
             d == num % D
  <2>1. n \in Nat /\ d \in 0 .. D - 1 /\ num = n * D + d /\ c \in Nat /\ c <= n
    BY <1>1, <1>4, Division
  <2> HIDE DEF c, d
  <2>2. CASE n = c
    <3>1. n * D = c * D /\ c * D \in Int
      BY <1>1, <2>1, <2>2
    <3> QED
      BY <1>1, <2>1, <2>2, <3>1 DEF c, d
  <2>3. CASE n # c
    <3>1. (c + 1) * D <= n * D
      BY <1>1, <2>1, <2>3, ProductMonotone
    <3>2. (c + 1) * D = c * D + D /\ c * D \in Int /\ n * D \in Int
      BY <1>1, <2>1
    <3>3. num # c * D
      BY <1>1, <2>1, <3>1, <3>2
    <3> QED
      BY <2>3, <3>3 DEF c
  <2> QED
    BY <2>2, <2>3
<1>7. IsHalfRoot(RootMant(v, q), r, num, D)
  BY <1>1, <1>3, <1>4, <1>5, <1>6 DEF IsHalfRoot
<1>8. r >= Pow2(q)
  <2> DEFINE P == Pow2(q)
  <2>1. P \in Nat /\ Pow2(q + q) = P * P
    BY Pow2Type, Pow2Sum
  <2> HIDE DEF P
  <2>2. CASE r < P
    <3>1. r + 1 <= P /\ r + 1 \in Nat
      BY <1>4, <2>1, <2>2
    <3>2. (r + 1) * (r + 1) <= P * P /\ P * P \in Nat
      BY <2>1, <3>1, SquareGrows
    <3> QED
      BY <1>1, <1>4, <2>1, <3>2
  <2> QED
    BY <1>4, <2>1, <2>2 DEF P
<1> QED
  BY <1>7, <1>8 DEF r, num, D

\* The root of a positive value is packed from the integer root, its sticky
\* bit appended, and there is no exception.
LEMMA SqrtRounds ==
    ASSUME NEW v, Operand(v), v.kind = "normal", v.sign = 1,
           NEW q \in Precision, NEW rnd \in RoundingMode
    PROVE  /\ RoundedTo(Sqrt(v, q, rnd), 1, q, rnd, RootMant(v, q), RootLow(v, q), 1)
           /\ RootMant(v, q) \in Nat \ {0} /\ RootLow(v, q) \in Int
           /\ 2 * Pow2(q) <= RootMant(v, q)
           /\ Sqrt(v, q, rnd).value.exp - q - 2 >= RootLow(v, q)
<1> DEFINE r == RootInt(v, q)
           M == RootMant(v, q)
           L == BitLength[r]
           p == L + 1
           h == (v.exp - 2 * (q + 1) - (v.exp % 2)) \div 2
           e == h + L
           R == RoundMantissa(M, p, e, q, 1, rnd)
<1>0. q \in Nat \ {0}
  BY PrecAssumption DEF Precision
<1>1. IsHalfRoot(M, r, RootNum(v, q), RootDen(v, q)) /\ r >= Pow2(q) /\ Pow2(q) \in Nat \ {0}
  BY <1>0, RootMantIsRoot, LengthBounds
<1>2. r \in Nat \ {0} /\ M \in {2 * r, 2 * r + 1} /\ M \in Nat \ {0}
  BY <1>1 DEF IsHalfRoot
<1>3. h \in Int /\ RootLow(v, q) = h - 1
  <2>1. v.exp \in Int
    BY NormalParts
  <2> QED
    BY <1>0, <2>1 DEF RootLow
<1>4. Sqrt(v, q, rnd) = IF L < q + 1 THEN EPREC ELSE Result(Normal(1, q, R.exp, R.mant), R.ternary)
  <2>1. Sqrt(v, q, rnd) = SqrtNormalPositive(v, q, rnd)
    BY DEF Sqrt
  <2> QED
    BY <2>1 DEF SqrtNormalPositive, RootMant, RootSticky, RootInt, RootShift
<1> HIDE DEF r, M, h
<1>5. L \in Nat \ {0} /\ Pow2(L - 1) <= r /\ r < Pow2(L) /\ Pow2(L - 1) \in Nat \ {0}
      /\ Pow2(L) = 2 * Pow2(L - 1)
  BY <1>2, BitLengthBounds, LengthBounds
<1> HIDE DEF L
<1>6. L >= q + 1
  <2>1. CASE L <= q
    <3>1. Pow2(L) <= Pow2(q)
      BY <1>0, <1>5, <2>1, Pow2Split
    <3> QED
      BY <1>1, <1>2, <1>5, <3>1
  <2> QED
    BY <1>0, <1>5, <2>1
<1>7. p \in Nat \ {0} /\ M \in Pow2(p - 1) .. Pow2(p) - 1 /\ q < p
  <2>1. p - 1 = L /\ p \in Nat \ {0}
    BY <1>5
  <2>2. Pow2(p) = 2 * Pow2(p - 1)
    BY <2>1, LengthBounds
  <2>3. Pow2(p) = 2 * Pow2(L) /\ Pow2(p - 1) = Pow2(L)
    BY <2>1, <2>2
  <2> HIDE DEF p
  <2>4. M \in Pow2(p - 1) .. Pow2(p) - 1
    BY <1>2, <1>5, <2>3
  <2>5. q < p
    BY <1>0, <1>5, <1>6 DEF p
  <2> QED
    BY <2>1, <2>4, <2>5
<1>8. e \in Int /\ e - p = RootLow(v, q) /\ 1 \in Sign
  BY <1>3, <1>5 DEF Sign
<1> HIDE DEF p, e
<1>9. Sqrt(v, q, rnd) = PackNormal(1, e, M, p, q, rnd)
  <2>1. ~(q >= p) /\ ~(L < q + 1)
    BY <1>0, <1>5, <1>6, <1>7
  <2>2. Sqrt(v, q, rnd) = Result(Normal(1, q, R.exp, R.mant), R.ternary)
    BY <1>4, <2>1
  <2> QED
    BY <2>1, <2>2 DEF PackNormal
<1>10. RoundedTo(PackNormal(1, e, M, p, q, rnd), 1, q, rnd, M, e - p, 1)
  BY <1>0, <1>7, <1>8, PackNormalRounds
<1>11. RoundedTo(Sqrt(v, q, rnd), 1, q, rnd, M, RootLow(v, q), 1)
  BY <1>8, <1>9, <1>10, Zenon
<1>12. RootLow(v, q) \in Int
  BY <1>3
<1>13. 2 * Pow2(q) <= M
  BY <1>1, <1>2
<1>14. Sqrt(v, q, rnd).value.exp - q - 2 >= RootLow(v, q)
  <2>1. Sqrt(v, q, rnd).value.exp \in {e, e + 1}
    <3>1. ~(q >= p)
      BY <1>0, <1>7
    <3>2. R.exp \in {e, e + 1}
      BY DEF RoundMantissa, RoundUnits
    <3>3. Sqrt(v, q, rnd).value = Normal(1, q, R.exp, R.mant)
      BY <1>9, <3>1, ExactlyOf DEF PackNormal
    <3> HIDE DEF R
    <3> QED
      BY <3>2, <3>3 DEF Normal
  <2> DEFINE f == Sqrt(v, q, rnd).value.exp
             l == RootLow(v, q)
  <2>2. f \in {e, e + 1} /\ e \in Int /\ e - p = l /\ p >= q + 2 /\ p \in Int /\ q \in Int
    BY <1>0, <1>5, <1>6, <1>8, <2>1 DEF p
  <2> HIDE DEF f, l, R
  <2>3. f - q - 2 >= l
    BY <2>2
  <2> QED
    BY <2>3 DEF f, l
<1> QED
  BY <1>2, <1>11, <1>12, <1>13, <1>14 DEF M

\* Twice the root of num / D compares with an integer as the half root does,
\* except at the half root itself when it is odd.
LEMMA HalfRootCompares ==
    ASSUME NEW num \in Nat, NEW D \in Nat \ {0}, NEW r, NEW M, IsHalfRoot(M, r, num, D),
           NEW X \in Nat, X % 2 = 0 \/ X # M
    PROVE  Sgn((X * X) * D - 4 * num) = Sgn(X - M)
<1>1. r \in Nat /\ (r * r) * D <= num /\ num < ((r + 1) * (r + 1)) * D
      /\ M = IF num = (r * r) * D THEN 2 * r ELSE 2 * r + 1
  BY DEF IsHalfRoot
<1> DEFINE a == 2 * r
           b == 2 * (r + 1)
           A == (a * a) * D
           B == (b * b) * D
           Y == (X * X) * D
           V == 4 * num
<1>2. a \in Nat /\ b \in Nat /\ b = a + 2 /\ a % 2 = 0
  BY <1>1
<1>3. A = 4 * ((r * r) * D) /\ B = 4 * (((r + 1) * (r + 1)) * D)
  <2>1. a * a = 4 * (r * r) /\ b * b = 4 * ((r + 1) * (r + 1)) /\ r * r \in Nat /\ (r + 1) * (r + 1) \in Nat
    BY <1>1
  <2> DEFINE c == r * r
             C == (r + 1) * (r + 1)
  <2>2. a * a = 4 * c /\ b * b = 4 * C /\ c \in Nat /\ C \in Nat
    BY <2>1
  <2> HIDE DEF a, b, c, C
  <2>3. A = 4 * (c * D) /\ B = 4 * (C * D)
    BY <2>2
  <2> QED
    BY <2>3 DEF c, C
<1>4. (r * r) * D \in Int /\ ((r + 1) * (r + 1)) * D \in Int
  BY <1>1, NaturalProducts
<1>5. A <= V /\ V < B /\ V \in Nat /\ A \in Int /\ B \in Int /\ M = IF V = A THEN a ELSE a + 1
  <2> DEFINE c == (r * r) * D
             C == ((r + 1) * (r + 1)) * D
  <2>1. A = 4 * c /\ B = 4 * C /\ c \in Int /\ C \in Int /\ c <= num /\ num < C
        /\ M = IF num = c THEN a ELSE a + 1
    BY <1>1, <1>3, <1>4
  <2> HIDE DEF A, B, c, C, a
  <2> QED
    BY <2>1
<1>6. \A i, j \in Nat : i <= j => (i * i) * D <= (j * j) * D /\ (i * i) * D \in Int /\ (j * j) * D \in Int
  <2> SUFFICES ASSUME NEW i \in Nat, NEW j \in Nat, i <= j
               PROVE  (i * i) * D <= (j * j) * D /\ (i * i) * D \in Int /\ (j * j) * D \in Int
    OBVIOUS
  <2> DEFINE I == i * i
             J == j * j
  <2>1. I \in Nat /\ J \in Nat /\ I <= J
    BY SquareGrows
  <2> HIDE DEF I, J
  <2>2. D * I <= D * J /\ D * I = I * D /\ D * J = J * D /\ I * D \in Int /\ J * D \in Int
    BY <2>1, SmallerFactor
  <2> QED
    BY <2>2 DEF I, J
<1>7. \A i, j \in Nat : i < j => (i * i) * D < (j * j) * D
  <2> SUFFICES ASSUME NEW i \in Nat, NEW j \in Nat, i < j PROVE (i * i) * D < (j * j) * D
    OBVIOUS
  <2> DEFINE I == i * i
             J == j * j
  <2>1. I \in Nat /\ J \in Nat /\ I < J
    <3>1. i + 1 <= j /\ i + 1 \in Nat
      OBVIOUS
    <3>2. (i + 1) * (i + 1) <= J /\ I \in Nat /\ J \in Nat
      BY <3>1, SquareGrows
    <3>3. (i + 1) * (i + 1) = I + 2 * i + 1
      OBVIOUS
    <3> HIDE DEF I, J
    <3> QED
      BY <3>2, <3>3
  <2> HIDE DEF I, J
  <2>2. (I + 1) * D <= J * D
    BY <2>1, ProductMonotone
  <2>3. (I + 1) * D = I * D + D /\ I * D \in Int /\ J * D \in Int
    BY <2>1
  <2> QED
    BY <2>2, <2>3 DEF I, J
<1>8. Y \in Int /\ (X <= a => Y <= A) /\ (X < a => Y < A) /\ (X >= b => B <= Y)
  <2> DEFINE T(i) == (i * i) * D
  <2>1. \A i, j \in Nat : (i <= j => T(i) <= T(j) /\ T(i) \in Int /\ T(j) \in Int) /\ (i < j => T(i) < T(j))
    BY <1>6, <1>7
  <2>2. A = T(a) /\ B = T(b) /\ Y = T(X)
    OBVIOUS
  <2> HIDE DEF T, A, B, Y, a, b
  <2>3. X \in Nat /\ a \in Nat /\ b \in Nat /\ T(X) \in Int
    BY <1>2, <2>1
  <2> QED
    BY <2>1, <2>2, <2>3
<1> HIDE DEF a, b, A, B, Y, V
<1>9. X < a \/ X = a \/ X = a + 1 \/ X >= b
  BY <1>2
<1>10. CASE V = A
  <2>1. X >= a + 1 => Y > A
    <3>1. X >= a + 1 => Y >= ((a + 1) * (a + 1)) * D /\ ((a + 1) * (a + 1)) * D > (a * a) * D
      BY <1>2, <1>6, <1>7 DEF Y
    <3>2. ((a + 1) * (a + 1)) * D \in Int /\ (a * a) * D \in Int
      BY <1>2, NaturalProducts
    <3> QED
      BY <1>8, <3>1, <3>2 DEF A
  <2>2. X = a => Y = A
    BY DEF Y, A
  <2>3. Sgn(Y - V) = Sgn(X - M)
    BY <1>2, <1>5, <1>8, <1>9, <1>10, <2>1, <2>2 DEF Sgn
  <2> QED
    BY <2>3 DEF Y, V
<1>11. CASE V # A
  <2>1. X # a + 1
    <3>1. (a + 1) % 2 = 1
      BY <1>2
    <3> QED
      BY <1>5, <1>11, <3>1
  <2>2. Sgn(Y - V) = Sgn(X - M)
    BY <1>2, <1>5, <1>8, <1>9, <1>11, <2>1 DEF Sgn
  <2> QED
    BY <2>2 DEF Y, V
<1> QED
  BY <1>10, <1>11

-----------------------------------------------------------------------------
(* Rounding is monotone, so a value has one rounding.                      *)

\* A product grows with a factor.
LEMMA LargerProduct ==
    ASSUME NEW i \in Int, NEW j \in Int, NEW g \in Nat, i <= j
    PROVE  i * g <= j * g /\ i * g \in Int /\ j * g \in Int
<1>1. i * g \in Int /\ j * g \in Int /\ j - i \in Nat
  OBVIOUS
<1>2. (j - i) * g \in Nat
  BY <1>1, NaturalProducts
<1>3. (j - i) * g = j * g - i * g
  OBVIOUS
<1> QED
  BY <1>1, <1>2, <1>3

\* The numbers RoundsTo compares, for a mantissa M of the length H begins: the
\* previous value, the midpoints, in quarters of the unit.
InnerOf(M, H) == IF M = H THEN 4 * M - 2 ELSE 4 * M - 4
MidInOf(M, H) == IF M = H THEN 4 * M - 1 ELSE 4 * M - 2

\* What a mode leaves between a rounding and the magnitude A.
LEMMA RoundsToBounds ==
    ASSUME NEW M \in Nat, NEW H \in Nat, NEW g \in Nat, NEW A \in Int, NEW sign \in Sign, NEW t,
           NEW rnd \in RoundingMode, RoundsTo(M, H, g, A, sign, t, rnd)
    PROVE  /\ rnd = "RNDZ" \/ (rnd = "RNDD" /\ sign = 1) \/ (rnd = "RNDU" /\ sign = -1) =>
                 (4 * M) * g <= A /\ A < (4 * M + 4) * g
           /\ rnd = "RNDA" \/ (rnd = "RNDD" /\ sign = -1) \/ (rnd = "RNDU" /\ sign = 1) =>
                 InnerOf(M, H) * g < A /\ A <= (4 * M) * g
           /\ rnd = "RNDN" =>
                 /\ MidInOf(M, H) * g <= A /\ A <= (4 * M + 2) * g
                 /\ A = (4 * M + 2) * g => M % 2 = 0
                 /\ A = MidInOf(M, H) * g => M % 2 = 0 \/ M = H
<1> DEFINE in == InnerOf(M, H)
           mid == MidInOf(M, H)
           a == (4 * M) * g
           b == (4 * M + 4) * g
           c == in * g
           d == (4 * M + 2) * g
           e == mid * g
           even == M % 2 = 0
<1>1. in \in Int /\ mid \in Int
  BY DEF InnerOf, MidInOf
<1>2. a \in Int /\ b \in Int /\ c \in Int /\ d \in Int /\ e \in Int
  BY <1>1
<1>3. LET below == Sgn(a - A) <= 0 /\ Sgn(b - A) > 0
          above == Sgn(a - A) >= 0 /\ Sgn(c - A) < 0
      IN  /\ rnd = "RNDZ" => below
          /\ rnd = "RNDA" => above
          /\ rnd = "RNDD" => IF sign = 1 THEN below ELSE above
          /\ rnd = "RNDU" => IF sign = 1 THEN above ELSE below
          /\ rnd = "RNDN" => /\ Sgn(d - A) >= 0 /\ Sgn(e - A) <= 0
                             /\ Sgn(d - A) = 0 => even
                             /\ Sgn(e - A) = 0 => even \/ M = H
  BY DEF RoundsTo, Off, InnerOf, MidInOf
<1> HIDE DEF a, b, c, d, e, even, in, mid
<1>4. /\ \A z \in {a, b, c, d, e} : /\ Sgn(z - A) <= 0 <=> z <= A
                                    /\ Sgn(z - A) >= 0 <=> z >= A
                                    /\ Sgn(z - A) < 0 <=> z < A
                                    /\ Sgn(z - A) > 0 <=> z > A
                                    /\ Sgn(z - A) = 0 <=> z = A
  BY <1>2 DEF Sgn
<1>5. /\ rnd = "RNDZ" \/ (rnd = "RNDD" /\ sign = 1) \/ (rnd = "RNDU" /\ sign = -1) =>
            a <= A /\ A < b
      /\ rnd = "RNDA" \/ (rnd = "RNDD" /\ sign = -1) \/ (rnd = "RNDU" /\ sign = 1) =>
            c < A /\ A <= a
      /\ rnd = "RNDN" =>
            /\ e <= A /\ A <= d
            /\ A = d => even
            /\ A = e => even \/ M = H
  BY <1>2, <1>3, <1>4 DEF Sign
<1> QED
  BY <1>5 DEF a, b, c, d, e, even, in, mid

\* The value after one mantissa is at most a greater one, and so with the
\* midpoints: g is the quarter unit of the smaller binade or twice it or more.
LEMMA MantissasApart ==
    ASSUME NEW H \in Nat \ {0}, NEW M \in H .. 2 * H - 1, NEW N \in H .. 2 * H - 1,
           NEW g \in Nat \ {0}, NEW h \in Nat \ {0},
           (h = g /\ M < N) \/ 2 * g <= h
    PROVE  /\ (4 * M + 4) * g <= (4 * N) * h
           /\ (4 * M) * g <= InnerOf(N, H) * h
           /\ (4 * M + 2) * g <= MidInOf(N, H) * h
           /\ (4 * M + 2) * g = MidInOf(N, H) * h => M % 2 = 1 \/ (N % 2 = 1 /\ N # H)
<1>1. CASE h = g /\ M < N
  <2>1. N # H /\ InnerOf(N, H) = 4 * N - 4 /\ MidInOf(N, H) = 4 * N - 2
    BY <1>1 DEF InnerOf, MidInOf
  <2>2. /\ (4 * M + 4) * g <= (4 * N) * g
        /\ (4 * M) * g <= (4 * N - 4) * g
        /\ (4 * M + 2) * g <= (4 * N - 2) * g
    BY <1>1, LargerProduct
  <2>3. ASSUME (4 * M + 2) * g = (4 * N - 2) * g
        PROVE  M % 2 = 1 \/ N % 2 = 1
    <3>1. ~(4 * M + 2 < 4 * N - 2)
      <4> SUFFICES ASSUME 4 * M + 2 < 4 * N - 2 PROVE FALSE
        OBVIOUS
      <4>1. ((4 * M + 2) + 1) * g <= (4 * N - 2) * g
        BY LargerProduct
      <4>2. ((4 * M + 2) + 1) * g = (4 * M + 2) * g + g
        OBVIOUS
      <4>3. (4 * M + 2) * g \in Int
        OBVIOUS
      <4> QED
        BY <2>3, <4>1, <4>2, <4>3
    <3>2. N = M + 1
      BY <1>1, <3>1
    <3> QED
      BY <3>2
  <2> QED
    BY <1>1, <2>1, <2>2, <2>3
<1>2. CASE 2 * g <= h
  <2> DEFINE in == InnerOf(N, H)
             mid == MidInOf(N, H)
  <2>1. /\ in \in Nat /\ 4 * M <= 2 * in
        /\ mid \in Nat /\ 4 * M + 2 <= 2 * mid
        /\ 4 * M + 4 <= 2 * (4 * N)
        /\ 4 * M + 2 = 2 * mid => M = 2 * H - 1
    BY DEF InnerOf, MidInOf
  <2> HIDE DEF in, mid
  <2>2. ASSUME NEW i \in Nat, NEW j \in Nat, i <= 2 * j
        PROVE  /\ i * g <= j * h
               /\ i * g = j * h => i = 2 * j
    <3>1. i * g <= (2 * j) * g /\ i * g \in Int
      BY <2>2, LargerProduct
    <3>2. j * (2 * g) <= j * h /\ j * h \in Int
      BY <1>2, SmallerFactor
    <3>3. (2 * j) * g = j * (2 * g)
      OBVIOUS
    <3>4. ASSUME i < 2 * j PROVE i * g < (2 * j) * g
      <4>1. (i + 1) * g <= (2 * j) * g
        BY <3>4, LargerProduct
      <4>2. (i + 1) * g = i * g + g
        OBVIOUS
      <4> QED
        BY <3>1, <4>1, <4>2
    <3> QED
      BY <2>2, <3>1, <3>2, <3>3, <3>4
  <2>3. /\ (4 * M + 4) * g <= (4 * N) * h
        /\ (4 * M) * g <= in * h
        /\ (4 * M + 2) * g <= mid * h
        /\ (4 * M + 2) * g = mid * h => 4 * M + 2 = 2 * mid
    <3>1. 4 * M + 4 \in Nat /\ 4 * N \in Nat /\ 4 * M \in Nat /\ 4 * M + 2 \in Nat
      OBVIOUS
    <3>2. (4 * M + 4) * g <= (4 * N) * h
      BY <2>1, <2>2, <3>1
    <3>3. (4 * M) * g <= in * h
      BY <2>1, <2>2, <3>1
    <3>4. (4 * M + 2) * g <= mid * h /\ ((4 * M + 2) * g = mid * h => 4 * M + 2 = 2 * mid)
      BY <2>1, <2>2, <3>1
    <3> QED
      BY <3>2, <3>3, <3>4
  <2>4. M = 2 * H - 1 => M % 2 = 1
    OBVIOUS
  <2> QED
    BY <2>1, <2>3, <2>4 DEF in, mid
<1> QED
  BY <1>1, <1>2

\* A greater magnitude is not rounded to a smaller value.
LEMMA RoundsToMonotone ==
    ASSUME NEW H \in Nat \ {0}, NEW M \in H .. 2 * H - 1, NEW N \in H .. 2 * H - 1,
           NEW g \in Nat \ {0}, NEW h \in Nat \ {0},
           NEW A \in Int, NEW B \in Int, A < B \/ A = B,
           NEW sign \in Sign, NEW t, NEW u, NEW rnd \in RoundingMode,
           RoundsTo(M, H, g, B, sign, t, rnd), RoundsTo(N, H, h, A, sign, u, rnd)
    PROVE  ~((h = g /\ M < N) \/ 2 * g <= h)
<1> SUFFICES ASSUME (h = g /\ M < N) \/ 2 * g <= h
             PROVE  FALSE
  OBVIOUS
<1> DEFINE Mg == (4 * M) * g
           M4 == (4 * M + 4) * g
           M2 == (4 * M + 2) * g
           Mi == InnerOf(M, H) * g
           Mm == MidInOf(M, H) * g
           Nh == (4 * N) * h
           N4 == (4 * N + 4) * h
           N2 == (4 * N + 2) * h
           Ni == InnerOf(N, H) * h
           Nm == MidInOf(N, H) * h
<1>1. /\ M4 <= Nh /\ Mg <= Ni /\ M2 <= Nm
      /\ M2 = Nm => M % 2 = 1 \/ (N % 2 = 1 /\ N # H)
  BY MantissasApart
<1>2. /\ Mg \in Int /\ M4 \in Int /\ M2 \in Int /\ Mi \in Int /\ Mm \in Int
      /\ Nh \in Int /\ N4 \in Int /\ N2 \in Int /\ Ni \in Int /\ Nm \in Int
  <2>1. /\ InnerOf(M, H) \in Int /\ MidInOf(M, H) \in Int
        /\ InnerOf(N, H) \in Int /\ MidInOf(N, H) \in Int
    BY DEF InnerOf, MidInOf
  <2> QED
    BY <2>1
<1>3. M \in Nat /\ N \in Nat /\ g \in Nat /\ h \in Nat /\ H \in Nat
  OBVIOUS
<1>4. /\ rnd = "RNDZ" \/ (rnd = "RNDD" /\ sign = 1) \/ (rnd = "RNDU" /\ sign = -1) =>
            Mg <= B /\ B < M4
      /\ rnd = "RNDA" \/ (rnd = "RNDD" /\ sign = -1) \/ (rnd = "RNDU" /\ sign = 1) =>
            Mi < B /\ B <= Mg
      /\ rnd = "RNDN" =>
            /\ Mm <= B /\ B <= M2
            /\ B = M2 => M % 2 = 0
            /\ B = Mm => M % 2 = 0 \/ M = H
  BY <1>3, RoundsToBounds
<1>5. /\ rnd = "RNDZ" \/ (rnd = "RNDD" /\ sign = 1) \/ (rnd = "RNDU" /\ sign = -1) =>
            Nh <= A /\ A < N4
      /\ rnd = "RNDA" \/ (rnd = "RNDD" /\ sign = -1) \/ (rnd = "RNDU" /\ sign = 1) =>
            Ni < A /\ A <= Nh
      /\ rnd = "RNDN" =>
            /\ Nm <= A /\ A <= N2
            /\ A = N2 => N % 2 = 0
            /\ A = Nm => N % 2 = 0 \/ N = H
  BY <1>3, RoundsToBounds
<1> HIDE DEF Mg, M4, M2, Mi, Mm, Nh, N4, N2, Ni, Nm
<1>6. M % 2 \in {0, 1} /\ N % 2 \in {0, 1}
  BY <1>3
<1>7. /\ ~(rnd = "RNDZ" \/ (rnd = "RNDD" /\ sign = 1) \/ (rnd = "RNDU" /\ sign = -1))
      /\ ~(rnd = "RNDA" \/ (rnd = "RNDD" /\ sign = -1) \/ (rnd = "RNDU" /\ sign = 1))
  BY <1>1, <1>2, <1>4, <1>5
<1>8. rnd = "RNDN"
  BY <1>7 DEF RoundingMode, Sign
<1>9. M2 = Nm /\ B = M2 /\ A = Nm
  BY <1>1, <1>2, <1>4, <1>5, <1>8
<1>10. M % 2 = 0 /\ (N % 2 = 0 \/ N = H)
  BY <1>4, <1>5, <1>8, <1>9
<1> QED
  BY <1>1, <1>6, <1>9, <1>10

\* m * 2^l is at most n * 2^k, or the same.
AtMost(m, l, n, k) == \E t \in Int : t <= l /\ t <= k /\ m * Pow2(l - t) <= n * Pow2(k - t)
SameNumber(m, l, n, k) == \E t \in Int : t <= l /\ t <= k /\ m * Pow2(l - t) = n * Pow2(k - t)

\* Rounding to q bits in one mode is monotone: the result of the smaller
\* magnitude is in a lower binade, or has no greater mantissa in the same.
LEMMA RoundingIsMonotone ==
    ASSUME NEW sign \in Sign, NEW q \in Nat \ {0}, NEW rnd \in RoundingMode, NEW D \in Nat \ {0},
           NEW r, NEW m \in Nat, NEW l \in Int, RoundedTo(r, sign, q, rnd, m, l, D),
           NEW s, NEW n \in Nat, NEW k \in Int, RoundedTo(s, sign, q, rnd, n, k, D),
           AtMost(m, l, n, k)
    PROVE  \/ r.value.exp < s.value.exp
           \/ r.value.exp = s.value.exp /\ r.value.mant <= s.value.mant
<1> DEFINE E == s.value.exp
           M == s.value.mant
           F == r.value.exp
           N == r.value.mant
           H == Pow2(q - 1)
<1>0. PICK t \in Int : t <= l /\ t <= k /\ m * Pow2(l - t) <= n * Pow2(k - t)
  BY DEF AtMost
<1>1. /\ E \in Int /\ M \in H .. Pow2(q) - 1
      /\ \A b \in Int : b <= k /\ b <= E - q - 2 =>
             RoundsTo(M, H, D * Pow2(E - q - 2 - b), n * Pow2(k - b), sign, s.ternary, rnd)
  BY DEF RoundedTo
<1>2. /\ F \in Int /\ N \in H .. Pow2(q) - 1
      /\ \A b \in Int : b <= l /\ b <= F - q - 2 =>
             RoundsTo(N, H, D * Pow2(F - q - 2 - b), m * Pow2(l - b), sign, r.ternary, rnd)
  BY DEF RoundedTo
<1>3. H \in Nat \ {0} /\ Pow2(q) = 2 * H
  BY LengthBounds
<1> HIDE DEF E, M, F, N, H
<1>4. PICK b \in Int : b <= t /\ b <= E - q - 2 /\ b <= F - q - 2
  <2>1. t \in Int /\ E - q - 2 \in Int /\ F - q - 2 \in Int
    BY <1>1, <1>2
  <2> HIDE DEF E, F
  <2> QED
    BY <2>1
<1> DEFINE i == E - q - 2 - b
           j == F - q - 2 - b
           g == D * Pow2(i)
           h == D * Pow2(j)
           B == n * Pow2(k - b)
           A == m * Pow2(l - b)
<1>5. RoundsTo(M, H, g, B, sign, s.ternary, rnd) /\ RoundsTo(N, H, h, A, sign, r.ternary, rnd)
  <2>1. b <= k /\ b <= l
    BY <1>0, <1>4
  <2> QED
    BY <1>1, <1>2, <1>4, <2>1
<1>6. /\ i \in Nat /\ j \in Nat /\ Pow2(i) \in Nat \ {0} /\ Pow2(j) \in Nat \ {0}
      /\ E < F <=> i < j
      /\ E = F <=> i = j
  <2>1. i \in Nat /\ j \in Nat
    BY <1>1, <1>2, <1>4
  <2> QED
    BY <1>1, <1>2, <1>4, <2>1, Pow2Type
<1>7. A <= B /\ A \in Int /\ B \in Int
  <2> DEFINE d == t - b
             U == Pow2(d)
             L == Pow2(l - t)
             K == Pow2(k - t)
  <2>1. d \in Nat /\ l - t \in Nat /\ k - t \in Nat /\ l - b = (l - t) + d /\ k - b = (k - t) + d
    BY <1>0, <1>4
  <2> HIDE DEF d
  <2>2. /\ Pow2(l - b) = L * U /\ Pow2(k - b) = K * U
        /\ U \in Nat /\ L \in Nat /\ K \in Nat
    BY <2>1, Pow2Sum, Pow2Type
  <2>3. A = m * (L * U) /\ B = n * (K * U)
    BY <2>2
  <2>4. m * L <= n * K
    BY <1>0
  <2> HIDE DEF A, B, L, K, U
  <2>5. m * L \in Int /\ n * K \in Int /\ (m * L) * U = m * (L * U) /\ (n * K) * U = n * (K * U)
    BY <2>2
  <2>6. (m * L) * U <= (n * K) * U /\ (m * L) * U \in Int /\ (n * K) * U \in Int
    BY <2>2, <2>4, <2>5, LargerProduct
  <2> QED
    BY <2>3, <2>5, <2>6
<1>8. /\ g \in Nat \ {0} /\ h \in Nat \ {0}
      /\ i = j => h = g
      /\ i < j => 2 * g <= h
  <2>1. g \in Nat \ {0} /\ h \in Nat \ {0}
    BY <1>6, NaturalProducts
  <2>2. ASSUME i < j PROVE 2 * g <= h
    <3> DEFINE I == Pow2(i)
               J == Pow2(j)
    <3>1. 2 * I <= J /\ I \in Nat /\ J \in Nat
      BY <1>6, <2>2, Pow2Split
    <3>2. D * (2 * I) <= D * J
      BY <3>1, SmallerFactor
    <3> HIDE DEF I, J
    <3>3. D * (2 * I) = 2 * (D * I)
      BY <3>1
    <3> QED
      BY <3>2, <3>3 DEF I, J
  <2> QED
    BY <2>1, <2>2
<1> HIDE DEF i, j, g, h, A, B
<1>9. ~((h = g /\ M < N) \/ 2 * g <= h)
  <2>1. M \in H .. 2 * H - 1 /\ N \in H .. 2 * H - 1 /\ (A < B \/ A = B)
    BY <1>1, <1>2, <1>3, <1>7
  <2> QED
    BY <1>3, <1>5, <1>7, <1>8, <2>1, RoundsToMonotone
<1>10. M \in Int /\ N \in Int
  BY <1>1, <1>2
<1>11. F < E \/ (F = E /\ N <= M)
  BY <1>1, <1>2, <1>6, <1>8, <1>9, <1>10
<1> QED
  BY <1>11 DEF E, M, F, N

\* A value has one rounding, ternary value included, however it is written.
LEMMA RoundingIsUnique ==
    ASSUME NEW sign \in Sign, NEW q \in Nat \ {0}, NEW rnd \in RoundingMode, NEW D \in Nat \ {0},
           NEW r, NEW m \in Nat, NEW l \in Int, RoundedTo(r, sign, q, rnd, m, l, D),
           NEW s, NEW n \in Nat, NEW k \in Int, RoundedTo(s, sign, q, rnd, n, k, D),
           SameNumber(m, l, n, k)
    PROVE  r = s
<1> DEFINE E == s.value.exp
           M == s.value.mant
           F == r.value.exp
           N == r.value.mant
           H == Pow2(q - 1)
<1>0. PICK t \in Int : t <= l /\ t <= k /\ m * Pow2(l - t) = n * Pow2(k - t)
  BY DEF SameNumber
<1>1. /\ E \in Int /\ M \in H .. Pow2(q) - 1
      /\ s = Result(Normal(sign, q, E, M), s.ternary)
      /\ \A b \in Int : b <= k /\ b <= E - q - 2 =>
             RoundsTo(M, H, D * Pow2(E - q - 2 - b), n * Pow2(k - b), sign, s.ternary, rnd)
  BY DEF RoundedTo
<1>2. /\ F \in Int /\ N \in H .. Pow2(q) - 1
      /\ r = Result(Normal(sign, q, F, N), r.ternary)
      /\ \A b \in Int : b <= l /\ b <= F - q - 2 =>
             RoundsTo(N, H, D * Pow2(F - q - 2 - b), m * Pow2(l - b), sign, r.ternary, rnd)
  BY DEF RoundedTo
<1>3. H \in Nat \ {0} /\ Pow2(q) = 2 * H
  BY LengthBounds
<1>4. l - t \in Nat /\ k - t \in Nat
  BY <1>0
<1>5. AtMost(m, l, n, k) /\ AtMost(n, k, m, l)
  <2>1. m * Pow2(l - t) \in Int
    BY <1>4, Pow2Type
  <2>2. m * Pow2(l - t) <= n * Pow2(k - t) /\ n * Pow2(k - t) <= m * Pow2(l - t)
    BY <1>0, <2>1
  <2> QED
    BY <1>0, <2>2 DEF AtMost
<1>6. F < E \/ (F = E /\ N <= M)
  BY <1>5, RoundingIsMonotone
<1>7. E < F \/ (E = F /\ M <= N)
  BY <1>5, RoundingIsMonotone
<1> HIDE DEF E, M, F, N, H
<1>8. E = F /\ M = N
  BY <1>1, <1>2, <1>3, <1>6, <1>7
<1>9. PICK b \in Int : b <= t /\ b <= E - q - 2
  <2>1. E - q - 2 \in Int
    BY <1>1
  <2> QED
    BY <2>1
<1> DEFINE g == D * Pow2(E - q - 2 - b)
           B == n * Pow2(k - b)
           A == m * Pow2(l - b)
<1>10. A = B
  <2> DEFINE d == t - b
             U == Pow2(d)
             L == Pow2(l - t)
             K == Pow2(k - t)
  <2>1. d \in Nat /\ l - b = (l - t) + d /\ k - b = (k - t) + d
    BY <1>9
  <2> HIDE DEF d
  <2>2. /\ Pow2(l - b) = L * U /\ Pow2(k - b) = K * U
        /\ U \in Nat /\ L \in Nat /\ K \in Nat
    BY <1>4, <2>1, Pow2Sum, Pow2Type
  <2>3. A = m * (L * U) /\ B = n * (K * U)
    BY <2>2
  <2>4. m * L = n * K
    BY <1>0
  <2> HIDE DEF A, B, L, K, U
  <2>5. (m * L) * U = m * (L * U) /\ (n * K) * U = n * (K * U)
    BY <2>2
  <2> QED
    BY <2>3, <2>4, <2>5
<1>11. RoundsTo(M, H, g, B, sign, s.ternary, rnd) /\ RoundsTo(N, H, g, A, sign, r.ternary, rnd)
  <2>1. b <= k /\ b <= l
    BY <1>0, <1>9
  <2> QED
    BY <1>1, <1>2, <1>8, <1>9, <2>1
<1>12. r.ternary = s.ternary
  BY <1>8, <1>10, <1>11 DEF RoundsTo
<1> QED
  BY <1>1, <1>2, <1>8, <1>12, Zenon

\* A value of q bits is its own rounding.
LEMMA ValueRoundsToItself ==
    ASSUME NEW v, Operand(v), v.kind = "normal", NEW rnd \in RoundingMode
    PROVE  RoundedTo(Exactly(v), v.sign, v.prec, rnd, v.mant, Scale(v), 1)
<1>1. /\ v.sign \in Sign /\ v.prec \in Nat \ {0} /\ v.exp \in Int
      /\ v.mant \in Pow2(v.prec - 1) .. Pow2(v.prec) - 1 /\ v.mant \in Nat /\ Scale(v) = v.exp - v.prec
  BY NormalParts
<1>2. v.prec >= v.prec /\ v.prec - v.prec = 0 /\ v.mant * 1 = v.mant
  BY <1>1
<1>3. PackNormal(v.sign, v.exp, v.mant, v.prec, v.prec, rnd)
      = Exactly(Normal(v.sign, v.prec, v.exp, v.mant * Pow2(v.prec - v.prec)))
  BY <1>2 DEF PackNormal
<1>4. v.mant * Pow2(v.prec - v.prec) = v.mant
  BY <1>2, Pow2Zero
<1>5. v = Normal(v.sign, v.prec, v.exp, v.mant)
  BY Kinds
<1>6. PackNormal(v.sign, v.exp, v.mant, v.prec, v.prec, rnd) = Exactly(v)
  BY <1>3, <1>4, <1>5, Zenon
<1>7. RoundedTo(PackNormal(v.sign, v.exp, v.mant, v.prec, v.prec, rnd), v.sign, v.prec, rnd,
                v.mant, v.exp - v.prec, 1)
  BY <1>1, PackNormalRounds
<1> QED
  BY <1>1, <1>6, <1>7

=============================================================================
