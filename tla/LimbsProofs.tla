----------------------------- MODULE LimbsProofs -----------------------------
(***************************************************************************)
(* The loops of Limbs compute what they promise, for every base, length    *)
(* and operands.                                                           *)
(*                                                                         *)
(* Each loop keeps an equation between the limbs it has passed, the limbs  *)
(* it has written and what it hands to the next iteration; when it ends,   *)
(* the equation is the result.  The invariant is the promises and these    *)
(* equations.  Before that come the facts about Weight and Value, both     *)
(* defined by recursion: induction over a set of natural numbers shows     *)
(* that the recursions have a solution and what it is like.                *)
(***************************************************************************)
EXTENDS Limbs, WellFoundedInduction, TLAPS

-----------------------------------------------------------------------------
(* Induction and recursion.                                                *)

LEMMA LeastNumber ==
    ASSUME NEW T \in SUBSET Nat, T # {}
    PROVE  \E m \in T : \A k \in T : ~(k < m)
<1>1. PICK m \in T : \A k \in T : <<k, m>> \notin OpToRel(<, Nat)
  BY WFMin, NatLessThanWellFounded, Zenon
<1>2. \A k \in T : ~(k < m)
  BY <1>1, Zenon DEF OpToRel
<1> QED
  BY <1>2

LEMMA Induction ==
    ASSUME NEW S, 0 \in S, \A n \in Nat : n \in S => n + 1 \in S
    PROVE  Nat \subseteq S
<1> SUFFICES ASSUME Nat \ S # {} PROVE FALSE
  OBVIOUS
<1>1. PICK m \in Nat \ S : \A k \in Nat \ S : ~(k < m)
  BY LeastNumber
<1>2. m # 0 /\ m - 1 \in Nat /\ m - 1 < m
  BY <1>1
<1>3. m - 1 \in S
  BY <1>1, <1>2
<1>4. (m - 1) + 1 \in S
  BY <1>2, <1>3
<1> QED
  BY <1>4

\* g begins with a and goes on by step, up to n.
Follows(g, a, step, n) ==
    /\ g[0] = a
    /\ \A k \in Nat : k < n => g[k + 1] = step[<<k, g[k]>>]

LEMMA FollowsUniquely ==
    ASSUME NEW a, NEW step, NEW g, NEW h, NEW n \in Nat, NEW m \in Nat,
           Follows(g, a, step, n), Follows(h, a, step, m)
    PROVE  \A k \in Nat : k <= n /\ k <= m => g[k] = h[k]
<1> DEFINE T == {k \in Nat : k <= n /\ k <= m => g[k] = h[k]}
<1>1. 0 \in T
  BY DEF Follows
<1>2. ASSUME NEW k \in Nat, k \in T PROVE k + 1 \in T
  <2> SUFFICES ASSUME k + 1 <= n, k + 1 <= m PROVE g[k + 1] = h[k + 1]
    OBVIOUS
  <2>1. k < n /\ k < m /\ k <= n /\ k <= m
    OBVIOUS
  <2>2. g[k] = h[k]
    BY <1>2, <2>1
  <2>3. g[k + 1] = step[<<k, g[k]>>] /\ h[k + 1] = step[<<k, h[k]>>]
    BY <2>1 DEF Follows
  <2> QED
    BY <2>2, <2>3
<1>3. Nat \subseteq T
  <2> HIDE DEF T
  <2> QED
    BY <1>1, <1>2, Induction
<1> QED
  BY <1>3

LEMMA FollowsUpTo ==
    ASSUME NEW S, NEW a \in S, NEW step \in [Nat \X S -> S], NEW n \in Nat
    PROVE  \E g \in [Nat -> S] : Follows(g, a, step, n)
<1> DEFINE T == {k \in Nat : \E g \in [Nat -> S] : Follows(g, a, step, k)}
<1>1. 0 \in T
  <2>1. [k \in Nat |-> a] \in [Nat -> S] /\ Follows([k \in Nat |-> a], a, step, 0)
    BY DEF Follows
  <2> QED
    BY <2>1
<1>2. ASSUME NEW k \in Nat, k \in T PROVE k + 1 \in T
  <2>1. PICK g \in [Nat -> S] : Follows(g, a, step, k)
    BY <1>2
  <2> DEFINE h == [j \in Nat |-> IF j = k + 1 THEN step[<<k, g[k]>>] ELSE g[j]]
  <2>2. h \in [Nat -> S]
    BY <2>1
  <2>3. h[0] = a
    BY <2>1 DEF Follows
  <2>4. ASSUME NEW j \in Nat, j < k + 1 PROVE h[j + 1] = step[<<j, h[j]>>]
    <3>1. CASE j = k
      BY <3>1
    <3>2. CASE j < k
      BY <2>1, <3>2 DEF Follows
    <3> QED
      BY <2>4, <3>1, <3>2
  <2>5. Follows(h, a, step, k + 1)
    <3> HIDE DEF h
    <3> QED
      BY <2>3, <2>4 DEF Follows
  <2> QED
    BY <2>2, <2>5
<1>3. Nat \subseteq T
  <2> HIDE DEF T
  <2> QED
    BY <1>1, <1>2, Induction
<1> QED
  BY <1>3

LEMMA Recursion ==
    ASSUME NEW S, NEW a \in S, NEW step \in [Nat \X S -> S]
    PROVE  \E f \in [Nat -> S] : \A n \in Nat : Follows(f, a, step, n)
<1> DEFINE G(n) == CHOOSE g : g \in [Nat -> S] /\ Follows(g, a, step, n)
           f == [n \in Nat |-> G(n)[n]]
<1>1. \A n \in Nat : G(n) \in [Nat -> S] /\ Follows(G(n), a, step, n)
  BY FollowsUpTo, Zenon
<1> HIDE DEF G
<1>2. f \in [Nat -> S]
  BY <1>1
<1>3. f[0] = a
  BY <1>1 DEF Follows
<1>4. ASSUME NEW k \in Nat PROVE f[k + 1] = step[<<k, f[k]>>]
  <2>1. G(k + 1)[k + 1] = step[<<k, G(k + 1)[k]>>]
    BY <1>1 DEF Follows
  <2>2. G(k + 1)[k] = G(k)[k]
    <3>1. /\ Follows(G(k + 1), a, step, k + 1) /\ Follows(G(k), a, step, k)
          /\ k <= k + 1 /\ k <= k /\ k + 1 \in Nat
      BY <1>1
    <3>2. \A j \in Nat : j <= k + 1 /\ j <= k => G(k + 1)[j] = G(k)[j]
      BY <3>1, FollowsUniquely
    <3> QED
      BY <3>1, <3>2
  <2> QED
    BY <2>1, <2>2
<1>5. \A n \in Nat : Follows(f, a, step, n)
  <2> HIDE DEF f
  <2> QED
    BY <1>3, <1>4 DEF Follows
<1> QED
  BY <1>2, <1>5

-----------------------------------------------------------------------------
(* Weights.                                                                *)

LEMMA ProductOfNaturals ==
    ASSUME NEW a \in Nat \ {0}, NEW b \in Nat \ {0}
    PROVE  a * b \in Nat \ {0}
  OBVIOUS

LEMMA WeightDefined ==
    Weight = [k \in Nat |-> IF k = 0 THEN 1 ELSE Weight[k - 1] * Base]
<1> DEFINE Solves(f) == f = [k \in Nat |-> IF k = 0 THEN 1 ELSE f[k - 1] * Base]
           step == [x \in Nat \X Int |-> x[2] * Base]
<1>1. step \in [Nat \X Int -> Int]
  BY BaseAssumption
<1>2. PICK f \in [Nat -> Int] : \A n \in Nat : Follows(f, 1, step, n)
  <2> HIDE DEF step
  <2>1. 1 \in Int
    OBVIOUS
  <2> QED
    BY <1>1, <2>1, Recursion, Zenon
<1>3. f[0] = 1
  BY <1>2 DEF Follows
<1>4. ASSUME NEW k \in Nat \ {0} PROVE f[k] = f[k - 1] * Base
  <2>1. k - 1 \in Nat /\ k - 1 < k /\ (k - 1) + 1 = k
    OBVIOUS
  <2>2. f[(k - 1) + 1] = step[<<k - 1, f[k - 1]>>]
    BY <1>2, <2>1 DEF Follows
  <2>3. f[k - 1] \in Int
    BY <1>2, <2>1
  <2>4. step[<<k - 1, f[k - 1]>>] = f[k - 1] * Base
    BY <2>1, <2>3
  <2> QED
    BY <2>1, <2>2, <2>4
<1>5. Solves(f)
  BY <1>2, <1>3, <1>4
<1>6. Weight = CHOOSE g : Solves(g)
  BY Zenon DEF Weight
<1>7. Solves(CHOOSE g : Solves(g))
  <2> HIDE DEF Solves
  <2> QED
    BY <1>5
<1> QED
  BY <1>6, <1>7

LEMMA WeightSteps ==
    /\ Weight[0] = 1
    /\ \A k \in Nat : Weight[k] \in Nat \ {0} /\ Weight[k + 1] = Weight[k] * Base
<1>1. Weight[0] = 1 /\ \A k \in Nat : Weight[k + 1] = Weight[k] * Base
  <2> DEFINE f == [k \in Nat |-> IF k = 0 THEN 1 ELSE Weight[k - 1] * Base]
  <2>1. f[0] = 1 /\ \A k \in Nat : f[k + 1] = Weight[k] * Base
    <3>1. \A k \in Nat : k + 1 \in Nat /\ k + 1 # 0 /\ (k + 1) - 1 = k
      OBVIOUS
    <3> QED
      BY <3>1
  <2>2. Weight = f
    BY WeightDefined
  <2> HIDE DEF f
  <2> QED
    BY <2>1, <2>2
<1> DEFINE T == {k \in Nat : Weight[k] \in Nat \ {0}}
<1>2. 0 \in T
  BY <1>1
<1>3. ASSUME NEW k \in Nat, k \in T PROVE k + 1 \in T
  <2>1. Weight[k] * Base \in Nat \ {0}
    BY <1>3, ProductOfNaturals, BaseAssumption
  <2> QED
    BY <1>1, <2>1
<1>4. Nat \subseteq T
  <2> HIDE DEF T
  <2> QED
    BY <1>2, <1>3, Induction
<1> QED
  BY <1>1, <1>4

\* The weight of a limb of a product of powers.
LEMMA WeightsMultiply ==
    ASSUME NEW j \in Nat
    PROVE  \A k \in Nat : Weight[j + k] = Weight[j] * Weight[k]
<1> DEFINE T == {k \in Nat : Weight[j + k] = Weight[j] * Weight[k]}
<1>1. 0 \in T
  BY WeightSteps
<1>2. ASSUME NEW k \in Nat, k \in T PROVE k + 1 \in T
  <2>1. Weight[j + k] \in Nat /\ Weight[j] \in Nat /\ Weight[k] \in Nat /\ j + k \in Nat
    BY WeightSteps
  <2>2. Weight[(j + k) + 1] = (Weight[j] * Weight[k]) * Base
    BY <1>2, <2>1, WeightSteps
  <2>3. Weight[k + 1] = Weight[k] * Base
    BY WeightSteps
  <2>4. (Weight[j] * Weight[k]) * Base = Weight[j] * (Weight[k] * Base)
    BY <2>1, BaseAssumption
  <2>5. j + (k + 1) = (j + k) + 1
    OBVIOUS
  <2> QED
    BY <2>2, <2>3, <2>4, <2>5
<1>3. Nat \subseteq T
  <2> HIDE DEF T
  <2> QED
    BY <1>1, <1>2, Induction
<1> QED
  BY <1>3

-----------------------------------------------------------------------------
(* Values.                                                                 *)

\* v is what the first limbs of s come to, one after the other.
Sums(v, s, n) ==
    /\ v[0] = 0
    /\ \A k \in Nat : k < n => v[k + 1] = v[k] + s[k] * Weight[k]

LEMMA SumsExist ==
    ASSUME NEW n \in Nat, NEW s, \A k \in Nat : k < n => s[k] \in Int
    PROVE  \E v \in [Nat -> Int] : Sums(v, s, n)
<1> DEFINE step == [x \in Nat \X Int |-> IF x[1] < n THEN x[2] + s[x[1]] * Weight[x[1]] ELSE x[2]]
<1>1. step \in [Nat \X Int -> Int]
  <2>1. ASSUME NEW k \in Nat, NEW y \in Int, k < n PROVE y + s[k] * Weight[k] \in Int
    BY <2>1, WeightSteps
  <2> QED
    BY <2>1
<1>2. \A k \in Nat, y \in Int : k < n => step[<<k, y>>] = y + s[k] * Weight[k]
  OBVIOUS
<1> HIDE DEF step
<1>3. PICK v \in [Nat -> Int] : \A k \in Nat : Follows(v, 0, step, k)
  <2>1. 0 \in Int
    OBVIOUS
  <2> QED
    BY <1>1, <2>1, Recursion, Zenon
<1>4. Sums(v, s, n)
  BY <1>2, <1>3 DEF Follows, Sums
<1> QED
  BY <1>4

LEMMA SumsAreEqual ==
    ASSUME NEW n \in Nat, NEW m \in Nat, n <= m, NEW s, NEW t,
           \A k \in Nat : k < n => s[k] = t[k],
           NEW v, NEW w, Sums(v, s, n), Sums(w, t, m)
    PROVE  \A k \in Nat : k <= n => v[k] = w[k]
<1> DEFINE T == {k \in Nat : k <= n => v[k] = w[k]}
<1>1. 0 \in T
  BY DEF Sums
<1>2. ASSUME NEW k \in Nat, k \in T PROVE k + 1 \in T
  <2> SUFFICES ASSUME k + 1 <= n PROVE v[k + 1] = w[k + 1]
    OBVIOUS
  <2>1. k < n /\ k < m /\ k <= n
    OBVIOUS
  <2>2. v[k + 1] = v[k] + s[k] * Weight[k] /\ w[k + 1] = w[k] + t[k] * Weight[k]
    BY <2>1 DEF Sums
  <2>3. v[k] = w[k] /\ s[k] = t[k]
    BY <1>2, <2>1
  <2> QED
    BY <2>2, <2>3
<1>3. Nat \subseteq T
  <2> HIDE DEF T
  <2> QED
    BY <1>1, <1>2, Induction
<1> QED
  BY <1>3

\* Value is the last of the sums.
LEMMA ValueIsSum ==
    ASSUME NEW n \in Nat, NEW s, \A k \in Nat : k < n => s[k] \in Int
    PROVE  \E v \in [Nat -> Int] : Sums(v, s, n) /\ Value(s, n) = v[n]
<1> DEFINE Solves(v) ==
              v = [k \in 0..n |-> IF k = 0 THEN 0 ELSE v[k - 1] + s[k - 1] * Weight[k - 1]]
           V == CHOOSE v : Solves(v)
<1>1. PICK f \in [Nat -> Int] : Sums(f, s, n)
  BY SumsExist
<1>2. Solves([k \in 0..n |-> f[k]])
  <2> DEFINE w == [k \in 0..n |-> f[k]]
             u == [k \in 0..n |-> IF k = 0 THEN 0 ELSE w[k - 1] + s[k - 1] * Weight[k - 1]]
  <2>1. ASSUME NEW k \in 0..n PROVE w[k] = u[k]
    <3>1. CASE k = 0
      BY <1>1, <3>1 DEF Sums
    <3>2. CASE k # 0
      <4>1. k - 1 \in Nat /\ k - 1 < n /\ (k - 1) + 1 = k /\ k - 1 \in 0..n
        BY <3>2
      <4>2. f[(k - 1) + 1] = f[k - 1] + s[k - 1] * Weight[k - 1]
        BY <1>1, <4>1 DEF Sums
      <4> QED
        BY <3>2, <4>1, <4>2
    <3> QED
      BY <3>1, <3>2
  <2>2. w = u
    BY <2>1
  <2> QED
    BY <2>2
<1>3. Solves(V)
  <2> HIDE DEF Solves
  <2> QED
    BY <1>2, Zenon
<1>4. Value(s, n) = V[n]
  BY Zenon DEF Value
<1>5. Sums(V, s, n)
  <2> DEFINE u == [k \in 0..n |-> IF k = 0 THEN 0 ELSE V[k - 1] + s[k - 1] * Weight[k - 1]]
  <2> HIDE DEF V
  <2>1. V = u
    BY <1>3
  <2>2. u[0] = 0
    OBVIOUS
  <2>3. ASSUME NEW k \in Nat, k < n PROVE u[k + 1] = V[k] + s[k] * Weight[k]
    <3>1. k + 1 \in 0..n /\ k + 1 # 0 /\ (k + 1) - 1 = k
      BY <2>3
    <3> QED
      BY <3>1
  <2> HIDE DEF u
  <2> QED
    BY <2>1, <2>2, <2>3 DEF Sums
<1>6. V[n] = f[n]
  <2> HIDE DEF V
  <2>1. n <= n
    OBVIOUS
  <2>2. \A k \in Nat : k <= n => V[k] = f[k]
    BY <1>1, <1>5, <2>1, SumsAreEqual
  <2> QED
    BY <2>1, <2>2
<1> QED
  BY <1>1, <1>4, <1>6

LEMMA ValueOf ==
    ASSUME NEW n \in Nat, NEW s, \A k \in Nat : k < n => s[k] \in Int,
           NEW v, Sums(v, s, n)
    PROVE  Value(s, n) = v[n]
<1>1. PICK w \in [Nat -> Int] : Sums(w, s, n) /\ Value(s, n) = w[n]
  BY ValueIsSum
<1>2. n <= n
  OBVIOUS
<1>3. \A k \in Nat : k <= n => v[k] = w[k]
  BY <1>1, <1>2, SumsAreEqual
<1> QED
  BY <1>1, <1>2, <1>3

LEMMA ValueType ==
    ASSUME NEW n \in Nat, NEW s, \A k \in Nat : k < n => s[k] \in Int
    PROVE  Value(s, n) \in Int
  BY ValueIsSum

LEMMA ValueEmpty ==
    ASSUME NEW s
    PROVE  Value(s, 0) = 0
<1>1. 0 \in Nat /\ \A k \in Nat : k < 0 => s[k] \in Int
  OBVIOUS
<1>2. PICK v \in [Nat -> Int] : Sums(v, s, 0) /\ Value(s, 0) = v[0]
  BY <1>1, ValueIsSum
<1> QED
  BY <1>2 DEF Sums

LEMMA ValueStep ==
    ASSUME NEW n \in Nat, NEW s, \A k \in Nat : k <= n => s[k] \in Int
    PROVE  Value(s, n + 1) = Value(s, n) + s[n] * Weight[n]
<1>1. n + 1 \in Nat /\ \A k \in Nat : k < n + 1 => s[k] \in Int
  OBVIOUS
<1>2. PICK v \in [Nat -> Int] : Sums(v, s, n + 1) /\ Value(s, n + 1) = v[n + 1]
  BY <1>1, ValueIsSum
<1>3. Sums(v, s, n)
  BY <1>2 DEF Sums
<1>4. \A k \in Nat : k < n => s[k] \in Int
  OBVIOUS
<1>5. Value(s, n) = v[n]
  BY <1>3, <1>4, ValueOf
<1>6. v[n + 1] = v[n] + s[n] * Weight[n]
  BY <1>2 DEF Sums
<1> QED
  BY <1>2, <1>5, <1>6

LEMMA ValueSame ==
    ASSUME NEW n \in Nat, NEW s, NEW t,
           \A k \in Nat : k < n => s[k] \in Int /\ s[k] = t[k]
    PROVE  Value(s, n) = Value(t, n)
<1>1. PICK v \in [Nat -> Int] : Sums(v, s, n) /\ Value(s, n) = v[n]
  BY ValueIsSum
<1>2. Sums(v, t, n)
  BY <1>1 DEF Sums
<1>3. Value(t, n) = v[n]
  BY <1>2, ValueOf
<1> QED
  BY <1>1, <1>3

LEMMA ProductUpTo ==
    ASSUME NEW w \in Nat, NEW a \in Nat, NEW b \in Nat, a < b
    PROVE  a * w + w <= b * w
<1>1. b - (a + 1) \in Nat
  OBVIOUS
<1>2. (b - (a + 1)) * w \in Nat
  BY <1>1
<1>3. (b - (a + 1)) * w = b * w - (a * w + w)
  OBVIOUS
<1>4. a * w \in Int /\ b * w \in Int
  OBVIOUS
<1> QED
  BY <1>2, <1>3, <1>4

\* n limbs stand for a number below the weight of the next one.
LEMMA ValueRange ==
    ASSUME NEW n \in Nat, NEW s, \A k \in Nat : k < n => s[k] \in Limb
    PROVE  Value(s, n) \in 0..(Weight[n] - 1)
<1> DEFINE T == {k \in Nat : k <= n => Value(s, k) \in 0..(Weight[k] - 1)}
<1>1. 0 \in T
  BY ValueEmpty, WeightSteps
<1>2. ASSUME NEW k \in Nat, k \in T PROVE k + 1 \in T
  <2> SUFFICES ASSUME k + 1 <= n PROVE Value(s, k + 1) \in 0..(Weight[k + 1] - 1)
    OBVIOUS
  <2>1. \A j \in Nat : j <= k => s[j] \in Int
    BY DEF Limb
  <2>2. Value(s, k + 1) = Value(s, k) + s[k] * Weight[k]
    BY <2>1, ValueStep
  <2>3. /\ Value(s, k) \in 0..(Weight[k] - 1) /\ Weight[k] \in Nat
        /\ s[k] \in Nat /\ s[k] < Base /\ Base \in Nat /\ Weight[k + 1] = Weight[k] * Base
    BY <1>2, WeightSteps, BaseAssumption DEF Limb
  <2>4. s[k] * Weight[k] + Weight[k] <= Base * Weight[k]
    BY <2>3, ProductUpTo
  <2>5. s[k] * Weight[k] \in Nat /\ Base * Weight[k] = Weight[k] * Base /\ Base * Weight[k] \in Nat
    BY <2>3
  <2> QED
    BY <2>2, <2>3, <2>4, <2>5
<1>3. Nat \subseteq T
  <2> HIDE DEF T
  <2> QED
    BY <1>1, <1>2, Induction
<1>4. n \in T /\ n <= n
  BY <1>3
<1> QED
  BY <1>4

LEMMA VectorValue ==
    ASSUME NEW n \in Nat, NEW s \in Vectors(n), NEW k \in Nat, k <= n
    PROVE  /\ Value(s, k) \in 0..(Weight[k] - 1)
           /\ k < n => s[k] \in Limb /\ Value(s, k + 1) = Value(s, k) + s[k] * Weight[k]
<1>1. \A j \in Nat : j < n => s[j] \in Limb /\ s[j] \in Int
  BY DEF Vectors, Limb
<1>2. Value(s, k) \in 0..(Weight[k] - 1)
  <2>1. \A j \in Nat : j < k => s[j] \in Limb
    BY <1>1
  <2> QED
    BY <2>1, ValueRange
<1>3. ASSUME k < n PROVE s[k] \in Limb /\ Value(s, k + 1) = Value(s, k) + s[k] * Weight[k]
  <2>1. \A j \in Nat : j <= k => s[j] \in Int
    BY <1>1, <1>3
  <2> QED
    BY <1>1, <1>3, <2>1, ValueStep
<1> QED
  BY <1>2, <1>3

\* Another limb above the others.
LEMMA StoredLimb ==
    ASSUME NEW n \in Nat, NEW v \in Vectors(n), NEW limb \in Limb, NEW w,
           w = [k \in 0..n |-> IF k = n THEN limb ELSE v[k]]
    PROVE  w \in Vectors(n + 1) /\ Value(w, n + 1) = Value(v, n) + limb * Weight[n]
<1>1. w \in Vectors(n + 1)
  BY DEF Vectors
<1>2. w[n] = limb /\ \A k \in Nat : k < n => v[k] \in Int /\ v[k] = w[k]
  BY DEF Vectors, Limb
<1>3. Value(v, n) = Value(w, n)
  BY <1>2, ValueSame
<1>4. n + 1 \in Nat /\ n <= n + 1 /\ n < n + 1
  OBVIOUS
<1>5. Value(w, n + 1) = Value(w, n) + w[n] * Weight[n]
  BY <1>1, <1>4, VectorValue
<1> QED
  BY <1>1, <1>2, <1>3, <1>5

-----------------------------------------------------------------------------
(* Arithmetic.                                                             *)

LEMMA DivMod ==
    ASSUME NEW a \in Int, NEW b \in Nat \ {0}
    PROVE  /\ a \div b \in Int /\ a % b \in 0..(b - 1)
           /\ a = (a \div b) * b + (a % b)
<1>1. a % b \in 0..(b - 1) /\ a \div b \in Int
  OBVIOUS
<1>2. a = b * (a \div b) + (a % b)
  BY Z3
<1>3. b * (a \div b) = (a \div b) * b
  BY <1>1
<1> QED
  BY <1>1, <1>2, <1>3

LEMMA FactorUnique ==
    ASSUME NEW b \in Nat, NEW d \in Int, NEW e \in Int,
           NEW r \in 0..(b - 1), NEW s \in 0..(b - 1), d * b + r = e * b + s
    PROVE  d = e
<1>1. \A x, y \in Int : x < y => x * b + b <= y * b
  <2> SUFFICES ASSUME NEW x \in Int, NEW y \in Int, x < y PROVE x * b + b <= y * b
    OBVIOUS
  <2>1. y - (x + 1) \in Nat
    OBVIOUS
  <2>2. (y - (x + 1)) * b \in Nat
    BY <2>1
  <2>3. (y - (x + 1)) * b = y * b - (x * b + b) /\ x * b \in Int /\ y * b \in Int
    OBVIOUS
  <2> QED
    BY <2>2, <2>3
<1>2. d * b \in Int /\ e * b \in Int
  OBVIOUS
<1>3. CASE d < e
  BY <1>1, <1>2, <1>3
<1>4. CASE e < d
  BY <1>1, <1>2, <1>4
<1> QED
  BY <1>3, <1>4

LEMMA DivModUnique ==
    ASSUME NEW a \in Int, NEW b \in Nat \ {0}, NEW d \in Int, NEW r \in 0..(b - 1),
           a = d * b + r
    PROVE  a \div b = d /\ a % b = r
<1>1. a \div b \in Int /\ a % b \in 0..(b - 1) /\ a = (a \div b) * b + (a % b)
  BY DivMod
<1>2. a \div b = d
  BY <1>1, FactorUnique
<1>3. d * b \in Int
  OBVIOUS
<1> QED
  BY <1>1, <1>2, <1>3

LEMMA NonNegativeQuotient ==
    ASSUME NEW a \in Nat, NEW b \in Nat \ {0}
    PROVE  a \div b \in Nat
<1> DEFINE d == a \div b
           r == a % b
<1>1. d \in Int /\ r \in 0..(b - 1) /\ a = d * b + r
  BY DivMod
<1> HIDE DEF d, r
<1>2. ASSUME d < 0 PROVE FALSE
  <2>1. -d - 1 \in Nat
    BY <1>1, <1>2
  <2>2. (-d - 1) * b \in Nat
    BY <2>1
  <2>3. (-d - 1) * b = -(d * b) - b /\ d * b \in Int
    BY <1>1
  <2> QED
    BY <1>1, <2>2, <2>3
<1>3. d \in Nat
  BY <1>1, <1>2
<1> QED
  BY <1>3 DEF d

LEMMA QuotientBelow ==
    ASSUME NEW a \in Nat, NEW b \in Nat \ {0}, NEW c \in Nat, NEW w \in Nat, c <= b, a < w * c
    PROVE  a \div b < w
<1> DEFINE d == a \div b
           r == a % b
<1>1. d \in Nat /\ r \in 0..(b - 1) /\ a = d * b + r
  BY DivMod, NonNegativeQuotient
<1> HIDE DEF d, r
<1>2. ASSUME d >= w PROVE FALSE
  <2>1. (d - w) * b \in Nat /\ w * (b - c) \in Nat
    BY <1>1, <1>2
  <2>2. (d - w) * b = d * b - w * b /\ w * (b - c) = w * b - w * c
    BY <1>1
  <2>3. d * b \in Int /\ w * b \in Int /\ w * c \in Int
    BY <1>1
  <2> QED
    BY <1>1, <2>1, <2>2, <2>3
<1>3. d < w
  BY <1>1, <1>2
<1> QED
  BY <1>3 DEF d

\* A carry is what a sum has above a limb, a borrow what a difference lacks.
LEMMA CarryOf ==
    ASSUME NEW d \in Int, -Base <= d, d < 2 * Base
    PROVE  /\ d % Base \in Limb
           /\ d < 0 => d % Base = d + Base /\ d \div Base = -1
           /\ 0 <= d /\ d < Base => d % Base = d /\ d \div Base = 0
           /\ Base <= d => d % Base = d - Base /\ d \div Base = 1
<1>1. Base \in Nat \ {0}
  BY BaseAssumption
<1>2. d % Base \in Limb
  BY <1>1, DivMod DEF Limb
<1>3. ASSUME d < 0 PROVE d % Base = d + Base /\ d \div Base = -1
  <2>1. d = (-1) * Base + (d + Base) /\ d + Base \in 0..(Base - 1) /\ -1 \in Int
    BY <1>1, <1>3
  <2> QED
    BY <1>1, <2>1, DivModUnique
<1>4. ASSUME 0 <= d, d < Base PROVE d % Base = d /\ d \div Base = 0
  <2>1. d = 0 * Base + d /\ d \in 0..(Base - 1) /\ 0 \in Int
    BY <1>1, <1>4
  <2> QED
    BY <1>1, <2>1, DivModUnique
<1>5. ASSUME Base <= d PROVE d % Base = d - Base /\ d \div Base = 1
  <2>1. d = 1 * Base + (d - Base) /\ d - Base \in 0..(Base - 1) /\ 1 \in Int
    BY <1>1, <1>5
  <2> QED
    BY <1>1, <2>1, DivModUnique
<1> QED
  BY <1>2, <1>3, <1>4, <1>5

\* Shifting a limb by q, of p * q = Base: what is below q goes on in the limb,
\* the rest leaves it.
LEMMA ShiftedLimb ==
    ASSUME NEW a \in Limb, NEW p \in Nat \ {0}, NEW q \in Nat \ {0}, p * q = Base
    PROVE  /\ (a * q) % Base = (a % p) * q
           /\ a \div p \in 0..(q - 1) /\ (a % p) * q \in 0..(Base - q)
           /\ a % p \in 0..(p - 1) /\ a = (a \div p) * p + (a % p)
<1> DEFINE d == a \div p
           r == a % p
<1>1. a \in Nat /\ a \in Int /\ a < Base /\ Base \in Nat \ {0}
  BY BaseAssumption DEF Limb
<1>2. d \in Nat /\ d \in Int /\ r \in 0..(p - 1) /\ a = d * p + r
  <2>1. d \in Int /\ r \in 0..(p - 1) /\ a = d * p + r
    BY <1>1, DivMod
  <2>2. d \in Nat
    BY <1>1, NonNegativeQuotient
  <2> QED
    BY <2>1, <2>2
<1>3. a < q * p /\ p <= p /\ p \in Nat
  <2>1. p * q = q * p
    OBVIOUS
  <2> QED
    BY <1>1, <2>1
<1>4. d < q
  BY <1>1, <1>3, QuotientBelow
<1> HIDE DEF d, r
<1>5. r * q \in Nat /\ r * q <= Base - q
  <2>1. (p - 1 - r) * q \in Nat /\ r * q \in Nat
    BY <1>2
  <2>2. (p - 1 - r) * q = p * q - q - r * q
    BY <1>2
  <2> QED
    BY <1>1, <2>1, <2>2
<1>6. a * q = d * Base + r * q
  <2>1. a * q = (d * p) * q + r * q
    <3>1. (d * p + r) * q = (d * p) * q + r * q
      BY <1>2
    <3> QED
      BY <1>2, <3>1
  <2>2. (d * p) * q = d * (p * q)
    BY <1>2
  <2> QED
    BY <2>1, <2>2
<1>7. (a * q) % Base = r * q
  <2>1. a * q \in Int /\ r * q \in 0..(Base - 1)
    BY <1>1, <1>5
  <2> DEFINE x == a * q
             y == r * q
  <2>2. x = d * Base + y /\ x \in Int /\ y \in 0..(Base - 1)
    BY <1>6, <2>1
  <2> HIDE DEF x, y
  <2>3. x % Base = y
    BY <1>1, <1>2, <2>2, DivModUnique
  <2> QED
    BY <2>3 DEF x, y
<1> QED
  BY <1>1, <1>2, <1>4, <1>5, <1>7 DEF d, r

\* An iteration of a carry loop: the limb and the new carry make up for the
\* limbs read and the carry that came in.
LEMMA CarriedOn ==
    ASSUME NEW r \in Int, NEW c \in Int, NEW w \in Int, NEW x \in Int,
           NEW s \in Int, NEW limb \in Int, NEW d \in Int,
           r + c * w = x, s + c = d * Base + limb
    PROVE  (r + limb * w) + d * (w * Base) = x + s * w
<1>1. Base \in Int
  BY BaseAssumption
<1>2. limb = (s + c) - d * Base
  BY <1>1
<1>3. ((s + c) - d * Base) * w = s * w + c * w - (d * Base) * w
  BY <1>1
<1>4. (d * Base) * w = d * (w * Base)
  BY <1>1
<1>5. s * w \in Int /\ c * w \in Int /\ d * (w * Base) \in Int /\ limb * w \in Int
  BY <1>1
<1>6. limb * w = s * w + c * w - d * (w * Base)
  BY <1>2, <1>3, <1>4
<1> QED
  BY <1>5, <1>6

-----------------------------------------------------------------------------
(* The invariant.                                                          *)

IdleInv == pc = "idle" => out = Empty /\ num = 0 /\ den = 0

\* What an iteration of mpn_rshift finds below and above: of the limb it reads,
\* the low bits have been written.
Here == IF i < call.n THEN call.s1[i] ELSE 0
LoopInv ==
    pc = "loop" =>
        /\ call.fn \in Routines \ Dividing /\ i <= call.n
        /\ call.fn # "mpn_cmp" => out \in Vectors(i) /\ carry \in Limb
CompareInv ==
    pc = "loop" /\ call.fn = "mpn_cmp" =>
        /\ carry = 0
        /\ Value(call.s1, call.n) - Value(call.s2, call.n)
              = Value(call.s1, i) - Value(call.s2, i)
LeftInv ==
    pc = "loop" /\ call.fn = "mpn_lshift" =>
        Value(call.s1, i) * call.p = Value(out, i) + (carry \div call.q) * Weight[i]
RightInv ==
    pc = "loop" /\ call.fn = "mpn_rshift" =>
        Value(out, i) * call.p + (call.s1[0] % call.p)
           = Value(call.s1, i) + (Here % call.p) * Weight[i]

PackNpInv ==
    pc = "pack_np" =>
        /\ call.fn \in Dividing /\ i <= call.n /\ out = Empty /\ den = 0
        /\ Value(call.s1, call.n) = num * Weight[i] + Value(call.s1, i)
PackDpInv ==
    pc = "pack_dp" =>
        /\ call.fn \in LongDividing /\ i <= call.m /\ out = Empty /\ num = N
        /\ Value(call.s2, call.m) = den * Weight[i] + Value(call.s2, i)
DivideInv ==
    pc = "divide" => call.fn \in Dividing /\ i = 0 /\ out = Empty /\ num = N /\ den = D

\* The quotient fits into the limbs there are for it.
Fits == call.fn \in LongDividing => call.s2[call.m - 1] > 0
Unpacking == num = N /\ den = D /\ den > 0 /\ out \in Vectors(i) /\ carry \in Nat
UnpackQInv ==
    pc = "unpack_q" =>
        /\ call.fn \in Dividing /\ i <= QuotLimbs /\ Unpacking
        /\ Value(out, i) + carry * Weight[i] = num \div den
UnpackRInv ==
    pc = "unpack_r" =>
        /\ call.fn \in LongDividing /\ i <= call.m /\ Unpacking
        /\ Value(out, i) + carry * Weight[i] = num % den
        /\ quot \in Vectors(QuotLimbs) /\ (Fits => Value(quot, QuotLimbs) = num \div den)

DivisionInv == PackNpInv /\ PackDpInv /\ DivideInv /\ UnpackQInv /\ UnpackRInv

IInv ==
    /\ TypeOK /\ IdleInv
    /\ LoopInv /\ CompareInv /\ LeftInv /\ RightInv
    /\ DivisionInv
    /\ CarriesAreExact /\ ComparesNumbers /\ QuotientsAreExact

-----------------------------------------------------------------------------
(* Calls.                                                                  *)

LEMMA EmptyVector == Empty \in Vectors(0) /\ Empty \in [DOMAIN Empty -> Limb] /\ Value(Empty, 0) = 0
<1>1. 0..(0 - 1) = {}
  OBVIOUS
<1>2. Empty \in Vectors(0) /\ Empty \in [DOMAIN Empty -> Limb]
  BY <1>1 DEF Empty, Vectors
<1> QED
  BY <1>2, ValueEmpty

LEMMA NoCallOK == call = NoCall => CallOK
<1> SUFFICES ASSUME call = NoCall PROVE CallOK
  OBVIOUS
<1>1. 0 \in Limb /\ 1 * Base = Base /\ Base \in Nat /\ Base > 0
  BY BaseAssumption DEF Limb
<1>2. /\ call.fn = "none" /\ call.n = 0 /\ call.m = 0 /\ call.qxn = 0 /\ call.x = 0
      /\ call.p = 1 /\ call.q = Base /\ call.s1 = Empty /\ call.s2 = Empty
  BY DEF NoCall
<1> QED
  BY <1>1, <1>2, EmptyVector
     DEF CallOK, Paired, LongDividing

LEMMA InitInv == Init => IInv
<1> SUFFICES ASSUME Init PROVE IInv
  OBVIOUS
<1>1. CallOK /\ pc = "idle" /\ call.fn = "none"
  BY NoCallOK DEF Init, NoCall
<1>2. TypeOK
  BY <1>1, EmptyVector DEF Init, TypeOK
<1> QED
  BY <1>1, <1>2
     DEF Init, IInv, IdleInv, LoopInv, CompareInv, LeftInv, RightInv,
         DivisionInv, PackNpInv, PackDpInv, DivideInv, UnpackQInv, UnpackRInv,
         CarriesAreExact, ComparesNumbers, QuotientsAreExact

LEMMA NextCallInv == IInv /\ NextCall => IInv'
<1> SUFFICES ASSUME IInv, NextCall PROVE IInv'
  OBVIOUS
<1>1. CallOK' /\ pc' = "idle" /\ call'.fn = "none"
  <2>1. call' = NoCall
    BY DEF NextCall
  <2>2. (call = NoCall => CallOK)'
    BY NoCallOK, PTL
  <2> QED
    BY <2>1, <2>2 DEF NextCall, NoCall
<1>2. TypeOK'
  BY <1>1, EmptyVector DEF NextCall, TypeOK
<1> QED
  BY <1>1, <1>2
     DEF NextCall, IInv, IdleInv, LoopInv, CompareInv, LeftInv, RightInv,
         DivisionInv, PackNpInv, PackDpInv, DivideInv, UnpackQInv, UnpackRInv,
         CarriesAreExact, ComparesNumbers, QuotientsAreExact

LEMMA LimbIsNat == Base \in Nat \ {0} /\ \A x \in Limb : x \in Nat /\ x < Base
  BY BaseAssumption DEF Limb

LEMMA CallNumbers ==
    CallOK =>
       /\ call.n \in Nat /\ call.m \in Nat /\ call.m <= call.n /\ call.x \in Nat
       /\ call.p \in Nat \ {0} /\ call.q \in Nat \ {0}
       /\ call.fn \in {"mpn_lshift", "mpn_rshift"} => call.n > 0
       /\ call.fn \in Paired => call.m = call.n
<1>1. CallOK => call.n \in Nat /\ call.m \in Nat /\ call.m <= call.n
  BY DEF CallOK
<1>2. CallOK => call.x \in Nat
  BY LimbIsNat DEF CallOK
<1>3. CallOK => call.p \in Nat \ {0} /\ call.q \in Nat \ {0}
  BY DEF CallOK
<1>4. CallOK => (call.fn \in {"mpn_lshift", "mpn_rshift"} => call.n > 0)
  BY DEF CallOK
<1>5. CallOK => (call.fn \in Paired => call.m = call.n)
  BY DEF CallOK
<1> QED
  BY <1>1, <1>2, <1>3, <1>4, <1>5

LEMMA CallVectors == CallOK => call.s1 \in Vectors(call.n) /\ call.s2 \in Vectors(call.m)
  BY DEF CallOK

LEMMA ValueOfVector ==
    ASSUME NEW n \in Nat, NEW s \in Vectors(n), NEW k \in Nat, k <= n
    PROVE  Value(s, k) \in Nat
<1>1. Weight[k] \in Nat /\ Value(s, k) \in 0..(Weight[k] - 1)
  BY VectorValue, WeightSteps
<1> QED
  BY <1>1

LEMMA ZeroLimb == 0 \in Limb /\ 1 \in Limb /\ 1 * Base = Base /\ Base \in Nat /\ Base > 0
  BY BaseAssumption DEF Limb

\* A call before its first iteration.
LoopEntered ==
    pc = "loop" =>
        /\ call.fn \in Routines \ Dividing
        /\ i = (IF call.fn = "mpn_cmp" THEN call.n ELSE 0)
        /\ call.fn \in Paired \cup {"mpn_lshift", "mpn_rshift"} => carry = 0
        /\ call.fn \in {"mpn_add_1", "mpn_sub_1"} /\ call.n > 0 => carry = call.x
Entered ==
    /\ CallOK /\ pc \in {"loop", "pack_np"} /\ i \in Nat /\ carry \in Limb
    /\ out = Empty /\ num = 0 /\ den = 0 /\ quot \in [DOMAIN quot -> Limb]
    /\ LoopEntered
    /\ pc = "pack_np" => call.fn \in Dividing /\ i = call.n

\* The equations hold when a loop begins: nothing has been passed.
LEMMA EnteredInv == Entered => IInv
<1> SUFFICES ASSUME Entered PROVE IInv
  OBVIOUS
<1>1. CallOK
  BY DEF Entered
<1>2. /\ call.n \in Nat /\ call.m \in Nat /\ call.x \in Nat
      /\ call.p \in Nat \ {0} /\ call.q \in Nat \ {0}
      /\ call.fn \in {"mpn_lshift", "mpn_rshift"} => call.n > 0
      /\ call.fn \in Paired => call.m = call.n
  BY <1>1, CallNumbers
<1>3. pc \in {"loop", "pack_np"} /\ out = Empty
  BY DEF Entered
<1>4. i \in Nat /\ carry \in Int /\ num = 0 /\ den = 0
  BY LimbIsNat DEF Entered
<1>5. TypeOK
  <2>1. quot \in [DOMAIN quot -> Limb] /\ out \in [DOMAIN out -> Limb]
    BY EmptyVector DEF Entered
  <2>2. num \in Nat /\ den \in Nat
    BY <1>4
  <2> QED
    BY <1>1, <1>3, <1>4, <2>1, <2>2 DEF TypeOK
<1>6. /\ Weight[0] = 1
      /\ Value(call.s1, 0) = 0 /\ Value(call.s2, 0) = 0 /\ Value(out, 0) = 0
  BY WeightSteps, ValueEmpty
<1>7. LoopInv
  <2>1. pc = "loop" => call.fn \in Routines \ Dividing /\ i <= call.n
    BY <1>2 DEF Entered, LoopEntered
  <2>2. pc = "loop" /\ call.fn # "mpn_cmp" => out \in Vectors(i) /\ carry \in Limb
    BY <1>3, EmptyVector DEF Entered, LoopEntered
  <2> QED
    BY <2>1, <2>2 DEF LoopInv
<1>8. CompareInv
  BY DEF CompareInv, Entered, LoopEntered, Paired
<1>9. LeftInv
  <2> SUFFICES ASSUME pc = "loop", call.fn = "mpn_lshift"
               PROVE  Value(call.s1, i) * call.p = Value(out, i) + (carry \div call.q) * Weight[i]
    BY DEF LeftInv
  <2>1. i = 0 /\ carry = 0
    BY DEF Entered, LoopEntered
  <2>2. 0 \div call.q = 0
    <3>1. 0 = 0 * call.q + 0 /\ 0 \in 0..(call.q - 1) /\ 0 \in Int
      BY <1>2
    <3> QED
      BY <1>2, <3>1, DivModUnique
  <2> QED
    BY <1>2, <1>6, <2>1, <2>2
<1>10. RightInv
  <2> SUFFICES ASSUME pc = "loop", call.fn = "mpn_rshift"
               PROVE  Value(out, i) * call.p + (call.s1[0] % call.p)
                         = Value(call.s1, i) + (Here % call.p) * Weight[i]
    BY DEF RightInv
  <2>1. i = 0 /\ Here = call.s1[0]
    BY <1>2 DEF Entered, LoopEntered, Here
  <2>2. call.s1[0] \in Int
    <3>1. call.s1[0] \in Limb
      BY <1>1, <1>2, CallVectors, VectorValue
    <3> QED
      BY <3>1, LimbIsNat
  <2>3. call.s1[0] % call.p \in Int
    <3>1. call.p \in Nat \ {0}
      BY <1>2
    <3>2. call.s1[0] % call.p \in 0..(call.p - 1)
      BY <2>2, <3>1, DivMod
    <3> QED
      BY <3>1, <3>2
  <2> DEFINE r == call.s1[0] % call.p
  <2>5. r \in Int
    BY <2>3
  <2> HIDE DEF r
  <2>4. 0 * call.p + r = 0 + r * 1
    BY <1>2, <2>5
  <2> QED
    BY <1>6, <2>1, <2>4 DEF r
<1>11. PackNpInv
  <2> SUFFICES ASSUME pc = "pack_np" PROVE PackNpInv
    BY DEF PackNpInv
  <2>1. call.fn \in Dividing /\ i = call.n
    BY DEF Entered
  <2> DEFINE v == Value(call.s1, call.n)
             w == Weight[call.n]
  <2>2. v \in Int /\ w \in Int
    BY <1>1, <1>2, CallVectors, ValueOfVector, WeightSteps
  <2> HIDE DEF v, w
  <2>3. v = 0 * w + v
    BY <2>2
  <2>4. Value(call.s1, call.n) = num * Weight[i] + Value(call.s1, i)
    BY <1>4, <2>1, <2>3 DEF v, w
  <2>5. i <= call.n
    BY <1>2, <2>1
  <2> QED
    BY <1>3, <1>4, <2>1, <2>4, <2>5 DEF PackNpInv
<1>12. CarriesAreExact
  <2>1. ASSUME pc = "loop", call.fn \in Adding \cup Subtracting, call.fn \in Paired \/ call.n > 0
        PROVE  /\ i = 0
               /\ carry = IF call.fn \in Paired THEN Value(call.s2, i) ELSE call.x
    BY <1>6, <2>1 DEF Entered, LoopEntered, Adding, Subtracting, Paired
  <2> DEFINE b == IF call.fn \in Paired THEN Value(call.s2, i) ELSE call.x
  <2>2. ASSUME pc = "loop", call.fn \in Adding \cup Subtracting, call.fn \in Paired \/ call.n > 0
        PROVE  /\ Value(out, i) + carry * Weight[i] = Value(call.s1, i) + b
               /\ Value(out, i) - carry * Weight[i] = Value(call.s1, i) - b
               /\ ~(i > 0)
    <3>1. i = 0 /\ carry = b
      BY <2>1, <2>2
    <3> HIDE DEF b
    <3>2. b \in Int
      BY <1>4, <3>1
    <3>3. 0 + b * 1 = 0 + b /\ 0 - b * 1 = 0 - b
      BY <3>2
    <3> QED
      BY <1>6, <3>1, <3>3
  <2> QED
    BY <1>3, <2>2 DEF CarriesAreExact
<1> QED
  BY <1>3, <1>5, <1>7, <1>8, <1>9, <1>10, <1>11, <1>12
     DEF IInv, IdleInv, DivisionInv, PackDpInv, DivideInv, UnpackQInv, UnpackRInv,
         ComparesNumbers, QuotientsAreExact

LEMMA EnterInv == Entered' => IInv'
<1>1. (Entered => IInv)'
  BY EnteredInv, PTL
<1> QED
  BY <1>1

LEMMA PairInv ==
    ASSUME IInv, mpn_add_n \/ mpn_sub_n \/ mpn_cmp
    PROVE  IInv'
<1>1. PICK fn \in Paired, n \in 0..MaxPair : \E s1 \in Vectors(n), s2 \in Vectors(n) :
         /\ pc = "idle"
         /\ Enter([NoCall EXCEPT !.fn = fn, !.s1 = s1, !.s2 = s2, !.n = n, !.m = n],
                  "loop", IF fn = "mpn_cmp" THEN n ELSE 0, 0)
  <2>1. CASE mpn_add_n
    BY <2>1 DEF mpn_add_n, Pair, Paired
  <2>2. CASE mpn_sub_n
    BY <2>2 DEF mpn_sub_n, Pair, Paired
  <2>3. CASE mpn_cmp
    BY <2>3 DEF mpn_cmp, Pair, Paired
  <2> QED
    BY <2>1, <2>2, <2>3
<1>0. PICK s1 \in Vectors(n), s2 \in Vectors(n) :
         /\ pc = "idle"
         /\ Enter([NoCall EXCEPT !.fn = fn, !.s1 = s1, !.s2 = s2, !.n = n, !.m = n],
                  "loop", IF fn = "mpn_cmp" THEN n ELSE 0, 0)
  BY <1>1
<1>2. /\ call' = [NoCall EXCEPT !.fn = fn, !.s1 = s1, !.s2 = s2, !.n = n, !.m = n]
      /\ n \in Nat
  BY <1>0, BoundsAssumption DEF Enter
<1>3. /\ call'.fn = fn /\ call'.s1 = s1 /\ call'.s2 = s2 /\ call'.n = n /\ call'.m = n
      /\ call'.x = 0 /\ call'.p = 1 /\ call'.q = Base /\ call'.qxn = 0
  BY <1>2 DEF NoCall
<1>4. CallOK'
  BY <1>1, <1>2, <1>3, ZeroLimb
     DEF CallOK, Routines, Adding, Subtracting, Paired, Dividing, LongDividing
<1>5. Entered'
  BY <1>0, <1>2, <1>3, <1>4, ZeroLimb
     DEF Enter, IInv, IdleInv, TypeOK, Entered, LoopEntered,
         Routines, Adding, Subtracting, Paired, Dividing, LongDividing
<1> QED
  BY <1>5, EnterInv

LEMMA LimbInv == ASSUME IInv, mpn_add_1 \/ mpn_sub_1 PROVE IInv'
<1>1. PICK fn \in {"mpn_add_1", "mpn_sub_1"}, n \in 0..MaxLimbs, x \in Limb :
         \E s \in Vectors(n) :
            /\ pc = "idle"
            /\ Enter([NoCall EXCEPT !.fn = fn, !.s1 = s, !.n = n, !.x = x], "loop", 0,
                     IF n > 0 THEN x ELSE IF fn = "mpn_sub_1" /\ x > 0 THEN 1 ELSE 0)
  <2>1. CASE mpn_add_1
    <3>1. PICK n \in 0..MaxLimbs, x \in Limb : \E s \in Vectors(n) :
             /\ pc = "idle"
             /\ Enter([NoCall EXCEPT !.fn = "mpn_add_1", !.s1 = s, !.n = n, !.x = x],
                      "loop", 0, IF n = 0 THEN 0 ELSE x)
      BY <2>1 DEF mpn_add_1
    <3>2. (IF n = 0 THEN 0 ELSE x)
             = (IF n > 0 THEN x ELSE IF "mpn_add_1" = "mpn_sub_1" /\ x > 0 THEN 1 ELSE 0)
      BY BoundsAssumption
    <3> QED
      BY <3>1, <3>2
  <2>2. CASE mpn_sub_1
    <3>1. PICK n \in 0..MaxLimbs, x \in Limb : \E s \in Vectors(n) :
             /\ pc = "idle"
             /\ Enter([NoCall EXCEPT !.fn = "mpn_sub_1", !.s1 = s, !.n = n, !.x = x],
                      "loop", 0, IF n = 0 /\ x > 0 THEN 1 ELSE x)
      BY <2>2 DEF mpn_sub_1
    <3>2. (IF n = 0 /\ x > 0 THEN 1 ELSE x)
             = (IF n > 0 THEN x ELSE IF "mpn_sub_1" = "mpn_sub_1" /\ x > 0 THEN 1 ELSE 0)
      <4>1. n \in Nat /\ x \in Nat
        BY BoundsAssumption, LimbIsNat
      <4> QED
        BY <4>1
    <3> QED
      BY <3>1, <3>2
  <2> QED
    BY <2>1, <2>2
<1>2. PICK s \in Vectors(n) :
         /\ pc = "idle"
         /\ Enter([NoCall EXCEPT !.fn = fn, !.s1 = s, !.n = n, !.x = x], "loop", 0,
                  IF n > 0 THEN x ELSE IF fn = "mpn_sub_1" /\ x > 0 THEN 1 ELSE 0)
  BY <1>1
<1>3. /\ call' = [NoCall EXCEPT !.fn = fn, !.s1 = s, !.n = n, !.x = x]
      /\ n \in Nat
  BY <1>2, BoundsAssumption DEF Enter
<1>4. /\ call'.fn = fn /\ call'.s1 = s /\ call'.s2 = Empty /\ call'.n = n /\ call'.m = 0
      /\ call'.x = x /\ call'.p = 1 /\ call'.q = Base /\ call'.qxn = 0
  BY <1>3 DEF NoCall
<1>5. CallOK'
  BY <1>3, <1>4, ZeroLimb, EmptyVector
     DEF CallOK, Routines, Adding, Subtracting, Paired, Dividing, LongDividing
<1>6. (IF n > 0 THEN x ELSE IF fn = "mpn_sub_1" /\ x > 0 THEN 1 ELSE 0) \in Limb
  BY ZeroLimb
<1>7. Entered'
  BY <1>2, <1>3, <1>4, <1>5, <1>6
     DEF Enter, IInv, IdleInv, TypeOK, Entered, LoopEntered,
         Routines, Adding, Subtracting, Paired, Dividing, LongDividing
<1> QED
  BY <1>7, EnterInv

LEMMA ShiftInv == ASSUME IInv, mpn_lshift \/ mpn_rshift PROVE IInv'
<1>1. PICK fn \in {"mpn_lshift", "mpn_rshift"}, n \in 1..MaxLimbs, c \in Counts :
         \E s \in Vectors(n) :
            /\ pc = "idle"
            /\ Enter([NoCall EXCEPT !.fn = fn, !.s1 = s, !.n = n, !.p = c[1], !.q = c[2]],
                     "loop", 0, 0)
  BY DEF mpn_lshift, mpn_rshift, Shift
<1>2. PICK s \in Vectors(n) :
         /\ pc = "idle"
         /\ Enter([NoCall EXCEPT !.fn = fn, !.s1 = s, !.n = n, !.p = c[1], !.q = c[2]],
                  "loop", 0, 0)
  BY <1>1
<1>3. call' = [NoCall EXCEPT !.fn = fn, !.s1 = s, !.n = n, !.p = c[1], !.q = c[2]]
  BY <1>2 DEF Enter
<1>4. /\ call'.fn = fn /\ call'.s1 = s /\ call'.s2 = Empty /\ call'.n = n /\ call'.m = 0
      /\ call'.x = 0 /\ call'.p = c[1] /\ call'.q = c[2] /\ call'.qxn = 0
  BY <1>3 DEF NoCall
<1>5. c[1] \in Nat /\ c[2] \in Nat /\ c[1] > 0 /\ c[2] > 0 /\ c[1] * c[2] = Base
  BY CountsAssumption
<1>6. n \in Nat /\ n > 0
  BY BoundsAssumption
<1>7. CallOK'
  BY <1>4, <1>5, <1>6, ZeroLimb, EmptyVector
     DEF CallOK, Routines, Adding, Subtracting, Paired, Dividing, LongDividing
<1>8. Entered'
  BY <1>2, <1>4, <1>7, ZeroLimb
     DEF Enter, IInv, IdleInv, TypeOK, Entered, LoopEntered,
         Routines, Adding, Subtracting, Paired, Dividing, LongDividing
<1> QED
  BY <1>8, EnterInv

LEMMA DivideByLimbInv == ASSUME IInv, mpn_divrem_1 PROVE IInv'
<1>1. PICK n \in 0..MaxLimbs : \E qxn \in 0..(MaxLimbs - n), d0 \in Limb \ {0}, np \in Vectors(n) :
         /\ pc = "idle"
         /\ Enter([NoCall EXCEPT !.fn = "mpn_divrem_1", !.s1 = np, !.n = n, !.x = d0, !.qxn = qxn],
                  "pack_np", n, 0)
  BY DEF mpn_divrem_1
<1>2. PICK qxn \in 0..(MaxLimbs - n), d0 \in Limb \ {0}, np \in Vectors(n) :
         /\ pc = "idle"
         /\ Enter([NoCall EXCEPT !.fn = "mpn_divrem_1", !.s1 = np, !.n = n, !.x = d0, !.qxn = qxn],
                  "pack_np", n, 0)
  BY <1>1
<1>3. call' = [NoCall EXCEPT !.fn = "mpn_divrem_1", !.s1 = np, !.n = n, !.x = d0, !.qxn = qxn]
  BY <1>2 DEF Enter
<1>4. /\ call'.fn = "mpn_divrem_1" /\ call'.s1 = np /\ call'.s2 = Empty /\ call'.n = n
      /\ call'.m = 0 /\ call'.x = d0 /\ call'.p = 1 /\ call'.q = Base /\ call'.qxn = qxn
  BY <1>3 DEF NoCall
<1>5. n \in Nat /\ qxn \in Nat /\ d0 > 0
  <2>1. n \in Nat /\ qxn \in Nat
    BY BoundsAssumption
  <2>2. d0 \in Nat /\ d0 # 0
    BY LimbIsNat
  <2> QED
    BY <2>1, <2>2
<1>6. CallOK'
  BY <1>4, <1>5, ZeroLimb, EmptyVector
     DEF CallOK, Routines, Adding, Subtracting, Paired, Dividing, LongDividing
<1>7. Entered'
  BY <1>2, <1>4, <1>5, <1>6, ZeroLimb
     DEF Enter, IInv, IdleInv, TypeOK, Entered, LoopEntered, Dividing, LongDividing
<1> QED
  BY <1>7, EnterInv

LEMMA DivideByVectorInv == ASSUME IInv, mpn_divrem \/ mpn_tdiv_qr PROVE IInv'
<1>1. PICK fn \in LongDividing, nn \in 1..MaxPair : \E dn \in 1..nn :
         \E np \in Vectors(nn), dp \in Vectors(dn) :
            /\ pc = "idle"
            /\ Enter([NoCall EXCEPT !.fn = fn, !.s1 = np, !.s2 = dp, !.n = nn, !.m = dn],
                     "pack_np", nn, 0)
  BY DEF mpn_divrem, mpn_tdiv_qr, Divide, LongDividing
<1>2. PICK dn \in 1..nn : \E np \in Vectors(nn), dp \in Vectors(dn) :
         /\ pc = "idle"
         /\ Enter([NoCall EXCEPT !.fn = fn, !.s1 = np, !.s2 = dp, !.n = nn, !.m = dn],
                  "pack_np", nn, 0)
  BY <1>1
<1>3. PICK np \in Vectors(nn), dp \in Vectors(dn) :
         /\ pc = "idle"
         /\ Enter([NoCall EXCEPT !.fn = fn, !.s1 = np, !.s2 = dp, !.n = nn, !.m = dn],
                  "pack_np", nn, 0)
  BY <1>2
<1>4. call' = [NoCall EXCEPT !.fn = fn, !.s1 = np, !.s2 = dp, !.n = nn, !.m = dn]
  BY <1>3 DEF Enter
<1>5. /\ call'.fn = fn /\ call'.s1 = np /\ call'.s2 = dp /\ call'.n = nn
      /\ call'.m = dn /\ call'.x = 0 /\ call'.p = 1 /\ call'.q = Base /\ call'.qxn = 0
  BY <1>4 DEF NoCall
<1>6. nn \in Nat /\ dn \in Nat /\ dn > 0 /\ dn <= nn
  BY BoundsAssumption
<1>7. CallOK'
  BY <1>5, <1>6, ZeroLimb, EmptyVector
     DEF CallOK, Routines, Adding, Subtracting, Paired, Dividing, LongDividing
<1>8. Entered'
  BY <1>3, <1>5, <1>6, <1>7, ZeroLimb
     DEF Enter, IInv, IdleInv, TypeOK, Entered, LoopEntered, Dividing, LongDividing
<1> QED
  BY <1>8, EnterInv

-----------------------------------------------------------------------------
(* Iterations.                                                             *)

LEMMA VectorIsFunction == ASSUME NEW n, NEW v \in Vectors(n) PROVE v \in [DOMAIN v -> Limb]
  BY DEF Vectors

LEMMA LoopNumbers ==
    IInv => /\ CallOK /\ i \in Nat /\ carry \in Int /\ num \in Nat /\ den \in Nat
            /\ Weight[i] \in Nat \ {0} /\ Weight[i] \in Int /\ Weight[i + 1] = Weight[i] * Base
            /\ Base \in Int
<1>1. IInv => CallOK /\ i \in Nat /\ carry \in Int /\ num \in Nat /\ den \in Nat
  BY DEF IInv, TypeOK
<1>2. ASSUME i \in Nat
      PROVE  /\ Weight[i] \in Nat \ {0} /\ Weight[i] \in Int /\ Weight[i + 1] = Weight[i] * Base
             /\ Base \in Int
  <2>1. Weight[i] \in Nat \ {0} /\ Weight[i + 1] = Weight[i] * Base
    BY <1>2, WeightSteps
  <2>2. Weight[i] \in Int /\ Base \in Int
    BY <2>1, BaseAssumption
  <2> QED
    BY <2>1, <2>2
<1> QED
  BY <1>1, <1>2

\* What the limbs read add to the operands that have been passed.
LEMMA LimbsRead ==
    ASSUME IInv, i < call.n
    PROVE  /\ Read \in Limb
           /\ Value(call.s1, i) \in Int /\ Value(call.s1, i + 1) = Value(call.s1, i) + Read * Weight[i]
           /\ ReadPaired \in Limb
           /\ call.fn \in Paired =>
                 /\ Value(call.s2, i) \in Int
                 /\ Value(call.s2, i + 1) = Value(call.s2, i) + ReadPaired * Weight[i]
           /\ call.fn \notin Paired => ReadPaired = 0
<1>1. CallOK /\ i \in Nat
  BY LoopNumbers
<1>2. call.n \in Nat /\ i <= call.n /\ (call.fn \in Paired => call.m = call.n)
  BY <1>1, CallNumbers
<1>3. /\ call.s1[i] \in Limb
      /\ Value(call.s1, i + 1) = Value(call.s1, i) + call.s1[i] * Weight[i]
  BY <1>1, <1>2, CallVectors, VectorValue
<1>4. Value(call.s1, i) \in Nat
  BY <1>1, <1>2, CallVectors, ValueOfVector
<1>5. ASSUME call.fn \in Paired
      PROVE  /\ call.s2[i] \in Limb /\ Value(call.s2, i) \in Nat
             /\ Value(call.s2, i + 1) = Value(call.s2, i) + call.s2[i] * Weight[i]
  <2>1. call.s2 \in Vectors(call.n)
    BY <1>1, <1>2, <1>5, CallVectors
  <2>2. Value(call.s2, i) \in Nat
    BY <1>1, <1>2, <2>1, ValueOfVector
  <2>3. /\ call.s2[i] \in Limb
        /\ Value(call.s2, i + 1) = Value(call.s2, i) + call.s2[i] * Weight[i]
    BY <1>1, <1>2, <2>1, VectorValue
  <2> QED
    BY <2>2, <2>3
<1>6. Value(call.s1, i) \in Int /\ (call.fn \in Paired => Value(call.s2, i) \in Int)
  BY <1>4, <1>5
<1>7. Read = call.s1[i] /\ (call.fn \in Paired => ReadPaired = call.s2[i])
      /\ (call.fn \notin Paired => ReadPaired = 0)
  BY DEF Read, ReadPaired
<1> QED
  BY <1>3, <1>5, <1>6, <1>7, ZeroLimb

\* What an iteration writes.
LEMMA Iterated ==
    ASSUME IInv, out \in Vectors(i), NEW limb \in Limb, NEW scalar, Iterate(limb, scalar)
    PROVE  /\ pc' = pc /\ call' = call /\ num' = num /\ den' = den /\ quot' = quot
           /\ i' = i + 1 /\ carry' = scalar
           /\ out' \in Vectors(i + 1) /\ Value(out', i + 1) = Value(out, i) + limb * Weight[i]
           /\ Value(out, i) \in Int
<1>1. i \in Nat
  BY LoopNumbers
<1>2. /\ pc' = pc /\ call' = call /\ num' = num /\ den' = den /\ quot' = quot
      /\ i' = i + 1 /\ carry' = scalar
      /\ out' = [k \in 0..i |-> IF k = i THEN limb ELSE out[k]]
  BY DEF Iterate
<1>3. out' \in Vectors(i + 1) /\ Value(out', i + 1) = Value(out, i) + limb * Weight[i]
  BY <1>1, <1>2, StoredLimb
<1>4. Value(out, i) \in Nat
  <2>1. i <= i
    BY <1>1
  <2> QED
    BY <1>1, <2>1, ValueOfVector
<1>5. Value(out, i) \in Int
  BY <1>4
<1> QED
  BY <1>2, <1>3, <1>5

\* The parts of the invariant that no carry loop disturbs.
LEMMA IterateInv ==
    ASSUME IInv, pc = "loop", call.fn # "mpn_cmp", i < call.n,
           NEW limb \in Limb, NEW scalar \in Limb, Iterate(limb, scalar),
           LeftInv', RightInv', CarriesAreExact'
    PROVE  IInv'
<1>1. call.fn \in Routines \ Dividing /\ out \in Vectors(i)
  BY DEF IInv, LoopInv
<1>2. /\ pc' = "loop" /\ call' = call /\ num' = num /\ den' = den /\ quot' = quot
      /\ i' = i + 1 /\ carry' = scalar /\ out' \in Vectors(i + 1)
  BY <1>1, Iterated
<1>3. /\ i \in Nat /\ call.n \in Nat /\ carry' \in Int
  BY <1>2, LoopNumbers, CallNumbers, LimbIsNat
<1>4. i' \in Nat /\ i' <= call.n
  BY <1>2, <1>3
<1>5. CallOK'
  BY <1>2, LoopNumbers DEF CallOK
<1>6. TypeOK'
  <2>1. out' \in [DOMAIN out' -> Limb]
    BY <1>2, VectorIsFunction
  <2> QED
    BY <1>2, <1>3, <1>4, <1>5, <2>1 DEF IInv, TypeOK
<1>7. LoopInv'
  BY <1>1, <1>2, <1>4 DEF LoopInv
<1> QED
  BY <1>2, <1>6, <1>7
     DEF IInv, IdleInv, CompareInv, DivisionInv, PackNpInv, PackDpInv, DivideInv, UnpackQInv,
         UnpackRInv, ComparesNumbers, QuotientsAreExact

\* The other operand, as far as it has been passed: the single limb is passed
\* at the beginning.
Operand == IF call.fn \in Paired THEN Value(call.s2, i) ELSE call.x

LEMMA OperandRead ==
    ASSUME IInv, i < call.n, call' = call, i' = i + 1
    PROVE  /\ Operand \in Int
           /\ Operand' = Operand + ReadPaired * Weight[i]
<1>1. CASE call.fn \in Paired
  <2>1. /\ Value(call.s2, i) \in Int
        /\ Value(call.s2, i + 1) = Value(call.s2, i) + ReadPaired * Weight[i]
    BY <1>1, LimbsRead
  <2>2. Operand = Value(call.s2, i) /\ Operand' = Value(call.s2, i + 1)
    BY <1>1 DEF Operand
  <2> QED
    BY <2>1, <2>2
<1>2. CASE call.fn \notin Paired
  <2>1. ReadPaired = 0
    BY <1>2, LimbsRead
  <2>2. Operand = call.x /\ Operand' = call.x
    BY <1>2 DEF Operand
  <2>3. call.x \in Int /\ Weight[i] \in Int
    <3>1. call.x \in Nat
      BY LoopNumbers, CallNumbers
    <3> QED
      BY <3>1, LoopNumbers
  <2> QED
    BY <2>1, <2>2, <2>3
<1> QED
  BY <1>1, <1>2

\* No carry leaves the two limbs and what the next iteration is handed.
LEMMA CarryIn ==
    ASSUME IInv, pc = "loop", call.fn \in Adding \cup Subtracting, i < call.n
    PROVE  /\ carry \in Limb
           /\ call.fn \in Paired => carry \in {0, 1}
           /\ call.fn \in Adding => Value(out, i) + carry * Weight[i] = Value(call.s1, i) + Operand
           /\ call.fn \in Subtracting
                 => Value(out, i) - carry * Weight[i] = Value(call.s1, i) - Operand
<1>1. carry \in Limb /\ out \in Vectors(i)
  BY DEF IInv, LoopInv, Adding, Subtracting
<1>2. i \in Nat /\ call.n \in Nat /\ call.n > 0 /\ carry \in Int
  BY LoopNumbers, CallNumbers
<1>3. /\ call.fn \in Adding => Value(out, i) + carry * Weight[i] = Value(call.s1, i) + Operand
      /\ call.fn \in Subtracting
            => Value(out, i) - carry * Weight[i] = Value(call.s1, i) - Operand
      /\ i > 0 => carry \in {0, 1}
  BY <1>2 DEF IInv, CarriesAreExact, Operand
<1>4. ASSUME call.fn \in Paired, i = 0 PROVE carry = 0
  <2>1. /\ Value(out, 0) = 0 /\ Value(call.s1, 0) = 0 /\ Value(call.s2, 0) = 0 /\ Weight[0] = 1
    BY ValueEmpty, WeightSteps
  <2>2. Operand = 0
    BY <1>4, <2>1 DEF Operand
  <2>3. carry * 1 = carry
    BY <1>2
  <2>4. 0 + carry = 0 + 0 \/ 0 - carry = 0 - 0
    BY <1>3, <1>4, <2>1, <2>2, <2>3 DEF Adding, Subtracting
  <2> QED
    BY <1>2, <2>4
<1>5. i = 0 \/ i > 0
  BY <1>2
<1> QED
  BY <1>1, <1>3, <1>4, <1>5

LEMMA AddInv == IInv /\ Add => IInv'
<1> SUFFICES ASSUME IInv, Add PROVE IInv'
  OBVIOUS
<1> DEFINE sum == Read + ReadPaired + carry
           limb == sum % Base
           d == sum \div Base
           w == Weight[i]
<1>1. /\ pc = "loop" /\ call.fn \in Adding /\ i < call.n /\ call.fn # "mpn_cmp"
      /\ call.fn \notin Subtracting /\ call.fn \notin {"mpn_lshift", "mpn_rshift"}
      /\ Iterate(limb, d)
  BY DEF Add, Looping, Adding, Subtracting
<1>2. /\ Read \in Nat /\ Read < Base /\ ReadPaired \in Nat /\ ReadPaired < Base
      /\ carry \in Nat /\ carry < Base /\ (call.fn \in Paired => carry \in {0, 1})
      /\ (call.fn \notin Paired => ReadPaired = 0)
  BY <1>1, LimbsRead, CarryIn, LimbIsNat
<1>3. sum \in Int /\ 0 <= sum /\ sum < 2 * Base
  BY <1>2, LoopNumbers
<1>4. limb \in Limb /\ d \in {0, 1} /\ sum = d * Base + limb
  <2>1. -Base <= sum
    BY <1>3, LoopNumbers
  <2>2. limb \in Limb /\ d \in {0, 1}
    <3>1. sum < Base \/ Base <= sum
      BY <1>3, LoopNumbers
    <3> HIDE DEF sum
    <3>2. /\ sum % Base \in Limb
          /\ sum < Base => sum \div Base = 0
          /\ Base <= sum => sum \div Base = 1
      BY <1>3, <2>1, CarryOf
    <3> QED
      BY <3>1, <3>2
  <2>3. sum = d * Base + limb
    <3> HIDE DEF sum
    <3>1. sum = (sum \div Base) * Base + (sum % Base)
      BY <1>3, LimbIsNat, DivMod
    <3> QED
      BY <3>1
  <2> QED
    BY <2>2, <2>3
<1> HIDE DEF limb, d, w
<1>5. /\ pc' = "loop" /\ call' = call /\ i' = i + 1 /\ carry' = d
      /\ Value(out', i + 1) = Value(out, i) + limb * w /\ Value(out, i) \in Int
  <2>1. out \in Vectors(i)
    BY <1>1 DEF IInv, LoopInv
  <2> QED
    BY <1>1, <1>4, <2>1, Iterated DEF w
<1>6. Value(out', i') + carry' * Weight[i'] = Value(call.s1, i') + Operand'
  <2> DEFINE s == Read + ReadPaired
             r == Value(out, i)
             a == Value(call.s1, i)
             x == a + Operand
  <2>1. w \in Int /\ Base \in Int /\ limb \in Int /\ d \in Int /\ carry \in Int
    BY <1>4, LoopNumbers, LimbIsNat DEF w
  <2>2. a \in Int /\ Operand \in Int /\ r \in Int /\ Read \in Int /\ ReadPaired \in Int
    BY <1>1, <1>2, <1>5, LimbsRead, OperandRead
  <2>3. r + carry * w = x
    BY <1>1, CarryIn DEF w
  <2>4. s + carry = d * Base + limb
    BY <1>4, <2>1, <2>2
  <2>5. /\ Value(call.s1, i + 1) = a + Read * w
        /\ Operand' = Operand + ReadPaired * w
        /\ Weight[i + 1] = w * Base
    BY <1>1, <1>5, LimbsRead, OperandRead, LoopNumbers DEF w
  <2>6. s \in Int /\ x \in Int
    BY <2>2
  <2> HIDE DEF r, s, x
  <2>7. (r + limb * w) + d * (w * Base) = x + s * w
    BY <2>1, <2>2, <2>3, <2>4, <2>6, CarriedOn
  <2>8. s * w = Read * w + ReadPaired * w
    BY <2>1, <2>2 DEF s
  <2>9. Read * w \in Int /\ ReadPaired * w \in Int
    BY <2>1, <2>2
  <2> HIDE DEF a
  <2>10. x + s * w = (a + Read * w) + (Operand + ReadPaired * w)
    BY <2>2, <2>8, <2>9 DEF x
  <2> QED
    BY <1>5, <2>5, <2>7, <2>10 DEF r
<1>7. CarriesAreExact'
  BY <1>1, <1>4, <1>5, <1>6 DEF CarriesAreExact, Operand
<1>8. d \in Limb
  BY <1>4, ZeroLimb
<1>9. LeftInv' /\ RightInv'
  BY <1>1, <1>5 DEF LeftInv, RightInv
<1> QED
  BY <1>1, <1>4, <1>7, <1>8, <1>9, IterateInv

LEMMA SubtractInv == IInv /\ Subtract => IInv'
<1> SUFFICES ASSUME IInv, Subtract PROVE IInv'
  OBVIOUS
<1> DEFINE diff == Read - ReadPaired - carry
           limb == diff % Base
           borrow == IF diff < 0 THEN 1 ELSE 0
           w == Weight[i]
<1>1. /\ pc = "loop" /\ call.fn \in Subtracting /\ i < call.n /\ call.fn # "mpn_cmp"
      /\ call.fn \notin Adding /\ call.fn \notin {"mpn_lshift", "mpn_rshift"}
      /\ Iterate(limb, borrow)
  BY DEF Subtract, Looping, Adding, Subtracting
<1>2. /\ Read \in Nat /\ Read < Base /\ ReadPaired \in Nat /\ ReadPaired < Base
      /\ carry \in Nat /\ carry < Base /\ (call.fn \in Paired => carry \in {0, 1})
      /\ (call.fn \notin Paired => ReadPaired = 0)
  BY <1>1, LimbsRead, CarryIn, LimbIsNat
<1>3. diff \in Int /\ -Base <= diff /\ diff < Base
  BY <1>2, LoopNumbers
<1>4. limb \in Limb /\ borrow \in {0, 1} /\ diff = (-borrow) * Base + limb
  <2>1. /\ diff % Base \in Limb
        /\ diff < 0 => diff % Base = diff + Base
        /\ 0 <= diff => diff % Base = diff
    <3>1. diff < 2 * Base
      BY <1>3, LimbIsNat
    <3> HIDE DEF diff
    <3> QED
      BY <1>3, <3>1, CarryOf
  <2>2. diff < 0 \/ 0 <= diff
    BY <1>3
  <2>3. Base \in Int
    BY LoopNumbers
  <2> HIDE DEF diff
  <2>4. limb \in Limb /\ borrow \in {0, 1}
    BY <2>1
  <2>5. CASE diff < 0
    BY <1>3, <2>1, <2>3, <2>5
  <2>6. CASE 0 <= diff
    BY <1>3, <2>1, <2>3, <2>6
  <2> QED
    BY <2>2, <2>4, <2>5, <2>6
<1> HIDE DEF limb, borrow, w
<1>5. /\ pc' = "loop" /\ call' = call /\ i' = i + 1 /\ carry' = borrow
      /\ Value(out', i + 1) = Value(out, i) + limb * w /\ Value(out, i) \in Int
  <2>1. out \in Vectors(i)
    BY <1>1 DEF IInv, LoopInv
  <2> QED
    BY <1>1, <1>4, <2>1, Iterated DEF w
<1>6. Value(out', i') - carry' * Weight[i'] = Value(call.s1, i') - Operand'
  <2> DEFINE s == Read - ReadPaired
             r == Value(out, i)
             a == Value(call.s1, i)
             x == a - Operand
             c == -carry
             d == -borrow
  <2>1. w \in Int /\ Base \in Int /\ limb \in Int /\ borrow \in Int /\ carry \in Int
    BY <1>4, LoopNumbers, LimbIsNat DEF w
  <2>2. a \in Int /\ Operand \in Int /\ r \in Int /\ Read \in Int /\ ReadPaired \in Int
    BY <1>1, <1>2, <1>5, LimbsRead, OperandRead
  <2>3. r + c * w = x
    <3>1. r - carry * w = x
      BY <1>1, CarryIn DEF w
    <3>2. (-carry) * w = -(carry * w) /\ carry * w \in Int
      BY <2>1
    <3> HIDE DEF r, a
    <3> QED
      BY <2>1, <2>2, <3>1, <3>2
  <2>4. s + c = d * Base + limb
    BY <1>4, <2>1, <2>2
  <2>5. /\ Value(call.s1, i + 1) = a + Read * w
        /\ Operand' = Operand + ReadPaired * w
        /\ Weight[i + 1] = w * Base
    BY <1>1, <1>5, LimbsRead, OperandRead, LoopNumbers DEF w
  <2>6. s \in Int /\ x \in Int /\ c \in Int /\ d \in Int
    BY <2>1, <2>2
  <2> HIDE DEF r, s, x, c, d
  <2>7. (r + limb * w) + d * (w * Base) = x + s * w
    BY <2>1, <2>2, <2>3, <2>4, <2>6, CarriedOn
  <2>8. s * w = Read * w - ReadPaired * w
    BY <2>1, <2>2 DEF s
  <2>9. Read * w \in Int /\ ReadPaired * w \in Int
    BY <2>1, <2>2
  <2> HIDE DEF a
  <2>10. x + s * w = (a + Read * w) - (Operand + ReadPaired * w)
    BY <2>2, <2>8, <2>9 DEF x
  <2>11. (r + limb * w) - borrow * (w * Base) = (a + Read * w) - (Operand + ReadPaired * w)
    <3>1. (-borrow) * (w * Base) = -(borrow * (w * Base))
          /\ borrow * (w * Base) \in Int /\ limb * w \in Int
      BY <2>1
    <3> QED
      BY <2>2, <2>7, <2>10, <3>1 DEF d
  <2> QED
    BY <1>5, <2>5, <2>11 DEF r
<1>7. CarriesAreExact'
  BY <1>1, <1>4, <1>5, <1>6 DEF CarriesAreExact, Operand
<1>8. borrow \in Limb
  BY <1>4, ZeroLimb
<1>9. LeftInv' /\ RightInv'
  BY <1>1, <1>5 DEF LeftInv, RightInv
<1> QED
  BY <1>1, <1>4, <1>7, <1>8, <1>9, IterateInv

\* The two parts of a shifted limb fit into one.
LEMMA PartsFit ==
    ASSUME NEW p \in Nat \ {0}, NEW top \in 0..(Base - p), NEW low \in 0..(p - 1)
    PROVE  top + low \in Limb
  BY BaseAssumption DEF Limb

LEMMA ShiftNumbers ==
    CallOK => /\ call.p \in Nat \ {0} /\ call.q \in Nat \ {0}
              /\ call.p * call.q = Base /\ call.q * call.p = Base
<1>1. CallOK => call.p \in Nat \ {0} /\ call.q \in Nat \ {0}
  BY CallNumbers
<1>2. CallOK => call.p * call.q = Base
  BY DEF CallOK
<1>3. ASSUME NEW p \in Nat \ {0}, NEW q \in Nat \ {0} PROVE p * q = q * p
  OBVIOUS
<1> QED
  BY <1>1, <1>2, <1>3

LEMMA ShiftLeftInv == IInv /\ ShiftLeft => IInv'
<1> SUFFICES ASSUME IInv, ShiftLeft PROVE IInv'
  OBVIOUS
<1> DEFINE top == (Read * call.p) % Base
           low == carry \div call.q
           limb == top + low
           d == Read \div call.q
           w == Weight[i]
<1>1. /\ pc = "loop" /\ call.fn = "mpn_lshift" /\ i < call.n
      /\ Iterate(limb, Read)
  BY DEF ShiftLeft, Looping
<1>2. Read \in Limb /\ carry \in Limb /\ out \in Vectors(i)
  BY <1>1, LimbsRead DEF IInv, LoopInv
<1>3. /\ call.p \in Nat \ {0} /\ call.q \in Nat \ {0} /\ call.q * call.p = Base
  BY LoopNumbers, ShiftNumbers
<1>4. /\ low \in 0..(call.p - 1) /\ d \in 0..(call.p - 1)
      /\ top = (Read % call.q) * call.p /\ top \in 0..(Base - call.p)
      /\ Read % call.q \in 0..(call.q - 1) /\ Read = d * call.q + (Read % call.q)
  <2>1. low \in 0..(call.p - 1)
    BY <1>2, <1>3, ShiftedLimb
  <2>2. /\ d \in 0..(call.p - 1)
        /\ top = (Read % call.q) * call.p /\ (Read % call.q) * call.p \in 0..(Base - call.p)
        /\ Read % call.q \in 0..(call.q - 1) /\ Read = d * call.q + (Read % call.q)
    BY <1>2, <1>3, ShiftedLimb
  <2> QED
    BY <2>1, <2>2
<1> HIDE DEF top, low, d, w
<1>5. limb \in Limb
  BY <1>3, <1>4, PartsFit
<1>6. /\ pc' = "loop" /\ call' = call /\ i' = i + 1 /\ carry' = Read
      /\ Value(out', i + 1) = Value(out, i) + limb * w /\ Value(out, i) \in Int
  BY <1>1, <1>2, <1>5, Iterated DEF w
<1> HIDE DEF limb
<1>7. Value(call.s1, i + 1) * call.p = Value(out', i + 1) + d * Weight[i + 1]
  <2> DEFINE r == Value(out, i)
             a == Value(call.s1, i)
             x == a * call.p
             s == Read * call.p
             y == Read % call.q
  <2>1. w \in Int /\ Base \in Int /\ call.p \in Int /\ call.q \in Int
    BY <1>3, LoopNumbers DEF w
  <2>2. limb \in Int /\ Read \in Int
    BY <1>2, <1>5, LimbIsNat
  <2>3. a \in Int /\ r \in Int /\ low \in Int /\ d \in Int /\ y \in Int
    BY <1>1, <1>3, <1>4, <1>6, LimbsRead
  <2>4. r + low * w = x
    BY <1>1 DEF IInv, LeftInv, low, w
  <2>5. Value(call.s1, i + 1) = a + Read * w /\ Weight[i + 1] = w * Base
    BY <1>1, LimbsRead, LoopNumbers DEF w
  <2> HIDE DEF r, a
  <2>6. x \in Int /\ s \in Int
    BY <2>1, <2>2, <2>3
  <2>7. s + low = d * Base + limb
    <3>1. Read = d * call.q + y /\ top = y * call.p
      BY <1>4
    <3> HIDE DEF y
    <3>2. (d * call.q + y) * call.p = d * (call.q * call.p) + y * call.p
      BY <2>1, <2>3
    <3>3. s = d * Base + top /\ top \in Int /\ d * Base \in Int
      BY <1>3, <2>1, <2>3, <3>1, <3>2
    <3> HIDE DEF s
    <3> QED
      BY <2>3, <3>3 DEF limb
  <2> HIDE DEF x, s
  <2>8. (r + limb * w) + d * (w * Base) = x + s * w
    BY <2>1, <2>2, <2>3, <2>4, <2>6, <2>7, CarriedOn
  <2>9. (a + Read * w) * call.p = a * call.p + (Read * call.p) * w
    BY <2>1, <2>2, <2>3
  <2> QED
    BY <1>6, <2>5, <2>8, <2>9 DEF r, x, s
<1>8. LeftInv'
  BY <1>6, <1>7 DEF LeftInv, d
<1>9. RightInv' /\ CarriesAreExact'
  BY <1>1, <1>6 DEF RightInv, CarriesAreExact, Adding, Subtracting
<1> QED
  BY <1>1, <1>2, <1>5, <1>8, <1>9, IterateInv

LEMMA ShiftRightInv == IInv /\ ShiftRight => IInv'
<1> SUFFICES ASSUME IInv, ShiftRight PROVE IInv'
  OBVIOUS
<1> DEFINE F == Following(i)
           top == (F * call.q) % Base
           low == Read \div call.p
           limb == low + top
           f == F % call.p
           y == Read % call.p
           z == call.s1[0] % call.p
           w == Weight[i]
<1>1. /\ pc = "loop" /\ call.fn = "mpn_rshift" /\ i < call.n
      /\ Iterate(limb, 0)
  BY DEF ShiftRight, Looping
<1>2. Read \in Limb /\ out \in Vectors(i)
  BY <1>1, LimbsRead DEF IInv, LoopInv
<1>3. /\ call.p \in Nat \ {0} /\ call.q \in Nat \ {0}
      /\ call.p * call.q = Base /\ call.q * call.p = Base
  BY LoopNumbers, ShiftNumbers
<1>4. i \in Nat /\ call.n \in Nat /\ call.n > 0
  BY <1>1, LoopNumbers, CallNumbers
<1>5. F \in Limb
  <2>1. CASE i + 1 < call.n
    <3>1. i + 1 \in Nat /\ i + 1 <= call.n
      BY <1>4, <2>1
    <3>2. call.s1[i + 1] \in Limb
      BY <1>4, <2>1, <3>1, LoopNumbers, CallVectors, VectorValue
    <3> QED
      BY <2>1, <3>2 DEF Following
  <2>2. CASE ~(i + 1 < call.n)
    BY <2>2, ZeroLimb DEF Following
  <2> QED
    BY <2>1, <2>2
<1>6. z \in Int
  <2>1. call.s1[0] \in Limb
    BY <1>4, LoopNumbers, CallVectors, VectorValue
  <2>2. call.s1[0] \in Int
    BY <2>1, LimbIsNat
  <2>3. call.p \in Nat \ {0}
    BY <1>3
  <2>4. call.s1[0] % call.p \in 0..(call.p - 1)
    BY <2>2, <2>3, DivMod
  <2> QED
    BY <2>3, <2>4
<1> HIDE DEF F, z
<1>7. /\ low \in 0..(call.q - 1) /\ y \in 0..(call.p - 1) /\ Read = low * call.p + y
      /\ top = f * call.q /\ top \in 0..(Base - call.q) /\ f \in 0..(call.p - 1)
  <2>1. /\ low \in 0..(call.q - 1) /\ y \in 0..(call.p - 1) /\ Read = low * call.p + y
    BY <1>2, <1>3, ShiftedLimb
  <2>2. /\ top = f * call.q /\ f * call.q \in 0..(Base - call.q) /\ f \in 0..(call.p - 1)
    BY <1>3, <1>5, ShiftedLimb
  <2> QED
    BY <2>1, <2>2
<1> HIDE DEF top, low, f, y, w
<1>8. limb \in Limb
  <2>1. top + low \in Limb
    BY <1>3, <1>7, PartsFit
  <2>2. top + low = low + top
    BY <1>3, <1>7, LoopNumbers
  <2> QED
    BY <2>1, <2>2
<1>9. /\ pc' = "loop" /\ call' = call /\ i' = i + 1 /\ carry' = 0
      /\ Value(out', i + 1) = Value(out, i) + limb * w /\ Value(out, i) \in Int
  BY <1>1, <1>2, <1>8, Iterated DEF w
<1> HIDE DEF limb
<1>10. Value(out', i + 1) * call.p + z = Value(call.s1, i + 1) + f * Weight[i + 1]
  <2> DEFINE r == Value(out, i)
             a == Value(call.s1, i)
  <2>1. w \in Int /\ Base \in Int /\ call.p \in Int /\ call.q \in Int
    BY <1>3, LoopNumbers DEF w
  <2>2. limb \in Int /\ Read \in Int
    BY <1>2, <1>8, LimbIsNat
  <2>3. a \in Int /\ r \in Int /\ low \in Int /\ top \in Int /\ f \in Int /\ y \in Int
    BY <1>1, <1>3, <1>7, <1>9, <2>1, LimbsRead
  <2>4. r * call.p + z = a + y * w
    <3>1. Here = Read
      BY <1>1 DEF Here, Read
    <3> QED
      BY <1>1, <3>1 DEF IInv, RightInv, w, y, z
  <2>5. Value(call.s1, i + 1) = a + Read * w /\ Weight[i + 1] = w * Base
    BY <1>1, LimbsRead, LoopNumbers DEF w
  <2> HIDE DEF r, a
  <2>6. limb * call.p = (Read - y) + f * Base
    <3>1. (low + f * call.q) * call.p = low * call.p + f * (call.q * call.p)
      BY <2>1, <2>3
    <3>2. limb = low + f * call.q
      BY <1>7 DEF limb
    <3>3. low * call.p \in Int /\ f * Base \in Int
      BY <2>1, <2>3
    <3>4. limb * call.p = low * call.p + f * Base
      BY <1>3, <3>1, <3>2
    <3>5. low * call.p = Read - y
      BY <1>7, <2>2, <2>3, <3>3
    <3> QED
      BY <3>4, <3>5
  <2>7. (r + limb * w) * call.p = r * call.p + (limb * call.p) * w
    BY <2>1, <2>2, <2>3
  <2>8. ((Read - y) + f * Base) * w = (Read * w - y * w) + f * (w * Base)
    BY <2>1, <2>2, <2>3
  <2>9. r * call.p \in Int /\ Read * w \in Int /\ y * w \in Int /\ f * (w * Base) \in Int
    BY <2>1, <2>2, <2>3
  <2>10. (r + limb * w) * call.p = r * call.p + ((Read * w - y * w) + f * (w * Base))
    BY <2>6, <2>7, <2>8
  <2>11. (r + limb * w) * call.p + z = (a + Read * w) + f * (w * Base)
    BY <1>6, <2>3, <2>4, <2>9, <2>10
  <2> QED
    BY <1>9, <2>5, <2>11 DEF r
<1>11. Here' = F
  BY <1>9 DEF Here, Following, F
<1>12. RightInv'
  BY <1>9, <1>10, <1>11 DEF RightInv, f, z
<1>13. LeftInv' /\ CarriesAreExact'
  BY <1>1, <1>9 DEF LeftInv, CarriesAreExact, Adding, Subtracting
<1> QED
  BY <1>1, <1>8, <1>12, <1>13, ZeroLimb, IterateInv

\* The first limb that differs, from above, decides: what is below it is less
\* than one of it.
LEMMA LimbDecides ==
    ASSUME NEW w \in Nat, NEW a \in Int, NEW b \in Int, b < a,
           NEW r \in 0..(w - 1), NEW s \in 0..(w - 1)
    PROVE  s + b * w < r + a * w
<1>1. (a - b - 1) * w \in Nat
  OBVIOUS
<1>2. (a - b - 1) * w = a * w - b * w - w /\ a * w \in Int /\ b * w \in Int
  OBVIOUS
<1> QED
  BY <1>1, <1>2

LEMMA CompareStepInv == IInv /\ Compare => IInv'
<1> SUFFICES ASSUME IInv, Compare PROVE IInv'
  OBVIOUS
<1> DEFINE n == call.n
           j == i - 1
           a == call.s1[j]
           b == call.s2[j]
           r == Value(call.s1, j)
           s == Value(call.s2, j)
           w == Weight[j]
<1>1. /\ pc = "loop" /\ call.fn = "mpn_cmp" /\ i > 0
      /\ call' = call /\ out' = out /\ num' = num /\ den' = den /\ quot' = quot
      /\ a = b => i' = j /\ pc' = "loop" /\ carry' = carry
      /\ a # b => pc' = "returned" /\ i' = i /\ carry' = IF a > b THEN 1 ELSE -1
  BY DEF Compare
<1>2. /\ i \in Nat /\ i <= n /\ n \in Nat /\ call.m = n
      /\ carry = 0 /\ Value(call.s1, n) - Value(call.s2, n) = Value(call.s1, i) - Value(call.s2, i)
  <2>1. i <= n
    BY <1>1 DEF IInv, LoopInv
  <2>2. carry = 0 /\ Value(call.s1, n) - Value(call.s2, n) = Value(call.s1, i) - Value(call.s2, i)
    BY <1>1 DEF IInv, CompareInv
  <2>3. i \in Nat /\ n \in Nat /\ call.m = n
    BY <1>1, LoopNumbers, CallNumbers DEF Paired
  <2> QED
    BY <2>1, <2>2, <2>3
<1>3. j \in Nat /\ j <= n /\ j < n /\ j + 1 = i
  BY <1>1, <1>2
<1>4. call.s1 \in Vectors(n) /\ call.s2 \in Vectors(n)
  BY <1>2, LoopNumbers, CallVectors
<1> HIDE DEF n
<1>5. /\ a \in Limb /\ r \in 0..(w - 1) /\ Value(call.s1, j + 1) = r + a * w
      /\ b \in Limb /\ s \in 0..(w - 1) /\ Value(call.s2, j + 1) = s + b * w
  BY <1>2, <1>3, <1>4, VectorValue
<1>6. a \in Int /\ b \in Int /\ w \in Nat /\ w \in Int /\ r \in Int /\ s \in Int
  <2>1. a \in Int /\ b \in Int
    BY <1>5, LimbIsNat
  <2>2. w \in Nat /\ w \in Int
    BY <1>3, WeightSteps
  <2> QED
    BY <1>5, <2>1, <2>2
<1>7. Value(call.s1, n) \in Int /\ Value(call.s2, n) \in Int
  <2>1. n <= n
    BY <1>2
  <2>2. Value(call.s1, n) \in Nat /\ Value(call.s2, n) \in Nat
    BY <1>2, <1>4, <2>1, ValueOfVector
  <2> QED
    BY <2>2
<1>8. Value(call.s1, i) = r + a * w /\ Value(call.s2, i) = s + b * w
  BY <1>3, <1>5
<1>9. CallOK'
  BY <1>1, LoopNumbers DEF CallOK
<1>10. CASE a = b
  <2>1. i' = j /\ pc' = "loop" /\ carry' = 0
    BY <1>1, <1>2, <1>10
  <2>2. TypeOK'
    BY <1>1, <1>3, <1>9, <2>1 DEF IInv, TypeOK
  <2>3. LoopInv'
    BY <1>1, <1>3, <2>1 DEF IInv, LoopInv, n
  <2>4. Value(call.s1, n) - Value(call.s2, n) = r - s
    <3> HIDE DEF a, b, r, s, w
    <3>1. b * w \in Int /\ Value(call.s1, n) - Value(call.s2, n) = (r + b * w) - (s + b * w)
      BY <1>2, <1>6, <1>8, <1>10
    <3> QED
      BY <1>6, <1>7, <3>1
  <2>5. CompareInv'
    BY <1>1, <2>1, <2>4 DEF CompareInv, n
  <2> QED
    BY <1>1, <2>1, <2>2, <2>3, <2>5
       DEF IInv, IdleInv, LeftInv, RightInv, DivisionInv, PackNpInv, PackDpInv, DivideInv,
           UnpackQInv, UnpackRInv, CarriesAreExact, Adding, Subtracting, ComparesNumbers,
           QuotientsAreExact
<1>11. CASE a # b
  <2>1. i' = i /\ pc' = "returned" /\ carry' = IF a > b THEN 1 ELSE -1
    BY <1>1, <1>11
  <2>2. carry' \in Int
    BY <2>1
  <2>3. TypeOK'
    BY <1>1, <1>2, <1>9, <2>1, <2>2 DEF IInv, TypeOK
  <2>4. /\ a > b => Value(call.s1, n) > Value(call.s2, n)
        /\ ~(a > b) => Value(call.s1, n) < Value(call.s2, n)
    <3> HIDE DEF a, b, r, s, w
    <3>1. a * w \in Int /\ b * w \in Int
      BY <1>6
    <3>2. Value(call.s1, n) - Value(call.s2, n) = (r + a * w) - (s + b * w)
      BY <1>2, <1>8
    <3>3. b < a => s + b * w < r + a * w
      BY <1>5, <1>6, LimbDecides
    <3>4. a < b => r + a * w < s + b * w
      BY <1>5, <1>6, LimbDecides
    <3>5. ~(a > b) => a < b
      BY <1>6, <1>11
    <3>6. a > b => b < a
      BY <1>6
    <3> QED
      BY <1>6, <1>7, <3>1, <3>2, <3>3, <3>4, <3>5, <3>6
  <2>5. ComparesNumbers'
    <3> DEFINE x == Value(call.s1, n)
               y == Value(call.s2, n)
    <3>1. carry' = IF x > y THEN 1 ELSE IF x < y THEN -1 ELSE 0
      <4> HIDE DEF a, b, x, y
      <4>1. CASE a > b
        BY <2>1, <2>4, <4>1 DEF x, y
      <4>2. CASE ~(a > b)
        <5>1. x < y /\ x \in Int /\ y \in Int
          BY <1>7, <2>4, <4>2 DEF x, y
        <5>2. ~(x > y)
          BY <5>1
        <5> QED
          BY <2>1, <4>2, <5>1, <5>2
      <4> QED
        BY <4>1, <4>2
    <3> QED
      BY <1>1, <2>1, <3>1 DEF ComparesNumbers, n
  <2> QED
    BY <1>1, <2>1, <2>3, <2>5
       DEF IInv, IdleInv, LoopInv, CompareInv, LeftInv, RightInv, DivisionInv, PackNpInv,
           PackDpInv, DivideInv, UnpackQInv, UnpackRInv, CarriesAreExact, Adding, Subtracting,
           Dividing, LongDividing, QuotientsAreExact
<1> QED
  BY <1>10, <1>11

\* What a loop leaves is the result.
LEMMA ReturnInv == IInv /\ Return => IInv'
<1> SUFFICES ASSUME IInv, Return PROVE IInv'
  OBVIOUS
<1> DEFINE a == Value(call.s1, i)
           r == Value(out, i)
           w == Weight[i]
           z == call.s1[0] % call.p
<1>1. /\ pc = "loop" /\ i = (IF call.fn = "mpn_cmp" THEN 0 ELSE call.n) /\ pc' = "returned"
      /\ call' = call /\ i' = i /\ out' = out /\ num' = num /\ den' = den /\ quot' = quot
      /\ call.fn = "mpn_lshift" => carry' = carry \div call.q
      /\ call.fn = "mpn_rshift" => carry' = (call.s1[0] * call.q) % Base
      /\ call.fn \notin {"mpn_lshift", "mpn_rshift"} => carry' = carry
  BY DEF Return
<1>2. /\ call.fn \in Routines \ Dividing
      /\ call.fn # "mpn_cmp" => carry \in Limb
      /\ call.fn # "mpn_cmp" => out \in Vectors(i)
  BY <1>1 DEF IInv, LoopInv
<1>3. /\ i \in Nat /\ call.n \in Nat /\ carry \in Int
      /\ call.p \in Nat \ {0} /\ call.q \in Nat \ {0}
      /\ call.p * call.q = Base /\ call.q * call.p = Base
      /\ call.fn \in {"mpn_lshift", "mpn_rshift"} => call.n > 0
  BY LoopNumbers, CallNumbers, ShiftNumbers
<1>4. ASSUME call.fn = "mpn_lshift"
      PROVE  /\ carry' \in 0..(call.p - 1)
             /\ a * call.p = r + carry' * w
  <2>1. carry \div call.q \in 0..(call.p - 1)
    BY <1>2, <1>3, <1>4, ShiftedLimb
  <2>2. a * call.p = r + (carry \div call.q) * w
    BY <1>1, <1>4 DEF IInv, LeftInv
  <2> QED
    BY <1>1, <1>4, <2>1, <2>2
<1>5. ASSUME call.fn = "mpn_rshift"
      PROVE  /\ carry' \in Limb
             /\ a * call.q = r * Base + carry'
  <2>1. i = call.n /\ i > 0 /\ call.n <= call.n
    BY <1>1, <1>3, <1>5
  <2>2. call.s1[0] \in Limb /\ a \in Nat
    BY <1>3, <2>1, LoopNumbers, CallVectors, VectorValue, ValueOfVector
  <2>3. /\ (call.s1[0] * call.q) % Base = z * call.q /\ z * call.q \in 0..(Base - call.q)
        /\ z \in 0..(call.p - 1)
    BY <1>3, <2>2, ShiftedLimb
  <2>4. z * call.q \in Limb
    <3> DEFINE y == z * call.q
    <3>1. y \in 0..(Base - call.q)
      BY <2>3
    <3> HIDE DEF y
    <3>2. 0 \in 0..(call.q - 1)
      BY <1>3
    <3>3. y + 0 \in Limb
      BY <1>3, <3>1, <3>2, PartsFit
    <3>4. y + 0 = y
      BY <1>3, <3>1, LoopNumbers
    <3> QED
      BY <3>3, <3>4 DEF y
  <2>5. r * call.p + z = a
    <3>1. Here = 0
      BY <1>3, <2>1 DEF Here
    <3>2. 0 % call.p = 0
      <4>1. 0 = 0 * call.p + 0 /\ 0 \in 0..(call.p - 1) /\ 0 \in Int
        BY <1>3
      <4> QED
        BY <1>3, <4>1, DivModUnique
    <3>3. r * call.p + z = a + (Here % call.p) * w
      BY <1>1, <1>5 DEF IInv, RightInv
    <3> HIDE DEF r, z, a, w
    <3>4. w \in Int /\ a \in Int
      BY <2>2, LoopNumbers DEF w
    <3> QED
      BY <3>1, <3>2, <3>3, <3>4
  <2>6. r \in Int /\ z \in Int /\ call.p \in Int /\ call.q \in Int
    <3>1. i <= i
      BY <1>3
    <3>2. r \in Nat
      BY <1>2, <1>3, <1>5, <3>1, ValueOfVector
    <3> QED
      BY <1>3, <2>3, <3>2
  <2> HIDE DEF r, z
  <2>7. (r * call.p + z) * call.q = r * (call.p * call.q) + z * call.q
    BY <2>6
  <2>8. carry' = z * call.q
    BY <1>1, <1>5, <2>3
  <2> QED
    BY <1>3, <2>4, <2>5, <2>7, <2>8
<1>6. carry' \in Int
  <2>1. CASE call.fn = "mpn_lshift"
    BY <1>3, <1>4, <2>1
  <2>2. CASE call.fn = "mpn_rshift"
    BY <1>5, <2>2, LimbIsNat
  <2>3. CASE call.fn \notin {"mpn_lshift", "mpn_rshift"}
    BY <1>1, <1>3, <2>3
  <2> QED
    BY <2>1, <2>2, <2>3
<1>7. TypeOK'
  <2>1. CallOK'
    BY <1>1, LoopNumbers DEF CallOK
  <2> QED
    BY <1>1, <1>6, <2>1 DEF IInv, TypeOK
<1>8. CarriesAreExact'
  <2>1. call.fn \notin Dividing \cup {"mpn_cmp"} => i = call.n
    BY <1>1
  <2>2. (call.fn \in Paired \/ call.n > 0) =>
              /\ call.fn \in Adding
                    => r + carry * w = a + IF call.fn \in Paired THEN Value(call.s2, i) ELSE call.x
              /\ call.fn \in Subtracting
                    => r - carry * w = a - IF call.fn \in Paired THEN Value(call.s2, i) ELSE call.x
              /\ call.fn \in Adding \cup Subtracting /\ i > 0 => carry \in {0, 1}
    BY <1>1 DEF IInv, CarriesAreExact
  <2>3. call.fn \in Adding \cup Subtracting => carry' = carry
    BY <1>1 DEF Adding, Subtracting
  <2> QED
    BY <1>1, <1>4, <1>5, <2>1, <2>2, <2>3 DEF CarriesAreExact, Adding, Subtracting
<1>9. ComparesNumbers'
  <2> SUFFICES ASSUME call.fn = "mpn_cmp"
               PROVE  /\ carry' = 0
                      /\ Value(call.s1, call.n) \in Int /\ Value(call.s2, call.n) \in Int
                      /\ Value(call.s1, call.n) = Value(call.s2, call.n)
    BY <1>1 DEF ComparesNumbers
  <2>1. carry' = 0
    BY <1>1 DEF IInv, CompareInv
  <2>2. /\ i = 0
        /\ Value(call.s1, call.n) - Value(call.s2, call.n) = Value(call.s1, i) - Value(call.s2, i)
    BY <1>1 DEF IInv, CompareInv
  <2>3. Value(call.s1, 0) = 0 /\ Value(call.s2, 0) = 0
    BY ValueEmpty
  <2>4. Value(call.s1, call.n) \in Int /\ Value(call.s2, call.n) \in Int
    <3>1. call.m = call.n /\ call.n <= call.n
      BY <1>3, LoopNumbers, CallNumbers DEF Paired
    <3>2. Value(call.s1, call.n) \in Nat /\ Value(call.s2, call.n) \in Nat
      BY <1>3, <3>1, LoopNumbers, CallVectors, ValueOfVector
    <3> QED
      BY <3>2
  <2>5. Value(call.s1, call.n) - Value(call.s2, call.n) = 0
    BY <2>2, <2>3
  <2> QED
    BY <2>1, <2>4, <2>5
<1> QED
  BY <1>1, <1>2, <1>7, <1>8, <1>9
     DEF IInv, IdleInv, LoopInv, CompareInv, LeftInv, RightInv, DivisionInv, PackNpInv,
         PackDpInv, DivideInv, UnpackQInv, UnpackRInv, QuotientsAreExact

-----------------------------------------------------------------------------
(* Divisions.                                                              *)

\* Packing one more limb, from above.
LEMMA PackStep ==
    ASSUME NEW n \in Nat, NEW s \in Vectors(n), NEW j \in Nat, j < n, NEW number \in Nat,
           Value(s, n) = number * Weight[j + 1] + Value(s, j + 1)
    PROVE  /\ number * Base + s[j] \in Nat
           /\ Value(s, n) = (number * Base + s[j]) * Weight[j] + Value(s, j)
<1> DEFINE w == Weight[j]
           a == s[j]
           v == Value(s, j)
<1>1. j <= n
  OBVIOUS
<1>2. a \in Limb /\ Value(s, j + 1) = v + a * w
  BY <1>1, VectorValue
<1>3. a \in Nat /\ w \in Int /\ v \in Int /\ Base \in Nat /\ Weight[j + 1] = w * Base
  <2>1. a \in Nat /\ Base \in Nat
    BY <1>2, LimbIsNat
  <2>2. w \in Nat /\ Weight[j + 1] = w * Base
    BY WeightSteps
  <2>3. v \in Nat
    BY <1>1, ValueOfVector
  <2> QED
    BY <2>1, <2>2, <2>3
<1> HIDE DEF w, a, v
<1>4. number * Base + a \in Nat
  BY <1>3
<1>5. (number * Base + a) * w = number * (w * Base) + a * w
  BY <1>3
<1>6. number * (w * Base) \in Int /\ a * w \in Int
  BY <1>3
<1>7. number * (w * Base) + (v + a * w) = (number * Base + a) * w + v
  BY <1>3, <1>5, <1>6
<1>8. Value(s, n) = number * (w * Base) + (v + a * w)
  BY <1>2, <1>3 DEF a, v, w
<1> QED
  BY <1>4, <1>7, <1>8 DEF a, v, w

LEMMA PackNpStepInv == IInv /\ PackNp => IInv'
<1> SUFFICES ASSUME IInv, PackNp PROVE IInv'
  OBVIOUS
<1> DEFINE j == i - 1
<1>1. /\ pc = "pack_np" /\ i > 0
      /\ num' = num * Base + call.s1[j] /\ i' = j
      /\ pc' = "pack_np" /\ call' = call /\ carry' = carry /\ out' = out /\ den' = den /\ quot' = quot
  BY DEF PackNp
<1>2. /\ call.fn \in Dividing /\ i <= call.n /\ out = Empty /\ den = 0
      /\ Value(call.s1, call.n) = num * Weight[i] + Value(call.s1, i)
  BY <1>1 DEF IInv, DivisionInv, PackNpInv
<1>3. i \in Nat /\ call.n \in Nat /\ num \in Nat
  BY LoopNumbers, CallNumbers
<1>4. j \in Nat /\ j < call.n /\ j <= call.n /\ j + 1 = i
  BY <1>1, <1>2, <1>3
<1> HIDE DEF j
<1>5. /\ num' \in Nat
      /\ Value(call.s1, call.n) = num' * Weight[j] + Value(call.s1, j)
  BY <1>1, <1>2, <1>3, <1>4, LoopNumbers, CallVectors, PackStep
<1>6. CallOK'
  BY <1>1, LoopNumbers DEF CallOK
<1>7. TypeOK'
  BY <1>1, <1>4, <1>5, <1>6 DEF IInv, TypeOK
<1>8. PackNpInv'
  BY <1>1, <1>2, <1>4, <1>5 DEF PackNpInv
<1> QED
  BY <1>1, <1>7, <1>8
     DEF IInv, IdleInv, LoopInv, CompareInv, LeftInv, RightInv, DivisionInv,
         PackDpInv, DivideInv, UnpackQInv, UnpackRInv,
         CarriesAreExact, ComparesNumbers, QuotientsAreExact

LEMMA PackDpStepInv == IInv /\ PackDp => IInv'
<1> SUFFICES ASSUME IInv, PackDp PROVE IInv'
  OBVIOUS
<1> DEFINE j == i - 1
<1>1. /\ pc = "pack_dp" /\ i > 0
      /\ den' = den * Base + call.s2[j] /\ i' = j
      /\ pc' = "pack_dp" /\ call' = call /\ carry' = carry /\ out' = out /\ num' = num /\ quot' = quot
  BY DEF PackDp
<1>2. /\ call.fn \in LongDividing /\ i <= call.m /\ out = Empty /\ num = N
      /\ Value(call.s2, call.m) = den * Weight[i] + Value(call.s2, i)
  BY <1>1 DEF IInv, DivisionInv, PackDpInv
<1>3. i \in Nat /\ call.m \in Nat /\ den \in Nat
  BY LoopNumbers, CallNumbers
<1>4. j \in Nat /\ j < call.m /\ j <= call.m /\ j + 1 = i
  BY <1>1, <1>2, <1>3
<1> HIDE DEF j
<1>5. /\ den' \in Nat
      /\ Value(call.s2, call.m) = den' * Weight[j] + Value(call.s2, j)
  BY <1>1, <1>2, <1>3, <1>4, LoopNumbers, CallVectors, PackStep
<1>6. CallOK'
  BY <1>1, LoopNumbers DEF CallOK
<1>7. TypeOK'
  BY <1>1, <1>4, <1>5, <1>6 DEF IInv, TypeOK
<1>8. num' = N'
  BY <1>1, <1>2 DEF N
<1>9. PackDpInv'
  BY <1>1, <1>2, <1>4, <1>5, <1>8 DEF PackDpInv
<1> QED
  BY <1>1, <1>7, <1>9
     DEF IInv, IdleInv, LoopInv, CompareInv, LeftInv, RightInv, DivisionInv,
         PackNpInv, DivideInv, UnpackQInv, UnpackRInv,
         CarriesAreExact, ComparesNumbers, QuotientsAreExact

\* Nothing is left to pack.
LEMMA Packed ==
    ASSUME NEW n \in Nat, NEW s \in Vectors(n), NEW number \in Nat,
           Value(s, n) = number * Weight[0] + Value(s, 0)
    PROVE  number = Value(s, n)
<1>1. Weight[0] = 1 /\ Value(s, 0) = 0
  BY WeightSteps, ValueEmpty
<1>2. number * 1 + 0 = number
  OBVIOUS
<1> QED
  BY <1>1, <1>2

LEMMA PackedNpInv == IInv /\ PackedNp => IInv'
<1> SUFFICES ASSUME IInv, PackedNp PROVE IInv'
  OBVIOUS
<1>1. /\ pc = "pack_np" /\ i = 0 /\ num' = num * Weight[call.qxn]
      /\ call' = call /\ carry' = carry /\ out' = out /\ quot' = quot
      /\ call.fn = "mpn_divrem_1" => pc' = "divide" /\ den' = call.x /\ i' = i
      /\ call.fn # "mpn_divrem_1" => pc' = "pack_dp" /\ i' = call.m /\ den' = den
  BY DEF PackedNp
<1>2. /\ call.fn \in Dividing /\ out = Empty /\ den = 0
      /\ Value(call.s1, call.n) = num * Weight[0] + Value(call.s1, 0)
  BY <1>1 DEF IInv, DivisionInv, PackNpInv
<1>3. /\ call.n \in Nat /\ call.m \in Nat /\ call.x \in Nat /\ num \in Nat
      /\ call.s1 \in Vectors(call.n) /\ call.s2 \in Vectors(call.m)
  BY LoopNumbers, CallNumbers, CallVectors
<1>4. num = Value(call.s1, call.n)
  BY <1>2, <1>3, Packed
<1>5. num' = N'
  BY <1>1, <1>4 DEF N
<1>6. num' \in Nat
  <2>1. call.qxn \in Nat
    BY LoopNumbers DEF CallOK
  <2>2. Weight[call.qxn] \in Nat
    BY <2>1, WeightSteps
  <2>3. ASSUME NEW a \in Nat, NEW b \in Nat PROVE a * b \in Nat
    OBVIOUS
  <2> QED
    BY <1>1, <1>3, <2>2, <2>3
<1>7. CallOK'
  BY <1>1, LoopNumbers DEF CallOK
<1>8. /\ pc' \in {"divide", "pack_dp"} /\ i' \in Nat /\ den' \in Nat
  BY <1>1, <1>2, <1>3
<1>9. TypeOK'
  BY <1>1, <1>6, <1>7, <1>8 DEF IInv, TypeOK
<1>10. PackDpInv'
  <2> SUFFICES ASSUME call.fn # "mpn_divrem_1" PROVE PackDpInv'
    BY <1>1 DEF PackDpInv
  <2>1. call.fn \in LongDividing
    BY <1>2 DEF Dividing
  <2> DEFINE v == Value(call.s2, call.m)
             w == Weight[call.m]
  <2>2. v \in Int /\ w \in Int
    <3>1. call.m <= call.m
      BY <1>3
    <3>2. v \in Nat /\ w \in Nat
      BY <1>3, <3>1, ValueOfVector, WeightSteps
    <3> QED
      BY <3>2
  <2> HIDE DEF v, w
  <2>3. v = 0 * w + v
    BY <2>2
  <2>4. i' = call.m /\ den' = 0 /\ call.m <= call.m
    BY <1>1, <1>2, <1>3
  <2>5. Value(call.s2, call.m) = den' * Weight[i'] + Value(call.s2, i')
    BY <2>3, <2>4 DEF v, w
  <2> QED
    BY <1>1, <1>2, <1>5, <2>1, <2>4, <2>5 DEF PackDpInv
<1>11. DivideInv'
  <2> SUFFICES ASSUME call.fn = "mpn_divrem_1" PROVE DivideInv'
    BY <1>1 DEF DivideInv
  <2>1. den' = D'
    BY <1>1 DEF D
  <2> QED
    BY <1>1, <1>2, <1>5, <2>1 DEF DivideInv
<1> QED
  BY <1>8, <1>9, <1>10, <1>11
     DEF IInv, IdleInv, LoopInv, CompareInv, LeftInv, RightInv, DivisionInv,
         PackNpInv, UnpackQInv, UnpackRInv,
         CarriesAreExact, ComparesNumbers, QuotientsAreExact

LEMMA PackedDpInv == IInv /\ PackedDp => IInv'
<1> SUFFICES ASSUME IInv, PackedDp PROVE IInv'
  OBVIOUS
<1>1. /\ pc = "pack_dp" /\ i = 0 /\ pc' = "divide" /\ i' = i
      /\ call' = call /\ carry' = carry /\ out' = out /\ num' = num /\ den' = den /\ quot' = quot
  BY DEF PackedDp
<1>2. /\ call.fn \in LongDividing /\ out = Empty /\ num = N
      /\ Value(call.s2, call.m) = den * Weight[0] + Value(call.s2, 0)
  BY <1>1 DEF IInv, DivisionInv, PackDpInv
<1>3. /\ call.m \in Nat /\ den \in Nat /\ call.s2 \in Vectors(call.m)
  BY LoopNumbers, CallNumbers, CallVectors
<1>4. den = Value(call.s2, call.m)
  BY <1>2, <1>3, Packed
<1>5. num' = N' /\ den' = D'
  BY <1>1, <1>2, <1>4 DEF N, D, LongDividing
<1>6. CallOK'
  BY <1>1, LoopNumbers DEF CallOK
<1>7. TypeOK'
  BY <1>1, <1>6 DEF IInv, TypeOK
<1>8. DivideInv'
  BY <1>1, <1>2, <1>5 DEF DivideInv, Dividing
<1> QED
  BY <1>1, <1>7, <1>8
     DEF IInv, IdleInv, LoopInv, CompareInv, LeftInv, RightInv, DivisionInv,
         PackNpInv, PackDpInv, UnpackQInv, UnpackRInv,
         CarriesAreExact, ComparesNumbers, QuotientsAreExact

\* Nothing is unpacked yet.
LEMMA NothingUnpacked ==
    ASSUME NEW x \in Int
    PROVE  Empty \in Vectors(0) /\ Value(Empty, 0) + x * Weight[0] = x
<1>1. Empty \in Vectors(0) /\ Value(Empty, 0) = 0 /\ Weight[0] = 1
  BY EmptyVector, WeightSteps
<1>2. 0 + x * 1 = x
  OBVIOUS
<1> QED
  BY <1>1, <1>2

LEMMA QuotLimbsType ==
    CallOK /\ call.fn \in Dividing =>
        QuotLimbs \in Nat /\ (call.fn \in LongDividing => QuotLimbs = call.n - call.m + 1)
<1> SUFFICES ASSUME CallOK, call.fn \in Dividing
             PROVE  QuotLimbs \in Nat
                    /\ (call.fn \in LongDividing => QuotLimbs = call.n - call.m + 1)
  OBVIOUS
<1>1. call.n \in Nat /\ call.m \in Nat /\ call.m <= call.n
  BY CallNumbers
<1>2. call.qxn \in Nat
  BY DEF CallOK
<1>3. CASE call.fn = "mpn_divrem_1"
  BY <1>1, <1>2, <1>3 DEF QuotLimbs, LongDividing
<1>4. CASE call.fn # "mpn_divrem_1"
  BY <1>1, <1>4 DEF QuotLimbs, LongDividing
<1> QED
  BY <1>3, <1>4

LEMMA DivideStepInv == IInv /\ DivideNumbers => IInv'
<1> SUFFICES ASSUME IInv, DivideNumbers PROVE IInv'
  OBVIOUS
<1>1. /\ pc = "divide"
      /\ call' = call /\ i' = i /\ out' = out /\ num' = num /\ den' = den /\ quot' = quot
      /\ den = 0 => pc' = "thrown" /\ carry' = carry
      /\ den # 0 => pc' = "unpack_q" /\ carry' = num \div den
  BY DEF DivideNumbers
<1>2. call.fn \in Dividing /\ i = 0 /\ out = Empty /\ num = N /\ den = D
  BY <1>1 DEF IInv, DivisionInv, DivideInv
<1>3. num \in Nat /\ den \in Nat /\ carry \in Int
  BY LoopNumbers
<1>4. den # 0 => num \div den \in Nat
  BY <1>3, NonNegativeQuotient
<1>5. carry' \in Int /\ pc' \in {"thrown", "unpack_q"}
  BY <1>1, <1>3, <1>4
<1>6. CallOK'
  BY <1>1, LoopNumbers DEF CallOK
<1>7. TypeOK'
  BY <1>1, <1>5, <1>6 DEF IInv, TypeOK
<1>8. UnpackQInv'
  <2> SUFFICES ASSUME den # 0 PROVE UnpackQInv'
    BY <1>1 DEF UnpackQInv
  <2>1. pc' = "unpack_q" /\ carry' = num \div den /\ carry' \in Nat /\ den > 0
    BY <1>1, <1>3, <1>4
  <2>2. out' \in Vectors(i') /\ Value(out', i') + carry' * Weight[i'] = num \div den
    <3>1. carry' \in Int
      BY <2>1
    <3> QED
      BY <1>1, <1>2, <2>1, <3>1, NothingUnpacked
  <2>3. num' = N' /\ den' = D'
    BY <1>1, <1>2 DEF N, D
  <2>4. i' <= QuotLimbs'
    <3>1. QuotLimbs \in Nat /\ QuotLimbs' = QuotLimbs
      BY <1>1, <1>2, LoopNumbers, QuotLimbsType DEF QuotLimbs
    <3> QED
      BY <1>1, <1>2, <3>1
  <2>5. Unpacking'
    BY <1>1, <2>1, <2>2, <2>3 DEF Unpacking
  <2> QED
    BY <1>1, <1>2, <2>1, <2>2, <2>4, <2>5 DEF UnpackQInv
<1> QED
  BY <1>5, <1>7, <1>8
     DEF IInv, IdleInv, LoopInv, CompareInv, LeftInv, RightInv, DivisionInv,
         PackNpInv, PackDpInv, DivideInv, UnpackRInv,
         CarriesAreExact, ComparesNumbers, QuotientsAreExact

\* One more limb unpacked, from below.
LEMMA UnpackStep ==
    ASSUME IInv, Unpacking, NEW limbs \in Nat, Unpack(limbs),
           NEW x, Value(out, i) + carry * Weight[i] = x
    PROVE  /\ pc' = pc /\ call' = call /\ num' = num /\ den' = den /\ quot' = quot
           /\ i' \in Nat /\ i' <= limbs
           /\ Unpacking' /\ Value(out', i') + carry' * Weight[i'] = x
           /\ TypeOK'
<1> DEFINE limb == carry % Base
           d == carry \div Base
           w == Weight[i]
           r == Value(out, i)
<1>1. i < limbs /\ Iterate(limb, d)
  BY DEF Unpack
<1>2. carry \in Nat /\ out \in Vectors(i) /\ num = N /\ den = D /\ den > 0
  BY DEF Unpacking
<1>3. /\ i \in Nat /\ w \in Int /\ Weight[i + 1] = w * Base /\ Base \in Int
      /\ carry \in Int /\ Base \in Nat \ {0}
  BY LoopNumbers, LimbIsNat
<1>4. limb \in Limb /\ d \in Nat /\ carry = d * Base + limb
  <2>1. limb \in 0..(Base - 1) /\ carry = d * Base + limb
    BY <1>3, DivMod
  <2>2. d \in Nat
    BY <1>2, <1>3, NonNegativeQuotient
  <2>3. limb \in Limb
    BY <2>1 DEF Limb
  <2> QED
    BY <2>1, <2>2, <2>3
<1> HIDE DEF limb, d, w
<1>5. /\ pc' = pc /\ call' = call /\ num' = num /\ den' = den /\ quot' = quot
      /\ i' = i + 1 /\ carry' = d
      /\ out' \in Vectors(i + 1) /\ Value(out', i + 1) = r + limb * w /\ r \in Int
  BY <1>1, <1>2, <1>4, Iterated DEF w
<1> HIDE DEF r
<1>6. (r + limb * w) + d * (w * Base) = x
  <2>1. limb \in Int /\ d \in Int
    BY <1>4, LimbIsNat
  <2>2. r + carry * w = x
    BY DEF r, w
  <2>3. x \in Int /\ 0 \in Int
    BY <1>3, <1>5, <2>2
  <2>4. 0 + carry = d * Base + limb
    BY <1>3, <1>4
  <2>5. (r + limb * w) + d * (w * Base) = x + 0 * w
    BY <1>3, <1>5, <2>1, <2>2, <2>3, <2>4, CarriedOn
  <2>6. x + 0 * w = x
    BY <1>3, <2>3
  <2> QED
    BY <2>5, <2>6
<1>7. i' \in Nat /\ i' <= limbs
  BY <1>1, <1>3, <1>5
<1>8. Unpacking'
  <2>1. num' = N' /\ den' = D' /\ den' > 0
    BY <1>2, <1>5 DEF N, D
  <2> QED
    BY <1>4, <1>5, <2>1 DEF Unpacking
<1>9. TypeOK'
  <2>1. CallOK'
    BY <1>5, LoopNumbers DEF CallOK
  <2>2. out' \in [DOMAIN out' -> Limb]
    BY <1>5, VectorIsFunction
  <2>3. carry' \in Int
    BY <1>4, <1>5
  <2> QED
    BY <1>5, <1>7, <2>1, <2>2, <2>3 DEF IInv, TypeOK
<1> QED
  BY <1>3, <1>5, <1>6, <1>7, <1>8, <1>9

LEMMA UnpackQuotientInv == IInv /\ UnpackQuotient => IInv'
<1> SUFFICES ASSUME IInv, UnpackQuotient PROVE IInv'
  OBVIOUS
<1>1. pc = "unpack_q" /\ Unpack(QuotLimbs)
  BY DEF UnpackQuotient
<1>2. /\ call.fn \in Dividing /\ Unpacking
      /\ Value(out, i) + carry * Weight[i] = num \div den
  BY <1>1 DEF IInv, DivisionInv, UnpackQInv
<1>3. QuotLimbs \in Nat
  BY <1>2, LoopNumbers, QuotLimbsType
<1>4. /\ pc' = "unpack_q" /\ call' = call /\ num' = num /\ den' = den
      /\ i' <= QuotLimbs
      /\ Unpacking' /\ Value(out', i') + carry' * Weight[i'] = num \div den
      /\ TypeOK'
  BY <1>1, <1>2, <1>3, UnpackStep
<1>5. UnpackQInv'
  BY <1>2, <1>4 DEF UnpackQInv, QuotLimbs
<1> QED
  BY <1>4, <1>5
     DEF IInv, IdleInv, LoopInv, CompareInv, LeftInv, RightInv, DivisionInv,
         PackNpInv, PackDpInv, DivideInv, UnpackRInv,
         CarriesAreExact, ComparesNumbers, QuotientsAreExact

LEMMA UnpackRemainderInv == IInv /\ UnpackRemainder => IInv'
<1> SUFFICES ASSUME IInv, UnpackRemainder PROVE IInv'
  OBVIOUS
<1>1. pc = "unpack_r" /\ Unpack(call.m)
  BY DEF UnpackRemainder
<1>2. /\ call.fn \in LongDividing /\ Unpacking
      /\ Value(out, i) + carry * Weight[i] = num % den
      /\ quot \in Vectors(QuotLimbs) /\ (Fits => Value(quot, QuotLimbs) = num \div den)
  BY <1>1 DEF IInv, DivisionInv, UnpackRInv
<1>3. call.m \in Nat
  BY LoopNumbers, CallNumbers
<1>4. /\ pc' = "unpack_r" /\ call' = call /\ num' = num /\ den' = den /\ quot' = quot
      /\ i' <= call.m
      /\ Unpacking' /\ Value(out', i') + carry' * Weight[i'] = num % den
      /\ TypeOK'
  BY <1>1, <1>2, <1>3, UnpackStep
<1>5. QuotLimbs' = QuotLimbs /\ (Fits' <=> Fits)
  BY <1>4 DEF QuotLimbs, Fits
<1>6. UnpackRInv'
  BY <1>2, <1>4, <1>5 DEF UnpackRInv
<1> QED
  BY <1>4, <1>6
     DEF IInv, IdleInv, LoopInv, CompareInv, LeftInv, RightInv, DivisionInv,
         PackNpInv, PackDpInv, DivideInv, UnpackQInv,
         CarriesAreExact, ComparesNumbers, QuotientsAreExact

\* A number of n limbs leaves nothing when n limbs are unpacked.
LEMMA NothingLeft ==
    ASSUME NEW n \in Nat, NEW v \in Vectors(n), NEW c \in Nat, NEW x \in Int,
           Value(v, n) + c * Weight[n] = x, x < Weight[n]
    PROVE  c = 0 /\ Value(v, n) = x
<1> DEFINE r == Value(v, n)
           w == Weight[n]
<1>1. r \in Nat /\ w \in Nat
  <2>1. n <= n
    OBVIOUS
  <2> QED
    BY <2>1, ValueOfVector, WeightSteps
<1> HIDE DEF r, w
<1>2. r + c * w = x /\ x < w
  BY DEF r, w
<1>3. ASSUME c # 0 PROVE FALSE
  <2>1. (c - 1) * w \in Nat
    BY <1>1, <1>3
  <2>2. (c - 1) * w = c * w - w /\ c * w \in Int
    BY <1>1
  <2> QED
    BY <1>1, <1>2, <2>1, <2>2
<1>4. c = 0
  BY <1>3
<1>5. r + 0 * w = r
  BY <1>1
<1> QED
  BY <1>2, <1>4, <1>5 DEF r

\* The highest limb is part of the number.
LEMMA TopLimb ==
    ASSUME NEW m \in Nat, m > 0, NEW s \in Vectors(m)
    PROVE  /\ s[m - 1] \in Limb
           /\ s[m - 1] * Weight[m - 1] \in Nat /\ s[m - 1] * Weight[m - 1] <= Value(s, m)
<1> DEFINE j == m - 1
           a == s[j]
           w == Weight[j]
           r == Value(s, j)
<1>1. j \in Nat /\ j < m /\ j <= m /\ j + 1 = m
  OBVIOUS
<1> HIDE DEF j
<1>2. a \in Limb /\ Value(s, j + 1) = r + a * w
  BY <1>1, VectorValue
<1>3. r \in Nat /\ w \in Nat /\ a \in Nat
  BY <1>1, <1>2, ValueOfVector, WeightSteps, LimbIsNat
<1> HIDE DEF a, w, r
<1>4. a * w \in Nat /\ a * w <= r + a * w
  BY <1>3
<1> QED
  BY <1>1, <1>2, <1>4 DEF a, w, j

LEMMA DividendBelow ==
    CallOK => /\ N \in Nat /\ N < Weight[call.n + call.qxn]
              /\ call.n + call.qxn \in Nat
<1> SUFFICES ASSUME CallOK
             PROVE  /\ N \in Nat /\ N < Weight[call.n + call.qxn]
                    /\ call.n + call.qxn \in Nat
  OBVIOUS
<1> DEFINE a == Value(call.s1, call.n)
           w == Weight[call.n]
           e == Weight[call.qxn]
<1>1. call.n \in Nat /\ call.qxn \in Nat /\ call.n <= call.n
  <2>1. call.qxn \in Nat
    BY DEF CallOK
  <2>2. call.n \in Nat
    BY CallNumbers
  <2>3. call.n <= call.n
    BY <2>2
  <2> QED
    BY <2>1, <2>2, <2>3
<1>2. a \in 0..(w - 1)
  BY <1>1, CallVectors, VectorValue
<1>3. w \in Nat /\ e \in Nat \ {0}
  BY <1>1, WeightSteps
<1>4. Weight[call.n + call.qxn] = w * e
  BY <1>1, WeightsMultiply
<1> HIDE DEF a, w, e
<1>5. a * e \in Nat /\ a * e < w * e
  <2>1. (w - a - 1) * e \in Nat /\ a * e \in Nat
    BY <1>2, <1>3
  <2>2. (w - a - 1) * e = w * e - a * e - e /\ w * e \in Int
    BY <1>2, <1>3
  <2> QED
    BY <1>3, <2>1, <2>2
<1>6. call.n + call.qxn \in Nat
  BY <1>1
<1> QED
  BY <1>4, <1>5, <1>6 DEF N, a, e

\* A divisor without a zero limb at its end is not less than the weight of its
\* last limb: the quotient fits into what is left of the dividend.
LEMMA QuotientFits ==
    ASSUME IInv, Unpacking, call.fn \in Dividing, Fits
    PROVE  num \div den < Weight[QuotLimbs]
<1>1. /\ num = N /\ den = D /\ den \in Nat \ {0} /\ num \in Nat
      /\ num < Weight[call.n + call.qxn]
  <2>1. num = N /\ den = D /\ den > 0 /\ den \in Nat /\ num \in Nat
    BY LoopNumbers DEF Unpacking
  <2>2. N < Weight[call.n + call.qxn]
    BY LoopNumbers, DividendBelow
  <2> QED
    BY <2>1, <2>2
<1>2. /\ call.n \in Nat /\ call.m \in Nat /\ call.m <= call.n
      /\ QuotLimbs \in Nat /\ Weight[QuotLimbs] \in Nat
  BY LoopNumbers, CallNumbers, QuotLimbsType, WeightSteps
<1>3. CASE call.fn = "mpn_divrem_1"
  <2>1. QuotLimbs = call.n + call.qxn
    BY <1>3 DEF QuotLimbs
  <2>2. Weight[QuotLimbs] * 1 = Weight[QuotLimbs] /\ 1 <= den /\ 1 \in Nat
    BY <1>1, <1>2
  <2>3. num < Weight[QuotLimbs] * 1
    BY <1>1, <2>1, <2>2
  <2> QED
    BY <1>1, <1>2, <2>2, <2>3, QuotientBelow
<1>4. CASE call.fn # "mpn_divrem_1"
  <2>1. /\ call.fn \in LongDividing /\ call.m > 0 /\ call.qxn = 0
    BY <1>4, LoopNumbers DEF Dividing, CallOK
  <2> DEFINE c == Weight[call.m - 1]
             a == call.s2[call.m - 1]
  <2>2. c \in Nat
    <3>1. call.m - 1 \in Nat
      BY <1>2, <2>1
    <3> QED
      BY <3>1, WeightSteps
  <2>3. den = Value(call.s2, call.m)
    BY <1>1, <1>4 DEF D
  <2>4. a \in Limb /\ a * c \in Nat /\ a * c <= den /\ a > 0
    BY <1>2, <2>1, <2>3, LoopNumbers, CallVectors, TopLimb DEF Fits
  <2>5. a \in Nat
    BY <2>4, LimbIsNat
  <2> HIDE DEF a, c
  <2>6. c <= den
    <3>1. (a - 1) * c \in Nat
      BY <2>2, <2>4, <2>5
    <3>2. (a - 1) * c = a * c - c
      BY <2>2, <2>5
    <3> QED
      BY <1>1, <2>2, <2>4, <3>1, <3>2
  <2>7. num < Weight[QuotLimbs] * c
    <3>1. QuotLimbs = call.n - call.m + 1
      BY <2>1, <1>4 DEF QuotLimbs
    <3>2. call.m - 1 \in Nat /\ QuotLimbs + (call.m - 1) = call.n + call.qxn
      BY <1>2, <2>1, <3>1
    <3>3. Weight[QuotLimbs + (call.m - 1)] = Weight[QuotLimbs] * c
      BY <1>2, <3>2, WeightsMultiply DEF c
    <3> QED
      BY <1>1, <3>2, <3>3
  <2> QED
    BY <1>1, <1>2, <2>2, <2>6, <2>7, QuotientBelow
<1> QED
  BY <1>3, <1>4

LEMMA UnpackedQuotientInv == IInv /\ UnpackedQuotient => IInv'
<1> SUFFICES ASSUME IInv, UnpackedQuotient PROVE IInv'
  OBVIOUS
<1>1. /\ pc = "unpack_q" /\ i = QuotLimbs
      /\ quot' = out /\ out' = Empty /\ i' = 0 /\ carry' = num % den
      /\ call' = call /\ num' = num /\ den' = den
      /\ call.fn = "mpn_divrem_1" => pc' = "returned"
      /\ call.fn # "mpn_divrem_1" => pc' = "unpack_r"
  BY DEF UnpackedQuotient
<1>2. /\ call.fn \in Dividing /\ Unpacking
      /\ Value(out, i) + carry * Weight[i] = num \div den
  BY <1>1 DEF IInv, DivisionInv, UnpackQInv
<1>3. num = N /\ den = D /\ den > 0 /\ out \in Vectors(i) /\ carry \in Nat
  BY <1>2 DEF Unpacking
<1>4. /\ i \in Nat /\ num \in Nat /\ den \in Nat /\ den \in Nat \ {0} /\ num \in Int
      /\ num \div den \in Int
  <2>1. i \in Nat /\ num \in Nat /\ den \in Nat /\ num \in Int /\ den \in Nat \ {0}
    BY <1>3, LoopNumbers
  <2> QED
    BY <2>1, DivMod
<1>5. carry' \in 0..(den - 1) /\ num = (num \div den) * den + carry'
  BY <1>1, <1>4, DivMod
<1>6. carry' \in Nat /\ carry' \in Int /\ carry' < den
  BY <1>4, <1>5
<1>7. Fits => Value(out, i) = num \div den
  <2> SUFFICES ASSUME Fits PROVE Value(out, i) = num \div den
    OBVIOUS
  <2>1. num \div den < Weight[i]
    BY <1>1, <1>2, QuotientFits
  <2> QED
    BY <1>2, <1>3, <1>4, <2>1, NothingLeft
<1>8. CallOK' /\ pc' \in {"returned", "unpack_r"}
  BY <1>1, LoopNumbers DEF CallOK
<1>9. TypeOK'
  <2>1. /\ out' \in [DOMAIN out' -> Limb] /\ quot' \in [DOMAIN quot' -> Limb]
    BY <1>1, <1>3, EmptyVector, VectorIsFunction
  <2>2. i' \in Nat
    BY <1>1
  <2> QED
    BY <1>1, <1>6, <1>8, <2>1, <2>2 DEF IInv, TypeOK
<1>10. num' = N' /\ den' = D' /\ QuotLimbs' = QuotLimbs /\ (Fits' <=> Fits)
  BY <1>1, <1>3 DEF N, D, QuotLimbs, Fits
<1>11. UnpackRInv'
  <2> SUFFICES ASSUME call.fn # "mpn_divrem_1" PROVE UnpackRInv'
    BY <1>1 DEF UnpackRInv
  <2>1. call.fn \in LongDividing
    BY <1>2 DEF Dividing
  <2>2. out' \in Vectors(i') /\ Value(out', i') + carry' * Weight[i'] = num % den
    BY <1>1, <1>6, NothingUnpacked
  <2>3. Unpacking'
    BY <1>1, <1>3, <1>6, <1>10, <2>2 DEF Unpacking
  <2>4. i' <= call.m
    <3>1. call.m \in Nat
      BY LoopNumbers, CallNumbers
    <3> QED
      BY <1>1, <3>1
  <2>5. quot' \in Vectors(QuotLimbs) /\ (Fits => Value(quot', QuotLimbs) = num \div den)
    BY <1>1, <1>3, <1>7
  <2> QED
    BY <1>1, <1>10, <2>1, <2>2, <2>3, <2>4, <2>5 DEF UnpackRInv
<1>12. QuotientsAreExact'
  <2> SUFFICES ASSUME call.fn = "mpn_divrem_1" PROVE QuotientsAreExact'
    BY <1>1 DEF QuotientsAreExact
  <2>1. Fits
    BY DEF Fits, LongDividing
  <2>2. Q' = num \div den
    BY <1>1, <1>7, <1>10, <2>1 DEF Q
  <2>3. R' = carry'
    BY <1>1 DEF R
  <2>4. R' < D' /\ Q' * D' + R' = N'
    BY <1>1, <1>5, <1>6, <1>10, <2>2, <2>3
  <2> QED
    BY <1>1, <2>4 DEF QuotientsAreExact
<1> QED
  BY <1>1, <1>2, <1>8, <1>9, <1>11, <1>12
     DEF IInv, IdleInv, LoopInv, CompareInv, LeftInv, RightInv, DivisionInv,
         PackNpInv, PackDpInv, DivideInv, UnpackQInv,
         CarriesAreExact, Adding, Subtracting, Dividing, LongDividing, ComparesNumbers

\* Of a vector, its first limbs.
LEMMA FirstLimbs ==
    ASSUME NEW n \in Nat, NEW v \in Vectors(n + 1), NEW u, u = [k \in 0..(n - 1) |-> v[k]]
    PROVE  /\ u \in Vectors(n) /\ v[n] \in Limb
           /\ Value(u, n) + v[n] * Weight[n] = Value(v, n + 1)
<1>1. n + 1 \in Nat /\ n <= n + 1 /\ n < n + 1
  OBVIOUS
<1>2. v[n] \in Limb /\ Value(v, n + 1) = Value(v, n) + v[n] * Weight[n]
  BY <1>1, VectorValue
<1>3. \A k \in 0..(n - 1) : k \in 0..n
  OBVIOUS
<1>4. \A k \in 0..n : v[k] \in Limb
  BY DEF Vectors
<1>5. u \in Vectors(n)
  BY <1>3, <1>4 DEF Vectors
<1>6. Value(u, n) = Value(v, n)
  <2>1. \A k \in Nat : k < n => k \in 0..(n - 1)
    OBVIOUS
  <2>2. \A k \in Nat : k < n => u[k] = v[k] /\ v[k] \in Limb
    BY <1>3, <1>4, <2>1
  <2>3. \A k \in Nat : k < n => u[k] \in Int /\ u[k] = v[k]
    BY <2>2, LimbIsNat
  <2> QED
    BY <2>3, ValueSame
<1> QED
  BY <1>2, <1>5, <1>6

LEMMA AtMostOne ==
    ASSUME NEW c \in Nat, NEW r \in Nat, NEW w \in Nat, r + c * w < 2 * w
    PROVE  c \in {0, 1}
<1>1. ASSUME c > 1 PROVE FALSE
  <2>1. (c - 2) * w \in Nat
    BY <1>1
  <2>2. (c - 2) * w = c * w - 2 * w /\ c * w \in Int
    OBVIOUS
  <2> QED
    BY <2>1, <2>2
<1> QED
  BY <1>1

\* A normalised divisor is at least half of what its limbs can hold.
LEMMA NormalisedQuotient ==
    ASSUME IInv, Unpacking, call.fn \in LongDividing, 2 * call.s2[call.m - 1] >= Base
    PROVE  num \div den < 2 * Weight[call.n - call.m]
<1>1. /\ num = N /\ den = D /\ den \in Nat \ {0} /\ num \in Nat
      /\ num < Weight[call.n + call.qxn]
  <2>1. num = N /\ den = D /\ den > 0 /\ den \in Nat /\ num \in Nat
    BY LoopNumbers DEF Unpacking
  <2>2. N < Weight[call.n + call.qxn]
    BY LoopNumbers, DividendBelow
  <2> QED
    BY <2>1, <2>2
<1>2. call.n \in Nat /\ call.m \in Nat /\ call.m <= call.n /\ call.m > 0 /\ call.qxn = 0
  <2>1. call.n \in Nat /\ call.m \in Nat /\ call.m <= call.n
    BY LoopNumbers, CallNumbers
  <2>2. call.m > 0 /\ call.qxn = 0
    BY LoopNumbers DEF CallOK
  <2> QED
    BY <2>1, <2>2
<1> DEFINE c == Weight[call.m - 1]
           a == call.s2[call.m - 1]
           w == Weight[call.n - call.m]
<1>3. c \in Nat /\ w \in Nat
  <2>1. call.m - 1 \in Nat /\ call.n - call.m \in Nat
    BY <1>2
  <2> QED
    BY <2>1, WeightSteps
<1>4. a \in Limb /\ a * c \in Nat /\ a * c <= den
  <2>1. den = Value(call.s2, call.m)
    BY <1>1 DEF D, LongDividing
  <2> QED
    BY <1>2, <2>1, LoopNumbers, CallVectors, TopLimb
<1>5. a \in Nat /\ Base \in Nat /\ Base <= 2 * a
  BY <1>4, LimbIsNat
<1>6. Weight[call.n + call.qxn] = w * (Base * c)
  <2>1. call.n - call.m \in Nat /\ call.m \in Nat /\ call.m - 1 \in Nat
        /\ (call.n - call.m) + call.m = call.n + call.qxn /\ (call.m - 1) + 1 = call.m
    BY <1>2
  <2>2. Weight[(call.n - call.m) + call.m] = w * Weight[call.m]
    BY <2>1, WeightsMultiply
  <2>3. Weight[(call.m - 1) + 1] = c * Base
    BY <2>1, WeightSteps
  <2>4. c * Base = Base * c
    BY <1>3, <1>5
  <2> QED
    BY <2>1, <2>2, <2>3, <2>4
<1> HIDE DEF a, c, w
<1>7. w * (Base * c) <= (2 * w) * (a * c)
  <2>1. (2 * a - Base) * c \in Nat
    BY <1>3, <1>5
  <2> DEFINE e == (2 * a - Base) * c
  <2>2. e \in Nat
    BY <2>1
  <2>3. w * e \in Nat
    <3> HIDE DEF e
    <3> QED
      BY <1>3, <2>2
  <2>4. w * e = (2 * w) * (a * c) - w * (Base * c)
    BY <1>3, <1>5
  <2>5. w * (Base * c) \in Int /\ (2 * w) * (a * c) \in Int
    BY <1>3, <1>5
  <2> HIDE DEF e
  <2> QED
    BY <2>3, <2>4, <2>5
<1>8. num < (2 * w) * (a * c) /\ 2 * w \in Nat
  <2>1. w * (Base * c) \in Int /\ (2 * w) * (a * c) \in Int
    BY <1>3, <1>5
  <2> QED
    BY <1>1, <1>3, <1>6, <1>7, <2>1
<1> DEFINE x == a * c
           y == 2 * w
<1>9. x \in Nat /\ x <= den /\ y \in Nat /\ num < y * x
  BY <1>4, <1>8 DEF a, c
<1> HIDE DEF x, y
<1>10. num \div den < y
  BY <1>1, <1>9, QuotientBelow
<1> QED
  BY <1>10 DEF y, w

LEMMA ReturnQuotientInv == IInv /\ ReturnQuotient => IInv'
<1> SUFFICES ASSUME IInv, ReturnQuotient PROVE IInv'
  OBVIOUS
<1> DEFINE n == call.n - call.m
<1>1. /\ pc = "unpack_r" /\ i = call.m /\ pc' = "returned"
      /\ call' = call /\ i' = i /\ out' = out /\ num' = num /\ den' = den
      /\ call.fn = "mpn_divrem" => quot' = [k \in 0..(n - 1) |-> quot[k]] /\ carry' = quot[n]
      /\ call.fn # "mpn_divrem" => quot' = quot /\ carry' = carry
  BY DEF ReturnQuotient
<1>2. /\ call.fn \in LongDividing /\ Unpacking
      /\ Value(out, i) + carry * Weight[i] = num % den
      /\ quot \in Vectors(QuotLimbs) /\ (Fits => Value(quot, QuotLimbs) = num \div den)
  BY <1>1 DEF IInv, DivisionInv, UnpackRInv
<1>3. num = N /\ den = D /\ den > 0 /\ out \in Vectors(i) /\ carry \in Nat
  BY <1>2 DEF Unpacking
<1>4. /\ call.m \in Nat /\ n \in Nat /\ call.m <= call.m /\ QuotLimbs = n + 1
      /\ num \in Int /\ den \in Nat \ {0}
  <2>1. call.n \in Nat /\ call.m \in Nat /\ call.m <= call.n
    BY LoopNumbers, CallNumbers
  <2>2. QuotLimbs = call.n - call.m + 1
    BY <1>2, LoopNumbers, QuotLimbsType DEF Dividing
  <2>3. num \in Int /\ den \in Nat \ {0}
    BY <1>3, LoopNumbers
  <2> QED
    BY <2>1, <2>2, <2>3
<1>5. /\ num % den \in 0..(den - 1) /\ num \div den \in Int
      /\ num = (num \div den) * den + (num % den)
  BY <1>4, DivMod
<1>6. Value(out, i) = num % den
  <2>1. den < Weight[i]
    <3>1. den = Value(call.s2, call.m)
      BY <1>2, <1>3 DEF D, LongDividing
    <3>2. Weight[call.m] \in Nat /\ Value(call.s2, call.m) \in 0..(Weight[call.m] - 1)
      BY <1>4, LoopNumbers, CallVectors, VectorValue, WeightSteps
    <3> QED
      BY <1>1, <3>1, <3>2
  <2>2. num % den \in Int /\ num % den < Weight[i]
    BY <1>4, <1>5, <2>1, LoopNumbers
  <2>3. i \in Nat
    BY LoopNumbers
  <2> QED
    BY <1>2, <1>3, <2>2, <2>3, NothingLeft
<1> HIDE DEF n
<1>7. ASSUME call.fn = "mpn_divrem"
      PROVE  /\ quot' \in Vectors(n) /\ carry' \in Limb
             /\ Value(quot', n) + carry' * Weight[n] = Value(quot, QuotLimbs)
  BY <1>1, <1>2, <1>4, <1>7, FirstLimbs
<1>8. /\ quot' \in [DOMAIN quot' -> Limb] /\ carry' \in Int
  <2>1. CASE call.fn = "mpn_divrem"
    BY <1>7, <2>1, VectorIsFunction, LimbIsNat
  <2>2. CASE call.fn # "mpn_divrem"
    BY <1>1, <1>2, <1>3, <2>2, VectorIsFunction
  <2> QED
    BY <2>1, <2>2
<1>9. TypeOK'
  <2>1. CallOK'
    BY <1>1, LoopNumbers DEF CallOK
  <2> QED
    BY <1>1, <1>8, <2>1 DEF IInv, TypeOK
<1>10. N' = num /\ D' = den /\ R' = num % den /\ R' < D'
  <2>1. N' = num /\ D' = den
    BY <1>1, <1>3 DEF N, D
  <2>2. R' = num % den
    BY <1>1, <1>2, <1>6 DEF R, LongDividing
  <2>3. num % den < den
    BY <1>4, <1>5
  <2> QED
    BY <2>1, <2>2, <2>3
<1>11. Q' = Value(quot, QuotLimbs)
  <2>1. CASE call.fn = "mpn_divrem"
    BY <1>1, <1>7, <2>1 DEF Q, n
  <2>2. CASE call.fn # "mpn_divrem"
    BY <1>1, <2>2 DEF Q, QuotLimbs
  <2> QED
    BY <2>1, <2>2
<1>12. (call.fn \in LongDividing => call.s2[call.m - 1] > 0) => Q' * D' + R' = N'
  <2> SUFFICES ASSUME Fits PROVE Q' * D' + R' = N'
    BY DEF Fits
  <2>1. Q' = num \div den
    BY <1>2, <1>11
  <2> QED
    BY <1>5, <1>10, <2>1
<1>13. ASSUME call.fn = "mpn_divrem", 2 * call.s2[call.m - 1] >= Base
       PROVE  carry' \in {0, 1}
  <2>1. num \div den < 2 * Weight[n]
    BY <1>2, <1>13, NormalisedQuotient DEF n
  <2>2. Fits
    <3>1. call.s2[call.m - 1] \in Limb
      <4>1. call.m > 0
        BY <1>2, LoopNumbers DEF CallOK
      <4> QED
        BY <1>4, <4>1, LoopNumbers, CallVectors, TopLimb
    <3>2. call.s2[call.m - 1] \in Nat
      BY <3>1, LimbIsNat
    <3>3. Base \in Nat /\ Base > 0
      BY LimbIsNat
    <3> QED
      BY <1>13, <3>2, <3>3 DEF Fits
  <2>3. Value(quot', n) + carry' * Weight[n] = num \div den
    BY <1>2, <1>7, <1>13, <2>2
  <2>4. Value(quot', n) \in Nat /\ Weight[n] \in Nat /\ carry' \in Nat
    <3>1. n <= n
      BY <1>4
    <3> QED
      BY <1>4, <1>7, <1>13, <3>1, ValueOfVector, WeightSteps, LimbIsNat
  <2> QED
    BY <2>1, <2>3, <2>4, AtMostOne
<1>14. QuotientsAreExact'
  BY <1>1, <1>10, <1>12, <1>13 DEF QuotientsAreExact
<1> QED
  BY <1>1, <1>2, <1>9, <1>14
     DEF IInv, IdleInv, LoopInv, CompareInv, LeftInv, RightInv, DivisionInv,
         PackNpInv, PackDpInv, DivideInv, UnpackQInv, UnpackRInv,
         CarriesAreExact, Adding, Subtracting, Dividing, LongDividing, Paired, ComparesNumbers

-----------------------------------------------------------------------------

LEMMA StutterInv == IInv /\ UNCHANGED vars => IInv'
<1> SUFFICES ASSUME IInv, UNCHANGED vars PROVE IInv'
  OBVIOUS
<1>1. /\ pc' = pc /\ call' = call /\ i' = i /\ carry' = carry /\ out' = out
      /\ num' = num /\ den' = den /\ quot' = quot
  BY DEF vars
<1> QED
  BY <1>1
     DEF IInv, TypeOK, CallOK, IdleInv, LoopInv, CompareInv, LeftInv, RightInv, Here,
         DivisionInv, PackNpInv, PackDpInv, DivideInv, UnpackQInv, UnpackRInv,
         Unpacking, Fits, CarriesAreExact, ComparesNumbers, QuotientsAreExact,
         N, D, Q, R, QuotLimbs

LEMMA NextInv == IInv /\ [Next]_vars => IInv'
<1> SUFFICES ASSUME IInv, [Next]_vars PROVE IInv'
  OBVIOUS
<1>1. CASE Calling
  BY <1>1, PairInv, LimbInv, ShiftInv, DivideByLimbInv, DivideByVectorInv DEF Calling
<1>2. CASE Carrying
  BY <1>2, AddInv, SubtractInv, ShiftLeftInv, ShiftRightInv DEF Carrying
<1>3. CASE Compare
  BY <1>3, CompareStepInv
<1>4. CASE Return
  BY <1>4, ReturnInv
<1>5. CASE Division
  BY <1>5, PackNpStepInv, PackedNpInv, PackDpStepInv, PackedDpInv, DivideStepInv,
     UnpackQuotientInv, UnpackedQuotientInv, UnpackRemainderInv, ReturnQuotientInv
     DEF Division
<1>6. CASE NextCall
  BY <1>6, NextCallInv
<1>7. CASE UNCHANGED vars
  BY <1>7, StutterInv
<1> QED
  BY <1>1, <1>2, <1>3, <1>4, <1>5, <1>6, <1>7 DEF Next

\* The invariant, from which the four theorems follow.
THEOREM LimbsInvariant == Spec => []IInv
<1>1. Init => IInv
  BY InitInv
<1>2. IInv /\ [Next]_vars => IInv'
  BY NextInv
<1> QED
  BY <1>1, <1>2, PTL DEF Spec

\* Every limb the routines of src/internal/mpn write is a limb: masking, and
\* borrowing from above, leave nothing outside 0..2^LIMB_BITS - 1.
THEOREM LimbsTypeCorrect == Spec => []TypeOK
<1>1. IInv => TypeOK
  BY DEF IInv
<1> QED
  BY <1>1, LimbsInvariant, PTL

\* The sums of mpn_add_n and mpn_add_1, the differences of mpn_sub_n and
\* mpn_sub_1 and the shifts of mpn_lshift and mpn_rshift are those of the
\* numbers the limbs stand for, the scalar returned included, for every width of
\* a limb and every length.
THEOREM LoopsAreExact == Spec => []CarriesAreExact
<1>1. IInv => CarriesAreExact
  BY DEF IInv
<1> QED
  BY <1>1, LimbsInvariant, PTL

\* mpn_cmp returns the order of the numbers, though it stops at the first limb
\* from above that differs.
THEOREM ComparisonsAreExact == Spec => []ComparesNumbers
<1>1. IInv => ComparesNumbers
  BY DEF IInv
<1> QED
  BY <1>1, LimbsInvariant, PTL

\* mpn_divrem_1, mpn_divrem and mpn_tdiv_qr return a remainder less than the
\* divisor and, with a divisor whose last limb is not 0, a quotient that fits
\* into its limbs and makes the dividend again; the limb mpn_divrem returns by
\* itself is at most 1 for a normalised divisor.
THEOREM DivisionsAreExact == Spec => []QuotientsAreExact
<1>1. IInv => QuotientsAreExact
  BY DEF IInv
<1> QED
  BY <1>1, LimbsInvariant, PTL

=============================================================================
