----------------------------- MODULE Calculator -----------------------------
(***************************************************************************)
(* A program that uses the library: two registers, each call of which      *)
(* takes its operands from them and leaves its value in the first.  The    *)
(* invariants quantify over every output precision and rounding mode.      *)
(***************************************************************************)
EXTENDS ExponentRange, Integral, Mixed, Exact

CONSTANTS SLACK,       \* how far beyond the library's range, which the arithmetic does
                       \* not enforce, the exponent of a register may go (a bound)
          TARGET_PREC, \* the widest precision a walk aims at (a bound)
          SCALE        \* the largest power of two a call scales by (a bound)

ASSUME BoundsAssumption == SLACK \in Nat /\ TARGET_PREC \in Precision /\ SCALE \in Nat

VARIABLES x, y

vars == <<x, y>>

Holds(v) == v.kind = "normal" => v.exp \in EMIN_DEFAULT - SLACK .. EMAX_DEFAULT + SLACK

Normals(p) == {Normal(s, p, e, m) : s \in Sign, e \in EMIN_DEFAULT..EMAX_DEFAULT,
                                    m \in Pow2(p - 1) .. Pow2(p) - 1}
Specials(p) == {Inf(s, p) : s \in Sign} \cup {Zero(s, p) : s \in Sign}
ValuesUpTo(q) == (UNION {Normals(p) \cup Specials(p) : p \in 1..q}) \cup {NAN_VALUE}
Values == ValuesUpTo(PREC_MAX)

Init == x \in Values /\ y \in Values

Store(v) == Holds(v) /\ x' = v /\ UNCHANGED y

Binary(Op(_, _, _, _)) == \E q \in Precision, rnd \in RoundingMode : Store(Op(x, y, q, rnd).value)

mpfr_add == Binary(Add)
mpfr_sub == Binary(Sub)
mpfr_mul == Binary(Mul)
mpfr_div == Binary(Div)
mpfr_max == Binary(Max)
mpfr_min == Binary(Min)
mpfr_copysign == Binary(CopySign)
mpfr_sqrt == \E q \in Precision, rnd \in RoundingMode : Store(Sqrt(x, q, rnd).value)
mpfr_set == \E q \in Precision, rnd \in RoundingMode : Store(Set(x, q, rnd).value)
mpfr_neg == \E q \in Precision, rnd \in RoundingMode : Store(Neg(x, q, rnd).value)
mpfr_abs == \E q \in Precision, rnd \in RoundingMode : Store(Abs(x, q, rnd).value)
mpfr_check_range == \E t \in -1..1, rnd \in RoundingMode : Store(CheckRange(x, t, rnd).value)
mpfr_nextabove == Store(NextAbove(x))
mpfr_nextbelow == Store(NextBelow(x))
mpfr_nexttoward == Store(NextToward(x, y))
mpfr_swap == x' = y /\ y' = x
mpfr_dim == Binary(Dim)

mpfr_rint == \E q \in Precision, rnd \in RoundingMode : Store(Rint(x, q, rnd).value)
mpfr_round == \E q \in Precision : Store(Round(x, q).value)
mpfr_frac == \E q \in Precision, rnd \in RoundingMode : Store(Frac(x, q, rnd).value)
mpfr_modf ==
    \E iprec, fprec \in Precision, rnd \in RoundingMode :
        LET parts == Modf(x, iprec, fprec, rnd)
        IN  Holds(parts.iop.value) /\ x' = parts.iop.value /\ y' = parts.fop.value

\* The integer operand of a mixed operation is the value of y.
Integer(v) ==
    IF v.kind = "zero" THEN 0
    ELSE v.sign * (IF v.exp >= v.prec THEN v.mant * Pow2(v.exp - v.prec)
                                      ELSE v.mant \div Pow2(v.prec - v.exp))
WithInteger(Op(_, _, _, _)) ==
    IntegerP(y) /\ \E q \in Precision, rnd \in RoundingMode : Store(Op(x, Integer(y), q, rnd).value)

mpfr_add_z == WithInteger(AddZ)
mpfr_sub_z == WithInteger(SubZ)
mpfr_mul_z == WithInteger(MulZ)
mpfr_set_z == IntegerP(y) /\ \E q \in Precision, rnd \in RoundingMode : Store(SetZ(Integer(y), q, rnd).value)
mpfr_mul_2si ==
    \E k \in -SCALE..SCALE, q \in Precision, rnd \in RoundingMode : Store(Mul2si(x, k, q, rnd).value)

Next ==
    \/ mpfr_add \/ mpfr_sub \/ mpfr_mul \/ mpfr_div \/ mpfr_sqrt
    \/ mpfr_set \/ mpfr_neg \/ mpfr_abs \/ mpfr_copysign
    \/ mpfr_max \/ mpfr_min \/ mpfr_check_range
    \/ mpfr_nextabove \/ mpfr_nextbelow \/ mpfr_nexttoward \/ mpfr_swap
    \/ mpfr_dim \/ mpfr_rint \/ mpfr_round \/ mpfr_frac \/ mpfr_modf
    \/ mpfr_add_z \/ mpfr_sub_z \/ mpfr_mul_z \/ mpfr_set_z \/ mpfr_mul_2si

Spec == Init /\ [][Next]_vars

-----------------------------------------------------------------------------
(* Correct rounding.                                                       *)

Finite(v) == v.kind \in {"zero", "normal"}

\* The signs of n * 2^k - (a + b), - a * b, - a / b and - sqrt(a).
SumCmp(a, b, n, k) ==
    LET low == CHOOSE l \in {k, Scale(a), Scale(b)} : \A i \in {k, Scale(a), Scale(b)} : l <= i
    IN  Sgn(n * Pow2(k - low) - Num(a) * Pow2(Scale(a) - low) - Num(b) * Pow2(Scale(b) - low))
ProductCmp(a, b, n, k) == CompareDyadic(n, k, Num(a) * Num(b), Scale(a) + Scale(b))
QuotientCmp(a, b, n, k) == b.sign * CompareDyadic(n * Num(b), k + Scale(b), Num(a), Scale(a))
RootCmp(a, n, k) == IF n <= 0 THEN -1 ELSE CompareDyadic(n * n, 2 * k, a.mant, Scale(a))

\* Every value a sequence of calls leaves in a register is one validate
\* accepts (core.ts), whatever the operations did to it.
TypeOK == Valid(x) /\ Valid(y)

\* mpfr_add returns the sum rounded once, in the direction the mode asks for,
\* with the ternary value of that rounding; an exact sum of zero is a zero.
AddIsCorrect ==
    Finite(x) /\ Finite(y) =>
        \A q \in Precision, rnd \in RoundingMode :
            LET res == Add(x, y, q, rnd)
            IN  IF SumCmp(x, y, 0, 0) = 0
                THEN res.value.kind = "zero" /\ res.ternary = 0
                ELSE CorrectlyRounded(res, q, rnd, LAMBDA n, k : SumCmp(x, y, n, k))

\* mpfr_mul rounds the exact product once.
MulIsCorrect ==
    x.kind = "normal" /\ y.kind = "normal" =>
        \A q \in Precision, rnd \in RoundingMode :
            CorrectlyRounded(Mul(x, y, q, rnd), q, rnd, LAMBDA n, k : ProductCmp(x, y, n, k))

\* mpfr_div rounds the exact quotient once, though it only computes q + 2
\* bits of it and a sticky bit.
DivIsCorrect ==
    x.kind = "normal" /\ y.kind = "normal" =>
        \A q \in Precision, rnd \in RoundingMode :
            CorrectlyRounded(Div(x, y, q, rnd), q, rnd, LAMBDA n, k : QuotientCmp(x, y, n, k))

\* mpfr_sqrt rounds the exact root once, also when the operand has more bits
\* than the radicand it takes the integer root of.
SqrtIsCorrect ==
    x.kind = "normal" /\ x.sign = 1 =>
        \A q \in Precision, rnd \in RoundingMode :
            CorrectlyRounded(Sqrt(x, q, rnd), q, rnd, LAMBDA n, k : RootCmp(x, n, k))

-----------------------------------------------------------------------------
(* The operations agree with one another.                                  *)

Negated(v) == IF v.kind = "nan" THEN v ELSE [v EXCEPT !.sign = -v.sign]
NegatedResult(res) == Result(Negated(res.value), -res.ternary)
Mirror(rnd) == CASE rnd = "RNDU" -> "RNDD" [] rnd = "RNDD" -> "RNDU" [] OTHER -> rnd
One == Normal(1, 1, 1, 1)

\* Negating the operands and turning the mode round negates the result, the
\* sign of a zero included: no operation treats one direction specially.  The
\* one exception is the zero of x + (-x), positive in the symmetric modes.
SignSymmetry ==
    \A q \in Precision, rnd \in RoundingMode :
        /\ LET sum == Add(x, y, q, rnd)
               mirrored == Add(Negated(x), Negated(y), q, Mirror(rnd))
           IN  IF x.sign # y.sign /\ sum.value.kind = "zero" /\ rnd \notin {"RNDU", "RNDD"}
               THEN sum = mirrored /\ sum.value.sign = 1
               ELSE mirrored = NegatedResult(sum)
        /\ Mul(Negated(x), y, q, Mirror(rnd)) = NegatedResult(Mul(x, y, q, rnd))
        /\ Div(x, Negated(y), q, Mirror(rnd)) = NegatedResult(Div(x, y, q, rnd))
        /\ Max(Negated(x), Negated(y), q, Mirror(rnd)) = NegatedResult(Min(x, y, q, rnd))

\* A quotient is of the kind and sign of the product with the reciprocal:
\* the tables of special operands of mpfr_div and mpfr_mul fit together.
DivMulAgree ==
    \A q \in Precision, rnd \in RoundingMode :
        LET quotient == Div(x, y, q, rnd).value
            product == Mul(x, Div(One, y, q, rnd).value, q, rnd).value
        IN  quotient.kind = product.kind /\ quotient.sign = product.sign

SgnOf(v) == IF v.kind = "zero" THEN 0 ELSE v.sign

\* The comparisons, which look at exponents and aligned mantissas, find the
\* order that the sign of a difference shows, and dim keeps its positive part.
OrderIsSignOfDifference ==
    (~UnorderedP(x, y) /\ ~(x.kind = "inf" /\ y.kind = "inf")) =>
        \A rnd \in RoundingMode :
            /\ Compare(x, y) = SgnOf(Sub(x, y, 1, rnd).value)
            /\ Cmp3(x, y, -1) = SgnOf(Add(x, y, 1, rnd).value)
            /\ SgnOf(Dim(x, y, 1, rnd).value) = (IF Compare(x, y) = 1 THEN 1 ELSE 0)
            /\ CmpAbs(x, y) = SgnOf(Sub(Abs(x, x.prec, rnd).value, Abs(y, y.prec, rnd).value, 1, rnd).value)

\* Selecting and then rounding is rounding and then selecting: mpfr_max and
\* mpfr_min bound both rounded operands and are one of them.
SelectionsBound ==
    ~UnorderedP(x, y) =>
        \A q \in Precision, rnd \in RoundingMode :
            LET rx == RoundToPrec(x, q, rnd).value
                ry == RoundToPrec(y, q, rnd).value
                hi == Max(x, y, q, rnd).value
                lo == Min(x, y, q, rnd).value
            IN  /\ {lo, hi} = {rx, ry}
                /\ LessEqualP(lo, rx) /\ LessEqualP(lo, ry)
                /\ LessEqualP(rx, hi) /\ LessEqualP(ry, hi)

\* An operation with an integer operand does what the operation on values
\* does with that integer, in every mode and whichever of the unsigned, signed
\* and multiple-precision routines the call goes through; adding the integer 0
\* alone keeps the sign of a zero.  A scaling is a product with a power of two.
MixedAgree ==
    IntegerP(y) =>
        \A q \in Precision, rnd \in RoundingMode :
            LET z == Integer(y)
                power == Normal(1, 1, z + 1, 1)
            IN  /\ AddZ(x, z, q, rnd) = IF z = 0 THEN Set(x, q, rnd) ELSE Add(x, y, q, rnd)
                /\ SubZ(x, z, q, rnd) = IF z = 0 THEN Set(x, q, rnd) ELSE Sub(x, y, q, rnd)
                /\ MulZ(x, z, q, rnd) = Mul(x, IF z = 0 THEN Zero(1, 1) ELSE y, q, rnd)
                /\ z \in ULong => /\ AddUi(x, z, q, rnd) = AddZ(x, z, q, rnd)
                                  /\ SubUi(x, z, q, rnd) = SubZ(x, z, q, rnd)
                                  /\ MulUi(x, z, q, rnd) = MulZ(x, z, q, rnd)
                                  /\ SetUi(z, q, rnd) = SetZ(z, q, rnd)
                                  /\ CmpUi(x, z) = Compare(x, y)
                                  /\ Mul2exp(x, z, q, rnd) = Mul(x, power, q, rnd)
                                  /\ Div2exp(x, z, q, rnd) = Div(x, power, q, rnd)
                /\ SetZ(z, q, rnd) = Set(IF z = 0 THEN Zero(1, 1) ELSE y, q, rnd)
                /\ z \in Long => CmpSi(x, z) = Compare(x, y) /\ SetSi(z, q, rnd) = SetZ(z, q, rnd)
                /\ Mul2si(x, z, q, rnd) = Mul(x, power, q, rnd)
                /\ Div2si(x, z, q, rnd) = Div(x, power, q, rnd)

-----------------------------------------------------------------------------
(* Rounding to an integer.                                                 *)

\* The value of res is the magnitude of v rounded once to a multiple of the
\* unit 2^g, towards zero, away from it, or to nearest with a rule for ties.
OnIntegers(res, v, q, direction) ==
    LET w == res.value
        g == IF v.exp > q THEN v.exp - q ELSE 0
        N == IF w.kind = "zero" THEN 0
             ELSE IF Scale(w) >= g THEN w.mant * Pow2(Scale(w) - g) ELSE w.mant \div Pow2(g - Scale(w))
        At(n, k) == CompareDyadic(n, k, v.mant, Scale(v))
    IN  /\ Valid(w) /\ w.kind \in {"zero", "normal"} /\ w.prec = q /\ w.sign = v.sign
        /\ w.kind = "normal" => CompareDyadic(N, g, w.mant, Scale(w)) = 0
        /\ res.ternary = v.sign * At(N, g)
        /\ CASE direction = "inward" -> At(N, g) <= 0 /\ At(N + 1, g) > 0
             [] direction = "outward" -> At(N, g) >= 0 /\ At(N - 1, g) < 0
             [] direction = "even" -> /\ At(2 * N + 1, g - 1) >= 0 /\ At(2 * N - 1, g - 1) <= 0
                                      /\ 0 \in {At(2 * N + 1, g - 1), At(2 * N - 1, g - 1)} => N % 2 = 0
             [] direction = "away" -> At(2 * N + 1, g - 1) > 0 /\ At(2 * N - 1, g - 1) <= 0

\* rint rounds once to an integer of the output precision, though it drops the
\* fraction and the bits beyond the precision in one cut; round differs from it
\* at the ties alone.
IntegralIsCorrect ==
    x.kind = "normal" =>
        \A q \in Precision :
            /\ \A rnd \in RoundingMode :
                  OnIntegers(Rint(x, q, rnd), x, q,
                             CASE rnd = "RNDN" -> "even"
                               [] rnd = "RNDZ" \/ (rnd = "RNDU" /\ x.sign = -1) \/ (rnd = "RNDD" /\ x.sign = 1)
                                    -> "inward"
                               [] OTHER -> "outward")
            /\ OnIntegers(Round(x, q), x, q, "away")

\* modf takes a value apart without loss: the parts have its sign, one is an
\* integer, the other is below 1, and together they make the value again.  A
\* value is odd when it is an integer and its half is not.
PartsRecombine ==
    Finite(x) =>
        /\ \A rnd \in RoundingMode :
              LET parts == Modf(x, x.prec, x.prec, rnd)
                  i == parts.iop.value
                  f == parts.fop.value
              IN  /\ parts.iop.ternary = 0 /\ parts.fop.ternary = 0
                  /\ i.sign = x.sign /\ IntegerP(i)
                  /\ f.sign = x.sign /\ (f.kind = "normal" => f.exp <= 0)
                  /\ Add(i, f, x.prec, rnd) = Exactly(x)
                  /\ \A q \in Precision : Frac(x, q, rnd) = Modf(x, x.prec, q, rnd).fop
        /\ OddP(x) <=> IntegerP(x) /\ ~IntegerP(Div2si(x, 1, x.prec, "RNDN").value)

-----------------------------------------------------------------------------
(* Neighbours.                                                             *)

InRange(v) == v.kind = "normal" => v.exp \in EMIN_DEFAULT..EMAX_DEFAULT

\* nextabove goes to the very next value of the precision, across binades,
\* zero and the ends of the range, and nextbelow comes back from it.
NextIsAdjacent ==
    (x.kind # "nan" /\ InRange(x)) =>
        LET above == NextAbove(x)
        IN  IF x.kind = "inf" /\ x.sign = 1 THEN above = x
            ELSE /\ LessP(x, above) /\ InRange(above)
                 /\ EqualP(NextBelow(above), x)
                 /\ (y.prec = x.prec /\ InRange(y)) => ~(LessP(x, y) /\ LessP(y, above))

\* Pairs of pieces of code that share nothing treat the special operands, and
\* the signs of zeros, in the same way.
SpecialsAgree == SignSymmetry /\ DivMulAgree

\* So do the pieces of code that order values: the comparisons and the sign of
\* a difference, the selections before and after rounding, the two neighbours.
OrdersAgree == OrderIsSignOfDifference /\ SelectionsBound /\ NextIsAdjacent

-----------------------------------------------------------------------------
(* mpfr_eq.                                                                *)

FirstBits(v, n) == IF n <= v.prec THEN v.mant \div Pow2(v.prec - n) ELSE v.mant * Pow2(n - v.prec)

\* eval/functions/mpfr_eq/spec.json: "Returns non-zero iff the first n_bits
\* bits agree."
EqComparesFirstBits ==
    (x.kind = "normal" /\ y.kind = "normal") =>
        \A n \in 1 .. PREC_MAX :
            Eq(x, y, n) <=> x.sign = y.sign /\ x.exp = y.exp /\ FirstBits(x, n) = FirstBits(y, n)

-----------------------------------------------------------------------------
(* The exponent range.                                                     *)

\* Does the mode round the magnitude of sign s outward, nearest telling where
\* the nearest value is?
Outward(rnd, s, nearest) ==
    \/ rnd = "RNDA"
    \/ rnd = "RNDU" /\ s = 1
    \/ rnd = "RNDD" /\ s = -1
    \/ rnd = "RNDN" /\ nearest

\* Correct rounding into the bounded exponent range.
RangedCorrectly(res, q, rnd, Cmp(_, _)) ==
    LET s == -Cmp(0, 0)
        AtLeast(n, k) == s * Cmp(s * n, k) <= 0      \* |exact| >= n * 2^k
        tiny == ~AtLeast(1, EMIN_DEFAULT - 1)
        huge == AtLeast(Pow2(q), EMAX_DEFAULT - q)
        aboveHalf == s * Cmp(s, EMIN_DEFAULT - 2) < 0
    IN  /\ tiny => res = IF Outward(rnd, s, aboveHalf) THEN Result(Smallest(s, q), s)
                                                      ELSE Result(Zero(s, q), -s)
        /\ huge => res = IF Outward(rnd, s, TRUE) THEN Result(Inf(s, q), s)
                                                 ELSE Result(Largest(s, q), -s)
        /\ ~tiny /\ ~huge =>
                \/ res.value.kind = "normal" /\ InRange(res.value) /\ CorrectlyRounded(res, q, rnd, Cmp)
                \* Between the largest value and the end of its binade.
                \/ /\ res = Result(Inf(s, q), s)
                   /\ AtLeast(Pow2(q) - 1, EMAX_DEFAULT - q)
                   /\ Outward(rnd, s, AtLeast(Pow2(q + 1) - 1, EMAX_DEFAULT - q - 1))

Checked(res, rnd) == CheckRange(res.value, res.ternary, rnd)

\* An operation followed by check_range rounds once, not twice: the result is
\* the exact one rounded into the bounded range, though check_range sees only
\* the rounded value and its ternary value.
CheckRangeIsCorrect ==
    (x.kind = "normal" /\ y.kind = "normal") =>
        \A q \in Precision, rnd \in RoundingMode :
            /\ SumCmp(x, y, 0, 0) # 0 =>
                  RangedCorrectly(Checked(Add(x, y, q, rnd), rnd), q, rnd, LAMBDA n, k : SumCmp(x, y, n, k))
            /\ RangedCorrectly(Checked(Mul(x, y, q, rnd), rnd), q, rnd, LAMBDA n, k : ProductCmp(x, y, n, k))
            /\ RangedCorrectly(Checked(Div(x, y, q, rnd), rnd), q, rnd, LAMBDA n, k : QuotientCmp(x, y, n, k))

-----------------------------------------------------------------------------
(* A program that walks from x towards y.                                  *)

Walk == mpfr_nexttoward
Strolling == x \in Values /\ y \in ValuesUpTo(TARGET_PREC)
WalkSpec == Strolling /\ [][Walk]_vars /\ WF_vars(Walk)

\* y is one of the values the walk steps on.
OnGrid == ~UnorderedP(x, y) /\ (y.kind = "normal" => y.prec <= x.prec)

\* A walk by nexttoward reaches a value of its own precision, through the
\* binades and through zero, and stays there.
WalkArrives == OnGrid => <>[]EqualP(x, y)

\* No step of the walk goes past y: x stays on its side or comes to equal y.
WalkNeverPasses ==
    [][OnGrid => (Compare(x', y) \in {0, Compare(x, y)})]_vars
=============================================================================
