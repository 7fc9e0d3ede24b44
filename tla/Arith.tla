------------------------------- MODULE Arith --------------------------------
(***************************************************************************)
(* The arithmetic of the library: set4, set, neg, abs, copysign, add, sub, *)
(* mul, div and sqrt (src/ops).  Each is a pure function of its operands,  *)
(* an output precision q and a rounding mode; a call with another          *)
(* precision or mode throws before it computes anything.                   *)
(***************************************************************************)
EXTENDS Mpfr

\* An internal check that throws.
EPREC == [value |-> [NAN_VALUE EXCEPT !.kind = "EPREC"], ternary |-> 0]
BoolToInt(b) == IF b THEN 1 ELSE 0

-----------------------------------------------------------------------------
(* mpfr_set4 and the operations that only choose the sign.                 *)

Set4(b, q, rnd, signb) ==
    CASE b.kind = "nan" -> Exactly(NAN_VALUE)
      [] b.kind = "inf" -> Exactly(Inf(signb, q))
      [] b.kind = "zero" -> Exactly(Zero(signb, q))
      [] b.kind = "normal" -> PackNormal(signb, b.exp, b.mant, b.prec, q, rnd)

Set(b, q, rnd) == Set4(b, q, rnd, b.sign)
Neg(x, q, rnd) == Set4(x, q, rnd, -x.sign)
Abs(x, q, rnd) == Set4(x, q, rnd, 1)
CopySign(x, y, q, rnd) == Set4(x, q, rnd, y.sign)

-----------------------------------------------------------------------------
(* mpfr_add and mpfr_sub.                                                  *)

ZeroSumSignAlwaysPlus(s, t, rnd) ==                                  \* mutant
    IF s = -1 /\ t = -1 THEN -1 ELSE 1
ZeroSumSign(s, t, rnd) ==
    IF rnd = "RNDD" THEN IF s = 1 /\ t = 1 THEN 1 ELSE -1
                    ELSE IF s = -1 /\ t = -1 THEN -1 ELSE 1

CancellationZeroSign(rnd) == IF rnd = "RNDD" THEN -1 ELSE 1

\* A carry into one more bit is not noticed.
SumLengthNoCarry(a, b, anchor, magnitude) ==                         \* mutant
    LET lenA == a.exp - anchor
        lenB == b.exp - anchor
    IN  IF lenA > lenB THEN lenA ELSE lenB
\* The bit length of the sum of two magnitudes aligned at anchor.
SumLength(a, b, anchor, magnitude) ==
    LET lenA == a.exp - anchor
        lenB == b.exp - anchor
        maxLen == IF lenA > lenB THEN lenA ELSE lenB
    IN  IF magnitude >= Pow2(maxLen) THEN maxLen + 1 ELSE maxLen

AddNormalNormal(a, b, q, rnd) ==
    LET lowA == a.exp - a.prec
        lowB == b.exp - b.prec
        anchor == IF lowA < lowB THEN lowA ELSE lowB
        am == a.mant * Pow2(lowA - anchor)
        bm == b.mant * Pow2(lowB - anchor)
        Pack(sign, magnitude, L) ==
            IF L = 0 THEN EPREC
                     ELSE PackNormal(sign, anchor + L, magnitude, L, q, rnd)
    IN  CASE a.sign = b.sign -> Pack(a.sign, am + bm, SumLength(a, b, anchor, am + bm))
          [] a.sign # b.sign /\ am = bm -> Exactly(Zero(CancellationZeroSign(rnd), q))
          [] a.sign # b.sign /\ am > bm -> Pack(a.sign, am - bm, BitLength[am - bm])
          [] a.sign # b.sign /\ am < bm -> Pack(b.sign, bm - am, BitLength[bm - am])

Add(a, b, q, rnd) ==
    CASE a.kind = "nan" \/ b.kind = "nan" -> Exactly(NAN_VALUE)
      [] a.kind = "inf" /\ b.kind = "inf" ->
            Exactly(IF a.sign = b.sign THEN Inf(a.sign, q) ELSE NAN_VALUE)
      [] a.kind = "inf" /\ b.kind \in {"zero", "normal"} -> Exactly(Inf(a.sign, q))
      [] a.kind \in {"zero", "normal"} /\ b.kind = "inf" -> Exactly(Inf(b.sign, q))
      [] a.kind = "zero" /\ b.kind = "zero" -> Exactly(Zero(ZeroSumSign(a.sign, b.sign, rnd), q))
      [] a.kind = "zero" /\ b.kind = "normal" -> PackNormal(b.sign, b.exp, b.mant, b.prec, q, rnd)
      [] a.kind = "normal" /\ b.kind = "zero" -> PackNormal(a.sign, a.exp, a.mant, a.prec, q, rnd)
      [] a.kind = "normal" /\ b.kind = "normal" -> AddNormalNormal(a, b, q, rnd)

Sub(a, b, q, rnd) ==
    IF a.kind = "nan" \/ b.kind = "nan"
    THEN Exactly(NAN_VALUE)
    ELSE Add(a, [b EXCEPT !.sign = -b.sign], q, rnd)

-----------------------------------------------------------------------------
(* mpfr_mul.                                                               *)

\* The product always has all its bits.
ProductLengthFull(a, b) == a.prec + b.prec                           \* mutant
ProductLength(a, b) ==
    IF a.mant * b.mant >= Pow2(a.prec + b.prec - 1) THEN a.prec + b.prec
                                                  ELSE a.prec + b.prec - 1

MulNormalNormal(a, b, q, rnd) ==
    LET product == a.mant * b.mant
        L == ProductLength(a, b)
    IN  IF product = 0 THEN EPREC
        ELSE PackNormal(a.sign * b.sign, a.exp + b.exp + (L - a.prec - b.prec), product, L, q, rnd)

Mul(a, b, q, rnd) ==
    LET sign == a.sign * b.sign
    IN  CASE a.kind = "nan" \/ b.kind = "nan" -> Exactly(NAN_VALUE)
          [] {a.kind, b.kind} = {"inf", "zero"} -> Exactly(NAN_VALUE)
          [] {a.kind, b.kind} \in {{"inf"}, {"inf", "normal"}} -> Exactly(Inf(sign, q))
          [] {a.kind, b.kind} \in {{"zero"}, {"zero", "normal"}} -> Exactly(Zero(sign, q))
          [] a.kind = "normal" /\ b.kind = "normal" -> MulNormalNormal(a, b, q, rnd)

-----------------------------------------------------------------------------
(* mpfr_div.                                                               *)

\* finishDiv: quot has q + 1 bits, and sticky says the quotient has more.
FinishDiv(sign, e, quot, q, rnd, sticky) ==
    LET trunc == quot \div 2
        roundBitSet == quot % 2 = 1
        increment == CASE rnd = "RNDN" -> roundBitSet /\ (sticky \/ trunc % 2 = 1)
                       [] rnd = "RNDZ" -> FALSE
                       [] rnd = "RNDA" -> TRUE
                       [] rnd = "RNDD" -> sign = -1
                       [] rnd = "RNDU" -> sign = 1
        carried == trunc + 1 = Pow2(q)
    IN  CASE ~roundBitSet /\ ~sticky -> Exactly(Normal(sign, q, e, trunc))
          [] (roundBitSet \/ sticky) /\ ~increment -> Result(Normal(sign, q, e, trunc), -sign)
          [] (roundBitSet \/ sticky) /\ increment ->
                Result(IF carried THEN Normal(sign, q, e + 1, Pow2(q) \div 2)
                                  ELSE Normal(sign, q, e, trunc + 1), sign)

\* The bit shifted out of a long quotient is lost.
ShortenQuotientLossy(quot, rem) == [quot |-> quot \div 2, rem |-> rem]  \* mutant
ShortenQuotient(quot, rem) ==
    [quot |-> quot \div 2, rem |-> IF quot % 2 = 1 THEN 1 ELSE rem]

DivNormalNormal(a, b, q, rnd) ==
    LET sign == a.sign * b.sign
        shift == q + 1 + b.prec - a.prec
        num == IF shift >= 0 THEN a.mant * Pow2(shift) ELSE a.mant
        divisor == IF shift >= 0 THEN b.mant ELSE b.mant * Pow2(-shift)
        quot == num \div divisor
        rem == num - quot * divisor
        high == Pow2(q + 1)
        short == ShortenQuotient(quot, rem)
    IN  CASE quot < high \div 2 \/ quot >= 2 * high -> EPREC
          [] quot >= high \div 2 /\ quot < high ->
                FinishDiv(sign, a.exp - b.exp, quot, q, rnd, rem # 0)
          [] quot >= high /\ quot < 2 * high ->
                FinishDiv(sign, a.exp - b.exp + 1, short.quot, q, rnd, short.rem # 0)

Div(a, b, q, rnd) ==
    LET sign == a.sign * b.sign
    IN  CASE a.kind = "nan" \/ b.kind = "nan" -> Exactly(NAN_VALUE)
          [] a.kind = b.kind /\ a.kind \in {"inf", "zero"} -> Exactly(NAN_VALUE)
          [] a.kind = "inf" /\ b.kind \in {"zero", "normal"} -> Exactly(Inf(sign, q))
          [] a.kind \in {"zero", "normal"} /\ b.kind = "inf" -> Exactly(Zero(sign, q))
          [] a.kind = "normal" /\ b.kind = "zero" -> Exactly(Inf(sign, q))
          [] a.kind = "zero" /\ b.kind = "normal" -> Exactly(Zero(sign, q))
          [] a.kind = "normal" /\ b.kind = "normal" -> DivNormalNormal(a, b, q, rnd)

-----------------------------------------------------------------------------
(* mpfr_sqrt.                                                              *)

\* isqrt: Newton's iteration from above, until it stops falling.
Isqrt(n) ==
    LET Newton[x \in Nat \ {0}] ==
            LET y == (x + n \div x) \div 2 IN IF y >= x THEN x ELSE Newton[y]
    IN  IF n < 2 THEN n ELSE Newton[Pow2((BitLength[n] + 1) \div 2)]

\* The bits dropped from a long operand are forgotten.
RadicandLossy(x, s) ==                                               \* mutant
    [n |-> IF s >= 0 THEN x.mant * Pow2(s) ELSE x.mant \div Pow2(-s), sticky |-> FALSE]
Radicand(x, s) ==
    IF s >= 0 THEN [n |-> x.mant * Pow2(s), sticky |-> FALSE]
              ELSE [n |-> x.mant \div Pow2(-s), sticky |-> x.mant % Pow2(-s) # 0]

SqrtNormalPositive(x, q, rnd) ==
    LET K == q + 1
        parityAdjust == x.exp % 2
        radicand == Radicand(x, 2 * K - x.prec + parityAdjust)
        root == Isqrt(radicand.n)
        sticky == radicand.n # root * root \/ radicand.sticky
        L == BitLength[root]
        e == (x.exp - 2 * K - parityAdjust) \div 2 + L
        r == RoundMantissa(2 * root + BoolToInt(sticky), L + 1, e, q, 1, rnd)
    IN  IF L < q + 1 THEN EPREC ELSE Result(Normal(1, q, r.exp, r.mant), r.ternary)

Sqrt(x, q, rnd) ==
    CASE x.kind = "nan" -> Exactly(NAN_VALUE)
      [] x.kind = "zero" -> Exactly(Zero(x.sign, q))
      [] x.kind = "inf" -> Exactly(IF x.sign = -1 THEN NAN_VALUE ELSE Inf(1, q))
      [] x.kind = "normal" -> IF x.sign = -1 THEN Exactly(NAN_VALUE)
                                             ELSE SqrtNormalPositive(x, q, rnd)
=============================================================================
