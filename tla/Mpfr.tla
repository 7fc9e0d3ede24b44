-------------------------------- MODULE Mpfr --------------------------------
(***************************************************************************)
(* The values of the library (src/core.ts), their order                    *)
(* (internal/mpfr/cmp_raw.ts) and the rounding every operation ends in     *)
(* (internal/mpfr/round_raw.ts).                                           *)
(*                                                                         *)
(* A normal value is sign * mant * 2^(exp - prec) with the top bit of its  *)
(* prec-bit mantissa set.  bigint is unbounded, and so is Int.             *)
(***************************************************************************)
EXTENDS Integers

CONSTANTS PREC_MAX, EMAX_DEFAULT

ASSUME PrecAssumption == PREC_MAX \in Nat \ {0}
ASSUME RangeAssumption == EMAX_DEFAULT \in Nat \ {0}

EMIN_DEFAULT == -EMAX_DEFAULT

RoundingMode == {"RNDN", "RNDZ", "RNDU", "RNDD", "RNDA"}
Sign == {1, -1}
Precision == 1..PREC_MAX

\* 1n << n.
Pow2(n) == 2^n

NAN_VALUE == [kind |-> "nan", sign |-> 1, prec |-> 0, exp |-> 0, mant |-> 0]
Inf(s, p) == [kind |-> "inf", sign |-> s, prec |-> p, exp |-> 0, mant |-> 0]
Zero(s, p) == [kind |-> "zero", sign |-> s, prec |-> p, exp |-> 0, mant |-> 0]
Normal(s, p, e, m) == [kind |-> "normal", sign |-> s, prec |-> p, exp |-> e, mant |-> m]

\* What validate accepts.
Valid(x) ==
    \/ x = NAN_VALUE
    \/ \E s \in Sign, p \in Precision : x \in {Inf(s, p), Zero(s, p)}
    \/ /\ x = Normal(x.sign, x.prec, x.exp, x.mant) /\ x.sign \in Sign /\ x.prec \in Precision
       /\ x.exp \in Int /\ x.mant \in Pow2(x.prec - 1) .. Pow2(x.prec) - 1

Result(v, t) == [value |-> v, ternary |-> t]
Exactly(v) == Result(v, 0)

-----------------------------------------------------------------------------
(* roundMantissa.                                                          *)

\* The source mantissa is m; W of its units make one unit in the last place
\* of the output, whose mantissas end before Q.
Increments(trunc, dropped, W, sign, rnd) ==
    CASE rnd = "RNDZ" -> FALSE
      [] rnd = "RNDA" -> TRUE
      [] rnd = "RNDD" -> sign = -1
      [] rnd = "RNDU" -> sign = 1
      [] rnd = "RNDN" -> \/ 2 * dropped > W
                         \/ 2 * dropped = W /\ trunc % 2 = 1

RoundUnits(m, W, Q, e, sign, rnd) ==
    LET trunc == m \div W
        dropped == m % W
    IN  IF dropped = 0
        THEN [mant |-> trunc, exp |-> e, ternary |-> 0]
        ELSE IF ~Increments(trunc, dropped, W, sign, rnd)
        THEN [mant |-> trunc, exp |-> e, ternary |-> -sign]
        ELSE IF trunc + 1 >= Q
        THEN [mant |-> Q \div 2, exp |-> e + 1, ternary |-> sign]
        ELSE [mant |-> trunc + 1, exp |-> e, ternary |-> sign]

\* A mantissa that rounds up to the next power of two is left too long.
RoundNoRenormalise(m, p, e, q, sign, rnd) ==                         \* mutant
    LET r == RoundUnits(m, Pow2(p - q), Pow2(q), e, sign, rnd)
    IN  IF r.exp = e THEN r ELSE [r EXCEPT !.exp = e, !.mant = Pow2(q)]
RoundMantissa(m, p, e, q, sign, rnd) ==
    RoundUnits(m, Pow2(p - q), Pow2(q), e, sign, rnd)

\* What the operations call packNormal: pad to a wider precision, or round.
PackNormal(sign, e, m, p, q, rnd) ==
    IF q >= p
    THEN Exactly(Normal(sign, q, e, m * Pow2(q - p)))
    ELSE LET r == RoundMantissa(m, p, e, q, sign, rnd)
         IN  Result(Normal(sign, q, r.exp, r.mant), r.ternary)

-----------------------------------------------------------------------------
(* compareMPFR.                                                            *)

Sgn(n) == IF n > 0 THEN 1 ELSE IF n < 0 THEN -1 ELSE 0

\* Mantissas of different precisions are not aligned.
CompareMagnitudeUnaligned(a, b) ==                                   \* mutant
    IF a.exp # b.exp THEN Sgn(a.exp - b.exp) ELSE Sgn(a.mant - b.mant)
\* The order of the magnitudes of two normal values.
CompareMagnitude(a, b) ==
    LET p == IF a.prec > b.prec THEN a.prec ELSE b.prec
    IN  IF a.exp # b.exp THEN Sgn(a.exp - b.exp)
        ELSE Sgn(a.mant * Pow2(p - a.prec) - b.mant * Pow2(p - b.prec))

\* null: not one of -1, 0 and 1.
Unordered == 2
Compare(a, b) ==
    CASE a.kind = "nan" \/ b.kind = "nan" -> Unordered
      [] a.kind = "zero" /\ b.kind = "zero" -> 0
      [] a.kind = "inf" /\ b.kind = "inf" -> IF a.sign = b.sign THEN 0 ELSE a.sign
      [] a.kind = "inf" /\ b.kind \in {"zero", "normal"} -> a.sign
      [] a.kind \in {"zero", "normal"} /\ b.kind = "inf" -> -b.sign
      [] a.kind = "zero" /\ b.kind = "normal" -> -b.sign
      [] a.kind = "normal" /\ b.kind = "zero" -> a.sign
      [] a.kind = "normal" /\ b.kind = "normal" ->
            IF a.sign # b.sign THEN a.sign ELSE a.sign * CompareMagnitude(a, b)

-----------------------------------------------------------------------------

\* bitLength: the number of bits of n.
BitLength[n \in Nat] == IF n = 0 THEN 0 ELSE 1 + BitLength[n \div 2]
=============================================================================
